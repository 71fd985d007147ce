SPECIFICATION Spec
CONSTANTS
  u1 = u1
  u2 = u2
  Users = {u1, u2}
  Owner = u1
  Marks = {}
  Comments = {1}
  Danmakus = {}
  Author <- TwoAuthors
  Likes <- LikesOfFirst
  Requests = {r1, r2}
  Nobody = Nobody
  Overlapping = TRUE
INVARIANT CommentLikesCounted
