SPECIFICATION Spec
CONSTANTS
  u1 = u1
  u2 = u2
  Users = {u1, u2}
  Owner = u1
  Marks = {"like"}
  Comments = {1, 2, 3}
  Danmakus = {11}
  Author <- TwoAuthors
  Likes <- LikesOfFirst
  Requests = {r1, r2}
  Nobody = Nobody
  Overlapping = FALSE
SYMMETRY RequestSymmetry
INVARIANT CountersMatch
INVARIANT CommentLikesCounted
INVARIANT EveryCommentReachable
