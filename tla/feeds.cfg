SPECIFICATION FairSpec
CONSTANTS
  Ids = {1, 2, 3}
  Home = 1
  Root <- Replies
  Thread = 1
  Readers = {"reader"}
  PageSize = 1
  InitialStatus <- Starts
  InitialComments = {1, 2}
  Scorings <- Scores
  MaxMoves = 2
INVARIANT ListedOnce
INVARIANT NothingSkipped
INVARIANT VisibleWhenListed
INVARIANT PlayHasStreams
PROPERTY RankingFollows
CHECK_DEADLOCK FALSE
