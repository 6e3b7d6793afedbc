SPECIFICATION FairSpec
CONSTANTS
  A = A
  B = B
  chat = chat
  web = web
  repo = repo
  main = main
  dev = dev
  Requests = {r1, r2}
  Inbox <- MixedInbox
  Ids = {A, B}
  Sessions = {1, 2}
  Roots = {chat}
  Repos = {repo}
  RepoOf <- OneRepo
  Branches = {main, dev}
  ResourceBranches = {dev}
  None = None
CHECK_DEADLOCK FALSE
INVARIANTS OneEnding NothingAfterEnding OwnsWorkspace OneRunPerRoot EntryIsLive OwnBranch
PROPERTIES StopHitsOnlyNamed EntryLeavesWithItsRequest StopEndsRun
