SPECIFICATION StopSpec
CONSTANTS
  A = A
  B = B
  chat = chat
  web = web
  repo = repo
  main = main
  dev = dev
  Requests = {r1, r2}
  Inbox <- GatedInbox
  Ids = {A, B}
  Sessions = {1, 2}
  Roots = {chat, web}
  Repos = {repo}
  RepoOf <- OneRepo
  Branches = {main, dev}
  ResourceBranches = {dev}
  None = None
CHECK_DEADLOCK FALSE
INVARIANTS StopIsHeeded
