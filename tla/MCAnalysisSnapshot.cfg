SPECIFICATION MCSpec
CONSTANTS
  main = main
  dev = dev
  f1 = f1
  f2 = f2
  f3 = f3
  r1 = r1
  r2 = r2
  Requests = {r1, r2}
  Asks <- MCAsks
  Branches = {main, dev}
  Files = {f1, f2, f3}
  Tracked = {f1}
  OurFiles = {f1}
  TheirFiles = {f1, f3}
  Ignored = {f3}
  Base = Base
  Ours = Ours
  Theirs = Theirs
  Local = Local
  Marked = Marked
  Absent = Absent
  None = None
  MaxEdits = 2
  Stamps = {0}
CHECK_DEADLOCK FALSE
INVARIANTS CommitIsSelected MergedWhenSaid SnapshotSound
PROPERTIES OnlySelectedLost HistoryGrows
SYMMETRY Symmetry
