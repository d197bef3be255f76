SPECIFICATION Spec
CONSTANTS
  dyn = dyn
  stat = stat
  Volumes <- BothVolumes
  Pods = {p1}
  Calls = {c1, c2}
  Dynamic <- JustDynamic
  Client <- IrodsfsAndWebdav
  Hazards = {"mount", "umount", "save", "sync", "crash", "tear", "fresh", "repeat", "timeout"}
  MaxFaults = 2
  MaxSync = 1
  MaxStack = 2
INVARIANT RecordsAreWhole
SYMMETRY Interchangeable
VIEW AllButGauge
CHECK_DEADLOCK FALSE
