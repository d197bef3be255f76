SPECIFICATION Spec
CONSTANTS
  dyn = dyn
  stat = stat
  Volumes <- BothVolumes
  Pods = {p1, p2}
  Calls = {c1, c2}
  Dynamic <- JustDynamic
  Client <- OverlayAndNfs
  Hazards = {"crash", "tear", "fresh", "repeat"}
  MaxFaults = 2
  MaxSync = 1
  MaxStack = 2
INVARIANT DataRootAlive
INVARIANT IrodsIntact
PROPERTY NoWriteLost
VIEW AllButGauge
SYMMETRY Interchangeable
CHECK_DEADLOCK FALSE
