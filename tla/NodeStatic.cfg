SPECIFICATION Spec
CONSTANTS
  dyn = dyn
  stat = stat
  Volumes <- JustStatic
  Pods = {p1, p2}
  Calls = {c1, c2}
  Dynamic = {}
  Client <- StaticIrodsfs
  Hazards = {"mount", "umount", "save", "crash", "tear", "fresh", "repeat"}
  MaxFaults = 3
  MaxSync = 1
  MaxStack = 3
INVARIANT ReleasedIsUnmounted
VIEW AllButGauge
CHECK_DEADLOCK FALSE
