SPECIFICATION Spec
CONSTANTS
  dyn = dyn
  stat = stat
  Volumes <- JustDynamic
  Pods = {p1, p2}
  Calls = {c1, c2}
  Dynamic <- JustDynamic
  Client <- DynamicOverlay
  Hazards = {"mount", "umount", "save", "sync", "crash", "tear", "fresh", "repeat"}
  MaxFaults = 3
  MaxSync = 2
  MaxStack = 3
INVARIANT TypeOK
INVARIANT AckedIsMounted
INVARIANT ReleasedIsUnmounted
PROPERTY ImplementsLifecycle
VIEW AllButGauge
CHECK_DEADLOCK FALSE
