SPECIFICATION Spec
CONSTANTS
  dyn = dyn
  stat = stat
  Volumes <- JustDynamic
  Pods = {p1}
  Calls = {c1}
  Dynamic <- JustDynamic
  Client <- DynamicOverlay
  Hazards = {"crash", "fresh"}
  MaxFaults = 1
  MaxSync = 1
  MaxStack = 2
PROPERTY RestartKeepsWrites
CHECK_DEADLOCK FALSE
