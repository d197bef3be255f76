SPECIFICATION Spec
CONSTANTS
  dyn = dyn
  stat = stat
  Volumes <- JustDynamic
  Pods = {p1}
  Calls = {c1}
  Dynamic <- JustDynamic
  Client <- DynamicOverlay
  Hazards = {}
  MaxFaults = 0
  MaxSync = 2
  MaxStack = 2
PROPERTY NoWriteLost
VIEW AllButGauge
