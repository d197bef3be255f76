SPECIFICATION Spec
CONSTANTS
  dyn = dyn
  stat = stat
  Volumes <- JustStatic
  Pods = {p1, p2}
  Calls = {c1, c2}
  Dynamic = {}
  Client <- StaticOverlay
  Hazards = {}
  MaxFaults = 0
  MaxSync = 1
  MaxStack = 2
INVARIANT IrodsIntact
SYMMETRY Interchangeable
VIEW AllButGauge
