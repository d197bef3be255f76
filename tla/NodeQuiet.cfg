SPECIFICATION FairSpec
CONSTANTS
  dyn = dyn
  stat = stat
  Volumes <- BothVolumes
  Pods = {p1, p2}
  Calls = {c1, c2}
  Dynamic <- JustDynamic
  Client <- OverlayAndNfs
  Hazards = {"repeat"}
  MaxFaults = 0
  MaxSync = 1
  MaxStack = 2
INVARIANT GaugeIsCurrent
INVARIANT LowerIsReleased
INVARIANT DynamicRecordUsable
PROPERTY ReleasedIsSynced
CHECK_DEADLOCK FALSE
