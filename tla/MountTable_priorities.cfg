SPECIFICATION Spec
CONSTANTS
  Volumes <- TwoVolumes
  MountOptions <- Overlapping
  UnopenedVolumes <- NoVolumes
  MaxMounts = 2
  MaxThrows <- NoThrows
  MaxRestarts = 0
INVARIANT PrioritiesMatchMounts
CHECK_DEADLOCK FALSE
