SPECIFICATION Spec
CONSTANTS
  Volumes <- TwoVolumes
  MountOptions <- Overlapping
  UnopenedVolumes <- NoVolumes
  MaxMounts = 2
  MaxThrows <- NoThrows
  MaxRestarts = 1
PROPERTY HierarchySurvives
CHECK_DEADLOCK FALSE
