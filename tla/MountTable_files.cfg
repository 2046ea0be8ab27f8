SPECIFICATION Spec
CONSTANTS
  Volumes <- OneVolume
  MountOptions <- Underscored
  UnopenedVolumes <- NoVolumes
  MaxMounts = 2
  MaxThrows <- NoThrows
  MaxRestarts = 0
INVARIANT OwnDataFiles
CHECK_DEADLOCK FALSE
