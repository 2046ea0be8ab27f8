SPECIFICATION Spec
CONSTANTS
  Volumes <- FourVolumes
  MountOptions <- AnyMount
  UnopenedVolumes <- UnopenedU
  MaxMounts = 3
  MaxThrows <- ThrowsAnywhere
  MaxRestarts = 1
INVARIANTS TypeOK CountsMatchMounts NoDanglingStorage NoLeakedStorage EntriesMatchMounts NoPriorityGained PriorityOrder WholeSubtreeMounted AssertionsHold
CHECK_DEADLOCK FALSE
