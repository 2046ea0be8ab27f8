SPECIFICATION FairSpec
CONSTANTS
  Threads = {t1, t2, t3, t4}
  Modes <- NodeModes
INVARIANTS TypeOK HoldersCompatible NoLostWakeup ListsMatchThreads
PROPERTIES NoOvertaking EveryLockGranted
