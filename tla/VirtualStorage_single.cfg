SPECIFICATION FairSpec
CONSTANTS
  t1 = t1
  t2 = t2
  t3 = t3
  k1 = k1
  v1 = v1
  v2 = v2
  Threads = {t1, t2, t3}
  Keys = {k1}
  Values = {v1, v2}
  Expiring = {v1}
  Absent = Absent
  Expired = Expired
  Volumes <- OneVolume
  MountOptions <- AtX
  Repertoire <- SingleRepertoire
  MaxMounts = 2
  TheStorage <- StorageA
INVARIANTS TypeOK StoragesInUseLoaded MountExclusive NoConflictingAccess
PROPERTIES IterationStable Linearizable EveryCallReturns
