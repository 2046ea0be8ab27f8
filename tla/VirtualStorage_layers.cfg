SPECIFICATION Spec
CONSTANTS
  t1 = t1
  t2 = t2
  t3 = t3
  k1 = k1
  v1 = v1
  v2 = v2
  Threads = {t1, t2, t3}
  Keys = {k1}
  Values = {v1, v2}
  Expiring = {}
  Absent = Absent
  Expired = Expired
  Volumes <- OneVolume
  MountOptions <- TwoLayers
  Repertoire <- LayeredRepertoire
  MaxMounts = 2
  TheStorage <- StorageA
INVARIANT NoShadowedRecord
