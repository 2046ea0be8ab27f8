SPECIFICATION Spec
CONSTANTS
  k1 = k1
  k2 = k2
  k3 = k3
  v1 = v1
  r1 = r1
  r2 = r2
  Keys = {k1, k2, k3}
  Values = {v1}
  Expiring = {}
  Absent = Absent
  Expired = Expired
  None = None
  Hash <- Digests
  BucketCapacity = 1
  MinBucketCount = 1
  CacheSize = 2
  Readers = {r1}

PROPERTY ReopenKeepsRecords
