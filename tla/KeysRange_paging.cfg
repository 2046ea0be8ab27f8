SPECIFICATION Spec
CONSTANTS
  k1 = k1
  k2 = k2
  k3 = k3
  v1 = v1
  Keys = {k1, k2, k3}
  Values = {v1}
  Expiring = {v1}
  Absent = Absent
  Expired = Expired
  Hash <- Digests
  BucketCapacity = 1
  MinBucketCount = 1
  KeysAt <- TwoStorages
  Requests <- Pages
  Word = 8
  MaxReserve = 5
INVARIANTS TypeOK ResultInBounds QuietCallExact OneChangeLosesNothing ThrowsOnHugeRequests
PROPERTY CallReturns
