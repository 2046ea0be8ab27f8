SPECIFICATION Spec
CONSTANTS
  k1 = k1
  k2 = k2
  k3 = k3
  k4 = k4
  k5 = k5
  k6 = k6
  Keys = {k1, k2, k3, k4, k5, k6}
  Values = {v1, v2}
  Expiring = {v1}
  Absent = Absent
  Expired = Expired
  v1 = v1
  v2 = v2
  Hash <- Digests
  BucketCapacity = 2
  MinBucketCount = 1
INVARIANTS TypeOK BucketsMatchLevel RecordsInTheirChain SizeMatchesRecords LoadInBounds
PROPERTY ImplementsMap
