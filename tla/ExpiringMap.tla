---------------------------- MODULE ExpiringMap -----------------------------
(***************************************************************************)
(* What a LinearHashStorage promises: a map from keys to records.  Records *)
(* expire when their time comes, and an expired record, which no get shows *)
(* any more, may be dropped by any later put.                              *)
(***************************************************************************)
CONSTANTS
  Keys,
  Values,
  Expiring,  \* the values stored with a time to live that may pass
  Absent,    \* no record under the key
  Expired    \* a record whose time to live has passed

VARIABLE records

Init == records = [k \in Keys |-> Absent]

Unchanged(key) == records'[key] = records[key]

\* A put may drop expired records of other keys on its way.
Put(key, value) ==
  /\ records'[key] = value
  /\ \A k \in Keys \ {key} :
       Unchanged(k) \/ (records'[k] = Absent /\ records[k] = Expired)

Delete(key) ==
  /\ records'[key] = Absent
  /\ \A k \in Keys \ {key} : Unchanged(k)

Expire(key) ==
  /\ records'[key] = Expired
  /\ records[key] \in Expiring
  /\ \A k \in Keys \ {key} : Unchanged(k)

Next ==
  /\ \E key \in Keys :
       \/ \E value \in Values : Put(key, value)
       \/ Delete(key)
       \/ Expire(key)
  /\ records' \in [Keys -> Values \union {Absent, Expired}]

Spec == Init /\ [][Next]_records
=============================================================================
