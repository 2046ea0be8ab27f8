---------------------------- MODULE MCMountTable ----------------------------
(***************************************************************************)
(* Volumes, paths and mount options for the runs of MountTable.            *)
(***************************************************************************)
EXTENDS MountTable

v == <<"v">>
w == <<"w">>
u == <<"u">>
vw == <<"v", ":", "w", "/", "x">>

OneVolume == {v}
TwoVolumes == {v, w}
FourVolumes == {u, v, w, vw}

A == <<"A">>
B == <<"B">>
C == <<"C">>
X == <<"X">>
xA == <<"x", ":", "A">>

option(mountPath, volume, nodePath, priority) ==
  [mountPath |-> mountPath, volume |-> volume, nodePath |-> nodePath, priority |-> priority]

(***************************************************************************)
(* Nested subtrees of one volume, mounted so that they overlap: A at X and *)
(* A/B at X/B bring the storage A/B to X/B twice, and with two priorities. *)
(* "AB" has "A" as a string prefix without being below it.  A second       *)
(* volume is mounted at the same node.                                     *)
(***************************************************************************)
Overlapping ==
  {option(<<X>>, v, <<A>>, 1), option(<<X, B>>, v, <<A, B>>, 0),
   option(<<X>>, v, <<A, B, C>>, 1), option(<<X>>, v, <<A \o B>>, 0),
   option(<<X>>, w, <<A>>, 0)}

(***************************************************************************)
(* A node of a volume whose path has a colon, and behind it a "/", and one *)
(* of another volume with the same key, "v:w/x:A".                         *)
(***************************************************************************)
Colliding == {option(<<X>>, vw, <<A>>, 0), option(<<X>>, v, <<w, xA>>, 0)}

(***************************************************************************)
(* These, and a volume whose file cannot be opened.                        *)
(***************************************************************************)
AnyMount == Overlapping \union Colliding \union {option(<<X>>, u, <<A>>, 0)}

(***************************************************************************)
(* Two nodes of a volume whose paths, joined by underscores, are equal.    *)
(***************************************************************************)
Underscored ==
  {option(<<X>>, v, <<A, B>>, 0), option(<<X>>, v, <<<<"A", "_", "B">>>>, 0)}

NoVolumes == {}
UnopenedU == {u}

NoThrows == [place \in {"acquire", "remount"} |-> 0]
ThrowsAnywhere == [place \in {"acquire", "remount"} |-> 1]
=============================================================================
