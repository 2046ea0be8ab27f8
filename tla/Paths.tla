------------------------------- MODULE Paths --------------------------------
(***************************************************************************)
(* Paths of virtual nodes and of volume nodes, and the strings the code    *)
(* makes of them.  A path is the sequence of components utility::split     *)
(* yields; a component is a short sequence of atoms, so that one component *)
(* may be a prefix of another ("A" of "AB") and may contain the underscore *)
(* that data file names use as a separator or the colon of registry keys.  *)
(* No component holds a "/", but a component may be empty ("/A", "A//B").  *)
(***************************************************************************)
EXTENDS Naturals, SequencesExt

Component == Seq(STRING \ {"/"})

Path == Seq(Component)

(***************************************************************************)
(* utility::split at "/", which keeps empty components and yields one      *)
(* component at least.                                                     *)
(***************************************************************************)
Split(string) ==
  LET cut[n \in 0..Len(string)] ==
        IF n = 0 THEN << <<>> >>
        ELSE IF string[n] = "/" THEN Append(cut[n - 1], <<>>)
        ELSE [cut[n - 1] EXCEPT ![Len(cut[n - 1])] = Append(@, string[n])]
  IN cut[Len(string)]

(***************************************************************************)
(* The string a path was split from: "/" between every two components.     *)
(***************************************************************************)
PathString(path) ==
  LET joined[n \in 0..Len(path)] ==
        IF n = 0 THEN <<>>
        ELSE IF n = 1 THEN path[1]
        ELSE joined[n - 1] \o <<"/">> \o path[n]
  IN joined[Len(path)]

(***************************************************************************)
(* findTreeNode() puts an underscore before a component unless the name is *)
(* still empty.                                                            *)
(***************************************************************************)
DataFileName(path) ==
  LET name[n \in 0..Len(path)] ==
        IF n = 0 THEN <<>>
        ELSE IF name[n - 1] = <<>> THEN path[n]
        ELSE name[n - 1] \o <<"_">> \o path[n]
  IN name[Len(path)]

\* Mutant of startsWith: the arguments are swapped.
startsWith_swapped(value, starting) == IsPrefix(PathString(value), PathString(starting))

(***************************************************************************)
(* utility::startsWith compares strings, not paths.                        *)
(***************************************************************************)
startsWith(value, starting) == IsPrefix(PathString(starting), PathString(value))

(***************************************************************************)
(* The nodes one passes from the root to `path', the root left out.        *)
(***************************************************************************)
NodesTo(path) == {SubSeq(path, 1, n) : n \in 1..Len(path)}

IsInSubtree(path, root) == IsPrefix(root, path)

(***************************************************************************)
(* Where a node of the subtree at `from' lands when that is mounted `at'.  *)
(***************************************************************************)
Transplant(path, from, at) == at \o SubSeq(path, Len(from) + 1, Len(path))
=============================================================================
