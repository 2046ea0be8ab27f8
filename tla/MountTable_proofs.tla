-------------------------- MODULE MountTable_proofs -------------------------
(***************************************************************************)
(* The mount table keeps its promises for any volumes, any mount options   *)
(* and any number of mounts, exceptions and restarts.  In this order: the  *)
(* strings keys are made of, the registry, the vectors and trees of nodes, *)
(* the accounts of counters and entries, the invariant, one lemma per      *)
(* action, the theorems, and the trees of the volumes.                     *)
(***************************************************************************)
EXTENDS MountTable, SequenceLemmas
-----------------------------------------------------------------------------
(***************************************************************************)
(* The strings of paths: splitting a string and joining the components     *)
(* undo each other, so that a key of a volume belongs to one node.         *)
(***************************************************************************)
Char == STRING \union {"/", ":"}

Text == Seq(Char)

Piece == Seq(Char \ {"/"})

\* The path after one more character of its string.
Cut(path, atom) ==
  IF atom = "/" THEN Append(path, <<>>)
  ELSE [path EXCEPT ![Len(path)] = Append(@, atom)]

\* The rows of the recursion of Split.
LEMMA SplitRows ==
  ASSUME NEW text \in Text
  PROVE  \E cut : /\ cut[0] = << <<>> >>
                  /\ \A k \in 1..Len(text) : cut[k] = Cut(cut[k - 1], text[k])
                  /\ Split(text) = cut[Len(text)]
<1> DEFINE n == Len(text)
           Row(f, k) == IF k = 0 THEN << <<>> >>
                        ELSE IF text[k] = "/" THEN Append(f[k - 1], <<>>)
                        ELSE [f[k - 1] EXCEPT ![Len(f[k - 1])] = Append(@, text[k])]
           Built(f, m) == f = [k \in 0..m |-> Row(f, k)]
           Exists(m) == \E f : Built(f, m)
           T == {m \in 0..n : Exists(m)}
           cut == CHOOSE f : Built(f, n)
<1>1. n \in Nat
  BY DEF Text
<1>2. Exists(0)
  <2> DEFINE g == [k \in 0..0 |-> << <<>> >>]
  <2>1. g = [k \in 0..0 |-> Row(g, k)]
    <3>1. \A k \in 0..0 : Row(g, k) = << <<>> >>
      OBVIOUS
    <3> HIDE DEF Row
    <3> QED
      BY <3>1
  <2>2. Built(g, 0)
    BY <2>1, Zenon
  <2> HIDE DEF Built
  <2> QED
    BY <2>2
<1>3. ASSUME NEW m \in 1..n, Exists(m - 1) PROVE Exists(m)
  <2>1. PICK f : Built(f, m - 1)
    BY <1>3, Zenon
  <2> DEFINE g == [k \in 0..m |-> Row(f, k)]
  <2>2. ASSUME NEW k \in 0..m PROVE Row(g, k) = Row(f, k)
    <3>1. CASE k = 0
      BY <3>1, Zenon
    <3>2. CASE k # 0
      <4>1. k - 1 \in 0..(m - 1) /\ k - 1 \in 0..m
        BY <1>1, <3>2
      <4>2. f[k - 1] = Row(f, k - 1)
        BY <2>1, <4>1, Zenon
      <4>3. g[k - 1] = Row(f, k - 1)
        BY <4>1, Zenon
      <4> HIDE DEF g
      <4> QED
        BY <4>2, <4>3, Zenon
    <3> QED
      BY <3>1, <3>2
  <2>3. Built(g, m)
    <3>1. \A k \in 0..m : Row(g, k) = Row(f, k)
      BY <2>2
    <3> HIDE DEF Row
    <3> QED
      BY <3>1
  <2> HIDE DEF Built, g
  <2> QED
    BY <2>3
<1>4. Exists(n)
  <2> HIDE DEF Exists, n
  <2>1. 0 \in T
    BY <1>1, <1>2
  <2>2. \A m \in 1..n : m - 1 \in T => m \in T
    BY <1>1, <1>3
  <2> HIDE DEF T
  <2>3. n \in T
    BY <1>1, <2>1, <2>2, UpTo
  <2> QED
    BY <2>3 DEF T
<1>5. Built(cut, n)
  <2> HIDE DEF Built
  <2> QED
    BY <1>4, Zenon
<1>6. Split(text) = cut[n]
  BY Zenon DEF Split
<1> HIDE DEF cut
<1>7. \A k \in 0..n : cut[k] = Row(cut, k)
  BY <1>5, Zenon
<1>8. cut[0] = << <<>> >>
  <2>1. 0 \in 0..n
    BY <1>1
  <2> QED
    BY <1>7, <2>1, Zenon
<1>9. ASSUME NEW k \in 1..n PROVE cut[k] = Cut(cut[k - 1], text[k])
  <2>1. k \in 0..n /\ k # 0
    BY <1>1
  <2> QED
    BY <1>7, <2>1, Zenon DEF Cut
<1> QED
  BY <1>6, <1>8, <1>9

\* The string after one more component.
Glued(string, comp, k) == IF k = 1 THEN comp ELSE string \o <<"/">> \o comp

\* The rows of the recursion of PathString.
LEMMA PathStringRows ==
  ASSUME NEW path, Len(path) \in Nat
  PROVE  \E joined : /\ joined[0] = <<>>
                     /\ \A k \in 1..Len(path) : joined[k] = Glued(joined[k - 1], path[k], k)
                     /\ PathString(path) = joined[Len(path)]
<1> DEFINE n == Len(path)
           Row(f, k) == IF k = 0 THEN <<>>
                        ELSE IF k = 1 THEN path[1]
                        ELSE f[k - 1] \o <<"/">> \o path[k]
           Built(f, m) == f = [k \in 0..m |-> Row(f, k)]
           Exists(m) == \E f : Built(f, m)
           T == {m \in 0..n : Exists(m)}
           joined == CHOOSE f : Built(f, n)
<1>1. n \in Nat
  OBVIOUS
<1>2. Exists(0)
  <2> DEFINE g == [k \in 0..0 |-> <<>>]
  <2>1. g = [k \in 0..0 |-> Row(g, k)]
    <3>1. \A k \in 0..0 : Row(g, k) = <<>>
      OBVIOUS
    <3> HIDE DEF Row
    <3> QED
      BY <3>1
  <2>2. Built(g, 0)
    BY <2>1, Zenon
  <2> HIDE DEF Built
  <2> QED
    BY <2>2
<1>3. ASSUME NEW m \in 1..n, Exists(m - 1) PROVE Exists(m)
  <2>1. PICK f : Built(f, m - 1)
    BY <1>3, Zenon
  <2> DEFINE g == [k \in 0..m |-> Row(f, k)]
  <2>2. ASSUME NEW k \in 0..m PROVE Row(g, k) = Row(f, k)
    <3>1. CASE k = 0
      BY <3>1, Zenon
    <3>2. CASE k # 0
      <4>1. k - 1 \in 0..(m - 1) /\ k - 1 \in 0..m
        BY <1>1, <3>2
      <4>2. f[k - 1] = Row(f, k - 1)
        BY <2>1, <4>1, Zenon
      <4>3. g[k - 1] = Row(f, k - 1)
        BY <4>1, Zenon
      <4> HIDE DEF g
      <4> QED
        BY <4>2, <4>3, Zenon
    <3> QED
      BY <3>1, <3>2
  <2>3. Built(g, m)
    <3>1. \A k \in 0..m : Row(g, k) = Row(f, k)
      BY <2>2
    <3> HIDE DEF Row
    <3> QED
      BY <3>1
  <2> HIDE DEF Built, g
  <2> QED
    BY <2>3
<1>4. Exists(n)
  <2> HIDE DEF Exists, n
  <2>1. 0 \in T
    BY <1>1, <1>2
  <2>2. \A m \in 1..n : m - 1 \in T => m \in T
    BY <1>1, <1>3
  <2> HIDE DEF T
  <2>3. n \in T
    BY <1>1, <2>1, <2>2, UpTo
  <2> QED
    BY <2>3 DEF T
<1>5. Built(joined, n)
  <2> HIDE DEF Built
  <2> QED
    BY <1>4, Zenon
<1>6. PathString(path) = joined[n]
  BY Zenon DEF PathString
<1> HIDE DEF joined
<1>7. \A k \in 0..n : joined[k] = Row(joined, k)
  BY <1>5, Zenon
<1>8. joined[0] = <<>>
  <2>1. 0 \in 0..n
    BY <1>1
  <2> QED
    BY <1>7, <2>1, Zenon
<1>9. ASSUME NEW k \in 1..n PROVE joined[k] = Glued(joined[k - 1], path[k], k)
  <2>1. k \in 0..n /\ k # 0
    BY <1>1
  <2> QED
    BY <1>7, <2>1, Zenon DEF Glued
<1> QED
  BY <1>6, <1>8, <1>9

-----------------------------------------------------------------------------
\* Sequences of the same length and elements are equal.
LEMMA SameText ==
  ASSUME NEW S, NEW x \in Seq(S), NEW y \in Seq(S), Len(x) = Len(y),
         \A i \in 1..Len(x) : x[i] = y[i]
  PROVE  x = y
BY SeqEqual

\* The separators of paths and of keys.
LEMMA SlashFacts ==
  /\ "/" \in Char /\ ":" \in Char /\ "/" # ":"
  /\ <<"/">> \in Text /\ Len(<<"/">>) = 1 /\ <<"/">>[1] = "/"
  /\ <<":">> \in Text /\ Len(<<":">>) = 1 /\ <<":">>[1] = ":"
<1>1. "/" \in Char /\ ":" \in Char /\ "/" # ":"
  BY DEF Char
<1> QED
  BY <1>1, OneElement DEF Text

\* Every path is made of pieces without a separator, every volume path is a text.
LEMMA PathIsText ==
  /\ Piece \subseteq Text /\ Component \subseteq Piece
  /\ \A c \in Piece : \A i \in 1..Len(c) : c[i] # "/"
  /\ <<>> \in Piece
  /\ Path \subseteq Seq(Piece)
  /\ Volumes \subseteq Text
<1>1. ASSUME NEW c \in Piece PROVE c \in Text /\ \A i \in 1..Len(c) : c[i] # "/"
  BY DEF Piece, Text
<1>2. <<>> \in Piece
  BY DEF Piece
<1>3. Component \subseteq Piece
  BY DEF Component, Piece, Char
<1>4. Path \subseteq Seq(Piece)
  BY <1>3 DEF Path
<1>5. Volumes \subseteq Text
  BY VolumesAssumption DEF Text, Char
<1> QED
  BY <1>1, <1>2, <1>3, <1>4, <1>5

(***************************************************************************)
(* Splitting yields a path, and goes character by character.               *)
(***************************************************************************)
LEMMA CutFacts ==
  ASSUME NEW path \in Seq(Piece), path # <<>>, NEW atom \in Char
  PROVE  Cut(path, atom) \in Seq(Piece) /\ Cut(path, atom) # <<>>
<1>1. Len(path) \in Nat /\ Len(path) \in 1..Len(path) /\ path[Len(path)] \in Piece
  BY EmptySeq
<1>2. CASE atom = "/"
  <2>1. Cut(path, atom) = Append(path, <<>>)
    BY <1>2 DEF Cut
  <2>2. <<>> \in Piece /\ path \in Seq(Piece)
    BY PathIsText
  <2>3. Append(path, <<>>) \in Seq(Piece) /\ Len(Append(path, <<>>)) = Len(path) + 1
    BY <2>2, AppendProperties
  <2> QED
    BY <1>1, <2>1, <2>3, EmptySeq
<1>3. CASE atom # "/"
  <2> DEFINE last == Append(path[Len(path)], atom)
  <2>1. last \in Piece
    BY <1>1, <1>3, AppendProperties DEF Piece
  <2>2. Cut(path, atom) = [path EXCEPT ![Len(path)] = last]
    BY <1>3 DEF Cut
  <2> HIDE DEF last
  <2>3. [path EXCEPT ![Len(path)] = last] \in Seq(Piece)
        /\ Len([path EXCEPT ![Len(path)] = last]) = Len(path)
    BY <1>1, <2>1, ExceptSeq
  <2> QED
    BY <1>1, <2>2, <2>3, EmptySeq
<1> QED
  BY <1>2, <1>3

\* Each row of Split is a nonempty sequence of pieces.
LEMMA SplitCuts ==
  ASSUME NEW text \in Text, NEW cut, cut[0] = << <<>> >>,
         \A k \in 1..Len(text) : cut[k] = Cut(cut[k - 1], text[k]),
         NEW k \in 0..Len(text)
  PROVE  cut[k] \in Seq(Piece) /\ cut[k] # <<>>
<1> DEFINE T == {m \in 0..Len(text) : cut[m] \in Seq(Piece) /\ cut[m] # <<>>}
<1>1. Len(text) \in Nat /\ \A m \in 1..Len(text) : text[m] \in Char
  BY DEF Text
<1>2. 0 \in T
  <2> DEFINE start == << <<>> >>
  <2>1. start \in Seq(Piece) /\ start # <<>>
    BY PathIsText
  <2>2. cut[0] = start
    OBVIOUS
  <2> HIDE DEF start
  <2> QED
    BY <1>1, <2>1, <2>2
<1>3. ASSUME NEW m \in 1..k, m - 1 \in T PROVE m \in T
  <2>1. m \in 1..Len(text) /\ m \in 0..Len(text)
    BY <1>1
  <2>2. cut[m] = Cut(cut[m - 1], text[m]) /\ text[m] \in Char
    BY <1>1, <2>1
  <2>3. cut[m] \in Seq(Piece) /\ cut[m] # <<>>
    BY <1>3, <2>2, CutFacts
  <2> QED
    BY <2>1, <2>3
<1> HIDE DEF T
<1>4. k \in T
  BY <1>1, <1>2, <1>3, UpTo
<1> QED
  BY <1>4 DEF T

\* Split yields one piece at least.
LEMMA SplitType ==
  ASSUME NEW text \in Text
  PROVE  Split(text) \in Seq(Piece) /\ Split(text) # <<>>
<1>1. PICK cut : /\ cut[0] = << <<>> >>
                 /\ \A k \in 1..Len(text) : cut[k] = Cut(cut[k - 1], text[k])
                 /\ Split(text) = cut[Len(text)]
  BY SplitRows
<1>2. Len(text) \in 0..Len(text)
  BY DEF Text
<1> QED
  BY <1>1, <1>2, SplitCuts

\* The empty string is one empty piece.
LEMMA SplitEmpty == Split(<<>>) = << <<>> >>
<1>1. <<>> \in Text /\ Len(<<>>) = 0
  BY DEF Text
<1> QED
  BY <1>1, SplitRows

\* One more character cuts the path once more.
LEMMA SplitAppend ==
  ASSUME NEW text \in Text, NEW atom \in Char
  PROVE  Split(Append(text, atom)) = Cut(Split(text), atom)
<1> DEFINE more == Append(text, atom)
           n == Len(text)
<1>1. /\ more \in Text /\ Len(more) = n + 1 /\ n \in Nat
      /\ \A k \in 1..n : more[k] = text[k]
      /\ more[n + 1] = atom
  BY AppendProperties DEF Text
<1>2. PICK a : /\ a[0] = << <<>> >>
               /\ \A k \in 1..n : a[k] = Cut(a[k - 1], text[k])
               /\ Split(text) = a[n]
  BY SplitRows
<1>3. PICK b : /\ b[0] = << <<>> >>
               /\ \A k \in 1..(n + 1) : b[k] = Cut(b[k - 1], more[k])
               /\ Split(more) = b[n + 1]
  <2>1. more \in Text /\ Len(more) = n + 1
    BY <1>1
  <2> HIDE DEF more, n
  <2> QED
    BY <2>1, SplitRows
<1> HIDE DEF more, n
<1>4. a[n] = b[n]
  <2> DEFINE T == {k \in 0..n : a[k] = b[k]}
  <2>1. 0 \in T
    BY <1>1, <1>2, <1>3
  <2>2. ASSUME NEW k \in 1..n, k - 1 \in T PROVE k \in T
    <3>1. k \in 0..n /\ k \in 1..(n + 1)
      BY <1>1
    <3>2. a[k] = Cut(a[k - 1], text[k]) /\ b[k] = Cut(b[k - 1], text[k])
      BY <1>1, <1>2, <1>3, <3>1
    <3> QED
      BY <2>2, <3>1, <3>2
  <2> HIDE DEF T
  <2>3. n \in T
    BY <1>1, <2>1, <2>2, UpTo
  <2> QED
    BY <2>3 DEF T
<1>5. n + 1 \in 1..(n + 1) /\ (n + 1) - 1 = n
  BY <1>1
<1> QED
  BY <1>1, <1>2, <1>3, <1>4, <1>5 DEF more

-----------------------------------------------------------------------------
\* A path with another last component.
WithLast(path, comp) == [path EXCEPT ![Len(path)] = comp]

\* Replacing the last component changes nothing else.
LEMMA WithLastFacts ==
  ASSUME NEW path \in Seq(Piece), path # <<>>, NEW comp \in Piece
  PROVE  /\ WithLast(path, comp) \in Seq(Piece) /\ WithLast(path, comp) # <<>>
         /\ Len(WithLast(path, comp)) = Len(path)
         /\ WithLast(path, comp)[Len(path)] = comp
         /\ \A k \in 1..(Len(path) - 1) : WithLast(path, comp)[k] = path[k]
<1>1. Len(path) \in Nat /\ Len(path) \in 1..Len(path)
  BY EmptySeq
<1>2. /\ WithLast(path, comp) \in Seq(Piece)
      /\ Len(WithLast(path, comp)) = Len(path)
      /\ \A k \in 1..Len(path) : WithLast(path, comp)[k] = IF k = Len(path) THEN comp ELSE path[k]
  BY <1>1, ExceptSeq DEF WithLast
<1> QED
  BY <1>1, <1>2, EmptySeq

\* Appending to the second of two texts appends to both.
LEMMA ConcatAppend ==
  ASSUME NEW S, NEW x \in Seq(S), NEW y \in Seq(S), NEW a \in S
  PROVE  x \o Append(y, a) = Append(x \o y, a)
<1>1. <<a>> \in Seq(S)
  BY OneElement
<1>2. Append(y, a) = y \o <<a>>
  BY AppendIsConcat
<1>3. x \o y \in Seq(S)
  BY ConcatProperties
<1>4. Append(x \o y, a) = (x \o y) \o <<a>>
  BY <1>3, AppendIsConcat
<1> QED
  BY <1>1, <1>2, <1>4, ConcatAssociative

\* A character other than the separator goes to the last component.
LEMMA CutLast ==
  ASSUME NEW path \in Seq(Piece), path # <<>>, NEW comp \in Piece, NEW a \in Char, a # "/"
  PROVE  Cut(WithLast(path, comp), a) = WithLast(path, Append(comp, a))
<1> DEFINE w == WithLast(path, comp)
           more == Append(comp, a)
           z == WithLast(path, more)
           c == Cut(w, a)
<1>1. /\ w \in Seq(Piece) /\ w # <<>> /\ Len(w) = Len(path) /\ w[Len(path)] = comp
      /\ \A i \in 1..(Len(path) - 1) : w[i] = path[i]
  BY WithLastFacts
<1>2. more \in Piece
  BY AppendProperties DEF Piece
<1>3. /\ z \in Seq(Piece) /\ Len(z) = Len(path) /\ z[Len(path)] = more
      /\ \A i \in 1..(Len(path) - 1) : z[i] = path[i]
  BY <1>2, WithLastFacts
<1>4. c = WithLast(w, more)
  <2> HIDE DEF w
  <2> QED
    BY <1>1 DEF Cut, WithLast
<1> HIDE DEF w, more, z, c
<1>5. /\ c \in Seq(Piece) /\ Len(c) = Len(w) /\ c[Len(w)] = more
      /\ \A i \in 1..(Len(w) - 1) : c[i] = w[i]
  <2>1. w \in Seq(Piece) /\ w # <<>> /\ more \in Piece
    BY <1>1, <1>2
  <2>2. /\ WithLast(w, more) \in Seq(Piece)
        /\ Len(WithLast(w, more)) = Len(w)
        /\ WithLast(w, more)[Len(w)] = more
        /\ \A i \in 1..(Len(w) - 1) : WithLast(w, more)[i] = w[i]
    BY <2>1, WithLastFacts
  <2> QED
    BY <1>4, <2>2
<1>6. Len(path) \in Nat
  OBVIOUS
<1>7. ASSUME NEW i \in 1..Len(path) PROVE c[i] = z[i]
  <2>1. CASE i = Len(path)
    BY <1>1, <1>3, <1>5, <2>1
  <2>2. CASE i # Len(path)
    <3>1. i \in 1..(Len(path) - 1)
      BY <1>6, <2>2
    <3> QED
      BY <1>1, <1>3, <1>5, <3>1
  <2> QED
    BY <2>1, <2>2
<1>8. c = z
  BY <1>1, <1>3, <1>5, <1>7, SameText
<1> QED
  BY <1>8 DEF c, w, z, more

(***************************************************************************)
(* A text without a separator lengthens the last component.                *)
(***************************************************************************)
LEMMA SplitGrows ==
  ASSUME NEW text \in Text, NEW comp \in Piece
  PROVE  LET path == Split(text)
         IN Split(text \o comp) = WithLast(path, path[Len(path)] \o comp)
<1> DEFINE path == Split(text)
           last == path[Len(path)]
           n == Len(comp)
           Part(m) == SubSeq(comp, 1, m)
           Grown(m) == Split(text \o Part(m)) = WithLast(path, last \o Part(m))
           T == {m \in 0..n : Grown(m)}
<1>1. path \in Seq(Piece) /\ path # <<>>
  BY SplitType
<1>2. n \in Nat /\ comp \in Seq(Char \ {"/"}) /\ \A k \in 1..n : comp[k] \in Char \ {"/"}
  BY PathIsText DEF Piece
<1>3. last \in Piece /\ WithLast(path, last) = path
  <2> HIDE DEF path
  <2>1. Len(path) \in 1..Len(path)
    BY <1>1, EmptySeq
  <2> QED
    BY <1>1, <2>1 DEF WithLast
<1> HIDE DEF path, last
<1>4. Grown(0)
  <2>1. Part(0) = <<>>
    BY SMTT(30), SubSeqEmpty
  <2>2. text \o <<>> = text /\ last \o <<>> = last
    BY <1>3, ConcatEmptySeq DEF Text, Piece
  <2>3. Split(text) = path
    BY DEF path
  <2> HIDE DEF Part
  <2> QED
    BY <1>3, <2>1, <2>2, <2>3
<1>5. ASSUME NEW k \in 1..n, Grown(k - 1) PROVE Grown(k)
  <2> DEFINE a == comp[k]
             old == Part(k - 1)
             before == text \o old
             longer == last \o old
  <2>1. a \in Char \ {"/"}
    BY <1>2
  <2>2. k - 1 \in Nat /\ k - 1 <= n /\ k \in Nat /\ 1 \in 1..n
    BY <1>2
  <2>3. old \in Seq(Char \ {"/"})
    <3>1. \A i \in 1..(k - 1) : comp[i] \in Char \ {"/"}
      BY <1>2, <2>2
    <3> QED
      BY <2>2, <3>1, SubSeqProperties
  <2>4. Part(k) = Append(old, a)
    <3>1. Part(k) = old \o <<a>>
      BY <1>2, <2>2, SubSeqRecursiveSecond
    <3> HIDE DEF old, a
    <3> QED
      BY <2>1, <2>3, <3>1, AppendIsConcat
  <2>5. Split(before) = WithLast(path, longer)
    BY <1>5
  <2> HIDE DEF old, Part, a
  <2>6. old \in Piece /\ old \in Text /\ a \in Char /\ a # "/"
    BY <2>1, <2>3, PathIsText DEF Piece
  <2>7. before \in Text /\ longer \in Piece
    BY <1>3, <2>3, <2>6, ConcatProperties DEF Text, Piece
  <2>8. text \o Part(k) = Append(before, a)
    BY <2>4, <2>6, ConcatAppend DEF Text
  <2>9. last \o Part(k) = Append(longer, a)
    BY <1>3, <2>1, <2>3, <2>4, ConcatAppend DEF Piece
  <2> HIDE DEF before, longer
  <2>10. Split(Append(before, a)) = Cut(WithLast(path, longer), a)
    BY <2>5, <2>6, <2>7, SplitAppend
  <2>11. Cut(WithLast(path, longer), a) = WithLast(path, Append(longer, a))
    BY <1>1, <2>6, <2>7, CutLast
  <2> QED
    BY <2>8, <2>9, <2>10, <2>11
<1>6. 0 \in T
  BY <1>2, <1>4
<1>7. ASSUME NEW k \in 1..n, k - 1 \in T PROVE k \in T
  <2>1. Grown(k - 1) /\ k \in 0..n
    BY <1>2, <1>7
  <2> QED
    BY <1>5, <2>1
<1> HIDE DEF T
<1>8. n \in T
  BY <1>2, <1>6, <1>7, UpTo
<1>9. Part(n) = comp
  BY <1>2, SubSeqFull
<1> HIDE DEF Part
<1>10. Split(text \o comp) = WithLast(path, last \o comp)
  BY <1>8, <1>9 DEF T
<1> QED
  BY <1>10 DEF path, last

-----------------------------------------------------------------------------
(***************************************************************************)
(* The string of a path goes component by component.                       *)
(***************************************************************************)
LEMMA PathStringOne ==
  ASSUME NEW comp \in Piece
  PROVE  PathString(<<comp>>) = comp
<1> DEFINE path == <<comp>>
<1>1. Len(path) = 1 /\ path[1] = comp
  BY OneElement
<1> HIDE DEF path
<1>2. PICK joined : /\ joined[0] = <<>>
                    /\ \A k \in 1..Len(path) : joined[k] = Glued(joined[k - 1], path[k], k)
                    /\ PathString(path) = joined[Len(path)]
  <2>1. Len(path) \in Nat
    BY <1>1
  <2> QED
    BY <2>1, PathStringRows
<1>3. PathString(path) = comp
  BY <1>1, <1>2 DEF Glued
<1> QED
  BY <1>3 DEF path

\* One more component is one more slash and its text.
LEMMA PathStringAppend ==
  ASSUME NEW path \in Seq(Piece), path # <<>>, NEW comp \in Piece
  PROVE  PathString(Append(path, comp)) = PathString(path) \o <<"/">> \o comp
<1> DEFINE more == Append(path, comp)
           n == Len(path)
<1>1. /\ more \in Seq(Piece) /\ Len(more) = n + 1 /\ n \in Nat \ {0}
      /\ \A k \in 1..n : more[k] = path[k]
      /\ more[n + 1] = comp
  BY AppendProperties, EmptySeq
<1>2. PICK a : /\ a[0] = <<>>
               /\ \A k \in 1..n : a[k] = Glued(a[k - 1], path[k], k)
               /\ PathString(path) = a[n]
  BY PathStringRows
<1>3. PICK b : /\ b[0] = <<>>
               /\ \A k \in 1..(n + 1) : b[k] = Glued(b[k - 1], more[k], k)
               /\ PathString(more) = b[n + 1]
  <2>1. Len(more) = n + 1 /\ Len(more) \in Nat
    BY <1>1
  <2> HIDE DEF more, n
  <2> QED
    BY <2>1, PathStringRows
<1> HIDE DEF more, n
<1>4. a[n] = b[n]
  <2> DEFINE T == {k \in 0..n : a[k] = b[k]}
  <2>1. 0 \in T
    BY <1>1, <1>2, <1>3
  <2>2. ASSUME NEW k \in 1..n, k - 1 \in T PROVE k \in T
    <3>1. k \in 0..n /\ k \in 1..(n + 1)
      BY <1>1
    <3>2. a[k] = Glued(a[k - 1], path[k], k) /\ b[k] = Glued(b[k - 1], path[k], k)
      BY <1>1, <1>2, <1>3, <3>1
    <3> QED
      BY <2>2, <3>1, <3>2
  <2> HIDE DEF T
  <2>3. n \in T
    BY <1>1, <2>1, <2>2, UpTo
  <2> QED
    BY <2>3 DEF T
<1>5. n + 1 \in 1..(n + 1) /\ (n + 1) - 1 = n /\ n + 1 # 1
  BY <1>1
<1>6. b[n + 1] = a[n] \o <<"/">> \o comp
  BY <1>1, <1>3, <1>4, <1>5 DEF Glued
<1> QED
  BY <1>2, <1>3, <1>6 DEF more

\* The string of a path, one component longer.
LEMMA PathStringStep ==
  ASSUME NEW path \in Seq(Piece), NEW k \in 2..Len(path)
  PROVE  /\ PathString(SubSeq(path, 1, k))
              = PathString(SubSeq(path, 1, k - 1)) \o <<"/">> \o path[k]
         /\ SubSeq(path, 1, k) = Append(SubSeq(path, 1, k - 1), path[k])
         /\ SubSeq(path, 1, k - 1) \in Seq(Piece) /\ SubSeq(path, 1, k - 1) # <<>>
<1> DEFINE old == SubSeq(path, 1, k - 1)
           c == path[k]
<1>1. /\ Len(path) \in Nat /\ k \in Nat /\ k - 1 \in Nat /\ k - 1 >= 1 /\ 1 \in 1..Len(path)
      /\ k \in 1..Len(path)
      /\ \A i \in 1..Len(path) : path[i] \in Piece
  OBVIOUS
<1>2. old \in Seq(Piece) /\ Len(old) = k - 1
  <2>1. \A i \in 1..(k - 1) : path[i] \in Piece
    BY <1>1
  <2>2. Len(old) = (k - 1) - 1 + 1 /\ old \in Seq(Piece)
    BY <1>1, <2>1, SubSeqProperties
  <2> HIDE DEF old
  <2> QED
    BY <1>1, <2>2
<1>3. c \in Piece /\ SubSeq(path, 1, k) = old \o <<c>>
  BY <1>1, SubSeqRecursiveSecond
<1> HIDE DEF old, c
<1>4. old # <<>>
  BY <1>1, <1>2, EmptySeq
<1>5. SubSeq(path, 1, k) = Append(old, c)
  BY <1>2, <1>3, AppendIsConcat
<1>6. PathString(Append(old, c)) = PathString(old) \o <<"/">> \o c
  BY <1>2, <1>3, <1>4, PathStringAppend
<1> QED
  BY <1>2, <1>4, <1>5, <1>6 DEF old, c

\* The first component of a path, as a path.
LEMMA FirstPart ==
  ASSUME NEW path \in Seq(Piece), path # <<>>
  PROVE  /\ path[1] \in Piece /\ SubSeq(path, 1, 1) = <<path[1]>>
         /\ PathString(SubSeq(path, 1, 1)) = path[1]
         /\ Len(path) \in Nat /\ 1 \in 1..Len(path) /\ SubSeq(path, 1, Len(path)) = path
<1>1. Len(path) \in Nat /\ 1 \in 1..Len(path) /\ path[1] \in Piece
  BY EmptySeq
<1>2. SubSeq(path, 1, 1) = <<path[1]>>
  <2>1. /\ SubSeq(path, 1, 1) \in Seq(Piece) /\ Len(SubSeq(path, 1, 1)) = 1
        /\ SubSeq(path, 1, 1)[1] = path[1]
    <3>1. \A i \in 1..1 : path[i] \in Piece
      BY <1>1
    <3> QED
      BY <3>1, SubSeqProperties
  <2>2. <<path[1]>> \in Seq(Piece) /\ Len(<<path[1]>>) = 1 /\ <<path[1]>>[1] = path[1]
    BY <1>1, OneElement
  <2> DEFINE x == SubSeq(path, 1, 1)
             y == <<path[1]>>
  <2>3. x \in Seq(Piece) /\ y \in Seq(Piece) /\ Len(x) = Len(y) /\ \A i \in 1..Len(x) : x[i] = y[i]
    BY <2>1, <2>2
  <2> HIDE DEF x, y
  <2>4. x = y
    BY <2>3, SameText
  <2> QED
    BY <2>4 DEF x, y
<1>3. SubSeq(path, 1, Len(path)) = path
  BY SubSeqFull
<1> QED
  BY <1>1, <1>2, <1>3, PathStringOne

\* Two strings with a slash or a colon between them are a string.
LEMMA TextGlued ==
  ASSUME NEW x \in Text, NEW y \in Text
  PROVE  x \o <<"/">> \o y \in Text /\ x \o <<":">> \o y \in Text
<1>1. x \o <<"/">> \in Text /\ x \o <<":">> \in Text
  BY SlashFacts, ConcatProperties DEF Text
<1> QED
  BY <1>1, ConcatProperties DEF Text

\* The string of a path is a string.
LEMMA PathStringType ==
  ASSUME NEW path \in Seq(Piece)
  PROVE  PathString(path) \in Text
<1>1. CASE path = <<>>
  <2>1. Len(path) \in Nat /\ Len(path) = 0
    BY <1>1
  <2>2. PathString(path) = <<>>
    BY <2>1, PathStringRows
  <2> QED
    BY <2>2 DEF Text
<1>2. CASE path # <<>>
  <2> DEFINE n == Len(path)
             Good(k) == PathString(SubSeq(path, 1, k)) \in Text
             T == {k \in 0..n : k = 0 \/ Good(k)}
  <2>1. n \in Nat /\ n # 0 /\ Good(1)
    BY <1>2, FirstPart, PathIsText
  <2>2. ASSUME NEW k \in 2..n, Good(k - 1) PROVE Good(k)
    <3>1. path[k] \in Text
      BY PathIsText
    <3> DEFINE x == PathString(SubSeq(path, 1, k - 1))
    <3>2. x \in Text /\ PathString(SubSeq(path, 1, k)) = x \o <<"/">> \o path[k]
      BY <2>2, PathStringStep
    <3> HIDE DEF x
    <3>3. x \o <<"/">> \o path[k] \in Text
      BY <3>1, <3>2, TextGlued
    <3> QED
      BY <3>2, <3>3
  <2> HIDE DEF Good
  <2>3. 0 \in T
    BY <2>1
  <2>4. ASSUME NEW k \in 1..n, k - 1 \in T PROVE k \in T
    <3>1. CASE k = 1
      BY <2>1, <3>1
    <3>2. CASE k # 1
      <4>1. k \in 2..n /\ k \in 0..n /\ Good(k - 1)
        BY <2>1, <2>4, <3>2
      <4> QED
        BY <2>2, <4>1
    <3> QED
      BY <3>1, <3>2
  <2> HIDE DEF T
  <2>5. n \in T
    BY <2>1, <2>3, <2>4, UpTo
  <2>6. Good(n)
    BY <2>1, <2>5 DEF T
  <2> QED
    BY <1>2, <2>6, FirstPart DEF Good
<1> QED
  BY <1>1, <1>2

-----------------------------------------------------------------------------
(***************************************************************************)
(* Splitting the string of a path yields the path.                         *)
(***************************************************************************)
LEMMA SplitPiece ==
  ASSUME NEW comp \in Piece
  PROVE  Split(comp) = <<comp>>
<1> DEFINE start == << <<>> >>
           empty == <<>>
<1>1. empty \in Text /\ start \in Seq(Piece) /\ Len(start) = 1 /\ start[1] = empty /\ start # <<>>
  BY PathIsText
<1>2. Split(empty) = start
  BY SplitEmpty
<1>3. empty \o comp = comp
  BY ConcatEmptySeq DEF Piece
<1> HIDE DEF start, empty
<1>4. Split(empty \o comp) = WithLast(start, start[Len(start)] \o comp)
  BY <1>1, <1>2, SplitGrows
<1>5. Split(comp) = WithLast(start, comp)
  BY <1>1, <1>3, <1>4
<1>6. /\ WithLast(start, comp) \in Seq(Piece) /\ Len(WithLast(start, comp)) = 1
      /\ WithLast(start, comp)[1] = comp
  <2>1. /\ WithLast(start, comp) \in Seq(Piece) /\ Len(WithLast(start, comp)) = Len(start)
        /\ WithLast(start, comp)[Len(start)] = comp
    BY <1>1, WithLastFacts
  <2> QED
    BY <1>1, <2>1
<1>7. <<comp>> \in Seq(Piece) /\ Len(<<comp>>) = 1 /\ <<comp>>[1] = comp
  BY OneElement
<1> DEFINE x == WithLast(start, comp)
           y == <<comp>>
<1>8. x \in Seq(Piece) /\ y \in Seq(Piece) /\ Len(x) = Len(y) /\ \A i \in 1..Len(x) : x[i] = y[i]
  BY <1>6, <1>7
<1> HIDE DEF x, y
<1>9. x = y
  BY <1>8, SameText
<1> QED
  BY <1>5, <1>9 DEF x, y

\* A slash and a piece add that piece to the path.
LEMMA SplitGlued ==
  ASSUME NEW text \in Text, NEW comp \in Piece
  PROVE  Split(text \o <<"/">> \o comp) = Append(Split(text), comp)
<1> DEFINE before == text \o <<"/">>
           path == Split(text)
           longer == Append(path, <<>>)
           more == Append(path, comp)
           c == Split(before \o comp)
<1>1. path \in Seq(Piece) /\ Len(path) \in Nat
  BY SplitType
<1>2. before = Append(text, "/") /\ before \in Text
  BY SlashFacts, AppendIsConcat, AppendProperties DEF Text
<1>3. Split(before) = longer
  <2>1. Split(Append(text, "/")) = Cut(path, "/")
    BY SlashFacts, SplitAppend
  <2> QED
    BY <1>2, <2>1 DEF Cut
<1> DEFINE empty == <<>>
<1>4. /\ longer \in Seq(Piece) /\ Len(longer) = Len(path) + 1 /\ longer # <<>>
      /\ longer[Len(path) + 1] = empty
      /\ \A i \in 1..Len(path) : longer[i] = path[i]
  <2>1. empty \in Piece
    BY PathIsText
  <2> HIDE DEF path, empty
  <2> QED
    BY <1>1, <2>1, AppendProperties DEF empty
<1>5. empty \o comp = comp
  BY ConcatEmptySeq DEF Piece
<1> HIDE DEF empty, before, path, longer
<1>6. c = WithLast(longer, comp)
  <2>1. c = WithLast(longer, longer[Len(longer)] \o comp)
    BY <1>2, <1>3, SplitGrows
  <2> QED
    BY <1>4, <1>5, <2>1
<1>7. /\ c \in Seq(Piece) /\ Len(c) = Len(path) + 1 /\ c[Len(path) + 1] = comp
      /\ \A i \in 1..Len(path) : c[i] = path[i]
  <2>1. /\ c \in Seq(Piece) /\ Len(c) = Len(longer) /\ c[Len(longer)] = comp
        /\ \A i \in 1..(Len(longer) - 1) : c[i] = longer[i]
    <3> HIDE DEF c
    <3> QED
      BY <1>4, <1>6, WithLastFacts
  <2> HIDE DEF c
  <2>2. Len(longer) - 1 = Len(path)
    BY <1>1, <1>4
  <2> QED
    BY <1>4, <2>1, <2>2
<1>8. /\ more \in Seq(Piece) /\ Len(more) = Len(path) + 1 /\ more[Len(path) + 1] = comp
      /\ \A i \in 1..Len(path) : more[i] = path[i]
  BY <1>1, AppendProperties
<1> HIDE DEF c, more
<1>9. \A i \in 1..Len(c) : c[i] = more[i]
  BY <1>1, <1>7, <1>8
<1>10. c = more
  BY <1>7, <1>8, <1>9, SameText
<1> QED
  BY <1>10 DEF c, more, before, path

\* Splitting the string of a path yields the path.
LEMMA SplitString ==
  ASSUME NEW path \in Seq(Piece), path # <<>>
  PROVE  Split(PathString(path)) = path
<1> DEFINE n == Len(path)
           Good(k) == Split(PathString(SubSeq(path, 1, k))) = SubSeq(path, 1, k)
           T == {k \in 0..n : k = 0 \/ Good(k)}
<1>1. n \in Nat /\ n # 0 /\ Good(1)
  <2>1. /\ path[1] \in Piece /\ SubSeq(path, 1, 1) = <<path[1]>>
        /\ PathString(SubSeq(path, 1, 1)) = path[1]
        /\ Len(path) \in Nat /\ 1 \in 1..Len(path)
    BY FirstPart
  <2>2. Split(path[1]) = <<path[1]>>
    BY <2>1, SplitPiece
  <2> QED
    BY <2>1, <2>2
<1>2. ASSUME NEW k \in 2..n, Good(k - 1) PROVE Good(k)
  <2> DEFINE old == SubSeq(path, 1, k - 1)
             c == path[k]
  <2>1. /\ PathString(SubSeq(path, 1, k)) = PathString(old) \o <<"/">> \o c
        /\ SubSeq(path, 1, k) = Append(old, c) /\ old \in Seq(Piece)
    BY PathStringStep
  <2>2. c \in Piece
    OBVIOUS
  <2>3. Split(PathString(old)) = old
    BY <1>2
  <2> HIDE DEF old, c
  <2>4. PathString(old) \in Text
    BY <2>1, PathStringType
  <2>5. Split(PathString(old) \o <<"/">> \o c) = Append(old, c)
    BY <2>2, <2>3, <2>4, SplitGlued
  <2> QED
    BY <2>1, <2>5
<1> HIDE DEF Good
<1>3. 0 \in T
  BY <1>1
<1>4. ASSUME NEW k \in 1..n, k - 1 \in T PROVE k \in T
  <2>1. CASE k = 1
    BY <1>1, <2>1
  <2>2. CASE k # 1
    <3>1. k \in 2..n /\ k \in 0..n /\ Good(k - 1)
      BY <1>1, <1>4, <2>2
    <3> QED
      BY <1>2, <3>1
  <2> QED
    BY <2>1, <2>2
<1> HIDE DEF T
<1>5. n \in T
  BY <1>1, <1>3, <1>4, UpTo
<1>6. Good(n)
  BY <1>1, <1>5 DEF T
<1> QED
  BY <1>6, FirstPart DEF Good

(***************************************************************************)
(* The string of what a text is split into is the text.                    *)
(***************************************************************************)
LEMMA CutString ==
  ASSUME NEW path \in Seq(Piece), path # <<>>, NEW atom \in Char
  PROVE  PathString(Cut(path, atom)) = Append(PathString(path), atom)
<1>1. CASE atom = "/"
  <2> DEFINE empty == <<>>
             x == PathString(path)
  <2>1. empty \in Piece /\ x \in Text
    BY PathIsText, PathStringType
  <2>2. PathString(Append(path, empty)) = x \o <<"/">> \o empty
    <3> HIDE DEF empty, x
    <3> QED
      BY <2>1, PathStringAppend DEF x
  <2> HIDE DEF x
  <2>3. x \o <<"/">> = Append(x, "/") /\ x \o <<"/">> \in Text
    BY <2>1, SlashFacts, AppendIsConcat, ConcatProperties DEF Text
  <2>4. x \o <<"/">> \o empty = x \o <<"/">>
    BY <2>3, ConcatEmptySeq DEF Text
  <2>5. Cut(path, atom) = Append(path, empty)
    BY <1>1 DEF Cut
  <2> QED
    BY <1>1, <2>2, <2>3, <2>4, <2>5 DEF x
<1>2. CASE atom # "/"
  <2>1. PICK front \in Seq(Piece), last \in Piece : path = Append(front, last)
    BY SequenceEmptyOrAppend
  <2> DEFINE more == Append(last, atom)
             z == Append(front, more)
  <2>2. Len(path) = Len(front) + 1 /\ Len(front) \in Nat /\ path[Len(path)] = last
        /\ \A i \in 1..Len(front) : path[i] = front[i]
    BY <2>1, AppendProperties
  <2>3. more \in Piece
    BY <1>2, AppendProperties DEF Piece
  <2>4. Cut(path, atom) = WithLast(path, more)
    BY <1>2, <2>2 DEF Cut, WithLast
  <2>5. /\ z \in Seq(Piece) /\ Len(z) = Len(path) /\ z[Len(path)] = more
        /\ \A i \in 1..Len(front) : z[i] = front[i]
    <3> HIDE DEF more
    <3> QED
      BY <2>2, <2>3, AppendProperties
  <2>6. Cut(path, atom) = z
    <3> DEFINE w == WithLast(path, more)
    <3>1. /\ w \in Seq(Piece) /\ Len(w) = Len(path) /\ w[Len(path)] = more
          /\ \A i \in 1..(Len(path) - 1) : w[i] = path[i]
      BY <2>3, WithLastFacts
    <3> HIDE DEF z, w
    <3>2. ASSUME NEW i \in 1..Len(w) PROVE w[i] = z[i]
      <4>1. CASE i = Len(path)
        BY <2>5, <3>1, <4>1
      <4>2. CASE i # Len(path)
        <5>1. i \in 1..(Len(path) - 1) /\ i \in 1..Len(front)
          BY <2>2, <3>1, <4>2
        <5> QED
          BY <2>2, <2>5, <3>1, <5>1
      <4> QED
        BY <4>1, <4>2
    <3>3. w = z
      BY <2>5, <3>1, <3>2, SameText
    <3> QED
      BY <2>4, <3>3 DEF w
  <2> HIDE DEF more
  <2>7. CASE front = <<>>
    <3>1. path = <<last>> /\ z = <<more>>
      BY <2>1, <2>7, AppendIsConcat, ConcatEmptySeq, OneElement, <2>3
    <3>2. PathString(path) = last /\ PathString(z) = more
      BY <2>3, <3>1, PathStringOne
    <3> QED
      BY <2>6, <3>2 DEF more
  <2>8. CASE front # <<>>
    <3> DEFINE x == PathString(front) \o <<"/">>
    <3>1. PathString(path) = x \o last /\ PathString(z) = x \o more
      BY <2>1, <2>3, <2>8, PathStringAppend
    <3>2. x \in Text /\ last \in Text
      BY PathStringType, SlashFacts, ConcatProperties, PathIsText DEF Text
    <3> HIDE DEF x
    <3>3. x \o more = Append(x \o last, atom)
      BY <3>2, ConcatAppend DEF Text, more
    <3> QED
      BY <2>6, <3>1, <3>3
  <2> QED
    BY <2>7, <2>8
<1> QED
  BY <1>1, <1>2

\* Joining what a string was split into yields the string.
LEMMA StringSplit ==
  ASSUME NEW text \in Text
  PROVE  PathString(Split(text)) = text
<1> DEFINE n == Len(text)
           Part(k) == SubSeq(text, 1, k)
<1>1. n \in Nat /\ \A i \in 1..n : text[i] \in Char
  BY DEF Text
<1>2. PICK cut : /\ cut[0] = << <<>> >>
                 /\ \A k \in 1..n : cut[k] = Cut(cut[k - 1], text[k])
                 /\ Split(text) = cut[n]
  BY SplitRows
<1>3. \A k \in 0..n : cut[k] \in Seq(Piece) /\ cut[k] # <<>>
  BY <1>2, SplitCuts
<1> DEFINE Good(k) == PathString(cut[k]) = Part(k)
           T == {k \in 0..n : Good(k)}
<1>4. 0 \in T
  <2>1. Part(0) = <<>>
    BY SMTT(30), SubSeqEmpty
  <2> DEFINE empty == <<>>
  <2>2. empty \in Piece
    BY PathIsText
  <2>3. PathString(<<empty>>) = empty
    <3> HIDE DEF empty
    <3> QED
      BY <2>2, PathStringOne
  <2>4. cut[0] = <<empty>>
    BY <1>2
  <2>5. Good(0)
    BY <2>1, <2>3, <2>4
  <2> HIDE DEF Good
  <2> QED
    BY <1>1, <2>5
<1>5. ASSUME NEW k \in 1..n, k - 1 \in T PROVE k \in T
  <2>1. k \in 0..n /\ k - 1 \in 0..n /\ 1 \in 1..n /\ k \in 1..n
    BY <1>1
  <2>2. cut[k] = Cut(cut[k - 1], text[k]) /\ text[k] \in Char
    BY <1>1, <1>2
  <2> DEFINE old == cut[k - 1]
             atom == text[k]
  <2>3. old \in Seq(Piece) /\ old # <<>> /\ PathString(old) = Part(k - 1)
    BY <1>3, <1>5, <2>1
  <2> HIDE DEF old
  <2>4. PathString(Cut(old, atom)) = Append(Part(k - 1), atom)
    BY <2>2, <2>3, CutString
  <2>5. Part(k) = Append(Part(k - 1), atom)
    <3>1. Part(k) = Part(k - 1) \o <<atom>>
      BY <1>1, <2>1, SubSeqRecursiveSecond DEF Text
    <3>2. Part(k - 1) \in Seq(Char)
      BY <2>3, PathStringType DEF Text
    <3> HIDE DEF Part, atom
    <3> QED
      BY <2>2, <3>1, <3>2, AppendIsConcat DEF atom
  <2> QED
    BY <2>1, <2>2, <2>4, <2>5 DEF old
<1> HIDE DEF T
<1>6. n \in T
  BY <1>1, <1>4, <1>5, UpTo
<1>7. Part(n) = text
  BY SubSeqFull DEF Text
<1> QED
  BY <1>2, <1>6, <1>7 DEF T

-----------------------------------------------------------------------------
(***************************************************************************)
(* The string of a node is a prefix of the strings of the nodes below it.  *)
(***************************************************************************)
LEMMA ConcatPrefix ==
  ASSUME NEW S, NEW x \in Seq(S), NEW y \in Seq(S), NEW z \in Seq(S)
  PROVE  /\ IsPrefix(x, x \o z)
         /\ IsPrefix(y, z) => IsPrefix(x \o y, x \o z)
<1>1. /\ x \o y \in Seq(S) /\ Len(x \o y) = Len(x) + Len(y)
      /\ \A i \in 1..(Len(x) + Len(y)) :
           (x \o y)[i] = IF i <= Len(x) THEN x[i] ELSE y[i - Len(x)]
  BY ConcatProperties
<1>2. /\ x \o z \in Seq(S) /\ Len(x \o z) = Len(x) + Len(z)
      /\ \A i \in 1..(Len(x) + Len(z)) :
           (x \o z)[i] = IF i <= Len(x) THEN x[i] ELSE z[i - Len(x)]
  BY ConcatProperties
<1>3. Len(x) \in Nat /\ Len(y) \in Nat /\ Len(z) \in Nat
  OBVIOUS
<1> DEFINE a == x \o y
           b == x \o z
           l == Len(x)
           m == Len(y)
           n == Len(z)
<1>4. /\ a \in Seq(S) /\ Len(a) = l + m /\ b \in Seq(S) /\ Len(b) = l + n
      /\ \A i \in 1..(l + m) : a[i] = IF i <= l THEN x[i] ELSE y[i - l]
      /\ \A i \in 1..(l + n) : b[i] = IF i <= l THEN x[i] ELSE z[i - l]
      /\ l \in Nat /\ m \in Nat /\ n \in Nat
  BY <1>1, <1>2, <1>3
<1>5. IsPrefix(x, b)
  <2>1. Len(x) <= Len(b) /\ \A i \in 1..Len(x) : x[i] = b[i]
    <3> HIDE DEF a, b
    <3> QED
      BY <1>4
  <2> QED
    BY <1>4, <2>1, PrefixElements
<1>6. ASSUME IsPrefix(y, z) PROVE IsPrefix(a, b)
  <2>1. m <= n /\ \A i \in 1..m : y[i] = z[i]
    BY <1>6, PrefixElements
  <2> HIDE DEF a, b, l, m, n
  <2>2. Len(a) <= Len(b)
    BY <1>4, <2>1
  <2>3. ASSUME NEW i \in 1..Len(a) PROVE a[i] = b[i]
    <3>1. i \in 1..(l + m) /\ i \in 1..(l + n)
      BY <1>4, <2>1
    <3>2. CASE i <= l
      BY <1>4, <3>1, <3>2
    <3>3. CASE ~(i <= l)
      <4>1. i - l \in 1..m
        BY <1>4, <3>1, <3>3
      <4> QED
        BY <1>4, <2>1, <3>1, <3>3, <4>1
    <3> QED
      BY <3>2, <3>3
  <2> QED
    BY <1>4, <2>2, <2>3, PrefixElements
<1> QED
  BY <1>5, <1>6

\* Texts with the same front have the same rest, if they are equal.
LEMMA SameBack ==
  ASSUME NEW S, NEW x \in Seq(S), NEW y \in Seq(S), NEW z \in Seq(S), x \o y = x \o z
  PROVE  y = z
<1> DEFINE b == x \o z
           l == Len(x)
           m == Len(y)
           n == Len(z)
<1>1. /\ Len(b) = l + m /\ Len(b) = l + n /\ l \in Nat /\ m \in Nat /\ n \in Nat
      /\ \A i \in 1..(l + m) : b[i] = IF i <= l THEN x[i] ELSE y[i - l]
      /\ \A i \in 1..(l + n) : b[i] = IF i <= l THEN x[i] ELSE z[i - l]
  <2>1. /\ Len(x \o y) = Len(x) + Len(y)
        /\ \A i \in 1..(Len(x) + Len(y)) :
             (x \o y)[i] = IF i <= Len(x) THEN x[i] ELSE y[i - Len(x)]
    BY ConcatProperties
  <2>2. /\ Len(x \o z) = Len(x) + Len(z)
        /\ \A i \in 1..(Len(x) + Len(z)) :
             (x \o z)[i] = IF i <= Len(x) THEN x[i] ELSE z[i - Len(x)]
    BY ConcatProperties
  <2> QED
    BY <2>1, <2>2
<1> HIDE DEF b, l, m, n
<1>2. m = n
  BY <1>1
<1>3. ASSUME NEW i \in 1..m PROVE y[i] = z[i]
  <2>1. l + i \in 1..(l + m) /\ ~(l + i <= l) /\ (l + i) - l = i
    BY <1>1
  <2> QED
    BY <1>1, <1>2, <2>1
<1> QED
  BY <1>2, <1>3, SameText DEF m, n

\* A prefix of a prefix is one.
LEMMA PrefixPrefix ==
  ASSUME NEW S, NEW x \in Seq(S), NEW y \in Seq(S), NEW z \in Seq(S), IsPrefix(x, y), IsPrefix(y, z)
  PROVE  IsPrefix(x, z)
<1>1. Len(x) \in Nat /\ Len(y) \in Nat /\ Len(z) \in Nat
  OBVIOUS
<1>2. Len(x) <= Len(y) /\ \A i \in 1..Len(x) : x[i] = y[i]
  BY PrefixElements
<1>3. Len(y) <= Len(z) /\ \A i \in 1..Len(y) : y[i] = z[i]
  BY PrefixElements
<1>4. Len(x) <= Len(z) /\ \A i \in 1..Len(x) : x[i] = z[i]
  BY <1>1, <1>2, <1>3
<1> QED
  BY <1>4, PrefixElements

\* The string of a path starts with that of a node above it.
LEMMA PathStringPrefix ==
  ASSUME NEW root \in Seq(Piece), root # <<>>, NEW path \in Seq(Piece), IsPrefix(root, path)
  PROVE  IsPrefix(PathString(root), PathString(path))
<1> DEFINE m == Len(root)
           n == Len(path)
           Good(k) == IsPrefix(PathString(root), PathString(SubSeq(path, 1, k)))
           T == {i \in 0..(n - m) : Good(m + i)}
<1>1. m \in Nat /\ m >= 1 /\ n \in Nat /\ m <= n
  BY EmptySeq, PrefixElements
<1>2. SubSeq(path, 1, m) = root
  <2>1. SubSeq(root, 1, m) = root
    BY SubSeqFull
  <2> QED
    BY <2>1 DEF IsPrefix
<1>3. PathString(root) \in Text
  BY PathStringType
<1>4. Good(m)
  <2>1. IsPrefix(PathString(root), PathString(root))
    BY <1>3, PrefixElements DEF Text
  <2> QED
    BY <1>2, <2>1
<1>5. ASSUME NEW k \in (m + 1)..n, Good(k - 1) PROVE Good(k)
  <2>1. k \in 2..n /\ path[k] \in Text
    BY <1>1, PathIsText
  <2> DEFINE old == PathString(SubSeq(path, 1, k - 1))
  <2>2. old \in Text /\ PathString(SubSeq(path, 1, k)) = old \o <<"/">> \o path[k]
    BY <2>1, PathStringStep, PathStringType
  <2>3. IsPrefix(PathString(root), old)
    BY <1>5
  <2> HIDE DEF old
  <2>4. old \o <<"/">> \in Text /\ IsPrefix(PathString(root), old \o <<"/">>)
    BY <1>3, <2>2, <2>3, SlashFacts, ConcatProperties, PrefixGrows DEF Text
  <2>5. IsPrefix(PathString(root), old \o <<"/">> \o path[k])
    BY <1>3, <2>1, <2>4, PrefixGrows DEF Text
  <2> QED
    BY <2>2, <2>5
<1> HIDE DEF Good, m, n
<1>6. 0 \in T
  BY <1>1, <1>4
<1>7. ASSUME NEW i \in 1..(n - m), i - 1 \in T PROVE i \in T
  <2>1. m + i \in (m + 1)..n /\ m + (i - 1) = (m + i) - 1 /\ i \in 0..(n - m)
    BY <1>1
  <2>2. Good((m + i) - 1)
    BY <1>7, <2>1
  <2> QED
    BY <1>5, <2>1, <2>2
<1> HIDE DEF T
<1>8. n - m \in Nat /\ m + (n - m) = n
  BY <1>1
<1>9. n - m \in T
  BY <1>6, <1>7, <1>8, UpTo
<1>10. Good(n)
  BY <1>8, <1>9 DEF T
<1>11. SubSeq(path, 1, n) = path
  BY SubSeqFull DEF n
<1> QED
  BY <1>10, <1>11 DEF Good
-----------------------------------------------------------------------------
(***************************************************************************)
(* Keys.  A volume path has at most one node for a key, and the key of a   *)
(* node is a prefix of the keys of the nodes below it.                     *)
(***************************************************************************)
NodeStorages == {s \in Storages : s.path # <<>>}

\* A key is the volume and a colon, then the string of the path.
LEMMA KeyFacts ==
  ASSUME NEW s, s.volume \in Text, s.path \in Seq(Piece)
  PROVE  /\ Key(s) = (s.volume \o <<":">>) \o PathString(s.path)
         /\ Key(s) \in Text /\ s.volume \o <<":">> \in Text /\ PathString(s.path) \in Text
<1>1. PathString(s.path) \in Text
  BY PathStringType
<1>2. s.volume \o <<":">> \in Text
  BY SlashFacts, ConcatProperties DEF Text
<1> QED
  BY <1>1, <1>2, ConcatProperties DEF Key, Text

\* The fields of a storage are strings and paths.
LEMMA NodeStorageText ==
  ASSUME NEW s \in NodeStorages
  PROVE  /\ s.volume \in Volumes /\ s.volume \in Text
         /\ s.path \in Path /\ s.path \in Seq(Piece) /\ s.path # <<>>
         /\ s = Storage(s.volume, s.path)
BY PathIsText DEF NodeStorages, Storages, Storage

\* A nonempty path of a volume names a storage.
LEMMA StorageText ==
  ASSUME NEW v \in Volumes, NEW path \in Path, path # <<>>
  PROVE  /\ Storage(v, path) \in NodeStorages
         /\ Storage(v, path).volume = v /\ Storage(v, path).path = path
BY DEF NodeStorages, Storages, Storage

\* Two storages of one volume have different keys.
LEMMA KeyInjective ==
  ASSUME NEW r \in NodeStorages, NEW s \in NodeStorages, r.volume = s.volume, Key(r) = Key(s)
  PROVE  r = s
<1> DEFINE front == s.volume \o <<":">>
           x == PathString(r.path)
           y == PathString(s.path)
<1>1. Key(r) = front \o x /\ Key(s) = front \o y /\ front \in Text /\ x \in Text /\ y \in Text
  BY NodeStorageText, KeyFacts
<1> HIDE DEF front, x, y
<1>2. x = y
  BY <1>1, SameBack DEF Text
<1>3. r.path = s.path
  <2>1. Split(x) = r.path /\ Split(y) = s.path
    BY NodeStorageText, SplitString DEF x, y
  <2> QED
    BY <1>2, <2>1
<1> QED
  BY <1>3, NodeStorageText

\* The key of a storage starts with those of the storages above it.
LEMMA KeyPrefix ==
  ASSUME NEW r \in NodeStorages, NEW s \in NodeStorages, r.volume = s.volume,
         IsInSubtree(s.path, r.path)
  PROVE  IsPrefix(Key(r), Key(s))
<1>1. IsPrefix(PathString(r.path), PathString(s.path))
  BY NodeStorageText, PathStringPrefix DEF IsInSubtree
<1>2. /\ Key(r) = (s.volume \o <<":">>) \o PathString(r.path)
      /\ Key(s) = (s.volume \o <<":">>) \o PathString(s.path)
      /\ s.volume \o <<":">> \in Text /\ PathString(r.path) \in Text /\ PathString(s.path) \in Text
  BY NodeStorageText, KeyFacts
<1> QED
  BY <1>1, <1>2, ConcatPrefix DEF Text

-----------------------------------------------------------------------------
Colon(text) == \E i \in DOMAIN text : text[i] = ":"

(***************************************************************************)
(* A key has a colon, and its first one is the separator unless the volume *)
(* path has one.                                                           *)
(***************************************************************************)
FirstColon(text) == SelectInSeq(text, LAMBDA atom : atom = ":")

\* The first colon of a string that has one.
LEMMA FirstColonFacts ==
  ASSUME NEW text \in Text, Colon(text)
  PROVE  LET c == FirstColon(text)
         IN /\ c \in 1..Len(text) /\ text[c] = ":"
            /\ \A i \in 1..(c - 1) : text[i] # ":"
<1> DEFINE I == {i \in 1..Len(text) : text[i] = ":"}
           c == FirstColon(text)
<1>1. c = IF I # {} THEN Min(I) ELSE 0
  BY DEF FirstColon, SelectInSeq
<1>2. I \in SUBSET Nat /\ I # {} /\ Len(text) \in Nat
  BY DEF Colon, Text
<1>3. PICK m \in I : \A k \in I : m <= k
  BY <1>2, LeastNatural, Zenon
<1>4. c \in I /\ \A k \in I : c <= k
  BY <1>1, <1>2, <1>3 DEF Min
<1> HIDE DEF c
<1>5. ASSUME NEW i \in 1..(c - 1) PROVE text[i] # ":"
  <2>1. i \in 1..Len(text) /\ ~(c <= i)
    BY <1>2, <1>4
  <2> QED
    BY <1>4, <2>1
<1> QED
  BY <1>4, <1>5 DEF c

(***************************************************************************)
(* Cutting a storage key at its first colon finds the storage, unless the  *)
(* volume path has a colon: then it finds another node that has the same   *)
(* key, in what may be no volume at all.                                   *)
(***************************************************************************)
LEMMA UnloadTargetFacts ==
  ASSUME NEW s \in NodeStorages
  PROVE  LET t == UnloadTarget(s)
         IN /\ t.path \in Path /\ t.path # <<>> /\ t = Storage(t.volume, t.path)
            /\ Key(t) = Key(s)
            /\ ~Colon(s.volume) => t = s
            /\ Colon(s.volume) => t.volume # s.volume
<1> DEFINE key == Key(s)
           v == s.volume
           x == PathString(s.path)
           c == FirstColon(key)
           l == Len(v)
           n == Len(key)
           volume == SubSeq(key, 1, c - 1)
           rest == SubSeq(key, c + 1, n)
           t == UnloadTarget(s)
<1>1. v \in Text /\ x \in Text /\ key \in Text /\ v \o <<":">> \in Text /\ key = (v \o <<":">>) \o x
  BY NodeStorageText, KeyFacts
<1>2. t = Storage(volume, Split(rest))
  BY DEF UnloadTarget, FirstColon
<1> HIDE DEF key, v, x, t
<1>3. /\ l \in Nat /\ n \in Nat /\ l + 1 \in 1..n /\ key[l + 1] = ":"
      /\ \A i \in 1..l : key[i] = v[i]
  <2>1. /\ Len(v \o <<":">>) = l + 1 /\ (v \o <<":">>)[l + 1] = ":"
        /\ \A i \in 1..l : (v \o <<":">>)[i] = v[i]
        /\ l \in Nat
    <3> DEFINE mark == <<":">>
    <3>1. mark \in Text /\ Len(mark) = 1 /\ mark[1] = ":"
      BY SlashFacts
    <3> HIDE DEF mark
    <3>2. v \o mark \in Text /\ Len(v \o mark) = Len(v) + Len(mark)
          /\ \A i \in 1..(Len(v) + Len(mark)) :
               (v \o mark)[i] = IF i <= Len(v) THEN v[i] ELSE mark[i - Len(v)]
      BY <1>1, <3>1, ConcatProperties DEF Text
    <3>3. l \in Nat
      BY <1>1 DEF Text
    <3>4. l + 1 \in 1..(Len(v) + Len(mark)) /\ ~(l + 1 <= Len(v)) /\ (l + 1) - Len(v) = 1
      BY <3>1, <3>3
    <3>5. (v \o mark)[l + 1] = ":"
      BY <3>1, <3>2, <3>4
    <3>6. \A i \in 1..l : (v \o mark)[i] = v[i]
      BY <3>1, <3>2, <3>3
    <3> QED
      BY <3>1, <3>2, <3>3, <3>5, <3>6 DEF mark
  <2> DEFINE front == v \o <<":">>
  <2>2. /\ Len(front) = l + 1 /\ front[l + 1] = ":" /\ front \in Text
        /\ \A i \in 1..l : front[i] = v[i]
        /\ l \in Nat /\ key = front \o x
    BY <1>1, <2>1
  <2> HIDE DEF front
  <2>3. /\ Len(key) = Len(front) + Len(x) /\ Len(x) \in Nat
        /\ \A i \in 1..Len(front) : key[i] = front[i]
    <3>1. Len(x) \in Nat
      BY <1>1 DEF Text
    <3>2. /\ Len(front \o x) = Len(front) + Len(x)
          /\ \A i \in 1..(Len(front) + Len(x)) :
               (front \o x)[i] = IF i <= Len(front) THEN front[i] ELSE x[i - Len(front)]
      BY <1>1, <2>2, ConcatProperties DEF Text
    <3> QED
      BY <2>2, <3>1, <3>2
  <2> HIDE DEF l
  <2> QED
    BY <2>2, <2>3
<1>4. Colon(key)
  BY <1>1, <1>3 DEF Colon, Text
<1>5. /\ c \in 1..n /\ key[c] = ":"
      /\ \A i \in 1..(c - 1) : key[i] # ":"
  BY <1>1, <1>4, FirstColonFacts
<1> HIDE DEF c, l, n
<1>6. c <= l + 1
  BY <1>3, <1>5
<1>7. \A i \in 1..n : key[i] \in Char
  BY <1>1 DEF Text, n
<1>8. /\ volume \in Text /\ Len(volume) = c - 1 /\ \A i \in 1..(c - 1) : volume[i] = key[i]
      /\ rest \in Text
  <2>1. /\ volume \in Seq(Char) /\ Len(volume) = IF 1 <= c - 1 THEN (c - 1) - 1 + 1 ELSE 0
        /\ \A i \in 1..((c - 1) - 1 + 1) : volume[i] = key[1 + i - 1]
    <3>1. \A i \in 1..(c - 1) : key[i] \in Char
      BY <1>3, <1>5, <1>7
    <3>2. c - 1 \in Int /\ 1 \in Int
      BY <1>5
    <3> QED
      BY <3>1, <3>2, SubSeqProperties
  <2>2. rest \in Seq(Char)
    <3>1. \A i \in (c + 1)..n : key[i] \in Char
      BY <1>3, <1>5, <1>7
    <3>2. c + 1 \in Int /\ n \in Int
      BY <1>3, <1>5
    <3> QED
      BY <3>1, <3>2, SubSeqProperties
  <2> HIDE DEF volume, rest
  <2> QED
    BY <1>5, <2>1, <2>2 DEF Text
<1>9. t.volume = volume /\ t.path = Split(rest) /\ t = Storage(t.volume, t.path)
  BY <1>2 DEF Storage
<1>10. t.path \in Seq(Piece) /\ t.path # <<>>
  BY <1>8, <1>9, SplitType
<1>11. key = (volume \o <<":">>) \o rest
  <2>1. 1 \in 1..(n + 1) /\ c - 1 \in (1 - 1)..n /\ c \in (c - 1)..n /\ (c - 1) + 1 = c
        /\ c \in 1..n /\ n \in c..n /\ 1 \in 1..n /\ c \in 1..n /\ c \in 0..n
    BY <1>3, <1>5
  <2>2. SubSeq(key, 1, c) = volume \o <<key[c]>>
    BY <1>1, <2>1, SubSeqRecursiveSecond DEF Text, n
  <2>3. SubSeq(key, 1, c) \o rest = SubSeq(key, 1, n)
    <3>1. /\ key \in Seq(Char) /\ 1 \in 1..(Len(key) + 1) /\ c \in (1 - 1)..Len(key)
          /\ n \in c..Len(key)
      BY <1>1, <2>1 DEF Text, n
    <3> HIDE DEF volume
    <3> QED
      BY <3>1, ConcatAdjacentSubSeq, Zenon
  <2>4. SubSeq(key, 1, n) = key
    BY <1>1, SubSeqFull DEF Text, n
  <2> HIDE DEF volume, rest
  <2> QED
    BY <1>5, <2>2, <2>3, <2>4
<1> HIDE DEF volume, rest
<1>12. Key(t) = key
  <2>1. Key(t) = (t.volume \o <<":">>) \o PathString(t.path)
    BY <1>8, <1>9, <1>10, KeyFacts
  <2>2. PathString(Split(rest)) = rest
    BY <1>8, StringSplit
  <2> QED
    BY <1>9, <1>11, <2>1, <2>2
<1>13. CASE Colon(s.volume)
  <2>1. PICK j \in 1..l : v[j] = ":"
    BY <1>1, <1>13 DEF Colon, v, l, Text
  <2>2. key[j] = ":" /\ j \in 1..l
    BY <1>3, <2>1
  <2>3. c <= j
    BY <1>3, <1>5, <2>2
  <2>4. Len(volume) # l
    BY <1>3, <1>5, <1>8, <2>2, <2>3
  <2>5. t.volume # s.volume
    BY <1>9, <2>4 DEF l, v
  <2>6. t.path \in Path
    <3>1. ":" \in STRING
      <4>1. s.volume \in Seq(STRING)
        BY NodeStorageText, VolumesAssumption
      <4>2. j \in 1..Len(s.volume) /\ s.volume[j] = ":"
        BY <2>1 DEF v, l
      <4> QED
        BY <4>1, <4>2
    <3>2. Char \ {"/"} = STRING \ {"/"}
      BY <3>1 DEF Char
    <3>3. Seq(Piece) = Path
      BY <3>2 DEF Piece, Path, Component
    <3> QED
      BY <1>10, <3>3
  <2> QED
    BY <1>9, <1>10, <1>12, <1>13, <2>5, <2>6 DEF t, key
<1>14. CASE ~Colon(s.volume)
  <2>1. \A j \in 1..l : v[j] # ":"
    BY <1>1, <1>14 DEF Colon, v, l, Text
  <2>2. c = l + 1
    <3>1. ~(c <= l)
      <4> SUFFICES ASSUME c <= l PROVE FALSE
        OBVIOUS
      <4>1. c \in 1..l
        BY <1>3, <1>5
      <4> QED
        BY <1>3, <1>5, <2>1, <4>1
    <3> QED
      BY <1>3, <1>5, <1>6, <3>1
  <2>3. volume = v
    <3>1. Len(volume) = Len(v) /\ \A i \in 1..Len(v) : volume[i] = v[i]
      BY <1>3, <1>8, <2>2 DEF l
    <3> QED
      BY <1>1, <1>8, <3>1, SameText DEF Text
  <2>4. rest = x
    <3>1. (v \o <<":">>) \o rest = (v \o <<":">>) \o x
      BY <1>1, <1>11, <2>3
    <3> QED
      BY <1>1, <1>8, <3>1, SameBack DEF Text
  <2>5. Split(rest) = s.path
    BY <2>4, NodeStorageText, SplitString DEF x
  <2>6. t = s
    BY <1>9, <2>3, <2>5, NodeStorageText DEF v
  <2> QED
    BY <1>12, <1>14, <2>6, NodeStorageText DEF t, key
<1> QED
  BY <1>13, <1>14

-----------------------------------------------------------------------------
(***************************************************************************)
(* What the operations of the storage registry return: the facts about one *)
(* acquisition and one release that the proofs about the table are made    *)
(* of.                                                                     *)
(***************************************************************************)

(***************************************************************************)
(* How often a key is acquired; 0 where it has no counter.                 *)
(***************************************************************************)
CountOf(counters, key) == IF key \in DOMAIN counters THEN counters[key] ELSE 0

Registries(keys) ==
  [volumes    : SUBSET Volumes,
   trees      : [Volumes -> SUBSET Path],
   loaded     : SUBSET Storages,
   counters   : [keys -> Nat \ {0}],
   registered : SUBSET NodeStorages,
   files      : [Volumes -> SUBSET Path]]

(***************************************************************************)
(* Every key with a counter is the key of one registered storage.          *)
(***************************************************************************)
OneEach(storages) == \A r, s \in storages : Key(r) = Key(s) => r = s

RegistryTyped(reg) ==
  /\ reg \in Registries(DOMAIN reg.counters)
  /\ DOMAIN reg.counters = KeysOf(reg.registered)
  /\ OneEach(reg.registered)

(***************************************************************************)
(* A StorageNode holds the node it was asked for and nodes below it.       *)
(***************************************************************************)
NodeSound(storageNode) ==
  /\ storageNode \in [volume : Volumes, nodePath : Path, paths : SUBSET Path]
  /\ storageNode.nodePath # <<>>
  /\ storageNode.nodePath \in storageNode.paths
  /\ \A path \in storageNode.paths : IsInSubtree(path, storageNode.nodePath)

(***************************************************************************)
(* The nodes on the way to a path are paths, above it, and include it.     *)
(***************************************************************************)
LEMMA NodesToFacts ==
  ASSUME NEW path \in Path
  PROVE  /\ NodesTo(path) \subseteq Path
         /\ path # <<>> => path \in NodesTo(path)
         /\ \A q \in NodesTo(path) : q # <<>> /\ IsInSubtree(path, q) /\ path # <<>>
<1>1. path \in Seq(Component) /\ Len(path) \in Nat /\ \A i \in 1..Len(path) : path[i] \in Component
  BY DEF Path
<1>2. path # <<>> => path \in NodesTo(path)
  <2>1. SubSeq(path, 1, Len(path)) = path
    BY <1>1, SubSeqFull
  <2>2. path # <<>> => Len(path) \in 1..Len(path)
    BY <1>1, EmptySeq
  <2> QED
    BY <2>1, <2>2 DEF NodesTo
<1>3. ASSUME NEW q \in NodesTo(path) PROVE q \in Path /\ q # <<>> /\ IsInSubtree(path, q) /\ path # <<>>
  <2>1. PICK n \in 1..Len(path) : q = SubSeq(path, 1, n)
    BY DEF NodesTo
  <2>2. n \in Nat /\ n >= 1 /\ n <= Len(path) /\ \A i \in 1..n : path[i] \in Component
    BY <1>1
  <2>3. q \in Seq(Component) /\ Len(q) = n /\ \A i \in 1..n : q[i] = path[i]
    BY <2>1, <2>2, SubSeqProperties
  <2>4. Len(q) <= Len(path) /\ \A i \in 1..Len(q) : q[i] = path[i]
    BY <2>2, <2>3
  <2>5. IsPrefix(q, path)
    BY <1>1, <2>3, <2>4, PrefixElements
  <2> QED
    BY <1>1, <2>2, <2>3, <2>5, EmptySeq DEF Path, IsInSubtree
<1> QED
  BY <1>2, <1>3

(***************************************************************************)
(* A node of a subtree is not the root of a volume, and a subtree holds    *)
(* its own root and the subtrees of its nodes.                             *)
(***************************************************************************)
LEMMA SubtreeNotRoot ==
  ASSUME NEW path \in Path, NEW root \in Path, root # <<>>, IsInSubtree(path, root)
  PROVE  path # <<>>
<1>1. Len(root) \in Nat \ {0} /\ Len(root) <= Len(path)
  BY EmptySeq, PrefixElements DEF IsInSubtree, Path
<1> QED
  BY <1>1, EmptySeq

\* A node is in its own subtree.
LEMMA SubtreeHoldsRoot ==
  ASSUME NEW path \in Path
  PROVE  IsInSubtree(path, path)
BY DEF IsInSubtree, IsPrefix, Path

\* The subtree of a node below another is in that of the other.
LEMMA SubtreesNest ==
  ASSUME NEW path \in Path, NEW middle \in Path, NEW root \in Path,
         IsInSubtree(path, middle), IsInSubtree(middle, root)
  PROVE  IsInSubtree(path, root)
BY PrefixPrefix DEF IsInSubtree, Path

(***************************************************************************)
(* The storages of a sound StorageNode.                                    *)
(***************************************************************************)
LEMMA StoragesOfFacts ==
  ASSUME NEW storageNode, NodeSound(storageNode)
  PROVE  /\ StoragesOf(storageNode) \subseteq NodeStorages
         /\ \A s \in StoragesOf(storageNode) :
              /\ s.volume = storageNode.volume /\ s.path \in storageNode.paths
              /\ IsInSubtree(s.path, storageNode.nodePath)
         /\ Storage(storageNode.volume, storageNode.nodePath) \in StoragesOf(storageNode)
         /\ OneEach(StoragesOf(storageNode))
<1>1. /\ storageNode.volume \in Volumes /\ storageNode.nodePath \in Path
      /\ storageNode.nodePath # <<>> /\ storageNode.paths \in SUBSET Path
      /\ storageNode.nodePath \in storageNode.paths
      /\ \A path \in storageNode.paths : IsInSubtree(path, storageNode.nodePath)
  BY DEF NodeSound
<1>2. ASSUME NEW s \in StoragesOf(storageNode)
      PROVE  /\ s \in NodeStorages
             /\ s.volume = storageNode.volume /\ s.path \in storageNode.paths
             /\ IsInSubtree(s.path, storageNode.nodePath)
  <2>1. PICK path \in storageNode.paths : s = Storage(storageNode.volume, path)
    BY DEF StoragesOf
  <2>2. path \in Path /\ path # <<>>
    BY <1>1, SubtreeNotRoot
  <2> QED
    BY <1>1, <2>1, <2>2 DEF Storage, NodeStorages, Storages
<1>3. Storage(storageNode.volume, storageNode.nodePath) \in StoragesOf(storageNode)
  BY <1>1 DEF StoragesOf
<1>4. OneEach(StoragesOf(storageNode))
  <2> SUFFICES ASSUME NEW r \in StoragesOf(storageNode), NEW s \in StoragesOf(storageNode),
                      Key(r) = Key(s)
               PROVE  r = s
    BY DEF OneEach
  <2> QED
    BY <1>2, KeyInjective
<1> QED
  BY <1>2, <1>3, <1>4

(***************************************************************************)
(* Opening a volume keeps everything but the list of open volumes and the  *)
(* contents of the volume file.                                            *)
(***************************************************************************)
LEMMA OpenVolumeFacts ==
  ASSUME NEW reg, RegistryTyped(reg), NEW v \in Volumes
  PROVE  LET opened == OpenVolume(reg, v)
         IN /\ RegistryTyped(opened)
            /\ opened.volumes = reg.volumes \union {v}
            /\ opened.trees = reg.trees
            /\ opened.loaded = reg.loaded
            /\ opened.counters = reg.counters
            /\ opened.registered = reg.registered
<1> DEFINE R == Registries(DOMAIN reg.counters)
<1>1. reg \in R /\ DOMAIN reg.counters = KeysOf(reg.registered) /\ OneEach(reg.registered)
  BY DEF RegistryTyped
<1>2. CASE v \in reg.volumes
  BY <1>1, <1>2 DEF OpenVolume, RegistryTyped
<1>3. CASE v \notin reg.volumes
  <2> DEFINE opened == [reg EXCEPT !.volumes = @ \union {v}, !.files[v] = {}]
  <2>1. OpenVolume(reg, v) = opened
    BY <1>3 DEF OpenVolume
  <2>2. /\ opened.volumes = reg.volumes \union {v}
        /\ opened.trees = reg.trees
        /\ opened.loaded = reg.loaded
        /\ opened.counters = reg.counters
        /\ opened.registered = reg.registered
    BY <1>1 DEF Registries
  <2>3. opened \in R
    BY <1>1 DEF Registries
  <2> QED
    BY <1>1, <2>1, <2>2, <2>3 DEF RegistryTyped
<1> QED
  BY <1>2, <1>3

(***************************************************************************)
(* The registry in which the nodes on the way to a path exist, and the     *)
(* subtree one finds there.                                                *)
(***************************************************************************)
LEMMA FoundFacts ==
  ASSUME NEW reg, RegistryTyped(reg), NEW v \in Volumes, NEW path \in Path, path # <<>>
  PROVE  LET found == findTreeNode(OpenVolume(reg, v), v, path)
             node == Subtree(found, v, path)
         IN /\ RegistryTyped(found)
            /\ found.volumes = reg.volumes \union {v}
            /\ found.loaded = reg.loaded
            /\ found.counters = reg.counters
            /\ found.registered = reg.registered
            /\ NodeSound(node) /\ node.volume = v /\ node.nodePath = path
<1> DEFINE opened == OpenVolume(reg, v)
           found == findTreeNode(opened, v, path)
           node == Subtree(found, v, path)
<1>1. /\ RegistryTyped(opened)
      /\ opened.volumes = reg.volumes \union {v}
      /\ opened.trees = reg.trees
      /\ opened.loaded = reg.loaded
      /\ opened.counters = reg.counters
      /\ opened.registered = reg.registered
  BY OpenVolumeFacts
<1> HIDE DEF opened
<1>2. NodesTo(path) \subseteq Path /\ path \in NodesTo(path)
  BY NodesToFacts
<1>3. /\ opened \in Registries(DOMAIN opened.counters)
      /\ DOMAIN opened.counters = KeysOf(opened.registered) /\ OneEach(opened.registered)
  BY <1>1 DEF RegistryTyped
<1>4. /\ found.volumes = opened.volumes
      /\ found.trees = [opened.trees EXCEPT ![v] = @ \union NodesTo(path)]
      /\ found.loaded = opened.loaded
      /\ found.counters = opened.counters
      /\ found.registered = opened.registered
  BY <1>3 DEF findTreeNode, Registries
<1>5. RegistryTyped(found)
  <2>1. opened.trees[v] \union NodesTo(path) \in SUBSET Path
    BY <1>2, <1>3 DEF Registries
  <2>2. found \in Registries(DOMAIN opened.counters)
    BY <1>3, <2>1 DEF findTreeNode, Registries
  <2> QED
    BY <1>3, <1>4, <2>2 DEF RegistryTyped
<1>6. NodeSound(node) /\ node.volume = v /\ node.nodePath = path
  <2>1. found.trees \in [Volumes -> SUBSET Path] /\ path \in found.trees[v]
    BY <1>2, <1>3, <1>4, <1>5 DEF RegistryTyped, Registries
  <2>2. IsInSubtree(path, path)
    BY SubtreeHoldsRoot
  <2> HIDE DEF found
  <2> QED
    BY <2>1, <2>2 DEF NodeSound, Subtree, StorageNode
<1> QED
  BY <1>1, <1>4, <1>5, <1>6 DEF opened

(***************************************************************************)
(* Counting a set of keys once more raises the count of each of them by    *)
(* one and of no other.                                                    *)
(***************************************************************************)
LEMMA CountedFacts ==
  ASSUME NEW counters, counters \in [DOMAIN counters -> Nat \ {0}], NEW keys
  PROVE  LET counted == Counted(counters, keys)
         IN /\ counted \in [DOMAIN counters \union keys -> Nat \ {0}]
            /\ DOMAIN counted = DOMAIN counters \union keys
            /\ \A key : CountOf(counted, key) = CountOf(counters, key) + IF key \in keys THEN 1 ELSE 0
<1> DEFINE counted == Counted(counters, keys)
           More(key) == (IF key \in DOMAIN counters THEN counters[key] ELSE 0) + (IF key \in keys THEN 1 ELSE 0)
<1>1. DOMAIN counted = DOMAIN counters \union keys
  BY DEF Counted
<1>2. ASSUME NEW key \in DOMAIN counters \union keys PROVE counted[key] = More(key) /\ More(key) \in Nat \ {0}
  <2>1. counted[key] = More(key)
    BY DEF Counted
  <2>2. key \in DOMAIN counters => counters[key] \in Nat \ {0}
    OBVIOUS
  <2> QED
    BY <2>1, <2>2
<1>3. counted \in [DOMAIN counters \union keys -> Nat \ {0}]
  BY <1>2 DEF Counted
<1>4. ASSUME NEW key PROVE CountOf(counted, key) = CountOf(counters, key) + IF key \in keys THEN 1 ELSE 0
  BY <1>1, <1>2 DEF CountOf
<1> QED
  BY <1>1, <1>3, <1>4

-----------------------------------------------------------------------------
(***************************************************************************)
(* One acquisition: a sound StorageNode for the path asked for, its        *)
(* storages loaded, their keys counted once more and those that had no     *)
(* counter registered; nothing else is touched.                            *)
(***************************************************************************)
LEMMA RegisteredFacts ==
  ASSUME NEW reg, RegistryTyped(reg), NEW S \in SUBSET NodeStorages, OneEach(S)
  PROVE  LET more == reg.registered \union NewlyCounted(reg.counters, S)
         IN /\ more \in SUBSET NodeStorages
            /\ KeysOf(more) = DOMAIN reg.counters \union KeysOf(S)
            /\ OneEach(more)
<1> DEFINE new == NewlyCounted(reg.counters, S)
           more == reg.registered \union new
<1>1. /\ reg.registered \in SUBSET NodeStorages
      /\ DOMAIN reg.counters = KeysOf(reg.registered) /\ OneEach(reg.registered)
  BY DEF RegistryTyped, Registries
<1>2. new \subseteq S /\ \A s \in S : s \in new <=> Key(s) \notin DOMAIN reg.counters
  BY DEF NewlyCounted
<1> HIDE DEF new
<1>3. KeysOf(more) = DOMAIN reg.counters \union KeysOf(S)
  BY <1>1, <1>2 DEF KeysOf
<1>4. ASSUME NEW r \in more, NEW s \in more, Key(r) = Key(s) PROVE r = s
  <2>1. \A x \in reg.registered : Key(x) \in DOMAIN reg.counters
    BY <1>1 DEF KeysOf
  <2> QED
    BY <1>1, <1>2, <1>4, <2>1 DEF OneEach
<1> QED
  BY <1>1, <1>2, <1>3, <1>4 DEF OneEach, new

\* One acquisition counts each key of the subtree once more.
LEMMA AcquireFacts ==
  ASSUME NEW reg, RegistryTyped(reg), NEW v \in Volumes, NEW path \in Path, path # <<>>
  PROVE  LET acquired == acquireStorage(reg, v, path)
             after == acquired.registry
             node == acquired.storageNode
             storages == StoragesOf(node)
         IN /\ RegistryTyped(after)
            /\ after.volumes = reg.volumes \union {v}
            /\ after.loaded = reg.loaded \union storages
            /\ after.registered = reg.registered \union NewlyCounted(reg.counters, storages)
            /\ DOMAIN after.counters = DOMAIN reg.counters \union KeysOf(storages)
            /\ NodeSound(node) /\ node.volume = v /\ node.nodePath = path
            /\ \A key : CountOf(after.counters, key)
                          = CountOf(reg.counters, key) + IF key \in KeysOf(storages) THEN 1 ELSE 0
<1> DEFINE found == findTreeNode(OpenVolume(reg, v), v, path)
           node == Subtree(found, v, path)
           storages == StoragesOf(node)
           filled == [found EXCEPT !.loaded = @ \union storages]
           saved == [filled EXCEPT !.files[node.volume] = filled.trees[node.volume]]
           counted == Counted(found.counters, KeysOf(storages))
           registered == found.registered \union NewlyCounted(found.counters, storages)
           after == [saved EXCEPT !.counters = counted, !.registered = registered]
<1>1. /\ RegistryTyped(found)
      /\ found.volumes = reg.volumes \union {v}
      /\ found.loaded = reg.loaded
      /\ found.counters = reg.counters
      /\ found.registered = reg.registered
      /\ NodeSound(node) /\ node.volume = v /\ node.nodePath = path
  BY FoundFacts
<1>2. found \in Registries(DOMAIN found.counters)
  BY <1>1 DEF RegistryTyped
<1>3. storages \subseteq NodeStorages /\ OneEach(storages) /\ storages \subseteq Storages
  BY <1>1, StoragesOfFacts DEF NodeStorages
<1>4. saved = loadStorage(found, node)
  BY DEF loadStorage, saveNodes
<1>5. /\ acquireStorage(reg, v, path).registry
           = [saved EXCEPT !.counters = Counted(@, KeysOf(storages)),
                           !.registered = @ \union NewlyCounted(saved.counters, storages)]
      /\ acquireStorage(reg, v, path).storageNode = node
  BY <1>4 DEF acquireStorage
<1> HIDE DEF found, node, storages
<1>6. /\ filled \in Registries(DOMAIN found.counters)
      /\ filled.loaded = found.loaded \union storages
      /\ filled.volumes = found.volumes /\ filled.counters = found.counters
      /\ filled.registered = found.registered
  BY <1>2, <1>3 DEF Registries
<1> HIDE DEF filled
<1>7. /\ saved \in Registries(DOMAIN found.counters)
      /\ saved.loaded = filled.loaded
      /\ saved.volumes = filled.volumes /\ saved.counters = filled.counters
      /\ saved.registered = filled.registered
  <2>1. filled.trees[node.volume] \in SUBSET Path
    BY <1>1, <1>6 DEF Registries
  <2> QED
    BY <1>6, <2>1 DEF Registries
<1> HIDE DEF saved
<1>8. acquireStorage(reg, v, path).registry = after
  BY <1>5, <1>6, <1>7
<1>9. /\ counted \in [DOMAIN found.counters \union KeysOf(storages) -> Nat \ {0}]
      /\ DOMAIN counted = DOMAIN found.counters \union KeysOf(storages)
      /\ \A key : CountOf(counted, key)
                    = CountOf(found.counters, key) + IF key \in KeysOf(storages) THEN 1 ELSE 0
  <2>1. found.counters \in [DOMAIN found.counters -> Nat \ {0}]
    BY <1>2 DEF Registries
  <2> QED
    BY ZenonT(40), <2>1, CountedFacts
<1>10. /\ registered \in SUBSET NodeStorages
       /\ KeysOf(registered) = DOMAIN found.counters \union KeysOf(storages)
       /\ OneEach(registered)
  BY <1>1, <1>3, RegisteredFacts
<1> HIDE DEF counted, registered
<1>11. /\ after.volumes = saved.volumes /\ after.loaded = saved.loaded
       /\ after.counters = counted /\ after.registered = registered
       /\ after \in Registries(DOMAIN counted)
  <2>1. counted \in [DOMAIN counted -> Nat \ {0}]
    BY <1>9
  <2> QED
    BY <1>7, <1>10, <2>1 DEF Registries
<1> HIDE DEF after
<1>12. RegistryTyped(after)
  BY <1>9, <1>10, <1>11 DEF RegistryTyped
<1>13. /\ after.volumes = reg.volumes \union {v} /\ after.loaded = reg.loaded \union storages
       /\ after.registered = reg.registered \union NewlyCounted(reg.counters, storages)
       /\ DOMAIN after.counters = DOMAIN reg.counters \union KeysOf(storages)
  BY <1>1, <1>6, <1>7, <1>9, <1>11 DEF registered
<1>14. \A key : CountOf(after.counters, key)
                  = CountOf(reg.counters, key) + IF key \in KeysOf(storages) THEN 1 ELSE 0
  BY <1>1, <1>9, <1>11
<1> QED
  BY <1>1, <1>5, <1>8, <1>12, <1>13, <1>14 DEF storages

(***************************************************************************)
(* The counter of one key after an acquisition.                            *)
(***************************************************************************)
LEMMA AcquireCounts ==
  ASSUME NEW reg, RegistryTyped(reg), NEW v \in Volumes, NEW path \in Path, path # <<>>, NEW key
  PROVE  LET acquired == acquireStorage(reg, v, path)
             keys == KeysOf(StoragesOf(acquired.storageNode))
         IN CountOf(acquired.registry.counters, key)
              = CountOf(reg.counters, key) + IF key \in keys THEN 1 ELSE 0
<1> DEFINE acquired == acquireStorage(reg, v, path)
           keys == KeysOf(StoragesOf(acquired.storageNode))
<1>1. \A k : CountOf(acquired.registry.counters, k)
               = CountOf(reg.counters, k) + IF k \in keys THEN 1 ELSE 0
  BY SMTT(60), AcquireFacts
<1> QED
  BY <1>1, Zenon

(***************************************************************************)
(* An acquisition that an exception ends counts nothing and destroys       *)
(* nothing.                                                                *)
(***************************************************************************)
LEMMA ThrownFacts ==
  ASSUME NEW reg, RegistryTyped(reg), NEW v \in Volumes, NEW path \in Path, path # <<>>,
         NEW after \in ThrownAcquisitions(reg, v, path)
  PROVE  /\ RegistryTyped(after)
         /\ after.volumes = reg.volumes \union {v}
         /\ after.counters = reg.counters
         /\ after.registered = reg.registered
         /\ reg.loaded \subseteq after.loaded
<1> DEFINE found == findTreeNode(OpenVolume(reg, v), v, path)
           node == Subtree(found, v, path)
           missing == StoragesOf(node) \ found.loaded
<1>1. /\ RegistryTyped(found)
      /\ found.volumes = reg.volumes \union {v}
      /\ found.loaded = reg.loaded
      /\ found.counters = reg.counters
      /\ found.registered = reg.registered
      /\ NodeSound(node)
  BY FoundFacts
<1>2. PICK created \in SUBSET missing : after = [found EXCEPT !.loaded = @ \union created]
  BY DEF ThrownAcquisitions
<1> HIDE DEF found
<1>3. StoragesOf(node) \subseteq Storages
  BY <1>1, StoragesOfFacts DEF NodeStorages
<1> HIDE DEF node
<1>4. found \in Registries(DOMAIN found.counters)
  BY <1>1 DEF RegistryTyped
<1>5. /\ after.volumes = found.volumes
      /\ after.counters = found.counters
      /\ after.registered = found.registered
      /\ after.loaded = found.loaded \union created
      /\ after \in Registries(DOMAIN found.counters)
  BY <1>2, <1>3, <1>4 DEF Registries
<1> QED
  BY <1>1, <1>5 DEF RegistryTyped

-----------------------------------------------------------------------------
(***************************************************************************)
(* One release of registered storages: the count of each key falls by one, *)
(* those that had one reference are forgotten, and what their keys lead to *)
(* is destroyed.                                                           *)
(***************************************************************************)
LEMMA FreedFacts ==
  ASSUME NEW reg, RegistryTyped(reg), NEW S \in SUBSET reg.registered
  PROVE  LET freed == Freed(reg, S)
         IN /\ freed \subseteq S /\ S \subseteq NodeStorages
            /\ KeysOf(S) \subseteq DOMAIN reg.counters
            /\ KeysOf(reg.registered \ freed) = DOMAIN reg.counters \ KeysOf(freed)
            /\ \A key \in KeysOf(S) : key \in KeysOf(freed) <=> reg.counters[key] = 1
            /\ KeysOf(freed) \subseteq KeysOf(S)
<1> DEFINE freed == Freed(reg, S)
<1>1. /\ reg.registered \in SUBSET NodeStorages
      /\ DOMAIN reg.counters = KeysOf(reg.registered) /\ OneEach(reg.registered)
  BY DEF RegistryTyped, Registries
<1>2. freed \subseteq S /\ \A s \in S : s \in freed <=> reg.counters[Key(s)] = 1
  BY DEF Freed
<1> HIDE DEF freed
<1>3. KeysOf(S) \subseteq DOMAIN reg.counters /\ KeysOf(freed) \subseteq KeysOf(S)
  BY <1>1, <1>2 DEF KeysOf
<1>4. KeysOf(reg.registered \ freed) = DOMAIN reg.counters \ KeysOf(freed)
  BY <1>1, <1>2 DEF KeysOf, OneEach
<1>5. \A key \in KeysOf(S) : key \in KeysOf(freed) <=> reg.counters[key] = 1
  BY <1>1, <1>2 DEF KeysOf, OneEach
<1> QED
  BY <1>1, <1>2, <1>3, <1>4, <1>5 DEF freed

\* One release counts each key of the subtree once less.
LEMMA ReleasedFacts ==
  ASSUME NEW reg, RegistryTyped(reg), NEW S \in SUBSET reg.registered
  PROVE  LET after == Released(reg, S)
             freed == Freed(reg, S)
         IN /\ RegistryTyped(after)
            /\ after.volumes = reg.volumes /\ after.loaded = reg.loaded /\ after.trees = reg.trees
            /\ after.registered = reg.registered \ freed
            /\ DOMAIN after.counters = DOMAIN reg.counters \ KeysOf(freed)
            /\ \A key : CountOf(after.counters, key)
                          = CountOf(reg.counters, key) - IF key \in KeysOf(S) THEN 1 ELSE 0
<1> DEFINE freed == Freed(reg, S)
           counters == reg.counters
           Left(key) == IF key \in KeysOf(S) THEN counters[key] - 1 ELSE counters[key]
           left == [key \in DOMAIN counters \ KeysOf(freed) |-> Left(key)]
           after == [reg EXCEPT !.counters = left, !.registered = @ \ freed]
<1>1. reg \in Registries(DOMAIN counters) /\ OneEach(reg.registered)
  BY DEF RegistryTyped
<1>2. Released(reg, S) = after
  BY DEF Released
<1>3. /\ freed \subseteq S /\ S \subseteq NodeStorages /\ KeysOf(S) \subseteq DOMAIN counters
      /\ KeysOf(reg.registered \ freed) = DOMAIN counters \ KeysOf(freed)
      /\ \A key \in KeysOf(S) : key \in KeysOf(freed) <=> counters[key] = 1
      /\ KeysOf(freed) \subseteq KeysOf(S)
  BY FreedFacts
<1> HIDE DEF freed
<1>4. \A key \in DOMAIN counters : counters[key] \in Nat \ {0}
  BY <1>1 DEF Registries
<1> HIDE DEF counters
<1>5. DOMAIN left = DOMAIN counters \ KeysOf(freed)
  OBVIOUS
<1>6. ASSUME NEW key \in DOMAIN counters \ KeysOf(freed)
      PROVE  Left(key) \in Nat \ {0} /\ left[key] = Left(key)
  BY <1>3, <1>4
<1>7. left \in [DOMAIN left -> Nat \ {0}]
  BY <1>6
<1>8. ASSUME NEW key
      PROVE  CountOf(left, key) = CountOf(counters, key) - IF key \in KeysOf(S) THEN 1 ELSE 0
  <2>1. CASE key \in DOMAIN counters \ KeysOf(freed)
    BY <1>3, <1>4, <1>5, <1>6, <2>1 DEF CountOf
  <2>2. CASE key \in KeysOf(freed)
    BY <1>3, <1>4, <1>5, <2>2 DEF CountOf
  <2>3. CASE key \notin DOMAIN counters
    BY <1>3, <1>5, <2>3 DEF CountOf
  <2> QED
    BY <2>1, <2>2, <2>3
<1> HIDE DEF left
<1>9. /\ after \in Registries(DOMAIN left)
      /\ after.counters = left /\ after.registered = reg.registered \ freed
      /\ after.volumes = reg.volumes /\ after.loaded = reg.loaded /\ after.trees = reg.trees
  BY <1>1, <1>7 DEF Registries
<1> HIDE DEF after
<1>10. RegistryTyped(after)
  BY <1>1, <1>3, <1>5, <1>9 DEF RegistryTyped, OneEach
<1>11. /\ DOMAIN after.counters = DOMAIN reg.counters \ KeysOf(freed)
       /\ \A key : CountOf(after.counters, key)
                     = CountOf(reg.counters, key) - IF key \in KeysOf(S) THEN 1 ELSE 0
  BY <1>5, <1>8, <1>9 DEF counters
<1> QED
  BY <1>2, <1>9, <1>10, <1>11 DEF freed

\* A release unloads what the freed keys name.
LEMMA ReleaseFacts ==
  ASSUME NEW reg, RegistryTyped(reg), NEW S \in SUBSET reg.registered
  PROVE  LET after == releaseStorages(reg, S)
             freed == Freed(reg, S)
             targets == {UnloadTarget(s) : s \in freed}
         IN /\ RegistryTyped(after)
            /\ after.volumes = reg.volumes
            /\ after.loaded = reg.loaded \ targets
            /\ after.registered = reg.registered \ freed
            /\ DOMAIN after.counters = DOMAIN reg.counters \ KeysOf(freed)
            /\ \A key : CountOf(after.counters, key)
                          = CountOf(reg.counters, key) - IF key \in KeysOf(S) THEN 1 ELSE 0
            /\ \A v \in Volumes :
                 after.trees[v] = reg.trees[v] \union
                                  UNION {NodesTo(t.path) : t \in {r \in targets : r.volume = v}}
<1> DEFINE freed == Freed(reg, S)
           targets == {UnloadTarget(s) : s \in freed}
           counted == Released(reg, S)
           trees == [v \in Volumes |->
                       counted.trees[v] \union
                       UNION {NodesTo(s.path) : s \in {r \in targets : r.volume = v}}]
           after == [counted EXCEPT !.loaded = @ \ targets, !.trees = trees]
<1>1. freed \subseteq S /\ S \subseteq NodeStorages
  BY FreedFacts
<1>2. /\ RegistryTyped(counted)
      /\ counted.volumes = reg.volumes /\ counted.loaded = reg.loaded /\ counted.trees = reg.trees
      /\ counted.registered = reg.registered \ freed
      /\ DOMAIN counted.counters = DOMAIN reg.counters \ KeysOf(freed)
      /\ \A key : CountOf(counted.counters, key)
                    = CountOf(reg.counters, key) - IF key \in KeysOf(S) THEN 1 ELSE 0
  BY ReleasedFacts
<1>3. releaseStorages(reg, S) = after
  <2> HIDE DEF counted
  <2>1. after = unloadStorages(counted, targets)
    BY DEF unloadStorages
  <2> QED
    BY <2>1 DEF releaseStorages, counted
<1> HIDE DEF counted, freed
<1>4. counted \in Registries(DOMAIN counted.counters)
  BY <1>2 DEF RegistryTyped
<1>5. trees \in [Volumes -> SUBSET Path]
  <2>1. ASSUME NEW t \in targets PROVE NodesTo(t.path) \subseteq Path
    <3>1. PICK s \in freed : t = UnloadTarget(s)
      OBVIOUS
    <3>2. t.path \in Path
      BY <1>1, <3>1, UnloadTargetFacts
    <3> QED
      BY <3>2, NodesToFacts
  <2> HIDE DEF targets
  <2>2. ASSUME NEW v \in Volumes
        PROVE counted.trees[v] \union
              UNION {NodesTo(s.path) : s \in {r \in targets : r.volume = v}} \in SUBSET Path
    <3>1. counted.trees[v] \in SUBSET Path
      BY <1>4 DEF Registries
    <3> QED
      BY <2>1, <3>1
  <2> QED
    BY <2>2
<1>6. \A v \in Volumes :
        trees[v] = reg.trees[v] \union
                   UNION {NodesTo(t.path) : t \in {r \in targets : r.volume = v}}
  BY <1>2
<1> HIDE DEF trees, targets
<1>7. /\ after \in Registries(DOMAIN counted.counters)
      /\ after.volumes = counted.volumes /\ after.counters = counted.counters
      /\ after.registered = counted.registered
      /\ after.loaded = counted.loaded \ targets /\ after.trees = trees
  BY <1>4, <1>5 DEF Registries
<1> HIDE DEF after
<1>8. RegistryTyped(after)
  BY <1>2, <1>7 DEF RegistryTyped
<1>9. /\ after.volumes = reg.volumes /\ after.loaded = reg.loaded \ targets
      /\ after.registered = reg.registered \ freed
      /\ DOMAIN after.counters = DOMAIN reg.counters \ KeysOf(freed)
  BY <1>2, <1>7
<1>10. \A key : CountOf(after.counters, key)
                  = CountOf(reg.counters, key) - IF key \in KeysOf(S) THEN 1 ELSE 0
  BY <1>2, <1>7
<1>11. \A v \in Volumes :
         after.trees[v] = reg.trees[v] \union
                          UNION {NodesTo(t.path) : t \in {r \in targets : r.volume = v}}
  BY <1>6, <1>7
<1> QED
  BY <1>3, <1>8, <1>9, <1>10, <1>11 DEF freed, targets

-----------------------------------------------------------------------------
(***************************************************************************)
(* The trees of the volumes.                                               *)
(***************************************************************************)
LEMMA NodesToNested ==
  ASSUME NEW path \in Path, NEW q \in NodesTo(path)
  PROVE  NodesTo(q) \subseteq NodesTo(path)
<1>1. PICK n \in 1..Len(path) : q = SubSeq(path, 1, n)
  BY DEF NodesTo
<1>2. Len(path) \in Nat /\ path \in Seq(Component)
  BY DEF Path
<1>3. Len(q) = n /\ q \in Seq(Component)
  BY <1>1, <1>2, SubSeqProperties
<1> SUFFICES ASSUME NEW m \in 1..Len(q) PROVE SubSeq(q, 1, m) \in NodesTo(path)
  BY DEF NodesTo
<1>4. m \in 1..Len(path)
  BY <1>2, <1>3
<1>5. SubSeq(q, 1, m) = SubSeq(path, 1, m)
  BY <1>1, <1>2, <1>3, <1>4
<1> QED
  BY <1>4, <1>5 DEF NodesTo

\* Finding a node adds the nodes on the way to it.
LEMMA FoundTrees ==
  ASSUME NEW reg, RegistryTyped(reg), NEW v \in Volumes, NEW path \in Path, path # <<>>
  PROVE  LET found == findTreeNode(OpenVolume(reg, v), v, path)
         IN RegistryTyped(found) /\ found.trees = [reg.trees EXCEPT ![v] = @ \union NodesTo(path)]
<1> DEFINE opened == OpenVolume(reg, v)
           found == findTreeNode(opened, v, path)
<1>1. RegistryTyped(opened) /\ opened.trees = reg.trees
  BY OpenVolumeFacts
<1>2. RegistryTyped(found)
  BY FoundFacts
<1> HIDE DEF opened
<1>3. found.trees = [opened.trees EXCEPT ![v] = @ \union NodesTo(path)]
  BY <1>1 DEF findTreeNode, RegistryTyped, Registries
<1> HIDE DEF found
<1> QED
  BY <1>1, <1>2, <1>3 DEF found, opened

\* An acquisition adds the nodes on the way and returns the subtree.
LEMMA AcquiredTrees ==
  ASSUME NEW reg, RegistryTyped(reg), NEW v \in Volumes, NEW path \in Path, path # <<>>
  PROVE  LET acquired == acquireStorage(reg, v, path)
             after == acquired.registry
         IN /\ after.trees = [reg.trees EXCEPT ![v] = @ \union NodesTo(path)]
            /\ acquired.storageNode = Subtree(after, v, path)
<1> DEFINE found == findTreeNode(OpenVolume(reg, v), v, path)
           node == Subtree(found, v, path)
           filled == [found EXCEPT !.loaded = @ \union StoragesOf(node)]
           saved == [filled EXCEPT !.files[node.volume] = filled.trees[node.volume]]
           counted == Counted(saved.counters, KeysOf(StoragesOf(node)))
           registered == saved.registered \union NewlyCounted(saved.counters, StoragesOf(node))
           after == [saved EXCEPT !.counters = counted, !.registered = registered]
<1>1. RegistryTyped(found) /\ found.trees = [reg.trees EXCEPT ![v] = @ \union NodesTo(path)]
  BY FoundTrees
<1>2. saved = loadStorage(found, node)
  BY DEF loadStorage, saveNodes
<1>3. /\ acquireStorage(reg, v, path).registry = after
      /\ acquireStorage(reg, v, path).storageNode = node
  BY <1>2 DEF acquireStorage
<1>4. node = StorageNode(v, path, {q \in found.trees[v] : IsInSubtree(q, path)})
  BY DEF Subtree
<1>5. found \in Registries(DOMAIN found.counters)
  BY <1>1 DEF RegistryTyped
<1> HIDE DEF found, node
<1>6. filled.trees = found.trees /\ DOMAIN filled = DOMAIN found
  BY <1>5 DEF Registries
<1> HIDE DEF filled
<1>7. saved.trees = filled.trees /\ DOMAIN saved = DOMAIN filled
  BY <1>5, <1>6 DEF Registries
<1> HIDE DEF saved, counted, registered
<1>8. after.trees = found.trees
  BY <1>5, <1>6, <1>7 DEF Registries
<1> HIDE DEF after
<1>9. node = Subtree(after, v, path)
  BY <1>4, <1>8 DEF Subtree
<1> QED
  BY <1>1, <1>3, <1>8, <1>9

\* So does one that an exception ends, as far as the trees go.
LEMMA ThrownTrees ==
  ASSUME NEW reg, RegistryTyped(reg), NEW v \in Volumes, NEW path \in Path, path # <<>>,
         NEW after \in ThrownAcquisitions(reg, v, path)
  PROVE  after.trees = [reg.trees EXCEPT ![v] = @ \union NodesTo(path)]
<1> DEFINE found == findTreeNode(OpenVolume(reg, v), v, path)
<1>1. RegistryTyped(found) /\ found.trees = [reg.trees EXCEPT ![v] = @ \union NodesTo(path)]
  BY FoundTrees
<1>2. PICK created : after = [found EXCEPT !.loaded = @ \union created]
  BY DEF ThrownAcquisitions
<1> HIDE DEF found
<1> QED
  BY <1>1, <1>2 DEF RegistryTyped, Registries

(***************************************************************************)
(* The nodes that a mount option can reach, and the hypothesis under which *)
(* no key is misread as one of them: the keys of nodes that options of     *)
(* different volumes ask for do not begin with each other.  It holds when  *)
(* no volume path has a colon.                                             *)
(***************************************************************************)
Visible(v, path) == \E o \in MountOptions : o.volume = v /\ IsInSubtree(path, o.nodePath)

KeysApart ==
  \A o, q \in MountOptions :
    o.volume # q.volume =>
      ~IsPrefix(Key(Storage(o.volume, o.nodePath)), Key(Storage(q.volume, q.nodePath)))

\* The fields of the options of a mount.
LEMMA OptionFields ==
  ASSUME NEW o \in MountOptions
  PROVE  /\ o.mountPath \in Path /\ o.mountPath # <<>>
         /\ o.volume \in Volumes /\ o.nodePath \in Path /\ o.nodePath # <<>> /\ o.priority \in Int
BY MountOptionsAssumption DEF WellFormed

\* Of two prefixes of a sequence one is a prefix of the other.
LEMMA PrefixesCompare ==
  ASSUME NEW S, NEW x \in Seq(S), NEW y \in Seq(S), NEW z \in Seq(S), IsPrefix(x, z), IsPrefix(y, z)
  PROVE  IsPrefix(x, y) \/ IsPrefix(y, x)
<1>1. Len(x) \in Nat /\ Len(y) \in Nat /\ Len(z) \in Nat
  OBVIOUS
<1>2. Len(x) <= Len(z) /\ \A i \in 1..Len(x) : x[i] = z[i]
  BY PrefixElements
<1>3. Len(y) <= Len(z) /\ \A i \in 1..Len(y) : y[i] = z[i]
  BY PrefixElements
<1>4. CASE Len(x) <= Len(y)
  <2>1. \A i \in 1..Len(x) : x[i] = y[i]
    BY <1>1, <1>2, <1>3, <1>4
  <2> QED
    BY <1>4, <2>1, PrefixElements
<1>5. CASE Len(y) <= Len(x)
  <2>1. \A i \in 1..Len(y) : y[i] = x[i]
    BY <1>1, <1>2, <1>3, <1>5
  <2> QED
    BY <1>5, <2>1, PrefixElements
<1> QED
  BY <1>1, <1>4, <1>5

(***************************************************************************)
(* Visible storages with one key are of one volume.                        *)
(***************************************************************************)
LEMMA VisibleKeys ==
  ASSUME KeysApart, NEW r \in NodeStorages, NEW s \in NodeStorages, Key(r) = Key(s),
         Visible(r.volume, r.path), Visible(s.volume, s.path)
  PROVE  r = s
<1>1. ASSUME NEW x \in NodeStorages, Visible(x.volume, x.path)
      PROVE  \E o \in MountOptions :
               LET root == Storage(o.volume, o.nodePath)
               IN o.volume = x.volume /\ Key(root) \in Text /\ IsPrefix(Key(root), Key(x))
  <2>1. PICK o \in MountOptions : o.volume = x.volume /\ IsInSubtree(x.path, o.nodePath)
    BY <1>1 DEF Visible
  <2> DEFINE root == Storage(o.volume, o.nodePath)
  <2>2. root \in NodeStorages /\ root.volume = x.volume /\ root.path = o.nodePath
    BY <2>1, OptionFields, StorageText
  <2> HIDE DEF root
  <2>3. Key(root) \in Text /\ IsPrefix(Key(root), Key(x))
    BY <2>1, <2>2, KeyPrefix, KeyFacts, NodeStorageText
  <2> QED
    BY <2>1, <2>3 DEF root
<1>2. PICK o \in MountOptions :
        LET root == Storage(o.volume, o.nodePath)
        IN o.volume = r.volume /\ Key(root) \in Text /\ IsPrefix(Key(root), Key(r))
  BY <1>1
<1>3. PICK q \in MountOptions :
        LET root == Storage(q.volume, q.nodePath)
        IN q.volume = s.volume /\ Key(root) \in Text /\ IsPrefix(Key(root), Key(s))
  BY <1>1
<1>4. Key(s) \in Text
  BY KeyFacts, NodeStorageText
<1> DEFINE x == Key(Storage(o.volume, o.nodePath))
           y == Key(Storage(q.volume, q.nodePath))
<1>5. x \in Text /\ y \in Text /\ IsPrefix(x, Key(s)) /\ IsPrefix(y, Key(s))
  BY <1>2, <1>3
<1>6. IsPrefix(x, y) \/ IsPrefix(y, x)
  <2> HIDE DEF x, y
  <2> QED
    BY <1>4, <1>5, PrefixesCompare DEF Text
<1>7. o.volume = q.volume
  BY <1>6 DEF KeysApart
<1> QED
  BY <1>2, <1>3, <1>7, KeyInjective

(***************************************************************************)
(* Releases find what they unload in the trees, and only where a key is    *)
(* misread they make nodes, which no option reaches.                       *)
(***************************************************************************)
TreesClosed(reg) == \A v \in Volumes : \A q \in reg.trees[v] : NodesTo(q) \subseteq reg.trees[v]

TreesKept(reg, after) ==
  \A v \in Volumes :
    /\ reg.trees[v] \subseteq after.trees[v]
    /\ \A q \in after.trees[v] \ reg.trees[v] : ~Visible(v, q)

\* A release adds no node that a mount can see.
LEMMA ReleaseKeepsTrees ==
  ASSUME KeysApart, NEW reg, RegistryTyped(reg), NEW S \in SUBSET reg.registered, TreesClosed(reg),
         \A s \in S : s.path \in reg.trees[s.volume] /\ Visible(s.volume, s.path)
  PROVE  LET after == releaseStorages(reg, S)
         IN TreesClosed(after) /\ TreesKept(reg, after)
<1> DEFINE after == releaseStorages(reg, S)
           targets == {UnloadTarget(s) : s \in Freed(reg, S)}
<1>1. \A v \in Volumes :
        after.trees[v] = reg.trees[v] \union
                         UNION {NodesTo(t.path) : t \in {r \in targets : r.volume = v}}
  BY ReleaseFacts
<1>2. ASSUME NEW r \in targets, NEW v \in Volumes, r.volume = v, NEW q \in NodesTo(r.path)
      PROVE  /\ NodesTo(q) \subseteq NodesTo(r.path)
             /\ q \in reg.trees[v] \/ ~Visible(v, q)
  <2>1. PICK s \in S : r = UnloadTarget(s)
    BY DEF Freed
  <2>2. s \in NodeStorages /\ s.path \in reg.trees[s.volume] /\ Visible(s.volume, s.path)
    BY DEF RegistryTyped, Registries
  <2>3. /\ r.path \in Path /\ r.path # <<>> /\ r = Storage(r.volume, r.path)
        /\ Key(r) = Key(s)
    BY <2>1, <2>2, UnloadTargetFacts
  <2>4. r \in NodeStorages
    BY <1>2, <2>3, StorageText
  <2>5. q \in Path /\ NodesTo(q) \subseteq NodesTo(r.path) /\ IsInSubtree(r.path, q)
    BY <2>3, NodesToNested, NodesToFacts
  <2>6. ASSUME Visible(v, q) PROVE q \in reg.trees[v]
    <3>1. PICK o \in MountOptions : o.volume = v /\ IsInSubtree(q, o.nodePath)
      BY <2>6 DEF Visible
    <3>2. IsInSubtree(r.path, o.nodePath)
      BY <2>3, <2>5, <3>1, SubtreesNest, OptionFields
    <3>3. Visible(r.volume, r.path)
      BY <1>2, <3>1, <3>2 DEF Visible
    <3>4. r = s
      BY <2>2, <2>3, <2>4, <3>3, VisibleKeys
    <3> QED
      BY <1>2, <2>2, <3>4 DEF TreesClosed
  <2> QED
    BY <2>5, <2>6
<1> HIDE DEF after, targets
<1>3. ASSUME NEW v \in Volumes, NEW q \in after.trees[v]
      PROVE  /\ NodesTo(q) \subseteq after.trees[v]
             /\ q \in reg.trees[v] \/ ~Visible(v, q)
  <2>1. CASE q \in reg.trees[v]
    BY <1>1, <2>1 DEF TreesClosed
  <2>2. CASE q \notin reg.trees[v]
    <3>1. PICK r \in targets : r.volume = v /\ q \in NodesTo(r.path)
      BY <1>1, <2>2
    <3>2. NodesTo(r.path) \subseteq after.trees[v]
      BY <1>1, <3>1
    <3> QED
      BY <1>2, <3>1, <3>2
  <2> QED
    BY <2>1, <2>2
<1>4. \A v \in Volumes : reg.trees[v] \subseteq after.trees[v]
  BY <1>1
<1> QED
  BY <1>3, <1>4 DEF TreesClosed, TreesKept, after

(***************************************************************************)
(* An acquisition adds the nodes on the way to its path.                   *)
(***************************************************************************)
LEMMA GrownTrees ==
  ASSUME NEW reg, RegistryTyped(reg), NEW v \in Volumes, NEW path \in Path, TreesClosed(reg),
         NEW after, after.trees = [reg.trees EXCEPT ![v] = @ \union NodesTo(path)]
  PROVE  /\ TreesClosed(after)
         /\ \A w \in Volumes : reg.trees[w] \subseteq after.trees[w]
         /\ \A w \in Volumes : \A q \in after.trees[w] \ reg.trees[w] : w = v /\ q \in NodesTo(path)
         /\ path \in reg.trees[v] => after.trees = reg.trees
<1>1. DOMAIN reg.trees = Volumes /\ \A w \in Volumes : reg.trees[w] \subseteq Path
  BY DEF RegistryTyped, Registries
<1>2. \A w \in Volumes :
        after.trees[w] = IF w = v THEN reg.trees[w] \union NodesTo(path) ELSE reg.trees[w]
  BY <1>1
<1>3. ASSUME NEW w \in Volumes, NEW q \in after.trees[w] PROVE NodesTo(q) \subseteq after.trees[w]
  <2>1. CASE q \in reg.trees[w]
    BY <1>2, <2>1 DEF TreesClosed
  <2>2. CASE q \notin reg.trees[w]
    <3>1. w = v /\ q \in NodesTo(path)
      BY <1>2, <2>2
    <3> QED
      BY <1>2, <3>1, NodesToNested
  <2> QED
    BY <2>1, <2>2
<1>4. ASSUME path \in reg.trees[v] PROVE after.trees = reg.trees
  <2>1. NodesTo(path) \subseteq reg.trees[v]
    BY <1>4 DEF TreesClosed
  <2>2. reg.trees[v] \union NodesTo(path) = reg.trees[v]
    BY <2>1
  <2>3. after.trees = [reg.trees EXCEPT ![v] = reg.trees[v]]
    BY <2>2
  <2>4. reg.trees \in [Volumes -> SUBSET Path]
    BY DEF RegistryTyped, Registries
  <2> QED
    BY <2>3, <2>4
<1> QED
  BY <1>2, <1>3, <1>4 DEF TreesClosed

(***************************************************************************)
(* Trees that are kept show the same subtrees.                             *)
(***************************************************************************)
LEMMA SubtreesKept ==
  ASSUME NEW reg, RegistryTyped(reg), NEW after, RegistryTyped(after), TreesKept(reg, after),
         NEW v \in Volumes, NEW path \in Path, Visible(v, path)
  PROVE  Subtree(after, v, path) = Subtree(reg, v, path)
<1>1. after.trees[v] \subseteq Path /\ reg.trees[v] \subseteq Path
  BY DEF RegistryTyped, Registries
<1>2. ASSUME NEW q \in after.trees[v], IsInSubtree(q, path) PROVE q \in reg.trees[v]
  <2>1. PICK o \in MountOptions : o.volume = v /\ IsInSubtree(path, o.nodePath)
    BY DEF Visible
  <2>2. IsInSubtree(q, o.nodePath)
    BY <1>1, <1>2, <2>1, SubtreesNest, OptionFields
  <2> QED
    BY <1>2, <2>1, <2>2 DEF TreesKept, Visible
<1>3. {q \in after.trees[v] : IsInSubtree(q, path)} = {q \in reg.trees[v] : IsInSubtree(q, path)}
  BY <1>2 DEF TreesKept
<1> QED
  BY <1>3 DEF Subtree

-----------------------------------------------------------------------------
(***************************************************************************)
(* The vector of one virtual node.                                         *)
(***************************************************************************)
Entry == [storage : NodeStorages, priority : Int]

Sorted(entries) ==
  \A i, j \in 1..Len(entries) : i < j => entries[i].priority >= entries[j].priority

CountIn(entries, X) == Cardinality(Positions(entries, X))

(***************************************************************************)
(* The entries of some storages, and those of one storage from a priority  *)
(* on.                                                                     *)
(***************************************************************************)
Holding(storages) == {entry \in Entry : entry.storage \in storages}

From(s, p) == {entry \in Entry : entry.storage = s /\ entry.priority >= p}

(***************************************************************************)
(* The fields of the entries of a vector.                                  *)
(***************************************************************************)
LEMMA EntryFields ==
  ASSUME NEW entries \in Seq(Entry)
  PROVE  \A i \in 1..Len(entries) :
           entries[i] \in Entry /\ entries[i].priority \in Int /\ entries[i].storage \in NodeStorages
<1>1. \A i \in 1..Len(entries) : entries[i] \in Entry
  OBVIOUS
<1>2. \A entry \in Entry : entry.priority \in Int /\ entry.storage \in NodeStorages
  BY DEF Entry
<1> QED
  BY <1>1, <1>2

(***************************************************************************)
(* In a sorted vector the entries that an insertion passes come first.     *)
(***************************************************************************)
LEMMA PassedFirst ==
  ASSUME NEW entries \in Seq(Entry), Sorted(entries), NEW entry \in Entry
  PROVE  LET before == {i \in DOMAIN entries : entries[i].priority >= entry.priority}
         IN /\ Cardinality(before) \in 0..Len(entries)
            /\ before = 1..Cardinality(before)
<1> DEFINE before == {i \in DOMAIN entries : entries[i].priority >= entry.priority}
           T == {m \in 0..Len(entries) : m + 1 \notin before}
<1>1. Len(entries) \in Nat /\ DOMAIN entries = 1..Len(entries)
  OBVIOUS
<1>2. T \in SUBSET Nat /\ T # {}
  <2>1. Len(entries) \in T
    BY <1>1
  <2> QED
    BY <1>1, <2>1
<1>3. PICK m \in T : \A k \in T : m <= k
  BY <1>2, LeastNatural
<1>4. m \in 0..Len(entries) /\ m + 1 \notin before
  BY <1>3
<1>5. ASSUME NEW i \in 1..m PROVE i \in before
  <2>1. i - 1 \in 0..Len(entries) /\ ~(m <= i - 1) /\ (i - 1) + 1 = i
    BY <1>1, <1>4
  <2> QED
    BY <1>3, <2>1
<1>6. ASSUME NEW i \in before PROVE i \in 1..m
  <2>1. i \in 1..Len(entries) /\ entries[i].priority >= entry.priority
    BY <1>1
  <2>2. SUFFICES ASSUME i > m PROVE FALSE
    BY <1>4, <2>1
  <2>3. m + 1 \in 1..Len(entries)
    BY <1>1, <1>4, <2>1, <2>2
  <2>4. entries[m + 1].priority >= entries[i].priority
    <3>1. m + 1 = i \/ m + 1 < i
      BY <1>4, <2>1, <2>2
    <3>2. entries[i].priority \in Int
      BY <2>1, EntryFields
    <3> QED
      BY <2>1, <2>3, <3>1, <3>2 DEF Sorted
  <2>5. entries[m + 1].priority \in Int /\ entries[i].priority \in Int /\ entry.priority \in Int
    <3>1. entry.priority \in Int
      BY DEF Entry
    <3> QED
      BY <2>1, <2>3, <3>1, EntryFields
  <2>6. m + 1 \in before
    BY <1>1, <2>1, <2>3, <2>4, <2>5
  <2> QED
    BY <1>4, <2>6
<1>7. before = 1..m
  BY <1>5, <1>6
<1>8. Cardinality(1..m) = m
  BY <1>4, FS_Interval
<1> QED
  BY <1>4, <1>7, <1>8

(***************************************************************************)
(* An insertion by priority adds one entry and keeps the vector sorted.    *)
(***************************************************************************)
LEMMA InsertByPriorityFacts ==
  ASSUME NEW entries \in Seq(Entry), Sorted(entries), NEW entry \in Entry
  PROVE  LET r == InsertByPriority(entries, entry)
         IN /\ r \in Seq(Entry) /\ Sorted(r)
            /\ \A X : CountIn(r, X) = CountIn(entries, X) + IF entry \in X THEN 1 ELSE 0
<1> DEFINE before == {i \in DOMAIN entries : entries[i].priority >= entry.priority}
           m == Cardinality(before)
           r == InsertByPriority(entries, entry)
<1>1. m \in 0..Len(entries) /\ before = 1..m
  BY PassedFirst
<1>2. r = InsertAt(entries, m + 1, entry)
  BY DEF InsertByPriority
<1>3. \A i \in 1..Len(entries) : i <= m <=> entries[i].priority >= entry.priority
  BY <1>1
<1> HIDE DEF m, before, r
<1>4. Len(entries) \in Nat /\ m + 1 \in 1..(Len(entries) + 1)
  BY <1>1
<1>5. r \in Seq(Entry) /\ Inserted(r, entries, m + 1, entry)
  BY <1>2, <1>4, InsertAtInserts
<1>6. Len(r) = Len(entries) + 1 /\ r[m + 1] = entry
  BY <1>5 DEF Inserted
<1>7. \A i \in 1..Len(r) : i # m + 1 =>
        LET j == IF i < m + 1 THEN i ELSE i - 1 IN j \in 1..Len(entries) /\ r[i] = entries[j]
  BY <1>5, InsertedElements
<1>8. Sorted(r)
  <2> SUFFICES ASSUME NEW i \in 1..Len(r), NEW j \in 1..Len(r), i < j
               PROVE  r[i].priority >= r[j].priority
    BY DEF Sorted
  <2>1. \A k \in 1..Len(entries) : entries[k].priority \in Int
    BY EntryFields
  <2>2. entry.priority \in Int
    BY DEF Entry
  <2>3. CASE i # m + 1 /\ j # m + 1
    <3> DEFINE Old(n) == IF n < m + 1 THEN n ELSE n - 1
    <3>1. /\ Old(i) \in 1..Len(entries) /\ r[i] = entries[Old(i)]
          /\ Old(j) \in 1..Len(entries) /\ r[j] = entries[Old(j)]
      BY <1>7, <2>3
    <3>2. Old(i) < Old(j)
      BY <1>1, <2>3
    <3> HIDE DEF Old
    <3> QED
      BY <3>1, <3>2 DEF Sorted
  <2>4. CASE i = m + 1
    <3>1. j # m + 1 /\ j - 1 \in 1..Len(entries) /\ ~(j - 1 <= m) /\ r[j] = entries[j - 1]
      BY <1>1, <1>4, <1>6, <1>7, <2>4
    <3> QED
      BY <1>3, <1>6, <2>1, <2>2, <2>4, <3>1
  <2>5. CASE j = m + 1
    <3>1. i # m + 1 /\ i \in 1..Len(entries) /\ i <= m /\ r[i] = entries[i]
      BY <1>1, <1>4, <1>6, <1>7, <2>5
    <3> QED
      BY <1>3, <1>6, <2>1, <2>2, <2>5, <3>1
  <2> QED
    BY <2>3, <2>4, <2>5
<1>9. \A X : CountIn(r, X) = CountIn(entries, X) + IF entry \in X THEN 1 ELSE 0
  BY <1>5, InsertedPositions DEF CountIn
<1> QED
  BY <1>5, <1>8, <1>9 DEF r

(***************************************************************************)
(* The vector without the first entry that holds a storage.                *)
(***************************************************************************)
Without(entries, s) == RemoveFirstMatch(entries, LAMBDA entry : entry.storage = s)

\* Erasing the first entry of a storage keeps the rest in order.
LEMMA WithoutFacts ==
  ASSUME NEW entries \in Seq(Entry), NEW s,
         \E i \in DOMAIN entries : entries[i].storage = s
  PROVE  LET r == Without(entries, s)
         IN /\ r \in Seq(Entry)
            /\ Sorted(entries) => Sorted(r)
            /\ \A T : CountIn(entries, Holding(T))
                        = CountIn(r, Holding(T)) + IF s \in T THEN 1 ELSE 0
            /\ Sorted(entries) => \A x, p :
                 p \in Int =>
                 \/ CountIn(r, From(x, p)) = 0
                 \/ CountIn(entries, From(x, p))
                       = CountIn(r, From(x, p)) + IF x = s THEN 1 ELSE 0
<1> DEFINE Matching == {i \in 1..Len(entries) : entries[i].storage = s}
           k == Min(Matching)
           r == Without(entries, s)
<1>1. Matching \in SUBSET Nat /\ Matching # {}
  OBVIOUS
<1>2. k \in Matching
  <2>1. \E m \in Matching : \A j \in Matching : m <= j
    BY <1>1, LeastNatural, Zenon
  <2> QED
    BY <2>1 DEF Min
<1>3. r = RemoveAt(entries, k)
  <2>1. \E i \in 1..Len(entries) : entries[i].storage = s
    OBVIOUS
  <2>2. Matching # {}
    BY <1>1
  <2> QED
    BY <2>1, <2>2, Zenon DEF Without, RemoveFirstMatch, SelectInSeq
<1>4. k \in 1..Len(entries) /\ entries[k].storage = s
  BY <1>2
<1>8. \A i \in 1..Len(entries) : entries[i].storage = s => ~(i < k)
  <2>1. \A j \in Matching : k <= j
    <3>1. \E m \in Matching : \A j \in Matching : m <= j
      BY <1>1, LeastNatural, Zenon
    <3> QED
      BY <3>1 DEF Min
  <2> QED
    BY <1>2, <2>1
<1> HIDE DEF k, Matching, r
<1>5. r \in Seq(Entry) /\ Inserted(entries, r, k, entries[k])
  BY <1>3, <1>4, RemoveAtRemoves
<1>6. Sorted(entries) => Sorted(r)
  <2> SUFFICES ASSUME Sorted(entries), NEW i \in 1..Len(r), NEW j \in 1..Len(r), i < j
               PROVE  r[i].priority >= r[j].priority
    BY DEF Sorted
  <2> DEFINE Old(n) == IF n < k THEN n ELSE n + 1
  <2>1. /\ Len(entries) = Len(r) + 1 /\ Len(r) \in Nat
        /\ \A n \in 1..(k - 1) : entries[n] = r[n]
        /\ \A n \in k..Len(r) : entries[n + 1] = r[n]
    BY <1>5 DEF Inserted
  <2>2. \A n \in 1..Len(r) : Old(n) \in 1..Len(entries) /\ entries[Old(n)] = r[n]
    BY <1>4, <2>1
  <2>3. Old(i) < Old(j)
    BY <1>4
  <2> HIDE DEF Old
  <2> QED
    BY <2>2, <2>3 DEF Sorted
<1>7. ASSUME NEW T
      PROVE CountIn(entries, Holding(T)) = CountIn(r, Holding(T)) + IF s \in T THEN 1 ELSE 0
  <2>1. entries[k] \in Holding(T) <=> s \in T
    BY <1>4 DEF Holding
  <2>2. CountIn(entries, Holding(T)) = CountIn(r, Holding(T)) + IF entries[k] \in Holding(T) THEN 1 ELSE 0
    BY <1>5, InsertedPositions DEF CountIn
  <2> QED
    BY <2>1, <2>2
<1>9. ASSUME Sorted(entries), NEW x, NEW p \in Int
      PROVE  \/ CountIn(r, From(x, p)) = 0
             \/ CountIn(entries, From(x, p)) = CountIn(r, From(x, p)) + IF x = s THEN 1 ELSE 0
  <2> DEFINE X == From(x, p)
  <2>1. CountIn(entries, X) = CountIn(r, X) + IF entries[k] \in X THEN 1 ELSE 0
    BY <1>5, InsertedPositions DEF CountIn
  <2>2. entries[k] \in X <=> x = s /\ entries[k].priority >= p
    BY <1>4 DEF From
  <2> HIDE DEF X
  <2>3. CASE x # s \/ entries[k].priority >= p
    BY <2>1, <2>2, <2>3 DEF X
  <2>4. CASE x = s /\ ~(entries[k].priority >= p)
    <3>1. \A i \in 1..Len(entries) : entries[i].priority \in Int
      BY EntryFields
    <3>2. ASSUME NEW i \in 1..Len(entries), entries[i].storage = s PROVE ~(entries[i].priority >= p)
      <4>1. i = k \/ k < i
        BY <1>4, <1>8, <3>2
      <4>2. entries[k].priority >= entries[i].priority
        BY <1>4, <1>9, <3>1, <4>1 DEF Sorted
      <4> QED
        BY <1>4, <2>4, <3>1, <4>2
    <3>3. Positions(entries, X) = {}
      BY <2>4, <3>2 DEF Positions, X, From
    <3>4. CountIn(entries, X) = 0
      BY <3>3, FS_EmptySet DEF CountIn
    <3>5. CountIn(r, X) \in Nat
      BY <1>5, PositionsFinite DEF CountIn
    <3>6. CountIn(r, X) = 0
      BY <2>1, <3>4, <3>5
    <3> QED
      BY <3>6 DEF X
  <2> QED
    BY <2>3, <2>4 DEF X
<1> QED
  BY <1>5, <1>6, <1>7, <1>9 DEF r

-----------------------------------------------------------------------------
(***************************************************************************)
(* Moving a path from one root to another gives a path, and moving it back *)
(* gives the first one.                                                    *)
(***************************************************************************)
LEMMA TransplantType ==
  ASSUME NEW path \in Path, NEW from \in Path, NEW at \in Path
  PROVE  Transplant(path, from, at) \in Path
<1> DEFINE rest == SubSeq(path, Len(from) + 1, Len(path))
<1>1. rest \in Seq(Component)
  <2>1. Len(from) \in Nat /\ Len(path) \in Nat
        /\ \A i \in (Len(from) + 1)..Len(path) : path[i] \in Component
    BY DEF Path
  <2> QED
    BY <2>1, SubSeqProperties
<1> HIDE DEF rest
<1>2. at \in Seq(Component)
  BY DEF Path
<1>3. at \o rest \in Seq(Component)
  BY <1>1, <1>2, ConcatProperties
<1> QED
  BY <1>3 DEF Transplant, rest, Path

\* Transplanting there and back changes nothing.
LEMMA TransplantBack ==
  ASSUME NEW path \in Path, NEW from \in Path, NEW at \in Path, IsInSubtree(path, from)
  PROVE  Transplant(Transplant(path, from, at), at, from) = path
<1> DEFINE p == Len(path)
           f == Len(from)
           a == Len(at)
           rest == SubSeq(path, f + 1, p)
           moved == at \o rest
           tail == SubSeq(moved, a + 1, Len(moved))
<1>1. /\ path \in Seq(Component) /\ from \in Seq(Component) /\ at \in Seq(Component)
      /\ p \in Nat /\ f \in Nat /\ a \in Nat /\ f <= p
      /\ \A i \in 1..f : path[i] = from[i]
  <2>1. path \in Seq(Component) /\ from \in Seq(Component) /\ at \in Seq(Component)
        /\ p \in Nat /\ f \in Nat /\ a \in Nat
    BY DEF Path
  <2>2. f <= p /\ SubSeq(from, 1, f) = SubSeq(path, 1, f)
    BY DEF IsInSubtree, IsPrefix
  <2>3. ASSUME NEW i \in 1..f PROVE path[i] = from[i]
    <3>1. (\A j \in 1..f : path[j] \in Component) /\ (\A j \in 1..f : from[j] \in Component)
      BY <2>1, <2>2
    <3>2. SubSeq(from, 1, f)[i] = from[i]
      BY <2>1, <3>1, SubSeqProperties
    <3>3. SubSeq(path, 1, f)[i] = path[i]
      BY <2>1, <3>1, SubSeqProperties
    <3> QED
      BY <2>2, <3>2, <3>3
  <2> QED
    BY <2>1, <2>2, <2>3
<1> DEFINE r == p - f
<1>2. r \in Nat /\ rest \in Seq(Component) /\ Len(rest) = r /\ \A i \in 1..r : rest[i] = path[f + i]
  <2>1. \A i \in (f + 1)..p : path[i] \in Component
    BY <1>1
  <2> QED
    BY <1>1, <2>1, SubSeqProperties
<1>3. Transplant(path, from, at) = moved
  BY DEF Transplant
<1> HIDE DEF rest, p, f, a
<1>4. /\ moved \in Seq(Component) /\ Len(moved) = a + r
      /\ \A i \in 1..r : moved[a + i] = rest[i]
  <2>1. at \in Seq(Component) /\ rest \in Seq(Component) /\ a \in Nat /\ r \in Nat
        /\ Len(at) = a /\ Len(rest) = r
    BY <1>1, <1>2 DEF a
  <2> HIDE DEF r
  <2> QED
    BY <2>1
<1> HIDE DEF moved, r
<1>5. tail \in Seq(Component) /\ Len(tail) = r /\ \A i \in 1..r : tail[i] = rest[i]
  <2>1. \A i \in (a + 1)..Len(moved) : moved[i] \in Component
    BY <1>1, <1>4
  <2>2. /\ tail \in Seq(Component)
        /\ Len(tail) = (IF a + 1 <= Len(moved) THEN (Len(moved) - (a + 1)) + 1 ELSE 0)
        /\ \A i \in 1..((Len(moved) - (a + 1)) + 1) : tail[i] = moved[((a + 1) + i) - 1]
    <3>1. a + 1 \in Int /\ Len(moved) \in Int
      BY <1>1, <1>4
    <3> QED
      BY <2>1, <3>1, SubSeqProperties
  <2> HIDE DEF tail
  <2>3. Len(tail) = r
    BY <1>1, <1>2, <1>4, <2>2
  <2>4. ASSUME NEW i \in 1..r PROVE tail[i] = rest[i]
    <3>1. i \in 1..((Len(moved) - (a + 1)) + 1) /\ ((a + 1) + i) - 1 = a + i
      BY <1>1, <1>2, <1>4
    <3> QED
      BY <1>4, <2>2, <3>1
  <2> QED
    BY <2>2, <2>3, <2>4
<1>6. Transplant(moved, at, from) = from \o tail
  BY DEF Transplant, a
<1> HIDE DEF tail
<1>7. from \o tail = path
  <2>1. from \in Seq(Component) /\ tail \in Seq(Component) /\ f \in Nat /\ r \in Nat
        /\ Len(from) = f /\ Len(tail) = r
    BY <1>1, <1>2, <1>5 DEF f
  <2>2. /\ from \o tail \in Seq(Component) /\ Len(from \o tail) = f + r
        /\ \A i \in 1..f : (from \o tail)[i] = from[i]
        /\ \A i \in 1..r : (from \o tail)[f + i] = tail[i]
    BY <2>1
  <2>3. f + r = p /\ Len(path) = p
    BY <1>1 DEF r, p
  <2>4. ASSUME NEW i \in 1..p PROVE (from \o tail)[i] = path[i]
    <3>1. CASE i \in 1..f
      BY <1>1, <2>2, <3>1
    <3>2. CASE i \notin 1..f
      <4>1. i - f \in 1..r /\ f + (i - f) = i
        BY <1>1, <1>2, <2>3, <3>2
      <4>2. (from \o tail)[f + (i - f)] = path[f + (i - f)]
        BY <1>2, <1>5, <2>2, <4>1
      <4> QED
        BY <4>1, <4>2
    <3> QED
      BY <3>1, <3>2
  <2> QED
    BY <1>1, <2>2, <2>3, <2>4, SeqEqual
<1> QED
  BY <1>3, <1>6, <1>7

(***************************************************************************)
(* A subtree mounted at a node puts each of its storages at one node, and  *)
(* no two at the same.                                                     *)
(***************************************************************************)
LEMMA TargetsFacts ==
  ASSUME NEW storageNode, NodeSound(storageNode), NEW node \in Path
  PROVE  LET targets == Targets(node, storageNode)
         IN /\ targets \subseteq Path
            /\ \A n \in targets :
                 /\ SourceOf(n, node, storageNode) \in StoragesOf(storageNode)
                 /\ n = Transplant(SourceOf(n, node, storageNode).path, storageNode.nodePath, node)
            /\ \A s \in StoragesOf(storageNode) :
                 LET n == Transplant(s.path, storageNode.nodePath, node)
                 IN n \in targets /\ SourceOf(n, node, storageNode) = s
<1> DEFINE Move(path) == Transplant(path, storageNode.nodePath, node)
<1>1. /\ storageNode.nodePath \in Path /\ storageNode.paths \in SUBSET Path
      /\ \A path \in storageNode.paths : IsInSubtree(path, storageNode.nodePath)
  BY DEF NodeSound
<1>2. ASSUME NEW path \in storageNode.paths
      PROVE  /\ Move(path) \in Path
             /\ SourceOf(Move(path), node, storageNode) = Storage(storageNode.volume, path)
  <2>1. path \in Path /\ IsInSubtree(path, storageNode.nodePath)
    BY <1>1
  <2>2. Transplant(Move(path), node, storageNode.nodePath) = path
    BY <1>1, <2>1, TransplantBack
  <2>3. Move(path) \in Path
    BY <1>1, <2>1, TransplantType
  <2> QED
    BY <2>2, <2>3 DEF SourceOf
<1>3. \A path : Storage(storageNode.volume, path).path = path
  BY DEF Storage
<1>4. ASSUME NEW n \in Targets(node, storageNode)
      PROVE  /\ n \in Path
             /\ SourceOf(n, node, storageNode) \in StoragesOf(storageNode)
             /\ n = Move(SourceOf(n, node, storageNode).path)
  <2>1. PICK path \in storageNode.paths : n = Move(path)
    BY DEF Targets
  <2> HIDE DEF Move
  <2> QED
    BY <1>2, <1>3, <2>1 DEF StoragesOf
<1>5. ASSUME NEW s \in StoragesOf(storageNode)
      PROVE  Move(s.path) \in Targets(node, storageNode) /\ SourceOf(Move(s.path), node, storageNode) = s
  <2>1. PICK path \in storageNode.paths : s = Storage(storageNode.volume, path)
    BY DEF StoragesOf
  <2>2. s.path = path /\ Move(path) \in Targets(node, storageNode)
    BY <1>3, <2>1 DEF Targets
  <2> HIDE DEF Move
  <2> QED
    BY <1>2, <2>1, <2>2
<1> QED
  BY <1>4, <1>5
-----------------------------------------------------------------------------
(***************************************************************************)
(* The vectors of all nodes.                                               *)
(***************************************************************************)
NodesSound(storages) ==
  /\ <<>> \in DOMAIN storages /\ DOMAIN storages \subseteq Path
  /\ storages \in [DOMAIN storages -> Seq(Entry)]
  /\ \A n \in DOMAIN storages : Sorted(storages[n])

(***************************************************************************)
(* A subtree mounted at `node' brings one of the storages T to the node n. *)
(***************************************************************************)
Brings(node, storageNode, n, T) ==
  n \in Targets(node, storageNode) /\ SourceOf(n, node, storageNode) \in T

EntryFor(node, storageNode, priority, n) ==
  [storage |-> SourceOf(n, node, storageNode), priority |-> priority]

\* The vector of a node that does not exist is empty.
LEMMA EntriesAtFacts ==
  ASSUME NEW storages, NodesSound(storages), NEW n
  PROVE  EntriesAt(storages, n) \in Seq(Entry) /\ Sorted(EntriesAt(storages, n))
<1>1. <<>> \in Seq(Entry) /\ Sorted(<<>>)
  BY EmptySeq DEF Sorted
<1> QED
  BY <1>1 DEF EntriesAt, NodesSound

\* A count of entries is a natural.
LEMMA CountType ==
  ASSUME NEW storages, NodesSound(storages), NEW n, NEW X
  PROVE  CountIn(EntriesAt(storages, n), X) \in Nat
BY EntriesAtFacts, PositionsFinite DEF CountIn

(***************************************************************************)
(* Mounting a subtree adds one entry per target.                           *)
(***************************************************************************)
OneEntryMore(less, more, node, storageNode, priority) ==
  \A n, X : CountIn(EntriesAt(more, n), X)
              = CountIn(EntriesAt(less, n), X)
                  + IF /\ n \in Targets(node, storageNode)
                       /\ EntryFor(node, storageNode, priority, n) \in X THEN 1 ELSE 0

\* Mounting a subtree adds one entry to each of its targets.
LEMMA MountSubtreeFacts ==
  ASSUME NEW storages, NodesSound(storages), NEW node \in Path,
         NEW storageNode, NodeSound(storageNode), NEW priority \in Int
  PROVE  LET after == MountSubtree(storages, node, storageNode, priority)
         IN /\ NodesSound(after)
            /\ DOMAIN after = DOMAIN storages \union Targets(node, storageNode)
            /\ OneEntryMore(storages, after, node, storageNode, priority)
<1> DEFINE targets == Targets(node, storageNode)
           entry(n) == EntryFor(node, storageNode, priority, n)
           Row(n) == IF n \in targets THEN InsertByPriority(EntriesAt(storages, n), entry(n))
                     ELSE storages[n]
           after == MountSubtree(storages, node, storageNode, priority)
<1>1. after = [n \in DOMAIN storages \union targets |-> Row(n)]
  BY DEF MountSubtree, EntryFor
<1>2. targets \subseteq Path
  BY TargetsFacts
<1>3. ASSUME NEW n \in targets PROVE entry(n) \in Entry
  <2>1. SourceOf(n, node, storageNode) \in NodeStorages
    BY TargetsFacts, StoragesOfFacts
  <2> QED
    BY <2>1 DEF Entry, EntryFor
<1> HIDE DEF entry
<1>4. ASSUME NEW n \in targets
      PROVE  /\ Row(n) \in Seq(Entry) /\ Sorted(Row(n))
             /\ \A X : CountIn(Row(n), X)
                         = CountIn(EntriesAt(storages, n), X) + IF entry(n) \in X THEN 1 ELSE 0
  <2>1. EntriesAt(storages, n) \in Seq(Entry) /\ Sorted(EntriesAt(storages, n))
    BY EntriesAtFacts
  <2> DEFINE old == EntriesAt(storages, n)
             r == InsertByPriority(old, entry(n))
  <2> HIDE DEF old
  <2>2. /\ r \in Seq(Entry) /\ Sorted(r)
        /\ \A X : CountIn(r, X) = CountIn(old, X) + IF entry(n) \in X THEN 1 ELSE 0
    BY <1>3, <2>1, InsertByPriorityFacts DEF old
  <2>3. Row(n) = r
    BY DEF old
  <2> HIDE DEF Row, r
  <2> QED
    BY <2>2, <2>3 DEF old
<1>5. \A n \in DOMAIN storages \ targets : Row(n) = storages[n]
  OBVIOUS
<1> HIDE DEF Row, targets, after
<1>6. DOMAIN after = DOMAIN storages \union targets
      /\ \A n \in DOMAIN storages \union targets : after[n] = Row(n)
  BY <1>1
<1>7. NodesSound(after)
  <2>1. ASSUME NEW n \in DOMAIN storages \union targets PROVE after[n] \in Seq(Entry) /\ Sorted(after[n])
    BY <1>4, <1>5, <1>6 DEF NodesSound
  <2> QED
    BY <1>1, <1>2, <1>6, <2>1 DEF NodesSound
<1>8. ASSUME NEW n, NEW X
      PROVE  CountIn(EntriesAt(after, n), X)
               = CountIn(EntriesAt(storages, n), X)
                   + IF n \in targets /\ entry(n) \in X THEN 1 ELSE 0
  <2>0. CountIn(EntriesAt(storages, n), X) \in Nat
    BY CountType
  <2>1. CASE n \in targets
    <3>1. EntriesAt(after, n) = Row(n)
      BY <1>6, <2>1 DEF EntriesAt
    <3> QED
      BY <1>4, <2>1, <3>1
  <2>2. CASE n \notin targets
    <3>1. EntriesAt(after, n) = EntriesAt(storages, n)
      BY <1>5, <1>6, <2>2 DEF EntriesAt
    <3> QED
      BY <2>0, <2>2, <3>1
  <2> QED
    BY <2>1, <2>2
<1>9. OneEntryMore(storages, after, node, storageNode, priority)
  BY <1>8 DEF OneEntryMore, targets, entry
<1> QED
  BY <1>6, <1>7, <1>9 DEF after, targets

(***************************************************************************)
(* The counts of some storages, and of one storage from a priority on.     *)
(***************************************************************************)
LEMMA MountSubtreeCounts ==
  ASSUME NEW storages, NodesSound(storages), NEW node \in Path,
         NEW storageNode, NodeSound(storageNode), NEW priority \in Int
  PROVE  LET after == MountSubtree(storages, node, storageNode, priority)
         IN /\ \A n, T : CountIn(EntriesAt(after, n), Holding(T))
                 = CountIn(EntriesAt(storages, n), Holding(T))
                     + IF Brings(node, storageNode, n, T) THEN 1 ELSE 0
            /\ \A n, s, p : CountIn(EntriesAt(after, n), From(s, p))
                 = CountIn(EntriesAt(storages, n), From(s, p))
                     + IF Brings(node, storageNode, n, {s}) /\ priority >= p THEN 1 ELSE 0
<1> DEFINE after == MountSubtree(storages, node, storageNode, priority)
           entry(n) == EntryFor(node, storageNode, priority, n)
           Adds(n, X) == n \in Targets(node, storageNode) /\ entry(n) \in X
<1>1. \A n, X : CountIn(EntriesAt(after, n), X)
        = CountIn(EntriesAt(storages, n), X) + IF Adds(n, X) THEN 1 ELSE 0
  <2>1. OneEntryMore(storages, after, node, storageNode, priority)
    BY MountSubtreeFacts
  <2> HIDE DEF after
  <2> QED
    BY <2>1 DEF OneEntryMore
<1>2. ASSUME NEW n \in Targets(node, storageNode)
      PROVE  /\ entry(n) \in Entry /\ entry(n).priority = priority
             /\ entry(n).storage = SourceOf(n, node, storageNode)
  <2>1. SourceOf(n, node, storageNode) \in NodeStorages
    BY TargetsFacts, StoragesOfFacts
  <2> QED
    BY <2>1 DEF Entry, EntryFor
<1> HIDE DEF after, entry
<1>3. ASSUME NEW n, NEW T PROVE Adds(n, Holding(T)) <=> Brings(node, storageNode, n, T)
  BY <1>2 DEF Brings, Holding
<1>4. ASSUME NEW n, NEW s, NEW p
      PROVE  Adds(n, From(s, p)) <=> Brings(node, storageNode, n, {s}) /\ priority >= p
  BY <1>2 DEF Brings, From
<1> HIDE DEF Adds
<1>5. \A n, T : CountIn(EntriesAt(after, n), Holding(T))
        = CountIn(EntriesAt(storages, n), Holding(T)) + IF Brings(node, storageNode, n, T) THEN 1 ELSE 0
  BY <1>1, <1>3
<1>6. \A n, s, p : CountIn(EntriesAt(after, n), From(s, p))
        = CountIn(EntriesAt(storages, n), From(s, p))
            + IF Brings(node, storageNode, n, {s}) /\ priority >= p THEN 1 ELSE 0
  BY <1>1, <1>4
<1> QED
  BY <1>5, <1>6 DEF after

(***************************************************************************)
(* What an unmount leaves in the vectors.                                  *)
(***************************************************************************)
NodesWithout(storages, node, storageNode) ==
  [n \in DOMAIN storages |->
     IF n \in Targets(node, storageNode) THEN Without(storages[n], SourceOf(n, node, storageNode))
     ELSE storages[n]]

HasEntries(storages, node, storageNode) ==
  \A n \in Targets(node, storageNode) :
    \E i \in DOMAIN EntriesAt(storages, n) :
      storages[n][i].storage = SourceOf(n, node, storageNode)

\* Taking it down erases one entry of each of its targets.
LEMMA NodesWithoutFacts ==
  ASSUME NEW storages, NodesSound(storages), NEW node \in Path,
         NEW storageNode, NodeSound(storageNode), HasEntries(storages, node, storageNode)
  PROVE  LET after == NodesWithout(storages, node, storageNode)
         IN /\ NodesSound(after)
            /\ DOMAIN after = DOMAIN storages
            /\ \A n, T : CountIn(EntriesAt(storages, n), Holding(T))
                 = CountIn(EntriesAt(after, n), Holding(T))
                     + IF Brings(node, storageNode, n, T) THEN 1 ELSE 0
            /\ \A n, s : \A p \in Int :
                 \/ CountIn(EntriesAt(after, n), From(s, p)) = 0
                 \/ CountIn(EntriesAt(storages, n), From(s, p))
                      = CountIn(EntriesAt(after, n), From(s, p))
                          + IF Brings(node, storageNode, n, {s}) THEN 1 ELSE 0
<1> DEFINE targets == Targets(node, storageNode)
           source(n) == SourceOf(n, node, storageNode)
           Row(n) == IF n \in targets THEN Without(storages[n], source(n)) ELSE storages[n]
           after == NodesWithout(storages, node, storageNode)
<1>1. after = [n \in DOMAIN storages |-> Row(n)]
  BY DEF NodesWithout
<1>2. ASSUME NEW n \in targets PROVE n \in DOMAIN storages /\ \E i \in DOMAIN storages[n] : storages[n][i].storage = source(n)
  <2>1. PICK i \in DOMAIN EntriesAt(storages, n) : storages[n][i].storage = source(n)
    BY DEF HasEntries
  <2>2. n \in DOMAIN storages
    <3> SUFFICES ASSUME n \notin DOMAIN storages PROVE FALSE
      OBVIOUS
    <3>1. EntriesAt(storages, n) = <<>>
      BY DEF EntriesAt
    <3> QED
      BY <2>1, <3>1
  <2> QED
    BY <2>1, <2>2 DEF EntriesAt
<1> HIDE DEF source
<1>3. ASSUME NEW n \in targets
      PROVE  /\ Row(n) \in Seq(Entry) /\ Sorted(Row(n))
             /\ \A T : CountIn(storages[n], Holding(T))
                         = CountIn(Row(n), Holding(T)) + IF source(n) \in T THEN 1 ELSE 0
             /\ \A s : \A p \in Int :
                  \/ CountIn(Row(n), From(s, p)) = 0
                  \/ CountIn(storages[n], From(s, p))
                       = CountIn(Row(n), From(s, p)) + IF s = source(n) THEN 1 ELSE 0
  <2> DEFINE old == storages[n]
             r == Without(old, source(n))
  <2>1. old \in Seq(Entry) /\ Sorted(old)
    BY <1>2 DEF NodesSound
  <2>2. \E i \in DOMAIN old : old[i].storage = source(n)
    BY <1>2
  <2>3. Row(n) = r
    OBVIOUS
  <2> HIDE DEF old
  <2>4. /\ r \in Seq(Entry) /\ Sorted(r)
        /\ \A T : CountIn(old, Holding(T))
                    = CountIn(r, Holding(T)) + IF source(n) \in T THEN 1 ELSE 0
        /\ \A s, p : p \in Int =>
             \/ CountIn(r, From(s, p)) = 0
             \/ CountIn(old, From(s, p)) = CountIn(r, From(s, p)) + IF s = source(n) THEN 1 ELSE 0
    BY <2>1, <2>2, WithoutFacts
  <2> HIDE DEF Row, r
  <2> QED
    BY <2>3, <2>4 DEF old
<1>4. \A n \in DOMAIN storages \ targets : Row(n) = storages[n]
  OBVIOUS
<1> HIDE DEF Row, targets, after
<1>5. DOMAIN after = DOMAIN storages /\ \A n \in DOMAIN storages : after[n] = Row(n)
  BY <1>1
<1>6. NodesSound(after)
  <2>1. ASSUME NEW n \in DOMAIN storages PROVE after[n] \in Seq(Entry) /\ Sorted(after[n])
    BY <1>3, <1>4, <1>5 DEF NodesSound
  <2> QED
    BY <1>1, <1>5, <2>1 DEF NodesSound
<1>7. ASSUME NEW n \in targets
      PROVE  EntriesAt(after, n) = Row(n) /\ EntriesAt(storages, n) = storages[n]
  BY <1>2, <1>5 DEF EntriesAt
<1>8. ASSUME NEW n, n \notin targets PROVE EntriesAt(after, n) = EntriesAt(storages, n)
  BY <1>4, <1>5, <1>8 DEF EntriesAt
<1>9. ASSUME NEW n, NEW T
      PROVE  CountIn(EntriesAt(storages, n), Holding(T))
               = CountIn(EntriesAt(after, n), Holding(T)) + IF Brings(node, storageNode, n, T) THEN 1 ELSE 0
  <2>0. CountIn(EntriesAt(storages, n), Holding(T)) \in Nat
    BY CountType
  <2>1. CASE n \in targets
    <3>1. Brings(node, storageNode, n, T) <=> source(n) \in T
      BY <2>1 DEF Brings, targets, source
    <3> QED
      BY <1>3, <1>7, <2>1, <3>1
  <2>2. CASE n \notin targets
    <3>1. ~Brings(node, storageNode, n, T)
      BY <2>2 DEF Brings, targets
    <3> QED
      BY <1>8, <2>0, <2>2, <3>1
  <2> QED
    BY <2>1, <2>2
<1>10. ASSUME NEW n, NEW s, NEW p \in Int
       PROVE  \/ CountIn(EntriesAt(after, n), From(s, p)) = 0
              \/ CountIn(EntriesAt(storages, n), From(s, p))
                   = CountIn(EntriesAt(after, n), From(s, p))
                       + IF Brings(node, storageNode, n, {s}) THEN 1 ELSE 0
  <2>0. CountIn(EntriesAt(storages, n), From(s, p)) \in Nat
    BY CountType
  <2>1. CASE n \in targets
    <3>1. Brings(node, storageNode, n, {s}) <=> s = source(n)
      BY <2>1 DEF Brings, targets, source
    <3> QED
      BY <1>3, <1>7, <2>1, <3>1
  <2>2. CASE n \notin targets
    <3>1. ~Brings(node, storageNode, n, {s})
      BY <2>2 DEF Brings, targets
    <3> QED
      BY <1>8, <2>0, <2>2, <3>1
  <2> QED
    BY <2>1, <2>2
<1> QED
  BY <1>5, <1>6, <1>9, <1>10 DEF after

(***************************************************************************)
(* Creating nodes adds empty vectors.                                      *)
(***************************************************************************)
LEMMA CreateNodesFacts ==
  ASSUME NEW storages, NodesSound(storages), NEW path \in Path
  PROVE  LET after == createNodesForPath(storages, path)
         IN /\ NodesSound(after)
            /\ DOMAIN after = DOMAIN storages \union NodesTo(path)
            /\ \A n : EntriesAt(after, n) = EntriesAt(storages, n)
<1> DEFINE after == createNodesForPath(storages, path)
           nodes == DOMAIN storages \union NodesTo(path)
<1>1. after = [n \in nodes |-> EntriesAt(storages, n)]
  BY DEF createNodesForPath
<1>2. nodes \subseteq Path
  BY NodesToFacts DEF NodesSound
<1>3. DOMAIN storages \subseteq nodes
  OBVIOUS
<1> HIDE DEF after, nodes
<1>4. DOMAIN after = nodes /\ \A n \in nodes : after[n] = EntriesAt(storages, n)
  BY <1>1
<1>5. \A n \in nodes : after[n] \in Seq(Entry) /\ Sorted(after[n])
  BY <1>4, EntriesAtFacts
<1>6. NodesSound(after)
  BY <1>1, <1>2, <1>3, <1>4, <1>5 DEF NodesSound
<1>7. \A n : EntriesAt(after, n) = EntriesAt(storages, n)
  BY <1>3, <1>4 DEF EntriesAt
<1> QED
  BY <1>4, <1>6, <1>7 DEF after, nodes

(***************************************************************************)
(* Where storages of a set are listed, in the vectors of all nodes.        *)
(***************************************************************************)
PlacesAt(storages, T) == [n \in Path |-> Positions(EntriesAt(storages, n), Holding(T))]

Places(storages, T) == Pairs(PlacesAt(storages, T))

OnePerVolume(T) == \A r, s \in T : r.volume = s.volume => r = s

(***************************************************************************)
(* The vectors before and after one subtree is mounted: a set that has     *)
(* one of the storages of the subtree has one place more, and others have  *)
(* none.                                                                   *)
(***************************************************************************)
LEMMA PlacesFacts ==
  ASSUME NEW less, NEW more, NodesSound(less), NodesSound(more),
         NEW node \in Path, NEW storageNode, NodeSound(storageNode),
         NEW T, OnePerVolume(T),
         \A n : CountIn(EntriesAt(more, n), Holding(T))
                  = CountIn(EntriesAt(less, n), Holding(T))
                      + IF Brings(node, storageNode, n, T) THEN 1 ELSE 0,
         IsFiniteSet(Places(less, T)) \/ IsFiniteSet(Places(more, T))
  PROVE  /\ IsFiniteSet(Places(less, T)) /\ IsFiniteSet(Places(more, T))
         /\ Cardinality(Places(less, T)) \in Nat /\ Cardinality(Places(more, T)) \in Nat
         /\ Cardinality(Places(more, T))
              = Cardinality(Places(less, T)) + IF StoragesOf(storageNode) \cap T # {} THEN 1 ELSE 0
<1> DEFINE P == PlacesAt(less, T)
           Q == PlacesAt(more, T)
           size(storages, n) == CountIn(EntriesAt(storages, n), Holding(T))
           S == StoragesOf(storageNode)
<1>1. /\ DOMAIN P = Path /\ DOMAIN Q = Path
      /\ Pairs(P) = Places(less, T) /\ Pairs(Q) = Places(more, T)
  BY DEF PlacesAt, Places
<1>2. ASSUME NEW n \in Path
      PROVE  /\ IsFiniteSet(P[n]) /\ IsFiniteSet(Q[n])
             /\ Cardinality(P[n]) = size(less, n) /\ Cardinality(Q[n]) = size(more, n)
             /\ size(less, n) \in Nat /\ size(more, n) \in Nat
  <2>1. P[n] = Positions(EntriesAt(less, n), Holding(T)) /\ Q[n] = Positions(EntriesAt(more, n), Holding(T))
    BY DEF PlacesAt
  <2> QED
    BY <2>1, EntriesAtFacts, PositionsFinite DEF CountIn
<1> HIDE DEF P, Q
<1>3. CASE S \cap T # {}
  <2>1. PICK s \in S : s \in T
    BY <1>3
  <2> DEFINE m == Transplant(s.path, storageNode.nodePath, node)
  <2>2. m \in Path /\ Brings(node, storageNode, m, T)
    BY <2>1, TargetsFacts DEF Brings
  <2>3. ASSUME NEW n \in Path \ {m} PROVE ~Brings(node, storageNode, n, T)
    <3> SUFFICES ASSUME Brings(node, storageNode, n, T) PROVE FALSE
      OBVIOUS
    <3> DEFINE r == SourceOf(n, node, storageNode)
    <3>1. r \in S /\ r \in T /\ n = Transplant(r.path, storageNode.nodePath, node)
      BY TargetsFacts DEF Brings
    <3>2. r.volume = storageNode.volume /\ s.volume = storageNode.volume
      BY <2>1, <3>1, StoragesOfFacts
    <3>3. r = s
      BY <2>1, <3>1, <3>2 DEF OnePerVolume
    <3> QED
      BY <3>1, <3>3
  <2> HIDE DEF m
  <2>4. \A n \in Path \ {m} : size(more, n) = size(less, n)
    BY <1>2, <2>3
  <2>5. size(more, m) = size(less, m) + 1
    BY <2>2
  <2> HIDE DEF size
  <2>6. \A n \in Path \ {m} : Cardinality(Q[n]) = Cardinality(P[n])
    BY <1>2, <2>4
  <2>7. Cardinality(Q[m]) = Cardinality(P[m]) + 1
    BY <1>2, <2>2, <2>5
  <2>8. \A n \in Path : IsFiniteSet(P[n]) /\ IsFiniteSet(Q[n])
    BY <1>2
  <2>9. /\ IsFiniteSet(Pairs(P)) /\ IsFiniteSet(Pairs(Q))
        /\ Cardinality(Pairs(Q)) = Cardinality(Pairs(P)) + 1
    BY <1>1, <2>2, <2>6, <2>7, <2>8, OnePairMore
  <2> QED
    BY <1>1, <1>3, <2>9, FS_CardinalityType
<1>4. CASE S \cap T = {}
  <2>1. ASSUME NEW n \in Path PROVE ~Brings(node, storageNode, n, T)
    BY <1>4, TargetsFacts DEF Brings
  <2>2. \A n \in Path : size(more, n) = size(less, n)
    BY <1>2, <2>1
  <2> HIDE DEF size
  <2>3. \A n \in Path : /\ IsFiniteSet(P[n]) /\ IsFiniteSet(Q[n])
                        /\ Cardinality(P[n]) = Cardinality(Q[n])
    BY <1>2, <2>2
  <2>4. IsFiniteSet(Pairs(P)) /\ IsFiniteSet(Pairs(Q)) /\ Cardinality(Pairs(Q)) = Cardinality(Pairs(P))
    <3>1. \A n \in Path : /\ IsFiniteSet(Q[n]) /\ IsFiniteSet(P[n])
                          /\ Cardinality(Q[n]) = Cardinality(P[n])
      BY <2>3
    <3>2. CASE IsFiniteSet(Pairs(P))
      BY <1>1, <2>3, <3>2, SamePairs
    <3>3. CASE IsFiniteSet(Pairs(Q))
      BY <1>1, <3>1, <3>3, SamePairs
    <3> QED
      BY <1>1, <3>2, <3>3
  <2>5. Cardinality(Pairs(P)) \in Nat
    BY <2>4, FS_CardinalityType
  <2> QED
    BY <1>1, <1>4, <2>4, <2>5
<1> QED
  BY <1>3, <1>4

(***************************************************************************)
(* The storages that have a key.                                           *)
(***************************************************************************)
Alike(key) == {s \in NodeStorages : Key(s) = key}

\* The storages with one key are of different volumes.
LEMMA AlikeFacts ==
  ASSUME NEW key
  PROVE  /\ OnePerVolume(Alike(key))
         /\ \A S \in SUBSET NodeStorages : S \cap Alike(key) # {} <=> key \in KeysOf(S)
<1>1. OnePerVolume(Alike(key))
  BY KeyInjective DEF Alike, OnePerVolume
<1>2. \A S \in SUBSET NodeStorages : S \cap Alike(key) # {} <=> key \in KeysOf(S)
  BY DEF Alike, KeysOf
<1> QED
  BY <1>1, <1>2

-----------------------------------------------------------------------------
(***************************************************************************)
(* The live mounts.                                                        *)
(***************************************************************************)
MountPoint ==
  {mountPoint \in [node        : Path,
                   storageNode : [volume : Volumes, nodePath : Path, paths : SUBSET Path],
                   priority    : Int] : NodeSound(mountPoint.storageNode)}

Reaching(mounts, key) ==
  {id \in DOMAIN mounts : key \in KeysOf(StoragesOf(mounts[id].storageNode))}

Bringing(mounts, n, s) ==
  {id \in DOMAIN mounts : Brings(mounts[id].node, mounts[id].storageNode, n, {s})}

BringingFrom(mounts, n, s, p) == {id \in Bringing(mounts, n, s) : mounts[id].priority >= p}

OneMore(less, more, id) ==
  /\ IsFiniteSet(DOMAIN less) /\ id \notin DOMAIN less
  /\ DOMAIN more = DOMAIN less \union {id}
  /\ \A i \in DOMAIN less : more[i] = less[i]

(***************************************************************************)
(* One mount more reaches its storages and brings them to its targets once *)
(* more.                                                                   *)
(***************************************************************************)
OneIdMore(less, more, b) ==
  /\ IsFiniteSet(less) /\ Cardinality(less) \in Nat
  /\ Cardinality(more) = Cardinality(less) + IF b THEN 1 ELSE 0

\* What one more mount adds to the accounts.
LEMMA OneMountMore ==
  ASSUME NEW less, NEW more, NEW id, OneMore(less, more, id)
  PROVE  /\ \A key : OneIdMore(Reaching(less, key), Reaching(more, key),
                               key \in KeysOf(StoragesOf(more[id].storageNode)))
         /\ \A n, s : OneIdMore(Bringing(less, n, s), Bringing(more, n, s),
                                Brings(more[id].node, more[id].storageNode, n, {s}))
         /\ \A n, s, p : OneIdMore(BringingFrom(less, n, s, p), BringingFrom(more, n, s, p),
                                   /\ Brings(more[id].node, more[id].storageNode, n, {s})
                                   /\ more[id].priority >= p)
<1>1. /\ IsFiniteSet(DOMAIN less) /\ id \notin DOMAIN less
      /\ DOMAIN more = DOMAIN less \union {id}
      /\ \A i \in DOMAIN less : more[i] = less[i]
  BY DEF OneMore
<1>2. ASSUME NEW old \in SUBSET DOMAIN less, NEW new,
             NEW b \in BOOLEAN, new = IF b THEN old \union {id} ELSE old
      PROVE  OneIdMore(old, new, b)
  <2>1. IsFiniteSet(old)
    BY <1>1, FS_Subset
  <2>2. Cardinality(old) \in Nat
    BY <2>1, FS_CardinalityType
  <2>3. id \notin old
    BY <1>1
  <2>4. Cardinality(old \union {id}) = Cardinality(old) + 1
    BY <2>1, <2>3, FS_AddElement
  <2> QED
    BY <1>2, <2>1, <2>2, <2>4 DEF OneIdMore
<1>3. ASSUME NEW key
      PROVE  OneIdMore(Reaching(less, key), Reaching(more, key),
                       key \in KeysOf(StoragesOf(more[id].storageNode)))
  <2> DEFINE b == key \in KeysOf(StoragesOf(more[id].storageNode))
  <2>1. Reaching(less, key) \in SUBSET DOMAIN less /\ b \in BOOLEAN
    BY DEF Reaching
  <2>2. Reaching(more, key) = IF b THEN Reaching(less, key) \union {id} ELSE Reaching(less, key)
    BY <1>1 DEF Reaching
  <2> HIDE DEF b
  <2>3. OneIdMore(Reaching(less, key), Reaching(more, key), b)
    BY <1>2, <2>1, <2>2
  <2> QED
    BY <2>3 DEF b
<1>4. ASSUME NEW n, NEW s
      PROVE  OneIdMore(Bringing(less, n, s), Bringing(more, n, s),
                       Brings(more[id].node, more[id].storageNode, n, {s}))
  <2> DEFINE b == Brings(more[id].node, more[id].storageNode, n, {s})
  <2>1. Bringing(less, n, s) \in SUBSET DOMAIN less /\ b \in BOOLEAN
    BY DEF Bringing, Brings
  <2>2. Bringing(more, n, s) = IF b THEN Bringing(less, n, s) \union {id} ELSE Bringing(less, n, s)
    BY <1>1 DEF Bringing
  <2> HIDE DEF b
  <2>3. OneIdMore(Bringing(less, n, s), Bringing(more, n, s), b)
    BY <1>2, <2>1, <2>2
  <2> QED
    BY <2>3 DEF b
<1>5. ASSUME NEW n, NEW s, NEW p
      PROVE  OneIdMore(BringingFrom(less, n, s, p), BringingFrom(more, n, s, p),
                       /\ Brings(more[id].node, more[id].storageNode, n, {s})
                       /\ more[id].priority >= p)
  <2> DEFINE b == /\ Brings(more[id].node, more[id].storageNode, n, {s})
                  /\ more[id].priority >= p
             old == BringingFrom(less, n, s, p)
             new == BringingFrom(more, n, s, p)
  <2>1. old \in SUBSET DOMAIN less /\ b \in BOOLEAN
    BY DEF BringingFrom, Bringing, Brings
  <2>2. new = IF b THEN old \union {id} ELSE old
    BY <1>1 DEF BringingFrom, Bringing
  <2> HIDE DEF b, old, new
  <2>3. OneIdMore(old, new, b)
    BY <1>2, <2>1, <2>2
  <2> QED
    BY <2>3 DEF b, old, new
<1> QED
  BY <1>3, <1>4, <1>5
-----------------------------------------------------------------------------
(***************************************************************************)
(* The accounts of the table.  `pending' are the storages of a mount under *)
(* way: acquired, and not at their nodes yet.                              *)
(*                                                                         *)
(*   Covered        what the vectors list is acquired at least as often    *)
(*   Alive          and it is loaded                                       *)
(*   CountsExact    a key is acquired once per mount that reaches it       *)
(*   EntriesExact   a storage is listed at a node once per mount that      *)
(*                  brings it                                              *)
(*   NoneGained     and not ahead of where these mounts put it             *)
(*   NoLeak         what is loaded is acquired, or has a misread key       *)
(***************************************************************************)
Covered(reg, storages, pending) ==
  \A key : /\ IsFiniteSet(Places(storages, Alike(key)))
           /\ Cardinality(Places(storages, Alike(key))) + (IF key \in KeysOf(pending) THEN 1 ELSE 0)
                <= CountOf(reg.counters, key)

Lists(storages, n, s) == CountIn(EntriesAt(storages, n), Holding({s})) # 0

Alive(reg, storages, pending) ==
  /\ pending \subseteq reg.loaded
  /\ \A n \in Path : \A s : Lists(storages, n, s) => s \in reg.loaded

CountsExact(reg, mounts, pending) ==
  \A key : CountOf(reg.counters, key)
             = Cardinality(Reaching(mounts, key)) + IF key \in KeysOf(pending) THEN 1 ELSE 0

EntriesExact(storages, mounts) ==
  \A n, s : CountIn(EntriesAt(storages, n), Holding({s})) = Cardinality(Bringing(mounts, n, s))

NoneGained(storages, mounts) ==
  \A n, s : \A p \in Int :
    CountIn(EntriesAt(storages, n), From(s, p)) <= Cardinality(BringingFrom(mounts, n, s, p))

NoLeak(reg) == \A s \in reg.loaded : Key(s) \in DOMAIN reg.counters \/ UnloadTarget(s) # s

(***************************************************************************)
(* The key of a listed storage has a counter.                              *)
(***************************************************************************)
LEMMA ListedPlaces ==
  ASSUME NEW storages, NodesSound(storages), NEW n \in Path, NEW s, Lists(storages, n, s)
  PROVE  s \in NodeStorages /\ Places(storages, Alike(Key(s))) # {}
<1> DEFINE entries == EntriesAt(storages, n)
           T == Alike(Key(s))
<1>1. entries \in Seq(Entry)
  BY EntriesAtFacts
<1>2. Positions(entries, Holding({s})) # {}
  BY FS_EmptySet DEF Lists, CountIn
<1>3. PICK i \in 1..Len(entries) : entries[i] \in Holding({s})
  BY <1>2 DEF Positions
<1>4. s \in NodeStorages /\ entries[i] \in Entry /\ entries[i].storage = s
  BY <1>3 DEF Holding, Entry
<1>5. i \in Positions(entries, Holding(T))
  BY <1>4 DEF Positions, Holding, Alike
<1> HIDE DEF entries, T
<1>6. i \in PlacesAt(storages, T)[n] /\ DOMAIN PlacesAt(storages, T) = Path
  BY <1>5 DEF PlacesAt, entries
<1>7. Places(storages, T) # {}
  BY <1>6, PairFacts DEF Places
<1> QED
  BY <1>4, <1>7 DEF T

\* What a node lists has its key counted.
LEMMA ListedCounted ==
  ASSUME NEW storages, NodesSound(storages), NEW reg, NEW pending, Covered(reg, storages, pending),
         NEW n \in Path, NEW s, Lists(storages, n, s)
  PROVE  s \in NodeStorages /\ Key(s) \in DOMAIN reg.counters
<1> DEFINE P == Places(storages, Alike(Key(s)))
<1>1. s \in NodeStorages /\ P # {}
  BY ListedPlaces
<1>2. /\ IsFiniteSet(P)
      /\ Cardinality(P) + (IF Key(s) \in KeysOf(pending) THEN 1 ELSE 0) <= CountOf(reg.counters, Key(s))
  BY DEF Covered
<1>3. Cardinality(P) \in Nat /\ Cardinality(P) # 0
  BY <1>1, <1>2, FS_CardinalityType, FS_EmptySet
<1> HIDE DEF P
<1>4. CountOf(reg.counters, Key(s)) # 0
  BY <1>2, <1>3
<1> QED
  BY <1>1, <1>4 DEF CountOf

\* So has what was just acquired.
LEMMA PendingCounted ==
  ASSUME NEW storages, NEW reg, NEW pending, Covered(reg, storages, pending), NEW s \in pending
  PROVE  Key(s) \in DOMAIN reg.counters
<1> DEFINE P == Places(storages, Alike(Key(s)))
<1>1. Key(s) \in KeysOf(pending)
  BY DEF KeysOf
<1>2. IsFiniteSet(P) /\ Cardinality(P) + 1 <= CountOf(reg.counters, Key(s))
  BY <1>1 DEF Covered
<1>3. Cardinality(P) \in Nat
  BY <1>2, FS_CardinalityType
<1> HIDE DEF P
<1>4. CountOf(reg.counters, Key(s)) # 0
  BY <1>2, <1>3
<1> QED
  BY <1>4 DEF CountOf

\* A reference count is a natural.
LEMMA CountNat ==
  ASSUME NEW reg, RegistryTyped(reg)
  PROVE  \A key : CountOf(reg.counters, key) \in Nat
BY DEF CountOf, RegistryTyped, Registries
-----------------------------------------------------------------------------
(***************************************************************************)
(* Taking a mount down keeps every account, the mount left out.            *)
(***************************************************************************)
LEMMA TakeDownFacts ==
  ASSUME NEW reg, RegistryTyped(reg), NEW storages, NodesSound(storages),
         NEW node \in Path, NEW storageNode, NodeSound(storageNode),
         HasEntries(storages, node, storageNode),
         StoragesOf(storageNode) \subseteq reg.registered
  PROVE  LET regAfter == releaseStorages(reg, StoragesOf(storageNode))
             after == NodesWithout(storages, node, storageNode)
         IN /\ RegistryTyped(regAfter) /\ regAfter.volumes = reg.volumes
            /\ regAfter.registered \subseteq reg.registered
            /\ NodesSound(after) /\ DOMAIN after = DOMAIN storages
            /\ \A pending : Covered(reg, storages, pending) => Covered(regAfter, after, pending)
            /\ \A pending : Covered(reg, storages, pending) /\ Alive(reg, storages, pending)
                              => Alive(regAfter, after, pending)
            /\ NoLeak(reg) => NoLeak(regAfter)
<1> DEFINE S == StoragesOf(storageNode)
           regAfter == releaseStorages(reg, S)
           freed == Freed(reg, S)
           after == NodesWithout(storages, node, storageNode)
<1>1. /\ RegistryTyped(regAfter) /\ regAfter.volumes = reg.volumes
      /\ regAfter.loaded = reg.loaded \ {UnloadTarget(s) : s \in freed}
      /\ regAfter.registered = reg.registered \ freed
      /\ DOMAIN regAfter.counters = DOMAIN reg.counters \ KeysOf(freed)
      /\ \A key : CountOf(regAfter.counters, key)
                    = CountOf(reg.counters, key) - IF key \in KeysOf(S) THEN 1 ELSE 0
  BY ReleaseFacts
<1>2. /\ NodesSound(after) /\ DOMAIN after = DOMAIN storages
      /\ \A n, T : CountIn(EntriesAt(storages, n), Holding(T))
           = CountIn(EntriesAt(after, n), Holding(T)) + IF Brings(node, storageNode, n, T) THEN 1 ELSE 0
  BY NodesWithoutFacts
<1>3. freed \subseteq S /\ S \in SUBSET NodeStorages
  BY StoragesOfFacts DEF Freed
<1>4. \A key : CountOf(reg.counters, key) \in Nat /\ CountOf(regAfter.counters, key) \in Nat
  BY <1>1, CountNat
<1> HIDE DEF S, regAfter, after, freed
<1>5. ASSUME NEW pending, Covered(reg, storages, pending) PROVE Covered(regAfter, after, pending)
  <2> SUFFICES ASSUME NEW key
               PROVE  /\ IsFiniteSet(Places(after, Alike(key)))
                      /\ Cardinality(Places(after, Alike(key))) + (IF key \in KeysOf(pending) THEN 1 ELSE 0)
                           <= CountOf(regAfter.counters, key)
    BY DEF Covered
  <2> DEFINE T == Alike(key)
  <2>1. /\ IsFiniteSet(Places(storages, T))
        /\ Cardinality(Places(storages, T)) + (IF key \in KeysOf(pending) THEN 1 ELSE 0)
              <= CountOf(reg.counters, key)
    BY <1>5 DEF Covered
  <2>2. OnePerVolume(T) /\ (S \cap T # {} <=> key \in KeysOf(S))
    BY <1>3, AlikeFacts
  <2> HIDE DEF T
  <2>3. /\ IsFiniteSet(Places(after, T)) /\ Cardinality(Places(after, T)) \in Nat
        /\ Cardinality(Places(storages, T)) = Cardinality(Places(after, T)) + IF S \cap T # {} THEN 1 ELSE 0
    <3>1. \A n : CountIn(EntriesAt(storages, n), Holding(T))
           = CountIn(EntriesAt(after, n), Holding(T)) + IF Brings(node, storageNode, n, T) THEN 1 ELSE 0
      BY <1>2
    <3> QED
      BY <1>2, <2>1, <2>2, <3>1, PlacesFacts DEF S
  <2>4. CountOf(regAfter.counters, key) = CountOf(reg.counters, key) - IF key \in KeysOf(S) THEN 1 ELSE 0
    BY <1>1
  <2> QED
    BY <1>4, <2>1, <2>2, <2>3, <2>4 DEF T
<1>6. ASSUME NoLeak(reg) PROVE NoLeak(regAfter)
  <2> SUFFICES ASSUME NEW s \in regAfter.loaded, Key(s) \notin DOMAIN regAfter.counters
               PROVE  UnloadTarget(s) # s
    BY DEF NoLeak
  <2>1. s \in reg.loaded /\ \A r \in freed : s # UnloadTarget(r)
    BY <1>1
  <2>2. CASE Key(s) \notin DOMAIN reg.counters
    BY <1>6, <2>1, <2>2 DEF NoLeak
  <2>3. CASE Key(s) \in DOMAIN reg.counters
    <3>1. PICK r \in freed : Key(s) = Key(r)
      BY <1>1, <2>3 DEF KeysOf
    <3>2. UnloadTarget(s) = UnloadTarget(r)
      BY <3>1 DEF UnloadTarget
    <3> QED
      BY <2>1, <3>2
  <2> QED
    BY <2>2, <2>3
<1>7. ASSUME NEW pending, Covered(reg, storages, pending), Alive(reg, storages, pending)
      PROVE  Alive(regAfter, after, pending)
  <2>1. Covered(regAfter, after, pending)
    BY <1>5, <1>7
  <2>2. ASSUME NEW s, s \in reg.loaded, Key(s) \in DOMAIN regAfter.counters PROVE s \in regAfter.loaded
    <3> SUFFICES ASSUME NEW r \in freed, s = UnloadTarget(r) PROVE FALSE
      BY <1>1, <2>2
    <3>1. Key(s) = Key(r)
      BY <1>3, UnloadTargetFacts
    <3> QED
      BY <1>1, <2>2, <3>1 DEF KeysOf
  <2>3. ASSUME NEW s \in pending PROVE s \in regAfter.loaded
    BY <1>7, <2>1, <2>2, PendingCounted DEF Alive
  <2>4. ASSUME NEW n \in Path, NEW s, Lists(after, n, s) PROVE s \in regAfter.loaded
    <3>1. Key(s) \in DOMAIN regAfter.counters
      BY <1>2, <2>1, <2>4, ListedCounted
    <3>2. Lists(storages, n, s)
      <4> DEFINE T == {s}
                 x == CountIn(EntriesAt(storages, n), Holding(T))
                 y == CountIn(EntriesAt(after, n), Holding(T))
      <4>1. x = y + IF Brings(node, storageNode, n, T) THEN 1 ELSE 0
        BY <1>2
      <4>2. y \in Nat /\ y # 0
        BY <1>2, <2>4, CountType DEF Lists
      <4> HIDE DEF x, y
      <4>3. x # 0
        BY <4>1, <4>2
      <4> QED
        BY <4>3 DEF Lists, x
    <3> QED
      BY <1>7, <2>2, <3>1, <3>2 DEF Alive
  <2> QED
    BY <2>3, <2>4 DEF Alive
<1> QED
  BY <1>1, <1>2, <1>5, <1>6, <1>7 DEF regAfter, after, S

\* Taking a mount down keeps the accounts exact.
LEMMA TakeDownExact ==
  ASSUME NEW reg, RegistryTyped(reg), NEW storages, NodesSound(storages),
         NEW node \in Path, NEW storageNode, NodeSound(storageNode),
         HasEntries(storages, node, storageNode),
         StoragesOf(storageNode) \subseteq reg.registered,
         NEW less, NEW more, NEW id, OneMore(less, more, id),
         more[id].node = node, more[id].storageNode = storageNode, more[id].priority \in Int
  PROVE  LET regAfter == releaseStorages(reg, StoragesOf(storageNode))
             after == NodesWithout(storages, node, storageNode)
         IN /\ EntriesExact(storages, more) => EntriesExact(after, less)
            /\ NoneGained(storages, more) => NoneGained(after, less)
            /\ \A pending : CountsExact(reg, more, pending) => CountsExact(regAfter, less, pending)
<1> DEFINE S == StoragesOf(storageNode)
           regAfter == releaseStorages(reg, S)
           after == NodesWithout(storages, node, storageNode)
<1>1. \A key : CountOf(regAfter.counters, key)
                 = CountOf(reg.counters, key) - IF key \in KeysOf(S) THEN 1 ELSE 0
  BY ReleaseFacts
<1>2. /\ NodesSound(after)
      /\ \A n, T : CountIn(EntriesAt(storages, n), Holding(T))
           = CountIn(EntriesAt(after, n), Holding(T)) + IF Brings(node, storageNode, n, T) THEN 1 ELSE 0
      /\ \A n, s : \A p \in Int :
           \/ CountIn(EntriesAt(after, n), From(s, p)) = 0
           \/ CountIn(EntriesAt(storages, n), From(s, p))
                = CountIn(EntriesAt(after, n), From(s, p))
                    + IF Brings(node, storageNode, n, {s}) THEN 1 ELSE 0
  BY NodesWithoutFacts
<1> HIDE DEF S, regAfter, after
<1>3. ASSUME EntriesExact(storages, more), NEW n, NEW s
      PROVE  CountIn(EntriesAt(after, n), Holding({s})) = Cardinality(Bringing(less, n, s))
  <2>1. CountIn(EntriesAt(storages, n), Holding({s})) = Cardinality(Bringing(more, n, s))
    BY <1>3 DEF EntriesExact
  <2>2. CountIn(EntriesAt(after, n), Holding({s})) \in Nat
    BY <1>2, CountType
  <2>3. /\ Cardinality(Bringing(less, n, s)) \in Nat
        /\ Cardinality(Bringing(more, n, s)) = Cardinality(Bringing(less, n, s))
             + IF Brings(node, storageNode, n, {s}) THEN 1 ELSE 0
    BY OneMountMore DEF OneIdMore
  <2>4. CountIn(EntriesAt(storages, n), Holding({s}))
         = CountIn(EntriesAt(after, n), Holding({s})) + IF Brings(node, storageNode, n, {s}) THEN 1 ELSE 0
    BY <1>2
  <2> QED
    BY <2>1, <2>2, <2>3, <2>4
<1>4. ASSUME NoneGained(storages, more), NEW n, NEW s, NEW p \in Int
      PROVE  CountIn(EntriesAt(after, n), From(s, p)) <= Cardinality(BringingFrom(less, n, s, p))
  <2> DEFINE x == CountIn(EntriesAt(storages, n), From(s, p))
             y == CountIn(EntriesAt(after, n), From(s, p))
             b == Brings(node, storageNode, n, {s})
             c == Brings(node, storageNode, n, {s}) /\ more[id].priority >= p
             k == Cardinality(BringingFrom(less, n, s, p))
             m == Cardinality(BringingFrom(more, n, s, p))
  <2>1. x <= m
    BY <1>4 DEF NoneGained
  <2>2. x \in Nat /\ y \in Nat
    BY <1>2, CountType
  <2>3. k \in Nat /\ m = k + IF c THEN 1 ELSE 0
    <3> DEFINE d == /\ Brings(more[id].node, more[id].storageNode, n, {s})
                    /\ more[id].priority >= p
               old == BringingFrom(less, n, s, p)
               new == BringingFrom(more, n, s, p)
    <3>1. OneIdMore(old, new, d)
      BY OneMountMore
    <3>2. d = c
      OBVIOUS
    <3> HIDE DEF d, old, new
    <3>3. Cardinality(old) \in Nat /\ Cardinality(new) = Cardinality(old) + IF d THEN 1 ELSE 0
      BY <3>1 DEF OneIdMore
    <3> QED
      BY <3>2, <3>3 DEF old, new
  <2>4. y = 0 \/ x = y + IF b THEN 1 ELSE 0
    BY <1>2
  <2>5. c => b
    OBVIOUS
  <2> HIDE DEF x, y, b, c, k, m
  <2>6. y <= k
    BY <2>1, <2>2, <2>3, <2>4, <2>5
  <2> QED
    BY <2>6 DEF y, k
<1>5. ASSUME NEW pending, CountsExact(reg, more, pending), NEW key
      PROVE  CountOf(regAfter.counters, key)
               = Cardinality(Reaching(less, key)) + IF key \in KeysOf(pending) THEN 1 ELSE 0
  <2>1. CountOf(reg.counters, key)
          = Cardinality(Reaching(more, key)) + IF key \in KeysOf(pending) THEN 1 ELSE 0
    BY <1>5 DEF CountsExact
  <2>2. /\ Cardinality(Reaching(less, key)) \in Nat
        /\ Cardinality(Reaching(more, key)) = Cardinality(Reaching(less, key))
             + IF key \in KeysOf(S) THEN 1 ELSE 0
    BY OneMountMore DEF S, OneIdMore
  <2>3. CountOf(regAfter.counters, key) = CountOf(reg.counters, key) - IF key \in KeysOf(S) THEN 1 ELSE 0
    BY <1>1
  <2> QED
    BY <2>1, <2>2, <2>3
<1>6. EntriesExact(storages, more) => EntriesExact(after, less)
  BY <1>3 DEF EntriesExact
<1>7. NoneGained(storages, more) => NoneGained(after, less)
  BY <1>4 DEF NoneGained
<1>8. \A pending : CountsExact(reg, more, pending) => CountsExact(regAfter, less, pending)
  BY <1>5 DEF CountsExact
<1> QED
  BY <1>6, <1>7, <1>8 DEF regAfter, after, S

-----------------------------------------------------------------------------
(***************************************************************************)
(* An acquisition keeps every account: its storages are pending, or those  *)
(* of a mount more.                                                        *)
(***************************************************************************)
LEMMA AcquireAccounts ==
  ASSUME NEW reg, RegistryTyped(reg), NEW v \in Volumes, NEW path \in Path, path # <<>>
  PROVE  LET acquired == acquireStorage(reg, v, path)
             after == acquired.registry
             S == StoragesOf(acquired.storageNode)
         IN /\ \A storages : Covered(reg, storages, {}) => Covered(after, storages, S)
            /\ \A storages : Alive(reg, storages, {}) => Alive(after, storages, S)
            /\ \A mounts : IsFiniteSet(DOMAIN mounts) /\ CountsExact(reg, mounts, {})
                             => CountsExact(after, mounts, S)
            /\ NoLeak(reg) => NoLeak(after)
            /\ \A less, more, id, pending :
                 /\ OneMore(less, more, id) /\ more[id].storageNode = acquired.storageNode
                 /\ CountsExact(reg, less, pending)
                 => CountsExact(after, more, pending)
<1> DEFINE acquired == acquireStorage(reg, v, path)
           after == acquired.registry
           node == acquired.storageNode
           S == StoragesOf(node)
           K == KeysOf(S)
<1>1. /\ RegistryTyped(after)
      /\ after.loaded = reg.loaded \union S
      /\ DOMAIN after.counters = DOMAIN reg.counters \union K
      /\ NodeSound(node) /\ node.nodePath = path
  BY AcquireFacts
<1>2. \A key : /\ CountOf(reg.counters, key) \in Nat
               /\ CountOf(after.counters, key) = CountOf(reg.counters, key) + IF key \in K THEN 1 ELSE 0
  <2>1. ASSUME NEW key
        PROVE  CountOf(after.counters, key) = CountOf(reg.counters, key) + IF key \in K THEN 1 ELSE 0
    BY AcquireCounts
  <2> QED
    BY <2>1, CountNat
<1>3. KeysOf({}) = {}
  BY DEF KeysOf
<1> HIDE DEF acquired, S, K
<1>4. ASSUME NEW storages, Covered(reg, storages, {}) PROVE Covered(after, storages, S)
  <2> SUFFICES ASSUME NEW key
               PROVE  /\ IsFiniteSet(Places(storages, Alike(key)))
                      /\ Cardinality(Places(storages, Alike(key))) + (IF key \in K THEN 1 ELSE 0)
                           <= CountOf(after.counters, key)
    BY DEF Covered, K
  <2>1. /\ IsFiniteSet(Places(storages, Alike(key)))
        /\ Cardinality(Places(storages, Alike(key))) + 0 <= CountOf(reg.counters, key)
    BY <1>3, <1>4 DEF Covered
  <2>2. Cardinality(Places(storages, Alike(key))) \in Nat
    BY <2>1, FS_CardinalityType
  <2> QED
    BY <1>2, <2>1, <2>2
<1>5. ASSUME NEW mounts, IsFiniteSet(DOMAIN mounts), CountsExact(reg, mounts, {}) PROVE CountsExact(after, mounts, S)
  <2> SUFFICES ASSUME NEW key
               PROVE  CountOf(after.counters, key)
                        = Cardinality(Reaching(mounts, key)) + IF key \in K THEN 1 ELSE 0
    BY DEF CountsExact, K
  <2>1. CountOf(reg.counters, key) = Cardinality(Reaching(mounts, key)) + 0
    BY <1>3, <1>5 DEF CountsExact
  <2>2. Cardinality(Reaching(mounts, key)) \in Nat
    <3>1. IsFiniteSet(Reaching(mounts, key))
      BY <1>5, FS_Subset DEF Reaching
    <3> QED
      BY <3>1, FS_CardinalityType
  <2> QED
    BY <1>2, <2>1, <2>2
<1>6. ASSUME NoLeak(reg) PROVE NoLeak(after)
  BY <1>1, <1>6 DEF NoLeak, KeysOf, K
<1>7. ASSUME NEW storages, Alive(reg, storages, {}) PROVE Alive(after, storages, S)
  BY <1>1, <1>7 DEF Alive
<1>8. ASSUME NEW less, NEW more, NEW id, NEW pending, OneMore(less, more, id),
             more[id].storageNode = node, CountsExact(reg, less, pending)
      PROVE  CountsExact(after, more, pending)
  <2> SUFFICES ASSUME NEW key
               PROVE  CountOf(after.counters, key)
                        = Cardinality(Reaching(more, key)) + IF key \in KeysOf(pending) THEN 1 ELSE 0
    BY DEF CountsExact
  <2>1. CountOf(reg.counters, key)
          = Cardinality(Reaching(less, key)) + IF key \in KeysOf(pending) THEN 1 ELSE 0
    BY <1>8 DEF CountsExact
  <2>2. OneIdMore(Reaching(less, key), Reaching(more, key),
                  key \in KeysOf(StoragesOf(more[id].storageNode)))
    BY <1>8, OneMountMore
  <2>3. /\ Cardinality(Reaching(less, key)) \in Nat
        /\ Cardinality(Reaching(more, key)) = Cardinality(Reaching(less, key))
             + IF key \in K THEN 1 ELSE 0
    BY <1>8, <2>2 DEF S, K, OneIdMore
  <2>4. CountOf(after.counters, key) = CountOf(reg.counters, key) + IF key \in K THEN 1 ELSE 0
    BY <1>2
  <2> QED
    BY <2>1, <2>3, <2>4
<1> QED
  BY <1>4, <1>5, <1>6, <1>7, <1>8 DEF acquired, S

(***************************************************************************)
(* Listing the storages of a mount at its nodes keeps every account: they  *)
(* are pending no more, or newly acquired.                                 *)
(***************************************************************************)
LEMMA ListAccounts ==
  ASSUME NEW storages, NodesSound(storages), NEW node \in Path,
         NEW storageNode, NodeSound(storageNode), NEW priority \in Int
  PROVE  LET after == MountSubtree(storages, node, storageNode, priority)
             S == StoragesOf(storageNode)
         IN /\ \A reg : Covered(reg, storages, S) => Covered(reg, after, {})
            /\ \A reg, more, pending :
                 /\ Covered(reg, storages, pending)
                 /\ \A key : /\ CountOf(reg.counters, key) \in Nat
                             /\ CountOf(more.counters, key) = CountOf(reg.counters, key)
                                  + IF key \in KeysOf(S) THEN 1 ELSE 0
                 => Covered(more, after, pending)
            /\ \A reg, more, pending :
                 /\ Alive(reg, storages, pending)
                 /\ reg.loaded \subseteq more.loaded /\ S \subseteq more.loaded
                 => Alive(more, after, pending)
<1> DEFINE after == MountSubtree(storages, node, storageNode, priority)
           S == StoragesOf(storageNode)
           K == KeysOf(S)
<1>1. NodesSound(after)
  BY MountSubtreeFacts
<1>2. \A n, T : CountIn(EntriesAt(after, n), Holding(T))
        = CountIn(EntriesAt(storages, n), Holding(T)) + IF Brings(node, storageNode, n, T) THEN 1 ELSE 0
  BY MountSubtreeCounts
<1>3. S \in SUBSET NodeStorages /\ KeysOf({}) = {}
  BY StoragesOfFacts DEF KeysOf
<1>4. \A n, T : Brings(node, storageNode, n, T) => S \cap T # {}
  BY TargetsFacts DEF Brings
<1> HIDE DEF after
<1>5. ASSUME NEW key, IsFiniteSet(Places(storages, Alike(key)))
      PROVE  /\ IsFiniteSet(Places(after, Alike(key))) /\ Cardinality(Places(storages, Alike(key))) \in Nat
             /\ Cardinality(Places(after, Alike(key)))
                  = Cardinality(Places(storages, Alike(key))) + IF key \in K THEN 1 ELSE 0
  <2> DEFINE T == Alike(key)
  <2>1. OnePerVolume(T) /\ (S \cap T # {} <=> key \in K)
    BY <1>3, AlikeFacts
  <2> HIDE DEF T
  <2>2. /\ IsFiniteSet(Places(after, T)) /\ Cardinality(Places(storages, T)) \in Nat
        /\ Cardinality(Places(after, T)) = Cardinality(Places(storages, T)) + IF S \cap T # {} THEN 1 ELSE 0
    <3>1. \A n : CountIn(EntriesAt(after, n), Holding(T))
           = CountIn(EntriesAt(storages, n), Holding(T)) + IF Brings(node, storageNode, n, T) THEN 1 ELSE 0
      BY <1>2
    <3>2. IsFiniteSet(Places(storages, T))
      BY <1>5 DEF T
    <3> QED
      BY <1>1, <2>1, <3>1, <3>2, PlacesFacts DEF S
  <2> QED
    BY <2>1, <2>2 DEF T
<1> HIDE DEF S, K
<1>6. ASSUME NEW reg, Covered(reg, storages, S) PROVE Covered(reg, after, {})
  <2> SUFFICES ASSUME NEW key
               PROVE  /\ IsFiniteSet(Places(after, Alike(key)))
                      /\ Cardinality(Places(after, Alike(key))) + 0 <= CountOf(reg.counters, key)
    BY <1>3 DEF Covered
  <2>1. /\ IsFiniteSet(Places(storages, Alike(key)))
        /\ Cardinality(Places(storages, Alike(key))) + (IF key \in K THEN 1 ELSE 0)
              <= CountOf(reg.counters, key)
    BY <1>6 DEF Covered, K
  <2> QED
    BY <1>5, <2>1
<1>7. ASSUME NEW reg, NEW more, NEW pending, Covered(reg, storages, pending),
             \A key : /\ CountOf(reg.counters, key) \in Nat
                      /\ CountOf(more.counters, key) = CountOf(reg.counters, key)
                           + IF key \in KeysOf(S) THEN 1 ELSE 0
      PROVE  Covered(more, after, pending)
  <2> SUFFICES ASSUME NEW key
               PROVE  /\ IsFiniteSet(Places(after, Alike(key)))
                      /\ Cardinality(Places(after, Alike(key))) + (IF key \in KeysOf(pending) THEN 1 ELSE 0)
                           <= CountOf(more.counters, key)
    BY DEF Covered
  <2>1. /\ IsFiniteSet(Places(storages, Alike(key)))
        /\ Cardinality(Places(storages, Alike(key))) + (IF key \in KeysOf(pending) THEN 1 ELSE 0)
             <= CountOf(reg.counters, key)
    BY <1>7 DEF Covered
  <2>2. /\ CountOf(reg.counters, key) \in Nat
        /\ CountOf(more.counters, key) = CountOf(reg.counters, key) + IF key \in K THEN 1 ELSE 0
    BY <1>7 DEF K
  <2> QED
    BY <1>5, <2>1, <2>2
<1>8. ASSUME NEW reg, NEW more, NEW pending, Alive(reg, storages, pending),
             reg.loaded \subseteq more.loaded, S \subseteq more.loaded
      PROVE  Alive(more, after, pending)
  <2> SUFFICES ASSUME NEW n \in Path, NEW s, Lists(after, n, s), s \notin more.loaded PROVE FALSE
    BY <1>8 DEF Alive
  <2>1. ~Lists(storages, n, s)
    BY <1>8 DEF Alive
  <2> DEFINE T == {s}
  <2>2. ~Brings(node, storageNode, n, T)
    BY <1>4, <1>8
  <2>3. CountIn(EntriesAt(after, n), Holding(T)) = CountIn(EntriesAt(storages, n), Holding(T)) + 0
    BY <1>2, <2>2
  <2> QED
    BY <2>1, <2>3 DEF Lists
<1> QED
  BY <1>6, <1>7, <1>8 DEF after, S

\* Listing a mount keeps the accounts exact.
LEMMA ListExact ==
  ASSUME NEW storages, NodesSound(storages), NEW node \in Path,
         NEW storageNode, NodeSound(storageNode), NEW priority \in Int,
         NEW less, NEW more, NEW id, OneMore(less, more, id),
         more[id].node = node, more[id].storageNode = storageNode, more[id].priority = priority
  PROVE  LET after == MountSubtree(storages, node, storageNode, priority)
         IN /\ EntriesExact(storages, less) => EntriesExact(after, more)
            /\ NoneGained(storages, less) => NoneGained(after, more)
<1> DEFINE after == MountSubtree(storages, node, storageNode, priority)
<1>1. NodesSound(after)
  BY MountSubtreeFacts
<1>2. /\ \A n, T : CountIn(EntriesAt(after, n), Holding(T))
            = CountIn(EntriesAt(storages, n), Holding(T)) + IF Brings(node, storageNode, n, T) THEN 1 ELSE 0
      /\ \A n, s, p : CountIn(EntriesAt(after, n), From(s, p))
                 = CountIn(EntriesAt(storages, n), From(s, p))
                     + IF Brings(node, storageNode, n, {s}) /\ priority >= p THEN 1 ELSE 0
  BY MountSubtreeCounts
<1> HIDE DEF after
<1>3. ASSUME EntriesExact(storages, less), NEW n, NEW s
      PROVE  CountIn(EntriesAt(after, n), Holding({s})) = Cardinality(Bringing(more, n, s))
  <2> DEFINE T == {s}
             b == Brings(node, storageNode, n, T)
  <2>1. CountIn(EntriesAt(storages, n), Holding(T)) = Cardinality(Bringing(less, n, s))
    BY <1>3 DEF EntriesExact
  <2>2. OneIdMore(Bringing(less, n, s), Bringing(more, n, s), b)
    BY OneMountMore
  <2>3. CountIn(EntriesAt(after, n), Holding(T))
          = CountIn(EntriesAt(storages, n), Holding(T)) + IF b THEN 1 ELSE 0
    BY <1>2
  <2> HIDE DEF b, T
  <2>4. CountIn(EntriesAt(after, n), Holding(T)) = Cardinality(Bringing(more, n, s))
    BY <2>1, <2>2, <2>3 DEF OneIdMore
  <2> QED
    BY <2>4 DEF T
<1>4. ASSUME NoneGained(storages, less), NEW n, NEW s, NEW p \in Int
      PROVE  CountIn(EntriesAt(after, n), From(s, p)) <= Cardinality(BringingFrom(more, n, s, p))
  <2> DEFINE x == CountIn(EntriesAt(storages, n), From(s, p))
             y == CountIn(EntriesAt(after, n), From(s, p))
             c == Brings(node, storageNode, n, {s}) /\ priority >= p
             d == /\ Brings(more[id].node, more[id].storageNode, n, {s})
                  /\ more[id].priority >= p
             old == BringingFrom(less, n, s, p)
             new == BringingFrom(more, n, s, p)
  <2>1. x <= Cardinality(old)
    BY <1>4 DEF NoneGained
  <2>2. x \in Nat
    BY CountType
  <2>3. OneIdMore(old, new, d)
    BY OneMountMore
  <2>4. c = d
    OBVIOUS
  <2>5. y = x + IF c THEN 1 ELSE 0
    BY <1>2
  <2> HIDE DEF x, y, c, d, old, new
  <2>6. y <= Cardinality(new)
    BY <2>1, <2>2, <2>3, <2>4, <2>5 DEF OneIdMore
  <2> QED
    BY <2>6 DEF y, new
<1> QED
  BY <1>3, <1>4 DEF after, EntriesExact, NoneGained

-----------------------------------------------------------------------------
(***************************************************************************)
(* The table between two re-mounts of one mount().                         *)
(***************************************************************************)
MountsSound(reg, storages, mounts) ==
  /\ IsFiniteSet(DOMAIN mounts)
  /\ mounts \in [DOMAIN mounts -> MountPoint]
  /\ \A id \in DOMAIN mounts :
       mounts[id].node \in DOMAIN storages /\ mounts[id].storageNode.volume \in reg.volumes

IsTable(table) ==
  table \in [registry     : {table.registry},
             nodeStorages : {table.nodeStorages},
             mountPoints  : {table.mountPoints},
             ok           : BOOLEAN]

TableSound(table, pending) ==
  /\ IsTable(table)
  /\ RegistryTyped(table.registry) /\ NodesSound(table.nodeStorages)
  /\ MountsSound(table.registry, table.nodeStorages, table.mountPoints)
  /\ Covered(table.registry, table.nodeStorages, pending)
  /\ Alive(table.registry, table.nodeStorages, pending)

TableExact(table, pending) ==
  /\ CountsExact(table.registry, table.mountPoints, pending)
  /\ EntriesExact(table.nodeStorages, table.mountPoints)
  /\ NoneGained(table.nodeStorages, table.mountPoints)

(***************************************************************************)
(* Re-mounts change the subtrees of mounts and nothing else about them.    *)
(***************************************************************************)
SameMounts(before, after) ==
  /\ DOMAIN after = DOMAIN before
  /\ \A id \in DOMAIN before :
       /\ after[id].node = before[id].node /\ after[id].priority = before[id].priority
       /\ after[id].storageNode.volume = before[id].storageNode.volume
       /\ after[id].storageNode.nodePath = before[id].storageNode.nodePath

\* The fields of a mount point.
LEMMA MountPointFields ==
  ASSUME NEW mountPoint \in MountPoint
  PROVE  /\ mountPoint.node \in Path /\ mountPoint.priority \in Int
         /\ NodeSound(mountPoint.storageNode)
         /\ mountPoint.storageNode.volume \in Volumes
         /\ mountPoint.storageNode.nodePath \in Path /\ mountPoint.storageNode.nodePath # <<>>
BY DEF MountPoint, NodeSound

(***************************************************************************)
(* What takes a mount down, by the parts of the table.                     *)
(***************************************************************************)
LEMMA UnmountValue ==
  ASSUME NEW table, IsTable(table), NEW node, NEW storageNode
  PROVE  LET S == StoragesOf(storageNode)
             after == UnmountSubtree(table, node, storageNode)
         IN /\ IsTable(after)
            /\ after.registry = releaseStorages(table.registry, S)
            /\ after.nodeStorages = NodesWithout(table.nodeStorages, node, storageNode)
            /\ after.mountPoints = table.mountPoints /\ after.ok = table.ok
            /\ CanUnmountSubtree(table, node, storageNode)
                 <=> HasEntries(table.nodeStorages, node, storageNode) /\ CanRelease(table.registry, S)
<1> DEFINE S == StoragesOf(storageNode)
           reg == releaseStorages(table.registry, S)
           nodes == NodesWithout(table.nodeStorages, node, storageNode)
           after == UnmountSubtree(table, node, storageNode)
<1>1. after = [table EXCEPT !.registry = reg, !.nodeStorages = nodes]
  BY DEF UnmountSubtree, NodesWithout, Without
<1>2. CanUnmountSubtree(table, node, storageNode)
        <=> HasEntries(table.nodeStorages, node, storageNode) /\ CanRelease(table.registry, S)
  BY DEF CanUnmountSubtree, HasEntries
<1> HIDE DEF reg, nodes, after
<1>3. /\ after.registry = reg /\ after.nodeStorages = nodes
      /\ after.mountPoints = table.mountPoints /\ after.ok = table.ok
      /\ IsTable(after)
  BY <1>1 DEF IsTable
<1> QED
  BY <1>2, <1>3 DEF reg, nodes, after

(***************************************************************************)
(* What redoes a mount, by the parts of the table.                         *)
(***************************************************************************)
LEMMA RemountValue ==
  ASSUME NEW table, IsTable(table), NEW id
  PROVE  LET mountPoint == table.mountPoints[id]
             storageNode == mountPoint.storageNode
             released == releaseStorages(table.registry, StoragesOf(storageNode))
             acquired == acquireStorage(released, storageNode.volume, storageNode.nodePath)
             left == NodesWithout(table.nodeStorages, mountPoint.node, storageNode)
             possible == table.ok /\ CanUnmountSubtree(table, mountPoint.node, storageNode)
             after == Remount(table, id)
         IN /\ IsTable(after)
            /\ ~possible => /\ after.registry = table.registry
                            /\ after.nodeStorages = table.nodeStorages
                            /\ after.mountPoints = table.mountPoints
                            /\ after.ok = FALSE
            /\ possible => /\ after.registry = acquired.registry
                           /\ after.nodeStorages =
                                MountSubtree(left, mountPoint.node, acquired.storageNode,
                                             mountPoint.priority)
                           /\ after.mountPoints =
                                [table.mountPoints EXCEPT ![id].storageNode = acquired.storageNode]
                           /\ after.ok = table.ok
<1> DEFINE mountPoint == table.mountPoints[id]
           storageNode == mountPoint.storageNode
           released == releaseStorages(table.registry, StoragesOf(storageNode))
           left == NodesWithout(table.nodeStorages, mountPoint.node, storageNode)
           down == UnmountSubtree(table, mountPoint.node, storageNode)
           acquired == acquireStorage(released, storageNode.volume, storageNode.nodePath)
           possible == table.ok /\ CanUnmountSubtree(table, mountPoint.node, storageNode)
           after == Remount(table, id)
<1>1. /\ IsTable(down) /\ down.registry = released /\ down.nodeStorages = left
      /\ down.mountPoints = table.mountPoints /\ down.ok = table.ok
  BY UnmountValue
<1>2. CASE ~possible
  <2>1. after = [table EXCEPT !.ok = FALSE]
    BY <1>2, Zenon DEF Remount
  <2> HIDE DEF after
  <2>2. /\ after.registry = table.registry /\ after.nodeStorages = table.nodeStorages
        /\ after.mountPoints = table.mountPoints /\ after.ok = FALSE /\ IsTable(after)
    BY <2>1 DEF IsTable
  <2> QED
    BY <1>2, <2>2, Zenon DEF after
<1>3. CASE possible
  <2> DEFINE x == acquired.registry
             y == acquired.storageNode
             n == mountPoint.node
             p == mountPoint.priority
  <2>1. after = [down EXCEPT !.registry = x, !.mountPoints[id].storageNode = y,
                             !.nodeStorages = MountSubtree(@, n, y, p)]
    <3>1. acquireStorage(down.registry, storageNode.volume, storageNode.nodePath) = acquired
      BY <1>1
    <3> QED
      BY <1>3, <3>1, Zenon DEF Remount
  <2> HIDE DEF after, down, x, y, n, p, left, released, acquired
  <2>2. /\ after.registry = x
        /\ after.nodeStorages = MountSubtree(left, n, y, p)
        /\ after.mountPoints = [table.mountPoints EXCEPT ![id].storageNode = y]
        /\ after.ok = table.ok /\ IsTable(after)
    BY <1>1, <2>1 DEF IsTable
  <2> QED
    BY <1>3, <2>2, Zenon DEF after, x, y, n, p, left, released, acquired
<1> QED
  BY <1>2, <1>3

(***************************************************************************)
(* Why an assertion may fail though the accounts are exact: the key of the *)
(* storages below a mounted node is misread, or a storage of another       *)
(* volume has taken it.                                                    *)
(***************************************************************************)
BadKeys(reg, volume, nodePath) ==
  LET root == Storage(volume, nodePath)
  IN \/ UnloadTarget(root) # root
     \/ \E s \in reg.registered : s.volume # volume /\ IsPrefix(Key(root), Key(s))

\* A mount whose keys are not misread can be taken down.
LEMMA ExactCanUnmount ==
  ASSUME NEW table, NEW pending, TableSound(table, pending), TableExact(table, pending),
         NEW id \in DOMAIN table.mountPoints
  PROVE  LET mountPoint == table.mountPoints[id]
             storageNode == mountPoint.storageNode
         IN ~BadKeys(table.registry, storageNode.volume, storageNode.nodePath)
              => CanUnmountSubtree(table, mountPoint.node, storageNode)
<1> DEFINE mounts == table.mountPoints
           mountPoint == mounts[id]
           storageNode == mountPoint.storageNode
           node == mountPoint.node
           S == StoragesOf(storageNode)
           storages == table.nodeStorages
           reg == table.registry
           counters == table.registry.counters
<1>1. /\ IsFiniteSet(DOMAIN mounts) /\ mountPoint \in MountPoint
      /\ storageNode.volume \in table.registry.volumes
      /\ NodesSound(storages) /\ IsTable(table) /\ RegistryTyped(reg)
  BY DEF TableSound, MountsSound
<1>2. node \in Path /\ NodeSound(storageNode)
  BY <1>1, MountPointFields
<1>3. HasEntries(storages, node, storageNode)
  <2> SUFFICES ASSUME NEW n \in Targets(node, storageNode)
               PROVE  \E i \in DOMAIN EntriesAt(storages, n) :
                        storages[n][i].storage = SourceOf(n, node, storageNode)
    BY DEF HasEntries
  <2> DEFINE s == SourceOf(n, node, storageNode)
             entries == EntriesAt(storages, n)
             places == Positions(entries, Holding({s}))
  <2>1. id \in Bringing(mounts, n, s)
    BY DEF Bringing, Brings
  <2> HIDE DEF s
  <2>2. IsFiniteSet(Bringing(mounts, n, s))
    BY <1>1, FS_Subset DEF Bringing
  <2>3. Cardinality(Bringing(mounts, n, s)) # 0
    BY <2>1, <2>2, FS_EmptySet
  <2>4. Cardinality(places) # 0
    BY <2>3 DEF TableExact, EntriesExact, CountIn
  <2>5. places # {}
    BY <2>4, FS_EmptySet
  <2>6. PICK i \in 1..Len(entries) : entries[i] \in Holding({s})
    BY <2>5 DEF Positions
  <2>7. entries \in Seq(Entry) /\ i \in DOMAIN entries
    BY <1>1, EntriesAtFacts
  <2>8. n \in DOMAIN storages
    <3> SUFFICES ASSUME n \notin DOMAIN storages PROVE FALSE
      OBVIOUS
    <3>1. entries = <<>>
      BY DEF EntriesAt
    <3> QED
      BY <2>7, <3>1
  <2>9. entries = storages[n]
    BY <2>8 DEF EntriesAt
  <2> QED
    BY <2>6, <2>7, <2>9 DEF Holding, s
<1>4. KeysOf(S) \subseteq DOMAIN counters
  <2> SUFFICES ASSUME NEW key \in KeysOf(S) PROVE key \in DOMAIN counters
    OBVIOUS
  <2>1. id \in Reaching(mounts, key)
    BY DEF Reaching
  <2>2. IsFiniteSet(Reaching(mounts, key))
    BY <1>1, FS_Subset DEF Reaching
  <2>3. Cardinality(Reaching(mounts, key)) \in Nat /\ Cardinality(Reaching(mounts, key)) # 0
    BY <2>1, <2>2, FS_EmptySet, FS_CardinalityType
  <2>4. CountOf(counters, key)
          = Cardinality(Reaching(mounts, key)) + IF key \in KeysOf(pending) THEN 1 ELSE 0
    BY DEF TableExact, CountsExact
  <2>5. CountOf(counters, key) # 0
    BY <2>3, <2>4
  <2> QED
    BY <2>5 DEF CountOf
<1> DEFINE v == storageNode.volume
           path == storageNode.nodePath
           root == Storage(v, path)
<1>5. S \subseteq NodeStorages /\ root \in NodeStorages
      /\ \A s \in S : s.volume = v /\ IsInSubtree(s.path, path)
  BY <1>2, StoragesOfFacts
<1>6. root.volume = v /\ root.path = path
  BY DEF Storage
<1>7. reg.registered \subseteq NodeStorages /\ DOMAIN counters = KeysOf(reg.registered)
  BY <1>1 DEF RegistryTyped, Registries
<1> HIDE DEF root, S
<1>8. ASSUME ~BadKeys(reg, v, path), NEW s \in S PROVE s \in reg.registered
  <2>1. PICK r \in reg.registered : Key(r) = Key(s)
    BY <1>4, <1>7 DEF KeysOf
  <2>2. CASE r.volume = v
    BY <1>5, <1>7, <2>1, <2>2, KeyInjective
  <2>3. CASE r.volume # v
    <3>1. IsPrefix(Key(root), Key(s))
      BY <1>5, <1>6, KeyPrefix
    <3>2. IsPrefix(Key(root), Key(r))
      BY <2>1, <3>1
    <3> QED
      BY <1>8, <2>3, <3>2 DEF BadKeys, root
  <2> QED
    BY <2>2, <2>3
<1>9. ASSUME ~BadKeys(reg, v, path), NEW s \in S PROVE UnloadTarget(s).volume \in table.registry.volumes
  <2>1. UnloadTarget(root) = root
    BY <1>9 DEF BadKeys, root
  <2>2. ~Colon(v)
    BY <1>5, <1>6, <2>1, UnloadTargetFacts
  <2>3. UnloadTarget(s) = s /\ s.volume = v
    BY <1>5, <2>2, UnloadTargetFacts
  <2> QED
    BY <1>1, <2>3
<1>10. ASSUME ~BadKeys(reg, v, path) PROVE CanRelease(table.registry, S)
  BY <1>4, <1>8, <1>9, <1>10 DEF CanRelease, Freed
<1>11. ASSUME ~BadKeys(reg, v, path) PROVE CanUnmountSubtree(table, node, storageNode)
  BY <1>1, <1>3, <1>10, <1>11, UnmountValue DEF S
<1> QED
  BY <1>11

(***************************************************************************)
(* Taking down what can be taken down keeps the table sound.  The mount    *)
(* may stay in the list: that is what an exception in the middle of a      *)
(* re-mount leaves.                                                        *)
(***************************************************************************)
LEMMA UnmountFacts ==
  ASSUME NEW table, NEW pending, TableSound(table, pending), NEW id \in DOMAIN table.mountPoints,
         CanUnmountSubtree(table, table.mountPoints[id].node, table.mountPoints[id].storageNode)
  PROVE  LET mountPoint == table.mountPoints[id]
             after == UnmountSubtree(table, mountPoint.node, mountPoint.storageNode)
             less == [i \in DOMAIN table.mountPoints \ {id} |-> table.mountPoints[i]]
         IN /\ TableSound(after, pending)
            /\ after.registry.volumes = table.registry.volumes
            /\ DOMAIN after.nodeStorages = DOMAIN table.nodeStorages
            /\ after.mountPoints = table.mountPoints /\ after.ok = table.ok
            /\ after.registry.registered \subseteq table.registry.registered
            /\ NoLeak(table.registry) => NoLeak(after.registry)
            /\ TableExact(table, pending)
                 => /\ CountsExact(after.registry, less, pending)
                    /\ EntriesExact(after.nodeStorages, less)
                    /\ NoneGained(after.nodeStorages, less)
            /\ OneMore(less, table.mountPoints, id)
<1> DEFINE mounts == table.mountPoints
           mountPoint == mounts[id]
           storageNode == mountPoint.storageNode
           node == mountPoint.node
           after == UnmountSubtree(table, node, storageNode)
           less == [i \in DOMAIN mounts \ {id} |-> mounts[i]]
<1>1. /\ IsFiniteSet(DOMAIN mounts) /\ mountPoint \in MountPoint
      /\ RegistryTyped(table.registry) /\ NodesSound(table.nodeStorages) /\ IsTable(table)
      /\ MountsSound(table.registry, table.nodeStorages, mounts)
      /\ Covered(table.registry, table.nodeStorages, pending)
      /\ Alive(table.registry, table.nodeStorages, pending)
  BY DEF TableSound, MountsSound
<1>2. node \in Path /\ NodeSound(storageNode) /\ mountPoint.priority \in Int
  BY <1>1, MountPointFields
<1>3. /\ IsTable(after)
      /\ after.registry = releaseStorages(table.registry, StoragesOf(storageNode))
      /\ after.nodeStorages = NodesWithout(table.nodeStorages, node, storageNode)
      /\ after.mountPoints = mounts /\ after.ok = table.ok
  BY <1>1, UnmountValue
<1>4. HasEntries(table.nodeStorages, node, storageNode) /\ CanRelease(table.registry, StoragesOf(storageNode))
  BY <1>1, UnmountValue
<1>5. StoragesOf(storageNode) \subseteq table.registry.registered
  BY <1>4 DEF CanRelease
<1> HIDE DEF after
<1>6. /\ RegistryTyped(after.registry) /\ after.registry.volumes = table.registry.volumes
      /\ NodesSound(after.nodeStorages) /\ DOMAIN after.nodeStorages = DOMAIN table.nodeStorages
      /\ Covered(after.registry, after.nodeStorages, pending)
      /\ Alive(after.registry, after.nodeStorages, pending)
      /\ after.registry.registered \subseteq table.registry.registered
      /\ NoLeak(table.registry) => NoLeak(after.registry)
  <2> DEFINE reg == releaseStorages(table.registry, StoragesOf(storageNode))
             nodes == NodesWithout(table.nodeStorages, node, storageNode)
  <2>1. /\ RegistryTyped(reg) /\ reg.volumes = table.registry.volumes
        /\ NodesSound(nodes) /\ DOMAIN nodes = DOMAIN table.nodeStorages
        /\ \A p : Covered(table.registry, table.nodeStorages, p) => Covered(reg, nodes, p)
        /\ \A p : Covered(table.registry, table.nodeStorages, p) /\ Alive(table.registry, table.nodeStorages, p)
                    => Alive(reg, nodes, p)
        /\ reg.registered \subseteq table.registry.registered
        /\ NoLeak(table.registry) => NoLeak(reg)
    BY <1>1, <1>2, <1>4, <1>5, TakeDownFacts
  <2> HIDE DEF reg, nodes
  <2> QED
    BY <1>1, <1>3, <2>1 DEF reg, nodes
<1>7. OneMore(less, mounts, id)
  <2>1. IsFiniteSet(DOMAIN mounts \ {id})
    BY <1>1, FS_RemoveElement
  <2> QED
    BY <2>1 DEF OneMore
<1>8. ASSUME TableExact(table, pending)
      PROVE  /\ CountsExact(after.registry, less, pending)
             /\ EntriesExact(after.nodeStorages, less) /\ NoneGained(after.nodeStorages, less)
  <2> HIDE DEF less
  <2>1. /\ CountsExact(table.registry, mounts, pending)
        /\ EntriesExact(table.nodeStorages, mounts) /\ NoneGained(table.nodeStorages, mounts)
    BY <1>8 DEF TableExact
  <2> QED
    BY <1>1, <1>2, <1>3, <1>4, <1>5, <1>7, <2>1, TakeDownExact
<1>9. TableSound(after, pending)
  BY <1>1, <1>3, <1>6 DEF TableSound, MountsSound
<1> QED
  BY <1>3, <1>6, <1>7, <1>8, <1>9 DEF after

-----------------------------------------------------------------------------
(***************************************************************************)
(* Redoing a mount keeps the table sound and its accounts exact, and with  *)
(* exact accounts it only fails for bad keys.                              *)
(***************************************************************************)
LEMMA RemountFacts ==
  ASSUME NEW table, NEW pending, TableSound(table, pending), NEW id \in DOMAIN table.mountPoints
  PROVE  LET after == Remount(table, id)
         IN /\ TableSound(after, pending)
            /\ after.registry.volumes = table.registry.volumes
            /\ DOMAIN table.nodeStorages \subseteq DOMAIN after.nodeStorages
            /\ SameMounts(table.mountPoints, after.mountPoints)
            /\ NoLeak(table.registry) => NoLeak(after.registry)
            /\ \A s \in after.registry.registered :
                 s \in table.registry.registered \/ s.volume = table.mountPoints[id].storageNode.volume
            /\ TableExact(table, pending)
                 => /\ TableExact(after, pending)
                    /\ table.ok => after.ok
                         \/ BadKeys(table.registry, table.mountPoints[id].storageNode.volume,
                                    table.mountPoints[id].storageNode.nodePath)
<1> DEFINE mounts == table.mountPoints
           mountPoint == mounts[id]
           storageNode == mountPoint.storageNode
           node == mountPoint.node
           possible == table.ok /\ CanUnmountSubtree(table, node, storageNode)
           after == Remount(table, id)
<1>1. /\ IsFiniteSet(DOMAIN mounts) /\ mountPoint \in MountPoint /\ IsTable(table)
      /\ mounts \in [DOMAIN mounts -> MountPoint]
      /\ storageNode.volume \in table.registry.volumes /\ node \in DOMAIN table.nodeStorages
      /\ \A i \in DOMAIN mounts :
           /\ mounts[i].node \in DOMAIN table.nodeStorages
           /\ mounts[i].storageNode.volume \in table.registry.volumes
  BY DEF TableSound, MountsSound
<1>2. IsTable(after)
  BY <1>1, RemountValue
<1>3. CASE ~possible
  <2>1. /\ after.registry = table.registry /\ after.nodeStorages = table.nodeStorages
        /\ after.mountPoints = mounts /\ after.ok = FALSE
    BY <1>1, <1>3, RemountValue
  <2>2. TableExact(table, pending) /\ table.ok => BadKeys(table.registry, storageNode.volume, storageNode.nodePath)
    BY <1>3, ExactCanUnmount
  <2> HIDE DEF after, possible
  <2>3. TableSound(after, pending)
    BY <1>2, <2>1 DEF TableSound
  <2>4. SameMounts(mounts, after.mountPoints)
    BY <2>1 DEF SameMounts
  <2>5. TableExact(table, pending) => TableExact(after, pending)
    BY <2>1 DEF TableExact
  <2> QED
    BY <2>1, <2>2, <2>3, <2>4, <2>5 DEF after
<1>4. CASE possible
  <2> DEFINE down == UnmountSubtree(table, node, storageNode)
             less == [i \in DOMAIN mounts \ {id} |-> mounts[i]]
             acquired == acquireStorage(down.registry, storageNode.volume, storageNode.nodePath)
             redone == acquired.storageNode
  <2>1. /\ TableSound(down, pending)
        /\ down.registry.volumes = table.registry.volumes
        /\ DOMAIN down.nodeStorages = DOMAIN table.nodeStorages
        /\ down.registry.registered \subseteq table.registry.registered
        /\ NoLeak(table.registry) => NoLeak(down.registry)
        /\ TableExact(table, pending)
             => /\ CountsExact(down.registry, less, pending)
                /\ EntriesExact(down.nodeStorages, less) /\ NoneGained(down.nodeStorages, less)
        /\ OneMore(less, mounts, id)
    BY <1>4, UnmountFacts
  <2>2. /\ down.registry = releaseStorages(table.registry, StoragesOf(storageNode))
        /\ down.nodeStorages = NodesWithout(table.nodeStorages, node, storageNode)
    BY <1>1, UnmountValue
  <2>3. /\ after.registry = acquired.registry
        /\ after.nodeStorages = MountSubtree(down.nodeStorages, node, redone, mountPoint.priority)
        /\ after.mountPoints = [mounts EXCEPT ![id].storageNode = redone]
        /\ after.ok = table.ok
    <3> DEFINE released == releaseStorages(table.registry, StoragesOf(storageNode))
               left == NodesWithout(table.nodeStorages, node, storageNode)
               again == acquireStorage(released, storageNode.volume, storageNode.nodePath)
    <3>1. /\ after.registry = again.registry
          /\ after.nodeStorages = MountSubtree(left, node, again.storageNode, mountPoint.priority)
          /\ after.mountPoints = [mounts EXCEPT ![id].storageNode = again.storageNode]
          /\ after.ok = table.ok
      BY <1>1, <1>4, RemountValue
    <3>2. again = acquired /\ left = down.nodeStorages
      BY <2>2
    <3> HIDE DEF again, left, acquired, after, down
    <3> QED
      BY <3>1, <3>2
  <2> HIDE DEF possible, after, down
  <2>4. /\ node \in Path /\ mountPoint.priority \in Int /\ NodeSound(storageNode)
        /\ storageNode.volume \in Volumes
        /\ storageNode.nodePath \in Path /\ storageNode.nodePath # <<>>
    BY <1>1, MountPointFields
  <2>5. /\ RegistryTyped(down.registry) /\ NodesSound(down.nodeStorages)
        /\ Covered(down.registry, down.nodeStorages, pending)
        /\ Alive(down.registry, down.nodeStorages, pending)
    BY <2>1 DEF TableSound
  <2>6. /\ RegistryTyped(after.registry)
        /\ after.registry.volumes = down.registry.volumes \union {storageNode.volume}
        /\ NodeSound(redone) /\ redone.volume = storageNode.volume
        /\ redone.nodePath = storageNode.nodePath
        /\ after.registry.loaded = down.registry.loaded \union StoragesOf(redone)
        /\ after.registry.registered
             = down.registry.registered \union NewlyCounted(down.registry.counters, StoragesOf(redone))
    <3> HIDE DEF storageNode
    <3> QED
      BY <2>3, <2>4, <2>5, AcquireFacts
  <2>7. \A key : /\ CountOf(down.registry.counters, key) \in Nat
                 /\ CountOf(after.registry.counters, key)
                      = CountOf(down.registry.counters, key)
                          + IF key \in KeysOf(StoragesOf(redone)) THEN 1 ELSE 0
    <3> DEFINE reg == down.registry
               v == storageNode.volume
               path == storageNode.nodePath
    <3>1. RegistryTyped(reg) /\ v \in Volumes /\ path \in Path /\ path # <<>>
      BY <2>4, <2>5
    <3> HIDE DEF reg, v, path
    <3>2. acquired = acquireStorage(reg, v, path)
      BY DEF reg, v, path
    <3> HIDE DEF acquired
    <3>3. ASSUME NEW key
          PROVE  CountOf(acquired.registry.counters, key)
                   = CountOf(reg.counters, key) + IF key \in KeysOf(StoragesOf(acquired.storageNode)) THEN 1 ELSE 0
      BY <3>1, <3>2, AcquireCounts
    <3>4. \A key : CountOf(reg.counters, key) \in Nat
      BY <3>1, CountNat
    <3> QED
      BY <2>3, <3>3, <3>4 DEF reg
  <2>8. /\ NodesSound(after.nodeStorages)
        /\ DOMAIN after.nodeStorages = DOMAIN down.nodeStorages \union Targets(node, redone)
    <3> DEFINE nodes == down.nodeStorages
               p == mountPoint.priority
    <3>1. NodesSound(nodes) /\ node \in Path /\ NodeSound(redone) /\ p \in Int
      BY <2>4, <2>5, <2>6
    <3> HIDE DEF nodes, node, p, redone
    <3>2. /\ NodesSound(MountSubtree(nodes, node, redone, p))
          /\ DOMAIN MountSubtree(nodes, node, redone, p) = DOMAIN nodes \union Targets(node, redone)
      BY <3>1, MountSubtreeFacts
    <3> QED
      BY <2>3, <3>2 DEF nodes, p
  <2>9. /\ Covered(after.registry, after.nodeStorages, pending)
        /\ Alive(after.registry, after.nodeStorages, pending)
    <3> DEFINE nodes == down.nodeStorages
               p == mountPoint.priority
               listed == MountSubtree(nodes, node, redone, p)
               reg == down.registry
               more == after.registry
    <3>1. NodesSound(nodes) /\ node \in Path /\ NodeSound(redone) /\ p \in Int
      BY <2>4, <2>5, <2>6
    <3>2. /\ Covered(reg, nodes, pending) /\ Alive(reg, nodes, pending)
          /\ reg.loaded \subseteq more.loaded /\ StoragesOf(redone) \subseteq more.loaded
      BY <2>5, <2>6
    <3>3. \A key : /\ CountOf(reg.counters, key) \in Nat
                   /\ CountOf(more.counters, key) = CountOf(reg.counters, key)
                        + IF key \in KeysOf(StoragesOf(redone)) THEN 1 ELSE 0
      BY <2>7
    <3> HIDE DEF nodes, node, p, redone, reg, more
    <3>4. Covered(more, listed, pending) /\ Alive(more, listed, pending)
      BY <3>1, <3>2, <3>3, ListAccounts
    <3> QED
      BY <2>3, <3>4 DEF nodes, p, more
  <2>10. /\ DOMAIN after.mountPoints = DOMAIN mounts
         /\ \A i \in DOMAIN mounts \ {id} : after.mountPoints[i] = mounts[i]
         /\ after.mountPoints[id].node = node /\ after.mountPoints[id].priority = mountPoint.priority
         /\ after.mountPoints[id].storageNode = redone
         /\ after.mountPoints \in [DOMAIN mounts -> MountPoint]
    <3>1. redone \in [volume : Volumes, nodePath : Path, paths : SUBSET Path]
      BY <2>6 DEF NodeSound
    <3> HIDE DEF redone
    <3>2. [mountPoint EXCEPT !.storageNode = redone] \in MountPoint
      BY <1>1, <2>6, <3>1 DEF MountPoint
    <3>3. /\ [mountPoint EXCEPT !.storageNode = redone].node = node
          /\ [mountPoint EXCEPT !.storageNode = redone].priority = mountPoint.priority
          /\ [mountPoint EXCEPT !.storageNode = redone].storageNode = redone
      BY <1>1 DEF MountPoint
    <3> DEFINE new == [mountPoint EXCEPT !.storageNode = redone]
    <3>4. after.mountPoints = [mounts EXCEPT ![id] = new]
      BY <2>3
    <3> HIDE DEF new, mountPoint, node
    <3>5. /\ DOMAIN after.mountPoints = DOMAIN mounts
          /\ \A i \in DOMAIN mounts \ {id} : after.mountPoints[i] = mounts[i]
          /\ after.mountPoints[id] = new
          /\ after.mountPoints \in [DOMAIN mounts -> MountPoint]
      BY <1>1, <3>2, <3>4 DEF new
    <3> QED
      BY <3>3, <3>5 DEF new
  <2> HIDE DEF acquired, redone
  <2>11. MountsSound(after.registry, after.nodeStorages, after.mountPoints)
    <3>1. ASSUME NEW i \in DOMAIN mounts
          PROVE  /\ after.mountPoints[i].node \in DOMAIN after.nodeStorages
                 /\ after.mountPoints[i].storageNode.volume \in after.registry.volumes
      <4>1. CASE i = id
        BY <1>1, <2>1, <2>6, <2>8, <2>10, <4>1
      <4>2. CASE i # id
        <5>1. after.mountPoints[i] = mounts[i]
          BY <2>10, <4>2
        <5> QED
          BY <1>1, <2>1, <2>6, <2>8, <5>1
      <4> QED
        BY <4>1, <4>2
    <3> QED
      BY <1>1, <2>10, <3>1 DEF MountsSound
  <2>12. TableSound(after, pending)
    BY <1>2, <2>6, <2>8, <2>9, <2>11 DEF TableSound
  <2>13. SameMounts(mounts, after.mountPoints)
    <3>1. ASSUME NEW i \in DOMAIN mounts
          PROVE  /\ after.mountPoints[i].node = mounts[i].node
                 /\ after.mountPoints[i].priority = mounts[i].priority
                 /\ after.mountPoints[i].storageNode.volume = mounts[i].storageNode.volume
                 /\ after.mountPoints[i].storageNode.nodePath = mounts[i].storageNode.nodePath
      BY <2>6, <2>10
    <3> QED
      BY <2>10, <3>1 DEF SameMounts
  <2>14. NoLeak(table.registry) => NoLeak(after.registry)
    <3> HIDE DEF storageNode
    <3> QED
      BY <2>1, <2>3, <2>4, <2>5, AcquireAccounts DEF acquired
  <2>15. ASSUME NEW s \in after.registry.registered
         PROVE  s \in table.registry.registered \/ s.volume = storageNode.volume
    <3>1. s \in down.registry.registered \/ s \in StoragesOf(redone)
      BY <2>6 DEF NewlyCounted
    <3>2. s \in StoragesOf(redone) => s.volume = storageNode.volume
      BY <2>6, StoragesOfFacts
    <3> QED
      BY <2>1, <3>1, <3>2
  <2>16. TableExact(table, pending) => TableExact(after, pending) /\ (table.ok => after.ok)
    <3> SUFFICES ASSUME TableExact(table, pending) PROVE TableExact(after, pending)
      BY <2>3
    <3>1. /\ CountsExact(down.registry, less, pending)
          /\ EntriesExact(down.nodeStorages, less) /\ NoneGained(down.nodeStorages, less)
      BY <2>1
    <3>2. OneMore(less, after.mountPoints, id)
      <4>1. IsFiniteSet(DOMAIN mounts \ {id})
        BY <1>1, FS_RemoveElement
      <4>2. DOMAIN less = DOMAIN mounts \ {id} /\ \A i \in DOMAIN less : less[i] = mounts[i]
        OBVIOUS
      <4> HIDE DEF less
      <4> QED
        BY <2>10, <4>1, <4>2 DEF OneMore
    <3> HIDE DEF less
    <3>3. CountsExact(after.registry, after.mountPoints, pending)
      <4> DEFINE reg == down.registry
                 v == storageNode.volume
                 path == storageNode.nodePath
                 more == after.mountPoints
      <4>1. RegistryTyped(reg) /\ v \in Volumes /\ path \in Path /\ path # <<>>
        BY <2>4, <2>5
      <4>2. /\ OneMore(less, more, id) /\ more[id].storageNode = acquired.storageNode
            /\ CountsExact(reg, less, pending)
        BY <2>10, <3>1, <3>2 DEF redone
      <4>3. after.registry = acquireStorage(reg, v, path).registry /\ acquired = acquireStorage(reg, v, path)
        BY <2>3 DEF acquired
      <4> HIDE DEF reg, v, path, more
      <4>4. CountsExact(acquireStorage(reg, v, path).registry, more, pending)
        BY <4>1, <4>2, <4>3, AcquireAccounts
      <4> QED
        BY <4>3, <4>4 DEF more
    <3>4. /\ EntriesExact(after.nodeStorages, after.mountPoints)
          /\ NoneGained(after.nodeStorages, after.mountPoints)
      <4> DEFINE nodes == down.nodeStorages
                 p == mountPoint.priority
                 more == after.mountPoints
      <4>1. NodesSound(nodes) /\ node \in Path /\ NodeSound(redone) /\ p \in Int
        BY <2>4, <2>5, <2>6
      <4>2. /\ OneMore(less, more, id) /\ more[id].node = node /\ more[id].storageNode = redone
            /\ more[id].priority = p
            /\ EntriesExact(nodes, less) /\ NoneGained(nodes, less)
        BY <2>10, <3>1, <3>2
      <4> HIDE DEF nodes, node, p, more
      <4>3. /\ EntriesExact(MountSubtree(nodes, node, redone, p), more)
            /\ NoneGained(MountSubtree(nodes, node, redone, p), more)
        BY <4>1, <4>2, ListExact
      <4> QED
        BY <2>3, <4>3 DEF nodes, p, more
    <3> QED
      BY <3>3, <3>4 DEF TableExact
  <2>17. after.registry.volumes = table.registry.volumes
    BY <1>1, <2>1, <2>6
  <2>18. DOMAIN table.nodeStorages \subseteq DOMAIN after.nodeStorages
    BY <2>1, <2>8
  <2> QED
    BY <2>12, <2>13, <2>14, <2>15, <2>16, <2>17, <2>18 DEF after
<1> QED
  BY <1>3, <1>4

(***************************************************************************)
(* What any number of re-mounts of mounts of one volume keep.              *)
(***************************************************************************)
AnyBad(reg, mounts, v) ==
  \E id \in DOMAIN mounts :
    /\ mounts[id].storageNode.volume = v
    /\ BadKeys(reg, v, mounts[id].storageNode.nodePath)

Redone(table, after, pending, v) ==
  /\ TableSound(after, pending)
  /\ after.registry.volumes = table.registry.volumes
  /\ DOMAIN table.nodeStorages \subseteq DOMAIN after.nodeStorages
  /\ SameMounts(table.mountPoints, after.mountPoints)
  /\ NoLeak(table.registry) => NoLeak(after.registry)
  /\ \A s \in after.registry.registered : s \in table.registry.registered \/ s.volume = v
  /\ TableExact(table, pending)
       => /\ TableExact(after, pending)
          /\ table.ok => after.ok \/ AnyBad(table.registry, table.mountPoints, v)

\* One more mount redone.
LEMMA RedoneOnce ==
  ASSUME NEW table, NEW pending, NEW v, NEW before, TableSound(before, pending),
         Redone(table, before, pending, v), NEW id \in DOMAIN table.mountPoints,
         table.mountPoints[id].storageNode.volume = v
  PROVE  Redone(table, Remount(before, id), pending, v)
<1> DEFINE after == Remount(before, id)
           path == before.mountPoints[id].storageNode.nodePath
<1>1. /\ DOMAIN before.mountPoints = DOMAIN table.mountPoints
      /\ \A i \in DOMAIN table.mountPoints :
           /\ before.mountPoints[i].storageNode.volume = table.mountPoints[i].storageNode.volume
           /\ before.mountPoints[i].storageNode.nodePath = table.mountPoints[i].storageNode.nodePath
      /\ before.mountPoints[id].storageNode.volume = v
  BY DEF Redone, SameMounts
<1>2. /\ TableSound(after, pending)
      /\ after.registry.volumes = before.registry.volumes
      /\ DOMAIN before.nodeStorages \subseteq DOMAIN after.nodeStorages
      /\ SameMounts(before.mountPoints, after.mountPoints)
      /\ NoLeak(before.registry) => NoLeak(after.registry)
      /\ \A s \in after.registry.registered : s \in before.registry.registered \/ s.volume = v
      /\ TableExact(before, pending)
           => /\ TableExact(after, pending)
              /\ before.ok => after.ok \/ BadKeys(before.registry, v, path)
  BY <1>1, RemountFacts
<1> HIDE DEF after
<1>3. SameMounts(table.mountPoints, after.mountPoints)
  BY <1>2 DEF Redone, SameMounts
<1>4. BadKeys(before.registry, v, path) => AnyBad(table.registry, table.mountPoints, v)
  <2>1. \A s \in before.registry.registered : s.volume # v => s \in table.registry.registered
    BY DEF Redone
  <2>2. BadKeys(before.registry, v, path) => BadKeys(table.registry, v, path)
    BY <2>1 DEF BadKeys
  <2>3. path = table.mountPoints[id].storageNode.nodePath
    BY <1>1
  <2> QED
    BY <2>2, <2>3 DEF AnyBad
<1>5. /\ after.registry.volumes = table.registry.volumes
      /\ DOMAIN table.nodeStorages \subseteq DOMAIN after.nodeStorages
      /\ \A s \in after.registry.registered : s \in table.registry.registered \/ s.volume = v
  BY <1>2 DEF Redone
<1>6. /\ NoLeak(table.registry) => NoLeak(after.registry)
      /\ TableExact(table, pending)
           => /\ TableExact(after, pending)
              /\ table.ok => after.ok \/ AnyBad(table.registry, table.mountPoints, v)
  BY <1>2, <1>4, Zenon DEF Redone
<1>7. Redone(table, after, pending, v)
  BY <1>2, <1>3, <1>5, <1>6 DEF Redone
<1> QED
  BY <1>7 DEF after

(***************************************************************************)
(* The tables between the re-mounts of one mount().                        *)
(***************************************************************************)
Rows(table, entries, rows) ==
  /\ rows[0] = table
  /\ \A k \in 1..Len(entries) : rows[k] = Remount(rows[k - 1], entries[k])

\* The rows of the recursion of RemountAll.
LEMMA RemountRows ==
  ASSUME NEW table, NEW entries, Len(entries) \in Nat
  PROVE  \E rows : Rows(table, entries, rows) /\ RemountAll(table, entries) = rows[Len(entries)]
<1> DEFINE n == Len(entries)
           Row(f, k) == IF k = 0 THEN table ELSE Remount(f[k - 1], entries[k])
           Built(f, m) == f = [k \in 0..m |-> Row(f, k)]
           Exists(m) == \E f : Built(f, m)
           T == {m \in 0..n : Exists(m)}
           redone == CHOOSE f : Built(f, n)
<1>1. n \in Nat
  OBVIOUS
<1>2. Exists(0)
  <2> DEFINE g == [k \in 0..0 |-> table]
  <2>1. g = [k \in 0..0 |-> Row(g, k)]
    <3>1. \A k \in 0..0 : Row(g, k) = table
      OBVIOUS
    <3> HIDE DEF Row
    <3> QED
      BY <3>1
  <2>2. Built(g, 0)
    BY <2>1, Zenon
  <2> HIDE DEF Built
  <2> QED
    BY <2>2
<1>3. ASSUME NEW m \in 1..n, Exists(m - 1) PROVE Exists(m)
  <2>1. PICK f : Built(f, m - 1)
    BY <1>3, Zenon
  <2> DEFINE g == [k \in 0..m |-> Row(f, k)]
  <2>2. ASSUME NEW k \in 0..m PROVE Row(g, k) = Row(f, k)
    <3>1. CASE k = 0
      BY <3>1
    <3>2. CASE k # 0
      <4>1. k - 1 \in 0..(m - 1) /\ k - 1 \in 0..m
        BY <1>1, <3>2
      <4>2. f[k - 1] = Row(f, k - 1)
        BY <2>1, <4>1, Zenon
      <4>3. g[k - 1] = Row(f, k - 1)
        BY <4>1, Zenon
      <4> HIDE DEF g
      <4> QED
        BY <4>2, <4>3, Zenon
    <3> QED
      BY <3>1, <3>2
  <2>3. Built(g, m)
    <3>1. \A k \in 0..m : Row(g, k) = Row(f, k)
      BY <2>2
    <3> HIDE DEF Row
    <3> QED
      BY <3>1
  <2> HIDE DEF Built, g
  <2> QED
    BY <2>3
<1>4. Exists(n)
  <2> HIDE DEF Exists, n
  <2>1. 0 \in T
    BY <1>1, <1>2
  <2>2. \A m \in 1..n : m - 1 \in T => m \in T
    BY <1>1, <1>3
  <2> HIDE DEF T
  <2>3. n \in T
    BY <1>1, <2>1, <2>2, UpTo
  <2> QED
    BY <2>3 DEF T
<1>5. Built(redone, n)
  <2> HIDE DEF Built
  <2> QED
    BY <1>4, Zenon
<1>6. RemountAll(table, entries) = redone[n]
  BY Zenon DEF RemountAll
<1> HIDE DEF redone
<1>7. \A k \in 0..n : redone[k] = Row(redone, k)
  BY <1>5, Zenon
<1>8. redone[0] = table
  BY <1>1, <1>7
<1>9. ASSUME NEW m \in 1..n PROVE redone[m] = Remount(redone[m - 1], entries[m])
  <2>1. m \in 0..n /\ m # 0
    BY <1>1
  <2> QED
    BY <1>7, <2>1, Zenon
<1> QED
  BY <1>6, <1>8, <1>9, Zenon DEF Rows

(***************************************************************************)
(* All the re-mounts of one mount().                                       *)
(***************************************************************************)
LEMMA RemountAllFacts ==
  ASSUME NEW table, NEW pending, TableSound(table, pending),
         NEW v, NEW entries \in Seq({id \in DOMAIN table.mountPoints :
                                       table.mountPoints[id].storageNode.volume = v})
  PROVE  Redone(table, RemountAll(table, entries), pending, v)
<1> DEFINE n == Len(entries)
<1>1. n \in Nat /\ \A k \in 1..n : /\ entries[k] \in DOMAIN table.mountPoints
                                   /\ table.mountPoints[entries[k]].storageNode.volume = v
  OBVIOUS
<1>2. PICK redone : /\ redone[0] = table
                    /\ \A k \in 1..n : redone[k] = Remount(redone[k - 1], entries[k])
                    /\ RemountAll(table, entries) = redone[n]
  BY RemountRows DEF Rows
<1> DEFINE U == {m \in 0..n : Redone(table, redone[m], pending, v)}
<1>3. Redone(table, redone[0], pending, v)
  <2>1. SameMounts(table.mountPoints, table.mountPoints)
    BY DEF SameMounts
  <2> QED
    BY <1>2, <2>1 DEF Redone
<1>4. ASSUME NEW m \in 1..n, Redone(table, redone[m - 1], pending, v)
      PROVE  Redone(table, redone[m], pending, v)
  <2>1. TableSound(redone[m - 1], pending)
    BY <1>4 DEF Redone
  <2> QED
    BY <1>1, <1>2, <1>4, <2>1, RedoneOnce
<1>5. Redone(table, redone[n], pending, v)
  <2> HIDE DEF n
  <2>1. 0 \in U /\ \A m \in 1..n : m - 1 \in U => m \in U
    BY <1>1, <1>3, <1>4
  <2> HIDE DEF U
  <2>2. n \in U
    BY <1>1, <2>1, UpTo
  <2> QED
    BY <2>2 DEF U
<1> QED
  BY <1>2, <1>5

-----------------------------------------------------------------------------
(***************************************************************************)
(* The inductive invariant.  Typed and Accounts hold whatever exceptions   *)
(* leave behind; without the accounts nothing would say that the entries   *)
(* an unmount erases, and the counters it lowers, are there.               *)
(***************************************************************************)
Typed ==
  /\ RegistryTyped(registry) /\ NodesSound(nodeStorages)
  /\ MountsSound(registry, nodeStorages, mountPoints)
  /\ mountIdCounter \in Nat \ {0} /\ DOMAIN mountPoints \subseteq 1..(mountIdCounter - 1)
  /\ volumeNodes \in [Volumes -> Seq(DOMAIN nodeStorages)]
  /\ failure \in {"none", "assertion", "badAccess"}
  /\ throws \in [{"acquire", "remount"} -> Nat]

AllExact(reg, storages, mounts) ==
  /\ CountsExact(reg, mounts, {})
  /\ EntriesExact(storages, mounts)
  /\ NoneGained(storages, mounts)

Accounts ==
  /\ Covered(registry, nodeStorages, {}) /\ Alive(registry, nodeStorages, {})
  /\ ~InterruptedRemount => AllExact(registry, nodeStorages, mountPoints)
  /\ throws["acquire"] = 0 /\ ~InterruptedRemount => NoLeak(registry)

IInv == Typed /\ Accounts /\ AssertionsHold

(***************************************************************************)
(* The table a mount() or an unmount() starts from.                        *)
(***************************************************************************)
LEMMA TableAfterFields ==
  ASSUME NEW reg
  PROVE  LET table == TableAfter(reg)
         IN /\ IsTable(table)
            /\ table.registry = reg /\ table.nodeStorages = nodeStorages
            /\ table.mountPoints = mountPoints /\ table.ok = TRUE
BY DEF TableAfter, IsTable

(***************************************************************************)
(* The mounts to redo are live mounts of the same volume.                  *)
(***************************************************************************)
OfVolume(mounts, v) == {id \in DOMAIN mounts : mounts[id].storageNode.volume = v}

\* The mounts to redo are live ones of the volume.
LEMMA RemountEntriesType ==
  ASSUME Typed, NEW options \in MountOptions, NEW order \in IterationOrders
  PROVE  RemountEntries(options, order) \in Seq(OfVolume(mountPoints, options.volume))
<1> DEFINE D == DOMAIN mountPoints
           E == OfVolume(mountPoints, options.volume)
           N == Cardinality(D)
           nodes == volumeNodes[options.volume]
           Affected(id) ==
             LET storageNode == mountPoints[id].storageNode IN
             /\ storageNode.volume = options.volume
             /\ startsWith(options.nodePath, storageNode.nodePath)
             /\ options.nodePath # storageNode.nodePath
           Listed(node, j) ==
             IF mountPoints[order[j]].node = node /\ Affected(order[j]) THEN <<order[j]>> ELSE <<>>
           EntriesOf(node) == FlattenSeq([j \in DOMAIN order |-> Listed(node, j)])
           all == [i \in DOMAIN nodes |-> EntriesOf(nodes[i])]
<1>1. N \in Nat /\ order \in [1..N -> D]
  <2>1. IsFiniteSet(D)
    BY DEF Typed, MountsSound
  <2> QED
    BY <2>1, FS_CardinalityType DEF IterationOrders
<1>2. nodes \in Seq(DOMAIN nodeStorages)
  BY OptionFields DEF Typed
<1>3. \A id \in D : Affected(id) => id \in E
  BY DEF OfVolume
<1> HIDE DEF N, D, E, nodes, Affected
<1>4. ASSUME NEW node PROVE EntriesOf(node) \in Seq(E)
  <2>1. ASSUME NEW j \in 1..N PROVE Listed(node, j) \in Seq(E)
    <3>1. CASE mountPoints[order[j]].node = node /\ Affected(order[j])
      <4>1. order[j] \in E
        BY <1>1, <1>3, <3>1
      <4> QED
        BY <3>1, <4>1, OneElement
    <3>2. CASE ~(mountPoints[order[j]].node = node /\ Affected(order[j]))
      BY <3>2, EmptySeq
    <3> QED
      BY <3>1, <3>2
  <2>2. DOMAIN order = 1..N
    BY <1>1
  <2> HIDE DEF Listed
  <2>3. [j \in DOMAIN order |-> Listed(node, j)] \in Seq(Seq(E))
    BY <1>1, <2>1, <2>2
  <2> QED
    BY <2>3, FlattenFacts
<1>5. RemountEntries(options, order) = FlattenSeq(all)
  BY Zenon DEF RemountEntries, Affected, nodes
<1> HIDE DEF EntriesOf
<1>6. all \in Seq(Seq(E))
  <2>1. Len(nodes) \in Nat /\ DOMAIN nodes = 1..Len(nodes)
    BY <1>2
  <2> QED
    BY <1>4, <2>1
<1> HIDE DEF all
<1> QED
  BY <1>5, <1>6, FlattenFacts DEF E

(***************************************************************************)
(* After the first acquisition of a mount() its storages are pending.      *)
(***************************************************************************)
LEMMA AcquiredTable ==
  ASSUME Typed, Covered(registry, nodeStorages, {}), Alive(registry, nodeStorages, {}),
         NEW options \in MountOptions
  PROVE  LET acquired == acquireStorage(registry, options.volume, options.nodePath)
             table == TableAfter(acquired.registry)
             S == StoragesOf(acquired.storageNode)
         IN /\ TableSound(table, S)
            /\ table.mountPoints = mountPoints /\ table.nodeStorages = nodeStorages /\ table.ok = TRUE
            /\ table.registry.volumes = registry.volumes \union {options.volume}
            /\ \A s \in table.registry.registered : s \in registry.registered \/ s.volume = options.volume
            /\ NodeSound(acquired.storageNode)
            /\ acquired.storageNode.volume = options.volume
            /\ acquired.storageNode.nodePath = options.nodePath
            /\ AllExact(registry, nodeStorages, mountPoints) => TableExact(table, S)
            /\ NoLeak(registry) => NoLeak(table.registry)
<1> DEFINE v == options.volume
           path == options.nodePath
           acquired == acquireStorage(registry, v, path)
           table == TableAfter(acquired.registry)
           node == acquired.storageNode
           S == StoragesOf(node)
<1>1. RegistryTyped(registry) /\ v \in Volumes /\ path \in Path /\ path # <<>>
  BY OptionFields DEF Typed
<1>2. /\ IsTable(table) /\ table.registry = acquired.registry /\ table.nodeStorages = nodeStorages
      /\ table.mountPoints = mountPoints /\ table.ok = TRUE
  BY TableAfterFields
<1> HIDE DEF v, path
<1>3. /\ RegistryTyped(acquired.registry)
      /\ acquired.registry.volumes = registry.volumes \union {v}
      /\ acquired.registry.registered = registry.registered \union NewlyCounted(registry.counters, S)
      /\ NodeSound(node) /\ node.volume = v /\ node.nodePath = path
  BY <1>1, AcquireFacts
<1>4. /\ \A storages : Covered(registry, storages, {}) => Covered(acquired.registry, storages, S)
      /\ \A storages : Alive(registry, storages, {}) => Alive(acquired.registry, storages, S)
      /\ \A mounts : IsFiniteSet(DOMAIN mounts) /\ CountsExact(registry, mounts, {})
                       => CountsExact(acquired.registry, mounts, S)
      /\ NoLeak(registry) => NoLeak(acquired.registry)
  BY <1>1, AcquireAccounts
<1> HIDE DEF acquired, table
<1>5. TableSound(table, S)
  <2>1. MountsSound(table.registry, nodeStorages, mountPoints)
    BY <1>2, <1>3 DEF Typed, MountsSound
  <2> QED
    BY <1>2, <1>3, <1>4, <2>1 DEF TableSound, Typed
<1>6. AllExact(registry, nodeStorages, mountPoints) => TableExact(table, S)
  BY <1>2, <1>4 DEF TableExact, AllExact, Typed, MountsSound
<1>7. \A s \in table.registry.registered : s \in registry.registered \/ s.volume = v
  BY <1>2, <1>3, StoragesOfFacts DEF NewlyCounted
<1> QED
  BY <1>2, <1>3, <1>4, <1>5, <1>6, <1>7 DEF acquired, table, v, path

(***************************************************************************)
(* What a mount() does after its re-mounts: it creates the nodes on the    *)
(* way to the mount path, lists the pending storages there and adds the    *)
(* mount to the live ones.                                                 *)
(***************************************************************************)
WithMount(mounts, id, mountPoint) ==
  [i \in DOMAIN mounts \union {id} |-> IF i = id THEN mountPoint ELSE mounts[i]]

\* The end of a mount(): the acquired subtree is listed.
LEMMA CompletionFacts ==
  ASSUME NEW table, NEW storageNode, NodeSound(storageNode),
         TableSound(table, StoragesOf(storageNode)),
         storageNode.volume \in table.registry.volumes,
         NEW node \in Path, node # <<>>, NEW priority \in Int,
         NEW id, id \notin DOMAIN table.mountPoints
  PROVE  LET withPath == createNodesForPath(table.nodeStorages, node)
             listed == MountSubtree(withPath, node, storageNode, priority)
             mounts == WithMount(table.mountPoints, id,
                         [node |-> node, storageNode |-> storageNode, priority |-> priority])
         IN /\ NodesSound(listed)
            /\ DOMAIN table.nodeStorages \subseteq DOMAIN listed /\ node \in DOMAIN listed
            /\ MountsSound(table.registry, listed, mounts)
            /\ Covered(table.registry, listed, {}) /\ Alive(table.registry, listed, {})
            /\ TableExact(table, StoragesOf(storageNode)) => AllExact(table.registry, listed, mounts)
<1> DEFINE S == StoragesOf(storageNode)
           reg == table.registry
           storages == table.nodeStorages
           less == table.mountPoints
           mountPoint == [node |-> node, storageNode |-> storageNode, priority |-> priority]
           withPath == createNodesForPath(storages, node)
           listed == MountSubtree(withPath, node, storageNode, priority)
           mounts == WithMount(less, id, mountPoint)
<1>1. /\ NodesSound(storages) /\ IsFiniteSet(DOMAIN less) /\ less \in [DOMAIN less -> MountPoint]
      /\ \A i \in DOMAIN less :
           less[i].node \in DOMAIN storages /\ less[i].storageNode.volume \in reg.volumes
      /\ Covered(reg, storages, S) /\ Alive(reg, storages, S) /\ RegistryTyped(reg)
  BY DEF TableSound, MountsSound
<1>2. /\ mountPoint.node = node /\ mountPoint.storageNode = storageNode
      /\ mountPoint.priority = priority /\ mountPoint \in MountPoint
  BY DEF MountPoint, NodeSound
<1> HIDE DEF mountPoint
<1>3. /\ DOMAIN mounts = DOMAIN less \union {id} /\ mounts[id] = mountPoint
      /\ \A i \in DOMAIN less : mounts[i] = less[i]
      /\ mounts \in [DOMAIN mounts -> MountPoint]
  BY <1>1, <1>2 DEF WithMount
<1>4. /\ NodesSound(withPath) /\ DOMAIN withPath = DOMAIN storages \union NodesTo(node)
      /\ \A n : EntriesAt(withPath, n) = EntriesAt(storages, n)
  BY <1>1, CreateNodesFacts
<1> HIDE DEF withPath, mounts
<1>5. NodesSound(listed) /\ DOMAIN withPath \subseteq DOMAIN listed
  <2>1. NodesSound(listed) /\ DOMAIN listed = DOMAIN withPath \union Targets(node, storageNode)
    BY <1>4, MountSubtreeFacts
  <2> HIDE DEF listed
  <2> QED
    BY <2>1
<1>6. DOMAIN storages \subseteq DOMAIN listed /\ node \in DOMAIN listed
  <2>1. node \in NodesTo(node)
    BY NodesToFacts
  <2> QED
    BY <1>4, <1>5, <2>1
<1> HIDE DEF S
<1>7. Covered(reg, listed, {}) /\ Alive(reg, listed, {})
  <2>1. ASSUME NEW T PROVE Places(withPath, T) = Places(storages, T)
    <3>1. PlacesAt(withPath, T) = PlacesAt(storages, T)
      BY <1>4 DEF PlacesAt
    <3> QED
      BY <3>1 DEF Places
  <2>2. Covered(reg, withPath, S)
    BY <1>1, <2>1 DEF Covered
  <2>3. Alive(reg, withPath, {}) /\ S \subseteq reg.loaded
    BY <1>1, <1>4 DEF Alive, Lists
  <2> QED
    BY <1>4, <2>2, <2>3, ListAccounts DEF S
<1>8. OneMore(less, mounts, id)
  BY <1>1, <1>3 DEF OneMore
<1>9. MountsSound(reg, listed, mounts)
  <2> HIDE DEF listed
  <2>1. IsFiniteSet(DOMAIN mounts)
    BY <1>1, <1>3, FS_AddElement
  <2>2. ASSUME NEW i \in DOMAIN mounts
        PROVE  mounts[i].node \in DOMAIN listed /\ mounts[i].storageNode.volume \in reg.volumes
    BY <1>1, <1>2, <1>3, <1>6
  <2> QED
    BY <1>3, <2>1, <2>2 DEF MountsSound
<1>10. ASSUME TableExact(table, S)
       PROVE  AllExact(reg, listed, mounts)
  <2>1. CountsExact(reg, less, S) /\ EntriesExact(storages, less) /\ NoneGained(storages, less)
    BY <1>10 DEF TableExact
  <2>2. CountsExact(reg, mounts, {})
    <3> SUFFICES ASSUME NEW key
                 PROVE  CountOf(reg.counters, key)
                          = Cardinality(Reaching(mounts, key)) + IF key \in KeysOf({}) THEN 1 ELSE 0
      BY DEF CountsExact
    <3>1. CountOf(reg.counters, key) = Cardinality(Reaching(less, key)) + IF key \in KeysOf(S) THEN 1 ELSE 0
      BY <2>1 DEF CountsExact
    <3>2. OneIdMore(Reaching(less, key), Reaching(mounts, key),
                    key \in KeysOf(StoragesOf(mounts[id].storageNode)))
      BY <1>8, OneMountMore
    <3>3. /\ Cardinality(Reaching(less, key)) \in Nat
          /\ Cardinality(Reaching(mounts, key))
               = Cardinality(Reaching(less, key)) + IF key \in KeysOf(S) THEN 1 ELSE 0
      BY <1>2, <1>3, <3>2 DEF OneIdMore, S
    <3>4. KeysOf({}) = {}
      BY DEF KeysOf
    <3> QED
      BY <3>1, <3>3, <3>4
  <2>3. EntriesExact(withPath, less) /\ NoneGained(withPath, less)
    BY <1>4, <2>1 DEF EntriesExact, NoneGained
  <2>4. EntriesExact(listed, mounts) /\ NoneGained(listed, mounts)
    BY <1>2, <1>3, <1>4, <1>8, <2>3, ListExact DEF listed
  <2> QED
    BY <2>2, <2>4 DEF AllExact
<1> QED
  BY <1>5, <1>6, <1>7, <1>9, <1>10 DEF listed, mounts, withPath, mountPoint, S

(***************************************************************************)
(* A whole mount(), when no exception leaves it.                           *)
(***************************************************************************)
LEMMA MountFacts ==
  ASSUME Typed, Covered(registry, nodeStorages, {}), Alive(registry, nodeStorages, {}),
         NEW options \in MountOptions, NEW order \in IterationOrders
  PROVE  LET acquired == acquireStorage(registry, options.volume, options.nodePath)
             remounted == RemountAll(TableAfter(acquired.registry), RemountEntries(options, order))
             withPath == createNodesForPath(remounted.nodeStorages, options.mountPath)
             listed == MountSubtree(withPath, options.mountPath, acquired.storageNode,
                                    options.priority)
             mounts == WithMount(remounted.mountPoints, mountIdCounter,
                         [node |-> options.mountPath, storageNode |-> acquired.storageNode,
                          priority |-> options.priority])
         IN /\ RegistryTyped(remounted.registry) /\ NodesSound(listed)
            /\ DOMAIN remounted.mountPoints = DOMAIN mountPoints
            /\ DOMAIN nodeStorages \subseteq DOMAIN listed /\ options.mountPath \in DOMAIN listed
            /\ MountsSound(remounted.registry, listed, mounts)
            /\ Covered(remounted.registry, listed, {}) /\ Alive(remounted.registry, listed, {})
            /\ AllExact(registry, nodeStorages, mountPoints)
                 => /\ AllExact(remounted.registry, listed, mounts)
                    /\ remounted.ok \/ AnyBad(registry, mountPoints, options.volume)
            /\ NoLeak(registry) => NoLeak(remounted.registry)
<1> DEFINE acquired == acquireStorage(registry, options.volume, options.nodePath)
           node == acquired.storageNode
           S == StoragesOf(node)
           v == options.volume
           table == TableAfter(acquired.registry)
           entries == RemountEntries(options, order)
           remounted == RemountAll(table, entries)
           path == options.mountPath
           priority == options.priority
           withPath == createNodesForPath(remounted.nodeStorages, path)
           listed == MountSubtree(withPath, path, node, priority)
           mountPoint == [node |-> path, storageNode |-> node, priority |-> priority]
           mounts == WithMount(remounted.mountPoints, mountIdCounter, mountPoint)
           exact == AllExact(registry, nodeStorages, mountPoints)
<1>1. /\ TableSound(table, S) /\ table.mountPoints = mountPoints
      /\ table.nodeStorages = nodeStorages /\ table.ok = TRUE
      /\ table.registry.volumes = registry.volumes \union {v}
      /\ \A s \in table.registry.registered : s \in registry.registered \/ s.volume = v
      /\ NodeSound(node) /\ node.volume = v /\ node.nodePath = options.nodePath
      /\ exact => TableExact(table, S)
      /\ NoLeak(registry) => NoLeak(table.registry)
  BY AcquiredTable
<1>2. entries \in Seq(OfVolume(mountPoints, v))
  BY RemountEntriesType
<1>3. /\ path \in Path /\ path # <<>> /\ priority \in Int
      /\ mountIdCounter \in Nat /\ DOMAIN mountPoints \subseteq 1..(mountIdCounter - 1)
  BY OptionFields DEF Typed
<1> HIDE DEF acquired, table, entries, path, priority, exact, v
<1>4. Redone(table, remounted, S, v)
  BY <1>1, <1>2, RemountAllFacts DEF OfVolume
<1> HIDE DEF remounted
<1>5. AnyBad(table.registry, mountPoints, v) => AnyBad(registry, mountPoints, v)
  BY <1>1 DEF AnyBad, BadKeys
<1>6. /\ TableSound(remounted, S)
      /\ remounted.registry.volumes = registry.volumes \union {v}
      /\ DOMAIN nodeStorages \subseteq DOMAIN remounted.nodeStorages
      /\ DOMAIN remounted.mountPoints = DOMAIN mountPoints
      /\ NoLeak(registry) => NoLeak(remounted.registry)
      /\ exact => TableExact(remounted, S) /\ (remounted.ok \/ AnyBad(registry, mountPoints, v))
  BY <1>1, <1>4, <1>5 DEF Redone, SameMounts
<1>7. mountIdCounter \notin DOMAIN remounted.mountPoints
  BY <1>3, <1>6
<1>8. node.volume \in remounted.registry.volumes
  BY <1>1, <1>6
<1> HIDE DEF node
<1>9. /\ NodesSound(listed)
      /\ DOMAIN remounted.nodeStorages \subseteq DOMAIN listed /\ path \in DOMAIN listed
      /\ MountsSound(remounted.registry, listed, mounts)
      /\ Covered(remounted.registry, listed, {}) /\ Alive(remounted.registry, listed, {})
      /\ TableExact(remounted, S) => AllExact(remounted.registry, listed, mounts)
  BY <1>1, <1>3, <1>6, <1>7, <1>8, CompletionFacts
<1> HIDE DEF listed, mounts, S
<1>10. RegistryTyped(remounted.registry) /\ DOMAIN nodeStorages \subseteq DOMAIN listed
  BY <1>6, <1>9 DEF TableSound
<1>11. exact => /\ AllExact(remounted.registry, listed, mounts)
                /\ remounted.ok \/ AnyBad(registry, mountPoints, v)
  BY <1>6, <1>9
<1> QED
  BY <1>6, <1>9, <1>10, <1>11, Zenon
     DEF acquired, node, table, entries, path, priority, exact, remounted, listed, mounts, S, v

(***************************************************************************)
(* A mount() that an exception leaves in the middle of a re-mount.         *)
(***************************************************************************)
LEMMA ThrownRemountFacts ==
  ASSUME Typed, Covered(registry, nodeStorages, {}), Alive(registry, nodeStorages, {}),
         NEW options \in MountOptions, NEW order \in IterationOrders,
         NEW k \in DOMAIN RemountEntries(options, order), NEW reg
  PROVE  LET acquired == acquireStorage(registry, options.volume, options.nodePath)
             entries == RemountEntries(options, order)
             before == RemountAll(TableAfter(acquired.registry), SubSeq(entries, 1, k - 1))
             mountPoint == before.mountPoints[entries[k]]
             unmounted == UnmountSubtree(before, mountPoint.node, mountPoint.storageNode)
         IN /\ CanUnmountSubtree(before, mountPoint.node, mountPoint.storageNode)
            /\ reg \in ThrownAcquisitions(unmounted.registry, mountPoint.storageNode.volume,
                                          mountPoint.storageNode.nodePath)
            => /\ RegistryTyped(reg) /\ NodesSound(unmounted.nodeStorages)
               /\ DOMAIN unmounted.mountPoints = DOMAIN mountPoints
               /\ DOMAIN nodeStorages \subseteq DOMAIN unmounted.nodeStorages
               /\ MountsSound(reg, unmounted.nodeStorages, unmounted.mountPoints)
               /\ Covered(reg, unmounted.nodeStorages, {}) /\ Alive(reg, unmounted.nodeStorages, {})
<1> DEFINE acquired == acquireStorage(registry, options.volume, options.nodePath)
           S == StoragesOf(acquired.storageNode)
           table == TableAfter(acquired.registry)
           entries == RemountEntries(options, order)
           done == SubSeq(entries, 1, k - 1)
           id == entries[k]
           before == RemountAll(table, done)
           mountPoint == before.mountPoints[id]
           v == mountPoint.storageNode.volume
           path == mountPoint.storageNode.nodePath
           unmounted == UnmountSubtree(before, mountPoint.node, mountPoint.storageNode)
           possible == CanUnmountSubtree(before, mountPoint.node, mountPoint.storageNode)
           thrown == reg \in ThrownAcquisitions(unmounted.registry, v, path)
<1>1. /\ TableSound(table, S) /\ table.mountPoints = mountPoints
      /\ table.nodeStorages = nodeStorages
  BY AcquiredTable
<1>2. entries \in Seq(OfVolume(mountPoints, options.volume))
  BY RemountEntriesType
<1>3. done \in Seq(OfVolume(mountPoints, options.volume)) /\ id \in DOMAIN mountPoints
  <2> HIDE DEF entries
  <2>1. k \in 1..Len(entries) /\ Len(entries) \in Nat
    BY <1>2 DEF entries
  <2>2. \A i \in 1..(k - 1) : entries[i] \in OfVolume(mountPoints, options.volume)
    BY <1>2, <2>1
  <2> QED
    BY <1>2, <2>1, <2>2, SubSeqProperties DEF OfVolume
<1> HIDE DEF acquired, S, table, entries, done, id
<1>4. Redone(table, before, S, options.volume)
  BY <1>1, <1>3, RemountAllFacts DEF OfVolume
<1> HIDE DEF before
<1>5. /\ TableSound(before, S) /\ id \in DOMAIN before.mountPoints
      /\ DOMAIN before.mountPoints = DOMAIN mountPoints
      /\ DOMAIN nodeStorages \subseteq DOMAIN before.nodeStorages
  BY <1>1, <1>3, <1>4 DEF Redone, SameMounts
<1>6. v \in Volumes /\ path \in Path /\ path # <<>>
  <2>1. mountPoint \in MountPoint
    BY <1>5 DEF TableSound, MountsSound
  <2> QED
    BY <2>1, MountPointFields
<1>7. ASSUME possible, thrown
      PROVE  /\ RegistryTyped(reg) /\ NodesSound(unmounted.nodeStorages)
             /\ DOMAIN unmounted.mountPoints = DOMAIN mountPoints
             /\ DOMAIN nodeStorages \subseteq DOMAIN unmounted.nodeStorages
             /\ MountsSound(reg, unmounted.nodeStorages, unmounted.mountPoints)
             /\ Covered(reg, unmounted.nodeStorages, {}) /\ Alive(reg, unmounted.nodeStorages, {})
  <2>1. /\ TableSound(unmounted, S)
        /\ DOMAIN unmounted.nodeStorages = DOMAIN before.nodeStorages
        /\ unmounted.mountPoints = before.mountPoints
    BY <1>5, <1>7, UnmountFacts
  <2> HIDE DEF unmounted, v, path
  <2>2. /\ RegistryTyped(reg) /\ reg.volumes = unmounted.registry.volumes \union {v}
        /\ reg.counters = unmounted.registry.counters
        /\ unmounted.registry.loaded \subseteq reg.loaded
    BY <1>6, <1>7, <2>1, ThrownFacts DEF TableSound
  <2>3. MountsSound(reg, unmounted.nodeStorages, unmounted.mountPoints)
    BY <2>1, <2>2 DEF TableSound, MountsSound
  <2>4. Covered(reg, unmounted.nodeStorages, {})
    <3> SUFFICES ASSUME NEW key
                 PROVE  /\ IsFiniteSet(Places(unmounted.nodeStorages, Alike(key)))
                        /\ Cardinality(Places(unmounted.nodeStorages, Alike(key)))
                             + (IF key \in KeysOf({}) THEN 1 ELSE 0) <= CountOf(reg.counters, key)
      BY DEF Covered
    <3> DEFINE P == Places(unmounted.nodeStorages, Alike(key))
    <3>1. /\ IsFiniteSet(P)
          /\ Cardinality(P) + (IF key \in KeysOf(S) THEN 1 ELSE 0) <= CountOf(reg.counters, key)
      BY <2>1, <2>2 DEF TableSound, Covered
    <3>2. Cardinality(P) \in Nat /\ CountOf(reg.counters, key) \in Nat
      BY <2>2, <3>1, FS_CardinalityType, CountNat
    <3>3. KeysOf({}) = {}
      BY DEF KeysOf
    <3> HIDE DEF P
    <3>4. Cardinality(P) + 0 <= CountOf(reg.counters, key)
      BY <3>1, <3>2
    <3> QED
      BY <3>1, <3>2, <3>3, <3>4 DEF P
  <2>5. Alive(reg, unmounted.nodeStorages, {})
    <3>1. Alive(unmounted.registry, unmounted.nodeStorages, S)
      BY <2>1 DEF TableSound
    <3> QED
      BY <2>2, <3>1 DEF Alive
  <2> QED
    BY <1>5, <2>1, <2>2, <2>3, <2>4, <2>5 DEF TableSound
<1> HIDE DEF unmounted, v, path, possible, thrown
<1>8. possible /\ thrown
        => /\ RegistryTyped(reg) /\ NodesSound(unmounted.nodeStorages)
           /\ DOMAIN unmounted.mountPoints = DOMAIN mountPoints
           /\ DOMAIN nodeStorages \subseteq DOMAIN unmounted.nodeStorages
           /\ MountsSound(reg, unmounted.nodeStorages, unmounted.mountPoints)
           /\ Covered(reg, unmounted.nodeStorages, {}) /\ Alive(reg, unmounted.nodeStorages, {})
  BY <1>7
<1> QED
  BY <1>8, Zenon
     DEF acquired, table, entries, done, id, before, mountPoint, v, path, unmounted, possible, thrown

-----------------------------------------------------------------------------
(***************************************************************************)
(* The table of a started process.                                         *)
(***************************************************************************)
LEMMA StartedFacts ==
  ASSUME NEW files \in [Volumes -> SUBSET Path]
  PROVE  LET reg == StartedRegistry(files)
             storages == [n \in {<<>>} |-> <<>>]
             mounts == [id \in {} |-> {}]
         IN /\ RegistryTyped(reg) /\ NodesSound(storages) /\ MountsSound(reg, storages, mounts)
            /\ [v \in Volumes |-> <<>>] \in [Volumes -> Seq(DOMAIN storages)]
            /\ Covered(reg, storages, {})
            /\ AllExact(reg, storages, mounts)
            /\ NoLeak(reg) /\ Alive(reg, storages, {})
<1> DEFINE reg == StartedRegistry(files)
           storages == [n \in {<<>>} |-> <<>>]
           mounts == [id \in {} |-> {}]
           lists == [v \in Volumes |-> <<>>]
<1>1. RegistryTyped(reg)
  <2>1. KeysOf(reg.registered) = {} /\ DOMAIN reg.counters = {} /\ reg.registered = {}
    BY DEF StartedRegistry, KeysOf
  <2> QED
    BY <2>1 DEF RegistryTyped, Registries, OneEach, StartedRegistry
<1>2. reg.loaded = {} /\ DOMAIN reg.counters = {} /\ DOMAIN mounts = {}
  BY DEF StartedRegistry
<1>3. <<>> \in Path /\ <<>> \in Seq(Entry) /\ Len(<<>>) = 0
  BY EmptySeq DEF Path
<1>4. NodesSound(storages)
  BY <1>3 DEF NodesSound, Sorted
<1>5. MountsSound(reg, storages, mounts)
  BY FS_EmptySet DEF MountsSound
<1>6. lists \in [Volumes -> Seq(DOMAIN storages)]
  <2>1. <<>> \in Seq(DOMAIN storages)
    BY EmptySeq
  <2> QED
    BY <2>1
<1>7. \A n : EntriesAt(storages, n) = <<>>
  BY DEF EntriesAt
<1> HIDE DEF reg, storages, mounts
<1>8. \A n, X : Positions(EntriesAt(storages, n), X) = {}
  BY <1>3, <1>7 DEF Positions
<1>9. Covered(reg, storages, {})
  <2> SUFFICES ASSUME NEW key
               PROVE  /\ IsFiniteSet(Places(storages, Alike(key)))
                      /\ Cardinality(Places(storages, Alike(key))) + (IF key \in KeysOf({}) THEN 1 ELSE 0)
                           <= CountOf(reg.counters, key)
    BY DEF Covered
  <2>1. PlacesAt(storages, Alike(key)) = [n \in Path |-> {}]
    BY <1>8 DEF PlacesAt
  <2>2. Places(storages, Alike(key)) = {}
    BY <2>1 DEF Places, Pairs
  <2>3. CountOf(reg.counters, key) = 0 /\ key \notin KeysOf({})
    BY <1>2 DEF CountOf, KeysOf
  <2> QED
    BY <2>2, <2>3, FS_EmptySet
<1>10. AllExact(reg, storages, mounts)
  <2>1. \A key : Reaching(mounts, key) = {}
    BY <1>2 DEF Reaching
  <2>2. \A n, x : Bringing(mounts, n, x) = {}
    BY <1>2 DEF Bringing
  <2>3. \A n, x, p : BringingFrom(mounts, n, x, p) = {}
    BY <2>2 DEF BringingFrom
  <2>4. Cardinality({}) = 0
    BY FS_EmptySet
  <2>5. CountsExact(reg, mounts, {})
    <3> SUFFICES ASSUME NEW key
                 PROVE  CountOf(reg.counters, key)
                          = Cardinality(Reaching(mounts, key)) + IF key \in KeysOf({}) THEN 1 ELSE 0
      BY DEF CountsExact
    <3>1. CountOf(reg.counters, key) = 0 /\ key \notin KeysOf({})
      BY <1>2 DEF CountOf, KeysOf
    <3>2. Cardinality(Reaching(mounts, key)) = 0
      BY <2>1, <2>4
    <3> QED
      BY <3>1, <3>2
  <2>6. EntriesExact(storages, mounts)
    BY <1>8, <2>2, <2>4 DEF EntriesExact, CountIn
  <2>7. NoneGained(storages, mounts)
    BY <1>8, <2>3, <2>4 DEF NoneGained, CountIn
  <2> QED
    BY <2>5, <2>6, <2>7 DEF AllExact
<1>11. NoLeak(reg) /\ Alive(reg, storages, {})
  <2>1. \A n, x : ~Lists(storages, n, x)
    BY <1>8, FS_EmptySet DEF Lists, CountIn
  <2> QED
    BY <1>2, <2>1 DEF NoLeak, Alive
<1> QED
  BY <1>1, <1>4, <1>5, <1>6, <1>9, <1>10, <1>11 DEF reg, storages, mounts

(***************************************************************************)

(***************************************************************************)
(* A failed assertion of a re-mount or an unmount has its reason.          *)
(***************************************************************************)
BadMount(reg, mountPoint) ==
  LET root == Storage(mountPoint.storageNode.volume, mountPoint.storageNode.nodePath)
  IN \/ UnloadTarget(root) # root
     \/ \E s \in reg.registered : s.volume # root.volume /\ IsPrefix(Key(root), Key(s))

\* A mount of the volume with bad keys is one of the live mounts.
LEMMA BadMounts ==
  ASSUME NEW v, AnyBad(registry, mountPoints, v)
  PROVE  \E id \in DOMAIN mountPoints : BadMount(registry, mountPoints[id])
BY DEF AnyBad, BadKeys, BadMount, Storage

\* A bad mount is a reason for an assertion to fail.
LEMMA ReasonGiven ==
  ASSUME failure' = "assertion", UNCHANGED <<registry, mountPoints>>,
         NEW id \in DOMAIN mountPoints, BadMount(registry, mountPoints[id])
  PROVE  AssertionsHold'
<1>1. \E i \in DOMAIN mountPoints' : BadMount(registry', mountPoints'[i])
  OBVIOUS
<1> QED
  BY <1>1, Zenon DEF AssertionsHold, Root, BadMount

-----------------------------------------------------------------------------
(***************************************************************************)
(* Each step keeps the invariant.  A mount() to its end, or to a failed    *)
(* assertion of a re-mount:                                                *)
(***************************************************************************)
LEMMA MountStep ==
  ASSUME IInv, NEW options \in MountOptions, Mount(options)
  PROVE  IInv'
<1>1. PICK order \in IterationOrders :
        LET acquired == acquireStorage(registry, options.volume, options.nodePath)
            remounted == RemountAll(TableAfter(acquired.registry), RemountEntries(options, order))
            withPath == createNodesForPath(remounted.nodeStorages, options.mountPath)
        IN IF ~remounted.ok
           THEN /\ failure' = "assertion"
                /\ UNCHANGED <<registry, nodeStorages, mountPoints, volumeNodes, mountIdCounter>>
           ELSE /\ registry' = remounted.registry
                /\ nodeStorages' = MountSubtree(withPath, options.mountPath,
                                                acquired.storageNode, options.priority)
                /\ mountPoints' =
                     [id \in DOMAIN mountPoints \union {mountIdCounter} |->
                        IF id = mountIdCounter
                        THEN [node |-> options.mountPath, storageNode |-> acquired.storageNode,
                              priority |-> options.priority]
                        ELSE remounted.mountPoints[id]]
                /\ volumeNodes' = [volumeNodes EXCEPT ![options.volume] =
                                     Append(@, options.mountPath)]
                /\ mountIdCounter' = mountIdCounter + 1
                /\ UNCHANGED failure
  BY Zenon DEF Mount
<1>2. failure = "none" /\ throws' = throws
  BY DEF Mount, CanMount
<1> DEFINE acquired == acquireStorage(registry, options.volume, options.nodePath)
           remounted == RemountAll(TableAfter(acquired.registry), RemountEntries(options, order))
           withPath == createNodesForPath(remounted.nodeStorages, options.mountPath)
           listed == MountSubtree(withPath, options.mountPath, acquired.storageNode,
                                  options.priority)
           mounts == WithMount(remounted.mountPoints, mountIdCounter,
                       [node |-> options.mountPath, storageNode |-> acquired.storageNode,
                        priority |-> options.priority])
           exact == AllExact(registry, nodeStorages, mountPoints)
<1>3. Typed /\ Accounts
  BY DEF IInv
<1>4. /\ RegistryTyped(remounted.registry) /\ NodesSound(listed)
      /\ DOMAIN remounted.mountPoints = DOMAIN mountPoints
      /\ DOMAIN nodeStorages \subseteq DOMAIN listed /\ options.mountPath \in DOMAIN listed
      /\ MountsSound(remounted.registry, listed, mounts)
      /\ Covered(remounted.registry, listed, {}) /\ Alive(remounted.registry, listed, {})
      /\ exact => /\ AllExact(remounted.registry, listed, mounts)
                  /\ remounted.ok \/ AnyBad(registry, mountPoints, options.volume)
      /\ NoLeak(registry) => NoLeak(remounted.registry)
  <2>1. Covered(registry, nodeStorages, {}) /\ Alive(registry, nodeStorages, {})
    BY <1>3 DEF Accounts
  <2> QED
    BY <1>3, <2>1, MountFacts, Zenon
<1>5. ~InterruptedRemount => exact
  BY <1>3 DEF Accounts
<1>6. InterruptedRemount' <=> InterruptedRemount
  BY <1>2 DEF InterruptedRemount
<1>7. CASE ~remounted.ok
  <2>1. /\ failure' = "assertion"
        /\ UNCHANGED <<registry, nodeStorages, mountPoints, volumeNodes, mountIdCounter>>
    BY <1>1, <1>7, Zenon
  <2>2. Typed' /\ Accounts'
    BY <1>2, <1>3, <1>6, <2>1 DEF Typed, Accounts
  <2>3. ASSUME ~InterruptedRemount PROVE AnyBad(registry, mountPoints, options.volume)
    BY <1>4, <1>5, <1>7, <2>3
  <2>4. AssertionsHold'
    <3>1. CASE InterruptedRemount
      BY <1>6, <3>1 DEF AssertionsHold
    <3>2. CASE ~InterruptedRemount
      <4>1. \E id \in DOMAIN mountPoints : BadMount(registry, mountPoints[id])
        BY <2>3, <3>2, BadMounts
      <4> QED
        BY <2>1, <4>1, ReasonGiven
    <3> QED
      BY <3>1, <3>2
  <2> QED
    BY <2>2, <2>4 DEF IInv
<1>8. CASE remounted.ok
  <2>1. /\ registry' = remounted.registry /\ nodeStorages' = listed
        /\ mountPoints' =
             [id \in DOMAIN mountPoints \union {mountIdCounter} |->
                IF id = mountIdCounter
                THEN [node |-> options.mountPath, storageNode |-> acquired.storageNode,
                      priority |-> options.priority]
                ELSE remounted.mountPoints[id]]
        /\ volumeNodes' = [volumeNodes EXCEPT ![options.volume] = Append(@, options.mountPath)]
        /\ mountIdCounter' = mountIdCounter + 1
        /\ failure' = failure
    BY <1>1, <1>8, Zenon
  <2>2. mountPoints' = mounts
    BY <1>4, <2>1 DEF WithMount
  <2>3. DOMAIN mounts = DOMAIN mountPoints \union {mountIdCounter}
    BY <1>4 DEF WithMount
  <2> HIDE DEF acquired, remounted, withPath, listed, mounts
  <2>4. mountIdCounter' \in Nat \ {0} /\ DOMAIN mountPoints' \subseteq 1..(mountIdCounter' - 1)
    <3>1. mountIdCounter \in Nat \ {0} /\ DOMAIN mountPoints \subseteq 1..(mountIdCounter - 1)
      BY <1>3 DEF Typed
    <3> QED
      BY <2>1, <2>2, <2>3, <3>1
  <2>5. volumeNodes' \in [Volumes -> Seq(DOMAIN nodeStorages')]
    <3>1. volumeNodes \in [Volumes -> Seq(DOMAIN nodeStorages)]
      BY <1>3 DEF Typed
    <3> DEFINE D == DOMAIN nodeStorages
               E == DOMAIN listed
    <3>2. D \subseteq E /\ options.mountPath \in E
      BY <1>4
    <3> HIDE DEF D, E
    <3>3. Seq(D) \subseteq Seq(E)
      BY <3>2
    <3>4. \A q \in Seq(E) : Append(q, options.mountPath) \in Seq(E)
      BY <3>2, AppendProperties
    <3>5. volumeNodes \in [Volumes -> Seq(E)]
      BY <3>1, <3>3 DEF D
    <3>6. volumeNodes' \in [Volumes -> Seq(E)]
      <4> HIDE DEF D, E
      <4> QED
        BY <2>1, <3>4, <3>5
    <3> QED
      BY <2>1, <3>6 DEF E
  <2>6. Typed'
    BY <1>2, <1>3, <1>4, <2>1, <2>2, <2>4, <2>5 DEF Typed
  <2>7. Accounts'
    BY <1>2, <1>3, <1>4, <1>5, <1>6, <2>1, <2>2, Zenon DEF Accounts
  <2>8. AssertionsHold'
    BY <1>2, <2>1 DEF AssertionsHold
  <2> QED
    BY <2>6, <2>7, <2>8 DEF IInv
<1> QED
  BY <1>7, <1>8

(***************************************************************************)
(* Exceptions that leave mount().                                          *)
(***************************************************************************)
LEMMA MountThrowsAtAcquireStep ==
  ASSUME IInv, NEW options \in MountOptions, MountThrowsAtAcquire(options)
  PROVE  IInv'
<1>1. /\ failure = "none" /\ throws' = [throws EXCEPT !["acquire"] = @ + 1]
      /\ registry' \in ThrownAcquisitions(registry, options.volume, options.nodePath)
      /\ UNCHANGED <<nodeStorages, mountPoints, volumeNodes, mountIdCounter, failure>>
  BY DEF MountThrowsAtAcquire, CanMount
<1>2. Typed /\ Accounts
  BY DEF IInv
<1>3. /\ RegistryTyped(registry') /\ registry'.volumes = registry.volumes \union {options.volume}
      /\ registry'.counters = registry.counters /\ registry.loaded \subseteq registry'.loaded
      /\ registry'.registered = registry.registered
  BY <1>1, <1>2, OptionFields, ThrownFacts DEF Typed
<1>4. /\ throws' \in [{"acquire", "remount"} -> Nat] /\ throws'["acquire"] # 0
      /\ throws'["remount"] = throws["remount"]
  BY <1>1, <1>2 DEF Typed
<1>5. Typed'
  BY <1>1, <1>2, <1>3, <1>4 DEF Typed, MountsSound
<1>6. Accounts'
  BY <1>1, <1>2, <1>3, <1>4 DEF Accounts, AllExact, Covered, Alive, CountsExact, InterruptedRemount
<1>7. AssertionsHold'
  BY <1>1 DEF AssertionsHold
<1> QED
  BY <1>5, <1>6, <1>7 DEF IInv

\* A mount() that throws in the middle of a re-mount.
LEMMA MountThrowsAtRemountStep ==
  ASSUME IInv, NEW options \in MountOptions, MountThrowsAtRemount(options)
  PROVE  IInv'
<1>1. /\ failure = "none" /\ throws' = [throws EXCEPT !["remount"] = @ + 1]
      /\ UNCHANGED <<volumeNodes, mountIdCounter, failure>>
  BY DEF MountThrowsAtRemount, CanMount
<1>2. Typed /\ Covered(registry, nodeStorages, {}) /\ Alive(registry, nodeStorages, {})
  BY DEF IInv, Accounts
<1>3. PICK order \in IterationOrders :
        LET acquired == acquireStorage(registry, options.volume, options.nodePath)
            entries == RemountEntries(options, order)
        IN \E k \in DOMAIN entries :
             LET before == RemountAll(TableAfter(acquired.registry), SubSeq(entries, 1, k - 1))
                 mountPoint == before.mountPoints[entries[k]]
                 unmounted == UnmountSubtree(before, mountPoint.node, mountPoint.storageNode)
             IN /\ before.ok
                /\ CanUnmountSubtree(before, mountPoint.node, mountPoint.storageNode)
                /\ registry' \in ThrownAcquisitions(unmounted.registry,
                      mountPoint.storageNode.volume, mountPoint.storageNode.nodePath)
                /\ nodeStorages' = unmounted.nodeStorages
                /\ mountPoints' = unmounted.mountPoints
  BY Zenon DEF MountThrowsAtRemount
<1> DEFINE acquired == acquireStorage(registry, options.volume, options.nodePath)
           entries == RemountEntries(options, order)
<1>4. PICK k \in DOMAIN entries :
        LET before == RemountAll(TableAfter(acquired.registry), SubSeq(entries, 1, k - 1))
            mountPoint == before.mountPoints[entries[k]]
            unmounted == UnmountSubtree(before, mountPoint.node, mountPoint.storageNode)
        IN /\ CanUnmountSubtree(before, mountPoint.node, mountPoint.storageNode)
           /\ registry' \in ThrownAcquisitions(unmounted.registry,
                 mountPoint.storageNode.volume, mountPoint.storageNode.nodePath)
           /\ nodeStorages' = unmounted.nodeStorages
           /\ mountPoints' = unmounted.mountPoints
  BY <1>3, Zenon
<1>5. /\ RegistryTyped(registry') /\ NodesSound(nodeStorages')
      /\ DOMAIN mountPoints' = DOMAIN mountPoints
      /\ DOMAIN nodeStorages \subseteq DOMAIN nodeStorages'
      /\ MountsSound(registry', nodeStorages', mountPoints')
      /\ Covered(registry', nodeStorages', {}) /\ Alive(registry', nodeStorages', {})
  BY <1>2, <1>4, ThrownRemountFacts, ZenonT(40)
<1>6. throws' \in [{"acquire", "remount"} -> Nat] /\ throws'["remount"] > 0
  BY <1>1, <1>2 DEF Typed
<1>7. volumeNodes' \in [Volumes -> Seq(DOMAIN nodeStorages')]
  <2> DEFINE D == DOMAIN nodeStorages
             E == DOMAIN nodeStorages'
  <2>1. D \subseteq E /\ volumeNodes \in [Volumes -> Seq(D)] /\ volumeNodes' = volumeNodes
    BY <1>1, <1>2, <1>5 DEF Typed
  <2> HIDE DEF D, E
  <2>2. Seq(D) \subseteq Seq(E)
    BY <2>1
  <2>3. volumeNodes' \in [Volumes -> Seq(E)]
    BY <2>1, <2>2
  <2> QED
    BY <2>3 DEF E
<1>8. Typed'
  BY <1>1, <1>2, <1>5, <1>6, <1>7 DEF Typed
<1>9. Accounts'
  BY <1>5, <1>6 DEF Accounts, InterruptedRemount
<1>10. AssertionsHold'
  BY <1>1 DEF AssertionsHold
<1> QED
  BY <1>8, <1>9, <1>10 DEF IInv

(***************************************************************************)
(* A mount of a volume whose file cannot be opened.                        *)
(***************************************************************************)
LEMMA MountUnopenedVolumeStep ==
  ASSUME IInv, NEW options \in MountOptions, MountUnopenedVolume(options)
  PROVE  IInv'
<1>1. /\ failure' \in {"none", "badAccess"}
      /\ UNCHANGED <<registry, nodeStorages, mountPoints, volumeNodes, mountIdCounter, throws>>
  BY DEF MountUnopenedVolume
<1> QED
  BY <1>1 DEF IInv, Typed, Accounts, AssertionsHold, InterruptedRemount, Root

(***************************************************************************)
(* An unmount().                                                           *)
(***************************************************************************)
LEMMA UnmountStep ==
  ASSUME IInv, NEW id \in DOMAIN mountPoints, Unmount(id)
  PROVE  IInv'
<1> DEFINE table == TableAfter(registry)
           mountPoint == mountPoints[id]
           unmounted == UnmountSubtree(table, mountPoint.node, mountPoint.storageNode)
           possible == CanUnmountSubtree(table, mountPoint.node, mountPoint.storageNode)
           less == [i \in DOMAIN mountPoints \ {id} |-> mountPoints[i]]
           exact == AllExact(registry, nodeStorages, mountPoints)
<1>1. failure = "none" /\ UNCHANGED <<volumeNodes, mountIdCounter, throws>>
  BY DEF Unmount
<1>2. IF possible
      THEN /\ registry' = unmounted.registry
           /\ nodeStorages' = unmounted.nodeStorages
           /\ mountPoints' = Restrict(mountPoints, DOMAIN mountPoints \ {id})
           /\ UNCHANGED failure
      ELSE /\ failure' = "assertion"
           /\ UNCHANGED <<registry, nodeStorages, mountPoints>>
  BY Zenon DEF Unmount
<1>3. Typed /\ Accounts
  BY DEF IInv
<1>4. /\ table.registry = registry /\ table.nodeStorages = nodeStorages
      /\ table.mountPoints = mountPoints /\ IsTable(table)
  BY TableAfterFields
<1>5. TableSound(table, {}) /\ (exact => TableExact(table, {}))
  <2> HIDE DEF table
  <2> QED
    BY <1>3, <1>4 DEF TableSound, TableExact, AllExact, Typed, Accounts
<1>6. ~InterruptedRemount => exact
  BY <1>3 DEF Accounts
<1>7. InterruptedRemount' <=> InterruptedRemount
  BY <1>1 DEF InterruptedRemount
<1>8. CASE possible
  <2>1. /\ registry' = unmounted.registry /\ nodeStorages' = unmounted.nodeStorages
        /\ mountPoints' = less /\ failure' = failure
    BY <1>2, <1>8, Zenon DEF Restrict
  <2>2. /\ TableSound(unmounted, {})
        /\ DOMAIN unmounted.nodeStorages = DOMAIN nodeStorages
        /\ unmounted.mountPoints = mountPoints
        /\ NoLeak(registry) => NoLeak(unmounted.registry)
        /\ exact => AllExact(unmounted.registry, unmounted.nodeStorages, less)
    <3> HIDE DEF table, exact
    <3>1. /\ TableSound(table, {}) /\ id \in DOMAIN table.mountPoints
          /\ CanUnmountSubtree(table, table.mountPoints[id].node, table.mountPoints[id].storageNode)
      BY <1>4, <1>5, <1>8
    <3>2. unmounted = UnmountSubtree(table, table.mountPoints[id].node,
                                     table.mountPoints[id].storageNode)
          /\ less = [i \in DOMAIN table.mountPoints \ {id} |-> table.mountPoints[i]]
      BY <1>4
    <3> HIDE DEF unmounted, less
    <3>3. /\ TableSound(unmounted, {})
          /\ DOMAIN unmounted.nodeStorages = DOMAIN table.nodeStorages
          /\ unmounted.mountPoints = table.mountPoints
          /\ NoLeak(table.registry) => NoLeak(unmounted.registry)
          /\ TableExact(table, {}) => AllExact(unmounted.registry, unmounted.nodeStorages, less)
      BY <3>1, <3>2, UnmountFacts DEF AllExact
    <3> QED
      BY <1>4, <1>5, <3>3
  <2> HIDE DEF unmounted, less, table, exact, possible
  <2>3. /\ DOMAIN less = DOMAIN mountPoints \ {id}
        /\ \A i \in DOMAIN less : less[i] = mountPoints[i]
    BY DEF less
  <2>4. MountsSound(unmounted.registry, unmounted.nodeStorages, less)
    <3>1. MountsSound(unmounted.registry, unmounted.nodeStorages, mountPoints)
      BY <2>2 DEF TableSound
    <3>2. IsFiniteSet(DOMAIN less) /\ less \in [DOMAIN less -> MountPoint]
      <4>1. IsFiniteSet(DOMAIN mountPoints) /\ mountPoints \in [DOMAIN mountPoints -> MountPoint]
        BY <3>1 DEF MountsSound
      <4>2. less \in [DOMAIN less -> MountPoint]
        BY <4>1 DEF less
      <4> QED
        BY <2>3, <4>1, <4>2, FS_Subset
    <3> QED
      BY <2>3, <3>1, <3>2 DEF MountsSound
  <2>5. Typed'
    BY <1>1, <1>3, <2>1, <2>2, <2>3, <2>4 DEF Typed, TableSound
  <2>6. Accounts'
    BY <1>1, <1>3, <1>6, <1>7, <2>1, <2>2 DEF Accounts, TableSound
  <2>7. AssertionsHold'
    BY <1>1, <2>1 DEF AssertionsHold
  <2> QED
    BY <2>5, <2>6, <2>7 DEF IInv
<1>9. CASE ~possible
  <2>1. failure' = "assertion" /\ UNCHANGED <<registry, nodeStorages, mountPoints>>
    BY <1>2, <1>9, Zenon
  <2>2. Typed' /\ Accounts'
    BY <1>1, <1>3, <1>7, <2>1 DEF Typed, Accounts
  <2>3. ASSUME ~InterruptedRemount PROVE BadMount(registry, mountPoints[id])
    <3>1. TableExact(table, {})
      BY <1>5, <1>6, <2>3
    <3> DEFINE v == mountPoint.storageNode.volume
               path == mountPoint.storageNode.nodePath
    <3>2. BadKeys(registry, v, path)
      <4> HIDE DEF table
      <4>1. /\ id \in DOMAIN table.mountPoints
            /\ ~CanUnmountSubtree(table, table.mountPoints[id].node,
                                  table.mountPoints[id].storageNode)
        BY <1>4, <1>9
      <4> QED
        BY <1>4, <1>5, <3>1, <4>1, ExactCanUnmount
    <3> QED
      BY <3>2 DEF BadKeys, BadMount, Storage
  <2>4. AssertionsHold'
    <3>1. CASE InterruptedRemount
      BY <1>7, <3>1 DEF AssertionsHold
    <3>2. CASE ~InterruptedRemount
      BY <2>1, <2>3, <3>2, ReasonGiven
    <3> QED
      BY <3>1, <3>2
  <2> QED
    BY <2>2, <2>4 DEF IInv
<1> QED
  BY <1>8, <1>9

(***************************************************************************)
(* The start of a process, and its restart.                                *)
(***************************************************************************)
LEMMA InitStep == Init => IInv
<1> SUFFICES ASSUME Init PROVE IInv
  OBVIOUS
<1> DEFINE files == [v \in Volumes |-> {}]
<1>1. /\ registry = StartedRegistry(files) /\ nodeStorages = [n \in {<<>>} |-> <<>>]
      /\ mountPoints = [id \in {} |-> {}] /\ volumeNodes = [v \in Volumes |-> <<>>]
      /\ mountIdCounter = 1 /\ failure = "none"
      /\ throws = [place \in DOMAIN MaxThrows |-> 0]
  BY DEF Init, StartedTable
<1>2. files \in [Volumes -> SUBSET Path]
  OBVIOUS
<1>3. throws \in [{"acquire", "remount"} -> Nat]
  BY <1>1, BoundsAssumption
<1> HIDE DEF files
<1>4. Typed /\ Accounts
  <2>1. DOMAIN mountPoints = {}
    BY <1>1
  <2> QED
    BY <1>1, <1>2, <1>3, <2>1, StartedFacts DEF Typed, Accounts
<1> QED
  BY <1>1, <1>4 DEF IInv, AssertionsHold

\* A process that starts again.
LEMMA RestartStep ==
  ASSUME IInv, Restart
  PROVE  IInv'
<1>1. /\ registry' = StartedRegistry(registry.files) /\ nodeStorages' = [n \in {<<>>} |-> <<>>]
      /\ mountPoints' = [id \in {} |-> {}] /\ volumeNodes' = [v \in Volumes |-> <<>>]
      /\ mountIdCounter' = 1 /\ failure' = "none" /\ throws' = throws
  BY DEF Restart
<1>2. registry.files \in [Volumes -> SUBSET Path] /\ throws \in [{"acquire", "remount"} -> Nat]
  BY DEF IInv, Typed, RegistryTyped, Registries
<1>3. Typed' /\ Accounts'
  <2>1. DOMAIN mountPoints' = {}
    BY <1>1
  <2> QED
    BY <1>1, <1>2, <2>1, StartedFacts DEF Typed, Accounts
<1> QED
  BY <1>1, <1>3 DEF IInv, AssertionsHold

(***************************************************************************)
(* All steps together.                                                     *)
(***************************************************************************)
LEMMA NextStep ==
  ASSUME IInv, [Next]_vars
  PROVE  IInv'
<1>1. ASSUME NEW options \in MountOptions, Mount(options) PROVE IInv'
  BY <1>1, MountStep
<1>2. ASSUME NEW options \in MountOptions, MountThrowsAtAcquire(options) PROVE IInv'
  BY <1>2, MountThrowsAtAcquireStep
<1>3. ASSUME NEW options \in MountOptions, MountThrowsAtRemount(options) PROVE IInv'
  BY <1>3, MountThrowsAtRemountStep
<1>4. ASSUME NEW options \in MountOptions, MountUnopenedVolume(options) PROVE IInv'
  BY <1>4, MountUnopenedVolumeStep
<1>5. ASSUME NEW id \in DOMAIN mountPoints, Unmount(id) PROVE IInv'
  BY <1>5, UnmountStep
<1>6. CASE Restart
  BY <1>6, RestartStep
<1>7. CASE UNCHANGED vars
  <2>1. UNCHANGED <<registry, nodeStorages, mountPoints, volumeNodes, mountIdCounter,
                    failure, throws>>
    BY <1>7 DEF vars
  <2> QED
    BY <2>1 DEF IInv, Typed, Accounts, AssertionsHold, InterruptedRemount, Root
<1> QED
  BY <1>1, <1>2, <1>3, <1>4, <1>5, <1>6, <1>7 DEF Next

-----------------------------------------------------------------------------
(***************************************************************************)
(* The invariant holds in every state that mount(), unmount(), their       *)
(* exceptions and restarts reach, for any volumes and mount options.       *)
(***************************************************************************)
THEOREM Invariance == Spec => []IInv
<1>1. Init => IInv
  BY InitStep
<1>2. IInv /\ [Next]_vars => IInv'
  BY NextStep
<1> QED
  BY <1>1, <1>2, PTL DEF Spec

(***************************************************************************)
(* Every variable keeps its type.                                          *)
(***************************************************************************)
THEOREM TypeCorrect == Spec => []TypeOK
<1>1. ASSUME IInv PROVE TypeOK
  <2>1. Typed
    BY <1>1 DEF IInv
  <2>2. /\ registry.volumes \subseteq Volumes /\ registry.loaded \subseteq Storages
        /\ registry.registered \subseteq Storages
        /\ DOMAIN registry.counters = KeysOf(registry.registered)
        /\ \A key \in DOMAIN registry.counters : registry.counters[key] \in Nat \ {0}
    BY <2>1 DEF Typed, RegistryTyped, Registries, NodeStorages
  <2>3. \A n \in DOMAIN nodeStorages :
          nodeStorages[n] \in Seq([storage : Storages, priority : Int])
    <3> DEFINE E == [storage : Storages, priority : Int]
    <3>1. Entry \subseteq E
      BY DEF Entry, NodeStorages
    <3> HIDE DEF E
    <3>2. Seq(Entry) \subseteq Seq(E)
      BY <3>1
    <3> QED
      BY <2>1, <3>2 DEF Typed, NodesSound, E
  <2>4. \A v \in Volumes : ToSet(volumeNodes[v]) \subseteq DOMAIN nodeStorages
    <3> SUFFICES ASSUME NEW v \in Volumes PROVE ToSet(volumeNodes[v]) \subseteq DOMAIN nodeStorages
      OBVIOUS
    <3>1. volumeNodes[v] \in Seq(DOMAIN nodeStorages)
      BY <2>1 DEF Typed
    <3> QED
      BY <3>1 DEF ToSet
  <2> QED
    BY <2>1, <2>2, <2>3, <2>4 DEF TypeOK, Typed, MountsSound
<1> QED
  BY <1>1, Invariance, PTL

(***************************************************************************)
(* The vector of every node stays sorted, whatever was inserted into it    *)
(* and erased from it: std::upper_bound is right to presume it.            *)
(***************************************************************************)
THEOREM Ordered == Spec => []PriorityOrder
<1>1. ASSUME IInv PROVE PriorityOrder
  <2> SUFFICES ASSUME NEW n \in DOMAIN nodeStorages,
                      NEW i \in DOMAIN nodeStorages[n], NEW j \in DOMAIN nodeStorages[n], i < j
               PROVE  nodeStorages[n][i].priority >= nodeStorages[n][j].priority
    BY DEF PriorityOrder
  <2>1. nodeStorages[n] \in Seq(Entry) /\ Sorted(nodeStorages[n])
    BY <1>1 DEF IInv, Typed, NodesSound
  <2>2. DOMAIN nodeStorages[n] = 1..Len(nodeStorages[n])
    BY <2>1
  <2> QED
    BY <2>1, <2>2 DEF Sorted
<1> QED
  BY <1>1, Invariance, PTL

(***************************************************************************)
(* The reference count of a key is the number of live mounts that reach a  *)
(* storage with that key, for any volume paths, also those whose keys      *)
(* collide, through any overlap of mounts, unmounts and re-mounts, and     *)
(* through exceptions of first acquisitions.                               *)
(***************************************************************************)
THEOREM CountsRight == Spec => []CountsMatchMounts
<1>1. ASSUME IInv PROVE CountsMatchMounts
  <2> SUFFICES ASSUME ~InterruptedRemount
               PROVE  /\ DOMAIN registry.counters = UNION {MountedKeys(id) : id \in DOMAIN mountPoints}
                      /\ \A key \in DOMAIN registry.counters :
                           registry.counters[key]
                             = Cardinality({id \in DOMAIN mountPoints : key \in MountedKeys(id)})
    BY DEF CountsMatchMounts
  <2> DEFINE counters == registry.counters
  <2>1. /\ CountsExact(registry, mountPoints, {}) /\ IsFiniteSet(DOMAIN mountPoints)
        /\ \A key \in DOMAIN counters : counters[key] \in Nat \ {0}
    BY <1>1 DEF IInv, Accounts, AllExact, Typed, MountsSound, RegistryTyped, Registries
  <2>2. \A key : Reaching(mountPoints, key) = {id \in DOMAIN mountPoints : key \in MountedKeys(id)}
    BY DEF Reaching, MountedKeys, MountedBy
  <2> HIDE DEF counters
  <2>3. ASSUME NEW key
        PROVE  /\ key \in DOMAIN counters => counters[key] = Cardinality(Reaching(mountPoints, key))
               /\ key \in DOMAIN counters <=> Reaching(mountPoints, key) # {}
    <3> DEFINE R == Reaching(mountPoints, key)
    <3>1. IsFiniteSet(R)
      BY <2>1, FS_Subset DEF Reaching
    <3>2. Cardinality(R) \in Nat /\ (Cardinality(R) = 0 <=> R = {})
      BY <3>1, FS_CardinalityType, FS_EmptySet
    <3>3. CountOf(counters, key) = Cardinality(R) + IF key \in KeysOf({}) THEN 1 ELSE 0
      BY <2>1 DEF CountsExact, counters
    <3>4. key \notin KeysOf({})
      BY DEF KeysOf
    <3> HIDE DEF R
    <3>5. CountOf(counters, key) = Cardinality(R)
      BY <3>2, <3>3, <3>4
    <3>6. CountOf(counters, key) = 0 <=> key \notin DOMAIN counters
      BY <2>1 DEF CountOf, counters
    <3>7. key \in DOMAIN counters => counters[key] = CountOf(counters, key)
      BY DEF CountOf
    <3>8. /\ key \in DOMAIN counters => counters[key] = Cardinality(R)
          /\ key \in DOMAIN counters <=> R # {}
      BY <3>2, <3>5, <3>6, <3>7
    <3> QED
      BY <3>8 DEF R
  <2>4. DOMAIN counters = UNION {MountedKeys(id) : id \in DOMAIN mountPoints}
    <3>1. \A key : key \in DOMAIN counters <=> \E id \in DOMAIN mountPoints : key \in MountedKeys(id)
      BY <2>2, <2>3
    <3> QED
      BY <3>1
  <2> QED
    BY <2>2, <2>3, <2>4 DEF counters
<1> QED
  BY <1>1, Invariance, PTL

(***************************************************************************)
(* A node lists a storage once per live mount that brings it there: an     *)
(* unmount takes away exactly what its mount brought.                      *)
(***************************************************************************)
THEOREM EntriesRight == Spec => []EntriesMatchMounts
<1>1. ASSUME IInv PROVE EntriesMatchMounts
  <2> SUFFICES ASSUME ~InterruptedRemount, NEW n \in DOMAIN nodeStorages, NEW s \in registry.loaded
               PROVE  Cardinality({i \in DOMAIN nodeStorages[n] : nodeStorages[n][i].storage = s})
                        = Cardinality({id \in DOMAIN mountPoints : Contributes(id, n, s)})
    BY DEF EntriesMatchMounts
  <2> DEFINE entries == nodeStorages[n]
  <2>1. /\ entries \in Seq(Entry)
        /\ CountIn(EntriesAt(nodeStorages, n), Holding({s})) = Cardinality(Bringing(mountPoints, n, s))
    BY <1>1 DEF IInv, Accounts, AllExact, Typed, NodesSound, EntriesExact
  <2>2. EntriesAt(nodeStorages, n) = entries
    BY DEF EntriesAt
  <2>3. Bringing(mountPoints, n, s) = {id \in DOMAIN mountPoints : Contributes(id, n, s)}
    BY DEF Bringing, Brings, Contributes
  <2> HIDE DEF entries
  <2>4. Positions(entries, Holding({s})) = {i \in DOMAIN entries : entries[i].storage = s}
    BY <2>1, EntryFields DEF Positions, Holding
  <2> QED
    BY <2>1, <2>2, <2>3, <2>4 DEF CountIn, entries
<1> QED
  BY <1>1, Invariance, PTL

(***************************************************************************)
(* No storage is ever listed ahead of where its live mounts put it, though *)
(* an unmount may erase the entry of another mount.                        *)
(***************************************************************************)
THEOREM PrioritiesBounded == Spec => []NoPriorityGained
<1>1. ASSUME IInv PROVE NoPriorityGained
  <2> SUFFICES ASSUME ~InterruptedRemount, NEW n \in DOMAIN nodeStorages,
                      NEW j \in DOMAIN nodeStorages[n]
               PROVE  LET entry == nodeStorages[n][j] IN
                      Cardinality({i \in DOMAIN nodeStorages[n] :
                                     /\ nodeStorages[n][i].storage = entry.storage
                                     /\ nodeStorages[n][i].priority >= entry.priority})
                        <= Cardinality({id \in DOMAIN mountPoints :
                                          /\ Contributes(id, n, entry.storage)
                                          /\ mountPoints[id].priority >= entry.priority})
    BY DEF NoPriorityGained
  <2> DEFINE entries == nodeStorages[n]
             s == entries[j].storage
             p == entries[j].priority
  <2>1. entries \in Seq(Entry) /\ NoneGained(nodeStorages, mountPoints)
    BY <1>1 DEF IInv, Accounts, AllExact, Typed, NodesSound
  <2>2. p \in Int
    BY <2>1, EntryFields
  <2>3. EntriesAt(nodeStorages, n) = entries
    BY DEF EntriesAt
  <2> HIDE DEF s, p, entries
  <2>4. CountIn(entries, From(s, p)) <= Cardinality(BringingFrom(mountPoints, n, s, p))
    BY <2>1, <2>2, <2>3 DEF NoneGained
  <2>5. BringingFrom(mountPoints, n, s, p)
          = {id \in DOMAIN mountPoints : Contributes(id, n, s) /\ mountPoints[id].priority >= p}
    BY DEF BringingFrom, Bringing, Brings, Contributes
  <2>6. Positions(entries, From(s, p))
          = {i \in DOMAIN entries : entries[i].storage = s /\ entries[i].priority >= p}
    BY <2>1, EntryFields DEF Positions, From
  <2> QED
    BY <2>4, <2>5, <2>6 DEF CountIn, entries, s, p
<1> QED
  BY <1>1, Invariance, PTL

(***************************************************************************)
(* No storage outlives the mounts that reach its key, unless an exception  *)
(* left it behind or its key is cut into the name of another storage.      *)
(***************************************************************************)
THEOREM NothingLeaks == Spec => []NoLeakedStorage
<1>1. ASSUME IInv, CountsMatchMounts PROVE NoLeakedStorage
  <2> SUFFICES ASSUME throws["acquire"] = 0, ~InterruptedRemount, NEW s \in registry.loaded,
                      UnloadTarget(s) = s
               PROVE  \E id \in DOMAIN mountPoints : Key(s) \in MountedKeys(id)
    BY DEF NoLeakedStorage
  <2>1. Key(s) \in DOMAIN registry.counters
    BY <1>1 DEF IInv, Accounts, NoLeak
  <2> QED
    BY <1>1, <2>1 DEF CountsMatchMounts
<1> QED
  BY <1>1, Invariance, CountsRight, PTL

(***************************************************************************)
(* An assertion of mount(), unmount() or releaseStorage() fails only with  *)
(* a reason: a re-mount that an exception left half done, a live mount     *)
(* whose keys are misread, or another volume that has taken such a key.    *)
(***************************************************************************)
THEOREM AssertionsSafe == Spec => []AssertionsHold
<1>1. ASSUME IInv PROVE AssertionsHold
  BY <1>1 DEF IInv
<1> QED
  BY <1>1, Invariance, PTL

(***************************************************************************)
(* What a vector holds is what a node lists.                               *)
(***************************************************************************)
LEMMA EntryListed ==
  ASSUME NodesSound(nodeStorages),
         NEW n \in DOMAIN nodeStorages, NEW i \in DOMAIN nodeStorages[n]
  PROVE  n \in Path /\ Lists(nodeStorages, n, nodeStorages[n][i].storage)
<1> DEFINE entries == nodeStorages[n]
           s == entries[i].storage
<1>1. entries \in Seq(Entry) /\ n \in Path
  BY DEF NodesSound
<1>2. EntriesAt(nodeStorages, n) = entries
  BY DEF EntriesAt
<1>3. i \in DOMAIN entries
  OBVIOUS
<1> HIDE DEF s, entries
<1>4. i \in 1..Len(entries) /\ Len(entries) \in Nat
  BY <1>1, <1>3
<1>5. i \in Positions(entries, Holding({s}))
  BY <1>1, <1>4, EntryFields DEF Positions, Holding, s
<1>6. IsFiniteSet(Positions(entries, Holding({s})))
  <2>1. IsFiniteSet(1..Len(entries))
    BY <1>4, FS_Interval
  <2> QED
    BY <2>1, FS_Subset DEF Positions
<1>7. Lists(nodeStorages, n, s)
  BY <1>2, <1>5, <1>6, FS_EmptySet DEF Lists, CountIn
<1> QED
  BY <1>1, <1>7 DEF s, entries

(***************************************************************************)
(* No virtual node ever holds a pointer to a destroyed storage, whatever   *)
(* the volume paths, and not even after exceptions: a misread or shared    *)
(* key may keep the wrong storage alive, but what is listed has its key    *)
(* counted, and it is that key that a storage is destroyed by.             *)
(***************************************************************************)
THEOREM NothingDangles == Spec => []NoDanglingStorage
<1>1. ASSUME IInv PROVE NoDanglingStorage
  <2> SUFFICES ASSUME NEW n \in DOMAIN nodeStorages, NEW i \in DOMAIN nodeStorages[n]
               PROVE  nodeStorages[n][i].storage \in registry.loaded
    BY DEF NoDanglingStorage
  <2>1. NodesSound(nodeStorages) /\ Alive(registry, nodeStorages, {})
    BY <1>1 DEF IInv, Typed, Accounts
  <2>2. n \in Path /\ Lists(nodeStorages, n, nodeStorages[n][i].storage)
    BY <2>1, EntryListed
  <2> QED
    BY <2>1, <2>2 DEF Alive
<1> QED
  BY <1>1, Invariance, PTL

-----------------------------------------------------------------------------
(***************************************************************************)
(* Where trees, counters and virtual nodes come from: nothing is there     *)
(* that no mount was asked for, but for what misread keys put where no     *)
(* mount looks.                                                            *)
(***************************************************************************)
NodesAsked(volume) ==
  UNION {NodesTo(o.nodePath) : o \in {q \in MountOptions : q.volume = volume}}

MountableNodes ==
  {<<>>} \union
  UNION {NodesTo(o.mountPath) \union
         {Transplant(path, o.nodePath, o.mountPath) :
            path \in {q \in NodesAsked(o.volume) : IsInSubtree(q, o.nodePath)}} :
         o \in MountOptions}

AskedFor(mountPoint, options) ==
  /\ mountPoint.node = options.mountPath
  /\ mountPoint.storageNode.volume = options.volume
  /\ mountPoint.storageNode.nodePath = options.nodePath

Asked(mountPoint) == \E options \in MountOptions : AskedFor(mountPoint, options)

Grounded(reg) ==
  /\ TreesClosed(reg)
  /\ \A v \in Volumes : \A q \in reg.trees[v] : Visible(v, q) => q \in NodesAsked(v)
  /\ \A s \in reg.registered : Visible(s.volume, s.path) /\ s.path \in reg.trees[s.volume]

Shown(reg, storageNode) == storageNode = Subtree(reg, storageNode.volume, storageNode.nodePath)

(***************************************************************************)
(* What a mount asks for is asked for.                                     *)
(***************************************************************************)
LEMMA AskedNodes ==
  ASSUME NEW mountPoint \in MountPoint, Asked(mountPoint)
  PROVE  LET storageNode == mountPoint.storageNode
         IN /\ Visible(storageNode.volume, storageNode.nodePath)
            /\ NodesTo(storageNode.nodePath) \subseteq NodesAsked(storageNode.volume)
<1>1. PICK options \in MountOptions : AskedFor(mountPoint, options)
  BY DEF Asked
<1>2. IsInSubtree(options.nodePath, options.nodePath)
  BY OptionFields, SubtreeHoldsRoot
<1>3. /\ mountPoint.storageNode.volume = options.volume
      /\ mountPoint.storageNode.nodePath = options.nodePath
  BY <1>1 DEF AskedFor
<1> QED
  BY <1>2, <1>3 DEF Visible, NodesAsked

(***************************************************************************)
(* What an option asks for is visible.                                     *)
(***************************************************************************)
LEMMA OptionNodes ==
  ASSUME NEW options \in MountOptions
  PROVE  /\ Visible(options.volume, options.nodePath)
         /\ NodesTo(options.nodePath) \subseteq NodesAsked(options.volume)
<1>1. IsInSubtree(options.nodePath, options.nodePath)
  BY OptionFields, SubtreeHoldsRoot
<1> QED
  BY <1>1 DEF Visible, NodesAsked

(***************************************************************************)
(* What is below a visible node is visible.                                *)
(***************************************************************************)
LEMMA VisibleBelow ==
  ASSUME NEW v, NEW path \in Path, Visible(v, path), NEW q \in Path, IsInSubtree(q, path)
  PROVE  Visible(v, q)
<1>1. PICK o \in MountOptions : o.volume = v /\ IsInSubtree(path, o.nodePath)
  BY DEF Visible
<1>2. IsInSubtree(q, o.nodePath)
  BY <1>1, OptionFields, SubtreesNest
<1> QED
  BY <1>1, <1>2 DEF Visible

(***************************************************************************)
(* Trees that are kept, twice.                                             *)
(***************************************************************************)
LEMMA TreesKeptTwice ==
  ASSUME NEW a, NEW b, NEW c, TreesKept(a, b), TreesKept(b, c)
  PROVE  TreesKept(a, c)
BY DEF TreesKept

(***************************************************************************)
(* Releases and acquisitions keep the registry grounded.                   *)
(***************************************************************************)
LEMMA ReleaseGrounded ==
  ASSUME KeysApart, NEW reg, RegistryTyped(reg), Grounded(reg), NEW S \in SUBSET reg.registered
  PROVE  LET after == releaseStorages(reg, S) IN Grounded(after) /\ TreesKept(reg, after)
<1> DEFINE after == releaseStorages(reg, S)
<1>1. RegistryTyped(after) /\ after.registered = reg.registered \ Freed(reg, S)
  BY ReleaseFacts
<1>2. TreesClosed(after) /\ TreesKept(reg, after)
  BY ReleaseKeepsTrees DEF Grounded
<1> HIDE DEF after
<1>3. \A v \in Volumes : \A q \in after.trees[v] : Visible(v, q) => q \in NodesAsked(v)
  BY <1>2 DEF TreesKept, Grounded
<1>4. \A s \in reg.registered : s.volume \in Volumes
  BY DEF RegistryTyped, Registries, NodeStorages, Storages
<1>5. \A s \in after.registered : Visible(s.volume, s.path) /\ s.path \in after.trees[s.volume]
  BY <1>1, <1>2, <1>4 DEF TreesKept, Grounded
<1> QED
  BY <1>2, <1>3, <1>5 DEF Grounded, after

\* Nodes on the way to what was asked for are grounded.
LEMMA GrowthGrounded ==
  ASSUME NEW reg, RegistryTyped(reg), Grounded(reg), NEW v \in Volumes, NEW path \in Path,
         NodesTo(path) \subseteq NodesAsked(v),
         NEW after, after.trees = [reg.trees EXCEPT ![v] = @ \union NodesTo(path)],
         \A s \in after.registered :
           \/ s \in reg.registered
           \/ s.volume = v /\ s.path \in after.trees[v] /\ Visible(v, s.path)
  PROVE  Grounded(after)
<1>0. TreesClosed(reg)
  BY DEF Grounded
<1>1. /\ TreesClosed(after)
      /\ \A w \in Volumes : reg.trees[w] \subseteq after.trees[w]
      /\ \A w \in Volumes : \A q \in after.trees[w] \ reg.trees[w] : w = v /\ q \in NodesTo(path)
  BY <1>0, GrownTrees
<1>2. \A w \in Volumes : \A q \in after.trees[w] : Visible(w, q) => q \in NodesAsked(w)
  BY <1>1 DEF Grounded
<1>3. \A s \in reg.registered : s.volume \in Volumes
  BY DEF RegistryTyped, Registries, NodeStorages, Storages
<1>4. \A s \in after.registered : Visible(s.volume, s.path) /\ s.path \in after.trees[s.volume]
  BY <1>1, <1>3 DEF Grounded
<1> QED
  BY <1>1, <1>2, <1>4 DEF Grounded

\* An acquisition of what was asked for.
LEMMA AcquireGrounded ==
  ASSUME NEW reg, RegistryTyped(reg), Grounded(reg), NEW v \in Volumes, NEW path \in Path,
         path # <<>>, Visible(v, path), NodesTo(path) \subseteq NodesAsked(v)
  PROVE  LET acquired == acquireStorage(reg, v, path)
             after == acquired.registry
         IN /\ Grounded(after)
            /\ after.trees = [reg.trees EXCEPT ![v] = @ \union NodesTo(path)]
            /\ acquired.storageNode = Subtree(after, v, path)
<1> DEFINE acquired == acquireStorage(reg, v, path)
           after == acquired.registry
           node == acquired.storageNode
           new == NewlyCounted(reg.counters, StoragesOf(node))
<1>1. /\ after.registered = reg.registered \union new
      /\ RegistryTyped(after)
  BY AcquireFacts
<1>2. /\ after.trees = [reg.trees EXCEPT ![v] = @ \union NodesTo(path)]
      /\ node = Subtree(after, v, path)
  BY AcquiredTrees
<1>3. new \subseteq StoragesOf(node)
  BY DEF NewlyCounted
<1> HIDE DEF acquired, new
<1>4. ASSUME NEW s \in new
      PROVE  s.volume = v /\ s.path \in after.trees[v] /\ Visible(v, s.path)
  <2>1. s.volume = v /\ s.path \in after.trees[v] /\ IsInSubtree(s.path, path)
    BY <1>2, <1>3 DEF StoragesOf, Subtree, StorageNode, Storage
  <2>2. s.path \in Path
    BY <1>1, <2>1 DEF RegistryTyped, Registries
  <2> QED
    BY <2>1, <2>2, VisibleBelow
<1>5. Grounded(after)
  <2> HIDE DEF after
  <2> QED
    BY <1>1, <1>2, <1>4, GrowthGrounded
<1> QED
  BY <1>2, <1>5 DEF acquired

\* An acquisition that an exception ends.
LEMMA ThrownGrounded ==
  ASSUME NEW reg, RegistryTyped(reg), Grounded(reg), NEW v \in Volumes, NEW path \in Path,
         path # <<>>, NodesTo(path) \subseteq NodesAsked(v),
         NEW after \in ThrownAcquisitions(reg, v, path)
  PROVE  Grounded(after)
<1>1. after.registered = reg.registered
  BY ThrownFacts
<1>2. after.trees = [reg.trees EXCEPT ![v] = @ \union NodesTo(path)]
  BY ThrownTrees
<1> QED
  BY <1>1, <1>2, GrowthGrounded

(***************************************************************************)
(* The virtual nodes are mountable ones, and what they list is asked for.  *)
(***************************************************************************)
AskedStorages == {s \in NodeStorages : s.path \in NodesAsked(s.volume)}

Confined(storages) ==
  /\ DOMAIN storages \subseteq MountableNodes
  /\ \A n \in Path : \A s : Lists(storages, n, s) => s \in AskedStorages

Mountable(node, storageNode) ==
  /\ NodeSound(storageNode)
  /\ Targets(node, storageNode) \subseteq MountableNodes
  /\ storageNode.paths \subseteq NodesAsked(storageNode.volume)

(***************************************************************************)
(* A subtree that is mounted lands on mountable nodes.                     *)
(***************************************************************************)
LEMMA TargetsMountable ==
  ASSUME NEW reg, RegistryTyped(reg), Grounded(reg), NEW options \in MountOptions,
         NodeSound(Subtree(reg, options.volume, options.nodePath))
  PROVE  Mountable(options.mountPath, Subtree(reg, options.volume, options.nodePath))
<1> DEFINE v == options.volume
           path == options.nodePath
           storageNode == Subtree(reg, v, path)
<1>1. v \in Volumes
  BY OptionFields
<1>2. ASSUME NEW q \in reg.trees[v], IsInSubtree(q, path) PROVE q \in NodesAsked(v)
  BY <1>1, <1>2 DEF Visible, Grounded
<1>3. Targets(options.mountPath, storageNode) \subseteq MountableNodes
  BY <1>2 DEF Targets, Subtree, StorageNode, MountableNodes
<1>4. storageNode.paths \subseteq NodesAsked(storageNode.volume)
  BY <1>2 DEF Subtree, StorageNode
<1> QED
  BY <1>3, <1>4 DEF Mountable

(***************************************************************************)
(* Mounting what is mountable and taking it down keep the table confined.  *)
(***************************************************************************)
LEMMA ConfinedMore ==
  ASSUME NEW storages, NodesSound(storages), Confined(storages), NEW node \in Path,
         NEW storageNode, Mountable(node, storageNode), NEW priority \in Int
  PROVE  Confined(MountSubtree(storages, node, storageNode, priority))
<1> DEFINE after == MountSubtree(storages, node, storageNode, priority)
<1>1. NodeSound(storageNode)
  BY DEF Mountable
<1>2. /\ DOMAIN after = DOMAIN storages \union Targets(node, storageNode)
      /\ \A n, T : CountIn(EntriesAt(after, n), Holding(T))
           = CountIn(EntriesAt(storages, n), Holding(T))
               + IF Brings(node, storageNode, n, T) THEN 1 ELSE 0
  <2>1. DOMAIN after = DOMAIN storages \union Targets(node, storageNode)
    BY DEF MountSubtree
  <2>2. LET r == MountSubtree(storages, node, storageNode, priority)
        IN /\ \A n, T : CountIn(EntriesAt(r, n), Holding(T))
                = CountIn(EntriesAt(storages, n), Holding(T))
                    + IF Brings(node, storageNode, n, T) THEN 1 ELSE 0
           /\ \A n, s, p : CountIn(EntriesAt(r, n), From(s, p))
                = CountIn(EntriesAt(storages, n), From(s, p))
                    + IF Brings(node, storageNode, n, {s}) /\ priority >= p THEN 1 ELSE 0
    BY <1>1, MountSubtreeCounts
  <2> QED
    BY <2>1, <2>2, Zenon
<1> HIDE DEF after
<1>3. ASSUME NEW n \in Path, NEW s, Lists(after, n, s) PROVE s \in AskedStorages
  <2>1. CASE Brings(node, storageNode, n, {s})
    <3>1. s \in StoragesOf(storageNode)
      BY <1>1, <2>1, TargetsFacts DEF Brings
    <3>2. s \in NodeStorages /\ s.volume = storageNode.volume /\ s.path \in storageNode.paths
      BY <1>1, <3>1, StoragesOfFacts
    <3> QED
      BY <3>2 DEF AskedStorages, Mountable
  <2>2. CASE ~Brings(node, storageNode, n, {s})
    <3>1. /\ CountIn(EntriesAt(after, n), Holding({s})) = CountIn(EntriesAt(storages, n), Holding({s})) + 0
          /\ CountIn(EntriesAt(storages, n), Holding({s})) \in Nat
      BY <1>2, <2>2, CountType
    <3>2. Lists(storages, n, s)
      BY <1>3, <3>1 DEF Lists
    <3> QED
      BY <3>2 DEF Confined
  <2> QED
    BY <2>1, <2>2
<1>4. Confined(after)
  BY <1>2, <1>3 DEF Confined, Mountable
<1> QED
  BY <1>4 DEF after

\* Taking a subtree down.
LEMMA ConfinedLess ==
  ASSUME NEW storages, NodesSound(storages), Confined(storages), NEW node \in Path,
         NEW storageNode, NodeSound(storageNode), HasEntries(storages, node, storageNode)
  PROVE  LET after == NodesWithout(storages, node, storageNode)
         IN NodesSound(after) /\ Confined(after)
<1> DEFINE after == NodesWithout(storages, node, storageNode)
<1>1. /\ NodesSound(after) /\ DOMAIN after = DOMAIN storages
      /\ \A n, T : CountIn(EntriesAt(storages, n), Holding(T))
           = CountIn(EntriesAt(after, n), Holding(T))
               + IF Brings(node, storageNode, n, T) THEN 1 ELSE 0
  BY NodesWithoutFacts
<1> HIDE DEF after
<1>2. ASSUME NEW n \in Path, NEW s, Lists(after, n, s) PROVE Lists(storages, n, s)
  <2>1. CountIn(EntriesAt(after, n), Holding({s})) \in Nat
    BY <1>1, CountType
  <2> QED
    BY <1>1, <1>2, <2>1 DEF Lists
<1>3. Confined(after)
  BY <1>1, <1>2 DEF Confined
<1> QED
  BY <1>1, <1>3 DEF after

\* Creating the nodes on the way to a mountable one.
LEMMA ConfinedPath ==
  ASSUME NEW storages, NodesSound(storages), Confined(storages), NEW path \in Path,
         NodesTo(path) \subseteq MountableNodes
  PROVE  LET after == createNodesForPath(storages, path)
         IN NodesSound(after) /\ Confined(after)
<1> DEFINE after == createNodesForPath(storages, path)
<1>1. /\ NodesSound(after)
      /\ DOMAIN after = DOMAIN storages \union NodesTo(path)
      /\ \A n : EntriesAt(after, n) = EntriesAt(storages, n)
  BY CreateNodesFacts
<1> HIDE DEF after
<1>2. Confined(after)
  BY <1>1 DEF Confined, Lists
<1> QED
  BY <1>1, <1>2 DEF after

(***************************************************************************)
(* remountNodes() finds every mount whose node is above the new one: the   *)
(* string prefix it tests is one whenever the path is a prefix, and the    *)
(* map it walks lists the node of each live mount.                         *)
(***************************************************************************)
LEMMA OrderReachesAll ==
  ASSUME Typed, NEW order \in IterationOrders, NEW id \in DOMAIN mountPoints
  PROVE  \E j \in 1..Cardinality(DOMAIN mountPoints) : order[j] = id
<1> DEFINE D == DOMAIN mountPoints
           N == Cardinality(D)
<1>1. IsFiniteSet(D) /\ N \in Nat
  BY FS_CardinalityType DEF Typed, MountsSound
<1>2. order \in [1..N -> D] /\ IsInjective(order)
  BY DEF IterationOrders
<1> HIDE DEF D, N
<1>3. order \in Injection(1..N, D)
  BY <1>2 DEF Injection
<1>4. Cardinality(1..N) = N
  BY <1>1, FS_Interval
<1>5. order \in Surjection(1..N, D)
  BY <1>1, <1>3, <1>4, FS_Injection DEF N
<1> QED
  BY <1>5 DEF Surjection, D, N

\* Each mount above the new one is redone.
LEMMA RemountEntriesComplete ==
  ASSUME Typed, NEW options \in MountOptions, NEW order \in IterationOrders,
         NEW id \in DOMAIN mountPoints,
         mountPoints[id].storageNode.volume = options.volume,
         IsPrefix(mountPoints[id].storageNode.nodePath, options.nodePath),
         mountPoints[id].storageNode.nodePath # options.nodePath,
         mountPoints[id].node \in ToSet(volumeNodes[options.volume])
  PROVE  LET entries == RemountEntries(options, order)
         IN \E k \in 1..Len(entries) : entries[k] = id
<1> DEFINE D == DOMAIN mountPoints
           N == Cardinality(D)
           nodes == volumeNodes[options.volume]
           Affected(i) ==
             LET storageNode == mountPoints[i].storageNode IN
             /\ storageNode.volume = options.volume
             /\ startsWith(options.nodePath, storageNode.nodePath)
             /\ options.nodePath # storageNode.nodePath
           Listed(node, j) ==
             IF mountPoints[order[j]].node = node /\ Affected(order[j]) THEN <<order[j]>> ELSE <<>>
           Row(node) == [j \in DOMAIN order |-> Listed(node, j)]
           EntriesOf(node) == FlattenSeq(Row(node))
           all == [i \in DOMAIN nodes |-> EntriesOf(nodes[i])]
           node == mountPoints[id].node
<1>1. N \in Nat /\ order \in [1..N -> D] /\ DOMAIN order = 1..N
  <2>1. IsFiniteSet(D)
    BY DEF Typed, MountsSound
  <2> QED
    BY <2>1, FS_CardinalityType DEF IterationOrders
<1>2. PICK j \in 1..N : order[j] = id
  BY OrderReachesAll
<1>3. nodes \in Seq(DOMAIN nodeStorages)
  BY OptionFields DEF Typed
<1>4. PICK i \in 1..Len(nodes) : nodes[i] = node
  BY <1>3 DEF ToSet
<1>5. Affected(id)
  <2>1. mountPoints[id] \in MountPoint
    BY DEF Typed, MountsSound
  <2>2. mountPoints[id].storageNode.nodePath \in Path /\ options.nodePath \in Path
    BY <2>1, MountPointFields, OptionFields
  <2> QED
    <3>1. /\ mountPoints[id].storageNode.nodePath \in Seq(Piece)
          /\ options.nodePath \in Seq(Piece) /\ mountPoints[id].storageNode.nodePath # <<>>
      BY <2>1, <2>2, MountPointFields, PathIsText
    <3>2. startsWith(options.nodePath, mountPoints[id].storageNode.nodePath)
      BY <3>1, PathStringPrefix DEF startsWith
    <3> QED
      BY <3>2
<1>6. RemountEntries(options, order) = FlattenSeq(all)
  BY Zenon DEF RemountEntries, Affected, nodes
<1>7. Listed(node, j) = <<id>>
  BY <1>2, <1>5
<1> HIDE DEF N, D, nodes, Affected, node
<1>8. ASSUME NEW m PROVE Row(m) \in Seq(Seq(D)) /\ Len(Row(m)) = N
  <2>1. ASSUME NEW k \in 1..N PROVE Listed(m, k) \in Seq(D)
    <3>1. order[k] \in D
      BY <1>1
    <3>2. <<order[k]>> \in Seq(D)
      BY <3>1, OneElement
    <3>3. <<>> \in Seq(D)
      BY EmptySeq
    <3> QED
      BY <3>2, <3>3
  <2> HIDE DEF Listed
  <2> QED
    BY <1>1, <2>1
<1>9. \E k \in 1..Len(EntriesOf(node)) : EntriesOf(node)[k] = id
  <2> HIDE DEF Listed
  <2>1. Row(node)[j] = <<id>> /\ j \in 1..Len(Row(node))
    BY <1>1, <1>2, <1>7, <1>8
  <2> DEFINE row == Row(node)
  <2>2. row \in Seq(Seq(D)) /\ row[j] = <<id>> /\ j \in 1..Len(row)
    BY <1>8, <2>1
  <2> HIDE DEF row
  <2>3. 1 \in 1..Len(row[j]) /\ row[j][1] = id
    BY <2>2
  <2>4. \A r \in 1..Len(row) : \A l \in 1..Len(row[r]) :
          \E k \in 1..Len(FlattenSeq(row)) : FlattenSeq(row)[k] = row[r][l]
    BY <2>2, FlattenFacts
  <2>5. \E k \in 1..Len(FlattenSeq(row)) : FlattenSeq(row)[k] = row[j][1]
    BY <2>2, <2>3, <2>4, Zenon
  <2> QED
    BY <2>3, <2>5 DEF row
<1>10. ASSUME NEW m PROVE EntriesOf(m) \in Seq(D)
  <2> DEFINE row == Row(m)
  <2>1. row \in Seq(Seq(D))
    BY <1>8
  <2> HIDE DEF row
  <2>2. FlattenSeq(row) \in Seq(D)
    BY <2>1, FlattenFacts
  <2> QED
    BY <2>2 DEF row
<1> HIDE DEF EntriesOf
<1>11. all \in Seq(Seq(D)) /\ i \in 1..Len(all) /\ all[i] = EntriesOf(node)
  <2>1. Len(nodes) \in Nat /\ DOMAIN nodes = 1..Len(nodes)
    BY <1>3
  <2> QED
    BY <1>4, <1>10, <2>1
<1> HIDE DEF all
<1>12. PICK k \in 1..Len(all[i]) : all[i][k] = id
  BY <1>9, <1>11
<1>13. \E l \in 1..Len(FlattenSeq(all)) : FlattenSeq(all)[l] = all[i][k]
  BY <1>11, <1>12, FlattenFacts
<1> QED
  BY <1>6, <1>12, <1>13
(***************************************************************************)
(* A mount that is shown in full stays so while the trees are kept.        *)
(***************************************************************************)
LEMMA ShownKept ==
  ASSUME KeysApart, NEW reg, RegistryTyped(reg), NEW after, RegistryTyped(after),
         TreesKept(reg, after), NEW mountPoint \in MountPoint, Asked(mountPoint),
         Shown(reg, mountPoint.storageNode)
  PROVE  Shown(after, mountPoint.storageNode)
<1> DEFINE storageNode == mountPoint.storageNode
           v == storageNode.volume
           path == storageNode.nodePath
<1>1. v \in Volumes /\ path \in Path /\ Visible(v, path)
  BY AskedNodes, MountPointFields
<1> HIDE DEF storageNode, v, path
<1>2. Subtree(after, v, path) = Subtree(reg, v, path)
  BY <1>1, SubtreesKept
<1> QED
  BY <1>2 DEF Shown, storageNode, v, path

(***************************************************************************)
(* Redoing a mount shows it in full and adds nothing to the trees.         *)
(***************************************************************************)
TableGrounded(table) ==
  /\ Grounded(table.registry)
  /\ \A id \in DOMAIN table.mountPoints : Asked(table.mountPoints[id])
  /\ Confined(table.nodeStorages)

\* One re-mount.
LEMMA RemountGrounded ==
  ASSUME KeysApart, NEW table, NEW pending, TableSound(table, pending), TableGrounded(table),
         NEW id \in DOMAIN table.mountPoints
  PROVE  LET after == Remount(table, id)
         IN /\ TableGrounded(after)
            /\ TreesKept(table.registry, after.registry)
            /\ after.ok => /\ table.ok
                           /\ Shown(after.registry, after.mountPoints[id].storageNode)
                           /\ \A i \in DOMAIN table.mountPoints :
                                i # id => after.mountPoints[i] = table.mountPoints[i]
<1> DEFINE mounts == table.mountPoints
           mountPoint == mounts[id]
           storageNode == mountPoint.storageNode
           node == mountPoint.node
           v == storageNode.volume
           path == storageNode.nodePath
           S == StoragesOf(storageNode)
           released == releaseStorages(table.registry, S)
           acquired == acquireStorage(released, v, path)
           left == NodesWithout(table.nodeStorages, node, storageNode)
           possible == table.ok /\ CanUnmountSubtree(table, node, storageNode)
           after == Remount(table, id)
<1>1. /\ IsTable(table) /\ mountPoint \in MountPoint /\ RegistryTyped(table.registry)
      /\ mounts \in [DOMAIN mounts -> MountPoint]
      /\ Grounded(table.registry) /\ Asked(mountPoint)
  BY DEF TableSound, MountsSound, TableGrounded
<1>2. CASE ~possible
  <2>1. /\ after.registry = table.registry /\ after.nodeStorages = table.nodeStorages
        /\ after.mountPoints = mounts /\ after.ok = FALSE
    BY <1>1, <1>2, RemountValue
  <2> HIDE DEF after
  <2>2. TreesKept(table.registry, table.registry)
    BY DEF TreesKept
  <2> QED
    BY <2>1, <2>2 DEF TableGrounded, after
<1>3. CASE possible
  <2>1. /\ after.registry = acquired.registry
        /\ after.nodeStorages = MountSubtree(left, node, acquired.storageNode, mountPoint.priority)
        /\ after.mountPoints = [mounts EXCEPT ![id].storageNode = acquired.storageNode]
    BY <1>1, <1>3, RemountValue
  <2>2. /\ v \in Volumes /\ path \in Path /\ path # <<>> /\ Visible(v, path)
        /\ NodesTo(path) \subseteq NodesAsked(v) /\ NodeSound(storageNode) /\ node \in Path
    BY <1>1, AskedNodes, MountPointFields
  <2>3. S \subseteq table.registry.registered
    BY <1>1, <1>3, UnmountValue DEF CanRelease
  <2>4. path \in table.registry.trees[v]
    <3>1. Storage(v, path) \in S
      BY <2>2 DEF StoragesOf, NodeSound
    <3> QED
      BY <1>1, <2>3, <3>1 DEF Grounded, Storage
  <2>5. PICK options \in MountOptions : AskedFor(mountPoint, options)
    BY <1>1 DEF Asked
  <2> HIDE DEF after, possible, S, storageNode, v, path, node
  <2>6. RegistryTyped(released) /\ Grounded(released) /\ TreesKept(table.registry, released)
    BY <1>1, <2>3, ReleaseGrounded, ReleaseFacts
  <2> HIDE DEF released
  <2>7. /\ RegistryTyped(acquired.registry) /\ Grounded(acquired.registry)
        /\ acquired.registry.trees = [released.trees EXCEPT ![v] = @ \union NodesTo(path)]
        /\ acquired.storageNode = Subtree(acquired.registry, v, path)
        /\ acquired.storageNode.volume = v /\ acquired.storageNode.nodePath = path
        /\ NodeSound(acquired.storageNode)
    <3>1. /\ Grounded(acquired.registry)
          /\ acquired.registry.trees = [released.trees EXCEPT ![v] = @ \union NodesTo(path)]
          /\ acquired.storageNode = Subtree(acquired.registry, v, path)
      BY <2>2, <2>6, AcquireGrounded
    <3>2. /\ RegistryTyped(acquired.registry)
          /\ acquired.storageNode.volume = v /\ acquired.storageNode.nodePath = path
          /\ NodeSound(acquired.storageNode)
      <4> HIDE DEF acquired
      <4>1. LET got == acquireStorage(released, v, path)
            IN /\ RegistryTyped(got.registry)
               /\ got.storageNode.volume = v /\ got.storageNode.nodePath = path
               /\ NodeSound(got.storageNode)
        BY <2>2, <2>6, AcquireFacts
      <4> QED
        BY <4>1 DEF acquired
    <3> QED
      BY <3>1, <3>2
  <2> HIDE DEF acquired
  <2>8. TreesKept(table.registry, after.registry)
    <3>1. path \in released.trees[v]
      BY <2>2, <2>4, <2>6 DEF TreesKept
    <3>2. TreesClosed(released)
      BY <2>6 DEF Grounded
    <3> DEFINE grown == acquired.registry
    <3>3. grown.trees = [released.trees EXCEPT ![v] = @ \union NodesTo(path)]
      BY <2>7
    <3> HIDE DEF grown
    <3>4. path \in released.trees[v] => grown.trees = released.trees
      BY <2>2, <2>6, <3>2, <3>3, GrownTrees
    <3> QED
      BY <2>1, <2>6, <3>1, <3>4 DEF TreesKept, grown
  <2>9. /\ DOMAIN after.mountPoints = DOMAIN mounts
        /\ after.mountPoints[id].storageNode = acquired.storageNode
        /\ after.mountPoints[id].node = node
        /\ \A i \in DOMAIN mounts : i # id => after.mountPoints[i] = mounts[i]
    <3>1. DOMAIN mountPoint = {"node", "storageNode", "priority"}
      BY <1>1 DEF MountPoint
    <3> QED
      BY <1>1, <2>1, <3>1 DEF node
  <2>10. ASSUME NEW i \in DOMAIN mounts PROVE Asked(after.mountPoints[i])
    <3>1. CASE i = id
      <4>1. AskedFor(after.mountPoints[id], options)
        BY <2>5, <2>7, <2>9 DEF AskedFor, node, v, path, storageNode
      <4> QED
        BY <3>1, <4>1 DEF Asked
    <3>2. CASE i # id
      BY <2>9, <3>2 DEF TableGrounded
    <3> QED
      BY <3>1, <3>2
  <2>11. Confined(after.nodeStorages)
    <3>1. Mountable(node, acquired.storageNode)
      <4>1. NodeSound(Subtree(acquired.registry, options.volume, options.nodePath))
        BY <2>5, <2>7 DEF AskedFor, node, v, path, storageNode
      <4>2. Mountable(options.mountPath, Subtree(acquired.registry, options.volume, options.nodePath))
        BY <2>7, <4>1, TargetsMountable
      <4> QED
        BY <2>5, <2>7, <4>2 DEF AskedFor, node, v, path, storageNode
    <3>2. NodesSound(left) /\ Confined(left)
      <4>1. HasEntries(table.nodeStorages, node, storageNode)
        BY <1>1, <1>3, UnmountValue DEF possible, node, storageNode
      <4>2. NodesSound(table.nodeStorages) /\ Confined(table.nodeStorages)
        BY DEF TableSound, TableGrounded
      <4> QED
        BY <2>2, <4>1, <4>2, ConfinedLess
    <3>3. mountPoint.priority \in Int
      BY <1>1, MountPointFields
    <3> HIDE DEF left
    <3>4. Confined(MountSubtree(left, node, acquired.storageNode, mountPoint.priority))
      BY <2>2, <3>1, <3>2, <3>3, ConfinedMore
    <3> QED
      BY <2>1, <3>4
  <2>12. TableGrounded(after)
    BY <2>1, <2>7, <2>9, <2>10, <2>11 DEF TableGrounded
  <2>13. Shown(after.registry, after.mountPoints[id].storageNode)
    BY <2>1, <2>7, <2>9 DEF Shown
  <2> QED
    BY <1>3, <2>8, <2>9, <2>12, <2>13 DEF after, possible
<1> QED
  BY <1>2, <1>3

(***************************************************************************)
(* All the re-mounts of one mount(): those that were redone show their     *)
(* subtrees in full, the others are as they were.                          *)
(***************************************************************************)
Regrown(table, after, pending, done) ==
  /\ TableSound(after, pending) /\ TableGrounded(after)
  /\ SameMounts(table.mountPoints, after.mountPoints)
  /\ TreesKept(table.registry, after.registry)
  /\ after.ok => \A id \in DOMAIN table.mountPoints :
                   IF id \in done THEN Shown(after.registry, after.mountPoints[id].storageNode)
                   ELSE after.mountPoints[id] = table.mountPoints[id]

\* One re-mount more.
LEMMA RegrownOnce ==
  ASSUME KeysApart, NEW table, NEW pending, NEW before, NEW done,
         Regrown(table, before, pending, done), NEW id \in DOMAIN table.mountPoints
  PROVE  Regrown(table, Remount(before, id), pending, done \union {id})
<1> DEFINE after == Remount(before, id)
<1>1. /\ TableSound(before, pending) /\ TableGrounded(before)
      /\ SameMounts(table.mountPoints, before.mountPoints)
      /\ TreesKept(table.registry, before.registry)
      /\ DOMAIN before.mountPoints = DOMAIN table.mountPoints
  BY DEF Regrown, SameMounts
<1>2. TableSound(after, pending) /\ SameMounts(before.mountPoints, after.mountPoints)
  BY <1>1, RemountFacts
<1>3. /\ TableGrounded(after)
      /\ TreesKept(before.registry, after.registry)
      /\ after.ok => /\ before.ok
                     /\ Shown(after.registry, after.mountPoints[id].storageNode)
                     /\ \A i \in DOMAIN table.mountPoints :
                          i # id => after.mountPoints[i] = before.mountPoints[i]
  BY <1>1, RemountGrounded
<1> HIDE DEF after
<1>4. SameMounts(table.mountPoints, after.mountPoints)
  BY <1>1, <1>2 DEF SameMounts
<1>5. TreesKept(table.registry, after.registry)
  BY <1>1, <1>3, TreesKeptTwice
<1>6. ASSUME after.ok, NEW i \in DOMAIN table.mountPoints
      PROVE  IF i \in done \union {id} THEN Shown(after.registry, after.mountPoints[i].storageNode)
             ELSE after.mountPoints[i] = table.mountPoints[i]
  <2>1. CASE i = id
    BY <1>3, <1>6, <2>1
  <2>2. CASE i # id
    <3>1. /\ after.mountPoints[i] = before.mountPoints[i]
          /\ IF i \in done THEN Shown(before.registry, before.mountPoints[i].storageNode)
             ELSE before.mountPoints[i] = table.mountPoints[i]
      BY <1>3, <1>6, <2>2 DEF Regrown
    <3>2. /\ before.mountPoints[i] \in MountPoint /\ Asked(before.mountPoints[i])
          /\ RegistryTyped(before.registry) /\ RegistryTyped(after.registry)
      BY <1>1, <1>2 DEF TableSound, MountsSound, TableGrounded
    <3>3. Shown(before.registry, before.mountPoints[i].storageNode)
            => Shown(after.registry, before.mountPoints[i].storageNode)
      BY <1>3, <3>2, ShownKept
    <3> QED
      BY <2>2, <3>1, <3>3
  <2> QED
    BY <2>1, <2>2
<1>7. Regrown(table, after, pending, done \union {id})
  BY <1>2, <1>3, <1>4, <1>5, <1>6 DEF Regrown
<1> QED
  BY <1>7 DEF after

\* All of them.
LEMMA RemountAllGrounded ==
  ASSUME KeysApart, NEW table, NEW pending, TableSound(table, pending), TableGrounded(table),
         NEW entries \in Seq(DOMAIN table.mountPoints)
  PROVE  Regrown(table, RemountAll(table, entries), pending,
                 {entries[k] : k \in 1..Len(entries)})
<1> DEFINE n == Len(entries)
           Done(m) == {entries[k] : k \in 1..m}
<1>1. n \in Nat /\ \A k \in 1..n : entries[k] \in DOMAIN table.mountPoints
  OBVIOUS
<1>2. PICK redone : /\ redone[0] = table
                    /\ \A k \in 1..n : redone[k] = Remount(redone[k - 1], entries[k])
                    /\ RemountAll(table, entries) = redone[n]
  BY RemountRows DEF Rows
<1> DEFINE U == {m \in 0..n : Regrown(table, redone[m], pending, Done(m))}
<1>3. Regrown(table, redone[0], pending, Done(0))
  <2>1. SameMounts(table.mountPoints, table.mountPoints)
    BY DEF SameMounts
  <2>2. TreesKept(table.registry, table.registry)
    BY DEF TreesKept
  <2>3. Done(0) = {}
    OBVIOUS
  <2> QED
    BY <1>2, <2>1, <2>2, <2>3 DEF Regrown
<1>4. ASSUME NEW m \in 1..n, Regrown(table, redone[m - 1], pending, Done(m - 1))
      PROVE  Regrown(table, redone[m], pending, Done(m))
  <2>1. Done(m) = Done(m - 1) \union {entries[m]}
    BY <1>1
  <2> HIDE DEF Done
  <2>2. Regrown(table, Remount(redone[m - 1], entries[m]), pending, Done(m - 1) \union {entries[m]})
    BY <1>1, <1>4, RegrownOnce
  <2> QED
    BY <1>2, <2>1, <2>2
<1>5. Regrown(table, redone[n], pending, Done(n))
  <2> HIDE DEF n, Done
  <2>1. 0 \in U /\ \A m \in 1..n : m - 1 \in U => m \in U
    BY <1>1, <1>3, <1>4
  <2> HIDE DEF U
  <2>2. n \in U
    BY <1>1, <2>1, UpTo
  <2> QED
    BY <2>2 DEF U
<1> QED
  BY <1>2, <1>5

(***************************************************************************)
(* The invariant of the trees.  A live mount is listed under its volume,   *)
(* so that remountNodes() comes by it.                                     *)
(***************************************************************************)
Rooted ==
  /\ Grounded(registry)
  /\ \A id \in DOMAIN mountPoints : Asked(mountPoints[id])
  /\ Confined(nodeStorages)

Listed ==
  \A id \in DOMAIN mountPoints :
    mountPoints[id].node \in ToSet(volumeNodes[mountPoints[id].storageNode.volume])

AllShown == \A id \in DOMAIN mountPoints : Shown(registry, mountPoints[id].storageNode)

Regular == throws["acquire"] = 0 /\ ~InterruptedRemount

TreeInv == Rooted /\ Listed /\ (Regular => AllShown)

(***************************************************************************)
(* The nodes one passes on the way to a path are above it.                 *)
(***************************************************************************)
LEMMA AboveOnTheWay ==
  ASSUME NEW path \in Path, NEW q \in NodesTo(path), NEW root \in Path, IsInSubtree(q, root)
  PROVE  IsPrefix(root, path)
<1>1. PICK n \in 1..Len(path) : q = SubSeq(path, 1, n)
  BY DEF NodesTo
<1>2. path \in Seq(Component) /\ root \in Seq(Component) /\ Len(path) \in Nat /\ Len(root) \in Nat
  BY DEF Path
<1>3. /\ q \in Seq(Component) /\ Len(q) = n /\ Len(q) <= Len(path)
      /\ \A i \in 1..n : q[i] = path[i]
  BY <1>1, <1>2, SubSeqProperties
<1>4. Len(root) <= n /\ \A i \in 1..Len(root) : root[i] = q[i]
  BY <1>2, <1>3, PrefixElements DEF IsInSubtree
<1>5. Len(root) <= Len(path) /\ \A i \in 1..Len(root) : root[i] = path[i]
  BY <1>2, <1>3, <1>4
<1> QED
  BY <1>2, <1>5, PrefixElements

(***************************************************************************)
(* The first acquisition of a mount() only changes what is shown by the    *)
(* mounts above it.                                                        *)
(***************************************************************************)
LEMMA ShownBeside ==
  ASSUME NEW reg, RegistryTyped(reg), TreesClosed(reg), NEW v \in Volumes, NEW path \in Path,
         NEW after, RegistryTyped(after),
         after.trees = [reg.trees EXCEPT ![v] = @ \union NodesTo(path)],
         NEW storageNode, NodeSound(storageNode), Shown(reg, storageNode),
         ~(/\ storageNode.volume = v /\ IsPrefix(storageNode.nodePath, path)
           /\ storageNode.nodePath # path)
  PROVE  Shown(after, storageNode)
<1> DEFINE w == storageNode.volume
           root == storageNode.nodePath
           In(trees) == {q \in trees : IsInSubtree(q, root)}
<1>1. w \in Volumes /\ root \in Path /\ root \in storageNode.paths
  BY DEF NodeSound
<1>2. storageNode.paths = In(reg.trees[w]) /\ storageNode = StorageNode(w, root, In(reg.trees[w]))
  BY DEF Shown, Subtree, StorageNode
<1>3. /\ reg.trees[w] \subseteq after.trees[w]
      /\ \A q \in after.trees[w] \ reg.trees[w] : w = v /\ q \in NodesTo(path)
      /\ path \in reg.trees[v] => after.trees = reg.trees
  BY <1>1, GrownTrees
<1>4. In(after.trees[w]) = In(reg.trees[w])
  <2>1. CASE w = v /\ root = path
    BY <1>1, <1>2, <1>3, <2>1
  <2>2. CASE ~(w = v /\ root = path)
    <3> SUFFICES ASSUME NEW q \in after.trees[w], IsInSubtree(q, root), q \notin reg.trees[w]
                 PROVE  FALSE
      BY <1>3
    <3>1. w = v /\ IsPrefix(root, path)
      BY <1>1, <1>3, AboveOnTheWay
    <3> QED
      BY <2>2, <3>1
  <2> QED
    BY <2>1, <2>2
<1> QED
  BY <1>2, <1>4 DEF Shown, Subtree

(***************************************************************************)
(* The table after the first acquisition of a mount().                     *)
(***************************************************************************)
LEMMA AcquiredGrounded ==
  ASSUME Typed, Rooted, NEW options \in MountOptions
  PROVE  LET acquired == acquireStorage(registry, options.volume, options.nodePath)
             table == TableAfter(acquired.registry)
         IN /\ TableGrounded(table) /\ RegistryTyped(table.registry)
            /\ Shown(table.registry, acquired.storageNode)
            /\ Mountable(options.mountPath, acquired.storageNode)
            /\ \A id \in DOMAIN mountPoints :
                 LET storageNode == mountPoints[id].storageNode IN
                 /\ Shown(registry, storageNode)
                 /\ ~(/\ storageNode.volume = options.volume
                      /\ IsPrefix(storageNode.nodePath, options.nodePath)
                      /\ storageNode.nodePath # options.nodePath)
                 => Shown(table.registry, storageNode)
<1> DEFINE v == options.volume
           path == options.nodePath
           acquired == acquireStorage(registry, v, path)
           after == acquired.registry
           node == acquired.storageNode
           table == TableAfter(after)
<1>1. /\ RegistryTyped(registry) /\ Grounded(registry) /\ TreesClosed(registry)
      /\ v \in Volumes /\ path \in Path /\ path # <<>> /\ Visible(v, path)
      /\ NodesTo(path) \subseteq NodesAsked(v)
  BY OptionFields, OptionNodes DEF Typed, Rooted, Grounded
<1>2. /\ table.registry = after /\ table.nodeStorages = nodeStorages
      /\ table.mountPoints = mountPoints
  BY TableAfterFields
<1>3. /\ RegistryTyped(after) /\ Grounded(after)
      /\ after.trees = [registry.trees EXCEPT ![v] = @ \union NodesTo(path)]
      /\ node = Subtree(after, v, path) /\ node.volume = v /\ node.nodePath = path
      /\ NodeSound(node)
  <2> HIDE DEF v, path
  <2> QED
    <3>1. /\ Grounded(after)
          /\ after.trees = [registry.trees EXCEPT ![v] = @ \union NodesTo(path)]
          /\ node = Subtree(after, v, path)
      BY <1>1, AcquireGrounded
    <3>2. LET got == acquireStorage(registry, v, path)
          IN /\ RegistryTyped(got.registry) /\ NodeSound(got.storageNode)
             /\ got.storageNode.volume = v /\ got.storageNode.nodePath = path
      BY <1>1, AcquireFacts
    <3> QED
      BY <3>1, <3>2
<1>4. Mountable(options.mountPath, node)
  <2> HIDE DEF after, node
  <2> QED
    BY <1>3, TargetsMountable
<1> HIDE DEF v, path, acquired, table
<1>5. TableGrounded(table)
  BY <1>2, <1>3 DEF TableGrounded, Rooted
<1>6. Shown(after, node)
  BY <1>3 DEF Shown
<1>7. ASSUME NEW id \in DOMAIN mountPoints, Shown(registry, mountPoints[id].storageNode),
             ~(/\ mountPoints[id].storageNode.volume = v
               /\ IsPrefix(mountPoints[id].storageNode.nodePath, path)
               /\ mountPoints[id].storageNode.nodePath # path)
      PROVE  Shown(after, mountPoints[id].storageNode)
  <2> DEFINE storageNode == mountPoints[id].storageNode
             grown == after
  <2>1. NodeSound(storageNode)
    BY MountPointFields DEF Typed, MountsSound
  <2>2. /\ RegistryTyped(grown)
        /\ grown.trees = [registry.trees EXCEPT ![v] = @ \union NodesTo(path)]
    BY <1>3
  <2> HIDE DEF storageNode, grown
  <2>3. Shown(grown, storageNode)
    BY <1>1, <1>7, <2>1, <2>2, ShownBeside DEF storageNode
  <2> QED
    BY <2>3 DEF storageNode, grown
<1> QED
  BY <1>2, <1>3, <1>4, <1>5, <1>6, <1>7, Zenon DEF v, path, acquired, table

(***************************************************************************)
(* The mounts to redo are live.                                            *)
(***************************************************************************)
LEMMA RemountIds ==
  ASSUME Typed, NEW options \in MountOptions, NEW order \in IterationOrders
  PROVE  RemountEntries(options, order) \in Seq(DOMAIN mountPoints)
<1> DEFINE entries == RemountEntries(options, order)
           ids == OfVolume(mountPoints, options.volume)
<1>1. entries \in Seq(ids)
  BY RemountEntriesType
<1>2. ids \subseteq DOMAIN mountPoints
  BY DEF OfVolume
<1> HIDE DEF entries, ids
<1>3. entries \in Seq(DOMAIN mountPoints)
  BY <1>1, <1>2
<1> QED
  BY <1>3 DEF entries

(***************************************************************************)
(* A whole mount(): what it was asked for is all there is, and afterwards  *)
(* every mount shows its subtree.  A mount above the new one is redone;    *)
(* the others show what they showed.                                       *)
(***************************************************************************)
LEMMA MountGrounded ==
  ASSUME KeysApart, Typed, Covered(registry, nodeStorages, {}),
         Alive(registry, nodeStorages, {}), Rooted, Listed,
         NEW options \in MountOptions, NEW order \in IterationOrders
  PROVE  LET acquired == acquireStorage(registry, options.volume, options.nodePath)
             remounted == RemountAll(TableAfter(acquired.registry), RemountEntries(options, order))
             withPath == createNodesForPath(remounted.nodeStorages, options.mountPath)
             listed == MountSubtree(withPath, options.mountPath, acquired.storageNode,
                                    options.priority)
         IN /\ Grounded(remounted.registry) /\ Confined(listed)
            /\ SameMounts(mountPoints, remounted.mountPoints)
            /\ \A id \in DOMAIN mountPoints : Asked(remounted.mountPoints[id])
            /\ acquired.storageNode.volume = options.volume
            /\ acquired.storageNode.nodePath = options.nodePath
            /\ Shown(remounted.registry, acquired.storageNode)
            /\ AllShown /\ remounted.ok
                 => \A id \in DOMAIN mountPoints :
                      Shown(remounted.registry, remounted.mountPoints[id].storageNode)
<1> DEFINE acquired == acquireStorage(registry, options.volume, options.nodePath)
           node == acquired.storageNode
           S == StoragesOf(node)
           table == TableAfter(acquired.registry)
           entries == RemountEntries(options, order)
           done == {entries[k] : k \in 1..Len(entries)}
           remounted == RemountAll(table, entries)
           path == options.mountPath
           withPath == createNodesForPath(remounted.nodeStorages, path)
           listed == MountSubtree(withPath, path, node, options.priority)
<1>1. /\ TableSound(table, S) /\ table.mountPoints = mountPoints
      /\ table.nodeStorages = nodeStorages
      /\ node.volume = options.volume /\ node.nodePath = options.nodePath /\ NodeSound(node)
  BY AcquiredTable
<1>2. /\ TableGrounded(table) /\ RegistryTyped(table.registry)
      /\ Shown(table.registry, node)
      /\ Mountable(path, node)
      /\ \A id \in DOMAIN mountPoints :
           /\ Shown(registry, mountPoints[id].storageNode)
           /\ ~(/\ mountPoints[id].storageNode.volume = options.volume
                /\ IsPrefix(mountPoints[id].storageNode.nodePath, options.nodePath)
                /\ mountPoints[id].storageNode.nodePath # options.nodePath)
           => Shown(table.registry, mountPoints[id].storageNode)
  BY AcquiredGrounded, Zenon
<1>3. entries \in Seq(DOMAIN mountPoints)
  BY RemountIds
<1>4. /\ options.volume \in Volumes /\ options.nodePath \in Path /\ options.nodePath # <<>>
      /\ Visible(options.volume, options.nodePath) /\ path \in Path
      /\ NodesTo(path) \subseteq MountableNodes
  BY OptionFields, OptionNodes DEF MountableNodes
<1> HIDE DEF acquired, table, entries
<1>5. Regrown(table, remounted, S, done)
  BY <1>1, <1>2, <1>3, RemountAllGrounded
<1> HIDE DEF remounted, done, node, S
<1>6. /\ RegistryTyped(remounted.registry) /\ Grounded(remounted.registry)
      /\ Confined(remounted.nodeStorages)
      /\ SameMounts(mountPoints, remounted.mountPoints)
      /\ TreesKept(table.registry, remounted.registry)
      /\ \A id \in DOMAIN remounted.mountPoints : Asked(remounted.mountPoints[id])
  BY <1>1, <1>5 DEF Regrown, TableSound, TableGrounded
<1>7. \A id \in DOMAIN mountPoints : Asked(remounted.mountPoints[id])
  BY <1>6 DEF SameMounts
<1>8. Confined(listed)
  <2>1. NodesSound(remounted.nodeStorages)
    BY <1>5 DEF Regrown, TableSound
  <2>2. NodesSound(withPath) /\ Confined(withPath)
    BY <1>4, <1>6, <2>1, ConfinedPath
  <2>3. options.priority \in Int
    BY OptionFields
  <2> HIDE DEF withPath
  <2> QED
    BY <1>2, <1>4, <2>2, <2>3, ConfinedMore
<1>9. Shown(remounted.registry, node)
  <2>1. Subtree(remounted.registry, options.volume, options.nodePath)
          = Subtree(table.registry, options.volume, options.nodePath)
    BY <1>2, <1>4, <1>6, SubtreesKept
  <2> QED
    BY <1>1, <1>2, <2>1 DEF Shown
<1>10. ASSUME AllShown, remounted.ok, NEW id \in DOMAIN mountPoints
       PROVE  Shown(remounted.registry, remounted.mountPoints[id].storageNode)
  <2> DEFINE mountPoint == mountPoints[id]
             storageNode == mountPoint.storageNode
  <2>1. IF id \in done THEN Shown(remounted.registry, remounted.mountPoints[id].storageNode)
        ELSE remounted.mountPoints[id] = mountPoint
    BY <1>1, <1>5, <1>10 DEF Regrown
  <2>2. ASSUME id \notin done PROVE Shown(remounted.registry, storageNode)
    <3>1. ~(/\ storageNode.volume = options.volume
            /\ IsPrefix(storageNode.nodePath, options.nodePath)
            /\ storageNode.nodePath # options.nodePath)
      <4> SUFFICES ASSUME storageNode.volume = options.volume,
                          IsPrefix(storageNode.nodePath, options.nodePath),
                          storageNode.nodePath # options.nodePath
                   PROVE  id \in done
        BY <2>2
      <4>1. mountPoint.node \in ToSet(volumeNodes[options.volume])
        BY DEF Listed
      <4>2. \E k \in 1..Len(entries) : entries[k] = id
        BY <4>1, RemountEntriesComplete DEF entries
      <4> QED
        BY <4>2 DEF done
    <3>2. Shown(table.registry, storageNode)
      BY <1>2, <1>10, <3>1 DEF AllShown
    <3>3. mountPoint \in MountPoint /\ Asked(mountPoint)
      BY DEF Typed, MountsSound, Rooted
    <3> QED
      BY <1>2, <1>6, <3>2, <3>3, ShownKept
  <2> QED
    BY <2>1, <2>2
<1> QED
  BY <1>1, <1>6, <1>7, <1>8, <1>9, <1>10, Zenon
     DEF acquired, node, table, entries, remounted

(***************************************************************************)
(* Taking one mount down changes no tree where mounts look.                *)
(***************************************************************************)
LEMMA UnmountGrounded ==
  ASSUME KeysApart, NEW table, NEW pending, TableSound(table, pending), TableGrounded(table),
         NEW id \in DOMAIN table.mountPoints,
         CanUnmountSubtree(table, table.mountPoints[id].node, table.mountPoints[id].storageNode)
  PROVE  LET mountPoint == table.mountPoints[id]
             after == UnmountSubtree(table, mountPoint.node, mountPoint.storageNode)
         IN /\ TableGrounded(after) /\ RegistryTyped(after.registry)
            /\ after.mountPoints = table.mountPoints
            /\ TreesKept(table.registry, after.registry)
<1> DEFINE mountPoint == table.mountPoints[id]
           node == mountPoint.node
           storageNode == mountPoint.storageNode
           S == StoragesOf(storageNode)
           after == UnmountSubtree(table, node, storageNode)
           released == releaseStorages(table.registry, S)
<1>1. IsTable(table) /\ RegistryTyped(table.registry) /\ Grounded(table.registry)
  BY DEF TableSound, TableGrounded
<1>2. /\ after.registry = released
      /\ after.nodeStorages = NodesWithout(table.nodeStorages, node, storageNode)
      /\ after.mountPoints = table.mountPoints
      /\ S \subseteq table.registry.registered
  BY <1>1, UnmountValue DEF CanRelease
<1> HIDE DEF after, S
<1>3. RegistryTyped(released) /\ Grounded(released) /\ TreesKept(table.registry, released)
  BY <1>1, <1>2, ReleaseGrounded, ReleaseFacts
<1>4. Confined(after.nodeStorages)
  <2>1. /\ mountPoint \in MountPoint
        /\ NodesSound(table.nodeStorages) /\ Confined(table.nodeStorages)
    BY DEF TableSound, MountsSound, TableGrounded
  <2>2. HasEntries(table.nodeStorages, node, storageNode)
    BY <1>1, UnmountValue
  <2>3. node \in Path /\ NodeSound(storageNode)
    BY <2>1, MountPointFields
  <2> HIDE DEF node, storageNode
  <2> QED
    BY <1>2, <2>1, <2>2, <2>3, ConfinedLess
<1>5. TableGrounded(after)
  BY <1>2, <1>3, <1>4 DEF TableGrounded
<1> QED
  BY <1>2, <1>3, <1>5 DEF after

(***************************************************************************)
(* A mount() that an exception leaves in the middle of a re-mount.         *)
(***************************************************************************)
LEMMA ThrownRemountGrounded ==
  ASSUME KeysApart, Typed, Covered(registry, nodeStorages, {}),
         Alive(registry, nodeStorages, {}), Rooted,
         NEW options \in MountOptions, NEW order \in IterationOrders,
         NEW k \in DOMAIN RemountEntries(options, order), NEW reg
  PROVE  LET acquired == acquireStorage(registry, options.volume, options.nodePath)
             entries == RemountEntries(options, order)
             before == RemountAll(TableAfter(acquired.registry), SubSeq(entries, 1, k - 1))
             mountPoint == before.mountPoints[entries[k]]
             unmounted == UnmountSubtree(before, mountPoint.node, mountPoint.storageNode)
         IN /\ CanUnmountSubtree(before, mountPoint.node, mountPoint.storageNode)
            /\ reg \in ThrownAcquisitions(unmounted.registry, mountPoint.storageNode.volume,
                                          mountPoint.storageNode.nodePath)
            => /\ Grounded(reg) /\ Confined(unmounted.nodeStorages)
               /\ SameMounts(mountPoints, unmounted.mountPoints)
               /\ \A i \in DOMAIN mountPoints : Asked(unmounted.mountPoints[i])
<1> DEFINE acquired == acquireStorage(registry, options.volume, options.nodePath)
           S == StoragesOf(acquired.storageNode)
           table == TableAfter(acquired.registry)
           entries == RemountEntries(options, order)
           done == SubSeq(entries, 1, k - 1)
           id == entries[k]
           before == RemountAll(table, done)
           mountPoint == before.mountPoints[id]
           v == mountPoint.storageNode.volume
           path == mountPoint.storageNode.nodePath
           unmounted == UnmountSubtree(before, mountPoint.node, mountPoint.storageNode)
           possible == CanUnmountSubtree(before, mountPoint.node, mountPoint.storageNode)
           thrown == reg \in ThrownAcquisitions(unmounted.registry, v, path)
<1>1. TableSound(table, S) /\ table.mountPoints = mountPoints
  BY AcquiredTable
<1>2. TableGrounded(table)
  BY AcquiredGrounded
<1>3. done \in Seq(DOMAIN mountPoints) /\ id \in DOMAIN mountPoints
  <2>1. entries \in Seq(DOMAIN mountPoints)
    BY RemountIds
  <2>2. k \in DOMAIN entries
    OBVIOUS
  <2> HIDE DEF entries
  <2>3. k \in 1..Len(entries) /\ Len(entries) \in Nat
    BY <2>1, <2>2
  <2>4. \A i \in 1..(k - 1) : entries[i] \in DOMAIN mountPoints
    BY <2>1, <2>3
  <2> QED
    BY <2>1, <2>3, <2>4, SubSeqProperties
<1> DEFINE Done == {done[m] : m \in 1..Len(done)}
<1> HIDE DEF acquired, S, table, entries, done, id
<1>4. Regrown(table, before, S, Done)
  BY <1>1, <1>2, <1>3, RemountAllGrounded
<1> HIDE DEF before, Done
<1>5. /\ TableSound(before, S) /\ TableGrounded(before) /\ id \in DOMAIN before.mountPoints
      /\ SameMounts(mountPoints, before.mountPoints)
  BY <1>1, <1>3, <1>4 DEF Regrown, SameMounts
<1>6. mountPoint \in MountPoint /\ Asked(mountPoint)
  BY <1>5 DEF TableSound, MountsSound, TableGrounded
<1>7. /\ v \in Volumes /\ path \in Path /\ path # <<>>
      /\ NodesTo(path) \subseteq NodesAsked(v)
  <2> HIDE DEF mountPoint
  <2> QED
    BY <1>6, MountPointFields, AskedNodes
<1>8. ASSUME possible, thrown
      PROVE  /\ Grounded(reg) /\ Confined(unmounted.nodeStorages)
             /\ SameMounts(mountPoints, unmounted.mountPoints)
             /\ \A i \in DOMAIN mountPoints : Asked(unmounted.mountPoints[i])
  <2>1. /\ TableGrounded(unmounted) /\ RegistryTyped(unmounted.registry)
        /\ unmounted.mountPoints = before.mountPoints
    BY <1>5, <1>8, UnmountGrounded
  <2> HIDE DEF unmounted, v, path
  <2>2. Grounded(reg)
    BY <1>7, <1>8, <2>1, ThrownGrounded DEF TableGrounded
  <2> QED
    BY <1>5, <2>1, <2>2 DEF TableGrounded, SameMounts
<1> HIDE DEF unmounted, v, path, possible, thrown
<1>9. possible /\ thrown
        => /\ Grounded(reg) /\ Confined(unmounted.nodeStorages)
           /\ SameMounts(mountPoints, unmounted.mountPoints)
           /\ \A i \in DOMAIN mountPoints : Asked(unmounted.mountPoints[i])
  BY <1>8
<1> QED
  BY <1>9, Zenon
     DEF acquired, table, entries, done, id, before, mountPoint, v, path, unmounted, possible, thrown

(***************************************************************************)
(* Every action keeps the trees right.                                     *)
(***************************************************************************)
LEMMA MountKeepsTrees ==
  ASSUME KeysApart, IInv, TreeInv, NEW options \in MountOptions, Mount(options)
  PROVE  TreeInv'
<1>1. PICK order \in IterationOrders :
        LET acquired == acquireStorage(registry, options.volume, options.nodePath)
            remounted == RemountAll(TableAfter(acquired.registry), RemountEntries(options, order))
            withPath == createNodesForPath(remounted.nodeStorages, options.mountPath)
        IN IF ~remounted.ok
           THEN /\ failure' = "assertion"
                /\ UNCHANGED <<registry, nodeStorages, mountPoints, volumeNodes, mountIdCounter>>
           ELSE /\ registry' = remounted.registry
                /\ nodeStorages' = MountSubtree(withPath, options.mountPath,
                                                acquired.storageNode, options.priority)
                /\ mountPoints' =
                     [id \in DOMAIN mountPoints \union {mountIdCounter} |->
                        IF id = mountIdCounter
                        THEN [node |-> options.mountPath, storageNode |-> acquired.storageNode,
                              priority |-> options.priority]
                        ELSE remounted.mountPoints[id]]
                /\ volumeNodes' = [volumeNodes EXCEPT ![options.volume] =
                                     Append(@, options.mountPath)]
                /\ mountIdCounter' = mountIdCounter + 1
                /\ UNCHANGED failure
  BY Zenon DEF Mount
<1>2. Regular' <=> Regular
  BY DEF Mount, Regular, InterruptedRemount
<1> DEFINE acquired == acquireStorage(registry, options.volume, options.nodePath)
           node == acquired.storageNode
           remounted == RemountAll(TableAfter(acquired.registry), RemountEntries(options, order))
           withPath == createNodesForPath(remounted.nodeStorages, options.mountPath)
           listed == MountSubtree(withPath, options.mountPath, node, options.priority)
           added == [node |-> options.mountPath, storageNode |-> node,
                     priority |-> options.priority]
<1>3. /\ Typed /\ Covered(registry, nodeStorages, {}) /\ Alive(registry, nodeStorages, {})
      /\ Rooted /\ Listed
      /\ Regular => AllShown
  BY DEF IInv, Accounts, TreeInv
<1>4. /\ Grounded(remounted.registry) /\ Confined(listed)
      /\ SameMounts(mountPoints, remounted.mountPoints)
      /\ \A id \in DOMAIN mountPoints : Asked(remounted.mountPoints[id])
      /\ node.volume = options.volume /\ node.nodePath = options.nodePath
      /\ Shown(remounted.registry, node)
      /\ AllShown /\ remounted.ok
           => \A id \in DOMAIN mountPoints :
                Shown(remounted.registry, remounted.mountPoints[id].storageNode)
  BY <1>3, MountGrounded, Zenon
<1>5. CASE ~remounted.ok
  <2>1. UNCHANGED <<registry, nodeStorages, mountPoints, volumeNodes>>
    BY <1>1, <1>5, Zenon
  <2> QED
    BY <1>2, <1>3, <2>1 DEF TreeInv, Rooted, Listed, AllShown
<1>6. CASE remounted.ok
  <2>1. /\ registry' = remounted.registry /\ nodeStorages' = listed
        /\ mountPoints' = [id \in DOMAIN mountPoints \union {mountIdCounter} |->
                             IF id = mountIdCounter THEN added ELSE remounted.mountPoints[id]]
        /\ volumeNodes' = [volumeNodes EXCEPT ![options.volume] = Append(@, options.mountPath)]
    BY <1>1, <1>6, Zenon
  <2> HIDE DEF remounted, listed, withPath, node, acquired
  <2>2. ASSUME NEW id \in DOMAIN mountPoints'
        PROVE  \/ mountPoints'[id] = added
               \/ id \in DOMAIN mountPoints /\ mountPoints'[id] = remounted.mountPoints[id]
    BY <2>1
  <2>3. Rooted'
    <3>1. Asked(added)
      <4>1. AskedFor(added, options)
        BY <1>4 DEF AskedFor
      <4> QED
        BY <4>1 DEF Asked
    <3> QED
      BY <1>4, <2>1, <2>2, <3>1 DEF Rooted
  <2>4. ASSUME NEW id \in DOMAIN mountPoints'
        PROVE  mountPoints'[id].node \in ToSet(volumeNodes'[mountPoints'[id].storageNode.volume])
    <3> DEFINE all == DOMAIN nodeStorages'
               nodes == volumeNodes[options.volume]
    <3>1. /\ volumeNodes \in [Volumes -> Seq(DOMAIN nodeStorages)]
          /\ options.volume \in Volumes
      BY <1>3, OptionFields DEF Typed
    <3>2. /\ Len(nodes) \in Nat /\ Len(Append(nodes, options.mountPath)) = Len(nodes) + 1
          /\ DOMAIN Append(nodes, options.mountPath) = 1..(Len(nodes) + 1)
          /\ \A i \in 1..Len(nodes) : Append(nodes, options.mountPath)[i] = nodes[i]
          /\ Append(nodes, options.mountPath)[Len(nodes) + 1] = options.mountPath
          /\ DOMAIN nodes = 1..Len(nodes)
      <4>1. nodes \in Seq(DOMAIN nodeStorages)
        BY <3>1
      <4>2. nodes \in Seq(DOMAIN nodeStorages \union {options.mountPath})
        BY <4>1
      <4> HIDE DEF nodes
      <4> QED
        BY <4>1, <4>2, AppendProperties
    <3>3. \A w \in Volumes :
            volumeNodes'[w] = IF w = options.volume THEN Append(nodes, options.mountPath)
                              ELSE volumeNodes[w]
      BY <2>1, <3>1
    <3> HIDE DEF nodes
    <3>4. /\ ToSet(nodes) \subseteq ToSet(Append(nodes, options.mountPath))
          /\ options.mountPath \in ToSet(Append(nodes, options.mountPath))
      BY <3>2 DEF ToSet
    <3>5. CASE mountPoints'[id] = added
      BY <1>4, <3>1, <3>3, <3>4, <3>5
    <3>6. CASE id \in DOMAIN mountPoints /\ mountPoints'[id] = remounted.mountPoints[id]
      <4>1. /\ mountPoints'[id].node = mountPoints[id].node
            /\ mountPoints'[id].storageNode.volume = mountPoints[id].storageNode.volume
        BY <1>4, <3>6 DEF SameMounts
      <4>2. mountPoints[id].storageNode.volume \in Volumes
        BY <1>3, <3>6, MountPointFields DEF Typed, MountsSound
      <4> QED
        BY <1>3, <3>3, <3>4, <3>6, <4>1, <4>2 DEF Listed, nodes
    <3> QED
      BY <2>2, <3>5, <3>6
  <2>5. Regular' => AllShown'
    <3> SUFFICES ASSUME Regular, NEW id \in DOMAIN mountPoints'
                 PROVE  Shown(registry', mountPoints'[id].storageNode)
      BY <1>2 DEF AllShown
    <3> QED
      BY <1>3, <1>4, <1>6, <2>1, <2>2
  <2> QED
    BY <2>3, <2>4, <2>5 DEF TreeInv, Listed
<1> QED
  BY <1>5, <1>6

\* A mount() that throws.
LEMMA ThrownMountKeepsTrees ==
  ASSUME KeysApart, IInv, TreeInv, NEW options \in MountOptions,
         MountThrowsAtAcquire(options) \/ MountThrowsAtRemount(options)
  PROVE  TreeInv'
<1>1. /\ Typed /\ Covered(registry, nodeStorages, {}) /\ Alive(registry, nodeStorages, {})
      /\ Rooted /\ Listed
      /\ throws \in [{"acquire", "remount"} -> Nat]
  BY DEF IInv, Accounts, TreeInv, Typed
<1>2. /\ options.volume \in Volumes /\ options.nodePath \in Path /\ options.nodePath # <<>>
      /\ NodesTo(options.nodePath) \subseteq NodesAsked(options.volume)
  BY OptionFields, OptionNodes
<1>3. CASE MountThrowsAtAcquire(options)
  <2>1. /\ registry' \in ThrownAcquisitions(registry, options.volume, options.nodePath)
        /\ throws' = [throws EXCEPT !["acquire"] = @ + 1]
        /\ UNCHANGED <<nodeStorages, mountPoints, volumeNodes>>
    BY <1>3 DEF MountThrowsAtAcquire
  <2>2. Grounded(registry')
    <3>1. RegistryTyped(registry) /\ Grounded(registry)
      BY <1>1 DEF Typed, Rooted
    <3> QED
      BY <1>2, <2>1, <3>1, ThrownGrounded
  <2>3. Rooted' /\ Listed'
    BY <1>1, <2>1, <2>2 DEF Rooted, Listed
  <2>4. ~Regular'
    BY <1>1, <2>1 DEF Regular
  <2> QED
    BY <2>3, <2>4 DEF TreeInv
<1>4. CASE MountThrowsAtRemount(options)
  <2>1. throws' = [throws EXCEPT !["remount"] = @ + 1] /\ volumeNodes' = volumeNodes
    BY <1>4 DEF MountThrowsAtRemount
  <2> DEFINE acquired == acquireStorage(registry, options.volume, options.nodePath)
  <2>2. PICK order \in IterationOrders :
          LET entries == RemountEntries(options, order)
          IN \E k \in DOMAIN entries :
               LET before == RemountAll(TableAfter(acquired.registry), SubSeq(entries, 1, k - 1))
                   mountPoint == before.mountPoints[entries[k]]
                   unmounted == UnmountSubtree(before, mountPoint.node, mountPoint.storageNode)
               IN /\ before.ok
                  /\ CanUnmountSubtree(before, mountPoint.node, mountPoint.storageNode)
                  /\ registry' \in ThrownAcquisitions(unmounted.registry,
                        mountPoint.storageNode.volume, mountPoint.storageNode.nodePath)
                  /\ nodeStorages' = unmounted.nodeStorages
                  /\ mountPoints' = unmounted.mountPoints
    BY <1>4, Zenon DEF MountThrowsAtRemount
  <2> DEFINE entries == RemountEntries(options, order)
  <2>3. PICK k \in DOMAIN entries :
          LET before == RemountAll(TableAfter(acquired.registry), SubSeq(entries, 1, k - 1))
              mountPoint == before.mountPoints[entries[k]]
              unmounted == UnmountSubtree(before, mountPoint.node, mountPoint.storageNode)
          IN /\ CanUnmountSubtree(before, mountPoint.node, mountPoint.storageNode)
             /\ registry' \in ThrownAcquisitions(unmounted.registry,
                   mountPoint.storageNode.volume, mountPoint.storageNode.nodePath)
             /\ nodeStorages' = unmounted.nodeStorages
             /\ mountPoints' = unmounted.mountPoints
    BY <2>2, Zenon
  <2>4. /\ Grounded(registry') /\ Confined(nodeStorages')
        /\ SameMounts(mountPoints, mountPoints')
        /\ \A i \in DOMAIN mountPoints : Asked(mountPoints'[i])
    BY <1>1, <2>3, ThrownRemountGrounded, Zenon
  <2>5. Rooted' /\ Listed'
    BY <1>1, <2>1, <2>4 DEF Rooted, Listed, SameMounts
  <2>6. ~Regular'
    BY <1>1, <2>1 DEF Regular, InterruptedRemount
  <2> QED
    BY <2>5, <2>6 DEF TreeInv
<1> QED
  BY <1>3, <1>4

\* An unmount().
LEMMA UnmountKeepsTrees ==
  ASSUME KeysApart, IInv, TreeInv, NEW id \in DOMAIN mountPoints, Unmount(id)
  PROVE  TreeInv'
<1> DEFINE table == TableAfter(registry)
           mountPoint == mountPoints[id]
           after == UnmountSubtree(table, mountPoint.node, mountPoint.storageNode)
           possible == CanUnmountSubtree(table, mountPoint.node, mountPoint.storageNode)
           less == [i \in DOMAIN mountPoints \ {id} |-> mountPoints[i]]
<1>1. UNCHANGED <<volumeNodes, throws>>
  BY DEF Unmount
<1>2. IF possible
      THEN /\ registry' = after.registry /\ nodeStorages' = after.nodeStorages
           /\ mountPoints' = Restrict(mountPoints, DOMAIN mountPoints \ {id})
           /\ UNCHANGED failure
      ELSE /\ failure' = "assertion"
           /\ UNCHANGED <<registry, nodeStorages, mountPoints>>
  BY Zenon DEF Unmount
<1>3. /\ Typed /\ Covered(registry, nodeStorages, {}) /\ Alive(registry, nodeStorages, {})
      /\ Rooted /\ Listed
      /\ Regular => AllShown
      /\ Regular' <=> Regular
  BY <1>1 DEF IInv, Accounts, TreeInv, Regular, InterruptedRemount
<1>4. CASE possible
  <2>1. registry' = after.registry /\ nodeStorages' = after.nodeStorages /\ mountPoints' = less
    BY <1>2, <1>4, Zenon DEF Restrict
  <2>2. /\ table.registry = registry /\ table.nodeStorages = nodeStorages
        /\ table.mountPoints = mountPoints /\ IsTable(table)
    BY TableAfterFields
  <2> HIDE DEF table
  <2>3. TableSound(table, {}) /\ TableGrounded(table)
    BY <1>3, <2>2 DEF TableSound, TableGrounded, Typed, Rooted
  <2>4. /\ TableGrounded(after) /\ RegistryTyped(after.registry)
        /\ after.mountPoints = mountPoints /\ TreesKept(registry, after.registry)
    <3>1. /\ id \in DOMAIN table.mountPoints
          /\ CanUnmountSubtree(table, table.mountPoints[id].node,
                               table.mountPoints[id].storageNode)
          /\ after = UnmountSubtree(table, table.mountPoints[id].node,
                                    table.mountPoints[id].storageNode)
      BY <1>4, <2>2
    <3> HIDE DEF after
    <3> QED
      BY <2>2, <2>3, <3>1, UnmountGrounded
  <2>5. DOMAIN less \subseteq DOMAIN mountPoints /\ \A i \in DOMAIN less : less[i] = mountPoints[i]
    OBVIOUS
  <2> HIDE DEF after, less, possible
  <2>6. Rooted' /\ Listed'
    BY <1>1, <1>3, <2>1, <2>4, <2>5 DEF Rooted, Listed, TableGrounded
  <2>7. ASSUME Regular, NEW i \in DOMAIN less PROVE Shown(after.registry, less[i].storageNode)
    <3>1. /\ less[i] = mountPoints[i] /\ mountPoints[i] \in MountPoint /\ Asked(mountPoints[i])
          /\ Shown(registry, mountPoints[i].storageNode) /\ RegistryTyped(registry)
      BY <1>3, <2>5, <2>7 DEF Typed, MountsSound, Rooted, AllShown
    <3> QED
      BY <2>4, <3>1, ShownKept
  <2> QED
    BY <1>3, <2>1, <2>6, <2>7 DEF TreeInv, AllShown
<1>5. CASE ~possible
  <2>1. UNCHANGED <<registry, nodeStorages, mountPoints>>
    BY <1>2, <1>5, Zenon
  <2> QED
    BY <1>1, <1>3, <2>1 DEF TreeInv, Rooted, Listed, AllShown
<1> QED
  BY <1>4, <1>5

(***************************************************************************)
(* A process that starts has no trees, no counters and no mounts.          *)
(***************************************************************************)
LEMMA StartedTrees ==
  ASSUME NEW files
  PROVE  /\ Grounded(StartedRegistry(files))
         /\ Confined([n \in {<<>>} |-> <<>>])
<1>1. /\ StartedRegistry(files).trees = [v \in Volumes |-> {}]
      /\ StartedRegistry(files).registered = {}
  BY DEF StartedRegistry
<1>2. Grounded(StartedRegistry(files))
  BY <1>1 DEF Grounded, TreesClosed
<1>3. ASSUME NEW n \in Path, NEW s PROVE ~Lists([m \in {<<>>} |-> <<>>], n, s)
  <2> DEFINE none == [v \in Volumes |-> {}]
             empty == [m \in {<<>>} |-> <<>>]
  <2>1. Alive(StartedRegistry(none), empty, {})
    <3>1. none \in [Volumes -> SUBSET Path]
      OBVIOUS
    <3> HIDE DEF none
    <3> QED
      BY <3>1, StartedFacts
  <2>2. StartedRegistry(none).loaded = {}
    BY DEF StartedRegistry
  <2> HIDE DEF none, empty
  <2>3. ~Lists(empty, n, s)
    BY <2>1, <2>2 DEF Alive
  <2> QED
    BY <2>3 DEF empty
<1>4. {<<>>} \subseteq MountableNodes
  BY DEF MountableNodes
<1> QED
  BY <1>2, <1>3, <1>4 DEF Confined

\* The first process.
LEMMA TreesInit == Init => TreeInv
<1> SUFFICES ASSUME Init PROVE TreeInv
  OBVIOUS
<1>1. /\ registry = StartedRegistry([v \in Volumes |-> {}])
      /\ nodeStorages = [n \in {<<>>} |-> <<>>] /\ mountPoints = [id \in {} |-> {}]
  BY DEF Init, StartedTable
<1>2. DOMAIN mountPoints = {}
  BY <1>1
<1>3. Grounded(registry) /\ Confined(nodeStorages)
  BY <1>1, StartedTrees
<1> QED
  BY <1>2, <1>3 DEF TreeInv, Rooted, Listed, AllShown

\* Every step.
LEMMA TreesStep ==
  ASSUME KeysApart, IInv, TreeInv, [Next]_vars
  PROVE  TreeInv'
<1>1. ASSUME NEW options \in MountOptions, Mount(options) PROVE TreeInv'
  BY <1>1, MountKeepsTrees
<1>2. ASSUME NEW options \in MountOptions,
             MountThrowsAtAcquire(options) \/ MountThrowsAtRemount(options)
      PROVE  TreeInv'
  BY <1>2, ThrownMountKeepsTrees
<1>3. ASSUME NEW options \in MountOptions, MountUnopenedVolume(options) PROVE TreeInv'
  <2>1. UNCHANGED <<registry, nodeStorages, mountPoints, volumeNodes, throws>>
    BY <1>3 DEF MountUnopenedVolume
  <2> QED
    BY <2>1 DEF TreeInv, Rooted, Listed, AllShown, Regular, InterruptedRemount
<1>4. ASSUME NEW id \in DOMAIN mountPoints, Unmount(id) PROVE TreeInv'
  BY <1>4, UnmountKeepsTrees
<1>5. CASE Restart
  <2>1. /\ registry' = StartedRegistry(registry.files)
        /\ nodeStorages' = [n \in {<<>>} |-> <<>>] /\ mountPoints' = [id \in {} |-> {}]
    BY <1>5 DEF Restart
  <2>2. DOMAIN mountPoints' = {}
    BY <2>1
  <2>3. Grounded(registry') /\ Confined(nodeStorages')
    BY <2>1, StartedTrees
  <2> QED
    BY <2>2, <2>3 DEF TreeInv, Rooted, Listed, AllShown
<1>6. CASE UNCHANGED vars
  <2>1. UNCHANGED <<registry, nodeStorages, mountPoints, volumeNodes, throws>>
    BY <1>6 DEF vars
  <2> QED
    BY <2>1 DEF TreeInv, Rooted, Listed, AllShown, Regular, InterruptedRemount
<1> QED
  BY <1>1, <1>2, <1>3, <1>4, <1>5, <1>6 DEF Next

(***************************************************************************)
(* Without exceptions each mount shows the whole subtree of its volume     *)
(* node, whatever was mounted below it later, if no volume's keys reach    *)
(* into those of a volume node another volume's mount asks for.            *)
(***************************************************************************)
THEOREM SubtreesShown ==
  ASSUME KeysApart
  PROVE  Spec => []WholeSubtreeMounted
<1>1. Init => IInv /\ TreeInv
  BY InitStep, TreesInit
<1>2. ASSUME IInv, TreeInv, [Next]_vars PROVE IInv' /\ TreeInv'
  BY <1>2, NextStep, TreesStep
<1>3. TreeInv => WholeSubtreeMounted
  BY DEF TreeInv, Regular, AllShown, Shown, WholeSubtreeMounted
<1> QED
  BY <1>1, <1>2, <1>3, PTL DEF Spec

(***************************************************************************)
(* What the vectors hold was asked for.                                    *)
(***************************************************************************)
LEMMA EntriesAsked ==
  ASSUME IInv, Rooted, NEW n \in DOMAIN nodeStorages, NEW i \in DOMAIN nodeStorages[n]
  PROVE  n \in MountableNodes /\ nodeStorages[n][i].storage \in AskedStorages
<1>1. NodesSound(nodeStorages) /\ Confined(nodeStorages)
  BY DEF IInv, Typed, Rooted
<1>2. n \in Path /\ Lists(nodeStorages, n, nodeStorages[n][i].storage)
  BY <1>1, EntryListed
<1> QED
  BY <1>1, <1>2 DEF Confined

(***************************************************************************)
(* What the table holds was asked for, under the same hypothesis: a        *)
(* virtual node of the table is one that some mount option names, or one   *)
(* below its mount path that another option of the volume asks for, and a  *)
(* storage that a node lists is of a volume node some option asks for.     *)
(***************************************************************************)
THEOREM TableConfined ==
  ASSUME KeysApart
  PROVE  Spec => [](IInv /\ Rooted)
<1>1. Init => IInv /\ TreeInv
  BY InitStep, TreesInit
<1>2. ASSUME IInv, TreeInv, [Next]_vars PROVE IInv' /\ TreeInv'
  BY <1>2, NextStep, TreesStep
<1>3. IInv /\ TreeInv => IInv /\ Rooted
  BY DEF TreeInv
<1> QED
  BY <1>1, <1>2, <1>3, PTL DEF Spec
=============================================================================
