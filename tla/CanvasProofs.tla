---------------------------- MODULE CanvasProofs ----------------------------
(***************************************************************************)
(* What holds of a board under every command of the canvas: its objects    *)
(* are typed (BoardTyped), undo takes a command back (UndoTakesBack),      *)
(* lines meet their ports (LinesMeetPorts), a drag is rigid                *)
(* (DragMovesTogether), a paste is closed (PasteStaysClosed). The last of  *)
(* these and the lines assume TreeSound.                                   *)
(*                                                                         *)
(* Each command has a lemma (its name and Kept): its batches are good,     *)
(* that is, they create objects of the board's type with ids of their own  *)
(* and write values of a field's type; and what it selects and copies are  *)
(* ids and objects of the board.                                           *)
(*                                                                         *)
(* What is drawn on top is the last in a strict order, by the texts of     *)
(* the z-orders (ZStrict) and then by ids, so something is hit wherever    *)
(* something lies. The walk to an object's ancestors reaches every one of  *)
(* them (AncestorsAre), so what is in something that is in a shape is in   *)
(* that shape, and goes where it goes.                                     *)
(***************************************************************************)
EXTENDS BoardProofs

-----------------------------------------------------------------------------
\* Picking the least and putting in order

\* Of finitely many, one has the least of what is counted, the lowest of several.
LEMMA Least ==
    ASSUME NEW S \in SUBSET Int, IsFiniteSet(S), S # {}, NEW d, \A x \in S : d[x] \in Int
    PROVE  \E x \in S : \A y \in S : d[x] < d[y] \/ (d[x] = d[y] /\ x <= y)
PROOF
<1> DEFINE V == {d[x] : x \in S}
           T == {x \in S : d[x] = Min(V)}
<1>1. IsFiniteSet(V)
  <2> DEFINE f == [x \in S |-> d[x]]
  <2>1. f \in Surjection(S, V)
    BY DEF Surjection
  <2> QED  BY <2>1, FS_Surjection
<1>2. V \in SUBSET Int /\ V # {}
  OBVIOUS
<1>3. Min(V) \in V /\ \A v \in V : Min(V) <= v
  BY ONLY <1>1, <1>2, Extremes
<1>4. T \in SUBSET S /\ T # {}
  BY <1>3
<1>5. T \in SUBSET Int /\ IsFiniteSet(T)
  BY <1>4, FS_Subset
<1>6. Min(T) \in T /\ \A y \in T : Min(T) <= y
  BY ONLY <1>4, <1>5, Extremes
<1>7. \A y \in S : Min(V) <= d[y]
  BY <1>3
<1>8. \A y \in S : d[y] = Min(V) => y \in T
  OBVIOUS
<1>9. d[Min(T)] = Min(V) /\ Min(T) \in S /\ Min(V) \in Int
  BY <1>2, <1>3, <1>6
<1>10. \A y \in S : d[Min(T)] < d[y] \/ (d[Min(T)] = d[y] /\ Min(T) <= y)
  <2>1. SUFFICES ASSUME NEW y \in S
                 PROVE  d[Min(T)] < d[y] \/ (d[Min(T)] = d[y] /\ Min(T) <= y)
    OBVIOUS
  <2>2. Min(V) <= d[y] /\ d[y] \in Int /\ Min(V) \in Int
    BY <1>7, <1>9
  <2>3. d[y] = Min(V) => Min(T) <= y
    BY <1>6, <1>8
  <2>4. d[Min(T)] = Min(V)
    BY <1>9
  <2> HIDE DEF T, V
  <2> QED  BY <2>2, <2>3, <2>4
<1>11. Min(T) \in S
  BY <1>9
<1> HIDE DEF T
<1> QED  BY <1>10, <1>11

\* B orders S strictly.
Strictly(S, B) ==
    /\ \A x, y \in S : x # y => (<<x, y>> \in B \/ <<y, x>> \in B) /\ ~(<<x, y>> \in B /\ <<y, x>> \in B)
    /\ \A x, y, z \in S : <<x, y>> \in B /\ <<y, z>> \in B => <<x, z>> \in B

\* How many others are before x in that order.
Below(S, B, x, m) ==
    \E U \in SUBSET S : m = Cardinality(U) /\ \A y \in S : y \in U <=> y # x /\ <<y, x>> \in B

\* That is another number for each, and every number that is less than there are.
LEMMA Counted ==
    ASSUME NEW S, IsFiniteSet(S), NEW B, Strictly(S, B), NEW rank, \A x \in S : Below(S, B, x, rank[x])
    PROVE  /\ \A x \in S : rank[x] \in 0 .. Cardinality(S) - 1
           /\ \A x, y \in S : rank[x] = rank[y] => x = y
           /\ \A i \in 1 .. Cardinality(S) : \E x \in S : rank[x] = i - 1
PROOF
<1> DEFINE n == Cardinality(S)
<1>n. n \in Nat
  BY FS_CardinalityType
<1>2. ASSUME NEW x \in S
      PROVE  rank[x] \in 0 .. n - 1
  <2>1. PICK U \in SUBSET S : rank[x] = Cardinality(U) /\ \A y \in S : y \in U <=> y # x /\ <<y, x>> \in B
    BY DEF Below
  <2>2. IsFiniteSet(S \ {x}) /\ Cardinality(S \ {x}) = n - 1
    BY FS_RemoveElement
  <2>3. U \in SUBSET (S \ {x})
    BY <2>1
  <2>4. IsFiniteSet(U) /\ Cardinality(U) <= Cardinality(S \ {x})
    BY ONLY <2>2, <2>3, FS_Subset
  <2>5. Cardinality(U) \in Nat
    BY <2>4, FS_CardinalityType
  <2> HIDE DEF n
  <2> QED  BY ONLY <1>n, <2>1, <2>2, <2>4, <2>5
<1> HIDE DEF n
<1>3. ASSUME NEW x \in S, NEW y \in S, <<x, y>> \in B, x # y
      PROVE  rank[x] < rank[y]
  <2>1. PICK U \in SUBSET S : rank[x] = Cardinality(U) /\ \A z \in S : z \in U <=> z # x /\ <<z, x>> \in B
    BY DEF Below
  <2>2. PICK V \in SUBSET S : rank[y] = Cardinality(V) /\ \A z \in S : z \in V <=> z # y /\ <<z, y>> \in B
    BY DEF Below
  <2>3. U \in SUBSET V
    <3>1. ASSUME NEW z \in U
          PROVE  z \in V
      <4>1. z \in S /\ <<z, x>> \in B /\ z # x
        BY <2>1
      <4>2. <<z, y>> \in B /\ z # y
        BY <4>1, <1>3 DEF Strictly
      <4> QED  BY <4>1, <4>2, <2>2
    <3> QED  BY <3>1
  <2>4. x \in V /\ x \notin U
    BY <1>3, <2>1, <2>2
  <2>5. IsFiniteSet(V)
    BY <2>2, FS_Subset
  <2>6. IsFiniteSet(U) /\ Cardinality(U) <= Cardinality(V) /\ (Cardinality(V) = Cardinality(U) => V = U)
    BY ONLY <2>3, <2>5, FS_Subset
  <2>7. rank[x] \in Int /\ rank[y] \in Int /\ U # V
    BY <1>2, <1>n, <2>4
  <2> QED  BY <2>1, <2>2, <2>6, <2>7
<1>4. \A x, y \in S : rank[x] = rank[y] => x = y
  <2>1. SUFFICES ASSUME NEW x \in S, NEW y \in S, x # y
                 PROVE  rank[x] # rank[y]
    OBVIOUS
  <2>2. rank[x] \in Int /\ rank[y] \in Int
    BY <1>2, <1>n
  <2>3. <<x, y>> \in B \/ <<y, x>> \in B
    BY <2>1 DEF Strictly
  <2> QED  BY <1>3, <2>1, <2>2, <2>3
<1> DEFINE f == [x \in S |-> rank[x]]
<1>6. f \in Injection(S, 0 .. n - 1)
  <2>1. f \in [S -> 0 .. n - 1]
    BY <1>2
  <2> QED  BY <1>4, <2>1 DEF Injection, IsInjective
<1>7. IsFiniteSet(0 .. n - 1) /\ Cardinality(0 .. n - 1) = n
  <2>1. n - 1 \in Int /\ 0 \in Int
    BY <1>n
  <2>2. IsFiniteSet(0 .. n - 1) /\ Cardinality(0 .. n - 1) = IF 0 > n - 1 THEN 0 ELSE (n - 1) - 0 + 1
    BY ONLY <2>1, FS_Interval
  <2> QED  BY <2>2, <1>n
<1>8. f \in Surjection(S, 0 .. n - 1)
  BY <1>6, <1>7, FS_Injection DEF n
<1>9. \A k \in 0 .. n - 1 : \E x \in S : rank[x] = k
  BY <1>8 DEF Surjection
<1>10. \A i \in 1 .. n : \E x \in S : rank[x] = i - 1
  <2>1. \A i \in 1 .. n : i - 1 \in 0 .. n - 1
    BY <1>n
  <2> QED  BY <1>9, <2>1
<1> QED  BY <1>2, <1>4, <1>10 DEF n

\* s lists S by what is counted.
Listed(S, rank, s) ==
    /\ s = [i \in 1 .. Cardinality(S) |-> s[i]]
    /\ \A i \in 1 .. Cardinality(S) : (\E x \in S : rank[x] = i - 1) => s[i] \in S /\ rank[s[i]] = i - 1

\* Putting them in that order has each of them once.
LEMMA InOrder ==
    ASSUME NEW S, IsFiniteSet(S), NEW B, Strictly(S, B), NEW rank, \A x \in S : Below(S, B, x, rank[x]),
           NEW s, Listed(S, rank, s)
    PROVE  /\ IsSeq(s) /\ Len(s) = Cardinality(S) /\ ToSet(s) = S /\ Distinct(s)
           /\ \A i \in DOMAIN s : s[i] \in S
PROOF
<1> DEFINE n == Cardinality(S)
<1>n. n \in Nat
  BY FS_CardinalityType
<1>1. /\ \A x \in S : rank[x] \in 0 .. Cardinality(S) - 1
      /\ \A x, y \in S : rank[x] = rank[y] => x = y
      /\ \A i \in 1 .. Cardinality(S) : \E x \in S : rank[x] = i - 1
  BY Counted
<1>2. \A i \in 1 .. n : s[i] \in S /\ rank[s[i]] = i - 1
  BY <1>1 DEF Listed
<1> HIDE DEF n
<1>3. IsSeq(s) /\ Len(s) = n /\ DOMAIN s = 1 .. n
  <2>1. s = [i \in 1 .. n |-> s[i]]
    BY DEF n, Listed
  <2> QED  BY ONLY <1>n, <2>1, FunctionIsSeq
<1>4. \A x \in S : rank[x] + 1 \in DOMAIN s /\ s[rank[x] + 1] = x
  <2>1. SUFFICES ASSUME NEW x \in S
                 PROVE  rank[x] + 1 \in DOMAIN s /\ s[rank[x] + 1] = x
    OBVIOUS
  <2>2. rank[x] \in 0 .. n - 1
    BY <1>1 DEF n
  <2>3. rank[x] + 1 \in 1 .. n /\ (rank[x] + 1) - 1 = rank[x]
    BY <1>n, <2>2
  <2>4. s[rank[x] + 1] \in S /\ rank[s[rank[x] + 1]] = rank[x]
    BY <1>2, <2>3
  <2> QED  BY <1>1, <1>3, <2>3, <2>4
<1>5. ToSet(s) = S
  BY <1>2, <1>3, <1>4 DEF ToSet
<1>6. Distinct(s)
  <2>1. SUFFICES ASSUME NEW i \in DOMAIN s, NEW j \in DOMAIN s, s[i] = s[j]
                 PROVE  i = j
    BY DEF Distinct
  <2>2. i - 1 = j - 1
    BY <1>2, <1>3, <2>1
  <2>3. i \in Int /\ j \in Int
    BY <1>3, <1>n
  <2> QED  BY <2>2, <2>3
<1> QED  BY <1>2, <1>3, <1>5, <1>6 DEF n

\* Numbers in ascending order.
LEMMA AscendingHolds ==
    ASSUME NEW S \in SUBSET Int, IsFiniteSet(S)
    PROVE  /\ IsSeq(Ascending(S)) /\ Len(Ascending(S)) = Cardinality(S)
           /\ ToSet(Ascending(S)) = S /\ Distinct(Ascending(S))
           /\ \A i \in DOMAIN Ascending(S) : Ascending(S)[i] \in S
PROOF
<1> DEFINE B == {p \in S \X S : p[1] < p[2]}
           under(x) == {y \in S \ {x} : y < x}
           rank == [x \in S |-> Cardinality(under(x))]
           s == Ascending(S)
<1>1. \A x, y \in S : <<x, y>> \in B <=> x < y
  OBVIOUS
<1> HIDE DEF B
<1>2. Strictly(S, B)
  <2>1. \A x, y \in S : x # y => (x < y \/ y < x) /\ ~(x < y /\ y < x)
    OBVIOUS
  <2>2. \A x, y, z \in S : x < y /\ y < z => x < z
    OBVIOUS
  <2> QED  BY <1>1, <2>1, <2>2 DEF Strictly
<1>3. \A x \in S : Below(S, B, x, rank[x])
  <2>1. SUFFICES ASSUME NEW x \in S
                 PROVE  Below(S, B, x, rank[x])
    OBVIOUS
  <2>2. under(x) \in SUBSET S /\ rank[x] = Cardinality(under(x))
    OBVIOUS
  <2>3. \A y \in S : y \in under(x) <=> y # x /\ <<y, x>> \in B
    BY <1>1
  <2> HIDE DEF under, rank
  <2> QED  BY <2>2, <2>3 DEF Below
<1>4. s = [i \in 1 .. Cardinality(S) |-> CHOOSE x \in S : Cardinality(under(x)) = i - 1]
  BY DEF Ascending, Sorted
<1>5. \A i \in 1 .. Cardinality(S) : s[i] = CHOOSE x \in S : Cardinality(under(x)) = i - 1
  BY <1>4
<1>6. \A x \in S : rank[x] = Cardinality(under(x))
  OBVIOUS
<1>7. s = [i \in 1 .. Cardinality(S) |-> s[i]]
  BY <1>4
<1> HIDE DEF under, s, rank
<1>8. Listed(S, rank, s)
  <2>1. \A i \in 1 .. Cardinality(S) : (\E x \in S : rank[x] = i - 1) => s[i] \in S /\ rank[s[i]] = i - 1
    BY <1>5, <1>6
  <2> QED  BY <1>7, <2>1 DEF Listed
<1>9. /\ IsSeq(s) /\ Len(s) = Cardinality(S) /\ ToSet(s) = S /\ Distinct(s)
      /\ \A i \in DOMAIN s : s[i] \in S
  BY ONLY IsFiniteSet(S), <1>2, <1>3, <1>8, InOrder
<1> QED  BY <1>9 DEF s

\* Sequences that share nothing are put together without repeating anything.
LEMMA ConcatDistinct ==
    ASSUME NEW s, NEW t, IsSeq(s), IsSeq(t), Distinct(s), Distinct(t), ToSet(s) \cap ToSet(t) = {}
    PROVE  IsSeq(s \o t) /\ Distinct(s \o t) /\ ToSet(s \o t) \subseteq ToSet(s) \cup ToSet(t)
PROOF
<1> DEFINE r == s \o t
<1>1. /\ Len(t) \in Nat /\ DOMAIN t = 1 .. Len(t) /\ Len(s) \in Nat /\ DOMAIN s = 1 .. Len(s)
  BY SeqIsFunction
<1>2. /\ IsSeq(r) /\ Len(r) = Len(s) + Len(t)
      /\ \A x \in 1 .. Len(s) + Len(t) : r[x] = IF x <= Len(s) THEN s[x] ELSE t[x - Len(s)]
  BY ConcatIsSeq
<1>3. DOMAIN r = 1 .. Len(s) + Len(t)
  BY <1>2, SeqIsFunction
<1> HIDE DEF r
<1>4. \A i \in DOMAIN r : \/ i \in DOMAIN s /\ r[i] = s[i] /\ r[i] \in ToSet(s)
                          \/ i - Len(s) \in DOMAIN t /\ r[i] = t[i - Len(s)] /\ r[i] \in ToSet(t)
  <2>1. SUFFICES ASSUME NEW i \in DOMAIN r
                 PROVE  \/ i \in DOMAIN s /\ r[i] = s[i] /\ r[i] \in ToSet(s)
                        \/ i - Len(s) \in DOMAIN t /\ r[i] = t[i - Len(s)] /\ r[i] \in ToSet(t)
    OBVIOUS
  <2>2. CASE i <= Len(s)
    <3>1. i \in DOMAIN s /\ r[i] = s[i]
      BY <1>1, <1>2, <1>3, <2>2
    <3> QED  BY <3>1 DEF ToSet
  <2>3. CASE ~(i <= Len(s))
    <3>1. i - Len(s) \in DOMAIN t /\ r[i] = t[i - Len(s)]
      BY <1>1, <1>2, <1>3, <2>3
    <3> QED  BY <3>1 DEF ToSet
  <2> QED  BY <2>2, <2>3
<1>5. Distinct(r)
  <2>1. SUFFICES ASSUME NEW i \in DOMAIN r, NEW j \in DOMAIN r, r[i] = r[j]
                 PROVE  i = j
    BY DEF Distinct
  <2>2. i \in Int /\ j \in Int
    BY <1>1, <1>3
  <2>3. CASE i \in DOMAIN s /\ r[i] = s[i] /\ j \in DOMAIN s /\ r[j] = s[j]
    BY <2>1, <2>3 DEF Distinct
  <2>4. CASE /\ i - Len(s) \in DOMAIN t /\ r[i] = t[i - Len(s)]
             /\ j - Len(s) \in DOMAIN t /\ r[j] = t[j - Len(s)]
    <3>1. i - Len(s) = j - Len(s)
      BY <2>1, <2>4 DEF Distinct
    <3> QED  BY <1>1, <2>2, <3>1
  <2>5. ~(r[i] \in ToSet(s) /\ r[j] \in ToSet(t)) /\ ~(r[i] \in ToSet(t) /\ r[j] \in ToSet(s))
    BY <2>1
  <2> QED  BY <1>4, <2>3, <2>4, <2>5
<1>6. ToSet(r) \subseteq ToSet(s) \cup ToSet(t)
  BY <1>4 DEF ToSet
<1> QED  BY <1>2, <1>5, <1>6 DEF r

\* However many there are.
LEMMA FlattenDistinct ==
    ASSUME NEW seqs, IsSeq(seqs), \A i \in DOMAIN seqs : IsSeq(seqs[i]) /\ Distinct(seqs[i]),
           \A i, j \in DOMAIN seqs : i # j => ToSet(seqs[i]) \cap ToSet(seqs[j]) = {}
    PROVE  Distinct(FlattenSeq(seqs))
PROOF
<1> DEFINE n == Len(seqs)
           all == FlattenSeq(seqs)
<1>1. n \in Nat /\ DOMAIN seqs = 1 .. n
  BY SeqIsFunction
<1>2. CASE n = 0
  <2>1. DOMAIN seqs = {}
    BY <1>1, <1>2
  <2>2. IsSeq(all) /\ \A k \in DOMAIN all : \E i \in DOMAIN seqs : \E j \in DOMAIN seqs[i] : all[k] = seqs[i][j]
    BY FlattenIsSeq
  <2> HIDE DEF all
  <2> QED  BY <2>1, <2>2 DEF Distinct, all
<1>3. CASE n # 0
  <2>1. \E f : Flattening(f, n, seqs)
    BY <1>1, FlatteningExists
  <2> DEFINE F == CHOOSE f : Flattening(f, n, seqs)
  <2>2. Flattening(F, n, seqs)
    BY <2>1
  <2>4. all = F[n]
    BY <1>3, Zenon DEF FlattenSeq, Flattening
  <2> HIDE DEF F, n, all
  <2>5. \A k \in 1 .. n : F[k] = IF k = 1 THEN seqs[k] ELSE F[k - 1] \o seqs[k]
    BY <2>2, Zenon DEF Flattening
  <2> DEFINE T == {m \in Nat : m \in 1 .. n => /\ IsSeq(F[m]) /\ Distinct(F[m])
                                              /\ \A e \in ToSet(F[m]) : \E k \in 1 .. m : e \in ToSet(seqs[k])}
  <2>6. 0 \in T
    OBVIOUS
  <2>7. ASSUME NEW m \in Nat, m \in T PROVE m + 1 \in T
    <3> SUFFICES ASSUME m + 1 \in 1 .. n
                 PROVE  /\ IsSeq(F[m + 1]) /\ Distinct(F[m + 1])
                        /\ \A e \in ToSet(F[m + 1]) : \E k \in 1 .. m + 1 : e \in ToSet(seqs[k])
      OBVIOUS
    <3> DEFINE s == seqs[m + 1]
               t == F[m]
               r == t \o s
    <3>1. F[m + 1] = IF m + 1 = 1 THEN s ELSE F[m + 1 - 1] \o s
      BY <2>5
    <3>2. IsSeq(s) /\ Distinct(s)
      BY <1>1
    <3>3. CASE m = 0
      <4>1. F[m + 1] = s /\ m + 1 \in 1 .. m + 1
        BY <3>1, <3>3
      <4> QED  BY <3>2, <4>1
    <3>4. CASE m # 0
      <4>1. m \in 1 .. n /\ m + 1 - 1 = m /\ m + 1 # 1
        BY <1>1, <3>4
      <4>2. IsSeq(t) /\ Distinct(t) /\ \A e \in ToSet(t) : \E k \in 1 .. m : e \in ToSet(seqs[k])
        BY <2>7, <4>1
      <4>3. F[m + 1] = r
        BY <3>1, <4>1
      <4>4. \A k \in 1 .. m : ToSet(seqs[k]) \cap ToSet(s) = {}
        <5>1. \A k \in 1 .. m : k \in DOMAIN seqs /\ m + 1 \in DOMAIN seqs /\ k # m + 1
          BY <1>1, <4>1
        <5> QED  BY <5>1
      <4> HIDE DEF s, t
      <4>5. ToSet(t) \cap ToSet(s) = {}
        BY <4>2, <4>4
      <4>6. IsSeq(r) /\ Distinct(r) /\ ToSet(r) \subseteq ToSet(t) \cup ToSet(s)
        BY <3>2, <4>2, <4>5, ConcatDistinct
      <4> HIDE DEF r
      <4>7. \A k \in 1 .. m : k \in 1 .. m + 1
        OBVIOUS
      <4>8. m + 1 \in 1 .. m + 1
        OBVIOUS
      <4>9. \A e \in ToSet(r) : \E k \in 1 .. m + 1 : e \in ToSet(seqs[k])
        BY <4>2, <4>6, <4>7, <4>8 DEF s
      <4> QED  BY <4>3, <4>6, <4>9
    <3> QED  BY <3>3, <3>4
  <2> HIDE DEF T
  <2>8. Nat \subseteq T
    BY <2>6, <2>7, SetInduction, Zenon
  <2>9. n \in 1 .. n /\ n \in T
    BY <1>1, <1>3, <2>8
  <2> QED  BY <2>4, <2>9 DEF T, all
<1> QED  BY <1>2, <1>3

\* What is left of a sequence that repeats nothing.
LEMMA FilteredDistinct ==
    ASSUME NEW s, IsSeq(s), Distinct(s), NEW kept, kept = [i \in DOMAIN s |-> kept[i]],
           \A i \in DOMAIN s : kept[i] \in {<<s[i]>>, <<>>}
    PROVE  Distinct(FlattenSeq(kept))
PROOF
<1>1. IsSeq(kept) /\ DOMAIN kept = DOMAIN s
  BY MappedIsSeq
<1>2. \A a : IsSeq(<<a>>) /\ Distinct(<<a>>)
  <2> SUFFICES ASSUME NEW a
               PROVE  IsSeq(<<a>>) /\ Distinct(<<a>>)
    OBVIOUS
  <2> DEFINE t == <<a>>
  <2>1. IsSeq(t) /\ DOMAIN t = {1}
    BY TupleIsSeq
  <2> HIDE DEF t
  <2>2. Distinct(t)
    BY <2>1 DEF Distinct
  <2> QED  BY <2>1, <2>2 DEF t
<1>3. IsSeq(<<>>) /\ Distinct(<<>>)
  <2>1. IsSeq(<<>>)
    BY TupleIsSeq
  <2> QED  BY <2>1 DEF Distinct
<1>4. \A i \in DOMAIN kept : IsSeq(kept[i]) /\ Distinct(kept[i])
  BY <1>1, <1>2, <1>3
<1>5. \A a : ToSet(<<a>>) = {a}
  BY SetOfOne
<1>6. ToSet(<<>>) = {}
  BY SetOfOne
<1>7. \A i \in DOMAIN kept : ToSet(kept[i]) \subseteq {s[i]}
  BY <1>1, <1>5, <1>6
<1>8. \A i, j \in DOMAIN kept : i # j => ToSet(kept[i]) \cap ToSet(kept[j]) = {}
  BY <1>1, <1>7 DEF Distinct
<1> QED  BY <1>1, <1>4, <1>8, FlattenDistinct

-----------------------------------------------------------------------------
\* What commands are made of

\* An operation that only adds new objects and sets fields of others.
Good(op) == Writes(NewIds, op) /\ IsOp(op, Limit + IdsPerCommand)

\* The room there is for ids.
LEMMA Room ==
    ASSUME CanvasInv
    PROVE  /\ Limit \in Int /\ Limit >= 10 /\ Limit <= Limit + IdsPerCommand
           /\ Limit + IdsPerCommand \in Nat \ {0}
           /\ \A k \in 1 .. 9 : NewId(k) \in NewIds /\ NewId(k) \in 1 .. (Limit + IdsPerCommand) - 1
           /\ \A x \in 1 .. Limit - 1 : x \notin NewIds
           /\ \A i, j : NewId(i) = NewId(j) /\ i \in Int /\ j \in Int => i = j
PROOF
<1>1. /\ Limit \in Nat \ {0} /\ Limit >= 10
      /\ \A x \in NewIds : x \in 1 .. Limit + IdsPerCommand - 1 /\ x >= Limit
      /\ \A k \in 1 .. 9 : NewId(k) \in NewIds
      /\ IdsPerCommand = 10
  BY NewIdsAre
<1>2. edits \in Nat
  BY DEF CanvasInv
<1>3. \A i, j : NewId(i) = NewId(j) /\ i \in Int /\ j \in Int => i = j
  BY <1>2 DEF NewId, IdsPerCommand
<1> HIDE DEF Limit, NewId
<1>4. \A x \in 1 .. Limit - 1 : x \notin NewIds
  BY <1>1
<1>5. Limit + IdsPerCommand - 1 = (Limit + IdsPerCommand) - 1
  BY <1>1
<1>6. \A x \in NewIds : x \in 1 .. (Limit + IdsPerCommand) - 1
  BY <1>1, <1>5
<1> QED  BY <1>1, <1>3, <1>4, <1>6

\* The creation of a new object,
LEMMA GoodCreate ==
    ASSUME CanvasInv, NEW k \in 1 .. 9, NEW o, IsObject(o, Limit + IdsPerCommand)
    PROVE  Good(Create(NewId(k), o))
PROOF
<1>1. NewId(k) \in NewIds /\ NewId(k) \in 1 .. (Limit + IdsPerCommand) - 1
  BY Room
<1>2. Create(NewId(k), o).type = "create" /\ Create(NewId(k), o).id = NewId(k) /\ Create(NewId(k), o).value = o
  BY OpFields
<1> DEFINE op == Create(NewId(k), o)
<1>3. op.type = "create" /\ op.id = NewId(k) /\ op.value = o
  BY <1>2
<1> HIDE DEF op
<1>4. op.id \in NewIds /\ op.id \in 1 .. (Limit + IdsPerCommand) - 1 /\ IsObject(op.value, Limit + IdsPerCommand)
  BY <1>1, <1>3
<1>5. Writes(NewIds, op)
  BY <1>3, <1>4 DEF Writes
<1> DEFINE m == Limit + IdsPerCommand
<1>6. IsOp(op, m)
  <2>1. op.id \in 1 .. m - 1 /\ IsObject(op.value, m)
    BY <1>4
  <2> HIDE DEF m
  <2> QED  BY <1>3, <2>1 DEF IsOp
<1> QED  BY <1>5, <1>6 DEF op, Good

\* and the update of one that is there.
LEMMA GoodUpdate ==
    ASSUME CanvasInv, NEW x \in 1 .. Limit - 1, NEW path, NEW v, FieldOk(path, v, Limit + IdsPerCommand),
           path \in {"fromId", "toId"} => v < Limit
    PROVE  Good(Update(x, path, v))
PROOF
<1>1. x \notin NewIds
  BY Room
<1>2. /\ Update(x, path, v).type = "update" /\ Update(x, path, v).id = x
      /\ Update(x, path, v).path = path /\ Update(x, path, v).value = v
  BY OpFields
<1>3. path \in {"fromId", "toId"} => v \notin NewIds
  <2>1. SUFFICES ASSUME path \in {"fromId", "toId"}, v \in NewIds
                 PROVE  FALSE
    OBVIOUS
  <2>2. v \in 1 .. (Limit + IdsPerCommand) - 1 /\ v >= Limit
    BY <2>1, NewIdsAre
  <2>3. v < Limit /\ Limit \in Int
    BY <2>1, Room
  <2> HIDE DEF Limit
  <2> QED  BY <2>2, <2>3
<1> QED  BY <1>1, <1>2, <1>3 DEF Good, Writes, IsOp

\* One batch of such operations, or a batch for each.
LEMMA GoodBatches ==
    ASSUME NEW ops, IsSeq(ops), \A op \in ToSet(ops) : Good(op)
    PROVE  Writing(<<ops>>) /\ Writing(Singly(ops))
PROOF
<1>1. Batched(<<ops>>) /\ Batched(Singly(ops))
  BY FewBatches, SinglyBatched
<1>2. DOMAIN <<ops>> = {1} /\ <<ops>>[1] = ops
  BY TupleIsSeq
<1>3. Writing(<<ops>>)
  BY <1>1, <1>2 DEF Writing, Good
<1>4. DOMAIN Singly(ops) = DOMAIN ops /\ \A i \in DOMAIN ops : Singly(ops)[i] = <<ops[i]>>
  BY DEF Singly
<1>5. \A a : ToSet(<<a>>) = {a}
  BY SetOfOne
<1>6. \A i \in DOMAIN Singly(ops) : \A op \in ToSet(Singly(ops)[i]) : op = ops[i] /\ op \in ToSet(ops)
  BY <1>4, <1>5 DEF ToSet
<1> HIDE DEF Singly
<1>7. Writing(Singly(ops))
  BY <1>1, <1>6 DEF Writing, Good
<1> QED  BY <1>3, <1>7

\* One batch of one operation, of two, and two batches of one.
LEMMA FewGood ==
    ASSUME NEW a, Good(a), NEW b, Good(b)
    PROVE  Writing(<<<<a>>>>) /\ Writing(<<<<a, b>>>>) /\ Writing(<<<<a>>, <<b>>>>)
PROOF
<1>1. IsSeq(<<a>>) /\ IsSeq(<<a, b>>)
  BY TupleIsSeq
<1>2. ToSet(<<a>>) = {a} /\ ToSet(<<a, b>>) = {a, b}
  BY SetOfOne
<1>3. Writing(<<<<a>>>>) /\ Writing(<<<<a, b>>>>) /\ Writing(Singly(<<a, b>>))
  BY <1>1, <1>2, GoodBatches
<1>4. Singly(<<a, b>>) = <<<<a>>, <<b>>>>
  BY DEF Singly
<1> QED  BY <1>3, <1>4

\* What is picked when a command has made new objects.
LEMMA PickedNew ==
    ASSUME CanvasInv, NEW s, IsSeq(s), Len(s) <= 9, \A i \in DOMAIN s : s[i] = NewId(i)
    PROVE  Picked(s, Limit + IdsPerCommand)
PROOF
<1>1. Len(s) \in Nat /\ DOMAIN s = 1 .. Len(s)
  BY SeqIsFunction
<1>2. \A i \in DOMAIN s : i \in 1 .. 9 /\ i \in Int
  BY <1>1
<1>r. /\ \A k \in 1 .. 9 : NewId(k) \in 1 .. (Limit + IdsPerCommand) - 1
      /\ \A i, j : NewId(i) = NewId(j) /\ i \in Int /\ j \in Int => i = j
  BY Room
<1> HIDE DEF Limit, NewId
<1>3. \A i \in DOMAIN s : s[i] \in 1 .. (Limit + IdsPerCommand) - 1
  BY <1>2, <1>r
<1>4. Distinct(s)
  BY <1>2, <1>r DEF Distinct
<1>5. IsSeq(s)
  OBVIOUS
<1> DEFINE m == Limit + IdsPerCommand
<1>6. \A i \in DOMAIN s : s[i] \in 1 .. m - 1
  BY <1>3
<1> HIDE DEF m
<1>7. Picked(s, m)
  BY <1>4, <1>5, <1>6 DEF Picked
<1> QED  BY <1>7 DEF m

\* One of them.
LEMMA PickedOne ==
    ASSUME NEW n, NEW x \in 1 .. n - 1
    PROVE  Picked(<<x>>, n)
PROOF
<1>1. IsSeq(<<x>>) /\ DOMAIN <<x>> = {1} /\ <<x>>[1] = x
  BY TupleIsSeq
<1> QED  BY <1>1 DEF Picked, Distinct

\* What was picked may stay picked.
LEMMA PickedStill ==
    ASSUME CanvasInv
    PROVE  Picked(selected, Limit + IdsPerCommand) /\ Picked(<<NewId(1)>>, Limit + IdsPerCommand)
PROOF
<1>1. Limit \in Int /\ Limit + IdsPerCommand \in Int /\ Limit <= Limit + IdsPerCommand
  BY Room
<1>2. Picked(selected, Limit)
  BY DEF CanvasInv
<1>3. NewId(1) \in 1 .. (Limit + IdsPerCommand) - 1
  BY Room
<1> DEFINE m == Limit + IdsPerCommand
<1>4. m \in Int /\ Limit <= m
  BY <1>1
<1>7. NewId(1) \in 1 .. m - 1
  BY <1>3
<1> HIDE DEF m, Limit, NewId
<1>5. Picked(selected, m)
  BY ONLY <1>1, <1>2, <1>4, PickedMore
<1>6. Picked(<<NewId(1)>>, m)
  BY ONLY <1>7, PickedOne
<1> QED  BY <1>5, <1>6 DEF m

-----------------------------------------------------------------------------
\* What objects and boxes are made of

\* The fields of an object.
LEMMA FieldsOf ==
    ASSUME NEW n, NEW o, IsObject(o, n)
    PROVE  /\ o.x \in Int /\ o.y \in Int /\ o.w \in Int /\ o.h \in Int /\ o.z \in Int
           /\ o.parentId \in Int /\ o.parentId < n
           /\ o.fromId \in Int /\ o.fromId < n /\ o.toId \in Int /\ o.toId < n
           /\ o.points \in Seq(Points) /\ o.fromSide \in ToSet(Sides) /\ o.toSide \in ToSet(Sides)
           /\ o.fromOffset \in Int /\ o.toOffset \in Int
           /\ Measured(o) /\ ObjectAABB(o) \in Boxes
PROOF
<1>1. \A f \in Fields : FieldOk(f, o[f], n)
  BY DEF IsObject
<1>2. /\ o.x \in Int /\ o.y \in Int /\ o.w \in Int /\ o.h \in Int /\ o.z \in Int
      /\ o.fromOffset \in Int /\ o.toOffset \in Int
  BY <1>1, FieldsAre DEF FieldOk
<1>3. /\ o.parentId \in Int /\ o.parentId < n
      /\ o.fromId \in Int /\ o.fromId < n /\ o.toId \in Int /\ o.toId < n
  BY <1>1, FieldsAre DEF FieldOk
<1>4. o.points \in Seq(Points) /\ o.fromSide \in ToSet(Sides) /\ o.toSide \in ToSet(Sides)
  BY <1>1, FieldsAre DEF FieldOk
<1>5. Measured(o)
  BY <1>2, <1>4 DEF Measured
<1> QED  BY <1>2, <1>3, <1>4, <1>5, BoxOfObject

\* A new object of a type, at a place.
LEMMA NewObject ==
    ASSUME NEW n \in Nat, NEW type, NEW b, b \in Boxes, NEW z \in Int
    PROVE  IsObject(ObjectOf(type, b, z), n)
PROOF
<1> DEFINE o == ObjectOf(type, b, z)
<1>1. b.x \in Int /\ b.y \in Int /\ b.w \in Int /\ b.h \in Int
  BY DEF Boxes
<1>2. /\ o.x = b.x /\ o.y = b.y /\ o.w = b.w /\ o.h = b.h /\ o.z = z
      /\ o.parentId = -1 /\ o.fromId = -1 /\ o.toId = -1
      /\ o.fromSide = "right" /\ o.toSide = "left" /\ o.fromOffset = 2 /\ o.toOffset = 2
      /\ o.points = <<>>
  BY DEF ObjectOf, Blank, Unset, Half
<1>3. o = [f \in Fields |-> o[f]]
  BY DEF ObjectOf, Blank, Fields
<1>4. <<>> \in Seq(Points)
  OBVIOUS
<1>5. "right" \in ToSet(Sides) /\ "left" \in ToSet(Sides)
  BY FourSides
<1> HIDE DEF o
<1>6. \A f \in {"parentId", "fromId", "toId"} : o[f] \in Int /\ o[f] < n
  BY <1>2
<1>7. \A f \in {"x", "y", "w", "h", "z", "fromOffset", "toOffset"} : o[f] \in Int
  BY <1>1, <1>2
<1>8. \A f \in {"fromSide", "toSide"} : o[f] \in ToSet(Sides)
  BY <1>2, <1>5
<1>9. o["points"] \in Seq(Points)
  BY <1>2, <1>4
<1>10. \A f \in Fields : FieldOk(f, o[f], n)
  BY ONLY <1>6, <1>7, <1>8, <1>9, Zenon DEF FieldOk
<1> QED  BY <1>3, <1>10 DEF IsObject, o

\* A new connector.
LEMMA NewConnector ==
    ASSUME NEW n \in Nat, NEW from \in Int, from < n, NEW to \in Int, to < n, NEW z \in Int
    PROVE  IsObject(ConnectorOf(from, to, z), n)
PROOF
<1> DEFINE o == ConnectorOf(from, to, z)
<1>2. /\ o.x = 0 /\ o.y = 0 /\ o.w = Px /\ o.h = Px /\ o.z = z
      /\ o.parentId = -1 /\ o.fromId = from /\ o.toId = to
      /\ o.fromSide = "right" /\ o.toSide = "left" /\ o.fromOffset = 2 /\ o.toOffset = 2
      /\ o.points = <<>>
  BY DEF ConnectorOf, Blank, Unset, Half
<1>3. o = [f \in Fields |-> o[f]]
  BY DEF ConnectorOf, Blank, Fields
<1>4. <<>> \in Seq(Points)
  OBVIOUS
<1>5. "right" \in ToSet(Sides) /\ "left" \in ToSet(Sides)
  BY FourSides
<1> HIDE DEF o
<1>6. \A f \in {"parentId", "fromId", "toId"} : o[f] \in Int /\ o[f] < n
  BY <1>2
<1>7. \A f \in {"x", "y", "w", "h", "z", "fromOffset", "toOffset"} : o[f] \in Int
  BY <1>2, PxAssumption
<1>8. \A f \in {"fromSide", "toSide"} : o[f] \in ToSet(Sides)
  BY <1>2, <1>5
<1>9. o["points"] \in Seq(Points)
  BY <1>2, <1>4
<1>10. \A f \in Fields : FieldOk(f, o[f], n)
  BY ONLY <1>6, <1>7, <1>8, <1>9, Zenon DEF FieldOk
<1> QED  BY <1>3, <1>10 DEF IsObject, o

\* An object with another value in a field.
LEMMA SetObject ==
    ASSUME NEW n \in Int, NEW o, IsObject(o, n)
    PROVE  /\ \A v : v \in Int /\ v < n => IsObject([o EXCEPT !.parentId = v], n)
           /\ \A v : v \in Int => IsObject([o EXCEPT !.x = v], n) /\ IsObject([o EXCEPT !.y = v], n)
           /\ \A v : v \in Seq(Points) => IsObject([o EXCEPT !.points = v], n)
           /\ \A v : IsObject([o EXCEPT !.cornerRadius = v], n)
PROOF
<1>1. ASSUME NEW v, v \in Int, v < n
      PROVE  IsObject([o EXCEPT !.parentId = v], n)
  <2>1. FieldOk("parentId", v, n)
    BY <1>1 DEF FieldOk
  <2> QED  BY <2>1, FieldSet DEF With
<1>2. ASSUME NEW v, v \in Int
      PROVE  IsObject([o EXCEPT !.x = v], n) /\ IsObject([o EXCEPT !.y = v], n)
  <2>1. FieldOk("x", v, n) /\ FieldOk("y", v, n)
    BY <1>2 DEF FieldOk
  <2>2. IsObject(With(o, "x", v), n) /\ IsObject(With(o, "y", v), n)
    BY <2>1, FieldSet
  <2> QED  BY <2>2 DEF With
<1>3. ASSUME NEW v, v \in Seq(Points)
      PROVE  IsObject([o EXCEPT !.points = v], n)
  <2>1. FieldOk("points", v, n)
    BY <1>3 DEF FieldOk
  <2> QED  BY <2>1, FieldSet DEF With
<1>4. ASSUME NEW v
      PROVE  IsObject([o EXCEPT !.cornerRadius = v], n)
  <2>1. FieldOk("cornerRadius", v, n)
    BY DEF FieldOk
  <2> QED  BY <2>1, FieldSet DEF With
<1> QED  BY <1>1, <1>2, <1>3, <1>4

\* There are finitely many objects, and the next z is a number.
LEMMA OfBoard ==
    ASSUME NEW n \in Nat \ {0}, NEW objs, IsBoard(objs, n)
    PROVE  /\ IsFiniteSet(DOMAIN objs) /\ DOMAIN objs \in SUBSET Int
           /\ \A x \in DOMAIN objs : x \in 1 .. n - 1 /\ IsObject(objs[x], n)
           /\ NextZ(objs) \in Int
PROOF
<1>1. \A x \in DOMAIN objs : x \in 1 .. n - 1 /\ IsObject(objs[x], n)
  BY DEF IsBoard
<1>2. IsFiniteSet(1 .. n - 1)
  BY FS_Interval
<1>3. DOMAIN objs \in SUBSET (1 .. n - 1)
  BY <1>1
<1>4. IsFiniteSet(DOMAIN objs)
  BY <1>2, <1>3, FS_Subset
<1> DEFINE Z == {objs[x].z + 1 : x \in DOMAIN objs}
           f == [x \in DOMAIN objs |-> objs[x].z + 1]
<1>5. f \in Surjection(DOMAIN objs, Z)
  BY DEF Surjection
<1>6. IsFiniteSet(Z)
  BY <1>4, <1>5, FS_Surjection
<1>7. Z \in SUBSET Int
  BY <1>1, FieldsOf
<1> HIDE DEF Z, f
<1>8. IsFiniteSet(Z \cup {0})
  BY <1>6, FS_AddElement
<1>9. {0} \cup Z = Z \cup {0}
  OBVIOUS
<1> DEFINE A == {0} \cup Z
<1>10. A \in SUBSET Int /\ IsFiniteSet(A) /\ A # {}
  BY <1>7, <1>8, <1>9
<1> HIDE DEF A
<1>11. Max(A) \in A /\ A \in SUBSET Int
  BY <1>10, Extremes
<1>12. Max({0} \cup Z) \in Int
  BY <1>11 DEF A
<1> QED  BY <1>1, <1>3, <1>4, <1>12 DEF NextZ, Z

\* What is on the board now.
LEMMA BoardHere ==
    ASSUME CanvasInv
    PROVE  /\ IsFiniteSet(DOMAIN objects) /\ DOMAIN objects \in SUBSET Int
           /\ \A x \in DOMAIN objects :
                 x \in 1 .. Limit - 1 /\ IsObject(objects[x], Limit) /\ IsObject(objects[x], Limit + IdsPerCommand)
           /\ NextZ(objects) \in Int
           /\ Spots \subseteq Points
PROOF
<1>1. IsBoard(objects, Limit) /\ Limit \in Nat \ {0}
  BY NewIdsAre DEF CanvasInv
<1>2. Limit \in Int /\ Limit + IdsPerCommand \in Int /\ Limit <= Limit + IdsPerCommand
  BY Room
<1>3. /\ IsFiniteSet(DOMAIN objects) /\ DOMAIN objects \in SUBSET Int
      /\ \A x \in DOMAIN objects : x \in 1 .. Limit - 1 /\ IsObject(objects[x], Limit)
      /\ NextZ(objects) \in Int
  BY ONLY <1>1, OfBoard
<1>4. \A x \in DOMAIN objects : IsObject(objects[x], Limit + IdsPerCommand)
  BY ONLY <1>2, <1>3, ObjectMore
<1>5. Spots \subseteq Points
  BY ScriptsAssumption DEF CanvasInv, Spots
<1> QED  BY <1>3, <1>4, <1>5

\* Objects made now,
LEMMA Fresh ==
    ASSUME CanvasInv
    PROVE  /\ \A type, b, z : b \in Boxes /\ z \in Int => IsObject(ObjectOf(type, b, z), Limit + IdsPerCommand)
           /\ \A from, to, z : from \in Int /\ from < Limit + IdsPerCommand /\ to \in Int /\ to < Limit + IdsPerCommand
                 /\ z \in Int => IsObject(ConnectorOf(from, to, z), Limit + IdsPerCommand)
PROOF
<1> DEFINE m == Limit + IdsPerCommand
<1>1. m \in Nat
  BY Room
<1> HIDE DEF m
<1>2. \A type, b, z : b \in Boxes /\ z \in Int => IsObject(ObjectOf(type, b, z), m)
  BY <1>1, NewObject
<1>3. \A from, to, z : from \in Int /\ from < m /\ to \in Int /\ to < m
         /\ z \in Int => IsObject(ConnectorOf(from, to, z), m)
  BY <1>1, NewConnector
<1> QED  BY <1>2, <1>3 DEF m

\* and changed.
LEMMA FreshSet ==
    ASSUME CanvasInv, NEW o, IsObject(o, Limit + IdsPerCommand)
    PROVE  /\ \A v : v \in Int /\ v < Limit + IdsPerCommand => IsObject([o EXCEPT !.parentId = v], Limit + IdsPerCommand)
           /\ \A v : v \in Int => /\ IsObject([o EXCEPT !.x = v], Limit + IdsPerCommand)
                                  /\ IsObject([o EXCEPT !.y = v], Limit + IdsPerCommand)
           /\ \A v : v \in Seq(Points) => IsObject([o EXCEPT !.points = v], Limit + IdsPerCommand)
           /\ \A v : IsObject([o EXCEPT !.cornerRadius = v], Limit + IdsPerCommand)
PROOF
<1> DEFINE m == Limit + IdsPerCommand
<1>1. m \in Int /\ IsObject(o, m)
  BY Room
<1> HIDE DEF m
<1>2. /\ \A v : v \in Int /\ v < m => IsObject([o EXCEPT !.parentId = v], m)
      /\ \A v : v \in Int => IsObject([o EXCEPT !.x = v], m) /\ IsObject([o EXCEPT !.y = v], m)
      /\ \A v : v \in Seq(Points) => IsObject([o EXCEPT !.points = v], m)
      /\ \A v : IsObject([o EXCEPT !.cornerRadius = v], m)
  BY ONLY <1>1, SetObject
<1> QED  BY <1>2 DEF m

-----------------------------------------------------------------------------
\* The commands

\* A command that makes one object and picks it.
LEMMA OneMade ==
    ASSUME HistoryInv, CanvasInv, NEW name, NEW o, IsObject(o, Limit + IdsPerCommand),
           Edit(name, <<<<Create(NewId(1), o)>>>>, <<NewId(1)>>)
    PROVE  Kept
PROOF
<1>1. Good(Create(NewId(1), o))
  <2>1. 1 \in 1 .. 9
    OBVIOUS
  <2> QED  BY ONLY <2>1, CanvasInv, IsObject(o, Limit + IdsPerCommand), GoodCreate
<1>2. Writing(<<<<Create(NewId(1), o)>>>>)
  BY <1>1, FewGood
<1>3. Picked(<<NewId(1)>>, Limit + IdsPerCommand)
  BY PickedStill
<1> DEFINE batches == <<<<Create(NewId(1), o)>>>>
           sel == <<NewId(1)>>
<1>4. Edit(name, batches, sel) /\ (Writing(batches) \/ Deleting(batches)) /\ Picked(sel, Limit + IdsPerCommand)
  BY <1>2, <1>3
<1> HIDE DEF batches, sel
<1> QED  BY <1>4, EditKept

LEMMA SplineKept ==
    ASSUME HistoryInv, CanvasInv, NEW p \in Points, NEW q \in Points, CommitSpline(p, q)
    PROVE  Kept
PROOF
<1> DEFINE corner == Pt(MinOf(p.x, q.x), MinOf(p.y, q.y))
           rel(r) == Pt(r.x - corner.x, r.y - corner.y)
           b == Box(corner.x, corner.y, Px, Px)
           o == ObjectOf("spline", b, NextZ(objects))
           line == <<rel(p), rel(q)>>
<1>1. p.x \in Int /\ p.y \in Int /\ q.x \in Int /\ q.y \in Int
  BY DEF Points
<1>2. corner \in Points /\ corner.x \in Int /\ corner.y \in Int
  BY <1>1 DEF Points, Pt, MinOf
<1>3. b \in Boxes
  BY <1>2, PxAssumption DEF Boxes, Box
<1>4. rel(p) \in Points /\ rel(q) \in Points
  <2> HIDE DEF corner
  <2> QED  BY <1>1, <1>2 DEF Points, Pt
<1>5. line \in Seq(Points)
  <2> HIDE DEF rel
  <2> QED  BY <1>4
<1>6. Edit("spline", <<<<Create(NewId(1), [o EXCEPT !.points = line])>>>>, <<NewId(1)>>)
  BY DEF CommitSpline
<1> HIDE DEF b, line
<1>7. IsObject(o, Limit + IdsPerCommand)
  BY <1>3, Fresh, BoardHere
<1> HIDE DEF o
<1>8. IsObject([o EXCEPT !.points = line], Limit + IdsPerCommand)
  BY <1>5, <1>7, FreshSet
<1> DEFINE made == [o EXCEPT !.points = line]
<1> HIDE DEF made
<1> QED  BY <1>6, <1>8, OneMade DEF made

LEMMA PlaceKept ==
    ASSUME HistoryInv, CanvasInv, NEW kind \in {"text", "sticker", "postit"}, NEW p \in Points, Place(kind, p)
    PROVE  Kept
PROOF
<1>1. p.x \in Int /\ p.y \in Int
  BY DEF Points
<1> DEFINE b == PlacedBox(kind, p)
           o == ObjectOf(kind, b, NextZ(objects))
<1>2. b \in Boxes
  <2>1. CASE kind = "text"
    BY <1>1, <2>1, PxAssumption DEF PlacedBox, Boxes, Box
  <2>2. CASE kind = "sticker"
    BY <1>1, <2>2, PxAssumption DEF PlacedBox, Boxes, Box
  <2>3. CASE kind = "postit"
    BY <1>1, <2>3, PxAssumption DEF PlacedBox, Boxes, Box
  <2> QED  BY <2>1, <2>2, <2>3
<1>3. Edit("place", <<<<Create(NewId(1), o)>>>>, <<NewId(1)>>)
  BY DEF Place
<1> HIDE DEF b
<1>4. IsObject(o, Limit + IdsPerCommand)
  BY <1>2, Fresh, BoardHere
<1> HIDE DEF o
<1> QED  BY <1>3, <1>4, OneMade

LEMMA ConnectKept ==
    ASSUME HistoryInv, CanvasInv, NEW x \in DOMAIN objects, NEW y \in DOMAIN objects, Connect(x, y)
    PROVE  Kept
PROOF
<1> DEFINE o == ConnectorOf(x, y, NextZ(objects))
<1>1. x \in 1 .. Limit - 1 /\ y \in 1 .. Limit - 1 /\ NextZ(objects) \in Int
  BY BoardHere
<1>2. Limit \in Int /\ Limit <= Limit + IdsPerCommand /\ Limit + IdsPerCommand \in Int
  BY Room
<1>3. x \in Int /\ y \in Int /\ x < Limit + IdsPerCommand /\ y < Limit + IdsPerCommand
  <2> DEFINE m == Limit + IdsPerCommand
  <2>1. Limit \in Int /\ Limit <= m /\ m \in Int
    BY <1>2
  <2> HIDE DEF m, Limit
  <2>2. x \in Int /\ y \in Int /\ x < m /\ y < m
    BY <1>1, <2>1
  <2> QED  BY <2>2 DEF m
<1>4. IsObject(o, Limit + IdsPerCommand)
  BY <1>1, <1>3, Fresh
<1>5. Edit("connect", <<<<Create(NewId(1), o)>>>>, <<NewId(1)>>)
  BY DEF Connect
<1> HIDE DEF o
<1> QED  BY <1>4, <1>5, OneMade

\* A command that makes new objects and sets fields of others.
LEMMA WroteKept ==
    ASSUME HistoryInv, CanvasInv, NEW name, NEW batches, NEW sel, Edit(name, batches, sel),
           Writing(batches), Picked(sel, Limit + IdsPerCommand)
    PROVE  Kept
  BY EditKept

LEMMA MindmapKept ==
    ASSUME HistoryInv, CanvasInv, GrowMindmap
    PROVE  Kept
PROOF
<1> DEFINE x == MindmapParent
           p == objects[x]
           branches == {c \in DOMAIN objects : objects[c].type = "connector" /\ objects[c].fromId = x}
           node == Box(p.x + p.w + 48 * Px, p.y + Cardinality(branches) * (72 + 20) * Px, 160 * Px, 72 * Px)
           z == NextZ(objects)
           a == Create(NewId(1), ObjectOf("postit", node, z))
           b == Create(NewId(2), ConnectorOf(x, NewId(1), z + 1))
<1>1. x # NoParent /\ Edit("mindmap", <<<<a, b>>>>, <<NewId(1)>>)
  BY DEF GrowMindmap
<1>2. x \in DOMAIN objects
  <2>1. x = selected[1] /\ Len(selected) = 1 /\ Unconnected(objects, ToSet(selected)) # {}
    BY <1>1 DEF MindmapParent
  <2>2. PICK y \in ToSet(selected) : y \in DOMAIN objects
    BY <2>1 DEF Unconnected
  <2>3. DOMAIN selected = 1 .. 1
    <3>1. IsSeq(selected)
      BY DEF CanvasInv, Picked
    <3> QED  BY <2>1, <3>1, SeqIsFunction
  <2>4. y = selected[1]
    BY <2>2, <2>3 DEF ToSet
  <2> QED  BY <2>1, <2>2, <2>4
<1>3. p.x \in Int /\ p.y \in Int /\ p.w \in Int /\ p.h \in Int
  BY <1>2, BoardHere, FieldsOf
<1>4. Cardinality(branches) \in Nat
  <2>1. branches \in SUBSET DOMAIN objects /\ IsFiniteSet(DOMAIN objects)
    BY BoardHere
  <2> HIDE DEF branches
  <2>2. IsFiniteSet(branches)
    BY <2>1, FS_Subset
  <2> QED  BY <2>2, FS_CardinalityType
<1>5. node \in Boxes
  <2> DEFINE k == Cardinality(branches)
             y == k * (72 + 20) * Px
  <2>1. k \in Int /\ Px \in Int
    BY <1>4, PxAssumption
  <2> HIDE DEF k
  <2>2. y \in Int
    BY <2>1
  <2> HIDE DEF y
  <2>3. Box(p.x + p.w + 48 * Px, p.y + y, 160 * Px, 72 * Px) \in Boxes
    <3> HIDE DEF p
    <3> QED  BY <1>3, <2>1, <2>2 DEF Boxes, Box
  <2> QED  BY <2>3 DEF y, k
<1>6. z \in Int /\ z + 1 \in Int
  BY BoardHere
<1> HIDE DEF p, branches, node, z
<1>7. IsObject(ObjectOf("postit", node, z), Limit + IdsPerCommand)
  BY <1>5, <1>6, Fresh
<1>8. IsObject(ConnectorOf(x, NewId(1), z + 1), Limit + IdsPerCommand)
  <2> DEFINE m == Limit + IdsPerCommand
  <2>1. /\ x \in 1 .. Limit - 1 /\ Limit \in Int /\ Limit <= m /\ m \in Int
        /\ NewId(1) \in 1 .. m - 1
    BY <1>2, BoardHere, Room
  <2> HIDE DEF m, Limit, x, NewId
  <2>2. x \in Int /\ x < m /\ NewId(1) \in Int /\ NewId(1) < m
    BY <2>1
  <2> QED  BY <1>6, <2>2, Fresh DEF m
<1> HIDE DEF x
<1>9. Good(a) /\ Good(b)
  <2>1. 1 \in 1 .. 9 /\ 2 \in 1 .. 9
    OBVIOUS
  <2> DEFINE o == ObjectOf("postit", node, z)
             c == ConnectorOf(x, NewId(1), z + 1)
  <2>2. IsObject(o, Limit + IdsPerCommand) /\ IsObject(c, Limit + IdsPerCommand)
    BY <1>7, <1>8
  <2> HIDE DEF o, c
  <2>3. Good(Create(NewId(1), o)) /\ Good(Create(NewId(2), c))
    BY <2>1, <2>2, GoodCreate
  <2> QED  BY <2>3 DEF o, c
<1> HIDE DEF a, b
<1>10. Writing(<<<<a, b>>>>)
  BY <1>9, FewGood
<1> DEFINE batches == <<<<a, b>>>>
           sel == <<NewId(1)>>
<1>11. Edit("mindmap", batches, sel) /\ Writing(batches) /\ Picked(sel, Limit + IdsPerCommand)
  BY <1>1, <1>10, PickedStill
<1> HIDE DEF batches, sel
<1> QED  BY <1>11, WroteKept

\* The container found under a point is one of the objects, and one of those under it.
LEMMA ContainerFound ==
    ASSUME NEW n \in Nat \ {0}, NEW objs, IsBoard(objs, n), NEW p, NEW moving
    PROVE  /\ ContainerAt(objs, p, moving) \in DOMAIN objs \cup {NoParent}
           /\ ContainerAt(objs, p, moving) \in ContainersAt(objs, p, moving) \cup {NoParent}
PROOF
<1> DEFINE hits == ContainersAt(objs, p, moving)
           d == [x \in hits |-> objs[x].w * objs[x].h]
<1>1. hits \in SUBSET DOMAIN objs
  BY DEF ContainersAt
<1>2. IsFiniteSet(DOMAIN objs) /\ DOMAIN objs \in SUBSET Int /\ \A x \in DOMAIN objs : IsObject(objs[x], n)
  BY OfBoard
<1> HIDE DEF hits
<1>3. CASE hits = {}
  BY <1>3 DEF ContainerAt, hits
<1>4. CASE hits # {}
  <2>1. IsFiniteSet(hits) /\ hits \in SUBSET Int
    BY <1>1, <1>2, FS_Subset
  <2>2. \A x \in hits : d[x] \in Int
    <3>1. SUFFICES ASSUME NEW x \in hits
                   PROVE  objs[x].w * objs[x].h \in Int
      OBVIOUS
    <3>2. objs[x].w \in Int /\ objs[x].h \in Int
      BY <1>1, <1>2, FieldsOf
    <3> QED  BY <3>2
  <2>3. \A x \in hits : d[x] = objs[x].w * objs[x].h
    OBVIOUS
  <2> HIDE DEF d
  <2>4. \E x \in hits : \A y \in hits : d[x] < d[y] \/ (d[x] = d[y] /\ x <= y)
    BY <1>4, <2>1, <2>2, Least
  <2>5. \E x \in hits : \A y \in hits :
           objs[x].w * objs[x].h < objs[y].w * objs[y].h
           \/ (objs[x].w * objs[x].h = objs[y].w * objs[y].h /\ x <= y)
    BY ONLY <2>3, <2>4, Zenon
  <2>6. ContainerAt(objs, p, moving) =
           CHOOSE x \in hits : \A y \in hits :
              objs[x].w * objs[x].h < objs[y].w * objs[y].h
              \/ (objs[x].w * objs[x].h = objs[y].w * objs[y].h /\ x <= y)
    BY <1>4, Zenon DEF ContainerAt, hits
  <2>7. ContainerAt(objs, p, moving) \in hits
    BY ONLY <2>5, <2>6, Zenon
  <2> QED  BY <1>1, <2>7 DEF hits
<1> QED  BY <1>3, <1>4

LEMMA ImagesKept ==
    ASSUME HistoryInv, CanvasInv, NEW p \in Points, AddImages(p, 2)
    PROVE  Kept
PROOF
<1> DEFINE at(i) == Box(p.x - 120 * Px + (i - 1) * 24 * Px, p.y - 90 * Px + (i - 1) * 24 * Px, 240 * Px, 180 * Px)
           host(i) == ContainerAt(objects, CenterOf(ObjectOf("image", at(i), 0)), {})
           plain(i) == ObjectOf("image", at(i), NextZ(objects) + i - 1)
           parent(i) == IF host(i) = NoParent THEN Unset ELSE host(i)
           o(i) == [plain(i) EXCEPT !.parentId = parent(i)]
           ops == [i \in 1 .. 2 |-> Create(NewId(i), o(i))]
           sel == [i \in 1 .. 2 |-> NewId(i)]
<1>1. Edit("images", <<ops>>, sel)
  BY DEF AddImages
<1>2. ASSUME NEW i \in 1 .. 2
      PROVE  Good(Create(NewId(i), o(i)))
  <2>1. at(i) \in Boxes
    BY PxAssumption DEF Boxes, Box, Points
  <2>2. NextZ(objects) + i - 1 \in Int
    BY BoardHere
  <2> HIDE DEF at
  <2>3. IsObject(plain(i), Limit + IdsPerCommand)
    BY <2>1, <2>2, Fresh
  <2>4. host(i) \in DOMAIN objects \cup {NoParent}
    BY ContainerFound, NewIdsAre DEF CanvasInv
  <2> HIDE DEF host
  <2>5. parent(i) \in Int /\ parent(i) < Limit + IdsPerCommand
    <3> DEFINE m == Limit + IdsPerCommand
    <3>1. Limit \in Int /\ Limit <= m /\ m \in Int /\ Limit >= 10 /\ \A x \in DOMAIN objects : x \in 1 .. Limit - 1
      BY Room, BoardHere
    <3> HIDE DEF Limit, m
    <3>2. parent(i) \in Int /\ parent(i) < m
      BY <2>4, <3>1 DEF NoParent, Unset
    <3> QED  BY <3>2 DEF m
  <2> HIDE DEF parent, plain
  <2>6. IsObject(o(i), Limit + IdsPerCommand)
    BY <2>3, <2>5, FreshSet
  <2>7. i \in 1 .. 9
    OBVIOUS
  <2> HIDE DEF o
  <2> QED  BY <2>6, <2>7, GoodCreate
<1> HIDE DEF o
<1>3. IsSeq(ops) /\ DOMAIN ops = 1 .. 2 /\ IsSeq(sel) /\ DOMAIN sel = 1 .. 2 /\ Len(sel) = 2
  BY FunctionIsSeq
<1>4. \A op \in ToSet(ops) : Good(op)
  BY <1>2, <1>3 DEF ToSet
<1>5. \A i \in DOMAIN sel : sel[i] = NewId(i)
  OBVIOUS
<1> HIDE DEF ops, sel
<1>6. Writing(<<ops>>)
  BY <1>3, <1>4, GoodBatches
<1>7. Len(sel) <= 9
  BY <1>3
<1>8. Picked(sel, Limit + IdsPerCommand)
  BY <1>3, <1>5, <1>7, PickedNew
<1> DEFINE batches == <<ops>>
<1>9. Writing(batches) /\ Edit("images", batches, sel)
  BY <1>1, <1>6
<1> HIDE DEF batches
<1> QED  BY <1>8, <1>9, WroteKept

\* Of three and of four.
LEMMA SetOfFew ==
    /\ \A a, b, c : IsSeq(<<a, b, c>>) /\ ToSet(<<a, b, c>>) = {a, b, c}
    /\ \A a, b, c, d : IsSeq(<<a, b, c, d>>) /\ ToSet(<<a, b, c, d>>) = {a, b, c, d}
PROOF
<1>1. ASSUME NEW a, NEW b, NEW c
      PROVE  IsSeq(<<a, b, c>>) /\ ToSet(<<a, b, c>>) = {a, b, c}
  <2> DEFINE s == <<a, b, c>>
  <2>1. s \in Seq({a, b, c})
    OBVIOUS
  <2>2. DOMAIN s = {1, 2, 3} /\ s[1] = a /\ s[2] = b /\ s[3] = c
    OBVIOUS
  <2> HIDE DEF s
  <2>3. IsSeq(s)
    BY <2>1 DEF IsSeq
  <2>4. ToSet(s) = {a, b, c}
    BY <2>2 DEF ToSet
  <2> QED  BY <2>3, <2>4 DEF s
<1>2. ASSUME NEW a, NEW b, NEW c, NEW d
      PROVE  IsSeq(<<a, b, c, d>>) /\ ToSet(<<a, b, c, d>>) = {a, b, c, d}
  <2> DEFINE s == <<a, b, c, d>>
  <2>1. s \in Seq({a, b, c, d})
    OBVIOUS
  <2>2. DOMAIN s = {1, 2, 3, 4} /\ s[1] = a /\ s[2] = b /\ s[3] = c /\ s[4] = d
    OBVIOUS
  <2> HIDE DEF s
  <2>3. IsSeq(s)
    BY <2>1 DEF IsSeq
  <2>4. ToSet(s) = {a, b, c, d}
    BY <2>2 DEF ToSet
  <2> QED  BY <2>3, <2>4 DEF s
<1> QED  BY <1>1, <1>2

\* The port a dragged end goes to is one of a shape of the board.
LEMMA NearestFound ==
    ASSUME CanvasInv, NEW p \in Points, PortsNear(objects, p) # {}
    PROVE  LET to == NearestShapePort(objects, p) IN
           to.id \in DOMAIN objects /\ to.port.side \in ToSet(Sides) /\ to.port.offset \in Int
PROOF
<1> DEFINE near == PortsNear(objects, p)
           d == [x \in near |-> PortDistance(objects[x], NearestPort(objects[x], p), p)]
           best == CHOOSE x \in near : \A y \in near : d[x] < d[y] \/ (d[x] = d[y] /\ x <= y)
<1>1. near \in SUBSET DOMAIN objects
  BY DEF PortsNear, Unconnected
<1>2. IsFiniteSet(near) /\ near \in SUBSET Int
  BY <1>1, BoardHere, FS_Subset
<1>3. \A x \in near : Measured(objects[x]) /\ ObjectAABB(objects[x]) \in Boxes
  BY <1>1, BoardHere, FieldsOf
<1>4. \A x \in near : NearestPort(objects[x], p).side \in ToSet(Sides) /\ NearestPort(objects[x], p).offset \in Int
  BY <1>3, NearestIsPort DEF NearestPort, ShapeBox
<1> HIDE DEF near
<1>5. \A x \in near : d[x] \in Int
  <2>1. SUFFICES ASSUME NEW x \in near
                 PROVE  PortDistance(objects[x], NearestPort(objects[x], p), p) \in Int
    OBVIOUS
  <2> DEFINE port == NearestPort(objects[x], p)
             q == SideAnchor(objects[x], port.side, port.offset)
  <2>2. port.side \in ToSet(Sides) /\ port.offset \in Int /\ Measured(objects[x])
    BY <1>3, <1>4
  <2> HIDE DEF port
  <2>3. q \in Points
    BY <2>2, AnchorPoint
  <2> HIDE DEF q
  <2>4. q.x \in Int /\ q.y \in Int /\ p.x \in Int /\ p.y \in Int
    BY <2>3 DEF Points
  <2>5. SquaredDistance(q, p) \in Int
    BY <2>4 DEF SquaredDistance
  <2> QED  BY <2>5 DEF PortDistance, q, port
<1>6. NearestShapePort(objects, p) = [id |-> best, port |-> NearestPort(objects[best], p)]
  BY Zenon DEF NearestShapePort, near
<1> HIDE DEF d
<1>7. \E x \in near : \A y \in near : d[x] < d[y] \/ (d[x] = d[y] /\ x <= y)
  <2>1. near # {}
    BY DEF near
  <2> QED  BY <1>2, <1>5, <2>1, Least
<1>8. best \in near
  BY ONLY <1>7, Zenon
<1> HIDE DEF best
<1> QED  BY <1>1, <1>4, <1>6, <1>8

\* The end of a connector is moved.
LEMMA DragEndKept ==
    ASSUME HistoryInv, CanvasInv, NEW c \in DOMAIN objects, NEW end \in {"from", "to"}, NEW p \in Points,
           DragEnd(c, end, p)
    PROVE  Kept
PROOF
<1>1. PICK to \in {NearestShapePort(objects, p)} : RewireConnector(c, end, to.id, to.port)
  BY DEF DragEnd
<1>2. to.id \in DOMAIN objects /\ to.port.side \in ToSet(Sides) /\ to.port.offset \in Int
  <2>1. to = NearestShapePort(objects, p) /\ PortsNear(objects, p) # {}
    BY <1>1 DEF DragEnd
  <2> QED  BY <2>1, NearestFound
<1> DEFINE id == to.id
           side == to.port.side
           offset == to.port.offset
           m == Limit + IdsPerCommand
<1>3. c \in 1 .. Limit - 1 /\ id \in 1 .. Limit - 1
  BY <1>2, BoardHere
<1>4. Limit \in Int /\ Limit <= m /\ m \in Int
  BY Room
<1>5. side \in ToSet(Sides) /\ offset \in Int
  BY <1>2
<1> HIDE DEF id, side, offset, m
<1>6. id \in Int /\ id < m /\ id < Limit
  <2> HIDE DEF Limit
  <2> QED  BY <1>3, <1>4
<1>7. \A path \in {"fromId", "toId"} : Good(Update(c, path, id))
  <2>1. SUFFICES ASSUME NEW path \in {"fromId", "toId"}
                 PROVE  Good(Update(c, path, id))
    OBVIOUS
  <2>2. FieldOk(path, id, m)
    BY <1>6 DEF FieldOk
  <2> QED  BY <1>3, <1>6, <2>2, GoodUpdate DEF m
<1>8. \A path \in {"fromSide", "toSide"} : Good(Update(c, path, side))
  <2>1. SUFFICES ASSUME NEW path \in {"fromSide", "toSide"}
                 PROVE  Good(Update(c, path, side))
    OBVIOUS
  <2>2. FieldOk(path, side, m)
    BY <1>5 DEF FieldOk
  <2> QED  BY <1>3, <2>2, GoodUpdate DEF m
<1>9. \A path \in {"fromOffset", "toOffset"} : Good(Update(c, path, offset))
  <2>1. SUFFICES ASSUME NEW path \in {"fromOffset", "toOffset"}
                 PROVE  Good(Update(c, path, offset))
    OBVIOUS
  <2>2. FieldOk(path, offset, m)
    BY <1>5 DEF FieldOk
  <2> QED  BY <1>3, <2>2, GoodUpdate DEF m
<1>10. Good(Update(c, "points", <<>>))
  <2>1. <<>> \in Seq(Points)
    OBVIOUS
  <2> DEFINE none == <<>>
  <2>2. FieldOk("points", none, m)
    BY <2>1 DEF FieldOk
  <2> HIDE DEF none
  <2>3. Good(Update(c, "points", none))
    BY <1>3, <2>2, GoodUpdate DEF m
  <2> QED  BY <2>3 DEF none
<1> DEFINE paths == IF end = "from" THEN <<"fromId", "fromSide", "fromOffset">>
                    ELSE <<"toId", "toSide", "toOffset">>
           i == Update(c, paths[1], id)
           s == Update(c, paths[2], side)
           o == Update(c, paths[3], offset)
           w == Update(c, "points", <<>>)
           ops == <<i, s, o, w>>
<1>11. Edit("rewire", Singly(ops), selected)
  BY <1>1 DEF RewireConnector, id, side, offset
<1>12. paths[1] \in {"fromId", "toId"} /\ paths[2] \in {"fromSide", "toSide"} /\ paths[3] \in {"fromOffset", "toOffset"}
  OBVIOUS
<1> HIDE DEF paths
<1>13. Good(i) /\ Good(s) /\ Good(o) /\ Good(w)
  BY <1>7, <1>8, <1>9, <1>10, <1>12
<1> HIDE DEF i, s, o, w
<1>14. IsSeq(ops) /\ ToSet(ops) = {i, s, o, w}
  BY SetOfFew
<1>15. \A op \in ToSet(ops) : Good(op)
  BY <1>13, <1>14
<1> HIDE DEF ops
<1>16. Writing(Singly(ops))
  BY <1>14, <1>15, GoodBatches
<1>17. Picked(selected, Limit + IdsPerCommand)
  BY PickedStill
<1> DEFINE batches == Singly(ops)
<1>18. Edit("rewire", batches, selected) /\ Writing(batches)
  BY <1>11, <1>16
<1> HIDE DEF batches
<1> QED  BY <1>17, <1>18, WroteKept

\* The inner points of a path.
LEMMA PathInner ==
    ASSUME NEW s \in Paths
    PROVE  (IF Len(s) <= 2 THEN <<>> ELSE SubSeq(s, 2, Len(s) - 1)) \in Seq(Points)
PROOF
<1>1. s \in Seq(Points) /\ Len(s) \in Nat
  BY PathEnds
<1>2. CASE Len(s) <= 2
  BY <1>2
<1>3. CASE ~(Len(s) <= 2)
  <2>1. \A k \in 2 .. Len(s) - 1 : s[k] \in Points
    BY <1>1, <1>3, PathEnds
  <2>2. SubSeq(s, 2, Len(s) - 1) \in Seq(Points)
    BY <1>1, <1>3, <2>1, SubSeqProperties
  <2> QED  BY <1>3, <2>2
<1> QED  BY <1>2, <1>3

\* A route that is dragged keeps points for waypoints.
LEMMA DraggedWaypoints ==
    ASSUME NEW route \in Paths, NEW i, NEW axis \in {"x", "y"}, NEW v \in Int
    PROVE  WaypointsAfterSegmentDrag(route, i, axis, v) \in Seq(Points)
PROOF
<1> DEFINE n == Len(route)
           moved == [k \in 1 .. n |->
                       IF k \in {i, i + 1} /\ k \notin {1, n}
                       THEN [route[k] EXCEPT ![axis] = v] ELSE route[k]]
           ortho == EnforceOrthogonal(moved)
<1>1. n \in Nat /\ n >= 1 /\ \A k \in 1 .. n : route[k] \in Points
  BY PathEnds
<1>2. \A k \in 1 .. n : moved[k] \in Points
  <2>1. \A r \in Points : [r EXCEPT ![axis] = v] \in Points
    BY DEF Points
  <2> QED  BY <1>1, <2>1
<1> HIDE DEF n
<1>3. moved \in [1 .. n -> Points]
  BY <1>2
<1>4. moved \in Seq(Points) /\ Len(moved) = n
  <2> HIDE DEF moved
  <2> QED  BY <1>1, <1>3, SeqDef, LenProperties
<1>5. moved # <<>>
  <2> HIDE DEF moved
  <2> QED  BY <1>1, <1>4
<1>6. moved \in Paths
  <2> HIDE DEF moved
  <2> QED  BY <1>4, <1>5 DEF Paths
<1> HIDE DEF moved
<1>7. ortho \in Paths
  BY <1>6, Enforced
<1>8. WaypointsAfterSegmentDrag(route, i, axis, v) = IF Len(ortho) <= 2 THEN <<>> ELSE SubSeq(ortho, 2, Len(ortho) - 1)
  BY Zenon DEF WaypointsAfterSegmentDrag, moved, n
<1> HIDE DEF ortho
<1> QED  BY <1>7, <1>8, PathInner

\* The segment of a connector is moved.
LEMMA DragSegmentKept ==
    ASSUME HistoryInv, CanvasInv, NEW c \in DOMAIN objects, NEW v \in Int, DragSegment(c, v)
    PROVE  Kept
PROOF
<1> DEFINE route == Line(c)
           conn == objects[c]
<1>1. PICK i \in MidHandles(route) :
         Edit("segment", <<<<Update(c, "points",
                 WaypointsAfterSegmentDrag(route, i, HandleAxis(route, i), v))>>>>, selected)
  BY DEF DragSegment
<1>2. /\ conn.fromSide \in ToSet(Sides) /\ conn.toSide \in ToSet(Sides)
      /\ conn.fromOffset \in Int /\ conn.toOffset \in Int /\ conn.points \in Seq(Points)
  BY BoardHere, FieldsOf
<1>3. \A x \in DOMAIN objects : Measured(objects[x])
  BY BoardHere, FieldsOf
<1>4. route \in Paths
  <2>1. CASE {conn.fromId, conn.toId} \subseteq DOMAIN objects
    <3> DEFINE from == objects[conn.fromId]
               to == objects[conn.toId]
    <3>1. Measured(from) /\ Measured(to)
      BY <1>3, <2>1
    <3>2. Stub \in Nat
      BY PxAssumption DEF Stub
    <3>3. route = OrthogonalRoute(from, to, conn.fromSide, conn.toSide,
                                  conn.fromOffset, conn.toOffset, conn.points, Stub)
      BY <2>1 DEF Line, RouteForConnector
    <3> HIDE DEF from, to, conn, route
    <3>4. OrthogonalRoute(from, to, conn.fromSide, conn.toSide,
                          conn.fromOffset, conn.toOffset, conn.points, Stub) \in Paths
      BY <1>2, <3>1, <3>2, RouteEnds
    <3> QED  BY <3>3, <3>4
  <2>2. CASE ~({conn.fromId, conn.toId} \subseteq DOMAIN objects)
    <3>1. route = <<>>
      BY <2>2 DEF Line, RouteForConnector, NoRoute
    <3>2. Len(<<>>) = 0
      OBVIOUS
    <3>3. MidHandles(<<>>) \in SUBSET (1 .. 0 - 1)
      BY <3>2 DEF MidHandles
    <3> HIDE DEF route
    <3>4. i \in 1 .. 0 - 1
      BY <3>1, <3>3
    <3> QED  BY <3>4
  <2> QED  BY <2>1, <2>2
<1> DEFINE axis == HandleAxis(route, i)
           points == WaypointsAfterSegmentDrag(route, i, axis, v)
<1>5. axis \in {"x", "y"}
  BY DEF HandleAxis
<1> HIDE DEF axis, route
<1>6. points \in Seq(Points)
  BY <1>4, <1>5, DraggedWaypoints
<1>7. Edit("segment", <<<<Update(c, "points", points)>>>>, selected)
  BY <1>1 DEF axis
<1> HIDE DEF points
<1>8. FieldOk("points", points, Limit + IdsPerCommand)
  BY <1>6 DEF FieldOk
<1>9. c \in 1 .. Limit - 1
  BY BoardHere
<1>10. Good(Update(c, "points", points))
  BY <1>8, <1>9, GoodUpdate
<1>11. Writing(<<<<Update(c, "points", points)>>>>)
  BY <1>10, FewGood
<1>12. Picked(selected, Limit + IdsPerCommand)
  BY PickedStill
<1> DEFINE batches == <<<<Update(c, "points", points)>>>>
<1>13. Edit("segment", batches, selected) /\ Writing(batches)
  BY <1>7, <1>11
<1> HIDE DEF batches
<1> QED  BY <1>12, <1>13, WroteKept

\* Patches that set what are no ends of connectors.
Patching(patches) ==
    /\ IsSeq(patches)
    /\ \A i \in DOMAIN patches :
          /\ patches[i].id \in 1 .. Limit - 1
          /\ patches[i].path \notin {"fromId", "toId"}
          /\ FieldOk(patches[i].path, patches[i].value, Limit)

LEMMA PatchesKept ==
    ASSUME HistoryInv, CanvasInv, NEW name, NEW patches, ApplyPatches(name, patches), Patching(patches)
    PROVE  Kept
PROOF
<1> DEFINE ops == Updates(patches)
<1>1. Edit(name, <<ops>>, selected)
  BY DEF ApplyPatches
<1>2. ops = [i \in DOMAIN patches |-> ops[i]]
  BY DEF Updates
<1>3. \A i \in DOMAIN patches : ops[i] = Update(patches[i].id, patches[i].path, patches[i].value)
  BY DEF Updates
<1>4. ASSUME NEW i \in DOMAIN patches
      PROVE  Good(Update(patches[i].id, patches[i].path, patches[i].value))
  <2> DEFINE x == patches[i].id
             path == patches[i].path
             v == patches[i].value
  <2>1. x \in 1 .. Limit - 1 /\ path \notin {"fromId", "toId"} /\ FieldOk(path, v, Limit)
    BY DEF Patching
  <2>2. Limit \in Int /\ Limit + IdsPerCommand \in Int /\ Limit <= Limit + IdsPerCommand
    BY Room
  <2> HIDE DEF x, path, v
  <2>3. FieldOk(path, v, Limit + IdsPerCommand)
    <3> DEFINE m == Limit + IdsPerCommand
    <3>1. m \in Int /\ Limit <= m /\ Limit \in Int
      BY <2>2
    <3> HIDE DEF m, Limit
    <3>2. FieldOk(path, v, m)
      BY <2>1, <3>1, FieldMore
    <3> QED  BY <3>2 DEF m
  <2>4. Good(Update(x, path, v))
    BY <2>1, <2>3, GoodUpdate
  <2> QED  BY <2>4 DEF x, path, v
<1> HIDE DEF ops
<1>5. IsSeq(ops) /\ DOMAIN ops = DOMAIN patches
  <2>1. IsSeq(patches)
    BY DEF Patching
  <2> QED  BY ONLY <1>2, <2>1, MappedIsSeq
<1>6. \A op \in ToSet(ops) : Good(op)
  BY <1>3, <1>4, <1>5 DEF ToSet
<1>7. Writing(<<ops>>)
  BY <1>5, <1>6, GoodBatches
<1>8. Picked(selected, Limit + IdsPerCommand)
  BY PickedStill
<1> DEFINE batches == <<ops>>
<1>9. Edit(name, batches, selected) /\ Writing(batches)
  BY <1>1, <1>7
<1> HIDE DEF batches
<1> QED  BY <1>8, <1>9, WroteKept

\* What a box snaps to is a number.
LEMMA SnappedValue ==
    ASSUME NEW v \in Int, NEW targets, IsSeq(targets), \A i \in DOMAIN targets : targets[i] \in Int
    PROVE  SnapValue(v, targets) \in Int
PROOF
<1> DEFINE grid == GridTargetsNear(v)
           all == targets \o grid
           near == {i \in DOMAIN all : Dist(v, all[i]) < Threshold}
           d == [i \in near |-> Dist(v, all[i])]
<1>1. IsSeq(grid) /\ DOMAIN grid = 1 .. 5 /\ Len(grid) = 5 /\ \A i \in 1 .. 5 : grid[i] \in Int
  <2> DEFINE base == ((2 * v + Grid) \div (2 * Grid)) * Grid
  <2>1. Grid \in Nat /\ 2 * Grid \in Nat /\ 2 * Grid > 0 /\ 2 * v + Grid \in Int
    BY PxAssumption DEF Grid
  <2>2. (2 * v + Grid) \div (2 * Grid) \in Int
    <3> DEFINE a == 2 * v + Grid
               b == 2 * Grid
    <3>1. a \in Int /\ b \in Int /\ b > 0
      BY <2>1
    <3> HIDE DEF a, b
    <3>2. a \div b \in Int
      BY <3>1
    <3> QED  BY <3>2 DEF a, b
  <2>3. base \in Int
    <3> DEFINE a == (2 * v + Grid) \div (2 * Grid)
    <3>1. a \in Int
      BY <2>2
    <3> HIDE DEF a
    <3>2. a * Grid \in Int
      BY <2>1, <3>1
    <3> QED  BY <3>2 DEF a
  <2>4. grid = [i \in 1 .. 5 |-> base + (i - 3) * Grid]
    BY DEF GridTargetsNear
  <2> HIDE DEF base, grid
  <2>5. \A i \in 1 .. 5 : grid[i] \in Int
    BY <2>1, <2>3, <2>4
  <2>6. grid = [i \in 1 .. 5 |-> grid[i]]
    BY <2>4
  <2>7. 5 \in Nat
    OBVIOUS
  <2> QED  BY <2>5, <2>6, <2>7, FunctionIsSeq
<1> HIDE DEF grid
<1>2. /\ IsSeq(all) /\ Len(all) = Len(targets) + Len(grid)
      /\ \A i \in 1 .. Len(targets) + Len(grid) :
            all[i] = IF i <= Len(targets) THEN targets[i] ELSE grid[i - Len(targets)]
  BY <1>1, ConcatIsSeq
<1>3. Len(targets) \in Nat /\ DOMAIN targets = 1 .. Len(targets)
  BY SeqIsFunction
<1>4. Len(all) \in Nat /\ DOMAIN all = 1 .. Len(all)
  BY <1>2, SeqIsFunction
<1> HIDE DEF all
<1>5. ASSUME NEW i \in DOMAIN all
      PROVE  all[i] \in Int
  <2>1. i \in 1 .. Len(targets) + 5 /\ all[i] = IF i <= Len(targets) THEN targets[i] ELSE grid[i - Len(targets)]
    BY <1>1, <1>2, <1>4
  <2>2. CASE i <= Len(targets)
    <3>1. i \in DOMAIN targets
      BY <1>3, <2>1, <2>2
    <3> QED  BY <2>1, <2>2, <3>1
  <2>3. CASE ~(i <= Len(targets))
    <3>1. i - Len(targets) \in 1 .. 5
      BY <1>3, <2>1, <2>3
    <3> QED  BY <1>1, <2>1, <2>3, <3>1
  <2> QED  BY <2>2, <2>3
<1>6. SnapValue(v, targets) =
         IF near = {} THEN v
         ELSE all[CHOOSE i \in near : \A j \in near :
                      Dist(v, all[i]) < Dist(v, all[j])
                      \/ (Dist(v, all[i]) = Dist(v, all[j]) /\ i <= j)]
  BY Zenon DEF SnapValue, all, grid
<1>7. near \in SUBSET Int /\ IsFiniteSet(near) /\ \A i \in near : all[i] \in Int
  <2>1. near \in SUBSET (1 .. Len(all))
    BY <1>4
  <2>2. IsFiniteSet(1 .. Len(all))
    BY <1>4, FS_Interval
  <2> HIDE DEF near
  <2>3. IsFiniteSet(near)
    BY <2>1, <2>2, FS_Subset
  <2> QED  BY <1>4, <1>5, <2>1, <2>3
<1> HIDE DEF near
<1>8. CASE near # {}
  <2>1. \A i \in near : d[i] = Dist(v, all[i]) /\ d[i] \in Int
    BY <1>7 DEF Dist
  <2> HIDE DEF d
  <2>2. \E i \in near : \A j \in near : d[i] < d[j] \/ (d[i] = d[j] /\ i <= j)
    BY <1>7, <1>8, <2>1, Least
  <2>3. \E i \in near : \A j \in near : Dist(v, all[i]) < Dist(v, all[j])
                                        \/ (Dist(v, all[i]) = Dist(v, all[j]) /\ i <= j)
    BY ONLY <2>1, <2>2, Zenon
  <2> DEFINE best == CHOOSE i \in near : \A j \in near :
                      Dist(v, all[i]) < Dist(v, all[j])
                      \/ (Dist(v, all[i]) = Dist(v, all[j]) /\ i <= j)
  <2>4. best \in near
    BY ONLY <2>3, Zenon
  <2>5. SnapValue(v, targets) = all[best]
    BY ONLY <1>6, <1>8, Zenon
  <2> HIDE DEF best
  <2> QED  BY <1>7, <2>4, <2>5
<1>9. CASE near = {}
  BY <1>6, <1>9
<1> QED  BY <1>8, <1>9

\* Where objects start, have their middle and end are numbers.
LEMMA TargetsOfObjects ==
    ASSUME NEW n \in Nat \ {0}, NEW objs, IsBoard(objs, n), NEW exclude, NEW axis \in {"x", "y"}
    PROVE  LET targets == CollectObjectTargets(objs, exclude, axis) IN
           IsSeq(targets) /\ \A i \in DOMAIN targets : targets[i] \in Int
PROOF
<1> DEFINE S == Unconnected(objs, DOMAIN objs) \ exclude
           ids == Ascending(S)
           lines(x) == LET b == ObjectAABB(objs[x]) IN
                       <<b[axis], b[axis] + b[Size(axis)] \div 2, b[axis] + b[Size(axis)]>>
           seqs == [i \in DOMAIN ids |-> lines(ids[i])]
<1>1. IsFiniteSet(DOMAIN objs) /\ DOMAIN objs \in SUBSET Int /\ \A x \in DOMAIN objs : IsObject(objs[x], n)
  BY OfBoard
<1>2. S \in SUBSET DOMAIN objs
  BY DEF Unconnected
<1> HIDE DEF S
<1>3. S \in SUBSET Int /\ IsFiniteSet(S)
  BY <1>1, <1>2, FS_Subset
<1>4. IsSeq(ids) /\ \A i \in DOMAIN ids : ids[i] \in S
  BY <1>3, AscendingHolds
<1> HIDE DEF ids
<1>5. ASSUME NEW x \in S
      PROVE  IsSeq(lines(x)) /\ \A e \in ToSet(lines(x)) : e \in Int
  <2> DEFINE b == ObjectAABB(objs[x])
             p == b[axis]
             q == b[axis] + b[Size(axis)] \div 2
             r == b[axis] + b[Size(axis)]
  <2>1. b \in Boxes
    BY <1>1, <1>2, FieldsOf
  <2> HIDE DEF b
  <2>2. b[axis] \in Int /\ b[Size(axis)] \in Int
    BY <2>1 DEF Boxes, Size
  <2>3. p \in Int /\ q \in Int /\ r \in Int
    BY <2>2
  <2> HIDE DEF p, q, r
  <2>4. IsSeq(<<p, q, r>>) /\ ToSet(<<p, q, r>>) = {p, q, r}
    BY SetOfFew
  <2>5. lines(x) = <<p, q, r>>
    BY DEF p, q, r, b
  <2> HIDE DEF lines
  <2> QED  BY <2>3, <2>4, <2>5
<1> HIDE DEF lines
<1>6. IsSeq(seqs) /\ DOMAIN seqs = DOMAIN ids
  <2>1. seqs = [i \in DOMAIN ids |-> seqs[i]]
    OBVIOUS
  <2> HIDE DEF seqs
  <2> QED  BY <1>4, <2>1, MappedIsSeq
<1>7. \A i \in DOMAIN seqs : IsSeq(seqs[i]) /\ \A e \in ToSet(seqs[i]) : e \in Int
  BY <1>4, <1>5
<1>8. CollectObjectTargets(objs, exclude, axis) = FlattenSeq(seqs)
  BY Zenon DEF CollectObjectTargets, seqs, lines, ids, S
<1> HIDE DEF seqs
<1>9. IsSeq(FlattenSeq(seqs)) /\ \A e : e \in ToSet(FlattenSeq(seqs)) <=> \E i \in DOMAIN seqs : e \in ToSet(seqs[i])
  BY <1>6, <1>7, Flattened
<1>10. \A i \in DOMAIN FlattenSeq(seqs) : FlattenSeq(seqs)[i] \in Int
  <2>1. \A i \in DOMAIN FlattenSeq(seqs) : FlattenSeq(seqs)[i] \in ToSet(FlattenSeq(seqs))
    BY DEF ToSet
  <2> QED  BY <1>7, <1>9, <2>1
<1> QED  BY <1>8, <1>9, <1>10

\* Where a box snaps to are numbers.
LEMMA SnappedAxis ==
    ASSUME NEW pos \in Int, NEW size \in Int, NEW targets, IsSeq(targets), \A i \in DOMAIN targets : targets[i] \in Int
    PROVE  SnapAxis(pos, size, targets) \in Int
PROOF
<1> DEFINE at == <<pos, pos + size \div 2, pos + size>>
           pull == [i \in 1 .. 3 |-> SnapValue(at[i], targets) - at[i]]
           d == [i \in 1 .. 3 |-> Dist(pull[i], 0)]
<1>1. \A i \in 1 .. 3 : at[i] \in Int
  <2>1. pos + size \div 2 \in Int /\ pos + size \in Int
    OBVIOUS
  <2> QED  BY <2>1
<1> HIDE DEF at
<1>2. \A i \in 1 .. 3 : pull[i] \in Int
  <2>1. \A i \in 1 .. 3 : SnapValue(at[i], targets) \in Int
    BY <1>1, SnappedValue
  <2> QED  BY <1>1, <2>1
<1>3. SnapAxis(pos, size, targets) =
         pos + pull[CHOOSE i \in 1 .. 3 : \A j \in 1 .. 3 :
                       Dist(pull[i], 0) < Dist(pull[j], 0) \/ (Dist(pull[i], 0) = Dist(pull[j], 0) /\ i <= j)]
  BY Zenon DEF SnapAxis, at
<1> HIDE DEF pull
<1>4. \A i \in 1 .. 3 : d[i] = Dist(pull[i], 0) /\ d[i] \in Int
  BY <1>2 DEF Dist
<1> HIDE DEF d
<1> DEFINE S == 1 .. 3
<1>5. S \in SUBSET Int /\ IsFiniteSet(S) /\ S # {} /\ \A i \in S : d[i] \in Int
  <2>1. 1 \in Int /\ 3 \in Int
    OBVIOUS
  <2>2. IsFiniteSet(1 .. 3)
    BY ONLY <2>1, FS_Interval
  <2>3. 1 .. 3 \in SUBSET Int /\ 1 .. 3 # {}
    OBVIOUS
  <2> QED  BY <1>4, <2>2, <2>3
<1> HIDE DEF S
<1>6. \E i \in S : \A j \in S : d[i] < d[j] \/ (d[i] = d[j] /\ i <= j)
  BY ONLY <1>5, Least
<1>7. \E i \in 1 .. 3 : \A j \in 1 .. 3 :
         Dist(pull[i], 0) < Dist(pull[j], 0) \/ (Dist(pull[i], 0) = Dist(pull[j], 0) /\ i <= j)
  BY ONLY <1>4, <1>6, Zenon DEF S
<1> DEFINE best == CHOOSE i \in 1 .. 3 : \A j \in 1 .. 3 :
         Dist(pull[i], 0) < Dist(pull[j], 0) \/ (Dist(pull[i], 0) = Dist(pull[j], 0) /\ i <= j)
<1>8. best \in 1 .. 3
  BY ONLY <1>7, Zenon
<1>9. SnapAxis(pos, size, targets) = pos + pull[best]
  BY ONLY <1>3, Zenon
<1> HIDE DEF best
<1> QED  BY <1>2, <1>8, <1>9

LEMMA SnappedBox ==
    ASSUME NEW n \in Nat \ {0}, NEW objs, IsBoard(objs, n), NEW b \in Boxes, NEW on, NEW exclude
    PROVE  /\ SnapBox(b, on, objs, exclude) \in Points
           /\ SnapResizeBox(b, on, objs, exclude) \in Boxes
PROOF
<1> DEFINE xs == CollectObjectTargets(objs, exclude, "x")
           ys == CollectObjectTargets(objs, exclude, "y")
<1>1. /\ IsSeq(xs) /\ \A i \in DOMAIN xs : xs[i] \in Int
      /\ IsSeq(ys) /\ \A i \in DOMAIN ys : ys[i] \in Int
  <2>1. \A axis \in {"x", "y"} :
           /\ IsSeq(CollectObjectTargets(objs, exclude, axis))
           /\ \A i \in DOMAIN CollectObjectTargets(objs, exclude, axis) :
                 CollectObjectTargets(objs, exclude, axis)[i] \in Int
    BY TargetsOfObjects
  <2> QED  BY <2>1
<1> HIDE DEF xs, ys
<1>2. b.x \in Int /\ b.y \in Int /\ b.w \in Int /\ b.h \in Int
  BY DEF Boxes
<1>3. SnapAxis(b.x, b.w, xs) \in Int /\ SnapAxis(b.y, b.h, ys) \in Int
  BY <1>1, <1>2, SnappedAxis
<1>4. SnapBox(b, on, objs, exclude) \in Points
  BY <1>2, <1>3 DEF SnapBox, Points, Pt, xs, ys
<1> DEFINE x == SnapValue(b.x, xs)
           y == SnapValue(b.y, ys)
           r == SnapValue(b.x + b.w, xs)
           e == SnapValue(b.y + b.h, ys)
<1>5. b.x + b.w \in Int /\ b.y + b.h \in Int
  BY <1>2
<1>6. x \in Int /\ y \in Int /\ r \in Int /\ e \in Int
  BY <1>1, <1>2, <1>5, SnappedValue
<1> HIDE DEF x, y, r, e
<1>7. SnapResizeBox(b, on, objs, exclude) =
         IF on THEN Box(x, y, MaxOf(8 * Px, r - x), MaxOf(8 * Px, e - y)) ELSE b
  BY DEF SnapResizeBox, x, y, r, e, xs, ys
<1>8. MaxOf(8 * Px, r - x) \in Int /\ MaxOf(8 * Px, e - y) \in Int
  BY <1>6, PxAssumption DEF MaxOf
<1>9. Box(x, y, MaxOf(8 * Px, r - x), MaxOf(8 * Px, e - y)) \in Boxes
  BY <1>6, <1>8 DEF Boxes, Box
<1> QED  BY <1>4, <1>7, <1>9

\* Few patches.
LEMMA FewPatches ==
    ASSUME NEW patches, IsSeq(patches),
           \A e \in ToSet(patches) : \E x \in 1 .. Limit - 1 : \E path : \E v :
              e = Patch(x, path, v) /\ path \notin {"fromId", "toId"} /\ FieldOk(path, v, Limit)
    PROVE  Patching(patches)
PROOF
<1>1. SUFFICES ASSUME NEW i \in DOMAIN patches
               PROVE  /\ patches[i].id \in 1 .. Limit - 1
                      /\ patches[i].path \notin {"fromId", "toId"}
                      /\ FieldOk(patches[i].path, patches[i].value, Limit)
  BY DEF Patching
<1>2. patches[i] \in ToSet(patches)
  BY DEF ToSet
<1>3. PICK x \in 1 .. Limit - 1 : \E path : \E v :
         patches[i] = Patch(x, path, v) /\ path \notin {"fromId", "toId"} /\ FieldOk(path, v, Limit)
  BY <1>2
<1>4. PICK path : \E v :
         patches[i] = Patch(x, path, v) /\ path \notin {"fromId", "toId"} /\ FieldOk(path, v, Limit)
  BY <1>3
<1>5. PICK v : patches[i] = Patch(x, path, v) /\ path \notin {"fromId", "toId"} /\ FieldOk(path, v, Limit)
  BY <1>4
<1>6. patches[i].id = x /\ patches[i].path = path /\ patches[i].value = v
  BY <1>5 DEF Patch
<1> QED  BY <1>5, <1>6

LEMMA ResizeKept ==
    ASSUME HistoryInv, CanvasInv, NEW x \in DOMAIN objects, NEW p \in Points, Resize(x, p)
    PROVE  Kept
PROOF
<1> DEFINE o == objects[x]
           from == Box(o.x, o.y, MaxOf(8 * Px, p.x - o.x), MaxOf(8 * Px, p.y - o.y))
           b == SnapResizeBox(from, snap, objects, {x})
           patches == <<Patch(x, "x", b.x), Patch(x, "y", b.y), Patch(x, "w", b.w), Patch(x, "h", b.h)>>
<1>1. ApplyPatches("resize", patches)
  BY DEF Resize
<1>2. o.x \in Int /\ o.y \in Int /\ p.x \in Int /\ p.y \in Int
  BY BoardHere, FieldsOf DEF Points
<1>3. from \in Boxes
  <2> HIDE DEF o
  <2> QED  BY <1>2, PxAssumption DEF Boxes, Box, MaxOf
<1> HIDE DEF from
<1>4. b \in Boxes
  BY <1>3, SnappedBox, NewIdsAre DEF CanvasInv
<1> HIDE DEF b
<1>5. b.x \in Int /\ b.y \in Int /\ b.w \in Int /\ b.h \in Int
  BY <1>4 DEF Boxes
<1>6. FieldOk("x", b.x, Limit) /\ FieldOk("y", b.y, Limit) /\ FieldOk("w", b.w, Limit) /\ FieldOk("h", b.h, Limit)
  BY <1>5 DEF FieldOk
<1>7. IsSeq(patches) /\ ToSet(patches) =
         {Patch(x, "x", b.x), Patch(x, "y", b.y), Patch(x, "w", b.w), Patch(x, "h", b.h)}
  BY SetOfFew
<1>8. x \in 1 .. Limit - 1
  BY BoardHere
<1> HIDE DEF patches
<1>9. Patching(patches)
  <2>1. SUFFICES ASSUME NEW e \in ToSet(patches)
                 PROVE  \E y \in 1 .. Limit - 1 : \E path : \E v :
                           e = Patch(y, path, v) /\ path \notin {"fromId", "toId"} /\ FieldOk(path, v, Limit)
    BY <1>7, FewPatches
  <2> HIDE DEF Limit
  <2> QED  BY <1>6, <1>7, <1>8, <2>1
<1> QED  BY <1>1, <1>9, PatchesKept

LEMMA CornerKept ==
    ASSUME HistoryInv, CanvasInv, NEW x \in DOMAIN objects, NEW r, RoundCorner(x, r)
    PROVE  Kept
PROOF
<1> DEFINE v == Clamp(r, 0, MinOf(objects[x].w, objects[x].h) \div 2)
           patches == <<Patch(x, "cornerRadius", v)>>
<1>1. ApplyPatches("corner", patches)
  BY DEF RoundCorner
<1> HIDE DEF v
<1>2. IsSeq(patches) /\ ToSet(patches) = {Patch(x, "cornerRadius", v)}
  BY TupleIsSeq, SetOfOne
<1>3. x \in 1 .. Limit - 1
  BY BoardHere
<1>4. FieldOk("cornerRadius", v, Limit)
  BY DEF FieldOk
<1> HIDE DEF patches
<1>5. Patching(patches)
  <2>1. SUFFICES ASSUME NEW e \in ToSet(patches)
                 PROVE  \E y \in 1 .. Limit - 1 : \E path : \E w :
                           e = Patch(y, path, w) /\ path \notin {"fromId", "toId"} /\ FieldOk(path, w, Limit)
    BY <1>2, FewPatches
  <2> HIDE DEF Limit
  <2> QED  BY <1>2, <1>3, <1>4, <2>1
<1> QED  BY <1>1, <1>5, PatchesKept

LEMMA TypeKept ==
    ASSUME HistoryInv, CanvasInv, NEW x \in DOMAIN objects, NEW n \in Int, TypeText(x, n)
    PROVE  Kept
PROOF
<1> DEFINE a == Update(x, "h", TextHeight(n))
           b == Update(x, "text", n)
           batches == IF objects[x].type # "text" \/ TextHeight(n) = objects[x].h THEN <<<<b>>>>
                      ELSE IF TextHeight(n) > objects[x].h THEN <<<<a>>, <<b>>>> ELSE <<<<b>>, <<a>>>>
           sel == <<x>>
<1>1. Edit("type", batches, sel)
  BY DEF TypeText
<1>2. x \in 1 .. Limit - 1
  BY BoardHere
<1>3. TextHeight(n) \in Int
  BY PxAssumption DEF TextHeight, MaxOf
<1>4. FieldOk("h", TextHeight(n), Limit + IdsPerCommand) /\ FieldOk("text", n, Limit + IdsPerCommand)
  BY <1>3 DEF FieldOk
<1>5. Good(a) /\ Good(b)
  BY <1>2, <1>4, GoodUpdate
<1> HIDE DEF a, b
<1>6. Writing(<<<<b>>>>) /\ Writing(<<<<a>>, <<b>>>>) /\ Writing(<<<<b>>, <<a>>>>)
  BY <1>5, FewGood
<1>7. Writing(batches)
  BY <1>6
<1>8. Picked(sel, Limit + IdsPerCommand)
  <2> DEFINE m == Limit + IdsPerCommand
  <2>1. Limit \in Int /\ Limit <= m /\ m \in Int
    BY Room
  <2> HIDE DEF m, Limit
  <2>2. x \in 1 .. m - 1
    BY <1>2, <2>1
  <2>3. Picked(<<x>>, m)
    BY <2>2, PickedOne
  <2> QED  BY <2>3 DEF m
<1> HIDE DEF batches, sel
<1> QED  BY <1>1, <1>7, <1>8, WroteKept

LEMMA ColorKept ==
    ASSUME HistoryInv, CanvasInv, NEW c, ApplyColor(c)
    PROVE  Kept
PROOF
<1> DEFINE ops == [i \in DOMAIN selected |-> Update(selected[i], "fill", c)]
<1>1. Edit("color", <<ops>>, selected)
  BY DEF ApplyColor
<1>2. ops = [i \in DOMAIN selected |-> ops[i]]
  OBVIOUS
<1>3. IsSeq(selected) /\ \A i \in DOMAIN selected : selected[i] \in 1 .. Limit - 1
  BY DEF CanvasInv, Picked
<1>4. FieldOk("fill", c, Limit + IdsPerCommand)
  BY DEF FieldOk
<1>5. \A i \in DOMAIN selected : Good(Update(selected[i], "fill", c))
  BY <1>3, <1>4, GoodUpdate
<1>6. \A i \in DOMAIN selected : ops[i] = Update(selected[i], "fill", c)
  OBVIOUS
<1> HIDE DEF ops
<1>7. IsSeq(ops) /\ DOMAIN ops = DOMAIN selected
  BY ONLY <1>2, <1>3, MappedIsSeq
<1>8. \A op \in ToSet(ops) : Good(op)
  BY <1>5, <1>6, <1>7 DEF ToSet
<1>9. Writing(<<ops>>)
  BY <1>7, <1>8, GoodBatches
<1> DEFINE batches == <<ops>>
<1>10. Edit("color", batches, selected) /\ Writing(batches)
  BY <1>1, <1>9
<1> HIDE DEF batches
<1> QED  BY <1>10, PickedStill, WroteKept

\* One batch of deletions.
LEMMA DeletedKept ==
    ASSUME HistoryInv, CanvasInv, NEW name, NEW s, IsSeq(s), NEW ops, ops = [i \in DOMAIN s |-> ops[i]],
           \A i \in DOMAIN s : ops[i] = Delete(s[i]),
           NEW sel, Picked(sel, Limit + IdsPerCommand), Edit(name, <<ops>>, sel)
    PROVE  Kept
PROOF
<1>1. IsSeq(ops) /\ DOMAIN ops = DOMAIN s
  BY MappedIsSeq
<1> DEFINE batches == <<ops>>
<1>2. Batched(batches)
  BY <1>1, FewBatches
<1>3. DOMAIN batches = {1} /\ batches[1] = ops
  BY TupleIsSeq
<1>4. \A x : Delete(x).type = "delete"
  BY OpFields
<1>5. Edit(name, batches, sel)
  OBVIOUS
<1> HIDE DEF batches
<1>6. Deleting(batches)
  BY <1>1, <1>2, <1>3, <1>4 DEF Deleting, ToSet
<1> QED  BY <1>5, <1>6, EditKept

LEMMA DeleteKept ==
    ASSUME HistoryInv, CanvasInv, DeleteSelected
    PROVE  Kept
PROOF
<1> DEFINE ops == [i \in DOMAIN selected |-> Delete(selected[i])]
           none == <<>>
<1>1. Edit("delete", <<ops>>, none)
  BY DEF DeleteSelected
<1>2. ops = [i \in DOMAIN selected |-> ops[i]] /\ \A i \in DOMAIN selected : ops[i] = Delete(selected[i])
  OBVIOUS
<1>3. IsSeq(selected)
  BY DEF CanvasInv, Picked
<1>4. Picked(none, Limit + IdsPerCommand)
  <2>1. IsSeq(none) /\ DOMAIN none = {}
    BY TupleIsSeq
  <2> HIDE DEF none
  <2> QED  BY <2>1 DEF Picked, Distinct
<1> HIDE DEF ops, none
<1> QED  BY <1>1, <1>2, <1>3, <1>4, DeletedKept

\* What is in two sequences put together.
LEMMA ConcatElements ==
    ASSUME NEW s, IsSeq(s), NEW t, IsSeq(t)
    PROVE  \A e : e \in ToSet(s \o t) <=> e \in ToSet(s) \/ e \in ToSet(t)
PROOF
<1>1. /\ Len(s) \in Nat /\ Len(t) \in Nat /\ DOMAIN s = 1 .. Len(s) /\ DOMAIN t = 1 .. Len(t)
  BY LenProperties DEF IsSeq
<1>2. /\ DOMAIN (s \o t) = 1 .. Len(s) + Len(t)
      /\ \A i \in 1 .. Len(s) + Len(t) : (s \o t)[i] = IF i <= Len(s) THEN s[i] ELSE t[i - Len(s)]
  <2>1. PICK A : s \in Seq(A)
    BY DEF IsSeq
  <2>2. PICK B : t \in Seq(B)
    BY DEF IsSeq
  <2>3. s \in Seq(A \cup B) /\ t \in Seq(A \cup B)
    <3>1. Seq(A) \subseteq Seq(A \cup B) /\ Seq(B) \subseteq Seq(A \cup B)
      BY <1>1, SeqDef
    <3> QED  BY <2>1, <2>2, <3>1
  <2> QED  BY <1>1, <2>3, ConcatProperties
<1> DEFINE u == s \o t
<1> HIDE DEF u
<1>3. ASSUME NEW i \in DOMAIN s PROVE s[i] \in ToSet(u)
  <2>1. i \in DOMAIN u /\ u[i] = s[i]
    BY <1>1, <1>2 DEF u
  <2> QED  BY <2>1 DEF ToSet
<1>4. ASSUME NEW i \in DOMAIN t PROVE t[i] \in ToSet(u)
  <2>1. i + Len(s) \in DOMAIN u /\ u[i + Len(s)] = t[i]
    BY <1>1, <1>2 DEF u
  <2> QED  BY <2>1 DEF ToSet
<1>5. ASSUME NEW i \in DOMAIN u PROVE u[i] \in ToSet(s) \/ u[i] \in ToSet(t)
  <2>1. CASE i <= Len(s)
    <3>1. i \in DOMAIN s /\ u[i] = s[i]
      BY <1>1, <1>2, <2>1 DEF u
    <3> QED  BY <3>1 DEF ToSet
  <2>2. CASE ~(i <= Len(s))
    <3>1. i - Len(s) \in DOMAIN t /\ u[i] = t[i - Len(s)]
      BY <1>1, <1>2, <2>2 DEF u
    <3> QED  BY <3>1 DEF ToSet
  <2> QED  BY <2>1, <2>2
<1> QED  BY <1>3, <1>4, <1>5 DEF ToSet, u

\* The container y is in when it has moved by dx and dy with all of ids.
NewParent(ids, dx, dy, y) ==
    ParentAfterMove(objects, y, Pt(objects[y].x + dx + objects[y].w \div 2,
                                   objects[y].y + dy + objects[y].h \div 2), ids)

Reparented(ids, dx, dy, y) ==
    ~(objects[y].type \in {"frame", "group"} \/ ParentIn(objects, y) = NewParent(ids, dx, dy, y))

\* The field f of y after that.
WhenMoved(ids, dx, dy, y, f) ==
    IF y \in ids /\ f = "x" THEN objects[y].x + dx
    ELSE IF y \in ids /\ f = "y" THEN objects[y].y + dy
    ELSE IF y \in ids /\ f = "parentId" /\ Reparented(ids, dx, dy, y) THEN NewParent(ids, dx, dy, y)
    ELSE objects[y][f]

\* The fields a drag writes.
Shifted(ids, dx, dy) ==
    {r \in ids \X {"x", "y", "parentId"} : r[2] = "parentId" => Reparented(ids, dx, dy, r[1])}

\* The patches of a drag write what everything that moves has after it.
LEMMA MoveHolds ==
    ASSUME CanvasInv, NEW x \in DOMAIN objects, NEW p \in Points,
           NEW ids, ids = Moving(objects, selected, x)
    PROVE  LET patches == MovePatches(objects, selected, snap, x, p) IN
           /\ ids \subseteq DOMAIN objects
           /\ IsSeq(patches)
           /\ \E dx, dy \in Int :
                 /\ \A e : e \in ToSet(patches) <=> \E r \in Shifted(ids, dx, dy) :
                              e = Patch(r[1], r[2], WhenMoved(ids, dx, dy, r[1], r[2]))
                 /\ \A y \in DOMAIN objects : NewParent(ids, dx, dy, y) \in Int /\ NewParent(ids, dx, dy, y) < Limit
PROOF
<1> DEFINE order == Ascending(ids)
           from == Box(p.x, p.y, objects[x].w, objects[x].h)
           to == SnapBox(from, snap, objects, ids)
           dx == to.x - objects[x].x
           dy == to.y - objects[x].y
           parent(y) == NewParent(ids, dx, dy, y)
           stays(y) == objects[y].type \in {"frame", "group"} \/ ParentIn(objects, y) = parent(y)
           place(y) == <<Patch(y, "x", objects[y].x + dx), Patch(y, "y", objects[y].y + dy)>>
           move(y) == IF stays(y) THEN <<>> ELSE <<Patch(y, "parentId", parent(y))>>
           each == [i \in DOMAIN order |-> place(order[i]) \o move(order[i])]
           patches == FlattenSeq(each)
<1>1. MovePatches(objects, selected, snap, x, p) = patches
  BY Zenon DEF MovePatches, NewParent
<1>h. /\ IsFiniteSet(DOMAIN objects) /\ DOMAIN objects \in SUBSET Int
      /\ \A y \in DOMAIN objects : y \in 1 .. Limit - 1 /\ IsObject(objects[y], Limit)
  BY BoardHere
<1>b. IsBoard(objects, Limit) /\ Limit \in Nat \ {0}
  BY NewIdsAre DEF CanvasInv
<1>2. ids \in SUBSET DOMAIN objects /\ IsFiniteSet(ids) /\ ids \in SUBSET Int
  <2>1. \A s : MoveSet(objects, s) \subseteq DOMAIN objects
    BY DEF MoveSet, Unconnected
  <2>2. ids \in SUBSET DOMAIN objects
    BY <2>1 DEF Moving
  <2> QED  BY <1>h, <2>2, FS_Subset
<1>3. IsSeq(order) /\ ToSet(order) = ids
  BY <1>2, AscendingHolds
<1>4. dx \in Int /\ dy \in Int
  <2>1. objects[x].x \in Int /\ objects[x].y \in Int /\ objects[x].w \in Int /\ objects[x].h \in Int
    BY <1>h, FieldsOf
  <2>2. from \in Boxes
    BY <2>1 DEF Boxes, Box, Points
  <2> HIDE DEF from
  <2>3. to \in Points
    BY <1>b, <2>2, SnappedBox
  <2> HIDE DEF to
  <2> QED  BY <2>1, <2>3 DEF Points
<1> HIDE DEF to, dx, dy
<1>5. \A y \in DOMAIN objects : parent(y) \in Int /\ parent(y) < Limit
  <2>1. SUFFICES ASSUME NEW y \in DOMAIN objects
                 PROVE  parent(y) \in Int /\ parent(y) < Limit
    OBVIOUS
  <2> DEFINE q == Pt(objects[y].x + dx + objects[y].w \div 2, objects[y].y + dy + objects[y].h \div 2)
  <2> HIDE DEF q
  <2>2. ContainerAt(objects, q, ids) \in DOMAIN objects \cup {NoParent}
    BY <1>b, ContainerFound
  <2>3. ParentIn(objects, y) \in Int /\ ParentIn(objects, y) < Limit
    <3>1. objects[y].parentId \in Int /\ objects[y].parentId < Limit
      BY <1>h, FieldsOf
    <3>2. NoParent \in Int /\ NoParent < Limit
      <4> HIDE DEF Limit
      <4> QED  BY <1>b DEF NoParent
    <3> HIDE DEF Limit
    <3> QED  BY <3>1, <3>2 DEF ParentIn
  <2>4. ParentAfterMove(objects, y, q, ids) \in {ParentIn(objects, y), ContainerAt(objects, q, ids)}
    BY DEF ParentAfterMove
  <2> DEFINE r == ParentAfterMove(objects, y, q, ids)
             c == ContainerAt(objects, q, ids)
  <2>5. c \in Int /\ c < Limit
    <3> HIDE DEF c, Limit
    <3> QED  BY <1>h, <1>b, <2>2 DEF NoParent, c
  <2> HIDE DEF r, c, Limit
  <2>6. r \in Int /\ r < Limit
    BY <2>3, <2>4, <2>5 DEF r, c
  <2> QED  BY <2>6 DEF r, q, NewParent
<1>s. \A y : stays(y) <=> ~Reparented(ids, dx, dy, y)
  BY DEF Reparented
<1> DEFINE a(y) == Patch(y, "x", objects[y].x + dx)
           b(y) == Patch(y, "y", objects[y].y + dy)
           c(y) == Patch(y, "parentId", parent(y))
<1>d. \A y \in ids : /\ Patch(y, "x", WhenMoved(ids, dx, dy, y, "x")) = a(y)
                     /\ Patch(y, "y", WhenMoved(ids, dx, dy, y, "y")) = b(y)
                     /\ Reparented(ids, dx, dy, y) => Patch(y, "parentId", WhenMoved(ids, dx, dy, y, "parentId")) = c(y)
  BY DEF WhenMoved
<1> HIDE DEF parent, stays
<1>6. ASSUME NEW y
      PROVE  /\ IsSeq(place(y) \o move(y))
             /\ \A e : e \in ToSet(place(y) \o move(y)) <=> e \in {a(y), b(y)} \/ (~stays(y) /\ e = c(y))
  <2>3. /\ IsSeq(place(y)) /\ IsSeq(move(y)) /\ ToSet(place(y)) = {a(y), b(y)}
        /\ ToSet(move(y)) = IF stays(y) THEN {} ELSE {c(y)}
    <3>1. IsSeq(<<>>) /\ IsSeq(<<c(y)>>) /\ ToSet(<<>>) = {} /\ ToSet(<<c(y)>>) = {c(y)}
      BY TupleIsSeq, SetOfOne
    <3>2. IsSeq(place(y)) /\ ToSet(place(y)) = {a(y), b(y)}
      BY TupleIsSeq, SetOfOne
    <3> HIDE DEF place
    <3> QED  BY <3>1, <3>2
  <2> HIDE DEF place, move, a, b, c
  <2>5. IsSeq(place(y) \o move(y))
    BY <2>3, ConcatIsSeq
  <2>6. \A e : e \in ToSet(place(y) \o move(y)) <=> e \in ToSet(place(y)) \/ e \in ToSet(move(y))
    BY ONLY <2>3, ConcatElements
  <2> QED  BY <2>3, <2>5, <2>6
<1> HIDE DEF place, move, order, a, b, c
<1>7. IsSeq(each) /\ DOMAIN each = DOMAIN order
  <2>1. each = [i \in DOMAIN order |-> each[i]]
    OBVIOUS
  <2> HIDE DEF each
  <2> QED  BY <1>3, <2>1, MappedIsSeq
<1>8. \A i \in DOMAIN each : each[i] = place(order[i]) \o move(order[i])
  OBVIOUS
<1> HIDE DEF each
<1>9. \A i \in DOMAIN each : IsSeq(each[i])
  BY <1>6, <1>8
<1>10. IsSeq(patches) /\ \A e : e \in ToSet(patches) <=> \E i \in DOMAIN each : e \in ToSet(each[i])
  BY <1>7, <1>9, Flattened
<1> HIDE DEF patches
<1>11. \A e : e \in ToSet(patches) <=> \E y \in ids : e \in ToSet(place(y) \o move(y))
  <2>1. ToSet(order) = {order[i] : i \in DOMAIN order}
    BY DEF ToSet
  <2>2. ids = {order[i] : i \in DOMAIN order}
    BY <1>3, <2>1
  <2> QED  BY ONLY <1>7, <1>8, <1>10, <2>2
<1>12. \A e : e \in ToSet(patches) <=>
          \E y \in ids : e \in {a(y), b(y)} \/ (~stays(y) /\ e = c(y))
  BY <1>6, <1>11
<1>13. \A e : e \in ToSet(patches) <=> \E r \in Shifted(ids, dx, dy) :
          e = Patch(r[1], r[2], WhenMoved(ids, dx, dy, r[1], r[2]))
  <2> DEFINE at(y, f) == Patch(y, f, WhenMoved(ids, dx, dy, y, f))
  <2>1. \A y \in ids : <<y, "x">> \in Shifted(ids, dx, dy) /\ <<y, "y">> \in Shifted(ids, dx, dy)
    BY DEF Shifted
  <2>2. \A y \in ids : ~stays(y) => <<y, "parentId">> \in Shifted(ids, dx, dy)
    BY <1>s DEF Shifted
  <2>3. \A r \in Shifted(ids, dx, dy) :
           /\ r[1] \in ids /\ r[2] \in {"x", "y", "parentId"}
           /\ r[2] = "parentId" => ~stays(r[1])
    BY <1>s DEF Shifted
  <2>4. \A y \in ids : at(y, "x") = a(y) /\ at(y, "y") = b(y) /\ (~stays(y) => at(y, "parentId") = c(y))
    BY <1>d, <1>s
  <2> HIDE DEF at
  <2>5. ASSUME NEW e, NEW y \in ids, e \in {a(y), b(y)} \/ (~stays(y) /\ e = c(y))
        PROVE  \E r \in Shifted(ids, dx, dy) : e = at(r[1], r[2])
    <3>1. CASE e = a(y)
      BY <2>1, <2>4, <3>1
    <3>2. CASE e = b(y)
      BY <2>1, <2>4, <3>2
    <3>3. CASE ~stays(y) /\ e = c(y)
      BY <2>2, <2>4, <3>3
    <3> QED  BY <2>5, <3>1, <3>2, <3>3
  <2>6. ASSUME NEW e, NEW r \in Shifted(ids, dx, dy), e = at(r[1], r[2])
        PROVE  \E y \in ids : e \in {a(y), b(y)} \/ (~stays(y) /\ e = c(y))
    <3> DEFINE y == r[1]
    <3>1. e \in {a(y), b(y)} \/ (~stays(y) /\ e = c(y))
      BY <2>3, <2>4, <2>6
    <3> QED  BY <2>3, <3>1
  <2> QED  BY <1>12, <2>5, <2>6 DEF at
<1> QED
  BY <1>1, <1>2, <1>4, <1>5, <1>10, <1>13 DEF parent

\* A drag leaves a board.
LEMMA MoveKept ==
    ASSUME HistoryInv, CanvasInv, NEW x \in DOMAIN objects, NEW p \in Points, Move(x, p)
    PROVE  Kept
PROOF
<1> DEFINE ids == Moving(objects, selected, x)
           patches == MovePatches(objects, selected, snap, x, p)
<1>1. ApplyPatches("move", patches)
  BY DEF Move
<1>2. \A y \in DOMAIN objects : y \in 1 .. Limit - 1 /\ IsObject(objects[y], Limit)
  BY BoardHere
<1>3. PICK dx \in Int, dy \in Int :
         /\ ids \subseteq DOMAIN objects /\ IsSeq(patches)
         /\ \A e : e \in ToSet(patches) <=> \E r \in Shifted(ids, dx, dy) :
                      e = Patch(r[1], r[2], WhenMoved(ids, dx, dy, r[1], r[2]))
         /\ \A y \in DOMAIN objects : NewParent(ids, dx, dy, y) \in Int /\ NewParent(ids, dx, dy, y) < Limit
  BY MoveHolds
<1> HIDE DEF ids, patches
<1>4. ASSUME NEW r \in Shifted(ids, dx, dy)
      PROVE  /\ r[1] \in 1 .. Limit - 1 /\ r[2] \notin {"fromId", "toId"}
             /\ FieldOk(r[2], WhenMoved(ids, dx, dy, r[1], r[2]), Limit)
  <2> DEFINE y == r[1]
             v == WhenMoved(ids, dx, dy, y, r[2])
  <2>1. y \in ids /\ r[2] \in {"x", "y", "parentId"} /\ (r[2] = "parentId" => Reparented(ids, dx, dy, y))
    BY DEF Shifted
  <2>2. y \in 1 .. Limit - 1 /\ objects[y].x + dx \in Int /\ objects[y].y + dy \in Int
    <3>1. objects[y].x \in Int /\ objects[y].y \in Int
      BY <1>2, <1>3, <2>1, FieldsOf
    <3> HIDE DEF y
    <3> QED  BY <1>2, <1>3, <2>1, <3>1
  <2>3. NewParent(ids, dx, dy, y) \in Int /\ NewParent(ids, dx, dy, y) < Limit
    BY <1>3, <2>1
  <2>4. /\ r[2] = "x" => v = objects[y].x + dx
        /\ r[2] = "y" => v = objects[y].y + dy
        /\ r[2] = "parentId" => v = NewParent(ids, dx, dy, y)
    BY <2>1 DEF WhenMoved
  <2> HIDE DEF y, v, Limit
  <2>5. FieldOk(r[2], v, Limit)
    <3>1. CASE r[2] = "x"
      BY <2>2, <2>4, <3>1 DEF FieldOk
    <3>2. CASE r[2] = "y"
      BY <2>2, <2>4, <3>2 DEF FieldOk
    <3>3. CASE r[2] = "parentId"
      BY <2>3, <2>4, <3>3 DEF FieldOk
    <3> QED  BY <2>1, <3>1, <3>2, <3>3
  <2> QED  BY <2>1, <2>2, <2>5 DEF y, v
<1>5. Patching(patches)
  <2>1. ASSUME NEW e \in ToSet(patches)
        PROVE  \E y \in 1 .. Limit - 1 : \E path : \E v :
                  e = Patch(y, path, v) /\ path \notin {"fromId", "toId"} /\ FieldOk(path, v, Limit)
    <3>1. PICK r \in Shifted(ids, dx, dy) : e = Patch(r[1], r[2], WhenMoved(ids, dx, dy, r[1], r[2]))
      BY <1>3
    <3> QED  BY <1>4, <3>1
  <2>2. IsSeq(patches)
    BY <1>3
  <2> HIDE DEF Limit
  <2> QED  BY ONLY <2>1, <2>2, FewPatches
<1> QED  BY <1>1, <1>5, PatchesKept

\* What a command on the selection lays out.
LEMMA TargetsHold ==
    ASSUME NEW objs, NEW ids, IsSeq(ids)
    PROVE  LET items == LayoutTargets(objs, ids) IN
           /\ IsSeq(items)
           /\ \A i \in DOMAIN items : items[i] \in DOMAIN objs
           /\ Distinct(ids) => Distinct(items)
PROOF
<1> DEFINE kept == [i \in DOMAIN ids |-> IF ids[i] \in Unconnected(objs, DOMAIN objs)
                                         THEN <<ids[i]>> ELSE <<>>]
           items == LayoutTargets(objs, ids)
<1>1. items = FlattenSeq(kept)
  BY Zenon DEF LayoutTargets, Filter
<1>2. kept = [i \in DOMAIN ids |-> kept[i]]
  BY Zenon
<1>7. \A i \in DOMAIN ids : kept[i] \in {<<ids[i]>>, <<>>}
  BY Zenon
<1>3. \A i \in DOMAIN ids : kept[i] = <<ids[i]>> => ids[i] \in DOMAIN objs
  <2>1. SUFFICES ASSUME NEW i \in DOMAIN ids, ids[i] \notin Unconnected(objs, DOMAIN objs), kept[i] = <<ids[i]>>
                 PROVE  FALSE
    BY DEF Unconnected
  <2>2. kept[i] = <<>>
    BY <2>1
  <2>3. <<>> # <<ids[i]>>
    OBVIOUS
  <2> QED  BY <2>1, <2>2, <2>3
<1> HIDE DEF kept, items
<1>8. /\ IsSeq(FlattenSeq(kept))
      /\ \A e : e \in ToSet(FlattenSeq(kept)) <=> \E i \in DOMAIN ids : kept[i] = <<ids[i]>> /\ e = ids[i]
  BY ONLY IsSeq(ids), <1>2, <1>7, Filtered
<1>4. /\ IsSeq(items)
      /\ \A e : e \in ToSet(items) <=> \E i \in DOMAIN ids : kept[i] = <<ids[i]>> /\ e = ids[i]
  BY ONLY <1>1, <1>8
<1>5. Distinct(ids) => Distinct(items)
  <2>1. ASSUME Distinct(ids)
        PROVE  Distinct(FlattenSeq(kept))
    BY ONLY IsSeq(ids), <1>2, <1>7, <2>1, FilteredDistinct
  <2> QED  BY <1>1, <2>1
<1>6. \A i \in DOMAIN items : items[i] \in DOMAIN objs
  BY <1>3, <1>4 DEF ToSet
<1> QED  BY <1>4, <1>5, <1>6 DEF items

\* The boxes of objects in a row.
LEMMA BoxesOf ==
    ASSUME CanvasInv, NEW x \in DOMAIN objects, NEW axis \in {"x", "y"}
    PROVE  LET b == ObjectAABB(objects[x]) IN
           b[axis] \in Int /\ b[Size(axis)] \in Int /\ objects[x][axis] \in Int
PROOF
<1>1. ObjectAABB(objects[x]) \in Boxes /\ objects[x].x \in Int /\ objects[x].y \in Int
  BY BoardHere, FieldsOf
<1> DEFINE b == ObjectAABB(objects[x])
<1> HIDE DEF b
<1>2. b[axis] \in Int /\ b[Size(axis)] \in Int
  BY <1>1 DEF Boxes, Size, b
<1> QED  BY <1>1, <1>2 DEF b

LEMMA AlignKept ==
    ASSUME HistoryInv, CanvasInv, NEW kind, Align(kind)
    PROVE  Kept
PROOF
<1> DEFINE items == LayoutTargets(objects, selected)
           axis == IF kind \in {"left", "center", "right"} THEN "x" ELSE "y"
           size == Size(axis)
           b(i) == ObjectAABB(objects[items[i]])
           los == {b(i)[axis] : i \in DOMAIN items}
           his == {b(i)[axis] + b(i)[size] : i \in DOMAIN items}
           lo == Min(los)
           hi == Max(his)
           to(i) == CASE kind \in {"left", "top"} -> lo
                      [] kind \in {"right", "bottom"} -> hi - b(i)[size]
                      [] OTHER -> (lo + hi) \div 2 - b(i)[size] \div 2
           v(i) == to(i) + objects[items[i]][axis] - b(i)[axis]
           t == [i \in DOMAIN items |-> Patch(items[i], axis, v(i))]
           p == AlignPatches(kind, selected, objects)
<1>1. ApplyPatches("arrange", p)
  BY DEF Align
<1>2. p = IF Len(items) < 2 THEN <<>> ELSE t
  BY Zenon DEF AlignPatches
<1>3. p # <<>>
  BY <1>1 DEF ApplyPatches
<1>4. p = t /\ ~(Len(items) < 2)
  BY <1>2, <1>3
<1>5. IsSeq(items) /\ \A i \in DOMAIN items : items[i] \in DOMAIN objects
  BY TargetsHold DEF CanvasInv, Picked
<1>6. axis \in {"x", "y"}
  OBVIOUS
<1> HIDE DEF axis, items, p
<1>7. \A i \in DOMAIN items : b(i)[axis] \in Int /\ b(i)[size] \in Int /\ objects[items[i]][axis] \in Int
  BY <1>5, <1>6, BoxesOf
<1> HIDE DEF b, size
<1>8. Len(items) \in Nat /\ DOMAIN items = 1 .. Len(items) /\ IsFiniteSet(DOMAIN items) /\ 1 \in DOMAIN items
  <2>1. Len(items) \in Nat /\ DOMAIN items = 1 .. Len(items)
    BY <1>5, SeqIsFunction
  <2>2. IsFiniteSet(1 .. Len(items))
    BY <2>1, FS_Interval
  <2> QED  BY <1>4, <2>1, <2>2
<1>9. lo \in Int /\ hi \in Int
  <2> DEFINE f == [i \in DOMAIN items |-> b(i)[axis]]
             g == [i \in DOMAIN items |-> b(i)[axis] + b(i)[size]]
  <2>1. f \in Surjection(DOMAIN items, los) /\ g \in Surjection(DOMAIN items, his)
    BY DEF Surjection
  <2>2. IsFiniteSet(los) /\ IsFiniteSet(his)
    BY <1>8, <2>1, FS_Surjection
  <2>3. los \in SUBSET Int /\ his \in SUBSET Int /\ los # {} /\ his # {}
    BY <1>7, <1>8
  <2> HIDE DEF los, his
  <2> QED  BY <2>2, <2>3, Extremes
<1> HIDE DEF lo, hi, los, his
<1>10. \A i \in DOMAIN items : to(i) \in Int
  <2>1. SUFFICES ASSUME NEW i \in DOMAIN items
                 PROVE  to(i) \in Int
    OBVIOUS
  <2>2. hi - b(i)[size] \in Int /\ (lo + hi) \div 2 - b(i)[size] \div 2 \in Int
    BY <1>7, <1>9
  <2>3. to(i) \in {lo, hi - b(i)[size], (lo + hi) \div 2 - b(i)[size] \div 2}
    <3>1. CASE kind \in {"left", "top"}
      BY <3>1
    <3>2. CASE kind \notin {"left", "top"} /\ kind \in {"right", "bottom"}
      BY <3>2
    <3>3. CASE kind \notin {"left", "top"} /\ kind \notin {"right", "bottom"}
      BY <3>3
    <3> QED  BY <3>1, <3>2, <3>3
  <2> HIDE DEF to
  <2> QED  BY <1>9, <2>2, <2>3
<1> HIDE DEF to
<1>11. \A i \in DOMAIN items : v(i) \in Int
  BY <1>7, <1>10
<1> HIDE DEF v
<1>12. IsSeq(t) /\ DOMAIN t = DOMAIN items
  <2>1. t = [i \in DOMAIN items |-> t[i]]
    OBVIOUS
  <2> HIDE DEF t
  <2> QED  BY <1>5, <2>1, MappedIsSeq
<1>13. \A i \in DOMAIN t : t[i].id = items[i] /\ t[i].path = axis /\ t[i].value = v(i)
  BY <1>12 DEF Patch
<1> HIDE DEF t
<1>14. \A i \in DOMAIN t : /\ t[i].id \in 1 .. Limit - 1
                           /\ t[i].path \notin {"fromId", "toId"}
                           /\ FieldOk(t[i].path, t[i].value, Limit)
  <2>1. SUFFICES ASSUME NEW i \in DOMAIN t
                 PROVE  items[i] \in 1 .. Limit - 1 /\ axis \notin {"fromId", "toId"} /\ FieldOk(axis, v(i), Limit)
    BY <1>13
  <2>2. items[i] \in 1 .. Limit - 1
    BY <1>5, <1>12, BoardHere
  <2>3. v(i) \in Int
    BY <1>11, <1>12
  <2> QED  BY <1>6, <2>2, <2>3 DEF FieldOk
<1>15. Patching(t)
  BY <1>12, <1>14 DEF Patching
<1> QED  BY <1>1, <1>4, <1>15, PatchesKept

\* What is ordered by a number, and by another number where that is the same.
LEMMA ByNumbers ==
    ASSUME NEW S, NEW key, NEW pos, \A x \in S : key[x] \in Int /\ pos[x] \in Int,
           \A x, y \in S : pos[x] = pos[y] => x = y, NEW B,
           \A x, y \in S : <<x, y>> \in B <=> key[x] < key[y] \/ (key[x] = key[y] /\ pos[x] < pos[y])
    PROVE  Strictly(S, B)
PROOF
<1>1. ASSUME NEW x \in S, NEW y \in S, x # y
      PROVE  (<<x, y>> \in B \/ <<y, x>> \in B) /\ ~(<<x, y>> \in B /\ <<y, x>> \in B)
  <2>1. key[x] \in Int /\ key[y] \in Int /\ pos[x] \in Int /\ pos[y] \in Int /\ pos[x] # pos[y]
    BY <1>1
  <2>2. /\ <<x, y>> \in B <=> key[x] < key[y] \/ (key[x] = key[y] /\ pos[x] < pos[y])
        /\ <<y, x>> \in B <=> key[y] < key[x] \/ (key[y] = key[x] /\ pos[y] < pos[x])
    OBVIOUS
  <2> QED  BY ONLY <2>1, <2>2
<1>2. ASSUME NEW x \in S, NEW y \in S, NEW z \in S, <<x, y>> \in B /\ <<y, z>> \in B
      PROVE  <<x, z>> \in B
  <2>1. /\ key[x] \in Int /\ key[y] \in Int /\ key[z] \in Int
        /\ pos[x] \in Int /\ pos[y] \in Int /\ pos[z] \in Int
    OBVIOUS
  <2>2. /\ key[x] < key[y] \/ (key[x] = key[y] /\ pos[x] < pos[y])
        /\ key[y] < key[z] \/ (key[y] = key[z] /\ pos[y] < pos[z])
    BY <1>2
  <2>3. <<x, z>> \in B <=> key[x] < key[z] \/ (key[x] = key[z] /\ pos[x] < pos[z])
    OBVIOUS
  <2> QED  BY ONLY <2>1, <2>2, <2>3
<1> QED  BY <1>1, <1>2 DEF Strictly

\* A sequence that repeats nothing has as many elements as there are in it.
LEMMA DistinctLength ==
    ASSUME NEW s, IsSeq(s), Distinct(s)
    PROVE  IsFiniteSet(ToSet(s)) /\ Cardinality(ToSet(s)) = Len(s)
PROOF
<1>1. Len(s) \in Nat /\ DOMAIN s = 1 .. Len(s) /\ s = [k \in 1 .. Len(s) |-> s[k]]
  BY SeqIsFunction
<1> DEFINE n == Len(s)
           D == 1 .. n
           f == [k \in D |-> s[k]]
<1>2. IsFiniteSet(D) /\ Cardinality(D) = n
  <2>1. 1 \in Int /\ n \in Int /\ n >= 0
    BY <1>1
  <2> HIDE DEF n
  <2>2. IsFiniteSet(1 .. n) /\ Cardinality(1 .. n) = IF 1 > n THEN 0 ELSE n - 1 + 1
    BY ONLY <2>1, FS_Interval
  <2> QED  BY <2>1, <2>2
<1>3. f \in Surjection(D, ToSet(s))
  BY <1>1 DEF Surjection, ToSet
<1>4. f \in Injection(D, ToSet(s))
  <2>1. f \in [D -> ToSet(s)]
    BY <1>1 DEF ToSet
  <2>2. \A i, j \in D : f[i] = f[j] => i = j
    BY <1>1 DEF Distinct
  <2> QED  BY <2>1, <2>2 DEF Injection, IsInjective
<1> HIDE DEF D, f, n
<1>5. IsFiniteSet(ToSet(s)) /\ (Cardinality(ToSet(s)) = Cardinality(D) <=> f \in Injection(D, ToSet(s)))
  BY ONLY <1>2, <1>3, FS_Surjection
<1> QED  BY <1>2, <1>4, <1>5 DEF n

\* The sizes of the first i in a row, taken together.
Taking(f, n, w) == f = [i \in 0 .. n |-> IF i = 0 THEN 0 ELSE f[i - 1] + w[i]]

LEMMA TakingExists ==
    ASSUME NEW w
    PROVE  \A n \in Nat : \E f : Taking(f, n, w)
PROOF
<1> DEFINE T == {n \in Nat : \E f : Taking(f, n, w)}
<1>1. 0 \in T
  <2> DEFINE f == [i \in 0 .. 0 |-> 0]
  <2>1. f = [i \in 0 .. 0 |-> IF i = 0 THEN 0 ELSE f[i - 1] + w[i]]
    OBVIOUS
  <2> HIDE DEF f
  <2>2. Taking(f, 0, w)
    BY <2>1 DEF Taking
  <2> QED  BY <2>2
<1>2. ASSUME NEW n \in Nat, n \in T
      PROVE  n + 1 \in T
  <2>1. PICK f : Taking(f, n, w)
    BY <1>2
  <2> DEFINE g == [i \in 0 .. n + 1 |-> IF i = n + 1 THEN f[n] + w[n + 1] ELSE f[i]]
  <2>2. \A i \in 0 .. n : f[i] = IF i = 0 THEN 0 ELSE f[i - 1] + w[i]
    BY <2>1, Zenon DEF Taking
  <2>3. \A i \in 0 .. n + 1 : g[i] = IF i = 0 THEN 0 ELSE g[i - 1] + w[i]
    <3>1. SUFFICES ASSUME NEW i \in 0 .. n + 1
                   PROVE  g[i] = IF i = 0 THEN 0 ELSE g[i - 1] + w[i]
      OBVIOUS
    <3>2. CASE i = n + 1
      <4>1. g[i] = f[n] + w[i] /\ i # 0 /\ i - 1 = n /\ n \in 0 .. n + 1 /\ n # n + 1
        BY <3>2
      <4>2. g[i - 1] = f[n]
        BY <4>1
      <4> HIDE DEF g
      <4> QED  BY <4>1, <4>2
    <3>3. CASE i # n + 1
      <4>1. i \in 0 .. n /\ g[i] = f[i]
        BY <3>1, <3>3
      <4>2. CASE i = 0
        <5> HIDE DEF g
        <5> QED  BY <2>2, <4>1, <4>2
      <4>3. CASE i # 0
        <5>1. i - 1 \in 0 .. n + 1 /\ i - 1 # n + 1
          BY <4>1, <4>3
        <5>2. g[i - 1] = f[i - 1]
          BY <5>1
        <5> HIDE DEF g
        <5> QED  BY <2>2, <4>1, <4>3, <5>2
      <4> QED  BY <4>2, <4>3
    <3> QED  BY <3>2, <3>3
  <2>4. g = [i \in 0 .. n + 1 |-> g[i]]
    OBVIOUS
  <2> HIDE DEF g
  <2>5. Taking(g, n + 1, w)
    BY <2>3, <2>4 DEF Taking
  <2> QED  BY <2>5
<1> HIDE DEF T
<1>3. Nat \subseteq T
  BY <1>1, <1>2, SetInduction, Zenon
<1> QED  BY <1>3 DEF T

LEMMA TakingTyped ==
    ASSUME NEW n \in Nat, NEW w, \A i \in 1 .. n : w[i] \in Int, NEW f, Taking(f, n, w)
    PROVE  \A i \in 0 .. n : f[i] \in Int
PROOF
<1> DEFINE T == {m \in Nat : m \in 0 .. n => f[m] \in Int}
<1>1. \A i \in 0 .. n : f[i] = IF i = 0 THEN 0 ELSE f[i - 1] + w[i]
  BY Zenon DEF Taking
<1>2. 0 \in T
  BY <1>1
<1>3. ASSUME NEW m \in Nat, m \in T
      PROVE  m + 1 \in T
  <2>1. SUFFICES ASSUME m + 1 \in 0 .. n
                 PROVE  f[m + 1] \in Int
    OBVIOUS
  <2>2. m \in 0 .. n /\ m + 1 \in 1 .. n /\ m + 1 # 0 /\ (m + 1) - 1 = m
    BY <2>1
  <2>3. f[m] \in Int /\ w[m + 1] \in Int
    BY <1>3, <2>2
  <2>4. f[m + 1] = f[m] + w[m + 1]
    BY <1>1, <2>1, <2>2
  <2> QED  BY <2>3, <2>4
<1> HIDE DEF T
<1>4. Nat \subseteq T
  BY <1>2, <1>3, SetInduction, Zenon
<1> QED  BY <1>4 DEF T

LEMMA DistributeKept ==
    ASSUME HistoryInv, CanvasInv, NEW axis \in {"x", "y"}, Distribute(axis)
    PROVE  Kept
PROOF
<1> DEFINE items == LayoutTargets(objects, selected)
           size == Size(axis)
           n == Len(items)
           S == ToSet(items)
           b(x) == ObjectAABB(objects[x])
           under(x) == {y \in S \ {x} : \/ b(y)[axis] < b(x)[axis]
                                        \/ /\ b(y)[axis] = b(x)[axis]
                                           /\ \E i, j \in DOMAIN items : i < j /\ items[i] = y /\ items[j] = x}
           row == [i \in 1 .. Cardinality(S) |-> CHOOSE x \in S : Cardinality(under(x)) = i - 1]
           taken == CHOOSE f : f = [i \in 0 .. n |-> IF i = 0 THEN 0 ELSE f[i - 1] + b(row[i])[size]]
           span == b(row[n])[axis] + b(row[n])[size] - b(row[1])[axis]
           gap == (span - taken[n]) \div (n - 1)
           to(i) == b(row[1])[axis] + taken[i - 1] + (i - 1) * gap
           v(i) == to(i) + objects[row[i]][axis] - b(row[i])[axis]
           t == [i \in 1 .. n |-> Patch(row[i], axis, v(i))]
           p == DistributePatches(axis, selected, objects)
<1>1. ApplyPatches("arrange", p)
  BY DEF Distribute
<1>2. p = IF n < 3 THEN <<>> ELSE t
  BY Zenon DEF DistributePatches, Sorted
<1>3. p # <<>>
  BY <1>1 DEF ApplyPatches
<1>4. p = t /\ ~(n < 3)
  BY <1>2, <1>3
<1> HIDE DEF p
<1>5. IsSeq(items) /\ Distinct(items) /\ \A i \in DOMAIN items : items[i] \in DOMAIN objects
  BY TargetsHold DEF CanvasInv, Picked
<1> HIDE DEF items
<1>6. IsFiniteSet(S) /\ Cardinality(S) = n /\ n \in Nat /\ n >= 3 /\ DOMAIN items = 1 .. n
  <2>1. IsFiniteSet(S) /\ Cardinality(S) = n
    BY <1>5, DistinctLength
  <2>2. n \in Nat /\ DOMAIN items = 1 .. n
    BY <1>5, SeqIsFunction
  <2>3. ~(n < 3)
    BY <1>4
  <2> HIDE DEF S, n
  <2>4. n >= 3
    BY ONLY <2>2, <2>3
  <2> QED  BY <2>1, <2>2, <2>4
<1>7. S \in SUBSET DOMAIN objects
  BY <1>5 DEF ToSet
<1>8. \A x \in S : b(x)[axis] \in Int /\ b(x)[size] \in Int /\ objects[x][axis] \in Int
  BY <1>7, BoxesOf
<1> HIDE DEF b, size
<1> DEFINE pos == [x \in S |-> CHOOSE i \in DOMAIN items : items[i] = x]
           key == [x \in S |-> b(x)[axis]]
           rank == [x \in S |-> Cardinality(under(x))]
           B == {e \in S \X S : e[1] \in under(e[2])}
<1>9. \A x \in S : pos[x] \in DOMAIN items /\ items[pos[x]] = x
  <2>1. \A x \in S : \E i \in DOMAIN items : items[i] = x
    BY DEF ToSet
  <2> HIDE DEF S
  <2> QED  BY <2>1
<1>10. \A x \in S : key[x] = b(x)[axis] /\ key[x] \in Int /\ pos[x] \in Int
  BY <1>6, <1>8, <1>9
<1>11. \A x, y \in S : pos[x] = pos[y] => x = y
  BY <1>9
<1> HIDE DEF pos
<1>12. \A x, y \in S : (\E i, j \in DOMAIN items : i < j /\ items[i] = x /\ items[j] = y) <=> pos[x] < pos[y]
  <2>1. SUFFICES ASSUME NEW x \in S, NEW y \in S
                 PROVE  (\E i, j \in DOMAIN items : i < j /\ items[i] = x /\ items[j] = y) <=> pos[x] < pos[y]
    OBVIOUS
  <2>2. \A i \in DOMAIN items : (items[i] = x => i = pos[x]) /\ (items[i] = y => i = pos[y])
    BY <1>5, <1>9 DEF Distinct
  <2>3. pos[x] \in DOMAIN items /\ pos[y] \in DOMAIN items /\ items[pos[x]] = x /\ items[pos[y]] = y
    BY <1>9
  <2> QED  BY <2>2, <2>3
<1>13. \A x, y \in S : y \in under(x) <=> y # x /\ (key[y] < key[x] \/ (key[y] = key[x] /\ pos[y] < pos[x]))
  BY <1>10, <1>12
<1>u. \A x \in S : under(x) \in SUBSET S /\ rank[x] = Cardinality(under(x))
  OBVIOUS
<1> HIDE DEF S, key, under
<1>14. \A x, y \in S : <<x, y>> \in B <=> key[x] < key[y] \/ (key[x] = key[y] /\ pos[x] < pos[y])
  <2>1. \A x, y \in S : <<x, y>> \in B <=> x \in under(y)
    OBVIOUS
  <2>2. \A x, y \in S : x = y => ~(key[x] < key[y]) /\ ~(pos[x] < pos[y])
    BY <1>10
  <2> HIDE DEF B
  <2> QED  BY <1>13, <2>1, <2>2
<1>15. \A x, y \in S : y \in under(x) <=> y # x /\ <<y, x>> \in B
  BY <1>13, <1>14
<1> HIDE DEF B
<1>16. Strictly(S, B)
  <2>1. \A x \in S : key[x] \in Int /\ pos[x] \in Int
    BY <1>10
  <2> QED  BY ONLY <1>11, <1>14, <2>1, ByNumbers
<1>17. \A x \in S : Below(S, B, x, rank[x])
  BY <1>15, <1>u DEF Below
<1>18. Listed(S, rank, row)
  <2>1. \A i \in 1 .. Cardinality(S) : row[i] = CHOOSE x \in S : Cardinality(under(x)) = i - 1
    OBVIOUS
  <2>2. row = [i \in 1 .. Cardinality(S) |-> row[i]]
    OBVIOUS
  <2> HIDE DEF row, rank
  <2>3. \A i \in 1 .. Cardinality(S) : (\E x \in S : rank[x] = i - 1) => row[i] \in S /\ rank[row[i]] = i - 1
    BY <1>u, <2>1
  <2> QED  BY <2>2, <2>3 DEF Listed
<1> HIDE DEF row, rank
<1>19. IsSeq(row) /\ Len(row) = n /\ \A i \in DOMAIN row : row[i] \in S
  <2>1. IsFiniteSet(S)
    BY <1>6
  <2>2. /\ IsSeq(row) /\ Len(row) = Cardinality(S) /\ ToSet(row) = S /\ Distinct(row)
        /\ \A i \in DOMAIN row : row[i] \in S
    BY ONLY <1>16, <1>17, <1>18, <2>1, InOrder
  <2> QED  BY <1>6, <2>2
<1>20. \A i \in 1 .. n : row[i] \in S
  BY <1>19, SeqIsFunction
<1> HIDE DEF n
<1>21. \A i \in 0 .. n : taken[i] \in Int
  <2> DEFINE w == [i \in 1 .. n |-> b(row[i])[size]]
             T(f) == f = [i \in 0 .. n |-> IF i = 0 THEN 0 ELSE f[i - 1] + b(row[i])[size]]
  <2>1. \A i \in 1 .. n : w[i] = b(row[i])[size] /\ w[i] \in Int
    BY <1>8, <1>20
  <2>2. PICK f : Taking(f, n, w)
    BY <1>6, TakingExists
  <2> HIDE DEF w
  <2>3. \A i \in 0 .. n : i # 0 => i \in 1 .. n
    BY <1>6
  <2>4. \A f_1 : T(f_1) <=> Taking(f_1, n, w)
    <3>1. SUFFICES ASSUME NEW g
                   PROVE  T(g) <=> Taking(g, n, w)
      OBVIOUS
    <3>2. \A i \in 0 .. n : (IF i = 0 THEN 0 ELSE g[i - 1] + b(row[i])[size])
                               = IF i = 0 THEN 0 ELSE g[i - 1] + w[i]
      BY <2>1, <2>3
    <3>3. [i \in 0 .. n |-> IF i = 0 THEN 0 ELSE g[i - 1] + b(row[i])[size]]
             = [i \in 0 .. n |-> IF i = 0 THEN 0 ELSE g[i - 1] + w[i]]
      BY <3>2
    <3> QED  BY <3>3 DEF Taking
  <2>5. T(f)
    BY <2>2, <2>4
  <2>6. T(taken)
    BY <2>5, Zenon
  <2> HIDE DEF taken, T
  <2>7. Taking(taken, n, w)
    BY <2>4, <2>6
  <2>8. \A i \in 1 .. n : w[i] \in Int
    BY <2>1
  <2>9. n \in Nat
    BY <1>6
  <2> QED  BY ONLY <2>7, <2>8, <2>9, TakingTyped
<1> HIDE DEF taken
<1>22. 1 \in 1 .. n /\ n \in 1 .. n /\ n \in 0 .. n /\ n - 1 \in Int /\ n - 1 > 0
  BY <1>6
<1>23. span \in Int /\ b(row[1])[axis] \in Int
  <2>1. row[n] \in S /\ row[1] \in S
    BY <1>20, <1>22
  <2>2. b(row[n])[axis] \in Int /\ b(row[n])[size] \in Int /\ b(row[1])[axis] \in Int
    BY <1>8, <2>1
  <2> QED  BY <2>2
<1> HIDE DEF span
<1>24. gap \in Int
  <2> DEFINE a == span - taken[n]
             m == n - 1
  <2>1. a \in Int /\ m \in Int /\ m > 0
    BY <1>21, <1>22, <1>23
  <2> HIDE DEF a, m
  <2>2. a \div m \in Int
    BY <2>1
  <2> QED  BY <2>2 DEF a, m
<1> HIDE DEF gap
<1>25. \A i \in 1 .. n : v(i) \in Int
  <2>1. SUFFICES ASSUME NEW i \in 1 .. n
                 PROVE  v(i) \in Int
    OBVIOUS
  <2>2. taken[i - 1] \in Int /\ i - 1 \in Int
    <3>1. i - 1 \in 0 .. n
      BY <1>6
    <3> QED  BY <1>21, <3>1
  <2>3. (i - 1) * gap \in Int
    BY <1>24, <2>2
  <2>4. objects[row[i]][axis] \in Int /\ b(row[i])[axis] \in Int
    BY <1>8, <1>20
  <2>5. to(i) \in Int
    BY <1>23, <2>2, <2>3
  <2> HIDE DEF to
  <2> QED  BY <2>4, <2>5
<1> HIDE DEF v
<1>26. IsSeq(t) /\ DOMAIN t = 1 .. n
  <2>1. t = [i \in 1 .. n |-> t[i]]
    OBVIOUS
  <2>2. n \in Nat
    BY <1>6
  <2> HIDE DEF t
  <2> QED  BY ONLY <2>1, <2>2, FunctionIsSeq
<1>27. \A i \in 1 .. n : t[i].id = row[i] /\ t[i].path = axis /\ t[i].value = v(i)
  BY DEF Patch
<1> HIDE DEF t
<1>28. \A i \in DOMAIN t : /\ t[i].id \in 1 .. Limit - 1
                           /\ t[i].path \notin {"fromId", "toId"}
                           /\ FieldOk(t[i].path, t[i].value, Limit)
  <2>1. SUFFICES ASSUME NEW i \in 1 .. n
                 PROVE  row[i] \in 1 .. Limit - 1 /\ axis \notin {"fromId", "toId"} /\ FieldOk(axis, v(i), Limit)
    BY <1>26, <1>27
  <2>2. row[i] \in 1 .. Limit - 1
    BY <1>7, <1>20, BoardHere
  <2>3. v(i) \in Int
    BY <1>25
  <2> QED  BY <2>2, <2>3 DEF FieldOk
<1>29. Patching(t)
  BY <1>26, <1>28 DEF Patching
<1> QED  BY <1>1, <1>4, <1>29, PatchesKept

-----------------------------------------------------------------------------
\* What is there of what is picked.
Present(ids, objs) == FlattenSeq([i \in DOMAIN ids |-> IF ids[i] \in DOMAIN objs THEN <<ids[i]>> ELSE <<>>])

\* It is a sequence of objects.
LEMMA PresentHold ==
    ASSUME NEW ids, IsSeq(ids), NEW objs
    PROVE  IsSeq(Present(ids, objs)) /\ \A i \in DOMAIN Present(ids, objs) : Present(ids, objs)[i] \in DOMAIN objs
PROOF
<1> DEFINE kept == [i \in DOMAIN ids |-> IF ids[i] \in DOMAIN objs THEN <<ids[i]>> ELSE <<>>]
           here == Present(ids, objs)
<1>1. here = FlattenSeq(kept)
  BY DEF Present
<1>2. kept = [i \in DOMAIN ids |-> kept[i]]
  BY Zenon
<1>3. \A i \in DOMAIN ids : kept[i] \in {<<ids[i]>>, <<>>}
  BY Zenon
<1>4. \A i \in DOMAIN ids : kept[i] = <<ids[i]>> => ids[i] \in DOMAIN objs
  <2>1. SUFFICES ASSUME NEW i \in DOMAIN ids, ids[i] \notin DOMAIN objs, kept[i] = <<ids[i]>>
                 PROVE  FALSE
    OBVIOUS
  <2>2. kept[i] = <<>>
    BY <2>1
  <2>3. <<>> # <<ids[i]>>
    OBVIOUS
  <2> QED  BY <2>1, <2>2, <2>3
<1> HIDE DEF kept, here
<1>5. /\ IsSeq(FlattenSeq(kept))
      /\ \A e : e \in ToSet(FlattenSeq(kept)) <=> \E i \in DOMAIN ids : kept[i] = <<ids[i]>> /\ e = ids[i]
  BY ONLY IsSeq(ids), <1>2, <1>3, Filtered
<1>6. /\ IsSeq(here)
      /\ \A e : e \in ToSet(here) <=> \E i \in DOMAIN ids : kept[i] = <<ids[i]>> /\ e = ids[i]
  BY ONLY <1>1, <1>5
<1>7. \A i \in DOMAIN here : here[i] \in DOMAIN objs
  BY <1>4, <1>6 DEF ToSet
<1> QED  BY <1>6, <1>7 DEF here

\* To the front or the back: a number for each of the selection that is there.
LEMMA BeyondHolds ==
    ASSUME CanvasInv, NEW action
    PROVE  Patching(BeyondPatches(action, selected, objects))
PROOF
<1> DEFINE here == FlattenSeq([i \in DOMAIN selected |->
                                 IF selected[i] \in DOMAIN objects THEN <<selected[i]>> ELSE <<>>])
           zs == {objects[x].z : x \in DOMAIN objects}
           first == IF action = "front" THEN Max(zs) + 1 ELSE Min(zs) - Len(here)
           p == [i \in DOMAIN here |-> Patch(here[i], "z", first + i - 1)]
<1>1. BeyondPatches(action, selected, objects) = p
  BY Zenon DEF BeyondPatches, Filter
<1>5. IsSeq(here) /\ \A i \in DOMAIN here : here[i] \in DOMAIN objects
  <2>1. IsSeq(selected)
    BY DEF CanvasInv, Picked
  <2>2. here = Present(selected, objects)
    BY DEF Present
  <2> QED  BY <2>1, <2>2, PresentHold
<1>6. p = [i \in DOMAIN here |-> p[i]] /\ \A i \in DOMAIN here : p[i] = Patch(here[i], "z", first + i - 1)
  BY Zenon
<1> HIDE DEF here, p
<1>7. \A i \in DOMAIN here : here[i] \in DOMAIN objects
  BY <1>5
<1>8. IsSeq(p) /\ DOMAIN p = DOMAIN here
  BY <1>5, <1>6, MappedIsSeq
<1>9. \A i \in DOMAIN here : i \in Int
  BY <1>5, SeqIsFunction
<1>10. \A i \in DOMAIN here : first \in Int
  <2>1. SUFFICES ASSUME DOMAIN objects # {}
                 PROVE  first \in Int
    BY <1>7
  <2> DEFINE f == [x \in DOMAIN objects |-> objects[x].z]
  <2>2. f \in Surjection(DOMAIN objects, zs)
    BY DEF Surjection
  <2>3. IsFiniteSet(zs)
    BY <2>2, BoardHere, FS_Surjection
  <2>4. zs \in SUBSET Int /\ zs # {}
    BY <2>1, BoardHere, FieldsOf
  <2>5. Len(here) \in Int
    BY <1>5, SeqIsFunction
  <2> HIDE DEF zs
  <2>6. Min(zs) \in Int /\ Max(zs) \in Int
    BY <2>3, <2>4, Extremes
  <2> QED  BY <2>5, <2>6
<1> HIDE DEF first
<1>11. \A i \in DOMAIN here : first + i - 1 \in Int
  BY <1>9, <1>10
<1>12. \A i \in DOMAIN p : p[i].id = here[i] /\ p[i].path = "z" /\ p[i].value = first + i - 1
  BY <1>6, <1>8 DEF Patch
<1>13. \A i \in DOMAIN p : p[i].id \in 1 .. Limit - 1 /\ p[i].path = "z" /\ p[i].value \in Int
  BY <1>7, <1>8, <1>11, <1>12, BoardHere
<1> HIDE DEF Limit
<1>14. Patching(p)
  BY <1>8, <1>13 DEF Patching, FieldOk
<1> QED  BY <1>1, <1>14

\* What a fold of trades has: places of objects, and patches of their z.
Traded(st) ==
    /\ \A k \in DOMAIN st.stack : st.stack[k] \in DOMAIN objects
    /\ IsSeq(st.out)
    /\ \A e \in ToSet(st.out) : \E x \in DOMAIN objects : \E v \in Int : e = Patch(x, "z", v)

\* A trade leaves it so,
LEMMA TradeHolds ==
    ASSUME CanvasInv, NEW dir, NEW ids, NEW st, Traded(st), NEW x \in DOMAIN objects
    PROVE  Traded(Trade(dir, ids, objects, st, x))
PROOF
<1> DEFINE i == SelectInSeq(st.stack, LAMBDA y : y = x)
           j == i + dir
           y == st.stack[j]
           a == Patch(x, "z", objects[y].z)
           b == Patch(y, "z", objects[x].z)
           stack == [st.stack EXCEPT ![i] = y, ![j] = x]
           out == st.out \o <<a, b>>
           done == [stack |-> stack, out |-> out]
<1>1. Trade(dir, ids, objects, st, x) =
         IF x \notin ToSet(ids) \/ j \notin DOMAIN st.stack \/ st.stack[j] \in ToSet(ids) THEN st ELSE done
  BY Zenon DEF Trade
<1>2. done.stack = stack /\ done.out = out
  BY Zenon
<1> HIDE DEF i, done
<1>3. ASSUME j \in DOMAIN st.stack
      PROVE  Traded(done)
  <2> HIDE DEF j
  <2>1. y \in DOMAIN objects
    BY <1>3 DEF Traded
  <2>2. objects[y].z \in Int /\ objects[x].z \in Int
    BY <2>1, BoardHere, FieldsOf
  <2>3. \A k \in DOMAIN stack : stack[k] \in DOMAIN objects
    <3>1. \A k \in DOMAIN st.stack : st.stack[k] \in DOMAIN objects
      BY DEF Traded
    <3> HIDE DEF y
    <3>2. DOMAIN stack = DOMAIN st.stack
      OBVIOUS
    <3>3. \A k \in DOMAIN st.stack : stack[k] \in {st.stack[k], x, y}
      OBVIOUS
    <3> QED  BY <2>1, <3>1, <3>2, <3>3
  <2> HIDE DEF stack, y
  <2>4. a \in {Patch(x, "z", v) : v \in Int} /\ b \in {Patch(y, "z", v) : v \in Int}
    BY <2>2
  <2> HIDE DEF a, b
  <2>5. IsSeq(st.out) /\ IsSeq(<<a, b>>) /\ ToSet(<<a, b>>) = {a, b}
    BY TupleIsSeq, SetOfOne DEF Traded
  <2>6. IsSeq(out) /\ ToSet(out) \subseteq ToSet(st.out) \cup {a, b}
    <3>1. IsSeq(out)
      BY <2>5, ConcatIsSeq
    <3>2. ToSet(out) \subseteq ToSet(st.out) \cup ToSet(<<a, b>>)
      BY <2>5, StackElements
    <3> QED  BY <2>5, <3>1, <3>2
  <2> HIDE DEF out
  <2>7. \A e \in ToSet(out) : \E z \in DOMAIN objects : \E v \in Int : e = Patch(z, "z", v)
    <3>1. \A e \in ToSet(st.out) : \E z \in DOMAIN objects : \E v \in Int : e = Patch(z, "z", v)
      BY DEF Traded
    <3> QED  BY <2>1, <2>4, <2>6, <3>1
  <2> QED  BY <1>2, <2>3, <2>6, <2>7 DEF Traded
<1> HIDE DEF j
<1>4. Trade(dir, ids, objects, st, x) = st \/ (j \in DOMAIN st.stack /\ Trade(dir, ids, objects, st, x) = done)
  BY <1>1, Zenon
<1> QED  BY <1>3, <1>4

\* and so do all of them.
LEMMA TradesHold ==
    ASSUME CanvasInv, NEW dir, NEW ids, NEW order, NEW base, NEW n \in Nat, NEW G,
           \A k \in 1 .. n : order[k] \in DOMAIN objects,
           Traded(base), Trading(G, n, dir, ids, objects, order, base)
    PROVE  Traded(G[1 .. n])
PROOF
<1> DEFINE T == {k \in Nat : k <= n => Traded(G[1 .. k])}
<1>1. 0 \in T
  <2>1. 1 .. 0 = {} /\ {} \in SUBSET (1 .. n)
    OBVIOUS
  <2>2. G[{}] = base
    BY <2>1, Zenon DEF Trading
  <2> QED  BY <2>1, <2>2
<1>2. ASSUME NEW k \in Nat, k \in T PROVE k + 1 \in T
  <2> SUFFICES ASSUME k + 1 <= n PROVE Traded(G[1 .. k + 1])
    OBVIOUS
  <2>1. Traded(G[1 .. k])
    BY <1>2
  <2>2. 1 .. k + 1 \in SUBSET (1 .. n) /\ 1 .. k + 1 # {} /\ k + 1 \in 1 .. n
    OBVIOUS
  <2>3. Max(1 .. k + 1) = k + 1
    BY MaxOfTop
  <2>4. (1 .. k + 1) \ {k + 1} = 1 .. k
    OBVIOUS
  <2>5. G[1 .. k + 1] = Trade(dir, ids, objects, G[1 .. k], order[k + 1])
    BY <2>2, <2>3, <2>4, Zenon DEF Trading
  <2>6. order[k + 1] \in DOMAIN objects
    BY <2>2
  <2> QED  BY <2>1, <2>5, <2>6, TradeHolds
<1> HIDE DEF T
<1>3. Nat \subseteq T
  BY <1>1, <1>2, SetInduction, Zenon
<1> QED  BY <1>3 DEF T

\* The stack holds the objects.
LEMMA StackHolds ==
    ASSUME CanvasInv
    PROVE  LET s == Stack(objects) IN
           /\ IsSeq(s) /\ Len(s) = Cardinality(DOMAIN objects)
           /\ \A i \in DOMAIN s : s[i] \in DOMAIN objects
PROOF
<1> DEFINE S == DOMAIN objects
           under(x) == {y \in S \ {x} : \/ objects[y].z < objects[x].z
                                        \/ (objects[y].z = objects[x].z /\ y < x)}
           s == [i \in 1 .. Cardinality(S) |-> CHOOSE x \in S : Cardinality(under(x)) = i - 1]
           key == [x \in S |-> objects[x].z]
           pos == [x \in S |-> x]
           rank == [x \in S |-> Cardinality(under(x))]
           B == {e \in S \X S : key[e[1]] < key[e[2]] \/ (key[e[1]] = key[e[2]] /\ pos[e[1]] < pos[e[2]])}
<1>1. Stack(objects) = s
  BY DEF Stack, Sorted
<1>2. \A x \in S : key[x] = objects[x].z /\ key[x] \in Int /\ pos[x] = x /\ pos[x] \in Int
  BY BoardHere, FieldsOf
<1>3. \A x, y \in S : pos[x] = pos[y] => x = y
  BY <1>2
<1>4. \A x, y \in S : <<x, y>> \in B <=> key[x] < key[y] \/ (key[x] = key[y] /\ pos[x] < pos[y])
  OBVIOUS
<1>5. \A x, y \in S : y \in under(x) <=> y # x /\ (key[y] < key[x] \/ (key[y] = key[x] /\ pos[y] < pos[x]))
  BY <1>2
<1>6. \A x \in S : under(x) \in SUBSET S /\ rank[x] = Cardinality(under(x))
  OBVIOUS
<1>f. IsFiniteSet(S)
  BY BoardHere
<1> HIDE DEF B, key, pos, under, S
<1>7. \A x, y \in S : y \in under(x) <=> y # x /\ <<y, x>> \in B
  BY <1>4, <1>5
<1>8. Strictly(S, B)
  <2>1. \A x \in S : key[x] \in Int /\ pos[x] \in Int
    BY <1>2
  <2> QED  BY ONLY <1>3, <1>4, <2>1, ByNumbers
<1>9. \A x \in S : Below(S, B, x, rank[x])
  BY <1>6, <1>7 DEF Below
<1>10. Listed(S, rank, s)
  <2>1. \A i \in 1 .. Cardinality(S) : s[i] = CHOOSE x \in S : Cardinality(under(x)) = i - 1
    OBVIOUS
  <2>2. s = [i \in 1 .. Cardinality(S) |-> s[i]]
    OBVIOUS
  <2> HIDE DEF s, rank
  <2>3. \A i \in 1 .. Cardinality(S) : (\E x \in S : rank[x] = i - 1) => s[i] \in S /\ rank[s[i]] = i - 1
    BY <1>6, <2>1
  <2> QED  BY <2>2, <2>3 DEF Listed
<1> HIDE DEF s, rank
<1>11. /\ IsSeq(s) /\ Len(s) = Cardinality(S) /\ ToSet(s) = S /\ Distinct(s)
       /\ \A i \in DOMAIN s : s[i] \in S
  BY ONLY <1>f, <1>8, <1>9, <1>10, InOrder
<1> QED  BY <1>1, <1>11 DEF S

\* Forward or backward.
LEMMA StepPatchesHold ==
    ASSUME CanvasInv, NEW action
    PROVE  Patching(StepPatches(action, selected, objects))
PROOF
<1> DEFINE dir == IF action = "forward" THEN 1 ELSE -1
           stack == Stack(objects)
           order == IF dir = 1 THEN Reverse(stack) ELSE stack
           base == [stack |-> stack, out |-> <<>>]
           n == Cardinality(DOMAIN objects)
           G == CHOOSE g : Trading(g, n, dir, selected, objects, order, base)
<1>1. n \in Nat
  BY BoardHere, FS_CardinalityType
<1>2. IsSeq(stack) /\ Len(stack) = n /\ \A i \in DOMAIN stack : stack[i] \in DOMAIN objects
  BY StackHolds
<1>3. DOMAIN order = 1 .. n /\ \A i \in 1 .. n : order[i] \in DOMAIN objects
  <2>1. DOMAIN stack = 1 .. n
    BY <1>2, SeqIsFunction
  <2>2. DOMAIN Reverse(stack) = 1 .. n
    BY <1>2, Zenon DEF Reverse
  <2>3. ToSet(Reverse(stack)) = ToSet(stack)
    BY <1>2, ReverseHolds
  <2> DEFINE back == Reverse(stack)
  <2>4. \A i \in 1 .. n : back[i] \in ToSet(stack)
    <3>1. \A i \in DOMAIN back : back[i] \in ToSet(back)
      BY Zenon DEF ToSet
    <3> HIDE DEF back, n
    <3> QED  BY <2>2, <2>3, <3>1 DEF back
  <2>5. \A e \in ToSet(stack) : e \in DOMAIN objects
    BY <1>2 DEF ToSet
  <2> HIDE DEF stack, n, dir
  <2>6. \A i \in 1 .. n : back[i] \in DOMAIN objects /\ stack[i] \in DOMAIN objects
    BY <1>2, <2>1, <2>4, <2>5
  <2>7. order = back \/ order = stack
    BY Zenon
  <2>8. DOMAIN back = 1 .. n
    BY <2>2
  <2> HIDE DEF order, back
  <2> QED  BY <2>1, <2>6, <2>7, <2>8
<1>4. Trading(G, n, dir, selected, objects, order, base)
  <2> HIDE DEF n, dir, order, base
  <2>1. \E g : Trading(g, n, dir, selected, objects, order, base)
    BY <1>1, TradingExists
  <2> QED  BY <2>1
<1>5. StepPatches(action, selected, objects) = G[1 .. n].out
  BY <1>3, Zenon DEF StepPatches, FoldLeft, MapThenFoldSet, Trading, Trade
<1>6. Traded(base)
  <2>1. IsSeq(<<>>) /\ ToSet(<<>>) = {}
    BY TupleIsSeq, SetOfOne
  <2>2. base.stack = stack /\ base.out = <<>>
    BY Zenon
  <2> HIDE DEF base, stack
  <2> QED  BY <1>2, <2>1, <2>2 DEF Traded
<1> HIDE DEF n, dir, order, base, G
<1>7. Traded(G[1 .. n])
  BY <1>1, <1>3, <1>4, <1>6, TradesHold
<1> DEFINE p == G[1 .. n].out
<1>8. IsSeq(p) /\ \A e \in ToSet(p) : \E x \in DOMAIN objects : \E v \in Int : e = Patch(x, "z", v)
  BY <1>7 DEF Traded
<1> HIDE DEF p
<1>9. Patching(p)
  <2>1. SUFFICES ASSUME NEW e \in ToSet(p)
                 PROVE  \E y \in 1 .. Limit - 1 : \E path : \E w :
                           e = Patch(y, path, w) /\ path \notin {"fromId", "toId"} /\ FieldOk(path, w, Limit)
    BY <1>8, FewPatches
  <2>2. PICK x \in DOMAIN objects, v \in Int : e = Patch(x, "z", v)
    BY <1>8
  <2>3. x \in 1 .. Limit - 1
    BY BoardHere
  <2>4. FieldOk("z", v, Limit)
    BY DEF FieldOk
  <2> HIDE DEF Limit
  <2> QED  BY <2>2, <2>3, <2>4
<1> QED  BY <1>5, <1>9 DEF p

\* The four commands that restack.
LEMMA RestackKept ==
    ASSUME HistoryInv, CanvasInv, NEW action, Restack(action)
    PROVE  Kept
PROOF
<1> DEFINE p == ZPatches(action, selected, objects)
<1>1. ApplyPatches(action, p)
  BY DEF Restack
<1>2. p # <<>>
  BY <1>1 DEF ApplyPatches
<1>3. p \in {BeyondPatches(action, selected, objects), StepPatches(action, selected, objects)}
  BY <1>2, Zenon DEF ZPatches
<1> HIDE DEF p
<1>4. Patching(p)
  BY <1>3, BeyondHolds, StepPatchesHold
<1> QED  BY <1>1, <1>4, PatchesKept

-----------------------------------------------------------------------------
\* Groups and drawings

\* What is made first, with the others put into it.
LEMMA MadeAround ==
    ASSUME CanvasInv, NEW o, IsObject(o, Limit + IdsPerCommand),
           NEW s, IsSeq(s), \A i \in DOMAIN s : s[i] \in DOMAIN objects,
           NEW made, made = Create(NewId(1), o),
           NEW taken, taken = [i \in DOMAIN s |-> taken[i]],
           \A i \in DOMAIN s : taken[i] = Update(s[i], "parentId", NewId(1))
    PROVE  IsSeq(<<made>> \o taken) /\ \A op \in ToSet(<<made>> \o taken) : Good(op)
PROOF
<1>1. Good(made)
  BY Room, GoodCreate
<1>2. FieldOk("parentId", NewId(1), Limit + IdsPerCommand)
  <2> DEFINE m == Limit + IdsPerCommand
             k == NewId(1)
  <2>1. m \in Nat \ {0} /\ k \in 1 .. m - 1
    BY Room
  <2> HIDE DEF m, k
  <2>2. FieldOk("parentId", k, m)
    BY <2>1 DEF FieldOk
  <2> QED  BY <2>2 DEF m, k
<1>3. \A x \in DOMAIN objects : Good(Update(x, "parentId", NewId(1)))
  <2>1. SUFFICES ASSUME NEW x \in DOMAIN objects
                 PROVE  Good(Update(x, "parentId", NewId(1)))
    OBVIOUS
  <2>2. x \in 1 .. Limit - 1
    BY BoardHere
  <2> QED  BY <1>2, <2>2, GoodUpdate
<1>4. IsSeq(taken) /\ DOMAIN taken = DOMAIN s
  BY MappedIsSeq
<1>5. \A op \in ToSet(taken) : Good(op)
  BY <1>3, <1>4 DEF ToSet
<1>6. IsSeq(<<made>>) /\ ToSet(<<made>>) = {made}
  BY TupleIsSeq, SetOfOne
<1>7. IsSeq(<<made>> \o taken)
  BY <1>4, <1>6, ConcatIsSeq
<1>8. ToSet(<<made>> \o taken) \subseteq ToSet(<<made>>) \cup ToSet(taken)
  BY <1>4, <1>6, StackElements
<1> QED  BY <1>1, <1>5, <1>6, <1>7, <1>8

\* The box around some boxes.
LEMMA UnionIsBox ==
    ASSUME NEW S \in SUBSET Boxes, IsFiniteSet(S), S # {}
    PROVE  UnionBoxes(S) \in Boxes /\ \A pad \in Int : Padded(UnionBoxes(S), pad) \in Boxes
PROOF
<1> DEFINE xs == {b.x : b \in S}
           ys == {b.y : b \in S}
           rs == {b.x + b.w : b \in S}
           es == {b.y + b.h : b \in S}
<1>1. IsFiniteSet(xs) /\ IsFiniteSet(ys) /\ IsFiniteSet(rs) /\ IsFiniteSet(es)
  <2> DEFINE f == [b \in S |-> b.x]
             g == [b \in S |-> b.y]
             h == [b \in S |-> b.x + b.w]
             k == [b \in S |-> b.y + b.h]
  <2>1. f \in Surjection(S, xs) /\ g \in Surjection(S, ys) /\ h \in Surjection(S, rs) /\ k \in Surjection(S, es)
    BY DEF Surjection
  <2> HIDE DEF f, g, h, k, xs, ys, rs, es
  <2> QED  BY <2>1, FS_Surjection
<1>2. /\ xs \in SUBSET Int /\ ys \in SUBSET Int /\ rs \in SUBSET Int /\ es \in SUBSET Int
      /\ xs # {} /\ ys # {} /\ rs # {} /\ es # {}
  BY DEF Boxes
<1> DEFINE x == Min(xs)
           y == Min(ys)
           r == Max(rs)
           e == Max(es)
<1>3. UnionBoxes(S) = Box(x, y, Max({Px, r - x}), Max({Px, e - y}))
  BY DEF UnionBoxes
<1> HIDE DEF xs, ys, rs, es
<1>4. x \in Int /\ y \in Int /\ r \in Int /\ e \in Int
  BY <1>1, <1>2, Extremes
<1> HIDE DEF x, y, r, e
<1>5. \A a : a \in Int => Max({Px, a}) \in Int
  <2>1. SUFFICES ASSUME NEW a \in Int
                 PROVE  Max({Px, a}) \in Int
    OBVIOUS
  <2> DEFINE T == {Px, a}
  <2>2. T \in SUBSET Int /\ T # {}
    BY PxAssumption
  <2>3. IsFiniteSet(T)
    <3>1. IsFiniteSet({} \cup {Px}) /\ IsFiniteSet(({} \cup {Px}) \cup {a})
      BY FS_EmptySet, FS_AddElement
    <3>2. T = ({} \cup {Px}) \cup {a}
      OBVIOUS
    <3> QED  BY <3>1, <3>2
  <2> HIDE DEF T
  <2>4. Max(T) \in Int
    BY <2>2, <2>3, Extremes
  <2> QED  BY <2>4 DEF T
<1> DEFINE w == Max({Px, r - x})
           h == Max({Px, e - y})
<1>6. w \in Int /\ h \in Int
  BY <1>4, <1>5
<1> HIDE DEF w, h
<1>7. Box(x, y, w, h) \in Boxes /\ \A pad \in Int : Padded(Box(x, y, w, h), pad) \in Boxes
  BY <1>4, <1>6 DEF Boxes, Box, Padded
<1> QED  BY <1>3, <1>7 DEF w, h

\* groupSelected
LEMMA GroupKept ==
    ASSUME HistoryInv, CanvasInv, GroupSelected
    PROVE  Kept
PROOF
<1> DEFINE members == LayoutTargets(objects, selected)
           boxes == {ObjectAABB(objects[x]) : x \in ToSet(members)}
           box == Padded(UnionBoxes(boxes), 8 * Px)
           o == ObjectOf("group", box, NextZ(objects))
           made == Create(NewId(1), o)
           taken == [i \in DOMAIN members |-> Update(members[i], "parentId", NewId(1))]
           ops == <<made>> \o taken
<1>1. Edit("group", <<ops>>, <<NewId(1)>>) /\ Len(members) >= 2
  BY Zenon DEF GroupSelected
<1>2. IsSeq(members) /\ Distinct(members) /\ \A i \in DOMAIN members : members[i] \in DOMAIN objects
  BY TargetsHold DEF CanvasInv, Picked
<1>3. taken = [i \in DOMAIN members |-> taken[i]]
  BY Zenon
<1>4. \A i \in DOMAIN members : taken[i] = Update(members[i], "parentId", NewId(1))
  BY Zenon
<1> HIDE DEF members, taken
<1>5. boxes \in SUBSET Boxes /\ IsFiniteSet(boxes) /\ boxes # {}
  <2> DEFINE S == ToSet(members)
             f == [x \in S |-> ObjectAABB(objects[x])]
  <2>1. f \in Surjection(S, boxes)
    BY DEF Surjection
  <2>2. IsFiniteSet(S)
    BY <1>2, DistinctLength
  <2>3. Len(members) \in Nat /\ DOMAIN members = 1 .. Len(members)
    BY <1>2, SeqIsFunction
  <2>4. 1 \in DOMAIN members
    BY <1>1, <2>3
  <2>5. members[1] \in S
    BY <2>4 DEF ToSet
  <2>6. S \subseteq DOMAIN objects
    BY <1>2 DEF ToSet
  <2>7. boxes = {ObjectAABB(objects[x]) : x \in S}
    OBVIOUS
  <2> HIDE DEF S
  <2>8. \A x \in S : ObjectAABB(objects[x]) \in Boxes
    BY <2>6, BoardHere, FieldsOf
  <2> HIDE DEF boxes
  <2>9. IsFiniteSet(boxes)
    BY <2>1, <2>2, FS_Surjection
  <2> QED  BY <2>5, <2>7, <2>8, <2>9
<1> HIDE DEF boxes
<1>6. box \in Boxes
  BY <1>5, PxAssumption, UnionIsBox
<1> HIDE DEF box
<1>7. IsObject(o, Limit + IdsPerCommand)
  BY <1>6, BoardHere, Fresh
<1>8. made = Create(NewId(1), o)
  OBVIOUS
<1> HIDE DEF o, made
<1>9. IsSeq(ops) /\ \A op \in ToSet(ops) : Good(op)
  BY <1>2, <1>3, <1>4, <1>7, <1>8, MadeAround
<1> HIDE DEF ops
<1> DEFINE batches == <<ops>>
           sel == <<NewId(1)>>
<1>10. Writing(batches) /\ Picked(sel, Limit + IdsPerCommand) /\ Edit("group", batches, sel)
  BY <1>1, <1>9, GoodBatches, PickedStill
<1> HIDE DEF batches, sel
<1> QED  BY <1>10, WroteKept

\* ungroupSelected: the members of distinct groups are distinct.
LEMMA UngroupKept ==
    ASSUME HistoryInv, CanvasInv, UngroupSelected
    PROVE  Kept
PROOF
<1> DEFINE picked == {x \in ToSet(selected) : x \in DOMAIN objects}
           ids == {x \in picked : IsGroup(objects, x)}
                  \cup {g \in {ParentIn(objects, x) : x \in picked} : IsGroup(objects, g)}
           groups == Ascending(ids)
           inside(g) == {x \in DOMAIN objects : objects[x].parentId = g}
           members(g) == Ascending(inside(g))
           ops == [i \in DOMAIN groups |-> Delete(groups[i])]
           each == [i \in DOMAIN groups |-> members(groups[i])]
           sel == FlattenSeq(each)
<1>1. Edit("ungroup", <<ops>>, sel)
  BY Zenon DEF UngroupSelected
<1>2. IsFiniteSet(DOMAIN objects) /\ DOMAIN objects \in SUBSET Int /\ \A x \in DOMAIN objects : x \in 1 .. Limit - 1
  BY BoardHere
<1>3. IsSeq(groups) /\ Distinct(groups)
  <2>1. ids \subseteq DOMAIN objects
    BY DEF IsGroup
  <2> HIDE DEF ids
  <2>2. IsFiniteSet(ids) /\ ids \in SUBSET Int
    BY <1>2, <2>1, FS_Subset
  <2> QED  BY <2>2, AscendingHolds
<1> HIDE DEF groups
<1>4. \A g : IsSeq(members(g)) /\ Distinct(members(g)) /\ ToSet(members(g)) = inside(g)
  <2>1. SUFFICES ASSUME NEW g
                 PROVE  IsSeq(members(g)) /\ Distinct(members(g)) /\ ToSet(members(g)) = inside(g)
    OBVIOUS
  <2> DEFINE S == inside(g)
  <2>2. S \subseteq DOMAIN objects
    OBVIOUS
  <2> HIDE DEF S
  <2>3. IsFiniteSet(S) /\ S \in SUBSET Int
    BY <1>2, <2>2, FS_Subset
  <2>4. IsSeq(Ascending(S)) /\ Distinct(Ascending(S)) /\ ToSet(Ascending(S)) = S
    BY <2>3, AscendingHolds
  <2> QED  BY <2>4 DEF S
<1>5. \A g, h : g # h => inside(g) \cap inside(h) = {}
  OBVIOUS
<1>6. \A g : inside(g) \subseteq DOMAIN objects
  OBVIOUS
<1> HIDE DEF inside, members
<1>7. each = [i \in DOMAIN groups |-> each[i]]
  BY Zenon
<1>8. \A i \in DOMAIN groups : each[i] = members(groups[i])
  BY Zenon
<1>9. ops = [i \in DOMAIN groups |-> ops[i]]
  BY Zenon
<1>10. \A i \in DOMAIN groups : ops[i] = Delete(groups[i])
  BY Zenon
<1> HIDE DEF each, ops
<1>11. IsSeq(each) /\ DOMAIN each = DOMAIN groups
  BY <1>3, <1>7, MappedIsSeq
<1>12. \A i \in DOMAIN each : IsSeq(each[i]) /\ Distinct(each[i]) /\ ToSet(each[i]) = inside(groups[i])
  BY <1>4, <1>8, <1>11
<1>13. \A i, j \in DOMAIN each : i # j => ToSet(each[i]) \cap ToSet(each[j]) = {}
  <2>1. SUFFICES ASSUME NEW i \in DOMAIN each, NEW j \in DOMAIN each, i # j
                 PROVE  ToSet(each[i]) \cap ToSet(each[j]) = {}
    OBVIOUS
  <2>2. groups[i] # groups[j]
    BY <1>3, <1>11, <2>1 DEF Distinct
  <2> QED  BY <1>5, <1>12, <2>2
<1>14. Distinct(sel)
  <2>1. \A i \in DOMAIN each : IsSeq(each[i]) /\ Distinct(each[i])
    BY <1>12
  <2>2. IsSeq(each)
    BY <1>11
  <2> QED  BY ONLY <1>13, <2>1, <2>2, FlattenDistinct
<1>15. IsSeq(sel) /\ \A e : e \in ToSet(sel) <=> \E i \in DOMAIN each : e \in ToSet(each[i])
  BY <1>11, <1>12, Flattened
<1> HIDE DEF sel
<1>16. \A i \in DOMAIN sel : sel[i] \in DOMAIN objects
  <2>1. SUFFICES ASSUME NEW i \in DOMAIN sel
                 PROVE  sel[i] \in DOMAIN objects
    OBVIOUS
  <2>2. sel[i] \in ToSet(sel)
    BY DEF ToSet
  <2>3. PICK j \in DOMAIN each : sel[i] \in ToSet(each[j])
    BY <1>15, <2>2
  <2> QED  BY <1>6, <1>12, <2>3
<1>17. Picked(sel, Limit)
  BY <1>2, <1>14, <1>15, <1>16 DEF Picked
<1>18. Picked(sel, Limit + IdsPerCommand)
  <2> DEFINE m == Limit + IdsPerCommand
  <2>1. m \in Int /\ Limit \in Int /\ Limit <= m
    BY Room
  <2> HIDE DEF m, Limit
  <2>2. Picked(sel, m)
    BY <1>17, <2>1, PickedMore
  <2> QED  BY <2>2 DEF m
<1> QED  BY <1>1, <1>3, <1>9, <1>10, <1>18, DeletedKept

\* The object that is drawn.
LEMMA DrawnHolds ==
    ASSUME CanvasInv, NEW tool, NEW p \in Points, NEW q \in Points
    PROVE  IsObject(Drawn(tool, p, q), Limit + IdsPerCommand)
PROOF
<1> DEFINE d == NormalizeBox(p, q)
           w == MaxOf(d.w, 4 * Px)
           h == MaxOf(d.h, 4 * Px)
           frame == tool = "frame"
           wide == IF frame /\ w < 80 * Px THEN 240 * Px ELSE w
           high == IF frame /\ h < 80 * Px THEN 180 * Px ELSE h
           b == Box(d.x, d.y, wide, high)
           o == ObjectOf(tool, b, NextZ(objects))
           pts == <<Pt(0, 0), Pt(q.x - p.x, q.y - p.y)>>
           r == MinOf(16 * Px, MinOf(w, h) \div 2)
           line == [o EXCEPT !.x = p.x, !.y = p.y, !.points = pts]
           round == [o EXCEPT !.cornerRadius = r]
<1>1. Drawn(tool, p, q) \in {line, round, o}
  BY Zenon DEF Drawn
<1>2. p.x \in Int /\ p.y \in Int /\ q.x \in Int /\ q.y \in Int
  BY DEF Points
<1>3. d.x \in Int /\ d.y \in Int /\ d.w \in Int /\ d.h \in Int
  BY <1>2 DEF NormalizeBox, Box, MinOf, Dist
<1> HIDE DEF d
<1>4. w \in Int /\ h \in Int
  BY <1>3, PxAssumption DEF MaxOf
<1> HIDE DEF w, h
<1>5. wide \in Int /\ high \in Int
  BY <1>4, PxAssumption
<1> HIDE DEF wide, high
<1>6. b \in Boxes
  BY <1>3, <1>5 DEF Boxes, Box
<1> HIDE DEF b
<1>7. IsObject(o, Limit + IdsPerCommand)
  BY <1>6, BoardHere, Fresh
<1>8. pts \in Seq(Points)
  <2>1. Pt(0, 0) \in Points /\ Pt(q.x - p.x, q.y - p.y) \in Points
    BY <1>2 DEF Points, Pt
  <2> QED  BY <2>1
<1> HIDE DEF o, r, pts
<1>9. IsObject(round, Limit + IdsPerCommand)
  BY <1>7, FreshSet
<1>10. IsObject(line, Limit + IdsPerCommand)
  <2> DEFINE a == [o EXCEPT !.x = p.x]
             c == [a EXCEPT !.y = p.y]
             e == [c EXCEPT !.points = pts]
  <2>1. line = e
    OBVIOUS
  <2>2. IsObject(a, Limit + IdsPerCommand)
    BY <1>2, <1>7, FreshSet
  <2> HIDE DEF a
  <2>3. IsObject(c, Limit + IdsPerCommand)
    BY <1>2, <2>2, FreshSet
  <2> HIDE DEF c
  <2>4. IsObject(e, Limit + IdsPerCommand)
    BY <1>8, <2>3, FreshSet
  <2> HIDE DEF e, line
  <2> QED  BY <2>1, <2>4
<1> HIDE DEF line, round
<1> QED  BY <1>1, <1>7, <1>9, <1>10

\* The frame that is selected is there.
LEMMA FrameThere ==
    ASSUME CanvasInv, SelectedFrame # NoParent
    PROVE  SelectedFrame \in DOMAIN objects
PROOF
<1> DEFINE test(x) == x \in DOMAIN objects /\ objects[x].type = "frame"
           kept == [i \in DOMAIN selected |-> IF test(selected[i]) THEN <<selected[i]>> ELSE <<>>]
           frames == FlattenSeq(kept)
<1>1. SelectedFrame = IF frames = <<>> THEN NoParent ELSE Head(frames)
  BY Zenon DEF SelectedFrame, Filter
<1>2. kept = [i \in DOMAIN selected |-> kept[i]]
  BY Zenon
<1>3. \A i \in DOMAIN selected : kept[i] \in {<<selected[i]>>, <<>>}
  BY Zenon
<1>4. \A i \in DOMAIN selected : kept[i] # <<>> => selected[i] \in DOMAIN objects
  BY Zenon
<1>5. IsSeq(selected)
  BY DEF CanvasInv, Picked
<1>h. frames = FlattenSeq(kept)
  OBVIOUS
<1> HIDE DEF kept, frames
<1>6. ASSUME NEW s, IsSeq(s), NEW k, k = [i \in DOMAIN s |-> k[i]], \A i \in DOMAIN s : k[i] \in {<<s[i]>>, <<>>},
             NEW S, \A i \in DOMAIN s : k[i] # <<>> => s[i] \in S
      PROVE  IsSeq(FlattenSeq(k)) /\ \A e \in ToSet(FlattenSeq(k)) : e \in S
  <2>1. /\ IsSeq(FlattenSeq(k))
        /\ \A e : e \in ToSet(FlattenSeq(k)) <=> \E i \in DOMAIN s : k[i] = <<s[i]>> /\ e = s[i]
    BY <1>6, Filtered
  <2>2. \A e : <<e>> # <<>>
    OBVIOUS
  <2> QED  BY <1>6, <2>1, <2>2
<1>7. IsSeq(FlattenSeq(kept)) /\ \A e \in ToSet(FlattenSeq(kept)) : e \in DOMAIN objects
  BY ONLY <1>2, <1>3, <1>4, <1>5, <1>6
<1>8. IsSeq(frames) /\ (\A e \in ToSet(frames) : e \in DOMAIN objects) /\ frames # <<>>
  BY <1>1, <1>7, <1>h
<1>9. Head(frames) \in ToSet(frames)
  <2>1. PICK S : frames \in Seq(S)
    BY <1>8 DEF IsSeq
  <2>2. Len(frames) \in Nat /\ DOMAIN frames = 1 .. Len(frames) /\ Len(frames) # 0
    BY <1>8, <2>1
  <2>3. 1 \in DOMAIN frames /\ Head(frames) = frames[1]
    BY <1>8, <2>1, <2>2
  <2> QED  BY <2>3 DEF ToSet
<1> QED  BY <1>1, <1>8, <1>9

\* The lanes of a frame: the new one, and four updates for each that it has.
LEMMA LanesHold ==
    ASSUME CanvasInv, NEW frame \in DOMAIN objects
    PROVE  IsSeq(StackLanes(frame)) /\ \A op \in ToSet(StackLanes(frame)) : Good(op)
PROOF
<1> DEFINE f == objects[frame]
           ids == {x \in DOMAIN objects : objects[x].type = "lane" /\ objects[x].parentId = frame}
           lanes == Ascending(ids)
           n == Len(lanes)
           h == MaxOf(40 * Px, f.h - 28 * Px) \div (n + 1)
           at(i) == Box(f.x, f.y + 28 * Px + (i - 1) * h, f.w, h)
           plain == ObjectOf("lane", at(n + 1), NextZ(objects))
           lane == [plain EXCEPT !.parentId = frame]
           place(i) == [k \in 1 .. 4 |-> LET field == <<"x", "y", "w", "h">>[k] IN
                                         Update(lanes[i], field, at(i)[field])]
           placed == [i \in 1 .. n |-> place(i)]
           first == Create(NewId(1), lane)
<1>1. StackLanes(frame) = <<first>> \o FlattenSeq(placed)
  BY Zenon DEF StackLanes
<1>2. IsFiniteSet(ids) /\ ids \in SUBSET DOMAIN objects /\ ids \in SUBSET Int
  BY BoardHere, FS_Subset
<1> HIDE DEF ids
<1>3. IsSeq(lanes) /\ \A i \in DOMAIN lanes : lanes[i] \in DOMAIN objects
  BY <1>2, AscendingHolds
<1> HIDE DEF lanes
<1>4. n \in Nat /\ DOMAIN lanes = 1 .. n
  BY <1>3, SeqIsFunction
<1>5. f.x \in Int /\ f.y \in Int /\ f.w \in Int /\ f.h \in Int
  BY BoardHere, FieldsOf
<1> HIDE DEF n, f
<1>6. h \in Int
  <2> DEFINE a == MaxOf(40 * Px, f.h - 28 * Px)
             m == n + 1
  <2>1. a \in Int /\ m \in Int /\ m > 0
    BY <1>4, <1>5, PxAssumption DEF MaxOf
  <2> HIDE DEF a, m
  <2>2. a \div m \in Int
    BY <2>1
  <2> QED  BY <2>2 DEF a, m
<1> HIDE DEF h
<1>7. \A i \in Int : at(i) \in Boxes
  BY <1>5, <1>6, PxAssumption DEF Boxes, Box
<1>8. at(n + 1) \in Boxes
  BY <1>4, <1>7
<1> HIDE DEF at
<1>9. Good(first)
  <2>1. IsObject(plain, Limit + IdsPerCommand)
    BY <1>8, BoardHere, Fresh
  <2>2. frame \in Int /\ frame < Limit + IdsPerCommand
    <3> DEFINE m == Limit + IdsPerCommand
    <3>1. Limit \in Int /\ Limit <= m /\ m \in Int /\ frame \in 1 .. Limit - 1
      BY Room, BoardHere
    <3> HIDE DEF Limit, m
    <3>2. frame \in Int /\ frame < m
      BY <3>1
    <3> QED  BY <3>2 DEF m
  <2> HIDE DEF plain
  <2>3. IsObject(lane, Limit + IdsPerCommand)
    BY <2>1, <2>2, FreshSet
  <2> HIDE DEF lane
  <2> QED  BY <2>3, Room, GoodCreate
<1> HIDE DEF first
<1>10. \A i \in 1 .. n : IsSeq(place(i)) /\ \A op \in ToSet(place(i)) : Good(op)
  <2>1. SUFFICES ASSUME NEW i \in 1 .. n
                 PROVE  IsSeq(place(i)) /\ \A op \in ToSet(place(i)) : Good(op)
    OBVIOUS
  <2> DEFINE g == place(i)
             fields == <<"x", "y", "w", "h">>
  <2>2. g = [k \in 1 .. 4 |-> g[k]] /\ \A k \in 1 .. 4 : g[k] = Update(lanes[i], fields[k], at(i)[fields[k]])
    BY Zenon
  <2>3. \A k \in 1 .. 4 : fields[k] \in {"x", "y", "w", "h"}
    OBVIOUS
  <2> HIDE DEF g, fields
  <2>4. IsSeq(g) /\ DOMAIN g = 1 .. 4
    BY <2>2, FunctionIsSeq
  <2>5. lanes[i] \in 1 .. Limit - 1
    BY <1>3, <1>4, BoardHere
  <2>6. at(i) \in Boxes
    BY <1>4, <1>7
  <2>7. \A field \in {"x", "y", "w", "h"} : at(i)[field] \in Int
    BY <2>6 DEF Boxes
  <2>8. \A k \in 1 .. 4 : Good(g[k])
    <3>1. SUFFICES ASSUME NEW k \in 1 .. 4
                   PROVE  Good(Update(lanes[i], fields[k], at(i)[fields[k]]))
      BY <2>2
    <3> DEFINE field == fields[k]
               v == at(i)[field]
    <3>2. field \in {"x", "y", "w", "h"} /\ v \in Int
      BY <2>3, <2>7
    <3> HIDE DEF field, v
    <3>3. FieldOk(field, v, Limit + IdsPerCommand) /\ field \notin {"fromId", "toId"}
      BY <3>2 DEF FieldOk
    <3>4. Good(Update(lanes[i], field, v))
      BY <2>5, <3>3, GoodUpdate
    <3> QED  BY <3>4 DEF field, v
  <2>9. IsSeq(g) /\ \A op \in ToSet(g) : Good(op)
    BY <2>4, <2>8 DEF ToSet
  <2> QED  BY <2>9 DEF g
<1> HIDE DEF place
<1>11. placed = [i \in 1 .. n |-> placed[i]]
  BY Zenon
<1>12. \A i \in 1 .. n : placed[i] = place(i)
  BY Zenon
<1> HIDE DEF placed
<1>13. IsSeq(placed) /\ DOMAIN placed = 1 .. n
  BY <1>4, <1>11, FunctionIsSeq
<1>14. \A i \in DOMAIN placed : IsSeq(placed[i])
  BY <1>10, <1>12, <1>13
<1>15. IsSeq(FlattenSeq(placed)) /\ \A e : e \in ToSet(FlattenSeq(placed)) <=> \E i \in DOMAIN placed : e \in ToSet(placed[i])
  BY <1>13, <1>14, Flattened
<1> DEFINE rest == FlattenSeq(placed)
<1>16. IsSeq(rest) /\ \A op \in ToSet(rest) : Good(op)
  BY <1>10, <1>12, <1>13, <1>15
<1> HIDE DEF rest
<1>17. IsSeq(<<first>>) /\ ToSet(<<first>>) = {first}
  BY TupleIsSeq, SetOfOne
<1>18. IsSeq(<<first>> \o rest)
  BY <1>16, <1>17, ConcatIsSeq
<1>19. ToSet(<<first>> \o rest) \subseteq ToSet(<<first>>) \cup ToSet(rest)
  BY <1>16, <1>17, StackElements
<1>20. IsSeq(<<first>> \o rest) /\ \A op \in ToSet(<<first>> \o rest) : Good(op)
  BY <1>9, <1>16, <1>17, <1>18, <1>19
<1> QED  BY <1>1, <1>20 DEF rest

\* finishDraft
LEMMA DrawKept ==
    ASSUME HistoryInv, CanvasInv, NEW tool, NEW p \in Points, NEW q \in Points, Draw(tool, p, q)
    PROVE  Kept
PROOF
<1> DEFINE o == Drawn(tool, p, q)
           adopted == IF tool = "frame" THEN Adopted(o) ELSE <<>>
           made == Create(NewId(1), o)
           taken == [i \in DOMAIN adopted |-> Update(adopted[i], "parentId", NewId(1))]
           whole == <<made>> \o taken
           ops == IF tool = "lane" /\ SelectedFrame # NoParent THEN StackLanes(SelectedFrame) ELSE whole
           sel == <<NewId(1)>>
<1>1. Edit("draw", Singly(ops), sel)
  BY Zenon DEF Draw
<1>2. IsObject(o, Limit + IdsPerCommand)
  BY DrawnHolds
<1> HIDE DEF o
<1>3. IsSeq(adopted) /\ \A i \in DOMAIN adopted : adopted[i] \in DOMAIN objects
  <2>1. IsSeq(Adopted(o)) /\ \A i \in DOMAIN Adopted(o) : Adopted(o)[i] \in DOMAIN objects
    <3> DEFINE S == {x \in DOMAIN objects : /\ objects[x].type \notin {"connector", "frame"}
                                            /\ InBox(CenterOf(objects[x]), o)}
    <3>1. Adopted(o) = Ascending(S)
      BY Zenon DEF Adopted
    <3>2. S \in SUBSET DOMAIN objects
      OBVIOUS
    <3> HIDE DEF S
    <3>3. IsFiniteSet(S) /\ S \in SUBSET Int
      BY <3>2, BoardHere, FS_Subset
    <3>4. IsSeq(Ascending(S)) /\ \A i \in DOMAIN Ascending(S) : Ascending(S)[i] \in S
      BY <3>3, AscendingHolds
    <3> QED  BY <3>1, <3>2, <3>4
  <2> DEFINE all == Adopted(o)
             none == <<>>
  <2>2. IsSeq(none) /\ DOMAIN none = {}
    BY TupleIsSeq
  <2>3. IsSeq(all) /\ \A i \in DOMAIN all : all[i] \in DOMAIN objects
    BY <2>1
  <2>4. adopted \in {all, none}
    OBVIOUS
  <2> HIDE DEF all, none, adopted
  <2> QED  BY <2>2, <2>3, <2>4
<1>4. taken = [i \in DOMAIN adopted |-> taken[i]]
  BY Zenon
<1>5. \A i \in DOMAIN adopted : taken[i] = Update(adopted[i], "parentId", NewId(1))
  BY Zenon
<1>6. made = Create(NewId(1), o)
  OBVIOUS
<1> HIDE DEF adopted, taken, made
<1>7. IsSeq(whole) /\ \A op \in ToSet(whole) : Good(op)
  BY ONLY CanvasInv, <1>2, <1>3, <1>4, <1>5, <1>6, MadeAround
<1> HIDE DEF whole
<1>8. IsSeq(ops) /\ \A op \in ToSet(ops) : Good(op)
  <2>1. CASE tool = "lane" /\ SelectedFrame # NoParent
    <3>1. SelectedFrame \in DOMAIN objects
      BY <2>1, FrameThere
    <3>2. IsSeq(StackLanes(SelectedFrame)) /\ \A op \in ToSet(StackLanes(SelectedFrame)) : Good(op)
      BY <3>1, LanesHold
    <3>3. ops = StackLanes(SelectedFrame)
      BY <2>1
    <3> HIDE DEF ops
    <3> QED  BY <3>2, <3>3
  <2>2. CASE ~(tool = "lane" /\ SelectedFrame # NoParent)
    <3>1. ops = whole
      BY <2>2
    <3> HIDE DEF ops
    <3> QED  BY <1>7, <3>1
  <2> QED  BY <2>1, <2>2
<1> HIDE DEF ops
<1> DEFINE batches == Singly(ops)
<1>9. Writing(batches) /\ Picked(sel, Limit + IdsPerCommand) /\ Edit("draw", batches, sel)
  BY <1>1, <1>8, GoodBatches, PickedStill
<1> HIDE DEF batches, sel
<1> QED  BY <1>9, WroteKept

-----------------------------------------------------------------------------
\* The clipboard

\* A copy that is placed, nested and connected elsewhere.
LEMMA ReplacedHolds ==
    ASSUME NEW m \in Int, NEW o, IsObject(o, m), NEW x \in Int, NEW y \in Int, NEW z \in Int,
           NEW parent \in Int, parent < m, NEW from \in Int, from < m, NEW to \in Int, to < m
    PROVE  IsObject([o EXCEPT !.x = x, !.y = y, !.z = z, !.parentId = parent, !.fromId = from, !.toId = to], m)
PROOF
<1> DEFINE a == With(o, "x", x)
           b == With(a, "y", y)
           c == With(b, "z", z)
           d == With(c, "parentId", parent)
           e == With(d, "fromId", from)
           f == With(e, "toId", to)
<1>1. [o EXCEPT !.x = x, !.y = y, !.z = z, !.parentId = parent, !.fromId = from, !.toId = to] = f
  BY DEF With
<1>2. /\ FieldOk("x", x, m) /\ FieldOk("y", y, m) /\ FieldOk("z", z, m)
      /\ FieldOk("parentId", parent, m) /\ FieldOk("fromId", from, m) /\ FieldOk("toId", to, m)
  BY DEF FieldOk
<1>3. IsObject(a, m)
  BY <1>2, FieldSet
<1> HIDE DEF a
<1>4. IsObject(b, m)
  BY <1>2, <1>3, FieldSet
<1> HIDE DEF b
<1>5. IsObject(c, m)
  BY <1>2, <1>4, FieldSet
<1> HIDE DEF c
<1>6. IsObject(d, m)
  BY <1>2, <1>5, FieldSet
<1> HIDE DEF d
<1>7. IsObject(e, m)
  BY <1>2, <1>6, FieldSet
<1> HIDE DEF e
<1>8. IsObject(f, m)
  BY <1>2, <1>7, FieldSet
<1> HIDE DEF f
<1> QED  BY <1>1, <1>8

\* The copies that are pasted: all but the connectors that lost an end.
Keepable ==
    {i \in DOMAIN clip : LET o == clip[i].object IN
                         o.type = "connector" => {o.fromId, o.toId} \subseteq Signature(clip)}

\* What the i-th copy becomes, with ids for the ids of the copies.
CloneOf(i, ids) ==
    LET o == clip[i].object
        shift == 32 * Px * PasteCount(clip) IN
    [o EXCEPT !.x = o.x + shift, !.y = o.y + shift, !.z = NextZ(objects) + i - 1,
              !.parentId = Mapped(o.parentId, ids, NoParent),
              !.fromId = Mapped(o.fromId, ids, Unset),
              !.toId = Mapped(o.toId, ids, Unset)]

\* The copies that are pasted, in some order, and the ids they get.
PastedAs(order, ids) ==
    /\ IsSeq(order) /\ Len(order) <= 9 /\ Distinct(order) /\ ToSet(order) = Keepable
    /\ ids = [x \in {clip[i].id : i \in Keepable} |->
                NewId(CHOOSE k \in DOMAIN order : clip[order[k]].id = x)]
    /\ CloneForPaste(clip) = [k \in DOMAIN order |-> Create(NewId(k), CloneOf(order[k], ids))]

\* There is such an order.
LEMMA ClonesAre ==
    ASSUME CanvasInv
    PROVE  \E order, ids : PastedAs(order, ids)
PROOF
<1> DEFINE source == clip
           rank(o) == CASE o.type = "connector" -> 2 [] IsContainer(o) -> 0 [] OTHER -> 1
           kept == {i \in DOMAIN source :
                      LET o == source[i].object IN
                      o.type = "connector" => {o.fromId, o.toId} \subseteq Signature(source)}
           under(i) == {j \in kept \ {i} : \/ rank(source[j].object) < rank(source[i].object)
                                           \/ /\ rank(source[j].object) = rank(source[i].object)
                                              /\ j < i}
           order == [k \in 1 .. Cardinality(kept) |-> CHOOSE i \in kept : Cardinality(under(i)) = k - 1]
           ids == [x \in {source[i].id : i \in kept} |->
                     NewId(CHOOSE k \in DOMAIN order : source[order[k]].id = x)]
           clones == [k \in DOMAIN order |-> Create(NewId(k), CloneOf(order[k], ids))]
<1>1. CloneForPaste(clip) = clones
  BY Zenon DEF CloneForPaste, Sorted, CloneOf
<1>2. IsSeq(source) /\ Len(source) <= 9 /\ \A i \in DOMAIN source : IsObject(source[i].object, Limit)
  <2>1. IsSeq(clip) /\ Len(clip) < IdsPerCommand /\ \A i \in DOMAIN clip : IsObject(clip[i].object, Limit)
    BY DEF CanvasInv, Copied
  <2>2. Len(clip) \in Nat
    BY <2>1, SeqIsFunction
  <2> QED  BY <2>1, <2>2 DEF IdsPerCommand
<1>4. \A i \in kept : i \in DOMAIN source /\ rank(source[i].object) \in Int
  <2>1. \A o : rank(o) \in {0, 1, 2}
    <3>1. SUFFICES ASSUME NEW o
                   PROVE  rank(o) \in {0, 1, 2}
      OBVIOUS
    <3>2. CASE o.type = "connector"
      BY <3>2
    <3>3. CASE o.type # "connector" /\ IsContainer(o)
      BY <3>3
    <3>4. CASE o.type # "connector" /\ ~IsContainer(o)
      BY <3>4
    <3> QED  BY <3>2, <3>3, <3>4
  <2> HIDE DEF rank
  <2> QED  BY <2>1
<1>5. kept \subseteq DOMAIN source
  OBVIOUS
<1> HIDE DEF kept, rank, source
<1>6. IsFiniteSet(kept) /\ Cardinality(kept) \in Nat /\ Cardinality(kept) <= 9 /\ \A i \in kept : i \in Int
  <2>1. Len(source) \in Nat /\ DOMAIN source = 1 .. Len(source)
    BY <1>2, SeqIsFunction
  <2>2. IsFiniteSet(1 .. Len(source)) /\ Cardinality(1 .. Len(source)) = Len(source)
    <3> DEFINE n == Len(source)
    <3>1. n \in Nat /\ 1 \in Int /\ n \in Int
      BY <2>1
    <3> HIDE DEF n
    <3>2. IsFiniteSet(1 .. n) /\ Cardinality(1 .. n) = IF 1 > n THEN 0 ELSE n - 1 + 1
      BY ONLY <3>1, FS_Interval
    <3>3. Cardinality(1 .. n) = n
      BY <3>1, <3>2
    <3> QED  BY <3>2, <3>3 DEF n
  <2>3. IsFiniteSet(kept) /\ Cardinality(kept) <= Len(source)
    BY <1>5, <2>1, <2>2, FS_Subset
  <2>4. Cardinality(kept) \in Nat
    BY <2>3, FS_CardinalityType
  <2> QED  BY <1>2, <1>5, <2>1, <2>3, <2>4
<1> DEFINE key == [i \in kept |-> rank(source[i].object)]
           pos == [i \in kept |-> i]
           count == [i \in kept |-> Cardinality(under(i))]
           B == {e \in kept \X kept : key[e[1]] < key[e[2]] \/ (key[e[1]] = key[e[2]] /\ pos[e[1]] < pos[e[2]])}
<1>7. \A i \in kept : key[i] = rank(source[i].object) /\ key[i] \in Int /\ pos[i] = i /\ pos[i] \in Int
  BY <1>4, <1>6
<1>8. \A i, j \in kept : pos[i] = pos[j] => i = j
  BY <1>7
<1>9. \A i, j \in kept : <<i, j>> \in B <=> key[i] < key[j] \/ (key[i] = key[j] /\ pos[i] < pos[j])
  OBVIOUS
<1>10. \A i, j \in kept : j \in under(i) <=> j # i /\ (key[j] < key[i] \/ (key[j] = key[i] /\ pos[j] < pos[i]))
  BY <1>7
<1>11. \A i \in kept : under(i) \in SUBSET kept /\ count[i] = Cardinality(under(i))
  OBVIOUS
<1> HIDE DEF B, key, pos, under
<1>12. \A i, j \in kept : j \in under(i) <=> j # i /\ <<j, i>> \in B
  BY <1>9, <1>10
<1>13. Strictly(kept, B)
  <2>1. \A i \in kept : key[i] \in Int /\ pos[i] \in Int
    BY <1>7
  <2> QED  BY ONLY <1>8, <1>9, <2>1, ByNumbers
<1>14. \A i \in kept : Below(kept, B, i, count[i])
  BY <1>11, <1>12 DEF Below
<1>15. Listed(kept, count, order)
  <2>1. \A k \in 1 .. Cardinality(kept) : order[k] = CHOOSE i \in kept : Cardinality(under(i)) = k - 1
    OBVIOUS
  <2>2. order = [k \in 1 .. Cardinality(kept) |-> order[k]]
    OBVIOUS
  <2> HIDE DEF order, count
  <2>3. \A k \in 1 .. Cardinality(kept) : (\E i \in kept : count[i] = k - 1) => order[k] \in kept /\ count[order[k]] = k - 1
    BY <1>11, <2>1
  <2> QED  BY <2>2, <2>3 DEF Listed
<1> HIDE DEF order, count
<1>16. /\ IsSeq(order) /\ Len(order) = Cardinality(kept) /\ ToSet(order) = kept /\ Distinct(order)
       /\ \A k \in DOMAIN order : order[k] \in kept
  <2>1. IsFiniteSet(kept)
    BY <1>6
  <2> QED  BY ONLY <1>13, <1>14, <1>15, <2>1, InOrder
<1>17. Len(order) <= 9
  BY <1>6, <1>16
<1>18. kept = Keepable
  BY Zenon DEF kept, Keepable, source
<1>19. PastedAs(order, ids)
  BY <1>1, <1>16, <1>17, <1>18, Zenon DEF PastedAs, source
<1> QED  BY <1>19

\* The clones are fewer than the ids a command has, and each gets the next one.
LEMMA ClonesHold ==
    ASSUME CanvasInv, pasted.count \in Int
    PROVE  LET clones == CloneForPaste(clip) IN
           /\ IsSeq(clones) /\ Len(clones) <= 9
           /\ \A k \in DOMAIN clones : Good(clones[k]) /\ clones[k].id = NewId(k)
PROOF
<1> DEFINE shift == 32 * Px * PasteCount(clip)
           clones == CloneForPaste(clip)
<1>1. PICK order, ids : PastedAs(order, ids)
  BY ClonesAre
<1>2. IsSeq(order) /\ Len(order) <= 9 /\ \A k \in DOMAIN order : order[k] \in Keepable /\ k \in 1 .. 9
  <2>1. IsSeq(order) /\ Len(order) <= 9 /\ ToSet(order) = Keepable
    BY <1>1, Zenon DEF PastedAs
  <2> QED  BY <2>1, SeqIsFunction DEF ToSet
<1>3. shift \in Int
  BY PxAssumption DEF PasteCount
<1> HIDE DEF shift
<1>4. \A i \in Keepable : i \in Int /\ IsObject(clip[i].object, Limit)
  <2>1. IsSeq(clip) /\ \A i \in DOMAIN clip : IsObject(clip[i].object, Limit)
    BY DEF CanvasInv, Copied
  <2> QED  BY <2>1, SeqIsFunction DEF Keepable
<1>5. \A x \in DOMAIN ids : \E k \in 1 .. 9 : ids[x] = NewId(k)
  <2>1. ids = [x \in {clip[i].id : i \in Keepable} |->
                 NewId(CHOOSE k \in DOMAIN order : clip[order[k]].id = x)]
    BY <1>1, Zenon DEF PastedAs
  <2>2. ToSet(order) = Keepable
    BY <1>1, Zenon DEF PastedAs
  <2>3. SUFFICES ASSUME NEW i \in Keepable
                 PROVE  \E k \in 1 .. 9 : ids[clip[i].id] = NewId(k)
    BY <2>1
  <2> DEFINE x == clip[i].id
             at == CHOOSE k \in DOMAIN order : clip[order[k]].id = x
  <2>4. ids[x] = NewId(at)
    BY <2>1, Zenon
  <2>5. \E k \in DOMAIN order : clip[order[k]].id = x
    BY <2>2 DEF ToSet
  <2>6. at \in DOMAIN order
    BY <2>5, Zenon
  <2> HIDE DEF at
  <2> QED  BY <1>2, <2>4, <2>6
<1>6. \A x : \A none \in {NoParent, Unset} : Mapped(x, ids, none) \in Int /\ Mapped(x, ids, none) < Limit + IdsPerCommand
  <2>1. SUFFICES ASSUME NEW x, NEW none \in {NoParent, Unset}
                 PROVE  Mapped(x, ids, none) \in Int /\ Mapped(x, ids, none) < Limit + IdsPerCommand
    OBVIOUS
  <2> DEFINE m == Limit + IdsPerCommand
             v == Mapped(x, ids, none)
  <2>2. m \in Nat \ {0} /\ \A k \in 1 .. 9 : NewId(k) \in 1 .. m - 1
    BY Room
  <2>3. v = none \/ \E k \in 1 .. 9 : v = NewId(k)
    BY <1>5 DEF Mapped
  <2> HIDE DEF m, v
  <2>4. v \in Int /\ v < m
    BY <2>1, <2>2, <2>3 DEF NoParent, Unset
  <2> QED  BY <2>4 DEF m, v
<1>7. \A i \in Keepable : IsObject(CloneOf(i, ids), Limit + IdsPerCommand)
  <2>1. SUFFICES ASSUME NEW i \in Keepable
                 PROVE  IsObject(CloneOf(i, ids), Limit + IdsPerCommand)
    OBVIOUS
  <2> DEFINE o == clip[i].object
             m == Limit + IdsPerCommand
  <2>2. IsObject(o, Limit)
    BY <1>4
  <2>3. Limit \in Int /\ m \in Int /\ Limit <= m
    BY Room
  <2>4. NextZ(objects) + i - 1 \in Int
    BY <1>4, BoardHere
  <2> DEFINE z == NextZ(objects) + i - 1
             parent == Mapped(o.parentId, ids, NoParent)
             from == Mapped(o.fromId, ids, Unset)
             to == Mapped(o.toId, ids, Unset)
             x == o.x + shift
             y == o.y + shift
  <2>5. parent \in Int /\ parent < m /\ from \in Int /\ from < m /\ to \in Int /\ to < m
    BY <1>6
  <2>6. CloneOf(i, ids) = [o EXCEPT !.x = x, !.y = y, !.z = z, !.parentId = parent, !.fromId = from, !.toId = to]
    BY Zenon DEF CloneOf, shift
  <2> HIDE DEF o, Limit
  <2>7. x \in Int /\ y \in Int /\ z \in Int
    BY <1>3, <2>2, <2>4, FieldsOf
  <2> HIDE DEF m, x, y, z, parent, from, to
  <2>8. IsObject(o, m)
    BY <2>2, <2>3, ObjectMore
  <2>9. IsObject([o EXCEPT !.x = x, !.y = y, !.z = z, !.parentId = parent, !.fromId = from, !.toId = to], m)
    BY <2>3, <2>5, <2>7, <2>8, ReplacedHolds
  <2>10. IsObject(CloneOf(i, ids), m)
    BY <2>6, <2>9
  <2> QED  BY <2>10 DEF m
<1>8. \A k \in DOMAIN order : Good(Create(NewId(k), CloneOf(order[k], ids)))
  <2>1. SUFFICES ASSUME NEW k \in DOMAIN order
                 PROVE  Good(Create(NewId(k), CloneOf(order[k], ids)))
    OBVIOUS
  <2> DEFINE o == CloneOf(order[k], ids)
  <2>2. k \in 1 .. 9 /\ IsObject(o, Limit + IdsPerCommand)
    BY <1>2, <1>7
  <2> HIDE DEF o
  <2>3. Good(Create(NewId(k), o))
    BY <2>2, GoodCreate
  <2> QED  BY <2>3 DEF o
<1>9. clones = [k \in DOMAIN order |-> Create(NewId(k), CloneOf(order[k], ids))]
  BY <1>1, Zenon DEF PastedAs
<1>10. /\ clones = [k \in DOMAIN order |-> clones[k]]
       /\ \A k \in DOMAIN order : clones[k] = Create(NewId(k), CloneOf(order[k], ids))
  BY <1>9
<1>11. CloneForPaste(clip) = clones
  OBVIOUS
<1> HIDE DEF clones
<1>12. IsSeq(clones) /\ DOMAIN clones = DOMAIN order /\ Len(clones) = Len(order)
  BY <1>2, <1>10, MappedIsSeq
<1>13. \A k \in DOMAIN clones : Good(clones[k]) /\ clones[k].id = NewId(k)
  BY <1>8, <1>10, <1>12, OpFields
<1> QED  BY <1>2, <1>11, <1>12, <1>13

\* pasteClipboard
LEMMA PasteKept ==
    ASSUME HistoryInv, CanvasInv, pasted.count \in Int, PasteClipboard
    PROVE  Kept
PROOF
<1> DEFINE clones == CloneForPaste(clip)
           sel == [k \in DOMAIN clones |-> clones[k].id]
           batches == <<clones>>
           n == Limit + IdsPerCommand
<1>1. Do(batches) /\ selected' = sel /\ clip' = clip /\ script' = script /\ edits' = edits + 1
  BY Zenon DEF PasteClipboard, Command
<1>2. /\ IsSeq(clones) /\ Len(clones) <= 9
      /\ \A k \in DOMAIN clones : Good(clones[k]) /\ clones[k].id = NewId(k)
  BY ClonesHold
<1> HIDE DEF clones
<1>3. sel = [k \in DOMAIN clones |-> sel[k]]
  BY Zenon
<1>4. \A k \in DOMAIN clones : sel[k] = NewId(k)
  BY <1>2
<1> HIDE DEF sel
<1>5. IsSeq(sel) /\ DOMAIN sel = DOMAIN clones /\ Len(sel) = Len(clones)
  BY <1>2, <1>3, MappedIsSeq
<1>6. Picked(sel, n)
  <2>1. Len(sel) <= 9 /\ \A k \in DOMAIN sel : sel[k] = NewId(k)
    BY <1>2, <1>4, <1>5
  <2> QED  BY <1>5, <2>1, PickedNew
<1>7. Writing(batches)
  <2>1. \A op \in ToSet(clones) : Good(op)
    BY <1>2 DEF ToSet
  <2> QED  BY <1>2, <2>1, GoodBatches
<1> HIDE DEF batches
<1>8. /\ edits' \in Nat /\ script' \in Scripts /\ Limit' \in Nat \ {0} /\ Limit <= Limit'
      /\ Limit' = Limit + IdsPerCommand /\ Limit \in Nat \ {0}
  BY <1>1, Onward, NewIdsAre
<1>9. /\ IsBoard(objects', n) /\ IsBoard(server', n)
      /\ Steps(undo', n) /\ Steps(redo', n)
      /\ UndoStepRestores
  BY <1>1, <1>7, DoKeeps
<1>10. Copied(clip, n)
  <2>1. n \in Int /\ Limit \in Int /\ Limit <= n /\ Copied(clip, Limit)
    BY <1>8 DEF CanvasInv
  <2> QED  BY <2>1, CopiedMore
<1>11. CanvasInv'
  BY <1>1, <1>6, <1>8, <1>9, <1>10 DEF CanvasInv
<1> QED  BY <1>9, <1>11 DEF Kept

\* Commands that change what is picked or copied alone.
LEMMA QuietKept ==
    ASSUME HistoryInv, CanvasInv, NEW name, Command(name), UNCHANGED <<objects, server, undo, redo>>,
           NEW s, selected' = s, Picked(s, Limit), NEW c, clip' = c, Copied(c, Limit)
    PROVE  Kept
PROOF
<1>1. edits' = edits + 1 /\ script' = script
  BY DEF Command
<1>2. Limit' \in Nat \ {0} /\ Limit <= Limit' /\ Limit \in Nat \ {0}
  BY <1>1, Onward, NewIdsAre
<1>3. ASSUME NEW m, m = Limit'
      PROVE  Picked(s, m) /\ Copied(c, m)
  <2>1. m \in Int /\ Limit \in Int /\ Limit <= m
    BY <1>2, <1>3
  <2> QED  BY <2>1, PickedMore, CopiedMore
<1>4. Picked(selected', Limit') /\ Copied(clip', Limit')
  BY <1>3
<1> QED  BY <1>1, <1>4, UntouchedKept

\* One turn of the walk up the groups, and the walk along the numbers of s.
GroupTurn(objs, cur) == IF IsGroup(objs, ParentIn(objs, cur)) THEN ParentIn(objs, cur) ELSE cur

Climbing(g, objs, x, s) ==
    g = [S \in SUBSET (DOMAIN s) |-> IF S = {} THEN x ELSE GroupTurn(objs, g[S \ {Max(S)}])]

\* It ends at an object, or where it began.
LEMMA GroupRootThere ==
    ASSUME NEW objs, IsFiniteSet(DOMAIN objs), NEW x \in DOMAIN objs
    PROVE  GroupRoot(objs, x) \in DOMAIN objs
PROOF
<1> DEFINE n == Cardinality(DOMAIN objs)
           s == [i \in 1 .. n |-> i]
           V == DOMAIN objs
           F == [q \in V \X (1 .. n) |-> GroupTurn(objs, q[1])]
           G == CHOOSE g : Climbing(g, objs, x, s)
<1>1. GroupRoot(objs, x) = G[DOMAIN s]
  BY Zenon DEF GroupRoot, FoldLeft, MapThenFoldSet, Climbing, GroupTurn
<1>2. n \in Nat
  BY FS_CardinalityType
<1>3. DOMAIN s = 1 .. n /\ \A i \in 1 .. n : s[i] \in 1 .. n
  OBVIOUS
<1> HIDE DEF n, s
<1>4. \A v \in V : GroupTurn(objs, v) \in V
  BY DEF GroupTurn, IsGroup
<1>5. F \in [V \X (1 .. n) -> V] /\ \A v \in V : \A i \in 1 .. n : F[<<v, i>>] = GroupTurn(objs, v)
  BY <1>4
<1> HIDE DEF F, V
<1>6. x \in V
  BY DEF V
<1>7. PICK g : Recursion(g, n, F, x, s)
  BY <1>2, RecursionExists
<1>8. \A S \in SUBSET (1 .. n) : g[S] \in V
  BY <1>2, <1>3, <1>5, <1>6, <1>7, RecursionTyped
<1>9. ASSUME NEW S \in SUBSET (1 .. n), S # {}
      PROVE  F[<<g[S \ {Max(S)}], s[Max(S)]>>] = GroupTurn(objs, g[S \ {Max(S)}])
  <2>1. s[Max(S)] \in 1 .. n
    BY <1>2, <1>3, <1>9, MaxInside
  <2>2. g[S \ {Max(S)}] \in V
    BY <1>8
  <2> QED  BY <1>5, <2>1, <2>2
<1>10. \A S \in SUBSET (1 .. n) :
          (IF S = {} THEN x ELSE F[<<g[S \ {Max(S)}], s[Max(S)]>>])
             = IF S = {} THEN x ELSE GroupTurn(objs, g[S \ {Max(S)}])
  BY <1>9
<1>11. g = [S \in SUBSET (1 .. n) |-> IF S = {} THEN x ELSE GroupTurn(objs, g[S \ {Max(S)}])]
  BY <1>7, <1>10, Zenon DEF Recursion
<1>12. Climbing(g, objs, x, s)
  BY <1>3, <1>11, Zenon DEF Climbing
<1>13. Climbing(G, objs, x, s)
  BY <1>12
<1> HIDE DEF G
<1>14. \A S \in SUBSET (1 .. n) : G[S] = IF S = {} THEN x ELSE GroupTurn(objs, G[S \ {Max(S)}])
  BY <1>3, <1>13, Zenon DEF Climbing
<1>15. G = [S \in SUBSET (1 .. n) |-> IF S = {} THEN x ELSE GroupTurn(objs, G[S \ {Max(S)}])]
  BY <1>3, <1>13, Zenon DEF Climbing
<1> DEFINE T == {k \in Nat : k <= n => G[1 .. k] \in V}
<1>16. 0 \in T
  <2>1. 1 .. 0 = {} /\ {} \in SUBSET (1 .. n)
    OBVIOUS
  <2>2. G[{}] = x
    BY <1>14, <2>1
  <2> QED  BY <1>6, <2>1, <2>2
<1>17. ASSUME NEW k \in Nat, k \in T
       PROVE  k + 1 \in T
  <2> SUFFICES ASSUME k + 1 <= n PROVE G[1 .. k + 1] \in V
    OBVIOUS
  <2>1. G[1 .. k] \in V
    BY <1>2, <1>17
  <2>2. 1 .. k + 1 \in SUBSET (1 .. n) /\ 1 .. k + 1 # {}
    BY <1>2
  <2>3. Max(1 .. k + 1) = k + 1
    BY MaxOfTop
  <2>4. (1 .. k + 1) \ {k + 1} = 1 .. k
    OBVIOUS
  <2>5. G[1 .. k + 1] = GroupTurn(objs, G[1 .. k])
    BY <1>14, <2>2, <2>3, <2>4, Zenon
  <2> QED  BY <1>4, <2>1, <2>5 DEF V
<1> HIDE DEF T
<1>18. Nat \subseteq T
  BY <1>16, <1>17, SetInduction, Zenon
<1>19. G[1 .. n] \in V
  BY <1>2, <1>18 DEF T
<1> QED  BY <1>1, <1>3, <1>19 DEF V

\* One more, that is not among them yet.
LEMMA AppendedDistinct ==
    ASSUME NEW s, IsSeq(s), Distinct(s), NEW e, e \notin ToSet(s)
    PROVE  /\ IsSeq(Append(s, e)) /\ Distinct(Append(s, e))
           /\ \A i \in DOMAIN Append(s, e) : Append(s, e)[i] = e \/ Append(s, e)[i] \in ToSet(s)
PROOF
<1> DEFINE n == Len(s)
           t == Append(s, e)
<1>1. n \in Nat /\ DOMAIN s = 1 .. n
  BY SeqIsFunction
<1>2. IsSeq(t) /\ DOMAIN t = 1 .. n + 1 /\ t[n + 1] = e /\ \A i \in 1 .. n : t[i] = s[i]
  <2>1. PICK S : s \in Seq(S)
    BY DEF IsSeq
  <2>2. s \in Seq(S \cup {e})
    BY <2>1
  <2>3. t \in Seq(S \cup {e}) /\ Len(t) = n + 1 /\ t[n + 1] = e /\ \A i \in 1 .. n : t[i] = s[i]
    BY <2>2, AppendProperties
  <2>4. DOMAIN t = 1 .. n + 1
    BY <2>3
  <2> HIDE DEF t
  <2> QED  BY <2>3, <2>4 DEF IsSeq
<1> HIDE DEF t, n
<1>3. \A i \in 1 .. n : s[i] \in ToSet(s)
  BY <1>1 DEF ToSet
<1>4. \A i \in 1 .. n + 1 : i \in 1 .. n \/ i = n + 1
  BY <1>1
<1>5. \A i, j \in 1 .. n : s[i] = s[j] => i = j
  BY <1>1 DEF Distinct
<1>6. Distinct(t)
  <2>1. \A i, j \in 1 .. n + 1 : t[i] = t[j] => i = j
    BY <1>2, <1>3, <1>4, <1>5
  <2> QED  BY <1>2, <2>1 DEF Distinct
<1>7. \A i \in DOMAIN t : t[i] = e \/ t[i] \in ToSet(s)
  BY <1>2, <1>3, <1>4
<1> QED  BY <1>2, <1>6, <1>7 DEF t

\* Some of what is picked.
LEMMA PickedAmong ==
    ASSUME NEW s, IsSeq(s), Distinct(s), NEW kept, kept = [i \in DOMAIN s |-> kept[i]],
           \A i \in DOMAIN s : kept[i] \in {<<s[i]>>, <<>>}, NEW n, \A i \in DOMAIN s : s[i] \in 1 .. n - 1
    PROVE  Picked(FlattenSeq(kept), n)
PROOF
<1>1. /\ IsSeq(FlattenSeq(kept))
      /\ \A e : e \in ToSet(FlattenSeq(kept)) <=> \E i \in DOMAIN s : kept[i] = <<s[i]>> /\ e = s[i]
  <2>1. kept = [i \in DOMAIN s |-> kept[i]]
    OBVIOUS
  <2>2. \A i \in DOMAIN s : kept[i] \in {<<s[i]>>, <<>>}
    OBVIOUS
  <2> QED  BY ONLY IsSeq(s), <2>1, <2>2, Filtered
<1>2. Distinct(FlattenSeq(kept))
  <2>1. kept = [i \in DOMAIN s |-> kept[i]]
    OBVIOUS
  <2>2. \A i \in DOMAIN s : kept[i] \in {<<s[i]>>, <<>>}
    OBVIOUS
  <2> QED  BY ONLY IsSeq(s), Distinct(s), <2>1, <2>2, FilteredDistinct
<1> DEFINE t == FlattenSeq(kept)
<1> HIDE DEF t
<1>3. IsSeq(t) /\ \A e : e \in ToSet(t) <=> \E i \in DOMAIN s : kept[i] = <<s[i]>> /\ e = s[i]
  BY ONLY <1>1 DEF t
<1>4. Distinct(t)
  BY ONLY <1>2 DEF t
<1>5. \A i \in DOMAIN t : t[i] \in ToSet(t)
  BY DEF ToSet
<1>6. \A i \in DOMAIN t : t[i] \in 1 .. n - 1
  BY <1>3, <1>5
<1>7. Picked(t, n)
  BY <1>3, <1>4, <1>6 DEF Picked
<1> QED  BY <1>7 DEF t

\* pickImpl
LEMMA PickKept ==
    ASSUME HistoryInv, CanvasInv, NEW x \in DOMAIN objects, NEW shift, Pick(x, shift)
    PROVE  Kept
PROOF
<1> DEFINE sel == selected
           kept == [i \in DOMAIN sel |-> IF sel[i] # x THEN <<sel[i]>> ELSE <<>>]
           root == GroupRoot(objects, x)
<1>1. /\ Command("pick") /\ clip' = clip /\ UNCHANGED <<objects, server, undo, redo>>
      /\ \/ selected' = selected \/ selected' = <<root>> \/ selected' = FlattenSeq(kept)
         \/ x \notin ToSet(selected) /\ selected' = Append(selected, x)
  <2>1. /\ Command("pick") /\ clip' = clip /\ UNCHANGED sessionVars
    BY Zenon DEF Pick
  <2>2. \/ selected' = selected \/ selected' = <<root>> \/ selected' = FlattenSeq(kept)
        \/ x \notin ToSet(selected) /\ selected' = Append(selected, x)
    BY Zenon DEF Pick, Filter
  <2> QED  BY <2>1, <2>2 DEF sessionVars
<1>2. /\ IsSeq(selected) /\ Distinct(selected) /\ (\A i \in DOMAIN selected : selected[i] \in 1 .. Limit - 1)
      /\ Picked(selected, Limit) /\ Copied(clip, Limit)
  BY DEF CanvasInv, Picked
<1>3. x \in 1 .. Limit - 1
  BY BoardHere
<1>4. Picked(<<root>>, Limit)
  <2>1. root \in DOMAIN objects
    BY BoardHere, GroupRootThere
  <2> HIDE DEF root
  <2>2. root \in 1 .. Limit - 1
    BY <2>1, BoardHere
  <2> HIDE DEF Limit
  <2> QED  BY <2>2, PickedOne
<1>5. Picked(FlattenSeq(kept), Limit)
  <2>1. kept = [i \in DOMAIN sel |-> kept[i]]
    BY Zenon
  <2>2. \A i \in DOMAIN sel : kept[i] \in {<<sel[i]>>, <<>>}
    BY Zenon
  <2>3. IsSeq(sel) /\ Distinct(sel)
    BY <1>2
  <2>4. \A i \in DOMAIN sel : sel[i] \in 1 .. Limit - 1
    BY <1>2
  <2> HIDE DEF kept, sel
  <2> HIDE DEF Limit
  <2> QED  BY ONLY <2>1, <2>2, <2>3, <2>4, PickedAmong
<1>6. ASSUME x \notin ToSet(selected)
      PROVE  Picked(Append(selected, x), Limit)
  <2> DEFINE t == Append(selected, x)
  <2>1. IsSeq(t) /\ Distinct(t) /\ \A i \in DOMAIN t : t[i] = x \/ t[i] \in ToSet(selected)
    BY <1>2, <1>6, AppendedDistinct
  <2>2. \A e \in ToSet(selected) : e \in 1 .. Limit - 1
    BY <1>2 DEF ToSet
  <2> HIDE DEF t, Limit
  <2>3. Picked(t, Limit)
    BY <1>3, <2>1, <2>2 DEF Picked
  <2> QED  BY <2>3 DEF t
<1> HIDE DEF kept, root
<1>7. ASSUME NEW s, selected' = s, Picked(s, Limit)
      PROVE  Kept
  <2> DEFINE name == "pick"
             c == clip
  <2>1. Command(name) /\ UNCHANGED <<objects, server, undo, redo>> /\ clip' = c /\ Copied(c, Limit)
    BY <1>1, <1>2
  <2> HIDE DEF name, c
  <2> QED  BY <1>7, <2>1, QuietKept
<1> QED  BY <1>1, <1>2, <1>4, <1>5, <1>6, <1>7

\* onMouseUp after a marquee.
LEMMA MarqueeKept ==
    ASSUME HistoryInv, CanvasInv, NEW p, NEW q, Marquee(p, q)
    PROVE  Kept
PROOF
<1> DEFINE m == NormalizeBox(p, q)
           hits == {x \in Unconnected(objects, DOMAIN objects) : BoxIntersects(ObjectAABB(objects[x]), m)}
           roots == {GroupRoot(objects, x) : x \in hits}
<1>1. /\ Command("pick") /\ clip' = clip /\ UNCHANGED <<objects, server, undo, redo>>
      /\ selected' = Ascending(roots) \/ selected' = <<>>
  <2>1. /\ Command("pick") /\ clip' = clip /\ UNCHANGED sessionVars
    BY Zenon DEF Marquee
  <2>2. selected' = Ascending(roots) \/ selected' = <<>>
    BY Zenon DEF Marquee
  <2> QED  BY <2>1, <2>2 DEF sessionVars
<1>2. hits \subseteq DOMAIN objects
  BY DEF Unconnected
<1>3. roots \subseteq DOMAIN objects
  <2> HIDE DEF hits
  <2> QED  BY <1>2, BoardHere, GroupRootThere
<1> HIDE DEF roots
<1>4. IsFiniteSet(roots) /\ roots \in SUBSET Int /\ \A x \in roots : x \in 1 .. Limit - 1
  BY <1>3, BoardHere, FS_Subset
<1>5. Picked(Ascending(roots), Limit)
  <2>1. /\ IsSeq(Ascending(roots)) /\ Distinct(Ascending(roots))
        /\ \A i \in DOMAIN Ascending(roots) : Ascending(roots)[i] \in roots
    BY <1>4, AscendingHolds
  <2> HIDE DEF Limit
  <2> QED  BY <1>4, <2>1 DEF Picked
<1>6. Picked(<<>>, Limit)
  <2> DEFINE none == <<>>
  <2>1. IsSeq(none) /\ DOMAIN none = {}
    BY TupleIsSeq
  <2> HIDE DEF none
  <2>2. Picked(none, Limit)
    BY <2>1 DEF Picked, Distinct
  <2> QED  BY <2>2 DEF none
<1>7. ASSUME NEW s, selected' = s, Picked(s, Limit)
      PROVE  Kept
  <2> DEFINE name == "pick"
             c == clip
  <2>1. Command(name) /\ UNCHANGED <<objects, server, undo, redo>> /\ clip' = c /\ Copied(c, Limit)
    BY <1>1 DEF CanvasInv
  <2> HIDE DEF name, c
  <2> QED  BY <1>7, <2>1, QuietKept
<1> QED  BY <1>1, <1>5, <1>6, <1>7

\* copySelected
LEMMA CopyKept ==
    ASSUME HistoryInv, CanvasInv, CopySelected
    PROVE  Kept
PROOF
<1> DEFINE ids == CollectCopySet
           c == [i \in DOMAIN ids |-> [id |-> ids[i], object |-> objects[ids[i]]]]
           roots == ToSet(selected) \cap DOMAIN objects
           shapes == roots \cup UNION {Descendants(objects, x) : x \in roots}
           lines == {d \in DOMAIN objects : /\ objects[d].type = "connector"
                                            /\ {objects[d].fromId, objects[d].toId} \subseteq shapes}
           S == shapes \cup lines
<1>1. /\ Command("copy") /\ clip' = c /\ selected' = selected /\ UNCHANGED <<objects, server, undo, redo>>
      /\ Len(ids) < IdsPerCommand
  <2>1. Command("copy") /\ clip' = c /\ selected' = selected /\ UNCHANGED sessionVars /\ Len(ids) < IdsPerCommand
    BY Zenon DEF CopySelected
  <2> QED  BY <2>1 DEF sessionVars
<1>2. ids = Ascending(S)
  BY Zenon DEF CollectCopySet
<1>3. S \subseteq DOMAIN objects
  BY DEF Descendants
<1> HIDE DEF S
<1>4. IsFiniteSet(S) /\ S \in SUBSET Int
  BY <1>3, BoardHere, FS_Subset
<1>5. IsSeq(Ascending(S)) /\ \A i \in DOMAIN Ascending(S) : Ascending(S)[i] \in S
  BY <1>4, AscendingHolds
<1>6. IsSeq(ids) /\ \A i \in DOMAIN ids : ids[i] \in DOMAIN objects
  BY <1>2, <1>3, <1>5
<1> HIDE DEF ids
<1>7. c = [i \in DOMAIN ids |-> c[i]]
  BY Zenon
<1>8. \A i \in DOMAIN ids : c[i].object = objects[ids[i]]
  OBVIOUS
<1> HIDE DEF c
<1>9. IsSeq(c) /\ DOMAIN c = DOMAIN ids /\ Len(c) = Len(ids)
  BY <1>6, <1>7, MappedIsSeq
<1>10. Copied(c, Limit)
  <2>1. \A i \in DOMAIN c : IsObject(c[i].object, Limit)
    BY <1>6, <1>8, <1>9, BoardHere
  <2>2. Len(c) < IdsPerCommand
    BY <1>1, <1>9
  <2> QED  BY <1>9, <2>1, <2>2 DEF Copied
<1> DEFINE name == "copy"
           s == selected
<1>11. /\ Command(name) /\ UNCHANGED <<objects, server, undo, redo>> /\ clip' = c
       /\ selected' = s /\ Picked(s, Limit)
  BY <1>1 DEF CanvasInv
<1> HIDE DEF name, s
<1> QED  BY <1>10, <1>11, QuietKept

-----------------------------------------------------------------------------
\* Sessions

\* Commands that drag, copy and paste nothing.
OtherCommand ==
    /\ clip' = clip /\ pasted' = pasted
    /\ edits' = edits \/ last' \notin {"move", "copy", "paste"}

\* Every step is a drag, a copy, a paste, or none of them.
LEMMA CommandNames ==
    [BoardNext]_vars =>
        \/ \E x \in DOMAIN objects, p \in Spots : Move(x, p)
        \/ CopySelected \/ PasteClipboard \/ OtherCommand
PROOF
<1> SUFFICES ASSUME [BoardNext]_vars, \A x \in DOMAIN objects, p \in Spots : ~Move(x, p)
             PROVE  CopySelected \/ PasteClipboard \/ OtherCommand
  OBVIOUS
<1>e. ASSUME NEW name, name \notin {"move", "copy", "paste"}, NEW batches, NEW sel, Edit(name, batches, sel)
      PROVE  OtherCommand
  BY <1>e, Zenon DEF Edit, Command, OtherCommand
<1>p. ASSUME NEW name, name \notin {"move", "copy", "paste"}, NEW patches, ApplyPatches(name, patches)
      PROVE  OtherCommand
  BY <1>e, <1>p, Zenon DEF ApplyPatches
<1>n. \A name \in {"draw", "spline", "place", "mindmap", "connect", "rewire", "segment", "images", "resize", "corner",
                   "type", "pick", "group", "ungroup", "delete", "arrange", "color", "snap", "restore",
                   "front", "back", "forward", "backward"} :
         name \notin {"move", "copy", "paste"}
  OBVIOUS
<1>1. ASSUME NEW tool, NEW p, NEW q, Draw(tool, p, q) \/ CommitSpline(p, q) PROVE OtherCommand
  BY <1>e, <1>n, <1>1, Zenon DEF Draw, CommitSpline
<1>2. ASSUME NEW p, NEW q, Marquee(p, q) PROVE OtherCommand
  BY <1>n, <1>2, Zenon DEF Marquee, Command, OtherCommand
<1>3. ASSUME NEW kind, NEW p, Place(kind, p) \/ Mindmap(p) \/ AddImages(p, 2) PROVE OtherCommand
  <2>1. \A k : Place(k, p) => OtherCommand
    BY <1>e, <1>n, Zenon DEF Place
  <2>2. GrowMindmap => OtherCommand
    BY <1>e, <1>n, Zenon DEF GrowMindmap
  <2>3. AddImages(p, 2) => OtherCommand
    BY <1>e, <1>n, Zenon DEF AddImages
  <2> QED  BY <1>3, <2>1, <2>2, <2>3, Zenon DEF Mindmap
<1>4. ASSUME NEW x, NEW y, Connect(x, y) PROVE OtherCommand
  BY <1>e, <1>n, <1>4, Zenon DEF Connect
<1>5. ASSUME NEW c, NEW end, NEW p, DragEnd(c, end, p) PROVE OtherCommand
  BY <1>e, <1>n, <1>5, Zenon DEF DragEnd, RewireConnector
<1>6. ASSUME NEW c, NEW v, DragSegment(c, v) PROVE OtherCommand
  BY <1>e, <1>n, <1>6, Zenon DEF DragSegment
<1>7. ASSUME NEW x, NEW p, Resize(x, p) \/ RoundCorner(x, p) PROVE OtherCommand
  BY <1>p, <1>n, <1>7, Zenon DEF Resize, RoundCorner
<1>8. ASSUME NEW x, NEW n, TypeText(x, n) PROVE OtherCommand
  BY <1>e, <1>n, <1>8, Zenon DEF TypeText
<1>9. ASSUME NEW x, NEW shift, Pick(x, shift) PROVE OtherCommand
  BY <1>n, <1>9, Zenon DEF Pick, Command, OtherCommand
<1>10. ASSUME GroupSelected \/ UngroupSelected \/ DeleteSelected \/ ApplyColor(1) PROVE OtherCommand
  BY <1>e, <1>n, <1>10, Zenon DEF GroupSelected, UngroupSelected, DeleteSelected, ApplyColor
<1>11. ASSUME NEW k, Align(k) \/ Distribute(k) PROVE OtherCommand
  BY <1>p, <1>n, <1>11, Zenon DEF Align, Distribute
<1>12. ASSUME NEW action \in Restacks, Restack(action) PROVE OtherCommand
  <2>1. action \notin {"move", "copy", "paste"}
    BY RestacksAssumption
  <2> QED  BY <1>p, <1>12, <2>1, Zenon DEF Restack
<1>13. ASSUME ToggleSnap \/ RestoreSnapshot \/ Elsewhere \/ UNCHANGED vars PROVE OtherCommand
  <2>1. ToggleSnap => OtherCommand
    BY <1>n, Zenon DEF ToggleSnap, Command, OtherCommand
  <2>2. RestoreSnapshot => OtherCommand
    BY <1>n, Zenon DEF RestoreSnapshot, Command, OtherCommand
  <2>3. Elsewhere => OtherCommand
    BY Zenon DEF Elsewhere, OtherCommand
  <2>4. UNCHANGED vars => OtherCommand
    BY Zenon DEF vars, userVars, OtherCommand
  <2> QED  BY <1>13, <2>1, <2>2, <2>3, <2>4
<1> QED
  BY <1>1, <1>2, <1>3, <1>4, <1>5, <1>6, <1>7, <1>8, <1>9, <1>10, <1>11, <1>12, <1>13, Zenon
  DEF BoardNext

\* The paste count is a number.
PasteCounted == pasted.count \in Int

\* Only copying and pasting change it.
LEMMA CountKept == PasteCounted /\ [BoardNext]_vars => PasteCounted'
PROOF
<1> SUFFICES ASSUME PasteCounted, [BoardNext]_vars
             PROVE  PasteCounted'
  OBVIOUS
<1>1. pasted' = pasted => PasteCounted'
  BY DEF PasteCounted
<1>2. ASSUME NEW x \in DOMAIN objects, NEW p \in Spots, Move(x, p)
      PROVE  pasted' = pasted
  <2>1. \A patches : ApplyPatches("move", patches) => pasted' = pasted
    BY Zenon DEF ApplyPatches, Edit
  <2> QED  BY <1>2, <2>1, Zenon DEF Move
<1>3. ASSUME CopySelected PROVE PasteCounted'
  <2>1. \E S : pasted' = [sig |-> S, count |-> 0]
    BY <1>3, Zenon DEF CopySelected
  <2> QED  BY <2>1 DEF PasteCounted
<1>4. ASSUME PasteClipboard PROVE PasteCounted'
  <2>1. \E S : pasted' = [sig |-> S, count |-> PasteCount(clip)]
    BY <1>4, Zenon DEF PasteClipboard
  <2>2. PasteCount(clip) \in Int
    BY DEF PasteCount, PasteCounted
  <2> QED  BY <2>1, <2>2 DEF PasteCounted
<1>5. OtherCommand => pasted' = pasted
  BY DEF OtherCommand
<1> QED  BY <1>1, <1>2, <1>3, <1>4, <1>5, CommandNames

\* A session begins on a board whose ids are below those of its first command.
LEMMA CanvasStarts == BoardInit => CanvasInv /\ PasteCounted
PROOF
<1> SUFFICES ASSUME BoardInit
             PROVE  CanvasInv /\ PasteCounted
  OBVIOUS
<1>1. /\ script \in Scripts /\ objects = script.objects /\ server = script.objects
      /\ selected = script.selected /\ undo = <<>> /\ redo = <<>> /\ clip = <<>> /\ edits = 0
      /\ pasted = [sig |-> {}, count |-> 0]
  BY DEF BoardInit
<1>2. /\ IsBoard(script.objects, IdsPerCommand)
      /\ script.selected \in Seq(DOMAIN script.objects)
      /\ \A i, j \in DOMAIN script.selected : script.selected[i] = script.selected[j] => i = j
  BY <1>1, ScriptsAssumption
<1>3. Limit = IdsPerCommand /\ edits \in Nat
  BY <1>1 DEF Limit, IdsPerCommand
<1>4. IsBoard(objects, Limit) /\ IsBoard(server, Limit)
  BY <1>1, <1>2, <1>3
<1>5. \A x \in DOMAIN script.objects : x \in 1 .. Limit - 1
  BY <1>2, <1>3 DEF IsBoard
<1>6. Picked(selected, Limit)
  <2>1. IsSeq(selected)
    BY <1>1, <1>2 DEF IsSeq
  <2>2. Distinct(selected)
    BY <1>1, <1>2 DEF Distinct
  <2>3. \A i \in DOMAIN selected : selected[i] \in DOMAIN script.objects
    BY <1>1, <1>2
  <2> QED  BY <1>5, <2>1, <2>2, <2>3 DEF Picked
<1>7. Steps(undo, Limit) /\ Steps(redo, Limit)
  <2>1. IsSeq(<<>>) /\ ToSet(<<>>) = {}
    BY TupleIsSeq, SetOfOne
  <2> QED  BY <1>1, <2>1 DEF Steps
<1>8. Copied(clip, Limit)
  <2>1. IsSeq(<<>>) /\ Len(<<>>) = 0 /\ DOMAIN <<>> = {}
    BY TupleIsSeq
  <2> QED  BY <1>1, <2>1 DEF Copied, IdsPerCommand
<1>9. PasteCounted
  BY <1>1 DEF PasteCounted
<1> QED  BY <1>1, <1>3, <1>4, <1>6, <1>7, <1>8, <1>9 DEF CanvasInv

\* Every command, and undo, redo and the reconnection.
LEMMA CanvasStep == HistoryInv /\ CanvasInv /\ PasteCounted /\ [BoardNext]_vars => Kept
PROOF
<1> SUFFICES ASSUME HistoryInv, CanvasInv, PasteCounted, [BoardNext]_vars
             PROVE  Kept
  OBVIOUS
<1>s. \A p \in Spots : p \in Points
  BY ScriptsAssumption DEF CanvasInv, Spots
<1>q. /\ Picked(selected, Limit) /\ Copied(clip, Limit)
  BY DEF CanvasInv
<1>1. ASSUME NEW tool \in DrawTools, NEW p \in Spots, NEW q \in Spots, Draw(tool, p, q) PROVE Kept
  <2>1. p \in Points /\ q \in Points
    BY <1>s
  <2> QED  BY <1>1, <2>1, DrawKept
<1>2. ASSUME NEW p \in Spots, NEW q \in Spots, CommitSpline(p, q) \/ Marquee(p, q) PROVE Kept
  <2>1. p \in Points /\ q \in Points
    BY <1>s
  <2> QED  BY <1>2, <2>1, SplineKept, MarqueeKept
<1>3. ASSUME NEW p \in Spots, Place("text", p) \/ Place("sticker", p) \/ Mindmap(p) \/ AddImages(p, 2)
      PROVE  Kept
  <2>1. p \in Points
    BY <1>s
  <2>2. CASE Place("text", p) \/ Place("sticker", p)
    BY <2>1, <2>2, PlaceKept
  <2>3. CASE Mindmap(p)
    BY <2>1, <2>3, PlaceKept, MindmapKept DEF Mindmap
  <2>4. CASE AddImages(p, 2)
    BY <2>1, <2>4, ImagesKept
  <2> QED  BY <1>3, <2>2, <2>3, <2>4
<1>4. ASSUME NEW x \in DOMAIN objects, NEW y \in DOMAIN objects, Connect(x, y) PROVE Kept
  BY <1>4, ConnectKept
<1>5. ASSUME NEW c \in DOMAIN objects, NEW end \in {"from", "to"}, NEW p \in Spots, DragEnd(c, end, p)
      PROVE  Kept
  <2>1. p \in Points
    BY <1>s
  <2> QED  BY <1>5, <2>1, DragEndKept
<1>6. ASSUME NEW c \in DOMAIN objects, NEW v \in Lines, DragSegment(c, v) PROVE Kept
  <2>1. v \in Int
    BY LinesAssumption
  <2> QED  BY <1>6, <2>1, DragSegmentKept
<1>7. ASSUME NEW x \in DOMAIN objects, NEW p \in Spots, Move(x, p) \/ Resize(x, p) PROVE Kept
  <2>1. p \in Points
    BY <1>s
  <2> QED  BY <1>7, <2>1, MoveKept, ResizeKept
<1>8. ASSUME NEW x \in DOMAIN objects, RoundCorner(x, 8 * Px) PROVE Kept
  BY <1>8, CornerKept
<1>9. ASSUME NEW x \in DOMAIN objects, NEW n \in 1 .. 2, TypeText(x, n) PROVE Kept
  BY <1>9, TypeKept
<1>10. ASSUME NEW x \in DOMAIN objects, NEW shift \in BOOLEAN, Pick(x, shift) PROVE Kept
  BY <1>10, PickKept
<1>11. ASSUME GroupSelected \/ UngroupSelected \/ DeleteSelected PROVE Kept
  BY <1>11, GroupKept, UngroupKept, DeleteKept
<1>12. ASSUME NEW kind, Align(kind) PROVE Kept
  BY <1>12, AlignKept
<1>13. ASSUME NEW axis \in {"x", "y"}, Distribute(axis) PROVE Kept
  BY <1>13, DistributeKept
<1>14. ASSUME NEW action, Restack(action) PROVE Kept
  BY <1>14, RestackKept
<1>15. ASSUME ApplyColor(1) PROVE Kept
  BY <1>15, ColorKept
<1>16. ASSUME CopySelected \/ PasteClipboard PROVE Kept
  BY <1>16, CopyKept, PasteKept DEF PasteCounted
<1>17. ASSUME ToggleSnap PROVE Kept
  <2> DEFINE name == "snap"
             s == selected
             c == clip
  <2>1. Command(name) /\ UNCHANGED <<objects, server, undo, redo>> /\ selected' = s /\ clip' = c
    BY <1>17, Zenon DEF ToggleSnap, sessionVars
  <2>2. Picked(s, Limit) /\ Copied(c, Limit)
    BY <1>q
  <2> HIDE DEF name, s, c
  <2> QED  BY <2>1, <2>2, QuietKept
<1>18. ASSUME RestoreSnapshot PROVE Kept
  BY <1>18, RestoreKept
<1>19. ASSUME Undo \/ Redo \/ Reconnect, Elsewhere PROVE Kept
  BY <1>19, UndoKept, RedoKept, ReconnectKept
<1>20. ASSUME UNCHANGED vars PROVE Kept
  <2>1. edits' = edits /\ script' = script /\ selected' = selected /\ clip' = clip
    BY <1>20, Zenon DEF vars, userVars
  <2>2. objects' = objects /\ server' = server /\ undo' = undo /\ redo' = redo
    BY <1>20, Zenon DEF vars, sessionVars
  <2>3. IsBoard(objects', Limit) /\ IsBoard(server', Limit) /\ Steps(undo', Limit) /\ Steps(redo', Limit)
    BY <2>2 DEF CanvasInv
  <2> QED  BY <2>1, <2>3, ReplayKept
<1> QED
  BY <1>1, <1>2, <1>3, <1>4, <1>5, <1>6, <1>7, <1>8, <1>9, <1>10, <1>11, <1>12, <1>13,
     <1>14, <1>15, <1>16, <1>17, <1>18, <1>19, <1>20, Zenon
  DEF BoardNext

\* The objects, those on the server and those on the clipboard have their
\* fields, whatever is done, undone and done again, and every operation that the
\* stacks keep can be applied to them.  The ids of a command are above all of
\* those, and those below the number the next command begins with.
THEOREM BoardTyped == BoardSpec => []CanvasInv
PROOF
<1>1. BoardInit => CanvasInv /\ PasteCounted
  BY CanvasStarts
<1>2. HistoryInv /\ CanvasInv /\ PasteCounted /\ [BoardNext]_vars => CanvasInv' /\ PasteCounted'
  BY CanvasStep, CountKept DEF Kept
<1>3. BoardSpec => []HistoryInv
  BY StacksAreHistory, HistoryStarts, HistoryStays, PTL DEF UndoIsHistory, H!HistorySpec
<1> QED
  BY <1>1, <1>2, <1>3, PTL DEF BoardSpec

\* Undo takes a command back: a command of the canvas, whichever it is and
\* whatever was done before it, leaves steps from which undo makes the board that
\* it found, in as many turns as it made steps.  Those of undo and redo
\* themselves and those that fill the stack are not meant.
THEOREM UndoTakesBack == BoardSpec => UndoRestores
PROOF
<1>1. BoardInit => CanvasInv /\ PasteCounted
  BY CanvasStarts
<1>2. HistoryInv /\ CanvasInv /\ PasteCounted /\ [BoardNext]_vars =>
         CanvasInv' /\ PasteCounted' /\ UndoStepRestores
  BY CanvasStep, CountKept DEF Kept
<1>3. BoardSpec => []HistoryInv
  BY StacksAreHistory, HistoryStarts, HistoryStays, PTL DEF UndoIsHistory, H!HistorySpec
<1>4. HistoryInv /\ CanvasInv /\ PasteCounted /\ [BoardNext]_vars =>
         [edits' # edits /\ Len(undo) < Len(undo') /\ Len(undo') < Depth =>
             Restores(objects, objects', Rewind(objects', SubSeq(undo', Len(undo) + 1, Len(undo'))))]_vars
  BY <1>2 DEF UndoStepRestores
<1> QED
  BY <1>1, <1>2, <1>3, <1>4, PTL DEF BoardSpec, UndoRestores

-----------------------------------------------------------------------------
\* What is drawn on top

\* What the digits of n are, where f has those of smaller numbers.
DigitsBy(f, n) == IF n < 10 THEN <<n>> ELSE Append(f[n \div 10], n % 10)

\* f has the digits of the numbers up to n.
DigitsUpTo(f, n) == f = [k \in 0 .. n |-> DigitsBy(f, k)]

\* A tenth is less.
LEMMA Tenth ==
    ASSUME NEW n \in Nat
    PROVE  /\ n \div 10 \in Nat /\ n % 10 \in Nat /\ n = 10 * (n \div 10) + (n % 10)
           /\ n >= 10 => n \div 10 <= n - 1
PROOF
<1>1. n \div 10 \in Int /\ n % 10 \in 0 .. 9 /\ n = 10 * (n \div 10) + (n % 10)
  OBVIOUS
<1> DEFINE a == n \div 10
           b == n % 10
<1> HIDE DEF a, b
<1>2. a \in Int /\ b \in 0 .. 9 /\ n = 10 * a + b
  BY <1>1 DEF a, b
<1>3. a \in Nat /\ b \in Nat /\ n = 10 * a + b /\ (n >= 10 => a <= n - 1)
  BY <1>2
<1> QED  BY <1>3 DEF a, b

\* There is such a function for each number,
LEMMA DigitsExist == \A n \in Nat : \E f : DigitsUpTo(f, n)
PROOF
<1> DEFINE T == {n \in Nat : \E f : DigitsUpTo(f, n)}
<1>1. 0 \in T
  <2> DEFINE f == [k \in 0 .. 0 |-> <<k>>]
  <2>1. \A k \in 0 .. 0 : DigitsBy(f, k) = <<k>>
    BY DEF DigitsBy
  <2>2. f = [k \in 0 .. 0 |-> DigitsBy(f, k)]
    BY <2>1
  <2> QED  BY <2>2 DEF DigitsUpTo
<1>2. ASSUME NEW n \in Nat, n \in T
      PROVE  n + 1 \in T
  <2>1. PICK f : DigitsUpTo(f, n)
    BY <1>2
  <2> DEFINE g == [k \in 0 .. n + 1 |-> IF k <= n THEN f[k] ELSE DigitsBy(f, k)]
  <2>2. \A k \in 0 .. n : g[k] = f[k] /\ f[k] = DigitsBy(f, k)
    BY <2>1 DEF DigitsUpTo
  <2>3. ASSUME NEW k \in 0 .. n + 1
        PROVE  g[k] = DigitsBy(f, k)
    <3>1. CASE k \in 0 .. n
      BY <2>2, <3>1
    <3>2. CASE ~(k <= n)
      BY <3>2
    <3> QED  BY <3>1, <3>2
  <2>4. DOMAIN g = 0 .. n + 1 /\ g = [k \in 0 .. n + 1 |-> g[k]]
    OBVIOUS
  <2> HIDE DEF g
  <2>5. ASSUME NEW k \in 0 .. n + 1
        PROVE  DigitsBy(g, k) = DigitsBy(f, k)
    <3>1. CASE k < 10
      BY <3>1 DEF DigitsBy
    <3>2. CASE ~(k < 10)
      <4>1. k \div 10 \in 0 .. n
        BY <3>2, Tenth
      <4>2. g[k \div 10] = f[k \div 10]
        BY <2>2, <4>1
      <4> QED  BY <3>2, <4>2 DEF DigitsBy
    <3> QED  BY <3>1, <3>2
  <2>6. \A k \in 0 .. n + 1 : g[k] = DigitsBy(g, k)
    BY <2>3, <2>5
  <2>7. DigitsUpTo(g, n + 1)
    BY <2>4, <2>6 DEF DigitsUpTo
  <2> QED  BY <2>7
<1> HIDE DEF T
<1>3. Nat \subseteq T
  BY <1>1, <1>2, SetInduction, Zenon
<1> QED  BY <1>3 DEF T

\* and they agree.
LEMMA DigitsAgree ==
    ASSUME NEW n \in Nat, NEW m \in Nat, NEW f, NEW g, DigitsUpTo(f, n), DigitsUpTo(g, m)
    PROVE  \A k \in Nat : k <= n /\ k <= m => f[k] = g[k]
PROOF
<1> DEFINE T == {k \in Nat : \A i \in 0 .. k : i <= n /\ i <= m => f[i] = g[i]}
<1>0. ASSUME NEW i \in Nat, i <= n, i <= m
      PROVE  f[i] = DigitsBy(f, i) /\ g[i] = DigitsBy(g, i)
  <2>1. i \in 0 .. n /\ i \in 0 .. m
    BY <1>0
  <2> QED  BY <2>1, Zenon DEF DigitsUpTo
<1>1. 0 \in T
  <2>1. f[0] = DigitsBy(f, 0) /\ g[0] = DigitsBy(g, 0)
    BY <1>0
  <2>2. DigitsBy(f, 0) = <<0>> /\ DigitsBy(g, 0) = <<0>>
    BY DEF DigitsBy
  <2> QED  BY <2>1, <2>2
<1>2. ASSUME NEW k \in Nat, k \in T
      PROVE  k + 1 \in T
  <2>0. \A i \in 0 .. k : i <= n /\ i <= m => f[i] = g[i]
    BY <1>2
  <2>s. (k + 1 <= n /\ k + 1 <= m => f[k + 1] = g[k + 1]) => k + 1 \in T
    <3>1. \A i \in 0 .. k + 1 : i \in 0 .. k \/ i = k + 1
      OBVIOUS
    <3> QED  BY <2>0, <3>1
  <2> HIDE DEF T
  <2>1. SUFFICES ASSUME k + 1 <= n, k + 1 <= m
                 PROVE  f[k + 1] = g[k + 1]
    BY <2>s
  <2> DEFINE i == k + 1
  <2>2. i \in Nat /\ i <= n /\ i <= m /\ k = i - 1
    BY <2>1
  <2>3. \A j \in 0 .. k : j <= n /\ j <= m => f[j] = g[j]
    BY <2>0
  <2> HIDE DEF i
  <2>4. f[i] = DigitsBy(f, i) /\ g[i] = DigitsBy(g, i)
    BY <1>0, <2>2
  <2>7. f[i] = g[i]
    <3>5. CASE i < 10
      BY <2>4, <3>5 DEF DigitsBy
    <3>6. CASE ~(i < 10)
      <4>1. i \div 10 \in 0 .. k /\ i \div 10 <= n /\ i \div 10 <= m
        BY <2>2, <3>6, Tenth
      <4>2. f[i \div 10] = g[i \div 10]
        BY <2>3, <4>1
      <4> QED  BY <2>4, <3>6, <4>2 DEF DigitsBy
    <3> QED  BY <3>5, <3>6
  <2> QED  BY <2>7 DEF i
<1>3. Nat \subseteq T
  <2> HIDE DEF T
  <2> QED  BY <1>1, <1>2, SetInduction, Zenon
<1> QED  BY <1>3

\* So that the digits are what their definition says.
LEMMA DigitsAre == \A n \in Nat : Digits[n] = DigitsBy(Digits, n)
PROOF
<1> DEFINE d(n) == CHOOSE f : DigitsUpTo(f, n)
           h == [n \in Nat |-> d(n)[n]]
<1>1. \A n \in Nat : DigitsUpTo(d(n), n)
  BY DigitsExist, Zenon
<1>2. \A n \in Nat : h[n] = d(n)[n]
  OBVIOUS
<1>3. DOMAIN h = Nat /\ h = [n \in Nat |-> h[n]]
  OBVIOUS
<1> HIDE DEF d, h
<1>4. ASSUME NEW n \in Nat
      PROVE  h[n] = DigitsBy(h, n)
  <2>1. n \in 0 .. n
    OBVIOUS
  <2>2. d(n)[n] = DigitsBy(d(n), n)
    BY <1>1, <2>1, Zenon DEF DigitsUpTo
  <2>3. CASE n < 10
    BY <1>2, <2>2, <2>3 DEF DigitsBy
  <2>4. CASE ~(n < 10)
    <3> DEFINE k == n \div 10
    <3>1. k \in Nat /\ k <= n
      BY <2>4, Tenth
    <3> HIDE DEF k
    <3>2. d(n)[k] = d(k)[k]
      <4>1. DigitsUpTo(d(n), n) /\ DigitsUpTo(d(k), k)
        BY <1>1, <3>1
      <4>2. k <= k
        BY <3>1
      <4> QED  BY <3>1, <4>1, <4>2, DigitsAgree
    <3>3. d(n)[k] = h[k]
      BY <1>2, <3>1, <3>2
    <3> QED  BY <1>2, <2>2, <2>4, <3>3 DEF DigitsBy, k
  <2> QED  BY <2>3, <2>4
<1>5. h = [n \in Nat |-> IF n < 10 THEN <<n>> ELSE Append(h[n \div 10], n % 10)]
  BY <1>3, <1>4, Zenon DEF DigitsBy
<1>6. \E f : f = [n \in Nat |-> IF n < 10 THEN <<n>> ELSE Append(f[n \div 10], n % 10)]
  BY <1>5, Zenon
<1>7. Digits = [n \in Nat |-> IF n < 10 THEN <<n>> ELSE Append(Digits[n \div 10], n % 10)]
  BY <1>6, Zenon DEF Digits
<1>8. \A n \in Nat : Digits[n] = IF n < 10 THEN <<n>> ELSE Append(Digits[n \div 10], n % 10)
  BY <1>7, Zenon
<1> QED  BY <1>8 DEF DigitsBy

\* The digits of a number are a sequence of numbers,
LEMMA DigitsTyped == \A n \in Nat : Digits[n] \in Seq(Nat) /\ Len(Digits[n]) >= 1
PROOF
<1> DEFINE Ok(n) == Digits[n] \in Seq(Nat) /\ Len(Digits[n]) >= 1
           T == {n \in Nat : \A k \in 0 .. n : Ok(k)}
<1>0. ASSUME NEW n \in Nat, n >= 10 => Ok(n \div 10)
      PROVE  Ok(n)
  <2> DEFINE s == Digits[n \div 10]
             e == n % 10
  <2>1. Digits[n] = IF n < 10 THEN <<n>> ELSE Append(s, e)
    BY DigitsAre DEF DigitsBy
  <2>2. e \in Nat
    BY Tenth
  <2>3. n >= 10 => s \in Seq(Nat) /\ Len(s) >= 1
    BY <1>0
  <2>4. <<n>> \in Seq(Nat) /\ Len(<<n>>) = 1
    OBVIOUS
  <2> HIDE DEF s, e
  <2>5. n >= 10 => Append(s, e) \in Seq(Nat) /\ Len(Append(s, e)) = Len(s) + 1
    BY <2>2, <2>3, AppendProperties
  <2>6. n >= 10 => Len(s) \in Nat
    BY <2>3, LenProperties
  <2> QED  BY <2>1, <2>3, <2>4, <2>5, <2>6
<1> HIDE DEF Ok
<1>1. 0 \in T
  BY <1>0
<1>2. ASSUME NEW n \in Nat, n \in T
      PROVE  n + 1 \in T
  <2>1. \A k \in 0 .. n : Ok(k)
    BY <1>2
  <2>2. n + 1 \in Nat /\ (n + 1 >= 10 => (n + 1) \div 10 \in 0 .. n)
    BY Tenth
  <2>3. Ok(n + 1)
    BY <1>0, <2>1, <2>2
  <2>4. \A k \in 0 .. n + 1 : k \in 0 .. n \/ k = n + 1
    OBVIOUS
  <2> QED  BY <2>1, <2>3, <2>4
<1>3. Nat \subseteq T
  <2> HIDE DEF T
  <2> QED  BY <1>1, <1>2, SetInduction, Zenon
<1>4. \A n \in Nat : n \in 0 .. n
  OBVIOUS
<1>5. \A n \in Nat : Ok(n)
  BY <1>3, <1>4
<1> QED  BY <1>5 DEF Ok

\* and two numbers have different ones.
LEMMA DigitsDiffer == \A m, n \in Nat : Digits[m] = Digits[n] => m = n
PROOF
<1> DEFINE T == {n \in Nat : \A k, l \in 0 .. n : Digits[k] = Digits[l] => k = l}
<1>0. ASSUME NEW m \in Nat, NEW n \in Nat, Digits[m] = Digits[n],
             m >= 10 /\ n >= 10 /\ Digits[m \div 10] = Digits[n \div 10] => m \div 10 = n \div 10
      PROVE  m = n
  <2> DEFINE a == m \div 10
             b == n \div 10
             s == Digits[a]
             t == Digits[b]
             d == m % 10
             e == n % 10
  <2>1. /\ Digits[m] = IF m < 10 THEN <<m>> ELSE Append(s, d)
        /\ Digits[n] = IF n < 10 THEN <<n>> ELSE Append(t, e)
    BY DigitsAre DEF DigitsBy
  <2>2. a \in Nat /\ b \in Nat /\ d \in Nat /\ e \in Nat /\ m = 10 * a + d /\ n = 10 * b + e
    BY Tenth
  <2>3. m >= 10 /\ n >= 10 /\ s = t => a = b
    BY <1>0
  <2>4. s \in Seq(Nat) /\ Len(s) >= 1 /\ t \in Seq(Nat) /\ Len(t) >= 1
    <3>1. a \in Nat /\ b \in Nat
      BY <2>2
    <3> HIDE DEF a, b
    <3> QED  BY <3>1, DigitsTyped
  <2> HIDE DEF a, b, d, e
  <2> HIDE DEF s, t
  <2>5. /\ Len(Append(s, d)) = Len(s) + 1 /\ Len(Append(t, e)) = Len(t) + 1
        /\ Len(s) \in Nat /\ Len(t) \in Nat
        /\ Append(s, d)[Len(s) + 1] = d /\ Append(t, e)[Len(t) + 1] = e
        /\ \A i \in 1 .. Len(s) : Append(s, d)[i] = s[i]
        /\ \A i \in 1 .. Len(t) : Append(t, e)[i] = t[i]
    BY <2>2, <2>4, AppendProperties, LenProperties
  <2>6. Len(<<m>>) = 1 /\ Len(<<n>>) = 1 /\ <<m>>[1] = m /\ <<n>>[1] = n
    OBVIOUS
  <2>7. CASE m < 10 /\ n < 10
    BY <1>0, <2>1, <2>6, <2>7
  <2>8. CASE m < 10 /\ ~(n < 10)
    <3>1. Digits[m] = <<m>> /\ Digits[n] = Append(t, e)
      BY <2>1, <2>8
    <3>2. <<m>> = Append(t, e)
      BY <1>0, <3>1
    <3>3. 1 = Len(t) + 1
      BY <2>5, <2>6, <3>2
    <3> QED  BY <2>4, <2>5, <3>3
  <2>9. CASE ~(m < 10) /\ n < 10
    <3>1. Digits[m] = Append(s, d) /\ Digits[n] = <<n>>
      BY <2>1, <2>9
    <3>2. <<n>> = Append(s, d)
      BY <1>0, <3>1
    <3>3. 1 = Len(s) + 1
      BY <2>5, <2>6, <3>2
    <3> QED  BY <2>4, <2>5, <3>3
  <2>10. CASE ~(m < 10) /\ ~(n < 10)
    <3>1. Append(s, d) = Append(t, e)
      BY <1>0, <2>1, <2>10
    <3>2. Len(s) = Len(t) /\ d = e /\ \A i \in 1 .. Len(s) : s[i] = t[i]
      BY <3>1, <2>5
    <3>3. s = t
      <4>1. s = [i \in 1 .. Len(s) |-> s[i]] /\ t = [i \in 1 .. Len(t) |-> t[i]]
        BY <2>4
      <4> QED  BY <3>2, <4>1
    <3> QED  BY <2>2, <2>3, <2>10, <3>2, <3>3
  <2> QED  BY <2>7, <2>8, <2>9, <2>10
<1>1. 0 \in T
  OBVIOUS
<1>2. ASSUME NEW n \in Nat, n \in T
      PROVE  n + 1 \in T
  <2>1. \A k, l \in 0 .. n : Digits[k] = Digits[l] => k = l
    BY <1>2
  <2>2. ASSUME NEW k \in 0 .. n + 1, NEW l \in 0 .. n + 1, Digits[k] = Digits[l]
        PROVE  k = l
    <3>1. k \in Nat /\ l \in Nat
      OBVIOUS
    <3>2. k >= 10 /\ l >= 10 => k \div 10 \in 0 .. n /\ l \div 10 \in 0 .. n
      BY <3>1, Tenth
    <3>3. k >= 10 /\ l >= 10 /\ Digits[k \div 10] = Digits[l \div 10] => k \div 10 = l \div 10
      BY <2>1, <3>2
    <3> QED  BY <1>0, <2>2, <3>1, <3>3
  <2> QED  BY <2>2
<1>3. Nat \subseteq T
  <2> HIDE DEF T
  <2> QED  BY <1>1, <1>2, SetInduction, Zenon
<1>4. ASSUME NEW m \in Nat, NEW n \in Nat, Digits[m] = Digits[n]
      PROVE  m = n
  <2>1. CASE m <= n
    <3>1. m \in 0 .. n /\ n \in 0 .. n /\ n \in T
      BY <1>3, <2>1
    <3> QED  BY <1>4, <3>1
  <2>2. CASE n <= m
    <3>1. m \in 0 .. m /\ n \in 0 .. m /\ m \in T
      BY <1>3, <2>2
    <3> QED  BY <1>4, <3>1
  <2> QED  BY <2>1, <2>2
<1> QED  BY <1>4

\* How rows of numbers of the lengths n and m are ordered: by the first place
\* where they differ, or one that goes on after the other.
Earlier(s, n, t, m) ==
    \/ \E i \in 1 .. n : i <= m /\ s[i] < t[i] /\ \A j \in 1 .. i - 1 : s[j] = t[j]
    \/ n < m /\ \A j \in 1 .. n : s[j] = t[j]

\* Numbers in the first n places.
Row(s, n) == n \in Nat /\ \A i \in 1 .. n : s[i] \in Int

\* That order is strict.
LEMMA EarlierStrict ==
    ASSUME NEW s, NEW n, Row(s, n), NEW t, NEW m, Row(t, m), NEW u, NEW l, Row(u, l)
    PROVE  /\ ~(Earlier(s, n, t, m) /\ Earlier(t, m, s, n))
           /\ Earlier(s, n, t, m) /\ Earlier(t, m, u, l) => Earlier(s, n, u, l)
PROOF
<1>1. /\ n \in Nat /\ \A i \in 1 .. n : s[i] \in Int
      /\ m \in Nat /\ \A i \in 1 .. m : t[i] \in Int
      /\ l \in Nat /\ \A i \in 1 .. l : u[i] \in Int
  BY DEF Row
<1>2. ASSUME Earlier(s, n, t, m), Earlier(t, m, s, n)
      PROVE  FALSE
  <2>1. CASE n < m /\ \A j \in 1 .. n : s[j] = t[j]
    BY <1>1, <1>2, <2>1 DEF Earlier
  <2>2. CASE m < n /\ \A j \in 1 .. m : t[j] = s[j]
    BY <1>1, <1>2, <2>2 DEF Earlier
  <2>3. ASSUME NEW i \in 1 .. n, i <= m, s[i] < t[i], \A j \in 1 .. i - 1 : s[j] = t[j],
               NEW k \in 1 .. m, k <= n, t[k] < s[k], \A j \in 1 .. k - 1 : t[j] = s[j]
        PROVE  FALSE
    BY <1>1, <2>3
  <2> QED  BY <1>2, <2>1, <2>2, <2>3 DEF Earlier
<1>3. ASSUME Earlier(s, n, t, m), Earlier(t, m, u, l)
      PROVE  Earlier(s, n, u, l)
  <2>1. ASSUME NEW i \in 1 .. n, i <= m, s[i] < t[i], \A j \in 1 .. i - 1 : s[j] = t[j],
               NEW k \in 1 .. m, k <= l, t[k] < u[k], \A j \in 1 .. k - 1 : t[j] = u[j]
        PROVE  Earlier(s, n, u, l)
    <3>1. CASE i <= k
      <4>1. s[i] < u[i] /\ i <= l
        BY <1>1, <2>1, <3>1
      <4>2. \A j \in 1 .. i - 1 : s[j] = u[j]
        BY <1>1, <2>1, <3>1
      <4> QED  BY <4>1, <4>2 DEF Earlier
    <3>2. CASE k < i
      <4>1. s[k] < u[k] /\ k \in 1 .. n
        BY <1>1, <2>1, <3>2
      <4>2. \A j \in 1 .. k - 1 : s[j] = u[j]
        BY <1>1, <2>1, <3>2
      <4> QED  BY <2>1, <4>1, <4>2 DEF Earlier
    <3> QED  BY <1>1, <3>1, <3>2
  <2>2. ASSUME NEW i \in 1 .. n, i <= m, s[i] < t[i], \A j \in 1 .. i - 1 : s[j] = t[j],
               m < l, \A j \in 1 .. m : t[j] = u[j]
        PROVE  Earlier(s, n, u, l)
    <3>1. s[i] < u[i] /\ i <= l
      BY <1>1, <2>2
    <3>2. \A j \in 1 .. i - 1 : s[j] = u[j]
      BY <1>1, <2>2
    <3> QED  BY <3>1, <3>2 DEF Earlier
  <2>3. ASSUME n < m, \A j \in 1 .. n : s[j] = t[j],
               NEW k \in 1 .. m, k <= l, t[k] < u[k], \A j \in 1 .. k - 1 : t[j] = u[j]
        PROVE  Earlier(s, n, u, l)
    <3>1. CASE k <= n
      <4>1. s[k] < u[k] /\ k \in 1 .. n
        BY <1>1, <2>3, <3>1
      <4>2. \A j \in 1 .. k - 1 : s[j] = u[j]
        BY <1>1, <2>3, <3>1
      <4> QED  BY <2>3, <4>1, <4>2 DEF Earlier
    <3>2. CASE n < k
      <4>1. n < l
        BY <1>1, <2>3, <3>2
      <4>2. \A j \in 1 .. n : s[j] = u[j]
        BY <1>1, <2>3, <3>2
      <4> QED  BY <4>1, <4>2 DEF Earlier
    <3> QED  BY <1>1, <3>1, <3>2
  <2>4. ASSUME n < m, \A j \in 1 .. n : s[j] = t[j],
               m < l, \A j \in 1 .. m : t[j] = u[j]
        PROVE  Earlier(s, n, u, l)
    <3>1. n < l
      BY <1>1, <2>4
    <3>2. \A j \in 1 .. n : s[j] = u[j]
      BY <1>1, <2>4
    <3> QED  BY <3>1, <3>2 DEF Earlier
  <2> QED  BY <1>3, <2>1, <2>2, <2>3, <2>4 DEF Earlier
<1> QED  BY <1>2, <1>3

\* The lesser of two numbers.
LEMMA MinOfTwo ==
    ASSUME NEW n \in Nat, NEW m \in Nat
    PROVE  Min({n, m}) = IF n <= m THEN n ELSE m
PROOF
<1>1. {n, m} = {n} \cup {m} /\ {n, m} \in SUBSET Int /\ {n, m} # {}
  OBVIOUS
<1>2. IsFiniteSet({n})
  BY FS_Singleton
<1>3. IsFiniteSet({n} \cup {m})
  BY ONLY <1>2, FS_AddElement
<1>4. IsFiniteSet({n, m})
  BY ONLY <1>1, <1>3
<1>5. Min({n, m}) \in {n, m} /\ \A y \in {n, m} : Min({n, m}) <= y
  BY ONLY <1>1, <1>4, Extremes
<1> DEFINE k == Min({n, m})
<1>6. (k = n \/ k = m) /\ k <= n /\ k <= m
  BY <1>5
<1> HIDE DEF k
<1>7. k = IF n <= m THEN n ELSE m
  BY <1>6
<1> QED  BY <1>7 DEF k

\* The first place where two rows differ decides.
LEMMA EarlierIs ==
    ASSUME NEW s, NEW n, Row(s, n), NEW t, NEW m, Row(t, m),
           NEW D, D = {i \in 1 .. Min({n, m}) : s[i] # t[i]}
    PROVE  /\ (IF D = {} THEN n < m ELSE s[Min(D)] < t[Min(D)]) <=> Earlier(s, n, t, m)
           /\ Earlier(s, n, t, m) \/ Earlier(t, m, s, n) \/ (n = m /\ \A i \in 1 .. n : s[i] = t[i])
PROOF
<1>1. /\ n \in Nat /\ \A i \in 1 .. n : s[i] \in Int
      /\ m \in Nat /\ \A i \in 1 .. m : t[i] \in Int
  BY DEF Row
<1> DEFINE r == IF n <= m THEN n ELSE m
<1>2. r \in Nat /\ r <= n /\ r <= m /\ (r = n \/ r = m)
  BY <1>1
<1>3. D = {i \in 1 .. r : s[i] # t[i]}
  BY <1>1, MinOfTwo
<1> HIDE DEF r
<1>4. ASSUME D # {}
      PROVE  /\ Min(D) \in 1 .. r /\ s[Min(D)] # t[Min(D)]
             /\ \A j \in 1 .. Min(D) - 1 : s[j] = t[j]
  <2>1. D \in SUBSET (1 .. r)
    BY <1>3
  <2>2. IsFiniteSet(1 .. r)
    <3>1. 1 \in Int /\ r \in Int
      BY <1>2
    <3> QED  BY ONLY <3>1, FS_Interval
  <2>3. IsFiniteSet(D)
    BY ONLY <2>1, <2>2, FS_Subset
  <2>4. D \in SUBSET Int
    BY <2>1
  <2>5. Min(D) \in D /\ \A y \in D : Min(D) <= y
    BY ONLY <1>4, <2>3, <2>4, Extremes
  <2> DEFINE k == Min(D)
  <2> HIDE DEF k
  <2>6. k \in D /\ \A y \in D : k <= y
    BY <2>5 DEF k
  <2>7. k \in 1 .. r /\ s[k] # t[k]
    BY <1>3, <2>6
  <2>8. \A j \in 1 .. k - 1 : s[j] = t[j]
    BY <1>2, <1>3, <2>6, <2>7
  <2> QED  BY <2>7, <2>8 DEF k
<1>5. CASE D = {}
  <2>1. \A i \in 1 .. r : s[i] = t[i]
    BY <1>3, <1>5
  <2>2. Earlier(s, n, t, m) <=> n < m
    BY <1>1, <1>2, <2>1 DEF Earlier
  <2>3. Earlier(t, m, s, n) <=> m < n
    BY <1>1, <1>2, <2>1 DEF Earlier
  <2> QED  BY <1>1, <1>2, <1>5, <2>1, <2>2, <2>3
<1>6. CASE D # {}
  <2> DEFINE k == Min(D)
  <2>1. k \in 1 .. r /\ s[k] # t[k] /\ \A j \in 1 .. k - 1 : s[j] = t[j]
    BY <1>4, <1>6
  <2> HIDE DEF k
  <2>2. s[k] \in Int /\ t[k] \in Int
    BY <1>1, <1>2, <2>1
  <2>3. s[k] < t[k] => Earlier(s, n, t, m)
    BY <1>1, <1>2, <2>1 DEF Earlier
  <2>4. t[k] < s[k] => Earlier(t, m, s, n)
    BY <1>1, <1>2, <2>1 DEF Earlier
  <2>5. ~(Earlier(s, n, t, m) /\ Earlier(t, m, s, n))
    BY EarlierStrict
  <2>6. s[k] < t[k] <=> Earlier(s, n, t, m)
    BY <2>1, <2>2, <2>3, <2>4, <2>5
  <2>7. Earlier(s, n, t, m) \/ Earlier(t, m, s, n)
    BY <2>1, <2>2, <2>3, <2>4
  <2> QED  BY <1>6, <2>6, <2>7 DEF k
<1> QED  BY <1>5, <1>6

\* The digits of a number that may be negative.
ZText(k) == IF k < 0 THEN <<-1>> \o Digits[-k] ELSE Digits[k]

\* They are a row of numbers, and two numbers have different ones.
LEMMA ZTexts ==
    /\ \A a \in Int : IsSeq(ZText(a)) /\ Row(ZText(a), Len(ZText(a)))
    /\ \A a, b \in Int : ZText(a) = ZText(b) => a = b
PROOF
<1>1. ASSUME NEW a \in Int, a < 0
      PROVE  /\ ZText(a) \in Seq(Int) /\ ZText(a)[1] = -1
             /\ Len(ZText(a)) = Len(Digits[-a]) + 1 /\ Len(Digits[-a]) \in Nat
             /\ \A i \in 1 .. Len(Digits[-a]) : ZText(a)[i + 1] = Digits[-a][i]
  <2> DEFINE d == Digits[-a]
  <2>1. -a \in Nat
    BY <1>1
  <2>2. d \in Seq(Nat)
    BY <2>1, DigitsTyped
  <2>3. ZText(a) = <<-1>> \o d
    BY <1>1 DEF ZText
  <2> HIDE DEF d
  <2>4. d \in Seq(Int) /\ Len(d) \in Nat
    BY <2>2
  <2>5. <<-1>> \in Seq(Int) /\ Len(<<-1>>) = 1 /\ <<-1>>[1] = -1
    OBVIOUS
  <2>6. /\ <<-1>> \o d \in Seq(Int) /\ Len(<<-1>> \o d) = 1 + Len(d)
        /\ \A i \in 1 .. 1 + Len(d) : (<<-1>> \o d)[i] = IF i <= 1 THEN <<-1>>[i] ELSE d[i - 1]
    BY <2>4, <2>5, ConcatProperties
  <2> DEFINE t == <<-1>> \o d
  <2>7. t[1] = -1
    <3>1. 1 \in 1 .. 1 + Len(d)
      BY <2>4
    <3> QED  BY <2>5, <2>6, <3>1
  <2> HIDE DEF t
  <2>8. \A i \in 1 .. 1 + Len(d) : t[i] = IF i <= 1 THEN <<-1>>[i] ELSE d[i - 1]
    BY <2>6 DEF t
  <2>9. \A i \in 1 .. Len(d) : t[i + 1] = d[i]
    <3>1. SUFFICES ASSUME NEW i \in 1 .. Len(d)
                   PROVE  t[i + 1] = d[i]
      OBVIOUS
    <3>2. i + 1 \in 1 .. 1 + Len(d) /\ ~(i + 1 <= 1) /\ (i + 1) - 1 = i
      BY <2>4
    <3> QED  BY <2>8, <3>2
  <2>10. ZText(a) = t
    BY <2>3 DEF t
  <2>11. t \in Seq(Int) /\ Len(t) = Len(d) + 1
    BY <2>4, <2>6 DEF t
  <2> QED  BY <2>4, <2>7, <2>9, <2>10, <2>11 DEF d
<1>2. ASSUME NEW a \in Int, a >= 0
      PROVE  ZText(a) = Digits[a] /\ ZText(a) \in Seq(Int) /\ ZText(a)[1] \in Nat
  <2> DEFINE d == Digits[a]
  <2>1. d \in Seq(Nat) /\ Len(d) >= 1
    BY <1>2, DigitsTyped
  <2>2. ZText(a) = d
    BY <1>2 DEF ZText
  <2> HIDE DEF d
  <2>3. d \in Seq(Int) /\ d[1] \in Nat
    BY <2>1
  <2> QED  BY <2>2, <2>3 DEF d
<1>3. \A a \in Int : ZText(a) \in Seq(Int)
  BY <1>1, <1>2
<1>4. ASSUME NEW a \in Int
      PROVE  IsSeq(ZText(a)) /\ Row(ZText(a), Len(ZText(a)))
  <2> DEFINE t == ZText(a)
  <2>1. t \in Seq(Int)
    BY <1>3
  <2> HIDE DEF t
  <2>2. Len(t) \in Nat /\ \A i \in 1 .. Len(t) : t[i] \in Int
    BY <2>1, LenProperties, ElementOfSeq
  <2> QED  BY <2>1, <2>2 DEF t, IsSeq, Row
<1>5. ASSUME NEW a \in Int, NEW b \in Int, ZText(a) = ZText(b)
      PROVE  a = b
  <2>1. CASE a >= 0 /\ b >= 0
    <3>1. ZText(a) = Digits[a] /\ ZText(b) = Digits[b]
      BY <1>2, <2>1
    <3>2. Digits[a] = Digits[b]
      BY <1>5, <3>1
    <3>3. a \in Nat /\ b \in Nat
      BY <2>1
    <3> QED  BY <3>2, <3>3, DigitsDiffer
  <2>2. CASE a < 0 /\ b < 0
    <3> DEFINE s == Digits[-a]
               t == Digits[-b]
    <3>1. s \in Seq(Nat) /\ t \in Seq(Nat)
      BY <2>2, DigitsTyped
    <3>2. Len(s) = Len(t) /\ Len(s) \in Nat /\ Len(t) \in Nat
      <4>1. Len(ZText(a)) = Len(s) + 1 /\ Len(s) \in Nat
        BY <1>1, <2>2
      <4>2. Len(ZText(b)) = Len(t) + 1 /\ Len(t) \in Nat
        BY <1>1, <2>2
      <4> HIDE DEF s, t
      <4>3. Len(s) + 1 = Len(t) + 1
        BY <1>5, <4>1, <4>2
      <4> QED  BY <4>1, <4>2, <4>3
    <3>3. \A i \in 1 .. Len(s) : ZText(a)[i + 1] = s[i]
      BY <1>1, <2>2
    <3>4. \A i \in 1 .. Len(t) : ZText(b)[i + 1] = t[i]
      BY <1>1, <2>2
    <3> HIDE DEF s, t
    <3>5. \A i \in 1 .. Len(s) : s[i] = t[i]
      BY <1>5, <3>2, <3>3, <3>4
    <3>6. s = [i \in 1 .. Len(s) |-> s[i]] /\ t = [i \in 1 .. Len(t) |-> t[i]]
      BY <3>1
    <3>7. s = t
      BY <3>2, <3>5, <3>6
    <3>8. -a \in Nat /\ -b \in Nat
      BY <2>2
    <3>9. -a = -b
      BY <3>7, <3>8, DigitsDiffer DEF s, t
    <3> QED  BY <3>9
  <2>3. CASE a < 0 /\ b >= 0
    <3>1. ZText(a)[1] = -1 /\ ZText(b)[1] \in Nat
      BY <1>1, <1>2, <2>3
    <3> QED  BY <1>5, <3>1
  <2>4. CASE a >= 0 /\ b < 0
    <3>1. ZText(b)[1] = -1 /\ ZText(a)[1] \in Nat
      BY <1>1, <1>2, <2>4
    <3> QED  BY <1>5, <3>1
  <2> QED  BY <2>1, <2>2, <2>3, <2>4
<1> QED  BY <1>4, <1>5

\* The order of the z strings is strict, and has any two of them.
LEMMA ZStrict ==
    ASSUME NEW a \in Int, NEW b \in Int, NEW c \in Int
    PROVE  /\ ~(ZStringLess(a, b) /\ ZStringLess(b, a))
           /\ ZStringLess(a, b) /\ ZStringLess(b, c) => ZStringLess(a, c)
           /\ a # b => ZStringLess(a, b) \/ ZStringLess(b, a)
PROOF
<1> DEFINE E(x, y) == Earlier(ZText(x), Len(ZText(x)), ZText(y), Len(ZText(y)))
<1>1. ASSUME NEW x \in Int, NEW y \in Int
      PROVE  /\ ZStringLess(x, y) <=> E(x, y)
             /\ x # y => E(x, y) \/ E(y, x)
  <2> DEFINE s == ZText(x)
             t == ZText(y)
             D == {i \in 1 .. Min({Len(s), Len(t)}) : s[i] # t[i]}
  <2>1. ZStringLess(x, y) = IF D = {} THEN Len(s) < Len(t) ELSE s[Min(D)] < t[Min(D)]
    BY Zenon DEF ZStringLess, ZText
  <2>2. IsSeq(s) /\ IsSeq(t) /\ Row(s, Len(s)) /\ Row(t, Len(t)) /\ (s = t => x = y)
    BY ZTexts
  <2>3. D = {i \in 1 .. Min({Len(s), Len(t)}) : s[i] # t[i]}
    OBVIOUS
  <2> HIDE DEF s, t, D
  <2>4. /\ (IF D = {} THEN Len(s) < Len(t) ELSE s[Min(D)] < t[Min(D)]) <=> Earlier(s, Len(s), t, Len(t))
        /\ \/ Earlier(s, Len(s), t, Len(t)) \/ Earlier(t, Len(t), s, Len(s))
           \/ (Len(s) = Len(t) /\ \A i \in 1 .. Len(s) : s[i] = t[i])
    <3> DEFINE n == Len(s)
               m == Len(t)
    <3>1. Row(s, n) /\ Row(t, m) /\ D = {i \in 1 .. Min({n, m}) : s[i] # t[i]}
      BY <2>2, <2>3
    <3> HIDE DEF n, m
    <3>2. /\ (IF D = {} THEN n < m ELSE s[Min(D)] < t[Min(D)]) <=> Earlier(s, n, t, m)
          /\ Earlier(s, n, t, m) \/ Earlier(t, m, s, n) \/ (n = m /\ \A i \in 1 .. n : s[i] = t[i])
      BY ONLY <3>1, EarlierIs
    <3> QED  BY ONLY <3>2 DEF n, m
  <2>5. Len(s) = Len(t) /\ (\A i \in 1 .. Len(s) : s[i] = t[i]) => s = t
    <3>1. PICK S : s \in Seq(S)
      BY <2>2 DEF IsSeq
    <3>2. PICK T : t \in Seq(T)
      BY <2>2 DEF IsSeq
    <3>3. s = [i \in 1 .. Len(s) |-> s[i]]
      BY <3>1
    <3>4. t = [i \in 1 .. Len(t) |-> t[i]]
      BY <3>2
    <3> QED  BY <3>3, <3>4
  <2>6. ZStringLess(x, y) <=> Earlier(s, Len(s), t, Len(t))
    BY <2>1, <2>4
  <2>7. x # y => Earlier(s, Len(s), t, Len(t)) \/ Earlier(t, Len(t), s, Len(s))
    BY <2>2, <2>4, <2>5
  <2> QED  BY <2>6, <2>7 DEF s, t
<1>2. ASSUME NEW x \in Int, NEW y \in Int, NEW z \in Int
      PROVE  ~(E(x, y) /\ E(y, x)) /\ (E(x, y) /\ E(y, z) => E(x, z))
  <2>1. Row(ZText(x), Len(ZText(x))) /\ Row(ZText(y), Len(ZText(y))) /\ Row(ZText(z), Len(ZText(z)))
    BY ZTexts
  <2> QED  BY <2>1, EarlierStrict
<1> HIDE DEF E
<1> QED  BY <1>1, <1>2

\* Of finitely many in a strict order, one is after all the others.
LEMMA OneIsLast ==
    ASSUME NEW S, IsFiniteSet(S), S # {}, NEW B, Strictly(S, B)
    PROVE  \E x \in S : \A y \in S \ {x} : <<y, x>> \in B
PROOF
<1> DEFINE under(x) == {y \in S \ {x} : <<y, x>> \in B}
           rank == [x \in S |-> Cardinality(under(x))]
           n == Cardinality(S)
<1>1. ASSUME NEW x \in S
      PROVE  Below(S, B, x, rank[x])
  <2>1. under(x) \in SUBSET S /\ rank[x] = Cardinality(under(x))
    OBVIOUS
  <2>2. \A y \in S : y \in under(x) <=> y # x /\ <<y, x>> \in B
    OBVIOUS
  <2> HIDE DEF under, rank
  <2> QED  BY <2>1, <2>2 DEF Below
<1>2. \A x \in S : rank[x] = Cardinality(under(x)) /\ under(x) \in SUBSET (S \ {x})
  OBVIOUS
<1>3. \A x \in S : \A y \in under(x) : <<y, x>> \in B
  OBVIOUS
<1> HIDE DEF rank, under
<1>4. \A i \in 1 .. Cardinality(S) : \E x \in S : rank[x] = i - 1
  BY <1>1, Counted
<1>5. n \in Nat /\ n # 0
  BY FS_CardinalityType, FS_EmptySet
<1> HIDE DEF n
<1>6. PICK x \in S : rank[x] = n - 1
  <2>1. n \in 1 .. n
    BY <1>5
  <2> QED  BY <1>4, <2>1 DEF n
<1>7. IsFiniteSet(S \ {x}) /\ Cardinality(S \ {x}) = n - 1
  BY FS_RemoveElement DEF n
<1>8. under(x) \in SUBSET (S \ {x}) /\ Cardinality(under(x)) = Cardinality(S \ {x})
  BY <1>2, <1>6, <1>7
<1>9. under(x) = S \ {x}
  BY ONLY <1>7, <1>8, FS_Subset
<1> QED  BY <1>3, <1>9

\* What is drawn over what is a strict order of the objects.
LEMMA DrawnStrictly ==
    ASSUME CanvasInv, NEW S \in SUBSET DOMAIN objects, NEW B,
           \A x, y \in S : <<x, y>> \in B <=> RenderOrder(objects, x, y)
    PROVE  Strictly(S, B)
PROOF
<1> DEFINE r == [x \in S |-> Rank(objects[x].type)]
           z == [x \in S |-> objects[x].z]
<1>1. \A x \in S : x \in Int /\ z[x] \in Int
  BY BoardHere, FieldsOf
<1>2. \A x \in S : r[x] \in Int
  BY DEF Rank
<1>3. \A x, y \in S : <<x, y>> \in B <=>
         \/ r[x] < r[y]
         \/ r[x] = r[y] /\ IF z[x] = z[y] THEN x < y ELSE ZStringLess(z[x], z[y])
  BY DEF RenderOrder
<1> HIDE DEF r, z
<1>4. ASSUME NEW x \in S, NEW y \in S, x # y
      PROVE  (<<x, y>> \in B \/ <<y, x>> \in B) /\ ~(<<x, y>> \in B /\ <<y, x>> \in B)
  <2>1. x \in Int /\ y \in Int /\ z[x] \in Int /\ z[y] \in Int /\ r[x] \in Int /\ r[y] \in Int
    BY <1>1, <1>2
  <2>2. /\ ~(ZStringLess(z[x], z[y]) /\ ZStringLess(z[y], z[x]))
        /\ z[x] # z[y] => ZStringLess(z[x], z[y]) \/ ZStringLess(z[y], z[x])
    BY <2>1, ZStrict
  <2> QED  BY <1>3, <1>4, <2>1, <2>2
<1>5. ASSUME NEW x \in S, NEW y \in S, NEW w \in S, <<x, y>> \in B, <<y, w>> \in B
      PROVE  <<x, w>> \in B
  <2>1. /\ x \in Int /\ y \in Int /\ w \in Int /\ z[x] \in Int /\ z[y] \in Int /\ z[w] \in Int
        /\ r[x] \in Int /\ r[y] \in Int /\ r[w] \in Int
    BY <1>1, <1>2
  <2>2. /\ ZStringLess(z[x], z[y]) /\ ZStringLess(z[y], z[w]) => ZStringLess(z[x], z[w])
        /\ ~(ZStringLess(z[x], z[y]) /\ ZStringLess(z[y], z[x]))
    BY <2>1, ZStrict
  <2>3. CASE r[x] < r[w]
    BY <1>3, <2>3
  <2>4. CASE r[x] = r[y] /\ r[y] = r[w]
    BY <1>3, <1>5, <2>1, <2>2, <2>4
  <2>5. r[x] < r[w] \/ (r[x] = r[y] /\ r[y] = r[w])
    BY <1>3, <1>5, <2>1
  <2> QED  BY <2>3, <2>4, <2>5
<1> QED  BY <1>4, <1>5 DEF Strictly

\* One of the shapes under the pointer is on top.
LEMMA OneOnTop ==
    ASSUME CanvasInv, NEW p
    PROVE  HitTop(objects, p) \in DOMAIN objects \cup {NoParent}
PROOF
<1> DEFINE hits == {x \in Unconnected(objects, DOMAIN objects) : ContainsPoint(objects[x], p)}
           B == {w \in hits \X hits : RenderOrder(objects, w[1], w[2])}
<1>1. HitTop(objects, p) = IF hits = {} THEN NoParent
                           ELSE CHOOSE x \in hits : \A y \in hits \ {x} : RenderOrder(objects, y, x)
  BY Zenon DEF HitTop
<1>2. hits \in SUBSET DOMAIN objects
  BY DEF Unconnected
<1>3. IsFiniteSet(hits)
  BY <1>2, BoardHere, FS_Subset
<1> HIDE DEF hits
<1>4. \A x, y \in hits : <<x, y>> \in B <=> RenderOrder(objects, x, y)
  OBVIOUS
<1> HIDE DEF B
<1>5. Strictly(hits, B)
  BY <1>2, <1>4, DrawnStrictly
<1>6. ASSUME hits # {}
      PROVE  \E x \in hits : \A y \in hits \ {x} : RenderOrder(objects, y, x)
  <2>1. PICK x \in hits : \A y \in hits \ {x} : <<y, x>> \in B
    BY ONLY <1>3, <1>5, <1>6, OneIsLast
  <2>2. \A y \in hits \ {x} : RenderOrder(objects, y, x)
    BY <1>4, <2>1
  <2> QED  BY <2>2
<1>7. CASE hits = {}
  BY <1>1, <1>7
<1>8. CASE hits # {}
  <2>1. HitTop(objects, p) \in hits
    BY ONLY <1>1, <1>6, <1>8, Zenon
  <2> QED  BY <1>2, <2>1
<1> QED  BY <1>7, <1>8

\* A board whose tree is sound can be drawn.
LEMMA SoundIsDrawable == CanvasInv /\ TreeSound => Drawable
PROOF
<1> SUFFICES ASSUME CanvasInv, TreeSound
             PROVE  Drawable
  OBVIOUS
<1>1. ASSUME NEW x \in DOMAIN objects
      PROVE  Measured(objects[x])
  <2>1. /\ objects[x].x \in Int /\ objects[x].y \in Int /\ objects[x].w \in Int /\ objects[x].h \in Int
        /\ objects[x].points \in Seq(Points)
    BY BoardHere, FieldsOf
  <2> QED  BY <2>1 DEF Measured
<1>2. ASSUME NEW id \in Connectors
      PROVE  /\ {objects[id].fromId, objects[id].toId} \subseteq DOMAIN objects
             /\ {objects[id].fromSide, objects[id].toSide} \subseteq ToSet(Sides)
             /\ {objects[id].fromOffset, objects[id].toOffset} \subseteq Int
             /\ objects[id].points \in Seq(Points)
  <2>1. id \in DOMAIN objects /\ objects[id].type = "connector"
    BY DEF Connectors
  <2>2. {objects[id].fromId, objects[id].toId} \subseteq Unconnected(objects, DOMAIN objects)
    BY <2>1 DEF TreeSound
  <2>3. {objects[id].fromId, objects[id].toId} \subseteq DOMAIN objects
    BY <2>2 DEF Unconnected
  <2>4. /\ objects[id].fromSide \in ToSet(Sides) /\ objects[id].toSide \in ToSet(Sides)
        /\ objects[id].fromOffset \in Int /\ objects[id].toOffset \in Int
        /\ objects[id].points \in Seq(Points)
    BY <2>1, BoardHere, FieldsOf
  <2> QED  BY <2>3, <2>4
<1>3. \A p \in Spots : p \in Points /\ HitTop(objects, p) \in DOMAIN objects \cup {NoParent}
  BY OneOnTop, ScriptsAssumption DEF CanvasInv, Spots
<1> QED  BY <1>1, <1>2, <1>3 DEF Drawable

\* However the shapes were moved and the line was edited, a connector is drawn
\* from the port it leaves to the port it arrives at, and a rubber band follows
\* the pointer, while both shapes of every connector exist.
THEOREM LinesMeetPorts == BoardSpec => [](TreeSound => RouteAttached)
PROOF
<1>1. CanvasInv => (TreeSound => RouteAttached)
  BY SoundIsDrawable, LinesMeet
<1> QED
  BY <1>1, BoardTyped, PTL

-----------------------------------------------------------------------------
\* What is in what

\* One turn of the walk up.
UpTurn(objs, up) == up \cup ({ParentIn(objs, a) : a \in up} \ {NoParent})

Rising(g, objs, x, s) ==
    g = [S \in SUBSET (DOMAIN s) |->
           IF S = {} THEN {ParentIn(objs, x)} \ {NoParent} ELSE UpTurn(objs, g[S \ {Max(S)}])]

\* What is found after each turn of the walk from x.
Walked(b, objs, x) ==
    /\ b[0] = {ParentIn(objs, x)} \ {NoParent}
    /\ \A k \in 1 .. Cardinality(DOMAIN objs) : b[k] = UpTurn(objs, b[k - 1])
    /\ Ancestors(objs, x) = b[Cardinality(DOMAIN objs)]

\* The walk takes as many turns as there are objects.
LEMMA WalkExists ==
    ASSUME NEW objs, IsFiniteSet(DOMAIN objs), NEW x
    PROVE  \E b : Walked(b, objs, x)
PROOF
<1> DEFINE n == Cardinality(DOMAIN objs)
           s == [i \in 1 .. n |-> i]
           W == {ParentIn(objs, a) : a \in DOMAIN objs} \cup {NoParent}
           V == SUBSET W
           F == [q \in V \X (1 .. n) |-> UpTurn(objs, q[1])]
           base == {ParentIn(objs, x)} \ {NoParent}
           G == CHOOSE g : Rising(g, objs, x, s)
<1>1. Ancestors(objs, x) = G[DOMAIN s]
  BY Zenon DEF Ancestors, FoldLeft, MapThenFoldSet, Rising, UpTurn
<1>2. n \in Nat
  BY FS_CardinalityType
<1>3. DOMAIN s = 1 .. n /\ \A i \in 1 .. n : s[i] \in 1 .. n
  OBVIOUS
<1>r. \A g : Rising(g, objs, x, s) <=>
         g = [S \in SUBSET (DOMAIN s) |-> IF S = {} THEN base ELSE UpTurn(objs, g[S \ {Max(S)}])]
  BY Zenon DEF Rising
<1> HIDE DEF n, s
<1>4. (\A v \in V : UpTurn(objs, v) \in V) /\ base \in V
  <2>1. \A a : ParentIn(objs, a) \in W
    BY DEF ParentIn
  <2> HIDE DEF W
  <2> QED  BY <2>1 DEF UpTurn
<1> HIDE DEF V, base
<1>5. F \in [V \X (1 .. n) -> V] /\ \A v \in V : \A i \in 1 .. n : F[<<v, i>>] = UpTurn(objs, v)
  BY <1>4
<1> HIDE DEF F
<1>7. PICK g : Recursion(g, n, F, base, s)
  BY <1>2, RecursionExists
<1>8. \A S \in SUBSET (1 .. n) : g[S] \in V
  BY <1>2, <1>3, <1>4, <1>5, <1>7, RecursionTyped
<1>9. ASSUME NEW S \in SUBSET (1 .. n), S # {}
      PROVE  F[<<g[S \ {Max(S)}], s[Max(S)]>>] = UpTurn(objs, g[S \ {Max(S)}])
  <2>1. s[Max(S)] \in 1 .. n
    BY <1>2, <1>3, <1>9, MaxInside
  <2>2. g[S \ {Max(S)}] \in V
    BY <1>8
  <2> QED  BY <1>5, <2>1, <2>2
<1>10. \A S \in SUBSET (1 .. n) :
          (IF S = {} THEN base ELSE F[<<g[S \ {Max(S)}], s[Max(S)]>>])
             = IF S = {} THEN base ELSE UpTurn(objs, g[S \ {Max(S)}])
  BY <1>9
<1>11. g = [S \in SUBSET (1 .. n) |-> IF S = {} THEN base ELSE UpTurn(objs, g[S \ {Max(S)}])]
  BY <1>7, <1>10, Zenon DEF Recursion
<1>12. Rising(g, objs, x, s)
  BY <1>3, <1>11, <1>r, Zenon
<1>13. Rising(G, objs, x, s)
  BY <1>12
<1> HIDE DEF G
<1>14. \A S \in SUBSET (1 .. n) : G[S] = IF S = {} THEN base ELSE UpTurn(objs, G[S \ {Max(S)}])
  <2>1. G = [S \in SUBSET (1 .. n) |-> IF S = {} THEN base ELSE UpTurn(objs, G[S \ {Max(S)}])]
    BY <1>3, <1>13, <1>r, Zenon
  <2> QED  BY <2>1, Zenon
<1> DEFINE b == [k \in 0 .. n |-> G[1 .. k]]
<1>15. b[0] = base
  <2>1. 1 .. 0 = {} /\ {} \in SUBSET (1 .. n) /\ 0 \in 0 .. n
    BY <1>2
  <2>2. G[{}] = base
    BY <1>14, <2>1
  <2> QED  BY <2>1, <2>2
<1>16. ASSUME NEW k \in 1 .. n
       PROVE  b[k] = UpTurn(objs, b[k - 1])
  <2> DEFINE m == k - 1
  <2>0. m \in Nat /\ k = m + 1 /\ k \in 0 .. n /\ m \in 0 .. n
    BY <1>2
  <2> HIDE DEF m
  <2>1. 1 .. m + 1 \in SUBSET (1 .. n) /\ 1 .. m + 1 # {}
    BY <1>2, <2>0
  <2>2. Max(1 .. m + 1) = m + 1
    BY <2>0, MaxOfTop
  <2>3. (1 .. m + 1) \ {m + 1} = 1 .. m
    BY <2>0
  <2>4. G[1 .. m + 1] = UpTurn(objs, G[1 .. m])
    BY <1>14, <2>1, <2>2, <2>3, Zenon
  <2>5. b[k] = G[1 .. m + 1] /\ b[m] = G[1 .. m]
    BY <2>0
  <2> QED  BY <2>4, <2>5 DEF m
<1>17. b[n] = G[1 .. n]
  BY <1>2
<1> HIDE DEF b
<1>18. Walked(b, objs, x)
  BY <1>1, <1>3, <1>15, <1>16, <1>17 DEF Walked, n, base
<1> QED  BY <1>18

\* With each that it found its parent is there.
Closed(objs, up) == \A a \in up : ParentIn(objs, a) \in up \cup {NoParent}

\* The parents of x, theirs, and so on are all found, and nothing else is.
LEMMA AncestorsAre ==
    ASSUME NEW objs, IsFiniteSet(DOMAIN objs), NEW x
    PROVE  /\ ParentIn(objs, x) \in Ancestors(objs, x) \cup {NoParent}
           /\ Closed(objs, Ancestors(objs, x))
           /\ \A U : Closed(objs, U) /\ ParentIn(objs, x) \in U \cup {NoParent} => Ancestors(objs, x) \subseteq U
PROOF
<1> DEFINE n == Cardinality(DOMAIN objs)
           D == DOMAIN objs
<1>0. PICK b : Walked(b, objs, x)
  BY WalkExists
<1>1. /\ b[0] = {ParentIn(objs, x)} \ {NoParent}
      /\ \A k \in 1 .. n : b[k] = UpTurn(objs, b[k - 1])
      /\ Ancestors(objs, x) = b[n]
  BY <1>0 DEF Walked
<1>2. n \in Nat
  BY FS_CardinalityType
<1>3. \A a : a \notin D => ParentIn(objs, a) = NoParent
  BY DEF ParentIn
<1>4. NoParent \notin b[0]
  BY <1>1
<1> DEFINE Enough(k) == Closed(objs, b[k]) \/ Cardinality(b[k] \cap D) >= k + 1
           T == {k \in Nat : k <= n => Enough(k) /\ b[0] \subseteq b[k]}
<1>5. 0 \in T
  <2>1. CASE ParentIn(objs, x) \in D /\ ParentIn(objs, x) # NoParent
    <3>1. b[0] \cap D = {ParentIn(objs, x)}
      BY <1>1, <2>1
    <3>2. Cardinality({ParentIn(objs, x)}) = 1
      BY FS_Singleton
    <3>3. Cardinality(b[0] \cap D) >= 0 + 1
      BY <3>1, <3>2
    <3> QED  BY <3>3
  <2>2. CASE ~(ParentIn(objs, x) \in D /\ ParentIn(objs, x) # NoParent)
    <3>1. \A a \in b[0] : ParentIn(objs, a) = NoParent
      BY <1>1, <1>3, <2>2
    <3> QED  BY <3>1 DEF Closed
  <2> QED  BY <2>1, <2>2
<1> HIDE DEF n, D
<1>6. ASSUME NEW k \in Nat, k \in T
      PROVE  k + 1 \in T
  <2> SUFFICES ASSUME k + 1 <= n
               PROVE  Enough(k + 1) /\ b[0] \subseteq b[k + 1]
    OBVIOUS
  <2>1. Enough(k) /\ b[0] \subseteq b[k]
    BY <1>2, <1>6
  <2>2. b[k + 1] = UpTurn(objs, b[k])
    <3>1. k + 1 \in 1 .. n /\ (k + 1) - 1 = k
      BY <1>2
    <3> QED  BY <1>1, <3>1
  <2> DEFINE u == b[k]
             v == b[k + 1]
  <2>3. v = u \cup ({ParentIn(objs, a) : a \in u} \ {NoParent})
    BY <2>2 DEF UpTurn
  <2> HIDE DEF u, v
  <2>4. CASE Closed(objs, u)
    <3>1. v = u
      BY <2>3, <2>4 DEF Closed
    <3>2. Closed(objs, v)
      BY <2>4, <3>1
    <3> QED  BY <2>1, <3>1, <3>2 DEF u, v
  <2>5. CASE ~Closed(objs, u) /\ v \cap D = u \cap D
    <3>1. ASSUME NEW a \in v
          PROVE  ParentIn(objs, a) \in v \cup {NoParent}
      <4>1. CASE a \in u
        BY <2>3, <4>1
      <4>2. CASE a \notin u
        <5>1. a \notin D
          BY <2>5, <4>2
        <5> QED  BY <1>3, <5>1
      <4> QED  BY <4>1, <4>2
    <3>2. Closed(objs, v)
      BY <3>1 DEF Closed
    <3> QED  BY <2>1, <2>3, <3>2 DEF u, v
  <2>6. CASE ~Closed(objs, u) /\ v \cap D # u \cap D
    <3>1. u \cap D \in SUBSET (v \cap D)
      BY <2>3
    <3>2. IsFiniteSet(v \cap D)
      <4>1. v \cap D \in SUBSET D /\ IsFiniteSet(D)
        BY DEF D
      <4> QED  BY ONLY <4>1, FS_Subset
    <3>3. /\ IsFiniteSet(u \cap D) /\ Cardinality(u \cap D) <= Cardinality(v \cap D)
          /\ Cardinality(v \cap D) = Cardinality(u \cap D) => v \cap D = u \cap D
      BY ONLY <3>1, <3>2, FS_Subset
    <3>4. Cardinality(u \cap D) \in Nat /\ Cardinality(v \cap D) \in Nat
      BY <3>2, <3>3, FS_CardinalityType
    <3>5. Cardinality(u \cap D) >= k + 1
      BY <2>1, <2>6 DEF u
    <3>6. Cardinality(v \cap D) >= (k + 1) + 1
      BY <2>6, <3>3, <3>4, <3>5
    <3> QED  BY <2>1, <2>3, <3>6 DEF u, v
  <2> QED  BY <2>4, <2>5, <2>6
<1> HIDE DEF T
<1>7. Nat \subseteq T
  BY <1>5, <1>6, SetInduction, Zenon
<1>8. Enough(n) /\ b[0] \subseteq b[n]
  BY <1>2, <1>7 DEF T
<1>9. Closed(objs, b[n])
  <2>1. b[n] \cap D \in SUBSET D /\ IsFiniteSet(D)
    BY DEF D
  <2>2. Cardinality(b[n] \cap D) <= Cardinality(D) /\ IsFiniteSet(b[n] \cap D)
    BY ONLY <2>1, FS_Subset
  <2>3. Cardinality(b[n] \cap D) \in Nat /\ Cardinality(D) = n
    BY <2>2, FS_CardinalityType DEF n, D
  <2>4. ~(Cardinality(b[n] \cap D) >= n + 1)
    BY <1>2, <2>2, <2>3
  <2> QED  BY <1>8, <2>4
<1>10. ParentIn(objs, x) \in b[n] \cup {NoParent}
  BY <1>1, <1>8
<1>11. ASSUME NEW U, Closed(objs, U), ParentIn(objs, x) \in U \cup {NoParent}
       PROVE  b[n] \subseteq U
  <2> DEFINE R == {k \in Nat : k <= n => b[k] \subseteq U}
  <2>1. 0 \in R
    BY <1>1, <1>11
  <2>2. ASSUME NEW k \in Nat, k \in R
        PROVE  k + 1 \in R
    <3> SUFFICES ASSUME k + 1 <= n
                 PROVE  b[k + 1] \subseteq U
      OBVIOUS
    <3>1. b[k] \subseteq U
      BY <1>2, <2>2
    <3>2. b[k + 1] = UpTurn(objs, b[k])
      <4>1. k + 1 \in 1 .. n /\ (k + 1) - 1 = k
        BY <1>2
      <4> QED  BY <1>1, <4>1
    <3> QED  BY <1>11, <3>1, <3>2 DEF UpTurn, Closed
  <2> HIDE DEF R
  <2>3. Nat \subseteq R
    BY <2>1, <2>2, SetInduction, Zenon
  <2> QED  BY <1>2, <2>3 DEF R
<1> QED  BY <1>1, <1>9, <1>10, <1>11

\* What is in something is in what that is in.
LEMMA InsideInside ==
    ASSUME NEW objs, IsFiniteSet(DOMAIN objs), NEW a, NEW c \in Descendants(objs, a)
    PROVE  Descendants(objs, c) \subseteq Descendants(objs, a)
PROOF
<1>1. SUFFICES ASSUME NEW d \in Descendants(objs, c)
               PROVE  d \in Descendants(objs, a)
  OBVIOUS
<1>2. d \in DOMAIN objs /\ c \in Ancestors(objs, d) /\ a \in Ancestors(objs, c)
  BY <1>1 DEF Descendants, IsAncestor
<1>3. Closed(objs, Ancestors(objs, d))
  BY AncestorsAre
<1>4. ParentIn(objs, c) \in Ancestors(objs, d) \cup {NoParent}
  BY <1>2, <1>3 DEF Closed
<1> DEFINE U == Ancestors(objs, d)
<1> HIDE DEF U
<1>5. Closed(objs, U) /\ ParentIn(objs, c) \in U \cup {NoParent}
  BY <1>3, <1>4 DEF U
<1>6. Ancestors(objs, c) \subseteq U
  BY <1>5, AncestorsAre
<1> QED  BY <1>2, <1>6 DEF U, Descendants, IsAncestor

-----------------------------------------------------------------------------
\* What a drag does

\* The objects when all of it is written.
DraggedBoard(ids, dx, dy) == [y \in DOMAIN objects |-> [f \in Fields |-> WhenMoved(ids, dx, dy, y, f)]]

\* A drag writes nothing else, and the last value it writes is the only one.
LEMMA MoveEnds ==
    ASSUME HistoryInv, CanvasInv, NEW x \in DOMAIN objects, NEW p \in Points, Move(x, p)
    PROVE  \E dx, dy \in Int : objects' = DraggedBoard(Moving(objects, selected, x), dx, dy)
PROOF
<1> DEFINE ids == Moving(objects, selected, x)
           patches == MovePatches(objects, selected, snap, x, p)
           ops == Updates(patches)
<1>1. Edit("move", <<ops>>, selected)
  BY DEF Move, ApplyPatches
<1>2. objects' = ApplyOps(objects, OpsOf(objects, <<ops>>))
  BY <1>1, Zenon DEF Edit, Do, OpsOf, Told
<1>3. /\ ids \subseteq DOMAIN objects
      /\ IsSeq(patches)
      /\ \E dx, dy \in Int :
            \A e : e \in ToSet(patches) <=> \E r \in Shifted(ids, dx, dy) :
                      e = Patch(r[1], r[2], WhenMoved(ids, dx, dy, r[1], r[2]))
  BY MoveHolds
<1>4. PICK dx \in Int, dy \in Int :
         \A e : e \in ToSet(patches) <=> \E r \in Shifted(ids, dx, dy) :
                      e = Patch(r[1], r[2], WhenMoved(ids, dx, dy, r[1], r[2]))
  BY <1>3
<1>o. /\ objects = [y \in DOMAIN objects |-> objects[y]]
      /\ \A y \in DOMAIN objects : objects[y] = [f \in Fields |-> objects[y][f]]
  BY DEF CanvasInv, IsBoard, IsObject
<1> HIDE DEF ids, patches
<1>5. ops = [i \in DOMAIN patches |-> ops[i]]
  BY DEF Updates
<1>6. \A i \in DOMAIN patches : ops[i] = Update(patches[i].id, patches[i].path, patches[i].value)
  BY DEF Updates
<1> HIDE DEF ops
<1>7. IsSeq(ops) /\ DOMAIN ops = DOMAIN patches
  BY ONLY <1>3, <1>5, MappedIsSeq
<1> DEFINE goal == DraggedBoard(ids, dx, dy)
           wrote(r) == Update(r[1], r[2], WhenMoved(ids, dx, dy, r[1], r[2]))
<1>8. \A e : e \in ToSet(ops) <=> \E r \in Shifted(ids, dx, dy) : e = wrote(r)
  <2> DEFINE patch(r) == Patch(r[1], r[2], WhenMoved(ids, dx, dy, r[1], r[2]))
             S == Shifted(ids, dx, dy)
  <2>1. \A r : Update(patch(r).id, patch(r).path, patch(r).value) = wrote(r)
    BY DEF Patch
  <2>2. \A e : e \in ToSet(patches) <=> \E r \in S : e = patch(r)
    BY <1>4
  <2> HIDE DEF S, patch, wrote
  <2>3. ASSUME NEW i \in DOMAIN ops
        PROVE  \E r \in S : ops[i] = wrote(r)
    <3>1. patches[i] \in ToSet(patches)
      BY <1>7 DEF ToSet
    <3> QED  BY <1>6, <1>7, <2>1, <2>2, <3>1
  <2>4. ASSUME NEW r \in S
        PROVE  \E i \in DOMAIN ops : ops[i] = wrote(r)
    <3>1. PICK i \in DOMAIN patches : patches[i] = patch(r)
      <4>1. patch(r) \in ToSet(patches)
        BY <2>2
      <4> QED  BY <4>1 DEF ToSet
    <3> QED  BY <1>6, <1>7, <2>1, <3>1
  <2> QED  BY <2>3, <2>4 DEF ToSet, S
<1>9. OpsOf(objects, <<ops>>) = OpsOf(objects, <<ops>>) /\ Batched(<<ops>>)
  BY <1>7, TupleIsSeq DEF Batched
<1> DEFINE all == OpsOf(objects, <<ops>>)
<1>10. /\ IsSeq(all)
       /\ \A op : op \in ToSet(all) <=> op \in ToSet(ops) /\ (op.type = "delete" => op.id \in DOMAIN objects)
  <2> DEFINE batches == <<ops>>
             steps == Made(objects, batches)
  <2>1. \A op : (\E i \in DOMAIN batches : op \in ToSet(batches[i])) <=> op \in ToSet(ops)
    OBVIOUS
  <2>2. Batched(batches) /\ all = OpsOf(objects, batches) /\ steps = Made(objects, batches)
    BY <1>9
  <2> HIDE DEF batches, all, steps
  <2>3. /\ IsSeq(all)
        /\ \A op : op \in ToSet(all) <=>
              /\ \E i \in DOMAIN batches : op \in ToSet(batches[i])
              /\ op.type = "delete" => op.id \in DOMAIN objects
    BY ONLY <2>2, CommandHolds
  <2> QED  BY <2>1, <2>3
<1>11. \A op : op \in ToSet(all) <=> \E r \in Shifted(ids, dx, dy) : op = wrote(r)
  <2>1. \A r : wrote(r).type = "update"
    BY DEF Update
  <2> HIDE DEF wrote
  <2>2. \A op \in ToSet(ops) : op.type = "update"
    BY <1>8, <2>1
  <2> QED  BY <1>8, <1>10, <2>2
<1>g. /\ DOMAIN goal = DOMAIN objects
      /\ goal = [y \in DOMAIN goal |-> goal[y]]
      /\ \A y \in DOMAIN objects : goal[y] = [f \in Fields |-> goal[y][f]]
      /\ \A y \in DOMAIN objects : \A f \in Fields : goal[y][f] = WhenMoved(ids, dx, dy, y, f)
  BY DEF DraggedBoard
<1>s. \A r \in Shifted(ids, dx, dy) : r[1] \in DOMAIN objects /\ r[2] \in Fields
  BY <1>3, FieldsAre DEF Shifted
<1> HIDE DEF goal, all
<1>12. Without(goal, {})
  BY <1>g DEF Without
<1>13. \A op \in ToSet(all) : Backward(goal, {}, op)
  BY <1>11, <1>g, <1>s DEF Backward
<1>14. ASSUME NEW y \in DOMAIN objects, NEW f \in Fields
       PROVE  objects[y][f] = goal[y][f] \/ Update(y, f, goal[y][f]) \in ToSet(all)
  <2>1. goal[y][f] = WhenMoved(ids, dx, dy, y, f)
    BY <1>g
  <2>2. CASE <<y, f>> \in Shifted(ids, dx, dy)
    BY <1>11, <2>1, <2>2
  <2>3. CASE <<y, f>> \notin Shifted(ids, dx, dy)
    <3>1. y \in ids => f \notin {"x", "y"} /\ (f = "parentId" => ~Reparented(ids, dx, dy, y))
      BY <2>3 DEF Shifted
    <3>2. WhenMoved(ids, dx, dy, y, f) = objects[y][f]
      BY <3>1 DEF WhenMoved
    <3> QED  BY <2>1, <3>2
  <2> QED  BY <2>2, <2>3
<1>15. Toward(goal, {}, objects, {} \cup ToSet(all))
  BY <1>o, <1>g, <1>14 DEF Toward
<1>16. Toward(goal, {}, ApplyOps(objects, all), {})
  <2> DEFINE C == {}
             S == {}
  <2>1. Without(goal, C) /\ IsSeq(all) /\ \A op \in ToSet(all) : Backward(goal, C, op)
    BY <1>10, <1>12, <1>13
  <2>2. Toward(goal, C, objects, S \cup ToSet(all))
    BY <1>15
  <2> HIDE DEF C, S
  <2>3. Toward(goal, C, ApplyOps(objects, all), S)
    BY ONLY <2>1, <2>2, ManyBack
  <2> QED  BY <2>3 DEF C, S
<1>17. ApplyOps(objects, all) = goal
  BY <1>12, <1>16, Arrived
<1> QED  BY <1>2, <1>17 DEF all, goal, ids

\* What is said of a drag.
Rigid ==
    LET by(x) == Pt(objects'[x].x - objects[x].x, objects'[x].y - objects[x].y)
        moved == {x \in DOMAIN objects : by(x) # Pt(0, 0)}
        centre(x) == Pt(objects'[x].x + objects'[x].w \div 2, objects'[x].y + objects'[x].h \div 2) IN
    /\ \A x, y \in moved : by(x) = by(y)
    /\ \A x \in moved : Unconnected(objects, Descendants(objects, x)) \subseteq moved
    /\ \A x \in DOMAIN objects :
          objects'[x].parentId \notin {objects[x].parentId, NoParent} =>
              ContainsPoint(objects'[objects'[x].parentId], centre(x))

\* With what moves everything moves that is in it, but for connectors.
LEMMA MovesWhole ==
    ASSUME NEW objs, IsFiniteSet(DOMAIN objs), NEW s, NEW x \in MoveSet(objs, s)
    PROVE  Unconnected(objs, Descendants(objs, x)) \subseteq MoveSet(objs, s)
PROOF
<1> DEFINE roots == Unconnected(objs, s)
           under == UNION {Descendants(objs, r) : r \in roots}
<1>1. MoveSet(objs, s) = roots \cup Unconnected(objs, under)
  BY DEF MoveSet
<1>2. Descendants(objs, x) \subseteq under
  <2>1. CASE x \in roots
    BY <2>1
  <2>2. CASE x \notin roots
    <3>1. PICK r \in roots : x \in Descendants(objs, r)
      BY <1>1, <2>2 DEF Unconnected
    <3>2. Descendants(objs, x) \subseteq Descendants(objs, r)
      BY <3>1, InsideInside
    <3> QED  BY <3>2
  <2> QED  BY <2>1, <2>2
<1> QED  BY <1>1, <1>2 DEF Unconnected

\* A drag is rigid.
LEMMA MoveRigid ==
    ASSUME HistoryInv, CanvasInv, NEW x \in DOMAIN objects, NEW p \in Points, Move(x, p)
    PROVE  Rigid
PROOF
<1> DEFINE ids == Moving(objects, selected, x)
           by(y) == Pt(objects'[y].x - objects[y].x, objects'[y].y - objects[y].y)
           moved == {y \in DOMAIN objects : by(y) # Pt(0, 0)}
           centre(y) == Pt(objects'[y].x + objects'[y].w \div 2, objects'[y].y + objects'[y].h \div 2)
<1>1. PICK dx \in Int, dy \in Int : objects' = DraggedBoard(ids, dx, dy)
  BY MoveEnds
<1>2. IsFiniteSet(DOMAIN objects) /\ \A y \in DOMAIN objects : IsObject(objects[y], Limit)
  BY BoardHere
<1>b. IsBoard(objects, Limit) /\ Limit \in Nat \ {0}
  BY NewIdsAre DEF CanvasInv
<1>3. /\ ids \subseteq DOMAIN objects
      /\ \A y \in ids : Unconnected(objects, Descendants(objects, y)) \subseteq ids
  <2> DEFINE s == IF x \in ToSet(selected) /\ Len(selected) > 1 THEN ToSet(selected) ELSE {GroupRoot(objects, x)}
  <2>1. ids = MoveSet(objects, s)
    BY DEF Moving
  <2> HIDE DEF ids, s
  <2>2. MoveSet(objects, s) \subseteq DOMAIN objects
    BY DEF MoveSet, Unconnected
  <2>3. \A y \in MoveSet(objects, s) : Unconnected(objects, Descendants(objects, y)) \subseteq MoveSet(objects, s)
    BY <1>2, MovesWhole
  <2> QED  BY <2>1, <2>2, <2>3
<1> HIDE DEF ids
<1>4. ASSUME NEW y \in DOMAIN objects
      PROVE  \A f \in Fields : objects'[y][f] = WhenMoved(ids, dx, dy, y, f)
  BY <1>1 DEF DraggedBoard
<1>5. ASSUME NEW y \in DOMAIN objects
      PROVE  /\ objects'[y].x = IF y \in ids THEN objects[y].x + dx ELSE objects[y].x
             /\ objects'[y].y = IF y \in ids THEN objects[y].y + dy ELSE objects[y].y
             /\ objects'[y].w = objects[y].w /\ objects'[y].h = objects[y].h
             /\ objects'[y].parentId = IF y \in ids /\ Reparented(ids, dx, dy, y)
                                       THEN NewParent(ids, dx, dy, y) ELSE objects[y].parentId
  BY <1>4, FieldsAre DEF WhenMoved
<1>6. ASSUME NEW y \in DOMAIN objects
      PROVE  objects[y].x \in Int /\ objects[y].y \in Int
  BY <1>2, FieldsOf
<1>7. \A y \in DOMAIN objects : by(y) = IF y \in ids THEN Pt(dx, dy) ELSE Pt(0, 0)
  BY <1>5, <1>6
<1> HIDE DEF by
<1>8. \A y, z \in moved : by(y) = by(z)
  BY <1>7
<1>9. \A y \in moved : Unconnected(objects, Descendants(objects, y)) \subseteq moved
  BY <1>3, <1>7
<1>10. ASSUME NEW y \in DOMAIN objects, objects'[y].parentId \notin {objects[y].parentId, NoParent}
       PROVE  ContainsPoint(objects'[objects'[y].parentId], centre(y))
  <2> DEFINE q == Pt(objects[y].x + dx + objects[y].w \div 2, objects[y].y + dy + objects[y].h \div 2)
             c == ContainerAt(objects, q, ids)
  <2>1. y \in ids /\ Reparented(ids, dx, dy, y) /\ objects'[y].parentId = NewParent(ids, dx, dy, y)
    BY <1>5, <1>10
  <2>2. objects'[y].parentId = c
    BY <2>1 DEF Reparented, NewParent, ParentAfterMove
  <2>3. centre(y) = q
    BY <1>5, <2>1
  <2> HIDE DEF q
  <2>4. c \in ContainersAt(objects, q, ids)
    <3>1. c \in ContainersAt(objects, q, ids) \cup {NoParent}
      BY <1>b, ContainerFound
    <3> QED  BY <1>10, <2>2, <3>1
  <2> HIDE DEF c
  <2>5. c \in DOMAIN objects \ ids /\ ContainsPoint(objects[c], q)
    BY <2>4 DEF ContainersAt
  <2>6. objects'[c] = objects[c]
    <3>1. \A f \in Fields : WhenMoved(ids, dx, dy, c, f) = objects[c][f]
      BY <2>5 DEF WhenMoved
    <3>2. objects'[c] = [f \in Fields |-> WhenMoved(ids, dx, dy, c, f)]
      BY <1>1, <2>5 DEF DraggedBoard
    <3>3. objects[c] = [f \in Fields |-> objects[c][f]]
      BY <1>2, <2>5 DEF IsObject
    <3> QED  BY <3>1, <3>2, <3>3
  <2> QED  BY <2>2, <2>3, <2>5, <2>6
<1> QED  BY <1>8, <1>9, <1>10 DEF Rigid, by

\* A step drags nothing unless its command is the drag.
StepRigid == last' = "move" /\ edits' # edits => Rigid

\* Of all steps, only a drag is called one.
LEMMA CanvasDrags == HistoryInv /\ CanvasInv /\ [BoardNext]_vars => StepRigid
PROOF
<1> SUFFICES ASSUME HistoryInv, CanvasInv, [BoardNext]_vars
             PROVE  StepRigid
  OBVIOUS
<1>1. \A p \in Spots : p \in Points
  BY ScriptsAssumption DEF CanvasInv, Spots
<1>2. ASSUME NEW x \in DOMAIN objects, NEW p \in Spots, Move(x, p)
      PROVE  StepRigid
  BY <1>1, <1>2, MoveRigid DEF StepRigid
<1>3. CopySelected => last' = "copy"
  BY Zenon DEF CopySelected, Command
<1>4. PasteClipboard => last' = "paste"
  BY Zenon DEF PasteClipboard, Command
<1>5. CopySelected \/ PasteClipboard \/ OtherCommand => StepRigid
  BY <1>3, <1>4 DEF OtherCommand, StepRigid
<1> QED  BY <1>2, <1>5, CommandNames

\* A drag moves what it moves by one vector, with everything that is in it, however
\* deep; and what it puts in another container has its centre there.
THEOREM DragMovesTogether == BoardSpec => DragIsRigid
PROOF
<1>1. BoardSpec => []HistoryInv
  BY StacksAreHistory, HistoryStarts, HistoryStays, PTL DEF UndoIsHistory, H!HistorySpec
<1>2. HistoryInv /\ CanvasInv /\ [BoardNext]_vars => [last' = "move" /\ edits' # edits => Rigid]_vars
  BY CanvasDrags DEF StepRigid
<1>3. DragIsRigid <=> [][last' = "move" /\ edits' # edits => Rigid]_vars
  BY DEF DragIsRigid, Rigid
<1> QED
  BY <1>1, <1>2, <1>3, BoardTyped, PTL DEF BoardSpec
-----------------------------------------------------------------------------
\* What a paste leaves

\* Every copy has an id of its own, above NoParent and Unset.
ClipDistinct ==
    /\ \A i \in DOMAIN clip : clip[i].id \in Int /\ clip[i].id > 0
    /\ \A i, j \in DOMAIN clip : clip[i].id = clip[j].id => i = j

\* The id of the k-th copy that is pasted is replaced by the k-th new one.
LEMMA IdsAre ==
    ASSUME ClipDistinct, NEW order, NEW ids, PastedAs(order, ids)
    PROVE  /\ \A k \in DOMAIN order : order[k] \in Keepable /\ ids[clip[order[k]].id] = NewId(k)
           /\ \A i \in Keepable : \E k \in DOMAIN order : order[k] = i
           /\ \A x : x \in DOMAIN ids <=> \E k \in DOMAIN order : x = clip[order[k]].id
           /\ \A k, l \in DOMAIN order : clip[order[k]].id = clip[order[l]].id => k = l
PROOF
<1>1. /\ Distinct(order) /\ ToSet(order) = Keepable
      /\ ids = [x \in {clip[i].id : i \in Keepable} |->
                  NewId(CHOOSE k \in DOMAIN order : clip[order[k]].id = x)]
  BY Zenon DEF PastedAs
<1>2. /\ \A k \in DOMAIN order : order[k] \in Keepable
      /\ \A i \in Keepable : \E k \in DOMAIN order : order[k] = i
  BY <1>1 DEF ToSet
<1>3. \A k, l \in DOMAIN order : clip[order[k]].id = clip[order[l]].id => k = l
  <2>1. Keepable \subseteq DOMAIN clip
    BY DEF Keepable
  <2> QED  BY <1>1, <1>2, <2>1 DEF ClipDistinct, Distinct
<1>4. \A x : x \in DOMAIN ids <=> \E k \in DOMAIN order : x = clip[order[k]].id
  <2>1. DOMAIN ids = {clip[i].id : i \in Keepable}
    BY <1>1
  <2> QED  BY <1>2, <2>1
<1>5. ASSUME NEW k \in DOMAIN order
      PROVE  ids[clip[order[k]].id] = NewId(k)
  <2> DEFINE x == clip[order[k]].id
             at == CHOOSE l \in DOMAIN order : clip[order[l]].id = x
  <2>1. x \in {clip[i].id : i \in Keepable}
    BY <1>2
  <2>2. ids[x] = NewId(at)
    BY <1>1, <2>1, Zenon
  <2>3. at \in DOMAIN order /\ clip[order[at]].id = x
    <3>1. \E l \in DOMAIN order : clip[order[l]].id = x
      OBVIOUS
    <3> QED  BY <3>1, Zenon
  <2> HIDE DEF at
  <2>4. at = k
    BY <1>3, <2>3
  <2> QED  BY <2>2, <2>4
<1> QED  BY <1>2, <1>3, <1>4, <1>5

\* What becomes of the fields of a copy.
LEMMA CloneFields ==
    ASSUME CanvasInv, NEW i \in DOMAIN clip, NEW ids
    PROVE  LET o == clip[i].object
               c == CloneOf(i, ids)
               shift == 32 * Px * PasteCount(clip) IN
           /\ c.type = o.type /\ c.w = o.w /\ c.h = o.h
           /\ c.x = o.x + shift /\ c.y = o.y + shift
           /\ c.parentId = Mapped(o.parentId, ids, NoParent)
           /\ c.fromId = Mapped(o.fromId, ids, Unset)
           /\ c.toId = Mapped(o.toId, ids, Unset)
           /\ o.x \in Int /\ o.y \in Int
PROOF
<1> DEFINE o == clip[i].object
           shift == 32 * Px * PasteCount(clip)
<1>1. IsObject(o, Limit)
  BY DEF CanvasInv, Copied
<1>2. o = [f \in Fields |-> o[f]] /\ o.x \in Int /\ o.y \in Int
  BY <1>1, FieldsOf DEF IsObject
<1>3. {"type", "x", "y", "w", "h", "z", "parentId", "fromId", "toId"} \subseteq DOMAIN o
  BY <1>2, FieldsAre
<1> DEFINE x == o.x + shift
           y == o.y + shift
           z == NextZ(objects) + i - 1
           parent == Mapped(o.parentId, ids, NoParent)
           from == Mapped(o.fromId, ids, Unset)
           to == Mapped(o.toId, ids, Unset)
<1>4. CloneOf(i, ids) = [o EXCEPT !.x = x, !.y = y, !.z = z, !.parentId = parent, !.fromId = from, !.toId = to]
  BY Zenon DEF CloneOf
<1> DEFINE c == [o EXCEPT !.x = x, !.y = y, !.z = z, !.parentId = parent, !.fromId = from, !.toId = to]
<1> HIDE DEF o, x, y, z, parent, from, to
<1>5. /\ c.type = o.type /\ c.w = o.w /\ c.h = o.h /\ c.x = x /\ c.y = y
      /\ c.parentId = parent /\ c.fromId = from /\ c.toId = to
  BY <1>3
<1> QED  BY <1>2, <1>4, <1>5 DEF o, x, y, parent, from, to

\* A paste adds a clone of each copy that is pasted, under a new id.
LEMMA PasteEnds ==
    ASSUME CanvasInv, PasteCounted, PasteClipboard, NEW order, NEW ids, PastedAs(order, ids)
    PROVE  /\ \A x : x \in DOMAIN objects' <=> x \in DOMAIN objects \/ \E k \in DOMAIN order : x = NewId(k)
           /\ \A k \in DOMAIN order : NewId(k) \notin DOMAIN objects
           /\ \A x \in DOMAIN objects : objects'[x] = objects[x]
           /\ \A k \in DOMAIN order : objects'[NewId(k)] = CloneOf(order[k], ids)
PROOF
<1> DEFINE clones == CloneForPaste(clip)
           batches == <<clones>>
           start == IdsPerCommand * (edits + 1)
           K == DOMAIN order
<1>1. objects' = ApplyOps(objects, OpsOf(objects, batches))
  BY Zenon DEF PasteClipboard, Do, OpsOf, Told
<1>2. /\ IsSeq(clones) /\ Len(clones) <= 9
      /\ \A k \in DOMAIN clones : Good(clones[k]) /\ clones[k].id = NewId(k)
  BY ClonesHold DEF PasteCounted
<1>3. /\ IsSeq(order) /\ Len(order) <= 9
      /\ clones = [k \in K |-> Create(NewId(k), CloneOf(order[k], ids))]
  BY Zenon DEF PastedAs
<1>4. DOMAIN clones = K /\ \A k \in K : clones[k] = Create(NewId(k), CloneOf(order[k], ids))
  BY <1>3
<1>5. K = 1 .. Len(order) /\ Len(order) \in Nat
  BY <1>3, SeqIsFunction
<1>6. edits \in Nat /\ IsBoard(objects, Limit) /\ Limit \in Nat \ {0}
  BY NewIdsAre DEF CanvasInv
<1>o. /\ objects = [y \in DOMAIN objects |-> objects[y]]
      /\ \A y \in DOMAIN objects : y \in 1 .. Limit - 1 /\ objects[y] = [f \in Fields |-> objects[y][f]]
  BY <1>6 DEF IsBoard, IsObject
<1>7. \A k \in K : NewId(k) = start + k /\ NewId(k) \notin DOMAIN objects /\ start \in Int
  <2>1. ASSUME NEW k \in K
        PROVE  NewId(k) \notin DOMAIN objects
    <3>1. k \in 1 .. 9
      BY <1>3, <1>5
    <3>2. NewId(k) >= Limit
      BY <3>1, NewIdsAre
    <3> HIDE DEF Limit
    <3>3. Limit - 1 < Limit
      BY <1>6
    <3> QED  BY <1>6, <1>o, <3>2
  <2> QED  BY <1>6, <2>1 DEF NewId, IdsPerCommand
<1>8. \A k \in K : CloneOf(order[k], ids) = [f \in Fields |-> CloneOf(order[k], ids)[f]]
  <2>1. SUFFICES ASSUME NEW k \in K
                 PROVE  CloneOf(order[k], ids) = [f \in Fields |-> CloneOf(order[k], ids)[f]]
    OBVIOUS
  <2> DEFINE c == CloneOf(order[k], ids)
  <2>2. Good(Create(NewId(k), c))
    BY <1>2, <1>4
  <2> HIDE DEF c
  <2>3. IsOp(Create(NewId(k), c), Limit + IdsPerCommand)
    BY <2>2 DEF Good
  <2>4. IsObject(c, Limit + IdsPerCommand)
    BY <2>3, OpFields DEF IsOp
  <2> QED  BY <2>4 DEF IsObject, c
<1> HIDE DEF clones, start
<1> DEFINE all == OpsOf(objects, batches)
           num(x) == x - start
           now == [x \in DOMAIN objects \cup {NewId(k) : k \in K} |->
                     IF x \in DOMAIN objects THEN objects[x] ELSE CloneOf(order[num(x)], ids)]
<1>9. /\ IsSeq(all)
      /\ \A op : op \in ToSet(all) <=> op \in ToSet(clones) /\ (op.type = "delete" => op.id \in DOMAIN objects)
  <2>0. Batched(batches)
    BY <1>2, TupleIsSeq DEF Batched
  <2> DEFINE steps == Made(objects, batches)
  <2>1. \A op : (\E i \in DOMAIN batches : op \in ToSet(batches[i])) <=> op \in ToSet(clones)
    OBVIOUS
  <2>2. Batched(batches) /\ all = OpsOf(objects, batches) /\ steps = Made(objects, batches)
    BY <2>0
  <2> HIDE DEF batches, all, steps
  <2>3. /\ IsSeq(all)
        /\ \A op : op \in ToSet(all) <=>
              /\ \E i \in DOMAIN batches : op \in ToSet(batches[i])
              /\ op.type = "delete" => op.id \in DOMAIN objects
    BY ONLY <2>2, CommandHolds
  <2> QED  BY <2>1, <2>3
<1>10. \A op : op \in ToSet(all) <=> \E k \in K : op = Create(NewId(k), CloneOf(order[k], ids))
  <2>1. ToSet(clones) = {clones[k] : k \in DOMAIN clones}
    BY DEF ToSet
  <2>2. \A op \in ToSet(clones) : op.type = "create"
    BY <1>4, <2>1, OpFields
  <2> QED  BY <1>4, <1>9, <2>1, <2>2
<1>11. /\ now = [x \in DOMAIN now |-> now[x]]
       /\ \A x : x \in DOMAIN now <=> x \in DOMAIN objects \/ \E k \in K : x = NewId(k)
       /\ \A x \in DOMAIN objects : now[x] = objects[x]
       /\ \A k \in K : now[NewId(k)] = CloneOf(order[k], ids)
  <2>1. \A k \in K : num(NewId(k)) = k
    BY <1>5, <1>7
  <2> HIDE DEF num
  <2>2. \A k \in K : now[NewId(k)] = CloneOf(order[k], ids)
    BY <1>7, <2>1
  <2> QED  BY <2>2
<1>12. \A x \in DOMAIN now : now[x] = [f \in Fields |-> now[x][f]]
  <2> DEFINE whole(v) == v = [f \in Fields |-> v[f]]
  <2>1. (\A x \in DOMAIN objects : whole(objects[x])) /\ \A k \in K : whole(CloneOf(order[k], ids))
    BY <1>o, <1>8
  <2> HIDE DEF whole, now, K
  <2>2. \A x \in DOMAIN now : whole(now[x])
    BY <1>11, <2>1
  <2> QED  BY <2>2 DEF whole
<1> HIDE DEF all, now, K
<1>13. Without(now, {})
  BY <1>11, <1>12 DEF Without
<1>14. \A op \in ToSet(all) : Backward(now, {}, op)
  BY <1>10, <1>11 DEF Backward
<1>15. Toward(now, {}, objects, {} \cup ToSet(all))
  BY <1>o, <1>10, <1>11 DEF Toward
<1>16. Toward(now, {}, ApplyOps(objects, all), {})
  <2> DEFINE C == {}
             S == {}
  <2>1. Without(now, C) /\ IsSeq(all) /\ \A op \in ToSet(all) : Backward(now, C, op)
    BY <1>9, <1>13, <1>14
  <2>2. Toward(now, C, objects, S \cup ToSet(all))
    BY <1>15
  <2> HIDE DEF C, S
  <2>3. Toward(now, C, ApplyOps(objects, all), S)
    BY ONLY <2>1, <2>2, ManyBack
  <2> QED  BY <2>3 DEF C, S
<1>17. ApplyOps(objects, all) = now
  BY <1>13, <1>16, Arrived
<1>18. objects' = now
  BY <1>1, <1>17 DEF all
<1> QED  BY <1>7, <1>11, <1>18 DEF K

\* What is copied with its parent is no connector, and neither is the parent or
\* an end of a connector.
ClipSound ==
    /\ ClipDistinct
    /\ \A i, j \in DOMAIN clip :
          LET o == clip[i].object IN
          /\ o.parentId = clip[j].id => o.type # "connector"
          /\ clip[j].id \in {o.parentId, o.fromId, o.toId} => clip[j].object.type # "connector"

\* What is said of a paste.
ClosedPaste ==
    LET new == DOMAIN objects' \ DOMAIN objects
        shift == 32 * Px * pasted'.count
        place(o, d) == <<o.type, o.x - d, o.y - d, o.w, o.h>>
        source == [x \in Signature(clip) |-> clip[CHOOSE i \in DOMAIN clip : clip[i].id = x].object]
        clones == [x \in new |-> objects'[x]]
        nesting(objs, d) == {<<place(objs[x], d), place(objs[objs[x].parentId], d)>> :
                                x \in {y \in DOMAIN objs : ParentIn(objs, y) \in DOMAIN objs}}
        wiring(objs, d) == {<<place(objs[objs[c].fromId], d), place(objs[objs[c].toId], d)>> :
                               c \in {y \in DOMAIN objs : {objs[y].fromId, objs[y].toId} \subseteq DOMAIN objs}} IN
    /\ \A x \in DOMAIN objects : objects'[x] = objects[x]
    /\ \A x \in new : ParentIn(objects', x) \in new \cup {NoParent}
    /\ nesting(clones, shift) = nesting(source, 0)
    /\ wiring(clones, shift) = wiring(source, 0)

\* Each clone has in it, and joins, the clones of what its original has in it and joins.
LEMMA PasteCloses ==
    ASSUME CanvasInv, PasteCounted, ClipSound, PasteClipboard
    PROVE  ClosedPaste
PROOF
<1> DEFINE new == DOMAIN objects' \ DOMAIN objects
           shift == 32 * Px * pasted'.count
           place(o, d) == <<o.type, o.x - d, o.y - d, o.w, o.h>>
           source == [x \in Signature(clip) |-> clip[CHOOSE i \in DOMAIN clip : clip[i].id = x].object]
           clones == [x \in new |-> objects'[x]]
           nesting(objs, d) == {<<place(objs[x], d), place(objs[objs[x].parentId], d)>> :
                                   x \in {y \in DOMAIN objs : ParentIn(objs, y) \in DOMAIN objs}}
           wiring(objs, d) == {<<place(objs[objs[c].fromId], d), place(objs[objs[c].toId], d)>> :
                                  c \in {y \in DOMAIN objs : {objs[y].fromId, objs[y].toId} \subseteq DOMAIN objs}}
<1>1. PICK order, ids : PastedAs(order, ids)
  BY ClonesAre
<1> DEFINE K == DOMAIN order
           S(k) == clip[order[k]].id
           O(k) == clip[order[k]].object
           P(k) == place(O(k), 0)
<1>2. /\ \A k \in K : order[k] \in Keepable /\ ids[S(k)] = NewId(k)
      /\ \A i \in Keepable : \E k \in K : order[k] = i
      /\ \A x : x \in DOMAIN ids <=> \E k \in K : x = S(k)
      /\ \A k, l \in K : S(k) = S(l) => k = l
  BY <1>1, IdsAre DEF ClipSound
<1>3. /\ \A x : x \in DOMAIN objects' <=> x \in DOMAIN objects \/ \E k \in K : x = NewId(k)
      /\ \A k \in K : NewId(k) \notin DOMAIN objects
      /\ \A x \in DOMAIN objects : objects'[x] = objects[x]
      /\ \A k \in K : objects'[NewId(k)] = CloneOf(order[k], ids)
  BY <1>1, PasteEnds
<1>4. /\ \A x : x \in new <=> \E k \in K : x = NewId(k)
      /\ \A k \in K : clones[NewId(k)] = CloneOf(order[k], ids)
      /\ DOMAIN clones = new
  BY <1>3
<1>5. shift = 32 * Px * PasteCount(clip) /\ shift \in Int
  <2>1. pasted' = [sig |-> Signature(clip), count |-> PasteCount(clip)]
    BY Zenon DEF PasteClipboard
  <2>2. PasteCount(clip) \in Int
    BY DEF PasteCount, PasteCounted
  <2> QED  BY <2>1, <2>2, PxAssumption
<1>6. \A k \in K : order[k] \in DOMAIN clip
  BY <1>2 DEF Keepable
<1>n. \A k \in K : NewId(k) \in Int /\ NewId(k) > 0
  <2>1. IsSeq(order) /\ Len(order) <= 9
    BY <1>1, Zenon DEF PastedAs
  <2>2. K = 1 .. Len(order) /\ Len(order) \in Nat
    BY <2>1, SeqIsFunction
  <2>3. edits \in Nat
    BY DEF CanvasInv
  <2> QED  BY <2>2, <2>3 DEF NewId, IdsPerCommand
<1> HIDE DEF K, S, O, new, clones, shift
<1>7. ASSUME NEW k \in K
      PROVE  LET c == clones[NewId(k)] IN
             /\ c.parentId = Mapped(O(k).parentId, ids, NoParent)
             /\ c.fromId = Mapped(O(k).fromId, ids, Unset)
             /\ c.toId = Mapped(O(k).toId, ids, Unset)
             /\ place(c, shift) = P(k)
  <2> DEFINE c == CloneOf(order[k], ids)
  <2>1. /\ c.type = O(k).type /\ c.w = O(k).w /\ c.h = O(k).h
        /\ c.x = O(k).x + shift /\ c.y = O(k).y + shift
        /\ c.parentId = Mapped(O(k).parentId, ids, NoParent)
        /\ c.fromId = Mapped(O(k).fromId, ids, Unset)
        /\ c.toId = Mapped(O(k).toId, ids, Unset)
        /\ O(k).x \in Int /\ O(k).y \in Int
    BY <1>5, <1>6, CloneFields DEF O
  <2>2. clones[NewId(k)] = c
    BY <1>4
  <2> HIDE DEF c
  <2>3. c.x - shift = O(k).x - 0 /\ c.y - shift = O(k).y - 0
    BY <1>5, <2>1
  <2>4. place(c, shift) = P(k)
    BY <2>1, <2>3
  <2> QED  BY <2>1, <2>2, <2>4
<1>8. \A x, none, l : none \in {NoParent, Unset} /\ l \in K => (Mapped(x, ids, none) = NewId(l) <=> x = S(l))
  <2>1. SUFFICES ASSUME NEW x, NEW none \in {NoParent, Unset}, NEW l \in K
                 PROVE  Mapped(x, ids, none) = NewId(l) <=> x = S(l)
    OBVIOUS
  <2>2. NewId(l) # none
    BY <1>n DEF NoParent, Unset
  <2>3. \A k \in K : NewId(k) = NewId(l) => k = l
    <3>1. \A k \in K : k \in Int /\ NewId(k) = IdsPerCommand * (edits + 1) + k
      <4>1. IsSeq(order)
        BY <1>1, Zenon DEF PastedAs
      <4> QED  BY <4>1, SeqIsFunction DEF K, NewId
    <3>2. IdsPerCommand * (edits + 1) \in Int
      BY DEF IdsPerCommand, CanvasInv
    <3> QED  BY <3>1, <3>2
  <2> QED  BY <1>2, <2>2, <2>3 DEF Mapped
<1>9. \A x, none : none \in {NoParent, Unset} => Mapped(x, ids, none) = none \/ \E l \in K : x = S(l) /\ Mapped(x, ids, none) = NewId(l)
  BY <1>2 DEF Mapped
<1>10. /\ \A k \in K : S(k) \in DOMAIN source /\ source[S(k)] = O(k)
       /\ \A x \in DOMAIN source : \E i \in DOMAIN clip : x = clip[i].id /\ source[x] = clip[i].object
       /\ DOMAIN source = Signature(clip)
  <2>1. ASSUME NEW i \in DOMAIN clip
        PROVE  clip[i].id \in DOMAIN source /\ source[clip[i].id] = clip[i].object
    <3> DEFINE x == clip[i].id
               at == CHOOSE j \in DOMAIN clip : clip[j].id = x
    <3>1. x \in Signature(clip)
      BY DEF Signature
    <3>2. source[x] = clip[at].object
      BY <3>1, Zenon
    <3>3. at \in DOMAIN clip /\ clip[at].id = x
      <4>1. \E j \in DOMAIN clip : clip[j].id = x
        OBVIOUS
      <4> QED  BY <4>1, Zenon
    <3> HIDE DEF at
    <3>4. at = i
      BY <3>3 DEF ClipSound, ClipDistinct
    <3> QED  BY <3>1, <3>2, <3>4
  <2>2. DOMAIN source = Signature(clip)
    OBVIOUS
  <2> HIDE DEF source
  <2> QED  BY <1>6, <2>1, <2>2 DEF S, O, Signature
<1>11. \A i, j \in DOMAIN clip :
          clip[j].id = clip[i].object.parentId => i \in Keepable /\ j \in Keepable
  BY DEF ClipSound, Keepable
<1>12. ASSUME NEW i \in DOMAIN clip, {clip[i].object.fromId, clip[i].object.toId} \subseteq Signature(clip)
       PROVE  i \in Keepable /\ \A j \in DOMAIN clip : clip[j].id \in {clip[i].object.fromId, clip[i].object.toId} => j \in Keepable
  BY <1>12 DEF ClipSound, Keepable
<1>u. NoParent \notin new /\ Unset \notin new /\ \A k \in K : S(k) # Unset /\ S(k) # NoParent
  <2>1. \A k \in K : S(k) \in Int /\ S(k) > 0
    BY <1>6 DEF ClipSound, ClipDistinct, S
  <2> QED  BY <1>4, <1>n, <2>1 DEF NoParent, Unset
<1> HIDE DEF source, place
<1> DEFINE Nested == {e \in K \X K : O(e[1]).parentId = S(e[2])}
           Wired == {e \in K \X K \X K : O(e[1]).fromId = S(e[2]) /\ O(e[1]).toId = S(e[3])}
           N == {<<P(e[1]), P(e[2])>> : e \in Nested}
           W == {<<P(e[2]), P(e[3])>> : e \in Wired}
<1>13. ASSUME NEW k \in K, NEW l \in K, O(k).parentId = S(l)
       PROVE  <<P(k), P(l)>> \in N
  <2> DEFINE e == <<k, l>>
  <2>1. e \in Nested
    BY <1>13
  <2>2. e[1] = k /\ e[2] = l
    OBVIOUS
  <2> HIDE DEF e, Nested, P
  <2>3. <<P(e[1]), P(e[2])>> \in N
    BY <2>1, Zenon
  <2> QED  BY <2>2, <2>3
<1>14. ASSUME NEW k \in K, NEW l \in K, NEW m \in K, O(k).fromId = S(l), O(k).toId = S(m)
       PROVE  <<P(l), P(m)>> \in W
  <2> DEFINE e == <<k, l, m>>
  <2>1. e \in Wired
    BY <1>14
  <2>2. e[2] = l /\ e[3] = m
    OBVIOUS
  <2> HIDE DEF e, Wired, P
  <2>3. <<P(e[2]), P(e[3])>> \in W
    BY <2>1, Zenon
  <2> QED  BY <2>2, <2>3
<1>15. \A e \in N : \E k, l \in K : O(k).parentId = S(l) /\ e = <<P(k), P(l)>>
  OBVIOUS
<1>16. \A e \in W : \E k, l, m \in K : O(k).fromId = S(l) /\ O(k).toId = S(m) /\ e = <<P(l), P(m)>>
  OBVIOUS
<1> HIDE DEF N, W, P
<1>17. \A k, l \in K : O(k).parentId = S(l) =>
          NewId(k) \in {y \in DOMAIN clones : ParentIn(clones, y) \in DOMAIN clones} /\ clones[NewId(k)].parentId = NewId(l)
  <2>1. SUFFICES ASSUME NEW k \in K, NEW l \in K, O(k).parentId = S(l)
                 PROVE  /\ NewId(k) \in {y \in DOMAIN clones : ParentIn(clones, y) \in DOMAIN clones}
                        /\ clones[NewId(k)].parentId = NewId(l)
    OBVIOUS
  <2>2. clones[NewId(k)].parentId = NewId(l)
    BY <1>7, <1>8, <2>1
  <2>3. NewId(k) \in DOMAIN clones /\ NewId(l) \in DOMAIN clones /\ NewId(l) # Unset
    BY <1>4, <1>u
  <2> QED  BY <2>2, <2>3 DEF ParentIn
<1>18. ASSUME NEW y \in DOMAIN clones, ParentIn(clones, y) \in DOMAIN clones
       PROVE  \E k, l \in K : y = NewId(k) /\ O(k).parentId = S(l) /\ clones[y].parentId = NewId(l)
  <2>1. PICK k \in K : y = NewId(k)
    BY <1>4
  <2>2. ParentIn(clones, y) # NoParent
    BY <1>4, <1>18, <1>u
  <2>3. clones[y].parentId \in DOMAIN clones
    BY <1>18, <2>2 DEF ParentIn
  <2>4. PICK l \in K : clones[y].parentId = NewId(l)
    BY <1>4, <2>3
  <2>5. O(k).parentId = S(l)
    BY <1>7, <1>8, <2>1, <2>4
  <2> QED  BY <2>1, <2>4, <2>5
<1>19. nesting(clones, shift) = N
  <2>1. ASSUME NEW k \in K, NEW l \in K, O(k).parentId = S(l)
        PROVE  <<P(k), P(l)>> \in nesting(clones, shift)
    <3> DEFINE x == NewId(k)
    <3>1. /\ x \in {y \in DOMAIN clones : ParentIn(clones, y) \in DOMAIN clones}
          /\ clones[x].parentId = NewId(l)
      BY <1>17, <2>1
    <3>2. place(clones[x], shift) = P(k) /\ place(clones[NewId(l)], shift) = P(l)
      BY <1>7
    <3> HIDE DEF x
    <3> QED  BY <3>1, <3>2
  <2>2. ASSUME NEW e \in nesting(clones, shift)
        PROVE  e \in N
    <3>1. PICK y \in {y \in DOMAIN clones : ParentIn(clones, y) \in DOMAIN clones} :
             e = <<place(clones[y], shift), place(clones[clones[y].parentId], shift)>>
      OBVIOUS
    <3>2. PICK k \in K, l \in K : y = NewId(k) /\ O(k).parentId = S(l) /\ clones[y].parentId = NewId(l)
      BY <1>18, <3>1
    <3>3. place(clones[NewId(k)], shift) = P(k) /\ place(clones[NewId(l)], shift) = P(l)
      BY <1>7
    <3>4. e = <<P(k), P(l)>>
      BY <3>1, <3>2, <3>3
    <3> QED  BY <1>13, <3>2, <3>4
  <2> HIDE DEF nesting
  <2> QED  BY <1>15, <2>1, <2>2
<1>20. nesting(source, 0) = N
  <2>1. ASSUME NEW k \in K, NEW l \in K, O(k).parentId = S(l)
        PROVE  <<P(k), P(l)>> \in nesting(source, 0)
    <3> DEFINE x == S(k)
    <3>1. x \in DOMAIN source /\ source[x] = O(k) /\ S(l) \in DOMAIN source /\ source[S(l)] = O(l) /\ S(l) # Unset
      BY <1>10, <1>u
    <3>2. x \in {y \in DOMAIN source : ParentIn(source, y) \in DOMAIN source} /\ source[x].parentId = S(l)
      BY <2>1, <3>1 DEF ParentIn
    <3>3. place(source[x], 0) = P(k) /\ place(source[S(l)], 0) = P(l)
      BY <3>1 DEF P
    <3> HIDE DEF x
    <3> QED  BY <3>2, <3>3
  <2>2. ASSUME NEW e \in nesting(source, 0)
        PROVE  e \in N
    <3>1. PICK y \in {y \in DOMAIN source : ParentIn(source, y) \in DOMAIN source} :
             e = <<place(source[y], 0), place(source[source[y].parentId], 0)>>
      OBVIOUS
    <3>2. PICK i \in DOMAIN clip : y = clip[i].id /\ source[y] = clip[i].object
      BY <1>10, <3>1
    <3>3. NoParent \notin DOMAIN source
      BY <1>10 DEF ClipSound, ClipDistinct, Signature, NoParent
    <3>4. source[y].parentId \in DOMAIN source
      BY <3>1, <3>3 DEF ParentIn
    <3>5. PICK j \in DOMAIN clip : source[y].parentId = clip[j].id
      BY <1>10, <3>4
    <3>6. i \in Keepable /\ j \in Keepable
      BY <1>11, <3>2, <3>5
    <3>7. PICK k \in K : order[k] = i
      BY <1>2, <3>6
    <3>8. PICK l \in K : order[l] = j
      BY <1>2, <3>6
    <3>9. y = S(k) /\ source[y].parentId = S(l) /\ source[y] = O(k)
      BY <3>2, <3>5, <3>7, <3>8 DEF S, O
    <3>10. source[S(k)] = O(k) /\ source[S(l)] = O(l)
      BY <1>10
    <3>11. e = <<P(k), P(l)>> /\ O(k).parentId = S(l)
      BY <3>1, <3>9, <3>10 DEF P
    <3> QED  BY <1>13, <3>11
  <2> HIDE DEF nesting
  <2> QED  BY <1>15, <2>1, <2>2
<1>21. wiring(clones, shift) = W
  <2>1. ASSUME NEW k \in K, NEW l \in K, NEW m \in K, O(k).fromId = S(l), O(k).toId = S(m)
        PROVE  <<P(l), P(m)>> \in wiring(clones, shift)
    <3> DEFINE x == NewId(k)
    <3>1. x \in DOMAIN clones /\ NewId(l) \in DOMAIN clones /\ NewId(m) \in DOMAIN clones
      BY <1>4
    <3>2. clones[x].fromId = NewId(l) /\ clones[x].toId = NewId(m)
      BY <1>7, <1>8, <2>1
    <3>3. place(clones[NewId(l)], shift) = P(l) /\ place(clones[NewId(m)], shift) = P(m)
      BY <1>7
    <3> HIDE DEF x
    <3>4. x \in {y \in DOMAIN clones : {clones[y].fromId, clones[y].toId} \subseteq DOMAIN clones}
      BY <3>1, <3>2
    <3> QED  BY <3>2, <3>3, <3>4
  <2>2. ASSUME NEW e \in wiring(clones, shift)
        PROVE  e \in W
    <3>1. PICK y \in {y \in DOMAIN clones : {clones[y].fromId, clones[y].toId} \subseteq DOMAIN clones} :
             e = <<place(clones[clones[y].fromId], shift), place(clones[clones[y].toId], shift)>>
      OBVIOUS
    <3>2. PICK k \in K : y = NewId(k)
      BY <1>4, <3>1
    <3>3. PICK l \in K : clones[y].fromId = NewId(l)
      BY <1>4, <3>1
    <3>4. PICK m \in K : clones[y].toId = NewId(m)
      BY <1>4, <3>1
    <3>5. O(k).fromId = S(l) /\ O(k).toId = S(m)
      BY <1>7, <1>8, <3>2, <3>3, <3>4
    <3>6. place(clones[NewId(l)], shift) = P(l) /\ place(clones[NewId(m)], shift) = P(m)
      BY <1>7
    <3>7. e = <<P(l), P(m)>>
      BY <3>1, <3>3, <3>4, <3>6
    <3> QED  BY <1>14, <3>5, <3>7
  <2> HIDE DEF wiring
  <2> QED  BY <1>16, <2>1, <2>2
<1>22. wiring(source, 0) = W
  <2>1. ASSUME NEW k \in K, NEW l \in K, NEW m \in K, O(k).fromId = S(l), O(k).toId = S(m)
        PROVE  <<P(l), P(m)>> \in wiring(source, 0)
    <3> DEFINE x == S(k)
    <3>1. /\ x \in DOMAIN source /\ source[x] = O(k) /\ S(l) \in DOMAIN source /\ S(m) \in DOMAIN source
          /\ source[S(l)] = O(l) /\ source[S(m)] = O(m)
      BY <1>10
    <3>2. place(source[S(l)], 0) = P(l) /\ place(source[S(m)], 0) = P(m)
      BY <3>1 DEF P
    <3>3. source[x].fromId = S(l) /\ source[x].toId = S(m)
      BY <2>1, <3>1
    <3> HIDE DEF x
    <3>4. x \in {y \in DOMAIN source : {source[y].fromId, source[y].toId} \subseteq DOMAIN source}
      BY <3>1, <3>3
    <3> QED  BY <3>2, <3>3, <3>4
  <2>2. ASSUME NEW e \in wiring(source, 0)
        PROVE  e \in W
    <3>1. PICK y \in {y \in DOMAIN source : {source[y].fromId, source[y].toId} \subseteq DOMAIN source} :
             e = <<place(source[source[y].fromId], 0), place(source[source[y].toId], 0)>>
      OBVIOUS
    <3>2. PICK i \in DOMAIN clip : y = clip[i].id /\ source[y] = clip[i].object
      BY <1>10, <3>1
    <3>3. PICK j \in DOMAIN clip : source[y].fromId = clip[j].id
      BY <1>10, <3>1
    <3>4. PICK h \in DOMAIN clip : source[y].toId = clip[h].id
      BY <1>10, <3>1
    <3>5. i \in Keepable /\ j \in Keepable /\ h \in Keepable
      BY <1>10, <1>12, <3>1, <3>2, <3>3, <3>4
    <3>6. PICK k \in K : order[k] = i
      BY <1>2, <3>5
    <3>7. PICK l \in K : order[l] = j
      BY <1>2, <3>5
    <3>8. PICK m \in K : order[m] = h
      BY <1>2, <3>5
    <3>9. source[y] = O(k) /\ source[y].fromId = S(l) /\ source[y].toId = S(m)
      BY <3>2, <3>3, <3>4, <3>6, <3>7, <3>8 DEF S, O
    <3>10. source[S(l)] = O(l) /\ source[S(m)] = O(m)
      BY <1>10
    <3>11. e = <<P(l), P(m)>> /\ O(k).fromId = S(l) /\ O(k).toId = S(m)
      BY <3>1, <3>9, <3>10 DEF P
    <3> QED  BY <1>14, <3>11
  <2> HIDE DEF wiring
  <2> QED  BY <1>16, <2>1, <2>2
<1>23. \A x \in new : ParentIn(objects', x) \in new \cup {NoParent}
  <2>1. SUFFICES ASSUME NEW x \in new
                 PROVE  ParentIn(objects', x) \in new \cup {NoParent}
    OBVIOUS
  <2>2. PICK k \in K : x = NewId(k)
    BY <1>4
  <2>3. x \in DOMAIN objects' /\ objects'[x] = clones[x]
    BY <1>3, <1>4, <2>2
  <2>4. objects'[x].parentId \in new \cup {NoParent}
    BY <1>4, <1>7, <1>9, <2>2, <2>3
  <2> QED  BY <1>u, <2>3, <2>4 DEF ParentIn
<1>24. \A x \in DOMAIN objects : objects'[x] = objects[x]
  BY <1>3
<1>25. nesting(clones, shift) = nesting(source, 0) /\ wiring(clones, shift) = wiring(source, 0)
  BY <1>19, <1>20, <1>21, <1>22
<1> HIDE DEF nesting, wiring
<1> QED  BY <1>23, <1>24, <1>25, Zenon DEF ClosedPaste, new, shift, source, clones, nesting, wiring, place
-----------------------------------------------------------------------------
\* What is copied

\* A copy is made of distinct shapes and connectors of the board, and no
\* connector is a parent or an end there.
LEMMA CopyIsSound ==
    ASSUME CanvasInv, TreeSound, CopySelected
    PROVE  ClipSound'
PROOF
<1> DEFINE ids == CollectCopySet
           copied == [i \in DOMAIN ids |-> [id |-> ids[i], object |-> objects[ids[i]]]]
<1>1. clip' = copied
  BY Zenon DEF CopySelected
<1>o. \A x \in DOMAIN objects : x \in Int /\ x > 0
  BY BoardHere, NewIdsAre DEF CanvasInv
<1>2. /\ \A i \in DOMAIN ids : ids[i] \in DOMAIN objects
      /\ Distinct(ids)
  <2> DEFINE roots == ToSet(selected) \cap DOMAIN objects
             shapes == roots \cup UNION {Descendants(objects, x) : x \in roots}
             lines == {c \in DOMAIN objects : /\ objects[c].type = "connector"
                                              /\ {objects[c].fromId, objects[c].toId} \subseteq shapes}
             S == shapes \cup lines
  <2>1. ids = Ascending(S)
    BY Zenon DEF CollectCopySet
  <2>2. S \subseteq DOMAIN objects
    BY DEF Descendants
  <2>3. IsFiniteSet(DOMAIN objects)
    BY BoardHere
  <2> HIDE DEF S
  <2>4. S \in SUBSET Int /\ IsFiniteSet(S)
    BY <1>o, <2>2, <2>3, FS_Subset
  <2> QED  BY <2>1, <2>2, <2>4, AscendingHolds
<1> HIDE DEF ids
<1>3. /\ DOMAIN copied = DOMAIN ids
      /\ \A i \in DOMAIN ids : copied[i].id = ids[i] /\ copied[i].object = objects[ids[i]]
  OBVIOUS
<1> HIDE DEF copied
<1>4. \A i, j \in DOMAIN copied : copied[i].id = copied[j].id => i = j
  BY <1>2, <1>3 DEF Distinct
<1>5. \A i \in DOMAIN copied : copied[i].id \in Int /\ copied[i].id > 0
  BY <1>o, <1>2, <1>3
<1>6. ASSUME NEW x \in DOMAIN objects, NEW y \in DOMAIN objects
      PROVE  /\ objects[x].parentId = y => objects[x].type # "connector"
             /\ y \in {objects[x].parentId, objects[x].fromId, objects[x].toId} => objects[y].type # "connector"
  <2>1. y > 0 /\ y # NoParent /\ y # Unset
    BY <1>o DEF NoParent, Unset
  <2>2. CASE y = objects[x].parentId
    <3>1. ParentIn(objects, x) = y
      BY <2>1, <2>2 DEF ParentIn
    <3> QED  BY <2>1, <3>1 DEF TreeSound, IsContainer
  <2>3. CASE y \in {objects[x].fromId, objects[x].toId}
    <3>1. objects[x].type = "connector"
      BY <2>1, <2>3 DEF TreeSound
    <3>2. ParentIn(objects, x) = NoParent /\ y \in Unconnected(objects, DOMAIN objects)
      BY <2>3, <3>1 DEF TreeSound
    <3> QED  BY <2>1, <3>2 DEF Unconnected, ParentIn
  <2> QED  BY <2>2, <2>3
<1>7. ClipDistinct'
  BY <1>1, <1>4, <1>5 DEF ClipDistinct
<1>8. ASSUME NEW i \in DOMAIN clip', NEW j \in DOMAIN clip'
      PROVE  LET o == clip'[i].object IN
             /\ o.parentId = clip'[j].id => o.type # "connector"
             /\ clip'[j].id \in {o.parentId, o.fromId, o.toId} => clip'[j].object.type # "connector"
  <2>1. /\ clip'[i].object = objects[ids[i]] /\ clip'[j].object = objects[ids[j]] /\ clip'[j].id = ids[j]
        /\ ids[i] \in DOMAIN objects /\ ids[j] \in DOMAIN objects
    BY <1>1, <1>2, <1>3
  <2> QED  BY <1>6, <2>1
<1> QED  BY <1>7, <1>8 DEF ClipSound

\* Only a copy changes what is copied.
LEMMA ClipStep == CanvasInv /\ TreeSound /\ ClipSound /\ [BoardNext]_vars => ClipSound'
PROOF
<1> SUFFICES ASSUME CanvasInv, TreeSound, ClipSound, [BoardNext]_vars
             PROVE  ClipSound'
  OBVIOUS
<1>1. CASE CopySelected
  BY <1>1, CopyIsSound
<1>2. ASSUME clip' = clip
      PROVE  ClipSound'
  BY <1>2 DEF ClipSound, ClipDistinct
<1>3. (\E x \in DOMAIN objects, p \in Spots : Move(x, p)) => clip' = clip
  <2>1. \A patches : ApplyPatches("move", patches) => clip' = clip
    BY Zenon DEF ApplyPatches, Edit
  <2> QED  BY <2>1, Zenon DEF Move
<1>4. PasteClipboard \/ OtherCommand => clip' = clip
  BY Zenon DEF PasteClipboard, OtherCommand
<1> QED  BY <1>1, <1>2, <1>3, <1>4, CommandNames

\* A step that is called a paste is one.
LEMMA PasteHolds ==
    CanvasInv /\ PasteCounted /\ ClipSound /\ [BoardNext]_vars => [last' = "paste" /\ edits' # edits => ClosedPaste]_vars
PROOF
<1> SUFFICES ASSUME CanvasInv, PasteCounted, ClipSound, [BoardNext]_vars
             PROVE  last' = "paste" /\ edits' # edits => ClosedPaste
  OBVIOUS
<1> HAVE last' = "paste" /\ edits' # edits
<1>1. ASSUME NEW x \in DOMAIN objects, NEW p \in Spots, Move(x, p)
      PROVE  FALSE
  <2>1. \A patches : ApplyPatches("move", patches) => last' = "move"
    BY Zenon DEF ApplyPatches, Edit, Command
  <2>2. last' = "move"
    BY <1>1, <2>1, Zenon DEF Move
  <2> QED  BY <2>2
<1>2. ~CopySelected
  <2>1. CopySelected => last' = "copy"
    BY Zenon DEF CopySelected, Command
  <2> QED  BY <2>1
<1>3. ~OtherCommand
  BY DEF OtherCommand
<1>4. PasteClipboard
  BY <1>1, <1>2, <1>3, CommandNames
<1> QED  BY <1>4, PasteCloses

\* What is pasted refers only to what is pasted with it, and is nested and
\* connected as the originals are, while the parents and the ends on the board
\* that is copied from are sound.
THEOREM PasteStaysClosed == BoardSpec /\ []TreeSound => PasteClosed
PROOF
<1>1. BoardInit => PasteCounted /\ ClipSound
  <2>1. BoardInit => PasteCounted
    BY CanvasStarts
  <2>2. BoardInit => ClipSound
    BY DEF BoardInit, ClipSound, ClipDistinct
  <2> QED  BY <2>1, <2>2
<1>2. PasteClosed <=> [][last' = "paste" /\ edits' # edits => ClosedPaste]_vars
  BY DEF PasteClosed, ClosedPaste
<1> QED
  BY <1>1, <1>2, BoardTyped, CountKept, ClipStep, PasteHolds, PTL DEF BoardSpec
=============================================================================
