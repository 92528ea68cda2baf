----------------------------- MODULE BoardProofs -----------------------------
(***************************************************************************)
(* The undo and redo stacks of a session do what UndoHistory promises,     *)
(* whatever the user does, and together never hold more than Depth steps.  *)
(* The rest is what CanvasProofs needs of the operations of a command and  *)
(* of the line of a connector.                                             *)
(*                                                                         *)
(* A step of a stack is a step of the promise if the steps a command       *)
(* makes are a sequence, which takes all its batches to be sequences.      *)
(* They are made by the folds, the flattenings and the filters of the      *)
(* model, of selections and of the board's objects in some order:          *)
(* BoardInv says that those are sequences too, and that the objects are    *)
(* finitely many.                                                          *)
(*                                                                         *)
(* A route is a line through its anchors that three passes clean up. Each  *)
(* pass is a fold that takes points of a line and adds points between      *)
(* them; none touches the first point, and none moves the last by half a   *)
(* pixel (LinesMeet).                                                      *)
(*                                                                         *)
(* A step is rewound operation by operation. Between two of them the       *)
(* board differs from the one before the command only where one of the     *)
(* operations still to come puts it right (Backward, Toward); at the end   *)
(* none is left (Arrived). CanvasInv types the board, the stacks and the   *)
(* clipboard, and bounds their ids by those the commands so far were       *)
(* given.                                                                  *)
(***************************************************************************)
EXTENDS BoardProperties, SequenceTheorems, FiniteSetTheorems, TLAPS

IsSeq(s) == \E S : s \in Seq(S)

\* The lengths alone are not inductive: what SubSeq and Append do to a length
\* is only known of sequences.
HistoryInv == IsSeq(undo) /\ IsSeq(redo) /\ HistoryBounded

-----------------------------------------------------------------------------
\* Sequences

\* A stack of the abstract specification is a sequence no longer than Depth.
LEMMA StackIsSeq ==
  ASSUME NEW s, H!IsStack(s)
  PROVE  IsSeq(s) /\ Len(s) \in 0 .. Depth
<1> DEFINE n == Len(s)
           S == {s[i] : i \in 1 .. n}
<1>1. n \in Nat /\ n \in 0 .. Depth /\ s = [i \in 1 .. n |-> s[i]]
  BY DepthAssumption DEF H!IsStack
<1>2. s \in [1 .. n -> S]
  BY <1>1
<1>3. Seq(S) = UNION {[1 .. k -> S] : k \in Nat}
  BY SeqDef
<1>4. s \in Seq(S)
  BY <1>1, <1>2, <1>3
<1> QED
  BY <1>1, <1>4 DEF IsSeq

\* The length of a sequence.
LEMMA SeqLength ==
  ASSUME NEW s, IsSeq(s)
  PROVE  Len(s) \in Nat
  BY LenProperties DEF IsSeq

\* Taking the last element off a sequence.
LEMMA Shortened ==
  ASSUME NEW s, IsSeq(s), s # <<>>
  PROVE  /\ IsSeq(SubSeq(s, 1, Len(s) - 1))
         /\ Len(SubSeq(s, 1, Len(s) - 1)) = Len(s) - 1
         /\ Len(s) >= 1
<1>1. PICK S : s \in Seq(S)
  BY DEF IsSeq
<1>2. Len(s) \in Nat /\ Len(s) >= 1
  BY <1>1, EmptySeq, LenProperties
<1> DEFINE k == Len(s) - 1
<1>3. k \in Nat /\ k \in 0 .. Len(s)
  BY <1>2
<1>4. SubSeq(s, 1, k) \in Seq(S) /\ Len(SubSeq(s, 1, k)) = IF 1 <= k THEN k - 1 + 1 ELSE 0
  <2> HIDE DEF k
  <2>1. \A i \in 1 .. k : s[i] \in S
    BY <1>1, <1>2, <1>3
  <2> QED
    BY <1>3, <2>1, SubSeqProperties
<1>5. Len(SubSeq(s, 1, k)) = k
  <2> HIDE DEF k
  <2> QED
    BY <1>3, <1>4
<1>6. IsSeq(SubSeq(s, 1, k))
  <2> HIDE DEF k
  <2> QED
    BY <1>4 DEF IsSeq
<1> QED
  BY <1>2, <1>5, <1>6

\* Putting one element more onto a sequence.
LEMMA Lengthened ==
  ASSUME NEW s, NEW e, IsSeq(s)
  PROVE  IsSeq(Append(s, e)) /\ Len(Append(s, e)) = Len(s) + 1
<1>1. PICK S : s \in Seq(S)
  BY DEF IsSeq
<1>2. s \in Seq(S \cup {e}) /\ e \in S \cup {e}
  BY <1>1
<1>3. Append(s, e) \in Seq(S \cup {e}) /\ Len(Append(s, e)) = Len(s) + 1
  BY <1>2, AppendProperties
<1> QED
  BY <1>3 DEF IsSeq

\* Induction over a set of numbers.
LEMMA SetInduction ==
  ASSUME NEW T, 0 \in T, \A n \in Nat : n \in T => n + 1 \in T
  PROVE  Nat \subseteq T
<1> DEFINE R == OpToRel(<, Nat)
           U == Nat \ T
<1>1. IsWellFoundedOn(R, Nat)
  BY NatLessThanWellFounded
<1>2. \A x, y \in Nat : x < y => <<x, y>> \in R
  BY DEF OpToRel
<1> HIDE DEF R
<1>3. SUFFICES ASSUME U # {} PROVE FALSE
  OBVIOUS
<1>4. PICK x \in U : \A y \in U : ~ (<<y, x>> \in R)
  <2> HIDE DEF U
  <2>1. U \subseteq Nat
    BY DEF U
  <2> QED
    BY <1>1, <1>3, <2>1, WFMin
<1>5. x \in Nat /\ x # 0 /\ x - 1 < x /\ x - 1 \in Nat /\ x = (x - 1) + 1
  BY <1>4
<1>6. <<x - 1, x>> \in R
  BY <1>2, <1>5
<1>7. x - 1 \notin U
  BY <1>4, <1>6
<1> QED
  BY <1>4, <1>5, <1>7

\* A function on 1 .. n is a sequence.
LEMMA FunctionIsSeq ==
    ASSUME NEW n \in Nat, NEW s, s = [k \in 1 .. n |-> s[k]]
    PROVE  IsSeq(s) /\ Len(s) = n /\ DOMAIN s = 1 .. n
<1> DEFINE S == {s[k] : k \in 1 .. n}
<1>1. s \in [1 .. n -> S]
  OBVIOUS
<1>2. s \in Seq(S)
  <2>1. Seq(S) = UNION {[1 .. k -> S] : k \in Nat}
    BY SeqDef
  <2> QED
    BY <1>1, <2>1
<1> HIDE DEF S
<1>3. DOMAIN s = 1 .. n
  BY <1>1
<1>4. Len(s) = n
  BY <1>2, <1>3, LenProperties
<1> QED
  BY <1>2, <1>3, <1>4 DEF IsSeq

\* A sequence is a function on 1 .. Len.
LEMMA SeqIsFunction ==
    ASSUME NEW s, IsSeq(s)
    PROVE  Len(s) \in Nat /\ DOMAIN s = 1 .. Len(s) /\ s = [k \in 1 .. Len(s) |-> s[k]]
<1>1. PICK S : s \in Seq(S)
  BY DEF IsSeq
<1>2. Len(s) \in Nat /\ s \in [1 .. Len(s) -> S]
  BY <1>1, LenProperties
<1> QED
  BY <1>2

\* One sequence after another.
LEMMA ConcatIsSeq ==
    ASSUME NEW s, NEW t, IsSeq(s), IsSeq(t)
    PROVE  /\ IsSeq(s \o t)
           /\ Len(s \o t) = Len(s) + Len(t)
           /\ \A i \in 1 .. Len(s) + Len(t) :
                 (s \o t)[i] = IF i <= Len(s) THEN s[i] ELSE t[i - Len(s)]
<1>1. PICK S : s \in Seq(S)
  BY DEF IsSeq
<1>2. PICK T : t \in Seq(T)
  BY DEF IsSeq
<1>3. s \in Seq(S \cup T) /\ t \in Seq(S \cup T)
  BY <1>1, <1>2
<1>4. s \o t \in Seq(S \cup T)
  BY <1>3, ConcatProperties
<1>5. Len(s \o t) = Len(s) + Len(t) /\ \A i \in 1 .. Len(s) + Len(t) :
                 (s \o t)[i] = IF i <= Len(s) THEN s[i] ELSE t[i - Len(s)]
  BY <1>3, ConcatProperties
<1> QED
  BY <1>4, <1>5 DEF IsSeq

\* The ids of a finite set, in order.
LEMMA AscendingIsSeq ==
    ASSUME NEW S, IsFiniteSet(S)
    PROVE  IsSeq(Ascending(S))
<1> DEFINE n == Cardinality(S)
           s == Ascending(S)
<1>1. n \in Nat
  BY FS_CardinalityType
<1>2. \E f : s = [k \in 1 .. n |-> f[k]]
  <2> DEFINE f == [i \in 1 .. n |-> CHOOSE x \in S : Cardinality({y \in S \ {x} : y < x}) = i - 1]
  <2>1. s = f
    BY DEF Ascending, Sorted
  <2>2. s = [k \in 1 .. n |-> f[k]]
    BY <2>1, Zenon
  <2> QED
    BY <2>2, Zenon
<1> HIDE DEF n, s
<1>3. s = [k \in 1 .. n |-> s[k]]
  BY <1>2, Zenon
<1>4. IsSeq(s)
  BY <1>1, <1>3, FunctionIsSeq
<1> QED
  BY <1>4 DEF s

\* The recursion of FlattenSeq.
Flattening(f, m, seqs) ==
    f = [i \in 1 .. m |-> IF i = 1 THEN seqs[i] ELSE f[i - 1] \o seqs[i]]

\* The recursion has a solution.
LEMMA FlatteningExists ==
    ASSUME NEW seqs
    PROVE  \A m \in Nat : \E f : Flattening(f, m, seqs)
<1> DEFINE T == {m \in Nat : \E f : Flattening(f, m, seqs)}
<1>1. 0 \in T
  <2> DEFINE g == [i \in 1 .. 0 |-> seqs[i]]
  <2>1. 1 .. 0 = {}
    OBVIOUS
  <2>2. Flattening(g, 0, seqs)
    BY <2>1, Zenon DEF Flattening
  <2> QED
    BY <2>2
<1>2. ASSUME NEW m \in Nat, m \in T PROVE m + 1 \in T
  <2>1. PICK f : Flattening(f, m, seqs)
    BY <1>2
  <2> DEFINE V(h, i) == IF i = 1 THEN seqs[i] ELSE h[i - 1] \o seqs[i]
             g == [i \in 1 .. m + 1 |-> IF i \in 1 .. m THEN f[i] ELSE V(f, i)]
  <2>2. \A i \in 1 .. m : f[i] = V(f, i)
    BY <2>1, Zenon DEF Flattening
  <2>3. \A i \in 1 .. m : i \in 1 .. m + 1
    OBVIOUS
  <2>4. \A i \in 1 .. m + 1 : i # 1 => i - 1 \in 1 .. m
    OBVIOUS
  <2>5. \A i \in 1 .. m : g[i] = f[i]
    BY <2>3, Zenon
  <2>6. \A i \in 1 .. m + 1 : g[i] = V(f, i)
    <3>1. ASSUME NEW i \in 1 .. m + 1 PROVE g[i] = V(f, i)
      <4> HIDE DEF V
      <4>1. g[i] = IF i \in 1 .. m THEN f[i] ELSE V(f, i)
        BY Zenon
      <4> QED
        BY <2>2, <4>1, Zenon
    <3> HIDE DEF g, V
    <3> QED
      BY <3>1, Zenon
  <2>7. \A i \in 1 .. m + 1 : V(g, i) = V(f, i)
    <3> HIDE DEF g
    <3> QED
      BY <2>4, <2>5, Zenon
  <2>8. g = [i \in 1 .. m + 1 |-> V(g, i)]
    <3>1. g = [i \in 1 .. m + 1 |-> g[i]]
      BY Zenon
    <3> HIDE DEF g, V
    <3> QED
      BY <2>6, <2>7, <3>1, Zenon
  <2>9. Flattening(g, m + 1, seqs)
    BY <2>8, Zenon DEF Flattening
  <2> HIDE DEF g
  <2> QED
    BY <2>9
<1> HIDE DEF T
<1>3. Nat \subseteq T
  BY <1>1, <1>2, SetInduction, Zenon
<1> QED
  BY <1>3 DEF T

\* Sequences over S one after the other make a sequence over S.
LEMMA FlattenInSeq ==
    ASSUME NEW S, NEW seqs \in Seq(Seq(S))
    PROVE  FlattenSeq(seqs) \in Seq(S)
<1> DEFINE n == Len(seqs)
<1>1. n \in Nat /\ DOMAIN seqs = 1 .. n /\ \A i \in 1 .. n : seqs[i] \in Seq(S)
  BY LenProperties, ElementOfSeq
<1> HIDE DEF n
<1>2. CASE n = 0
  <2>1. FlattenSeq(seqs) = seqs
    BY <1>2 DEF FlattenSeq, n
  <2>2. seqs = <<>>
    BY <1>2, EmptySeq DEF n
  <2> QED
    BY <2>1, <2>2, EmptySeq
<1>3. CASE n # 0
  <2>1. \E f : Flattening(f, n, seqs)
    BY <1>1, FlatteningExists
  <2> DEFINE F == CHOOSE f : Flattening(f, n, seqs)
  <2>2. Flattening(F, n, seqs)
    BY <2>1
  <2>3. FlattenSeq(seqs) = F[n]
    BY <1>3, Zenon DEF FlattenSeq, Flattening, n
  <2> HIDE DEF F
  <2>4. \A i \in 1 .. n : F[i] = IF i = 1 THEN seqs[i] ELSE F[i - 1] \o seqs[i]
    BY <2>2, Zenon DEF Flattening
  <2> DEFINE T == {m \in Nat : m \in 1 .. n => F[m] \in Seq(S)}
  <2>5. 0 \in T
    OBVIOUS
  <2>6. ASSUME NEW m \in Nat, m \in T PROVE m + 1 \in T
    <3> SUFFICES ASSUME m + 1 \in 1 .. n PROVE F[m + 1] \in Seq(S)
      OBVIOUS
    <3>1. F[m + 1] = IF m + 1 = 1 THEN seqs[m + 1] ELSE F[m + 1 - 1] \o seqs[m + 1]
      BY <2>4
    <3>2. seqs[m + 1] \in Seq(S)
      BY <1>1
    <3>3. CASE m = 0
      BY <3>1, <3>2, <3>3
    <3>4. CASE m # 0
      <4>1. m \in 1 .. n /\ m + 1 - 1 = m /\ m + 1 # 1
        BY <1>1, <3>4
      <4>2. F[m] \in Seq(S)
        BY <2>6, <4>1
      <4> QED
        BY <3>1, <3>2, <4>1, <4>2, ConcatProperties
    <3> QED
      BY <3>3, <3>4
  <2>7. n \in T
    <3> HIDE DEF T
    <3>1. Nat \subseteq T
      BY <2>5, <2>6, SetInduction, Zenon
    <3> QED
      BY <1>1, <3>1
  <2> QED
    BY <1>1, <1>3, <2>3, <2>7
<1> QED
  BY <1>2, <1>3

\* The same, of sequences over anything, and what it is made of.
LEMMA FlattenIsSeq ==
    ASSUME NEW seqs, IsSeq(seqs), \A i \in DOMAIN seqs : IsSeq(seqs[i])
    PROVE  /\ IsSeq(FlattenSeq(seqs))
           /\ \A k \in DOMAIN FlattenSeq(seqs) :
                 \E i \in DOMAIN seqs : \E j \in DOMAIN seqs[i] : FlattenSeq(seqs)[k] = seqs[i][j]
<1> DEFINE S == UNION {{seqs[i][j] : j \in DOMAIN seqs[i]} : i \in DOMAIN seqs}
           n == Len(seqs)
<1>1. n \in Nat /\ DOMAIN seqs = 1 .. n /\ seqs = [i \in 1 .. n |-> seqs[i]]
  BY SeqIsFunction
<1>2. \A i \in DOMAIN seqs : seqs[i] \in Seq(S)
  <2>1. ASSUME NEW i \in DOMAIN seqs PROVE seqs[i] \in Seq(S)
    <3>1. Len(seqs[i]) \in Nat /\ seqs[i] = [j \in 1 .. Len(seqs[i]) |-> seqs[i][j]]
      BY SeqIsFunction
    <3>2. DOMAIN seqs[i] = 1 .. Len(seqs[i])
      BY SeqIsFunction
    <3>3. \A j \in 1 .. Len(seqs[i]) : seqs[i][j] \in S
      BY <3>2
    <3> HIDE DEF S
    <3>4. seqs[i] \in [1 .. Len(seqs[i]) -> S]
      BY <3>1, <3>3
    <3>5. Seq(S) = UNION {[1 .. k -> S] : k \in Nat}
      BY SeqDef
    <3> QED
      BY <3>1, <3>4, <3>5
  <2> HIDE DEF S
  <2> QED
    BY <2>1
<1>3. \A e \in S : \E i \in DOMAIN seqs : \E j \in DOMAIN seqs[i] : e = seqs[i][j]
  OBVIOUS
<1> HIDE DEF S, n
<1>4. seqs \in Seq(Seq(S))
  <2>1. seqs \in [1 .. n -> Seq(S)]
    BY <1>1, <1>2
  <2>2. Seq(Seq(S)) = UNION {[1 .. k -> Seq(S)] : k \in Nat}
    BY SeqDef
  <2> QED
    BY <1>1, <2>1, <2>2
<1>5. FlattenSeq(seqs) \in Seq(S)
  BY <1>4, FlattenInSeq
<1>6. \A k \in DOMAIN FlattenSeq(seqs) : FlattenSeq(seqs)[k] \in S
  BY <1>5, ElementOfSeq, LenProperties
<1> QED
  BY <1>3, <1>5, <1>6 DEF IsSeq

\* What a filter leaves.
LEMMA FilterIsSeq ==
    ASSUME NEW s, IsSeq(s), NEW seqs, seqs = [i \in DOMAIN s |-> seqs[i]],
           \A i \in DOMAIN s : seqs[i] \in {<<s[i]>>, <<>>}
    PROVE  /\ IsSeq(FlattenSeq(seqs))
           /\ \A k \in DOMAIN FlattenSeq(seqs) : \E i \in DOMAIN s : FlattenSeq(seqs)[k] = s[i]
<1>1. IsSeq(seqs)
  <2>1. Len(s) \in Nat /\ DOMAIN s = 1 .. Len(s)
    BY SeqIsFunction
  <2> QED
    BY <2>1, FunctionIsSeq
<1>2. \A e : IsSeq(<<e>>) /\ DOMAIN <<e>> = {1} /\ <<e>>[1] = e
  <2>1. \A e : <<e>> \in Seq({e}) /\ DOMAIN <<e>> = {1} /\ <<e>>[1] = e
    OBVIOUS
  <2> QED
    BY <2>1 DEF IsSeq
<1>3. IsSeq(<<>>) /\ DOMAIN <<>> = {}
  BY EmptySeq DEF IsSeq
<1>4. DOMAIN seqs = DOMAIN s
  OBVIOUS
<1>5. \A i \in DOMAIN seqs : IsSeq(seqs[i])
  BY <1>2, <1>3, <1>4
<1>6. \A i \in DOMAIN seqs : \A j \in DOMAIN seqs[i] : seqs[i][j] = s[i]
  BY <1>2, <1>3, <1>4
<1>7. /\ IsSeq(FlattenSeq(seqs))
      /\ \A k \in DOMAIN FlattenSeq(seqs) :
            \E i \in DOMAIN seqs : \E j \in DOMAIN seqs[i] : FlattenSeq(seqs)[k] = seqs[i][j]
  BY <1>1, <1>5, FlattenIsSeq
<1>8. ASSUME NEW k \in DOMAIN FlattenSeq(seqs) PROVE \E i \in DOMAIN s : FlattenSeq(seqs)[k] = s[i]
  <2>1. PICK i \in DOMAIN seqs : \E j \in DOMAIN seqs[i] : FlattenSeq(seqs)[k] = seqs[i][j]
    BY <1>7
  <2>2. FlattenSeq(seqs)[k] = s[i]
    BY <1>6, <2>1
  <2> QED
    BY <1>4, <2>2
<1> QED
  BY <1>7, <1>8

-----------------------------------------------------------------------------
\* The steps of a batch

\* A sequence of none, one, two or four elements.
LEMMA TupleIsSeq ==
    /\ IsSeq(<<>>)
    /\ \A a : IsSeq(<<a>>) /\ DOMAIN <<a>> = {1} /\ <<a>>[1] = a
    /\ \A a, b : IsSeq(<<a, b>>) /\ DOMAIN <<a, b>> = {1, 2} /\ <<a, b>>[1] = a /\ <<a, b>>[2] = b
    /\ \A a, b, c, d : IsSeq(<<a, b, c, d>>)
<1>1. /\ <<>> \in Seq({})
      /\ \A a : <<a>> \in Seq({a}) /\ DOMAIN <<a>> = {1} /\ <<a>>[1] = a
      /\ \A a, b, c, d : <<a, b, c, d>> \in Seq({a, b, c, d})
  OBVIOUS
<1>2. \A a, b : <<a, b>> \in Seq({a, b}) /\ <<a, b>>[1] = a /\ <<a, b>>[2] = b
  OBVIOUS
<1>3. \A a, b : DOMAIN <<a, b>> = {1, 2}
  <2>1. \A a, b : DOMAIN <<a, b>> = 1 .. 2
    OBVIOUS
  <2>2. 1 .. 2 = {1, 2}
    OBVIOUS
  <2> QED
    BY <2>1, <2>2, Zenon
<1>4. IsSeq(<<>>)
  BY <1>1 DEF IsSeq
<1>5. ASSUME NEW a PROVE IsSeq(<<a>>)
  BY <1>1 DEF IsSeq
<1>6. ASSUME NEW a, NEW b PROVE IsSeq(<<a, b>>)
  BY <1>2 DEF IsSeq
<1>7. ASSUME NEW a, NEW b, NEW c, NEW d PROVE IsSeq(<<a, b, c, d>>)
  BY <1>1 DEF IsSeq
<1> QED
  BY <1>1, <1>2, <1>3, <1>4, <1>5, <1>6, <1>7

\* A function of the positions of a sequence is one too.
LEMMA MappedIsSeq ==
    ASSUME NEW s, IsSeq(s), NEW t, t = [i \in DOMAIN s |-> t[i]]
    PROVE  IsSeq(t) /\ DOMAIN t = DOMAIN s /\ Len(t) = Len(s)
<1>1. Len(s) \in Nat /\ DOMAIN s = 1 .. Len(s)
  BY SeqIsFunction
<1> QED
  BY <1>1, FunctionIsSeq

\* A step that can be undone and done again, operation by operation.
Recorded(stack) ==
    IsSeq(stack) /\ \A k \in DOMAIN stack : IsSeq(stack[k].undo) /\ IsSeq(stack[k].redo)

\* The step of a batch.
LEMMA StepIsRecorded ==
    ASSUME NEW objs, NEW batch, IsSeq(batch)
    PROVE  IsSeq(StepOf(objs, batch).undo) /\ IsSeq(StepOf(objs, batch).redo)
<1> DEFINE back == [i \in DOMAIN batch |-> InverseOf(objs, batch[i])]
           kept == [i \in DOMAIN batch |-> IF InverseOf(objs, batch[i]) # <<>> THEN <<batch[i]>> ELSE <<>>]
<1>1. StepOf(objs, batch) = [undo |-> FlattenSeq(back), redo |-> FlattenSeq(kept)]
  BY Zenon DEF StepOf, Filter
<1>2. IsSeq(FlattenSeq(back))
  <2>1. back = [i \in DOMAIN batch |-> back[i]] /\ \A i \in DOMAIN batch : IsSeq(back[i])
    <3>1. ASSUME NEW op PROVE IsSeq(InverseOf(objs, op))
      BY TupleIsSeq, Zenon DEF InverseOf
    <3> QED
      BY <3>1, Zenon
  <2> HIDE DEF back
  <2>2. IsSeq(back) /\ DOMAIN back = DOMAIN batch
    BY <2>1, MappedIsSeq
  <2> QED
    BY <2>1, <2>2, FlattenIsSeq
<1>3. IsSeq(FlattenSeq(kept))
  <2>1. kept = [i \in DOMAIN batch |-> kept[i]] /\ \A i \in DOMAIN batch : kept[i] \in {<<batch[i]>>, <<>>}
    BY Zenon
  <2> HIDE DEF kept
  <2> QED
    BY <2>1, FilterIsSeq
<1> HIDE DEF back, kept
<1> QED
  BY <1>1, <1>2, <1>3

\* The batches of a command that can be undone make a sequence of steps.
LEMMA StepsAreRecorded ==
    ASSUME NEW objs, NEW batches, IsSeq(batches), \A i \in DOMAIN batches : IsSeq(batches[i])
    PROVE  Recorded(StepsOf(objs, batches))
<1> DEFINE steps == [i \in DOMAIN batches |-> StepOf(objs, batches[i])]
           kept == [i \in DOMAIN steps |-> IF steps[i].undo # <<>> THEN <<steps[i]>> ELSE <<>>]
<1>1. StepsOf(objs, batches) = FlattenSeq(kept)
  BY Zenon DEF StepsOf, Filter
<1>2. /\ steps = [i \in DOMAIN batches |-> steps[i]]
      /\ \A i \in DOMAIN batches : IsSeq(steps[i].undo) /\ IsSeq(steps[i].redo)
  BY StepIsRecorded, Zenon
<1> HIDE DEF steps
<1>3. IsSeq(steps) /\ DOMAIN steps = DOMAIN batches
  BY <1>2, MappedIsSeq
<1>4. kept = [i \in DOMAIN steps |-> kept[i]] /\ \A i \in DOMAIN steps : kept[i] \in {<<steps[i]>>, <<>>}
  BY Zenon
<1> HIDE DEF kept
<1>5. /\ IsSeq(FlattenSeq(kept))
      /\ \A k \in DOMAIN FlattenSeq(kept) : \E i \in DOMAIN steps : FlattenSeq(kept)[k] = steps[i]
  BY <1>3, <1>4, FilterIsSeq
<1> QED
  BY <1>1, <1>2, <1>3, <1>5 DEF Recorded

\* The newest steps of a sequence are a stack.
LEMMA NewestIsStack ==
    ASSUME NEW s, IsSeq(s)
    PROVE  /\ H!IsStack(H!Newest(s))
           /\ Len(H!Newest(s)) = IF Len(s) <= Depth THEN Len(s) ELSE Depth
           /\ Len(s) <= Depth => H!Newest(s) = s
           /\ Len(s) > Depth =>
                 \A i \in 1 .. Depth : H!Newest(s)[i] = s[Len(s) - Depth + i]
<1> DEFINE n == Len(s)
           d == n - Depth
<1>1. n \in Nat /\ DOMAIN s = 1 .. n /\ s = [k \in 1 .. n |-> s[k]] /\ Depth \in Nat
  BY SeqIsFunction, DepthAssumption
<1>2. CASE n <= Depth
  <2>1. H!Newest(s) = s
    BY <1>2 DEF H!Newest
  <2> QED
    BY <1>1, <1>2, <2>1 DEF H!IsStack
<1>3. CASE n > Depth
  <2> DEFINE r == SubSeq(s, d + 1, n)
  <2>1. H!Newest(s) = r
    BY <1>1, <1>3 DEF H!Newest
  <2>2. PICK S : s \in Seq(S)
    BY DEF IsSeq
  <2>3. \A i \in d + 1 .. n : s[i] \in S
    BY <1>1, <1>3, <2>2, ElementOfSeq
  <2>4. d \in Nat /\ d + Depth = n /\ n \in Nat /\ Depth \in Nat
    BY <1>1, <1>3
  <2> HIDE DEF n, d
  <2>5. r \in Seq(S) /\ Len(r) = n - d /\ \A i \in 1 .. n - d : r[i] = s[d + i]
    <3>1. d + 1 \in Int /\ n \in Int
      BY <2>4
    <3> QED
      BY <2>3, <2>4, <3>1, SubSeqProperties
  <2> HIDE DEF r
  <2>6. IsSeq(r) /\ Len(r) = Depth /\ \A i \in 1 .. Depth : r[i] = s[d + i]
    <3>1. n - d = Depth
      BY <1>1, <2>4
    <3> QED
      BY <2>5, <3>1 DEF IsSeq
  <2>7. r = [k \in 1 .. Depth |-> r[k]]
    BY <2>6, SeqIsFunction
  <2>8. H!IsStack(r)
    BY <1>1, <2>6, <2>7 DEF H!IsStack
  <2> QED
    BY <1>1, <1>3, <2>1, <2>6, <2>8 DEF n, d
<1> QED
  BY <1>1, <1>2, <1>3

\* The last n of one sequence are the first n of another.
LEMMA SharedPart ==
    ASSUME NEW s, NEW t, IsSeq(s), IsSeq(t), NEW n \in 0 .. Len(s), n <= Len(t),
           \A i \in 1 .. n : t[i] = s[Len(s) - n + i]
    PROVE  SubSeq(s, Len(s) - n + 1, Len(s)) = SubSeq(t, 1, n)
<1>1. PICK S : s \in Seq(S)
  BY DEF IsSeq
<1>2. PICK T : t \in Seq(T)
  BY DEF IsSeq
<1> DEFINE m == Len(s)
           j == m - n
           a == SubSeq(s, j + 1, m)
           b == SubSeq(t, 1, n)
<1>3. m \in Nat /\ Len(t) \in Nat /\ n \in Nat /\ j \in Nat /\ m - j = n
  BY <1>1, <1>2, LenProperties
<1>4. \A i \in j + 1 .. m : s[i] \in S
  BY <1>1, <1>3, ElementOfSeq
<1>5. \A i \in 1 .. n : t[i] \in T
  BY <1>2, <1>3, ElementOfSeq
<1> HIDE DEF m, j
<1>6. a \in Seq(S) /\ Len(a) = m - j /\ \A i \in 1 .. m - j : a[i] = s[j + i]
  <2>1. j + 1 \in Int /\ m \in Int
    BY <1>3
  <2> QED
    BY <1>3, <1>4, <2>1, SubSeqProperties
<1>7. b \in Seq(T) /\ Len(b) = n /\ \A i \in 1 .. n : b[i] = t[i]
  <2>1. 1 \in Int /\ n \in Int
    BY <1>3
  <2> QED
    BY <1>3, <1>5, <2>1, SubSeqProperties
<1>8. \A i \in 1 .. n : a[i] = b[i]
  BY <1>3, <1>6, <1>7 DEF m, j
<1> HIDE DEF a, b
<1>9. a = [i \in 1 .. n |-> a[i]] /\ b = [i \in 1 .. n |-> b[i]]
  <2>1. IsSeq(a) /\ IsSeq(b) /\ Len(a) = n /\ Len(b) = n
    BY <1>3, <1>6, <1>7 DEF IsSeq
  <2> QED
    BY <2>1, SeqIsFunction
<1>10. a = b
  BY <1>8, <1>9
<1> QED
  BY <1>10 DEF a, b, j, m

\* pushUndo, for any sequence of steps.
LEMMA PushUndoPushes ==
    ASSUME HistoryInv, NEW steps, IsSeq(steps), PushUndo(steps)
    PROVE  H!Pushed \/ UNCHANGED <<undo, redo>>
<1> DEFINE all == undo \o steps
<1>1. /\ Len(undo) \in Nat /\ Len(steps) \in Nat /\ Depth \in Nat /\ Len(undo) <= Depth
      /\ IsSeq(undo) /\ IsSeq(redo) /\ Len(redo) \in Nat
  BY SeqIsFunction, DepthAssumption DEF HistoryInv, HistoryBounded, H!HistoryBounded
<1>2. /\ IsSeq(all) /\ Len(all) = Len(undo) + Len(steps)
      /\ \A i \in 1 .. Len(undo) + Len(steps) :
            all[i] = IF i <= Len(undo) THEN undo[i] ELSE steps[i - Len(undo)]
  BY <1>1, ConcatIsSeq
<1>3. undo' = H!Newest(all) /\ redo' = IF steps = <<>> THEN redo ELSE <<>>
  BY DEF PushUndo
<1> HIDE DEF all
<1>4. /\ H!IsStack(undo')
      /\ Len(undo') = IF Len(all) <= Depth THEN Len(all) ELSE Depth
      /\ Len(all) <= Depth => undo' = all
      /\ Len(all) > Depth => \A i \in 1 .. Depth : undo'[i] = all[Len(all) - Depth + i]
  BY <1>2, <1>3, NewestIsStack
<1>5. CASE steps = <<>>
  <2>1. Len(steps) = 0
    BY <1>5
  <2>2. undo' = all /\ Len(all) = Len(undo)
    BY <1>1, <1>2, <1>4, <2>1
  <2>3. \A i \in 1 .. Len(undo) : all[i] = undo[i]
    BY <1>1, <1>2, <2>1
  <2>4. all = [i \in 1 .. Len(undo) |-> all[i]] /\ undo = [i \in 1 .. Len(undo) |-> undo[i]]
    BY <1>1, <1>2, <2>2, SeqIsFunction
  <2>5. all = undo
    BY <2>3, <2>4
  <2> QED
    BY <1>3, <1>5, <2>2, <2>5
<1>6. CASE steps # <<>>
  <2> DEFINE n == IF Len(all) <= Depth THEN Len(undo)
                  ELSE IF Len(steps) >= Depth THEN 0 ELSE Depth - Len(steps)
  <2>1. /\ n \in 0 .. Len(undo)
        /\ n < Len(undo) => Len(undo') = Depth
        /\ n <= Len(undo')
    BY <1>1, <1>2, <1>4
  <2>2. \A i \in 1 .. n : undo'[i] = undo[Len(undo) - n + i]
    <3>0. Len(all) = Len(undo) + Len(steps)
      BY <1>2
    <3>1. CASE Len(all) <= Depth
      BY <1>1, <1>2, <1>4, <3>1
    <3>2. CASE Len(all) > Depth
      <4> SUFFICES ASSUME NEW i \in 1 .. n PROVE undo'[i] = undo[Len(undo) - n + i]
        OBVIOUS
      <4>1. n = Depth - Len(steps) /\ Len(steps) < Depth
        BY <1>1, <3>0, <3>2
      <4> HIDE DEF n
      <4>2. i \in 1 .. Depth /\ Len(all) - Depth + i = Len(undo) - n + i
        <5>1. i \in 1 .. Depth - Len(steps)
          BY <4>1
        <5> QED
          BY <1>1, <3>0, <4>1, <5>1
      <4>3. Len(undo) - n + i \in 1 .. Len(undo)
        <5>1. i \in Nat /\ n \in Nat /\ i >= 1 /\ i <= n /\ n <= Len(undo)
          BY <1>1, <2>1
        <5> QED
          BY <1>1, <5>1
      <4>4. undo'[i] = all[Len(undo) - n + i]
        BY <1>4, <3>2, <4>2
      <4> QED
        BY <1>1, <1>2, <4>3, <4>4
    <3>3. Len(all) \in Nat /\ Depth \in Nat
      BY <1>1, <3>0
    <3> HIDE DEF n
    <3> QED
      BY <3>1, <3>2, <3>3
  <2> HIDE DEF n
  <2>3. IsSeq(undo')
    BY <1>4, StackIsSeq
  <2>4. SubSeq(undo, Len(undo) - n + 1, Len(undo)) = SubSeq(undo', 1, n)
    BY <1>1, <2>1, <2>2, <2>3, SharedPart
  <2>5. redo' = <<>>
    BY <1>3, <1>6
  <2> QED
    BY <1>4, <2>1, <2>4, <2>5 DEF H!Pushed
<1> QED
  BY <1>5, <1>6

-----------------------------------------------------------------------------
\* Applying operations

\* The largest of a set of numbers up to its bound is that bound.
LEMMA MaxOfTop ==
    ASSUME NEW n \in Nat, NEW s \in SUBSET (1 .. n + 1), n + 1 \in s
    PROVE  Max(s) = n + 1
<1>1. \E x \in s : \A y \in s : x >= y
  OBVIOUS
<1>2. \A x \in s : (\A y \in s : x >= y) => x = n + 1
  OBVIOUS
<1> QED
  BY <1>1, <1>2 DEF Max

\* g is the recursion of the fold, on the sets of indices up to n.
ApplyingOps(g, n, objs, ops) ==
    g = [s \in SUBSET (1 .. n) |->
           IF s = {} THEN objs ELSE ApplyOp(g[s \ {Max(s)}], ops[Max(s)])]

\* The recursion has a solution.
LEMMA ApplyingExists ==
    ASSUME NEW objs, NEW ops
    PROVE  \A n \in Nat : \E g : ApplyingOps(g, n, objs, ops)
<1> DEFINE T == {n \in Nat : \E g : ApplyingOps(g, n, objs, ops)}
<1>1. 0 \in T
  <2> DEFINE g == [s \in SUBSET (1 .. 0) |-> objs]
  <2>1. \A s \in SUBSET (1 .. 0) : s = {}
    OBVIOUS
  <2>2. ApplyingOps(g, 0, objs, ops)
    BY <2>1, Zenon DEF ApplyingOps
  <2> QED
    BY <2>2
<1>2. ASSUME NEW n \in Nat, n \in T PROVE n + 1 \in T
  <2>1. PICK f : ApplyingOps(f, n, objs, ops)
    BY <1>2
  <2> DEFINE V(h, s) == IF s = {} THEN objs ELSE ApplyOp(h[s \ {Max(s)}], ops[Max(s)])
             g == [s \in SUBSET (1 .. n + 1) |->
                     IF s \in SUBSET (1 .. n) THEN f[s] ELSE V(f, s)]
  <2>2. \A s \in SUBSET (1 .. n) : f[s] = V(f, s) /\ s \in SUBSET (1 .. n + 1)
    <3>1. \A s \in SUBSET (1 .. n) : f[s] = V(f, s)
      BY <2>1, Zenon DEF ApplyingOps
    <3>2. 1 .. n \subseteq 1 .. n + 1
      OBVIOUS
    <3> QED
      BY <3>1, <3>2, Zenon
  <2>3. \A s \in SUBSET (1 .. n + 1) : s \ {Max(s)} \in SUBSET (1 .. n)
    <3>1. ASSUME NEW s \in SUBSET (1 .. n + 1), n + 1 \in s
          PROVE  s \ {Max(s)} \in SUBSET (1 .. n)
      <4>1. Max(s) = n + 1
        BY <3>1, MaxOfTop
      <4>2. s \ {n + 1} \in SUBSET (1 .. n)
        OBVIOUS
      <4> QED
        BY <4>1, <4>2, Zenon
    <3>2. ASSUME NEW s \in SUBSET (1 .. n + 1), n + 1 \notin s
          PROVE  s \ {Max(s)} \in SUBSET (1 .. n)
      <4>1. s \in SUBSET (1 .. n)
        BY <3>2
      <4> QED
        BY <4>1, Zenon
    <3> QED
      BY <3>1, <3>2
  <2>4. \A s \in SUBSET (1 .. n + 1) : V(g, s) = V(f, s)
    <3>1. \A s \in SUBSET (1 .. n) : g[s] = f[s]
      BY <2>2, Zenon
    <3>2. \A s \in SUBSET (1 .. n + 1) : g[s \ {Max(s)}] = f[s \ {Max(s)}]
      BY <2>3, <3>1, Zenon
    <3> HIDE DEF g
    <3> QED
      BY <3>2, Zenon
  <2>5. \A s \in SUBSET (1 .. n + 1) : g[s] = V(f, s)
    <3>1. ASSUME NEW s \in SUBSET (1 .. n + 1) PROVE g[s] = V(f, s)
      <4> HIDE DEF V
      <4>1. g[s] = IF s \in SUBSET (1 .. n) THEN f[s] ELSE V(f, s)
        BY Zenon
      <4> QED
        BY <2>2, <4>1, Zenon
    <3> HIDE DEF g, V
    <3> QED
      BY <3>1, Zenon
  <2>6. g = [s \in SUBSET (1 .. n + 1) |-> V(g, s)]
    <3>1. g = [s \in SUBSET (1 .. n + 1) |-> g[s]]
      BY Zenon
    <3> HIDE DEF g, V
    <3> QED
      BY <2>4, <2>5, <3>1, Zenon
  <2>7. ApplyingOps(g, n + 1, objs, ops)
    BY <2>6, Zenon DEF ApplyingOps
  <2> HIDE DEF g
  <2> QED
    BY <2>7
<1> HIDE DEF T
<1>3. Nat \subseteq T
  BY <1>1, <1>2, SetInduction, Zenon
<1> QED
  BY <1>3 DEF T


\* Applying operations leaves finitely many objects.
LEMMA ApplyOpFinite ==
    ASSUME NEW objs, NEW op, IsFiniteSet(DOMAIN objs)
    PROVE  IsFiniteSet(DOMAIN ApplyOp(objs, op))
<1>1. CASE op.type = "create"
  <2>1. DOMAIN ApplyOp(objs, op) = DOMAIN objs \cup {op.id}
    BY <1>1, Zenon DEF ApplyOp, Put
  <2> QED
    BY <2>1, FS_AddElement
<1>2. CASE op.type # "create" /\ (op.id \notin DOMAIN objs \/ op.type = "update")
  <2>1. DOMAIN ApplyOp(objs, op) = DOMAIN objs
    BY <1>2 DEF ApplyOp
  <2> QED
    BY <2>1
<1>3. CASE op.type # "create" /\ op.id \in DOMAIN objs /\ op.type # "update"
  <2>1. ApplyOp(objs, op) = Cascade(objs, op.id)
    BY <1>3, Zenon DEF ApplyOp
  <2>2. DOMAIN Cascade(objs, op.id) \subseteq DOMAIN objs
    BY DEF Cascade
  <2> QED
    BY <2>1, <2>2, FS_Subset
<1> QED
  BY <1>1, <1>2, <1>3

\* The same of many.
LEMMA ApplyOpsFinite ==
    ASSUME NEW objs, NEW ops, IsFiniteSet(DOMAIN objs), IsSeq(ops)
    PROVE  IsFiniteSet(DOMAIN ApplyOps(objs, ops))
<1> DEFINE n == Len(ops)
<1>1. n \in Nat /\ DOMAIN ops = 1 .. n
  BY SeqIsFunction
<1> HIDE DEF n
<1>2. \E g : ApplyingOps(g, n, objs, ops)
  BY <1>1, ApplyingExists
<1> DEFINE G == CHOOSE g : ApplyingOps(g, n, objs, ops)
<1>3. ApplyingOps(G, n, objs, ops)
  BY <1>2
<1>4. ApplyOps(objs, ops) = G[1 .. n]
  BY <1>1, Zenon DEF ApplyingOps, ApplyOps, FoldLeft, MapThenFoldSet
<1> HIDE DEF G
<1> DEFINE T == {k \in Nat : k <= n => IsFiniteSet(DOMAIN G[1 .. k])}
<1>5. 0 \in T
  <2>1. 1 .. 0 = {} /\ {} \in SUBSET (1 .. n)
    OBVIOUS
  <2>2. G[{}] = objs
    BY <1>3, <2>1, Zenon DEF ApplyingOps
  <2> QED
    BY <2>1, <2>2
<1>6. ASSUME NEW k \in Nat, k \in T PROVE k + 1 \in T
  <2> SUFFICES ASSUME k + 1 <= n PROVE IsFiniteSet(DOMAIN G[1 .. k + 1])
    OBVIOUS
  <2>1. IsFiniteSet(DOMAIN G[1 .. k])
    BY <1>1, <1>6
  <2>2. 1 .. k + 1 \in SUBSET (1 .. n) /\ 1 .. k + 1 # {}
    BY <1>1
  <2>3. Max(1 .. k + 1) = k + 1
    BY MaxOfTop
  <2>4. (1 .. k + 1) \ {k + 1} = 1 .. k
    OBVIOUS
  <2>5. G[1 .. k + 1] = ApplyOp(G[1 .. k], ops[k + 1])
    BY <1>3, <2>2, <2>3, <2>4, Zenon DEF ApplyingOps
  <2> QED
    BY <2>1, <2>5, ApplyOpFinite
<1>7. n \in T
  <2> HIDE DEF T
  <2>1. Nat \subseteq T
    BY <1>5, <1>6, SetInduction, Zenon
  <2> QED
    BY <1>1, <2>1
<1> QED
  BY <1>1, <1>4, <1>7

-----------------------------------------------------------------------------
\* Recorded steps

\* Recorded steps put together.
LEMMA ConcatRecorded ==
    ASSUME NEW s, NEW t, Recorded(s), Recorded(t)
    PROVE  Recorded(s \o t)
<1>1. IsSeq(s) /\ IsSeq(t)
  BY DEF Recorded
<1>2. /\ Len(s) \in Nat /\ DOMAIN s = 1 .. Len(s)
      /\ Len(t) \in Nat /\ DOMAIN t = 1 .. Len(t)
  BY <1>1, SeqIsFunction
<1> DEFINE all == s \o t
<1>3. /\ IsSeq(all) /\ Len(all) = Len(s) + Len(t)
      /\ \A i \in 1 .. Len(s) + Len(t) : all[i] = IF i <= Len(s) THEN s[i] ELSE t[i - Len(s)]
  BY <1>1, ConcatIsSeq
<1>4. DOMAIN all = 1 .. Len(s) + Len(t)
  BY <1>3, SeqIsFunction
<1> HIDE DEF all
<1>5. ASSUME NEW k \in DOMAIN all PROVE IsSeq(all[k].undo) /\ IsSeq(all[k].redo)
  <2>1. CASE k <= Len(s)
    <3>1. k \in DOMAIN s /\ all[k] = s[k]
      BY <1>2, <1>3, <1>4, <2>1
    <3> QED
      BY <3>1 DEF Recorded
  <2>2. CASE ~(k <= Len(s))
    <3>1. k - Len(s) \in DOMAIN t /\ all[k] = t[k - Len(s)]
      BY <1>2, <1>3, <1>4, <2>2
    <3> QED
      BY <3>1 DEF Recorded
  <2> QED
    BY <2>1, <2>2
<1> QED
  BY <1>3, <1>5 DEF Recorded, all

\* The newest of recorded steps.
LEMMA NewestRecorded ==
    ASSUME NEW s, Recorded(s)
    PROVE  Recorded(H!Newest(s))
<1> DEFINE r == H!Newest(s)
<1>1. /\ IsSeq(s) /\ Len(s) \in Nat /\ DOMAIN s = 1 .. Len(s) /\ Depth \in Nat
  BY SeqIsFunction, DepthAssumption DEF Recorded
<1>2. /\ H!IsStack(r)
      /\ Len(r) = IF Len(s) <= Depth THEN Len(s) ELSE Depth
      /\ Len(s) <= Depth => r = s
      /\ Len(s) > Depth => \A i \in 1 .. Depth : r[i] = s[Len(s) - Depth + i]
  BY <1>1, NewestIsStack
<1> HIDE DEF r
<1>3. IsSeq(r) /\ DOMAIN r = 1 .. Len(r)
  BY <1>2, StackIsSeq, SeqIsFunction
<1>4. CASE Len(s) <= Depth
  BY <1>2, <1>4 DEF r
<1>5. CASE Len(s) > Depth
  <2>1. ASSUME NEW k \in DOMAIN r PROVE IsSeq(r[k].undo) /\ IsSeq(r[k].redo)
    <3>1. Len(r) = Depth
      <4>1. ~(Len(s) <= Depth)
        BY <1>1, <1>5
      <4> QED
        BY <1>2, <4>1, Zenon
    <3>2. k \in 1 .. Depth
      BY <1>3, <3>1
    <3>3. r[k] = s[Len(s) - Depth + k]
      BY <1>2, <1>5, <3>2
    <3>4. Len(s) - Depth + k \in DOMAIN s
      BY <1>1, <1>5, <3>2
    <3> QED
      BY <3>3, <3>4 DEF Recorded
  <2> QED
    BY <1>3, <2>1 DEF Recorded, r
<1> QED
  BY <1>1, <1>4, <1>5

\* pushUndo keeps recorded steps.
LEMMA PushRecorded ==
    ASSUME Recorded(undo), Recorded(redo), NEW steps, Recorded(steps), PushUndo(steps)
    PROVE  Recorded(undo') /\ Recorded(redo')
<1>1. Recorded(<<>>)
  <2>1. DOMAIN <<>> = {}
    OBVIOUS
  <2> QED
    BY <2>1, TupleIsSeq DEF Recorded
<1>2. Recorded(undo')
  BY ConcatRecorded, NewestRecorded DEF PushUndo
<1>3. redo' = redo \/ redo' = <<>>
  BY DEF PushUndo
<1> QED
  BY <1>1, <1>2, <1>3 DEF Recorded

\* Taking the last step off, and putting it onto the other stack.
LEMMA MovedRecorded ==
    ASSUME NEW s, NEW t, Recorded(s), Recorded(t), s # <<>>
    PROVE  /\ Recorded(SubSeq(s, 1, Len(s) - 1))
           /\ Recorded(Append(t, s[Len(s)]))
           /\ IsSeq(s[Len(s)].undo) /\ IsSeq(s[Len(s)].redo)
<1>1. /\ IsSeq(s) /\ Len(s) \in Nat /\ DOMAIN s = 1 .. Len(s)
      /\ IsSeq(t) /\ Len(t) \in Nat /\ DOMAIN t = 1 .. Len(t)
  BY SeqIsFunction DEF Recorded
<1> DEFINE r == SubSeq(s, 1, Len(s) - 1)
           a == Append(t, s[Len(s)])
<1>2. IsSeq(r) /\ Len(r) = Len(s) - 1 /\ Len(s) >= 1
  BY <1>1, Shortened
<1>3. IsSeq(a) /\ Len(a) = Len(t) + 1
  BY <1>1, Lengthened
<1>4. DOMAIN r = 1 .. Len(s) - 1 /\ DOMAIN a = 1 .. Len(t) + 1
  BY <1>2, <1>3, SeqIsFunction
<1>5. IsSeq(s[Len(s)].undo) /\ IsSeq(s[Len(s)].redo)
  BY <1>1, <1>2 DEF Recorded
<1>6. \A k \in 1 .. Len(s) - 1 : r[k] = s[k]
  <2>1. PICK S : s \in Seq(S)
    BY <1>1 DEF IsSeq
  <2> DEFINE n == Len(s) - 1
  <2>2. n \in Nat /\ 1 \in Int /\ n \in Int /\ \A i \in 1 .. n : s[i] \in S
    BY <1>1, <1>2, <2>1
  <2> HIDE DEF n
  <2>3. \A i \in 1 .. n - 1 + 1 : SubSeq(s, 1, n)[i] = s[1 + i - 1]
    BY <2>2, SubSeqProperties
  <2>4. \A i \in 1 .. n : SubSeq(s, 1, n)[i] = s[i]
    BY <2>2, <2>3
  <2> QED
    BY <2>4 DEF n
<1>7. \A k \in 1 .. Len(t) + 1 : a[k] = IF k <= Len(t) THEN t[k] ELSE s[Len(s)]
  <2>1. PICK T : t \in Seq(T)
    BY <1>1 DEF IsSeq
  <2>2. t \in Seq(T \cup {s[Len(s)]}) /\ s[Len(s)] \in T \cup {s[Len(s)]}
    BY <2>1
  <2>3. /\ \A i \in 1 .. Len(t) : a[i] = t[i]
        /\ a[Len(t) + 1] = s[Len(s)]
    BY <2>2, AppendProperties
  <2> QED
    BY <1>1, <2>3
<1> HIDE DEF r, a
<1>8. Recorded(r)
  BY <1>1, <1>2, <1>4, <1>6 DEF Recorded
<1>9. Recorded(a)
  BY <1>1, <1>3, <1>4, <1>5, <1>7 DEF Recorded
<1> QED
  BY <1>5, <1>8, <1>9 DEF r, a

-----------------------------------------------------------------------------
\* Commands

\* The batches of a command, and the operations of each, are sequences.
Batched(batches) == IsSeq(batches) /\ \A i \in DOMAIN batches : IsSeq(batches[i])

\* What the steps of the stacks rest on: a browser's board has finitely many
\* objects, and what is selected, copied and recorded are sequences.
BoardInv ==
    /\ IsFiniteSet(DOMAIN objects) /\ IsFiniteSet(DOMAIN server) /\ IsFiniteSet(DOMAIN script.objects)
    /\ IsSeq(selected) /\ IsSeq(clip)
    /\ Recorded(undo) /\ Recorded(redo)

\* What a step of the stacks may be.
HistoryStep == H!HistoryNext \/ UNCHANGED <<undo, redo>>

\* The server's copy of what is sent.
LEMMA ServerFinite ==
    ASSUME NEW objs, NEW ops, IsFiniteSet(DOMAIN objs), IsSeq(ops)
    PROVE  IsFiniteSet(DOMAIN ServerApplyOps(objs, ops))
<1> DEFINE kept == [i \in DOMAIN ops |-> IF ~Refused(ops[i]) THEN <<ops[i]>> ELSE <<>>]
<1>1. ServerApplyOps(objs, ops) = ApplyOps(objs, FlattenSeq(kept))
  BY Zenon DEF ServerApplyOps, Filter
<1>2. kept = [i \in DOMAIN ops |-> kept[i]] /\ \A i \in DOMAIN ops : kept[i] \in {<<ops[i]>>, <<>>}
  BY Zenon
<1> HIDE DEF kept
<1>3. IsSeq(FlattenSeq(kept))
  BY <1>2, FilterIsSeq
<1> QED
  BY <1>1, <1>3, ApplyOpsFinite

\* A command: its steps are pushed, and the boards stay finite.
LEMMA DoStep ==
    ASSUME HistoryInv, BoardInv, NEW batches, Batched(batches), Do(batches)
    PROVE  /\ HistoryStep
           /\ IsFiniteSet(DOMAIN objects') /\ IsFiniteSet(DOMAIN server')
           /\ Recorded(undo') /\ Recorded(redo')
<1> DEFINE sent == [i \in DOMAIN batches |-> Sent(objects, batches[i])]
<1>1. /\ objects' = ApplyOps(objects, FlattenSeq(sent))
      /\ server' = ServerApplyOps(server, FlattenSeq(sent))
      /\ PushUndo(StepsOf(objects, sent))
  BY Zenon DEF Do
<1>2. sent = [i \in DOMAIN batches |-> sent[i]] /\ \A i \in DOMAIN batches : IsSeq(sent[i])
  <2>1. ASSUME NEW batch, IsSeq(batch) PROVE IsSeq(Sent(objects, batch))
    <3> DEFINE kept == [i \in DOMAIN batch |-> IF batch[i].type = "delete" => batch[i].id \in DOMAIN objects
                                               THEN <<batch[i]>> ELSE <<>>]
    <3>1. Sent(objects, batch) = FlattenSeq(kept)
      BY Zenon DEF Sent, Filter
    <3>2. kept = [i \in DOMAIN batch |-> kept[i]] /\ \A i \in DOMAIN batch : kept[i] \in {<<batch[i]>>, <<>>}
      BY Zenon
    <3> HIDE DEF kept
    <3> QED
      BY <2>1, <3>1, <3>2, FilterIsSeq
  <2> QED
    BY <2>1, Zenon DEF Batched
<1> HIDE DEF sent
<1>3. IsSeq(sent) /\ DOMAIN sent = DOMAIN batches
  BY <1>2, MappedIsSeq DEF Batched
<1>4. IsSeq(FlattenSeq(sent))
  BY <1>2, <1>3, FlattenIsSeq
<1>5. Recorded(StepsOf(objects, sent))
  BY <1>2, <1>3, StepsAreRecorded
<1>6. H!Pushed \/ UNCHANGED <<undo, redo>>
  BY <1>1, <1>5, PushUndoPushes DEF Recorded
<1>7. Recorded(undo') /\ Recorded(redo')
  BY <1>1, <1>5, PushRecorded DEF BoardInv
<1>8. IsFiniteSet(DOMAIN objects') /\ IsFiniteSet(DOMAIN server')
  BY <1>1, <1>4, ApplyOpsFinite, ServerFinite DEF BoardInv
<1> QED
  BY <1>6, <1>7, <1>8 DEF HistoryStep, H!HistoryNext

\* What every step does.
Stepped == HistoryStep /\ BoardInv'

\* An edit.
LEMMA EditStep ==
    ASSUME HistoryInv, BoardInv, NEW name, NEW batches, NEW sel, Edit(name, batches, sel),
           Batched(batches), IsSeq(sel)
    PROVE  Stepped
<1>1. Do(batches) /\ selected' = sel /\ clip' = clip /\ script' = script
  BY DEF Edit, Command
<1>2. /\ HistoryStep
      /\ IsFiniteSet(DOMAIN objects') /\ IsFiniteSet(DOMAIN server')
      /\ Recorded(undo') /\ Recorded(redo')
  BY <1>1, DoStep
<1> QED
  BY <1>1, <1>2 DEF Stepped, BoardInv, IsSeq

\* One batch, or two.
LEMMA FewBatches ==
    /\ \A a : IsSeq(a) => Batched(<<a>>)
    /\ \A a, b : IsSeq(a) /\ IsSeq(b) => Batched(<<a, b>>)
<1>1. ASSUME NEW a, IsSeq(a) PROVE Batched(<<a>>)
  BY <1>1, TupleIsSeq DEF Batched
<1>2. ASSUME NEW a, NEW b, IsSeq(a), IsSeq(b) PROVE Batched(<<a, b>>)
  BY <1>2, TupleIsSeq DEF Batched
<1> QED
  BY <1>1, <1>2

\* One batch for each operation.
LEMMA SinglyBatched ==
    ASSUME NEW ops, IsSeq(ops)
    PROVE  Batched(Singly(ops))
<1> DEFINE g == Singly(ops)
<1>1. g = [i \in DOMAIN ops |-> g[i]] /\ \A i \in DOMAIN ops : g[i] = <<ops[i]>>
  BY Zenon DEF Singly
<1> HIDE DEF g
<1>2. IsSeq(g) /\ DOMAIN g = DOMAIN ops
  BY <1>1, MappedIsSeq
<1>3. \A i \in DOMAIN g : IsSeq(g[i])
  <2>1. \A e : IsSeq(<<e>>)
    BY TupleIsSeq
  <2>2. \A i \in DOMAIN ops : IsSeq(g[i])
    BY <1>1, <2>1, Zenon
  <2> QED
    BY <1>2, <2>2
<1> QED
  BY <1>2, <1>3 DEF g, Batched

\* Patches that make a sequence.
LEMMA PatchStep ==
    ASSUME HistoryInv, BoardInv, NEW name, NEW patches, ApplyPatches(name, patches), IsSeq(patches)
    PROVE  Stepped
<1> DEFINE g == Updates(patches)
<1>1. Edit(name, <<g>>, selected)
  BY DEF ApplyPatches
<1>2. g = [i \in DOMAIN patches |-> g[i]]
  BY Zenon DEF Updates
<1> HIDE DEF g
<1>3. IsSeq(g)
  BY <1>2, MappedIsSeq
<1>4. Batched(<<g>>)
  BY <1>3, FewBatches
<1>5. IsSeq(selected)
  BY DEF BoardInv
<1> QED
  BY <1>1, <1>4, <1>5, EditStep

-----------------------------------------------------------------------------
\* Patches

\* One trade of StepPatches.
Trade(dir, ids, objs, st, x) ==
    LET i == SelectInSeq(st.stack, LAMBDA y : y = x)
        j == i + dir IN
    IF x \notin ToSet(ids) \/ j \notin DOMAIN st.stack \/ st.stack[j] \in ToSet(ids)
    THEN st
    ELSE LET y == st.stack[j] IN
         [stack |-> [st.stack EXCEPT ![i] = y, ![j] = x],
          out |-> st.out \o <<Patch(x, "z", objs[y].z), Patch(y, "z", objs[x].z)>>]

\* g is the recursion of the fold, on the sets of indices up to n.
Trading(g, n, dir, ids, objs, order, base) ==
    g = [s \in SUBSET (1 .. n) |->
           IF s = {} THEN base ELSE Trade(dir, ids, objs, g[s \ {Max(s)}], order[Max(s)])]

\* The recursion has a solution.
LEMMA TradingExists ==
    ASSUME NEW dir, NEW ids, NEW objs, NEW order, NEW base
    PROVE  \A n \in Nat : \E g : Trading(g, n, dir, ids, objs, order, base)
<1> DEFINE T == {n \in Nat : \E g : Trading(g, n, dir, ids, objs, order, base)}
<1>1. 0 \in T
  <2> DEFINE g == [s \in SUBSET (1 .. 0) |-> base]
  <2>1. \A s \in SUBSET (1 .. 0) : s = {}
    OBVIOUS
  <2>2. Trading(g, 0, dir, ids, objs, order, base)
    BY <2>1, Zenon DEF Trading
  <2> QED
    BY <2>2
<1>2. ASSUME NEW n \in Nat, n \in T PROVE n + 1 \in T
  <2>1. PICK f : Trading(f, n, dir, ids, objs, order, base)
    BY <1>2
  <2> DEFINE V(h, s) == IF s = {} THEN base ELSE Trade(dir, ids, objs, h[s \ {Max(s)}], order[Max(s)])
             g == [s \in SUBSET (1 .. n + 1) |->
                     IF s \in SUBSET (1 .. n) THEN f[s] ELSE V(f, s)]
  <2>2. \A s \in SUBSET (1 .. n) : f[s] = V(f, s) /\ s \in SUBSET (1 .. n + 1)
    <3>1. \A s \in SUBSET (1 .. n) : f[s] = V(f, s)
      BY <2>1, Zenon DEF Trading
    <3>2. 1 .. n \subseteq 1 .. n + 1
      OBVIOUS
    <3> QED
      BY <3>1, <3>2, Zenon
  <2>3. \A s \in SUBSET (1 .. n + 1) : s \ {Max(s)} \in SUBSET (1 .. n)
    <3>1. ASSUME NEW s \in SUBSET (1 .. n + 1), n + 1 \in s
          PROVE  s \ {Max(s)} \in SUBSET (1 .. n)
      <4>1. Max(s) = n + 1
        BY <3>1, MaxOfTop
      <4>2. s \ {n + 1} \in SUBSET (1 .. n)
        OBVIOUS
      <4> QED
        BY <4>1, <4>2, Zenon
    <3>2. ASSUME NEW s \in SUBSET (1 .. n + 1), n + 1 \notin s
          PROVE  s \ {Max(s)} \in SUBSET (1 .. n)
      <4>1. s \in SUBSET (1 .. n)
        BY <3>2
      <4> QED
        BY <4>1, Zenon
    <3> QED
      BY <3>1, <3>2
  <2>4. \A s \in SUBSET (1 .. n + 1) : V(g, s) = V(f, s)
    <3>1. \A s \in SUBSET (1 .. n) : g[s] = f[s]
      BY <2>2, Zenon
    <3>2. \A s \in SUBSET (1 .. n + 1) : g[s \ {Max(s)}] = f[s \ {Max(s)}]
      BY <2>3, <3>1, Zenon
    <3> HIDE DEF g
    <3> QED
      BY <3>2, Zenon
  <2>5. \A s \in SUBSET (1 .. n + 1) : g[s] = V(f, s)
    <3>1. ASSUME NEW s \in SUBSET (1 .. n + 1) PROVE g[s] = V(f, s)
      <4> HIDE DEF V
      <4>1. g[s] = IF s \in SUBSET (1 .. n) THEN f[s] ELSE V(f, s)
        BY Zenon
      <4> QED
        BY <2>2, <4>1, Zenon
    <3> HIDE DEF g, V
    <3> QED
      BY <3>1, Zenon
  <2>6. g = [s \in SUBSET (1 .. n + 1) |-> V(g, s)]
    <3>1. g = [s \in SUBSET (1 .. n + 1) |-> g[s]]
      BY Zenon
    <3> HIDE DEF g, V
    <3> QED
      BY <2>4, <2>5, <3>1, Zenon
  <2>7. Trading(g, n + 1, dir, ids, objs, order, base)
    BY <2>6, Zenon DEF Trading
  <2> HIDE DEF g
  <2> QED
    BY <2>7
<1> HIDE DEF T
<1>3. Nat \subseteq T
  BY <1>1, <1>2, SetInduction, Zenon
<1> QED
  BY <1>3 DEF T


\* The trades make a sequence of patches.
LEMMA TradesAreSeq ==
    ASSUME NEW dir, NEW ids, NEW objs, NEW order, NEW base, NEW n \in Nat, NEW G,
           IsSeq(base.out), Trading(G, n, dir, ids, objs, order, base)
    PROVE  IsSeq(G[1 .. n].out)
<1> DEFINE T == {k \in Nat : k <= n => IsSeq(G[1 .. k].out)}
<1>5. 0 \in T
  <2>1. 1 .. 0 = {} /\ {} \in SUBSET (1 .. n)
    OBVIOUS
  <2>2. G[{}] = base
    BY <2>1, Zenon DEF Trading
  <2> QED
    BY <2>1, <2>2
<1>6. ASSUME NEW k \in Nat, k \in T PROVE k + 1 \in T
  <2> SUFFICES ASSUME k + 1 <= n PROVE IsSeq(G[1 .. k + 1].out)
    OBVIOUS
  <2>1. IsSeq(G[1 .. k].out)
    BY <1>6
  <2>2. 1 .. k + 1 \in SUBSET (1 .. n) /\ 1 .. k + 1 # {}
    OBVIOUS
  <2>3. Max(1 .. k + 1) = k + 1
    BY MaxOfTop
  <2>4. (1 .. k + 1) \ {k + 1} = 1 .. k
    OBVIOUS
  <2>5. G[1 .. k + 1] = Trade(dir, ids, objs, G[1 .. k], order[k + 1])
    BY <2>2, <2>3, <2>4, Zenon DEF Trading
  <2>6. ASSUME NEW st, NEW x, IsSeq(st.out) PROVE IsSeq(Trade(dir, ids, objs, st, x).out)
    <3>1. \A a, b : IsSeq(st.out \o <<a, b>>)
      BY <2>6, TupleIsSeq, ConcatIsSeq
    <3> DEFINE i == SelectInSeq(st.stack, LAMBDA y : y = x)
               j == i + dir
               y == st.stack[j]
               done == [stack |-> [st.stack EXCEPT ![i] = y, ![j] = x],
                        out |-> st.out \o <<Patch(x, "z", objs[y].z), Patch(y, "z", objs[x].z)>>]
    <3>2. Trade(dir, ids, objs, st, x) =
             IF x \notin ToSet(ids) \/ j \notin DOMAIN st.stack \/ st.stack[j] \in ToSet(ids)
             THEN st ELSE done
      BY Zenon DEF Trade
    <3>3. done.out = st.out \o <<Patch(x, "z", objs[y].z), Patch(y, "z", objs[x].z)>>
      BY Zenon
    <3> HIDE DEF i, j, y, done
    <3>4. IsSeq(done.out)
      BY <3>1, <3>3, Zenon
    <3>5. Trade(dir, ids, objs, st, x) = st \/ Trade(dir, ids, objs, st, x) = done
      BY <3>2, Zenon
    <3> QED
      BY <2>6, <3>4, <3>5, Zenon
  <2> QED
    BY <2>1, <2>5, <2>6
<1>7. n \in T
  <2> HIDE DEF T
  <2>1. Nat \subseteq T
    BY <1>5, <1>6, SetInduction, Zenon
  <2> QED
    BY <2>1
<1> QED
  BY <1>7

\* The targets of the layout bar.
LEMMA TargetsAreSeq ==
    ASSUME NEW objs, NEW ids, IsSeq(ids)
    PROVE  IsSeq(LayoutTargets(objs, ids))
<1> DEFINE kept == [i \in DOMAIN ids |-> IF ids[i] \in Unconnected(objs, DOMAIN objs)
                                         THEN <<ids[i]>> ELSE <<>>]
<1>1. LayoutTargets(objs, ids) = FlattenSeq(kept)
  BY Zenon DEF LayoutTargets, Filter
<1>2. kept = [i \in DOMAIN ids |-> kept[i]] /\ \A i \in DOMAIN ids : kept[i] \in {<<ids[i]>>, <<>>}
  BY Zenon
<1> HIDE DEF kept
<1> QED
  BY <1>1, <1>2, FilterIsSeq

\* Aligned.
LEMMA AlignIsSeq ==
    ASSUME NEW objs, NEW ids, IsSeq(ids), NEW kind
    PROVE  IsSeq(AlignPatches(kind, ids, objs))
<1> DEFINE items == LayoutTargets(objs, ids)
           p == AlignPatches(kind, ids, objs)
<1>1. IsSeq(items)
  BY TargetsAreSeq
<1>2. p = <<>> \/ \E t : p = [i \in DOMAIN items |-> t[i]]
  <2> DEFINE axis == IF kind \in {"left", "center", "right"} THEN "x" ELSE "y"
             size == Size(axis)
             b(i) == ObjectAABB(objs[items[i]])
             lo == Min({b(i)[axis] : i \in DOMAIN items})
             hi == Max({b(i)[axis] + b(i)[size] : i \in DOMAIN items})
             to(i) == CASE kind \in {"left", "top"} -> lo
                        [] kind \in {"right", "bottom"} -> hi - b(i)[size]
                        [] OTHER -> (lo + hi) \div 2 - b(i)[size] \div 2
             t == [i \in DOMAIN items |-> Patch(items[i], axis, to(i) + objs[items[i]][axis] - b(i)[axis])]
  <2>1. p = IF Len(items) < 2 THEN <<>> ELSE t
    BY Zenon DEF AlignPatches
  <2>2. t = [i \in DOMAIN items |-> t[i]]
    BY Zenon
  <2> HIDE DEF t, items, p
  <2> QED
    BY <2>1, <2>2, Zenon
<1> HIDE DEF items, p
<1>3. ASSUME NEW t, p = [i \in DOMAIN items |-> t[i]] PROVE IsSeq(p)
  <2>1. p = [i \in DOMAIN items |-> p[i]]
    BY <1>3
  <2> QED
    BY <1>1, <2>1, MappedIsSeq
<1>4. IsSeq(p)
  BY <1>2, <1>3, TupleIsSeq
<1> QED
  BY <1>4 DEF p

\* Distributed.
LEMMA DistributeIsSeq ==
    ASSUME NEW objs, NEW ids, IsSeq(ids), NEW axis
    PROVE  IsSeq(DistributePatches(axis, ids, objs))
<1> DEFINE items == LayoutTargets(objs, ids)
           p == DistributePatches(axis, ids, objs)
           n == Len(items)
<1>1. n \in Nat
  BY TargetsAreSeq, SeqIsFunction
<1>2. p = <<>> \/ p = [i \in 1 .. n |-> p[i]]
  <2> DEFINE size == Size(axis)
             b(x) == ObjectAABB(objs[x])
             before(x, y) == \/ b(x)[axis] < b(y)[axis]
                             \/ /\ b(x)[axis] = b(y)[axis]
                                /\ \E i, j \in DOMAIN items : i < j /\ items[i] = x /\ items[j] = y
             row == Sorted(ToSet(items), before)
             taken == CHOOSE f : f = [i \in 0 .. n |-> IF i = 0 THEN 0 ELSE f[i - 1] + b(row[i])[size]]
             span == b(row[n])[axis] + b(row[n])[size] - b(row[1])[axis]
             gap == (span - taken[n]) \div (n - 1)
             to(i) == b(row[1])[axis] + taken[i - 1] + (i - 1) * gap
             t == [i \in 1 .. n |-> Patch(row[i], axis, to(i) + objs[row[i]][axis] - b(row[i])[axis])]
  <2>1. p = IF n < 3 THEN <<>> ELSE t
    BY Zenon DEF DistributePatches
  <2> HIDE DEF n, items, p, row, taken, span, gap, to, b
  <2>2. t = [i \in 1 .. n |-> t[i]]
    BY Zenon
  <2> HIDE DEF t
  <2> QED
    BY <2>1, <2>2, Zenon
<1> HIDE DEF items, p, n
<1>3. IsSeq(p)
  BY <1>1, <1>2, FunctionIsSeq, TupleIsSeq
<1> QED
  BY <1>3 DEF p

\* To the front or the back.
LEMMA BeyondIsSeq ==
    ASSUME NEW objs, NEW ids, IsSeq(ids), NEW action
    PROVE  IsSeq(BeyondPatches(action, ids, objs))
<1> DEFINE kept == [i \in DOMAIN ids |-> IF ids[i] \in DOMAIN objs THEN <<ids[i]>> ELSE <<>>]
           here == FlattenSeq(kept)
           zs == {objs[x].z : x \in DOMAIN objs}
           first == IF action = "front" THEN Max(zs) + 1 ELSE Min(zs) - Len(here)
           p == [i \in DOMAIN here |-> Patch(here[i], "z", first + i - 1)]
<1>1. BeyondPatches(action, ids, objs) = p
  BY Zenon DEF BeyondPatches, Filter
<1>2. kept = [i \in DOMAIN ids |-> kept[i]] /\ \A i \in DOMAIN ids : kept[i] \in {<<ids[i]>>, <<>>}
  BY Zenon
<1> HIDE DEF kept
<1>3. IsSeq(here)
  BY <1>2, FilterIsSeq
<1>4. p = [i \in DOMAIN here |-> p[i]]
  BY Zenon
<1> HIDE DEF here, p
<1> QED
  BY <1>1, <1>3, <1>4, MappedIsSeq

\* Forward or backward.
LEMMA StepIsSeq ==
    ASSUME NEW objs, IsFiniteSet(DOMAIN objs), NEW ids, NEW action
    PROVE  IsSeq(StepPatches(action, ids, objs))
<1> DEFINE dir == IF action = "forward" THEN 1 ELSE -1
           stack == Stack(objs)
           order == IF dir = 1 THEN Reverse(stack) ELSE stack
           base == [stack |-> stack, out |-> <<>>]
           n == Cardinality(DOMAIN objs)
<1>1. n \in Nat
  BY FS_CardinalityType
<1>2. IsSeq(stack) /\ Len(stack) = n
  <2> DEFINE f == [i \in 1 .. n |-> CHOOSE x \in DOMAIN objs :
                        Cardinality({y \in DOMAIN objs \ {x} :
                            objs[y].z < objs[x].z \/ (objs[y].z = objs[x].z /\ y < x)}) = i - 1]
  <2>0. stack = f
    BY DEF Stack, Sorted
  <2>1. stack = [i \in 1 .. n |-> stack[i]]
    BY <2>0, Zenon
  <2> HIDE DEF stack, n
  <2> QED
    BY <1>1, <2>1, FunctionIsSeq
<1>3. DOMAIN order = 1 .. n
  <2>1. DOMAIN stack = 1 .. n
    BY <1>2, SeqIsFunction
  <2>2. DOMAIN Reverse(stack) = 1 .. n
    BY <1>2, Zenon DEF Reverse
  <2> HIDE DEF stack, n, dir
  <2> QED
    BY <2>1, <2>2, Zenon
<1> DEFINE G == CHOOSE g : Trading(g, n, dir, ids, objs, order, base)
<1>4. Trading(G, n, dir, ids, objs, order, base)
  <2> HIDE DEF n, dir, order, base
  <2>1. \E g : Trading(g, n, dir, ids, objs, order, base)
    BY <1>1, TradingExists
  <2> QED
    BY <2>1
<1>5. StepPatches(action, ids, objs) = G[1 .. n].out
  BY <1>3, Zenon DEF StepPatches, FoldLeft, MapThenFoldSet, Trading, Trade
<1>6. IsSeq(base.out)
  BY TupleIsSeq
<1> HIDE DEF n, dir, order, base, G
<1> QED
  BY <1>1, <1>4, <1>5, <1>6, TradesAreSeq

\* Any of the four.
LEMMA RestackIsSeq ==
    ASSUME NEW objs, IsFiniteSet(DOMAIN objs), NEW ids, IsSeq(ids), NEW action
    PROVE  IsSeq(ZPatches(action, ids, objs))
BY BeyondIsSeq, StepIsSeq, TupleIsSeq, Zenon DEF ZPatches

-----------------------------------------------------------------------------
\* The steps of the session

\* finishDraft: the object drawn, and an update for each it takes in.
LEMMA DrawStep ==
    ASSUME HistoryInv, BoardInv, NEW tool, NEW p, NEW q, Draw(tool, p, q)
    PROVE  Stepped
<1> DEFINE o == Drawn(tool, p, q)
           adopted == IF tool = "frame" THEN Adopted(o) ELSE <<>>
           made == Create(NewId(1), o)
           taken == [i \in DOMAIN adopted |-> Update(adopted[i], "parentId", NewId(1))]
           ops == IF tool = "lane" /\ SelectedFrame # NoParent THEN StackLanes(SelectedFrame)
                  ELSE <<made>> \o taken
<1>0. IsFiniteSet(DOMAIN objects)
  BY DEF BoardInv
<1>1. Edit("draw", Singly(ops), <<NewId(1)>>)
  BY Zenon DEF Draw
<1>2. IsSeq(<<made>> \o taken)
  <2>1. IsSeq(adopted)
    <3>1. IsSeq(Adopted(o))
      BY <1>0, FS_Subset, AscendingIsSeq DEF Adopted
    <3>2. IsSeq(<<>>)
      BY TupleIsSeq
    <3> HIDE DEF o
    <3> QED
      BY <3>1, <3>2
  <2> HIDE DEF adopted
  <2> DEFINE n == Len(adopted)
  <2>2. n \in Nat /\ DOMAIN adopted = 1 .. n
    BY <2>1, SeqIsFunction
  <2>3. taken = [i \in 1 .. n |-> taken[i]]
    BY <2>2
  <2> HIDE DEF taken, made, n
  <2>4. IsSeq(taken)
    BY <2>2, <2>3, FunctionIsSeq
  <2> QED
    BY <2>4, TupleIsSeq, ConcatIsSeq
<1>3. ASSUME NEW frame PROVE IsSeq(StackLanes(frame))
  <2> DEFINE f == objects[frame]
             ids == {x \in DOMAIN objects : objects[x].type = "lane" /\ objects[x].parentId = frame}
             lanes == Ascending(ids)
             n == Len(lanes)
             h == MaxOf(40 * Px, f.h - 28 * Px) \div (n + 1)
             at(i) == Box(f.x, f.y + 28 * Px + (i - 1) * h, f.w, h)
             lane == [ObjectOf("lane", at(n + 1), NextZ(objects)) EXCEPT !.parentId = frame]
             place(i) == [k \in 1 .. 4 |-> LET field == <<"x", "y", "w", "h">>[k] IN
                                           Update(lanes[i], field, at(i)[field])]
             placed == [i \in 1 .. n |-> place(i)]
             first == Create(NewId(1), lane)
  <2>1. StackLanes(frame) = <<first>> \o FlattenSeq(placed)
    BY Zenon DEF StackLanes
  <2>2. IsFiniteSet(ids)
    BY <1>0, FS_Subset
  <2> HIDE DEF ids
  <2>3. IsSeq(lanes)
    BY <2>2, AscendingIsSeq
  <2> HIDE DEF lanes
  <2>4. n \in Nat
    BY <2>3, SeqIsFunction
  <2> HIDE DEF n, at, h, lane
  <2>5. \A i \in 1 .. n : IsSeq(place(i))
    <3>1. ASSUME NEW i \in 1 .. n PROVE IsSeq(place(i))
      <4> DEFINE g == place(i)
      <4>1. g = [k \in 1 .. 4 |-> g[k]]
        BY Zenon
      <4> HIDE DEF g
      <4>2. IsSeq(g)
        BY <4>1, FunctionIsSeq
      <4> QED
        BY <4>2 DEF g
    <3> QED
      BY <3>1
  <2> HIDE DEF place, first
  <2>6. IsSeq(placed) /\ DOMAIN placed = 1 .. n /\ \A i \in 1 .. n : IsSeq(placed[i])
    <3>1. placed = [i \in 1 .. n |-> placed[i]] /\ \A i \in 1 .. n : placed[i] = place(i)
      BY Zenon
    <3> HIDE DEF placed
    <3> QED
      BY <2>4, <2>5, <3>1, FunctionIsSeq
  <2> HIDE DEF placed
  <2>7. IsSeq(FlattenSeq(placed))
    BY <2>6, FlattenIsSeq
  <2>8. IsSeq(<<first>>)
    BY TupleIsSeq
  <2> QED
    BY <2>1, <2>7, <2>8, ConcatIsSeq
<1> HIDE DEF made, taken
<1>4. IsSeq(ops)
  BY <1>2, <1>3
<1> HIDE DEF ops
<1> QED
  BY <1>1, <1>4, SinglyBatched, TupleIsSeq, EditStep


\* Edits of one operation, or of two, in one batch.
LEMMA SmallEdit ==
    ASSUME HistoryInv, BoardInv, NEW name, NEW batches, NEW sel, Edit(name, batches, sel), IsSeq(sel),
           \/ \E a : batches = <<<<a>>>>
           \/ \E a, b : batches = <<<<a, b>>>>
    PROVE  Stepped
<1>1. Batched(batches)
  BY TupleIsSeq, FewBatches
<1> QED
  BY <1>1, EditStep

\* growTextBox and commitEdit: one batch or two, of one operation.
LEMMA TypeStep ==
    ASSUME HistoryInv, BoardInv, NEW x, NEW n, TypeText(x, n)
    PROVE  Stepped
<1> DEFINE o == objects[x]
           resize == <<Update(x, "h", TextHeight(n))>>
           text == <<Update(x, "text", n)>>
           batches == IF o.type # "text" \/ TextHeight(n) = o.h THEN <<text>>
                      ELSE IF TextHeight(n) > o.h THEN <<resize, text>> ELSE <<text, resize>>
<1>1. Edit("type", batches, <<x>>)
  BY Zenon DEF TypeText
<1>2. IsSeq(resize) /\ IsSeq(text) /\ IsSeq(<<x>>)
  BY TupleIsSeq
<1>3. batches \in {<<text>>, <<resize, text>>, <<text, resize>>}
  BY Zenon
<1> HIDE DEF resize, text, batches
<1>4. Batched(batches)
  BY <1>2, <1>3, FewBatches
<1> QED
  BY <1>1, <1>2, <1>4, EditStep

\* addImageFiles: one batch of as many operations as files.
LEMMA ImagesStep ==
    ASSUME HistoryInv, BoardInv, NEW p, NEW n \in Nat, AddImages(p, n)
    PROVE  Stepped
<1>1. \E f, g : Edit("images", <<[i \in 1 .. n |-> f[i]]>>, [i \in 1 .. n |-> g[i]])
  <2> DEFINE at(i) == Box(p.x - 120 * Px + (i - 1) * 24 * Px, p.y - 90 * Px + (i - 1) * 24 * Px, 240 * Px, 180 * Px)
             host(i) == ContainerAt(objects, CenterOf(ObjectOf("image", at(i), 0)), {})
             o(i) == [ObjectOf("image", at(i), NextZ(objects) + i - 1)
                        EXCEPT !.parentId = IF host(i) = NoParent THEN Unset ELSE host(i)]
             f == [i \in 1 .. n |-> Create(NewId(i), o(i))]
             g == [i \in 1 .. n |-> NewId(i)]
  <2>1. Edit("images", <<f>>, g)
    BY Zenon DEF AddImages
  <2> HIDE DEF o
  <2>2. f = [i \in 1 .. n |-> f[i]] /\ g = [i \in 1 .. n |-> g[i]]
    BY Zenon
  <2> HIDE DEF f, g
  <2> QED
    BY <2>1, <2>2
<1>2. PICK f, g : Edit("images", <<[i \in 1 .. n |-> f[i]]>>, [i \in 1 .. n |-> g[i]])
  BY <1>1
<1> DEFINE ops == [i \in 1 .. n |-> f[i]]
           sel == [i \in 1 .. n |-> g[i]]
<1>3. ops = [i \in 1 .. n |-> ops[i]] /\ sel = [i \in 1 .. n |-> sel[i]]
  BY Zenon
<1> HIDE DEF ops, sel
<1>4. IsSeq(ops) /\ IsSeq(sel)
  BY <1>3, FunctionIsSeq
<1>5. Edit("images", <<ops>>, sel)
  BY <1>2 DEF ops, sel
<1> QED
  BY <1>4, <1>5, FewBatches, EditStep

\* changeImpl: the patches of what moves.
LEMMA MoveStep ==
    ASSUME HistoryInv, BoardInv, NEW x, NEW p, Move(x, p)
    PROVE  Stepped
<1> DEFINE ids == Moving(objects, selected, x)
           order == Ascending(ids)
           to == SnapBox(Box(p.x, p.y, objects[x].w, objects[x].h), snap, objects, ids)
           dx == to.x - objects[x].x
           dy == to.y - objects[x].y
           moved(y) ==
              LET o == objects[y]
                  parent == ParentAfterMove(objects, y, Pt(o.x + dx + o.w \div 2, o.y + dy + o.h \div 2), ids) IN
              <<Patch(y, "x", o.x + dx), Patch(y, "y", o.y + dy)>>
              \o IF o.type \in {"frame", "group"} \/ ParentIn(objects, y) = parent THEN <<>>
                 ELSE <<Patch(y, "parentId", parent)>>
           each == [i \in DOMAIN order |-> moved(order[i])]
<1>1. ApplyPatches("move", FlattenSeq(each))
  BY Zenon DEF Move, MovePatches
<1>2. IsFiniteSet(ids)
  <2>1. \A s : MoveSet(objects, s) \subseteq DOMAIN objects
    BY DEF MoveSet, Unconnected
  <2>2. ids \subseteq DOMAIN objects
    BY <2>1 DEF Moving
  <2> QED
    BY <2>2, FS_Subset DEF BoardInv
<1>3. \A y : IsSeq(moved(y))
  <2>1. \A a, b : IsSeq(<<a, b>> \o <<>>)
    BY TupleIsSeq, ConcatIsSeq
  <2>2. \A a, b, c : IsSeq(<<a, b>> \o <<c>>)
    BY TupleIsSeq, ConcatIsSeq
  <2> HIDE DEF ids, to, dx, dy
  <2> QED
    BY <2>1, <2>2, Zenon
<1> HIDE DEF ids, moved
<1>4. IsSeq(order)
  BY <1>2, AscendingIsSeq
<1> HIDE DEF order
<1>5. each = [i \in DOMAIN order |-> each[i]] /\ \A i \in DOMAIN order : IsSeq(each[i])
  BY <1>3, Zenon
<1> HIDE DEF each
<1>6. IsSeq(FlattenSeq(each))
  BY <1>4, <1>5, MappedIsSeq, FlattenIsSeq
<1> QED
  BY <1>1, <1>6, PatchStep

\* One batch of as many operations as a sequence has elements.
LEMMA EachEdit ==
    ASSUME HistoryInv, BoardInv, NEW name, NEW s, IsSeq(s), NEW ops, ops = [i \in DOMAIN s |-> ops[i]],
           NEW sel, IsSeq(sel), Edit(name, <<ops>>, sel)
    PROVE  Stepped
<1>1. IsSeq(ops)
  BY MappedIsSeq
<1>2. Batched(<<ops>>)
  BY <1>1, FewBatches
<1> QED
  BY <1>2, EditStep

\* deleteSelected
LEMMA DeleteStep == HistoryInv /\ BoardInv /\ DeleteSelected => Stepped
<1> SUFFICES ASSUME HistoryInv, BoardInv, DeleteSelected PROVE Stepped
  OBVIOUS
<1> DEFINE ops == [i \in DOMAIN selected |-> Delete(selected[i])]
<1>1. Edit("delete", <<ops>>, <<>>)
  BY Zenon DEF DeleteSelected
<1>2. ops = [i \in DOMAIN selected |-> ops[i]]
  BY Zenon
<1>3. IsSeq(selected) /\ IsSeq(<<>>)
  BY TupleIsSeq DEF BoardInv
<1> HIDE DEF ops
<1> QED
  BY <1>1, <1>2, <1>3, EachEdit

\* applyColor
LEMMA ColorStep ==
    ASSUME HistoryInv, BoardInv, NEW c, ApplyColor(c)
    PROVE  Stepped
<1> DEFINE ops == [i \in DOMAIN selected |-> Update(selected[i], "fill", c)]
<1>1. Edit("color", <<ops>>, selected)
  BY Zenon DEF ApplyColor
<1>2. ops = [i \in DOMAIN selected |-> ops[i]]
  BY Zenon
<1>3. IsSeq(selected)
  BY DEF BoardInv
<1> HIDE DEF ops
<1> QED
  BY <1>1, <1>2, <1>3, EachEdit

\* groupSelected: the group, and an update for each member.
LEMMA GroupStep == HistoryInv /\ BoardInv /\ GroupSelected => Stepped
<1> SUFFICES ASSUME HistoryInv, BoardInv, GroupSelected PROVE Stepped
  OBVIOUS
<1> DEFINE members == LayoutTargets(objects, selected)
           box == Padded(UnionBoxes({ObjectAABB(objects[x]) : x \in ToSet(members)}), 8 * Px)
           made == Create(NewId(1), ObjectOf("group", box, NextZ(objects)))
           taken == [i \in DOMAIN members |-> Update(members[i], "parentId", NewId(1))]
<1>1. Edit("group", <<<<made>> \o taken>>, <<NewId(1)>>)
  BY Zenon DEF GroupSelected
<1>2. IsSeq(members)
  BY TargetsAreSeq DEF BoardInv
<1>3. taken = [i \in DOMAIN members |-> taken[i]]
  BY Zenon
<1> HIDE DEF members, made, taken
<1>4. IsSeq(<<made>> \o taken)
  BY <1>2, <1>3, MappedIsSeq, TupleIsSeq, ConcatIsSeq
<1>5. Batched(<<<<made>> \o taken>>) /\ IsSeq(<<NewId(1)>>)
  BY <1>4, FewBatches, TupleIsSeq
<1> QED
  BY <1>1, <1>5, EditStep

\* ungroupSelected
LEMMA UngroupStep == HistoryInv /\ BoardInv /\ UngroupSelected => Stepped
<1> SUFFICES ASSUME HistoryInv, BoardInv, UngroupSelected PROVE Stepped
  OBVIOUS
<1> DEFINE picked == {x \in ToSet(selected) : x \in DOMAIN objects}
           ids == {x \in picked : IsGroup(objects, x)}
                  \cup {g \in {ParentIn(objects, x) : x \in picked} : IsGroup(objects, g)}
           groups == Ascending(ids)
           members(g) == Ascending({x \in DOMAIN objects : objects[x].parentId = g})
           ops == [i \in DOMAIN groups |-> Delete(groups[i])]
           each == [i \in DOMAIN groups |-> members(groups[i])]
<1>1. Edit("ungroup", <<ops>>, FlattenSeq(each))
  BY Zenon DEF UngroupSelected
<1>2. IsFiniteSet(DOMAIN objects)
  BY DEF BoardInv
<1>3. IsSeq(groups)
  <2>1. ids \subseteq DOMAIN objects
    BY DEF IsGroup
  <2>2. IsFiniteSet(ids)
    BY <1>2, <2>1, FS_Subset
  <2> HIDE DEF ids
  <2> QED
    BY <2>2, AscendingIsSeq
<1>4. \A g : IsSeq(members(g))
  <2>1. ASSUME NEW g PROVE IsSeq(members(g))
    BY <1>2, FS_Subset, AscendingIsSeq
  <2> HIDE DEF members
  <2> QED
    BY <2>1
<1> HIDE DEF groups, members
<1>5. ops = [i \in DOMAIN groups |-> ops[i]]
  BY Zenon
<1>6. each = [i \in DOMAIN groups |-> each[i]] /\ \A i \in DOMAIN groups : IsSeq(each[i])
  BY <1>4, Zenon
<1> HIDE DEF ops, each
<1>7. IsSeq(FlattenSeq(each))
  BY <1>3, <1>6, MappedIsSeq, FlattenIsSeq
<1> QED
  BY <1>1, <1>3, <1>5, <1>7, EachEdit

\* cloneForPaste: as many operations as objects that are cloned.
LEMMA ClonesAreSeq ==
    ASSUME NEW source, IsSeq(source)
    PROVE  IsSeq(CloneForPaste(source))
<1> DEFINE rank(o) == CASE o.type = "connector" -> 2 [] IsContainer(o) -> 0 [] OTHER -> 1
           kept == {i \in DOMAIN source :
                      LET o == source[i].object IN
                      o.type = "connector" => {o.fromId, o.toId} \subseteq Signature(source)}
           n == Cardinality(kept)
           order == [i \in 1 .. n |->
                       CHOOSE x \in kept :
                          Cardinality({y \in kept \ {x} :
                             \/ rank(source[y].object) < rank(source[x].object)
                             \/ /\ rank(source[y].object) = rank(source[x].object)
                                /\ y < x}) = i - 1]
           p == CloneForPaste(source)
<1>1. IsFiniteSet(kept)
  <2>1. Len(source) \in Nat /\ DOMAIN source = 1 .. Len(source)
    BY SeqIsFunction
  <2>2. IsFiniteSet(DOMAIN source)
    BY <2>1, FS_Interval
  <2> QED
    BY <2>2, FS_Subset
<1>2. n \in Nat
  BY <1>1, FS_CardinalityType
<1>3. \E f : p = [k \in 1 .. n |-> f[k]]
  <2> DEFINE ids == [x \in {source[i].id : i \in kept} |->
                        NewId(CHOOSE k \in DOMAIN order : source[order[k]].id = x)]
             shift == 32 * Px * PasteCount(source)
             clone(i) == LET o == source[i].object IN
                         [o EXCEPT !.x = o.x + shift, !.y = o.y + shift, !.z = NextZ(objects) + i - 1,
                                   !.parentId = Mapped(o.parentId, ids, NoParent),
                                   !.fromId = Mapped(o.fromId, ids, Unset),
                                   !.toId = Mapped(o.toId, ids, Unset)]
             f == [k \in DOMAIN order |-> Create(NewId(k), clone(order[k]))]
  <2>1. p = f
    BY Zenon DEF CloneForPaste, Sorted
  <2>2. DOMAIN order = 1 .. n
    BY Zenon
  <2> HIDE DEF order, clone, n, p
  <2>3. f = [k \in 1 .. n |-> f[k]]
    BY <2>2, Zenon
  <2> HIDE DEF f
  <2> QED
    BY <2>1, <2>3
<1> HIDE DEF n, p
<1>4. p = [k \in 1 .. n |-> p[k]]
  BY <1>3, Zenon
<1>5. IsSeq(p)
  BY <1>2, <1>4, FunctionIsSeq
<1> QED
  BY <1>5 DEF p

\* pasteClipboard
LEMMA PasteStep == HistoryInv /\ BoardInv /\ PasteClipboard => Stepped
<1> SUFFICES ASSUME HistoryInv, BoardInv, PasteClipboard PROVE Stepped
  OBVIOUS
<1> DEFINE clones == CloneForPaste(clip)
           sel == [k \in DOMAIN clones |-> clones[k].id]
<1>1. Do(<<clones>>) /\ selected' = sel /\ clip' = clip /\ script' = script
  BY Zenon DEF PasteClipboard, Command
<1>2. IsSeq(clones)
  BY ClonesAreSeq DEF BoardInv
<1> HIDE DEF clones
<1>3. sel = [k \in DOMAIN clones |-> sel[k]]
  BY Zenon
<1> HIDE DEF sel
<1>4. IsSeq(sel)
  BY <1>2, <1>3, MappedIsSeq
<1>5. /\ HistoryStep
      /\ IsFiniteSet(DOMAIN objects') /\ IsFiniteSet(DOMAIN server')
      /\ Recorded(undo') /\ Recorded(redo')
  BY <1>1, <1>2, FewBatches, DoStep
<1> QED
  BY <1>1, <1>4, <1>5 DEF Stepped, BoardInv, IsSeq

\* Commands that leave objects and stacks as they are.
LEMMA QuietStep ==
    ASSUME BoardInv, UNCHANGED <<objects, server, undo, redo, script>>, IsSeq(selected'), IsSeq(clip')
    PROVE  Stepped
BY DEF Stepped, HistoryStep, BoardInv, Recorded, IsSeq

\* pickImpl
LEMMA PickStep ==
    ASSUME BoardInv, NEW x, NEW shift, Pick(x, shift)
    PROVE  Stepped
<1> DEFINE kept == [i \in DOMAIN selected |-> IF selected[i] # x THEN <<selected[i]>> ELSE <<>>]
           id == IF shift THEN x ELSE GroupRoot(objects, x)
<1>0. IsSeq(selected) /\ IsSeq(clip)
  BY DEF BoardInv
<1>1. /\ selected' \in {selected, <<id>>, FlattenSeq(kept), Append(selected, x)}
      /\ UNCHANGED <<objects, server, undo, redo, script>> /\ clip' = clip
  BY Zenon DEF Pick, Command, sessionVars, Filter
<1>2. kept = [i \in DOMAIN selected |-> kept[i]] /\ \A i \in DOMAIN selected : kept[i] \in {<<selected[i]>>, <<>>}
  BY Zenon
<1> HIDE DEF kept
<1>3. IsSeq(FlattenSeq(kept))
  BY <1>0, <1>2, FilterIsSeq
<1>4. IsSeq(Append(selected, x)) /\ IsSeq(<<id>>)
  BY <1>0, Lengthened, TupleIsSeq
<1> HIDE DEF id
<1>5. IsSeq(selected') /\ IsSeq(clip')
  BY <1>0, <1>1, <1>3, <1>4
<1> QED
  BY <1>1, <1>5, QuietStep

\* onMouseUp after a marquee.
LEMMA MarqueeStep ==
    ASSUME BoardInv, NEW p, NEW q, Marquee(p, q)
    PROVE  Stepped
<1> DEFINE m == NormalizeBox(p, q)
           hits == {x \in Unconnected(objects, DOMAIN objects) : BoxIntersects(ObjectAABB(objects[x]), m)}
           roots == {GroupRoot(objects, x) : x \in hits}
<1>1. /\ selected' \in {Ascending(roots), <<>>}
      /\ UNCHANGED <<objects, server, undo, redo, script>> /\ clip' = clip
  BY Zenon DEF Marquee, Command, sessionVars
<1>2. IsFiniteSet(hits)
  <2>1. hits \subseteq DOMAIN objects
    BY DEF Unconnected
  <2> QED
    BY <2>1, FS_Subset DEF BoardInv
<1> HIDE DEF hits
<1>3. IsFiniteSet(roots)
  <2> DEFINE f == [x \in hits |-> GroupRoot(objects, x)]
  <2>1. f \in [hits -> roots] /\ \A r \in roots : \E x \in hits : f[x] = r
    BY Zenon
  <2> HIDE DEF f, roots
  <2>2. f \in Surjection(hits, roots)
    BY <2>1, Zenon DEF Surjection
  <2> QED
    BY <1>2, <2>2, FS_Surjection
<1> HIDE DEF roots
<1>4. IsSeq(selected')
  BY <1>1, <1>3, AscendingIsSeq, TupleIsSeq
<1>5. IsSeq(clip')
  BY <1>1 DEF BoardInv
<1> QED
  BY <1>1, <1>4, <1>5, QuietStep

\* copySelected
LEMMA CopyStep == BoardInv /\ CopySelected => Stepped
<1> SUFFICES ASSUME BoardInv, CopySelected PROVE Stepped
  OBVIOUS
<1> DEFINE ids == CollectCopySet
           copied == [i \in DOMAIN ids |-> [id |-> ids[i], object |-> objects[ids[i]]]]
<1>1. /\ clip' = copied
      /\ UNCHANGED <<objects, server, undo, redo, script>> /\ selected' = selected
  BY Zenon DEF CopySelected, Command, sessionVars
<1>2. IsSeq(ids)
  <2> DEFINE roots == ToSet(selected) \cap DOMAIN objects
             shapes == roots \cup UNION {Descendants(objects, x) : x \in roots}
             lines == {c \in DOMAIN objects : /\ objects[c].type = "connector"
                                              /\ {objects[c].fromId, objects[c].toId} \subseteq shapes}
  <2>1. ids = Ascending(shapes \cup lines)
    BY Zenon DEF CollectCopySet
  <2>2. shapes \cup lines \subseteq DOMAIN objects
    BY DEF Descendants
  <2>3. IsFiniteSet(shapes \cup lines)
    BY <2>2, FS_Subset DEF BoardInv
  <2> HIDE DEF shapes, lines
  <2> QED
    BY <2>1, <2>3, AscendingIsSeq
<1> HIDE DEF ids
<1>3. copied = [i \in DOMAIN ids |-> copied[i]]
  BY Zenon
<1> HIDE DEF copied
<1>4. IsSeq(clip')
  BY <1>1, <1>2, <1>3, MappedIsSeq
<1>5. IsSeq(selected')
  BY <1>1 DEF BoardInv
<1> QED
  BY <1>1, <1>4, <1>5, QuietStep

\* Replaying operations of a step.
LEMMA ReplayFinite ==
    ASSUME BoardInv, NEW ops, IsSeq(ops), ReplayOps(ops)
    PROVE  IsFiniteSet(DOMAIN objects') /\ IsFiniteSet(DOMAIN server')
BY ApplyOpsFinite, ServerFinite DEF ReplayOps, BoardInv

\* A sequence the other way round.
LEMMA ReverseIsSeq ==
    ASSUME NEW s, IsSeq(s)
    PROVE  IsSeq(Reverse(s))
<1> DEFINE r == Reverse(s)
<1>1. Len(s) \in Nat
  BY SeqIsFunction
<1>2. r = [i \in 1 .. Len(s) |-> r[i]]
  BY Zenon DEF Reverse
<1> HIDE DEF r
<1>3. IsSeq(r)
  BY <1>1, <1>2, FunctionIsSeq
<1> QED
  BY <1>3 DEF r

\* undo
LEMMA UndoStep == BoardInv /\ Undo /\ Elsewhere => Stepped
<1> SUFFICES ASSUME BoardInv, Undo, Elsewhere PROVE Stepped
  OBVIOUS
<1>1. /\ undo # <<>> /\ ReplayOps(Reverse(undo[Len(undo)].undo))
      /\ undo' = SubSeq(undo, 1, Len(undo) - 1) /\ redo' = Append(redo, undo[Len(undo)])
      /\ UNCHANGED <<selected, clip, script>>
  BY Zenon DEF Undo, Last, Front, Elsewhere
<1>2. Recorded(undo') /\ Recorded(redo') /\ IsSeq(undo[Len(undo)].undo)
  BY <1>1, MovedRecorded DEF BoardInv
<1>3. IsFiniteSet(DOMAIN objects') /\ IsFiniteSet(DOMAIN server')
  BY <1>1, <1>2, ReverseIsSeq, ReplayFinite
<1>4. HistoryStep
  BY <1>1 DEF HistoryStep, H!HistoryNext, H!Undone
<1> QED
  BY <1>1, <1>2, <1>3, <1>4 DEF Stepped, BoardInv, IsSeq

\* redo
LEMMA RedoStep == BoardInv /\ Redo /\ Elsewhere => Stepped
<1> SUFFICES ASSUME BoardInv, Redo, Elsewhere PROVE Stepped
  OBVIOUS
<1>1. /\ redo # <<>> /\ ReplayOps(redo[Len(redo)].redo)
      /\ redo' = SubSeq(redo, 1, Len(redo) - 1) /\ undo' = H!Newest(Append(undo, redo[Len(redo)]))
      /\ UNCHANGED <<selected, clip, script>>
  BY Zenon DEF Redo, Last, Front, Elsewhere
<1>2. Recorded(redo') /\ Recorded(Append(undo, redo[Len(redo)])) /\ IsSeq(redo[Len(redo)].redo)
  BY <1>1, MovedRecorded DEF BoardInv
<1>3. Recorded(undo')
  BY <1>1, <1>2, NewestRecorded
<1>4. IsFiniteSet(DOMAIN objects') /\ IsFiniteSet(DOMAIN server')
  BY <1>1, <1>2, ReplayFinite
<1>5. HistoryStep
  BY <1>1 DEF HistoryStep, H!HistoryNext, H!Redone
<1> QED
  BY <1>1, <1>2, <1>3, <1>4, <1>5 DEF Stepped, BoardInv, IsSeq

\* The state of a new connection.
LEMMA ReconnectStep == BoardInv /\ Reconnect /\ Elsewhere => Stepped
BY DEF Reconnect, Elsewhere, Stepped, HistoryStep, BoardInv, Recorded, IsSeq

\* A restored snapshot.
LEMMA RestoreStep == BoardInv /\ RestoreSnapshot => Stepped
<1> SUFFICES ASSUME BoardInv, RestoreSnapshot PROVE Stepped
  OBVIOUS
<1>1. /\ objects' = script.objects /\ server' = script.objects /\ undo' = <<>> /\ redo' = <<>>
      /\ UNCHANGED <<selected, clip, script>>
  BY Zenon DEF RestoreSnapshot, Restored, Command
<1>2. Recorded(undo') /\ Recorded(redo')
  <2>1. DOMAIN <<>> = {}
    OBVIOUS
  <2> QED
    BY <1>1, <2>1, TupleIsSeq DEF Recorded
<1>3. HistoryStep
  BY <1>1 DEF HistoryStep, H!HistoryNext, H!Forgotten
<1> QED
  BY <1>1, <1>2, <1>3 DEF Stepped, BoardInv, IsSeq

\* Edits of a fixed number of operations.
LEMMA FixedSteps ==
    ASSUME HistoryInv, BoardInv
    PROVE  /\ \A p, q : CommitSpline(p, q) => Stepped
           /\ \A kind, p : Place(kind, p) => Stepped
           /\ \A p : Mindmap(p) => Stepped
           /\ \A x, y : Connect(x, y) => Stepped
           /\ \A c, end, p : DragEnd(c, end, p) => Stepped
           /\ \A c, v : DragSegment(c, v) => Stepped
           /\ \A x, p : Resize(x, p) => Stepped
           /\ \A x, r : RoundCorner(x, r) => Stepped
<1>0. \A a : IsSeq(<<a>>)
  BY TupleIsSeq
<1>1. ASSUME NEW p, NEW q, CommitSpline(p, q) PROVE Stepped
  <2>1. \E a : Edit("spline", <<<<a>>>>, <<NewId(1)>>)
    BY <1>1, Zenon DEF CommitSpline
  <2> QED
    BY <1>0, <2>1, SmallEdit
<1>2. ASSUME NEW kind, NEW p, Place(kind, p) PROVE Stepped
  <2>1. \E a : Edit("place", <<<<a>>>>, <<NewId(1)>>)
    BY <1>2, Zenon DEF Place
  <2> QED
    BY <1>0, <2>1, SmallEdit
<1>3. ASSUME NEW p, Mindmap(p) PROVE Stepped
  <2>1. CASE GrowMindmap
    <3>1. \E a, b : Edit("mindmap", <<<<a, b>>>>, <<NewId(1)>>)
      BY <2>1, Zenon DEF GrowMindmap
    <3> QED
      BY <1>0, <3>1, SmallEdit
  <2> QED
    BY <1>2, <1>3, <2>1, Zenon DEF Mindmap
<1>4. ASSUME NEW x, NEW y, Connect(x, y) PROVE Stepped
  <2>1. \E a : Edit("connect", <<<<a>>>>, <<NewId(1)>>)
    BY <1>4, Zenon DEF Connect
  <2> QED
    BY <1>0, <2>1, SmallEdit
<1>5. ASSUME NEW c, NEW end, NEW p, DragEnd(c, end, p) PROVE Stepped
  <2>1. PICK x, port : RewireConnector(c, end, x, port)
    BY <1>5, Zenon DEF DragEnd
  <2>2. \E a, b, d, e : Edit("rewire", Singly(<<a, b, d, e>>), selected)
    BY <2>1, Zenon DEF RewireConnector
  <2>3. \A a, b, d, e : Batched(Singly(<<a, b, d, e>>))
    BY TupleIsSeq, SinglyBatched
  <2>4. IsSeq(selected)
    BY DEF BoardInv
  <2> QED
    BY <2>2, <2>3, <2>4, EditStep
<1>6. ASSUME NEW c, NEW v, DragSegment(c, v) PROVE Stepped
  <2>1. \E a : Edit("segment", <<<<a>>>>, selected)
    BY <1>6, Zenon DEF DragSegment
  <2>2. IsSeq(selected)
    BY DEF BoardInv
  <2> QED
    BY <2>1, <2>2, SmallEdit
<1>7. ASSUME NEW x, NEW p, Resize(x, p) PROVE Stepped
  <2>1. \E a, b, c, d : ApplyPatches("resize", <<a, b, c, d>>)
    BY <1>7, Zenon DEF Resize
  <2> QED
    BY <2>1, TupleIsSeq, PatchStep
<1>8. ASSUME NEW x, NEW r, RoundCorner(x, r) PROVE Stepped
  <2>1. \E a : ApplyPatches("corner", <<a>>)
    BY <1>8, Zenon DEF RoundCorner
  <2> QED
    BY <2>1, TupleIsSeq, PatchStep
<1> QED
  BY <1>1, <1>2, <1>3, <1>4, <1>5, <1>6, <1>7, <1>8

\* Every command, and undo, redo and the reconnection.
LEMMA BoardStep == HistoryInv /\ BoardInv /\ [BoardNext]_vars => Stepped
<1> SUFFICES ASSUME HistoryInv, BoardInv, [BoardNext]_vars PROVE Stepped
  OBVIOUS
<1>1. ASSUME NEW tool \in DrawTools, NEW p \in Spots, NEW q \in Spots, Draw(tool, p, q) PROVE Stepped
  BY <1>1, DrawStep
<1>2. ASSUME NEW p \in Spots, NEW q \in Spots, CommitSpline(p, q) \/ Marquee(p, q) PROVE Stepped
  BY <1>2, FixedSteps, MarqueeStep
<1>3. ASSUME NEW p \in Spots, Place("text", p) \/ Place("sticker", p) \/ Mindmap(p) \/ AddImages(p, 2)
      PROVE  Stepped
  BY <1>3, FixedSteps, ImagesStep
<1>4. ASSUME NEW x, NEW y, Connect(x, y) PROVE Stepped
  BY <1>4, FixedSteps
<1>5. ASSUME NEW c, NEW end, NEW p, DragEnd(c, end, p) PROVE Stepped
  BY <1>5, FixedSteps
<1>6. ASSUME NEW c, NEW v, DragSegment(c, v) PROVE Stepped
  BY <1>6, FixedSteps
<1>7. ASSUME NEW x, NEW p, Move(x, p) \/ Resize(x, p) PROVE Stepped
  BY <1>7, FixedSteps, MoveStep
<1>8. ASSUME NEW x, RoundCorner(x, 8 * Px) PROVE Stepped
  BY <1>8, FixedSteps
<1>9. ASSUME NEW x, NEW n, TypeText(x, n) PROVE Stepped
  BY <1>9, TypeStep
<1>10. ASSUME NEW x, NEW shift, Pick(x, shift) PROVE Stepped
  BY <1>10, PickStep
<1>11. ASSUME GroupSelected \/ UngroupSelected \/ DeleteSelected PROVE Stepped
  BY <1>11, GroupStep, UngroupStep, DeleteStep
<1>12. ASSUME NEW kind, Align(kind) PROVE Stepped
  BY <1>12, AlignIsSeq, PatchStep DEF Align, BoardInv
<1>13. ASSUME NEW axis, Distribute(axis) PROVE Stepped
  BY <1>13, DistributeIsSeq, PatchStep DEF Distribute, BoardInv
<1>14. ASSUME NEW action, Restack(action) PROVE Stepped
  BY <1>14, RestackIsSeq, PatchStep DEF Restack, BoardInv
<1>15. ASSUME ApplyColor(1) PROVE Stepped
  BY <1>15, ColorStep
<1>16. ASSUME CopySelected \/ PasteClipboard PROVE Stepped
  BY <1>16, CopyStep, PasteStep
<1>17. ASSUME ToggleSnap PROVE Stepped
  <2>1. UNCHANGED <<objects, server, undo, redo, script, selected, clip>>
    BY <1>17, Zenon DEF ToggleSnap, Command, sessionVars
  <2>2. IsSeq(selected') /\ IsSeq(clip')
    BY <2>1 DEF BoardInv
  <2> QED
    BY <2>1, <2>2, QuietStep
<1>18. ASSUME RestoreSnapshot PROVE Stepped
  BY <1>18, RestoreStep
<1>19. ASSUME Undo \/ Redo \/ Reconnect, Elsewhere PROVE Stepped
  BY <1>19, UndoStep, RedoStep, ReconnectStep
<1>20. ASSUME UNCHANGED vars PROVE Stepped
  <2>1. UNCHANGED <<objects, server, undo, redo, script, selected, clip>>
    BY <1>20, Zenon DEF vars, sessionVars, userVars
  <2>2. IsSeq(selected') /\ IsSeq(clip')
    BY <2>1 DEF BoardInv
  <2> QED
    BY <2>1, <2>2, QuietStep
<1> QED
  BY <1>1, <1>2, <1>3, <1>4, <1>5, <1>6, <1>7, <1>8, <1>9, <1>10, <1>11, <1>12, <1>13,
     <1>14, <1>15, <1>16, <1>17, <1>18, <1>19, <1>20, Zenon
  DEF BoardNext

-----------------------------------------------------------------------------
\* The promise keeps the stacks short.
LEMMA HistoryStarts == H!HistoryInit => HistoryInv
<1>1. <<>> \in Seq({}) /\ Len(<<>>) = 0
  BY EmptySeq
<1> QED
  BY <1>1, DepthAssumption DEF H!HistoryInit, HistoryInv, IsSeq, HistoryBounded, H!HistoryBounded

\* Every step of it does.
LEMMA HistoryStays == HistoryInv /\ [H!HistoryNext]_<<undo, redo>> => HistoryInv'
<1> SUFFICES ASSUME HistoryInv, [H!HistoryNext]_<<undo, redo>>
             PROVE  HistoryInv'
  OBVIOUS
<1>0. Len(undo) \in Nat /\ Len(redo) \in Nat /\ Len(undo) + Len(redo) <= Depth
  BY SeqLength DEF HistoryInv, HistoryBounded, H!HistoryBounded
<1>e. IsSeq(<<>>) /\ Len(<<>>) = 0
  BY EmptySeq DEF IsSeq
<1>1. CASE H!Pushed
  <2>1. IsSeq(undo') /\ Len(undo') \in 0 .. Depth
    BY <1>1, StackIsSeq DEF H!Pushed
  <2> QED
    BY <2>1, <1>1, <1>e DEF H!Pushed, HistoryInv, HistoryBounded, H!HistoryBounded
<1>2. CASE H!Undone
  <2>1. IsSeq(undo') /\ Len(undo') = Len(undo) - 1
    BY <1>2, Shortened DEF H!Undone, HistoryInv
  <2>2. IsSeq(redo') /\ Len(redo') = Len(redo) + 1
    BY <1>2, Lengthened DEF H!Undone, HistoryInv
  <2> QED
    BY <1>0, <2>1, <2>2 DEF HistoryInv, HistoryBounded, H!HistoryBounded
<1>3. CASE H!Redone
  <2> DEFINE longer == Append(undo, redo[Len(redo)])
  <2>1. IsSeq(redo') /\ Len(redo') = Len(redo) - 1 /\ Len(redo) >= 1
    BY <1>3, Shortened DEF H!Redone, HistoryInv
  <2>2. IsSeq(longer) /\ Len(longer) = Len(undo) + 1
    BY Lengthened DEF HistoryInv
  <2>3. Len(longer) <= Depth
    BY DepthAssumption, <1>0, <2>1, <2>2
  <2>4. undo' = longer
    BY <1>3, <2>3 DEF H!Redone, H!Newest
  <2>5. Len(undo') = Len(undo) + 1 /\ IsSeq(undo')
    BY <2>2, <2>4
  <2> QED
    BY <1>0, <2>1, <2>5 DEF HistoryInv, HistoryBounded, H!HistoryBounded
<1>4. CASE H!Forgotten
  BY <1>4, <1>e, DepthAssumption DEF H!Forgotten, HistoryInv, HistoryBounded, H!HistoryBounded
<1>5. CASE UNCHANGED <<undo, redo>>
  BY <1>5 DEF HistoryInv, HistoryBounded, H!HistoryBounded, IsSeq
<1> QED
  BY <1>1, <1>2, <1>3, <1>4, <1>5 DEF H!HistoryNext

\* A session begins with empty stacks, on a board with finitely many objects.
LEMMA BoardStarts == BoardInit => H!HistoryInit /\ BoardInv
<1> SUFFICES ASSUME BoardInit PROVE H!HistoryInit /\ BoardInv
  OBVIOUS
<1>1. /\ script \in Scripts /\ objects = script.objects /\ server = script.objects
      /\ selected = script.selected /\ undo = <<>> /\ redo = <<>> /\ clip = <<>>
  BY DEF BoardInit
<1>2. IsFiniteSet(DOMAIN script.objects) /\ IsSeq(script.selected)
  BY <1>1, ScriptsAssumption DEF IsSeq
<1>3. Recorded(undo) /\ Recorded(redo)
  <2>1. DOMAIN <<>> = {}
    OBVIOUS
  <2> QED
    BY <1>1, <2>1, TupleIsSeq DEF Recorded
<1> QED
  BY <1>1, <1>2, <1>3, TupleIsSeq DEF BoardInv, H!HistoryInit

\* Whatever is drawn, moved, arranged, deleted, pasted, undone, done again or
\* restored, and whenever the connection comes back: the stacks of
\* useBoardSession.ts only ever take the steps of UndoHistory.  A step is
\* pushed with what was there kept, the oldest aside, and the redo stack
\* emptied; undo and redo move one step from the one to the other.
THEOREM StacksAreHistory ==
  BoardSpec => UndoIsHistory
<1>1. BoardInit => H!HistoryInit /\ HistoryInv /\ BoardInv
  BY BoardStarts, HistoryStarts
<1>2. HistoryInv /\ BoardInv /\ [BoardNext]_vars =>
         [H!HistoryNext]_<<undo, redo>> /\ HistoryInv' /\ BoardInv'
  <2> SUFFICES ASSUME HistoryInv, BoardInv, [BoardNext]_vars
               PROVE  [H!HistoryNext]_<<undo, redo>> /\ HistoryInv' /\ BoardInv'
    OBVIOUS
  <2>1. [H!HistoryNext]_<<undo, redo>> /\ BoardInv'
    BY BoardStep DEF Stepped, HistoryStep
  <2> QED
    BY <2>1, HistoryStays
<1> QED
  BY <1>1, <1>2, PTL DEF BoardSpec, UndoIsHistory, H!HistorySpec

\* Whatever is edited, undone, redone and forgotten: never more than Depth steps
\* are kept, those to undo and those to redo counted together, though the code
\* cuts the first stack only (pushUndo of useBoardSession.ts).
THEOREM BoundedHistory ==
  BoardSpec => []HistoryBounded
<1>1. HistoryInv => HistoryBounded
  BY DEF HistoryInv
<1>2. UndoIsHistory => []HistoryInv
  BY HistoryStarts, HistoryStays, PTL DEF UndoIsHistory, H!HistorySpec
<1> QED
  BY <1>1, <1>2, StacksAreHistory, PTL

-----------------------------------------------------------------------------
\* Lines

\* The lines through points of the board.
Paths == {s \in Seq(Points) : s # <<>>}

\* A path has a first point and a last one.
LEMMA PathEnds ==
    ASSUME NEW s \in Paths
    PROVE  /\ s \in Seq(Points) /\ Len(s) \in Nat /\ Len(s) >= 1
           /\ \A i \in 1 .. Len(s) : s[i] \in Points
           /\ s[1] \in Points /\ Last(s) \in Points /\ Head(s) = s[1]
<1>1. s \in Seq(Points) /\ s # <<>>
  BY DEF Paths
<1>2. Len(s) \in Nat /\ Len(s) >= 1
  BY <1>1, EmptySeq, LenProperties
<1>3. \A i \in 1 .. Len(s) : s[i] \in Points
  BY <1>1, ElementOfSeq
<1>4. 1 \in 1 .. Len(s) /\ Len(s) \in 1 .. Len(s)
  BY <1>2
<1> QED
  BY <1>1, <1>2, <1>3, <1>4 DEF Last

\* A point more at the end.
LEMMA PathAppend ==
    ASSUME NEW s \in Seq(Points), NEW p \in Points
    PROVE  /\ Append(s, p) \in Paths
           /\ Last(Append(s, p)) = p
           /\ s \in Paths => Append(s, p)[1] = s[1]
<1>1. /\ Append(s, p) \in Seq(Points) /\ Append(s, p) # <<>>
      /\ Len(Append(s, p)) = Len(s) + 1
      /\ \A i \in 1 .. Len(s) : Append(s, p)[i] = s[i]
      /\ Append(s, p)[Len(s) + 1] = p
  BY AppendProperties
<1>2. Last(Append(s, p)) = p
  BY <1>1 DEF Last
<1>3. ASSUME s \in Paths PROVE Append(s, p)[1] = s[1]
  <2>1. 1 \in 1 .. Len(s)
    BY <1>3, PathEnds
  <2> QED
    BY <1>1, <2>1
<1> QED
  BY <1>1, <1>2, <1>3 DEF Paths

\* A point less at the end.
LEMMA PathFront ==
    ASSUME NEW s \in Seq(Points), Len(s) >= 2
    PROVE  Front(s) \in Paths /\ Front(s)[1] = s[1]
<1>1. Len(s) \in Nat /\ \A i \in 1 .. Len(s) : s[i] \in Points
  BY LenProperties, ElementOfSeq
<1> DEFINE m == Len(s) - 1
<1>2. m \in Int /\ m >= 1 /\ \A i \in 1 .. m : s[i] \in Points
  BY <1>1
<1>3. /\ SubSeq(s, 1, m) \in Seq(Points)
      /\ Len(SubSeq(s, 1, m)) = m
      /\ SubSeq(s, 1, m)[1] = s[1]
  <2> HIDE DEF m
  <2>1. /\ SubSeq(s, 1, m) \in Seq(Points)
        /\ Len(SubSeq(s, 1, m)) = IF 1 <= m THEN m - 1 + 1 ELSE 0
        /\ \A i \in 1 .. m - 1 + 1 : SubSeq(s, 1, m)[i] = s[1 + i - 1]
    BY <1>2, SubSeqProperties
  <2>2. 1 \in 1 .. m - 1 + 1 /\ 1 + 1 - 1 = 1
    BY <1>2
  <2>3. m - 1 + 1 = m /\ 1 <= m
    BY <1>2
  <2>4. SubSeq(s, 1, m)[1] = s[1 + 1 - 1]
    BY <2>1, <2>2
  <2> QED
    BY <2>1, <2>2, <2>3, <2>4
<1>4. SubSeq(s, 1, m) # <<>>
  <2> HIDE DEF m
  <2>1. Len(SubSeq(s, 1, m)) # 0
    BY <1>2, <1>3
  <2>2. Len(<<>>) = 0
    BY EmptySeq
  <2> QED
    BY <2>1, <2>2
<1> QED
  BY <1>3, <1>4 DEF Front, Paths

\* A line after another.
LEMMA PathConcat ==
    ASSUME NEW s \in Seq(Points), NEW t \in Paths
    PROVE  /\ s \o t \in Paths
           /\ Len(s \o t) = Len(s) + Len(t)
           /\ Last(s \o t) = Last(t)
           /\ s \in Paths => (s \o t)[1] = s[1]
           /\ s \in Paths /\ Len(t) = 1 => (s \o t)[Len(s)] = Last(s)
<1>1. t \in Seq(Points) /\ Len(t) \in Nat /\ Len(t) >= 1 /\ Len(s) \in Nat
  BY PathEnds, LenProperties
<1>2. /\ s \o t \in Seq(Points)
      /\ Len(s \o t) = Len(s) + Len(t)
      /\ \A i \in 1 .. Len(s) + Len(t) :
            (s \o t)[i] = IF i <= Len(s) THEN s[i] ELSE t[i - Len(s)]
  BY <1>1, ConcatProperties
<1>3. s \o t # <<>>
  BY <1>1, <1>2, EmptySeq
<1>4. Last(s \o t) = Last(t)
  <2>1. (s \o t)[Len(s) + Len(t)] = t[Len(s) + Len(t) - Len(s)]
    BY <1>1, <1>2
  <2>2. Len(s) + Len(t) - Len(s) = Len(t)
    BY <1>1
  <2> QED
    BY <1>2, <2>1, <2>2 DEF Last
<1>5. ASSUME s \in Paths PROVE (s \o t)[1] = s[1] /\ (s \o t)[Len(s)] = Last(s)
  <2>1. Len(s) >= 1
    BY <1>5, PathEnds
  <2> QED
    BY <1>1, <1>2, <2>1 DEF Last
<1> QED
  BY <1>2, <1>3, <1>4, <1>5 DEF Paths

-----------------------------------------------------------------------------
\* Folds over the points of a line

\* g is the recursion of a fold of the function F, on the sets of indices up to n.
Recursion(g, n, F, base, s) ==
    g = [S \in SUBSET (1 .. n) |->
           IF S = {} THEN base ELSE F[<<g[S \ {Max(S)}], s[Max(S)]>>]]

\* The greatest of some of the first numbers is one of them.
LEMMA MaxInside ==
    ASSUME NEW n \in Nat, NEW S \in SUBSET (1 .. n), S # {}
    PROVE  Max(S) \in S
<1> DEFINE T == {k \in Nat : \A R \in SUBSET (1 .. k) : R # {} => Max(R) \in R}
<1>1. 0 \in T
  <2>1. 1 .. 0 = {}
    OBVIOUS
  <2> QED
    BY <2>1
<1>2. ASSUME NEW k \in Nat, k \in T PROVE k + 1 \in T
  <2> SUFFICES ASSUME NEW R \in SUBSET (1 .. k + 1), R # {} PROVE Max(R) \in R
    OBVIOUS
  <2>1. CASE k + 1 \in R
    BY <2>1, MaxOfTop
  <2>2. CASE k + 1 \notin R
    <3>1. R \in SUBSET (1 .. k)
      BY <2>2
    <3> QED
      BY <1>2, <3>1
  <2> QED
    BY <2>1, <2>2
<1> HIDE DEF T
<1>3. n \in T
  <2>1. Nat \subseteq T
    BY <1>1, <1>2, SetInduction, Zenon
  <2> QED
    BY <2>1
<1> QED
  BY <1>3 DEF T

\* The recursion has a solution.
LEMMA RecursionExists ==
    ASSUME NEW F, NEW base, NEW s
    PROVE  \A n \in Nat : \E g : Recursion(g, n, F, base, s)
<1> DEFINE T == {n \in Nat : \E g : Recursion(g, n, F, base, s)}
<1>1. 0 \in T
  <2> DEFINE g == [S \in SUBSET (1 .. 0) |-> base]
  <2>1. \A S \in SUBSET (1 .. 0) : S = {}
    OBVIOUS
  <2>2. Recursion(g, 0, F, base, s)
    BY <2>1, Zenon DEF Recursion
  <2> QED
    BY <2>2
<1>2. ASSUME NEW n \in Nat, n \in T PROVE n + 1 \in T
  <2>1. PICK f : Recursion(f, n, F, base, s)
    BY <1>2
  <2> DEFINE V(h, S) == IF S = {} THEN base ELSE F[<<h[S \ {Max(S)}], s[Max(S)]>>]
             g == [S \in SUBSET (1 .. n + 1) |->
                     IF S \in SUBSET (1 .. n) THEN f[S] ELSE V(f, S)]
  <2>2. \A S \in SUBSET (1 .. n) : f[S] = V(f, S) /\ S \in SUBSET (1 .. n + 1)
    <3>1. \A S \in SUBSET (1 .. n) : f[S] = V(f, S)
      BY <2>1, Zenon DEF Recursion
    <3>2. 1 .. n \subseteq 1 .. n + 1
      OBVIOUS
    <3> QED
      BY <3>1, <3>2, Zenon
  <2>3. \A S \in SUBSET (1 .. n + 1) : S \ {Max(S)} \in SUBSET (1 .. n)
    <3>1. ASSUME NEW S \in SUBSET (1 .. n + 1), n + 1 \in S
          PROVE  S \ {Max(S)} \in SUBSET (1 .. n)
      <4>1. Max(S) = n + 1
        BY <3>1, MaxOfTop
      <4>2. S \ {n + 1} \in SUBSET (1 .. n)
        OBVIOUS
      <4> QED
        BY <4>1, <4>2, Zenon
    <3>2. ASSUME NEW S \in SUBSET (1 .. n + 1), n + 1 \notin S
          PROVE  S \ {Max(S)} \in SUBSET (1 .. n)
      <4>1. S \in SUBSET (1 .. n)
        BY <3>2
      <4> QED
        BY <4>1, Zenon
    <3> QED
      BY <3>1, <3>2
  <2>4. \A S \in SUBSET (1 .. n + 1) : V(g, S) = V(f, S)
    <3>1. \A S \in SUBSET (1 .. n) : g[S] = f[S]
      BY <2>2, Zenon
    <3>2. \A S \in SUBSET (1 .. n + 1) : g[S \ {Max(S)}] = f[S \ {Max(S)}]
      BY <2>3, <3>1, Zenon
    <3> HIDE DEF g
    <3> QED
      BY <3>2, Zenon
  <2>5. \A S \in SUBSET (1 .. n + 1) : g[S] = V(f, S)
    <3>1. ASSUME NEW S \in SUBSET (1 .. n + 1) PROVE g[S] = V(f, S)
      <4> HIDE DEF V
      <4>1. g[S] = IF S \in SUBSET (1 .. n) THEN f[S] ELSE V(f, S)
        BY Zenon
      <4> QED
        BY <2>2, <4>1, Zenon
    <3> HIDE DEF g, V
    <3> QED
      BY <3>1, Zenon
  <2>6. g = [S \in SUBSET (1 .. n + 1) |-> V(g, S)]
    <3>1. g = [S \in SUBSET (1 .. n + 1) |-> g[S]]
      BY Zenon
    <3> HIDE DEF g, V
    <3> QED
      BY <2>4, <2>5, <3>1, Zenon
  <2>7. Recursion(g, n + 1, F, base, s)
    BY <2>6, Zenon DEF Recursion
  <2> HIDE DEF g
  <2> QED
    BY <2>7
<1> HIDE DEF T
<1>3. Nat \subseteq T
  BY <1>1, <1>2, SetInduction, Zenon
<1> QED
  BY <1>3 DEF T

\* A fold of a function stays where the function does.
LEMMA RecursionTyped ==
    ASSUME NEW Values, NEW P, NEW F \in [Values \X P -> Values], NEW base \in Values,
           NEW n \in Nat, NEW s, \A i \in 1 .. n : s[i] \in P,
           NEW g, Recursion(g, n, F, base, s)
    PROVE  \A S \in SUBSET (1 .. n) : g[S] \in Values
<1> DEFINE T == {k \in Nat : k <= n => \A S \in SUBSET (1 .. k) : g[S] \in Values}
<1>0. \A S \in SUBSET (1 .. n) :
          g[S] = IF S = {} THEN base ELSE F[<<g[S \ {Max(S)}], s[Max(S)]>>]
  BY Zenon DEF Recursion
<1>1. 0 \in T
  <2>1. \A S \in SUBSET (1 .. 0) : S = {} /\ S \in SUBSET (1 .. n)
    OBVIOUS
  <2> QED
    BY <1>0, <2>1
<1>2. ASSUME NEW k \in Nat, k \in T PROVE k + 1 \in T
  <2> SUFFICES ASSUME k + 1 <= n, NEW S \in SUBSET (1 .. k + 1) PROVE g[S] \in Values
    OBVIOUS
  <2>1. \A R \in SUBSET (1 .. k) : g[R] \in Values
    BY <1>2
  <2>2. CASE k + 1 \notin S
    <3>1. S \in SUBSET (1 .. k)
      BY <2>2
    <3> QED
      BY <2>1, <3>1
  <2>3. CASE k + 1 \in S
    <3>1. Max(S) = k + 1
      BY <2>3, MaxOfTop
    <3>2. S \ {k + 1} \in SUBSET (1 .. k) /\ S \in SUBSET (1 .. n) /\ k + 1 \in 1 .. n
      OBVIOUS
    <3>3. g[S] = F[<<g[S \ {k + 1}], s[k + 1]>>]
      BY <1>0, <2>3, <3>1, <3>2, Zenon
    <3>4. g[S \ {k + 1}] \in Values /\ s[k + 1] \in P
      BY <2>1, <3>2
    <3> QED
      BY <3>3, <3>4
  <2> QED
    BY <2>2, <2>3
<1> HIDE DEF T
<1>3. n \in T
  <2>1. Nat \subseteq T
    BY <1>1, <1>2, SetInduction, Zenon
  <2> QED
    BY <2>1
<1> QED
  BY <1>3 DEF T

\* What each turn of a fold keeps holds after every one.
LEMMA TurnsKeep ==
    ASSUME NEW Values, NEW n \in Nat, NEW g, g[{}] \in Values,
           \A k \in 1 .. n : g[1 .. k - 1] \in Values => g[1 .. k] \in Values
    PROVE  \A k \in 0 .. n : g[1 .. k] \in Values
<1> DEFINE T == {k \in Nat : k <= n => g[1 .. k] \in Values}
<1>1. 0 \in T
  <2>1. 1 .. 0 = {}
    OBVIOUS
  <2> QED
    BY <2>1
<1>2. ASSUME NEW k \in Nat, k \in T PROVE k + 1 \in T
  <2> SUFFICES ASSUME k + 1 <= n PROVE g[1 .. k + 1] \in Values
    OBVIOUS
  <2>1. k + 1 \in 1 .. n /\ k + 1 - 1 = k
    OBVIOUS
  <2>2. g[1 .. k] \in Values
    BY <1>2
  <2>3. g[1 .. k + 1 - 1] \in Values => g[1 .. k + 1] \in Values
    BY <2>1
  <2> QED
    BY <2>1, <2>2, <2>3
<1> HIDE DEF T
<1>3. Nat \subseteq T
  BY <1>1, <1>2, SetInduction, Zenon
<1>4. \A k \in 0 .. n : k \in T /\ k \in Nat /\ k <= n
  BY <1>3
<1> QED
  BY <1>4 DEF T

\* The indices of a turn.
LEMMA TurnIndex ==
    ASSUME NEW n \in Nat, NEW k \in 1 .. n
    PROVE  /\ 1 .. k \in SUBSET (1 .. n) /\ 1 .. k # {}
           /\ Max(1 .. k) = k
           /\ (1 .. k) \ {k} = 1 .. k - 1
<1>1. k - 1 \in Nat /\ k - 1 + 1 = k /\ k \in 1 .. k /\ 1 .. k \in SUBSET (1 .. k)
  OBVIOUS
<1>2. Max(1 .. k) = k
  BY <1>1, MaxOfTop
<1>3. (1 .. k) \ {k} = 1 .. k - 1
  OBVIOUS
<1>4. 1 .. k \in SUBSET (1 .. n) /\ 1 .. k # {}
  BY <1>1
<1> QED
  BY <1>2, <1>3, <1>4

-----------------------------------------------------------------------------
\* The three passes over a line

\* A point that is near the last one is left out.
Undup(out, p) ==
    IF AlmostEq(Last(out).x, p.x) /\ AlmostEq(Last(out).y, p.y) THEN out ELSE Append(out, p)

\* The middle of a straight run is left out.
Turn(out, p) ==
    LET n == Len(out) IN
    IF n >= 2 /\ (\/ AlmostEq(out[n - 1].y, out[n].y) /\ AlmostEq(out[n].y, p.y)
                  \/ AlmostEq(out[n - 1].x, out[n].x) /\ AlmostEq(out[n].x, p.x))
    THEN Append(Front(out), p) ELSE Append(out, p)

\* A corner is put in where there is none.
Elbow(out, p) ==
    LET prev == Last(out) IN
    IF AlmostEq(prev.x, p.x) \/ AlmostEq(prev.y, p.y) THEN Append(out, p)
    ELSE out \o <<Pt(p.x, prev.y), p>>

\* What each does to a line that has a point: it keeps the first, and but for the
\* first pass the new point is the last.
LEMMA PassTurns ==
    ASSUME NEW out \in Paths, NEW p \in Points
    PROVE  /\ Undup(out, p) \in Paths /\ Undup(out, p)[1] = out[1]
           /\ Undup(out, p) = out \/ Last(Undup(out, p)) = p
           /\ Undup(out, p) = out => Near(Last(out), p) \/ Last(out) = p
           /\ ~Near(Last(out), p) => Last(Undup(out, p)) = p
           /\ Turn(out, p) \in Paths /\ Turn(out, p)[1] = out[1] /\ Last(Turn(out, p)) = p
           /\ Elbow(out, p) \in Paths /\ Elbow(out, p)[1] = out[1] /\ Last(Elbow(out, p)) = p
<1>1. out \in Seq(Points) /\ Len(out) \in Nat /\ Last(out) \in Points
  BY PathEnds
<1>2. Append(out, p) \in Paths /\ Last(Append(out, p)) = p /\ Append(out, p)[1] = out[1]
  BY <1>1, PathAppend
<1>3. /\ Undup(out, p) \in Paths /\ Undup(out, p)[1] = out[1]
      /\ Undup(out, p) = out \/ Last(Undup(out, p)) = p
      /\ ~Near(Last(out), p) => Last(Undup(out, p)) = p
  BY <1>2, Zenon DEF Undup, Near
<1>4. Undup(out, p) = out => Near(Last(out), p) \/ Last(out) = p
  BY <1>2, Zenon DEF Undup, Near
<1>5. Turn(out, p) \in Paths /\ Turn(out, p)[1] = out[1] /\ Last(Turn(out, p)) = p
  <2>1. CASE Len(out) >= 2
    <3>1. Front(out) \in Paths /\ Front(out)[1] = out[1]
      BY <1>1, <2>1, PathFront
    <3>2. Front(out) \in Seq(Points)
      BY <3>1, PathEnds
    <3>3. /\ Append(Front(out), p) \in Paths /\ Last(Append(Front(out), p)) = p
          /\ Append(Front(out), p)[1] = out[1]
      BY <3>1, <3>2, PathAppend
    <3> QED
      BY <1>2, <3>3, Zenon DEF Turn
  <2>2. CASE ~(Len(out) >= 2)
    BY <1>2, <2>2, Zenon DEF Turn
  <2> QED
    BY <2>1, <2>2
<1>6. Elbow(out, p) \in Paths /\ Elbow(out, p)[1] = out[1] /\ Last(Elbow(out, p)) = p
  <2> DEFINE q == Pt(p.x, Last(out).y)
  <2>1. q \in Points
    BY <1>1 DEF Pt, Points
  <2> HIDE DEF q
  <2>2. <<q, p>> \in Paths /\ Last(<<q, p>>) = p
    <3>1. <<q, p>> \in Seq(Points) /\ Len(<<q, p>>) = 2 /\ <<q, p>> # <<>>
      BY <2>1
    <3> QED
      BY <3>1 DEF Paths, Last
  <2>3. /\ out \o <<q, p>> \in Paths /\ Last(out \o <<q, p>>) = p
        /\ (out \o <<q, p>>)[1] = out[1]
    BY <1>1, <2>2, PathConcat
  <2> QED
    BY <1>2, <2>3, Zenon DEF Elbow, q
<1> QED
  BY <1>3, <1>4, <1>5, <1>6

\* g is the recursion of the first pass over the points s, begun with base.
Undupping(g, base, s) ==
    g = [S \in SUBSET (DOMAIN s) |->
           IF S = {} THEN base ELSE Undup(g[S \ {Max(S)}], s[Max(S)])]

UndupAll(base, s) == (CHOOSE g : Undupping(g, base, s))[DOMAIN s]

\* The first pass has a result.
LEMMA UnduppingExists ==
    ASSUME NEW base \in Paths, NEW s \in Seq(Points)
    PROVE  \E g : Undupping(g, base, s)
<1> DEFINE F == [q \in Paths \X Points |-> Undup(q[1], q[2])]
           n == Len(s)
<1>1. F \in [Paths \X Points -> Paths]
  <2>1. \A q \in Paths \X Points : Undup(q[1], q[2]) \in Paths
    BY PassTurns
  <2> QED
    BY <2>1
<1>2. \A o \in Paths, p \in Points : F[<<o, p>>] = Undup(o, p)
  OBVIOUS
<1>3. n \in Nat /\ DOMAIN s = 1 .. n /\ \A i \in 1 .. n : s[i] \in Points
  BY LenProperties, ElementOfSeq
<1> HIDE DEF F, n
<1>4. PICK g : Recursion(g, n, F, base, s)
  BY <1>3, RecursionExists
<1>5. \A S \in SUBSET (1 .. n) : g[S] \in Paths
  BY <1>1, <1>3, <1>4, RecursionTyped
<1>6. ASSUME NEW S \in SUBSET (1 .. n), S # {}
      PROVE  F[<<g[S \ {Max(S)}], s[Max(S)]>>] = Undup(g[S \ {Max(S)}], s[Max(S)])
  <2>1. s[Max(S)] \in Points
    BY <1>3, <1>6, MaxInside
  <2>2. g[S \ {Max(S)}] \in Paths
    BY <1>5
  <2> QED
    BY <1>2, <2>1, <2>2
<1>7. \A S \in SUBSET (1 .. n) :
         (IF S = {} THEN base ELSE F[<<g[S \ {Max(S)}], s[Max(S)]>>])
         = (IF S = {} THEN base ELSE Undup(g[S \ {Max(S)}], s[Max(S)]))
  BY <1>6, Zenon
<1>8. Undupping(g, base, s)
  BY <1>3, <1>4, <1>7, Zenon DEF Recursion, Undupping
<1> QED
  BY <1>8

\* The result of the first pass begins as base does, and ends as its last turn.
LEMMA UnduppingEnds ==
    ASSUME NEW base \in Paths, NEW s \in Seq(Points)
    PROVE  /\ UndupAll(base, s) \in Paths /\ UndupAll(base, s)[1] = base[1]
           /\ s = <<>> => UndupAll(base, s) = base
           /\ s # <<>> => \E o \in Paths :
                 /\ UndupAll(base, s) = Undup(o, Last(s))
                 /\ Len(s) >= 2 => \E q \in Paths : o = Undup(q, s[Len(s) - 1])
<1> DEFINE n == Len(s)
           g == CHOOSE f : Undupping(f, base, s)
           Values == {o \in Paths : o[1] = base[1]}
<1>1. n \in Nat /\ DOMAIN s = 1 .. n /\ \A i \in 1 .. n : s[i] \in Points
  BY LenProperties, ElementOfSeq
<1>2. Undupping(g, base, s)
  <2>1. \E f : Undupping(f, base, s)
    BY UnduppingExists
  <2> QED
    BY <2>1, Zenon
<1>3. UndupAll(base, s) = g[1 .. n]
  BY <1>1, Zenon DEF UndupAll
<1> HIDE DEF n, g
<1>4. \A S \in SUBSET (1 .. n) :
         g[S] = IF S = {} THEN base ELSE Undup(g[S \ {Max(S)}], s[Max(S)])
  BY <1>1, <1>2, Zenon DEF Undupping
<1>5. g[{}] = base
  <2>1. {} \in SUBSET (1 .. n)
    OBVIOUS
  <2> QED
    BY <1>4, <2>1, Zenon
<1>6. \A k \in 1 .. n : g[1 .. k] = Undup(g[1 .. k - 1], s[k])
  <2> SUFFICES ASSUME NEW k \in 1 .. n PROVE g[1 .. k] = Undup(g[1 .. k - 1], s[k])
    OBVIOUS
  <2>1. 1 .. k \in SUBSET (1 .. n) /\ 1 .. k # {} /\ Max(1 .. k) = k /\ (1 .. k) \ {k} = 1 .. k - 1
    BY <1>1, TurnIndex
  <2> QED
    BY <1>4, <2>1, Zenon
<1>7. \A k \in 0 .. n : g[1 .. k] \in Values
  <2>1. g[{}] \in Values
    BY <1>5
  <2>2. ASSUME NEW k \in 1 .. n, g[1 .. k - 1] \in Values PROVE g[1 .. k] \in Values
    <3>1. g[1 .. k - 1] \in Paths /\ g[1 .. k - 1][1] = base[1] /\ s[k] \in Points
      BY <1>1, <2>2
    <3>2. g[1 .. k] = Undup(g[1 .. k - 1], s[k])
      BY <1>6
    <3> DEFINE o == g[1 .. k - 1]
               q == s[k]
    <3> HIDE DEF o, q
    <3>3. Undup(o, q) \in Paths /\ Undup(o, q)[1] = base[1]
      BY <3>1, PassTurns DEF o, q
    <3> QED
      BY <3>2, <3>3 DEF o, q
  <2> HIDE DEF Values
  <2> QED
    BY <1>1, <2>1, <2>2, TurnsKeep
<1>8. g[1 .. n] \in Paths /\ g[1 .. n][1] = base[1]
  BY <1>1, <1>7
<1>9. ASSUME s = <<>> PROVE g[1 .. n] = base
  <2>1. n = 0
    BY <1>9, EmptySeq DEF n
  <2>2. 1 .. 0 = {}
    OBVIOUS
  <2> QED
    BY <1>5, <2>1, <2>2
<1>10. ASSUME s # <<>>
       PROVE  \E o \in Paths : /\ g[1 .. n] = Undup(o, Last(s))
                               /\ n >= 2 => \E q \in Paths : o = Undup(q, s[n - 1])
  <2>1. n >= 1
    BY <1>10, <1>1, EmptySeq DEF n
  <2>2. n \in 1 .. n /\ n - 1 \in 0 .. n
    BY <1>1, <2>1
  <2>3. g[1 .. n] = Undup(g[1 .. n - 1], Last(s)) /\ g[1 .. n - 1] \in Paths
    BY <1>6, <1>7, <2>2 DEF Last, n
  <2>4. ASSUME n >= 2 PROVE \E q \in Paths : g[1 .. n - 1] = Undup(q, s[n - 1])
    <3>1. n - 1 \in 1 .. n /\ n - 1 - 1 \in 0 .. n
      BY <1>1, <2>4
    <3> QED
      BY <1>6, <1>7, <3>1
  <2> QED
    BY <2>3, <2>4
<1> QED
  BY <1>3, <1>8, <1>9, <1>10 DEF n

\* g is the recursion of the second pass over the points s, begun with base.
Turning(g, base, s) ==
    g = [S \in SUBSET (DOMAIN s) |->
           IF S = {} THEN base ELSE Turn(g[S \ {Max(S)}], s[Max(S)])]

TurnAll(base, s) == (CHOOSE g : Turning(g, base, s))[DOMAIN s]

\* The second pass has a result.
LEMMA TurningExists ==
    ASSUME NEW base \in Paths, NEW s \in Seq(Points)
    PROVE  \E g : Turning(g, base, s)
<1> DEFINE F == [q \in Paths \X Points |-> Turn(q[1], q[2])]
           n == Len(s)
<1>1. F \in [Paths \X Points -> Paths]
  <2>1. \A q \in Paths \X Points : Turn(q[1], q[2]) \in Paths
    BY PassTurns
  <2> QED
    BY <2>1
<1>2. \A o \in Paths, p \in Points : F[<<o, p>>] = Turn(o, p)
  OBVIOUS
<1>3. n \in Nat /\ DOMAIN s = 1 .. n /\ \A i \in 1 .. n : s[i] \in Points
  BY LenProperties, ElementOfSeq
<1> HIDE DEF F, n
<1>4. PICK g : Recursion(g, n, F, base, s)
  BY <1>3, RecursionExists
<1>5. \A S \in SUBSET (1 .. n) : g[S] \in Paths
  BY <1>1, <1>3, <1>4, RecursionTyped
<1>6. ASSUME NEW S \in SUBSET (1 .. n), S # {}
      PROVE  F[<<g[S \ {Max(S)}], s[Max(S)]>>] = Turn(g[S \ {Max(S)}], s[Max(S)])
  <2>1. s[Max(S)] \in Points
    BY <1>3, <1>6, MaxInside
  <2>2. g[S \ {Max(S)}] \in Paths
    BY <1>5
  <2> QED
    BY <1>2, <2>1, <2>2
<1>7. \A S \in SUBSET (1 .. n) :
         (IF S = {} THEN base ELSE F[<<g[S \ {Max(S)}], s[Max(S)]>>])
         = (IF S = {} THEN base ELSE Turn(g[S \ {Max(S)}], s[Max(S)]))
  BY <1>6, Zenon
<1>8. Turning(g, base, s)
  BY <1>3, <1>4, <1>7, Zenon DEF Recursion, Turning
<1> QED
  BY <1>8

\* The result of the second pass begins as base does, and ends as its last turn.
LEMMA TurningEnds ==
    ASSUME NEW base \in Paths, NEW s \in Seq(Points)
    PROVE  /\ TurnAll(base, s) \in Paths /\ TurnAll(base, s)[1] = base[1]
           /\ s = <<>> => TurnAll(base, s) = base
           /\ s # <<>> => \E o \in Paths :
                 /\ TurnAll(base, s) = Turn(o, Last(s))
                 /\ Len(s) >= 2 => \E q \in Paths : o = Turn(q, s[Len(s) - 1])
<1> DEFINE n == Len(s)
           g == CHOOSE f : Turning(f, base, s)
           Values == {o \in Paths : o[1] = base[1]}
<1>1. n \in Nat /\ DOMAIN s = 1 .. n /\ \A i \in 1 .. n : s[i] \in Points
  BY LenProperties, ElementOfSeq
<1>2. Turning(g, base, s)
  <2>1. \E f : Turning(f, base, s)
    BY TurningExists
  <2> QED
    BY <2>1, Zenon
<1>3. TurnAll(base, s) = g[1 .. n]
  BY <1>1, Zenon DEF TurnAll
<1> HIDE DEF n, g
<1>4. \A S \in SUBSET (1 .. n) :
         g[S] = IF S = {} THEN base ELSE Turn(g[S \ {Max(S)}], s[Max(S)])
  BY <1>1, <1>2, Zenon DEF Turning
<1>5. g[{}] = base
  <2>1. {} \in SUBSET (1 .. n)
    OBVIOUS
  <2> QED
    BY <1>4, <2>1, Zenon
<1>6. \A k \in 1 .. n : g[1 .. k] = Turn(g[1 .. k - 1], s[k])
  <2> SUFFICES ASSUME NEW k \in 1 .. n PROVE g[1 .. k] = Turn(g[1 .. k - 1], s[k])
    OBVIOUS
  <2>1. 1 .. k \in SUBSET (1 .. n) /\ 1 .. k # {} /\ Max(1 .. k) = k /\ (1 .. k) \ {k} = 1 .. k - 1
    BY <1>1, TurnIndex
  <2> QED
    BY <1>4, <2>1, Zenon
<1>7. \A k \in 0 .. n : g[1 .. k] \in Values
  <2>1. g[{}] \in Values
    BY <1>5
  <2>2. ASSUME NEW k \in 1 .. n, g[1 .. k - 1] \in Values PROVE g[1 .. k] \in Values
    <3>1. g[1 .. k - 1] \in Paths /\ g[1 .. k - 1][1] = base[1] /\ s[k] \in Points
      BY <1>1, <2>2
    <3>2. g[1 .. k] = Turn(g[1 .. k - 1], s[k])
      BY <1>6
    <3> DEFINE o == g[1 .. k - 1]
               q == s[k]
    <3> HIDE DEF o, q
    <3>3. Turn(o, q) \in Paths /\ Turn(o, q)[1] = base[1]
      BY <3>1, PassTurns DEF o, q
    <3> QED
      BY <3>2, <3>3 DEF o, q
  <2> HIDE DEF Values
  <2> QED
    BY <1>1, <2>1, <2>2, TurnsKeep
<1>8. g[1 .. n] \in Paths /\ g[1 .. n][1] = base[1]
  BY <1>1, <1>7
<1>9. ASSUME s = <<>> PROVE g[1 .. n] = base
  <2>1. n = 0
    BY <1>9, EmptySeq DEF n
  <2>2. 1 .. 0 = {}
    OBVIOUS
  <2> QED
    BY <1>5, <2>1, <2>2
<1>10. ASSUME s # <<>>
       PROVE  \E o \in Paths : /\ g[1 .. n] = Turn(o, Last(s))
                               /\ n >= 2 => \E q \in Paths : o = Turn(q, s[n - 1])
  <2>1. n >= 1
    BY <1>10, <1>1, EmptySeq DEF n
  <2>2. n \in 1 .. n /\ n - 1 \in 0 .. n
    BY <1>1, <2>1
  <2>3. g[1 .. n] = Turn(g[1 .. n - 1], Last(s)) /\ g[1 .. n - 1] \in Paths
    BY <1>6, <1>7, <2>2 DEF Last, n
  <2>4. ASSUME n >= 2 PROVE \E q \in Paths : g[1 .. n - 1] = Turn(q, s[n - 1])
    <3>1. n - 1 \in 1 .. n /\ n - 1 - 1 \in 0 .. n
      BY <1>1, <2>4
    <3> QED
      BY <1>6, <1>7, <3>1
  <2> QED
    BY <2>3, <2>4
<1> QED
  BY <1>3, <1>8, <1>9, <1>10 DEF n

\* g is the recursion of the third pass over the points s, begun with base.
Bending(g, base, s) ==
    g = [S \in SUBSET (DOMAIN s) |->
           IF S = {} THEN base ELSE Elbow(g[S \ {Max(S)}], s[Max(S)])]

BendAll(base, s) == (CHOOSE g : Bending(g, base, s))[DOMAIN s]

\* The third pass has a result.
LEMMA BendingExists ==
    ASSUME NEW base \in Paths, NEW s \in Seq(Points)
    PROVE  \E g : Bending(g, base, s)
<1> DEFINE F == [q \in Paths \X Points |-> Elbow(q[1], q[2])]
           n == Len(s)
<1>1. F \in [Paths \X Points -> Paths]
  <2>1. \A q \in Paths \X Points : Elbow(q[1], q[2]) \in Paths
    BY PassTurns
  <2> QED
    BY <2>1
<1>2. \A o \in Paths, p \in Points : F[<<o, p>>] = Elbow(o, p)
  OBVIOUS
<1>3. n \in Nat /\ DOMAIN s = 1 .. n /\ \A i \in 1 .. n : s[i] \in Points
  BY LenProperties, ElementOfSeq
<1> HIDE DEF F, n
<1>4. PICK g : Recursion(g, n, F, base, s)
  BY <1>3, RecursionExists
<1>5. \A S \in SUBSET (1 .. n) : g[S] \in Paths
  BY <1>1, <1>3, <1>4, RecursionTyped
<1>6. ASSUME NEW S \in SUBSET (1 .. n), S # {}
      PROVE  F[<<g[S \ {Max(S)}], s[Max(S)]>>] = Elbow(g[S \ {Max(S)}], s[Max(S)])
  <2>1. s[Max(S)] \in Points
    BY <1>3, <1>6, MaxInside
  <2>2. g[S \ {Max(S)}] \in Paths
    BY <1>5
  <2> QED
    BY <1>2, <2>1, <2>2
<1>7. \A S \in SUBSET (1 .. n) :
         (IF S = {} THEN base ELSE F[<<g[S \ {Max(S)}], s[Max(S)]>>])
         = (IF S = {} THEN base ELSE Elbow(g[S \ {Max(S)}], s[Max(S)]))
  BY <1>6, Zenon
<1>8. Bending(g, base, s)
  BY <1>3, <1>4, <1>7, Zenon DEF Recursion, Bending
<1> QED
  BY <1>8

\* The result of the third pass begins as base does, and ends as its last turn.
LEMMA BendingEnds ==
    ASSUME NEW base \in Paths, NEW s \in Seq(Points)
    PROVE  /\ BendAll(base, s) \in Paths /\ BendAll(base, s)[1] = base[1]
           /\ s = <<>> => BendAll(base, s) = base
           /\ s # <<>> => \E o \in Paths :
                 /\ BendAll(base, s) = Elbow(o, Last(s))
                 /\ Len(s) >= 2 => \E q \in Paths : o = Elbow(q, s[Len(s) - 1])
<1> DEFINE n == Len(s)
           g == CHOOSE f : Bending(f, base, s)
           Values == {o \in Paths : o[1] = base[1]}
<1>1. n \in Nat /\ DOMAIN s = 1 .. n /\ \A i \in 1 .. n : s[i] \in Points
  BY LenProperties, ElementOfSeq
<1>2. Bending(g, base, s)
  <2>1. \E f : Bending(f, base, s)
    BY BendingExists
  <2> QED
    BY <2>1, Zenon
<1>3. BendAll(base, s) = g[1 .. n]
  BY <1>1, Zenon DEF BendAll
<1> HIDE DEF n, g
<1>4. \A S \in SUBSET (1 .. n) :
         g[S] = IF S = {} THEN base ELSE Elbow(g[S \ {Max(S)}], s[Max(S)])
  BY <1>1, <1>2, Zenon DEF Bending
<1>5. g[{}] = base
  <2>1. {} \in SUBSET (1 .. n)
    OBVIOUS
  <2> QED
    BY <1>4, <2>1, Zenon
<1>6. \A k \in 1 .. n : g[1 .. k] = Elbow(g[1 .. k - 1], s[k])
  <2> SUFFICES ASSUME NEW k \in 1 .. n PROVE g[1 .. k] = Elbow(g[1 .. k - 1], s[k])
    OBVIOUS
  <2>1. 1 .. k \in SUBSET (1 .. n) /\ 1 .. k # {} /\ Max(1 .. k) = k /\ (1 .. k) \ {k} = 1 .. k - 1
    BY <1>1, TurnIndex
  <2> QED
    BY <1>4, <2>1, Zenon
<1>7. \A k \in 0 .. n : g[1 .. k] \in Values
  <2>1. g[{}] \in Values
    BY <1>5
  <2>2. ASSUME NEW k \in 1 .. n, g[1 .. k - 1] \in Values PROVE g[1 .. k] \in Values
    <3>1. g[1 .. k - 1] \in Paths /\ g[1 .. k - 1][1] = base[1] /\ s[k] \in Points
      BY <1>1, <2>2
    <3>2. g[1 .. k] = Elbow(g[1 .. k - 1], s[k])
      BY <1>6
    <3> DEFINE o == g[1 .. k - 1]
               q == s[k]
    <3> HIDE DEF o, q
    <3>3. Elbow(o, q) \in Paths /\ Elbow(o, q)[1] = base[1]
      BY <3>1, PassTurns DEF o, q
    <3> QED
      BY <3>2, <3>3 DEF o, q
  <2> HIDE DEF Values
  <2> QED
    BY <1>1, <2>1, <2>2, TurnsKeep
<1>8. g[1 .. n] \in Paths /\ g[1 .. n][1] = base[1]
  BY <1>1, <1>7
<1>9. ASSUME s = <<>> PROVE g[1 .. n] = base
  <2>1. n = 0
    BY <1>9, EmptySeq DEF n
  <2>2. 1 .. 0 = {}
    OBVIOUS
  <2> QED
    BY <1>5, <2>1, <2>2
<1>10. ASSUME s # <<>>
       PROVE  \E o \in Paths : /\ g[1 .. n] = Elbow(o, Last(s))
                               /\ n >= 2 => \E q \in Paths : o = Elbow(q, s[n - 1])
  <2>1. n >= 1
    BY <1>10, <1>1, EmptySeq DEF n
  <2>2. n \in 1 .. n /\ n - 1 \in 0 .. n
    BY <1>1, <2>1
  <2>3. g[1 .. n] = Elbow(g[1 .. n - 1], Last(s)) /\ g[1 .. n - 1] \in Paths
    BY <1>6, <1>7, <2>2 DEF Last, n
  <2>4. ASSUME n >= 2 PROVE \E q \in Paths : g[1 .. n - 1] = Elbow(q, s[n - 1])
    <3>1. n - 1 \in 1 .. n /\ n - 1 - 1 \in 0 .. n
      BY <1>1, <2>4
    <3> QED
      BY <1>6, <1>7, <3>1
  <2> QED
    BY <2>3, <2>4
<1> QED
  BY <1>3, <1>8, <1>9, <1>10 DEF n

\* The passes are those of the code.
LEMMA PassesMeet ==
    ASSUME NEW pts
    PROVE  /\ SimplifyOrthogonal(pts) =
                 IF Len(pts) <= 2 THEN pts
                 ELSE LET out == UndupAll(<<pts[1]>>, Tail(pts)) IN TurnAll(<<out[1]>>, Tail(out))
           /\ EnforceOrthogonal(pts) =
                 IF Len(pts) <= 1 THEN pts
                 ELSE SimplifyOrthogonal(BendAll(<<pts[1]>>, Tail(pts)))
<1>1. SimplifyOrthogonal(pts) =
                 IF Len(pts) <= 2 THEN pts
                 ELSE LET out == UndupAll(<<pts[1]>>, Tail(pts)) IN TurnAll(<<out[1]>>, Tail(out))
  BY Zenon DEF SimplifyOrthogonal, FoldLeft, MapThenFoldSet, UndupAll, TurnAll, Undupping, Turning, Undup, Turn
<1>2. EnforceOrthogonal(pts) =
                 IF Len(pts) <= 1 THEN pts
                 ELSE SimplifyOrthogonal(BendAll(<<pts[1]>>, Tail(pts)))
  BY Zenon DEF EnforceOrthogonal, FoldLeft, MapThenFoldSet, BendAll, Bending, Elbow
<1> QED
  BY <1>1, <1>2

-----------------------------------------------------------------------------
\* A line after the passes

\* A line less its first point, and that point.
LEMMA PathTail ==
    ASSUME NEW s \in Paths
    PROVE  /\ <<s[1]>> \in Paths /\ <<s[1]>>[1] = s[1] /\ Last(<<s[1]>>) = s[1]
           /\ Tail(s) \in Seq(Points) /\ Len(Tail(s)) = Len(s) - 1
           /\ Len(s) < 2 => Tail(s) = <<>> /\ Last(s) = s[1]
           /\ Len(s) >= 2 => Tail(s) # <<>> /\ Last(Tail(s)) = Last(s)
           /\ Len(s) >= 3 => Tail(s)[Len(Tail(s)) - 1] = s[Len(s) - 1]
<1>1. s \in Seq(Points) /\ s # <<>> /\ Len(s) \in Nat /\ Len(s) >= 1 /\ s[1] \in Points
  BY PathEnds DEF Paths
<1>2. /\ Tail(s) \in Seq(Points) /\ Len(Tail(s)) = Len(s) - 1
      /\ \A i \in 1 .. Len(Tail(s)) : Tail(s)[i] = s[i + 1]
  BY <1>1, HeadTailProperties
<1>3. <<s[1]>> \in Paths /\ <<s[1]>>[1] = s[1] /\ Last(<<s[1]>>) = s[1]
  <2>1. <<s[1]>> \in Seq(Points) /\ Len(<<s[1]>>) = 1 /\ <<s[1]>> # <<>> /\ <<s[1]>>[1] = s[1]
    BY <1>1
  <2> QED
    BY <2>1 DEF Paths, Last
<1>4. ASSUME Len(s) < 2 PROVE Tail(s) = <<>> /\ Last(s) = s[1]
  <2>1. Len(s) = 1 /\ Len(Tail(s)) = 0
    BY <1>1, <1>2, <1>4
  <2> QED
    BY <1>2, <2>1, EmptySeq DEF Last
<1>5. ASSUME Len(s) >= 2 PROVE Tail(s) # <<>> /\ Last(Tail(s)) = Last(s)
  <2>1. Len(Tail(s)) # 0 /\ Len(Tail(s)) \in 1 .. Len(Tail(s)) /\ Len(Tail(s)) + 1 = Len(s)
    BY <1>1, <1>2, <1>5
  <2>2. Tail(s) # <<>>
    BY <2>1, EmptySeq
  <2>3. Tail(s)[Len(Tail(s))] = s[Len(Tail(s)) + 1]
    BY <1>2, <2>1
  <2> QED
    BY <2>1, <2>2, <2>3 DEF Last
<1>6. ASSUME Len(s) >= 3 PROVE Tail(s)[Len(Tail(s)) - 1] = s[Len(s) - 1]
  <2>1. Len(Tail(s)) - 1 \in 1 .. Len(Tail(s)) /\ Len(Tail(s)) - 1 + 1 = Len(s) - 1
    BY <1>1, <1>2, <1>6
  <2> QED
    BY <1>2, <2>1
<1> QED
  BY <1>2, <1>3, <1>4, <1>5, <1>6

\* A point is near itself, and no point is near two that are far apart.
LEMMA NearPoints ==
    /\ \A p \in Points : Near(p, p)
    /\ \A p, q, r \in Points :
          Near(q, p) /\ Near(q, r) => Dist(p.x, r.x) < Px /\ Dist(p.y, r.y) < Px
    /\ \A p, q, r, s \in Points :
          Near(q, p) /\ Near(q, r) /\ Near(p, s) => Dist(s.x, r.x) < 2 * Px /\ Dist(s.y, r.y) < 2 * Px
<1>1. Px \in Nat /\ Px > 0
  BY PxAssumption
<1>2. \A a \in Int : AlmostEq(a, a)
  BY <1>1 DEF AlmostEq, Dist
<1>3. \A a, b, c \in Int : AlmostEq(b, a) /\ AlmostEq(b, c) => Dist(a, c) < Px
  BY <1>1 DEF AlmostEq, Dist
<1>4. \A a, b, c, d \in Int : AlmostEq(b, a) /\ AlmostEq(b, c) /\ AlmostEq(a, d) => Dist(d, c) < 2 * Px
  BY <1>1 DEF AlmostEq, Dist
<1>5. \A p \in Points : p.x \in Int /\ p.y \in Int
  BY DEF Points
<1> QED
  BY <1>2, <1>3, <1>4, <1>5 DEF Near

\* What simplifying leaves of a line: its first point; and its last one, but for
\* less than half a pixel, and exactly unless the one before it was that near.
LEMMA Simplified ==
    ASSUME NEW pts \in Paths
    PROVE  /\ SimplifyOrthogonal(pts) \in Paths
           /\ SimplifyOrthogonal(pts)[1] = pts[1]
           /\ Near(Last(SimplifyOrthogonal(pts)), Last(pts))
           /\ Len(pts) >= 3 =>
                 \/ Last(SimplifyOrthogonal(pts)) = Last(pts)
                 \/ \E q \in Points : Near(q, pts[Len(pts) - 1]) /\ Near(q, Last(pts))
<1>1. /\ pts \in Seq(Points) /\ Len(pts) \in Nat /\ Len(pts) >= 1
      /\ pts[1] \in Points /\ Last(pts) \in Points
      /\ \A i \in 1 .. Len(pts) : pts[i] \in Points
  BY PathEnds
<1>2. Near(Last(pts), Last(pts))
  BY <1>1, NearPoints
<1>3. CASE Len(pts) <= 2
  <2>1. SimplifyOrthogonal(pts) = pts
    BY <1>3, PassesMeet
  <2>2. ~(Len(pts) >= 3)
    BY <1>1, <1>3
  <2> QED
    BY <1>2, <2>1, <2>2
<1>4. CASE ~(Len(pts) <= 2)
  <2> DEFINE base == <<pts[1]>>
             s == Tail(pts)
             u == UndupAll(base, s)
             r == TurnAll(<<u[1]>>, Tail(u))
  <2>1. Len(pts) >= 3
    BY <1>1, <1>4
  <2>2. /\ base \in Paths /\ base[1] = pts[1] /\ s \in Seq(Points) /\ s # <<>>
        /\ Last(s) = Last(pts) /\ Len(s) = Len(pts) - 1 /\ s[Len(s) - 1] = pts[Len(pts) - 1]
    BY <1>1, <2>1, PathTail
  <2>3. SimplifyOrthogonal(pts) = r
    BY <1>4, PassesMeet
  <2> HIDE DEF base, s, u, r
  <2>4. u \in Paths /\ u[1] = pts[1]
    BY <2>2, UnduppingEnds DEF u
  <2>5. PICK o \in Paths : u = Undup(o, Last(pts)) /\ \E q \in Paths : o = Undup(q, pts[Len(pts) - 1])
    <3>1. Len(s) >= 2
      BY <1>1, <2>1, <2>2
    <3>2. \E o \in Paths : /\ UndupAll(base, s) = Undup(o, Last(s))
                           /\ Len(s) >= 2 => \E q \in Paths : o = Undup(q, s[Len(s) - 1])
      BY <2>2, UnduppingEnds
    <3> QED
      BY <2>2, <3>1, <3>2 DEF u
  <2>6. PICK q \in Paths : o = Undup(q, pts[Len(pts) - 1])
    BY <2>5
  <2>7. pts[Len(pts) - 1] \in Points
    <3>1. Len(pts) - 1 \in 1 .. Len(pts)
      BY <1>1, <2>1
    <3> QED
      BY <1>1, <3>1
  <2>8. Near(Last(o), pts[Len(pts) - 1])
    <3>1. o = q \/ Last(o) = pts[Len(pts) - 1]
      BY <2>6, <2>7, PassTurns
    <3>2. o = q => Near(Last(q), pts[Len(pts) - 1]) \/ Last(q) = pts[Len(pts) - 1]
      BY <2>6, <2>7, PassTurns
    <3>3. Near(pts[Len(pts) - 1], pts[Len(pts) - 1])
      BY <2>7, NearPoints
    <3> QED
      BY <3>1, <3>2, <3>3
  <2>9. \/ Last(u) = Last(pts)
        \/ Last(u) = Last(o) /\ Near(Last(o), Last(pts))
    <3>1. u = o \/ Last(u) = Last(pts)
      BY <1>1, <2>5, PassTurns
    <3>2. u = o => Near(Last(o), Last(pts)) \/ Last(o) = Last(pts)
      BY <1>1, <2>5, PassTurns
    <3> QED
      BY <3>1, <3>2
  <2>10. r \in Paths /\ r[1] = u[1] /\ Last(r) = Last(u)
    <3>1. /\ <<u[1]>> \in Paths /\ <<u[1]>>[1] = u[1] /\ Last(<<u[1]>>) = u[1] /\ Tail(u) \in Seq(Points)
          /\ Len(u) < 2 => Tail(u) = <<>> /\ Last(u) = u[1]
          /\ Len(u) >= 2 => Tail(u) # <<>> /\ Last(Tail(u)) = Last(u)
      BY <2>4, PathTail
    <3> DEFINE b == <<u[1]>>
               v == Tail(u)
    <3>2. r = TurnAll(b, v)
      BY DEF r
    <3>3. b \in Paths /\ b[1] = u[1] /\ Last(b) = u[1] /\ v \in Seq(Points)
      BY <3>1
    <3>4. Len(u) \in Nat
      BY <2>4, PathEnds
    <3>5. \/ v = <<>> /\ Last(u) = u[1]
          \/ v # <<>> /\ Last(v) = Last(u)
      BY <3>1, <3>4
    <3> HIDE DEF b, v
    <3>6. r \in Paths /\ r[1] = u[1]
      BY <3>2, <3>3, TurningEnds
    <3>7. CASE v = <<>> /\ Last(u) = u[1]
      <4>1. r = b
        BY <3>2, <3>3, <3>7, TurningEnds
      <4> QED
        BY <3>3, <3>6, <3>7, <4>1
    <3>8. CASE v # <<>> /\ Last(v) = Last(u)
      <4>1. PICK w \in Paths : r = Turn(w, Last(v))
        BY <3>2, <3>3, <3>8, TurningEnds
      <4>2. Last(u) \in Points
        BY <2>4, PathEnds
      <4>3. Last(r) = Last(v)
        BY <3>8, <4>1, <4>2, PassTurns
      <4> QED
        BY <3>6, <3>8, <4>3
    <3> QED
      BY <3>5, <3>7, <3>8
  <2>11. Near(Last(r), Last(pts))
    BY <1>2, <2>9, <2>10
  <2>12. Last(o) \in Points
    BY PathEnds
  <2> QED
    BY <2>3, <2>4, <2>8, <2>9, <2>10, <2>11, <2>12
<1> QED
  BY <1>3, <1>4

\* Putting corners in keeps the ends as well.
LEMMA Enforced ==
    ASSUME NEW pts \in Paths
    PROVE  /\ EnforceOrthogonal(pts) \in Paths
           /\ EnforceOrthogonal(pts)[1] = pts[1]
           /\ Near(Last(EnforceOrthogonal(pts)), Last(pts))
<1>1. Len(pts) \in Nat /\ Last(pts) \in Points /\ pts[1] \in Points
  BY PathEnds
<1>2. CASE Len(pts) <= 1
  <2>1. EnforceOrthogonal(pts) = pts
    BY <1>2, PassesMeet
  <2>2. Near(Last(pts), Last(pts))
    BY <1>1, NearPoints
  <2> QED
    BY <2>1, <2>2
<1>3. CASE ~(Len(pts) <= 1)
  <2> DEFINE b == <<pts[1]>>
             v == Tail(pts)
             r == BendAll(b, v)
  <2>1. b \in Paths /\ b[1] = pts[1] /\ v \in Seq(Points) /\ v # <<>> /\ Last(v) = Last(pts)
    BY <1>1, <1>3, PathTail
  <2>2. EnforceOrthogonal(pts) = SimplifyOrthogonal(r)
    BY <1>3, PassesMeet
  <2> HIDE DEF b, v, r
  <2>3. r \in Paths /\ r[1] = pts[1]
    BY <2>1, BendingEnds DEF r
  <2>4. PICK w \in Paths : r = Elbow(w, Last(v))
    BY <2>1, BendingEnds DEF r
  <2>5. Last(r) = Last(pts)
    BY <1>1, <2>1, <2>4, PassTurns
  <2> QED
    BY <2>2, <2>3, <2>5, Simplified
<1> QED
  BY <1>2, <1>3

-----------------------------------------------------------------------------
\* Boxes and ports

\* Finitely many numbers have a least one and a greatest one.
LEMMA Extremes ==
    ASSUME NEW S \in SUBSET Int, IsFiniteSet(S), S # {}
    PROVE  /\ Min(S) \in S /\ \A y \in S : Min(S) <= y
           /\ Max(S) \in S /\ \A y \in S : Max(S) >= y
<1> DEFINE T == {n \in Nat : \A R \in SUBSET Int :
                    IsFiniteSet(R) /\ Cardinality(R) = n /\ R # {} =>
                       /\ \E x \in R : \A y \in R : x <= y
                       /\ \E x \in R : \A y \in R : x >= y}
<1>1. 0 \in T
  BY FS_EmptySet
<1>2. ASSUME NEW n \in Nat, n \in T PROVE n + 1 \in T
  <2> SUFFICES ASSUME NEW R \in SUBSET Int, IsFiniteSet(R), Cardinality(R) = n + 1, R # {}
               PROVE  /\ \E x \in R : \A y \in R : x <= y
                      /\ \E x \in R : \A y \in R : x >= y
    OBVIOUS
  <2>1. PICK e \in R : TRUE
    OBVIOUS
  <2> DEFINE Q == R \ {e}
  <2>2. IsFiniteSet(Q) /\ Cardinality(Q) = n /\ Q \in SUBSET Int
    <3>1. IsFiniteSet(R \ {e}) /\ Cardinality(R \ {e}) = Cardinality(R) - 1
      BY FS_RemoveElement
    <3> QED
      BY <3>1
  <2>3. CASE Q = {}
    <3>1. \A y \in R : y = e
      BY <2>3
    <3> QED
      BY <3>1
  <2>4. CASE Q # {}
    <3>1. PICK lo \in Q : \A y \in Q : lo <= y
      BY <1>2, <2>2, <2>4
    <3>2. PICK hi \in Q : \A y \in Q : hi >= y
      BY <1>2, <2>2, <2>4
    <3>3. \A y \in R : y = e \/ y \in Q
      OBVIOUS
    <3>4. lo \in R /\ hi \in R /\ lo \in Int /\ hi \in Int /\ e \in Int
      OBVIOUS
    <3> HIDE DEF Q
    <3>5. \E x \in R : \A y \in R : x <= y
      <4>1. CASE e <= lo
        <5>1. \A y \in R : y \in Int /\ (y = e \/ lo <= y)
          BY <3>1, <3>3
        <5> QED
          BY <3>4, <4>1, <5>1
      <4>2. CASE ~(e <= lo)
        <5>1. \A y \in R : y \in Int /\ (y = e \/ lo <= y)
          BY <3>1, <3>3
        <5> QED
          BY <3>4, <4>2, <5>1
      <4> QED
        BY <4>1, <4>2
    <3>6. \E x \in R : \A y \in R : x >= y
      <4>1. \A y \in R : y \in Int /\ (y = e \/ hi >= y)
        BY <3>2, <3>3
      <4>2. CASE e >= hi
        BY <3>4, <4>1, <4>2
      <4>3. CASE ~(e >= hi)
        BY <3>4, <4>1, <4>3
      <4> QED
        BY <4>2, <4>3
    <3> QED
      BY <3>5, <3>6
  <2> QED
    BY <2>3, <2>4
<1> HIDE DEF T
<1>3. Cardinality(S) \in T
  <2>1. Nat \subseteq T
    BY <1>1, <1>2, SetInduction, Zenon
  <2> QED
    BY <2>1, FS_CardinalityType
<1>4. (\E x \in S : \A y \in S : x <= y) /\ (\E x \in S : \A y \in S : x >= y)
  BY <1>3 DEF T
<1> QED
  BY <1>4, Zenon DEF Min, Max

Boxes == [x : Int, y : Int, w : Int, h : Int]

\* The box of an object has numbers for its place and its size.
LEMMA BoxOfObject ==
    ASSUME NEW o, Measured(o)
    PROVE  ObjectAABB(o) \in Boxes
<1>1. {o.x, o.y, o.w, o.h} \subseteq Int
  BY DEF Measured
<1>2. CASE IsPath(o) /\ o.points # <<>>
  <2> DEFINE xs == {o.x + p.x : p \in ToSet(o.points)}
             ys == {o.y + p.y : p \in ToSet(o.points)}
  <2>1. o.points \in Seq(Points) /\ DOMAIN o.points = 1 .. Len(o.points) /\ Len(o.points) \in Nat
    BY <1>2, LenProperties DEF Measured
  <2>2. ToSet(o.points) \subseteq Points
    BY <2>1, ElementOfSeq DEF ToSet
  <2>3. ToSet(o.points) # {}
    <3>1. Len(o.points) # 0
      BY <1>2, <2>1, EmptySeq
    <3>2. 1 \in DOMAIN o.points
      BY <2>1, <3>1
    <3> QED
      BY <3>2 DEF ToSet
  <2>4. IsFiniteSet(xs) /\ IsFiniteSet(ys)
    <3> DEFINE n == Len(o.points)
               f == [i \in 1 .. n |-> o.x + o.points[i].x]
               g == [i \in 1 .. n |-> o.y + o.points[i].y]
    <3>1. IsFiniteSet(1 .. n)
      BY <2>1, FS_Interval
    <3>2. f \in Surjection(1 .. n, xs) /\ g \in Surjection(1 .. n, ys)
      BY <2>1 DEF ToSet, Surjection
    <3> QED
      BY <3>1, <3>2, FS_Surjection
  <2>5. xs \in SUBSET Int /\ ys \in SUBSET Int /\ xs # {} /\ ys # {}
    BY <1>1, <2>2, <2>3 DEF Points
  <2> HIDE DEF xs, ys
  <2>6. /\ Min(xs) \in Int /\ Max(xs) \in Int
        /\ Min(ys) \in Int /\ Max(ys) \in Int
    BY <2>4, <2>5, Extremes
  <2>7. \A a \in Int : Max({Px, a}) \in Int
    <3> SUFFICES ASSUME NEW a \in Int PROVE Max({Px, a}) \in Int
      OBVIOUS
    <3>1. {Px, a} \in SUBSET Int /\ {Px, a} # {}
      BY PxAssumption
    <3>2. IsFiniteSet({Px, a})
      <4>1. IsFiniteSet({}) /\ IsFiniteSet({} \cup {Px})
        BY FS_EmptySet, FS_AddElement
      <4>2. IsFiniteSet(({} \cup {Px}) \cup {a})
        BY <4>1, FS_AddElement
      <4>3. ({} \cup {Px}) \cup {a} = {Px, a}
        OBVIOUS
      <4> QED
        BY <4>2, <4>3
    <3> QED
      BY <3>1, <3>2, Extremes
  <2>8. ObjectAABB(o) = Box(Min(xs), Min(ys), Max({Px, Max(xs) - Min(xs)}), Max({Px, Max(ys) - Min(ys)}))
    BY <1>2, Zenon DEF ObjectAABB, xs, ys
  <2>9. Max({Px, Max(xs) - Min(xs)}) \in Int /\ Max({Px, Max(ys) - Min(ys)}) \in Int
    BY <2>6, <2>7
  <2> QED
    BY <2>6, <2>8, <2>9 DEF Box, Boxes
<1>3. CASE ~(IsPath(o) /\ o.points # <<>>)
  <2>1. ObjectAABB(o) = Box(o.x, o.y, o.w, o.h)
    BY <1>3, Zenon DEF ObjectAABB
  <2> QED
    BY <1>1, <2>1 DEF Box, Boxes
<1> QED
  BY <1>2, <1>3

\* The four sides.
LEMMA FourSides ==
    /\ ToSet(Sides) = {"top", "right", "bottom", "left"}
    /\ \A i \in 1 .. 4 : Sides[i] \in ToSet(Sides)
<1>1. DOMAIN Sides = 1 .. 4
  BY DEF Sides
<1>2. Sides[1] = "top" /\ Sides[2] = "right" /\ Sides[3] = "bottom" /\ Sides[4] = "left"
  BY DEF Sides
<1>3. 1 .. 4 = {1, 2, 3, 4}
  OBVIOUS
<1> QED
  BY <1>1, <1>2, <1>3 DEF ToSet

\* A port is a point.
LEMMA PortPoint ==
    ASSUME NEW b \in Boxes, NEW side \in ToSet(Sides), NEW t \in Int
    PROVE  OnSide(b, side, t) \in Points
<1>1. b.x \in Int /\ b.y \in Int /\ b.w \in Int /\ b.h \in Int
  BY DEF Boxes
<1>2. b.w * t \in Int /\ b.h * t \in Int
  BY <1>1
<1>3. (b.w * t) \div 4 \in Int /\ (b.h * t) \div 4 \in Int
  <2> DEFINE u == b.w * t
             v == b.h * t
  <2>1. u \in Int /\ v \in Int
    BY <1>2
  <2> HIDE DEF u, v
  <2>2. u \div 4 \in Int /\ v \div 4 \in Int
    BY <2>1
  <2> QED
    BY <2>2 DEF u, v
<1> DEFINE a == b.x + (b.w * t) \div 4
           d == b.y + (b.h * t) \div 4
<1>4. a \in Int /\ d \in Int
  BY <1>1, <1>3
<1>5. OnSide(b, side, t) \in {Pt(a, b.y), Pt(a, b.y + b.h), Pt(b.x, d), Pt(b.x + b.w, d)}
  <2>1. side \in {"top", "right", "bottom", "left"}
    BY FourSides
  <2> HIDE DEF a, d
  <2>2. /\ side = "top" => OnSide(b, side, t) = Pt(a, b.y)
        /\ side = "bottom" => OnSide(b, side, t) = Pt(a, b.y + b.h)
        /\ side = "left" => OnSide(b, side, t) = Pt(b.x, d)
        /\ side = "right" => OnSide(b, side, t) = Pt(b.x + b.w, d)
    BY DEF OnSide, Pt, a, d
  <2> QED
    BY <2>1, <2>2
<1> HIDE DEF a, d
<1>6. \A m, n \in Int : Pt(m, n) \in Points
  BY DEF Pt, Points
<1>7. b.y + b.h \in Int /\ b.x + b.w \in Int
  BY <1>1
<1> QED
  BY <1>1, <1>4, <1>5, <1>6, <1>7

\* Where a line leaves an object, or arrives.
LEMMA AnchorPoint ==
    ASSUME NEW o, Measured(o), NEW side \in ToSet(Sides), NEW offset \in Int
    PROVE  SideAnchor(o, side, offset) \in Points
<1>1. ObjectAABB(o) \in Boxes
  BY BoxOfObject
<1>2. Clamp(offset, 0, 4) \in Int
  BY DEF Clamp, MaxOf, MinOf
<1>3. OnSide(ObjectAABB(o), side, Clamp(offset, 0, 4)) \in Points
  BY <1>1, <1>2, PortPoint
<1> QED
  BY <1>3 DEF SideAnchor, ShapeBox

\* The nearest port of a box is on one of its sides.
LEMMA NearestIsPort ==
    ASSUME NEW b \in Boxes, NEW p \in Points
    PROVE  NearestOfBox(b, p).side \in ToSet(Sides) /\ NearestOfBox(b, p).offset \in Int
<1> DEFINE offset(side) == IF side \in Horizontal
                           THEN IF b.h > 0 THEN Clamp((4 * (p.y - b.y)) \div b.h, 0, 4) ELSE Half
                           ELSE IF b.w > 0 THEN Clamp((4 * (p.x - b.x)) \div b.w, 0, 4) ELSE Half
           d(i) == SquaredDistance(OnSide(b, Sides[i], offset(Sides[i])), p)
           best == CHOOSE i \in 1 .. 4 : \A j \in 1 .. 4 : d(i) < d(j) \/ (d(i) = d(j) /\ i <= j)
<1>1. NearestOfBox(b, p) = [side |-> Sides[best], offset |-> offset(Sides[best])]
  BY Zenon DEF NearestOfBox
<1>2. /\ b.x \in Int /\ b.y \in Int /\ b.w \in Int /\ b.h \in Int
      /\ p.x \in Int /\ p.y \in Int
  BY DEF Boxes, Points
<1>3. \A side : offset(side) \in Int
  <2>1. \A v \in Int : Clamp(v, 0, 4) \in Int
    BY DEF Clamp, MaxOf, MinOf
  <2>2. \A m, n \in Int : n > 0 => m \div n \in Int
    OBVIOUS
  <2>3. 4 * (p.y - b.y) \in Int /\ 4 * (p.x - b.x) \in Int
    BY <1>2
  <2>4. b.h > 0 => Clamp((4 * (p.y - b.y)) \div b.h, 0, 4) \in Int
    BY <1>2, <2>1, <2>2, <2>3
  <2>5. b.w > 0 => Clamp((4 * (p.x - b.x)) \div b.w, 0, 4) \in Int
    BY <1>2, <2>1, <2>2, <2>3
  <2>6. Half \in Int
    BY DEF Half
  <2> QED
    BY <2>4, <2>5, <2>6, Zenon
<1> HIDE DEF offset
<1>4. \A i \in 1 .. 4 : d(i) \in Int
  <2> SUFFICES ASSUME NEW i \in 1 .. 4 PROVE d(i) \in Int
    OBVIOUS
  <2> DEFINE q == OnSide(b, Sides[i], offset(Sides[i]))
  <2>1. q \in Points
    BY <1>3, FourSides, PortPoint
  <2> HIDE DEF q
  <2>2. q.x - p.x \in Int /\ q.y - p.y \in Int
    BY <1>2, <2>1 DEF Points
  <2>3. \A m, n \in Int : m * m + n * n \in Int
    OBVIOUS
  <2>4. SquaredDistance(q, p) \in Int
    BY <2>2, <2>3, Zenon DEF SquaredDistance
  <2> QED
    BY <2>4 DEF q
<1> HIDE DEF d
<1>5. \E i \in 1 .. 4 : \A j \in 1 .. 4 : d(i) < d(j) \/ (d(i) = d(j) /\ i <= j)
  <2>1. d(1) \in Int /\ d(2) \in Int /\ d(3) \in Int /\ d(4) \in Int
    BY <1>4
  <2>2. \A j \in 1 .. 4 : j = 1 \/ j = 2 \/ j = 3 \/ j = 4
    OBVIOUS
  <2> DEFINE Least(i) == d(i) <= d(1) /\ d(i) <= d(2) /\ d(i) <= d(3) /\ d(i) <= d(4)
  <2>3. \/ Least(1)
        \/ ~Least(1) /\ Least(2)
        \/ ~Least(1) /\ ~Least(2) /\ Least(3)
        \/ ~Least(1) /\ ~Least(2) /\ ~Least(3) /\ Least(4)
    BY <2>1
  <2>4. CASE Least(1)
    <3>1. \A j \in 1 .. 4 : d(1) < d(j) \/ (d(1) = d(j) /\ 1 <= j)
      BY <2>1, <2>2, <2>4
    <3> QED
      BY <3>1
  <2>5. CASE ~Least(1) /\ Least(2)
    <3>1. \A j \in 1 .. 4 : d(2) < d(j) \/ (d(2) = d(j) /\ 2 <= j)
      BY <2>1, <2>2, <2>5
    <3> QED
      BY <3>1
  <2>6. CASE ~Least(1) /\ ~Least(2) /\ Least(3)
    <3>1. \A j \in 1 .. 4 : d(3) < d(j) \/ (d(3) = d(j) /\ 3 <= j)
      BY <2>1, <2>2, <2>6
    <3> QED
      BY <3>1
  <2>7. CASE ~Least(1) /\ ~Least(2) /\ ~Least(3) /\ Least(4)
    <3>1. \A j \in 1 .. 4 : d(4) < d(j) \/ (d(4) = d(j) /\ 4 <= j)
      BY <2>1, <2>2, <2>7
    <3> QED
      BY <3>1
  <2> QED
    BY <2>3, <2>4, <2>5, <2>6, <2>7
<1>6. best \in 1 .. 4
  BY <1>5, Zenon
<1> HIDE DEF best
<1> QED
  BY <1>1, <1>3, <1>6, FourSides

-----------------------------------------------------------------------------
\* Routes

\* Between the stubs a line runs from the one to the other.
LEMMA StubToStub ==
    ASSUME NEW a \in Points, NEW b \in Points,
           NEW fromSide \in ToSet(Sides), NEW toSide \in ToSet(Sides)
    PROVE  LET r == RouteBetweenStubs(a, fromSide, b, toSide) IN
           r \in Paths /\ r[1] = a /\ Last(r) = b
<1> DEFINE midX == (a.x + b.x) \div 2
           midY == (a.y + b.y) \div 2
<1>1. a.x \in Int /\ a.y \in Int /\ b.x \in Int /\ b.y \in Int
  BY DEF Points
<1>2. midX \in Int /\ midY \in Int
  BY <1>1
<1> HIDE DEF midX, midY
<1>3. \A m, n \in Int : Pt(m, n) \in Points
  BY DEF Pt, Points
<1>4. \A p \in Points : /\ <<a, p, b>> \in Paths
                        /\ <<a, p, b>>[1] = a /\ Last(<<a, p, b>>) = b
  BY DEF Paths, Last
<1>5. \A p, q \in Points : /\ <<a, p, q, b>> \in Paths
                           /\ <<a, p, q, b>>[1] = a /\ Last(<<a, p, q, b>>) = b
  BY DEF Paths, Last
<1>6. RouteBetweenStubs(a, fromSide, b, toSide) \in
         {<<a, Pt(b.x, a.y), b>>, <<a, Pt(a.x, b.y), b>>,
          <<a, Pt(midX, a.y), Pt(midX, b.y), b>>, <<a, Pt(a.x, midY), Pt(b.x, midY), b>>}
  <2> DEFINE fromH == fromSide \in Horizontal
             toH == toSide \in Horizontal
  <2>1. CASE fromH /\ toH
    BY <2>1, Zenon DEF RouteBetweenStubs, midX, midY
  <2>2. CASE ~fromH /\ ~toH
    BY <2>2, Zenon DEF RouteBetweenStubs, midX, midY
  <2>3. CASE fromH /\ ~toH
    BY <2>3, Zenon DEF RouteBetweenStubs, midX, midY
  <2>4. CASE ~fromH /\ toH
    BY <2>4, Zenon DEF RouteBetweenStubs, midX, midY
  <2> QED
    BY <2>1, <2>2, <2>3, <2>4
<1>7. /\ Pt(b.x, a.y) \in Points /\ Pt(a.x, b.y) \in Points
      /\ Pt(midX, a.y) \in Points /\ Pt(midX, b.y) \in Points
      /\ Pt(a.x, midY) \in Points /\ Pt(b.x, midY) \in Points
  BY <1>1, <1>2, <1>3
<1> QED
  BY <1>4, <1>5, <1>6, <1>7

\* A stub ends where it began, moved by its length along one of the axes.
LEMMA StubEnd ==
    ASSUME NEW p \in Points, NEW side \in ToSet(Sides), NEW d \in Nat
    PROVE  /\ Out(p, side, d) \in Points
           /\ Dist(Out(p, side, d).x, p.x) = d \/ Dist(Out(p, side, d).y, p.y) = d
<1>1. p.x \in Int /\ p.y \in Int
  BY DEF Points
<1>2. Out(p, side, d) \in {Pt(p.x + d, p.y), Pt(p.x - d, p.y), Pt(p.x, p.y + d), Pt(p.x, p.y - d)}
  <2>1. side \in {"top", "right", "bottom", "left"}
    BY FourSides
  <2>2. SideNormal(side) \in {Pt(0, -1), Pt(0, 1), Pt(-1, 0), Pt(1, 0)}
    BY <2>1 DEF SideNormal
  <2>3. /\ p.x + 0 * d = p.x /\ p.y + 0 * d = p.y
        /\ p.x + (-1) * d = p.x - d /\ p.y + (-1) * d = p.y - d
        /\ p.x + 1 * d = p.x + d /\ p.y + 1 * d = p.y + d
    BY <1>1
  <2>4. /\ Pt(0, -1).x = 0 /\ Pt(0, -1).y = -1 /\ Pt(0, 1).x = 0 /\ Pt(0, 1).y = 1
        /\ Pt(-1, 0).x = -1 /\ Pt(-1, 0).y = 0 /\ Pt(1, 0).x = 1 /\ Pt(1, 0).y = 0
    BY DEF Pt
  <2>5. Out(p, side, d) = Pt(p.x + SideNormal(side).x * d, p.y + SideNormal(side).y * d)
    BY DEF Out
  <2>6. CASE SideNormal(side) = Pt(0, -1)
    BY <2>3, <2>4, <2>5, <2>6
  <2>7. CASE SideNormal(side) = Pt(0, 1)
    BY <2>3, <2>4, <2>5, <2>7
  <2>8. CASE SideNormal(side) = Pt(-1, 0)
    BY <2>3, <2>4, <2>5, <2>8
  <2>9. CASE SideNormal(side) = Pt(1, 0)
    BY <2>3, <2>4, <2>5, <2>9
  <2> QED
    BY <2>2, <2>6, <2>7, <2>8, <2>9
<1>3. p.x + d \in Int /\ p.x - d \in Int /\ p.y + d \in Int /\ p.y - d \in Int
  BY <1>1
<1>4. Pt(p.x + d, p.y) \in Points /\ Dist(Pt(p.x + d, p.y).x, p.x) = d
  BY <1>1, <1>3 DEF Pt, Points, Dist
<1>5. Pt(p.x - d, p.y) \in Points /\ Dist(Pt(p.x - d, p.y).x, p.x) = d
  BY <1>1, <1>3 DEF Pt, Points, Dist
<1>6. Pt(p.x, p.y + d) \in Points /\ Dist(Pt(p.x, p.y + d).y, p.y) = d
  BY <1>1, <1>3 DEF Pt, Points, Dist
<1>7. Pt(p.x, p.y - d) \in Points /\ Dist(Pt(p.x, p.y - d).y, p.y) = d
  BY <1>1, <1>3 DEF Pt, Points, Dist
<1> QED
  BY <1>2, <1>4, <1>5, <1>6, <1>7, Zenon

\* A route begins at the port it leaves and ends less than half a pixel from the
\* one it arrives at; exactly there, if nobody edited it and its stub is no less
\* than two pixels.
LEMMA RouteEnds ==
    ASSUME NEW from, Measured(from), NEW to, Measured(to),
           NEW fromSide \in ToSet(Sides), NEW toSide \in ToSet(Sides),
           NEW fromOffset \in Int, NEW toOffset \in Int,
           NEW waypoints \in Seq(Points), NEW stub \in Nat
    PROVE  LET r == OrthogonalRoute(from, to, fromSide, toSide, fromOffset, toOffset, waypoints, stub)
               end == SideAnchor(to, toSide, toOffset) IN
           /\ r \in Paths
           /\ r[1] = SideAnchor(from, fromSide, fromOffset)
           /\ Near(Last(r), end)
           /\ waypoints = <<>> /\ stub >= 2 * Px => Last(r) = end
<1> DEFINE start == SideAnchor(from, fromSide, fromOffset)
           end == SideAnchor(to, toSide, toOffset)
           stubA == Out(start, fromSide, stub)
           stubB == Out(end, toSide, stub)
           middle == IF waypoints # <<>>
                     THEN EnforceOrthogonal(<<stubA>> \o waypoints \o <<stubB>>)
                     ELSE SimplifyOrthogonal(RouteBetweenStubs(stubA, fromSide, stubB, toSide))
           pts == <<start>> \o middle \o <<end>>
           r == SimplifyOrthogonal(pts)
<1>1. OrthogonalRoute(from, to, fromSide, toSide, fromOffset, toOffset, waypoints, stub) = r
  BY Zenon DEF OrthogonalRoute
<1>2. start \in Points /\ end \in Points
  BY AnchorPoint
<1> HIDE DEF start, end
<1>3. stubA \in Points /\ stubB \in Points
  BY <1>2, StubEnd
<1>4. Dist(stubB.x, end.x) = stub \/ Dist(stubB.y, end.y) = stub
  BY <1>2, StubEnd
<1> HIDE DEF stubA, stubB
<1>5. \A p \in Points : /\ <<p>> \in Paths /\ <<p>> \in Seq(Points) /\ Len(<<p>>) = 1
                        /\ <<p>>[1] = p /\ Last(<<p>>) = p
  BY DEF Paths, Last
<1>6. middle \in Paths /\ Near(Last(middle), stubB)
  <2>1. CASE waypoints # <<>>
    <3> DEFINE first == <<stubA>> \o waypoints
    <3>1. waypoints \in Paths
      BY <2>1 DEF Paths
    <3>2. first \in Paths
      BY <1>3, <1>5, <3>1, PathConcat
    <3>3. first \in Seq(Points)
      BY <3>2, PathEnds
    <3> HIDE DEF first
    <3>4. first \o <<stubB>> \in Paths /\ Last(first \o <<stubB>>) = stubB
      BY <1>3, <1>5, <3>3, PathConcat
    <3>5. EnforceOrthogonal(first \o <<stubB>>) \in Paths /\ Near(Last(EnforceOrthogonal(first \o <<stubB>>)), stubB)
      BY <3>4, Enforced
    <3> QED
      BY <2>1, <3>5 DEF first
  <2>2. CASE waypoints = <<>>
    <3> DEFINE s == RouteBetweenStubs(stubA, fromSide, stubB, toSide)
    <3>1. s \in Paths /\ Last(s) = stubB
      BY <1>3, StubToStub
    <3> HIDE DEF s
    <3>2. SimplifyOrthogonal(s) \in Paths /\ Near(Last(SimplifyOrthogonal(s)), stubB)
      BY <3>1, Simplified
    <3> QED
      BY <2>2, <3>2 DEF s
  <2> QED
    BY <2>1, <2>2
<1> HIDE DEF middle
<1>7. /\ <<start>> \o middle \in Paths /\ (<<start>> \o middle)[1] = start
      /\ Last(<<start>> \o middle) = Last(middle) /\ Len(<<start>> \o middle) = 1 + Len(middle)
  <2> DEFINE s == <<start>>
  <2>1. s \in Paths /\ s \in Seq(Points) /\ Len(s) = 1 /\ s[1] = start
    BY <1>2, <1>5
  <2> HIDE DEF s, pts, r
  <2>2. /\ s \o middle \in Paths /\ (s \o middle)[1] = s[1]
        /\ Last(s \o middle) = Last(middle) /\ Len(s \o middle) = Len(s) + Len(middle)
    BY <1>6, <2>1, PathConcat
  <2> QED
    BY <2>1, <2>2 DEF s
<1> DEFINE first == <<start>> \o middle
<1>8. first \in Paths /\ first \in Seq(Points) /\ first[1] = start /\ Last(first) = Last(middle) /\ Len(first) >= 2
  <2>1. Len(middle) \in Nat /\ Len(middle) >= 1
    BY <1>6, PathEnds
  <2>2. 1 + Len(middle) >= 2
    BY <2>1
  <2> QED
    BY <1>7, <2>2, PathEnds
<1>9. pts = first \o <<end>>
  OBVIOUS
<1> HIDE DEF first
<1>10. /\ pts \in Paths /\ pts[1] = start /\ Last(pts) = end
       /\ Len(pts) >= 3 /\ pts[Len(pts) - 1] = Last(middle)
  <2> HIDE DEF pts
  <2>1. /\ first \o <<end>> \in Paths /\ Len(first \o <<end>>) = Len(first) + Len(<<end>>)
        /\ Last(first \o <<end>>) = end /\ (first \o <<end>>)[1] = start
        /\ (first \o <<end>>)[Len(first)] = Last(first)
    BY <1>2, <1>5, <1>8, PathConcat
  <2>2. Len(<<end>>) = 1 /\ Len(first) \in Nat
    BY <1>2, <1>5, <1>8, PathEnds
  <2>3. Len(pts) = Len(first) + 1 /\ Len(pts) - 1 = Len(first) /\ Len(pts) >= 3
    BY <1>8, <1>9, <2>1, <2>2
  <2> QED
    BY <1>8, <1>9, <2>1, <2>3
<1> HIDE DEF pts
<1>11. /\ r \in Paths /\ r[1] = start /\ Near(Last(r), end)
       /\ \/ Last(r) = end
          \/ \E q \in Points : Near(q, Last(middle)) /\ Near(q, end)
  BY <1>10, Simplified
<1>12. ASSUME stub >= 2 * Px PROVE Last(r) = end
  <2>1. Last(middle) \in Points
    BY <1>6, PathEnds
  <2>2. SUFFICES ASSUME NEW q \in Points, Near(q, Last(middle)), Near(q, end) PROVE FALSE
    BY <1>11
  <2>3. Dist(stubB.x, end.x) < 2 * Px /\ Dist(stubB.y, end.y) < 2 * Px
    BY <1>2, <1>3, <1>6, <2>1, <2>2, NearPoints
  <2> QED
    BY <1>4, <1>12, <2>3, PxAssumption
<1> HIDE DEF r
<1> QED
  BY <1>1, <1>11, <1>12 DEF start, end

-----------------------------------------------------------------------------
\* The lines of a board

\* A route nobody has edited starts and ends at its anchors.
LEMMA UneditedRoute ==
    ASSUME NEW a, NEW b, NEW fs, NEW ts, NEW fo, NEW tt, NEW stub,
           Measured(a), Measured(b), fs \in ToSet(Sides), ts \in ToSet(Sides),
           fo \in Int, tt \in Int, stub \in Nat
    PROVE  /\ OrthogonalRoute(a, b, fs, ts, fo, tt, <<>>, stub) \in Paths
           /\ OrthogonalRoute(a, b, fs, ts, fo, tt, <<>>, stub)[1] = SideAnchor(a, fs, fo)
           /\ stub >= 2 * Px => Last(OrthogonalRoute(a, b, fs, ts, fo, tt, <<>>, stub)) = SideAnchor(b, ts, tt)
<1> DEFINE via == <<>>
           len == stub
           out == fo
           in == tt
<1>1. /\ Measured(a) /\ Measured(b) /\ fs \in ToSet(Sides) /\ ts \in ToSet(Sides)
      /\ out \in Int /\ in \in Int /\ via \in Seq(Points) /\ len \in Nat
  OBVIOUS
<1> HIDE DEF via, len, out, in
<1>2. LET r == OrthogonalRoute(a, b, fs, ts, out, in, via, len) IN
      /\ r \in Paths /\ r[1] = SideAnchor(a, fs, out)
      /\ via = <<>> /\ len >= 2 * Px => Last(r) = SideAnchor(b, ts, in)
  BY ONLY <1>1, RouteEnds
<1> QED
  BY <1>2 DEF via, len, out, in

\* A rubber band begins at the port it is drawn from, and over no shape ends a
\* pixel from the pointer, where the small box around the pointer has its port.
LEMMA BandEnds ==
    ASSUME NEW objs, NEW x, Measured(objs[x]),
           NEW port, port.side \in ToSet(Sides), port.offset \in Int,
           NEW p \in Points, NEW hover, hover # NoParent => Measured(objs[hover])
    PROVE  LET band == ConnectorPreviewPoints(objs, x, port, p, hover) IN
           /\ Head(band) = SideAnchor(objs[x], port.side, port.offset)
           /\ hover = NoParent => SquaredDistance(Last(band), p) <= Px * Px
<1> DEFINE ghost == [type |-> "rect", x |-> p.x - Px, y |-> p.y - Px, w |-> 2 * Px, h |-> 2 * Px]
           to == NearestPort(objs[hover], p)
           side == NearestPort(ghost, p).side
           over == OrthogonalRoute(objs[x], objs[hover], port.side, to.side, port.offset, to.offset, <<>>, Stub)
           free == OrthogonalRoute(objs[x], ghost, port.side, side, port.offset, Half, <<>>, 16 * Px)
<1>1. ConnectorPreviewPoints(objs, x, port, p, hover) = IF hover # NoParent THEN over ELSE free
  BY Zenon DEF ConnectorPreviewPoints
<1>2. Px \in Nat /\ Px > 0 /\ p.x \in Int /\ p.y \in Int
  BY PxAssumption DEF Points
<1>3. Stub \in Nat /\ 16 * Px \in Nat /\ 16 * Px >= 2 * Px /\ Half \in Int /\ <<>> \in Seq(Points)
  BY <1>2 DEF Stub, Half
<1>4. CASE hover # NoParent
  <2>1. ObjectAABB(objs[hover]) \in Boxes
    BY <1>4, BoxOfObject
  <2>2. to.side \in ToSet(Sides) /\ to.offset \in Int
    BY <2>1, NearestIsPort DEF NearestPort, ShapeBox
  <2> HIDE DEF to
  <2>3. over \in Paths /\ over[1] = SideAnchor(objs[x], port.side, port.offset)
    <3> DEFINE a == objs[x]
               b == objs[hover]
               fs == port.side
               ts == to.side
               fo == port.offset
               tt == to.offset
    <3>1. /\ Measured(a) /\ Measured(b) /\ fs \in ToSet(Sides) /\ ts \in ToSet(Sides)
          /\ fo \in Int /\ tt \in Int /\ Stub \in Nat
      BY <1>3, <1>4, <2>2
    <3>2. over = OrthogonalRoute(a, b, fs, ts, fo, tt, <<>>, Stub)
      OBVIOUS
    <3> HIDE DEF a, b, fs, ts, fo, tt, over
    <3>3. over \in Paths /\ over[1] = SideAnchor(a, fs, fo)
      BY <3>1, <3>2, UneditedRoute
    <3> QED
      BY <3>3 DEF a, fs, fo
  <2> HIDE DEF over
  <2>4. Head(over) = over[1]
    BY <2>3, PathEnds
  <2> HIDE DEF free
  <2> QED
    BY <1>1, <1>4, <2>3, <2>4
<1>5. CASE hover = NoParent
  <2>1. /\ ghost.x = p.x - Px /\ ghost.y = p.y - Px /\ ghost.w = 2 * Px /\ ghost.h = 2 * Px
        /\ ~IsPath(ghost)
    BY DEF IsPath
  <2> HIDE DEF ghost
  <2>2. Measured(ghost)
    BY <1>2, <2>1 DEF Measured
  <2>3. ObjectAABB(ghost) = Box(p.x - Px, p.y - Px, 2 * Px, 2 * Px)
    BY <2>1, Zenon DEF ObjectAABB
  <2>4. side \in ToSet(Sides)
    <3>1. ObjectAABB(ghost) \in Boxes
      BY <2>2, BoxOfObject
    <3> QED
      BY <1>2, <3>1, NearestIsPort DEF NearestPort, ShapeBox
  <2> HIDE DEF side
  <2> DEFINE end == SideAnchor(ghost, side, Half)
  <2>5. free \in Paths /\ free[1] = SideAnchor(objs[x], port.side, port.offset) /\ Last(free) = end
    <3> DEFINE a == objs[x]
               fs == port.side
               fo == port.offset
               stub == 16 * Px
    <3>1. /\ Measured(a) /\ fs \in ToSet(Sides) /\ fo \in Int
          /\ Half \in Int /\ stub \in Nat /\ stub >= 2 * Px
      BY <1>3
    <3>2. free = OrthogonalRoute(a, ghost, fs, side, fo, Half, <<>>, stub)
      OBVIOUS
    <3> HIDE DEF a, fs, fo, stub, free
    <3>3. free \in Paths /\ free[1] = SideAnchor(a, fs, fo) /\ Last(free) = end
      BY <2>2, <2>4, <3>1, <3>2, UneditedRoute
    <3> QED
      BY <3>3 DEF a, fs, fo
  <2> HIDE DEF free
  <2>6. Head(free) = free[1]
    BY <2>5, PathEnds
  <2>7. end \in {Pt(p.x, p.y - Px), Pt(p.x, p.y + Px), Pt(p.x - Px, p.y), Pt(p.x + Px, p.y)}
    <3> DEFINE b == Box(p.x - Px, p.y - Px, 2 * Px, 2 * Px)
    <3>1. Clamp(Half, 0, 4) = 2
      BY DEF Clamp, Half, MaxOf, MinOf
    <3>2. end = OnSide(b, side, 2)
      BY <2>3, <3>1 DEF SideAnchor, ShapeBox
    <3>3. b.x = p.x - Px /\ b.y = p.y - Px /\ b.w = 2 * Px /\ b.h = 2 * Px
      BY DEF Box
    <3> HIDE DEF b, end
    <3>4. (2 * Px * 2) \div 4 = Px
      BY <1>2
    <3>5. side \in {"top", "right", "bottom", "left"}
      BY <2>4, FourSides
    <3>6. OnSide(b, side, 2) \in {Pt(b.x + Px, b.y), Pt(b.x + Px, b.y + b.h),
                                  Pt(b.x, b.y + Px), Pt(b.x + b.w, b.y + Px)}
      <4>1. (b.w * 2) \div 4 = Px /\ (b.h * 2) \div 4 = Px
        BY <3>3, <3>4
      <4> DEFINE along == Pt(b.x + (b.w * 2) \div 4, b.y + (b.h * 2) \div 4)
      <4>2. along.x = b.x + Px /\ along.y = b.y + Px
        BY <4>1 DEF Pt
      <4>3. OnSide(b, side, 2) = CASE side = "top" -> Pt(along.x, b.y)
                                   [] side = "bottom" -> Pt(along.x, b.y + b.h)
                                   [] side = "left" -> Pt(b.x, along.y)
                                   [] side = "right" -> Pt(b.x + b.w, along.y)
        BY Zenon DEF OnSide
      <4> HIDE DEF along
      <4> QED
        BY <3>5, <4>2, <4>3
    <3>7. /\ b.x + Px = p.x /\ b.y + Px = p.y /\ b.x + b.w = p.x + Px /\ b.y + b.h = p.y + Px
      BY <1>2, <3>3
    <3> QED
      BY <3>2, <3>3, <3>6, <3>7
  <2> HIDE DEF end
  <2>8. SquaredDistance(end, p) = Px * Px
    <3>1. \A m, n \in Int : Pt(m, n).x = m /\ Pt(m, n).y = n
      BY DEF Pt
    <3>2. 0 * 0 = 0 /\ (-Px) * (-Px) = Px * Px /\ Px * Px \in Int
      BY <1>2
    <3>3. /\ p.x - p.x = 0 /\ p.y - p.y = 0
          /\ p.x - Px - p.x = -Px /\ p.x + Px - p.x = Px
          /\ p.y - Px - p.y = -Px /\ p.y + Px - p.y = Px
          /\ p.x - Px \in Int /\ p.x + Px \in Int /\ p.y - Px \in Int /\ p.y + Px \in Int
      BY <1>2
    <3>4. \A m \in Int : 0 + m = m /\ m + 0 = m
      OBVIOUS
    <3>5. SquaredDistance(end, p) = (end.x - p.x) * (end.x - p.x) + (end.y - p.y) * (end.y - p.y)
      BY DEF SquaredDistance
    <3>6. CASE end = Pt(p.x, p.y - Px)
      <4>1. end.x - p.x = 0 /\ end.y - p.y = -Px
        BY <1>2, <3>1, <3>3, <3>6
      <4> QED
        BY <3>2, <3>4, <3>5, <4>1
    <3>7. CASE end = Pt(p.x, p.y + Px)
      <4>1. end.x - p.x = 0 /\ end.y - p.y = Px
        BY <1>2, <3>1, <3>3, <3>7
      <4> QED
        BY <3>2, <3>4, <3>5, <4>1
    <3>8. CASE end = Pt(p.x - Px, p.y)
      <4>1. end.x - p.x = -Px /\ end.y - p.y = 0
        BY <1>2, <3>1, <3>3, <3>8
      <4> QED
        BY <3>2, <3>4, <3>5, <4>1
    <3>9. CASE end = Pt(p.x + Px, p.y)
      <4>1. end.x - p.x = Px /\ end.y - p.y = 0
        BY <1>2, <3>1, <3>3, <3>9
      <4> QED
        BY <3>2, <3>4, <3>5, <4>1
    <3> QED
      BY <2>7, <3>6, <3>7, <3>8, <3>9
  <2>9. Px * Px \in Int
    BY <1>2
  <2> HIDE DEF over
  <2> QED
    BY <1>1, <1>5, <2>5, <2>6, <2>8, <2>9
<1> QED
  BY <1>4, <1>5

\* A board that can be drawn has its lines at its ports.
LEMMA LinesMeet == Drawable => RouteAttached
<1> SUFFICES ASSUME Drawable, NEW id \in Connectors
             PROVE  LET c == objects[id]
                        route == Line(id)
                        start == Anchor(c, "from") IN
                    /\ Near(Head(route), start) /\ Near(Last(route), Anchor(c, "to"))
                    /\ \A p \in Spots :
                          LET band == RubberBand(c, p) IN
                          /\ Near(Head(band), start)
                          /\ HitTop(objects, p) = NoParent => SquaredDistance(Last(band), p) <= Px * Px
  BY DEF RouteAttached
<1> DEFINE c == objects[id]
           route == Line(id)
           start == SideAnchor(objects[c.fromId], c.fromSide, c.fromOffset)
           end == SideAnchor(objects[c.toId], c.toSide, c.toOffset)
<1>1. Anchor(c, "from") = start /\ Anchor(c, "to") = end
  BY Zenon DEF Anchor
<1>2. /\ c.fromId \in DOMAIN objects /\ c.toId \in DOMAIN objects
      /\ c.fromSide \in ToSet(Sides) /\ c.toSide \in ToSet(Sides)
      /\ c.fromOffset \in Int /\ c.toOffset \in Int
      /\ c.points \in Seq(Points)
  BY DEF Drawable
<1>3. \A x \in DOMAIN objects : Measured(objects[x])
  BY DEF Drawable
<1>4. route = OrthogonalRoute(objects[c.fromId], objects[c.toId], c.fromSide, c.toSide,
                              c.fromOffset, c.toOffset, c.points, Stub)
  BY <1>2, Zenon DEF Line, RouteForConnector
<1>5. Stub \in Nat
  BY PxAssumption DEF Stub
<1>6. Measured(objects[c.fromId]) /\ Measured(objects[c.toId])
  BY <1>2, <1>3
<1> HIDE DEF c, route
<1>7. route \in Paths /\ route[1] = start /\ Near(Last(route), end)
  <2> HIDE DEF start, end
  <2>1. LET r == OrthogonalRoute(objects[c.fromId], objects[c.toId], c.fromSide, c.toSide,
                              c.fromOffset, c.toOffset, c.points, Stub) IN
        r \in Paths /\ r[1] = start /\ Near(Last(r), end)
    <3> DEFINE a == objects[c.fromId]
               b == objects[c.toId]
               fs == c.fromSide
               ts == c.toSide
               fo == c.fromOffset
               tt == c.toOffset
               via == c.points
    <3>1. /\ Measured(a) /\ Measured(b) /\ fs \in ToSet(Sides) /\ ts \in ToSet(Sides)
          /\ fo \in Int /\ tt \in Int /\ via \in Seq(Points)
      BY <1>2, <1>6
    <3> HIDE DEF a, b, fs, ts, fo, tt, via
    <3>2. LET r == OrthogonalRoute(a, b, fs, ts, fo, tt, via, Stub) IN
          r \in Paths /\ r[1] = SideAnchor(a, fs, fo) /\ Near(Last(r), SideAnchor(b, ts, tt))
      BY <1>5, <3>1, RouteEnds
    <3> QED
      BY <3>2 DEF a, b, fs, ts, fo, tt, via, start, end
  <2> QED
    BY <1>4, <2>1
<1>8. Head(route) = start
  BY <1>7, PathEnds
<1>9. Near(start, start)
  <2>1. start \in Points
    BY <1>2, <1>6, AnchorPoint
  <2> QED
    BY <2>1, NearPoints
<1>10. ASSUME NEW p \in Spots
       PROVE  /\ Head(RubberBand(c, p)) = start
              /\ HitTop(objects, p) = NoParent => SquaredDistance(Last(RubberBand(c, p)), p) <= Px * Px
  <2> DEFINE under == HitTop(objects, p)
             hover == IF under = c.fromId THEN NoParent ELSE under
             port == [side |-> c.fromSide, offset |-> c.fromOffset]
  <2>1. p \in Points /\ under \in DOMAIN objects \cup {NoParent}
    BY DEF Drawable
  <2>2. RubberBand(c, p) = ConnectorPreviewPoints(objects, c.fromId, port, p, hover)
    BY Zenon DEF RubberBand
  <2>3. port.side = c.fromSide /\ port.offset = c.fromOffset
    OBVIOUS
  <2> HIDE DEF under, port
  <2>4. hover # NoParent => hover \in DOMAIN objects
    BY <2>1
  <2>5. under = NoParent => hover = NoParent
    OBVIOUS
  <2> HIDE DEF hover
  <2>6. hover # NoParent => Measured(objects[hover])
    BY <1>3, <2>4
  <2>7. LET band == ConnectorPreviewPoints(objects, c.fromId, port, p, hover) IN
        /\ Head(band) = SideAnchor(objects[c.fromId], port.side, port.offset)
        /\ hover = NoParent => SquaredDistance(Last(band), p) <= Px * Px
    BY <1>2, <1>6, <2>1, <2>3, <2>6, BandEnds
  <2> QED
    BY <2>2, <2>3, <2>5, <2>7 DEF under
<1> HIDE DEF start, end
<1> QED
  BY <1>1, <1>7, <1>8, <1>9, <1>10 DEF c, route

-----------------------------------------------------------------------------
\* What boards hold

Limit == IdsPerCommand * (edits + 1)

\* An operation that leaves a board a board.
IsOp(op, n) ==
    /\ op.type = "create" => op.id \in 1 .. n - 1 /\ IsObject(op.value, n)
    /\ op.type = "update" => FieldOk(op.path, op.value, n)

IsOps(ops, n) == IsSeq(ops) /\ \A op \in ToSet(ops) : IsOp(op, n)

\* The fields every object has.
LEMMA FieldsAre ==
    Fields = {"type", "x", "y", "w", "h", "z", "parentId", "points", "cornerRadius", "fill", "text",
              "fromId", "toId", "fromSide", "toSide", "fromOffset", "toOffset"}
  BY DEF Fields, Blank

\* What is fine below n is fine below a larger number.
LEMMA FieldMore ==
    ASSUME NEW n \in Int, NEW m \in Int, n <= m, NEW f, NEW v, FieldOk(f, v, n)
    PROVE  FieldOk(f, v, m)
<1>1. f \in {"parentId", "fromId", "toId"} => v \in Int /\ v < m
  BY DEF FieldOk
<1> QED
  BY <1>1 DEF FieldOk

\* So with an object,
LEMMA ObjectMore ==
    ASSUME NEW n \in Int, NEW m \in Int, n <= m, NEW o, IsObject(o, n)
    PROVE  IsObject(o, m)
  BY FieldMore DEF IsObject

\* a board,
LEMMA BoardMore ==
    ASSUME NEW n \in Int, NEW m \in Int, n <= m, NEW objs, IsBoard(objs, n)
    PROVE  IsBoard(objs, m)
<1>1. \A x \in DOMAIN objs : x \in 1 .. m - 1
  BY DEF IsBoard
<1>2. \A x \in DOMAIN objs : IsObject(objs[x], m)
  BY ObjectMore DEF IsBoard
<1> QED
  BY <1>1, <1>2 DEF IsBoard

\* and operations.
LEMMA OpsMore ==
    ASSUME NEW n \in Int, NEW m \in Int, n <= m, NEW ops, IsOps(ops, n)
    PROVE  IsOps(ops, m)
<1>1. ASSUME NEW op, IsOp(op, n) PROVE IsOp(op, m)
  <2>1. op.type = "create" => op.id \in 1 .. m - 1 /\ IsObject(op.value, m)
    BY <1>1, ObjectMore DEF IsOp
  <2>2. op.type = "update" => FieldOk(op.path, op.value, m)
    BY <1>1, FieldMore DEF IsOp
  <2> QED
    BY <2>1, <2>2 DEF IsOp
<1> QED
  BY <1>1 DEF IsOps

\* An object with another value in a field.
With(o, path, v) == [o EXCEPT ![path] = v]

\* It is an object.
LEMMA FieldSet ==
    ASSUME NEW n \in Int, NEW o, IsObject(o, n), NEW path, NEW v, FieldOk(path, v, n)
    PROVE  /\ IsObject(With(o, path, v), n)
           /\ \A f \in Fields : With(o, path, v)[f] = IF f = path THEN v ELSE o[f]
<1> DEFINE s == With(o, path, v)
<1>1. o = [f \in Fields |-> o[f]] /\ DOMAIN o = Fields
  BY DEF IsObject
<1>2. s = [f \in Fields |-> IF f = path THEN v ELSE o[f]]
  BY <1>1 DEF With
<1> HIDE DEF s
<1>3. \A f \in Fields : s[f] = IF f = path THEN v ELSE o[f]
  BY <1>2
<1>4. \A f \in Fields : FieldOk(f, s[f], n)
  BY <1>3 DEF IsObject
<1>5. s = [f \in Fields |-> s[f]]
  BY <1>2
<1> QED
  BY <1>3, <1>4, <1>5 DEF IsObject, s

\* An operation on a board makes a board.
LEMMA OpKeepsBoard ==
    ASSUME NEW n \in Nat \ {0}, NEW objs, IsBoard(objs, n), NEW op, IsOp(op, n)
    PROVE  IsBoard(ApplyOp(objs, op), n)
<1> DEFINE r == ApplyOp(objs, op)
<1>1. CASE op.type = "create"
  <2>1. r = [y \in DOMAIN objs \cup {op.id} |-> IF y = op.id THEN op.value ELSE objs[y]]
    BY <1>1, Zenon DEF ApplyOp, Put
  <2> HIDE DEF r
  <2>2. DOMAIN r = DOMAIN objs \cup {op.id} /\ r = [y \in DOMAIN r |-> r[y]]
    BY <2>1
  <2>3. \A y \in DOMAIN r : r[y] = IF y = op.id THEN op.value ELSE objs[y]
    BY <2>1
  <2>4. \A y \in DOMAIN r : y \in 1 .. n - 1 /\ IsObject(r[y], n)
    BY <1>1, <2>2, <2>3 DEF IsOp, IsBoard
  <2> QED
    BY <2>2, <2>4 DEF IsBoard, r
<1>2. CASE op.type # "create" /\ op.id \notin DOMAIN objs
  BY <1>2 DEF ApplyOp
<1>3. CASE op.type = "update" /\ op.id \in DOMAIN objs
  <2> DEFINE s == With(objs[op.id], op.path, op.value)
  <2>1. r = [objs EXCEPT ![op.id] = s]
    BY <1>3 DEF ApplyOp, With
  <2>2. IsObject(s, n)
    <3>1. IsObject(objs[op.id], n) /\ FieldOk(op.path, op.value, n)
      BY <1>3 DEF IsOp, IsBoard
    <3> QED
      BY <3>1, FieldSet
  <2> HIDE DEF r, s
  <2>3. DOMAIN r = DOMAIN objs /\ \A y \in DOMAIN r : r[y] = IF y = op.id THEN s ELSE objs[y]
    BY <2>1
  <2>4. r = [y \in DOMAIN r |-> r[y]]
    BY <2>1, <2>3 DEF IsBoard
  <2> QED
    BY <2>2, <2>3, <2>4 DEF IsBoard, r
<1>4. CASE op.type # "create" /\ op.id \in DOMAIN objs /\ op.type # "update"
  <2> DEFINE child(y) == IsContainer(objs[op.id]) /\ objs[y].parentId = op.id
             lost(y) == With(objs[y], "parentId", NoParent)
  <2>1. r = Cascade(objs, op.id)
    BY <1>4, Zenon DEF ApplyOp
  <2>2. /\ DOMAIN r \subseteq DOMAIN objs /\ r = [y \in DOMAIN r |-> r[y]]
        /\ \A y \in DOMAIN r : r[y] = objs[y] \/ r[y] = lost(y)
    BY <2>1 DEF Cascade, With
  <2>3. \A y \in DOMAIN objs : IsObject(lost(y), n)
    <3>1. FieldOk("parentId", NoParent, n)
      BY DEF FieldOk, NoParent
    <3> QED
      BY <3>1, FieldSet DEF IsBoard
  <2> HIDE DEF r, lost
  <2> QED
    BY <2>2, <2>3 DEF IsBoard, r
<1> QED
  BY <1>1, <1>2, <1>3, <1>4

\* The boards one after the other while operations are applied.
Applied(b, objs, ops) ==
    /\ b[0] = objs /\ ApplyOps(objs, ops) = b[Len(ops)]
    /\ \A k \in 1 .. Len(ops) : b[k] = ApplyOp(b[k - 1], ops[k])

\* There are such boards.
LEMMA Turns ==
    ASSUME NEW objs, NEW ops, IsSeq(ops)
    PROVE  \E b : Applied(b, objs, ops)
<1> DEFINE n == Len(ops)
<1>1. n \in Nat /\ DOMAIN ops = 1 .. n
  BY SeqIsFunction
<1> HIDE DEF n
<1>2. \E g : ApplyingOps(g, n, objs, ops)
  BY <1>1, ApplyingExists
<1> DEFINE G == CHOOSE g : ApplyingOps(g, n, objs, ops)
<1>3. ApplyingOps(G, n, objs, ops)
  BY <1>2
<1>4. ApplyOps(objs, ops) = G[1 .. n]
  BY <1>1, Zenon DEF ApplyingOps, ApplyOps, FoldLeft, MapThenFoldSet
<1> HIDE DEF G
<1> DEFINE b == [k \in 0 .. n |-> G[1 .. k]]
<1>5. b[0] = objs
  <2>1. 1 .. 0 = {} /\ {} \in SUBSET (1 .. n) /\ 0 \in 0 .. n
    BY <1>1
  <2>2. G[{}] = objs
    BY <1>3, <2>1, Zenon DEF ApplyingOps
  <2> QED
    BY <2>1, <2>2
<1>6. ASSUME NEW k \in 1 .. n PROVE b[k] = ApplyOp(b[k - 1], ops[k])
  <2>1. 1 .. k \in SUBSET (1 .. n) /\ 1 .. k # {} /\ Max(1 .. k) = k /\ (1 .. k) \ {k} = 1 .. k - 1
    BY <1>1, TurnIndex
  <2>2. G[1 .. k] = ApplyOp(G[1 .. k - 1], ops[k])
    BY <1>3, <2>1, Zenon DEF ApplyingOps
  <2>3. k \in 0 .. n /\ k - 1 \in 0 .. n
    BY <1>1
  <2> QED
    BY <2>2, <2>3
<1>7. ApplyOps(objs, ops) = b[n]
  BY <1>1, <1>4
<1> HIDE DEF b
<1>8. Applied(b, objs, ops)
  BY <1>5, <1>6, <1>7 DEF Applied, n
<1> QED
  BY <1>8

\* So do many.
LEMMA OpsKeepBoard ==
    ASSUME NEW n \in Nat \ {0}, NEW objs, IsBoard(objs, n), NEW ops, IsOps(ops, n)
    PROVE  IsBoard(ApplyOps(objs, ops), n)
<1> DEFINE m == Len(ops)
<1>0. IsSeq(ops)
  BY DEF IsOps
<1>1. m \in Nat /\ DOMAIN ops = 1 .. m
  BY <1>0, SeqIsFunction
<1>2. PICK b : Applied(b, objs, ops)
  BY <1>0, Turns
<1>3. /\ b[0] = objs /\ ApplyOps(objs, ops) = b[m]
      /\ \A k \in 1 .. m : b[k] = ApplyOp(b[k - 1], ops[k])
  BY <1>2 DEF Applied
<1> HIDE DEF m
<1> DEFINE T == {k \in Nat : k <= m => IsBoard(b[k], n)}
<1>4. 0 \in T
  BY <1>3
<1>5. ASSUME NEW k \in Nat, k \in T PROVE k + 1 \in T
  <2> SUFFICES ASSUME k + 1 <= m PROVE IsBoard(b[k + 1], n)
    OBVIOUS
  <2>1. IsBoard(b[k], n)
    BY <1>1, <1>5
  <2>2. k + 1 \in 1 .. m /\ k + 1 - 1 = k
    BY <1>1
  <2>3. b[k + 1] = ApplyOp(b[k], ops[k + 1])
    BY <1>3, <2>2
  <2>4. IsOp(ops[k + 1], n)
    BY <1>1, <2>2 DEF IsOps, ToSet
  <2> QED
    BY <2>1, <2>3, <2>4, OpKeepsBoard
<1> HIDE DEF T
<1>6. Nat \subseteq T
  BY <1>4, <1>5, SetInduction, Zenon
<1> QED
  BY <1>1, <1>3, <1>6 DEF T

-----------------------------------------------------------------------------
\* What is in the steps of a command

\* The elements of sequences that are put together.
LEMMA Flattened ==
    ASSUME NEW seqs, IsSeq(seqs), \A i \in DOMAIN seqs : IsSeq(seqs[i])
    PROVE  /\ IsSeq(FlattenSeq(seqs))
           /\ \A e : e \in ToSet(FlattenSeq(seqs)) <=> \E i \in DOMAIN seqs : e \in ToSet(seqs[i])
<1> DEFINE n == Len(seqs)
           all == FlattenSeq(seqs)
<1>1. n \in Nat /\ DOMAIN seqs = 1 .. n
  BY SeqIsFunction
<1>2. IsSeq(all) /\ \A k \in DOMAIN all : \E i \in DOMAIN seqs : \E j \in DOMAIN seqs[i] : all[k] = seqs[i][j]
  BY FlattenIsSeq
<1>3. \A e \in ToSet(all) : \E i \in DOMAIN seqs : e \in ToSet(seqs[i])
  <2> HIDE DEF all
  <2> QED
    BY <1>2 DEF ToSet
<1>4. ASSUME NEW i \in DOMAIN seqs PROVE ToSet(seqs[i]) \subseteq ToSet(all)
  <2>1. \E f : Flattening(f, n, seqs)
    BY <1>1, FlatteningExists
  <2> DEFINE F == CHOOSE f : Flattening(f, n, seqs)
  <2>2. Flattening(F, n, seqs)
    BY <2>1
  <2>3. n # 0
    BY <1>1, <1>4
  <2>4. all = F[n]
    BY <2>3, Zenon DEF FlattenSeq, Flattening
  <2> HIDE DEF F, n, all
  <2>5. \A k \in 1 .. n : F[k] = IF k = 1 THEN seqs[k] ELSE F[k - 1] \o seqs[k]
    BY <2>2, Zenon DEF Flattening
  <2> DEFINE T == {m \in Nat : m \in 1 .. n => /\ IsSeq(F[m])
                                              /\ \A k \in 1 .. m : ToSet(seqs[k]) \subseteq ToSet(F[m])}
  <2>6. 0 \in T
    OBVIOUS
  <2>7. ASSUME NEW m \in Nat, m \in T PROVE m + 1 \in T
    <3> SUFFICES ASSUME m + 1 \in 1 .. n
                 PROVE  /\ IsSeq(F[m + 1])
                        /\ \A k \in 1 .. m + 1 : ToSet(seqs[k]) \subseteq ToSet(F[m + 1])
      OBVIOUS
    <3> DEFINE s == seqs[m + 1]
    <3>1. F[m + 1] = IF m + 1 = 1 THEN s ELSE F[m + 1 - 1] \o s
      BY <2>5
    <3>2. IsSeq(s)
      BY <1>1
    <3>3. CASE m = 0
      <4>1. F[m + 1] = s /\ \A k \in 1 .. m + 1 : k = m + 1
        BY <3>1, <3>3
      <4> QED
        BY <3>2, <4>1
    <3>4. CASE m # 0
      <4>1. m \in 1 .. n /\ m + 1 - 1 = m /\ m + 1 # 1
        BY <1>1, <3>4
      <4>2. IsSeq(F[m]) /\ \A k \in 1 .. m : ToSet(seqs[k]) \subseteq ToSet(F[m])
        BY <2>7, <4>1
      <4>3. F[m + 1] = F[m] \o s
        BY <3>1, <4>1
      <4> DEFINE t == F[m]
                 r == t \o s
      <4>4. IsSeq(t)
        BY <4>2
      <4> HIDE DEF s, t
      <4>5. IsSeq(r) /\ ToSet(t) \subseteq ToSet(r) /\ ToSet(s) \subseteq ToSet(r)
        <5>1. /\ Len(t) \in Nat /\ DOMAIN t = 1 .. Len(t) /\ Len(s) \in Nat /\ DOMAIN s = 1 .. Len(s)
          BY <3>2, <4>4, SeqIsFunction
        <5>2. /\ IsSeq(r) /\ Len(r) = Len(t) + Len(s)
              /\ \A x \in 1 .. Len(t) + Len(s) : r[x] = IF x <= Len(t) THEN t[x] ELSE s[x - Len(t)]
          BY <3>2, <4>4, ConcatIsSeq
        <5>3. DOMAIN r = 1 .. Len(t) + Len(s)
          BY <5>2, SeqIsFunction
        <5> HIDE DEF r
        <5>4. \A x \in DOMAIN t : x \in DOMAIN r /\ r[x] = t[x]
          BY <5>1, <5>2, <5>3
        <5>5. \A x \in DOMAIN s : x + Len(t) \in DOMAIN r /\ r[x + Len(t)] = s[x]
          <6>1. ASSUME NEW x \in DOMAIN s PROVE x + Len(t) \in DOMAIN r /\ r[x + Len(t)] = s[x]
            <7>1. x + Len(t) \in 1 .. Len(t) + Len(s) /\ ~(x + Len(t) <= Len(t)) /\ x + Len(t) - Len(t) = x
              BY <5>1
            <7> QED
              BY <5>2, <5>3, <7>1
          <6> QED
            BY <6>1
        <5>6. ToSet(t) \subseteq ToSet(r)
          BY <5>4 DEF ToSet
        <5>7. ToSet(s) \subseteq ToSet(r)
          BY <5>5 DEF ToSet
        <5> QED
          BY <5>2, <5>6, <5>7 DEF r
      <4>6. \A k \in 1 .. m + 1 : k = m + 1 \/ k \in 1 .. m
        OBVIOUS
      <4> HIDE DEF r
      <4>7. F[m + 1] = r
        BY <4>3 DEF r, t
      <4>8. \A k \in 1 .. m : ToSet(seqs[k]) \subseteq ToSet(r)
        BY <4>2, <4>5 DEF t
      <4>9. ToSet(seqs[m + 1]) \subseteq ToSet(r)
        BY <4>5 DEF s
      <4> QED
        BY <4>5, <4>6, <4>7, <4>8, <4>9
    <3> QED
      BY <3>3, <3>4
  <2> HIDE DEF T
  <2>8. Nat \subseteq T
    BY <2>6, <2>7, SetInduction, Zenon
  <2>9. n \in 1 .. n /\ n \in T
    BY <1>1, <2>3, <2>8
  <2> QED
    BY <1>1, <1>4, <2>4, <2>9 DEF T
<1> HIDE DEF all
<1> QED
  BY <1>2, <1>3, <1>4 DEF all

\* Of few elements.
LEMMA SetOfOne ==
    /\ ToSet(<<>>) = {}
    /\ \A a : ToSet(<<a>>) = {a}
    /\ \A a, b : ToSet(<<a, b>>) = {a, b}
<1>1. ToSet(<<>>) = {}
  BY DEF ToSet
<1>2. ASSUME NEW a PROVE ToSet(<<a>>) = {a}
  <2> DEFINE s == <<a>>
  <2>1. DOMAIN s = {1} /\ s[1] = a
    BY TupleIsSeq
  <2> HIDE DEF s
  <2> QED
    BY <2>1 DEF ToSet, s
<1>3. ASSUME NEW a, NEW b PROVE ToSet(<<a, b>>) = {a, b}
  <2> DEFINE s == <<a, b>>
  <2>1. DOMAIN s = {1, 2} /\ s[1] = a /\ s[2] = b
    BY TupleIsSeq
  <2> HIDE DEF s
  <2>2. ToSet(s) = {a, b}
    BY <2>1 DEF ToSet
  <2> QED
    BY <2>2 DEF s
<1> QED
  BY <1>1, <1>2, <1>3

\* What a filter leaves is what passes.
LEMMA Filtered ==
    ASSUME NEW s, IsSeq(s), NEW kept, kept = [i \in DOMAIN s |-> kept[i]],
           \A i \in DOMAIN s : kept[i] \in {<<s[i]>>, <<>>}
    PROVE  /\ IsSeq(FlattenSeq(kept))
           /\ \A e : e \in ToSet(FlattenSeq(kept)) <=> \E i \in DOMAIN s : kept[i] = <<s[i]>> /\ e = s[i]
<1>1. IsSeq(kept) /\ DOMAIN kept = DOMAIN s
  BY MappedIsSeq
<1>2. \A i \in DOMAIN s : IsSeq(kept[i])
  BY TupleIsSeq
<1>3. /\ IsSeq(FlattenSeq(kept))
      /\ \A e : e \in ToSet(FlattenSeq(kept)) <=> \E i \in DOMAIN kept : e \in ToSet(kept[i])
  BY <1>1, <1>2, Flattened
<1>4. \A a : ToSet(<<a>>) = {a}
  BY SetOfOne
<1>5. ToSet(<<>>) = {}
  BY SetOfOne
<1>6. \A i \in DOMAIN s : \A e : e \in ToSet(kept[i]) <=> kept[i] = <<s[i]>> /\ e = s[i]
  BY <1>4, <1>5
<1> QED
  BY <1>1, <1>3, <1>6

\* The operation that takes op back, where there is one.
Undoing(objs, op) ==
    IF op.type = "create" THEN Delete(op.id)
    ELSE IF op.type = "update" THEN Update(op.id, op.path, objs[op.id][op.path])
    ELSE Create(op.id, objs[op.id])

Invertible(objs, op) == op.type = "create" \/ op.id \in DOMAIN objs

\* What InverseOf is.
LEMMA InverseIs ==
    ASSUME NEW objs, NEW op
    PROVE  InverseOf(objs, op) = IF Invertible(objs, op) THEN <<Undoing(objs, op)>> ELSE <<>>
<1>1. CASE op.type = "create"
  BY <1>1 DEF InverseOf, Undoing, Invertible
<1>2. CASE op.type # "create" /\ op.id \notin DOMAIN objs
  BY <1>2 DEF InverseOf, Undoing, Invertible
<1>3. CASE op.type # "create" /\ op.id \in DOMAIN objs
  BY <1>3 DEF InverseOf, Undoing, Invertible
<1> QED
  BY <1>1, <1>2, <1>3

\* What the step of a batch holds.
LEMMA StepHolds ==
    ASSUME NEW objs, NEW batch, IsSeq(batch)
    PROVE  /\ IsSeq(StepOf(objs, batch).undo) /\ IsSeq(StepOf(objs, batch).redo)
           /\ \A e : e \in ToSet(StepOf(objs, batch).undo) <=>
                        \E op \in ToSet(batch) : Invertible(objs, op) /\ e = Undoing(objs, op)
           /\ ToSet(StepOf(objs, batch).redo) \subseteq ToSet(batch)
<1> DEFINE back == [i \in DOMAIN batch |-> InverseOf(objs, batch[i])]
           kept == [i \in DOMAIN batch |-> IF InverseOf(objs, batch[i]) # <<>> THEN <<batch[i]>> ELSE <<>>]
<1>1. StepOf(objs, batch) = [undo |-> FlattenSeq(back), redo |-> FlattenSeq(kept)]
  BY Zenon DEF StepOf, Filter
<1>2. \A i \in DOMAIN batch : back[i] = IF Invertible(objs, batch[i]) THEN <<Undoing(objs, batch[i])>> ELSE <<>>
  <2>1. \A i \in DOMAIN batch : back[i] = InverseOf(objs, batch[i])
    OBVIOUS
  <2> HIDE DEF back
  <2> QED
    BY <2>1, InverseIs
<1>3. back = [i \in DOMAIN batch |-> back[i]]
  BY Zenon
<1>4. kept = [i \in DOMAIN batch |-> kept[i]] /\ \A i \in DOMAIN batch : kept[i] \in {<<batch[i]>>, <<>>}
  BY Zenon
<1> HIDE DEF back, kept
<1>5. IsSeq(back) /\ DOMAIN back = DOMAIN batch
  BY <1>3, MappedIsSeq
<1>6. \A i \in DOMAIN batch : IsSeq(back[i])
  BY <1>2, TupleIsSeq
<1>7. /\ IsSeq(FlattenSeq(back))
      /\ \A e : e \in ToSet(FlattenSeq(back)) <=> \E i \in DOMAIN back : e \in ToSet(back[i])
  BY <1>5, <1>6, Flattened
<1>8. \A e : \A i \in DOMAIN batch :
         e \in ToSet(back[i]) <=> Invertible(objs, batch[i]) /\ e = Undoing(objs, batch[i])
  <2>1. ASSUME NEW e, NEW i \in DOMAIN batch
        PROVE  e \in ToSet(back[i]) <=> Invertible(objs, batch[i]) /\ e = Undoing(objs, batch[i])
    <3> DEFINE a == Undoing(objs, batch[i])
    <3>1. back[i] = IF Invertible(objs, batch[i]) THEN <<a>> ELSE <<>>
      BY <1>2
    <3> HIDE DEF a
    <3>2. ToSet(<<>>) = {} /\ ToSet(<<a>>) = {a}
      BY SetOfOne
    <3>3. CASE Invertible(objs, batch[i])
      <4>1. ToSet(back[i]) = {a}
        BY <3>1, <3>2, <3>3
      <4> QED
        BY <3>3, <4>1 DEF a
    <3>4. CASE ~Invertible(objs, batch[i])
      <4>1. ToSet(back[i]) = {}
        BY <3>1, <3>2, <3>4
      <4> QED
        BY <3>4, <4>1
    <3> QED
      BY <3>3, <3>4
  <2> QED
    BY <2>1
<1>9. IsSeq(FlattenSeq(kept)) /\ \A e \in ToSet(FlattenSeq(kept)) : \E i \in DOMAIN batch : e = batch[i]
  BY <1>4, Filtered
<1>10. ToSet(batch) = {batch[i] : i \in DOMAIN batch}
  BY DEF ToSet
<1>11. \A e : e \in ToSet(FlattenSeq(back)) <=>
                 \E op \in ToSet(batch) : Invertible(objs, op) /\ e = Undoing(objs, op)
  <2>1. \A e : e \in ToSet(FlattenSeq(back)) <=>
                  \E i \in DOMAIN batch : Invertible(objs, batch[i]) /\ e = Undoing(objs, batch[i])
    BY <1>5, <1>7, <1>8, Zenon
  <2>2. ASSUME NEW e, NEW i \in DOMAIN batch, Invertible(objs, batch[i]), e = Undoing(objs, batch[i])
        PROVE  \E op \in ToSet(batch) : Invertible(objs, op) /\ e = Undoing(objs, op)
    <3>1. batch[i] \in ToSet(batch)
      BY <1>10
    <3> QED
      BY <2>2, <3>1, Zenon
  <2>3. ASSUME NEW e, NEW op \in ToSet(batch), Invertible(objs, op), e = Undoing(objs, op)
        PROVE  \E i \in DOMAIN batch : Invertible(objs, batch[i]) /\ e = Undoing(objs, batch[i])
    <3>1. PICK i \in DOMAIN batch : op = batch[i]
      BY <1>10
    <3> QED
      BY <2>3, <3>1, Zenon
  <2> QED
    BY <2>1, <2>2, <2>3, Zenon
<1>12. ToSet(FlattenSeq(kept)) \subseteq ToSet(batch)
  BY <1>9, <1>10
<1> QED
  BY <1>1, <1>7, <1>9, <1>11, <1>12

\* The steps of a command are those of its batches that can be undone.
LEMMA StepsHold ==
    ASSUME NEW objs, NEW batches, IsSeq(batches)
    PROVE  /\ IsSeq(StepsOf(objs, batches))
           /\ \A st : st \in ToSet(StepsOf(objs, batches)) <=>
                         \E i \in DOMAIN batches : st = StepOf(objs, batches[i]) /\ st.undo # <<>>
<1> DEFINE s == [i \in DOMAIN batches |-> StepOf(objs, batches[i])]
           kept == [i \in DOMAIN s |-> IF s[i].undo # <<>> THEN <<s[i]>> ELSE <<>>]
<1>1. StepsOf(objs, batches) = FlattenSeq(kept)
  BY Zenon DEF StepsOf, Filter
<1>2. s = [i \in DOMAIN batches |-> s[i]] /\ \A i \in DOMAIN batches : s[i] = StepOf(objs, batches[i])
  BY Zenon
<1>3. \A i \in DOMAIN s : kept[i] = IF s[i].undo # <<>> THEN <<s[i]>> ELSE <<>>
  BY Zenon
<1>0. kept = [i \in DOMAIN s |-> kept[i]]
  BY Zenon
<1> HIDE DEF s, kept
<1>4. IsSeq(s) /\ DOMAIN s = DOMAIN batches
  BY <1>2, MappedIsSeq
<1>5. /\ IsSeq(FlattenSeq(kept))
      /\ \A e : e \in ToSet(FlattenSeq(kept)) <=> \E i \in DOMAIN s : kept[i] = <<s[i]>> /\ e = s[i]
  <2>1. \A i \in DOMAIN s : kept[i] \in {<<s[i]>>, <<>>}
    BY <1>3
  <2> QED
    <3>1. IsSeq(s)
      BY <1>4
    <3> QED
      BY ONLY <1>0, <3>1, <2>1, Filtered
<1>6. \A i \in DOMAIN s : kept[i] = <<s[i]>> <=> s[i].undo # <<>>
  <2>1. \A a : <<a>> # <<>>
    OBVIOUS
  <2> QED
    BY <1>3, <2>1
<1>7. \A st : st \in ToSet(FlattenSeq(kept)) <=> \E i \in DOMAIN batches : s[i].undo # <<>> /\ st = s[i]
  BY <1>4, <1>5, <1>6, Zenon
<1>8. \A st : st \in ToSet(FlattenSeq(kept)) <=>
                 \E i \in DOMAIN batches : st = StepOf(objs, batches[i]) /\ st.undo # <<>>
  BY <1>2, <1>7, Zenon
<1> QED
  BY <1>1, <1>5, <1>8

\* What is sent of a batch.
LEMMA SentHolds ==
    ASSUME NEW objs, NEW batch, IsSeq(batch)
    PROVE  /\ IsSeq(Sent(objs, batch))
           /\ \A op : op \in ToSet(Sent(objs, batch)) <=>
                         op \in ToSet(batch) /\ (op.type = "delete" => op.id \in DOMAIN objs)
<1> DEFINE kept == [i \in DOMAIN batch |-> IF batch[i].type = "delete" => batch[i].id \in DOMAIN objs
                                           THEN <<batch[i]>> ELSE <<>>]
<1>1. Sent(objs, batch) = FlattenSeq(kept)
  BY Zenon DEF Sent, Filter
<1>2. kept = [i \in DOMAIN batch |-> kept[i]]
  BY Zenon
<1>3. \A i \in DOMAIN batch : kept[i] = IF batch[i].type = "delete" => batch[i].id \in DOMAIN objs
                                        THEN <<batch[i]>> ELSE <<>>
  BY Zenon
<1> HIDE DEF kept
<1>4. \A i \in DOMAIN batch : kept[i] \in {<<batch[i]>>, <<>>}
  BY <1>3
<1>5. /\ IsSeq(FlattenSeq(kept))
      /\ \A e : e \in ToSet(FlattenSeq(kept)) <=> \E i \in DOMAIN batch : kept[i] = <<batch[i]>> /\ e = batch[i]
  BY <1>2, <1>4, Filtered
<1>6. \A i \in DOMAIN batch : kept[i] = <<batch[i]>> <=> (batch[i].type = "delete" => batch[i].id \in DOMAIN objs)
  <2>1. \A a : <<a>> # <<>>
    OBVIOUS
  <2> QED
    BY <1>3, <2>1
<1>7. ToSet(batch) = {batch[i] : i \in DOMAIN batch}
  BY DEF ToSet
<1> QED
  BY <1>1, <1>5, <1>6, <1>7

-----------------------------------------------------------------------------
\* Taking a command back

\* Of ids none in C is an object of goal or named in one, and the operations in
\* R make goal of cur: one of them for everything in which cur is not goal yet.
Toward(goal, C, cur, R) ==
    /\ cur = [x \in DOMAIN cur |-> cur[x]]
    /\ \A x \in DOMAIN goal : x \in DOMAIN cur \/ Create(x, goal[x]) \in R
    /\ \A x \in DOMAIN cur \ DOMAIN goal : x \in C /\ Delete(x) \in R
    /\ \A x \in DOMAIN goal \cap DOMAIN cur :
          /\ cur[x] = [f \in Fields |-> cur[x][f]]
          /\ cur[x].fromId \notin C /\ cur[x].toId \notin C
          /\ \A f \in Fields : cur[x][f] = goal[x][f] \/ Update(x, f, goal[x][f]) \in R

\* An operation towards goal.
Backward(goal, C, op) ==
    \/ \E x \in C : op = Delete(x)
    \/ \E x \in DOMAIN goal : op = Create(x, goal[x])
    \/ \E x \in DOMAIN goal : \E f : op = Update(x, f, goal[x][f])

\* A board without any of C.
Without(goal, C) ==
    /\ goal = [x \in DOMAIN goal |-> goal[x]]
    /\ NoParent \notin C /\ DOMAIN goal \cap C = {}
    /\ \A x \in DOMAIN goal :
          /\ goal[x] = [f \in Fields |-> goal[x][f]]
          /\ goal[x].parentId \notin C /\ goal[x].fromId \notin C /\ goal[x].toId \notin C

\* When nothing is left to do, the goal is reached.
LEMMA Arrived ==
    ASSUME NEW C, NEW goal, Without(goal, C), NEW cur, Toward(goal, C, cur, {})
    PROVE  cur = goal
<1>1. DOMAIN cur = DOMAIN goal
  BY DEF Toward
<1>2. ASSUME NEW x \in DOMAIN goal PROVE cur[x] = goal[x]
  <2>1. /\ cur[x] = [f \in Fields |-> cur[x][f]]
        /\ \A f \in Fields : cur[x][f] = goal[x][f]
        /\ goal[x] = [f \in Fields |-> goal[x][f]]
    BY <1>1 DEF Toward, Without
  <2> QED
    BY <2>1
<1>3. cur = [x \in DOMAIN goal |-> cur[x]] /\ goal = [x \in DOMAIN goal |-> goal[x]]
  BY <1>1 DEF Toward, Without
<1> QED
  BY <1>2, <1>3

\* An operation is of one kind.
LEMMA OpFields ==
    /\ \A x : Delete(x).type = "delete" /\ Delete(x).id = x
    /\ \A x, o : Create(x, o).type = "create" /\ Create(x, o).id = x /\ Create(x, o).value = o
    /\ \A x, f, v : /\ Update(x, f, v).type = "update" /\ Update(x, f, v).id = x
                    /\ Update(x, f, v).path = f /\ Update(x, f, v).value = v
  BY DEF Delete, Create, Update

\* What has become a field's value in an object that has another value there.
LEMMA WithField ==
    ASSUME NEW o, o = [f \in Fields |-> o[f]], NEW path, NEW v
    PROVE  /\ With(o, path, v) = [f \in Fields |-> With(o, path, v)[f]]
           /\ \A f \in Fields : With(o, path, v)[f] = IF f = path THEN v ELSE o[f]
<1>1. DOMAIN o = Fields
  OBVIOUS
<1>2. With(o, path, v) = [f \in Fields |-> IF f = path THEN v ELSE o[f]]
  BY <1>1 DEF With
<1> DEFINE s == With(o, path, v)
<1>3. s = [f \in Fields |-> IF f = path THEN v ELSE o[f]]
  BY <1>2
<1> HIDE DEF s
<1>4. s = [f \in Fields |-> s[f]] /\ \A f \in Fields : s[f] = IF f = path THEN v ELSE o[f]
  BY <1>3
<1> QED
  BY <1>4 DEF s

\* What the operations are on boards.
LEMMA OpEffects ==
    ASSUME NEW cur, cur = [x \in DOMAIN cur |-> cur[x]], NEW op, NEW r, r = ApplyOp(cur, op)
    PROVE  /\ r = [x \in DOMAIN r |-> r[x]]
           /\ op.type = "create" =>
                 /\ DOMAIN r = DOMAIN cur \cup {op.id}
                 /\ \A x \in DOMAIN r : r[x] = IF x = op.id THEN op.value ELSE cur[x]
           /\ op.type # "create" /\ op.id \notin DOMAIN cur => r = cur
           /\ op.type = "update" /\ op.id \in DOMAIN cur =>
                 /\ DOMAIN r = DOMAIN cur
                 /\ r[op.id] = With(cur[op.id], op.path, op.value)
                 /\ \A x \in DOMAIN r \ {op.id} : r[x] = cur[x]
           /\ op.type = "delete" /\ op.id \in DOMAIN cur =>
                 /\ DOMAIN r \subseteq DOMAIN cur \ {op.id}
                 /\ \A x \in DOMAIN cur \ {op.id} :
                       x \in DOMAIN r \/ (cur[x].type = "connector" /\ op.id \in {cur[x].fromId, cur[x].toId})
                 /\ \A x \in DOMAIN r :
                       \/ r[x] = cur[x]
                       \/ cur[x].parentId = op.id /\ r[x] = With(cur[x], "parentId", NoParent)
<1>1. CASE op.type = "create"
  <2>1. r = [y \in DOMAIN cur \cup {op.id} |-> IF y = op.id THEN op.value ELSE cur[y]]
    BY <1>1, Zenon DEF ApplyOp, Put
  <2>2. DOMAIN r = DOMAIN cur \cup {op.id} /\ r = [y \in DOMAIN r |-> r[y]]
    BY <2>1
  <2>3. \A y \in DOMAIN r : r[y] = IF y = op.id THEN op.value ELSE cur[y]
    BY <2>1
  <2> QED
    BY <1>1, <2>2, <2>3
<1>2. CASE op.type # "create" /\ op.id \notin DOMAIN cur
  <2>1. r = cur
    BY <1>2 DEF ApplyOp
  <2> QED
    BY <1>2, <2>1
<1>3. CASE op.type = "update" /\ op.id \in DOMAIN cur
  <2> DEFINE s == With(cur[op.id], op.path, op.value)
  <2>1. r = [cur EXCEPT ![op.id] = s]
    BY <1>3 DEF ApplyOp, With
  <2> HIDE DEF s
  <2>2. DOMAIN r = DOMAIN cur /\ \A y \in DOMAIN r : r[y] = IF y = op.id THEN s ELSE cur[y]
    BY <2>1
  <2>3. r = [y \in DOMAIN r |-> r[y]]
    BY <2>1, <2>2
  <2> QED
    BY <1>3, <2>2, <2>3 DEF s
<1>4. CASE op.type # "create" /\ op.id \in DOMAIN cur /\ op.type # "update"
  <2> DEFINE child(y) == IsContainer(cur[op.id]) /\ cur[y].parentId = op.id
             attached(y) == cur[y].type = "connector" /\ op.id \in {cur[y].fromId, cur[y].toId}
             rest == {y \in DOMAIN cur \ {op.id} : child(y) \/ ~attached(y)}
             lost(y) == With(cur[y], "parentId", NoParent)
  <2>1. r = Cascade(cur, op.id)
    BY <1>4, Zenon DEF ApplyOp
  <2>2. r = [y \in rest |-> IF child(y) THEN lost(y) ELSE cur[y]]
    BY <2>1 DEF Cascade, With
  <2> HIDE DEF lost
  <2>3. DOMAIN r = rest /\ r = [y \in DOMAIN r |-> r[y]] /\ \A y \in DOMAIN r : r[y] = IF child(y) THEN lost(y) ELSE cur[y]
    BY <2>2
  <2>4. \A x \in DOMAIN r : r[x] = cur[x] \/ (cur[x].parentId = op.id /\ r[x] = lost(x))
    BY <2>3
  <2>5. DOMAIN r \subseteq DOMAIN cur \ {op.id} /\ \A x \in DOMAIN cur \ {op.id} : x \in DOMAIN r \/ attached(x)
    BY <2>3
  <2> QED
    BY <1>4, <2>3, <2>4, <2>5 DEF lost
<1> QED
  BY <1>1, <1>2, <1>3, <1>4

\* An operation towards goal does its part, and undoes none.
LEMMA OneBack ==
    ASSUME NEW C, NEW goal, Without(goal, C), NEW op, Backward(goal, C, op),
           NEW cur, NEW R, Toward(goal, C, cur, R), NEW S, R \subseteq S \cup {op}
    PROVE  Toward(goal, C, ApplyOp(cur, op), S)
<1> DEFINE r == ApplyOp(cur, op)
           whole(b, x) == b[x] = [f \in Fields |-> b[x][f]] /\ b[x].fromId \notin C /\ b[x].toId \notin C
           due(b, x) == \A f \in Fields : b[x][f] = goal[x][f] \/ Update(x, f, goal[x][f]) \in S
<1>0. cur = [x \in DOMAIN cur |-> cur[x]]
  BY DEF Toward
<1>r. r = ApplyOp(cur, op)
  OBVIOUS
<1> HIDE DEF r
<1>1. /\ r = [x \in DOMAIN r |-> r[x]]
      /\ op.type = "create" =>
            /\ DOMAIN r = DOMAIN cur \cup {op.id}
            /\ \A x \in DOMAIN r : r[x] = IF x = op.id THEN op.value ELSE cur[x]
      /\ op.type # "create" /\ op.id \notin DOMAIN cur => r = cur
      /\ op.type = "update" /\ op.id \in DOMAIN cur =>
            /\ DOMAIN r = DOMAIN cur
            /\ r[op.id] = With(cur[op.id], op.path, op.value)
            /\ \A x \in DOMAIN r \ {op.id} : r[x] = cur[x]
      /\ op.type = "delete" /\ op.id \in DOMAIN cur =>
            /\ DOMAIN r \subseteq DOMAIN cur \ {op.id}
            /\ \A x \in DOMAIN cur \ {op.id} :
                  x \in DOMAIN r \/ (cur[x].type = "connector" /\ op.id \in {cur[x].fromId, cur[x].toId})
            /\ \A x \in DOMAIN r :
                  \/ r[x] = cur[x]
                  \/ cur[x].parentId = op.id /\ r[x] = With(cur[x], "parentId", NoParent)
  BY ONLY <1>0, <1>r, OpEffects
<1>2. /\ \A x \in DOMAIN goal : x \in DOMAIN cur \/ Create(x, goal[x]) \in S \/ Create(x, goal[x]) = op
      /\ \A x \in DOMAIN cur \ DOMAIN goal : x \in C /\ (Delete(x) \in S \/ Delete(x) = op)
      /\ \A x \in DOMAIN goal \cap DOMAIN cur :
            /\ whole(cur, x)
            /\ \A f \in Fields : \/ cur[x][f] = goal[x][f] \/ Update(x, f, goal[x][f]) \in S
                                 \/ Update(x, f, goal[x][f]) = op
  BY DEF Toward
<1>3. SUFFICES /\ \A x \in DOMAIN goal : x \in DOMAIN r \/ Create(x, goal[x]) \in S
               /\ \A x \in DOMAIN r \ DOMAIN goal : x \in C /\ Delete(x) \in S
               /\ \A x \in DOMAIN goal \cap DOMAIN r : whole(r, x) /\ due(r, x)
  BY <1>1 DEF Toward, r
<1>4. CASE \E x \in C : op = Delete(x)
  <2>1. PICK d \in C : op = Delete(d)
    BY <1>4
  <2>2. op.type = "delete" /\ op.id = d /\ d \notin DOMAIN goal
    BY <2>1, OpFields DEF Without
  <2>3. /\ \A x \in DOMAIN goal : x \in DOMAIN cur \/ Create(x, goal[x]) \in S
        /\ \A x \in DOMAIN cur \ DOMAIN goal : x \in C /\ (Delete(x) \in S \/ x = d)
        /\ \A x \in DOMAIN goal \cap DOMAIN cur : whole(cur, x) /\ due(cur, x)
    <3>1. \A x : Delete(x) = op => x = d
      BY <2>2, OpFields
    <3>2. \A x, o : Create(x, o) # op
      BY <2>2, OpFields
    <3>3. \A x, f, v : Update(x, f, v) # op
      BY <2>2, OpFields
    <3> QED
      BY <1>2, <3>1, <3>2, <3>3
  <2>4. CASE d \notin DOMAIN cur
    <3>1. r = cur
      BY <1>1, <2>2, <2>4
    <3> QED
      BY <2>3, <2>4, <3>1
  <2>5. CASE d \in DOMAIN cur
    <3>1. /\ DOMAIN r \subseteq DOMAIN cur \ {d}
          /\ \A x \in DOMAIN cur \ {d} :
                x \in DOMAIN r \/ (cur[x].type = "connector" /\ d \in {cur[x].fromId, cur[x].toId})
          /\ \A x \in DOMAIN r :
                \/ r[x] = cur[x]
                \/ cur[x].parentId = d /\ r[x] = With(cur[x], "parentId", NoParent)
      BY <1>1, <2>2, <2>5
    <3>2. \A x \in DOMAIN goal \cap DOMAIN cur : x \in DOMAIN r
      BY <2>2, <2>3, <3>1
    <3>3. \A x \in DOMAIN r \ DOMAIN goal : x \in C /\ Delete(x) \in S
      BY <2>3, <3>1
    <3>4. ASSUME NEW x \in DOMAIN goal \cap DOMAIN r, r[x] # cur[x]
          PROVE  whole(r, x) /\ due(r, x)
      <4> DEFINE o == cur[x]
      <4>1. o.parentId = d /\ r[x] = With(o, "parentId", NoParent)
        BY <3>1, <3>4
      <4>2. x \in DOMAIN cur /\ o = [f \in Fields |-> o[f]] /\ o.fromId \notin C /\ o.toId \notin C
        BY <2>3, <3>1
      <4>3. \A f \in Fields : o[f] = goal[x][f] \/ Update(x, f, goal[x][f]) \in S
        BY <2>3, <4>2
      <4>4. goal[x].parentId \notin C
        BY DEF Without
      <4>7. "parentId" \in Fields /\ "fromId" \in Fields /\ "toId" \in Fields
        BY FieldsAre
      <4> HIDE DEF o
      <4>5. /\ r[x] = [f \in Fields |-> r[x][f]]
            /\ \A f \in Fields : r[x][f] = IF f = "parentId" THEN NoParent ELSE o[f]
        BY <4>1, <4>2, WithField
      <4>6. Update(x, "parentId", goal[x]["parentId"]) \in S
        BY <4>1, <4>3, <4>4, <4>7
      <4> QED
        BY <4>2, <4>3, <4>5, <4>6, <4>7
    <3>5. \A x \in DOMAIN goal \cap DOMAIN r : r[x] = cur[x] => whole(r, x) /\ due(r, x)
      BY <2>3, <3>1
    <3> QED
      BY <2>3, <3>2, <3>3, <3>4, <3>5
  <2> QED
    BY <2>4, <2>5
<1>5. CASE \E x \in DOMAIN goal : op = Create(x, goal[x])
  <2>1. PICK d \in DOMAIN goal : op = Create(d, goal[d])
    BY <1>5
  <2>2. op.type = "create" /\ op.id = d /\ op.value = goal[d]
    BY <2>1, OpFields
  <2>3. DOMAIN r = DOMAIN cur \cup {d} /\ \A x \in DOMAIN r : r[x] = IF x = d THEN goal[d] ELSE cur[x]
    BY <1>1, <2>2
  <2>4. /\ \A x \in DOMAIN goal : x \in DOMAIN cur \/ Create(x, goal[x]) \in S \/ x = d
        /\ \A x \in DOMAIN cur \ DOMAIN goal : x \in C /\ Delete(x) \in S
        /\ \A x \in DOMAIN goal \cap DOMAIN cur : whole(cur, x) /\ due(cur, x)
    <3>1. \A x : Delete(x) # op
      BY <2>2, OpFields
    <3>2. \A x, o : Create(x, o) = op => x = d
      BY <2>2, OpFields
    <3>3. \A x, f, v : Update(x, f, v) # op
      BY <2>2, OpFields
    <3> QED
      BY <1>2, <3>1, <3>2, <3>3
  <2>5. whole(r, d) /\ due(r, d)
    BY <2>3 DEF Without
  <2>6. \A x \in DOMAIN goal \cap DOMAIN r : x # d => whole(r, x) /\ due(r, x)
    BY <2>3, <2>4
  <2> QED
    BY <2>3, <2>4, <2>5, <2>6
<1>6. CASE \E x \in DOMAIN goal : \E f : op = Update(x, f, goal[x][f])
  <2>1. PICK d \in DOMAIN goal : \E f : op = Update(d, f, goal[d][f])
    BY <1>6
  <2>2. PICK path : op = Update(d, path, goal[d][path])
    BY <2>1
  <2>3. op.type = "update" /\ op.id = d /\ op.path = path /\ op.value = goal[d][path]
    BY <2>2, OpFields
  <2>4. /\ \A x \in DOMAIN goal : x \in DOMAIN cur \/ Create(x, goal[x]) \in S
        /\ \A x \in DOMAIN cur \ DOMAIN goal : x \in C /\ Delete(x) \in S
        /\ \A x \in DOMAIN goal \cap DOMAIN cur :
              /\ whole(cur, x)
              /\ \A f \in Fields : \/ cur[x][f] = goal[x][f] \/ Update(x, f, goal[x][f]) \in S
                                   \/ x = d /\ f = path
    <3>1. \A x : Delete(x) # op
      BY <2>3, OpFields
    <3>2. \A x, o : Create(x, o) # op
      BY <2>3, OpFields
    <3>3. \A x, f, v : Update(x, f, v) = op => x = d /\ f = path
      BY <2>3, OpFields
    <3> QED
      BY <1>2, <3>1, <3>2, <3>3
  <2>5. CASE d \notin DOMAIN cur
    <3>1. r = cur
      BY <1>1, <2>3, <2>5
    <3> QED
      BY <2>4, <2>5, <3>1
  <2>6. CASE d \in DOMAIN cur
    <3> DEFINE o == cur[d]
               v == goal[d][path]
    <3>1. DOMAIN r = DOMAIN cur /\ r[d] = With(o, path, v) /\ \A x \in DOMAIN r \ {d} : r[x] = cur[x]
      BY <1>1, <2>3, <2>6
    <3>2. o = [f \in Fields |-> o[f]] /\ o.fromId \notin C /\ o.toId \notin C
      BY <2>4, <2>6
    <3>3. \A f \in Fields : f # path => o[f] = goal[d][f] \/ Update(d, f, goal[d][f]) \in S
      BY <2>4, <2>6
    <3>4. goal[d].fromId \notin C /\ goal[d].toId \notin C
      BY DEF Without
    <3>5. "fromId" \in Fields /\ "toId" \in Fields
      BY FieldsAre
    <3> HIDE DEF o, v
    <3>6. /\ r[d] = [f \in Fields |-> r[d][f]]
          /\ \A f \in Fields : r[d][f] = IF f = path THEN v ELSE o[f]
      BY <3>1, <3>2, WithField
    <3>7. whole(r, d)
      <4>1. r[d].fromId \in {o.fromId, goal[d].fromId} /\ r[d].toId \in {o.toId, goal[d].toId}
        BY <3>5, <3>6 DEF v
      <4> QED
        BY <3>2, <3>4, <3>6, <4>1
    <3>8. due(r, d)
      BY <3>3, <3>6 DEF v
    <3>9. \A x \in DOMAIN goal \cap DOMAIN r : x # d => whole(r, x) /\ due(r, x)
      BY <2>4, <3>1
    <3> QED
      BY <2>4, <3>1, <3>7, <3>8, <3>9
  <2> QED
    BY <2>5, <2>6
<1> QED
  BY <1>4, <1>5, <1>6 DEF Backward

\* So do many, however they are ordered.
LEMMA ManyBack ==
    ASSUME NEW C, NEW goal, Without(goal, C), NEW ops, IsSeq(ops), \A op \in ToSet(ops) : Backward(goal, C, op),
           NEW cur, NEW S, Toward(goal, C, cur, S \cup ToSet(ops))
    PROVE  Toward(goal, C, ApplyOps(cur, ops), S)
<1> DEFINE m == Len(ops)
           left(k) == S \cup {ops[j] : j \in k + 1 .. m}
<1>1. m \in Nat /\ DOMAIN ops = 1 .. m
  BY SeqIsFunction
<1>2. PICK b : Applied(b, cur, ops)
  BY Turns
<1>3. /\ b[0] = cur /\ ApplyOps(cur, ops) = b[m]
      /\ \A k \in 1 .. m : b[k] = ApplyOp(b[k - 1], ops[k])
  BY <1>2 DEF Applied
<1>4. ToSet(ops) = {ops[j] : j \in 1 .. m}
  BY <1>1 DEF ToSet
<1> HIDE DEF m
<1>5. Toward(goal, C, b[0], left(0))
  <2>1. left(0) = S \cup ToSet(ops)
    BY <1>4
  <2> QED
    BY <1>3, <2>1
<1>6. ASSUME NEW k \in Nat, k + 1 <= m, Toward(goal, C, b[k], left(k))
      PROVE  Toward(goal, C, b[k + 1], left(k + 1))
  <2> DEFINE op == ops[k + 1]
  <2>1. k + 1 \in 1 .. m /\ k + 1 - 1 = k
    BY <1>1, <1>6
  <2>2. b[k + 1] = ApplyOp(b[k], op)
    BY <1>3, <2>1
  <2>3. Backward(goal, C, op)
    BY <1>4, <2>1
  <2>4. left(k) \subseteq left(k + 1) \cup {op}
    <3>1. \A j \in k + 1 .. m : j = k + 1 \/ j \in k + 1 + 1 .. m
      BY <1>1
    <3> QED
      BY <3>1
  <2> HIDE DEF op, left
  <2> QED
    BY <1>6, <2>2, <2>3, <2>4, OneBack
<1>7. Toward(goal, C, b[m], left(m))
  <2> HIDE DEF left
  <2> DEFINE T == {k \in Nat : k <= m => Toward(goal, C, b[k], left(k))}
  <2>1. 0 \in T
    BY <1>5
  <2>2. ASSUME NEW k \in Nat, k \in T PROVE k + 1 \in T
    BY <1>1, <1>6, <2>2
  <2> HIDE DEF T
  <2>3. Nat \subseteq T
    BY <2>1, <2>2, SetInduction, Zenon
  <2> QED
    BY <1>1, <2>3 DEF T
<1>8. left(m) = S
  BY <1>1
<1> QED
  BY <1>3, <1>7, <1>8

\* The boards one after the other while steps are rewound.
Rewound(b, objs, s) ==
    /\ b[0] = objs
    /\ \A k \in 1 .. Len(s) : b[k] = ApplyOps(b[k - 1], Reverse(s[k].undo))

Rewinding(g, n, objs, s) ==
    g = [S \in SUBSET (1 .. n) |->
           IF S = {} THEN objs ELSE ApplyOps(g[S \ {Max(S)}], Reverse(s[Max(S)].undo))]

\* The fold that rewinds exists.
LEMMA RewindingExists ==
    ASSUME NEW objs, NEW s
    PROVE  \A n \in Nat : \E g : Rewinding(g, n, objs, s)
<1> DEFINE T == {n \in Nat : \E g : Rewinding(g, n, objs, s)}
<1>1. 0 \in T
  <2> DEFINE g == [S \in SUBSET (1 .. 0) |-> objs]
  <2>1. 1 .. 0 = {} /\ SUBSET (1 .. 0) = {{}}
    OBVIOUS
  <2>2. Rewinding(g, 0, objs, s)
    BY <2>1 DEF Rewinding
  <2> QED
    BY <2>2
<1>2. ASSUME NEW n \in Nat, n \in T PROVE n + 1 \in T
  <2>1. PICK g : Rewinding(g, n, objs, s)
    BY <1>2
  <2> DEFINE h == [S \in SUBSET (1 .. n + 1) |->
                     IF n + 1 \in S THEN ApplyOps(g[S \ {n + 1}], Reverse(s[n + 1].undo)) ELSE g[S]]
  <2>2. ASSUME NEW S \in SUBSET (1 .. n + 1)
        PROVE  h[S] = IF S = {} THEN objs ELSE ApplyOps(h[S \ {Max(S)}], Reverse(s[Max(S)].undo))
    <3>1. CASE n + 1 \in S
      <4>1. Max(S) = n + 1 /\ S # {}
        BY <3>1, MaxOfTop
      <4>2. S \ {n + 1} \in SUBSET (1 .. n + 1) /\ n + 1 \notin S \ {n + 1}
        OBVIOUS
      <4>3. h[S \ {n + 1}] = g[S \ {n + 1}]
        BY <4>2
      <4>4. h[S] = ApplyOps(g[S \ {n + 1}], Reverse(s[n + 1].undo))
        BY <3>1
      <4> QED
        BY <4>1, <4>3, <4>4, Zenon
    <3>2. CASE n + 1 \notin S
      <4>1. S \in SUBSET (1 .. n)
        BY <3>2
      <4>2. h[S] = g[S]
        BY <3>2
      <4>3. g[S] = IF S = {} THEN objs ELSE ApplyOps(g[S \ {Max(S)}], Reverse(s[Max(S)].undo))
        BY <2>1, <4>1, Zenon DEF Rewinding
      <4>4. S \ {Max(S)} \in SUBSET (1 .. n + 1) /\ n + 1 \notin S \ {Max(S)}
        BY <3>2
      <4>5. h[S \ {Max(S)}] = g[S \ {Max(S)}]
        BY <4>4
      <4> QED
        BY <4>2, <4>3, <4>5, Zenon
    <3> QED
      BY <3>1, <3>2
  <2>3. Rewinding(h, n + 1, objs, s)
    <3>1. h = [S \in SUBSET (1 .. n + 1) |->
                 IF S = {} THEN objs ELSE ApplyOps(h[S \ {Max(S)}], Reverse(s[Max(S)].undo))]
      BY <2>2, Zenon
    <3> QED
      BY <3>1, Zenon DEF Rewinding
  <2> QED
    BY <2>3
<1>3. Nat \subseteq T
  BY <1>1, <1>2, SetInduction, Zenon
<1> QED
  BY <1>3

\* There are such boards.
LEMMA RewindTurns ==
    ASSUME NEW objs, NEW steps, IsSeq(steps)
    PROVE  \E b : Rewound(b, objs, Reverse(steps)) /\ Rewind(objs, steps) = b[Len(steps)]
<1> DEFINE s == Reverse(steps)
           n == Len(s)
<1>0. IsSeq(s) /\ Len(s) = Len(steps)
  BY ReverseIsSeq DEF Reverse
<1>1. n \in Nat /\ DOMAIN s = 1 .. n
  BY <1>0, SeqIsFunction
<1>9. Rewind(objs, steps) = FoldLeft(LAMBDA o, step : ApplyOps(o, Reverse(step.undo)), objs, s)
  BY Zenon DEF Rewind
<1> HIDE DEF n, s
<1>2. \E g : Rewinding(g, n, objs, s)
  BY <1>1, RewindingExists
<1> DEFINE G == CHOOSE g : Rewinding(g, n, objs, s)
<1>3. Rewinding(G, n, objs, s)
  BY <1>2
<1>4. Rewind(objs, steps) = G[1 .. n]
  BY <1>1, <1>9, Zenon DEF Rewinding, FoldLeft, MapThenFoldSet
<1> HIDE DEF G
<1> DEFINE b == [k \in 0 .. n |-> G[1 .. k]]
<1>5. b[0] = objs
  <2>1. 1 .. 0 = {} /\ {} \in SUBSET (1 .. n) /\ 0 \in 0 .. n
    BY <1>1
  <2>2. G[{}] = objs
    BY <1>3, <2>1, Zenon DEF Rewinding
  <2> QED
    BY <2>1, <2>2
<1>6. ASSUME NEW k \in 1 .. n PROVE b[k] = ApplyOps(b[k - 1], Reverse(s[k].undo))
  <2>1. 1 .. k \in SUBSET (1 .. n) /\ 1 .. k # {} /\ Max(1 .. k) = k /\ (1 .. k) \ {k} = 1 .. k - 1
    BY <1>1, TurnIndex
  <2>2. G[1 .. k] = ApplyOps(G[1 .. k - 1], Reverse(s[k].undo))
    BY <1>3, <2>1, Zenon DEF Rewinding
  <2>3. k \in 0 .. n /\ k - 1 \in 0 .. n
    BY <1>1
  <2> QED
    BY <2>2, <2>3
<1>7. Rewind(objs, steps) = b[n]
  BY <1>1, <1>4
<1> HIDE DEF b
<1>8. Rewound(b, objs, s)
  BY <1>5, <1>6 DEF Rewound, n
<1>10. n = Len(steps)
  BY <1>0 DEF n, s
<1> QED
  BY <1>7, <1>8, <1>10 DEF s

\* A sequence and its reverse have the same elements.
LEMMA ReverseHolds ==
    ASSUME NEW s, IsSeq(s)
    PROVE  ToSet(Reverse(s)) = ToSet(s)
<1>1. Len(s) \in Nat /\ DOMAIN s = 1 .. Len(s)
  BY SeqIsFunction
<1> DEFINE r == Reverse(s)
<1>2. r = [i \in 1 .. Len(s) |-> s[Len(s) - i + 1]]
  BY DEF Reverse
<1> HIDE DEF r
<1>3. DOMAIN r = 1 .. Len(s) /\ \A i \in 1 .. Len(s) : r[i] = s[Len(s) - i + 1]
  BY <1>2
<1>4. \A i \in 1 .. Len(s) : Len(s) - i + 1 \in 1 .. Len(s) /\ Len(s) - (Len(s) - i + 1) + 1 = i
  BY <1>1
<1>5. ToSet(r) \subseteq ToSet(s)
  BY <1>1, <1>3, <1>4 DEF ToSet
<1>6. ToSet(s) \subseteq ToSet(r)
  <2>1. ASSUME NEW i \in DOMAIN s PROVE s[i] \in ToSet(r)
    <3> DEFINE j == Len(s) - i + 1
    <3>1. j \in 1 .. Len(s) /\ r[j] = s[i]
      BY <1>1, <1>3, <1>4
    <3> HIDE DEF j
    <3> QED
      BY <1>3, <3>1 DEF ToSet
  <2> QED
    BY <2>1 DEF ToSet
<1> QED
  BY <1>5, <1>6 DEF r

\* Steps that hold, together, all that is missing lead to the goal.
LEMMA StepsBack ==
    ASSUME NEW C, NEW goal, Without(goal, C), NEW steps, IsSeq(steps),
           \A st \in ToSet(steps) : IsSeq(st.undo) /\ \A op \in ToSet(st.undo) : Backward(goal, C, op),
           NEW cur, Toward(goal, C, cur, UNION {ToSet(st.undo) : st \in ToSet(steps)})
    PROVE  Rewind(cur, steps) = goal
<1> DEFINE s == Reverse(steps)
           n == Len(s)
           left(k) == UNION {ToSet(s[j].undo) : j \in k + 1 .. n}
<1>0. IsSeq(s) /\ n = Len(steps) /\ ToSet(s) = ToSet(steps)
  <2>1. IsSeq(s) /\ ToSet(s) = ToSet(steps)
    BY ReverseIsSeq, ReverseHolds
  <2>2. Len(steps) \in Nat
    BY SeqLength
  <2>3. Reverse(steps) = [i \in 1 .. Len(steps) |-> steps[Len(steps) - i + 1]]
    BY Zenon DEF Reverse
  <2>4. Len(Reverse(steps)) = Len(steps)
    BY <2>2, <2>3
  <2> QED  BY <2>1, <2>4
<1>1. n \in Nat /\ DOMAIN s = 1 .. n
  BY <1>0, SeqIsFunction
<1>2. PICK b : Rewound(b, cur, s) /\ Rewind(cur, steps) = b[n]
  BY <1>0, RewindTurns
<1> HIDE DEF s
<1>3. /\ b[0] = cur
      /\ \A k \in 1 .. n : b[k] = ApplyOps(b[k - 1], Reverse(s[k].undo))
  BY <1>2 DEF Rewound
<1>4. ToSet(s) = {s[j] : j \in 1 .. n}
  BY <1>1 DEF ToSet
<1>5. \A j \in 1 .. n : IsSeq(s[j].undo) /\ \A op \in ToSet(s[j].undo) : Backward(goal, C, op)
  BY <1>0, <1>4
<1> HIDE DEF n
<1>6. Toward(goal, C, b[0], left(0))
  <2>1. left(0) = UNION {ToSet(st.undo) : st \in ToSet(steps)}
    BY <1>0, <1>4
  <2> QED
    BY <1>3, <2>1
<1>7. ASSUME NEW k \in Nat, k + 1 <= n, Toward(goal, C, b[k], left(k))
      PROVE  Toward(goal, C, b[k + 1], left(k + 1))
  <2> DEFINE ops == s[k + 1].undo
             back == Reverse(ops)
  <2>1. k + 1 \in 1 .. n /\ k + 1 - 1 = k
    BY <1>1, <1>7
  <2>2. b[k + 1] = ApplyOps(b[k], back)
    BY <1>3, <2>1
  <2>3. IsSeq(ops) /\ \A op \in ToSet(ops) : Backward(goal, C, op)
    BY <1>5, <2>1
  <2> HIDE DEF ops
  <2>4. IsSeq(back) /\ ToSet(back) = ToSet(ops)
    BY <2>3, ReverseIsSeq, ReverseHolds
  <2>5. left(k) = left(k + 1) \cup ToSet(ops)
    <3>1. k + 1 .. n = {k + 1} \cup (k + 1 + 1 .. n)
      BY <1>1, <2>1
    <3> QED
      BY <3>1 DEF ops
  <2> HIDE DEF back, left
  <2>6. Toward(goal, C, b[k], left(k + 1) \cup ToSet(back))
    BY <1>7, <2>4, <2>5
  <2>7. \A op \in ToSet(back) : Backward(goal, C, op)
    BY <2>3, <2>4
  <2>8. Toward(goal, C, ApplyOps(b[k], back), left(k + 1))
    BY <2>4, <2>6, <2>7, ManyBack
  <2> QED
    BY <2>2, <2>8
<1>8. Toward(goal, C, b[n], left(n))
  <2> HIDE DEF left
  <2> DEFINE T == {k \in Nat : k <= n => Toward(goal, C, b[k], left(k))}
  <2>1. 0 \in T
    BY <1>6
  <2>2. ASSUME NEW k \in Nat, k \in T PROVE k + 1 \in T
    BY <1>1, <1>7, <2>2
  <2> HIDE DEF T
  <2>3. Nat \subseteq T
    BY <2>1, <2>2, SetInduction, Zenon
  <2> QED
    BY <1>1, <2>3 DEF T
<1>9. left(n) = {}
  BY <1>1
<1>10. Toward(goal, C, b[n], {})
  BY <1>8, <1>9
<1> QED
  BY <1>2, <1>10, Arrived

-----------------------------------------------------------------------------
\* Commands that write

\* An operation of a command that deletes nothing: it makes an object of C, or
\* sets a field of another to what is no end in C.
Writes(C, op) ==
    \/ op.type = "create" /\ op.id \in C
    \/ /\ op.type = "update" /\ op.id \notin C
       /\ op.path \in {"fromId", "toId"} => op.value \notin C

\* It leaves everything that has changed with an inverse.
LEMMA OneWrite ==
    ASSUME NEW C, NEW goal, Without(goal, C), NEW op, Writes(C, op),
           NEW cur, NEW R, Toward(goal, C, cur, R), DOMAIN goal \subseteq DOMAIN cur,
           Invertible(goal, op) => Undoing(goal, op) \in R
    PROVE  Toward(goal, C, ApplyOp(cur, op), R) /\ DOMAIN goal \subseteq DOMAIN ApplyOp(cur, op)
<1> DEFINE r == ApplyOp(cur, op)
           whole(b, x) == b[x] = [f \in Fields |-> b[x][f]] /\ b[x].fromId \notin C /\ b[x].toId \notin C
           due(b, x) == \A f \in Fields : b[x][f] = goal[x][f] \/ Update(x, f, goal[x][f]) \in R
<1>0. cur = [x \in DOMAIN cur |-> cur[x]]
  BY DEF Toward
<1>r. r = ApplyOp(cur, op)
  OBVIOUS
<1> HIDE DEF r
<1>1. /\ r = [x \in DOMAIN r |-> r[x]]
      /\ op.type = "create" =>
            /\ DOMAIN r = DOMAIN cur \cup {op.id}
            /\ \A x \in DOMAIN r : r[x] = IF x = op.id THEN op.value ELSE cur[x]
      /\ op.type # "create" /\ op.id \notin DOMAIN cur => r = cur
      /\ op.type = "update" /\ op.id \in DOMAIN cur =>
            /\ DOMAIN r = DOMAIN cur
            /\ r[op.id] = With(cur[op.id], op.path, op.value)
            /\ \A x \in DOMAIN r \ {op.id} : r[x] = cur[x]
      /\ op.type = "delete" /\ op.id \in DOMAIN cur =>
            /\ DOMAIN r \subseteq DOMAIN cur \ {op.id}
            /\ \A x \in DOMAIN cur \ {op.id} :
                  x \in DOMAIN r \/ (cur[x].type = "connector" /\ op.id \in {cur[x].fromId, cur[x].toId})
            /\ \A x \in DOMAIN r :
                  \/ r[x] = cur[x]
                  \/ cur[x].parentId = op.id /\ r[x] = With(cur[x], "parentId", NoParent)
  BY ONLY <1>0, <1>r, OpEffects
<1>2. /\ \A x \in DOMAIN cur \ DOMAIN goal : x \in C /\ Delete(x) \in R
      /\ \A x \in DOMAIN goal \cap DOMAIN cur : whole(cur, x) /\ due(cur, x)
  BY DEF Toward
<1>3. SUFFICES /\ DOMAIN goal \subseteq DOMAIN r
               /\ \A x \in DOMAIN r \ DOMAIN goal : x \in C /\ Delete(x) \in R
               /\ \A x \in DOMAIN goal \cap DOMAIN r : whole(r, x) /\ due(r, x)
  BY <1>1 DEF Toward, r
<1>4. CASE op.type = "create"
  <2>1. op.id \in C /\ op.id \notin DOMAIN goal
    BY <1>4 DEF Writes, Without
  <2>2. Delete(op.id) \in R
    BY <1>4 DEF Invertible, Undoing
  <2> QED
    BY <1>1, <1>2, <1>4, <2>1, <2>2
<1>5. CASE op.type = "update" /\ op.id \notin DOMAIN cur
  BY <1>1, <1>2, <1>5
<1>6. CASE op.type = "update" /\ op.id \in DOMAIN cur
  <2> DEFINE d == op.id
             o == cur[d]
             path == op.path
             v == op.value
  <2>1. d \in DOMAIN goal /\ (path \in {"fromId", "toId"} => v \notin C)
    BY <1>2, <1>6 DEF Writes
  <2>2. Update(d, path, goal[d][path]) \in R
    BY <1>6, <2>1 DEF Invertible, Undoing
  <2>3. DOMAIN r = DOMAIN cur /\ r[d] = With(o, path, v) /\ \A x \in DOMAIN r \ {d} : r[x] = cur[x]
    BY <1>1, <1>6
  <2>4. whole(cur, d) /\ due(cur, d)
    BY <1>2, <1>6, <2>1
  <2>5. "fromId" \in Fields /\ "toId" \in Fields
    BY FieldsAre
  <2>6. o = [f \in Fields |-> o[f]]
    BY <2>4
  <2> HIDE DEF o, path, v, d
  <2>7. /\ r[d] = [f \in Fields |-> r[d][f]]
        /\ \A f \in Fields : r[d][f] = IF f = path THEN v ELSE o[f]
    BY <2>3, <2>6, WithField
  <2>8. whole(r, d)
    <3>1. r[d].fromId = (IF path = "fromId" THEN v ELSE o.fromId) /\ r[d].toId = IF path = "toId" THEN v ELSE o.toId
      BY <2>5, <2>7
    <3>2. o.fromId \notin C /\ o.toId \notin C
      BY <2>4 DEF o
    <3> QED
      BY <2>1, <2>7, <3>1, <3>2
  <2>9. due(r, d)
    BY <2>2, <2>4, <2>7 DEF o
  <2>10. \A x \in DOMAIN goal \cap DOMAIN r : x # d => whole(r, x) /\ due(r, x)
    BY <1>2, <2>3
  <2> QED
    BY <1>2, <2>3, <2>8, <2>9, <2>10
<1> QED
  BY <1>4, <1>5, <1>6 DEF Writes

\* So do many.
LEMMA ManyWrites ==
    ASSUME NEW C, NEW goal, Without(goal, C), NEW ops, IsSeq(ops), \A op \in ToSet(ops) : Writes(C, op),
           NEW R, \A op \in ToSet(ops) : Invertible(goal, op) => Undoing(goal, op) \in R
    PROVE  Toward(goal, C, ApplyOps(goal, ops), R) /\ DOMAIN goal \subseteq DOMAIN ApplyOps(goal, ops)
<1> DEFINE m == Len(ops)
<1>1. m \in Nat /\ DOMAIN ops = 1 .. m
  BY SeqIsFunction
<1>2. PICK b : Applied(b, goal, ops)
  BY Turns
<1>3. /\ b[0] = goal /\ ApplyOps(goal, ops) = b[m]
      /\ \A k \in 1 .. m : b[k] = ApplyOp(b[k - 1], ops[k])
  BY <1>2 DEF Applied
<1>4. \A j \in 1 .. m : ops[j] \in ToSet(ops)
  BY <1>1 DEF ToSet
<1> HIDE DEF m
<1> DEFINE T == {k \in Nat : k <= m => Toward(goal, C, b[k], R) /\ DOMAIN goal \subseteq DOMAIN b[k]}
<1>5. 0 \in T
  BY <1>3 DEF Toward, Without
<1>6. ASSUME NEW k \in Nat, k \in T PROVE k + 1 \in T
  <2> SUFFICES ASSUME k + 1 <= m PROVE Toward(goal, C, b[k + 1], R) /\ DOMAIN goal \subseteq DOMAIN b[k + 1]
    OBVIOUS
  <2> DEFINE op == ops[k + 1]
  <2>1. k + 1 \in 1 .. m /\ k + 1 - 1 = k /\ k <= m
    BY <1>1
  <2>2. b[k + 1] = ApplyOp(b[k], op)
    BY <1>3, <2>1
  <2>3. Writes(C, op) /\ (Invertible(goal, op) => Undoing(goal, op) \in R)
    BY <1>4, <2>1
  <2>4. Toward(goal, C, b[k], R) /\ DOMAIN goal \subseteq DOMAIN b[k]
    BY <1>6, <2>1
  <2> HIDE DEF op
  <2> QED
    BY <2>2, <2>3, <2>4, OneWrite
<1> HIDE DEF T
<1>7. Nat \subseteq T
  BY <1>5, <1>6, SetInduction, Zenon
<1> QED
  BY <1>1, <1>3, <1>7 DEF T

\* What a command sends, batch by batch,
Told(objs, batches) == [i \in DOMAIN batches |-> Sent(objs, batches[i])]

\* its operations,
OpsOf(objs, batches) == FlattenSeq(Told(objs, batches))

\* and its steps.
Made(objs, batches) == StepsOf(objs, Told(objs, batches))

\* Every operation that has an inverse has it in a step, and nothing else is there.
LEMMA CommandHolds ==
    ASSUME NEW objs, NEW batches, Batched(batches), NEW ops, ops = OpsOf(objs, batches),
           NEW steps, steps = Made(objs, batches)
    PROVE  /\ IsSeq(ops)
           /\ \A op : op \in ToSet(ops) <=>
                 /\ \E i \in DOMAIN batches : op \in ToSet(batches[i])
                 /\ op.type = "delete" => op.id \in DOMAIN objs
           /\ IsSeq(steps)
           /\ \A st \in ToSet(steps) :
                 /\ IsSeq(st.undo) /\ IsSeq(st.redo) /\ ToSet(st.redo) \subseteq ToSet(ops)
                 /\ \A e \in ToSet(st.undo) : \E op \in ToSet(ops) : Invertible(objs, op) /\ e = Undoing(objs, op)
           /\ \A op \in ToSet(ops) : Invertible(objs, op) =>
                 \E st \in ToSet(steps) : Undoing(objs, op) \in ToSet(st.undo)
<1> DEFINE told == Told(objs, batches)
<1>1. told = [i \in DOMAIN batches |-> told[i]] /\ \A i \in DOMAIN batches : told[i] = Sent(objs, batches[i])
  BY Zenon DEF Told
<1>2. ops = FlattenSeq(told) /\ steps = StepsOf(objs, told)
  BY DEF OpsOf, Made
<1> HIDE DEF told
<1>3. IsSeq(batches) /\ \A i \in DOMAIN batches : IsSeq(batches[i])
  BY DEF Batched
<1>4. IsSeq(told) /\ DOMAIN told = DOMAIN batches
  BY <1>1, <1>3, MappedIsSeq
<1>5. \A i \in DOMAIN batches :
         /\ IsSeq(told[i])
         /\ \A op : op \in ToSet(told[i]) <=>
               op \in ToSet(batches[i]) /\ (op.type = "delete" => op.id \in DOMAIN objs)
  BY <1>1, <1>3, SentHolds
<1>6. IsSeq(ops) /\ \A op : op \in ToSet(ops) <=> \E i \in DOMAIN told : op \in ToSet(told[i])
  BY <1>2, <1>4, <1>5, Flattened
<1>7. \A op : op \in ToSet(ops) <=>
         /\ \E i \in DOMAIN batches : op \in ToSet(batches[i])
         /\ op.type = "delete" => op.id \in DOMAIN objs
  BY <1>4, <1>5, <1>6
<1>8. /\ IsSeq(steps)
      /\ \A st : st \in ToSet(steps) <=> \E i \in DOMAIN told : st = StepOf(objs, told[i]) /\ st.undo # <<>>
  BY <1>2, <1>4, StepsHold
<1>9. \A i \in DOMAIN told :
         /\ IsSeq(StepOf(objs, told[i]).undo) /\ IsSeq(StepOf(objs, told[i]).redo)
         /\ \A e : e \in ToSet(StepOf(objs, told[i]).undo) <=>
                      \E op \in ToSet(told[i]) : Invertible(objs, op) /\ e = Undoing(objs, op)
         /\ ToSet(StepOf(objs, told[i]).redo) \subseteq ToSet(told[i])
  BY <1>4, <1>5, StepHolds
<1>10. ASSUME NEW st \in ToSet(steps)
       PROVE  /\ IsSeq(st.undo) /\ IsSeq(st.redo) /\ ToSet(st.redo) \subseteq ToSet(ops)
              /\ \A e \in ToSet(st.undo) : \E op \in ToSet(ops) : Invertible(objs, op) /\ e = Undoing(objs, op)
  <2>1. PICK i \in DOMAIN told : st = StepOf(objs, told[i])
    BY <1>8
  <2>2. /\ IsSeq(st.undo) /\ IsSeq(st.redo) /\ ToSet(st.redo) \subseteq ToSet(told[i])
        /\ \A e \in ToSet(st.undo) : \E op \in ToSet(told[i]) : Invertible(objs, op) /\ e = Undoing(objs, op)
    BY <1>9, <2>1
  <2>3. \A op \in ToSet(told[i]) : op \in ToSet(ops)
    BY <1>6
  <2>4. ToSet(st.redo) \subseteq ToSet(ops)
    BY <2>2, <2>3
  <2>5. \A e \in ToSet(st.undo) : \E op \in ToSet(ops) : Invertible(objs, op) /\ e = Undoing(objs, op)
    BY <2>2, <2>3, Zenon
  <2> QED
    BY <2>2, <2>4, <2>5
<1>11. ASSUME NEW op \in ToSet(ops), Invertible(objs, op)
       PROVE  \E st \in ToSet(steps) : Undoing(objs, op) \in ToSet(st.undo)
  <2>1. PICK i \in DOMAIN told : op \in ToSet(told[i])
    BY <1>6
  <2> DEFINE st == StepOf(objs, told[i])
             e == Undoing(objs, op)
  <2>2. e \in ToSet(st.undo)
    BY <1>9, <1>11, <2>1
  <2>3. st.undo # <<>>
    BY <2>2, SetOfOne
  <2>4. st \in ToSet(steps)
    BY <1>8, <2>3
  <2> QED
    BY <2>2, <2>4
<1> QED
  BY <1>6, <1>7, <1>8, <1>10, <1>11

\* Rewound, the steps of a command that only writes give back what was.
LEMMA WritesRestored ==
    ASSUME NEW C, NEW objs, Without(objs, C), NEW batches, Batched(batches),
           \A i \in DOMAIN batches : \A op \in ToSet(batches[i]) : Writes(C, op)
    PROVE  /\ Rewind(ApplyOps(objs, OpsOf(objs, batches)), Made(objs, batches)) = objs
           /\ DOMAIN objs \subseteq DOMAIN ApplyOps(objs, OpsOf(objs, batches))
<1> DEFINE ops == OpsOf(objs, batches)
           steps == Made(objs, batches)
           R == UNION {ToSet(st.undo) : st \in ToSet(steps)}
<1>1. ops = OpsOf(objs, batches) /\ steps = Made(objs, batches)
  OBVIOUS
<1> HIDE DEF ops, steps
<1>2. /\ IsSeq(ops)
      /\ \A op : op \in ToSet(ops) <=>
            /\ \E i \in DOMAIN batches : op \in ToSet(batches[i])
            /\ op.type = "delete" => op.id \in DOMAIN objs
      /\ IsSeq(steps)
      /\ \A st \in ToSet(steps) :
            /\ IsSeq(st.undo) /\ IsSeq(st.redo) /\ ToSet(st.redo) \subseteq ToSet(ops)
            /\ \A e \in ToSet(st.undo) : \E op \in ToSet(ops) : Invertible(objs, op) /\ e = Undoing(objs, op)
      /\ \A op \in ToSet(ops) : Invertible(objs, op) =>
            \E st \in ToSet(steps) : Undoing(objs, op) \in ToSet(st.undo)
  BY <1>1, CommandHolds
<1>3. \A op \in ToSet(ops) : Writes(C, op)
  BY <1>2
<1>4. \A op \in ToSet(ops) : Invertible(objs, op) => Undoing(objs, op) \in R
  BY <1>2
<1> HIDE DEF R
<1>5. Toward(objs, C, ApplyOps(objs, ops), R) /\ DOMAIN objs \subseteq DOMAIN ApplyOps(objs, ops)
  BY <1>2, <1>3, <1>4, ManyWrites
<1>6. ASSUME NEW op, Writes(C, op), Invertible(objs, op) PROVE Backward(objs, C, Undoing(objs, op))
  BY <1>6 DEF Writes, Invertible, Undoing, Backward
<1>7. \A st \in ToSet(steps) : IsSeq(st.undo) /\ \A op \in ToSet(st.undo) : Backward(objs, C, op)
  BY <1>2, <1>3, <1>6
<1>8. Toward(objs, C, ApplyOps(objs, ops), UNION {ToSet(st.undo) : st \in ToSet(steps)})
  BY <1>5 DEF R
<1>9. Rewind(ApplyOps(objs, ops), steps) = objs
  BY <1>2, <1>7, <1>8, StepsBack
<1> QED
  BY <1>1, <1>5, <1>9

-----------------------------------------------------------------------------
\* Commands that delete

\* What the deletion of D can leave of goal: it may have lost the parents in D,
\* and the connectors of D.
Reduced(goal, D, cur) ==
    /\ cur = [x \in DOMAIN cur |-> cur[x]] /\ DOMAIN cur \subseteq DOMAIN goal
    /\ \A x \in DOMAIN cur :
          \/ cur[x] = goal[x]
          \/ goal[x].parentId \in D /\ cur[x] = With(goal[x], "parentId", NoParent)
    /\ \A x \in DOMAIN goal \ DOMAIN cur :
          x \in D \/ (goal[x].type = "connector" /\ D \cap {goal[x].fromId, goal[x].toId} # {})

\* A deletion leaves no more than that.
LEMMA OneDelete ==
    ASSUME NEW goal, Without(goal, {}), NEW D, NoParent \notin D,
           NEW op, op.type = "delete", op.id \in D, NEW cur, Reduced(goal, D, cur)
    PROVE  /\ Reduced(goal, D, ApplyOp(cur, op))
           /\ DOMAIN ApplyOp(cur, op) \subseteq DOMAIN cur \ {op.id}
<1> DEFINE r == ApplyOp(cur, op)
           d == op.id
<1>0. cur = [x \in DOMAIN cur |-> cur[x]]
  BY DEF Reduced
<1>r. r = ApplyOp(cur, op)
  OBVIOUS
<1> HIDE DEF r
<1>1. /\ r = [x \in DOMAIN r |-> r[x]]
      /\ op.type = "create" =>
            /\ DOMAIN r = DOMAIN cur \cup {op.id}
            /\ \A x \in DOMAIN r : r[x] = IF x = op.id THEN op.value ELSE cur[x]
      /\ op.type # "create" /\ op.id \notin DOMAIN cur => r = cur
      /\ op.type = "update" /\ op.id \in DOMAIN cur =>
            /\ DOMAIN r = DOMAIN cur
            /\ r[op.id] = With(cur[op.id], op.path, op.value)
            /\ \A x \in DOMAIN r \ {op.id} : r[x] = cur[x]
      /\ op.type = "delete" /\ op.id \in DOMAIN cur =>
            /\ DOMAIN r \subseteq DOMAIN cur \ {op.id}
            /\ \A x \in DOMAIN cur \ {op.id} :
                  x \in DOMAIN r \/ (cur[x].type = "connector" /\ op.id \in {cur[x].fromId, cur[x].toId})
            /\ \A x \in DOMAIN r :
                  \/ r[x] = cur[x]
                  \/ cur[x].parentId = op.id /\ r[x] = With(cur[x], "parentId", NoParent)
  BY ONLY <1>0, <1>r, OpEffects
<1>2. CASE d \notin DOMAIN cur
  <2>1. r = cur
    BY <1>1, <1>2
  <2> QED
    BY <1>2, <2>1 DEF r
<1>3. CASE d \in DOMAIN cur
  <2>1. /\ DOMAIN r \subseteq DOMAIN cur \ {d}
        /\ \A x \in DOMAIN cur \ {d} :
              x \in DOMAIN r \/ (cur[x].type = "connector" /\ d \in {cur[x].fromId, cur[x].toId})
        /\ \A x \in DOMAIN r :
              \/ r[x] = cur[x]
              \/ cur[x].parentId = d /\ r[x] = With(cur[x], "parentId", NoParent)
    BY <1>1, <1>3
  <2>2. DOMAIN cur \subseteq DOMAIN goal
    BY DEF Reduced
  <2>3. ASSUME NEW x \in DOMAIN cur
        PROVE  /\ cur[x].type = goal[x].type /\ cur[x].fromId = goal[x].fromId /\ cur[x].toId = goal[x].toId
               /\ cur[x].parentId \in {goal[x].parentId, NoParent}
    <3>1. CASE cur[x] = goal[x]
      BY <3>1
    <3>2. CASE cur[x] # goal[x]
      <4> DEFINE o == goal[x]
      <4>1. cur[x] = With(o, "parentId", NoParent)
        BY <3>2 DEF Reduced
      <4>2. o = [f \in Fields |-> o[f]]
        BY <2>2 DEF Without
      <4> HIDE DEF o
      <4>3. \A f \in Fields : cur[x][f] = IF f = "parentId" THEN NoParent ELSE o[f]
        BY <4>1, <4>2, WithField
      <4> QED
        BY <4>3, FieldsAre DEF o
    <3> QED
      BY <3>1, <3>2
  <2>4. ASSUME NEW x \in DOMAIN r
        PROVE  r[x] = goal[x] \/ (goal[x].parentId \in D /\ r[x] = With(goal[x], "parentId", NoParent))
    <3>1. x \in DOMAIN cur
      BY <2>1
    <3>2. CASE r[x] = cur[x]
      BY <3>1, <3>2 DEF Reduced
    <3>3. CASE r[x] # cur[x]
      <4>1. cur[x].parentId = d /\ r[x] = With(cur[x], "parentId", NoParent)
        BY <2>1, <3>3
      <4>2. cur[x] = goal[x]
        <5>1. CASE cur[x] # goal[x]
          <6> DEFINE o == goal[x]
          <6>1. cur[x] = With(o, "parentId", NoParent)
            BY <3>1, <5>1 DEF Reduced
          <6>2. o = [f \in Fields |-> o[f]]
            BY <2>2, <3>1 DEF Without
          <6> HIDE DEF o
          <6>3. \A f \in Fields : cur[x][f] = IF f = "parentId" THEN NoParent ELSE o[f]
            BY <6>1, <6>2, WithField
          <6>4. cur[x].parentId = NoParent
            BY <6>3, FieldsAre
          <6> QED
            BY <4>1, <6>4
        <5> QED
          BY <5>1
      <4> QED
        BY <4>1, <4>2
    <3> QED
      BY <3>2, <3>3
  <2>5. ASSUME NEW x \in DOMAIN goal \ DOMAIN r
        PROVE  x \in D \/ (goal[x].type = "connector" /\ D \cap {goal[x].fromId, goal[x].toId} # {})
    <3>1. CASE x \in DOMAIN cur
      BY <2>1, <2>3, <3>1
    <3>2. CASE x \notin DOMAIN cur
      BY <3>2 DEF Reduced
    <3> QED
      BY <3>1, <3>2
  <2> QED
    BY <1>1, <2>1, <2>2, <2>4, <2>5 DEF Reduced, r
<1> QED
  BY <1>2, <1>3

\* Nor do many, and what was to be deleted is gone.
LEMMA ManyDeletes ==
    ASSUME NEW goal, Without(goal, {}), NEW D, NoParent \notin D, NEW ops, IsSeq(ops),
           \A op \in ToSet(ops) : op.type = "delete" /\ op.id \in D,
           \A x \in D : \E op \in ToSet(ops) : op.id = x
    PROVE  Reduced(goal, D, ApplyOps(goal, ops)) /\ D \cap DOMAIN ApplyOps(goal, ops) = {}
<1> DEFINE m == Len(ops)
           gone(k) == {ops[j].id : j \in 1 .. k}
<1>1. m \in Nat /\ DOMAIN ops = 1 .. m
  BY SeqIsFunction
<1>2. PICK b : Applied(b, goal, ops)
  BY Turns
<1>3. /\ b[0] = goal /\ ApplyOps(goal, ops) = b[m]
      /\ \A k \in 1 .. m : b[k] = ApplyOp(b[k - 1], ops[k])
  BY <1>2 DEF Applied
<1>4. ToSet(ops) = {ops[j] : j \in 1 .. m}
  BY <1>1 DEF ToSet
<1> HIDE DEF m
<1> DEFINE T == {k \in Nat : k <= m => Reduced(goal, D, b[k]) /\ gone(k) \cap DOMAIN b[k] = {}}
<1>5. 0 \in T
  BY <1>3 DEF Reduced, Without
<1>6. ASSUME NEW k \in Nat, k \in T PROVE k + 1 \in T
  <2> SUFFICES ASSUME k + 1 <= m
               PROVE  Reduced(goal, D, b[k + 1]) /\ gone(k + 1) \cap DOMAIN b[k + 1] = {}
    OBVIOUS
  <2> DEFINE op == ops[k + 1]
  <2>1. k + 1 \in 1 .. m /\ k + 1 - 1 = k /\ k <= m
    BY <1>1
  <2>2. b[k + 1] = ApplyOp(b[k], op)
    BY <1>3, <2>1
  <2>3. op.type = "delete" /\ op.id \in D
    BY <1>4, <2>1
  <2>4. Reduced(goal, D, b[k]) /\ gone(k) \cap DOMAIN b[k] = {}
    BY <1>6, <2>1
  <2>5. gone(k + 1) = gone(k) \cup {op.id}
    <3>1. 1 .. k + 1 = (1 .. k) \cup {k + 1}
      OBVIOUS
    <3> QED
      BY <3>1
  <2> HIDE DEF op, gone
  <2>6. Reduced(goal, D, b[k + 1]) /\ DOMAIN b[k + 1] \subseteq DOMAIN b[k] \ {op.id}
    BY <2>2, <2>3, <2>4, OneDelete
  <2> QED
    BY <2>4, <2>5, <2>6
<1> HIDE DEF T
<1>7. Nat \subseteq T
  BY <1>5, <1>6, SetInduction, Zenon
<1>8. Reduced(goal, D, b[m]) /\ gone(m) \cap DOMAIN b[m] = {}
  BY <1>1, <1>7 DEF T
<1>9. D \subseteq gone(m)
  BY <1>4
<1> QED
  BY <1>3, <1>8, <1>9

\* Rewound, the steps of a command that only deletes give back what it deleted.
LEMMA DeletesRestored ==
    ASSUME NEW objs, Without(objs, {}), NoParent \notin DOMAIN objs, NEW batches, Batched(batches),
           \A i \in DOMAIN batches : \A op \in ToSet(batches[i]) : op.type = "delete"
    PROVE  LET after == ApplyOps(objs, OpsOf(objs, batches)) IN
           Restores(objs, after, Rewind(after, Made(objs, batches)))
<1> DEFINE ops == OpsOf(objs, batches)
           steps == Made(objs, batches)
           after == ApplyOps(objs, ops)
           D == {op.id : op \in ToSet(ops)}
           R == UNION {ToSet(st.undo) : st \in ToSet(steps)}
           goal == [x \in DOMAIN after \cup D |-> IF x \in D THEN objs[x] ELSE after[x]]
<1>1. ops = OpsOf(objs, batches) /\ steps = Made(objs, batches) /\ after = ApplyOps(objs, ops)
  OBVIOUS
<1> HIDE DEF ops, steps, after
<1>2. /\ IsSeq(ops)
      /\ \A op : op \in ToSet(ops) <=>
            /\ \E i \in DOMAIN batches : op \in ToSet(batches[i])
            /\ op.type = "delete" => op.id \in DOMAIN objs
      /\ IsSeq(steps)
      /\ \A st \in ToSet(steps) :
            /\ IsSeq(st.undo) /\ IsSeq(st.redo) /\ ToSet(st.redo) \subseteq ToSet(ops)
            /\ \A e \in ToSet(st.undo) : \E op \in ToSet(ops) : Invertible(objs, op) /\ e = Undoing(objs, op)
      /\ \A op \in ToSet(ops) : Invertible(objs, op) =>
            \E st \in ToSet(steps) : Undoing(objs, op) \in ToSet(st.undo)
  BY <1>1, CommandHolds
<1>3. \A op \in ToSet(ops) : op.type = "delete" /\ op.id \in DOMAIN objs
  BY <1>2
<1>4. \A op \in ToSet(ops) : Invertible(objs, op) /\ Undoing(objs, op) = Create(op.id, objs[op.id])
  BY <1>3 DEF Invertible, Undoing
<1>5. D \subseteq DOMAIN objs /\ NoParent \notin D
  BY <1>3
<1>6. \A op \in ToSet(ops) : op.id \in D
  OBVIOUS
<1>7. \A x \in D : \E op \in ToSet(ops) : op.id = x
  OBVIOUS
<1>8. \A x \in D : Create(x, objs[x]) \in R
  BY <1>2, <1>4
<1>9. \A st \in ToSet(steps) : \A e \in ToSet(st.undo) : \E x \in D : e = Create(x, objs[x])
  BY <1>2, <1>4
<1>10. goal = [x \in DOMAIN goal |-> goal[x]] /\ DOMAIN goal = DOMAIN after \cup D
       /\ \A x \in DOMAIN goal : goal[x] = IF x \in D THEN objs[x] ELSE after[x]
  OBVIOUS
<1> HIDE DEF D, R, goal
<1>11. Reduced(objs, D, after) /\ D \cap DOMAIN after = {}
  BY <1>1, <1>2, <1>3, <1>5, <1>6, <1>7, ManyDeletes
<1>12. \A x \in DOMAIN after : after[x] = [f \in Fields |-> after[x][f]]
  <2>1. ASSUME NEW x \in DOMAIN after PROVE after[x] = [f \in Fields |-> after[x][f]]
    <3> DEFINE o == objs[x]
    <3>1. o = [f \in Fields |-> o[f]]
      BY <1>11 DEF Reduced, Without
    <3>2. after[x] = o \/ after[x] = With(o, "parentId", NoParent)
      BY <1>11 DEF Reduced
    <3> HIDE DEF o
    <3> QED
      BY <3>1, <3>2, WithField
  <2> QED
    BY <2>1
<1>13. Without(goal, {})
  BY <1>5, <1>10, <1>12 DEF Without
<1>14. Toward(goal, {}, after, R)
  BY <1>8, <1>10, <1>11, <1>12 DEF Toward, Reduced
<1>15. \A st \in ToSet(steps) : IsSeq(st.undo) /\ \A op \in ToSet(st.undo) : Backward(goal, {}, op)
  BY <1>2, <1>9, <1>10 DEF Backward
<1>16. Toward(goal, {}, after, UNION {ToSet(st.undo) : st \in ToSet(steps)})
  BY <1>14 DEF R
<1>17. Rewind(after, steps) = goal
  BY <1>2, <1>13, <1>15, <1>16, StepsBack
<1>18. Restores(objs, after, goal)
  <2> DEFINE gone == DOMAIN objs \ DOMAIN after
  <2>1. D \subseteq gone /\ DOMAIN after \subseteq DOMAIN objs
    BY <1>5, <1>11 DEF Reduced
  <2>2. ASSUME NEW x \in DOMAIN objs \ DOMAIN goal
        PROVE  objs[x].type = "connector" /\ gone \cap {objs[x].fromId, objs[x].toId} # {}
    BY <1>10, <1>11, <2>1 DEF Reduced
  <2>3. ASSUME NEW x \in DOMAIN goal
        PROVE  /\ x \in DOMAIN objs
               /\ goal[x] = IF objs[x].parentId \in gone
                            THEN [objs[x] EXCEPT !.parentId = goal[x].parentId] ELSE objs[x]
    <3> DEFINE o == objs[x]
    <3>1. x \in DOMAIN objs
      BY <1>5, <1>10, <2>1
    <3>2. o = [f \in Fields |-> o[f]] /\ DOMAIN o = Fields
      BY <3>1 DEF Without
    <3>3. CASE goal[x] = o
      <4>1. [o EXCEPT !.parentId = o.parentId] = o
        BY <3>2
      <4> QED
        BY <3>1, <3>3, <4>1
    <3>4. CASE goal[x] # o
      <4>1. x \in DOMAIN after /\ goal[x] = after[x]
        BY <1>10, <3>4
      <4>2. o.parentId \in gone /\ goal[x] = With(o, "parentId", NoParent)
        BY <1>11, <2>1, <3>4, <4>1 DEF Reduced
      <4>3. goal[x] = [o EXCEPT !.parentId = NoParent]
        BY <4>2 DEF With
      <4>4. "parentId" \in DOMAIN o
        BY <3>2, FieldsAre
      <4> HIDE DEF o
      <4>5. goal[x].parentId = NoParent
        BY <4>3, <4>4
      <4> QED
        BY <3>1, <4>2, <4>3, <4>5 DEF o
    <3> QED
      BY <3>3, <3>4
  <2> HIDE DEF gone
  <2>4. \A x \in DOMAIN objs \ DOMAIN goal :
           objs[x].type = "connector" /\ gone \cap {objs[x].fromId, objs[x].toId} # {}
    BY <2>2
  <2>5. \A x \in DOMAIN goal :
           /\ x \in DOMAIN objs
           /\ goal[x] = IF objs[x].parentId \in gone
                        THEN [objs[x] EXCEPT !.parentId = goal[x].parentId] ELSE objs[x]
    BY <2>3
  <2> QED
    BY <2>4, <2>5, Zenon DEF Restores, gone
<1>19. Restores(objs, after, Rewind(after, steps))
  BY <1>17, <1>18
<1> QED
  BY <1>19 DEF after, ops, steps

-----------------------------------------------------------------------------
\* The new steps on the stack

\* While the stack is not full, its new steps are those that were pushed.
LEMMA NewSteps ==
    ASSUME NEW s, IsSeq(s), NEW steps, IsSeq(steps), NEW t, t = H!Newest(s \o steps), Len(t) < Depth
    PROVE  SubSeq(t, Len(s) + 1, Len(t)) = steps
<1> DEFINE all == s \o steps
           n == Len(s)
           k == Len(steps)
<1>1. /\ n \in Nat /\ k \in Nat /\ DOMAIN steps = 1 .. k /\ steps = [i \in 1 .. k |-> steps[i]]
      /\ Depth \in Nat
  BY SeqIsFunction, DepthAssumption
<1>2. IsSeq(all) /\ Len(all) = n + k /\ \A i \in 1 .. n + k : all[i] = IF i <= n THEN s[i] ELSE steps[i - n]
  BY ConcatIsSeq
<1> HIDE DEF all
<1>3. /\ Len(H!Newest(all)) = IF Len(all) <= Depth THEN Len(all) ELSE Depth
      /\ Len(all) <= Depth => H!Newest(all) = all
  BY <1>2, NewestIsStack
<1>4. t = all /\ Len(t) = n + k
  <2>1. t = H!Newest(all)
    BY DEF all
  <2>2. Len(all) <= Depth
    BY <1>1, <1>2, <1>3, <2>1
  <2> QED
    BY <1>2, <1>3, <2>1, <2>2
<1> DEFINE r == SubSeq(t, n + 1, Len(t))
<1>5. r = [i \in 1 .. k |-> all[n + i]]
  <2>1. PICK S : all \in Seq(S)
    BY <1>2 DEF IsSeq
  <2>2. \A i \in n + 1 .. n + k : all[i] \in S
    BY <1>1, <1>2, <2>1, ElementOfSeq
  <2>3. n + 1 \in Int /\ n + k \in Int /\ n + k - (n + 1) + 1 = k
    BY <1>1
  <2> DEFINE q == SubSeq(all, n + 1, n + k)
  <2>4. /\ q \in Seq(S)
        /\ Len(q) = IF n + 1 <= n + k THEN n + k - (n + 1) + 1 ELSE 0
        /\ \A i \in 1 .. n + k - (n + 1) + 1 : q[i] = all[n + 1 + i - 1]
    BY <2>2, <2>3, SubSeqProperties
  <2> HIDE DEF q
  <2>5. Len(q) = k
    BY <1>1, <2>3, <2>4
  <2>6. \A i \in 1 .. k : q[i] = all[n + i]
    <3>1. \A i \in 1 .. k : n + 1 + i - 1 = n + i
      BY <1>1
    <3> QED
      BY <2>3, <2>4, <3>1
  <2>7. q = [i \in 1 .. k |-> q[i]]
    <3>1. IsSeq(q)
      BY <2>4 DEF IsSeq
    <3> QED
      BY <2>5, <3>1, SeqIsFunction
  <2>8. q = [i \in 1 .. k |-> all[n + i]]
    BY <2>6, <2>7
  <2> QED
    BY <1>4, <2>8 DEF q
<1>6. \A i \in 1 .. k : all[n + i] = steps[i]
  <2>1. \A i \in 1 .. k : n + i \in 1 .. n + k /\ ~(n + i <= n) /\ n + i - n = i
    BY <1>1
  <2> QED
    BY <1>2, <2>1
<1>7. r = steps
  BY <1>1, <1>5, <1>6
<1> QED
  BY <1>7

-----------------------------------------------------------------------------
\* What is true of the board, the server's copy, the stacks and the clipboard

\* Every step holds operations that leave boards boards.
Steps(stack, n) ==
    IsSeq(stack) /\ \A st \in ToSet(stack) : IsOps(st.undo, n) /\ IsOps(st.redo, n)

\* No id twice.
Distinct(s) == \A i, j \in DOMAIN s : s[i] = s[j] => i = j

\* Ids below n, each once.
Picked(s, n) == IsSeq(s) /\ Distinct(s) /\ \A i \in DOMAIN s : s[i] \in 1 .. n - 1

\* What was copied fits into one command.
Copied(s, n) == IsSeq(s) /\ Len(s) < IdsPerCommand /\ \A i \in DOMAIN s : IsObject(s[i].object, n)

CanvasInv ==
    /\ edits \in Nat /\ script \in Scripts
    /\ IsBoard(objects, Limit) /\ IsBoard(server, Limit)
    /\ Steps(undo, Limit) /\ Steps(redo, Limit)
    /\ Picked(selected, Limit) /\ Copied(clip, Limit)

\* The next command has ids of its own.
NewIds == {NewId(k) : k \in 1 .. IdsPerCommand - 1}

LEMMA NewIdsAre ==
    ASSUME CanvasInv
    PROVE  /\ Limit \in Nat \ {0} /\ Limit >= 10
           /\ \A x \in NewIds : x \in 1 .. Limit + IdsPerCommand - 1 /\ x >= Limit
           /\ \A k \in 1 .. 9 : NewId(k) \in NewIds
           /\ IdsPerCommand = 10
<1>1. edits \in Nat
  BY DEF CanvasInv
<1> QED
  BY <1>1 DEF Limit, NewIds, NewId, IdsPerCommand

\* They are on no board.
LEMMA BoardWithout ==
    ASSUME NEW n \in Nat \ {0}, NEW objs, IsBoard(objs, n), NEW C, \A x \in C : x \in Int /\ x >= n
    PROVE  Without(objs, C) /\ NoParent \notin DOMAIN objs
<1>1. NoParent \notin C /\ NoParent \notin DOMAIN objs
  BY DEF NoParent, IsBoard
<1>2. DOMAIN objs \cap C = {}
  BY DEF IsBoard
<1>3. ASSUME NEW x \in DOMAIN objs
      PROVE  /\ objs[x] = [f \in Fields |-> objs[x][f]]
             /\ objs[x].parentId \notin C /\ objs[x].fromId \notin C /\ objs[x].toId \notin C
  <2>1. /\ objs[x] = [f \in Fields |-> objs[x][f]]
        /\ \A f \in Fields : FieldOk(f, objs[x][f], n)
    BY DEF IsBoard, IsObject
  <2>2. \A f \in {"parentId", "fromId", "toId"} : objs[x][f] \in Int /\ objs[x][f] < n
    BY <2>1, FieldsAre DEF FieldOk
  <2> QED
    BY <2>1, <2>2
<1> QED
  BY <1>1, <1>2, <1>3 DEF Without, IsBoard

\* More ids are allowed in steps,
LEMMA StepsMore ==
    ASSUME NEW n \in Int, NEW m \in Int, n <= m, NEW stack, Steps(stack, n)
    PROVE  Steps(stack, m)
  BY OpsMore DEF Steps

\* and on what is copied.
LEMMA CopiedMore ==
    ASSUME NEW n \in Int, NEW m \in Int, n <= m, NEW s, Copied(s, n)
    PROVE  Copied(s, m)
  BY ObjectMore DEF Copied

LEMMA PickedMore ==
    ASSUME NEW n \in Int, NEW m \in Int, n <= m, NEW s, Picked(s, n)
    PROVE  Picked(s, m)
  BY DEF Picked

\* What is in stacks that are put together, cut, and moved between.
LEMMA StackElements ==
    ASSUME NEW s, NEW t, IsSeq(s), IsSeq(t)
    PROVE  /\ ToSet(s \o t) \subseteq ToSet(s) \cup ToSet(t)
           /\ ToSet(H!Newest(s)) \subseteq ToSet(s)
           /\ s # <<>> => /\ ToSet(SubSeq(s, 1, Len(s) - 1)) \subseteq ToSet(s)
                          /\ ToSet(Append(t, s[Len(s)])) \subseteq ToSet(t) \cup ToSet(s)
                          /\ s[Len(s)] \in ToSet(s)
<1>1. /\ Len(s) \in Nat /\ DOMAIN s = 1 .. Len(s)
      /\ Len(t) \in Nat /\ DOMAIN t = 1 .. Len(t)
      /\ Depth \in Nat
  BY SeqIsFunction, DepthAssumption
<1>2. ToSet(s \o t) \subseteq ToSet(s) \cup ToSet(t)
  <2> DEFINE all == s \o t
  <2>1. /\ IsSeq(all) /\ Len(all) = Len(s) + Len(t)
        /\ \A i \in 1 .. Len(s) + Len(t) : all[i] = IF i <= Len(s) THEN s[i] ELSE t[i - Len(s)]
    BY ConcatIsSeq
  <2>2. DOMAIN all = 1 .. Len(s) + Len(t)
    BY <2>1, SeqIsFunction
  <2> HIDE DEF all
  <2>3. ASSUME NEW k \in DOMAIN all PROVE all[k] \in ToSet(s) \cup ToSet(t)
    <3>1. CASE k <= Len(s)
      <4>1. k \in DOMAIN s /\ all[k] = s[k]
        BY <1>1, <2>1, <2>2, <3>1
      <4> QED
        BY <4>1 DEF ToSet
    <3>2. CASE ~(k <= Len(s))
      <4>1. k - Len(s) \in DOMAIN t /\ all[k] = t[k - Len(s)]
        BY <1>1, <2>1, <2>2, <3>2
      <4> QED
        BY <4>1 DEF ToSet
    <3> QED
      BY <3>1, <3>2
  <2>4. ToSet(all) \subseteq ToSet(s) \cup ToSet(t)
    BY <2>3 DEF ToSet
  <2> QED
    BY <2>4 DEF all
<1>3. ToSet(H!Newest(s)) \subseteq ToSet(s)
  <2> DEFINE r == H!Newest(s)
  <2>1. /\ H!IsStack(r)
        /\ Len(r) = IF Len(s) <= Depth THEN Len(s) ELSE Depth
        /\ Len(s) <= Depth => r = s
        /\ Len(s) > Depth => \A i \in 1 .. Depth : r[i] = s[Len(s) - Depth + i]
    BY NewestIsStack
  <2> HIDE DEF r
  <2>2. IsSeq(r) /\ DOMAIN r = 1 .. Len(r)
    BY <2>1, StackIsSeq, SeqIsFunction
  <2>3. CASE Len(s) <= Depth
    BY <2>1, <2>3 DEF r
  <2>4. CASE Len(s) > Depth
    <3>1. Len(r) = Depth
      <4>1. ~(Len(s) <= Depth)
        BY <1>1, <2>4
      <4> QED
        BY <2>1, <4>1, Zenon
    <3>2. \A k \in DOMAIN r : r[k] = s[Len(s) - Depth + k] /\ Len(s) - Depth + k \in DOMAIN s
      BY <1>1, <2>1, <2>2, <2>4, <3>1
    <3>3. ToSet(r) \subseteq ToSet(s)
      BY <3>2 DEF ToSet
    <3> QED
      BY <3>3 DEF r
  <2> QED
    BY <1>1, <2>3, <2>4
<1>4. ASSUME s # <<>>
      PROVE  /\ ToSet(SubSeq(s, 1, Len(s) - 1)) \subseteq ToSet(s)
             /\ ToSet(Append(t, s[Len(s)])) \subseteq ToSet(t) \cup ToSet(s)
             /\ s[Len(s)] \in ToSet(s)
  <2> DEFINE r == SubSeq(s, 1, Len(s) - 1)
             a == Append(t, s[Len(s)])
  <2>1. IsSeq(r) /\ Len(r) = Len(s) - 1 /\ Len(s) >= 1
    BY <1>4, Shortened
  <2>2. IsSeq(a) /\ Len(a) = Len(t) + 1
    BY Lengthened
  <2>3. DOMAIN r = 1 .. Len(s) - 1 /\ DOMAIN a = 1 .. Len(t) + 1
    BY <2>1, <2>2, SeqIsFunction
  <2>4. \A k \in 1 .. Len(s) - 1 : r[k] = s[k]
    <3>1. PICK S : s \in Seq(S)
      BY DEF IsSeq
    <3> DEFINE m == Len(s) - 1
    <3>2. m \in Nat /\ 1 \in Int /\ m \in Int /\ \A i \in 1 .. m : s[i] \in S
      BY <1>1, <2>1, <3>1
    <3> HIDE DEF m
    <3>3. \A i \in 1 .. m - 1 + 1 : SubSeq(s, 1, m)[i] = s[1 + i - 1]
      BY <3>2, SubSeqProperties
    <3>4. \A i \in 1 .. m : SubSeq(s, 1, m)[i] = s[i]
      BY <3>2, <3>3
    <3> QED
      BY <3>4 DEF m
  <2>5. \A k \in 1 .. Len(t) + 1 : a[k] = IF k <= Len(t) THEN t[k] ELSE s[Len(s)]
    <3>1. PICK T : t \in Seq(T)
      BY DEF IsSeq
    <3>2. t \in Seq(T \cup {s[Len(s)]}) /\ s[Len(s)] \in T \cup {s[Len(s)]}
      BY <3>1
    <3>3. /\ \A i \in 1 .. Len(t) : a[i] = t[i]
          /\ a[Len(t) + 1] = s[Len(s)]
      BY <3>2, AppendProperties
    <3> QED
      BY <1>1, <3>3
  <2> HIDE DEF r, a
  <2>6. Len(s) \in DOMAIN s /\ \A k \in DOMAIN r : k \in DOMAIN s /\ r[k] = s[k]
    BY <1>1, <2>1, <2>3, <2>4
  <2>7. \A k \in DOMAIN a : (k \in DOMAIN t /\ a[k] = t[k]) \/ a[k] = s[Len(s)]
    BY <1>1, <2>3, <2>5
  <2>8. s[Len(s)] \in ToSet(s) /\ ToSet(r) \subseteq ToSet(s)
    BY <2>6 DEF ToSet
  <2>9. ToSet(a) \subseteq ToSet(t) \cup ToSet(s)
    BY <2>6, <2>7 DEF ToSet
  <2> QED
    BY <2>8, <2>9 DEF r, a
<1> QED
  BY <1>2, <1>3, <1>4

\* All of this leaves steps steps.
LEMMA StepsStay ==
    ASSUME NEW n, NEW s, NEW t, Steps(s, n), Steps(t, n)
    PROVE  /\ Steps(<<>>, n)
           /\ Steps(H!Newest(s \o t), n)
           /\ s # <<>> => /\ Steps(SubSeq(s, 1, Len(s) - 1), n)
                          /\ Steps(Append(t, s[Len(s)]), n)
                          /\ Steps(H!Newest(Append(t, s[Len(s)])), n)
                          /\ IsOps(s[Len(s)].undo, n) /\ IsOps(s[Len(s)].redo, n)
<1>1. IsSeq(s) /\ IsSeq(t)
  BY DEF Steps
<1>2. Steps(<<>>, n)
  BY TupleIsSeq, SetOfOne DEF Steps
<1>3. ASSUME NEW u, IsSeq(u), ToSet(u) \subseteq ToSet(s) \cup ToSet(t) PROVE Steps(u, n) /\ Steps(H!Newest(u), n)
  <2>1. Steps(u, n)
    BY <1>3 DEF Steps
  <2>2. IsSeq(H!Newest(u)) /\ ToSet(H!Newest(u)) \subseteq ToSet(u)
    BY <1>3, NewestIsStack, StackIsSeq, StackElements
  <2> QED
    BY <2>1, <2>2 DEF Steps
<1>4. Steps(H!Newest(s \o t), n)
  <2> DEFINE all == s \o t
  <2>1. IsSeq(all) /\ ToSet(all) \subseteq ToSet(s) \cup ToSet(t)
    BY <1>1, ConcatIsSeq, StackElements
  <2> HIDE DEF all
  <2>2. Steps(H!Newest(all), n)
    BY <1>3, <2>1
  <2> QED
    BY <2>2 DEF all
<1>5. ASSUME s # <<>>
      PROVE  /\ Steps(SubSeq(s, 1, Len(s) - 1), n)
             /\ Steps(Append(t, s[Len(s)]), n)
             /\ Steps(H!Newest(Append(t, s[Len(s)])), n)
             /\ IsOps(s[Len(s)].undo, n) /\ IsOps(s[Len(s)].redo, n)
  <2> DEFINE r == SubSeq(s, 1, Len(s) - 1)
             a == Append(t, s[Len(s)])
  <2>1. IsSeq(r) /\ IsSeq(a)
    BY <1>1, <1>5, Shortened, Lengthened
  <2>2. ToSet(r) \subseteq ToSet(s) /\ ToSet(a) \subseteq ToSet(t) \cup ToSet(s) /\ s[Len(s)] \in ToSet(s)
    BY <1>1, <1>5, StackElements
  <2>3. IsOps(s[Len(s)].undo, n) /\ IsOps(s[Len(s)].redo, n)
    BY <2>2 DEF Steps
  <2> HIDE DEF r, a
  <2>4. Steps(r, n) /\ Steps(a, n) /\ Steps(H!Newest(a), n)
    <3>1. ToSet(r) \subseteq ToSet(s) \cup ToSet(t) /\ ToSet(a) \subseteq ToSet(s) \cup ToSet(t)
      BY <2>2
    <3> QED
      BY <1>3, <2>1, <3>1
  <2> QED
    BY <2>3, <2>4 DEF r, a
<1> QED
  BY <1>2, <1>4, <1>5

-----------------------------------------------------------------------------
\* What a command keeps

\* A command that makes objects with new ids and sets fields,
Writing(batches) ==
    /\ Batched(batches)
    /\ \A i \in DOMAIN batches : \A op \in ToSet(batches[i]) :
          Writes(NewIds, op) /\ IsOp(op, Limit + IdsPerCommand)

\* and one that deletes.
Deleting(batches) ==
    /\ Batched(batches)
    /\ \A i \in DOMAIN batches : \A op \in ToSet(batches[i]) : op.type = "delete"

\* What UndoRestores says of a step.
UndoStepRestores ==
    edits' # edits /\ Len(undo) < Len(undo') /\ Len(undo') < Depth =>
        Restores(objects, objects', Rewind(objects', SubSeq(undo', Len(undo) + 1, Len(undo'))))

\* What every step does.
Kept == CanvasInv' /\ UndoStepRestores

\* The operations and the inverses of a command are operations.
LEMMA InverseIsOp ==
    ASSUME NEW n \in Nat \ {0}, NEW objs, IsBoard(objs, n), NEW op, Invertible(objs, op)
    PROVE  IsOp(Undoing(objs, op), n)
<1>1. CASE op.type = "create"
  <2>1. Undoing(objs, op) = Delete(op.id)
    BY <1>1 DEF Undoing
  <2> QED
    BY <2>1, OpFields DEF IsOp
<1>2. CASE op.type = "update"
  <2> DEFINE v == objs[op.id][op.path]
             e == Update(op.id, op.path, v)
  <2>1. Undoing(objs, op) = e
    BY <1>2 DEF Undoing
  <2>2. op.path \in Fields => FieldOk(op.path, v, n)
    BY <1>2 DEF Invertible, IsBoard, IsObject
  <2>3. FieldOk(op.path, v, n)
    BY <2>2, FieldsAre DEF FieldOk
  <2>4. e.type = "update" /\ e.path = op.path /\ e.value = v
    BY OpFields
  <2> HIDE DEF e, v
  <2>5. IsOp(e, n)
    BY <2>3, <2>4 DEF IsOp
  <2> QED
    BY <2>1, <2>5
<1>3. CASE op.type \notin {"create", "update"}
  <2> DEFINE e == Create(op.id, objs[op.id])
  <2>1. Undoing(objs, op) = e
    BY <1>3 DEF Undoing
  <2>2. op.id \in 1 .. n - 1 /\ IsObject(objs[op.id], n)
    BY <1>3 DEF Invertible, IsBoard
  <2>3. e.type = "create" /\ e.id = op.id /\ e.value = objs[op.id]
    BY OpFields
  <2> HIDE DEF e
  <2>4. IsOp(e, n)
    BY <2>2, <2>3 DEF IsOp
  <2> QED
    BY <2>1, <2>4
<1> QED
  BY <1>1, <1>2, <1>3

\* What the server does not refuse.
LEMMA NotRefused ==
    ASSUME NEW objs, NEW ops, IsSeq(ops)
    PROVE  \E kept : /\ ServerApplyOps(objs, ops) = ApplyOps(objs, kept)
                     /\ IsSeq(kept) /\ ToSet(kept) \subseteq ToSet(ops)
<1> DEFINE kept == [i \in DOMAIN ops |-> IF ~Refused(ops[i]) THEN <<ops[i]>> ELSE <<>>]
<1>1. ServerApplyOps(objs, ops) = ApplyOps(objs, FlattenSeq(kept))
  BY Zenon DEF ServerApplyOps, Filter
<1>2. kept = [i \in DOMAIN ops |-> kept[i]]
  BY Zenon
<1>3. \A i \in DOMAIN ops : kept[i] \in {<<ops[i]>>, <<>>}
  BY Zenon
<1> HIDE DEF kept
<1>4. /\ IsSeq(FlattenSeq(kept))
      /\ \A e : e \in ToSet(FlattenSeq(kept)) <=> \E i \in DOMAIN ops : kept[i] = <<ops[i]>> /\ e = ops[i]
  BY <1>2, <1>3, Filtered
<1>5. \A i \in DOMAIN ops : ops[i] \in ToSet(ops)
  BY DEF ToSet
<1> QED
  BY <1>1, <1>4, <1>5

\* What the server is sent makes its board a board.
LEMMA ServerBoard ==
    ASSUME NEW n \in Nat \ {0}, NEW objs, IsBoard(objs, n), NEW ops, IsOps(ops, n)
    PROVE  IsBoard(ServerApplyOps(objs, ops), n)
<1>1. IsSeq(ops) /\ \A op \in ToSet(ops) : IsOp(op, n)
  BY DEF IsOps
<1>2. PICK kept : /\ ServerApplyOps(objs, ops) = ApplyOps(objs, kept)
                  /\ IsSeq(kept) /\ ToSet(kept) \subseteq ToSet(ops)
  BY <1>1, NotRefused
<1>3. IsOps(kept, n)
  BY <1>1, <1>2 DEF IsOps
<1> QED
  BY <1>2, <1>3, OpsKeepBoard

\* A command that writes or deletes keeps what is true, and can be undone.
LEMMA DoKeeps ==
    ASSUME HistoryInv, CanvasInv, NEW batches, Writing(batches) \/ Deleting(batches), Do(batches),
           NEW n, n = Limit + IdsPerCommand
    PROVE  /\ IsBoard(objects', n) /\ IsBoard(server', n)
           /\ Steps(undo', n) /\ Steps(redo', n)
           /\ UndoStepRestores
<1> DEFINE ops == OpsOf(objects, batches)
           steps == Made(objects, batches)
<1>1. /\ Limit \in Nat \ {0} /\ Limit >= 10
      /\ \A x \in NewIds : x \in 1 .. Limit + IdsPerCommand - 1 /\ x >= Limit
      /\ n \in Nat \ {0} /\ Limit <= n
  BY NewIdsAre
<1>2. /\ objects' = ApplyOps(objects, ops)
      /\ server' = ServerApplyOps(server, ops)
      /\ PushUndo(steps)
  BY Zenon DEF Do, OpsOf, Made, Told
<1>3. ops = OpsOf(objects, batches) /\ steps = Made(objects, batches) /\ Batched(batches)
  BY DEF Writing, Deleting
<1> HIDE DEF ops, steps
<1>4. /\ IsSeq(ops)
      /\ \A op : op \in ToSet(ops) <=>
            /\ \E i \in DOMAIN batches : op \in ToSet(batches[i])
            /\ op.type = "delete" => op.id \in DOMAIN objects
      /\ IsSeq(steps)
      /\ \A st \in ToSet(steps) :
            /\ IsSeq(st.undo) /\ IsSeq(st.redo) /\ ToSet(st.redo) \subseteq ToSet(ops)
            /\ \A e \in ToSet(st.undo) : \E op \in ToSet(ops) : Invertible(objects, op) /\ e = Undoing(objects, op)
      /\ \A op \in ToSet(ops) : Invertible(objects, op) =>
            \E st \in ToSet(steps) : Undoing(objects, op) \in ToSet(st.undo)
  BY <1>3, CommandHolds
<1>5. IsBoard(objects, n) /\ IsBoard(server, n) /\ Steps(undo, n) /\ Steps(redo, n)
  BY <1>1, BoardMore, StepsMore DEF CanvasInv
<1>6. IsOps(ops, n)
  <2>1. \A op : op.type = "delete" => IsOp(op, n)
    BY DEF IsOp
  <2>2. \A op \in ToSet(ops) : IsOp(op, n)
    BY <1>4, <2>1 DEF Writing, Deleting
  <2> QED
    BY <1>4, <2>2 DEF IsOps
<1>7. IsBoard(objects', n) /\ IsBoard(server', n)
  BY <1>1, <1>2, <1>5, <1>6, OpsKeepBoard, ServerBoard
<1>8. Steps(steps, n)
  <2>1. ASSUME NEW st \in ToSet(steps) PROVE IsOps(st.undo, n) /\ IsOps(st.redo, n)
    <3>1. \A e \in ToSet(st.undo) : IsOp(e, n)
      BY <1>1, <1>4, <1>5, InverseIsOp
    <3>2. \A op \in ToSet(st.redo) : IsOp(op, n)
      BY <1>4, <1>6 DEF IsOps
    <3> QED
      BY <1>4, <3>1, <3>2 DEF IsOps
  <2> QED
    BY <1>4, <2>1 DEF Steps
<1>9. Steps(undo', n) /\ Steps(redo', n)
  <2>1. undo' = H!Newest(undo \o steps) /\ (redo' = redo \/ redo' = <<>>)
    BY <1>2 DEF PushUndo
  <2>2. Steps(<<>>, n) /\ Steps(H!Newest(undo \o steps), n)
    BY <1>5, <1>8, StepsStay
  <2> QED
    BY <1>5, <2>1, <2>2
<1>10. Restores(objects, objects', Rewind(objects', steps))
  <2>1. CASE Writing(batches)
    <3>1. Without(objects, NewIds)
      BY <1>1, BoardWithout DEF CanvasInv
    <3>2. \A i \in DOMAIN batches : \A op \in ToSet(batches[i]) : Writes(NewIds, op)
      BY <2>1 DEF Writing
    <3>3. Rewind(objects', steps) = objects /\ DOMAIN objects \subseteq DOMAIN objects'
      BY <1>2, <1>3, <3>1, <3>2, WritesRestored
    <3> QED
      BY <3>3, Zenon DEF Restores
  <2>2. CASE Deleting(batches)
    <3>1. Without(objects, {}) /\ NoParent \notin DOMAIN objects
      BY <1>1, BoardWithout DEF CanvasInv
    <3>2. \A i \in DOMAIN batches : \A op \in ToSet(batches[i]) : op.type = "delete"
      BY <2>2 DEF Deleting
    <3>3. LET after == ApplyOps(objects, OpsOf(objects, batches)) IN
          Restores(objects, after, Rewind(after, Made(objects, batches)))
      BY <1>3, <3>1, <3>2, DeletesRestored
    <3> QED
      BY <1>2, <1>3, <3>3
  <2> QED
    BY <2>1, <2>2
<1>11. UndoStepRestores
  <2>1. SUFFICES ASSUME Len(undo') < Depth
                 PROVE  SubSeq(undo', Len(undo) + 1, Len(undo')) = steps
    BY <1>10 DEF UndoStepRestores
  <2>2. IsSeq(undo) /\ IsSeq(steps) /\ undo' = H!Newest(undo \o steps)
    BY <1>2, <1>4 DEF PushUndo, HistoryInv
  <2> QED
    BY ONLY <2>1, <2>2, NewSteps
<1> QED
  BY <1>7, <1>9, <1>11

\* A command that does not touch the board keeps what is true of it.
LEMMA Onward ==
    ASSUME CanvasInv, edits' \in {edits, edits + 1}, script' = script
    PROVE  /\ edits' \in Nat /\ script' \in Scripts /\ Limit' \in Nat \ {0} /\ Limit <= Limit'
           /\ edits' = edits + 1 => Limit' = Limit + IdsPerCommand
<1>1. edits \in Nat /\ script \in Scripts
  BY DEF CanvasInv
<1> DEFINE e == edits'
<1>2. e \in Nat /\ edits <= e /\ script' \in Scripts
  BY <1>1
<1>3. Limit = 10 * (edits + 1) /\ Limit' = 10 * (e + 1) /\ IdsPerCommand = 10
  BY DEF Limit, IdsPerCommand
<1> HIDE DEF e
<1>4. /\ Limit' \in Nat \ {0} /\ Limit <= Limit'
      /\ e = edits + 1 => Limit' = Limit + IdsPerCommand
  BY <1>1, <1>2, <1>3
<1> QED
  BY <1>2, <1>4 DEF e

LEMMA UntouchedKept ==
    ASSUME CanvasInv, edits' \in {edits, edits + 1}, script' = script,
           UNCHANGED <<objects, server, undo, redo>>, HistoryInv,
           Picked(selected', Limit'), Copied(clip', Limit')
    PROVE  Kept
<1>1. /\ edits' \in Nat /\ script' \in Scripts /\ Limit' \in Nat \ {0} /\ Limit <= Limit' /\ Limit \in Nat \ {0}
  BY Onward, NewIdsAre
<1>2. objects' = objects /\ server' = server /\ undo' = undo /\ redo' = redo
  OBVIOUS
<1>3. IsBoard(objects', Limit') /\ IsBoard(server', Limit') /\ Steps(undo', Limit') /\ Steps(redo', Limit')
  <2>1. ASSUME NEW m, m = Limit'
        PROVE  IsBoard(objects, m) /\ IsBoard(server, m) /\ Steps(undo, m) /\ Steps(redo, m)
    BY <1>1, <2>1, BoardMore, StepsMore DEF CanvasInv
  <2> QED
    BY <1>2, <2>1
<1>4. CanvasInv'
  BY <1>1, <1>3 DEF CanvasInv
<1>5. Len(undo') = Len(undo) /\ Len(undo) \in Nat
  BY <1>2, SeqLength DEF HistoryInv
<1>6. UndoStepRestores
  BY <1>5 DEF UndoStepRestores
<1> QED
  BY <1>4, <1>6 DEF Kept

\* An edit that writes or deletes.
LEMMA EditKept ==
    ASSUME HistoryInv, CanvasInv, NEW name, NEW batches, NEW sel, Edit(name, batches, sel),
           Writing(batches) \/ Deleting(batches), Picked(sel, Limit + IdsPerCommand)
    PROVE  Kept
<1>1. /\ Do(batches) /\ selected' = sel /\ clip' = clip /\ script' = script /\ edits' = edits + 1
  BY DEF Edit, Command
<1>2. /\ edits' \in Nat /\ script' \in Scripts /\ Limit' \in Nat \ {0} /\ Limit <= Limit'
      /\ Limit' = Limit + IdsPerCommand /\ Limit \in Nat \ {0}
  BY <1>1, Onward, NewIdsAre
<1> DEFINE n == Limit + IdsPerCommand
<1>3. /\ IsBoard(objects', n) /\ IsBoard(server', n)
      /\ Steps(undo', n) /\ Steps(redo', n)
      /\ UndoStepRestores
  BY <1>1, DoKeeps
<1>4. Copied(clip, n)
  <2>1. n \in Int /\ Limit \in Int /\ Limit <= n /\ Copied(clip, Limit)
    BY <1>2 DEF CanvasInv
  <2> QED
    BY <2>1, CopiedMore
<1>5. CanvasInv'
  BY <1>1, <1>2, <1>3, <1>4 DEF CanvasInv
<1> QED
  BY <1>3, <1>5 DEF Kept

\* What is replayed leaves boards, and what is moved between the stacks steps.
LEMMA ReplayKept ==
    ASSUME CanvasInv, edits' = edits, script' = script, selected' = selected, clip' = clip,
           IsBoard(objects', Limit), IsBoard(server', Limit), Steps(undo', Limit), Steps(redo', Limit)
    PROVE  Kept
<1>1. Limit' = Limit /\ edits' \in Nat /\ script' \in Scripts
  BY DEF CanvasInv, Limit
<1>2. CanvasInv'
  BY <1>1 DEF CanvasInv
<1>3. UndoStepRestores
  BY DEF UndoStepRestores
<1> QED
  BY <1>2, <1>3 DEF Kept

LEMMA UndoKept == CanvasInv /\ Undo /\ Elsewhere => Kept
<1> SUFFICES ASSUME CanvasInv, Undo, Elsewhere PROVE Kept
  OBVIOUS
<1> DEFINE st == undo[Len(undo)]
<1>1. Limit \in Nat \ {0} /\ IsBoard(objects, Limit) /\ IsBoard(server, Limit) /\ Steps(undo, Limit) /\ Steps(redo, Limit)
  BY NewIdsAre DEF CanvasInv
<1>2. /\ undo # <<>> /\ undo' = SubSeq(undo, 1, Len(undo) - 1) /\ redo' = Append(redo, st)
      /\ objects' = ApplyOps(objects, Reverse(st.undo)) /\ server' = ServerApplyOps(server, Reverse(st.undo))
  BY DEF Undo, ReplayOps, Front, Last
<1>3. Steps(SubSeq(undo, 1, Len(undo) - 1), Limit) /\ Steps(Append(redo, st), Limit) /\ IsOps(st.undo, Limit)
  BY <1>1, <1>2, StepsStay
<1> DEFINE ops == st.undo
           back == Reverse(ops)
<1>4. IsOps(back, Limit)
  <2>1. IsOps(ops, Limit)
    BY <1>3
  <2> HIDE DEF ops
  <2> QED
    BY <2>1, ReverseIsSeq, ReverseHolds DEF IsOps
<1> HIDE DEF back
<1>5. IsBoard(ApplyOps(objects, back), Limit) /\ IsBoard(ServerApplyOps(server, back), Limit)
  BY <1>1, <1>4, OpsKeepBoard, ServerBoard
<1>6. IsBoard(objects', Limit) /\ IsBoard(server', Limit)
  BY <1>2, <1>5 DEF back
<1>7. edits' = edits /\ script' = script /\ selected' = selected /\ clip' = clip
  BY DEF Elsewhere
<1> QED
  BY <1>2, <1>3, <1>6, <1>7, ReplayKept

LEMMA RedoKept == CanvasInv /\ Redo /\ Elsewhere => Kept
<1> SUFFICES ASSUME CanvasInv, Redo, Elsewhere PROVE Kept
  OBVIOUS
<1> DEFINE st == redo[Len(redo)]
<1>1. Limit \in Nat \ {0} /\ IsBoard(objects, Limit) /\ IsBoard(server, Limit) /\ Steps(undo, Limit) /\ Steps(redo, Limit)
  BY NewIdsAre DEF CanvasInv
<1>2. /\ redo # <<>> /\ redo' = SubSeq(redo, 1, Len(redo) - 1) /\ undo' = H!Newest(Append(undo, st))
      /\ objects' = ApplyOps(objects, st.redo) /\ server' = ServerApplyOps(server, st.redo)
  BY DEF Redo, ReplayOps, Front, Last
<1>3. /\ Steps(SubSeq(redo, 1, Len(redo) - 1), Limit) /\ Steps(H!Newest(Append(undo, st)), Limit)
      /\ IsOps(st.redo, Limit)
  BY <1>1, <1>2, StepsStay
<1>4. IsBoard(objects', Limit) /\ IsBoard(server', Limit)
  BY <1>1, <1>2, <1>3, OpsKeepBoard, ServerBoard
<1>5. edits' = edits /\ script' = script /\ selected' = selected /\ clip' = clip
  BY DEF Elsewhere
<1> QED
  BY <1>2, <1>3, <1>4, <1>5, ReplayKept

LEMMA ReconnectKept == CanvasInv /\ Reconnect /\ Elsewhere => Kept
  BY ReplayKept DEF Reconnect, Elsewhere, CanvasInv

\* A restored snapshot is a board, and the stacks are empty after it.
LEMMA RestoreKept == CanvasInv /\ RestoreSnapshot => Kept
<1> SUFFICES ASSUME CanvasInv, RestoreSnapshot PROVE Kept
  OBVIOUS
<1>1. /\ edits' = edits + 1 /\ script' = script /\ selected' = selected /\ clip' = clip
      /\ objects' = script.objects /\ server' = script.objects /\ undo' = <<>> /\ redo' = <<>>
  BY DEF RestoreSnapshot, Command, Restored
<1>2. /\ edits' \in Nat /\ script' \in Scripts /\ Limit' \in Nat \ {0} /\ Limit <= Limit' /\ Limit >= 10
      /\ Limit \in Nat \ {0}
  BY <1>1, Onward, NewIdsAre
<1>3. ASSUME NEW m, m = Limit'
      PROVE  /\ IsBoard(script.objects, m) /\ Steps(<<>>, m)
             /\ Picked(selected, m) /\ Copied(clip, m)
  <2>1. IsBoard(script.objects, IdsPerCommand) /\ IdsPerCommand \in Int /\ IdsPerCommand <= m
    BY <1>2, <1>3, ScriptsAssumption DEF CanvasInv, IdsPerCommand
  <2>2. IsBoard(script.objects, m)
    BY <1>2, <1>3, <2>1, BoardMore
  <2>3. Steps(<<>>, m)
    BY TupleIsSeq, SetOfOne DEF Steps
  <2> QED
    BY <1>2, <1>3, <2>2, <2>3, PickedMore, CopiedMore DEF CanvasInv
<1>4. CanvasInv'
  BY <1>1, <1>2, <1>3 DEF CanvasInv
<1>5. UndoStepRestores
  <2>1. SUFFICES ASSUME Len(undo) < 0 PROVE FALSE
    <3>1. Len(undo') = 0
      BY <1>1
    <3> QED
      BY <2>1, <3>1 DEF UndoStepRestores
  <2>2. Len(undo) \in Nat
    BY SeqLength DEF CanvasInv, Steps
  <2> QED
    BY <2>1, <2>2
<1> QED
  BY <1>4, <1>5 DEF Kept
=============================================================================
