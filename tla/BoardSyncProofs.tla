-------------------------- MODULE BoardSyncProofs ---------------------------
(***************************************************************************)
(* Invariants of BoardSync for any number of clients, connections, edits   *)
(* and operations: the types, that no committed operation is lost, and     *)
(* what it takes for a peer to miss one.                                   *)
(***************************************************************************)
EXTENDS BoardSync, DocumentLemmas, SequenceTheorems

-----------------------------------------------------------------------------
(* Lemmas about the operators the actions share. *)

\* A connection belongs to one client.
LEMMA OwnerType == \A n \in Conns : Owner(n) \in Clients
BY DEF Conns, Owner

\* deliverLocked adds at most one envelope to a queue, and reopens nothing.
LEMMA DeliverType ==
    ASSUME NEW targets \in SUBSET Conns, NEW msg \in Envelopes,
           down \in [Conns -> Seq(Envelopes)], closed \in [Conns -> BOOLEAN],
           Deliver(targets, msg)
    PROVE  /\ down' \in [Conns -> Seq(Envelopes)]
           /\ closed' \in [Conns -> BOOLEAN]
           /\ \A n \in Conns : down'[n] = down[n] \/ down'[n] = Append(down[n], msg)
           /\ \A n \in Conns : closed[n] => closed'[n]
           /\ \A n \in targets : closed'[n] \/ down'[n] = Append(down[n], msg)
<1>1. PICK full \in SUBSET targets :
         /\ down' = [n \in Conns |->
                       IF n \in targets \ full THEN Append(down[n], msg) ELSE down[n]]
         /\ closed' = [n \in Conns |-> closed[n] \/ n \in full]
  BY DEF Deliver
<1>2. \A n \in Conns : Append(down[n], msg) \in Seq(Envelopes)
  BY AppendProperties
<1> QED
  BY <1>1, <1>2

\* What the server sends is an envelope.
LEMMA EnvelopeType ==
    /\ \A id \in Nat : OpEnvelope(id) \in Envelopes /\ ErrorEnvelope(id) \in Envelopes
    /\ \A objs \in Objects, upto \in SUBSET Nat : StateEnvelope(objs, upto) \in Envelopes
BY DEF Envelopes, OpEnvelope, ErrorEnvelope, StateEnvelope

\* recordOps keeps the newest RecentOps ids.
LEMMA RecordOpsType ==
    ASSUME NEW ids \in Seq(Nat), opOrder \in Seq(Nat)
    PROVE  /\ RecordOps(ids) \in Seq(Nat)
           /\ Len(RecordOps(ids)) <= RecentOps
           /\ ToSet(RecordOps(ids)) \subseteq ToSet(opOrder) \cup ToSet(ids)
<1> DEFINE new == opOrder \o ids
           excess == Len(new) - RecentOps
<1>1. /\ new \in Seq(Nat)
      /\ Len(new) = Len(opOrder) + Len(ids)
      /\ \A i \in 1 .. Len(new) :
            new[i] = IF i <= Len(opOrder) THEN opOrder[i] ELSE ids[i - Len(opOrder)]
  BY ConcatProperties
<1>2. ToSet(new) \subseteq ToSet(opOrder) \cup ToSet(ids)
  BY <1>1 DEF ToSet
<1>3. RecentOps \in Nat
  BY SyncAssumption DEF SyncAssumption
<1>4. CASE excess > 0
  <2> DEFINE kept == SubSeq(new, excess + 1, Len(new))
  <2>1. excess \in Nat /\ Len(new) \in Nat /\ excess + RecentOps = Len(new)
    BY <1>1, <1>3, <1>4
  <2>2. \A i \in excess + 1 .. Len(new) : new[i] \in Nat
    BY <1>1, <2>1, ElementOfSeq
  <2>3. kept \in Seq(Nat) /\ Len(kept) = RecentOps
    BY <1>3, <2>1, <2>2, SubSeqProperties
  <2>4. \A i \in 1 .. RecentOps : kept[i] = new[excess + i]
    BY <1>3, <2>1, <2>2, SubSeqProperties
  <2> HIDE DEF kept, new, excess
  <2>5. ToSet(kept) \subseteq ToSet(new)
    <3>1. DOMAIN kept = 1 .. RecentOps /\ DOMAIN new = 1 .. Len(new)
      BY <1>1, <2>3, LenProperties
    <3>2. \A i \in 1 .. RecentOps : excess + i \in 1 .. Len(new)
      BY <1>3, <2>1
    <3> QED
      BY <2>4, <3>1, <3>2 DEF ToSet
  <2>6. RecordOps(ids) = kept
    BY <1>4 DEF RecordOps, kept, new, excess
  <2> QED
    BY <1>2, <1>3, <2>3, <2>5, <2>6
<1>5. CASE ~(excess > 0)
  BY <1>1, <1>2, <1>3, <1>5 DEF RecordOps
<1> QED
  BY <1>4, <1>5

\* Deleting an entry of an outbox.
LEMMA RemoveAtProperties ==
    ASSUME NEW s \in Seq(Nat), NEW p \in 1 .. Len(s)
    PROVE  /\ RemoveAt(s, p) \in Seq(Nat)
           /\ Len(RemoveAt(s, p)) = Len(s) - 1
           /\ \A i \in 1 .. Len(s) - 1 : RemoveAt(s, p)[i] = IF i < p THEN s[i] ELSE s[i + 1]
<1> DEFINE front == SubSeq(s, 1, p - 1)
           back == SubSeq(s, p + 1, Len(s))
<1>1. \A i \in 1 .. Len(s) : s[i] \in Nat
  BY ElementOfSeq
<1>2. /\ front \in Seq(Nat) /\ Len(front) = p - 1
      /\ \A i \in 1 .. p - 1 : front[i] = s[i]
  <2>1. p - 1 \in Int /\ \A i \in 1 .. p - 1 : s[i] \in Nat
    BY <1>1
  <2> QED
    BY <2>1, SubSeqProperties
<1>3. /\ back \in Seq(Nat) /\ Len(back) = Len(s) - p
      /\ \A i \in 1 .. Len(s) - p : back[i] = s[p + i]
  <2>1. p + 1 \in Int /\ Len(s) \in Int /\ \A i \in p + 1 .. Len(s) : s[i] \in Nat
    BY <1>1
  <2> QED
    BY <2>1, SubSeqProperties
<1> HIDE DEF front, back
<1>4. /\ front \o back \in Seq(Nat)
      /\ Len(front \o back) = Len(s) - 1
      /\ \A i \in 1 .. Len(s) - 1 :
            (front \o back)[i] = IF i <= p - 1 THEN front[i] ELSE back[i - (p - 1)]
  <2>1. Len(s) \in Nat /\ Len(front) + Len(back) = Len(s) - 1
    BY <1>2, <1>3
  <2>2. /\ front \o back \in Seq(Nat)
        /\ Len(front \o back) = Len(front) + Len(back)
        /\ \A i \in 1 .. Len(front) + Len(back) :
              (front \o back)[i] = IF i <= Len(front) THEN front[i] ELSE back[i - Len(front)]
    <3>1. front \in Seq(Nat) /\ back \in Seq(Nat)
      BY <1>2, <1>3
    <3> QED
      BY <3>1, ConcatProperties, Zenon
  <2> QED
    BY <1>2, <2>1, <2>2
<1>5. ASSUME NEW i \in 1 .. Len(s) - 1
      PROVE  (front \o back)[i] = IF i < p THEN s[i] ELSE s[i + 1]
  <2>1. CASE i < p
    <3>1. i \in 1 .. p - 1 /\ i <= p - 1
      BY <2>1
    <3> QED
      BY <1>2, <1>4, <2>1, <3>1
  <2>2. CASE ~(i < p)
    <3>1. i - (p - 1) \in 1 .. Len(s) - p /\ p + (i - (p - 1)) = i + 1
      BY <2>2
    <3>2. (front \o back)[i] = back[i - (p - 1)]
      BY <1>4, <2>2
    <3>3. back[i - (p - 1)] = s[p + (i - (p - 1))]
      BY <1>3, <3>1
    <3> QED
      BY <2>2, <3>1, <3>2, <3>3
  <2> QED
    BY <2>1, <2>2
<1> QED
  BY <1>4, <1>5 DEF RemoveAt, front, back

\* What is on its way is cut to a prefix.
LEMMA CutUpType ==
    ASSUME NEW n \in Conns, up \in [Conns -> Seq(Nat)], CutUp(n)
    PROVE  /\ up' \in [Conns -> Seq(Nat)]
           /\ \A m \in Conns : m # n => up'[m] = up[m]
           /\ \A m \in Conns : /\ Len(up'[m]) <= Len(up[m])
                               /\ \A i \in 1 .. Len(up'[m]) : up'[m][i] = up[m][i]
<1>1. PICK k \in 0 .. Len(up[n]) : up' = [up EXCEPT ![n] = SubSeq(up[n], 1, k)]
  BY DEF CutUp
<1>2. /\ SubSeq(up[n], 1, k) \in Seq(Nat) /\ Len(SubSeq(up[n], 1, k)) = k
      /\ \A i \in 1 .. k : SubSeq(up[n], 1, k)[i] = up[n][i]
  BY SubSeqProperties
<1> QED
  BY <1>1, <1>2

-----------------------------------------------------------------------------
(* Types *)

\* The inductive invariant about types; it needs no other.
TypeInv == ProtocolTypeOK /\ KnownIds

\* A batch of the agent is a sequence of edits, and not empty.
LEMMA AgentEdits == \A edits \in Batches : edits \in Seq(Edit) /\ edits # <<>>
<1> SUFFICES ASSUME NEW k \in 1 .. MaxBatch, NEW edits \in [1 .. k -> EditsOf[Agent]]
             PROVE  edits \in Seq(Edit) /\ edits # <<>>
  BY DEF Batches
<1>1. EditsOf[Agent] \subseteq Edit /\ MaxBatch \in Nat
  BY SyncAssumption DEF SyncAssumption
<1> QED
  BY <1>1

\* What the history variables hold.
LEMMA LogIdsType == HistoryTypeOK => LogIds \in SUBSET Nat
<1> SUFFICES ASSUME HistoryTypeOK, NEW k \in DOMAIN log PROVE log[k].id \in Nat
  BY DEF LogIds
<1>1. log \in Seq([id : Nat, room : 0 .. MaxRooms]) /\ k \in 1 .. Len(log)
  BY DEF HistoryTypeOK
<1>2. log[k] \in [id : Nat, room : 0 .. MaxRooms]
  BY <1>1, ElementOfSeq
<1> QED
  BY <1>2

\* The edit of a known id.
LEMMA OpsElement ==
    HistoryTypeOK => \A id \in OpIds :
        /\ id \in Nat
        /\ ops[id] \in [by : Clients \cup {Agent}, edit : Edit, live : BOOLEAN]
        /\ ops[id].edit \in Edit
<1> USE DEF OpIds
<1> SUFFICES ASSUME HistoryTypeOK, NEW id \in OpIds
             PROVE  /\ id \in Nat
                    /\ ops[id] \in [by : Clients \cup {Agent}, edit : Edit, live : BOOLEAN]
                    /\ ops[id].edit \in Edit
  OBVIOUS
<1>1. /\ ops \in Seq([by : Clients \cup {Agent}, edit : Edit, live : BOOLEAN])
      /\ id \in 1 .. Len(ops)
  BY DEF HistoryTypeOK
<1>2. ops[id] \in [by : Clients \cup {Agent}, edit : Edit, live : BOOLEAN]
  BY <1>1, ElementOfSeq
<1> QED
  BY <1>1, <1>2

\* A call that has ended.
LEMMA NoCallType ==
    ASSUME CallTypeOK, agent' = NoCall, restoring' = restoring
    PROVE  CallTypeOK'
<1>1. NoCall \in [pc : {"idle", "applying", "applied", "recorded"},
                  edits : Seq(Edit), ids : Seq(Nat)]
  BY DEF NoCall
<1>2. NoCall.pc = "idle"
  BY DEF NoCall
<1> QED
  BY <1>1, <1>2 DEF CallTypeOK

\* A server that has just been started.
LEMMA TypeInit == Init => TypeInv
<1> USE DEF OpIds
<1> SUFFICES ASSUME Init PROVE TypeInv
  OBVIOUS
<1> USE DEF Init, InitWith
<1>1. NoCall \in [pc : {"idle", "applying", "applied", "recorded"},
                  edits : Seq(Edit), ids : Seq(Nat)]
  BY DEF NoCall
<1>2. KnownIds
  BY DEF KnownIds
<1>3. ServerTypeOK
  BY SyncAssumption DEF SyncAssumption, ServerTypeOK, Idle
<1>4. CallTypeOK
  BY <1>1 DEF CallTypeOK, NoCall
<1>5. ConnTypeOK
  BY DEF ConnTypeOK
<1>6. BrowserTypeOK
  BY DEF BrowserTypeOK
<1>7. HistoryTypeOK
  BY DEF HistoryTypeOK
<1> QED
  BY <1>2, <1>3, <1>4, <1>5, <1>6, <1>7 DEF TypeInv, ProtocolTypeOK

\* An operation a browser makes is appended to ops, and to up if it is sent.
LEMMA NewOpType ==
    ASSUME TypeInv, NEW c \in Clients, NEW e \in Edit, NEW l \in BOOLEAN,
           ops' = Append(ops, [by |-> c, edit |-> e, live |-> l]),
           SendOp(c, Len(ops) + 1)
    PROVE  /\ ops' \in Seq([by : Clients \cup {Agent}, edit : Edit, live : BOOLEAN])
           /\ Len(ops') = Len(ops) + 1
           /\ up' \in [Conns -> Seq(Nat)]
           /\ \A n \in Conns : \A k \in DOMAIN up'[n] : up'[n][k] \in OpIds'
<1> USE DEF OpIds
<1> USE DEF TypeInv, ProtocolTypeOK, ConnTypeOK, BrowserTypeOK, HistoryTypeOK, KnownIds
<1>1. /\ ops' \in Seq([by : Clients \cup {Agent}, edit : Edit, live : BOOLEAN])
      /\ Len(ops') = Len(ops) + 1
  OBVIOUS
<1>2. \/ up' = up
      \/ \E n \in Conns : up' = [up EXCEPT ![n] = Append(@, Len(ops) + 1)]
  <2>1. sock[c] \in Conns \/ sock[c] \notin Conns
    OBVIOUS
  <2>2. \/ up' = up
        \/ up' = [up EXCEPT ![sock[c]] = Append(@, Len(ops) + 1)]
    BY DEF SendOp
  <2>3. ASSUME sock[c] \notin Conns, up' = [up EXCEPT ![sock[c]] = Append(@, Len(ops) + 1)]
        PROVE  up' = up
    BY <2>3
  <2> QED
    BY <2>1, <2>2, <2>3
<1>3. CASE up' = up
  BY <1>1, <1>3
<1>4. ASSUME NEW n \in Conns, up' = [up EXCEPT ![n] = Append(@, Len(ops) + 1)]
      PROVE  /\ up' \in [Conns -> Seq(Nat)]
             /\ \A m \in Conns : \A k \in DOMAIN up'[m] : up'[m][k] \in OpIds'
  BY <1>1, <1>4
<1> QED
  BY <1>1, <1>2, <1>3, <1>4

\* What keeps each part: the variables it is about.
LEMMA Frame ==
    /\ ServerTypeOK /\ UNCHANGED <<doc, roomOpen, rooms, opOrder, loop>> => ServerTypeOK'
    /\ CallTypeOK /\ UNCHANGED <<agent, restoring>> => CallTypeOK'
    /\ ConnTypeOK /\ UNCHANGED <<clients, stage, closed, toState, captured, up, down>>
          => ConnTypeOK'
    /\ BrowserTypeOK /\ UNCHANGED <<sock, synced, outbox, live>> => BrowserTypeOK'
    /\ HistoryTypeOK /\ UNCHANGED <<ops, log, rejected, drops, restores>> => HistoryTypeOK'
    /\ KnownIds /\ UNCHANGED <<up, outbox, ops>> => KnownIds'
BY DEF ServerTypeOK, CallTypeOK, ConnTypeOK, BrowserTypeOK, HistoryTypeOK, KnownIds, OpIds

\* A connection's queue and its closed flag, after deliverLocked.
LEMMA DeliverKeepsTypes ==
    ASSUME ConnTypeOK, NEW targets \in SUBSET Conns, NEW msg \in Envelopes,
           Deliver(targets, msg), UNCHANGED <<clients, stage, toState>>,
           captured' \subseteq captured, up' \in [Conns -> Seq(Nat)]
    PROVE  ConnTypeOK'
<1>1. down' \in [Conns -> Seq(Envelopes)] /\ closed' \in [Conns -> BOOLEAN]
  BY DeliverType DEF ConnTypeOK
<1> QED
  BY <1>1 DEF ConnTypeOK

\* What handle takes is an operation, and the rest stays what it was.
LEMMA TakesType ==
    ASSUME ConnTypeOK, KnownIds, NEW n \in Conns, Takes(n)
    PROVE  /\ up' \in [Conns -> Seq(Nat)]
           /\ Head(up[n]) \in OpIds
           /\ \A m \in Conns : \A k \in DOMAIN up'[m] : up'[m][k] \in OpIds
<1> USE DEF OpIds
<1>1. up[n] \in Seq(Nat) /\ up[n] # <<>> /\ up' = [up EXCEPT ![n] = Tail(@)]
  BY DEF ConnTypeOK, Takes
<1>2. /\ Tail(up[n]) \in Seq(Nat)
      /\ Len(Tail(up[n])) = Len(up[n]) - 1
      /\ \A k \in 1 .. Len(up[n]) - 1 : Tail(up[n])[k] = up[n][k + 1]
  BY <1>1, HeadTailProperties
<1>3. Head(up[n]) = up[n][1] /\ 1 \in DOMAIN up[n]
  BY <1>1
<1>4. \A k \in DOMAIN Tail(up[n]) : Tail(up[n])[k] \in OpIds
  BY <1>1, <1>2 DEF KnownIds
<1> QED
  BY <1>1, <1>2, <1>3, <1>4 DEF ConnTypeOK, KnownIds

\* What a browser takes is the next envelope.
LEMMA ReceivesType ==
    ASSUME ConnTypeOK, BrowserTypeOK, NEW c \in Clients, NEW t, Receives(c, t)
    PROVE  /\ sock[c] \in Conns
           /\ down' \in [Conns -> Seq(Envelopes)]
           /\ Head(down[sock[c]]) \in Envelopes /\ Head(down[sock[c]]).type = t
<1>1. sock[c] \in Conns
  BY DEF BrowserTypeOK, Receives
<1>2. down[sock[c]] \in Seq(Envelopes) /\ down[sock[c]] # <<>>
  BY <1>1 DEF ConnTypeOK, Receives
<1>3. Head(down[sock[c]]) \in Envelopes /\ Tail(down[sock[c]]) \in Seq(Envelopes)
  BY <1>2
<1> QED
  BY <1>1, <1>3 DEF ConnTypeOK, Receives

\* Deleting an id from an outbox.
LEMMA OutboxDeleteType ==
    ASSUME BrowserTypeOK, KnownIds, NEW c \in Clients, NEW id, OutboxDelete(c, id)
    PROVE  /\ outbox' \in [Clients -> Seq(Nat)]
           /\ \A d \in Clients : \A k \in DOMAIN outbox'[d] : outbox'[d][k] \in OpIds
<1> USE DEF OpIds
<1>1. CASE UNCHANGED outbox
  BY <1>1 DEF BrowserTypeOK, KnownIds
<1>2. ASSUME NEW p \in DOMAIN outbox[c], outbox' = [outbox EXCEPT ![c] = RemoveAt(@, p)]
      PROVE  /\ outbox' \in [Clients -> Seq(Nat)]
             /\ \A d \in Clients : \A k \in DOMAIN outbox'[d] : outbox'[d][k] \in OpIds
  <2> DEFINE s == outbox[c]
             r == RemoveAt(s, p)
  <2>1. s \in Seq(Nat) /\ p \in 1 .. Len(s) /\ DOMAIN s = 1 .. Len(s)
    BY DEF BrowserTypeOK
  <2>2. \A k \in 1 .. Len(s) : s[k] \in OpIds
    BY <2>1 DEF KnownIds
  <2> HIDE DEF s
  <2>3. /\ r \in Seq(Nat) /\ Len(r) = Len(s) - 1
        /\ \A i \in 1 .. Len(s) - 1 : r[i] = IF i < p THEN s[i] ELSE s[i + 1]
    BY <2>1, RemoveAtProperties
  <2> HIDE DEF r
  <2>4. \A k \in DOMAIN r : r[k] \in OpIds
    <3>1. DOMAIN r = 1 .. Len(s) - 1
      BY <2>3, LenProperties
    <3>2. \A k \in 1 .. Len(s) - 1 : k \in 1 .. Len(s) /\ k + 1 \in 1 .. Len(s)
      BY <2>1
    <3> QED
      BY <2>2, <2>3, <3>1, <3>2
  <2>5. outbox' = [outbox EXCEPT ![c] = r]
    BY <1>2 DEF r, s
  <2> QED
    BY <2>3, <2>4, <2>5 DEF BrowserTypeOK, KnownIds
<1> QED
  BY <1>1, <1>2 DEF OutboxDelete

\* Every action of browsers, server and agent keeps the types.
LEMMA TypeStep == TypeInv /\ [Next]_vars => TypeInv'
<1> USE DEF OpIds
<1> SUFFICES ASSUME TypeInv, [Next]_vars PROVE TypeInv'
  OBVIOUS
<1> USE DEF serverVars, connVars, sendVars, callVars, browserVars, logVars, boundVars
<1>0. ServerTypeOK /\ CallTypeOK /\ ConnTypeOK /\ BrowserTypeOK /\ HistoryTypeOK /\ KnownIds
  BY DEF TypeInv, ProtocolTypeOK
<1>1. ASSUME NEW c \in Clients, NEW e \in EditsOf[c], Commit(c, e) PROVE TypeInv'
  <2>1. ServerTypeOK' /\ CallTypeOK'
    BY <1>0, <1>1, Frame DEF Commit
  <2>2. /\ ops' = Append(ops, [by |-> c, edit |-> e, live |-> FALSE])
        /\ SendOp(c, Len(ops) + 1) /\ e \in Edit
    BY <1>1, SyncAssumption DEF Commit, SyncAssumption
  <2>3. /\ ops' \in Seq([by : Clients \cup {Agent}, edit : Edit, live : BOOLEAN])
        /\ Len(ops') = Len(ops) + 1
        /\ up' \in [Conns -> Seq(Nat)]
        /\ \A n \in Conns : \A k \in DOMAIN up'[n] : up'[n][k] \in OpIds'
    BY <2>2, NewOpType
  <2>4. ConnTypeOK'
    BY <1>0, <1>1, <2>3 DEF Commit, ConnTypeOK
  <2>5. HistoryTypeOK'
    BY <1>0, <1>1, <2>3 DEF Commit, HistoryTypeOK
  <2>6. Len(ops) \in Nat
    BY <1>0 DEF HistoryTypeOK
  <2>7. BrowserTypeOK'
    BY <1>0, <1>1, <2>6 DEF Commit, BrowserTypeOK
  <2>8. KnownIds'
    BY <1>0, <1>1, <2>3, <2>6 DEF Commit, KnownIds, BrowserTypeOK
  <2> QED
    BY <2>1, <2>4, <2>5, <2>7, <2>8 DEF TypeInv, ProtocolTypeOK
<1>2. ASSUME NEW c \in Clients, NEW e \in LiveEditsOf[c], CommitLive(c, e) PROVE TypeInv'
  <2>1. ServerTypeOK' /\ CallTypeOK'
    BY <1>0, <1>2, Frame DEF CommitLive
  <2>2. /\ ops' = Append(ops, [by |-> c, edit |-> e, live |-> TRUE])
        /\ SendOp(c, Len(ops) + 1) /\ e \in Edit
    BY <1>2, SyncAssumption DEF CommitLive, SyncAssumption
  <2>3. /\ ops' \in Seq([by : Clients \cup {Agent}, edit : Edit, live : BOOLEAN])
        /\ Len(ops') = Len(ops) + 1
        /\ up' \in [Conns -> Seq(Nat)]
        /\ \A n \in Conns : \A k \in DOMAIN up'[n] : up'[n][k] \in OpIds'
    BY <2>2, NewOpType
  <2>4. ConnTypeOK'
    BY <1>0, <1>2, <2>3 DEF CommitLive, ConnTypeOK
  <2>5. HistoryTypeOK'
    BY <1>0, <1>2, <2>3 DEF CommitLive, HistoryTypeOK
  <2>6. Len(ops) \in Nat
    BY <1>0 DEF HistoryTypeOK
  <2>7. BrowserTypeOK'
    BY <1>0, <1>2, <2>6 DEF CommitLive, BrowserTypeOK
  <2>8. KnownIds'
    BY <1>0, <1>2, <2>3, <2>6 DEF CommitLive, KnownIds, BrowserTypeOK
  <2> QED
    BY <2>1, <2>4, <2>5, <2>7, <2>8 DEF TypeInv, ProtocolTypeOK
<1>3. ASSUME NEW c \in Clients, Connect(c) PROVE TypeInv'
  <2>1. ServerTypeOK' /\ CallTypeOK' /\ HistoryTypeOK' /\ KnownIds'
    BY <1>0, <1>3, Frame DEF Connect
  <2>2. ConnTypeOK'
    BY <1>0, <1>3 DEF Connect, ConnTypeOK
  <2>3. BrowserTypeOK'
    BY <1>0, <1>3 DEF Connect, BrowserTypeOK
  <2> QED
    BY <2>1, <2>2, <2>3 DEF TypeInv, ProtocolTypeOK
<1>4. ASSUME NEW n \in Conns, JoinRegister(n) PROVE TypeInv'
  <2>1. CallTypeOK' /\ BrowserTypeOK' /\ HistoryTypeOK' /\ KnownIds'
    BY <1>0, <1>4, Frame DEF JoinRegister
  <2>2. ServerTypeOK'
    BY <1>0, <1>4, SyncAssumption DEF JoinRegister, ServerTypeOK, SyncAssumption
  <2>3. toState' \subseteq Sends
    BY <1>0, <1>4 DEF JoinRegister, ConnTypeOK, Sends
  <2>4. ConnTypeOK'
    BY <1>0, <1>4, <2>3, OwnerType DEF JoinRegister, ConnTypeOK
  <2> QED
    BY <2>1, <2>2, <2>4 DEF TypeInv, ProtocolTypeOK
<1>5. ASSUME NEW s \in toState, CaptureState(s) PROVE TypeInv'
  <2>1. ServerTypeOK' /\ CallTypeOK' /\ BrowserTypeOK' /\ HistoryTypeOK' /\ KnownIds'
    BY <1>0, <1>5, Frame DEF CaptureState
  <2>2. LogIds \in SUBSET Nat
    BY <1>0, LogIdsType
  <2>3. captured' \subseteq Copies
    <3>1. s \in Sends /\ doc \in Objects /\ captured \subseteq Copies
      BY <1>0 DEF ConnTypeOK, ServerTypeOK
    <3>2. [conn |-> s.conn, why |-> s.why, objs |-> doc, upto |-> LogIds] \in Copies
      BY <2>2, <3>1 DEF Sends, Copies
    <3> QED
      BY <1>5, <3>1, <3>2 DEF CaptureState
  <2>4. ConnTypeOK'
    BY <1>0, <1>5, <2>3 DEF CaptureState, ConnTypeOK
  <2> QED
    BY <2>1, <2>4 DEF TypeInv, ProtocolTypeOK
<1>6. ASSUME NEW s \in captured, EnqueueState(s) PROVE TypeInv'
  <2>1. ServerTypeOK' /\ CallTypeOK' /\ BrowserTypeOK' /\ HistoryTypeOK' /\ KnownIds'
    BY <1>0, <1>6, Frame DEF EnqueueState
  <2>2. s \in Copies
    BY <1>0 DEF ConnTypeOK
  <2>3. Open(s.conn) \in SUBSET Conns /\ StateEnvelope(s.objs, s.upto) \in Envelopes
    BY <2>2, EnvelopeType DEF Open, Copies
  <2>4. captured' \subseteq captured /\ up' \in [Conns -> Seq(Nat)]
    BY <1>0, <1>6 DEF EnqueueState, ConnTypeOK
  <2>5. ConnTypeOK'
    BY <1>0, <1>6, <2>3, <2>4, DeliverKeepsTypes DEF EnqueueState
  <2> QED
    BY <2>1, <2>5 DEF TypeInv, ProtocolTypeOK
<1>7. ASSUME NEW n \in Conns, DialLost(n) PROVE TypeInv'
  <2>1. ServerTypeOK' /\ CallTypeOK' /\ BrowserTypeOK' /\ HistoryTypeOK' /\ KnownIds'
    BY <1>0, <1>7, Frame DEF DialLost
  <2>2. ConnTypeOK'
    BY <1>0, <1>7 DEF DialLost, ConnTypeOK
  <2> QED
    BY <2>1, <2>2 DEF TypeInv, ProtocolTypeOK
<1>8. ASSUME NEW n \in Conns, HandleDuplicate(n) PROVE TypeInv'
  <2>1. ServerTypeOK' /\ CallTypeOK' /\ BrowserTypeOK' /\ HistoryTypeOK'
    BY <1>0, <1>8, Frame DEF HandleDuplicate
  <2>2. /\ up' \in [Conns -> Seq(Nat)] /\ Head(up[n]) \in OpIds
        /\ \A m \in Conns : \A k \in DOMAIN up'[m] : up'[m][k] \in OpIds
    BY <1>0, <1>8, TakesType DEF HandleDuplicate
  <2>3. KnownIds'
    BY <1>0, <1>8, <2>2 DEF HandleDuplicate, KnownIds
  <2>4. Open(n) \in SUBSET Conns /\ OpEnvelope(Head(up[n])) \in Envelopes
    BY <2>2, EnvelopeType DEF Open
  <2>5. ConnTypeOK'
    BY <1>0, <1>8, <2>2, <2>4, DeliverKeepsTypes DEF HandleDuplicate
  <2> QED
    BY <2>1, <2>3, <2>5 DEF TypeInv, ProtocolTypeOK
<1>9. ASSUME NEW n \in Conns, HandleRejected(n) PROVE TypeInv'
  <2>1. ServerTypeOK' /\ CallTypeOK' /\ BrowserTypeOK'
    BY <1>0, <1>9, Frame DEF HandleRejected
  <2>2. /\ up' \in [Conns -> Seq(Nat)] /\ Head(up[n]) \in OpIds
        /\ \A m \in Conns : \A k \in DOMAIN up'[m] : up'[m][k] \in OpIds
    BY <1>0, <1>9, TakesType DEF HandleRejected
  <2>3. KnownIds'
    BY <1>0, <1>9, <2>2 DEF HandleRejected, KnownIds
  <2>4. Open(n) \in SUBSET Conns /\ ErrorEnvelope(Head(up[n])) \in Envelopes
    BY <2>2, EnvelopeType DEF Open
  <2>5. ConnTypeOK'
    BY <1>0, <1>9, <2>2, <2>4, DeliverKeepsTypes DEF HandleRejected
  <2>6. HistoryTypeOK'
    <3>1. Head(up[n]) \in Nat
      BY <1>0, <2>2 DEF HistoryTypeOK
    <3> QED
      BY <1>0, <1>9, <3>1 DEF HandleRejected, HistoryTypeOK
  <2> QED
    BY <2>1, <2>3, <2>5, <2>6 DEF TypeInv, ProtocolTypeOK
<1>10. ASSUME NEW n \in Conns, HandleApply(n) PROVE TypeInv'
  <2>1. CallTypeOK' /\ BrowserTypeOK'
    BY <1>0, <1>10, Frame DEF HandleApply
  <2>2. /\ up' \in [Conns -> Seq(Nat)] /\ Head(up[n]) \in OpIds
        /\ \A m \in Conns : \A k \in DOMAIN up'[m] : up'[m][k] \in OpIds
    BY <1>0, <1>10, TakesType DEF HandleApply
  <2>3. KnownIds'
    BY <1>0, <1>10, <2>2 DEF HandleApply, KnownIds
  <2>4. Head(up[n]) \in Nat /\ ops[Head(up[n])].edit \in Edit
    BY <1>0, <2>2, OpsElement
  <2>5. doc' \in Objects
    BY <1>0, <1>10, <2>4, ApplyType DEF HandleApply, ServerTypeOK
  <2>6. opOrder' \in Seq(Nat) /\ Len(opOrder') <= RecentOps
    <3>1. <<Head(up[n])>> \in Seq(Nat)
      BY <2>4
    <3> QED
      BY <1>0, <1>10, <3>1, RecordOpsType DEF HandleApply, ServerTypeOK
  <2>7. ServerTypeOK'
    BY <1>0, <1>10, <2>4, <2>5, <2>6 DEF HandleApply, ServerTypeOK
  <2>8. ConnTypeOK'
    BY <1>0, <1>10, <2>2 DEF HandleApply, ConnTypeOK
  <2>9. HistoryTypeOK'
    BY <1>0, <1>10, <2>4 DEF HandleApply, HistoryTypeOK, ServerTypeOK
  <2> QED
    BY <2>1, <2>3, <2>7, <2>8, <2>9 DEF TypeInv, ProtocolTypeOK
<1>11. CASE Broadcast
  <2>1. CallTypeOK' /\ BrowserTypeOK' /\ HistoryTypeOK' /\ KnownIds'
    BY <1>0, <1>11, Frame DEF Broadcast
  <2>2. Listening \in SUBSET Conns /\ OpEnvelope(loop) \in Envelopes
    BY <1>0, EnvelopeType DEF Listening, ServerTypeOK
  <2>3. captured' \subseteq captured /\ up' \in [Conns -> Seq(Nat)]
    BY <1>0, <1>11 DEF Broadcast, ConnTypeOK
  <2>4. ConnTypeOK'
    BY <1>0, <1>11, <2>2, <2>3, DeliverKeepsTypes DEF Broadcast
  <2>5. ServerTypeOK'
    BY <1>0, <1>11 DEF Broadcast, ServerTypeOK, Idle
  <2> QED
    BY <2>1, <2>4, <2>5 DEF TypeInv, ProtocolTypeOK
<1>12. ASSUME NEW c \in Clients, ReceiveState(c) PROVE TypeInv'
  <2>1. ServerTypeOK' /\ CallTypeOK' /\ HistoryTypeOK'
    BY <1>0, <1>12, Frame DEF ReceiveState
  <2>2. sock[c] \in Conns /\ down' \in [Conns -> Seq(Envelopes)]
    BY <1>0, <1>12, ReceivesType DEF ReceiveState
  <2>3. /\ up' \in [Conns -> Seq(Nat)]
        /\ \A m \in Conns : \A k \in DOMAIN up'[m] : up'[m][k] \in OpIds
    <3>1. CASE up' = up
      BY <1>0, <3>1 DEF ConnTypeOK, KnownIds
    <3>2. CASE up' = [up EXCEPT ![sock[c]] = @ \o outbox[c]]
      <4> DEFINE u == up[sock[c]]
                 o == outbox[c]
      <4>1. u \in Seq(Nat) /\ o \in Seq(Nat)
        BY <1>0, <2>2 DEF ConnTypeOK, BrowserTypeOK
      <4>2. /\ \A k \in 1 .. Len(u) : u[k] \in OpIds
            /\ \A k \in 1 .. Len(o) : o[k] \in OpIds
        BY <1>0, <2>2, <4>1 DEF KnownIds
      <4> HIDE DEF u, o
      <4>3. /\ u \o o \in Seq(Nat) /\ Len(u \o o) = Len(u) + Len(o)
            /\ \A k \in 1 .. Len(u) + Len(o) :
                  (u \o o)[k] = IF k <= Len(u) THEN u[k] ELSE o[k - Len(u)]
        BY <4>1, ConcatProperties
      <4>4. \A k \in DOMAIN (u \o o) : (u \o o)[k] \in OpIds
        BY <4>1, <4>2, <4>3
      <4>5. up' = [up EXCEPT ![sock[c]] = u \o o]
        BY <3>2 DEF u, o
      <4> QED
        BY <1>0, <2>2, <4>3, <4>4, <4>5 DEF ConnTypeOK, KnownIds
    <3> QED
      BY <1>12, <3>1, <3>2 DEF ReceiveState
  <2>4. ConnTypeOK'
    BY <1>0, <1>12, <2>2, <2>3 DEF ReceiveState, ConnTypeOK
  <2>5. BrowserTypeOK'
    BY <1>0, <1>12 DEF ReceiveState, BrowserTypeOK
  <2>6. KnownIds'
    BY <1>0, <1>12, <2>3 DEF ReceiveState, KnownIds
  <2> QED
    BY <2>1, <2>4, <2>5, <2>6 DEF TypeInv, ProtocolTypeOK
<1>13. ASSUME NEW c \in Clients, ReceiveOp(c) PROVE TypeInv'
  <2>1. ServerTypeOK' /\ CallTypeOK' /\ HistoryTypeOK'
    BY <1>0, <1>13, Frame DEF ReceiveOp
  <2>2. down' \in [Conns -> Seq(Envelopes)]
    BY <1>0, <1>13, ReceivesType DEF ReceiveOp
  <2>3. /\ outbox' \in [Clients -> Seq(Nat)]
        /\ \A d \in Clients : \A k \in DOMAIN outbox'[d] : outbox'[d][k] \in OpIds
    BY <1>0, <1>13, OutboxDeleteType DEF ReceiveOp
  <2>4. ConnTypeOK'
    BY <1>0, <1>13, <2>2 DEF ReceiveOp, ConnTypeOK
  <2>5. live' \in [Clients -> SUBSET Nat]
    BY <1>0, <1>13 DEF ReceiveOp, BrowserTypeOK
  <2>6. BrowserTypeOK'
    BY <1>0, <1>13, <2>3, <2>5 DEF ReceiveOp, BrowserTypeOK
  <2>7. KnownIds'
    BY <1>0, <1>13, <2>3 DEF ReceiveOp, KnownIds
  <2> QED
    BY <2>1, <2>4, <2>6, <2>7 DEF TypeInv, ProtocolTypeOK
<1>14. ASSUME NEW c \in Clients, ReceiveError(c) PROVE TypeInv'
  <2>1. ServerTypeOK' /\ CallTypeOK' /\ HistoryTypeOK'
    BY <1>0, <1>14, Frame DEF ReceiveError
  <2>2. down' \in [Conns -> Seq(Envelopes)]
    BY <1>0, <1>14, ReceivesType DEF ReceiveError
  <2>3. /\ outbox' \in [Clients -> Seq(Nat)]
        /\ \A d \in Clients : \A k \in DOMAIN outbox'[d] : outbox'[d][k] \in OpIds
    BY <1>0, <1>14, OutboxDeleteType DEF ReceiveError
  <2>4. ConnTypeOK'
    BY <1>0, <1>14, <2>2 DEF ReceiveError, ConnTypeOK
  <2>5. live' \in [Clients -> SUBSET Nat]
    BY <1>0, <1>14 DEF ReceiveError, BrowserTypeOK
  <2>6. BrowserTypeOK'
    BY <1>0, <1>14, <2>3, <2>5 DEF ReceiveError, BrowserTypeOK
  <2>7. KnownIds'
    BY <1>0, <1>14, <2>3 DEF ReceiveError, KnownIds
  <2> QED
    BY <2>1, <2>4, <2>6, <2>7 DEF TypeInv, ProtocolTypeOK
<1>15. ASSUME NEW c \in Clients, Disconnect(c) PROVE TypeInv'
  <2>1. ServerTypeOK' /\ CallTypeOK'
    BY <1>0, <1>15, Frame DEF Disconnect
  <2>2. sock[c] \in Conns /\ CutUp(sock[c])
    BY <1>0, <1>15 DEF Disconnect, BrowserTypeOK
  <2>3. up' \in [Conns -> Seq(Nat)]
    BY <1>0, <2>2, CutUpType DEF ConnTypeOK
  <2>4. \A m \in Conns : \A k \in DOMAIN up'[m] : up'[m][k] \in OpIds
    <3>1. \A m \in Conns : /\ Len(up'[m]) <= Len(up[m])
                            /\ \A i \in 1 .. Len(up'[m]) : up'[m][i] = up[m][i]
      BY <1>0, <2>2, CutUpType DEF ConnTypeOK
    <3>2. \A m \in Conns : /\ DOMAIN up[m] = 1 .. Len(up[m]) /\ Len(up[m]) \in Nat
                            /\ DOMAIN up'[m] = 1 .. Len(up'[m]) /\ Len(up'[m]) \in Nat
      BY <1>0, <2>3 DEF ConnTypeOK
    <3> QED
      BY <1>0, <3>1, <3>2 DEF KnownIds
  <2>5. ConnTypeOK'
    BY <1>0, <1>15, <2>3 DEF Disconnect, ConnTypeOK
  <2>6. BrowserTypeOK'
    BY <1>0, <1>15 DEF Disconnect, Detach, BrowserTypeOK
  <2>7. HistoryTypeOK'
    BY <1>0, <1>15 DEF Disconnect, HistoryTypeOK
  <2>8. KnownIds'
    BY <1>0, <1>15, <2>4 DEF Disconnect, KnownIds
  <2> QED
    BY <2>1, <2>5, <2>6, <2>7, <2>8 DEF TypeInv, ProtocolTypeOK
<1>16. ASSUME NEW c \in Clients, Kicked(c) PROVE TypeInv'
  <2>1. ServerTypeOK' /\ CallTypeOK' /\ ConnTypeOK' /\ HistoryTypeOK' /\ KnownIds'
    BY <1>0, <1>16, Frame DEF Kicked
  <2>2. BrowserTypeOK'
    BY <1>0, <1>16 DEF Kicked, Detach, BrowserTypeOK
  <2> QED
    BY <2>1, <2>2 DEF TypeInv, ProtocolTypeOK
<1>17. ASSUME NEW n \in Conns, ServerLeave(n) PROVE TypeInv'
  <2>1. ServerTypeOK' /\ CallTypeOK' /\ BrowserTypeOK' /\ HistoryTypeOK'
    BY <1>0, <1>17, Frame DEF ServerLeave
  <2>2. n \in Conns /\ CutUp(n)
    BY <1>17 DEF ServerLeave
  <2>3. up' \in [Conns -> Seq(Nat)]
    BY <1>0, <2>2, CutUpType DEF ConnTypeOK
  <2>4. \A m \in Conns : \A k \in DOMAIN up'[m] : up'[m][k] \in OpIds
    <3>1. \A m \in Conns : /\ Len(up'[m]) <= Len(up[m])
                            /\ \A i \in 1 .. Len(up'[m]) : up'[m][i] = up[m][i]
      BY <1>0, <2>2, CutUpType DEF ConnTypeOK
    <3>2. \A m \in Conns : /\ DOMAIN up[m] = 1 .. Len(up[m]) /\ Len(up[m]) \in Nat
                            /\ DOMAIN up'[m] = 1 .. Len(up'[m]) /\ Len(up'[m]) \in Nat
      BY <1>0, <2>3 DEF ConnTypeOK
    <3> QED
      BY <1>0, <3>1, <3>2 DEF KnownIds
  <2>5. ConnTypeOK'
    BY <1>0, <1>17, <2>3, OwnerType DEF ServerLeave, ConnTypeOK
  <2>6. KnownIds'
    BY <1>0, <1>17, <2>4 DEF ServerLeave, KnownIds
  <2> QED
    BY <2>1, <2>5, <2>6 DEF TypeInv, ProtocolTypeOK
<1>18. CASE Evict
  <2>0. CallTypeOK'
    <3>1. CASE agent.pc = "recorded"
      BY <1>0, <1>18, <3>1, NoCallType DEF Evict
    <3>2. CASE agent.pc # "recorded"
      BY <1>0, <1>18, <3>2, Frame DEF Evict, callVars
    <3> QED
      BY <3>1, <3>2
  <2>1. BrowserTypeOK' /\ HistoryTypeOK'
    BY <1>0, <1>18, Frame DEF Evict
  <2>2. ServerTypeOK'
    <3>1. <<>> \in Seq(Nat) /\ Len(<<>>) <= RecentOps
      BY SyncAssumption DEF SyncAssumption
    <3>2. opOrder' = <<>> /\ loop' = 0 /\ doc' = doc /\ rooms' = rooms /\ roomOpen' = FALSE
      BY <1>18 DEF Evict, Idle
    <3> QED
      BY <1>0, <3>1, <3>2 DEF ServerTypeOK
  <2>3. ConnTypeOK'
    BY <1>0, <1>18 DEF Evict, ConnTypeOK
  <2>4. KnownIds'
    BY <1>0, <1>18 DEF Evict, KnownIds
  <2> QED
    BY <2>0, <2>1, <2>2, <2>3, <2>4 DEF TypeInv, ProtocolTypeOK
<1>19. ASSUME NEW edits \in Batches, AgentCall(edits) PROVE TypeInv'
  <2>1. ServerTypeOK' /\ ConnTypeOK' /\ BrowserTypeOK' /\ HistoryTypeOK' /\ KnownIds'
    BY <1>0, <1>19, Frame DEF AgentCall
  <2>2. CallTypeOK'
    BY <1>0, <1>19, AgentEdits DEF AgentCall, CallTypeOK
  <2> QED
    BY <2>1, <2>2 DEF TypeInv, ProtocolTypeOK
<1>20. CASE AgentApply
  <2>1. ConnTypeOK' /\ BrowserTypeOK'
    BY <1>0, <1>20, Frame DEF AgentApply
  <2>2. agent.edits \in Seq(Edit) /\ agent.edits # <<>>
    BY <1>0, <1>20 DEF AgentApply, CallTypeOK
  <2>3. Head(agent.edits) \in Edit /\ Tail(agent.edits) \in Seq(Edit)
    BY <2>2
  <2>4. /\ ops' \in Seq([by : Clients \cup {Agent}, edit : Edit, live : BOOLEAN])
        /\ Len(ops') = Len(ops) + 1 /\ Len(ops) \in Nat
    BY <1>0, <1>20, <2>3 DEF AgentApply, HistoryTypeOK
  <2>5. KnownIds'
    BY <1>0, <1>20, <2>4 DEF AgentApply, KnownIds
  <2>6. CallTypeOK'
    <3>1. CASE Rejects(doc, Head(agent.edits))
      <4>1. agent' = NoCall /\ restoring' = restoring
        BY <1>20, <3>1 DEF AgentApply
      <4> QED
        BY <1>0, <4>1, NoCallType
    <3>2. CASE ~Rejects(doc, Head(agent.edits))
      <4>1. agent.ids \in Seq(Nat) /\ Append(agent.ids, Len(ops) + 1) \in Seq(Nat)
        BY <1>0, <2>4 DEF CallTypeOK
      <4>2. agent' = [pc |-> IF Tail(agent.edits) = <<>> THEN "applied" ELSE "applying",
                      edits |-> Tail(agent.edits), ids |-> Append(agent.ids, Len(ops) + 1)]
        BY <1>20, <3>2 DEF AgentApply
      <4>3. Append(agent.ids, Len(ops) + 1) # <<>>
        <5>1. Len(Append(agent.ids, Len(ops) + 1)) # 0
          BY <2>4, <4>1
        <5>2. Len(<<>>) = 0
          OBVIOUS
        <5> QED
          BY <5>1, <5>2, Zenon
      <4>4. restoring' = restoring
        BY <1>20 DEF AgentApply
      <4>5. agent' \in [pc : {"idle", "applying", "applied", "recorded"},
                        edits : Seq(Edit), ids : Seq(Nat)]
        BY <2>3, <4>1, <4>2
      <4> QED
        BY <1>0, <4>2, <4>3, <4>4, <4>5 DEF CallTypeOK
    <3> QED
      BY <3>1, <3>2
  <2>7. doc' \in Objects
    BY <1>0, <1>20, <2>3, ApplyType DEF AgentApply, ServerTypeOK
  <2>8. ServerTypeOK'
    BY <1>0, <1>20, <2>7 DEF AgentApply, ServerTypeOK
  <2>9. log' \in Seq([id : Nat, room : 0 .. MaxRooms])
    <3> DEFINE R == [id : Nat, room : 0 .. MaxRooms]
               entry == [id |-> Len(ops) + 1, room |-> rooms]
    <3>1. entry \in R
      BY <1>0, <2>4 DEF ServerTypeOK
    <3>2. log' = log \/ log' = Append(log, entry)
      BY <1>20 DEF AgentApply
    <3>3. log \in Seq(R)
      BY <1>0 DEF HistoryTypeOK
    <3> HIDE DEF R, entry
    <3>4. log' \in Seq(R)
      BY <3>1, <3>2, <3>3
    <3> QED
      BY <3>4 DEF R
  <2>10. HistoryTypeOK'
    BY <1>0, <1>20, <2>4, <2>9 DEF AgentApply, HistoryTypeOK
  <2> QED
    BY <2>1, <2>5, <2>6, <2>8, <2>10 DEF TypeInv, ProtocolTypeOK
<1>21. CASE AgentRecord
  <2>1. ConnTypeOK' /\ BrowserTypeOK' /\ HistoryTypeOK' /\ KnownIds'
    BY <1>0, <1>21, Frame DEF AgentRecord
  <2>2. opOrder' \in Seq(Nat) /\ Len(opOrder') <= RecentOps
    <3>1. agent.ids \in Seq(Nat)
      BY <1>0 DEF CallTypeOK
    <3> QED
      BY <1>0, <1>21, <3>1, RecordOpsType DEF AgentRecord, ServerTypeOK
  <2>3. ServerTypeOK'
    BY <1>0, <1>21, <2>2 DEF AgentRecord, ServerTypeOK
  <2>4. CallTypeOK'
    <3>1. CASE roomOpen
      BY <1>0, <1>21, <3>1 DEF AgentRecord, CallTypeOK
    <3>2. CASE ~roomOpen
      BY <1>0, <1>21, <3>2, NoCallType DEF AgentRecord
    <3> QED
      BY <3>1, <3>2
  <2> QED
    BY <2>1, <2>3, <2>4 DEF TypeInv, ProtocolTypeOK
<1>22. CASE AgentBroadcast
  <2>1. ServerTypeOK' /\ BrowserTypeOK' /\ HistoryTypeOK' /\ KnownIds'
    BY <1>0, <1>22, Frame DEF AgentBroadcast
  <2>2. agent.ids \in Seq(Nat) /\ agent.ids # <<>>
    BY <1>0, <1>22 DEF AgentBroadcast, CallTypeOK
  <2>3. Listening \in SUBSET Conns /\ OpEnvelope(Head(agent.ids)) \in Envelopes
    BY <2>2, EnvelopeType DEF Listening
  <2>4. captured' \subseteq captured /\ up' \in [Conns -> Seq(Nat)]
    BY <1>0, <1>22 DEF AgentBroadcast, ConnTypeOK
  <2>5. ConnTypeOK'
    BY <1>0, <1>22, <2>3, <2>4, DeliverKeepsTypes DEF AgentBroadcast
  <2>6. CallTypeOK'
    <3>1. CASE Len(agent.ids) = 1
      BY <1>0, <1>22, <3>1, NoCallType DEF AgentBroadcast
    <3>2. CASE Len(agent.ids) # 1
      <4>1. Tail(agent.ids) \in Seq(Nat) /\ Len(Tail(agent.ids)) = Len(agent.ids) - 1
        BY <2>2, HeadTailProperties
      <4>2. Len(agent.ids) \in Nat /\ Len(agent.ids) # 0
        BY <2>2
      <4>3. Tail(agent.ids) # <<>>
        <5>1. Len(Tail(agent.ids)) # 0
          BY <3>2, <4>1, <4>2
        <5>2. Len(<<>>) = 0
          OBVIOUS
        <5> QED
          BY <5>1, <5>2, Zenon
      <4>4. agent' = [agent EXCEPT !.ids = Tail(agent.ids)] /\ restoring' = restoring
        BY <1>22, <3>2 DEF AgentBroadcast
      <4> QED
        BY <1>0, <4>1, <4>3, <4>4 DEF CallTypeOK
    <3> QED
      BY <3>1, <3>2
  <2> QED
    BY <2>1, <2>5, <2>6 DEF TypeInv, ProtocolTypeOK
<1>23. CASE RestoreSnapshot
  <2>1. ConnTypeOK' /\ BrowserTypeOK' /\ KnownIds'
    BY <1>0, <1>23, Frame DEF RestoreSnapshot
  <2>2. ServerTypeOK'
    BY <1>0, <1>23, SyncAssumption DEF RestoreSnapshot, ServerTypeOK, SyncAssumption
  <2>3. CallTypeOK'
    BY <1>0, <1>23 DEF RestoreSnapshot, CallTypeOK
  <2>4. HistoryTypeOK'
    BY <1>0, <1>23 DEF RestoreSnapshot, HistoryTypeOK
  <2> QED
    BY <2>1, <2>2, <2>3, <2>4 DEF TypeInv, ProtocolTypeOK
<1>24. CASE BroadcastState
  <2>1. ServerTypeOK' /\ BrowserTypeOK' /\ HistoryTypeOK' /\ KnownIds'
    BY <1>0, <1>24, Frame DEF BroadcastState
  <2>2. CallTypeOK'
    BY <1>0, <1>24 DEF BroadcastState, CallTypeOK
  <2>3. toState' \subseteq Sends
    BY <1>0, <1>24 DEF BroadcastState, ConnTypeOK, Sends
  <2>4. ConnTypeOK'
    BY <1>0, <1>24, <2>3 DEF BroadcastState, ConnTypeOK
  <2> QED
    BY <2>1, <2>2, <2>4 DEF TypeInv, ProtocolTypeOK
<1>25. CASE UNCHANGED vars
  <2>1. ServerTypeOK' /\ CallTypeOK' /\ ConnTypeOK' /\ BrowserTypeOK' /\ HistoryTypeOK' /\ KnownIds'
    BY <1>0, <1>25, Frame DEF vars
  <2> QED
    BY <2>1 DEF TypeInv, ProtocolTypeOK
<1> QED
  BY <1>1, <1>2, <1>3, <1>4, <1>5, <1>6, <1>7, <1>8, <1>9, <1>10, <1>11, <1>12,
     <1>13, <1>14, <1>15, <1>16, <1>17, <1>18, <1>19, <1>20, <1>21, <1>22,
     <1>23, <1>24, <1>25
  DEF Next, BrowserStep, ServerStep, CallStep, Receive, Handle

\* The types of everything but the replicas: in particular the room's memory of
\* ids stays within RecentOps, and only operations somebody made are on their way.
THEOREM TypesPreserved == Spec => [](ProtocolTypeOK /\ KnownIds)
<1>1. Init => TypeInv
  BY TypeInit
<1>2. TypeInv /\ [Next]_vars => TypeInv'
  BY TypeStep
<1>3. TypeInv => ProtocolTypeOK /\ KnownIds
  BY DEF TypeInv
<1> QED
  BY <1>1, <1>2, <1>3, PTL DEF Spec
(***************************************************************************)
(* No committed operation is lost.                                         *)
(*                                                                         *)
(* An outbox forgets an operation only on an envelope about it, so the     *)
(* inductive invariant has to say what the envelopes on their way are worth*)
(* - AnswersTrue - besides NoLostCommit itself and the types.              *)
(***************************************************************************)

SafeInv == AnswersTrue /\ NoLostCommit

-----------------------------------------------------------------------------
(* Lemmas about the history. *)

\* An application adds its id to those applied.
LEMMA LogGrows ==
    ASSUME HistoryTypeOK, NEW id \in Nat, NEW r \in 0 .. MaxRooms,
           log' = Append(log, [id |-> id, room |-> r])
    PROVE  LogIds' = LogIds \cup {id}
<1> DEFINE R == [id : Nat, room : 0 .. MaxRooms]
           entry == [id |-> id, room |-> r]
<1>1. log \in Seq(R) /\ entry \in R /\ entry.id = id
  BY DEF HistoryTypeOK
<1> HIDE DEF R, entry
<1>2. /\ log' \in Seq(R) /\ Len(log') = Len(log) + 1 /\ Len(log) \in Nat
      /\ \A k \in 1 .. Len(log) : log'[k] = log[k]
      /\ log'[Len(log) + 1] = entry
  <2>1. log' = Append(log, entry)
    BY DEF entry
  <2> QED
    BY <1>1, <2>1, AppendProperties
<1>3. DOMAIN log = 1 .. Len(log) /\ DOMAIN log' = 1 .. Len(log) + 1
  BY <1>1, <1>2, LenProperties
<1> QED
  BY <1>1, <1>2, <1>3 DEF LogIds

\* An operation that is made leaves the others what they were.
LEMMA OpsGrow ==
    ASSUME HistoryTypeOK, NEW by \in Clients \cup {Agent}, NEW e \in Edit, NEW l \in BOOLEAN,
           ops' = Append(ops, [by |-> by, edit |-> e, live |-> l])
    PROVE  \A c \in Clients : Committed(c)' \subseteq
              Committed(c) \cup (IF by = c /\ ~l THEN {Len(ops) + 1} ELSE {})
<1> DEFINE R == [by : Clients \cup {Agent}, edit : Edit, live : BOOLEAN]
           o == [by |-> by, edit |-> e, live |-> l]
<1>1. ops \in Seq(R) /\ o \in R /\ o.by = by /\ o.live = l
  BY DEF HistoryTypeOK
<1>2. ops' = Append(ops, o)
  OBVIOUS
<1> HIDE DEF R, o
<1>3. /\ Len(ops') = Len(ops) + 1 /\ Len(ops) \in Nat
      /\ \A k \in 1 .. Len(ops) : ops'[k] = ops[k]
      /\ ops'[Len(ops) + 1] = o
  BY <1>1, <1>2, AppendProperties
<1> QED
  BY <1>1, <1>3 DEF Committed, OpIds

-----------------------------------------------------------------------------
(* Lemmas about the sequences. *)

\* Deleting an entry removes nothing else.
LEMMA RemoveAtKeeps ==
    ASSUME NEW s \in Seq(Nat), NEW p \in 1 .. Len(s)
    PROVE  ToSet(s) \subseteq ToSet(RemoveAt(s, p)) \cup {s[p]}
<1> DEFINE r == RemoveAt(s, p)
<1>1. /\ r \in Seq(Nat) /\ Len(r) = Len(s) - 1 /\ Len(s) \in Nat
      /\ \A i \in 1 .. Len(s) - 1 : r[i] = IF i < p THEN s[i] ELSE s[i + 1]
  <2>1. Len(s) \in Nat
    OBVIOUS
  <2> QED
    BY <2>1, RemoveAtProperties, Zenon
<1> HIDE DEF r
<1>2. DOMAIN r = 1 .. Len(s) - 1 /\ DOMAIN s = 1 .. Len(s)
  BY <1>1, LenProperties
<1>3. ASSUME NEW i \in 1 .. Len(s), i # p PROVE \E j \in 1 .. Len(s) - 1 : r[j] = s[i]
  <2>1. CASE i < p
    <3>1. i \in 1 .. Len(s) - 1 /\ r[i] = s[i]
      BY <1>1, <2>1
    <3> QED
      BY <3>1
  <2>2. CASE i > p
    <3>1. i - 1 \in 1 .. Len(s) - 1 /\ ~(i - 1 < p) /\ (i - 1) + 1 = i
      BY <1>1, <2>2
    <3>2. r[i - 1] = s[(i - 1) + 1]
      BY <1>1, <3>1
    <3> QED
      BY <3>1, <3>2
  <2> QED
    BY <1>3, <2>1, <2>2
<1>4. ToSet(s) \subseteq ToSet(r) \cup {s[p]}
  BY <1>2, <1>3 DEF ToSet
<1> QED
  BY <1>4 DEF r

\* Deleting an id from an outbox loses no other.
LEMMA OutboxDeleteKeeps ==
    ASSUME BrowserTypeOK, NEW c \in Clients, NEW id, OutboxDelete(c, id)
    PROVE  \A d \in Clients : ToSet(outbox[d]) \subseteq ToSet(outbox'[d]) \cup {id}
<1>1. CASE UNCHANGED outbox
  BY <1>1
<1>2. ASSUME NEW p \in DOMAIN outbox[c], outbox[c][p] = id,
             outbox' = [outbox EXCEPT ![c] = RemoveAt(@, p)]
      PROVE  \A d \in Clients : ToSet(outbox[d]) \subseteq ToSet(outbox'[d]) \cup {id}
  <2>1. outbox[c] \in Seq(Nat) /\ p \in 1 .. Len(outbox[c])
    BY DEF BrowserTypeOK
  <2>2. ToSet(outbox[c]) \subseteq ToSet(RemoveAt(outbox[c], p)) \cup {id}
    BY <1>2, <2>1, RemoveAtKeeps
  <2>3. /\ outbox'[c] = RemoveAt(outbox[c], p)
        /\ \A d \in Clients : d # c => outbox'[d] = outbox[d]
    BY <1>2 DEF BrowserTypeOK
  <2> QED
    BY <2>2, <2>3
<1> QED
  BY <1>1, <1>2 DEF OutboxDelete

\* A queue after deliverLocked holds what it held, and perhaps msg.
LEMMA DeliverKeepsAnswers ==
    ASSUME ConnTypeOK, NEW targets \in SUBSET Conns, NEW msg \in Envelopes,
           Deliver(targets, msg), NEW applied, NEW refused, Holds(msg, applied, refused),
           \A n \in Conns : \A k \in DOMAIN down[n] : Holds(down[n][k], applied, refused)
    PROVE  \A n \in Conns : \A k \in DOMAIN down'[n] : Holds(down'[n][k], applied, refused)
<1>1. \A n \in Conns : down'[n] = down[n] \/ down'[n] = Append(down[n], msg)
  BY DeliverType DEF ConnTypeOK
<1> SUFFICES ASSUME NEW n \in Conns, NEW k \in DOMAIN down'[n]
             PROVE  Holds(down'[n][k], applied, refused)
  OBVIOUS
<1>2. CASE down'[n] = down[n]
  BY <1>2
<1>3. CASE down'[n] = Append(down[n], msg)
  <2> DEFINE d == down[n]
             e == down'[n]
  <2>1. d \in Seq(Envelopes) /\ e = Append(d, msg) /\ k \in DOMAIN e
    BY <1>3 DEF ConnTypeOK
  <2>2. \A j \in DOMAIN d : Holds(d[j], applied, refused)
    OBVIOUS
  <2> HIDE DEF d, e
  <2>3. /\ e \in Seq(Envelopes) /\ Len(e) = Len(d) + 1 /\ Len(d) \in Nat
        /\ \A i \in 1 .. Len(d) : e[i] = d[i]
        /\ e[Len(d) + 1] = msg
    BY <2>1, AppendProperties
  <2>4. k \in 1 .. Len(d) + 1 /\ DOMAIN d = 1 .. Len(d)
    BY <2>1, <2>3, LenProperties
  <2>5. k \in DOMAIN d \/ k = Len(d) + 1
    BY <2>3, <2>4
  <2>6. Holds(e[k], applied, refused)
    BY <2>2, <2>3, <2>4, <2>5
  <2> QED
    BY <2>6 DEF e
<1> QED
  BY <1>1, <1>2, <1>3

\* A browser takes an envelope that holds, and leaves those behind it.
LEMMA ReceivesAnswer ==
    ASSUME ConnTypeOK, BrowserTypeOK, AnswersTrue, NEW c \in Clients, NEW t, Receives(c, t)
    PROVE  /\ Holds(Head(down[sock[c]]), LogIds, rejected)
           /\ \A n \in Conns : \A k \in DOMAIN down'[n] : Holds(down'[n][k], LogIds, rejected)
<1> DEFINE n == sock[c]
           d == down[n]
<1>1. n \in Conns
  BY ReceivesType
<1>2. d \in Seq(Envelopes) /\ d # <<>>
  BY <1>1 DEF ConnTypeOK, Receives
<1>3. \A k \in DOMAIN d : Holds(d[k], LogIds, rejected)
  BY <1>1 DEF AnswersTrue
<1>4. down' = [down EXCEPT ![n] = Tail(d)]
  BY DEF Receives
<1> HIDE DEF n, d
<1>5. /\ Tail(d) \in Seq(Envelopes) /\ Len(Tail(d)) = Len(d) - 1
      /\ \A i \in 1 .. Len(Tail(d)) : Tail(d)[i] = d[i + 1]
  BY <1>2, HeadTailProperties
<1>6. Head(d) = d[1] /\ Len(d) \in Nat \ {0} /\ DOMAIN d = 1 .. Len(d)
  BY <1>2, EmptySeq, LenProperties
<1>7. \A k \in DOMAIN Tail(d) : Holds(Tail(d)[k], LogIds, rejected)
  <2>1. DOMAIN Tail(d) = 1 .. Len(Tail(d))
    BY <1>5, LenProperties
  <2>2. \A i \in 1 .. Len(Tail(d)) : i + 1 \in DOMAIN d
    BY <1>5, <1>6
  <2> QED
    BY <1>3, <1>5, <2>1, <2>2
<1>8. \A m \in Conns : down'[m] = IF m = n THEN Tail(d) ELSE down[m]
  BY <1>1, <1>4 DEF ConnTypeOK
<1>9. Holds(Head(d), LogIds, rejected)
  BY <1>3, <1>6
<1> QED
  BY <1>7, <1>8, <1>9 DEF AnswersTrue, n, d

\* The elements of the sequences the server keeps.
\* No entries.
LEMMA EmptySet == ToSet(<<>>) = {}
BY DEF ToSet

\* Appending an entry adds it.
LEMMA AppendSet ==
    ASSUME NEW s \in Seq(Nat), NEW e \in Nat
    PROVE  ToSet(Append(s, e)) = ToSet(s) \cup {e}
<1> DEFINE r == Append(s, e)
<1>1. /\ r \in Seq(Nat) /\ Len(r) = Len(s) + 1
      /\ \A i \in 1 .. Len(s) : r[i] = s[i]
      /\ r[Len(s) + 1] = e
  BY AppendProperties
<1>2. Len(s) \in Nat /\ DOMAIN s = 1 .. Len(s)
  BY LenProperties
<1> HIDE DEF r
<1>3. DOMAIN r = 1 .. Len(s) + 1
  BY <1>1, LenProperties
<1>4. ToSet(r) = ToSet(s) \cup {e}
  BY <1>1, <1>2, <1>3 DEF ToSet
<1> QED
  BY <1>4 DEF r

\* The head and the rest are all there is.
LEMMA HeadTailSet ==
    ASSUME NEW s \in Seq(Nat), s # <<>>
    PROVE  Head(s) \in ToSet(s) /\ ToSet(Tail(s)) \subseteq ToSet(s)
<1> DEFINE r == Tail(s)
<1>1. /\ r \in Seq(Nat) /\ Len(r) = Len(s) - 1
      /\ \A i \in 1 .. Len(r) : r[i] = s[i + 1]
  BY HeadTailProperties
<1>2. Head(s) = s[1] /\ Len(s) \in Nat \ {0} /\ DOMAIN s = 1 .. Len(s)
  BY EmptySeq, LenProperties
<1> HIDE DEF r
<1>3. DOMAIN r = 1 .. Len(s) - 1
  BY <1>1, LenProperties
<1>4. \A i \in 1 .. Len(s) - 1 : i + 1 \in 1 .. Len(s) /\ r[i] = s[i + 1]
  BY <1>1, <1>2
<1>5. ToSet(r) \subseteq ToSet(s)
  <2>1. ASSUME NEW i \in DOMAIN r PROVE \E j \in DOMAIN s : r[i] = s[j]
    <3>1. i + 1 \in DOMAIN s /\ r[i] = s[i + 1]
      BY <1>2, <1>3, <1>4
    <3> QED
      BY <3>1
  <2> QED
    BY <2>1 DEF ToSet
<1>6. Head(s) \in ToSet(s)
  BY <1>2 DEF ToSet
<1> QED
  BY <1>5, <1>6 DEF r

\* All there is, is the head and the rest.
LEMMA HeadTailAll ==
    ASSUME NEW s \in Seq(Nat), s # <<>>
    PROVE  ToSet(s) \subseteq {Head(s)} \cup ToSet(Tail(s))
<1> DEFINE r == Tail(s)
<1>1. /\ r \in Seq(Nat) /\ Len(r) = Len(s) - 1
      /\ \A i \in 1 .. Len(r) : r[i] = s[i + 1]
  BY HeadTailProperties
<1>2. Head(s) = s[1] /\ Len(s) \in Nat \ {0} /\ DOMAIN s = 1 .. Len(s)
  BY EmptySeq, LenProperties
<1> HIDE DEF r
<1>3. DOMAIN r = 1 .. Len(s) - 1
  BY <1>1, LenProperties
<1>4. ASSUME NEW k \in 1 .. Len(s), k # 1 PROVE s[k] \in ToSet(r)
  <2>1. k - 1 \in 1 .. Len(s) - 1 /\ (k - 1) + 1 = k
    BY <1>2, <1>4
  <2>2. r[k - 1] = s[(k - 1) + 1]
    BY <1>1, <2>1
  <2> QED
    BY <1>3, <2>1, <2>2 DEF ToSet
<1>5. ToSet(s) \subseteq {Head(s)} \cup ToSet(r)
  BY <1>2, <1>4 DEF ToSet
<1> QED
  BY <1>5 DEF r

-----------------------------------------------------------------------------
(* What an action leaves alone. *)

\* Neither the history nor the outboxes nor the envelopes.
LEMMA SafeFrame ==
    ASSUME SafeInv, UNCHANGED <<log, rejected, ops, outbox, down>>,
           ToSet(opOrder') \subseteq ToSet(opOrder) \cup LogIds,
           ToSet(agent'.ids) \subseteq ToSet(agent.ids),
           loop' \in {loop, Idle}
    PROVE  SafeInv'
<1>1. LogIds' = LogIds /\ \A c \in Clients : Committed(c)' = Committed(c)
  BY DEF LogIds, Committed, OpIds
<1> QED
  BY <1>1 DEF SafeInv, AnswersTrue, NoLostCommit

\* Neither the applications nor the outboxes: an envelope is sent.
LEMMA AnswerFrame ==
    ASSUME ConnTypeOK, SafeInv, UNCHANGED <<log, ops, outbox, opOrder>>,
           rejected \subseteq rejected',
           ToSet(agent'.ids) \subseteq ToSet(agent.ids), loop' \in {loop, Idle},
           NEW targets \in SUBSET Conns, NEW msg \in Envelopes,
           Deliver(targets, msg), Holds(msg, LogIds, rejected')
    PROVE  SafeInv'
<1>1. LogIds' = LogIds /\ \A c \in Clients : Committed(c)' = Committed(c)
  BY DEF LogIds, Committed, OpIds
<1>2. \A n \in Conns : \A k \in DOMAIN down[n] : Holds(down[n][k], LogIds, rejected')
  BY DEF SafeInv, AnswersTrue, Holds
<1>3. \A n \in Conns : \A k \in DOMAIN down'[n] : Holds(down'[n][k], LogIds, rejected')
  BY <1>2, DeliverKeepsAnswers
<1>4. AnswersTrue'
  BY <1>1, <1>3 DEF SafeInv, AnswersTrue
<1>5. NoLostCommit'
  BY <1>1 DEF SafeInv, NoLostCommit
<1> QED
  BY <1>4, <1>5 DEF SafeInv

\* Neither the outboxes nor the envelopes: operation id is applied.
LEMMA ApplyFrame ==
    ASSUME SafeInv, NEW id, LogIds' = LogIds \cup {id}, UNCHANGED <<rejected, outbox, down>>,
           \A c \in Clients : Committed(c)' \subseteq Committed(c),
           ToSet(opOrder') \subseteq ToSet(opOrder) \cup {id},
           ToSet(agent'.ids) \subseteq ToSet(agent.ids) \cup {id},
           loop' \in {loop, id}
    PROVE  SafeInv'
<1>1. \A n \in Conns : \A k \in DOMAIN down[n] : Holds(down[n][k], LogIds', rejected)
  BY DEF SafeInv, AnswersTrue, Holds
<1>2. AnswersTrue'
  BY <1>1 DEF SafeInv, AnswersTrue
<1>3. NoLostCommit'
  BY DEF SafeInv, NoLostCommit
<1> QED
  BY <1>2, <1>3 DEF SafeInv

\* Only envelopes, and what the outboxes keep.
LEMMA ReadFrame ==
    ASSUME SafeInv, UNCHANGED <<log, rejected, ops, opOrder, agent, loop>>,
           \A n \in Conns : \A k \in DOMAIN down'[n] : Holds(down'[n][k], LogIds, rejected),
           outbox' = outbox
              \/ \A c \in Clients :
                    ToSet(outbox[c]) \subseteq ToSet(outbox'[c]) \cup LogIds \cup rejected
    PROVE  SafeInv'
<1>1. LogIds' = LogIds /\ \A c \in Clients : Committed(c)' = Committed(c)
  BY DEF LogIds, Committed, OpIds
<1>2. AnswersTrue'
  BY <1>1 DEF SafeInv, AnswersTrue
<1>3. NoLostCommit'
  BY <1>1 DEF SafeInv, NoLostCommit
<1> QED
  BY <1>2, <1>3 DEF SafeInv

\* Only operations and outboxes.
LEMMA MakeFrame ==
    ASSUME SafeInv, UNCHANGED <<log, rejected, opOrder, agent, loop, down>>,
           \A c \in Clients : /\ Committed(c)' \subseteq Committed(c) \cup ToSet(outbox'[c])
                              /\ ToSet(outbox[c]) \subseteq ToSet(outbox'[c])
    PROVE  SafeInv'
<1>1. LogIds' = LogIds
  BY DEF LogIds
<1>2. AnswersTrue'
  BY <1>1 DEF SafeInv, AnswersTrue
<1>3. NoLostCommit'
  BY <1>1 DEF SafeInv, NoLostCommit
<1> QED
  BY <1>2, <1>3 DEF SafeInv

-----------------------------------------------------------------------------
\* Nothing has been committed, acknowledged or applied yet.
LEMMA SafeInit == Init => SafeInv
<1> SUFFICES ASSUME Init PROVE SafeInv
  OBVIOUS
<1> USE DEF Init, InitWith
<1>1. \A n \in Conns : DOMAIN down[n] = {}
  OBVIOUS
<1>2. ToSet(opOrder) = {} /\ ToSet(agent.ids) = {} /\ {loop} \ {Idle} = {}
  BY EmptySet DEF NoCall
<1>3. AnswersTrue
  BY <1>1, <1>2 DEF AnswersTrue
<1>4. \A c \in Clients : Committed(c) = {}
  BY DEF Committed, OpIds
<1>5. NoLostCommit
  BY <1>4 DEF NoLostCommit
<1> QED
  BY <1>3, <1>5 DEF SafeInv

\* Every action keeps both parts.
LEMMA SafeStep == TypeInv /\ SafeInv /\ [Next]_vars => SafeInv'
<1> SUFFICES ASSUME TypeInv, SafeInv, [Next]_vars PROVE SafeInv'
  OBVIOUS
<1> USE DEF serverVars, connVars, sendVars, callVars, browserVars, logVars, boundVars
<1>0. ServerTypeOK /\ CallTypeOK /\ ConnTypeOK /\ BrowserTypeOK /\ HistoryTypeOK /\ KnownIds
  BY DEF TypeInv, ProtocolTypeOK
<1>1. ASSUME NEW c \in Clients, NEW e \in EditsOf[c], Commit(c, e) PROVE SafeInv'
  <2>1. /\ e \in Edit /\ Len(ops) + 1 \in Nat
        /\ ops' = Append(ops, [by |-> c, edit |-> e, live |-> FALSE])
    BY <1>0, <1>1, SyncAssumption DEF Commit, SyncAssumption, HistoryTypeOK
  <2>2. \A d \in Clients :
           Committed(d)' \subseteq Committed(d) \cup (IF d = c THEN {Len(ops) + 1} ELSE {})
    BY <1>0, <2>1, OpsGrow
  <2>3. /\ ToSet(outbox'[c]) = ToSet(outbox[c]) \cup {Len(ops) + 1}
        /\ \A d \in Clients : d # c => outbox'[d] = outbox[d]
    BY <1>0, <1>1, <2>1, AppendSet DEF Commit, BrowserTypeOK
  <2> QED
    BY <1>1, <2>2, <2>3, MakeFrame DEF Commit
<1>2. ASSUME NEW c \in Clients, NEW e \in LiveEditsOf[c], CommitLive(c, e) PROVE SafeInv'
  <2>1. /\ e \in Edit
        /\ ops' = Append(ops, [by |-> c, edit |-> e, live |-> TRUE])
    BY <1>2, SyncAssumption DEF CommitLive, SyncAssumption
  <2>2. \A d \in Clients : Committed(d)' \subseteq Committed(d)
    BY <1>0, <2>1, OpsGrow
  <2> QED
    BY <1>2, <2>2, MakeFrame DEF CommitLive
<1>3. ASSUME NEW c \in Clients, Connect(c) PROVE SafeInv'
  <2>1. PICK n \in Conns : down' = [down EXCEPT ![n] = <<>>]
    BY <1>3 DEF Connect
  <2>2. \A m \in Conns : \A k \in DOMAIN down'[m] : m # n /\ down'[m] = down[m]
    BY <1>0, <2>1 DEF ConnTypeOK
  <2>3. \A m \in Conns : \A k \in DOMAIN down'[m] : Holds(down'[m][k], LogIds, rejected)
    BY <2>2 DEF SafeInv, AnswersTrue
  <2> QED
    BY <1>0, <1>3, <2>3, ReadFrame DEF Connect
<1>4. ASSUME NEW n \in Conns, JoinRegister(n) PROVE SafeInv'
  <2>1. ToSet(opOrder') \subseteq ToSet(opOrder)
    BY <1>4, EmptySet DEF JoinRegister
  <2> QED
    BY <1>4, <2>1, SafeFrame DEF JoinRegister
<1>5. ASSUME NEW s \in toState, CaptureState(s) PROVE SafeInv'
  BY <1>5, SafeFrame DEF CaptureState
<1>6. ASSUME NEW s \in captured, EnqueueState(s) PROVE SafeInv'
  <2>1. /\ Open(s.conn) \in SUBSET Conns /\ StateEnvelope(s.objs, s.upto) \in Envelopes
    BY <1>0, EnvelopeType DEF Open, Copies, ConnTypeOK
  <2>2. Holds(StateEnvelope(s.objs, s.upto), LogIds, rejected)
    BY DEF Holds, StateEnvelope
  <2> QED
    BY <1>0, <1>6, <2>1, <2>2, AnswerFrame DEF EnqueueState
<1>7. ASSUME NEW n \in Conns, DialLost(n) PROVE SafeInv'
  BY <1>7, SafeFrame DEF DialLost
<1>8. ASSUME NEW n \in Conns, HandleDuplicate(n) PROVE SafeInv'
  <2>1. Head(up[n]) \in OpIds /\ Head(up[n]) \in LogIds
    BY <1>0, <1>8, TakesType DEF HandleDuplicate, SafeInv, AnswersTrue
  <2>2. Open(n) \in SUBSET Conns /\ OpEnvelope(Head(up[n])) \in Envelopes
    BY <1>0, <2>1, LogIdsType, EnvelopeType DEF Open
  <2>3. Holds(OpEnvelope(Head(up[n])), LogIds, rejected)
    BY <2>1 DEF Holds, OpEnvelope
  <2> QED
    BY <1>0, <1>8, <2>2, <2>3, AnswerFrame DEF HandleDuplicate
<1>9. ASSUME NEW n \in Conns, HandleRejected(n) PROVE SafeInv'
  <2>1. Head(up[n]) \in Nat
    BY <1>0, <1>9, TakesType, OpsElement DEF HandleRejected
  <2>2. Open(n) \in SUBSET Conns /\ ErrorEnvelope(Head(up[n])) \in Envelopes
    BY <2>1, EnvelopeType DEF Open
  <2>3. rejected' = rejected \cup {Head(up[n])}
    BY <1>9 DEF HandleRejected
  <2>4. Holds(ErrorEnvelope(Head(up[n])), LogIds, rejected')
    BY <2>3 DEF Holds, ErrorEnvelope
  <2> QED
    BY <1>0, <1>9, <2>2, <2>3, <2>4, AnswerFrame DEF HandleRejected
<1>10. ASSUME NEW n \in Conns, HandleApply(n) PROVE SafeInv'
  <2> DEFINE id == Head(up[n])
  <2>1. id \in Nat
    BY <1>0, <1>10, TakesType, OpsElement DEF HandleApply
  <2>2. log' = Append(log, [id |-> id, room |-> rooms]) /\ rooms \in 0 .. MaxRooms
    BY <1>0, <1>10 DEF HandleApply, ServerTypeOK
  <2>3. opOrder' = RecordOps(<<id>>)
    BY <1>10 DEF HandleApply
  <2> HIDE DEF id
  <2>4. LogIds' = LogIds \cup {id}
    BY <1>0, <2>1, <2>2, LogGrows
  <2>5. ToSet(opOrder') \subseteq ToSet(opOrder) \cup {id}
    <3>1. <<id>> \in Seq(Nat) /\ ToSet(<<id>>) = {id}
      BY <2>1 DEF ToSet
    <3> QED
      BY <1>0, <2>3, <3>1, RecordOpsType DEF ServerTypeOK
  <2>6. loop' = id /\ UNCHANGED <<ops, rejected, outbox, down, agent>>
    BY <1>10 DEF HandleApply, id
  <2>7. \A c \in Clients : Committed(c)' \subseteq Committed(c)
    BY <2>6 DEF Committed, OpIds
  <2> QED
    BY <2>4, <2>5, <2>6, <2>7, ApplyFrame
<1>11. CASE Broadcast
  <2>1. loop \in LogIds /\ loop' = Idle
    BY <1>11 DEF Broadcast, SafeInv, AnswersTrue
  <2>2. Listening \in SUBSET Conns /\ OpEnvelope(loop) \in Envelopes
    BY <1>0, EnvelopeType DEF Listening, ServerTypeOK
  <2>3. Holds(OpEnvelope(loop), LogIds, rejected)
    BY <2>1 DEF Holds, OpEnvelope
  <2> QED
    BY <1>0, <1>11, <2>1, <2>2, <2>3, AnswerFrame DEF Broadcast
<1>12. ASSUME NEW c \in Clients, ReceiveState(c) PROVE SafeInv'
  <2>1. \A n \in Conns : \A k \in DOMAIN down'[n] : Holds(down'[n][k], LogIds, rejected)
    BY <1>0, <1>12, ReceivesAnswer DEF ReceiveState, SafeInv
  <2> QED
    BY <1>12, <2>1, ReadFrame DEF ReceiveState
<1>13. ASSUME NEW c \in Clients, ReceiveOp(c) PROVE SafeInv'
  <2> DEFINE id == Head(down[sock[c]]).id
  <2>1. /\ Holds(Head(down[sock[c]]), LogIds, rejected)
        /\ \A n \in Conns : \A k \in DOMAIN down'[n] : Holds(down'[n][k], LogIds, rejected)
    BY <1>0, <1>13, ReceivesAnswer DEF ReceiveOp, SafeInv
  <2>2. id \in LogIds \cup rejected
    BY <1>0, <1>13, <2>1, ReceivesType DEF ReceiveOp, Holds
  <2>3. \A d \in Clients : ToSet(outbox[d]) \subseteq ToSet(outbox'[d]) \cup LogIds \cup rejected
    BY <1>0, <1>13, <2>2, OutboxDeleteKeeps DEF ReceiveOp
  <2> QED
    BY <1>13, <2>1, <2>3, ReadFrame DEF ReceiveOp
<1>14. ASSUME NEW c \in Clients, ReceiveError(c) PROVE SafeInv'
  <2> DEFINE id == Head(down[sock[c]]).id
  <2>1. /\ Holds(Head(down[sock[c]]), LogIds, rejected)
        /\ \A n \in Conns : \A k \in DOMAIN down'[n] : Holds(down'[n][k], LogIds, rejected)
    BY <1>0, <1>14, ReceivesAnswer DEF ReceiveError, SafeInv
  <2>2. id \in LogIds \cup rejected
    BY <1>0, <1>14, <2>1, ReceivesType DEF ReceiveError, Holds
  <2>3. \A d \in Clients : ToSet(outbox[d]) \subseteq ToSet(outbox'[d]) \cup LogIds \cup rejected
    BY <1>0, <1>14, <2>2, OutboxDeleteKeeps DEF ReceiveError
  <2> QED
    BY <1>14, <2>1, <2>3, ReadFrame DEF ReceiveError
<1>15. ASSUME NEW c \in Clients, Disconnect(c) PROVE SafeInv'
  BY <1>15, SafeFrame DEF Disconnect, Detach
<1>16. ASSUME NEW c \in Clients, Kicked(c) PROVE SafeInv'
  BY <1>16, SafeFrame DEF Kicked, Detach
<1>17. ASSUME NEW n \in Conns, ServerLeave(n) PROVE SafeInv'
  BY <1>17, SafeFrame DEF ServerLeave
<1>18. CASE Evict
  <2>1. ToSet(opOrder') \subseteq ToSet(opOrder)
    BY <1>18, EmptySet DEF Evict
  <2>2. ToSet(agent'.ids) \subseteq ToSet(agent.ids)
    BY <1>18, EmptySet DEF Evict, NoCall
  <2> QED
    BY <1>18, <2>1, <2>2, SafeFrame DEF Evict
<1>19. ASSUME NEW edits \in Batches, AgentCall(edits) PROVE SafeInv'
  <2>1. ToSet(agent'.ids) \subseteq ToSet(agent.ids)
    BY <1>19, EmptySet DEF AgentCall
  <2> QED
    BY <1>19, <2>1, SafeFrame DEF AgentCall
<1>20. CASE AgentApply
  <2> DEFINE id == Len(ops) + 1
             e == Head(agent.edits)
  <2>1. e \in Edit /\ id \in Nat
    <3>1. agent.edits \in Seq(Edit) /\ agent.edits # <<>>
      BY <1>0, <1>20 DEF AgentApply, CallTypeOK
    <3> QED
      BY <1>0, <3>1 DEF HistoryTypeOK
  <2>2. \A c \in Clients : Committed(c)' \subseteq Committed(c)
    <3>1. ops' = Append(ops, [by |-> Agent, edit |-> e, live |-> FALSE])
      BY <1>20 DEF AgentApply
    <3>2. \A c \in Clients : Agent # c
      BY SyncAssumption DEF SyncAssumption
    <3> QED
      BY <1>0, <2>1, <3>1, <3>2, OpsGrow
  <2>3. UNCHANGED <<opOrder, loop, rejected, outbox, down>>
    BY <1>20 DEF AgentApply
  <2>4. CASE Rejects(doc, e)
    <3>1. log' = log /\ agent'.ids = <<>>
      BY <1>20, <2>4 DEF AgentApply, NoCall
    <3>2. LogIds' = LogIds /\ ToSet(agent'.ids) = {}
      BY <3>1, EmptySet DEF LogIds
    <3>3. AnswersTrue'
      BY <2>3, <3>2 DEF SafeInv, AnswersTrue
    <3>4. NoLostCommit'
      BY <2>2, <2>3, <3>2 DEF SafeInv, NoLostCommit
    <3> QED
      BY <3>3, <3>4 DEF SafeInv
  <2>5. CASE ~Rejects(doc, e)
    <3>1. /\ log' = Append(log, [id |-> id, room |-> rooms]) /\ rooms \in 0 .. MaxRooms
          /\ agent'.ids = Append(agent.ids, id) /\ agent.ids \in Seq(Nat)
      BY <1>0, <1>20, <2>5 DEF AgentApply, ServerTypeOK, CallTypeOK
    <3> HIDE DEF id, e
    <3>2. LogIds' = LogIds \cup {id}
      BY <1>0, <2>1, <3>1, LogGrows
    <3>3. ToSet(agent'.ids) \subseteq ToSet(agent.ids) \cup {id}
      BY <2>1, <3>1, AppendSet
    <3> QED
      BY <2>2, <2>3, <3>2, <3>3, ApplyFrame
  <2> QED
    BY <2>4, <2>5
<1>21. CASE AgentRecord
  <2>1. ToSet(opOrder') \subseteq ToSet(opOrder) \cup LogIds
    <3>1. agent.ids \in Seq(Nat) /\ ToSet(agent.ids) \subseteq LogIds
      BY <1>0 DEF CallTypeOK, SafeInv, AnswersTrue
    <3> QED
      BY <1>0, <1>21, <3>1, RecordOpsType DEF AgentRecord, ServerTypeOK
  <2>2. ToSet(agent'.ids) \subseteq ToSet(agent.ids)
    <3>1. agent'.ids = agent.ids \/ agent'.ids = <<>>
      BY <1>0, <1>21 DEF AgentRecord, CallTypeOK, NoCall
    <3> QED
      BY <3>1, EmptySet
  <2> QED
    BY <1>21, <2>1, <2>2, SafeFrame DEF AgentRecord
<1>22. CASE AgentBroadcast
  <2>1. agent.ids \in Seq(Nat) /\ agent.ids # <<>>
    BY <1>0, <1>22 DEF AgentBroadcast, CallTypeOK
  <2>2. Head(agent.ids) \in Nat /\ Head(agent.ids) \in LogIds
    BY <2>1, HeadTailSet DEF SafeInv, AnswersTrue
  <2>3. Listening \in SUBSET Conns /\ OpEnvelope(Head(agent.ids)) \in Envelopes
    BY <2>2, EnvelopeType DEF Listening
  <2>4. Holds(OpEnvelope(Head(agent.ids)), LogIds, rejected)
    BY <2>2 DEF Holds, OpEnvelope
  <2>5. ToSet(agent'.ids) \subseteq ToSet(agent.ids)
    <3>1. CASE Len(agent.ids) = 1
      BY <1>22, <3>1, EmptySet DEF AgentBroadcast, NoCall
    <3>2. CASE Len(agent.ids) # 1
      <4>1. agent'.ids = Tail(agent.ids)
        BY <1>0, <1>22, <3>2 DEF AgentBroadcast, CallTypeOK
      <4> QED
        BY <2>1, <4>1, HeadTailSet
    <3> QED
      BY <3>1, <3>2
  <2> QED
    BY <1>0, <1>22, <2>3, <2>4, <2>5, AnswerFrame DEF AgentBroadcast
<1>23. CASE RestoreSnapshot
  BY <1>23, SafeFrame DEF RestoreSnapshot
<1>24. CASE BroadcastState
  BY <1>24, SafeFrame DEF BroadcastState
<1>25. CASE UNCHANGED vars
  BY <1>25, SafeFrame DEF vars
<1> QED
  BY <1>1, <1>2, <1>3, <1>4, <1>5, <1>6, <1>7, <1>8, <1>9, <1>10, <1>11, <1>12,
     <1>13, <1>14, <1>15, <1>16, <1>17, <1>18, <1>19, <1>20, <1>21, <1>22,
     <1>23, <1>24, <1>25
  DEF Next, BrowserStep, ServerStep, CallStep, Receive, Handle

\* Whatever is dropped, kicked, replaced or evicted, an operation a browser has
\* committed is in its outbox until the server has applied it or refused it; and
\* no envelope acknowledges an operation that has not been applied.
THEOREM NothingLost == Spec => [](AnswersTrue /\ NoLostCommit)
<1>1. Init => TypeInv /\ SafeInv
  BY TypeInit, SafeInit
<1>2. TypeInv /\ SafeInv /\ [Next]_vars => TypeInv' /\ SafeInv'
  BY TypeStep, SafeStep
<1>3. SafeInv => AnswersTrue /\ NoLostCommit
  BY DEF SafeInv
<1> QED
  BY <1>1, <1>2, <1>3, PTL DEF Spec

\* The half of it that is about the server: what it announces has happened.
COROLLARY AnswersStayTrue == Spec => []AnswersTrue
<1>1. AnswersTrue /\ NoLostCommit => AnswersTrue
  OBVIOUS
<1> QED
  BY <1>1, NothingLost, PTL

-----------------------------------------------------------------------------
(* No peer is left without an update, with two exceptions.                  *)

\* What has been applied and not yet broadcast.
InFlight == {loop} \cup ToSet(agent.ids)

\* No copy of the document is overtaken: what has been broadcast is in every
\* copy that sendState has made and not queued yet.
InTime == \A s \in captured : LogIds \subseteq s.upto \cup InFlight

\* No call of Apply fails after it has applied something.
WholeBatches ==
    agent.pc = "applying" /\ agent.ids # <<>> => ~Rejects(doc, Head(agent.edits))

\* There are clients in open rooms only, no call of Apply has nothing to broadcast,
\* and Idle is no operation.
RoomsHold == ~roomOpen => \A c \in Clients : clients[c] = NoConn
IdleEmpty == agent.pc = "idle" => agent.ids = <<>>
IdleIsNone == Idle \notin LogIds

RestInv == RoomsHold /\ IdleEmpty /\ IdleIsNone
PeerInv == PeersMissNothing /\ RestInv

\* What a delivery tells the clients that it does not close.
LEMMA DeliverCovers ==
    ASSUME NEW targets \in SUBSET Conns, NEW msg \in Envelopes, Deliver(targets, msg),
           NEW n \in Conns, ~closed'[n]
    PROVE  /\ ~closed[n]
           /\ n \notin targets => covered'[n] = covered[n]
           /\ msg.type = "op" => covered[n] \subseteq covered'[n]
           /\ msg.type = "op" /\ n \in targets => msg.id \in covered'[n]
           /\ msg.type = "error" => covered'[n] = covered[n]
           /\ msg.type = "state" /\ n \in targets => covered'[n] = msg.upto
<1>1. PICK full \in SUBSET {m \in targets : Len(down[m]) >= SendBuffer} :
        /\ down' = [m \in Conns |->
                      IF m \in targets \ full THEN Append(down[m], msg) ELSE down[m]]
        /\ closed' = [m \in Conns |-> closed[m] \/ m \in full]
        /\ covered' = [m \in Conns |->
              IF m \notin targets \ full THEN covered[m]
              ELSE CASE msg.type = "state" -> msg.upto
                     [] msg.type = "op" -> covered[m] \cup {msg.id}
                     [] msg.type = "error" -> covered[m]]
  BY DEF Deliver
<1>2. ~closed[n] /\ n \notin full
  BY <1>1
<1>3. covered'[n] = IF n \notin targets \ full THEN covered[n]
                    ELSE CASE msg.type = "state" -> msg.upto
                           [] msg.type = "op" -> covered[n] \cup {msg.id}
                           [] msg.type = "error" -> covered[n]
  BY <1>1, Zenon
<1>4. msg.type \in {"state", "op", "error"}
  BY DEF Envelopes
<1>5. CASE msg.type = "state"
  BY <1>2, <1>3, <1>5
<1>6. CASE msg.type = "op"
  BY <1>2, <1>3, <1>6
<1>7. CASE msg.type = "error"
  BY <1>2, <1>3, <1>7
<1> QED
  BY <1>4, <1>5, <1>6, <1>7

\* Those that listen keep what they were told, and what is no longer in flight
\* they have been told.
LEMMA PeerFrame ==
    ASSUME PeersMissNothing, Listening' \subseteq Listening,
           \A n \in Listening' :
              /\ Pending(n) => Pending(n)'
              /\ covered[n] \subseteq covered'[n]
              /\ LogIds' \ InFlight' \subseteq covered'[n] \cup (LogIds \ InFlight)
    PROVE  PeersMissNothing'
BY DEF PeersMissNothing, InFlight

\* Nothing is applied or sent, and nobody starts to listen.
LEMMA PeerStays ==
    ASSUME PeersMissNothing, Listening' \subseteq Listening,
           UNCHANGED <<loop, log, covered, toState, captured>>, agent'.ids = agent.ids
    PROVE  PeersMissNothing'
<1>1. LogIds' = LogIds /\ InFlight' = InFlight
  BY DEF LogIds, InFlight
<1>2. \A n : Pending(n)' <=> Pending(n)
  BY DEF Pending
<1> QED
  BY <1>1, <1>2, PeerFrame

\* An operation or an error on its way to some of those that listen.
LEMMA PeerDelivers ==
    ASSUME PeersMissNothing, UNCHANGED <<clients, log, toState, captured>>,
           NEW targets \in SUBSET Conns, NEW msg \in Envelopes, Deliver(targets, msg),
           msg.type # "state",
           \/ InFlight \subseteq InFlight'
           \/ /\ msg.type = "op" /\ Listening \subseteq targets
              /\ InFlight \subseteq InFlight' \cup {msg.id}
    PROVE  PeersMissNothing' /\ Listening' \subseteq Listening
<1>1. LogIds' = LogIds
  BY DEF LogIds
<1>2. \A n : Pending(n)' <=> Pending(n)
  BY DEF Pending
<1>3. msg.type \in {"op", "error"}
  BY DEF Envelopes
<1>4. Listening' \subseteq Listening
  <2> SUFFICES ASSUME NEW n \in Listening' PROVE n \in Listening
    OBVIOUS
  <2>1. n \in Conns /\ ~closed'[n] /\ clients[Owner(n)] = n
    BY DEF Listening
  <2> QED
    BY <2>1, DeliverCovers DEF Listening
<1>5. ASSUME NEW n \in Listening'
      PROVE  /\ Pending(n) => Pending(n)'
             /\ covered[n] \subseteq covered'[n]
             /\ LogIds' \ InFlight' \subseteq covered'[n] \cup (LogIds \ InFlight)
  <2>1. n \in Conns /\ ~closed'[n] /\ n \in Listening
    BY <1>4 DEF Listening
  <2>2. covered[n] \subseteq covered'[n] /\ (msg.type = "op" /\ n \in targets => msg.id \in covered'[n])
    BY <1>3, <2>1, DeliverCovers
  <2> QED
    BY <1>1, <1>2, <2>1, <2>2
<1> QED
  BY <1>4, <1>5, PeerFrame

\* Nobody is connected, or everybody is and nothing has been applied.
LEMMA PeerInit == Init \/ InitSteady => PeerInv
<1> SUFFICES ASSUME NEW J \in {{}, Clients}, InitWith(J) PROVE PeerInv
  BY DEF Init, InitSteady
<1>1. LogIds = {} /\ agent.ids = <<>>
  BY DEF InitWith, LogIds, NoCall
<1>2. ~roomOpen => J = {}
  BY DEF InitWith
<1>3. RoomsHold
  BY <1>2 DEF InitWith, RoomsHold
<1> QED
  BY <1>1, <1>3 DEF PeerInv, RestInv, PeersMissNothing, IdleEmpty, IdleIsNone

\* Every action keeps the rest of the invariant.
LEMMA RestStep ==
    ASSUME TypeInv, RestInv, [Next]_vars
    PROVE  RestInv'
<1> USE DEF serverVars, connVars, sendVars, callVars, browserVars, logVars, boundVars
<1>0. /\ ServerTypeOK /\ CallTypeOK /\ ConnTypeOK /\ HistoryTypeOK /\ KnownIds
      /\ RoomsHold /\ IdleEmpty /\ IdleIsNone
  BY DEF TypeInv, ProtocolTypeOK, RestInv
<1>a. ASSUME UNCHANGED <<roomOpen, clients, agent, log>> PROVE RestInv'
  BY <1>0, <1>a DEF RestInv, RoomsHold, IdleEmpty, IdleIsNone, LogIds
<1>b. ASSUME UNCHANGED <<roomOpen, clients, log>>, agent'.pc = "idle" => agent'.ids = <<>>
      PROVE RestInv'
  BY <1>0, <1>b DEF RestInv, RoomsHold, IdleEmpty, IdleIsNone, LogIds
<1>1. ASSUME NEW c \in Clients, NEW e \in EditsOf[c], Commit(c, e)
      PROVE UNCHANGED <<roomOpen, clients, agent, log>>
  BY <1>1 DEF Commit
<1>2. ASSUME NEW c \in Clients, NEW e \in LiveEditsOf[c], CommitLive(c, e)
      PROVE UNCHANGED <<roomOpen, clients, agent, log>>
  BY <1>2 DEF CommitLive
<1>3. ASSUME NEW c \in Clients, Connect(c) PROVE UNCHANGED <<roomOpen, clients, agent, log>>
  BY <1>3 DEF Connect
<1>4. ASSUME NEW n \in Conns, JoinRegister(n) PROVE RestInv'
  BY <1>0, <1>4 DEF JoinRegister, RestInv, RoomsHold, IdleEmpty, IdleIsNone, LogIds
<1>5. ASSUME NEW s \in toState, CaptureState(s) PROVE UNCHANGED <<roomOpen, clients, agent, log>>
  BY <1>5 DEF CaptureState
<1>6. ASSUME NEW s \in captured, EnqueueState(s) PROVE UNCHANGED <<roomOpen, clients, agent, log>>
  BY <1>6 DEF EnqueueState
<1>7. ASSUME NEW n \in Conns, DialLost(n) PROVE UNCHANGED <<roomOpen, clients, agent, log>>
  BY <1>7 DEF DialLost
<1>8. ASSUME NEW n \in Conns, HandleDuplicate(n) PROVE UNCHANGED <<roomOpen, clients, agent, log>>
  BY <1>8 DEF HandleDuplicate
<1>9. ASSUME NEW n \in Conns, HandleRejected(n) PROVE UNCHANGED <<roomOpen, clients, agent, log>>
  BY <1>9 DEF HandleRejected
<1>10. ASSUME NEW n \in Conns, HandleApply(n) PROVE RestInv'
  <2> DEFINE id == Head(up[n])
  <2>1. id \in Nat /\ id # Idle
    <3>1. id \in OpIds /\ Len(ops) \in Nat
      BY <1>0, <1>10, TakesType DEF HandleApply, HistoryTypeOK
    <3> QED
      BY <3>1 DEF OpIds, Idle
  <2>2. /\ log' = Append(log, [id |-> id, room |-> rooms]) /\ rooms \in 0 .. MaxRooms
        /\ UNCHANGED <<roomOpen, clients, agent>>
    BY <1>0, <1>10 DEF HandleApply, ServerTypeOK
  <2> HIDE DEF id
  <2>3. LogIds' = LogIds \cup {id}
    BY <1>0, <2>1, <2>2, LogGrows
  <2> QED
    BY <1>0, <2>1, <2>2, <2>3 DEF RestInv, RoomsHold, IdleEmpty, IdleIsNone
<1>11. ASSUME Broadcast PROVE UNCHANGED <<roomOpen, clients, agent, log>>
  BY <1>11 DEF Broadcast
<1>12. ASSUME NEW c \in Clients, ReceiveState(c) PROVE UNCHANGED <<roomOpen, clients, agent, log>>
  BY <1>12 DEF ReceiveState
<1>13. ASSUME NEW c \in Clients, ReceiveOp(c) PROVE UNCHANGED <<roomOpen, clients, agent, log>>
  BY <1>13 DEF ReceiveOp
<1>14. ASSUME NEW c \in Clients, ReceiveError(c) PROVE UNCHANGED <<roomOpen, clients, agent, log>>
  BY <1>14 DEF ReceiveError
<1>15. ASSUME NEW c \in Clients, Disconnect(c) PROVE UNCHANGED <<roomOpen, clients, agent, log>>
  BY <1>15 DEF Disconnect
<1>16. ASSUME NEW c \in Clients, Kicked(c) PROVE UNCHANGED <<roomOpen, clients, agent, log>>
  BY <1>16 DEF Kicked
<1>17. ASSUME NEW n \in Conns, ServerLeave(n) PROVE RestInv'
  BY <1>0, <1>17 DEF ServerLeave, RestInv, RoomsHold, IdleEmpty, IdleIsNone, LogIds
<1>18. ASSUME Evict PROVE RestInv'
  BY <1>0, <1>18 DEF Evict, RestInv, RoomsHold, IdleEmpty, IdleIsNone, LogIds, NoCall
<1>19. ASSUME NEW edits \in Batches, AgentCall(edits) PROVE RestInv'
  BY <1>19, <1>b DEF AgentCall
<1>20. ASSUME AgentApply PROVE RestInv'
  <2> DEFINE id == Len(ops) + 1
             e == Head(agent.edits)
  <2>1. id \in Nat /\ id # Idle
    BY <1>0 DEF HistoryTypeOK, Idle
  <2>2. UNCHANGED <<roomOpen, clients>>
    BY <1>20 DEF AgentApply
  <2>3. IdleEmpty'
    BY <1>0, <1>20 DEF AgentApply, NoCall, IdleEmpty, CallTypeOK
  <2>4. IdleIsNone'
    <3>1. CASE Rejects(doc, e)
      BY <1>0, <1>20, <3>1 DEF AgentApply, IdleIsNone, LogIds
    <3>2. CASE ~Rejects(doc, e)
      <4>1. log' = Append(log, [id |-> id, room |-> rooms]) /\ rooms \in 0 .. MaxRooms
        BY <1>0, <1>20, <3>2 DEF AgentApply, ServerTypeOK
      <4> HIDE DEF id, e
      <4> QED
        BY <1>0, <2>1, <4>1, LogGrows DEF IdleIsNone
    <3> QED
      BY <3>1, <3>2
  <2> QED
    BY <1>0, <2>2, <2>3, <2>4 DEF RestInv, RoomsHold
<1>21. ASSUME AgentRecord PROVE RestInv'
  BY <1>0, <1>21, <1>b DEF AgentRecord, NoCall, CallTypeOK
<1>22. ASSUME AgentBroadcast PROVE RestInv'
  BY <1>0, <1>22, <1>b DEF AgentBroadcast, NoCall, CallTypeOK
<1>23. ASSUME RestoreSnapshot PROVE UNCHANGED <<roomOpen, clients, agent, log>>
  BY <1>23 DEF RestoreSnapshot
<1>24. ASSUME BroadcastState PROVE UNCHANGED <<roomOpen, clients, agent, log>>
  BY <1>24 DEF BroadcastState
<1>25. ASSUME UNCHANGED vars PROVE UNCHANGED <<roomOpen, clients, agent, log>>
  BY <1>25 DEF vars
<1> QED
  BY <1>a, <1>1, <1>2, <1>3, <1>4, <1>5, <1>6, <1>7, <1>8, <1>9, <1>10, <1>11, <1>12,
     <1>13, <1>14, <1>15, <1>16, <1>17, <1>18, <1>19, <1>20, <1>21, <1>22, <1>23,
     <1>24, <1>25
  DEF Next, BrowserStep, ServerStep, CallStep, Receive, Handle

\* Every action leaves a client with everything, or about to get it: those that
\* queue a copy of the document because it was not overtaken, those that end a
\* call of Apply because its operations have been broadcast.
LEMMA PeerStep ==
    TypeInv /\ PeerInv /\ InTime /\ WholeBatches /\ [Next]_vars => PeerInv'
<1> SUFFICES ASSUME TypeInv, PeerInv, InTime, WholeBatches, [Next]_vars
             PROVE  PeersMissNothing'
  BY RestStep DEF PeerInv
<1> USE DEF serverVars, connVars, sendVars, callVars, browserVars, logVars, boundVars
<1>0. /\ ServerTypeOK /\ CallTypeOK /\ ConnTypeOK /\ BrowserTypeOK /\ HistoryTypeOK /\ KnownIds
      /\ PeersMissNothing /\ RoomsHold /\ IdleEmpty /\ IdleIsNone
  BY DEF TypeInv, ProtocolTypeOK, PeerInv, RestInv
<1>a. ASSUME UNCHANGED <<clients, closed, loop, log, covered, toState, captured, agent>>
      PROVE  PeersMissNothing'
  BY <1>0, <1>a, PeerStays DEF Listening
<1>b. ~roomOpen => Listening = {}
  BY <1>0, SyncAssumption, OwnerType DEF RoomsHold, Listening, SyncAssumption
<1>c. Listening \in SUBSET Conns
  BY DEF Listening
<1>1. ASSUME NEW c \in Clients, NEW e \in EditsOf[c], Commit(c, e) PROVE PeersMissNothing'
  BY <1>1, <1>a DEF Commit
<1>2. ASSUME NEW c \in Clients, NEW e \in LiveEditsOf[c], CommitLive(c, e) PROVE PeersMissNothing'
  BY <1>2, <1>a DEF CommitLive
<1>3. ASSUME NEW c \in Clients, Connect(c) PROVE PeersMissNothing'
  BY <1>3, <1>a DEF Connect
<1>4. ASSUME NEW n \in Conns, JoinRegister(n) PROVE PeersMissNothing'
  <2>1. /\ clients' = [clients EXCEPT ![Owner(n)] = n]
        /\ \A m \in Conns : m # n /\ ~closed'[m] => ~closed[m]
        /\ toState' = toState \cup {[conn |-> n, why |-> "join"]}
        /\ UNCHANGED <<loop, log, covered, captured, agent>>
    BY <1>4 DEF JoinRegister
  <2>2. Pending(n)' /\ \A m : Pending(m) => Pending(m)'
    <3>1. [conn |-> n, why |-> "join"] \in toState' /\ [conn |-> n, why |-> "join"].conn = n
      BY <2>1
    <3>2. toState \cup captured \subseteq toState' \cup captured'
      BY <2>1
    <3>3. Pending(n)'
      BY <3>1 DEF Pending
    <3> QED
      BY <3>2, <3>3 DEF Pending
  <2>3. LogIds' = LogIds
    BY <2>1 DEF LogIds
  <2>4. \A m \in Listening' : m = n \/ m \in Listening
    BY <1>0, <2>1, OwnerType DEF Listening, ConnTypeOK
  <2> QED
    BY <1>0, <2>1, <2>2, <2>3, <2>4 DEF PeersMissNothing
<1>5. ASSUME NEW s \in toState, CaptureState(s) PROVE PeersMissNothing'
  <2>1. /\ toState' = toState \ {s}
        /\ captured' = captured \cup
              {[conn |-> s.conn, why |-> s.why, objs |-> doc, upto |-> LogIds]}
        /\ UNCHANGED <<clients, closed, loop, log, covered, agent>>
    BY <1>5 DEF CaptureState
  <2>2. ASSUME NEW m, Pending(m) PROVE Pending(m)'
    <3> DEFINE copy == [conn |-> s.conn, why |-> s.why, objs |-> doc, upto |-> LogIds]
    <3>1. copy \in captured' /\ copy.conn = s.conn
      BY <2>1
    <3> HIDE DEF copy
    <3>2. PICK r \in toState \cup captured : r.conn = m
      BY <2>2 DEF Pending
    <3>3. CASE r = s
      BY <3>1, <3>2, <3>3 DEF Pending
    <3>4. CASE r # s
      <4>1. r \in toState' \cup captured'
        BY <2>1, <3>2, <3>4
      <4> QED
        BY <3>2, <4>1 DEF Pending
    <3> QED
      BY <3>3, <3>4
  <2>3. LogIds' = LogIds /\ Listening' = Listening
    BY <2>1 DEF LogIds, Listening
  <2> QED
    BY <1>0, <2>1, <2>2, <2>3 DEF PeersMissNothing
<1>6. ASSUME NEW s \in captured, EnqueueState(s) PROVE PeersMissNothing'
  <2> DEFINE msg == StateEnvelope(s.objs, s.upto)
  <2>1. /\ captured' = captured \ {s} /\ Deliver(Open(s.conn), msg)
        /\ UNCHANGED <<clients, loop, log, toState, agent>>
    BY <1>6 DEF EnqueueState
  <2>2. Open(s.conn) \in SUBSET Conns /\ msg \in Envelopes
    BY <1>0, EnvelopeType DEF Open, Copies, ConnTypeOK
  <2>3. msg.type = "state" /\ msg.upto = s.upto
    BY DEF StateEnvelope
  <2>4. LogIds' = LogIds /\ InFlight' = InFlight /\ LogIds \subseteq s.upto \cup InFlight
    BY <2>1 DEF LogIds, InFlight, InTime
  <2> HIDE DEF msg
  <2>5. ASSUME NEW n \in Listening'
        PROVE  Pending(n)' \/ LogIds' \subseteq covered'[n] \cup InFlight'
    <3>1. n \in Conns /\ ~closed'[n] /\ clients[Owner(n)] = n
      BY <2>1 DEF Listening
    <3>2. /\ ~closed[n]
          /\ n \notin Open(s.conn) => covered'[n] = covered[n]
          /\ n \in Open(s.conn) => covered'[n] = s.upto
      <4>1. /\ ~closed[n]
            /\ n \notin Open(s.conn) => covered'[n] = covered[n]
            /\ msg.type = "state" /\ n \in Open(s.conn) => covered'[n] = msg.upto
        BY <2>1, <2>2, <3>1, DeliverCovers
      <4> QED
        BY <2>3, <4>1
    <3>3. CASE n = s.conn
      <4>1. n \in Open(s.conn)
        BY <3>2, <3>3 DEF Open
      <4> QED
        BY <2>4, <3>2, <4>1
    <3>4. CASE n # s.conn
      <4>1. n \notin Open(s.conn)
        BY <3>4 DEF Open
      <4>2. Pending(n) => Pending(n)'
        BY <2>1, <3>4 DEF Pending
      <4>3. n \in Listening
        BY <3>1, <3>2 DEF Listening
      <4> QED
        BY <1>0, <2>4, <3>2, <4>1, <4>2, <4>3 DEF PeersMissNothing, InFlight
    <3> QED
      BY <3>3, <3>4
  <2> QED
    BY <2>5 DEF PeersMissNothing, InFlight
<1>7. ASSUME NEW n \in Conns, DialLost(n) PROVE PeersMissNothing'
  BY <1>7, <1>a DEF DialLost
<1>8. ASSUME NEW n \in Conns, HandleDuplicate(n) PROVE PeersMissNothing'
  <2> DEFINE msg == OpEnvelope(Head(up[n]))
  <2>1. Head(up[n]) \in Nat
    BY <1>0, <1>8, TakesType, OpsElement DEF HandleDuplicate
  <2>2. Open(n) \in SUBSET Conns /\ msg \in Envelopes /\ msg.type # "state"
    BY <2>1, EnvelopeType DEF Open, OpEnvelope
  <2>3. /\ Deliver(Open(n), msg) /\ InFlight' = InFlight
        /\ UNCHANGED <<clients, log, toState, captured>>
    BY <1>8 DEF HandleDuplicate, InFlight
  <2> HIDE DEF msg
  <2> QED
    BY <1>0, <2>2, <2>3, PeerDelivers
<1>9. ASSUME NEW n \in Conns, HandleRejected(n) PROVE PeersMissNothing'
  <2> DEFINE msg == ErrorEnvelope(Head(up[n]))
  <2>1. Head(up[n]) \in Nat
    BY <1>0, <1>9, TakesType, OpsElement DEF HandleRejected
  <2>2. Open(n) \in SUBSET Conns /\ msg \in Envelopes /\ msg.type # "state"
    BY <2>1, EnvelopeType DEF Open, ErrorEnvelope
  <2>3. /\ Deliver(Open(n), msg) /\ InFlight' = InFlight
        /\ UNCHANGED <<clients, log, toState, captured>>
    BY <1>9 DEF HandleRejected, InFlight
  <2> HIDE DEF msg
  <2> QED
    BY <1>0, <2>2, <2>3, PeerDelivers
<1>10. ASSUME NEW n \in Conns, HandleApply(n) PROVE PeersMissNothing'
  <2> DEFINE id == Head(up[n])
  <2>1. id \in Nat
    BY <1>0, <1>10, TakesType, OpsElement DEF HandleApply
  <2>2. /\ log' = Append(log, [id |-> id, room |-> rooms]) /\ rooms \in 0 .. MaxRooms
        /\ loop = Idle /\ loop' = id
        /\ UNCHANGED <<clients, closed, covered, toState, captured, agent>>
    BY <1>0, <1>10 DEF HandleApply, Takes, ServerTypeOK
  <2> HIDE DEF id
  <2>3. LogIds' = LogIds \cup {id}
    BY <1>0, <2>1, <2>2, LogGrows
  <2>4. Listening' = Listening /\ \A m : Pending(m)' <=> Pending(m)
    BY <2>2 DEF Listening, Pending
  <2> QED
    BY <1>0, <2>2, <2>3, <2>4 DEF PeersMissNothing, IdleIsNone
<1>11. CASE Broadcast
  <2> DEFINE msg == OpEnvelope(loop)
  <2>1. msg \in Envelopes /\ msg.type = "op" /\ msg.id = loop
    BY <1>0, EnvelopeType DEF OpEnvelope, ServerTypeOK
  <2>2. /\ Deliver(Listening, msg) /\ loop' = Idle
        /\ UNCHANGED <<clients, log, toState, captured, agent>>
    BY <1>11 DEF Broadcast
  <2> HIDE DEF msg
  <2>3. InFlight \subseteq InFlight' \cup {msg.id}
    BY <2>1, <2>2 DEF InFlight
  <2> QED
    BY <1>0, <1>c, <2>1, <2>2, <2>3, PeerDelivers
<1>12. ASSUME NEW c \in Clients, ReceiveState(c) PROVE PeersMissNothing'
  BY <1>12, <1>a DEF ReceiveState
<1>13. ASSUME NEW c \in Clients, ReceiveOp(c) PROVE PeersMissNothing'
  BY <1>13, <1>a DEF ReceiveOp
<1>14. ASSUME NEW c \in Clients, ReceiveError(c) PROVE PeersMissNothing'
  BY <1>14, <1>a DEF ReceiveError
<1>15. ASSUME NEW c \in Clients, Disconnect(c) PROVE PeersMissNothing'
  BY <1>15, <1>a DEF Disconnect
<1>16. ASSUME NEW c \in Clients, Kicked(c) PROVE PeersMissNothing'
  BY <1>16, <1>a DEF Kicked
<1>17. ASSUME NEW n \in Conns, ServerLeave(n) PROVE PeersMissNothing'
  <2>1. /\ clients' = IF clients[Owner(n)] = n THEN [clients EXCEPT ![Owner(n)] = NoConn]
                      ELSE clients
        /\ closed' = [closed EXCEPT ![n] = TRUE]
        /\ UNCHANGED <<loop, log, covered, toState, captured, agent>>
    BY <1>17 DEF ServerLeave
  <2>2. Listening' \subseteq Listening
    <3> SUFFICES ASSUME NEW m \in Listening' PROVE m \in Listening
      OBVIOUS
    <3>1. m \in Conns /\ ~closed'[m] /\ clients'[Owner(m)] = m /\ Owner(m) \in Clients /\ m # NoConn
      BY OwnerType, SyncAssumption DEF Listening, SyncAssumption
    <3>2. ~closed[m]
      BY <1>0, <2>1, <3>1 DEF ConnTypeOK
    <3>3. clients[Owner(m)] = m
      BY <1>0, <2>1, <3>1 DEF ConnTypeOK
    <3> QED
      BY <3>1, <3>2, <3>3 DEF Listening
  <2> QED
    BY <1>0, <2>1, <2>2, PeerStays
<1>18. CASE Evict
  <2>1. /\ \A c \in Clients : clients[c] = NoConn
        /\ UNCHANGED <<clients, closed>>
    BY <1>18 DEF Evict
  <2>2. Listening' = {}
    BY <2>1, SyncAssumption, OwnerType DEF Listening, SyncAssumption
  <2> QED
    BY <2>2 DEF PeersMissNothing
<1>19. ASSUME NEW edits \in Batches, AgentCall(edits) PROVE PeersMissNothing'
  <2>1. /\ agent.ids = <<>> /\ agent'.ids = <<>>
        /\ UNCHANGED <<clients, closed, loop, log, covered, toState, captured>>
    BY <1>0, <1>19 DEF AgentCall, IdleEmpty
  <2>2. Listening' = Listening
    BY <2>1 DEF Listening
  <2> QED
    BY <1>0, <2>1, <2>2, PeerStays
<1>20. CASE AgentApply
  <2> DEFINE id == Len(ops) + 1
             e == Head(agent.edits)
  <2>1. id \in Nat /\ agent.ids \in Seq(Nat)
    BY <1>0 DEF HistoryTypeOK, CallTypeOK
  <2>2. UNCHANGED <<clients, closed, loop, covered, toState, captured>> /\ agent.pc = "applying"
    BY <1>20 DEF AgentApply
  <2>3. Listening' = Listening /\ \A m : Pending(m)' <=> Pending(m)
    BY <2>2 DEF Listening, Pending
  <2>4. CASE Rejects(doc, e)
    <3>1. log' = log /\ agent'.ids = <<>> /\ agent.ids = <<>>
      BY <1>20, <2>2, <2>4 DEF AgentApply, NoCall, WholeBatches
    <3> QED
      BY <1>0, <2>2, <2>3, <3>1, PeerStays
  <2>5. CASE ~Rejects(doc, e)
    <3>1. /\ log' = Append(log, [id |-> id, room |-> rooms]) /\ rooms \in 0 .. MaxRooms
          /\ agent'.ids = Append(agent.ids, id)
      BY <1>0, <1>20, <2>5 DEF AgentApply, ServerTypeOK
    <3> HIDE DEF id, e
    <3>2. LogIds' = LogIds \cup {id}
      BY <1>0, <2>1, <3>1, LogGrows
    <3>3. ToSet(agent'.ids) = ToSet(agent.ids) \cup {id}
      BY <2>1, <3>1, AppendSet
    <3> QED
      BY <1>0, <2>2, <2>3, <3>2, <3>3 DEF PeersMissNothing
  <2> QED
    BY <2>4, <2>5
<1>21. CASE AgentRecord
  <2>1. UNCHANGED <<clients, closed, loop, log, covered, toState, captured>>
    BY <1>21 DEF AgentRecord
  <2>2. Listening' = Listening
    BY <2>1 DEF Listening
  <2>3. CASE roomOpen
    <3>1. agent'.ids = agent.ids
      BY <1>0, <1>21, <2>3 DEF AgentRecord, CallTypeOK
    <3> QED
      BY <1>0, <2>1, <2>2, <3>1, PeerStays
  <2>4. CASE ~roomOpen
    BY <1>b, <2>2, <2>4 DEF PeersMissNothing
  <2> QED
    BY <2>3, <2>4
<1>22. CASE AgentBroadcast
  <2> DEFINE msg == OpEnvelope(Head(agent.ids))
  <2>1. agent.ids \in Seq(Nat) /\ agent.ids # <<>>
    BY <1>0, <1>22 DEF AgentBroadcast, CallTypeOK
  <2>2. Head(agent.ids) \in Nat /\ ToSet(agent.ids) \subseteq {Head(agent.ids)} \cup ToSet(Tail(agent.ids))
    BY <2>1, HeadTailAll
  <2>3. msg \in Envelopes /\ msg.type = "op" /\ msg.id = Head(agent.ids)
    BY <2>2, EnvelopeType DEF OpEnvelope
  <2>4. Deliver(Listening, msg) /\ UNCHANGED <<clients, loop, log, toState, captured>>
    BY <1>22 DEF AgentBroadcast
  <2>5. ToSet(Tail(agent.ids)) \subseteq ToSet(agent'.ids)
    <3>1. CASE Len(agent.ids) = 1
      <4>1. Len(Tail(agent.ids)) = 0 /\ Tail(agent.ids) \in Seq(Nat)
        BY <2>1, <3>1, HeadTailProperties
      <4> QED
        BY <4>1, EmptySeq, EmptySet
    <3>2. CASE Len(agent.ids) # 1
      BY <1>0, <1>22, <3>2 DEF AgentBroadcast, CallTypeOK
    <3> QED
      BY <3>1, <3>2
  <2> HIDE DEF msg
  <2>6. InFlight \subseteq InFlight' \cup {msg.id}
    BY <2>2, <2>3, <2>4, <2>5 DEF InFlight
  <2> QED
    BY <1>0, <1>c, <2>3, <2>4, <2>6, PeerDelivers
<1>23. CASE RestoreSnapshot
  BY <1>23, <1>a DEF RestoreSnapshot
<1>24. CASE BroadcastState
  <2>1. /\ toState \subseteq toState'
        /\ UNCHANGED <<clients, closed, loop, log, covered, captured, agent>>
    BY <1>24 DEF BroadcastState
  <2>2. \A m : Pending(m) => Pending(m)'
    BY <2>1 DEF Pending
  <2>3. LogIds' = LogIds /\ Listening' = Listening
    BY <2>1 DEF LogIds, Listening
  <2> QED
    BY <1>0, <2>1, <2>2, <2>3 DEF PeersMissNothing
<1>25. CASE UNCHANGED vars
  BY <1>25, <1>a DEF vars
<1> QED
  BY <1>1, <1>2, <1>3, <1>4, <1>5, <1>6, <1>7, <1>8, <1>9, <1>10, <1>11, <1>12,
     <1>13, <1>14, <1>15, <1>16, <1>17, <1>18, <1>19, <1>20, <1>21, <1>22,
     <1>23, <1>24, <1>25
  DEF Next, BrowserStep, ServerStep, CallStep, Receive, Handle

\* Sessions in progress are of the types, if there may be a room for them.
LEMMA TypeSteady == MaxRooms # 0 /\ InitSteady => TypeInv
<1> SUFFICES ASSUME MaxRooms # 0, InitWith(Clients) PROVE TypeInv
  BY DEF InitSteady
<1>1. \A c \in Clients : FirstConn(c) \in Conns
  <2>1. (CHOOSE s \in Slots : TRUE) \in Slots
    BY SyncAssumption DEF SyncAssumption
  <2> QED
    BY <2>1 DEF FirstConn, Conns
<1>2. NoCall \in [pc : {"idle", "applying", "applied", "recorded"},
                  edits : Seq(Edit), ids : Seq(Nat)]
  BY DEF NoCall
<1> USE DEF InitWith
<1>3. KnownIds
  BY DEF KnownIds
<1>4. ServerTypeOK
  BY SyncAssumption DEF SyncAssumption, ServerTypeOK, Idle
<1>5. CallTypeOK
  BY <1>2 DEF CallTypeOK, NoCall
<1>6. ConnTypeOK
  BY <1>1 DEF ConnTypeOK
<1>7. BrowserTypeOK
  BY <1>1 DEF BrowserTypeOK
<1>8. HistoryTypeOK
  BY DEF HistoryTypeOK
<1> QED
  BY <1>3, <1>4, <1>5, <1>6, <1>7, <1>8 DEF TypeInv, ProtocolTypeOK

\* A connected client has been told of everything the server has applied, or is
\* about to be, on two conditions the code does not keep: no operation overtakes a
\* copy of the document between sendState's reading it and its queueing it, and no
\* batch of Registry.Apply fails half way.  Nothing else, no full queue, eviction,
\* replaced connection or restored snapshot, leaves a peer without an update.
THEOREM PeersTold ==
    Spec \/ (MaxRooms # 0 /\ SteadySpec) =>
       ([](InTime /\ WholeBatches) => []PeersMissNothing)
<1>1. Init => TypeInv /\ PeerInv
  BY TypeInit, PeerInit
<1>2. MaxRooms # 0 /\ InitSteady => TypeInv /\ PeerInv
  BY TypeSteady, PeerInit
<1>3. TypeInv /\ PeerInv /\ InTime /\ WholeBatches /\ [Next]_vars => TypeInv' /\ PeerInv'
  BY TypeStep, PeerStep
<1>4. PeerInv => PeersMissNothing
  BY DEF PeerInv
<1> QED
  BY <1>1, <1>2, <1>3, <1>4, PTL DEF Spec, SteadySpec
=============================================================================
