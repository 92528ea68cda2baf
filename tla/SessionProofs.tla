---------------------------- MODULE SessionProofs ----------------------------
(***************************************************************************)
(* What a session of useBoardSession may rely on, for any number of        *)
(* browsers, connections, rooms, evictions and operations: an answer to    *)
(* everything in its outbox (AckComing), its own order (CommitOrder),      *)
(* that a room recognises what it has applied (DedupWindow), that one      *)
(* room applies nothing twice within its memory (AppliedAtMostOnce), that  *)
(* the document it shows is a document (TypeOK), and when it is the        *)
(* server's (Converged).                                                   *)
(*                                                                         *)
(* Each invariant is inductive given those before it: AckInv says whose a  *)
(* connection is and what is on it, OrderInv what is in front of an        *)
(* operation in its queue, DedupInv what a room remembers, RoomInv which   *)
(* room applied an operation, Replicas that a replica is a document.       *)
(*                                                                         *)
(* Converged takes a hypothesis about the edits, OrderFree: the document   *)
(* depends on which edits were made and not on their order or number. A    *)
(* browser applies its own operation before those that precede it on the   *)
(* server, so two edits of one field by two writers leave their browsers   *)
(* apart for good. Under it browsers converge through everything the       *)
(* protocol does but restoring a snapshot.                                 *)
(***************************************************************************)
EXTENDS BoardSyncProofs, FiniteSetTheorems

-----------------------------------------------------------------------------
(* Connections, and what is on them. *)

\* A client's place is taken by a connection of its own that is joined.
PlacesTaken == \A c \in Clients :
    clients[c] # NoConn => Owner(clients[c]) = c /\ stage[clients[c]] = "joined"

\* A connection that is not closed has its client's place.
OpenInPlace == \A n \in Conns : ~closed[n] => clients[Owner(n)] = n

\* A browser's socket is its own; while it is dialing nothing has come back and
\* the browser is not synced.
SocketsOwn == \A c \in Clients :
    /\ sock[c] # NoConn => Owner(sock[c]) = c
    /\ sock[c] # NoConn /\ stage[sock[c]] = "dialing" => down[sock[c]] = <<>>
    /\ synced[c] => sock[c] # NoConn /\ stage[sock[c]] # "dialing"

ConnInv == PlacesTaken /\ OpenInPlace /\ SocketsOwn

\* A sequence of ids of operations in the order they were made.
Ordered(s) == \A i, j \in DOMAIN s : i < j => s[i] < s[j]

\* The answer to an operation is among the envelopes d.
Answered(d, id) == \E k \in DOMAIN d : d[k] \in {OpEnvelope(id), ErrorEnvelope(id)}

\* Every outbox is in order.
OutboxesOrdered == \A c \in Clients : Ordered(outbox[c])

AckInv == ConnInv /\ OutboxesOrdered /\ AckComing

-----------------------------------------------------------------------------
\* deliverLocked leaves the queues of the others alone.
LEMMA DeliverOthers ==
    ASSUME NEW targets \in SUBSET Conns, NEW msg, Deliver(targets, msg)
    PROVE  \A n \in Conns \ targets : down'[n] = down[n]
BY DEF Deliver

\* Closed connections are not listening, and what listens is joined.
LEMMA ListeningJoined ==
    ASSUME ConnTypeOK, ConnInv
    PROVE  \A n \in Listening : stage[n] = "joined" /\ ~closed[n] /\ n \in Conns
BY OwnerType, SyncAssumption DEF ConnInv, PlacesTaken, Listening, SyncAssumption

\* A step that moves no connection, closes perhaps some, and writes to none that
\* is still dialing.
LEMMA ConnFrame ==
    ASSUME ConnInv, UNCHANGED <<clients, stage, sock>>,
           \A n \in Conns : closed[n] => closed'[n],
           \A c \in Clients : synced'[c] => synced[c],
           \A c \in Clients : sock[c] # NoConn /\ stage[sock[c]] = "dialing" =>
              down'[sock[c]] = down[sock[c]]
    PROVE  ConnInv'
<1>1. PlacesTaken' /\ OpenInPlace'
  BY DEF ConnInv, PlacesTaken, OpenInPlace
<1>2. SocketsOwn'
  BY DEF ConnInv, SocketsOwn
<1> QED
  BY <1>1, <1>2 DEF ConnInv

\* deliverLocked does not write to a closed connection.
LEMMA ConnDelivers ==
    ASSUME ConnTypeOK, BrowserTypeOK, ConnInv, UNCHANGED <<clients, stage, sock, synced>>,
           NEW targets \in SUBSET Conns, NEW msg \in Envelopes, Deliver(targets, msg),
           \A n \in targets : ~closed[n]
    PROVE  ConnInv' /\ Listening' \subseteq Listening
<1>1. \A n \in Conns : closed[n] => closed'[n]
  BY DeliverType DEF ConnTypeOK
<1>2. \A n \in Conns \ targets : down'[n] = down[n]
  BY DeliverOthers
<1>3. \A n \in targets : stage[n] = "joined"
  BY OwnerType, SyncAssumption DEF ConnInv, PlacesTaken, OpenInPlace, SyncAssumption
<1>4. \A c \in Clients : sock[c] # NoConn => sock[c] \in Conns
  BY DEF BrowserTypeOK
<1>5. ConnInv'
  BY <1>1, <1>2, <1>3, <1>4, ConnFrame
<1>6. Listening' \subseteq Listening
  BY <1>1 DEF Listening
<1> QED
  BY <1>5, <1>6

\* The socket of one client is not another's.
LEMMA SocketsApart ==
    ASSUME BrowserTypeOK, ConnInv, NEW c \in Clients, NEW d \in Clients, c # d,
           sock[c] # NoConn
    PROVE  sock[d] # sock[c]
BY DEF ConnInv, SocketsOwn

-----------------------------------------------------------------------------
(* Lemmas about orders and answers. *)

\* An id above all others keeps a sequence in order.
LEMMA OrderedAppend ==
    ASSUME NEW s \in Seq(Nat), NEW e \in Nat, Ordered(s), \A k \in DOMAIN s : s[k] < e
    PROVE  Ordered(Append(s, e))
<1> DEFINE r == Append(s, e)
<1>1. /\ r \in Seq(Nat) /\ Len(r) = Len(s) + 1 /\ Len(s) \in Nat /\ DOMAIN s = 1 .. Len(s)
      /\ \A i \in 1 .. Len(s) : r[i] = s[i]
      /\ r[Len(s) + 1] = e
  BY AppendProperties, LenProperties
<1> HIDE DEF r
<1>2. DOMAIN r = 1 .. Len(s) + 1
  BY <1>1, LenProperties
<1>3. ASSUME NEW i \in 1 .. Len(s) + 1, NEW j \in 1 .. Len(s) + 1, i < j
      PROVE  r[i] < r[j]
  <2>1. i \in 1 .. Len(s) /\ r[i] = s[i]
    BY <1>1, <1>3
  <2>2. CASE j = Len(s) + 1
    BY <1>1, <2>1, <2>2
  <2>3. CASE j # Len(s) + 1
    <3>1. j \in 1 .. Len(s) /\ r[j] = s[j]
      BY <1>1, <2>3
    <3> QED
      BY <1>1, <1>3, <2>1, <3>1 DEF Ordered
  <2> QED
    BY <2>2, <2>3
<1>4. Ordered(r)
  BY <1>2, <1>3 DEF Ordered
<1> QED
  BY <1>4 DEF r

\* Deleting an entry keeps a sequence in order, and none of its like is left.
LEMMA OrderedRemove ==
    ASSUME NEW s \in Seq(Nat), NEW p \in 1 .. Len(s), Ordered(s)
    PROVE  /\ Ordered(RemoveAt(s, p))
           /\ ToSet(RemoveAt(s, p)) \subseteq ToSet(s) \ {s[p]}
<1> DEFINE r == RemoveAt(s, p)
<1>1. /\ r \in Seq(Nat) /\ Len(r) = Len(s) - 1 /\ Len(s) \in Nat
      /\ \A i \in 1 .. Len(s) - 1 : r[i] = IF i < p THEN s[i] ELSE s[i + 1]
  <2>1. Len(s) \in Nat
    OBVIOUS
  <2> QED
    BY <2>1, RemoveAtProperties, Zenon
<1>2. /\ DOMAIN s = 1 .. Len(s) /\ \A i \in 1 .. Len(s) : s[i] \in Nat
      /\ \A i, j \in 1 .. Len(s) : i < j => s[i] < s[j]
  BY LenProperties, ElementOfSeq DEF Ordered
<1> HIDE DEF r
<1>3. DOMAIN r = 1 .. Len(s) - 1
  BY <1>1, LenProperties
<1> DEFINE at(i) == IF i < p THEN i ELSE i + 1
<1>4. \A i \in 1 .. Len(s) - 1 : at(i) \in 1 .. Len(s) /\ at(i) # p /\ r[i] = s[at(i)]
  BY <1>1
<1>5. ASSUME NEW i \in 1 .. Len(s) - 1, NEW j \in 1 .. Len(s) - 1, i < j
      PROVE  r[i] < r[j]
  <2>1. at(i) < at(j)
    BY <1>5
  <2> HIDE DEF at
  <2> QED
    BY <1>2, <1>4, <2>1
<1> HIDE DEF at
<1>6. Ordered(r)
  BY <1>3, <1>5 DEF Ordered
<1>7. ASSUME NEW i \in 1 .. Len(s) - 1 PROVE r[i] \in ToSet(s) /\ r[i] # s[p]
  <2>1. PICK k \in 1 .. Len(s) : r[i] = s[k] /\ k # p
    BY <1>4
  <2>2. s[k] # s[p]
    <3>1. k < p \/ p < k
      BY <2>1
    <3>2. s[k] < s[p] \/ s[p] < s[k]
      BY <1>2, <3>1
    <3> QED
      BY <1>2, <3>2
  <2> QED
    BY <1>2, <2>1, <2>2 DEF ToSet
<1>8. ToSet(r) \subseteq ToSet(s) \ {s[p]}
  BY <1>3, <1>7 DEF ToSet
<1> QED
  BY <1>6, <1>8 DEF r

\* Deleting an id from an outbox.
LEMMA OutboxDeleteOrdered ==
    ASSUME BrowserTypeOK, OutboxesOrdered, NEW c \in Clients, NEW id, OutboxDelete(c, id)
    PROVE  /\ OutboxesOrdered'
           /\ \A d \in Clients : ToSet(outbox'[d]) \subseteq ToSet(outbox[d])
           /\ id \notin ToSet(outbox'[c])
           /\ \A d \in Clients : d # c => outbox'[d] = outbox[d]
<1>1. CASE id \notin ToSet(outbox[c])
  BY <1>1 DEF OutboxDelete, OutboxesOrdered
<1>2. CASE id \in ToSet(outbox[c])
  <2>1. PICK p \in DOMAIN outbox[c] :
           outbox[c][p] = id /\ outbox' = [outbox EXCEPT ![c] = RemoveAt(@, p)]
    BY <1>2 DEF OutboxDelete
  <2>2. outbox[c] \in Seq(Nat) /\ p \in 1 .. Len(outbox[c]) /\ Ordered(outbox[c])
    BY DEF BrowserTypeOK, OutboxesOrdered
  <2>3. /\ Ordered(RemoveAt(outbox[c], p))
        /\ ToSet(RemoveAt(outbox[c], p)) \subseteq ToSet(outbox[c]) \ {id}
    BY <2>1, <2>2, OrderedRemove
  <2>4. /\ outbox'[c] = RemoveAt(outbox[c], p)
        /\ \A d \in Clients : d # c => outbox'[d] = outbox[d]
    BY <2>1 DEF BrowserTypeOK
  <2> QED
    BY <2>3, <2>4 DEF OutboxesOrdered
<1> QED
  BY <1>1, <1>2

\* An answer queued before stays queued.
LEMMA AnsweredAppend ==
    ASSUME NEW d \in Seq(Envelopes), NEW msg \in Envelopes, NEW id
    PROVE  /\ Answered(d, id) => Answered(Append(d, msg), id)
           /\ msg \in {OpEnvelope(id), ErrorEnvelope(id)} => Answered(Append(d, msg), id)
<1> DEFINE e == Append(d, msg)
<1>1. /\ e \in Seq(Envelopes) /\ Len(e) = Len(d) + 1 /\ Len(d) \in Nat
      /\ DOMAIN d = 1 .. Len(d)
      /\ \A i \in 1 .. Len(d) : e[i] = d[i]
      /\ e[Len(d) + 1] = msg
  BY AppendProperties, LenProperties
<1> HIDE DEF e
<1>2. DOMAIN e = 1 .. Len(d) + 1
  BY <1>1, LenProperties
<1>3. \A i \in DOMAIN d : i \in DOMAIN e
  BY <1>1, <1>2
<1>4. Len(d) + 1 \in DOMAIN e
  BY <1>1, <1>2
<1>5. Answered(d, id) => Answered(e, id)
  BY <1>1, <1>3 DEF Answered
<1>6. msg \in {OpEnvelope(id), ErrorEnvelope(id)} => Answered(e, id)
  BY <1>1, <1>4 DEF Answered
<1> QED
  BY <1>5, <1>6 DEF e

\* Taking the next envelope leaves the others.
LEMMA AnsweredTail ==
    ASSUME NEW d \in Seq(Envelopes), d # <<>>, NEW id, Answered(d, id),
           Head(d) \notin {OpEnvelope(id), ErrorEnvelope(id)}
    PROVE  Answered(Tail(d), id)
<1>1. /\ Tail(d) \in Seq(Envelopes) /\ Len(Tail(d)) = Len(d) - 1
      /\ \A i \in 1 .. Len(Tail(d)) : Tail(d)[i] = d[i + 1]
  BY HeadTailProperties
<1>2. Head(d) = d[1] /\ Len(d) \in Nat \ {0} /\ DOMAIN d = 1 .. Len(d)
  BY EmptySeq, LenProperties
<1>3. DOMAIN Tail(d) = 1 .. Len(d) - 1
  BY <1>1, LenProperties
<1>4. PICK k \in 1 .. Len(d) : d[k] \in {OpEnvelope(id), ErrorEnvelope(id)}
  BY <1>2 DEF Answered
<1>5. k # 1 /\ k - 1 \in 1 .. Len(d) - 1 /\ (k - 1) + 1 = k
  BY <1>2, <1>4
<1>6. Tail(d)[k - 1] = d[(k - 1) + 1]
  BY <1>1, <1>5
<1>7. k - 1 \in DOMAIN Tail(d) /\ Tail(d)[k - 1] = d[k]
  BY <1>3, <1>5, <1>6
<1> QED
  BY <1>4, <1>7 DEF Answered

\* Whose answer an envelope is.
LEMMA AnswerOf ==
    ASSUME NEW msg, NEW id, msg \in {OpEnvelope(id), ErrorEnvelope(id)}
    PROVE  msg.type \in {"op", "error"} /\ msg.id = id
BY DEF OpEnvelope, ErrorEnvelope

-----------------------------------------------------------------------------
(* Acknowledgements *)

\* Where an operation may be that is owed an answer: on its way to the room, in
\* its hands, or answered.
OnItsWay(n, id) == id \in ToSet(up[n]) \cup {loop} \/ Answered(down[n], id)

\* AckComing, by place.
LEMMA AckComingIs ==
    AckComing <=> \A c \in Clients : synced[c] /\ sock[c] \in Listening =>
                     \A id \in ToSet(outbox[c]) : OnItsWay(sock[c], id)
BY DEF AckComing, OnItsWay, Answered

\* A step that brings nobody on line and adds nothing to an outbox.
LEMMA AckFrame ==
    ASSUME AckComing,
           \A c \in Clients : synced'[c] /\ sock'[c] \in Listening' =>
              /\ synced[c] /\ sock[c] \in Listening /\ sock'[c] = sock[c]
              /\ ToSet(outbox'[c]) \subseteq ToSet(outbox[c])
              /\ \A id \in ToSet(outbox'[c]) :
                    OnItsWay(sock[c], id) => OnItsWay(sock[c], id)'
    PROVE  AckComing'
<1> SUFFICES ASSUME NEW c \in Clients, synced'[c], sock'[c] \in Listening',
                    NEW id \in ToSet(outbox'[c])
             PROVE  OnItsWay(sock[c], id)' 
  BY DEF AckComing, OnItsWay, Answered
<1> QED
  BY AckComingIs

\* A step that changes nothing an answer depends on, for those it leaves on line.
LEMMA AckStays ==
    ASSUME AckComing, UNCHANGED <<loop, outbox>>,
           \A c \in Clients : synced'[c] /\ sock'[c] \in Listening' =>
              /\ synced[c] /\ sock[c] \in Listening /\ sock'[c] = sock[c]
              /\ up'[sock[c]] = up[sock[c]] /\ down'[sock[c]] = down[sock[c]]
    PROVE  AckComing'
<1> SUFFICES ASSUME NEW c \in Clients, synced'[c], sock'[c] \in Listening'
             PROVE  \A id \in ToSet(outbox[c]) :
                       OnItsWay(sock[c], id) => OnItsWay(sock[c], id)'
  BY AckFrame
<1> QED
  BY DEF OnItsWay, Answered

\* An envelope is sent: whatever else an operation waits for stays, or is msg.
LEMMA AckDelivers ==
    ASSUME ConnTypeOK, ConnInv, AckComing, UNCHANGED <<clients, sock, synced, outbox>>,
           NEW targets \in SUBSET Conns, NEW msg \in Envelopes, Deliver(targets, msg),
           Listening' \subseteq Listening,
           \A c \in Clients, id \in Nat : sock[c] \in Listening /\ id \in ToSet(up[sock[c]]) \cup {loop} =>
              \/ id \in ToSet(up'[sock[c]]) \cup {loop'}
              \/ sock[c] \in targets /\ msg \in {OpEnvelope(id), ErrorEnvelope(id)},
           BrowserTypeOK
    PROVE  AckComing'
<1>1. /\ \A n \in Conns : down'[n] = down[n] \/ down'[n] = Append(down[n], msg)
      /\ \A n \in targets : closed'[n] \/ down'[n] = Append(down[n], msg)
  BY DeliverType DEF ConnTypeOK
<1> SUFFICES ASSUME NEW c \in Clients, synced[c], sock[c] \in Listening', sock[c] \in Listening,
                    NEW id \in ToSet(outbox[c]), OnItsWay(sock[c], id)
             PROVE  OnItsWay(sock[c], id)'
  BY AckFrame
<1> DEFINE n == sock[c]
<1>2. n \in Conns /\ ~closed'[n] /\ down[n] \in Seq(Envelopes) /\ id \in Nat
  <2>1. outbox[c] \in Seq(Nat)
    BY DEF BrowserTypeOK
  <2>2. id \in Nat
    <3>1. PICK k \in 1 .. Len(outbox[c]) : outbox[c][k] = id
      BY <2>1, LenProperties DEF ToSet
    <3> QED
      BY <2>1, <3>1, ElementOfSeq
  <2> QED
    BY <2>2 DEF Listening, ConnTypeOK
<1>3. CASE Answered(down[n], id)
  <2>1. Answered(Append(down[n], msg), id)
    BY <1>2, <1>3, AnsweredAppend
  <2>2. Answered(down'[n], id)
    BY <1>1, <1>2, <1>3, <2>1
  <2> QED
    BY <2>2 DEF OnItsWay, Answered, OpEnvelope, ErrorEnvelope
<1>4. CASE id \in ToSet(up[n]) \cup {loop}
  <2>1. CASE id \in ToSet(up'[n]) \cup {loop'}
    BY <2>1 DEF OnItsWay
  <2>2. CASE n \in targets /\ msg \in {OpEnvelope(id), ErrorEnvelope(id)}
    <3>1. Answered(Append(down[n], msg), id) /\ down'[n] = Append(down[n], msg)
      BY <1>1, <1>2, <2>2, AnsweredAppend
    <3> QED
      BY <3>1 DEF OnItsWay, Answered, OpEnvelope, ErrorEnvelope
  <2> QED
    BY <1>2, <1>4, <2>1, <2>2
<1> QED
  BY <1>3, <1>4 DEF OnItsWay

\* The elements of both parts.
LEMMA ConcatSet ==
    ASSUME NEW s \in Seq(Nat), NEW t \in Seq(Nat)
    PROVE  ToSet(s \o t) = ToSet(s) \cup ToSet(t)
<1> DEFINE r == s \o t
<1>1. /\ r \in Seq(Nat) /\ Len(r) = Len(s) + Len(t) /\ Len(s) \in Nat /\ Len(t) \in Nat
      /\ DOMAIN s = 1 .. Len(s) /\ DOMAIN t = 1 .. Len(t)
      /\ \A i \in 1 .. Len(s) + Len(t) : r[i] = IF i <= Len(s) THEN s[i] ELSE t[i - Len(s)]
  BY ConcatProperties, LenProperties
<1> HIDE DEF r
<1>2. DOMAIN r = 1 .. Len(s) + Len(t)
  BY <1>1, LenProperties
<1>3. ASSUME NEW i \in 1 .. Len(s) + Len(t) PROVE r[i] \in ToSet(s) \cup ToSet(t)
  <2>1. CASE i <= Len(s)
    <3>1. i \in DOMAIN s /\ r[i] = s[i]
      BY <1>1, <2>1
    <3> QED
      BY <3>1 DEF ToSet
  <2>2. CASE ~(i <= Len(s))
    <3>1. i - Len(s) \in 1 .. Len(t) /\ r[i] = t[i - Len(s)]
      BY <1>1, <2>2
    <3> QED
      BY <1>1, <3>1 DEF ToSet
  <2> QED
    BY <2>1, <2>2
<1>4. ASSUME NEW i \in 1 .. Len(s) PROVE s[i] \in ToSet(r)
  <2>1. i \in 1 .. Len(s) + Len(t) /\ r[i] = s[i]
    BY <1>1
  <2> QED
    BY <1>2, <2>1 DEF ToSet
<1>5. ASSUME NEW i \in 1 .. Len(t) PROVE t[i] \in ToSet(r)
  <2>1. Len(s) + i \in 1 .. Len(s) + Len(t) /\ ~(Len(s) + i <= Len(s)) /\ (Len(s) + i) - Len(s) = i
    BY <1>1
  <2>2. \A k \in 1 .. Len(s) + Len(t) : ~(k <= Len(s)) => r[k] = t[k - Len(s)]
    BY <1>1
  <2>3. r[Len(s) + i] = t[i]
    BY <2>1, <2>2
  <2> QED
    BY <1>2, <2>1, <2>3 DEF ToSet
<1>6. ToSet(r) = ToSet(s) \cup ToSet(t)
  <2>1. ToSet(r) \subseteq ToSet(s) \cup ToSet(t)
    BY <1>2, <1>3 DEF ToSet
  <2>2. ToSet(s) \subseteq ToSet(r)
    BY <1>1, <1>4 DEF ToSet
  <2>3. ToSet(t) \subseteq ToSet(r)
    BY <1>1, <1>5 DEF ToSet
  <2> QED
    BY <2>1, <2>2, <2>3
<1> QED
  BY <1>6 DEF r

\* What the room takes leaves the queue, and nothing else does.
LEMMA TakesSet ==
    ASSUME ConnTypeOK, NEW n \in Conns, Takes(n)
    PROVE  /\ \A m \in Conns : m # n => up'[m] = up[m]
           /\ up'[n] = Tail(up[n])
           /\ ToSet(up[n]) \subseteq {Head(up[n])} \cup ToSet(up'[n])
<1>1. up[n] \in Seq(Nat) /\ up[n] # <<>> /\ up' = [up EXCEPT ![n] = Tail(up[n])]
  BY DEF ConnTypeOK, Takes
<1>2. up'[n] = Tail(up[n]) /\ \A m \in Conns : m # n => up'[m] = up[m]
  BY <1>1 DEF ConnTypeOK
<1> QED
  BY <1>1, <1>2, HeadTailAll

\* A browser takes an answer, and crosses the operation off.
LEMMA AckReceives ==
    ASSUME ConnTypeOK, BrowserTypeOK, AckInv, NEW c \in Clients, NEW t \in {"op", "error"},
           Receives(c, t), OutboxDelete(c, Head(down[sock[c]]).id),
           UNCHANGED <<clients, stage, closed, sock, synced, loop, up>>
    PROVE  AckInv'
<1> DEFINE n == sock[c]
           d == down[n]
<1>1. /\ n \in Conns /\ n # NoConn /\ d \in Seq(Envelopes) /\ d # <<>> /\ Head(d).type = t
      /\ down' = [down EXCEPT ![n] = Tail(d)]
  BY ReceivesType DEF Receives, ConnTypeOK
<1>2. /\ OutboxesOrdered'
      /\ \A e \in Clients : ToSet(outbox'[e]) \subseteq ToSet(outbox[e])
      /\ Head(d).id \notin ToSet(outbox'[c])
  BY OutboxDeleteOrdered DEF AckInv
<1>3. down'[n] = Tail(d) /\ \A m \in Conns : m # n => down'[m] = down[m]
  BY <1>1 DEF ConnTypeOK
<1>4. \A e \in Clients : e # c => sock[e] # n
  BY <1>1, SocketsApart DEF AckInv
<1>5. stage[n] # "dialing"
  BY <1>1 DEF AckInv, ConnInv, SocketsOwn
<1>6. ConnInv' /\ Listening' = Listening
  <2>1. \A e \in Clients : sock[e] # NoConn /\ stage[sock[e]] = "dialing" =>
           down'[sock[e]] = down[sock[e]]
    BY <1>3, <1>5 DEF BrowserTypeOK
  <2>2. ConnInv'
    BY <2>1, ConnFrame DEF AckInv
  <2> QED
    BY <2>2 DEF Listening
<1>7. ASSUME NEW e \in Clients, sock[e] \in Listening, NEW id \in ToSet(outbox'[e]),
             OnItsWay(sock[e], id)
      PROVE  OnItsWay(sock[e], id)'
  <2>1. sock[e] \in Conns /\ sock' = sock /\ up' = up /\ loop' = loop
    BY <1>7 DEF Listening
  <2>2. CASE e # c
    <3>1. down'[sock[e]] = down[sock[e]]
      BY <1>3, <1>4, <2>1, <2>2
    <3> QED
      BY <1>7, <2>1, <3>1 DEF OnItsWay, Answered
  <2>3. CASE e = c
    <3>1. CASE id \in ToSet(up[n]) \cup {loop}
      BY <2>1, <2>3, <3>1 DEF OnItsWay
    <3>2. CASE Answered(d, id)
      <4>1. Head(d) \notin {OpEnvelope(id), ErrorEnvelope(id)}
        BY <1>2, <1>7, <2>3, AnswerOf
      <4> HIDE DEF d
      <4>2. Answered(Tail(d), id)
        BY <1>1, <3>2, <4>1, AnsweredTail
      <4> QED
        BY <1>3, <2>1, <2>3, <4>2 DEF OnItsWay, Answered, OpEnvelope, ErrorEnvelope
    <3> QED
      BY <1>7, <2>3, <3>1, <3>2 DEF OnItsWay
  <2> QED
    BY <2>2, <2>3
<1>8. AckComing'
  BY <1>2, <1>6, <1>7, AckFrame DEF AckInv
<1> QED
  BY <1>2, <1>6, <1>8 DEF AckInv

-----------------------------------------------------------------------------
\* Nobody is connected yet.
LEMMA AckInit == Init => AckInv
<1> SUFFICES ASSUME Init PROVE AckInv
  OBVIOUS
<1> USE DEF Init, InitWith
<1>1. /\ \A c \in Clients : clients[c] = NoConn /\ sock[c] = NoConn /\ ~synced[c]
                             /\ outbox[c] = <<>>
      /\ \A n \in Conns : closed[n]
  OBVIOUS
<1>2. ConnInv
  BY <1>1 DEF ConnInv, PlacesTaken, OpenInPlace, SocketsOwn
<1>3. OutboxesOrdered
  BY <1>1 DEF OutboxesOrdered, Ordered
<1>4. AckComing
  BY <1>1 DEF AckComing
<1> QED
  BY <1>2, <1>3, <1>4 DEF AckInv

\* Every action keeps the three parts.
LEMMA AckStep == TypeInv /\ AckInv /\ [Next]_vars => AckInv'
<1> SUFFICES ASSUME TypeInv, AckInv, [Next]_vars PROVE AckInv'
  OBVIOUS
<1> USE DEF serverVars, connVars, sendVars, callVars, browserVars, logVars, boundVars
<1>0. /\ ServerTypeOK /\ CallTypeOK /\ ConnTypeOK /\ BrowserTypeOK /\ HistoryTypeOK
      /\ KnownIds /\ ConnInv /\ OutboxesOrdered /\ AckComing
  BY DEF TypeInv, ProtocolTypeOK, AckInv
<1>a. ASSUME UNCHANGED outbox PROVE OutboxesOrdered'
  BY <1>0, <1>a DEF OutboxesOrdered
<1>b. ASSUME UNCHANGED <<clients, stage, closed, down, sock, synced>> PROVE ConnInv' /\ Listening' = Listening
  BY <1>0, <1>b DEF ConnInv, PlacesTaken, OpenInPlace, SocketsOwn, Listening
<1>c. ASSUME UNCHANGED <<clients, stage, closed, down, sock, synced, loop, up, outbox>>
      PROVE  AckInv'
  <2>1. AckComing'
    BY <1>0, <1>b, <1>c, AckStays
  <2> QED
    BY <1>a, <1>b, <1>c, <2>1 DEF AckInv
<1>d. \A c \in Clients, d \in Clients : c # d /\ sock[c] # NoConn => sock[d] # sock[c]
  BY <1>0, SocketsApart
<1>e. \A n \in Listening : n \in Conns /\ stage[n] = "joined" /\ ~closed[n]
  BY <1>0, ListeningJoined
<1>1. ASSUME NEW c \in Clients, NEW e \in EditsOf[c], Commit(c, e) PROVE AckInv'
  <2> DEFINE id == Len(ops) + 1
  <2>1. /\ UNCHANGED <<clients, stage, closed, down, sock, synced, loop>>
        /\ outbox' = [outbox EXCEPT ![c] = Append(outbox[c], id)]
        /\ up' = IF synced[c] /\ stage[sock[c]] = "joined"
                  THEN [up EXCEPT ![sock[c]] = Append(up[sock[c]], id)] ELSE up
    BY <1>1 DEF Commit, SendOp
  <2>2. id \in Nat /\ outbox[c] \in Seq(Nat) /\ \A k \in DOMAIN outbox[c] : outbox[c][k] < id
    <3>1. Len(ops) \in Nat
      BY <1>0 DEF HistoryTypeOK
    <3> QED
      BY <1>0, <3>1 DEF KnownIds, OpIds, BrowserTypeOK
  <2> HIDE DEF id
  <2>3. ConnInv' /\ Listening' = Listening
    BY <1>b, <2>1
  <2>4. /\ outbox'[c] = Append(outbox[c], id)
        /\ \A d \in Clients : d # c => outbox'[d] = outbox[d]
    BY <1>0, <2>1 DEF BrowserTypeOK
  <2>5. OutboxesOrdered'
    <3>1. Ordered(outbox'[c])
      BY <1>0, <2>2, <2>4, OrderedAppend DEF OutboxesOrdered
    <3> QED
      BY <1>0, <2>4, <3>1 DEF OutboxesOrdered
  <2>6. \A n \in Conns : ToSet(up[n]) \subseteq ToSet(up'[n])
    <3>1. CASE up' = up
      BY <3>1
    <3>2. CASE up' # up
      <4>1. up' = [up EXCEPT ![sock[c]] = Append(up[sock[c]], id)]
        BY <2>1, <3>2
      <4>2. \A n \in Conns : up'[n] = up[n] \/ up'[n] = Append(up[n], id)
        BY <1>0, <4>1 DEF ConnTypeOK
      <4>3. \A n \in Conns : ToSet(up[n]) \subseteq ToSet(Append(up[n], id))
        BY <1>0, <2>2, AppendSet DEF ConnTypeOK
      <4> QED
        BY <4>2, <4>3
    <3> QED
      BY <3>1, <3>2
  <2>7. ASSUME synced[c], sock[c] \in Listening PROVE id \in ToSet(up'[sock[c]])
    <3>1. sock[c] \in Conns /\ up' = [up EXCEPT ![sock[c]] = Append(up[sock[c]], id)]
      BY <1>e, <2>1, <2>7
    <3>2. up'[sock[c]] = Append(up[sock[c]], id) /\ up[sock[c]] \in Seq(Nat)
      BY <1>0, <3>1 DEF ConnTypeOK
    <3> QED
      BY <2>2, <3>2, AppendSet
  <2>8. ASSUME NEW d \in Clients, synced[d], sock[d] \in Listening, NEW i \in ToSet(outbox'[d])
        PROVE  OnItsWay(sock[d], i)'
    <3>1. CASE i \in ToSet(outbox[d])
      <4>1. OnItsWay(sock[d], i) /\ sock[d] \in Conns
        BY <1>0, <1>e, <2>8, <3>1, AckComingIs
      <4>2. sock' = sock /\ down' = down /\ loop' = loop
        BY <2>1
      <4>3. ToSet(up[sock[d]]) \subseteq ToSet(up'[sock[d]])
        BY <2>6, <4>1
      <4> QED
        BY <4>1, <4>2, <4>3 DEF OnItsWay, Answered
    <3>2. CASE i \notin ToSet(outbox[d])
      <4>1. d = c /\ ToSet(Append(outbox[c], id)) = ToSet(outbox[c]) \cup {id}
        BY <2>2, <2>4, <2>8, <3>2, AppendSet
      <4>2. i = id /\ sock' = sock
        BY <2>1, <2>4, <2>8, <3>2, <4>1
      <4> QED
        BY <2>7, <2>8, <4>1, <4>2 DEF OnItsWay
    <3> QED
      BY <3>1, <3>2
  <2>9. AckComing'
    BY <2>1, <2>3, <2>8 DEF AckComing, OnItsWay, Answered
  <2> QED
    BY <2>3, <2>5, <2>9 DEF AckInv
<1>2. ASSUME NEW c \in Clients, NEW e \in LiveEditsOf[c], CommitLive(c, e) PROVE AckInv'
  <2> DEFINE id == Len(ops) + 1
  <2>1. /\ UNCHANGED <<clients, stage, closed, down, sock, synced, loop, outbox>>
        /\ up' = up \/ up' = [up EXCEPT ![sock[c]] = Append(up[sock[c]], id)]
    BY <1>2 DEF CommitLive, SendOp
  <2>2. id \in Nat
    BY <1>0 DEF HistoryTypeOK
  <2> HIDE DEF id
  <2>3. ConnInv' /\ Listening' = Listening /\ OutboxesOrdered'
    BY <1>a, <1>b, <2>1
  <2>4. \A n \in Conns : ToSet(up[n]) \subseteq ToSet(up'[n])
    <3>1. \A n \in Conns : up'[n] = up[n] \/ up'[n] = Append(up[n], id)
      BY <1>0, <2>1 DEF ConnTypeOK
    <3>2. \A n \in Conns : ToSet(up[n]) \subseteq ToSet(Append(up[n], id))
      BY <1>0, <2>2, AppendSet DEF ConnTypeOK
    <3> QED
      BY <3>1, <3>2
  <2>5. AckComing'
    BY <1>0, <1>e, <2>1, <2>3, <2>4, AckFrame DEF OnItsWay, Answered
  <2> QED
    BY <2>3, <2>5 DEF AckInv
<1>3. ASSUME NEW c \in Clients, Connect(c) PROVE AckInv'
  <2>1. PICK n \in Conns : /\ Owner(n) = c /\ sock[c] = NoConn
                           /\ stage[n] = "idle"
                           /\ sock' = [sock EXCEPT ![c] = n]
                           /\ stage' = [stage EXCEPT ![n] = "dialing"]
                           /\ down' = [down EXCEPT ![n] = <<>>]
                           /\ UNCHANGED <<clients, closed, synced, loop, up, outbox>>
    BY <1>3 DEF Connect
  <2>2. /\ sock'[c] = n /\ \A d \in Clients : d # c => sock'[d] = sock[d]
        /\ stage'[n] = "dialing" /\ \A m \in Conns : m # n => stage'[m] = stage[m]
        /\ down'[n] = <<>> /\ \A m \in Conns : m # n => down'[m] = down[m]
        /\ ~synced[c]
    BY <1>0, <2>1 DEF ConnTypeOK, BrowserTypeOK, ConnInv, SocketsOwn
  <2>3. \A d \in Clients : d # c => sock[d] # n
    BY <1>0, <2>1, SyncAssumption DEF ConnInv, SocketsOwn, SyncAssumption
  <2>4. \A d \in Clients : sock[d] # NoConn => sock[d] \in Conns
    BY <1>0 DEF BrowserTypeOK
  <2>5. PlacesTaken'
    <3>1. \A d \in Clients : clients[d] # NoConn => clients[d] \in Conns /\ clients[d] # n
      BY <1>0, <2>1 DEF ConnTypeOK, ConnInv, PlacesTaken
    <3> QED
      BY <1>0, <2>1, <2>2, <3>1 DEF ConnInv, PlacesTaken
  <2>6. OpenInPlace'
    BY <1>0, <2>1 DEF ConnInv, OpenInPlace
  <2>7. SocketsOwn'
    BY <1>0, <2>1, <2>2, <2>3, <2>4 DEF ConnInv, SocketsOwn
  <2>8. Listening' = Listening
    BY <2>1 DEF Listening
  <2>9. AckComing'
    BY <1>0, <1>e, <2>1, <2>2, <2>3, <2>8, AckStays
  <2> QED
    BY <1>a, <2>1, <2>5, <2>6, <2>7, <2>9 DEF AckInv, ConnInv
<1>4. ASSUME NEW n \in Conns, JoinRegister(n) PROVE AckInv'
  <2> DEFINE o == Owner(n)
  <2>1. /\ stage[n] = "dialing"
        /\ stage' = [stage EXCEPT ![n] = "joined"]
        /\ clients' = [clients EXCEPT ![o] = n]
        /\ closed' = [m \in Conns |-> IF m = n THEN FALSE ELSE closed[m] \/ m = clients[o]]
        /\ UNCHANGED <<down, sock, synced, loop, up, outbox>>
    BY <1>4 DEF JoinRegister
  <2>2. o \in Clients /\ n # NoConn
    BY OwnerType, SyncAssumption DEF SyncAssumption
  <2>3. /\ stage'[n] = "joined" /\ \A m \in Conns : m # n => stage'[m] = stage[m]
        /\ clients'[o] = n /\ \A d \in Clients : d # o => clients'[d] = clients[d]
        /\ ~closed'[n] /\ \A m \in Conns : m # n => closed'[m] = (closed[m] \/ m = clients[o])
    BY <1>0, <2>1, <2>2 DEF ConnTypeOK
  <2>4. PlacesTaken'
    <3>1. \A d \in Clients : clients[d] # NoConn => clients[d] \in Conns
      BY <1>0 DEF ConnTypeOK
    <3> QED
      BY <1>0, <2>3, <3>1 DEF ConnInv, PlacesTaken
  <2>5. OpenInPlace'
    <3>1. ASSUME NEW m \in Conns, m # n, ~closed'[m] PROVE clients'[Owner(m)] = m
      <4>1. Owner(m) \in Clients /\ clients[Owner(m)] = m /\ m # clients[o]
        BY <1>0, <2>3, <3>1, OwnerType DEF ConnInv, OpenInPlace
      <4> QED
        BY <2>3, <4>1
    <3> QED
      BY <2>3, <3>1 DEF OpenInPlace
  <2>6. \A d \in Clients : sock[d] # NoConn => sock[d] \in Conns
    BY <1>0 DEF BrowserTypeOK
  <2>7. SocketsOwn'
    BY <1>0, <2>1, <2>3, <2>6 DEF ConnInv, SocketsOwn
  <2>8. \A d \in Clients : synced[d] => sock[d] # n
    BY <1>0, <2>1 DEF ConnInv, SocketsOwn
  <2>9. \A m \in Listening' : m # n => m \in Listening
    BY <2>3, OwnerType, <1>0 DEF Listening, ConnInv, OpenInPlace
  <2>10. AckComing'
    BY <1>0, <2>1, <2>8, <2>9, AckStays
  <2> QED
    BY <1>a, <2>1, <2>4, <2>5, <2>7, <2>10 DEF AckInv, ConnInv
<1>5. ASSUME NEW s \in toState, CaptureState(s) PROVE AckInv'
  BY <1>5, <1>c DEF CaptureState
<1>6. ASSUME NEW s \in captured, EnqueueState(s) PROVE AckInv'
  <2>1. s.conn \in Conns /\ StateEnvelope(s.objs, s.upto) \in Envelopes
    BY <1>0, EnvelopeType DEF Copies, ConnTypeOK
  <2>2. Open(s.conn) \in SUBSET Conns /\ \A n \in Open(s.conn) : ~closed[n]
    BY <2>1 DEF Open
  <2>3. /\ Deliver(Open(s.conn), StateEnvelope(s.objs, s.upto))
        /\ UNCHANGED <<clients, stage, sock, synced, outbox, up, loop>>
    BY <1>6 DEF EnqueueState
  <2>4. ConnInv' /\ Listening' \subseteq Listening
    BY <1>0, <2>1, <2>2, <2>3, ConnDelivers
  <2>5. AckComing'
    BY <1>0, <2>1, <2>2, <2>3, <2>4, AckDelivers
  <2> QED
    BY <1>a, <2>3, <2>4, <2>5 DEF AckInv
<1>7. ASSUME NEW n \in Conns, DialLost(n) PROVE AckInv'
  <2>1. /\ stage[n] = "dialing" /\ sock[Owner(n)] # n
        /\ stage' = [stage EXCEPT ![n] = "idle"]
        /\ UNCHANGED <<clients, closed, down, sock, synced, loop, up, outbox>>
    BY <1>7 DEF DialLost
  <2>2. stage'[n] = "idle" /\ \A m \in Conns : m # n => stage'[m] = stage[m]
    BY <1>0, <2>1 DEF ConnTypeOK
  <2>3. \A d \in Clients : clients[d] # NoConn => clients[d] \in Conns /\ clients[d] # n
    BY <1>0, <2>1 DEF ConnTypeOK, ConnInv, PlacesTaken
  <2>4. \A d \in Clients : sock[d] # NoConn => sock[d] \in Conns /\ sock[d] # n
    BY <1>0, <2>1, SyncAssumption DEF BrowserTypeOK, ConnInv, SocketsOwn, SyncAssumption
  <2>5. ConnInv'
    <3>1. PlacesTaken'
      BY <1>0, <2>1, <2>2, <2>3 DEF ConnInv, PlacesTaken
    <3>2. OpenInPlace'
      BY <1>0, <2>1 DEF ConnInv, OpenInPlace
    <3>3. SocketsOwn'
      BY <1>0, <2>1, <2>2, <2>4 DEF ConnInv, SocketsOwn
    <3> QED
      BY <3>1, <3>2, <3>3 DEF ConnInv
  <2>6. Listening' = Listening
    BY <2>1 DEF Listening
  <2>7. AckComing'
    BY <1>0, <2>1, <2>6, AckStays
  <2> QED
    BY <1>a, <2>1, <2>5, <2>7 DEF AckInv
<1>8. ASSUME NEW n \in Conns, HandleDuplicate(n) PROVE AckInv'
  <2> DEFINE id == Head(up[n])
  <2>1. Takes(n) /\ Deliver(Open(n), OpEnvelope(id))
        /\ UNCHANGED <<clients, stage, sock, synced, outbox, loop>>
    BY <1>8 DEF HandleDuplicate
  <2>2. id \in Nat
    BY <1>0, <2>1, TakesType, OpsElement
  <2>3. /\ \A m \in Conns : m # n => up'[m] = up[m]
        /\ ToSet(up[n]) \subseteq {id} \cup ToSet(up'[n])
    BY <1>0, <2>1, TakesSet
  <2> HIDE DEF id
  <2>4. Open(n) \in SUBSET Conns /\ (\A m \in Open(n) : ~closed[m]) /\ OpEnvelope(id) \in Envelopes
    BY <2>2, EnvelopeType DEF Open
  <2>5. ConnInv' /\ Listening' \subseteq Listening
    BY <1>0, <2>1, <2>4, ConnDelivers
  <2>6. n \in Listening => n \in Open(n)
    BY <1>e DEF Open
  <2>7. AckComing'
    BY <1>0, <1>e, <2>1, <2>3, <2>4, <2>5, <2>6, AckDelivers
  <2> QED
    BY <1>a, <2>1, <2>5, <2>7 DEF AckInv
<1>9. ASSUME NEW n \in Conns, HandleRejected(n) PROVE AckInv'
  <2> DEFINE id == Head(up[n])
  <2>1. Takes(n) /\ Deliver(Open(n), ErrorEnvelope(id))
        /\ UNCHANGED <<clients, stage, sock, synced, outbox, loop>>
    BY <1>9 DEF HandleRejected
  <2>2. id \in Nat
    BY <1>0, <2>1, TakesType, OpsElement
  <2>3. /\ \A m \in Conns : m # n => up'[m] = up[m]
        /\ ToSet(up[n]) \subseteq {id} \cup ToSet(up'[n])
    BY <1>0, <2>1, TakesSet
  <2> HIDE DEF id
  <2>4. Open(n) \in SUBSET Conns /\ (\A m \in Open(n) : ~closed[m]) /\ ErrorEnvelope(id) \in Envelopes
    BY <2>2, EnvelopeType DEF Open
  <2>5. ConnInv' /\ Listening' \subseteq Listening
    BY <1>0, <2>1, <2>4, ConnDelivers
  <2>6. n \in Listening => n \in Open(n)
    BY <1>e DEF Open
  <2>7. AckComing'
    BY <1>0, <1>e, <2>1, <2>3, <2>4, <2>5, <2>6, AckDelivers
  <2> QED
    BY <1>a, <2>1, <2>5, <2>7 DEF AckInv
<1>10. ASSUME NEW n \in Conns, HandleApply(n) PROVE AckInv'
  <2> DEFINE id == Head(up[n])
  <2>1. Takes(n) /\ loop = Idle /\ loop' = id
        /\ UNCHANGED <<clients, stage, closed, down, sock, synced, outbox>>
    BY <1>10 DEF HandleApply, Takes
  <2>2. /\ \A m \in Conns : m # n => up'[m] = up[m]
        /\ ToSet(up[n]) \subseteq {id} \cup ToSet(up'[n])
    BY <1>0, <2>1, TakesSet
  <2> HIDE DEF id
  <2>3. ConnInv' /\ Listening' = Listening /\ OutboxesOrdered'
    BY <1>a, <1>b, <2>1
  <2>4. ASSUME NEW c \in Clients, sock[c] \in Listening, NEW i \in ToSet(outbox[c]),
               OnItsWay(sock[c], i)
        PROVE  OnItsWay(sock[c], i)'
    <3>1. sock[c] \in Conns /\ sock' = sock /\ down' = down
      BY <1>e, <2>1, <2>4
    <3>2. i # Idle
      <4>1. outbox[c] \in Seq(Nat) /\ \A k \in DOMAIN outbox[c] : outbox[c][k] \in OpIds
        BY <1>0 DEF BrowserTypeOK, KnownIds
      <4>2. Len(ops) \in Nat
        BY <1>0 DEF HistoryTypeOK
      <4> QED
        BY <2>4, <4>1, <4>2 DEF OpIds, Idle, ToSet
    <3>3. CASE Answered(down[sock[c]], i)
      BY <3>1, <3>3 DEF OnItsWay, Answered
    <3>4. CASE i \in ToSet(up[sock[c]])
      <4>1. i \in ToSet(up'[sock[c]]) \cup {id}
        BY <2>2, <3>1, <3>4
      <4> QED
        BY <2>1, <3>1, <4>1 DEF OnItsWay
    <3> QED
      BY <2>1, <2>4, <3>2, <3>3, <3>4 DEF OnItsWay
  <2>5. AckComing'
    BY <1>0, <2>1, <2>3, <2>4, AckFrame
  <2> QED
    BY <2>3, <2>5 DEF AckInv
<1>11. CASE Broadcast
  <2>1. Deliver(Listening, OpEnvelope(loop))
        /\ UNCHANGED <<clients, stage, sock, synced, outbox, up>>
    BY <1>11 DEF Broadcast
  <2>2. Listening \in SUBSET Conns /\ (\A m \in Listening : ~closed[m]) /\ OpEnvelope(loop) \in Envelopes
    BY <1>0, EnvelopeType DEF Listening, ServerTypeOK
  <2>3. ConnInv' /\ Listening' \subseteq Listening
    BY <1>0, <2>1, <2>2, ConnDelivers
  <2>4. AckComing'
    BY <1>0, <2>1, <2>2, <2>3, AckDelivers
  <2> QED
    BY <1>a, <2>1, <2>3, <2>4 DEF AckInv
<1>12. ASSUME NEW c \in Clients, ReceiveState(c) PROVE AckInv'
  <2> DEFINE n == sock[c]
  <2>1. /\ Receives(c, "state")
        /\ synced' = [synced EXCEPT ![c] = TRUE]
        /\ up' = IF stage[n] = "joined" THEN [up EXCEPT ![n] = up[n] \o outbox[c]] ELSE up
        /\ UNCHANGED <<clients, stage, closed, sock, outbox, loop>>
    BY <1>12 DEF ReceiveState
  <2>2. /\ n \in Conns /\ n # NoConn /\ down[n] # <<>>
        /\ down' = [down EXCEPT ![n] = Tail(down[n])]
    BY <1>0, <2>1, ReceivesType DEF Receives
  <2>3. stage[n] # "dialing"
    BY <1>0, <2>2 DEF ConnInv, SocketsOwn
  <2>4. /\ \A m \in Conns : m # n => down'[m] = down[m] /\ up'[m] = up[m]
        /\ synced'[c] /\ \A d \in Clients : d # c => synced'[d] = synced[d]
        /\ stage[n] = "joined" => up'[n] = up[n] \o outbox[c]
    BY <1>0, <2>1, <2>2 DEF ConnTypeOK, BrowserTypeOK
  <2> HIDE DEF n
  <2>5. ConnInv'
    <3>1. PlacesTaken' /\ OpenInPlace'
      BY <1>0, <2>1 DEF ConnInv, PlacesTaken, OpenInPlace
    <3>2. SocketsOwn'
      BY <1>0, <2>1, <2>2, <2>3, <2>4 DEF ConnInv, SocketsOwn, BrowserTypeOK, n
    <3> QED
      BY <3>1, <3>2 DEF ConnInv
  <2>6. Listening' = Listening
    BY <2>1 DEF Listening
  <2>7. ASSUME NEW d \in Clients, synced'[d], sock[d] \in Listening, NEW id \in ToSet(outbox[d])
        PROVE  OnItsWay(sock[d], id)'
    <3>0. sock' = sock /\ loop' = loop /\ sock[d] \in Conns
      BY <1>e, <2>1, <2>7
    <3>1. CASE d = c
      <4>1. up[n] \in Seq(Nat) /\ outbox[c] \in Seq(Nat) /\ up'[n] = up[n] \o outbox[c]
        BY <1>0, <1>e, <2>2, <2>4, <2>7, <3>1 DEF n, ConnTypeOK, BrowserTypeOK
      <4>2. id \in ToSet(up'[n])
        BY <2>7, <3>1, <4>1, ConcatSet
      <4> QED
        BY <3>0, <3>1, <4>2 DEF OnItsWay, n
    <3>2. CASE d # c
      <4>1. sock[d] # n /\ OnItsWay(sock[d], id)
        BY <1>0, <1>d, <2>2, <2>4, <2>7, <3>2, AckComingIs DEF n
      <4>2. down'[sock[d]] = down[sock[d]] /\ up'[sock[d]] = up[sock[d]]
        BY <2>4, <3>0, <4>1
      <4> QED
        BY <3>0, <4>1, <4>2 DEF OnItsWay, Answered
    <3> QED
      BY <3>1, <3>2
  <2>8. AckComing'
    BY <2>1, <2>6, <2>7 DEF AckComing, OnItsWay, Answered
  <2> QED
    BY <1>a, <2>1, <2>5, <2>8 DEF AckInv
<1>13. ASSUME NEW c \in Clients, ReceiveOp(c) PROVE AckInv'
  <2>1. /\ Receives(c, "op") /\ OutboxDelete(c, Head(down[sock[c]]).id)
        /\ UNCHANGED <<clients, stage, closed, sock, synced, loop, up>>
    BY <1>13 DEF ReceiveOp
  <2> QED
    BY <1>0, <2>1, AckReceives
<1>14. ASSUME NEW c \in Clients, ReceiveError(c) PROVE AckInv'
  <2>1. /\ Receives(c, "error") /\ OutboxDelete(c, Head(down[sock[c]]).id)
        /\ UNCHANGED <<clients, stage, closed, sock, synced, loop, up>>
    BY <1>14 DEF ReceiveError
  <2> QED
    BY <1>0, <2>1, AckReceives
<1>f. ASSUME NEW c \in Clients, sock[c] # NoConn, Detach(c), UNCHANGED <<clients, stage, closed, down, loop, outbox>>,
             \A m \in Conns : m # sock[c] => up'[m] = up[m]
      PROVE  AckInv'
  <2>1. /\ sock'[c] = NoConn /\ \A d \in Clients : d # c => sock'[d] = sock[d]
        /\ ~synced'[c] /\ \A d \in Clients : d # c => synced'[d] = synced[d]
    BY <1>0, <1>f DEF Detach, BrowserTypeOK
  <2>2. ConnInv'
    BY <1>0, <1>f, <2>1 DEF ConnInv, PlacesTaken, OpenInPlace, SocketsOwn
  <2>3. Listening' = Listening
    BY <1>f DEF Listening
  <2>4. AckComing'
    BY <1>0, <1>d, <1>e, <1>f, <2>1, <2>3, AckStays
  <2> QED
    BY <1>a, <1>f, <2>2, <2>4 DEF AckInv
<1>15. ASSUME NEW c \in Clients, Disconnect(c) PROVE AckInv'
  <2>1. /\ sock[c] # NoConn /\ Detach(c) /\ CutUp(sock[c])
        /\ UNCHANGED <<clients, stage, closed, down, loop, outbox>>
    BY <1>15 DEF Disconnect
  <2>2. sock[c] \in Conns
    BY <1>0, <2>1 DEF BrowserTypeOK
  <2>3. \A m \in Conns : m # sock[c] => up'[m] = up[m]
    BY <1>0, <2>1, <2>2, CutUpType DEF ConnTypeOK
  <2> QED
    BY <1>f, <2>1, <2>3
<1>16. ASSUME NEW c \in Clients, Kicked(c) PROVE AckInv'
  BY <1>16, <1>f DEF Kicked
<1>17. ASSUME NEW n \in Conns, ServerLeave(n) PROVE AckInv'
  <2> DEFINE o == Owner(n)
  <2>1. /\ stage[n] = "joined" /\ CutUp(n)
        /\ stage' = [stage EXCEPT ![n] = "idle"]
        /\ closed' = [closed EXCEPT ![n] = TRUE]
        /\ clients' = IF clients[o] = n THEN [clients EXCEPT ![o] = NoConn] ELSE clients
        /\ UNCHANGED <<down, sock, synced, loop, outbox>>
    BY <1>17 DEF ServerLeave
  <2>2. o \in Clients
    BY OwnerType
  <2>3. /\ stage'[n] = "idle" /\ \A m \in Conns : m # n => stage'[m] = stage[m]
        /\ closed'[n] /\ \A m \in Conns : m # n => closed'[m] = closed[m]
        /\ \A d \in Clients : d # o => clients'[d] = clients[d]
        /\ clients'[o] = IF clients[o] = n THEN NoConn ELSE clients[o]
        /\ \A m \in Conns : m # n => up'[m] = up[m]
    <3>1. \A m \in Conns : m # n => up'[m] = up[m]
      BY <1>0, <2>1, CutUpType DEF ConnTypeOK
    <3> QED
      BY <1>0, <2>1, <2>2, <3>1 DEF ConnTypeOK
  <2>4. \A d \in Clients : clients[d] # NoConn => clients[d] \in Conns /\ Owner(clients[d]) = d
    BY <1>0 DEF ConnTypeOK, ConnInv, PlacesTaken
  <2>5. PlacesTaken'
    <3>1. ASSUME NEW d \in Clients, clients'[d] # NoConn
          PROVE  Owner(clients'[d]) = d /\ stage'[clients'[d]] = "joined"
      <4>1. clients'[d] = clients[d] /\ clients[d] # n
        BY <2>3, <2>4, <3>1
      <4> QED
        BY <1>0, <2>3, <2>4, <3>1, <4>1 DEF ConnInv, PlacesTaken
    <3> QED
      BY <3>1 DEF PlacesTaken
  <2>6. OpenInPlace'
    <3>1. ASSUME NEW m \in Conns, ~closed'[m] PROVE clients'[Owner(m)] = m
      <4>1. m # n /\ clients[Owner(m)] = m /\ Owner(m) \in Clients
        BY <1>0, <2>3, <3>1, OwnerType DEF ConnInv, OpenInPlace
      <4> QED
        BY <2>3, <4>1
    <3> QED
      BY <3>1 DEF OpenInPlace
  <2>7. SocketsOwn'
    <3>1. \A d \in Clients : sock[d] # NoConn => sock[d] \in Conns
      BY <1>0 DEF BrowserTypeOK
    <3> QED
      BY <1>0, <2>1, <2>3, <3>1 DEF ConnInv, SocketsOwn
  <2>8. \A m \in Listening' : m \in Listening /\ m # n
    BY <2>3, OwnerType, <1>0 DEF Listening, ConnInv, OpenInPlace
  <2>9. AckComing'
    BY <1>0, <1>e, <2>1, <2>3, <2>8, AckStays
  <2> QED
    BY <1>a, <2>1, <2>5, <2>6, <2>7, <2>9 DEF AckInv, ConnInv
<1>18. CASE Evict
  <2>1. /\ \A c \in Clients : clients[c] = NoConn
        /\ stage' = [n \in Conns |-> IF stage[n] = "joined" THEN "idle" ELSE stage[n]]
        /\ UNCHANGED <<clients, closed, down, sock, synced, outbox>>
    BY <1>18 DEF Evict
  <2>2. ConnInv'
    <3>1. \A c \in Clients : sock[c] # NoConn => sock[c] \in Conns
      BY <1>0 DEF BrowserTypeOK
    <3>2. \A n \in Conns : stage'[n] = "dialing" => stage[n] = "dialing"
      BY <2>1
    <3> QED
      BY <1>0, <2>1, <3>1, <3>2 DEF ConnInv, PlacesTaken, OpenInPlace, SocketsOwn
  <2>3. Listening' = {}
    BY <2>1, OwnerType, SyncAssumption DEF Listening, SyncAssumption
  <2>4. AckComing'
    BY <2>3 DEF AckComing
  <2> QED
    BY <1>a, <2>1, <2>2, <2>4 DEF AckInv
<1>19. ASSUME NEW edits \in Batches, AgentCall(edits) PROVE AckInv'
  BY <1>19, <1>c DEF AgentCall
<1>20. CASE AgentApply
  BY <1>20, <1>c DEF AgentApply
<1>21. CASE AgentRecord
  BY <1>21, <1>c DEF AgentRecord
<1>22. CASE AgentBroadcast
  <2>1. Deliver(Listening, OpEnvelope(Head(agent.ids)))
        /\ UNCHANGED <<clients, stage, sock, synced, outbox, up, loop>>
    BY <1>22 DEF AgentBroadcast
  <2>2. Head(agent.ids) \in Nat
    <3>1. agent.ids \in Seq(Nat) /\ agent.ids # <<>>
      BY <1>0, <1>22 DEF AgentBroadcast, CallTypeOK
    <3> QED
      BY <3>1
  <2>3. Listening \in SUBSET Conns /\ (\A m \in Listening : ~closed[m])
        /\ OpEnvelope(Head(agent.ids)) \in Envelopes
    BY <2>2, EnvelopeType DEF Listening
  <2>4. ConnInv' /\ Listening' \subseteq Listening
    BY <1>0, <2>1, <2>3, ConnDelivers
  <2>5. AckComing'
    BY <1>0, <2>1, <2>3, <2>4, AckDelivers
  <2> QED
    BY <1>a, <2>1, <2>4, <2>5 DEF AckInv
<1>23. CASE RestoreSnapshot
  BY <1>23, <1>c DEF RestoreSnapshot
<1>24. CASE BroadcastState
  BY <1>24, <1>c DEF BroadcastState
<1>25. CASE UNCHANGED vars
  BY <1>25, <1>c DEF vars
<1> QED
  BY <1>1, <1>2, <1>3, <1>4, <1>5, <1>6, <1>7, <1>8, <1>9, <1>10, <1>11, <1>12,
     <1>13, <1>14, <1>15, <1>16, <1>17, <1>18, <1>19, <1>20, <1>21, <1>22,
     <1>23, <1>24, <1>25
  DEF Next, BrowserStep, ServerStep, CallStep, Receive, Handle

\* While a session is connected, whatever is in its outbox is on its way to the
\* room, in its hands, or answered.
THEOREM AnswersComing == Spec => []AckComing
<1>1. Init => TypeInv /\ AckInv
  BY TypeInit, AckInit
<1>2. TypeInv /\ AckInv /\ [Next]_vars => TypeInv' /\ AckInv'
  BY TypeStep, AckStep
<1>3. AckInv => AckComing
  BY DEF AckInv
<1> QED
  BY <1>1, <1>2, <1>3, PTL DEF Spec

-----------------------------------------------------------------------------
(* The order of a browser's operations. *)

\* Committed, of a history o.
Own(o, c) == {i \in 1 .. Len(o) : o[i].by = c /\ ~o[i].live}

\* In a queue u everything a browser committed before an operation is in front of
\* it, or dealt with.
InOrder(o, u, done) ==
    \A p \in DOMAIN u :
        ~o[u[p]].live => \A i \in Own(o, o[u[p]].by) :
            i < u[p] => i \in done \/ \E q \in 1 .. p - 1 : u[q] = i

\* CommitOrder, of a log l.
LogInOrder(o, l, refused) ==
    \A k \in DOMAIN l :
        o[l[k].id].by \in Clients /\ ~o[l[k].id].live =>
            \A i \in Own(o, o[l[k].id].by) :
                i < l[k].id => i \in refused \/ \E m \in 1 .. k - 1 : l[m].id = i

\* v is what is left of u once what was in front is dealt with, and cut.
Rest(u, v, done) == \E d \in Nat :
    /\ \A p \in DOMAIN v : p + d \in DOMAIN u /\ v[p] = u[p + d]
    /\ \A p \in DOMAIN u : p <= d => u[p] \in done

\* What the server has dealt with.
Done == LogIds \cup rejected

OutboxesOwn == \A c \in Clients : \A id \in ToSet(outbox[c]) : ops[id].by = c
UpByBrowsers == \A n \in Conns : \A id \in ToSet(up[n]) : ops[id].by \in Clients
LogKnown == LogIds \subseteq OpIds
UpOrder == \A n \in Conns : InOrder(ops, up[n], Done)

\* A browser that is synced has sent its outbox.
Sent == \A c \in Clients :
    synced[c] /\ stage[sock[c]] = "joined" => ToSet(outbox[c]) \subseteq Done \cup ToSet(up[sock[c]])

OrderInv == OutboxesOwn /\ UpByBrowsers /\ LogKnown /\ UpOrder /\ Sent /\ CommitOrder

OpRecord == [by : Clients \cup {Agent}, edit : Edit, live : BOOLEAN]

-----------------------------------------------------------------------------
\* CommitOrder says that the log is in order.
LEMMA CommitOrderIs == CommitOrder <=> LogInOrder(ops, log, rejected)
BY DEF CommitOrder, LogInOrder, Own, Committed, OpIds

\* What an operation that is made changes in the history.
LEMMA Grown ==
    ASSUME NEW o \in Seq(OpRecord), NEW r \in OpRecord, NEW o2, o2 = Append(o, r)
    PROVE  /\ Len(o2) = Len(o) + 1 /\ Len(o) \in Nat
           /\ \A j \in 1 .. Len(o) : o2[j] = o[j]
           /\ o2[Len(o) + 1] = r
BY AppendProperties, LenProperties

\* Whose it is.
LEMMA GrownOwn ==
    ASSUME NEW o \in Seq(OpRecord), NEW r \in OpRecord, NEW o2, o2 = Append(o, r),
           NEW c, NEW i \in Own(o2, c)
    PROVE  i \in Own(o, c) \/ (i = Len(o) + 1 /\ r.by = c /\ ~r.live)
<1>1. /\ Len(o2) = Len(o) + 1 /\ Len(o) \in Nat
      /\ \A j \in 1 .. Len(o) : o2[j] = o[j]
      /\ o2[Len(o) + 1] = r
  BY Grown
<1>2. i \in Own(o, c) \/ (i = Len(o) + 1 /\ r.by = c /\ ~r.live)
  <2>1. i \in 1 .. Len(o) + 1 /\ o2[i].by = c /\ ~o2[i].live
    BY <1>1 DEF Own
  <2>2. CASE i = Len(o) + 1
    BY <1>1, <2>1, <2>2
  <2>3. CASE i # Len(o) + 1
    <3>1. i \in 1 .. Len(o) /\ o2[i] = o[i]
      BY <1>1, <2>1, <2>3
    <3> QED
      BY <2>1, <3>1 DEF Own
  <2> QED
    BY <2>2, <2>3
<1> QED
  BY <1>2

\* An operation that is made comes after those in the queues.
LEMMA GrownInOrder ==
    ASSUME NEW o \in Seq(OpRecord), NEW r \in OpRecord, NEW o2, o2 = Append(o, r),
           NEW u \in Seq(Nat), ToSet(u) \subseteq 1 .. Len(o), NEW done, InOrder(o, u, done)
    PROVE  InOrder(o2, u, done)
<1>1. \A p \in DOMAIN u : u[p] \in 1 .. Len(o)
  BY DEF ToSet
<1>2. /\ Len(o) \in Nat
      /\ \A j \in 1 .. Len(o) : o2[j] = o[j]
  BY Grown
<1>3. \A c, i : i \in Own(o2, c) => i \in Own(o, c) \/ i = Len(o) + 1
  BY GrownOwn
<1> QED
  BY <1>1, <1>2, <1>3 DEF InOrder

\* Nor does it come before those applied.
LEMMA GrownLog ==
    ASSUME NEW o \in Seq(OpRecord), NEW r \in OpRecord, NEW o2, o2 = Append(o, r),
           NEW l, \A k \in DOMAIN l : l[k].id \in 1 .. Len(o), NEW refused,
           LogInOrder(o, l, refused)
    PROVE  LogInOrder(o2, l, refused)
<1>1. /\ Len(o) \in Nat
      /\ \A j \in 1 .. Len(o) : o2[j] = o[j]
  BY Grown
<1>2. \A c, i : i \in Own(o2, c) => i \in Own(o, c) \/ i = Len(o) + 1
  BY GrownOwn
<1> QED
  BY <1>1, <1>2 DEF LogInOrder

\* What is left of a queue is in order.
LEMMA RestInOrder ==
    ASSUME NEW o, NEW u \in Seq(Nat), NEW v \in Seq(Nat), NEW done, NEW done2,
           done \subseteq done2, Rest(u, v, done2), InOrder(o, u, done)
    PROVE  InOrder(o, v, done2) /\ ToSet(v) \subseteq ToSet(u)
<1>1. PICK d \in Nat : /\ \A p \in DOMAIN v : p + d \in DOMAIN u /\ v[p] = u[p + d]
                       /\ \A p \in DOMAIN u : p <= d => u[p] \in done2
  BY DEF Rest
<1>2. /\ DOMAIN u = 1 .. Len(u) /\ DOMAIN v = 1 .. Len(v) /\ Len(u) \in Nat /\ Len(v) \in Nat
  BY LenProperties
<1>3. ASSUME NEW p \in DOMAIN v, ~o[v[p]].live, NEW i \in Own(o, o[v[p]].by), i < v[p]
      PROVE  i \in done2 \/ \E q \in 1 .. p - 1 : v[q] = i
  <2>1. p + d \in DOMAIN u /\ v[p] = u[p + d]
    BY <1>1
  <2>2. i \in done \/ \E q \in 1 .. (p + d) - 1 : u[q] = i
    BY <1>3, <2>1 DEF InOrder
  <2>3. ASSUME NEW q \in 1 .. (p + d) - 1, u[q] = i
        PROVE  i \in done2 \/ \E k \in 1 .. p - 1 : v[k] = i
    <3>1. q \in DOMAIN u
      BY <1>2, <2>1
    <3>2. CASE q <= d
      BY <1>1, <2>3, <3>1, <3>2
    <3>3. CASE ~(q <= d)
      <4>1. q - d \in 1 .. p - 1 /\ q - d \in DOMAIN v /\ (q - d) + d = q
        BY <1>2, <3>3
      <4>2. v[q - d] = u[(q - d) + d]
        BY <1>1, <4>1
      <4> QED
        BY <2>3, <4>1, <4>2
    <3> QED
      BY <3>2, <3>3
  <2> QED
    BY <2>2, <2>3
<1>4. InOrder(o, v, done2)
  BY <1>3 DEF InOrder
<1>5. ToSet(v) \subseteq ToSet(u)
  BY <1>1 DEF ToSet
<1> QED
  BY <1>4, <1>5

\* A queue that is left as it was.
LEMMA RestSame ==
    ASSUME NEW u \in Seq(Nat), NEW done PROVE Rest(u, u, done)
<1>1. DOMAIN u = 1 .. Len(u) /\ Len(u) \in Nat
  BY LenProperties
<1>2. /\ \A p \in DOMAIN u : p + 0 \in DOMAIN u /\ u[p] = u[p + 0]
      /\ \A p \in DOMAIN u : p <= 0 => u[p] \in done
  BY <1>1
<1> QED
  BY <1>2 DEF Rest

\* A queue whose head has been dealt with is left its tail.
LEMMA RestTail ==
    ASSUME NEW u \in Seq(Nat), u # <<>>, NEW done, Head(u) \in done PROVE Rest(u, Tail(u), done)
<1> DEFINE v == Tail(u)
<1>1. /\ v \in Seq(Nat) /\ Len(v) = Len(u) - 1
      /\ \A i \in 1 .. Len(v) : v[i] = u[i + 1]
  BY HeadTailProperties
<1>2. Head(u) = u[1] /\ Len(u) \in Nat \ {0} /\ DOMAIN u = 1 .. Len(u)
  BY EmptySeq, LenProperties
<1> HIDE DEF v
<1>3. DOMAIN v = 1 .. Len(u) - 1
  BY <1>1, LenProperties
<1>4. \A p \in DOMAIN v : p + 1 \in DOMAIN u /\ v[p] = u[p + 1]
  BY <1>1, <1>2, <1>3
<1>5. \A p \in DOMAIN u : p <= 1 => u[p] \in done
  <2>1. \A p \in DOMAIN u : p <= 1 => p = 1
    BY <1>2
  <2> QED
    BY <1>2, <2>1
<1>6. Rest(u, v, done)
  BY <1>4, <1>5 DEF Rest
<1> QED
  BY <1>6 DEF v

\* A queue that is cut, or emptied.
LEMMA RestCut ==
    ASSUME NEW u \in Seq(Nat), NEW v \in Seq(Nat), NEW done, Len(v) <= Len(u),
           \A i \in 1 .. Len(v) : v[i] = u[i]
    PROVE  Rest(u, v, done)
<1>1. /\ DOMAIN u = 1 .. Len(u) /\ Len(u) \in Nat
      /\ DOMAIN v = 1 .. Len(v) /\ Len(v) \in Nat
  BY LenProperties
<1>2. /\ \A p \in DOMAIN v : p + 0 \in DOMAIN u /\ v[p] = u[p + 0]
      /\ \A p \in DOMAIN u : p <= 0 => u[p] \in done
  BY <1>1
<1> QED
  BY <1>2 DEF Rest

\* An operation is queued, and all before it is in front of it or dealt with.
LEMMA AppendInOrder ==
    ASSUME NEW o, NEW u \in Seq(Nat), NEW done, NEW j \in Nat, InOrder(o, u, done),
           ~o[j].live => \A i \in Own(o, o[j].by) : i < j => i \in done \cup ToSet(u)
    PROVE  InOrder(o, Append(u, j), done)
<1> DEFINE v == Append(u, j)
<1>1. /\ v \in Seq(Nat) /\ Len(v) = Len(u) + 1 /\ Len(u) \in Nat /\ DOMAIN u = 1 .. Len(u)
      /\ \A i \in 1 .. Len(u) : v[i] = u[i]
      /\ v[Len(u) + 1] = j
  BY AppendProperties, LenProperties
<1> HIDE DEF v
<1>2. DOMAIN v = 1 .. Len(u) + 1
  BY <1>1, LenProperties
<1>3. ASSUME NEW p \in DOMAIN v, ~o[v[p]].live, NEW i \in Own(o, o[v[p]].by), i < v[p]
      PROVE  i \in done \/ \E q \in 1 .. p - 1 : v[q] = i
  <2>1. CASE p = Len(u) + 1
    <3>1. v[p] = j /\ p - 1 = Len(u)
      BY <1>1, <2>1
    <3>2. i \in done \/ \E q \in 1 .. Len(u) : u[q] = i
      BY <1>1, <1>3, <3>1 DEF ToSet
    <3> QED
      BY <1>1, <3>1, <3>2
  <2>2. CASE p # Len(u) + 1
    <3>1. p \in DOMAIN u /\ v[p] = u[p] /\ p \in 1 .. Len(u)
      BY <1>1, <1>2, <2>2
    <3>2. i \in done \/ \E q \in 1 .. p - 1 : u[q] = i
      BY <1>3, <3>1 DEF InOrder
    <3>3. \A q \in 1 .. p - 1 : q \in 1 .. Len(u)
      BY <1>1, <3>1
    <3> QED
      BY <1>1, <3>2, <3>3
  <2> QED
    BY <2>1, <2>2
<1>4. InOrder(o, v, done)
  BY <1>3 DEF InOrder
<1> QED
  BY <1>4 DEF v

\* An outbox is sent again, behind what is on its way.
LEMMA ResendInOrder ==
    ASSUME NEW o, NEW u \in Seq(Nat), NEW b \in Seq(Nat), NEW done, NEW c, InOrder(o, u, done),
           Ordered(b), \A id \in ToSet(b) : o[id].by = c, Own(o, c) \subseteq ToSet(b) \cup done
    PROVE  InOrder(o, u \o b, done)
<1> DEFINE v == u \o b
<1>1. /\ v \in Seq(Nat) /\ Len(v) = Len(u) + Len(b) /\ Len(u) \in Nat /\ Len(b) \in Nat
      /\ DOMAIN u = 1 .. Len(u) /\ DOMAIN b = 1 .. Len(b)
      /\ \A i \in 1 .. Len(u) + Len(b) : v[i] = IF i <= Len(u) THEN u[i] ELSE b[i - Len(u)]
  BY ConcatProperties, LenProperties
<1> HIDE DEF v
<1>2. DOMAIN v = 1 .. Len(u) + Len(b)
  BY <1>1, LenProperties
<1>3. ASSUME NEW p \in DOMAIN v, ~o[v[p]].live, NEW i \in Own(o, o[v[p]].by), i < v[p]
      PROVE  i \in done \/ \E q \in 1 .. p - 1 : v[q] = i
  <2>1. CASE p <= Len(u)
    <3>1. p \in DOMAIN u /\ v[p] = u[p] /\ p \in 1 .. Len(u)
      BY <1>1, <1>2, <2>1
    <3>2. i \in done \/ \E q \in 1 .. p - 1 : u[q] = i
      BY <1>3, <3>1 DEF InOrder
    <3>3. \A q \in 1 .. p - 1 : q \in 1 .. Len(u) + Len(b) /\ q <= Len(u)
      BY <1>1, <3>1
    <3>4. \A q \in 1 .. p - 1 : v[q] = u[q]
      BY <1>1, <3>3
    <3> QED
      BY <3>2, <3>4
  <2>2. CASE ~(p <= Len(u))
    <3> DEFINE k == p - Len(u)
    <3>1. k \in DOMAIN b /\ v[p] = b[k] /\ k \in 1 .. Len(b) /\ p = Len(u) + k
      BY <1>1, <1>2, <2>2
    <3> HIDE DEF k
    <3>2. o[v[p]].by = c
      BY <3>1 DEF ToSet
    <3>3. CASE i \in done
      BY <3>3
    <3>4. CASE i \in ToSet(b)
      <4>1. PICK m \in DOMAIN b : b[m] = i
        BY <3>4 DEF ToSet
      <4>2. m < k
        <5>1. b[m] \in Nat /\ b[k] \in Nat /\ m \in Nat /\ k \in Nat
          BY <1>1, <3>1, ElementOfSeq
        <5>2. ~(b[k] < b[m]) /\ b[k] # b[m]
          BY <1>3, <3>1, <4>1, <5>1
        <5>3. ~(k < m) /\ k # m
          BY <3>1, <5>2 DEF Ordered
        <5> QED
          BY <5>1, <5>3
      <4>3. /\ Len(u) + m \in 1 .. p - 1 /\ Len(u) + m \in 1 .. Len(u) + Len(b)
            /\ ~(Len(u) + m <= Len(u)) /\ (Len(u) + m) - Len(u) = m
        <5>1. Len(u) \in Nat /\ Len(b) \in Nat /\ m \in 1 .. Len(b) /\ k \in 1 .. Len(b) /\ m < k /\ p = Len(u) + k
          BY <1>1, <3>1, <4>2
        <5> QED
          BY <5>1
      <4>4. \A q \in 1 .. Len(u) + Len(b) : ~(q <= Len(u)) => v[q] = b[q - Len(u)]
        BY <1>1
      <4>5. v[Len(u) + m] = b[m]
        BY <4>3, <4>4
      <4> QED
        BY <4>1, <4>3, <4>5
    <3> QED
      BY <1>3, <3>2, <3>3, <3>4
  <2> QED
    BY <2>1, <2>2
<1>4. InOrder(o, v, done)
  BY <1>3 DEF InOrder
<1> QED
  BY <1>4 DEF v

\* An application keeps the log in order if all before it has been dealt with.
LEMMA LogInOrderAppend ==
    ASSUME NEW o, NEW S, NEW l \in Seq(S), NEW e \in S, NEW refused, LogInOrder(o, l, refused),
           o[e.id].by \in Clients /\ ~o[e.id].live => \A i \in Own(o, o[e.id].by) :
              i < e.id => i \in refused \/ \E m \in DOMAIN l : l[m].id = i
    PROVE  LogInOrder(o, Append(l, e), refused)
<1> DEFINE v == Append(l, e)
<1>1. /\ v \in Seq(S) /\ Len(v) = Len(l) + 1 /\ Len(l) \in Nat /\ DOMAIN l = 1 .. Len(l)
      /\ \A i \in 1 .. Len(l) : v[i] = l[i]
      /\ v[Len(l) + 1] = e
  BY AppendProperties, LenProperties
<1> HIDE DEF v
<1>2. DOMAIN v = 1 .. Len(l) + 1
  BY <1>1, LenProperties
<1>3. ASSUME NEW k \in DOMAIN v, o[v[k].id].by \in Clients, ~o[v[k].id].live,
             NEW i \in Own(o, o[v[k].id].by), i < v[k].id
      PROVE  i \in refused \/ \E m \in 1 .. k - 1 : v[m].id = i
  <2>1. CASE k = Len(l) + 1
    <3>1. v[k] = e /\ k - 1 = Len(l)
      BY <1>1, <2>1
    <3>2. i \in refused \/ \E m \in 1 .. Len(l) : l[m].id = i
      BY <1>1, <1>3, <3>1
    <3> QED
      BY <1>1, <3>1, <3>2
  <2>2. CASE k # Len(l) + 1
    <3>1. k \in DOMAIN l /\ v[k] = l[k] /\ k \in 1 .. Len(l)
      BY <1>1, <1>2, <2>2
    <3>2. i \in refused \/ \E m \in 1 .. k - 1 : l[m].id = i
      BY <1>3, <3>1 DEF LogInOrder
    <3>3. \A q \in 1 .. k - 1 : q \in 1 .. Len(l)
      BY <1>1, <3>1
    <3> QED
      BY <1>1, <3>2, <3>3
  <2> QED
    BY <2>1, <2>2
<1>4. LogInOrder(o, v, refused)
  BY <1>3 DEF LogInOrder
<1> QED
  BY <1>4 DEF v

-----------------------------------------------------------------------------
(* What a step does to the order. *)

\* The queues: what was dealt with stays so, and what is left of each is its rest.
LEMMA UpRests ==
    ASSUME ConnTypeOK, up' \in [Conns -> Seq(Nat)], UpOrder, UpByBrowsers, UNCHANGED ops,
           Done \subseteq Done', \A n \in Conns : Rest(up[n], up'[n], Done')
    PROVE  UpOrder' /\ UpByBrowsers'
<1>1. ASSUME NEW n \in Conns
      PROVE  InOrder(ops, up'[n], Done') /\ ToSet(up'[n]) \subseteq ToSet(up[n])
  <2>1. up[n] \in Seq(Nat) /\ up'[n] \in Seq(Nat) /\ InOrder(ops, up[n], Done)
    BY DEF ConnTypeOK, UpOrder
  <2> QED
    BY <2>1, RestInOrder
<1>2. UpOrder'
  BY <1>1 DEF UpOrder
<1>3. UpByBrowsers'
  BY <1>1 DEF UpByBrowsers
<1> QED
  BY <1>2, <1>3

\* A step that makes no operation and applies none, adds nothing to an outbox, and
\* brings nobody on line.
LEMMA OrderFrame ==
    ASSUME ConnTypeOK, up' \in [Conns -> Seq(Nat)], OrderInv, UNCHANGED <<ops, log>>,
           rejected \subseteq rejected', \A n \in Conns : Rest(up[n], up'[n], Done'),
           \A c \in Clients : ToSet(outbox'[c]) \subseteq ToSet(outbox[c]),
           \A c \in Clients : synced'[c] /\ stage'[sock'[c]] = "joined" =>
              /\ synced[c] /\ sock'[c] = sock[c] /\ stage[sock[c]] = "joined"
              /\ ToSet(up[sock[c]]) \subseteq ToSet(up'[sock[c]]) \cup Done'
    PROVE  OrderInv'
<1>1. LogIds' = LogIds /\ OpIds' = OpIds /\ ops' = ops /\ log' = log
  BY DEF LogIds, OpIds
<1>2. Done \subseteq Done'
  BY <1>1 DEF Done
<1>3. UpOrder' /\ UpByBrowsers'
  BY <1>1, <1>2, UpRests DEF OrderInv
<1>4. OutboxesOwn'
  BY <1>1 DEF OrderInv, OutboxesOwn
<1>5. LogKnown'
  BY <1>1 DEF OrderInv, LogKnown
<1>6. Sent'
  BY <1>1, <1>2 DEF OrderInv, Sent
<1>7. LogInOrder(ops, log, rejected')
  BY CommitOrderIs DEF OrderInv, LogInOrder
<1>8. CommitOrder'
  BY <1>1, <1>7 DEF CommitOrder, LogInOrder, Own, Committed, OpIds
<1> QED
  BY <1>3, <1>4, <1>5, <1>6, <1>8 DEF OrderInv

\* A step that touches nothing of it.
LEMMA OrderStays ==
    ASSUME OrderInv, UNCHANGED <<ops, log, rejected, up, outbox, synced, stage, sock>>
    PROVE  OrderInv'
<1>1. LogIds' = LogIds /\ OpIds' = OpIds /\ Done' = Done
  BY DEF LogIds, OpIds, Done
<1>2. OutboxesOwn' /\ UpByBrowsers' /\ LogKnown' /\ UpOrder' /\ Sent'
  BY <1>1 DEF OrderInv, OutboxesOwn, UpByBrowsers, LogKnown, UpOrder, Sent
<1>3. CommitOrder'
  BY DEF OrderInv, CommitOrder, Committed, OpIds
<1> QED
  BY <1>2, <1>3 DEF OrderInv

\* An operation is made: what there was is in the order it was in.
LEMMA OrderGrows ==
    ASSUME TypeInv, OrderInv, NEW r \in OpRecord, ops' = Append(ops, r), Done \subseteq Done'
    PROVE  /\ Len(ops') = Len(ops) + 1 /\ Len(ops) \in Nat /\ ops'[Len(ops) + 1] = r
           /\ \A i \in OpIds : ops'[i] = ops[i]
           /\ OpIds' = OpIds \cup {Len(ops) + 1}
           /\ \A c \in Clients : \A id \in ToSet(outbox[c]) : ops'[id].by = c
           /\ \A n \in Conns : \A id \in ToSet(up[n]) : ops'[id].by \in Clients
           /\ \A n \in Conns : InOrder(ops', up[n], Done')
           /\ LogInOrder(ops', log, rejected)
<1>0. ConnTypeOK /\ BrowserTypeOK /\ HistoryTypeOK /\ KnownIds
  BY DEF TypeInv, ProtocolTypeOK
<1>1. ops \in Seq(OpRecord)
  BY <1>0 DEF HistoryTypeOK, OpRecord
<1>2. /\ Len(ops') = Len(ops) + 1 /\ Len(ops) \in Nat /\ ops'[Len(ops) + 1] = r
      /\ \A i \in 1 .. Len(ops) : ops'[i] = ops[i]
  BY <1>1, Grown
<1>3. \A i \in OpIds : ops'[i] = ops[i]
  BY <1>2 DEF OpIds
<1>4. OpIds' = OpIds \cup {Len(ops) + 1}
  BY <1>2 DEF OpIds
<1>5. /\ \A n \in Conns : up[n] \in Seq(Nat) /\ ToSet(up[n]) \subseteq OpIds
      /\ \A c \in Clients : ToSet(outbox[c]) \subseteq OpIds
  BY <1>0 DEF KnownIds, ToSet, ConnTypeOK
<1>6. \A c \in Clients : \A id \in ToSet(outbox[c]) : ops'[id].by = c
  BY <1>3, <1>5 DEF OrderInv, OutboxesOwn
<1>7. \A n \in Conns : \A id \in ToSet(up[n]) : ops'[id].by \in Clients
  BY <1>3, <1>5 DEF OrderInv, UpByBrowsers
<1>8. ASSUME NEW n \in Conns PROVE InOrder(ops', up[n], Done')
  <2>1. up[n] \in Seq(Nat) /\ ToSet(up[n]) \subseteq 1 .. Len(ops) /\ InOrder(ops, up[n], Done)
    BY <1>5 DEF OrderInv, UpOrder, OpIds
  <2>2. InOrder(ops', up[n], Done)
    BY <1>1, <2>1, GrownInOrder
  <2>3. Rest(up[n], up[n], Done')
    BY <2>1, RestSame
  <2> QED
    BY <2>1, <2>2, <2>3, RestInOrder
<1>9. LogInOrder(ops', log, rejected)
  <2>1. \A k \in DOMAIN log : log[k].id \in 1 .. Len(ops)
    BY DEF OrderInv, LogKnown, LogIds, OpIds
  <2>2. LogInOrder(ops, log, rejected)
    BY CommitOrderIs DEF OrderInv
  <2> QED
    BY <1>1, <2>1, <2>2, GrownLog
<1> QED
  BY <1>2, <1>3, <1>4, <1>6, <1>7, <1>8, <1>9

\* Everything in front of the head of a queue has been dealt with.
LEMMA HeadInOrder ==
    ASSUME NEW o, NEW u \in Seq(Nat), u # <<>>, NEW done, InOrder(o, u, done), ~o[Head(u)].live
    PROVE  \A i \in Own(o, o[Head(u)].by) : i < Head(u) => i \in done
<1>1. Head(u) = u[1] /\ 1 \in DOMAIN u
  BY EmptySeq, LenProperties
<1>2. 1 .. 1 - 1 = {}
  OBVIOUS
<1> QED
  BY <1>1, <1>2 DEF InOrder

\* No browser has committed anything.
LEMMA OrderInit == Init => OrderInv
<1> SUFFICES ASSUME Init PROVE OrderInv
  OBVIOUS
<1> USE DEF Init, InitWith
<1>1. DOMAIN log = {} /\ \A n \in Conns : DOMAIN up[n] = {}
  OBVIOUS
<1>2. OutboxesOwn /\ UpByBrowsers
  BY EmptySet DEF OutboxesOwn, UpByBrowsers
<1>3. LogKnown /\ CommitOrder
  BY <1>1 DEF LogKnown, LogIds, CommitOrder
<1>4. UpOrder
  BY <1>1 DEF UpOrder, InOrder
<1>5. Sent
  BY EmptySet DEF Sent
<1> QED
  BY <1>2, <1>3, <1>4, <1>5 DEF OrderInv

\* Every action keeps the order, as long as no operation is lost and a browser's
\* connections are its own.
LEMMA OrderStep == TypeInv /\ SafeInv /\ AckInv /\ OrderInv /\ [Next]_vars => OrderInv'
<1> SUFFICES ASSUME TypeInv, SafeInv, AckInv, OrderInv, [Next]_vars PROVE OrderInv'
  OBVIOUS
<1> USE DEF serverVars, connVars, sendVars, callVars, browserVars, logVars, boundVars
<1>0. /\ ServerTypeOK /\ CallTypeOK /\ ConnTypeOK /\ BrowserTypeOK /\ HistoryTypeOK
      /\ KnownIds /\ ConnInv /\ OutboxesOrdered
      /\ OutboxesOwn /\ UpByBrowsers /\ LogKnown /\ UpOrder /\ Sent /\ CommitOrder
  BY DEF TypeInv, ProtocolTypeOK, AckInv, OrderInv
<1>t. TypeInv'
  BY TypeStep
<1>u. /\ \A n \in Conns : up[n] \in Seq(Nat) /\ up'[n] \in Seq(Nat)
      /\ up' \in [Conns -> Seq(Nat)]
  BY <1>0, <1>t DEF TypeInv, ProtocolTypeOK, ConnTypeOK
<1>s. \A n \in Conns : Rest(up[n], up[n], Done')
  BY <1>u, RestSame
<1>a. \A c \in Clients : synced[c] => sock[c] \in Conns
  BY <1>0 DEF ConnInv, SocketsOwn, BrowserTypeOK
<1>b. ASSUME UNCHANGED <<log, rejected>> PROVE Done' = Done /\ LogIds' = LogIds
  BY <1>b DEF Done, LogIds
<1>c. ASSUME UNCHANGED <<ops, log>>, UNCHANGED <<outbox, synced, sock>>,
             \A n \in Conns : stage'[n] = "joined" => stage[n] = "joined" \/ \A c \in Clients : synced[c] => sock[c] # n,
             rejected \subseteq rejected', \A n \in Conns : Rest(up[n], up'[n], Done'),
             \A n \in Conns : stage'[n] = "joined" => ToSet(up[n]) \subseteq ToSet(up'[n]) \cup Done'
      PROVE  OrderInv'
  <2>1. \A c \in Clients : synced'[c] /\ stage'[sock'[c]] = "joined" =>
              /\ synced[c] /\ sock'[c] = sock[c] /\ stage[sock[c]] = "joined"
              /\ ToSet(up[sock[c]]) \subseteq ToSet(up'[sock[c]]) \cup Done'
    BY <1>a, <1>c
  <2> QED
    BY <1>0, <1>c, <1>u, <2>1, OrderFrame
<1>o. CommitOrder' <=> LogInOrder(ops', log', rejected')
  BY DEF CommitOrder, LogInOrder, Own, Committed, OpIds
<1>1. ASSUME NEW c \in Clients, NEW e \in EditsOf[c], Commit(c, e) PROVE OrderInv'
  <2> DEFINE id == Len(ops) + 1
             r == [by |-> c, edit |-> e, live |-> FALSE]
  <2>1. /\ UNCHANGED <<log, rejected, synced, stage, sock>>
        /\ ops' = Append(ops, r)
        /\ outbox' = [outbox EXCEPT ![c] = Append(outbox[c], id)]
        /\ up' = IF synced[c] /\ stage[sock[c]] = "joined"
                  THEN [up EXCEPT ![sock[c]] = Append(up[sock[c]], id)] ELSE up
    BY <1>1 DEF Commit, SendOp
  <2>2. r \in OpRecord /\ r.by = c /\ ~r.live
    BY SyncAssumption DEF OpRecord, SyncAssumption
  <2>3. Done' = Done /\ LogIds' = LogIds
    BY <1>b, <2>1
  <2>4. id \in Nat /\ outbox[c] \in Seq(Nat)
    BY <1>0 DEF HistoryTypeOK, BrowserTypeOK
  <2> HIDE DEF r
  <2>5. /\ Len(ops') = Len(ops) + 1 /\ Len(ops) \in Nat /\ ops'[id] = r
        /\ \A i \in OpIds : ops'[i] = ops[i]
        /\ OpIds' = OpIds \cup {id}
        /\ \A d \in Clients : \A i \in ToSet(outbox[d]) : ops'[i].by = d
        /\ \A n \in Conns : \A i \in ToSet(up[n]) : ops'[i].by \in Clients
        /\ \A n \in Conns : InOrder(ops', up[n], Done')
        /\ LogInOrder(ops', log, rejected)
    BY <2>1, <2>2, <2>3, OrderGrows
  <2> HIDE DEF id
  <2>6. /\ outbox'[c] = Append(outbox[c], id)
        /\ \A d \in Clients : d # c => outbox'[d] = outbox[d]
        /\ ToSet(outbox'[c]) = ToSet(outbox[c]) \cup {id}
    <3>1. /\ outbox'[c] = Append(outbox[c], id)
          /\ \A d \in Clients : d # c => outbox'[d] = outbox[d]
      BY <1>0, <2>1 DEF BrowserTypeOK
    <3> QED
      BY <2>4, <3>1, AppendSet
  <2>7. OutboxesOwn'
    BY <2>2, <2>5, <2>6 DEF OutboxesOwn
  <2>8. \A n \in Conns : \/ up'[n] = up[n]
                         \/ /\ up'[n] = Append(up[n], id) /\ n = sock[c]
                            /\ synced[c] /\ stage[n] = "joined"
    BY <1>0, <2>1 DEF ConnTypeOK
  <2>9. \A n \in Conns : ToSet(Append(up[n], id)) = ToSet(up[n]) \cup {id}
    BY <1>u, <2>4, AppendSet
  <2>10. UpByBrowsers'
    <3>1. \A n \in Conns : ToSet(up'[n]) \subseteq ToSet(up[n]) \cup {id}
      BY <2>8, <2>9
    <3>2. ops'[id].by \in Clients
      BY <2>2, <2>5
    <3> QED
      BY <2>5, <3>1, <3>2 DEF UpByBrowsers
  <2>11. UpOrder'
    <3>1. ASSUME NEW n \in Conns, n = sock[c], synced[c], stage[n] = "joined"
          PROVE  InOrder(ops', Append(up[n], id), Done')
      <4>1. Own(ops, c) \subseteq ToSet(outbox[c]) \cup Done
        BY DEF SafeInv, NoLostCommit, Committed, Own, OpIds, Done
      <4>2. ToSet(outbox[c]) \subseteq Done \cup ToSet(up[n])
        BY <1>0, <3>1 DEF Sent
      <4>3. ASSUME NEW i \in Own(ops', c), i < id PROVE i \in Own(ops, c)
        <5>1. ops \in Seq(OpRecord)
          BY <1>0 DEF HistoryTypeOK, OpRecord
        <5>2. i \in Own(ops, c) \/ i = Len(ops) + 1
          BY <2>1, <2>2, <4>3, <5>1, GrownOwn
        <5> QED
          BY <2>5, <4>3, <5>2 DEF id
      <4>4. \A i \in Own(ops', ops'[id].by) : i < id => i \in Done' \cup ToSet(up[n])
        BY <2>2, <2>3, <2>5, <4>1, <4>2, <4>3
      <4> QED
        BY <1>u, <2>4, <2>5, <4>4, AppendInOrder
    <3> QED
      BY <2>5, <2>8, <3>1 DEF UpOrder
  <2>12. Sent'
    <3>1. ASSUME NEW d \in Clients, synced[d], stage[sock[d]] = "joined"
          PROVE  ToSet(outbox'[d]) \subseteq Done \cup ToSet(up'[sock[d]])
      <4>1. sock[d] \in Conns /\ ToSet(outbox[d]) \subseteq Done \cup ToSet(up[sock[d]])
        BY <1>0, <1>a, <3>1 DEF Sent
      <4>2. ToSet(up[sock[d]]) \subseteq ToSet(up'[sock[d]])
        BY <2>8, <2>9, <4>1
      <4>3. d = c => id \in ToSet(up'[sock[d]])
        <5>1. d = c => up'[sock[d]] = Append(up[sock[d]], id)
          BY <1>0, <2>1, <3>1, <4>1 DEF ConnTypeOK
        <5> QED
          BY <2>9, <4>1, <5>1
      <4> QED
        BY <2>6, <4>1, <4>2, <4>3
    <3> QED
      BY <2>1, <2>3, <3>1 DEF Sent
  <2>13. LogKnown'
    BY <1>0, <2>3, <2>5 DEF LogKnown
  <2>14. CommitOrder'
    BY <1>o, <2>1, <2>5
  <2> QED
    BY <2>7, <2>10, <2>11, <2>12, <2>13, <2>14 DEF OrderInv
<1>2. ASSUME NEW c \in Clients, NEW e \in LiveEditsOf[c], CommitLive(c, e) PROVE OrderInv'
  <2> DEFINE id == Len(ops) + 1
             r == [by |-> c, edit |-> e, live |-> TRUE]
  <2>1. /\ UNCHANGED <<log, rejected, synced, stage, sock, outbox>>
        /\ ops' = Append(ops, r)
        /\ up' = up \/ up' = [up EXCEPT ![sock[c]] = Append(up[sock[c]], id)]
    BY <1>2 DEF CommitLive, SendOp
  <2>2. r \in OpRecord /\ r.by = c /\ r.live
    BY SyncAssumption DEF OpRecord, SyncAssumption
  <2>3. Done' = Done /\ LogIds' = LogIds
    BY <1>b, <2>1
  <2>4. id \in Nat
    BY <1>0 DEF HistoryTypeOK
  <2> HIDE DEF r
  <2>5. /\ ops'[id] = r
        /\ OpIds' = OpIds \cup {id}
        /\ \A d \in Clients : \A i \in ToSet(outbox[d]) : ops'[i].by = d
        /\ \A n \in Conns : \A i \in ToSet(up[n]) : ops'[i].by \in Clients
        /\ \A n \in Conns : InOrder(ops', up[n], Done')
        /\ LogInOrder(ops', log, rejected)
    BY <2>1, <2>2, <2>3, OrderGrows
  <2> HIDE DEF id
  <2>6. \A n \in Conns : up'[n] = up[n] \/ up'[n] = Append(up[n], id)
    BY <1>0, <2>1 DEF ConnTypeOK
  <2>7. \A n \in Conns : ToSet(Append(up[n], id)) = ToSet(up[n]) \cup {id}
    BY <1>u, <2>4, AppendSet
  <2>8. OutboxesOwn'
    BY <2>1, <2>5 DEF OutboxesOwn
  <2>9. UpByBrowsers'
    <3>1. \A n \in Conns : ToSet(up'[n]) \subseteq ToSet(up[n]) \cup {id}
      BY <2>6, <2>7
    <3>2. ops'[id].by \in Clients
      BY <2>2, <2>5
    <3> QED
      BY <2>5, <3>1, <3>2 DEF UpByBrowsers
  <2>10. UpOrder'
    <3>1. ASSUME NEW n \in Conns PROVE InOrder(ops', Append(up[n], id), Done')
      BY <1>u, <2>2, <2>4, <2>5, AppendInOrder
    <3> QED
      BY <2>5, <2>6, <3>1 DEF UpOrder
  <2>11. Sent'
    <3>1. \A n \in Conns : ToSet(up[n]) \subseteq ToSet(up'[n])
      BY <2>6, <2>7
    <3> QED
      BY <1>0, <1>a, <2>1, <2>3, <3>1 DEF Sent
  <2>12. LogKnown'
    BY <1>0, <2>3, <2>5 DEF LogKnown
  <2>13. CommitOrder'
    BY <1>o, <2>1, <2>5
  <2> QED
    BY <2>8, <2>9, <2>10, <2>11, <2>12, <2>13 DEF OrderInv
<1>3. ASSUME NEW c \in Clients, Connect(c) PROVE OrderInv'
  <2>1. PICK n \in Conns : /\ sock[c] = NoConn
                           /\ stage[n] = "idle"
                           /\ sock' = [sock EXCEPT ![c] = n]
                           /\ stage' = [stage EXCEPT ![n] = "dialing"]
                           /\ UNCHANGED <<ops, log, rejected, synced, up, outbox>>
    BY <1>3 DEF Connect
  <2>2. /\ \A d \in Clients : d # c => sock'[d] = sock[d]
        /\ ~synced[c]
        /\ \A m \in Conns : m # n => stage'[m] = stage[m]
        /\ stage'[n] = "dialing"
    BY <1>0, <2>1 DEF ConnTypeOK, BrowserTypeOK, ConnInv, SocketsOwn
  <2>3. ASSUME NEW d \in Clients, synced'[d], stage'[sock'[d]] = "joined"
        PROVE  /\ synced[d] /\ sock'[d] = sock[d] /\ stage[sock[d]] = "joined"
               /\ ToSet(up[sock[d]]) \subseteq ToSet(up'[sock[d]]) \cup Done'
    <3>1. synced[d] /\ sock'[d] = sock[d] /\ sock[d] \in Conns
      BY <1>a, <2>1, <2>2, <2>3
    <3>2. stage[sock[d]] = "joined"
      BY <2>2, <2>3, <3>1
    <3> QED
      BY <2>1, <3>1, <3>2
  <2> QED
    BY <1>0, <1>s, <1>u, <2>1, <2>3, OrderFrame
<1>4. ASSUME NEW n \in Conns, JoinRegister(n) PROVE OrderInv'
  <2>1. /\ stage[n] = "dialing"
        /\ stage' = [stage EXCEPT ![n] = "joined"]
        /\ UNCHANGED <<ops, log, rejected, sock, synced, up, outbox>>
    BY <1>4 DEF JoinRegister
  <2>2. \A c \in Clients : synced[c] => sock[c] # n
    BY <1>0, <2>1 DEF ConnInv, SocketsOwn
  <2>3. \A m \in Conns : m # n => stage'[m] = stage[m]
    BY <1>0, <2>1 DEF ConnTypeOK
  <2> QED
    BY <1>c, <1>s, <2>1, <2>2, <2>3
<1>5. ASSUME NEW s \in toState, CaptureState(s) PROVE OrderInv'
  BY <1>5, OrderStays DEF CaptureState
<1>6. ASSUME NEW s \in captured, EnqueueState(s) PROVE OrderInv'
  BY <1>6, OrderStays DEF EnqueueState
<1>7. ASSUME NEW n \in Conns, DialLost(n) PROVE OrderInv'
  <2>1. /\ stage' = [stage EXCEPT ![n] = "idle"]
        /\ UNCHANGED <<ops, log, rejected, sock, synced, up, outbox>>
    BY <1>7 DEF DialLost
  <2>2. \A m \in Conns : stage'[m] = "joined" => stage[m] = "joined"
    BY <1>0, <2>1 DEF ConnTypeOK
  <2> QED
    BY <1>c, <1>s, <2>1, <2>2
<1>d. ASSUME NEW n \in Conns, Takes(n), Head(up[n]) \in Done', rejected \subseteq rejected',
             UNCHANGED <<ops, log, stage, sock, synced, outbox>>
      PROVE  OrderInv'
  <2>1. /\ \A m \in Conns : m # n => up'[m] = up[m]
        /\ up'[n] = Tail(up[n])
        /\ ToSet(up[n]) \subseteq {Head(up[n])} \cup ToSet(up'[n])
    BY <1>0, <1>d, TakesSet
  <2>2. Rest(up[n], Tail(up[n]), Done')
    BY <1>d, <1>u, RestTail DEF Takes
  <2>3. \A m \in Conns : Rest(up[m], up'[m], Done')
    BY <1>s, <2>1, <2>2
  <2>4. \A m \in Conns : ToSet(up[m]) \subseteq ToSet(up'[m]) \cup Done'
    BY <1>d, <2>1
  <2> QED
    BY <1>c, <1>d, <2>3, <2>4
<1>8. ASSUME NEW n \in Conns, HandleDuplicate(n) PROVE OrderInv'
  <2>1. Takes(n) /\ UNCHANGED <<ops, log, rejected, stage, sock, synced, outbox>>
        /\ Head(up[n]) \in ToSet(opOrder)
    BY <1>8 DEF HandleDuplicate
  <2>2. Head(up[n]) \in Done'
    BY <1>b, <2>1 DEF Done, SafeInv, AnswersTrue
  <2> QED
    BY <1>d, <2>1, <2>2
<1>9. ASSUME NEW n \in Conns, HandleRejected(n) PROVE OrderInv'
  <2>1. Takes(n) /\ UNCHANGED <<ops, log, stage, sock, synced, outbox>>
        /\ rejected' = rejected \cup {Head(up[n])}
    BY <1>9 DEF HandleRejected
  <2>2. Head(up[n]) \in Done'
    BY <2>1 DEF Done
  <2> QED
    BY <1>d, <2>1, <2>2
<1>10. ASSUME NEW n \in Conns, HandleApply(n) PROVE OrderInv'
  <2> DEFINE id == Head(up[n])
             entry == [id |-> id, room |-> rooms]
  <2>1. /\ Takes(n) /\ UNCHANGED <<ops, rejected, stage, sock, synced, outbox>>
        /\ log' = Append(log, entry) /\ rooms \in 0 .. MaxRooms
    BY <1>0, <1>10 DEF HandleApply, ServerTypeOK
  <2>2. id \in OpIds /\ id \in Nat /\ up[n] # <<>>
    BY <1>0, <2>1, TakesType, OpsElement DEF Takes
  <2>3. LogIds' = LogIds \cup {id}
    BY <1>0, <2>1, <2>2, LogGrows
  <2>4. Done' = Done \cup {id}
    BY <2>1, <2>3 DEF Done
  <2>5. /\ \A m \in Conns : m # n => up'[m] = up[m]
        /\ up'[n] = Tail(up[n])
        /\ ToSet(up[n]) \subseteq {id} \cup ToSet(up'[n])
    BY <1>0, <2>1, TakesSet
  <2>6. Rest(up[n], Tail(up[n]), Done')
    BY <1>u, <2>2, <2>4, RestTail
  <2>7. UpOrder' /\ UpByBrowsers'
    <3>1. \A m \in Conns : Rest(up[m], up'[m], Done')
      BY <1>s, <2>5, <2>6
    <3> QED
      BY <1>0, <1>u, <2>1, <2>4, <3>1, UpRests
  <2>8. OutboxesOwn'
    BY <1>0, <2>1 DEF OutboxesOwn
  <2>9. Sent'
    <3>1. \A m \in Conns : ToSet(up[m]) \subseteq ToSet(up'[m]) \cup Done'
      BY <2>4, <2>5
    <3> QED
      BY <1>0, <1>a, <2>1, <2>4, <3>1 DEF Sent
  <2>10. LogKnown'
    BY <1>0, <2>1, <2>2, <2>3 DEF LogKnown, OpIds
  <2>11. CommitOrder'
    <3> DEFINE S == [id : Nat, room : 0 .. MaxRooms]
    <3>1. log \in Seq(S) /\ entry \in S /\ entry.id = id
      BY <1>0, <2>1, <2>2 DEF HistoryTypeOK
    <3>2. LogInOrder(ops, log, rejected) /\ InOrder(ops, up[n], Done)
      BY <1>0, CommitOrderIs DEF UpOrder
    <3>3. ~ops[id].live => \A i \in Own(ops, ops[id].by) :
             i < id => i \in rejected \/ \E m \in DOMAIN log : log[m].id = i
      <4>1. ~ops[id].live => \A i \in Own(ops, ops[id].by) : i < id => i \in Done
        BY <1>u, <2>2, <3>2, HeadInOrder
      <4>2. \A i \in Done : i \in rejected \/ \E m \in DOMAIN log : log[m].id = i
        BY DEF Done, LogIds
      <4> QED
        BY <4>1, <4>2
    <3> HIDE DEF S, entry, id
    <3>4. LogInOrder(ops, Append(log, entry), rejected)
      BY <3>1, <3>2, <3>3, LogInOrderAppend
    <3> QED
      BY <1>o, <2>1, <3>4
  <2> QED
    BY <2>7, <2>8, <2>9, <2>10, <2>11 DEF OrderInv
<1>11. CASE Broadcast
  BY <1>11, OrderStays DEF Broadcast
<1>12. ASSUME NEW c \in Clients, ReceiveState(c) PROVE OrderInv'
  <2> DEFINE n == sock[c]
  <2>1. /\ UNCHANGED <<ops, log, rejected, stage, sock, outbox>>
        /\ Receives(c, "state")
        /\ synced' = [synced EXCEPT ![c] = TRUE]
        /\ up' = IF stage[n] = "joined" THEN [up EXCEPT ![n] = up[n] \o outbox[c]] ELSE up
    BY <1>12 DEF ReceiveState
  <2>2. n \in Conns /\ outbox[c] \in Seq(Nat) /\ Ordered(outbox[c])
    BY <1>0, <2>1, ReceivesType DEF BrowserTypeOK, OutboxesOrdered
  <2>3. Done' = Done /\ LogIds' = LogIds /\ OpIds' = OpIds
    BY <1>b, <2>1 DEF OpIds
  <2>4. /\ \A m \in Conns : m # n => up'[m] = up[m]
        /\ up'[n] = IF stage[n] = "joined" THEN up[n] \o outbox[c] ELSE up[n]
        /\ \A d \in Clients : d # c => synced'[d] = synced[d]
    BY <1>0, <2>1, <2>2 DEF ConnTypeOK, BrowserTypeOK
  <2> HIDE DEF n
  <2>5. ToSet(up[n] \o outbox[c]) = ToSet(up[n]) \cup ToSet(outbox[c])
    BY <1>u, <2>2, ConcatSet
  <2>6. InOrder(ops, up[n] \o outbox[c], Done)
    <3>1. Own(ops, c) \subseteq ToSet(outbox[c]) \cup Done
      BY DEF SafeInv, NoLostCommit, Committed, Own, OpIds, Done
    <3> QED
      BY <1>0, <1>u, <2>2, <3>1, ResendInOrder DEF OutboxesOwn, UpOrder
  <2>7. UpOrder'
    <3>1. \A m \in Conns : InOrder(ops, up'[m], Done)
      BY <1>0, <2>4, <2>6 DEF UpOrder
    <3> QED
      BY <2>1, <2>3, <3>1 DEF UpOrder
  <2>8. UpByBrowsers'
    <3>1. \A id \in ToSet(outbox[c]) : ops[id].by \in Clients
      BY <1>0 DEF OutboxesOwn
    <3> QED
      BY <1>0, <2>1, <2>4, <2>5, <3>1 DEF UpByBrowsers
  <2>9. Sent'
    <3>1. ASSUME NEW d \in Clients, synced'[d], stage[sock[d]] = "joined"
          PROVE  ToSet(outbox[d]) \subseteq Done \cup ToSet(up'[sock[d]])
      <4>1. CASE d = c
        BY <2>4, <2>5, <3>1, <4>1 DEF n
      <4>2. CASE d # c
        <5>1. synced[d] /\ sock[d] \in Conns
          BY <1>a, <2>4, <3>1, <4>2
        <5>2. ToSet(up[sock[d]]) \subseteq ToSet(up'[sock[d]])
          BY <2>4, <2>5, <5>1
        <5> QED
          BY <1>0, <3>1, <5>1, <5>2 DEF Sent
      <4> QED
        BY <4>1, <4>2
    <3> QED
      BY <2>1, <2>3, <3>1 DEF Sent
  <2>10. OutboxesOwn' /\ LogKnown'
    BY <1>0, <2>1, <2>3 DEF OutboxesOwn, LogKnown
  <2>11. CommitOrder'
    BY <1>0, <2>1 DEF CommitOrder, Committed, OpIds
  <2> QED
    BY <2>7, <2>8, <2>9, <2>10, <2>11 DEF OrderInv
<1>e. ASSUME NEW c \in Clients, NEW id, OutboxDelete(c, id),
             UNCHANGED <<ops, log, rejected, up, stage, sock, synced>>
      PROVE  OrderInv'
  <2>1. \A d \in Clients : ToSet(outbox'[d]) \subseteq ToSet(outbox[d])
    BY <1>0, <1>e, OutboxDeleteOrdered
  <2> QED
    BY <1>0, <1>e, <1>s, <1>u, <2>1, OrderFrame
<1>13. ASSUME NEW c \in Clients, ReceiveOp(c) PROVE OrderInv'
  BY <1>13, <1>e DEF ReceiveOp
<1>14. ASSUME NEW c \in Clients, ReceiveError(c) PROVE OrderInv'
  BY <1>14, <1>e DEF ReceiveError
<1>f. ASSUME NEW n \in Conns, CutUp(n)
      PROVE  /\ \A m \in Conns : Rest(up[m], up'[m], Done')
             /\ \A m \in Conns : m # n => up'[m] = up[m]
  <2>1. /\ \A m \in Conns : m # n => up'[m] = up[m]
        /\ \A m \in Conns : /\ Len(up'[m]) <= Len(up[m])
                            /\ \A i \in 1 .. Len(up'[m]) : up'[m][i] = up[m][i]
    BY <1>0, <1>f, CutUpType DEF ConnTypeOK
  <2> QED
    BY <1>u, <2>1, RestCut
<1>g. ASSUME NEW c \in Clients, sock[c] # NoConn, Detach(c),
             UNCHANGED <<ops, log, rejected, stage, outbox>>,
             \A m \in Conns : Rest(up[m], up'[m], Done'),
             \A m \in Conns : m # sock[c] => up'[m] = up[m]
      PROVE  OrderInv'
  <2>1. /\ ~synced'[c] /\ \A d \in Clients : d # c => synced'[d] = synced[d] /\ sock'[d] = sock[d]
    BY <1>0, <1>g DEF Detach, BrowserTypeOK
  <2>2. ASSUME NEW d \in Clients, synced'[d], stage'[sock'[d]] = "joined"
        PROVE  /\ synced[d] /\ sock'[d] = sock[d] /\ stage[sock[d]] = "joined"
               /\ ToSet(up[sock[d]]) \subseteq ToSet(up'[sock[d]]) \cup Done'
    <3>1. d # c /\ synced[d] /\ sock'[d] = sock[d] /\ sock[d] \in Conns
      BY <1>a, <2>1, <2>2
    <3>2. sock[d] # sock[c]
      BY <1>0, <1>g, <3>1, SocketsApart
    <3> QED
      BY <1>g, <2>2, <3>1, <3>2
  <2> QED
    BY <1>0, <1>g, <1>u, <2>2, OrderFrame
<1>15. ASSUME NEW c \in Clients, Disconnect(c) PROVE OrderInv'
  <2>1. /\ sock[c] # NoConn /\ Detach(c) /\ CutUp(sock[c])
        /\ UNCHANGED <<ops, log, rejected, stage, outbox>>
    BY <1>15 DEF Disconnect
  <2>2. sock[c] \in Conns
    BY <1>0, <2>1 DEF BrowserTypeOK
  <2> QED
    BY <1>f, <1>g, <2>1, <2>2
<1>16. ASSUME NEW c \in Clients, Kicked(c) PROVE OrderInv'
  BY <1>16, <1>g, <1>s DEF Kicked
<1>17. ASSUME NEW n \in Conns, ServerLeave(n) PROVE OrderInv'
  <2>1. /\ CutUp(n) /\ stage' = [stage EXCEPT ![n] = "idle"]
        /\ UNCHANGED <<ops, log, rejected, sock, synced, outbox>>
    BY <1>17 DEF ServerLeave
  <2>2. \A m \in Conns : stage'[m] = "joined" => stage[m] = "joined" /\ m # n
    BY <1>0, <2>1 DEF ConnTypeOK
  <2> QED
    BY <1>c, <1>f, <2>1, <2>2
<1>18. CASE Evict
  <2>1. /\ up' = [n \in Conns |-> <<>>]
        /\ stage' = [n \in Conns |-> IF stage[n] = "joined" THEN "idle" ELSE stage[n]]
        /\ UNCHANGED <<ops, log, rejected, sock, synced, outbox>>
    BY <1>18 DEF Evict
  <2>2. \A n \in Conns : stage'[n] # "joined"
    BY <2>1
  <2>3. \A n \in Conns : Rest(up[n], up'[n], Done')
    <3>1. \A n \in Conns : up'[n] = <<>> /\ Len(up'[n]) = 0 /\ Len(up[n]) \in Nat
      BY <1>u, <2>1
    <3>2. \A n \in Conns : Len(up'[n]) <= Len(up[n]) /\ 1 .. Len(up'[n]) = {}
      BY <3>1
    <3> QED
      BY <1>u, <3>2, RestCut
  <2> QED
    BY <1>c, <2>1, <2>2, <2>3
<1>19. ASSUME NEW edits \in Batches, AgentCall(edits) PROVE OrderInv'
  BY <1>19, OrderStays DEF AgentCall
<1>20. CASE AgentApply
  <2> DEFINE id == Len(ops) + 1
             r == [by |-> Agent, edit |-> Head(agent.edits), live |-> FALSE]
             entry == [id |-> id, room |-> rooms]
  <2>1. /\ ops' = Append(ops, r) /\ (log' = log \/ log' = Append(log, entry))
        /\ UNCHANGED <<rejected, up, outbox, synced, stage, sock>>
        /\ rooms \in 0 .. MaxRooms /\ id \in Nat
    BY <1>0, <1>20 DEF AgentApply, ServerTypeOK, HistoryTypeOK
  <2>2. r \in OpRecord /\ r.by = Agent
    <3>1. agent.edits \in Seq(Edit) /\ agent.edits # <<>>
      BY <1>0, <1>20 DEF AgentApply, CallTypeOK
    <3>2. Head(agent.edits) \in Edit
      BY <3>1
    <3> QED
      BY <3>2 DEF OpRecord
  <2> HIDE DEF r
  <2>3. LogIds \subseteq LogIds' /\ LogIds' \subseteq LogIds \cup {id} /\ Done \subseteq Done'
    <3>1. log' = Append(log, entry) => LogIds' = LogIds \cup {id}
      BY <1>0, <2>1, LogGrows
    <3>2. log' = log => LogIds' = LogIds
      BY DEF LogIds
    <3> QED
      BY <2>1, <3>1, <3>2 DEF Done
  <2>4. /\ ops'[id] = r
        /\ OpIds' = OpIds \cup {id}
        /\ \A d \in Clients : \A i \in ToSet(outbox[d]) : ops'[i].by = d
        /\ \A n \in Conns : \A i \in ToSet(up[n]) : ops'[i].by \in Clients
        /\ \A n \in Conns : InOrder(ops', up[n], Done')
        /\ LogInOrder(ops', log, rejected)
    BY <2>1, <2>2, <2>3, OrderGrows
  <2>5. OutboxesOwn' /\ UpByBrowsers' /\ UpOrder'
    BY <2>1, <2>4 DEF OutboxesOwn, UpByBrowsers, UpOrder
  <2>6. Sent'
    BY <1>0, <2>1, <2>3 DEF Sent
  <2>7. LogKnown'
    BY <1>0, <2>3, <2>4 DEF LogKnown
  <2>8. CommitOrder'
    <3> DEFINE S == [id : Nat, room : 0 .. MaxRooms]
    <3>1. log \in Seq(S) /\ entry \in S /\ entry.id = id
      BY <1>0, <2>1 DEF HistoryTypeOK
    <3>2. ops'[id].by \notin Clients
      BY <2>2, <2>4, SyncAssumption DEF SyncAssumption
    <3> HIDE DEF S, entry, id
    <3>3. LogInOrder(ops', Append(log, entry), rejected)
      BY <2>4, <3>1, <3>2, LogInOrderAppend
    <3> QED
      BY <1>o, <2>1, <2>4, <3>3
  <2> QED
    BY <2>5, <2>6, <2>7, <2>8 DEF OrderInv
<1>21. CASE AgentRecord
  BY <1>21, OrderStays DEF AgentRecord
<1>22. CASE AgentBroadcast
  BY <1>22, OrderStays DEF AgentBroadcast
<1>23. CASE RestoreSnapshot
  BY <1>23, OrderStays DEF RestoreSnapshot
<1>24. CASE BroadcastState
  BY <1>24, OrderStays DEF BroadcastState
<1>25. CASE UNCHANGED vars
  BY <1>25, OrderStays DEF vars
<1> QED
  BY <1>1, <1>2, <1>3, <1>4, <1>5, <1>6, <1>7, <1>8, <1>9, <1>10, <1>11, <1>12,
     <1>13, <1>14, <1>15, <1>16, <1>17, <1>18, <1>19, <1>20, <1>21, <1>22,
     <1>23, <1>24, <1>25
  DEF Next, BrowserStep, ServerStep, CallStep, Receive, Handle

\* Of what a browser has committed the server applies the earlier before the later,
\* over however many connections.
THEOREM OrderKept == Spec => []CommitOrder
<1>1. Init => TypeInv /\ SafeInv /\ AckInv /\ OrderInv
  BY TypeInit, SafeInit, AckInit, OrderInit
<1>2. TypeInv /\ SafeInv /\ AckInv /\ OrderInv /\ [Next]_vars
         => TypeInv' /\ SafeInv' /\ AckInv' /\ OrderInv'
  BY TypeStep, SafeStep, AckStep, OrderStep
<1>3. OrderInv => CommitOrder
  BY DEF OrderInv
<1> QED
  BY <1>1, <1>2, <1>3, PTL DEF Spec

-----------------------------------------------------------------------------
(* The ids a room remembers. *)

\* No entry twice.
Distinct(s) == \A i, j \in DOMAIN s : i # j => s[i] # s[j]

\* DedupWindow, of a log l.
Window(l) == \A j, k \in DOMAIN l :
    j < k /\ l[j] = l[k] => Cardinality({l[i].id : i \in 1 .. k - 1}) > RecentOps

\* The ids of the call of Apply that are not recorded yet: new ones, and its own.
BatchNew == agent.pc \in {"applying", "applied"} =>
    /\ Distinct(agent.ids) /\ ToSet(agent.ids) \cap ToSet(opOrder) = {}
    /\ \A id \in ToSet(agent.ids) : ops[id].by = Agent

\* Applications are of rooms that were opened.
LogRooms == \A k \in DOMAIN log : log[k].room <= rooms

\* The open room remembers every operation of a browser it has applied, unless more
\* than RecentOps operations have been applied.
Remembered == roomOpen =>
    \/ Cardinality(LogIds) > RecentOps
    \/ \A k \in DOMAIN log :
          log[k].room = rooms /\ ops[log[k].id].by \in Clients => log[k].id \in ToSet(opOrder)

DedupInv == Window(log) /\ Distinct(opOrder) /\ BatchNew /\ LogRooms /\ Remembered

\* The operations applied are finitely many.
LEMMA LogIdsFinite == HistoryTypeOK => IsFiniteSet(LogIds)
<1> SUFFICES ASSUME HistoryTypeOK PROVE IsFiniteSet(LogIds)
  OBVIOUS
<1> DEFINE f == [k \in 1 .. Len(log) |-> log[k].id]
<1>1. Len(log) \in Nat /\ DOMAIN log = 1 .. Len(log)
  BY DEF HistoryTypeOK
<1>2. f \in Surjection(1 .. Len(log), LogIds)
  BY <1>1 DEF LogIds, Surjection
<1>3. IsFiniteSet(1 .. Len(log))
  BY <1>1, FS_Interval
<1> QED
  BY <1>2, <1>3, FS_Surjection

\* A larger set is no smaller.
LEMMA MoreIds ==
    ASSUME NEW S, NEW T, IsFiniteSet(T), S \subseteq T
    PROVE  Cardinality(S) > RecentOps => Cardinality(T) > RecentOps
<1>1. IsFiniteSet(S) /\ Cardinality(S) <= Cardinality(T)
  BY FS_Subset
<1>2. Cardinality(S) \in Nat /\ Cardinality(T) \in Nat /\ RecentOps \in Nat
  BY <1>1, FS_CardinalityType, SyncAssumption DEF SyncAssumption
<1> QED
  BY <1>1, <1>2

\* A sequence without repetition is no longer than the set it is from.
LEMMA LongDistinct ==
    ASSUME NEW s \in Seq(Nat), Distinct(s), NEW S, IsFiniteSet(S), ToSet(s) \subseteq S,
           Len(s) > RecentOps
    PROVE  Cardinality(S) > RecentOps
<1>1. Len(s) \in Nat /\ DOMAIN s = 1 .. Len(s) /\ RecentOps \in Nat /\ Cardinality(S) \in Nat
  BY LenProperties, FS_CardinalityType, SyncAssumption DEF SyncAssumption
<1>2. IsFiniteSet(1 .. Len(s)) /\ Cardinality(1 .. Len(s)) = Len(s)
  <2>1. 1 \in Int /\ Len(s) \in Int
    BY <1>1
  <2>2. /\ IsFiniteSet(1 .. Len(s))
        /\ Cardinality(1 .. Len(s)) = IF 1 > Len(s) THEN 0 ELSE Len(s) - 1 + 1
    BY <2>1, FS_Interval
  <2> QED
    BY <1>1, <2>2
<1>3. s \in [1 .. Len(s) -> S]
  <2>1. \A i \in 1 .. Len(s) : s[i] \in S
    BY <1>1 DEF ToSet
  <2>2. s = [i \in 1 .. Len(s) |-> s[i]]
    BY <1>1
  <2> QED
    BY <2>1, <2>2
<1>4. ~(Cardinality(S) < Len(s))
  BY <1>1, <1>2, <1>3, FS_PigeonHole DEF Distinct
<1> QED
  BY <1>1, <1>4

\* One after the other.
LEMMA DistinctConcat ==
    ASSUME NEW s \in Seq(Nat), NEW t \in Seq(Nat), Distinct(s), Distinct(t),
           ToSet(s) \cap ToSet(t) = {}
    PROVE  Distinct(s \o t)
<1> DEFINE r == s \o t
<1>1. /\ r \in Seq(Nat) /\ Len(r) = Len(s) + Len(t) /\ Len(s) \in Nat /\ Len(t) \in Nat
      /\ DOMAIN s = 1 .. Len(s) /\ DOMAIN t = 1 .. Len(t)
      /\ \A i \in 1 .. Len(s) + Len(t) : r[i] = IF i <= Len(s) THEN s[i] ELSE t[i - Len(s)]
  BY ConcatProperties, LenProperties
<1> HIDE DEF r
<1>2. DOMAIN r = 1 .. Len(s) + Len(t)
  BY <1>1, LenProperties
<1>3. ASSUME NEW i \in 1 .. Len(s) + Len(t)
      PROVE  \/ i \in DOMAIN s /\ r[i] = s[i] /\ r[i] \in ToSet(s)
             \/ i - Len(s) \in DOMAIN t /\ r[i] = t[i - Len(s)] /\ r[i] \in ToSet(t)
  <2>1. CASE i <= Len(s)
    <3>1. i \in DOMAIN s /\ r[i] = s[i]
      BY <1>1, <2>1
    <3> QED
      BY <3>1 DEF ToSet
  <2>2. CASE ~(i <= Len(s))
    <3>1. i - Len(s) \in DOMAIN t /\ r[i] = t[i - Len(s)]
      BY <1>1, <2>2
    <3> QED
      BY <3>1 DEF ToSet
  <2> QED
    BY <2>1, <2>2
<1>4. ASSUME NEW i \in 1 .. Len(s) + Len(t), NEW j \in 1 .. Len(s) + Len(t), i # j
      PROVE  r[i] # r[j]
  <2>1. i - Len(s) # j - Len(s)
    BY <1>1, <1>4
  <2> QED
    BY <1>3, <1>4, <2>1 DEF Distinct
<1>5. Distinct(r)
  BY <1>2, <1>4 DEF Distinct
<1> QED
  BY <1>5 DEF r

\* What recordOps keeps is distinct, and it forgets nothing before there are more
\* than RecentOps ids.
LEMMA RecordOpsRemembers ==
    ASSUME opOrder \in Seq(Nat), NEW ids \in Seq(Nat), Distinct(opOrder), Distinct(ids),
           ToSet(opOrder) \cap ToSet(ids) = {},
           NEW S, IsFiniteSet(S), ToSet(opOrder) \cup ToSet(ids) \subseteq S
    PROVE  /\ Distinct(RecordOps(ids))
           /\ \/ Cardinality(S) > RecentOps
              \/ ToSet(opOrder) \cup ToSet(ids) \subseteq ToSet(RecordOps(ids))
<1> DEFINE new == opOrder \o ids
           excess == Len(new) - RecentOps
<1>1. /\ new \in Seq(Nat) /\ Len(new) \in Nat /\ DOMAIN new = 1 .. Len(new)
  BY ConcatProperties, LenProperties
<1>2. Distinct(new)
  BY DistinctConcat
<1>3. ToSet(new) = ToSet(opOrder) \cup ToSet(ids)
  BY ConcatSet
<1>4. RecentOps \in Nat
  BY SyncAssumption DEF SyncAssumption
<1>5. CASE excess > 0
  <2> DEFINE kept == SubSeq(new, excess + 1, Len(new))
  <2>1. excess \in Nat /\ excess + RecentOps = Len(new) /\ Len(new) > RecentOps
    BY <1>1, <1>4, <1>5
  <2>2. \A i \in excess + 1 .. Len(new) : new[i] \in Nat
    BY <1>1, <2>1, ElementOfSeq
  <2>3. kept \in Seq(Nat) /\ Len(kept) = RecentOps
    BY <1>4, <2>1, <2>2, SubSeqProperties
  <2>4. \A i \in 1 .. RecentOps : kept[i] = new[excess + i]
    BY <1>4, <2>1, <2>2, SubSeqProperties
  <2>5. RecordOps(ids) = kept
    BY <1>5 DEF RecordOps
  <2> HIDE DEF kept, new, excess
  <2>6. DOMAIN kept = 1 .. RecentOps
    BY <2>3, LenProperties
  <2>7. \A i \in 1 .. RecentOps : excess + i \in DOMAIN new
    BY <1>1, <1>4, <2>1
  <2>8. ASSUME NEW i \in 1 .. RecentOps, NEW j \in 1 .. RecentOps, i # j
        PROVE  kept[i] # kept[j]
    <3>1. excess + i # excess + j
      BY <2>1, <2>8
    <3> QED
      BY <1>2, <2>4, <2>7, <3>1 DEF Distinct
  <2>9. Distinct(kept)
    BY <2>6, <2>8 DEF Distinct
  <2>10. Cardinality(S) > RecentOps
    BY <1>1, <1>2, <1>3, <2>1, LongDistinct
  <2> QED
    BY <2>5, <2>9, <2>10
<1>6. CASE ~(excess > 0)
  <2>1. RecordOps(ids) = new
    BY <1>6 DEF RecordOps
  <2> QED
    BY <1>2, <1>3, <2>1
<1> QED
  BY <1>5, <1>6

\* An application that repeats no earlier one, or comes after many.
LEMMA WindowAppend ==
    ASSUME NEW S, NEW l \in Seq(S), NEW e \in S, Window(l),
           (\E m \in DOMAIN l : l[m] = e) => Cardinality({l[i].id : i \in DOMAIN l}) > RecentOps
    PROVE  Window(Append(l, e))
<1> DEFINE v == Append(l, e)
<1>1. /\ v \in Seq(S) /\ Len(v) = Len(l) + 1 /\ Len(l) \in Nat /\ DOMAIN l = 1 .. Len(l)
      /\ \A i \in 1 .. Len(l) : v[i] = l[i]
      /\ v[Len(l) + 1] = e
  BY AppendProperties, LenProperties
<1> HIDE DEF v
<1>2. DOMAIN v = 1 .. Len(l) + 1
  BY <1>1, LenProperties
<1>3. ASSUME NEW j \in DOMAIN v, NEW k \in DOMAIN v, j < k, v[j] = v[k]
      PROVE  Cardinality({v[i].id : i \in 1 .. k - 1}) > RecentOps
  <2>1. j \in 1 .. Len(l) /\ k - 1 <= Len(l)
    BY <1>1, <1>2, <1>3
  <2>2. \A i \in 1 .. k - 1 : i \in 1 .. Len(l)
    BY <1>1, <1>2, <2>1
  <2>3. {v[i].id : i \in 1 .. k - 1} = {l[i].id : i \in 1 .. k - 1}
    BY <1>1, <2>2
  <2>4. CASE k = Len(l) + 1
    <3>1. l[j] = e /\ 1 .. k - 1 = DOMAIN l /\ j \in DOMAIN l
      BY <1>1, <1>3, <2>1, <2>4
    <3>2. Cardinality({l[i].id : i \in DOMAIN l}) > RecentOps
      BY <3>1
    <3> QED
      BY <2>3, <3>1, <3>2
  <2>5. CASE k # Len(l) + 1
    <3>1. k \in DOMAIN l /\ j \in DOMAIN l /\ l[j] = l[k]
      BY <1>1, <1>2, <1>3, <2>1, <2>5
    <3>2. Cardinality({l[i].id : i \in 1 .. k - 1}) > RecentOps
      BY <1>3, <3>1 DEF Window
    <3> QED
      BY <2>3, <3>2
  <2> QED
    BY <2>4, <2>5
<1>4. Window(v)
  BY <1>3 DEF Window
<1> QED
  BY <1>4 DEF v

\* A new entry keeps a sequence without repetition.
LEMMA DistinctAppend ==
    ASSUME NEW s \in Seq(Nat), NEW e \in Nat, Distinct(s), e \notin ToSet(s)
    PROVE  Distinct(Append(s, e))
<1> DEFINE r == Append(s, e)
<1>1. /\ r \in Seq(Nat) /\ Len(r) = Len(s) + 1 /\ Len(s) \in Nat /\ DOMAIN s = 1 .. Len(s)
      /\ \A i \in 1 .. Len(s) : r[i] = s[i]
      /\ r[Len(s) + 1] = e
  BY AppendProperties, LenProperties
<1> HIDE DEF r
<1>2. DOMAIN r = 1 .. Len(s) + 1
  BY <1>1, LenProperties
<1>3. \A i \in DOMAIN r : \/ i \in DOMAIN s /\ r[i] = s[i] /\ r[i] \in ToSet(s)
                          \/ i = Len(s) + 1 /\ r[i] = e
  BY <1>1, <1>2 DEF ToSet
<1>4. Distinct(r)
  BY <1>3 DEF Distinct
<1> QED
  BY <1>4 DEF r

\* An id alone.
LEMMA OneId == \A id \in Nat : <<id>> \in Seq(Nat) /\ Distinct(<<id>>) /\ ToSet(<<id>>) = {id}
BY DEF Distinct, ToSet

\* DedupWindow says that the log keeps the window.
LEMMA WindowIs == Window(log) <=> DedupWindow
BY DEF Window, DedupWindow

\* What the operations applied and the ids of the call are does not change.
LEMMA KnownStay ==
    ASSUME HistoryTypeOK, HistoryTypeOK', SafeInv, OrderInv,
           ops' = ops \/ \E r \in OpRecord : ops' = Append(ops, r)
    PROVE  /\ \A id \in LogIds : ops'[id] = ops[id]
           /\ \A k \in DOMAIN log : ops'[log[k].id] = ops[log[k].id]
           /\ \A id \in ToSet(agent.ids) : ops'[id] = ops[id]
<1>1. ops \in Seq(OpRecord)
  BY DEF HistoryTypeOK, OpRecord
<1>2. \A id \in OpIds : ops'[id] = ops[id]
  <2>1. ASSUME NEW r \in OpRecord, ops' = Append(ops, r)
        PROVE  \A id \in 1 .. Len(ops) : ops'[id] = ops[id]
    BY <1>1, <2>1, Grown
  <2> QED
    BY <2>1 DEF OpIds
<1>3. LogIds \subseteq OpIds /\ ToSet(agent.ids) \subseteq LogIds
  BY DEF SafeInv, AnswersTrue, OrderInv, LogKnown
<1>4. \A k \in DOMAIN log : log[k].id \in LogIds
  BY DEF LogIds
<1> QED
  BY <1>2, <1>3, <1>4

\* A step that applies nothing and lets no room open or remember.
LEMMA DedupFrame ==
    ASSUME HistoryTypeOK, HistoryTypeOK', SafeInv, OrderInv, DedupInv,
           UNCHANGED <<log, opOrder, roomOpen, rooms>>,
           ops' = ops \/ \E r \in OpRecord : ops' = Append(ops, r),
           \/ agent' = agent
           \/ agent'.ids = <<>>
           \/ agent'.pc \notin {"applying", "applied"}
    PROVE  DedupInv'
<1>1. /\ \A k \in DOMAIN log : ops'[log[k].id] = ops[log[k].id]
      /\ \A id \in ToSet(agent.ids) : ops'[id] = ops[id]
  BY KnownStay
<1>2. Window(log)' /\ Distinct(opOrder)' /\ LogRooms'
  BY DEF DedupInv, Window, Distinct, LogRooms
<1>3. BatchNew'
  <2>1. CASE agent' = agent
    BY <1>1, <2>1 DEF DedupInv, BatchNew, Distinct
  <2>2. CASE agent'.ids = <<>>
    BY <2>2, EmptySet DEF BatchNew, Distinct
  <2>3. CASE agent'.pc \notin {"applying", "applied"}
    BY <2>3 DEF BatchNew
  <2> QED
    BY <2>1, <2>2, <2>3
<1>4. Remembered'
  <2>1. LogIds' = LogIds
    BY DEF LogIds
  <2> QED
    BY <1>1, <2>1 DEF DedupInv, Remembered
<1> QED
  BY <1>2, <1>3, <1>4 DEF DedupInv

\* Nothing has been applied.
LEMMA DedupInit == Init => DedupInv
<1> SUFFICES ASSUME Init PROVE DedupInv
  OBVIOUS
<1> USE DEF Init, InitWith
<1>1. log = <<>> /\ opOrder = <<>> /\ agent.pc = "idle"
  BY DEF NoCall
<1>2. Window(log) /\ Distinct(opOrder) /\ LogRooms
  BY <1>1 DEF Window, Distinct, LogRooms
<1>3. BatchNew
  BY <1>1 DEF BatchNew
<1>4. Remembered
  BY <1>1 DEF Remembered
<1> QED
  BY <1>2, <1>3, <1>4 DEF DedupInv

\* Every action keeps the window.
LEMMA DedupStep == TypeInv /\ SafeInv /\ OrderInv /\ DedupInv /\ [Next]_vars => DedupInv'
<1> SUFFICES ASSUME TypeInv, SafeInv, OrderInv, DedupInv, [Next]_vars PROVE DedupInv'
  OBVIOUS
<1> USE DEF serverVars, connVars, sendVars, callVars, browserVars, logVars, boundVars
<1>0. /\ ServerTypeOK /\ CallTypeOK /\ ConnTypeOK /\ BrowserTypeOK /\ HistoryTypeOK
      /\ KnownIds /\ HistoryTypeOK' /\ CallTypeOK'
      /\ Window(log) /\ Distinct(opOrder) /\ BatchNew /\ LogRooms /\ Remembered
  BY TypeStep DEF TypeInv, ProtocolTypeOK, DedupInv
<1>a. ASSUME UNCHANGED <<log, opOrder, roomOpen, rooms, ops, agent>> PROVE DedupInv'
  BY <1>0, <1>a, DedupFrame
<1>b. ASSUME NEW id \in Nat, log' = Append(log, [id |-> id, room |-> rooms])
      PROVE  /\ LogIds' = LogIds \cup {id} /\ IsFiniteSet(LogIds')
             /\ Cardinality(LogIds) > RecentOps => Cardinality(LogIds') > RecentOps
             /\ LogRooms' \/ rooms' # rooms
             /\ \A k \in DOMAIN log' : log'[k].id = id \/ \E m \in DOMAIN log : log'[k] = log[m]
  <2> DEFINE entry == [id |-> id, room |-> rooms]
             S == [id : Nat, room : 0 .. MaxRooms]
  <2>1. rooms \in 0 .. MaxRooms /\ MaxRooms \in Nat /\ entry.id = id /\ entry.room = rooms
    BY <1>0, SyncAssumption DEF ServerTypeOK, SyncAssumption
  <2>2. LogIds' = LogIds \cup {id}
    BY <1>0, <1>b, <2>1, LogGrows
  <2>3. IsFiniteSet(LogIds')
    BY <1>0, <2>2, LogIdsFinite, FS_AddElement
  <2>4. log \in Seq(S) /\ entry \in S /\ log' = Append(log, entry)
    BY <1>0, <1>b, <2>1 DEF HistoryTypeOK
  <2> HIDE DEF S, entry
  <2>5. /\ Len(log) \in Nat /\ DOMAIN log = 1 .. Len(log) /\ DOMAIN log' = 1 .. Len(log) + 1
        /\ \A i \in 1 .. Len(log) : log'[i] = log[i]
        /\ log'[Len(log) + 1] = entry
    BY <2>4, AppendProperties, LenProperties
  <2>6. \A k \in DOMAIN log' : log'[k] = entry \/ \E m \in DOMAIN log : log'[k] = log[m]
    BY <2>5
  <2>7. LogRooms' \/ rooms' # rooms
    <3>1. rooms <= rooms
      BY <2>1
    <3> QED
      BY <1>0, <2>1, <2>6, <3>1 DEF LogRooms
  <2>8. Cardinality(LogIds) > RecentOps => Cardinality(LogIds') > RecentOps
    BY <2>2, <2>3, MoreIds
  <2> QED
    BY <2>1, <2>2, <2>3, <2>6, <2>7, <2>8
<1>1. ASSUME NEW c \in Clients, NEW e \in EditsOf[c], Commit(c, e) PROVE DedupInv'
  <2>1. /\ ops' = Append(ops, [by |-> c, edit |-> e, live |-> FALSE])
        /\ UNCHANGED <<log, opOrder, roomOpen, rooms, agent>>
    BY <1>1 DEF Commit
  <2>2. [by |-> c, edit |-> e, live |-> FALSE] \in OpRecord
    BY SyncAssumption DEF OpRecord, SyncAssumption
  <2> QED
    BY <1>0, <2>1, <2>2, DedupFrame
<1>2. ASSUME NEW c \in Clients, NEW e \in LiveEditsOf[c], CommitLive(c, e) PROVE DedupInv'
  <2>1. /\ ops' = Append(ops, [by |-> c, edit |-> e, live |-> TRUE])
        /\ UNCHANGED <<log, opOrder, roomOpen, rooms, agent>>
    BY <1>2 DEF CommitLive
  <2>2. [by |-> c, edit |-> e, live |-> TRUE] \in OpRecord
    BY SyncAssumption DEF OpRecord, SyncAssumption
  <2> QED
    BY <1>0, <2>1, <2>2, DedupFrame
<1>3. ASSUME NEW c \in Clients, Connect(c) PROVE DedupInv'
  BY <1>3, <1>a DEF Connect
<1>4. ASSUME NEW n \in Conns, JoinRegister(n) PROVE DedupInv'
  <2>1. CASE roomOpen
    BY <1>0, <1>4, <1>a, <2>1 DEF JoinRegister, ServerTypeOK
  <2>2. CASE ~roomOpen
    <3>1. /\ rooms' = rooms + 1 /\ opOrder' = <<>> /\ UNCHANGED <<log, ops, agent>>
          /\ rooms \in Nat
      BY <1>0, <1>4, <2>2, SyncAssumption DEF JoinRegister, ServerTypeOK, SyncAssumption
    <3>2. Window(log)' /\ Distinct(opOrder)'
      BY <1>0, <3>1 DEF Window, Distinct
    <3>3. \A k \in DOMAIN log : log[k].room \in Nat /\ log[k].room <= rooms
      <4>1. ASSUME NEW k \in DOMAIN log PROVE log[k].room \in 0 .. MaxRooms
        <5>1. log \in Seq([id : Nat, room : 0 .. MaxRooms]) /\ k \in 1 .. Len(log)
          BY <1>0 DEF HistoryTypeOK
        <5>2. log[k] \in [id : Nat, room : 0 .. MaxRooms]
          BY <5>1, ElementOfSeq
        <5> QED
          BY <5>2
      <4>2. \A i \in 0 .. MaxRooms : i \in Nat
        BY SyncAssumption DEF SyncAssumption
      <4> QED
        BY <1>0, <4>1, <4>2 DEF LogRooms
    <3>4. \A k \in DOMAIN log : log[k].room <= rooms + 1 /\ log[k].room # rooms + 1
      BY <3>1, <3>3
    <3>5. LogRooms' /\ Remembered'
      BY <3>1, <3>4 DEF LogRooms, Remembered
    <3>6. BatchNew'
      BY <1>0, <3>1, EmptySet DEF BatchNew, Distinct
    <3> QED
      BY <3>2, <3>5, <3>6 DEF DedupInv
  <2> QED
    BY <2>1, <2>2
<1>5. ASSUME NEW s \in toState, CaptureState(s) PROVE DedupInv'
  BY <1>5, <1>a DEF CaptureState
<1>6. ASSUME NEW s \in captured, EnqueueState(s) PROVE DedupInv'
  BY <1>6, <1>a DEF EnqueueState
<1>7. ASSUME NEW n \in Conns, DialLost(n) PROVE DedupInv'
  BY <1>7, <1>a DEF DialLost
<1>8. ASSUME NEW n \in Conns, HandleDuplicate(n) PROVE DedupInv'
  BY <1>8, <1>a DEF HandleDuplicate
<1>9. ASSUME NEW n \in Conns, HandleRejected(n) PROVE DedupInv'
  BY <1>9, <1>a DEF HandleRejected
<1>10. ASSUME NEW n \in Conns, HandleApply(n) PROVE DedupInv'
  <2> DEFINE id == Head(up[n])
             entry == [id |-> id, room |-> rooms]
  <2>1. /\ Takes(n) /\ id \notin ToSet(opOrder) /\ roomOpen
        /\ log' = Append(log, entry) /\ opOrder' = RecordOps(<<id>>)
        /\ UNCHANGED <<roomOpen, rooms, ops, agent>>
    BY <1>10 DEF HandleApply, Takes
  <2>2. id \in Nat
    BY <1>0, <2>1, TakesType, OpsElement
  <2>3. ops[id].by \in Clients
    <3>1. up[n] \in Seq(Nat) /\ up[n] # <<>>
      BY <1>0, <2>1 DEF ConnTypeOK, Takes
    <3>2. id \in ToSet(up[n])
      BY <3>1, HeadTailSet
    <3> QED
      BY <3>2 DEF OrderInv, UpByBrowsers
  <2>4. /\ LogIds' = LogIds \cup {id} /\ IsFiniteSet(LogIds')
        /\ Cardinality(LogIds) > RecentOps => Cardinality(LogIds') > RecentOps
        /\ LogRooms'
        /\ \A k \in DOMAIN log' : log'[k].id = id \/ \E m \in DOMAIN log : log'[k] = log[m]
    BY <1>b, <2>1, <2>2
  <2> HIDE DEF id
  <2>5. /\ Distinct(opOrder')
        /\ \/ Cardinality(LogIds') > RecentOps
           \/ ToSet(opOrder) \cup {id} \subseteq ToSet(opOrder')
        /\ ToSet(opOrder') \subseteq ToSet(opOrder) \cup {id}
    <3>1. /\ opOrder \in Seq(Nat) /\ <<id>> \in Seq(Nat) /\ Distinct(<<id>>)
          /\ ToSet(<<id>>) = {id}
      BY <1>0, <2>2, OneId DEF ServerTypeOK
    <3>2. ToSet(opOrder) \subseteq LogIds
      BY DEF SafeInv, AnswersTrue
    <3>3. /\ Distinct(RecordOps(<<id>>))
          /\ \/ Cardinality(LogIds') > RecentOps
             \/ ToSet(opOrder) \cup ToSet(<<id>>) \subseteq ToSet(RecordOps(<<id>>))
      BY <1>0, <2>1, <2>4, <3>1, <3>2, RecordOpsRemembers
    <3> QED
      BY <2>1, <3>1, <3>3, RecordOpsType
  <2>6. Window(log')
    <3> DEFINE S == [id : Nat, room : 0 .. MaxRooms]
    <3>1. log \in Seq(S) /\ entry \in S /\ entry.id = id /\ entry.room = rooms
      BY <1>0, <2>2 DEF HistoryTypeOK, ServerTypeOK
    <3>2. (\E m \in DOMAIN log : log[m] = entry) => Cardinality(LogIds) > RecentOps
      BY <1>0, <2>1, <2>3, <3>1 DEF Remembered
    <3>3. {log[i].id : i \in DOMAIN log} = LogIds
      BY DEF LogIds
    <3> HIDE DEF S, entry
    <3>4. Window(Append(log, entry))
      BY <1>0, <3>1, <3>2, <3>3, WindowAppend
    <3> QED
      BY <2>1, <3>4
  <2>7. BatchNew'
    <3>1. ASSUME agent.pc \in {"applying", "applied"}
          PROVE  ToSet(agent.ids) \cap ToSet(opOrder') = {}
      <4>1. id \notin ToSet(agent.ids)
        BY <1>0, <2>3, <3>1, SyncAssumption DEF BatchNew, SyncAssumption
      <4> QED
        BY <1>0, <2>5, <3>1, <4>1 DEF BatchNew
    <3> QED
      BY <1>0, <2>1, <3>1 DEF BatchNew, Distinct
  <2>8. Remembered'
    <3>1. CASE Cardinality(LogIds') > RecentOps
      BY <3>1 DEF Remembered
    <3>2. CASE ~(Cardinality(LogIds') > RecentOps)
      <4>1. /\ ToSet(opOrder) \cup {id} \subseteq ToSet(opOrder')
            /\ \A k \in DOMAIN log : log[k].room = rooms /\ ops[log[k].id].by \in Clients =>
                  log[k].id \in ToSet(opOrder)
        BY <1>0, <2>1, <2>4, <2>5, <3>2 DEF Remembered
      <4>2. \A k \in DOMAIN log' : log'[k].room = rooms /\ ops[log'[k].id].by \in Clients =>
                  log'[k].id \in ToSet(opOrder')
        BY <2>4, <4>1
      <4> QED
        BY <2>1, <4>2 DEF Remembered
    <3> QED
      BY <3>1, <3>2
  <2>9. Window(log)' /\ Distinct(opOrder)'
    BY <2>5, <2>6 DEF Window, Distinct
  <2> QED
    BY <2>4, <2>7, <2>8, <2>9 DEF DedupInv
<1>11. CASE Broadcast
  BY <1>11, <1>a DEF Broadcast
<1>12. ASSUME NEW c \in Clients, ReceiveState(c) PROVE DedupInv'
  BY <1>12, <1>a DEF ReceiveState
<1>13. ASSUME NEW c \in Clients, ReceiveOp(c) PROVE DedupInv'
  BY <1>13, <1>a DEF ReceiveOp
<1>14. ASSUME NEW c \in Clients, ReceiveError(c) PROVE DedupInv'
  BY <1>14, <1>a DEF ReceiveError
<1>15. ASSUME NEW c \in Clients, Disconnect(c) PROVE DedupInv'
  BY <1>15, <1>a DEF Disconnect
<1>16. ASSUME NEW c \in Clients, Kicked(c) PROVE DedupInv'
  BY <1>16, <1>a DEF Kicked
<1>17. ASSUME NEW n \in Conns, ServerLeave(n) PROVE DedupInv'
  BY <1>17, <1>a DEF ServerLeave
<1>18. CASE Evict
  <2>1. /\ opOrder' = <<>> /\ ~roomOpen' /\ UNCHANGED <<log, rooms, ops>>
        /\ agent' = agent \/ agent'.pc = "idle"
    BY <1>18 DEF Evict, NoCall
  <2>2. Window(log)' /\ Distinct(opOrder)' /\ LogRooms' /\ Remembered'
    BY <1>0, <2>1 DEF Window, Distinct, LogRooms, Remembered
  <2>3. BatchNew'
    <3>1. CASE agent' = agent
      BY <1>0, <2>1, <3>1, EmptySet DEF BatchNew, Distinct
    <3>2. CASE agent'.pc = "idle"
      BY <3>2 DEF BatchNew
    <3> QED
      BY <2>1, <3>1, <3>2
  <2> QED
    BY <2>2, <2>3 DEF DedupInv
<1>19. ASSUME NEW edits \in Batches, AgentCall(edits) PROVE DedupInv'
  <2>1. UNCHANGED <<log, opOrder, roomOpen, rooms, ops>> /\ agent'.ids = <<>>
    BY <1>19 DEF AgentCall
  <2> QED
    BY <1>0, <2>1, DedupFrame
<1>20. CASE AgentApply
  <2> DEFINE id == Len(ops) + 1
             r == [by |-> Agent, edit |-> Head(agent.edits), live |-> FALSE]
             entry == [id |-> id, room |-> rooms]
  <2>1. /\ ops' = Append(ops, r) /\ UNCHANGED <<opOrder, roomOpen, rooms>>
        /\ agent.pc = "applying" /\ id \in Nat /\ agent.ids \in Seq(Nat)
        /\ rooms \in 0 .. MaxRooms
    BY <1>0, <1>20 DEF AgentApply, HistoryTypeOK, CallTypeOK, ServerTypeOK
  <2>2. r \in OpRecord /\ r.by = Agent
    <3>1. agent.edits \in Seq(Edit) /\ agent.edits # <<>>
      BY <1>0, <1>20 DEF AgentApply, CallTypeOK
    <3>2. Head(agent.edits) \in Edit
      BY <3>1
    <3> QED
      BY <3>2 DEF OpRecord
  <2> HIDE DEF r
  <2>3. CASE Rejects(doc, Head(agent.edits))
    <3>1. log' = log /\ agent' = NoCall
      BY <1>20, <2>3 DEF AgentApply
    <3>2. agent'.ids = <<>>
      BY <3>1 DEF NoCall
    <3> QED
      BY <1>0, <2>1, <2>2, <3>1, <3>2, DedupFrame
  <2>4. CASE ~Rejects(doc, Head(agent.edits))
    <3>1. /\ log' = Append(log, entry)
          /\ agent'.ids = Append(agent.ids, id)
      BY <1>0, <1>20, <2>4 DEF AgentApply, CallTypeOK
    <3>2. /\ LogIds' = LogIds \cup {id}
          /\ Cardinality(LogIds) > RecentOps => Cardinality(LogIds') > RecentOps
          /\ LogRooms'
          /\ \A k \in DOMAIN log' : log'[k].id = id \/ \E m \in DOMAIN log : log'[k] = log[m]
      BY <1>b, <2>1, <3>1
    <3>3. id \notin LogIds /\ ToSet(opOrder) \cup ToSet(agent.ids) \subseteq LogIds
      <4>1. Len(ops) \in Nat
        BY <1>0 DEF HistoryTypeOK
      <4> QED
        BY <4>1 DEF OrderInv, LogKnown, OpIds, SafeInv, AnswersTrue
    <3>4. /\ \A k \in DOMAIN log : ops'[log[k].id] = ops[log[k].id]
          /\ \A i \in ToSet(agent.ids) : ops'[i] = ops[i]
          /\ ops'[id] = r
      <4>1. ops \in Seq(OpRecord)
        BY <1>0 DEF HistoryTypeOK, OpRecord
      <4>2. ops'[id] = r
        BY <2>1, <2>2, <4>1, Grown
      <4> QED
        BY <1>0, <2>1, <2>2, <4>2, KnownStay
    <3>5. Window(log')
      <4> DEFINE S == [id : Nat, room : 0 .. MaxRooms]
      <4>1. log \in Seq(S) /\ entry \in S /\ entry.id = id
        BY <1>0, <2>1 DEF HistoryTypeOK
      <4>2. ~ \E m \in DOMAIN log : log[m] = entry
        BY <3>3, <4>1 DEF LogIds
      <4> HIDE DEF S, entry
      <4>3. Window(Append(log, entry))
        BY <1>0, <4>1, <4>2, WindowAppend
      <4> QED
        BY <3>1, <4>3
    <3>6. BatchNew'
      <4>1. Distinct(agent.ids) /\ ToSet(agent.ids) \cap ToSet(opOrder) = {}
            /\ \A i \in ToSet(agent.ids) : ops[i].by = Agent
        BY <1>0, <2>1 DEF BatchNew
      <4> HIDE DEF id
      <4>2. ToSet(agent'.ids) = ToSet(agent.ids) \cup {id}
        BY <2>1, <3>1, AppendSet
      <4>3. Distinct(Append(agent.ids, id))
        BY <2>1, <3>3, <4>1, DistinctAppend
      <4>4. Distinct(agent'.ids)
        BY <3>1, <4>3
      <4>5. ToSet(agent'.ids) \cap ToSet(opOrder) = {}
        BY <3>3, <4>1, <4>2
      <4>6. \A i \in ToSet(agent'.ids) : ops'[i].by = Agent
        BY <2>2, <3>4, <4>1, <4>2
      <4>7. opOrder' = opOrder
        BY <2>1
      <4> QED
        BY <4>4, <4>5, <4>6, <4>7 DEF BatchNew, Distinct
    <3>7. Remembered'
      <4>1. ops'[id].by \notin Clients
        BY <2>2, <3>4, SyncAssumption DEF SyncAssumption
      <4>2. opOrder' = opOrder /\ roomOpen' = roomOpen /\ rooms' = rooms
        BY <2>1
      <4> HIDE DEF id
      <4> QED
        BY <1>0, <3>2, <3>4, <4>1, <4>2 DEF Remembered
    <3>8. Window(log)' /\ Distinct(opOrder)'
      BY <1>0, <2>1, <3>5 DEF Window, Distinct
    <3> QED
      BY <3>2, <3>6, <3>7, <3>8 DEF DedupInv
  <2> QED
    BY <2>3, <2>4
<1>21. CASE AgentRecord
  <2>1. /\ agent.pc = "applied" /\ UNCHANGED <<log, roomOpen, rooms, ops>>
        /\ opOrder' = IF roomOpen THEN RecordOps(agent.ids) ELSE opOrder
        /\ agent'.pc \notin {"applying", "applied"}
    <3>1. agent' = IF roomOpen THEN [agent EXCEPT !.pc = "recorded"] ELSE NoCall
      BY <1>21 DEF AgentRecord
    <3>2. agent'.pc \notin {"applying", "applied"}
      BY <1>0, <3>1 DEF CallTypeOK, NoCall
    <3> QED
      BY <1>21, <3>2 DEF AgentRecord
  <2>2. CASE ~roomOpen
    BY <1>0, <2>1, <2>2, DedupFrame
  <2>3. CASE roomOpen
    <3>1. opOrder' = RecordOps(agent.ids) /\ LogIds' = LogIds
      BY <2>1, <2>3 DEF LogIds
    <3>2. /\ opOrder \in Seq(Nat) /\ agent.ids \in Seq(Nat) /\ IsFiniteSet(LogIds)
          /\ ToSet(opOrder) \cup ToSet(agent.ids) \subseteq LogIds
          /\ Distinct(agent.ids) /\ ToSet(opOrder) \cap ToSet(agent.ids) = {}
      BY <1>0, <2>1, LogIdsFinite DEF ServerTypeOK, CallTypeOK, SafeInv, AnswersTrue, BatchNew
    <3>3. /\ Distinct(opOrder')
          /\ \/ Cardinality(LogIds) > RecentOps
             \/ ToSet(opOrder) \subseteq ToSet(opOrder')
      BY <1>0, <3>1, <3>2, RecordOpsRemembers
    <3>4. Remembered'
      BY <1>0, <2>1, <2>3, <3>1, <3>3 DEF Remembered
    <3>5. Window(log)' /\ LogRooms' /\ BatchNew'
      BY <1>0, <2>1 DEF Window, LogRooms, BatchNew
    <3>6. Distinct(opOrder)'
      BY <3>3 DEF Distinct
    <3> QED
      BY <3>4, <3>5, <3>6 DEF DedupInv
  <2> QED
    BY <2>2, <2>3
<1>22. CASE AgentBroadcast
  <2>1. /\ UNCHANGED <<log, opOrder, roomOpen, rooms, ops>>
        /\ agent'.pc \notin {"applying", "applied"}
    <3>1. agent.pc = "recorded"
          /\ agent' = IF Len(agent.ids) = 1 THEN NoCall ELSE [agent EXCEPT !.ids = Tail(@)]
      BY <1>22 DEF AgentBroadcast
    <3>2. agent'.pc \notin {"applying", "applied"}
      BY <1>0, <3>1 DEF CallTypeOK, NoCall
    <3> QED
      BY <1>22, <3>2 DEF AgentBroadcast
  <2> QED
    BY <1>0, <2>1, DedupFrame
<1>23. CASE RestoreSnapshot
  BY <1>23, <1>a DEF RestoreSnapshot
<1>24. CASE BroadcastState
  BY <1>24, <1>a DEF BroadcastState
<1>25. CASE UNCHANGED vars
  BY <1>25, <1>a DEF vars
<1> QED
  BY <1>1, <1>2, <1>3, <1>4, <1>5, <1>6, <1>7, <1>8, <1>9, <1>10, <1>11, <1>12,
     <1>13, <1>14, <1>15, <1>16, <1>17, <1>18, <1>19, <1>20, <1>21, <1>22,
     <1>23, <1>24, <1>25
  DEF Next, BrowserStep, ServerStep, CallStep, Receive, Handle

\* A room applies an operation again only after more than RecentOps others.
THEOREM DuplicatesKnown == Spec => []DedupWindow
<1>1. Init => TypeInv /\ SafeInv /\ AckInv /\ OrderInv /\ DedupInv
  BY TypeInit, SafeInit, AckInit, OrderInit, DedupInit
<1>2. TypeInv /\ SafeInv /\ AckInv /\ OrderInv /\ DedupInv /\ [Next]_vars
         => TypeInv' /\ SafeInv' /\ AckInv' /\ OrderInv' /\ DedupInv'
  BY TypeStep, SafeStep, AckStep, OrderStep, DedupStep
<1>3. DedupInv => DedupWindow
  BY WindowIs DEF DedupInv
<1> QED
  BY <1>1, <1>2, <1>3, PTL DEF Spec

-----------------------------------------------------------------------------
(* An operation is applied twice only by two rooms, or out of the window. *)

\* An open room has been counted.
OpenCounted == roomOpen => rooms # 0

\* A browser's operation is applied by a room, and only such a one twice.
BrowserRooms == \A k \in DOMAIN log : ops[log[k].id].by \in Clients => log[k].room # 0
AgentOnce == \A j, k \in DOMAIN log :
    j # k /\ log[j].id = log[k].id => ops[log[k].id].by \in Clients

RoomInv == OpenCounted /\ BrowserRooms /\ AgentOnce

\* A step that applies nothing and opens no room.
LEMMA RoomFrame ==
    ASSUME HistoryTypeOK, HistoryTypeOK', SafeInv, OrderInv, RoomInv,
           UNCHANGED <<log, rooms>>, roomOpen' => roomOpen,
           ops' = ops \/ \E r \in OpRecord : ops' = Append(ops, r)
    PROVE  RoomInv'
<1>1. \A k \in DOMAIN log : ops'[log[k].id] = ops[log[k].id]
  BY KnownStay
<1> QED
  BY <1>1 DEF RoomInv, OpenCounted, BrowserRooms, AgentOnce

\* An application of a browser's operation by the open room, or of a new one.
LEMMA RoomApplies ==
    ASSUME HistoryTypeOK, RoomInv, NEW id \in Nat, rooms \in 0 .. MaxRooms,
           log' = Append(log, [id |-> id, room |-> rooms]),
           UNCHANGED <<roomOpen, rooms>>,
           \A k \in DOMAIN log : ops'[log[k].id] = ops[log[k].id],
           \/ ops'[id].by \in Clients /\ roomOpen
           \/ ops'[id].by \notin Clients /\ id \notin LogIds
    PROVE  RoomInv'
<1> DEFINE entry == [id |-> id, room |-> rooms]
           S == [id : Nat, room : 0 .. MaxRooms]
<1>1. log \in Seq(S) /\ entry \in S /\ log' = Append(log, entry)
  BY DEF HistoryTypeOK
<1>2. entry.id = id /\ entry.room = rooms
  OBVIOUS
<1> HIDE DEF entry, S
<1>3. /\ Len(log) \in Nat /\ DOMAIN log = 1 .. Len(log) /\ DOMAIN log' = 1 .. Len(log) + 1
      /\ \A i \in 1 .. Len(log) : log'[i] = log[i]
      /\ log'[Len(log) + 1] = entry
  BY <1>1, AppendProperties, LenProperties
<1>4. \A k \in DOMAIN log : log[k].id \in LogIds
  BY DEF LogIds
<1>5. OpenCounted'
  BY DEF RoomInv, OpenCounted
<1>6. BrowserRooms'
  <2>1. ASSUME NEW k \in DOMAIN log', ops'[log'[k].id].by \in Clients PROVE log'[k].room # 0
    <3>1. CASE k \in DOMAIN log
      BY <1>3, <2>1, <3>1 DEF RoomInv, BrowserRooms
    <3>2. CASE k \notin DOMAIN log
      BY <1>2, <1>3, <2>1, <3>2 DEF RoomInv, OpenCounted
    <3> QED
      BY <3>1, <3>2
  <2> QED
    BY <2>1 DEF BrowserRooms
<1>7. AgentOnce'
  <2>1. ASSUME NEW j \in DOMAIN log', NEW k \in DOMAIN log', j # k, log'[j].id = log'[k].id
        PROVE  ops'[log'[k].id].by \in Clients
    <3>1. CASE j \in DOMAIN log /\ k \in DOMAIN log
      BY <1>3, <2>1, <3>1 DEF RoomInv, AgentOnce
    <3>2. CASE j \notin DOMAIN log \/ k \notin DOMAIN log
      <4>1. log'[k].id = id /\ id \in LogIds
        BY <1>2, <1>3, <1>4, <2>1, <3>2
      <4> QED
        BY <4>1
    <3> QED
      BY <3>1, <3>2
  <2> QED
    BY <2>1 DEF AgentOnce
<1> QED
  BY <1>5, <1>6, <1>7 DEF RoomInv

\* Nothing has been applied, and no room is open.
LEMMA RoomInit == Init => RoomInv
<1> SUFFICES ASSUME Init PROVE RoomInv
  OBVIOUS
<1>1. log = <<>> /\ ~roomOpen
  BY DEF Init, InitWith
<1>2. DOMAIN log = {}
  BY <1>1
<1> QED
  BY <1>1, <1>2 DEF RoomInv, OpenCounted, BrowserRooms, AgentOnce

\* Every action keeps the rooms.
LEMMA RoomStep == TypeInv /\ SafeInv /\ OrderInv /\ RoomInv /\ [Next]_vars => RoomInv'
<1> SUFFICES ASSUME TypeInv, SafeInv, OrderInv, RoomInv, [Next]_vars PROVE RoomInv'
  OBVIOUS
<1> USE DEF serverVars, connVars, sendVars, callVars, browserVars, logVars, boundVars
<1>0. /\ ServerTypeOK /\ CallTypeOK /\ ConnTypeOK /\ BrowserTypeOK /\ HistoryTypeOK
      /\ KnownIds /\ HistoryTypeOK'
  BY TypeStep DEF TypeInv, ProtocolTypeOK
<1>a. ASSUME UNCHANGED <<log, rooms, ops>>, roomOpen' => roomOpen PROVE RoomInv'
  BY <1>0, <1>a, RoomFrame
<1>1. ASSUME NEW c \in Clients, NEW e \in EditsOf[c], Commit(c, e) PROVE RoomInv'
  <2>1. /\ ops' = Append(ops, [by |-> c, edit |-> e, live |-> FALSE])
        /\ UNCHANGED <<log, roomOpen, rooms>>
    BY <1>1 DEF Commit
  <2>2. [by |-> c, edit |-> e, live |-> FALSE] \in OpRecord
    BY SyncAssumption DEF OpRecord, SyncAssumption
  <2> QED
    BY <1>0, <2>1, <2>2, RoomFrame
<1>2. ASSUME NEW c \in Clients, NEW e \in LiveEditsOf[c], CommitLive(c, e) PROVE RoomInv'
  <2>1. /\ ops' = Append(ops, [by |-> c, edit |-> e, live |-> TRUE])
        /\ UNCHANGED <<log, roomOpen, rooms>>
    BY <1>2 DEF CommitLive
  <2>2. [by |-> c, edit |-> e, live |-> TRUE] \in OpRecord
    BY SyncAssumption DEF OpRecord, SyncAssumption
  <2> QED
    BY <1>0, <2>1, <2>2, RoomFrame
<1>3. ASSUME NEW c \in Clients, Connect(c) \/ Receive(c) \/ Disconnect(c) \/ Kicked(c)
      PROVE  RoomInv'
  <2>1. UNCHANGED <<log, rooms, ops, roomOpen>>
    BY <1>3
    DEF Connect, Receive, ReceiveState, ReceiveOp, ReceiveError, Disconnect, Kicked
  <2> QED
    BY <1>a, <2>1
<1>4. ASSUME NEW n \in Conns, JoinRegister(n) PROVE RoomInv'
  <2>1. log' = log /\ ops' = ops /\ rooms' # 0
    BY <1>0, <1>4, SyncAssumption
    DEF JoinRegister, ServerTypeOK, SyncAssumption, RoomInv, OpenCounted
  <2>2. BrowserRooms' /\ AgentOnce'
    BY <2>1 DEF RoomInv, BrowserRooms, AgentOnce
  <2> QED
    BY <2>1, <2>2 DEF RoomInv, OpenCounted
<1>5. ASSUME NEW n \in Conns, DialLost(n) \/ ServerLeave(n) PROVE RoomInv'
  BY <1>5, <1>a DEF DialLost, ServerLeave
<1>6. ASSUME NEW n \in Conns, HandleDuplicate(n) \/ HandleRejected(n) PROVE RoomInv'
  BY <1>6, <1>a DEF HandleDuplicate, HandleRejected
<1>7. ASSUME NEW n \in Conns, HandleApply(n) PROVE RoomInv'
  <2> DEFINE id == Head(up[n])
  <2>1. /\ Takes(n) /\ roomOpen /\ log' = Append(log, [id |-> id, room |-> rooms])
        /\ UNCHANGED <<roomOpen, rooms, ops>>
    BY <1>7 DEF HandleApply, Takes
  <2>2. id \in Nat
    BY <1>0, <2>1, TakesType, OpsElement
  <2>3. ops[id].by \in Clients
    <3>1. up[n] \in Seq(Nat) /\ up[n] # <<>>
      BY <1>0, <2>1 DEF ConnTypeOK, Takes
    <3>2. id \in ToSet(up[n])
      BY <3>1, HeadTailSet
    <3> QED
      BY <3>2 DEF OrderInv, UpByBrowsers
  <2>4. rooms \in 0 .. MaxRooms
    BY <1>0 DEF ServerTypeOK
  <2> HIDE DEF id
  <2> QED
    BY <1>0, <2>1, <2>2, <2>3, <2>4, RoomApplies
<1>8. ASSUME NEW s \in toState, CaptureState(s) PROVE RoomInv'
  BY <1>8, <1>a DEF CaptureState
<1>9. ASSUME NEW s \in captured, EnqueueState(s) PROVE RoomInv'
  BY <1>9, <1>a DEF EnqueueState
<1>10. ASSUME Broadcast \/ Evict PROVE RoomInv'
  BY <1>10, <1>a DEF Broadcast, Evict
<1>11. ASSUME NEW edits \in Batches, AgentCall(edits) PROVE RoomInv'
  BY <1>11, <1>a DEF AgentCall
<1>12. ASSUME AgentApply PROVE RoomInv'
  <2> DEFINE id == Len(ops) + 1
             r == [by |-> Agent, edit |-> Head(agent.edits), live |-> FALSE]
  <2>1. /\ ops' = Append(ops, r) /\ UNCHANGED <<roomOpen, rooms>>
        /\ log' = log \/ log' = Append(log, [id |-> id, room |-> rooms])
        /\ id \in Nat /\ rooms \in 0 .. MaxRooms
    BY <1>0, <1>12 DEF AgentApply, HistoryTypeOK, ServerTypeOK
  <2>2. r \in OpRecord /\ r.by = Agent
    <3>1. agent.edits \in Seq(Edit) /\ agent.edits # <<>>
      BY <1>0, <1>12 DEF AgentApply, CallTypeOK
    <3>2. Head(agent.edits) \in Edit
      BY <3>1
    <3> QED
      BY <3>2 DEF OpRecord
  <2> HIDE DEF r
  <2>3. CASE log' = log
    BY <1>0, <2>1, <2>2, <2>3, RoomFrame
  <2>4. CASE log' = Append(log, [id |-> id, room |-> rooms])
    <3>1. id \notin LogIds
      <4>1. Len(ops) \in Nat
        BY <1>0 DEF HistoryTypeOK
      <4> QED
        BY <4>1 DEF OrderInv, LogKnown, OpIds
    <3>2. ops'[id].by \notin Clients
      <4>1. ops \in Seq(OpRecord)
        BY <1>0 DEF HistoryTypeOK, OpRecord
      <4>2. ops'[id] = r
        BY <2>1, <2>2, <4>1, Grown
      <4> QED
        BY <2>2, <4>2, SyncAssumption DEF SyncAssumption
    <3>3. \A k \in DOMAIN log : ops'[log[k].id] = ops[log[k].id]
      BY <1>0, <2>1, <2>2, KnownStay
    <3> HIDE DEF id
    <3> QED
      BY <1>0, <2>1, <2>4, <3>1, <3>2, <3>3, RoomApplies
  <2> QED
    BY <2>1, <2>3, <2>4
<1>13. ASSUME AgentRecord \/ AgentBroadcast \/ RestoreSnapshot \/ BroadcastState PROVE RoomInv'
  BY <1>13, <1>a DEF AgentRecord, AgentBroadcast, RestoreSnapshot, BroadcastState
<1>14. ASSUME UNCHANGED vars PROVE RoomInv'
  BY <1>14, <1>a DEF vars
<1> QED
  BY <1>1, <1>2, <1>3, <1>4, <1>5, <1>6, <1>7, <1>8, <1>9, <1>10, <1>11, <1>12,
     <1>13, <1>14
  DEF Next, BrowserStep, ServerStep, CallStep, Handle

\* One room within its window applies nothing twice.
LEMMA OneRoom ==
    ASSUME TypeInv, DedupWindow, LogRooms, RoomInv,
           rooms <= 1, Cardinality(LogIds) <= RecentOps
    PROVE  AppliedAtMostOnce
<1> SUFFICES ASSUME NEW j \in DOMAIN log, NEW k \in DOMAIN log, j < k, log[j].id = log[k].id
             PROVE  FALSE
  BY DEF AppliedAtMostOnce
<1>0. HistoryTypeOK
  BY DEF TypeInv, ProtocolTypeOK
<1>1. log \in Seq([id : Nat, room : 0 .. MaxRooms]) /\ MaxRooms \in Nat /\ RecentOps \in Nat
  BY <1>0, SyncAssumption DEF HistoryTypeOK, SyncAssumption
<1>2. /\ DOMAIN log = 1 .. Len(log) /\ Len(log) \in Nat
      /\ log[j] \in [id : Nat, room : 0 .. MaxRooms]
      /\ log[k] \in [id : Nat, room : 0 .. MaxRooms]
  <2> DEFINE S == [id : Nat, room : 0 .. MaxRooms]
  <2>1. log \in Seq(S)
    BY <1>1
  <2> HIDE DEF S
  <2>2. DOMAIN log = 1 .. Len(log) /\ Len(log) \in Nat
    BY <2>1, LenProperties
  <2>3. log[j] \in S /\ log[k] \in S
    BY <2>1, <2>2, ElementOfSeq
  <2> QED
    BY <2>2, <2>3 DEF S
<1>3. rooms \in Nat
  BY SyncAssumption DEF TypeInv, ProtocolTypeOK, ServerTypeOK, SyncAssumption
<1>4. log[j].room # 0 /\ log[k].room # 0
  <2>1. ops[log[k].id].by \in Clients
    BY <1>2 DEF RoomInv, AgentOnce
  <2> QED
    BY <2>1 DEF RoomInv, BrowserRooms
<1>5. log[j].room = 1 /\ log[k].room = 1
  <2>1. log[j].room <= rooms /\ log[k].room <= rooms
    BY DEF LogRooms
  <2>2. log[j].room \in Nat /\ log[k].room \in Nat
    BY <1>1, <1>2
  <2> QED
    BY <1>3, <1>4, <2>1, <2>2
<1>6. log[j] = log[k]
  BY <1>2, <1>5
<1> DEFINE before == {log[i].id : i \in 1 .. k - 1}
<1>7. Cardinality(before) > RecentOps
  BY <1>6 DEF DedupWindow
<1>8. before \subseteq LogIds
  BY <1>2 DEF LogIds
<1> HIDE DEF before
<1>9. IsFiniteSet(LogIds)
  BY <1>0, LogIdsFinite
<1>10. Cardinality(LogIds) > RecentOps /\ Cardinality(LogIds) \in Nat
  BY <1>7, <1>8, <1>9, MoreIds, FS_CardinalityType
<1> QED
  BY <1>1, <1>10

\* "Resent edits are deduplicated": as long as no room of the board has been evicted
\* and no more than recentOpIDs operations have been applied, none is applied twice.
THEOREM AppliedOnce ==
    Spec => [](rooms <= 1 /\ Cardinality(LogIds) <= RecentOps => AppliedAtMostOnce)
<1>1. Init => TypeInv /\ SafeInv /\ AckInv /\ OrderInv /\ DedupInv /\ RoomInv
  BY TypeInit, SafeInit, AckInit, OrderInit, DedupInit, RoomInit
<1>2. TypeInv /\ SafeInv /\ AckInv /\ OrderInv /\ DedupInv /\ RoomInv /\ [Next]_vars
         => TypeInv' /\ SafeInv' /\ AckInv' /\ OrderInv' /\ DedupInv' /\ RoomInv'
  BY TypeStep, SafeStep, AckStep, OrderStep, DedupStep, RoomStep
<1>3. TypeInv /\ DedupInv /\ RoomInv =>
         (rooms <= 1 /\ Cardinality(LogIds) <= RecentOps => AppliedAtMostOnce)
  BY OneRoom, WindowIs DEF DedupInv
<1> QED
  BY <1>1, <1>2, <1>3, PTL DEF Spec

-----------------------------------------------------------------------------
(* The replicas: applyOps over the outbox, a fold, by induction on the number  *)
(* of operations replayed.                                                     *)

\* Induction over the natural numbers, for a set.
LEMMA SetInduction ==
  ASSUME NEW T, 0 \in T, \A n \in Nat : n \in T => n + 1 \in T
  PROVE  Nat \subseteq T
<1> DEFINE R == OpToRel(<, Nat)
             U == Nat \ T
<1>1. IsWellFoundedOn(R, Nat)
  BY NatLessThanWellFounded
<1>2. \A x, y \in Nat : x < y => <<x, y>> \in R
  BY DEF OpToRel
<1> HIDE DEF R
<1>3. SUFFICES ASSUME U # {} PROVE FALSE
  OBVIOUS
<1>4. PICK x \in U : \A y \in U : ~ (<<y, x>> \in R)
  <2> HIDE DEF U
  <2>1. U \subseteq Nat
   BY DEF U
  <2> QED
  BY <1>1, <1>3, <2>1, WFMin
<1>5. x \in Nat /\ x # 0 /\ x - 1 < x /\ x - 1 \in Nat /\ x = (x-1) + 1
  BY <1>4
<1>6. <<x - 1, x>> \in R
  BY <1>2, <1>5
<1>7. x - 1 \notin U
  BY <1>4, <1>6
<1> QED
  BY <1>4, <1>5, <1>7

\* The largest of a set of numbers up to its bound is that bound.
LEMMA MaxOfTop ==
    ASSUME NEW n \in Nat, NEW s \in SUBSET (1 .. n + 1), n + 1 \in s
    PROVE  Max(s) = n + 1
<1>1. \E x \in s : \A y \in s : x >= y
  OBVIOUS
<1>2. \A x \in s : (\A y \in s : x >= y) => x = n + 1
  OBVIOUS
<1> QED
  BY <1>1, <1>2 DEF Max

\* g is the recursion of the fold, on the sets of indices up to n.
Folding(g, n, objs, ids) ==
    g = [s \in SUBSET (1 .. n) |->
           IF s = {} THEN objs ELSE ApplyOp(g[s \ {Max(s)}], ops[ids[Max(s)]].edit)]

\* The recursion has a solution.
LEMMA FoldExists ==
    ASSUME NEW objs, NEW ids
    PROVE  \A n \in Nat : \E g : Folding(g, n, objs, ids)
<1> DEFINE T == {n \in Nat : \E g : Folding(g, n, objs, ids)}
<1>1. 0 \in T
  <2> DEFINE g == [s \in SUBSET (1 .. 0) |-> objs]
  <2>1. \A s \in SUBSET (1 .. 0) : s = {}
    OBVIOUS
  <2>2. Folding(g, 0, objs, ids)
    BY <2>1, Zenon DEF Folding
  <2> QED
    BY <2>2
<1>2. ASSUME NEW n \in Nat, n \in T PROVE n + 1 \in T
  <2>1. PICK f : Folding(f, n, objs, ids)
    BY <1>2
  <2> DEFINE V(h, s) == IF s = {} THEN objs ELSE ApplyOp(h[s \ {Max(s)}], ops[ids[Max(s)]].edit)
             g == [s \in SUBSET (1 .. n + 1) |->
                     IF s \in SUBSET (1 .. n) THEN f[s] ELSE V(f, s)]
  <2>2. \A s \in SUBSET (1 .. n) : f[s] = V(f, s) /\ s \in SUBSET (1 .. n + 1)
    <3>1. \A s \in SUBSET (1 .. n) : f[s] = V(f, s)
      BY <2>1, Zenon DEF Folding
    <3>2. 1 .. n \subseteq 1 .. n + 1
      OBVIOUS
    <3> QED
      BY <3>1, <3>2, Zenon
  <2>3. \A s \in SUBSET (1 .. n + 1) : s \ {Max(s)} \in SUBSET (1 .. n)
    <3>1. ASSUME NEW s \in SUBSET (1 .. n + 1), n + 1 \in s
          PROVE  s \ {Max(s)} \in SUBSET (1 .. n)
      <4>1. Max(s) = n + 1
        BY <3>1, MaxOfTop
      <4>2. s \ {n + 1} \in SUBSET (1 .. n)
        OBVIOUS
      <4> QED
        BY <4>1, <4>2, Zenon
    <3>2. ASSUME NEW s \in SUBSET (1 .. n + 1), n + 1 \notin s
          PROVE  s \ {Max(s)} \in SUBSET (1 .. n)
      <4>1. s \in SUBSET (1 .. n)
        BY <3>2
      <4> QED
        BY <4>1, Zenon
    <3> QED
      BY <3>1, <3>2
  <2>4. \A s \in SUBSET (1 .. n + 1) : V(g, s) = V(f, s)
    <3>1. \A s \in SUBSET (1 .. n) : g[s] = f[s]
      BY <2>2, Zenon
    <3>2. \A s \in SUBSET (1 .. n + 1) : g[s \ {Max(s)}] = f[s \ {Max(s)}]
      BY <2>3, <3>1, Zenon
    <3> HIDE DEF g
    <3> QED
      BY <3>2, Zenon
  <2>5. \A s \in SUBSET (1 .. n + 1) : g[s] = V(f, s)
    <3>1. ASSUME NEW s \in SUBSET (1 .. n + 1) PROVE g[s] = V(f, s)
      <4> HIDE DEF V
      <4>1. g[s] = IF s \in SUBSET (1 .. n) THEN f[s] ELSE V(f, s)
        BY Zenon
      <4> QED
        BY <2>2, <4>1, Zenon
    <3> HIDE DEF g, V
    <3> QED
      BY <3>1, Zenon
  <2>6. g = [s \in SUBSET (1 .. n + 1) |-> V(g, s)]
    <3>1. g = [s \in SUBSET (1 .. n + 1) |-> g[s]]
      BY Zenon
    <3> HIDE DEF g, V
    <3> QED
      BY <2>4, <2>5, <3>1, Zenon
  <2>7. Folding(g, n + 1, objs, ids)
    BY <2>6, Zenon DEF Folding
  <2> HIDE DEF g
  <2> QED
    BY <2>7
<1> HIDE DEF T
<1>3. Nat \subseteq T
  BY <1>1, <1>2, SetInduction, Zenon
<1> QED
  BY <1>3 DEF T

\* Replay is its value at the set of all indices.
LEMMA ReplayFolds ==
    ASSUME NEW objs, NEW ids, NEW n \in Nat, DOMAIN ids = 1 .. n
    PROVE  \E g : Folding(g, n, objs, ids) /\ Replay(objs, ids) = g[1 .. n]
<1>1. \E g : Folding(g, n, objs, ids)
  BY FoldExists
<1> DEFINE G == CHOOSE g : Folding(g, n, objs, ids)
<1>2. Folding(G, n, objs, ids)
  BY <1>1
<1>3. Replay(objs, ids) = G[1 .. n]
  BY Zenon DEF Folding, Replay, FoldLeft, MapThenFoldSet
<1> HIDE DEF G
<1> QED
  BY <1>2, <1>3

\* Replaying operations over a document gives a document.
LEMMA ReplayType ==
    ASSUME NEW objs \in Objects, NEW ids \in Seq(Nat),
           \A k \in DOMAIN ids : ops[ids[k]].edit \in Edit
    PROVE  Replay(objs, ids) \in Objects
<1> DEFINE n == Len(ids)
<1>1. n \in Nat /\ DOMAIN ids = 1 .. n
  OBVIOUS
<1> HIDE DEF n
<1>2. PICK g : Folding(g, n, objs, ids) /\ Replay(objs, ids) = g[1 .. n]
  BY <1>1, ReplayFolds
<1> DEFINE T == {k \in Nat : k <= n => g[1 .. k] \in Objects}
<1>3. 0 \in T
  <2>1. 1 .. 0 = {} /\ {} \in SUBSET (1 .. n)
    OBVIOUS
  <2>2. g[{}] = objs
    BY <1>2, <2>1, Zenon DEF Folding
  <2> QED
    BY <2>1, <2>2
<1>4. ASSUME NEW k \in Nat, k \in T PROVE k + 1 \in T
  <2> SUFFICES ASSUME k + 1 <= n PROVE g[1 .. k + 1] \in Objects
    OBVIOUS
  <2>1. g[1 .. k] \in Objects /\ k + 1 \in 1 .. n
    BY <1>1, <1>4
  <2>2. 1 .. k + 1 \in SUBSET (1 .. n) /\ 1 .. k + 1 # {}
    BY <1>1
  <2>3. Max(1 .. k + 1) = k + 1
    BY MaxOfTop
  <2>4. (1 .. k + 1) \ {k + 1} = 1 .. k
    OBVIOUS
  <2>5. g[1 .. k + 1] = ApplyOp(g[1 .. k], ops[ids[k + 1]].edit)
    BY <1>2, <2>2, <2>3, <2>4, Zenon DEF Folding
  <2>6. ops[ids[k + 1]].edit \in Edit
    BY <1>1, <2>1
  <2> QED
    BY <2>1, <2>5, <2>6, ApplyOpType
<1>5. n \in T
  <2> HIDE DEF T
  <2>1. Nat \subseteq T
    BY <1>3, <1>4, SetInduction, Zenon
  <2> QED
    BY <1>1, <2>1
<1> QED
  BY <1>1, <1>2, <1>5

\* Every replica is a document.
Replicas == cdoc \in [Clients -> Objects]

\* The replicas of the others stay as they are.
LEMMA ReplicaFrame ==
    ASSUME Replicas, NEW c \in Clients, NEW objs \in Objects,
           \/ cdoc' = cdoc
           \/ cdoc' = [cdoc EXCEPT ![c] = objs]
    PROVE  Replicas'
BY DEF Replicas

\* No browser has received anything.
LEMMA ReplicaInit == Init => Replicas
<1> SUFFICES ASSUME Init PROVE Replicas
  OBVIOUS
<1>1. cdoc = [c \in Clients |-> NoObjects]
  BY DEF Init, InitWith
<1>2. NoObjects \in Objects
  BY DEF NoObjects, Objects
<1> QED
  BY <1>1, <1>2 DEF Replicas

\* Every action leaves every browser with a document.
LEMMA ReplicaStep ==
    TypeInv /\ SafeInv /\ OrderInv /\ Replicas /\ [Next]_vars => Replicas'
<1> SUFFICES ASSUME TypeInv, SafeInv, OrderInv, Replicas, [Next]_vars PROVE Replicas'
  OBVIOUS
<1>0. ServerTypeOK /\ ConnTypeOK /\ BrowserTypeOK /\ HistoryTypeOK /\ KnownIds
  BY DEF TypeInv, ProtocolTypeOK
<1> USE DEF browserVars
<1>a. ASSUME cdoc' = cdoc PROVE Replicas'
  BY <1>a DEF Replicas
<1>1. ASSUME NEW c \in Clients, NEW e \in EditsOf[c], Commit(c, e) PROVE Replicas'
  <2>1. e \in Edit /\ cdoc[c] \in Objects
    BY SyncAssumption DEF SyncAssumption, Replicas
  <2>2. ApplyOp(cdoc[c], e) \in Objects
    BY <2>1, ApplyOpType
  <2>3. cdoc' = [cdoc EXCEPT ![c] = ApplyOp(cdoc[c], e)]
    BY <1>1 DEF Commit
  <2> QED
    BY <2>2, <2>3, ReplicaFrame
<1>2. ASSUME NEW c \in Clients, ReceiveState(c) PROVE Replicas'
  <2> DEFINE objs == Head(down[sock[c]]).objs
  <2>1. Receives(c, "state") /\ cdoc' = [cdoc EXCEPT ![c] = Replay(objs, outbox[c])]
    BY <1>2 DEF ReceiveState
  <2>2. objs \in Objects
    <3>1. Head(down[sock[c]]) \in Envelopes /\ Head(down[sock[c]]).type = "state"
      BY <1>0, <2>1, ReceivesType
    <3> QED
      BY <3>1 DEF Envelopes
  <2>3. outbox[c] \in Seq(Nat) /\ \A k \in DOMAIN outbox[c] : ops[outbox[c][k]].edit \in Edit
    BY <1>0, OpsElement DEF BrowserTypeOK, KnownIds
  <2>4. Replay(objs, outbox[c]) \in Objects
    <3> HIDE DEF objs
    <3> QED
      BY <2>2, <2>3, ReplayType
  <2> QED
    BY <2>1, <2>4, ReplicaFrame
<1>3. ASSUME NEW c \in Clients, ReceiveOp(c) PROVE Replicas'
  <2> DEFINE msg == Head(down[sock[c]])
  <2>1. /\ Receives(c, "op")
        /\ cdoc' = cdoc \/ cdoc' = [cdoc EXCEPT ![c] = ApplyOp(cdoc[c], ops[msg.id].edit)]
    BY <1>3 DEF ReceiveOp
  <2>2. msg.id \in LogIds
    <3>1. msg.type = "op" /\ sock[c] \in Conns
      BY <1>0, <2>1, ReceivesType
    <3>2. 1 \in DOMAIN down[sock[c]] /\ msg = down[sock[c]][1]
      <4>1. down[sock[c]] \in Seq(Envelopes) /\ down[sock[c]] # <<>>
        BY <1>0, <2>1, <3>1 DEF ConnTypeOK, Receives
      <4> QED
        BY <4>1
    <3> QED
      BY <3>1, <3>2 DEF SafeInv, AnswersTrue, Holds
  <2>3. ops[msg.id].edit \in Edit
    BY <1>0, <2>2, OpsElement DEF OrderInv, LogKnown
  <2>4. ApplyOp(cdoc[c], ops[msg.id].edit) \in Objects
    <3>1. cdoc[c] \in Objects
      BY DEF Replicas
    <3> HIDE DEF msg
    <3> QED
      BY <2>3, <3>1, ApplyOpType
  <2> QED
    BY <2>1, <2>4, ReplicaFrame
<1>4. ASSUME NEW c \in Clients, NEW e \in LiveEditsOf[c], CommitLive(c, e) PROVE cdoc' = cdoc
  BY <1>4 DEF CommitLive
<1>5. ASSUME NEW c \in Clients, Connect(c) PROVE cdoc' = cdoc
  BY <1>5 DEF Connect
<1>6. ASSUME NEW n \in Conns, JoinRegister(n) PROVE cdoc' = cdoc
  BY <1>6 DEF JoinRegister
<1>7. ASSUME NEW s \in toState, CaptureState(s) PROVE cdoc' = cdoc
  BY <1>7 DEF CaptureState
<1>8. ASSUME NEW s \in captured, EnqueueState(s) PROVE cdoc' = cdoc
  BY <1>8 DEF EnqueueState
<1>9. ASSUME NEW n \in Conns, DialLost(n) PROVE cdoc' = cdoc
  BY <1>9 DEF DialLost
<1>10. ASSUME NEW n \in Conns, Handle(n) PROVE cdoc' = cdoc
  BY <1>10 DEF Handle, HandleDuplicate, HandleRejected, HandleApply
<1>11. ASSUME Broadcast PROVE cdoc' = cdoc
  BY <1>11 DEF Broadcast
<1>12. ASSUME NEW c \in Clients, ReceiveError(c) PROVE cdoc' = cdoc
  BY <1>12 DEF ReceiveError
<1>13. ASSUME NEW c \in Clients, Disconnect(c) PROVE cdoc' = cdoc
  BY <1>13 DEF Disconnect
<1>14. ASSUME NEW c \in Clients, Kicked(c) PROVE cdoc' = cdoc
  BY <1>14 DEF Kicked
<1>15. ASSUME NEW n \in Conns, ServerLeave(n) PROVE cdoc' = cdoc
  BY <1>15 DEF ServerLeave
<1>16. ASSUME Evict PROVE cdoc' = cdoc
  BY <1>16 DEF Evict
<1>17. ASSUME NEW edits \in Batches, AgentCall(edits) PROVE cdoc' = cdoc
  BY <1>17 DEF AgentCall
<1>18. ASSUME AgentApply PROVE cdoc' = cdoc
  BY <1>18 DEF AgentApply
<1>19. ASSUME AgentRecord PROVE cdoc' = cdoc
  BY <1>19 DEF AgentRecord
<1>20. ASSUME AgentBroadcast PROVE cdoc' = cdoc
  BY <1>20 DEF AgentBroadcast
<1>21. ASSUME RestoreSnapshot PROVE cdoc' = cdoc
  BY <1>21 DEF RestoreSnapshot
<1>22. ASSUME BroadcastState PROVE cdoc' = cdoc
  BY <1>22 DEF BroadcastState
<1>23. ASSUME UNCHANGED vars PROVE cdoc' = cdoc
  BY <1>23 DEF vars
<1> QED
  BY <1>a, <1>1, <1>2, <1>3, <1>4, <1>5, <1>6, <1>7, <1>8, <1>9, <1>10, <1>11, <1>12,
     <1>13, <1>14, <1>15, <1>16, <1>17, <1>18, <1>19, <1>20, <1>21, <1>22, <1>23
  DEF Next, BrowserStep, ServerStep, CallStep, Receive

\* Types: every value the program's variables take is of its type, the documents
\* the browsers show after replaying their outboxes included.
THEOREM ReplicasTyped == Spec => []TypeOK
<1>1. Init => TypeInv /\ SafeInv /\ AckInv /\ OrderInv /\ Replicas
  BY TypeInit, SafeInit, AckInit, OrderInit, ReplicaInit
<1>2. TypeInv /\ SafeInv /\ AckInv /\ OrderInv /\ Replicas /\ [Next]_vars
         => TypeInv' /\ SafeInv' /\ AckInv' /\ OrderInv' /\ Replicas'
  BY TypeStep, SafeStep, AckStep, OrderStep, ReplicaStep
<1>3. TypeInv /\ Replicas => TypeOK
  BY DEF TypeInv, Replicas, TypeOK
<1> QED
  BY <1>1, <1>2, <1>3, PTL DEF Spec

-----------------------------------------------------------------------------
(* Hypotheses about the edits. *)

Actors == Clients \cup {Agent}
AllEdits == UNION {EditsOf[p] : p \in Actors}

\* Nobody streams what it drags: a browser does not apply its own streamed edits.
NoStreaming == \A c \in Clients : LiveEditsOf[c] = {}

\* The server has a case for every field that is edited (cornerRadius it refuses).
KnownFields == \A e \in AllEdits : e.type = "update" => e.path \in ServerPaths

\* V gives the document after a set of edits, in any order and with repetitions.
Determines(V) ==
    /\ V[{}] = InitDoc
    /\ \A S \in SUBSET AllEdits : \A e \in AllEdits : ApplyOp(V[S], e) = V[S \cup {e}]

OrderFree == \E V : Determines(V)

\* What is left to say of a browser that has received everything: it is connected
\* and neither side has anything more for the other.
Settled(c) ==
    LET n == sock[c] IN
    /\ synced[c] /\ n \in Listening /\ ~Pending(n)
    /\ outbox[c] = <<>> /\ down[n] = <<>>
    /\ loop = Idle /\ agent = NoCall

\* Every browser that has received everything shows the document of the server,
\* whatever the other browsers still have to receive.
SettledConverged == \A c \in Clients : Settled(c) => cdoc[c] = doc

\* It is more than Converged, which waits for all of them.
LEMMA SettledSuffices == SettledConverged => Converged
BY DEF SettledConverged, Settled, Converged, Quiet, Pending, Listening

-----------------------------------------------------------------------------
(* Sessions in progress satisfy the invariants of BoardSyncProofs and         *)
(* SessionProofs, as the server that has just been started does.              *)

\* Both initial states satisfy them; this is the one with sessions in progress.
LEMMA SteadyInit == InitSteady => SafeInv /\ AckInv /\ OrderInv
<1> SUFFICES ASSUME InitWith(Clients) PROVE SafeInv /\ AckInv /\ OrderInv
  BY DEF InitSteady
<1>1. /\ clients = [c \in Clients |-> FirstConn(c)] /\ sock = clients
      /\ \A c \in Clients : outbox[c] = <<>>
      /\ \A n \in Conns : /\ stage[n] = IF n \in {FirstConn(c) : c \in Clients}
                                        THEN "joined" ELSE "idle"
                          /\ closed[n] <=> n \notin {FirstConn(c) : c \in Clients}
                          /\ up[n] = <<>> /\ down[n] = <<>>
      /\ opOrder = <<>> /\ agent = NoCall /\ loop = Idle /\ ops = <<>> /\ log = <<>>
  BY DEF InitWith
<1>2. \A c \in Clients : FirstConn(c) \in Conns /\ Owner(FirstConn(c)) = c
  <2>1. (CHOOSE s \in Slots : TRUE) \in Slots
    BY SyncAssumption DEF SyncAssumption
  <2> QED
    BY <2>1 DEF FirstConn, Conns, Owner
<1>3. \A c \in Clients : Committed(c) = {}
  BY <1>1 DEF Committed, OpIds
<1>4. AnswersTrue /\ NoLostCommit
  BY <1>1, <1>3, EmptySet DEF AnswersTrue, NoLostCommit, NoCall
<1>5. ConnInv
  <2>1. PlacesTaken
    BY <1>1, <1>2 DEF PlacesTaken
  <2>2. OpenInPlace
    BY <1>1, <1>2 DEF OpenInPlace
  <2>3. \A c \in Clients : sock[c] = FirstConn(c) /\ stage[sock[c]] = "joined"
    BY <1>1, <1>2
  <2>4. \A c \in Clients : sock[c] # NoConn
    BY <1>2, <2>3, SyncAssumption DEF SyncAssumption
  <2>5. SocketsOwn
    BY <1>2, <2>3, <2>4 DEF SocketsOwn
  <2> QED
    BY <2>1, <2>2, <2>5 DEF ConnInv
<1>6. OutboxesOrdered /\ AckComing
  BY <1>1, EmptySet DEF OutboxesOrdered, Ordered, AckComing
<1>7. OutboxesOwn /\ UpByBrowsers /\ Sent
  BY <1>1, EmptySet DEF OutboxesOwn, UpByBrowsers, Sent
<1>8. LogKnown /\ CommitOrder
  BY <1>1 DEF LogKnown, LogIds, CommitOrder
<1>9. UpOrder
  BY <1>1 DEF UpOrder, InOrder
<1> QED
  BY <1>4, <1>5, <1>6, <1>7, <1>8, <1>9 DEF SafeInv, AckInv, OrderInv

-----------------------------------------------------------------------------
(* Which edits there are. *)

\* The operations that have been made and those a call of Apply has still to make
\* are what their authors may do, and nothing is streamed.
EditsMade ==
    /\ \A i \in OpIds : ops[i].edit \in EditsOf[ops[i].by]
    /\ \A j \in DOMAIN agent.edits : agent.edits[j] \in EditsOf[Agent]
    /\ \A c \in Clients : live[c] = {}
    /\ rejected \subseteq OpIds

\* One operation more, of an edit its author may make.
LEMMA OneMore ==
    ASSUME HistoryTypeOK, EditsMade, NEW p \in Actors, NEW e \in EditsOf[p], NEW l \in BOOLEAN,
           ops' = Append(ops, [by |-> p, edit |-> e, live |-> l])
    PROVE  /\ \A i \in OpIds' : ops'[i].edit \in EditsOf[ops'[i].by]
           /\ OpIds' = OpIds \cup {Len(ops) + 1} /\ Len(ops) + 1 \notin OpIds
           /\ \A i \in OpIds : ops'[i] = ops[i]
           /\ ops'[Len(ops) + 1] = [by |-> p, edit |-> e, live |-> l]
<1> DEFINE r == [by |-> p, edit |-> e, live |-> l]
<1>1. e \in Edit
  BY SyncAssumption DEF SyncAssumption, Actors
<1>2. r \in OpRecord /\ ops \in Seq(OpRecord)
  BY <1>1 DEF OpRecord, HistoryTypeOK, Actors
<1>3. ops' = Append(ops, r) /\ r.by = p /\ r.edit = e
  OBVIOUS
<1> HIDE DEF r
<1>4. /\ Len(ops') = Len(ops) + 1 /\ Len(ops) \in Nat
      /\ \A j \in 1 .. Len(ops) : ops'[j] = ops[j]
      /\ ops'[Len(ops) + 1] = r
  BY <1>2, <1>3, Grown
<1>5. 1 .. Len(ops) + 1 = 1 .. Len(ops) \cup {Len(ops) + 1} /\ Len(ops) + 1 \notin 1 .. Len(ops)
  BY <1>4
<1>6. OpIds' = OpIds \cup {Len(ops) + 1} /\ Len(ops) + 1 \notin OpIds
  BY <1>4, <1>5 DEF OpIds
<1>7. \A i \in OpIds : ops'[i] = ops[i]
  BY <1>4 DEF OpIds
<1>8. \A i \in OpIds' : ops'[i].edit \in EditsOf[ops'[i].by]
  BY <1>3, <1>4, <1>6, <1>7 DEF EditsMade
<1> QED
  BY <1>4, <1>6, <1>7, <1>8 DEF r

\* Nothing has been made.
LEMMA MadeInit == Init \/ InitSteady => EditsMade
BY DEF Init, InitSteady, InitWith, EditsMade, OpIds, NoCall

\* Every action keeps it: operations are made in three places.
LEMMA MadeStep ==
    ASSUME NoStreaming, TypeInv, EditsMade, [Next]_vars
    PROVE  EditsMade'
<1> USE DEF serverVars, connVars, sendVars, callVars, browserVars, logVars, boundVars
<1>0. /\ ConnTypeOK /\ BrowserTypeOK /\ CallTypeOK /\ HistoryTypeOK /\ KnownIds
  BY DEF TypeInv, ProtocolTypeOK
<1>a. ASSUME UNCHANGED <<ops, agent, live, rejected>> PROVE EditsMade'
  <2>1. OpIds' = OpIds
    BY <1>a DEF OpIds
  <2> QED
    BY <1>a, <2>1 DEF EditsMade
<1>b. ASSUME UNCHANGED <<ops, agent, rejected>>, NEW c \in Clients,
             live' = [live EXCEPT ![c] = {}] \/ \E id : live' = [live EXCEPT ![c] = @ \ {id}]
      PROVE  EditsMade'
  <2>1. OpIds' = OpIds
    BY <1>b DEF OpIds
  <2>2. live \in [Clients -> SUBSET Nat] /\ \A d \in Clients : live[d] = {}
    BY <1>0 DEF BrowserTypeOK, EditsMade
  <2>3. \A d \in Clients : live'[d] = {}
    BY <1>b, <2>2
  <2> QED
    BY <1>b, <2>1, <2>3 DEF EditsMade
<1>1. ASSUME NEW c \in Clients, NEW e \in EditsOf[c], Commit(c, e) PROVE EditsMade'
  <2>1. /\ ops' = Append(ops, [by |-> c, edit |-> e, live |-> FALSE])
        /\ UNCHANGED <<agent, live, rejected>>
    BY <1>1 DEF Commit
  <2>2. c \in Actors /\ FALSE \in BOOLEAN
    BY DEF Actors
  <2>3. (\A i \in OpIds' : ops'[i].edit \in EditsOf[ops'[i].by]) /\ OpIds \subseteq OpIds'
    BY <1>0, <2>1, <2>2, OneMore
  <2> QED
    BY <2>1, <2>3 DEF EditsMade
<1>2. ASSUME AgentApply PROVE EditsMade'
  <2> DEFINE e == Head(agent.edits)
  <2>1. /\ ops' = Append(ops, [by |-> Agent, edit |-> e, live |-> FALSE])
        /\ agent' = NoCall \/ agent'.edits = Tail(agent.edits)
        /\ agent.pc = "applying" /\ UNCHANGED <<live, rejected>>
    <3>1. CASE Rejects(doc, e)
      BY <1>2, <3>1 DEF AgentApply
    <3>2. CASE ~Rejects(doc, e)
      BY <1>0, <1>2, <3>2 DEF AgentApply, CallTypeOK
    <3> QED
      BY <1>2, <3>1, <3>2 DEF AgentApply
  <2>2. agent.edits \in Seq(Edit) /\ agent.edits # <<>>
    BY <1>0, <2>1 DEF CallTypeOK
  <2>3. /\ 1 \in DOMAIN agent.edits /\ e = agent.edits[1]
        /\ \A j \in DOMAIN Tail(agent.edits) : j + 1 \in DOMAIN agent.edits
                                             /\ Tail(agent.edits)[j] = agent.edits[j + 1]
    BY <2>2
  <2>4. e \in EditsOf[Agent] /\ Agent \in Actors /\ FALSE \in BOOLEAN
    BY <2>3 DEF EditsMade, Actors
  <2>5. \A j \in DOMAIN agent'.edits : agent'.edits[j] \in EditsOf[Agent]
    <3>1. CASE agent' = NoCall
      BY <3>1 DEF NoCall
    <3>2. CASE agent'.edits = Tail(agent.edits)
      BY <2>3, <3>2 DEF EditsMade
    <3> QED
      BY <2>1, <3>1, <3>2
  <2> HIDE DEF e
  <2>6. (\A i \in OpIds' : ops'[i].edit \in EditsOf[ops'[i].by]) /\ OpIds \subseteq OpIds'
    BY <1>0, <2>1, <2>4, OneMore
  <2> QED
    BY <2>1, <2>5, <2>6 DEF EditsMade
<1>3. ASSUME NEW edits \in Batches, AgentCall(edits) PROVE EditsMade'
  <2>1. agent'.edits = edits /\ UNCHANGED <<ops, live, rejected>>
    BY <1>3 DEF AgentCall
  <2>2. \A j \in DOMAIN edits : edits[j] \in EditsOf[Agent]
    BY DEF Batches
  <2> QED
    BY <2>1, <2>2 DEF EditsMade, OpIds
<1>4. ASSUME AgentRecord \/ AgentBroadcast \/ Evict PROVE EditsMade'
  <2>1. agent' = NoCall \/ agent'.edits = agent.edits
    BY <1>0, <1>4 DEF AgentRecord, AgentBroadcast, Evict, CallTypeOK
  <2>2. UNCHANGED <<ops, live, rejected>>
    BY <1>4 DEF AgentRecord, AgentBroadcast, Evict
  <2>3. \A j \in DOMAIN agent'.edits : agent'.edits[j] \in EditsOf[Agent]
    BY <2>1 DEF NoCall, EditsMade
  <2> QED
    BY <2>2, <2>3 DEF EditsMade, OpIds
<1>5. ASSUME NEW n \in Conns, HandleRejected(n) PROVE EditsMade'
  <2>1. UNCHANGED <<ops, agent, live>> /\ rejected' = rejected \cup {Head(up[n])} /\ Takes(n)
    BY <1>5 DEF HandleRejected
  <2>2. Head(up[n]) \in OpIds
    BY <1>0, <2>1, TakesType
  <2> QED
    BY <2>1, <2>2 DEF EditsMade, OpIds
<1>6. ASSUME NEW c \in Clients, ReceiveState(c) \/ ReceiveError(c) \/ Disconnect(c) \/ Kicked(c)
      PROVE  EditsMade'
  <2>1. /\ UNCHANGED <<ops, agent, rejected>>
        /\ live' = [live EXCEPT ![c] = {}] \/ \E id : live' = [live EXCEPT ![c] = @ \ {id}]
    BY <1>6 DEF ReceiveState, ReceiveError, Disconnect, Kicked, Detach
  <2> QED
    BY <1>b, <2>1
<1>7. ASSUME NEW c \in Clients, ReceiveOp(c) PROVE EditsMade'
  <2>1. UNCHANGED <<ops, agent, rejected>>
        /\ live' = [live EXCEPT ![c] = IF Head(down[sock[c]]).id \in ToSet(outbox[c]) THEN @
                                       ELSE @ \ {Head(down[sock[c]]).id}]
    BY <1>7 DEF ReceiveOp
  <2>2. live \in [Clients -> SUBSET Nat] /\ \A d \in Clients : live[d] = {}
    BY <1>0 DEF BrowserTypeOK, EditsMade
  <2>3. \A d \in Clients : live'[d] = {}
    BY <2>1, <2>2
  <2> QED
    BY <2>1, <2>3 DEF EditsMade, OpIds
<1>8. ASSUME NEW c \in Clients, NEW e \in LiveEditsOf[c] PROVE FALSE
  BY DEF NoStreaming
<1>9. ASSUME NEW c \in Clients, Connect(c) PROVE EditsMade'
  BY <1>9, <1>a DEF Connect
<1>10. ASSUME NEW n \in Conns, JoinRegister(n) \/ DialLost(n) \/ ServerLeave(n) PROVE EditsMade'
  BY <1>10, <1>a DEF JoinRegister, DialLost, ServerLeave
<1>11. ASSUME NEW n \in Conns, HandleDuplicate(n) \/ HandleApply(n) PROVE EditsMade'
  BY <1>11, <1>a DEF HandleDuplicate, HandleApply
<1>12. ASSUME NEW s, CaptureState(s) \/ EnqueueState(s) PROVE EditsMade'
  BY <1>12, <1>a DEF CaptureState, EnqueueState
<1>13. ASSUME Broadcast \/ RestoreSnapshot \/ BroadcastState PROVE EditsMade'
  BY <1>13, <1>a DEF Broadcast, RestoreSnapshot, BroadcastState
<1>14. ASSUME UNCHANGED vars PROVE EditsMade'
  BY <1>14, <1>a DEF vars
<1> QED
  BY <1>1, <1>2, <1>3, <1>4, <1>5, <1>6, <1>7, <1>8, <1>9, <1>10, <1>11, <1>12, <1>13, <1>14
  DEF Next, BrowserStep, ServerStep, CallStep, Receive, Handle

-----------------------------------------------------------------------------
(* The server: its document, and the copies it sends. *)

\* The edits of a set of operations.
EditsIn(o, ids) == {o[i].edit : i \in ids}

\* The server's document is the one of the edits it has applied, and those it has
\* refused would not change it.
ServerShows(V) == \A R \in SUBSET rejected : doc = V[EditsIn(ops, LogIds \cup R)]

\* A copy of the document is the one of the operations it is said to hold.
IsCopy(V, o, applied, x) == x.upto \subseteq applied /\ x.objs = V[EditsIn(o, x.upto)]

CopiesShow(V) ==
    /\ \A s \in captured : IsCopy(V, ops, LogIds, s)
    /\ \A n \in Conns : \A k \in DOMAIN down[n] : down[n][k].type = "state" => IsCopy(V, ops, LogIds, down[n][k])

\* One operation more.
LEMMA EditsAdd ==
    ASSUME NEW V, Determines(V), NEW o, NEW X, NEW i,
           o[i].edit \in AllEdits, \A j \in X : o[j].edit \in AllEdits
    PROVE  V[EditsIn(o, X \cup {i})] = ApplyOp(V[EditsIn(o, X)], o[i].edit)
<1>1. EditsIn(o, X \cup {i}) = EditsIn(o, X) \cup {o[i].edit}
  BY DEF EditsIn
<1>2. EditsIn(o, X) \in SUBSET AllEdits
  BY DEF EditsIn
<1> QED
  BY <1>1, <1>2 DEF Determines

\* The operations that were made stay what they were.
LEMMA EditsStay ==
    ASSUME NEW o, NEW o2, NEW X, \A i \in X : o2[i] = o[i]
    PROVE  EditsIn(o2, X) = EditsIn(o, X)
BY DEF EditsIn

\* The operations applied and refused are operations.
LEMMA KnownEdits ==
    ASSUME HistoryTypeOK, EditsMade
    PROVE  /\ \A i \in OpIds : ops[i].edit \in AllEdits /\ ops[i].edit \in Edit
           /\ rejected \subseteq OpIds
<1>1. \A i \in OpIds : ops[i].by \in Actors /\ ops[i].edit \in Edit
  BY OpsElement DEF Actors
<1> QED
  BY <1>1 DEF EditsMade, AllEdits

\* What the server does with an edit of a field it knows is what a browser does.
LEMMA OneOutcome ==
    ASSUME KnownFields, doc \in Objects, NEW e \in AllEdits
    PROVE  ApplyOp(doc, e) = IF Rejects(doc, e) THEN doc ELSE Apply(doc, e)
<1>1. e \in Edit
  BY SyncAssumption DEF SyncAssumption, AllEdits, Actors
<1> QED
  BY <1>1, EditsAgree DEF KnownFields

\* Nothing is applied or refused.
LEMMA ServerStays ==
    ASSUME NEW V, ServerShows(V), HistoryTypeOK, EditsMade, LogKnown, UNCHANGED <<doc, log, rejected>>,
           \A i \in OpIds : ops'[i] = ops[i]
    PROVE  ServerShows(V)'
<1>1. LogIds' = LogIds
  BY DEF LogIds
<1>2. ASSUME NEW R \in SUBSET rejected PROVE doc' = V[EditsIn(ops', LogIds \cup R)]
  <2>1. \A i \in LogIds \cup R : ops'[i] = ops[i]
    BY KnownEdits DEF LogKnown
  <2>2. EditsIn(ops', LogIds \cup R) = EditsIn(ops, LogIds \cup R)
    BY <2>1, EditsStay
  <2> QED
    BY <2>2 DEF ServerShows
<1> QED
  BY <1>1, <1>2 DEF ServerShows

\* An operation is applied.
LEMMA ServerApplies ==
    ASSUME NEW V, Determines(V), KnownFields, ServerShows(V), HistoryTypeOK, EditsMade, LogKnown,
           doc \in Objects, NEW e \in AllEdits, ~Rejects(doc, e), doc' = Apply(doc, e),
           \A i \in OpIds : ops'[i] = ops[i],
           NEW id, LogIds' = LogIds \cup {id}, ops'[id].edit = e, rejected' = rejected
    PROVE  ServerShows(V)'
<1> SUFFICES ASSUME NEW R \in SUBSET rejected
             PROVE  doc' = V[EditsIn(ops', (LogIds \cup {id}) \cup R)]
  BY DEF ServerShows
<1> DEFINE X == LogIds \cup R
<1>1. X \subseteq OpIds
  BY KnownEdits DEF LogKnown
<1>2. \A i \in X : ops'[i].edit \in AllEdits
  BY <1>1, KnownEdits
<1>3. (LogIds \cup {id}) \cup R = X \cup {id}
  OBVIOUS
<1>4. EditsIn(ops', X) = EditsIn(ops, X)
  BY <1>1, EditsStay
<1>5. doc = V[EditsIn(ops, X)]
  BY DEF ServerShows
<1> HIDE DEF X
<1>6. V[EditsIn(ops', X \cup {id})] = ApplyOp(V[EditsIn(ops', X)], e)
  BY <1>2, EditsAdd
<1> QED
  BY <1>3, <1>4, <1>5, <1>6, OneOutcome

\* An operation is refused: it would not have changed the document.
LEMMA ServerRefuses ==
    ASSUME NEW V, Determines(V), KnownFields, ServerShows(V), HistoryTypeOK, EditsMade, LogKnown,
           doc \in Objects, UNCHANGED <<doc, log, ops>>,
           NEW id \in OpIds, Rejects(doc, ops[id].edit), rejected' = rejected \cup {id}
    PROVE  ServerShows(V)'
<1>1. LogIds' = LogIds
  BY DEF LogIds
<1> SUFFICES ASSUME NEW R \in SUBSET (rejected \cup {id})
             PROVE  doc = V[EditsIn(ops, LogIds \cup R)]
  BY <1>1 DEF ServerShows
<1>2. CASE id \notin R
  BY <1>2 DEF ServerShows
<1>3. CASE id \in R
  <2> DEFINE X == LogIds \cup (R \ {id})
  <2>1. R \ {id} \in SUBSET rejected
    OBVIOUS
  <2>2. doc = V[EditsIn(ops, X)]
    BY <2>1 DEF ServerShows
  <2>3. LogIds \cup R = X \cup {id}
    BY <1>3
  <2>4. \A i \in X : ops[i].edit \in AllEdits
    BY <2>1, KnownEdits DEF LogKnown
  <2>5. ops[id].edit \in AllEdits
    BY KnownEdits
  <2> HIDE DEF X
  <2>6. V[EditsIn(ops, X \cup {id})] = ApplyOp(doc, ops[id].edit)
    BY <2>2, <2>4, <2>5, EditsAdd
  <2> QED
    BY <2>3, <2>5, <2>6, OneOutcome
<1> QED
  BY <1>2, <1>3

\* Copies stay copies while more is applied.
LEMMA CopyStays ==
    ASSUME NEW V, NEW x, IsCopy(V, ops, LogIds, x), LogKnown, LogIds \subseteq LogIds',
           \A i \in OpIds : ops'[i] = ops[i]
    PROVE  IsCopy(V, ops', LogIds', x)
<1>1. x.upto \subseteq OpIds
  BY DEF IsCopy, LogKnown
<1>2. EditsIn(ops', x.upto) = EditsIn(ops, x.upto)
  BY <1>1, EditsStay
<1> QED
  BY <1>2 DEF IsCopy

-----------------------------------------------------------------------------
(* The queues: what a browser has been told is in the last copy queued for it *)
(* or behind that copy.                                                       *)

\* There is a copy of operation i behind position q, and no document.
Tells(d, q, i) == \E j \in DOMAIN d : j > q /\ d[j].type = "op" /\ d[j].id = i
Copyless(d, q) == \A j \in DOMAIN d : j > q => d[j].type # "state"

Follows(d, told) == \A q \in DOMAIN d :
    d[q].type = "state" /\ Copyless(d, q) => \A i \in told : i \in d[q].upto \/ Tells(d, q, i)

\* A browser that has K already, and that no document awaits, gets all it was told.
Reaches(d, told, K) == Copyless(d, 0) => \A i \in told : i \in K \/ Tells(d, 0, i)

QueuesFollow == \A n \in Conns : Follows(down[n], covered[n])

\* The elements of a queue with one more, and with one less.
LEMMA AppendAt ==
    ASSUME NEW S, NEW d \in Seq(S), NEW m \in S
    PROVE  /\ DOMAIN Append(d, m) = DOMAIN d \cup {Len(d) + 1}
           /\ \A j \in DOMAIN d : j \in Nat /\ j > 0 /\ j < Len(d) + 1 /\ Append(d, m)[j] = d[j]
           /\ Append(d, m)[Len(d) + 1] = m /\ Len(d) + 1 > 0 /\ Len(d) \in Nat
<1>1. /\ Append(d, m) \in Seq(S) /\ Len(Append(d, m)) = Len(d) + 1 /\ Len(d) \in Nat
      /\ \A j \in 1 .. Len(d) : Append(d, m)[j] = d[j]
      /\ Append(d, m)[Len(d) + 1] = m
  BY AppendProperties, LenProperties
<1>2. DOMAIN d = 1 .. Len(d) /\ DOMAIN Append(d, m) = 1 .. Len(d) + 1
  BY <1>1, LenProperties
<1> QED
  BY <1>1, <1>2

\* Where the messages are once the first one has been received.
LEMMA TailAt ==
    ASSUME NEW S, NEW d \in Seq(S), d # <<>>
    PROVE  /\ Head(d) = d[1] /\ 1 \in DOMAIN d
           /\ \A j \in DOMAIN d : j \in Nat
           /\ \A j \in DOMAIN Tail(d) : j \in Nat /\ j > 0 /\ j + 1 \in DOMAIN d /\ Tail(d)[j] = d[j + 1]
           /\ \A j \in DOMAIN d : j > 1 => j - 1 \in DOMAIN Tail(d) /\ Tail(d)[j - 1] = d[j]
<1>1. /\ Tail(d) \in Seq(S) /\ Len(Tail(d)) = Len(d) - 1
      /\ \A i \in 1 .. Len(Tail(d)) : Tail(d)[i] = d[i + 1]
  BY HeadTailProperties
<1>2. Head(d) = d[1] /\ Len(d) \in Nat \ {0} /\ DOMAIN d = 1 .. Len(d)
  BY EmptySeq, LenProperties
<1>3. DOMAIN Tail(d) = 1 .. Len(d) - 1
  BY <1>1, LenProperties
<1>4. \A j \in DOMAIN Tail(d) : j \in Nat /\ j > 0 /\ j + 1 \in DOMAIN d /\ Tail(d)[j] = d[j + 1]
  BY <1>1, <1>2, <1>3
<1>5. \A j \in DOMAIN d : j > 1 => j - 1 \in DOMAIN Tail(d) /\ j = (j - 1) + 1
  BY <1>2, <1>3
<1> QED
  BY <1>2, <1>4, <1>5

\* What a delivery does to a connection: nothing, or it queues the envelope.
LEMMA DeliverTells ==
    ASSUME NEW targets \in SUBSET Conns, NEW msg \in Envelopes, Deliver(targets, msg),
           NEW n \in Conns
    PROVE  \/ down'[n] = down[n] /\ covered'[n] = covered[n]
           \/ /\ n \in targets /\ down'[n] = Append(down[n], msg)
              /\ msg.type = "op" => covered'[n] = covered[n] \cup {msg.id}
              /\ msg.type = "error" => covered'[n] = covered[n]
              /\ msg.type = "state" => covered'[n] = msg.upto
<1>1. PICK full \in SUBSET {m \in targets : Len(down[m]) >= SendBuffer} :
        /\ down' = [m \in Conns |->
                      IF m \in targets \ full THEN Append(down[m], msg) ELSE down[m]]
        /\ covered' = [m \in Conns |->
              IF m \notin targets \ full THEN covered[m]
              ELSE CASE msg.type = "state" -> msg.upto
                     [] msg.type = "op" -> covered[m] \cup {msg.id}
                     [] msg.type = "error" -> covered[m]]
  BY DEF Deliver
<1>2. covered'[n] = IF n \notin targets \ full THEN covered[n]
                    ELSE CASE msg.type = "state" -> msg.upto
                           [] msg.type = "op" -> covered[n] \cup {msg.id}
                           [] msg.type = "error" -> covered[n]
  BY <1>1, Zenon
<1>3. CASE n \notin targets \ full
  BY <1>1, <1>2, <1>3
<1>4. CASE n \in targets \ full
  <2>1. down'[n] = Append(down[n], msg) /\ n \in targets
    BY <1>1, <1>4
  <2>2. covered'[n] = CASE msg.type = "state" -> msg.upto
                        [] msg.type = "op" -> covered[n] \cup {msg.id}
                        [] msg.type = "error" -> covered[n]
    BY <1>2, <1>4, Zenon
  <2>3. msg.type = "op" => covered'[n] = covered[n] \cup {msg.id}
    BY <2>2
  <2>4. msg.type = "error" => covered'[n] = covered[n]
    BY <2>2
  <2>5. msg.type = "state" => covered'[n] = msg.upto
    BY <2>2
  <2> QED
    BY <2>1, <2>3, <2>4, <2>5
<1> QED
  BY <1>3, <1>4

\* An envelope more, and the client told of it.
LEMMA FollowsAppend ==
    ASSUME NEW d \in Seq(Envelopes), NEW msg \in Envelopes, NEW told, NEW told2,
           msg.type = "op" => told2 = told \cup {msg.id},
           msg.type = "error" => told2 = told,
           msg.type = "state" => told2 = msg.upto
    PROVE  /\ Follows(d, told) => Follows(Append(d, msg), told2)
           /\ \A K : Reaches(d, told, K) => Reaches(Append(d, msg), told2, K)
<1> DEFINE e == Append(d, msg)
           last == Len(d) + 1
<1>1. /\ DOMAIN e = DOMAIN d \cup {last}
      /\ \A j \in DOMAIN d : j \in Nat /\ j > 0 /\ j < last /\ e[j] = d[j]
      /\ e[last] = msg /\ last > 0 /\ last \in Nat
  BY AppendAt
<1> HIDE DEF e, last
<1>2. msg.type \in {"state", "op", "error"}
  BY DEF Envelopes
<1>3. ASSUME NEW q \in Nat, q < last, Copyless(e, q)
      PROVE  /\ msg.type # "state" /\ Copyless(d, q)
             /\ \A i : Tells(d, q, i) => Tells(e, q, i)
             /\ \A i \in told2 : i \in told \/ Tells(e, q, i)
  <2>1. msg.type # "state" /\ Copyless(d, q)
    BY <1>1, <1>3 DEF Copyless
  <2>2. \A i : Tells(d, q, i) => Tells(e, q, i)
    BY <1>1 DEF Tells
  <2>3. msg.type = "op" => Tells(e, q, msg.id)
    BY <1>1, <1>3 DEF Tells
  <2> QED
    BY <1>2, <2>1, <2>2, <2>3
<1>4. ASSUME Follows(d, told) PROVE Follows(e, told2)
  <2> SUFFICES ASSUME NEW q \in DOMAIN e, e[q].type = "state", Copyless(e, q), NEW i \in told2
               PROVE  i \in e[q].upto \/ Tells(e, q, i)
    BY DEF Follows
  <2>1. CASE q = last
    BY <1>1, <2>1
  <2>2. CASE q \in DOMAIN d
    <3>1. q \in Nat /\ q < last /\ d[q] = e[q]
      BY <1>1, <2>2
    <3>2. Copyless(d, q) /\ (i \in told \/ Tells(e, q, i))
      BY <1>3, <3>1
    <3>3. i \in told => i \in d[q].upto \/ Tells(d, q, i)
      BY <1>4, <2>2, <3>1, <3>2 DEF Follows
    <3> QED
      BY <1>3, <3>1, <3>2, <3>3
  <2> QED
    BY <1>1, <2>1, <2>2
<1>5. ASSUME NEW K, Reaches(d, told, K) PROVE Reaches(e, told2, K)
  <2> SUFFICES ASSUME Copyless(e, 0), NEW i \in told2 PROVE i \in K \/ Tells(e, 0, i)
    BY DEF Reaches
  <2>1. 0 \in Nat /\ 0 < last
    BY <1>1
  <2>2. Copyless(d, 0) /\ (i \in told \/ Tells(e, 0, i)) /\ (Tells(d, 0, i) => Tells(e, 0, i))
    BY <1>3, <2>1
  <2> QED
    BY <1>5, <2>2 DEF Reaches
<1> QED
  BY <1>4, <1>5 DEF e

\* An envelope less: the browser has what was in it.
LEMMA FollowsTail ==
    ASSUME NEW d \in Seq(Envelopes), d # <<>>, NEW told
    PROVE  /\ Follows(d, told) => Follows(Tail(d), told)
           /\ \A K : Follows(d, told) /\ Head(d).type = "state" /\ Head(d).upto \subseteq K
                        => Reaches(Tail(d), told, K)
           /\ \A K, L : /\ Reaches(d, told, K) /\ Head(d).type # "state" /\ K \subseteq L
                        /\ Head(d).type = "op" => Head(d).id \in L
                        => Reaches(Tail(d), told, L)
<1> DEFINE e == Tail(d)
<1>1. /\ Head(d) = d[1] /\ 1 \in DOMAIN d
      /\ \A j \in DOMAIN d : j \in Nat
      /\ \A j \in DOMAIN e : j \in Nat /\ j > 0 /\ j + 1 \in DOMAIN d /\ e[j] = d[j + 1]
      /\ \A j \in DOMAIN d : j > 1 => j - 1 \in DOMAIN e /\ e[j - 1] = d[j]
  BY TailAt
<1> HIDE DEF e
<1>2. ASSUME NEW q \in Nat
      PROVE  /\ Copyless(e, q) => Copyless(d, q + 1)
             /\ \A i : Tells(d, q + 1, i) => Tells(e, q, i)
  <2>1. \A j \in DOMAIN d : j > q + 1 => j > 1 /\ j - 1 > q
    BY <1>1
  <2> QED
    BY <1>1, <2>1 DEF Copyless, Tells
<1>3. ASSUME Follows(d, told) PROVE Follows(e, told)
  <2> SUFFICES ASSUME NEW q \in DOMAIN e, e[q].type = "state", Copyless(e, q), NEW i \in told
               PROVE  i \in e[q].upto \/ Tells(e, q, i)
    BY DEF Follows
  <2>1. q \in Nat /\ q + 1 \in DOMAIN d /\ e[q] = d[q + 1]
    BY <1>1
  <2>2. i \in d[q + 1].upto \/ Tells(d, q + 1, i)
    BY <1>2, <1>3, <2>1 DEF Follows
  <2> QED
    BY <1>2, <2>1, <2>2
<1>4. ASSUME NEW K, Follows(d, told), Head(d).type = "state", Head(d).upto \subseteq K
      PROVE  Reaches(e, told, K)
  <2> SUFFICES ASSUME Copyless(e, 0), NEW i \in told PROVE i \in K \/ Tells(e, 0, i)
    BY DEF Reaches
  <2>1. Copyless(d, 1) /\ (Tells(d, 1, i) => Tells(e, 0, i))
    BY <1>2
  <2>2. i \in d[1].upto \/ Tells(d, 1, i)
    BY <1>1, <1>4, <2>1 DEF Follows
  <2> QED
    BY <1>1, <1>4, <2>1, <2>2
<1>5. ASSUME NEW K, NEW L, Reaches(d, told, K), Head(d).type # "state", K \subseteq L,
             Head(d).type = "op" => Head(d).id \in L
      PROVE  Reaches(e, told, L)
  <2> SUFFICES ASSUME Copyless(e, 0), NEW i \in told PROVE i \in L \/ Tells(e, 0, i)
    BY DEF Reaches
  <2>1. Copyless(d, 1) /\ (Tells(d, 1, i) => Tells(e, 0, i))
    BY <1>2
  <2>2. Copyless(d, 0)
    BY <1>1, <1>5, <2>1 DEF Copyless
  <2>3. i \in K \/ Tells(d, 0, i)
    BY <1>5, <2>2 DEF Reaches
  <2>4. Tells(d, 0, i) => Tells(d, 1, i) \/ i \in L
    BY <1>1, <1>5 DEF Tells
  <2> QED
    BY <1>5, <2>1, <2>3, <2>4
<1> QED
  BY <1>3, <1>4, <1>5 DEF e

\* An acknowledgement, an error or an operation is queued.
Announces == \E targets \in SUBSET Conns, msg \in Envelopes :
    msg.type # "state" /\ Deliver(targets, msg)

\* What the steps of the server and of the agent do to the queues.
LEMMA ServerQueues ==
    ASSUME TypeInv, ServerStep \/ CallStep \/ UNCHANGED vars
    PROVE  \/ UNCHANGED <<down, covered>>
           \/ Announces
           \/ \E s \in captured : EnqueueState(s)
<1> USE DEF serverVars, connVars, sendVars, callVars, browserVars, logVars, boundVars
<1>0. ConnTypeOK /\ CallTypeOK /\ ServerTypeOK /\ KnownIds /\ HistoryTypeOK
  BY DEF TypeInv, ProtocolTypeOK
<1>1. ASSUME NEW n \in Conns, Handle(n) PROVE UNCHANGED <<down, covered>> \/ Announces
  <2>1. CASE HandleApply(n)
    BY <2>1 DEF HandleApply
  <2>2. CASE HandleDuplicate(n) \/ HandleRejected(n)
    <3>1. Takes(n) /\ Open(n) \in SUBSET Conns
      BY <2>2 DEF HandleDuplicate, HandleRejected, Open
    <3>2. Head(up[n]) \in Nat
      <4>1. Head(up[n]) \in OpIds
        BY <1>0, <3>1, TakesType
      <4> QED
        BY <4>1 DEF OpIds
    <3>3. /\ OpEnvelope(Head(up[n])) \in Envelopes /\ OpEnvelope(Head(up[n])).type # "state"
          /\ ErrorEnvelope(Head(up[n])) \in Envelopes /\ ErrorEnvelope(Head(up[n])).type # "state"
      BY <3>2, EnvelopeType DEF OpEnvelope, ErrorEnvelope
    <3>4. \/ Deliver(Open(n), OpEnvelope(Head(up[n])))
          \/ Deliver(Open(n), ErrorEnvelope(Head(up[n])))
      BY <2>2 DEF HandleDuplicate, HandleRejected
    <3> QED
      BY <3>1, <3>3, <3>4 DEF Announces
  <2> QED
    BY <1>1, <2>1, <2>2 DEF Handle
<1>2. ASSUME Broadcast \/ AgentBroadcast PROVE Announces
  <2>1. PICK id \in Nat : Deliver(Listening, OpEnvelope(id))
    <3>1. CASE Broadcast
      BY <1>0, <3>1 DEF Broadcast, ServerTypeOK
    <3>2. CASE AgentBroadcast
      <4>1. agent.ids \in Seq(Nat) /\ agent.ids # <<>>
        BY <1>0, <3>2 DEF AgentBroadcast, CallTypeOK
      <4>2. Head(agent.ids) \in Nat
        BY <4>1
      <4> QED
        BY <3>2, <4>2 DEF AgentBroadcast
    <3> QED
      BY <1>2, <3>1, <3>2
  <2>2. OpEnvelope(id) \in Envelopes /\ OpEnvelope(id).type # "state" /\ Listening \in SUBSET Conns
    BY EnvelopeType DEF OpEnvelope, Listening
  <2> QED
    BY <2>1, <2>2 DEF Announces
<1>3. ASSUME NEW n \in Conns, JoinRegister(n) \/ DialLost(n) \/ ServerLeave(n)
      PROVE  UNCHANGED <<down, covered>>
  BY <1>3 DEF JoinRegister, DialLost, ServerLeave
<1>4. ASSUME NEW s \in toState, CaptureState(s) PROVE UNCHANGED <<down, covered>>
  BY <1>4 DEF CaptureState
<1>5. ASSUME \/ \E edits \in Batches : AgentCall(edits)
             \/ Evict \/ AgentApply \/ AgentRecord \/ RestoreSnapshot \/ BroadcastState
             \/ UNCHANGED vars
      PROVE  UNCHANGED <<down, covered>>
  BY <1>5 DEF Evict, AgentCall, AgentApply, AgentRecord, RestoreSnapshot, BroadcastState, vars
<1> QED
  BY <1>1, <1>2, <1>3, <1>4, <1>5 DEF ServerStep, CallStep

\* What any step does to them.
LEMMA QueueMoves ==
    ASSUME TypeInv, [Next]_vars
    PROVE  \/ UNCHANGED <<down, covered>>
           \/ Announces
           \/ \E s \in captured : EnqueueState(s)
           \/ \E c \in Clients : ReceiveState(c) \/ ReceiveOp(c) \/ ReceiveError(c)
           \/ \E c \in Clients : Connect(c)
<1>1. ASSUME NEW c \in Clients, \/ \E e \in EditsOf[c] : Commit(c, e)
                                \/ \E e \in LiveEditsOf[c] : CommitLive(c, e)
                                \/ Disconnect(c) \/ Kicked(c)
      PROVE  UNCHANGED <<down, covered>>
  BY <1>1 DEF Commit, CommitLive, Disconnect, Kicked
<1> QED
  BY <1>1, ServerQueues DEF Next, BrowserStep, Receive

\* The copy of the document that sendState queues is an envelope.
LEMMA EnqueueType ==
    ASSUME TypeInv, NEW s \in captured, EnqueueState(s)
    PROVE  /\ Open(s.conn) \in SUBSET Conns
           /\ StateEnvelope(s.objs, s.upto) \in Envelopes
           /\ Deliver(Open(s.conn), StateEnvelope(s.objs, s.upto))
<1>1. s \in Copies
  BY DEF TypeInv, ProtocolTypeOK, ConnTypeOK
<1> QED
  BY <1>1, EnvelopeType DEF Copies, Open, EnqueueState

\* What a browser does to its queue.
LEMMA ReceiveTail ==
    ASSUME TypeInv, NEW c \in Clients, ReceiveState(c) \/ ReceiveOp(c) \/ ReceiveError(c)
    PROVE  /\ sock[c] \in Conns /\ down[sock[c]] \in Seq(Envelopes) /\ down[sock[c]] # <<>>
           /\ down'[sock[c]] = Tail(down[sock[c]])
           /\ \A n \in Conns : n # sock[c] => down'[n] = down[n]
           /\ covered' = covered
           /\ Head(down[sock[c]]).type = IF ReceiveState(c) THEN "state"
                                         ELSE IF ReceiveOp(c) THEN "op" ELSE "error"
<1>1. PICK t \in {"state", "op", "error"} : Receives(c, t)
  BY DEF ReceiveState, ReceiveOp, ReceiveError
<1>2. ConnTypeOK /\ BrowserTypeOK
  BY DEF TypeInv, ProtocolTypeOK
<1>3. sock[c] \in Conns /\ down \in [Conns -> Seq(Envelopes)]
  BY <1>1, <1>2, ReceivesType DEF ConnTypeOK
<1>4. down[sock[c]] # <<>> /\ down' = [down EXCEPT ![sock[c]] = Tail(@)]
  BY <1>1 DEF Receives
<1>5. covered' = covered
  BY DEF ReceiveState, ReceiveOp, ReceiveError
<1>6. Head(down[sock[c]]).type = IF ReceiveState(c) THEN "state"
                                 ELSE IF ReceiveOp(c) THEN "op" ELSE "error"
  BY DEF ReceiveState, ReceiveOp, ReceiveError, Receives
<1> QED
  BY <1>3, <1>4, <1>5, <1>6

\* Every queue goes on to follow what its client is told.
LEMMA QueuesStep ==
    ASSUME TypeInv, QueuesFollow, [Next]_vars
    PROVE  QueuesFollow'
<1>0. down \in [Conns -> Seq(Envelopes)]
  BY DEF TypeInv, ProtocolTypeOK, ConnTypeOK
<1> SUFFICES ASSUME NEW n \in Conns PROVE Follows(down'[n], covered'[n])
  BY DEF QueuesFollow
<1>1. Follows(down[n], covered[n]) /\ down[n] \in Seq(Envelopes)
  BY <1>0 DEF QueuesFollow
<1>a. ASSUME NEW targets \in SUBSET Conns, NEW msg \in Envelopes, Deliver(targets, msg)
      PROVE  Follows(down'[n], covered'[n])
  <2>1. CASE down'[n] = down[n] /\ covered'[n] = covered[n]
    BY <1>1, <2>1
  <2>2. CASE /\ down'[n] = Append(down[n], msg)
             /\ msg.type = "op" => covered'[n] = covered[n] \cup {msg.id}
             /\ msg.type = "error" => covered'[n] = covered[n]
             /\ msg.type = "state" => covered'[n] = msg.upto
    <3>1. Follows(Append(down[n], msg), covered'[n])
      BY <1>1, <2>2, FollowsAppend
    <3> QED
      BY <2>2, <3>1
  <2>3. \/ down'[n] = down[n] /\ covered'[n] = covered[n]
        \/ /\ n \in targets /\ down'[n] = Append(down[n], msg)
           /\ msg.type = "op" => covered'[n] = covered[n] \cup {msg.id}
           /\ msg.type = "error" => covered'[n] = covered[n]
           /\ msg.type = "state" => covered'[n] = msg.upto
    BY <1>a, DeliverTells
  <2> QED
    BY <2>1, <2>2, <2>3
<1>2. CASE UNCHANGED <<down, covered>>
  BY <1>1, <1>2
<1>3. CASE Announces
  BY <1>3, <1>a DEF Announces
<1>4. ASSUME NEW s \in captured, EnqueueState(s) PROVE Follows(down'[n], covered'[n])
  BY <1>4, <1>a, EnqueueType
<1>5. ASSUME NEW c \in Clients, ReceiveState(c) \/ ReceiveOp(c) \/ ReceiveError(c)
      PROVE  Follows(down'[n], covered'[n])
  <2>1. covered' = covered /\ (n # sock[c] => down'[n] = down[n])
    BY <1>5, ReceiveTail
  <2>2. CASE n = sock[c]
    <3>1. down'[n] = Tail(down[n]) /\ down[n] # <<>>
      BY <1>5, <2>2, ReceiveTail
    <3>2. Follows(Tail(down[n]), covered[n])
      BY <1>1, <3>1, FollowsTail
    <3> QED
      BY <2>1, <3>1, <3>2
  <2> QED
    BY <1>1, <2>1, <2>2
<1>6. ASSUME NEW c \in Clients, Connect(c) PROVE Follows(down'[n], covered'[n])
  <2>1. (down'[n] = down[n] \/ down'[n] = <<>>) /\ covered' = covered
    BY <1>0, <1>6 DEF Connect
  <2>2. \A told : Follows(<<>>, told)
    BY DEF Follows
  <2> QED
    BY <1>1, <2>1, <2>2
<1> QED
  BY <1>2, <1>3, <1>4, <1>5, <1>6, QueueMoves

-----------------------------------------------------------------------------
(* The steps of the server. *)

\* What was made, applied or refused stays so.
LEMMA HistoryGrows ==
    ASSUME NoStreaming, TypeInv, EditsMade, [Next]_vars
    PROVE  /\ LogIds \subseteq LogIds' /\ rejected \subseteq rejected'
           /\ OpIds \subseteq OpIds' /\ \A i \in OpIds : ops'[i] = ops[i]
<1> USE DEF serverVars, connVars, sendVars, callVars, browserVars, logVars, boundVars
<1>0. HistoryTypeOK /\ ServerTypeOK /\ CallTypeOK /\ ConnTypeOK /\ KnownIds
  BY DEF TypeInv, ProtocolTypeOK
<1> DEFINE Goal == /\ LogIds \subseteq LogIds' /\ rejected \subseteq rejected'
                   /\ OpIds \subseteq OpIds' /\ \A i \in OpIds : ops'[i] = ops[i]
<1>a. ASSUME UNCHANGED <<ops, log, rejected>> PROVE Goal
  BY <1>a DEF LogIds, OpIds
<1>b. ASSUME NEW id \in Nat, log' = Append(log, [id |-> id, room |-> rooms]) PROVE LogIds \subseteq LogIds'
  <2>1. rooms \in 0 .. MaxRooms
    BY <1>0 DEF ServerTypeOK
  <2> QED
    BY <1>0, <1>b, <2>1, LogGrows
<1>1. ASSUME NEW c \in Clients, NEW e \in EditsOf[c], Commit(c, e) PROVE Goal
  <2>1. /\ ops' = Append(ops, [by |-> c, edit |-> e, live |-> FALSE]) /\ FALSE \in BOOLEAN
        /\ UNCHANGED <<log, rejected>> /\ c \in Actors
    BY <1>1 DEF Commit, Actors
  <2>2. OpIds \subseteq OpIds' /\ \A i \in OpIds : ops'[i] = ops[i]
    BY <1>0, <2>1, OneMore
  <2> QED
    BY <2>1, <2>2 DEF LogIds
<1>2. ASSUME AgentApply PROVE Goal
  <2>1. /\ ops' = Append(ops, [by |-> Agent, edit |-> Head(agent.edits), live |-> FALSE])
        /\ FALSE \in BOOLEAN /\ Agent \in Actors /\ rejected' = rejected
        /\ agent.edits \in Seq(Edit) /\ agent.edits # <<>>
    BY <1>0, <1>2 DEF AgentApply, Actors, CallTypeOK
  <2>2. Head(agent.edits) \in EditsOf[Agent]
    <3>1. Head(agent.edits) = agent.edits[1] /\ 1 \in DOMAIN agent.edits
      BY <2>1
    <3> QED
      BY <3>1 DEF EditsMade
  <2>3. OpIds \subseteq OpIds' /\ \A i \in OpIds : ops'[i] = ops[i]
    BY <1>0, <2>1, <2>2, OneMore
  <2>4. log' = log \/ log' = Append(log, [id |-> Len(ops) + 1, room |-> rooms])
    BY <1>2, Zenon DEF AgentApply
  <2>5. Len(ops) + 1 \in Nat
    BY <1>0 DEF HistoryTypeOK
  <2>6. LogIds \subseteq LogIds'
    <3>1. CASE log' = log
      BY <3>1 DEF LogIds
    <3> QED
      BY <1>b, <2>4, <2>5, <3>1
  <2> QED
    BY <2>1, <2>3, <2>6
<1>3. ASSUME NEW n \in Conns, HandleApply(n) PROVE Goal
  <2>1. /\ log' = Append(log, [id |-> Head(up[n]), room |-> rooms])
        /\ UNCHANGED <<ops, rejected>> /\ Takes(n)
    BY <1>3 DEF HandleApply
  <2>2. Head(up[n]) \in Nat
    <3>1. Head(up[n]) \in OpIds
      BY <1>0, <2>1, TakesType
    <3> QED
      BY <3>1 DEF OpIds
  <2> QED
    BY <1>b, <2>1, <2>2 DEF OpIds
<1>4. ASSUME NEW n \in Conns, HandleRejected(n) PROVE Goal
  BY <1>4 DEF HandleRejected, LogIds, OpIds
<1>5. ASSUME NEW c \in Clients, NEW e \in LiveEditsOf[c] PROVE FALSE
  BY DEF NoStreaming
<1>6. ASSUME NEW c \in Clients, \/ Connect(c) \/ ReceiveState(c) \/ ReceiveOp(c) \/ ReceiveError(c)
                                \/ Disconnect(c) \/ Kicked(c)
      PROVE  Goal
  BY <1>6, <1>a DEF Connect, ReceiveState, ReceiveOp, ReceiveError, Disconnect, Kicked
<1>7. ASSUME NEW n \in Conns, JoinRegister(n) \/ DialLost(n) \/ HandleDuplicate(n) \/ ServerLeave(n)
      PROVE  Goal
  BY <1>7, <1>a DEF JoinRegister, DialLost, HandleDuplicate, ServerLeave
<1>8. ASSUME NEW s, CaptureState(s) \/ EnqueueState(s) PROVE Goal
  BY <1>8, <1>a DEF CaptureState, EnqueueState
<1>9. ASSUME \/ \E edits \in Batches : AgentCall(edits)
             \/ Broadcast \/ Evict \/ AgentRecord \/ AgentBroadcast \/ RestoreSnapshot
             \/ BroadcastState \/ UNCHANGED vars
      PROVE  Goal
  BY <1>9, <1>a DEF AgentCall, Broadcast, Evict, AgentRecord, AgentBroadcast, RestoreSnapshot,
     BroadcastState, vars
<1> QED
  BY <1>1, <1>2, <1>3, <1>4, <1>5, <1>6, <1>7, <1>8, <1>9
  DEF Next, BrowserStep, ServerStep, CallStep, Receive, Handle

\* No snapshot is restored.
NoRestore == restores = 0

\* The server's document stays the one of its edits.
LEMMA ServerStepShows ==
    ASSUME NEW V, Determines(V), NoStreaming, KnownFields, TypeInv, EditsMade, LogKnown,
           ServerShows(V), [Next]_vars, NoRestore'
    PROVE  ServerShows(V)'
<1> USE DEF serverVars, connVars, sendVars, callVars, browserVars, logVars, boundVars
<1>0. /\ HistoryTypeOK /\ ServerTypeOK /\ CallTypeOK /\ ConnTypeOK /\ KnownIds
      /\ doc \in Objects
  BY DEF TypeInv, ProtocolTypeOK, ServerTypeOK
<1>g. \A i \in OpIds : ops'[i] = ops[i]
  BY HistoryGrows
<1>a. ASSUME UNCHANGED <<doc, log, rejected>> PROVE ServerShows(V)'
  BY <1>0, <1>a, <1>g, ServerStays
<1>r. rooms \in 0 .. MaxRooms
  BY <1>0 DEF ServerTypeOK
<1>1. ASSUME NEW n \in Conns, HandleApply(n) PROVE ServerShows(V)'
  <2> DEFINE id == Head(up[n])
  <2>1. /\ log' = Append(log, [id |-> id, room |-> rooms]) /\ rejected' = rejected /\ ops' = ops
        /\ Takes(n) /\ ~Rejects(doc, ops[id].edit) /\ doc' = Apply(doc, ops[id].edit)
    BY <1>1 DEF HandleApply
  <2>2. id \in OpIds
    BY <1>0, <2>1, TakesType
  <2> HIDE DEF id
  <2>3. id \in Nat /\ ops[id].edit \in AllEdits
    BY <1>0, <2>2, KnownEdits DEF OpIds
  <2>4. LogIds' = LogIds \cup {id}
    BY <1>0, <1>r, <2>1, <2>3, LogGrows
  <2> QED
    BY <1>0, <1>g, <2>1, <2>3, <2>4, ServerApplies
<1>2. ASSUME NEW n \in Conns, HandleRejected(n) PROVE ServerShows(V)'
  <2> DEFINE id == Head(up[n])
  <2>1. /\ UNCHANGED <<doc, log, ops>> /\ rejected' = rejected \cup {id}
        /\ Takes(n) /\ Rejects(doc, ops[id].edit)
    BY <1>2 DEF HandleRejected
  <2>2. id \in OpIds
    BY <1>0, <2>1, TakesType
  <2> HIDE DEF id
  <2> QED
    BY <1>0, <2>1, <2>2, ServerRefuses
<1>3. ASSUME AgentApply PROVE ServerShows(V)'
  <2> DEFINE id == Len(ops) + 1
             e == Head(agent.edits)
  <2>1. /\ ops' = Append(ops, [by |-> Agent, edit |-> e, live |-> FALSE])
        /\ FALSE \in BOOLEAN /\ Agent \in Actors /\ rejected' = rejected
        /\ agent.edits \in Seq(Edit) /\ agent.edits # <<>>
    BY <1>0, <1>3 DEF AgentApply, Actors, CallTypeOK
  <2>2. e \in EditsOf[Agent] /\ e \in AllEdits
    <3>1. e = agent.edits[1] /\ 1 \in DOMAIN agent.edits
      BY <2>1
    <3> QED
      BY <3>1 DEF EditsMade, AllEdits, Actors
  <2>3. CASE Rejects(doc, e)
    BY <1>3, <1>a, <2>1, <2>3 DEF AgentApply
  <2>4. CASE ~Rejects(doc, e)
    <3>1. log' = Append(log, [id |-> id, room |-> rooms]) /\ doc' = Apply(doc, e)
      BY <1>3, <2>4 DEF AgentApply
    <3>2. id \in Nat
      BY <1>0 DEF HistoryTypeOK
    <3> HIDE DEF e
    <3>3. ops'[id] = [by |-> Agent, edit |-> e, live |-> FALSE]
      BY <1>0, <2>1, <2>2, OneMore
    <3>4. ops'[id].edit = e
      BY <3>3
    <3> HIDE DEF id
    <3>5. LogIds' = LogIds \cup {id}
      BY <1>0, <1>r, <3>1, <3>2, LogGrows
    <3> QED
      BY <1>0, <1>g, <2>1, <2>2, <2>4, <3>1, <3>4, <3>5, ServerApplies
  <2> QED
    BY <2>3, <2>4
<1>4. ASSUME RestoreSnapshot PROVE FALSE
  BY <1>0, <1>4 DEF RestoreSnapshot, HistoryTypeOK, NoRestore
<1>5. ASSUME NEW c \in Clients,
             \/ \E e \in EditsOf[c] : Commit(c, e)
             \/ \E e \in LiveEditsOf[c] : CommitLive(c, e)
             \/ Connect(c) \/ ReceiveState(c) \/ ReceiveOp(c) \/ ReceiveError(c)
             \/ Disconnect(c) \/ Kicked(c)
      PROVE  ServerShows(V)'
  BY <1>5, <1>a DEF Commit, CommitLive, Connect, ReceiveState, ReceiveOp, ReceiveError,
     Disconnect, Kicked
<1>6. ASSUME NEW n \in Conns, JoinRegister(n) \/ DialLost(n) \/ HandleDuplicate(n) \/ ServerLeave(n)
      PROVE  ServerShows(V)'
  BY <1>6, <1>a DEF JoinRegister, DialLost, HandleDuplicate, ServerLeave
<1>7. ASSUME NEW s, CaptureState(s) \/ EnqueueState(s) PROVE ServerShows(V)'
  BY <1>7, <1>a DEF CaptureState, EnqueueState
<1>8. ASSUME \/ \E edits \in Batches : AgentCall(edits)
             \/ Broadcast \/ Evict \/ AgentRecord \/ AgentBroadcast
             \/ BroadcastState \/ UNCHANGED vars
      PROVE  ServerShows(V)'
  BY <1>8, <1>a DEF AgentCall, Broadcast, Evict, AgentRecord, AgentBroadcast, BroadcastState, vars
<1> QED
  BY <1>1, <1>2, <1>3, <1>4, <1>5, <1>6, <1>7, <1>8
  DEF Next, BrowserStep, ServerStep, CallStep, Receive, Handle

\* Copies are made in one place.
LEMMA CaptureMoves ==
    [Next]_vars => captured' \subseteq captured \/ \E s \in toState : CaptureState(s)
<1> SUFFICES ASSUME [Next]_vars PROVE captured' \subseteq captured \/ \E s \in toState : CaptureState(s)
  OBVIOUS
<1> USE DEF serverVars, connVars, sendVars, callVars, browserVars, logVars, boundVars
<1>1. ASSUME NEW c \in Clients,
             \/ \E e \in EditsOf[c] : Commit(c, e)
             \/ \E e \in LiveEditsOf[c] : CommitLive(c, e)
             \/ Connect(c) \/ ReceiveState(c) \/ ReceiveOp(c) \/ ReceiveError(c)
             \/ Disconnect(c) \/ Kicked(c)
      PROVE  captured' = captured
  BY <1>1 DEF Commit, CommitLive, Connect, ReceiveState, ReceiveOp, ReceiveError,
     Disconnect, Kicked
<1>2. ASSUME NEW n \in Conns, \/ JoinRegister(n) \/ DialLost(n) \/ Handle(n) \/ ServerLeave(n)
      PROVE  captured' = captured
  BY <1>2 DEF JoinRegister, DialLost, Handle, HandleDuplicate, HandleRejected, HandleApply,
     ServerLeave
<1>3. ASSUME NEW s \in captured, EnqueueState(s) PROVE captured' \subseteq captured
  BY <1>3 DEF EnqueueState
<1>4. ASSUME \/ \E edits \in Batches : AgentCall(edits)
             \/ Broadcast \/ Evict \/ AgentApply \/ AgentRecord \/ AgentBroadcast
             \/ RestoreSnapshot \/ BroadcastState \/ UNCHANGED vars
      PROVE  captured' = captured
  BY <1>4 DEF AgentCall, Broadcast, Evict, AgentApply, AgentRecord, AgentBroadcast,
     RestoreSnapshot, BroadcastState, vars
<1> QED
  BY <1>1, <1>2, <1>3, <1>4 DEF Next, BrowserStep, ServerStep, CallStep, Receive

\* The copies in a queue are old ones, or hold what they are said to hold.
LEMMA CopiesStep ==
    ASSUME NEW V, NoStreaming, TypeInv, EditsMade, LogKnown,
           ServerShows(V), CopiesShow(V), [Next]_vars
    PROVE  CopiesShow(V)'
<1>0. down \in [Conns -> Seq(Envelopes)]
  BY DEF TypeInv, ProtocolTypeOK, ConnTypeOK
<1>1. LogIds \subseteq LogIds' /\ \A i \in OpIds : ops'[i] = ops[i]
  BY HistoryGrows
<1>2. ASSUME NEW x, IsCopy(V, ops, LogIds, x) PROVE IsCopy(V, ops', LogIds', x)
  BY <1>1, <1>2, CopyStays
<1>3. \A s \in captured' : IsCopy(V, ops', LogIds', s)
  <2>1. CASE captured' \subseteq captured
    BY <1>2, <2>1 DEF CopiesShow
  <2>2. ASSUME NEW s \in toState, CaptureState(s) PROVE \A x \in captured' : IsCopy(V, ops', LogIds', x)
    <3> DEFINE new == [conn |-> s.conn, why |-> s.why, objs |-> doc, upto |-> LogIds]
    <3>1. captured' = captured \cup {new}
      BY <2>2 DEF CaptureState
    <3>2. LogIds \cup {} = LogIds /\ {} \in SUBSET rejected
      OBVIOUS
    <3>3. doc = V[EditsIn(ops, LogIds)]
      BY <3>2 DEF ServerShows
    <3>4. new.objs = doc /\ new.upto = LogIds
      OBVIOUS
    <3> HIDE DEF new
    <3>5. IsCopy(V, ops, LogIds, new)
      BY <3>3, <3>4 DEF IsCopy
    <3> QED
      BY <1>2, <3>1, <3>5 DEF CopiesShow
  <2> QED
    BY <2>1, <2>2, CaptureMoves
<1> SUFFICES ASSUME NEW n \in Conns PROVE \A k \in DOMAIN down'[n] :
                                            down'[n][k].type = "state" => IsCopy(V, ops', LogIds', down'[n][k])
  BY <1>3 DEF CopiesShow
<1>4. /\ \A k \in DOMAIN down[n] : down[n][k].type = "state" => IsCopy(V, ops', LogIds', down[n][k])
      /\ down[n] \in Seq(Envelopes)
  BY <1>0, <1>2 DEF CopiesShow
<1>5. CASE down'[n] = down[n]
  BY <1>4, <1>5
<1>a. ASSUME NEW targets \in SUBSET Conns, NEW msg \in Envelopes, Deliver(targets, msg),
             msg.type = "state" => IsCopy(V, ops', LogIds', msg), NEW k \in DOMAIN down'[n],
             down'[n][k].type = "state"
      PROVE  IsCopy(V, ops', LogIds', down'[n][k])
  <2>1. down'[n] = down[n] \/ down'[n] = Append(down[n], msg)
    BY <1>a, DeliverTells
  <2>2. CASE down'[n] = Append(down[n], msg)
    <3> DEFINE d == down[n]
               e == Append(d, msg)
    <3>1. DOMAIN e = DOMAIN d \cup {Len(d) + 1} /\ e[Len(d) + 1] = msg /\ \A j \in DOMAIN d : e[j] = d[j]
      BY <1>4, AppendAt
    <3>2. down'[n] = e
      BY <2>2
    <3> HIDE DEF e
    <3>3. k \in DOMAIN d \/ down'[n][k] = msg
      BY <1>a, <3>1, <3>2
    <3>4. k \in DOMAIN d => down'[n][k] = d[k]
      BY <3>1, <3>2
    <3> QED
      BY <1>4, <1>a, <3>3, <3>4
  <2> QED
    BY <1>4, <1>a, <2>1, <2>2
<1>6. CASE Announces
  BY <1>6, <1>a DEF Announces
<1>7. ASSUME NEW s \in captured, EnqueueState(s)
      PROVE  \A k \in DOMAIN down'[n] : down'[n][k].type = "state" => IsCopy(V, ops', LogIds', down'[n][k])
  <2> DEFINE msg == StateEnvelope(s.objs, s.upto)
  <2>1. /\ Open(s.conn) \in SUBSET Conns /\ msg \in Envelopes /\ Deliver(Open(s.conn), msg)
    BY <1>7, EnqueueType
  <2>2. IsCopy(V, ops', LogIds', s) /\ msg.objs = s.objs /\ msg.upto = s.upto
    BY <1>2 DEF CopiesShow, StateEnvelope
  <2> HIDE DEF msg
  <2>3. IsCopy(V, ops', LogIds', msg)
    BY <2>2 DEF IsCopy
  <2> QED
    BY <1>a, <2>1, <2>3
<1>8. ASSUME NEW c \in Clients, ReceiveState(c) \/ ReceiveOp(c) \/ ReceiveError(c), n = sock[c],
             NEW k \in DOMAIN down'[n], down'[n][k].type = "state"
      PROVE  IsCopy(V, ops', LogIds', down'[n][k])
  <2>1. down'[n] = Tail(down[n]) /\ down[n] # <<>>
    BY <1>8, ReceiveTail
  <2>2. k + 1 \in DOMAIN down[n] /\ down'[n][k] = down[n][k + 1]
    BY <1>4, <1>8, <2>1, TailAt
  <2> QED
    BY <1>4, <1>8, <2>2
<1>9. ASSUME NEW c \in Clients, ReceiveState(c) \/ ReceiveOp(c) \/ ReceiveError(c), n # sock[c]
      PROVE  down'[n] = down[n]
  BY <1>9, ReceiveTail
<1>10. ASSUME NEW c \in Clients, Connect(c) PROVE down'[n] = down[n] \/ down'[n] = <<>>
  BY <1>0, <1>10 DEF Connect
<1>11. CASE down'[n] = <<>>
  BY <1>11
<1> QED
  BY <1>5, <1>6, <1>7, <1>8, <1>9, <1>10, <1>11, QueueMoves

-----------------------------------------------------------------------------
(* The browsers. *)

\* Replaying operations over a document adds their edits to it.
LEMMA ReplayShows ==
    ASSUME NEW V, Determines(V), NEW X, \A i \in X : ops[i].edit \in AllEdits,
           NEW ids \in Seq(Nat), \A k \in DOMAIN ids : ops[ids[k]].edit \in AllEdits
    PROVE  Replay(V[EditsIn(ops, X)], ids) = V[EditsIn(ops, X \cup ToSet(ids))]
<1> DEFINE n == Len(ids)
           objs == V[EditsIn(ops, X)]
           First(k) == X \cup {ids[j] : j \in 1 .. k}
<1>1. n \in Nat /\ DOMAIN ids = 1 .. n
  OBVIOUS
<1> HIDE DEF n, objs
<1>2. PICK g : Folding(g, n, objs, ids) /\ Replay(objs, ids) = g[1 .. n]
  BY <1>1, ReplayFolds
<1> DEFINE T == {k \in Nat : k <= n => g[1 .. k] = V[EditsIn(ops, First(k))]}
<1>3. 0 \in T
  <2>1. 1 .. 0 = {} /\ {} \in SUBSET (1 .. n) /\ First(0) = X
    OBVIOUS
  <2>2. g[{}] = objs
    BY <1>2, <2>1, Zenon DEF Folding
  <2> QED
    BY <2>1, <2>2 DEF objs
<1>4. ASSUME NEW k \in Nat, k \in T PROVE k + 1 \in T
  <2> SUFFICES ASSUME k + 1 <= n PROVE g[1 .. k + 1] = V[EditsIn(ops, First(k + 1))]
    OBVIOUS
  <2>1. g[1 .. k] = V[EditsIn(ops, First(k))] /\ k + 1 \in 1 .. n /\ 1 .. k \subseteq 1 .. n
    BY <1>1, <1>4
  <2>2. 1 .. k + 1 \in SUBSET (1 .. n) /\ 1 .. k + 1 # {}
    BY <1>1
  <2>3. Max(1 .. k + 1) = k + 1
    BY MaxOfTop
  <2>4. (1 .. k + 1) \ {k + 1} = 1 .. k /\ 1 .. k + 1 = 1 .. k \cup {k + 1}
    OBVIOUS
  <2>5. g[1 .. k + 1] = ApplyOp(g[1 .. k], ops[ids[k + 1]].edit)
    BY <1>2, <2>2, <2>3, <2>4, Zenon DEF Folding
  <2>6. ops[ids[k + 1]].edit \in AllEdits /\ \A i \in First(k) : ops[i].edit \in AllEdits
    BY <1>1, <2>1
  <2>7. First(k + 1) = First(k) \cup {ids[k + 1]}
    BY <2>4
  <2> HIDE DEF First
  <2> DEFINE Y == First(k)
             i == ids[k + 1]
  <2>8. ops[i].edit \in AllEdits /\ \A j \in Y : ops[j].edit \in AllEdits
    BY <2>6
  <2>9. g[1 .. k] = V[EditsIn(ops, Y)] /\ First(k + 1) = Y \cup {i} /\ g[1 .. k + 1] = ApplyOp(g[1 .. k], ops[i].edit)
    BY <2>1, <2>5, <2>7
  <2> HIDE DEF Y, i
  <2>10. V[EditsIn(ops, Y \cup {i})] = ApplyOp(V[EditsIn(ops, Y)], ops[i].edit)
    BY <2>8, EditsAdd
  <2> QED
    BY <2>9, <2>10
<1>5. n \in T
  <2> HIDE DEF T
  <2>1. Nat \subseteq T
    BY <1>3, <1>4, SetInduction, Zenon
  <2> QED
    BY <1>1, <2>1
<1>6. First(n) = X \cup ToSet(ids)
  BY <1>1 DEF ToSet
<1>7. g[1 .. n] = V[EditsIn(ops, X \cup ToSet(ids))]
  <2>1. n <= n
    BY <1>1
  <2>2. g[1 .. n] = V[EditsIn(ops, First(n))]
    <3> HIDE DEF First
    <3> QED
      BY <1>5, <2>1, Zenon
  <2> HIDE DEF First
  <2> QED
    BY <1>6, <2>2
<1>8. Replay(objs, ids) = V[EditsIn(ops, X \cup ToSet(ids))]
  BY <1>2, <1>7
<1> QED
  BY <1>8 DEF objs

\* A replica is the document of a set of operations, those in the outbox among
\* them, and what it lacks of what its browser has been told is on its way.
Shows(V, o, done, d, K, out, queue, told) ==
    /\ K \subseteq done \cup ToSet(out)
    /\ ToSet(out) \subseteq K
    /\ d = V[EditsIn(o, K)]
    /\ Reaches(queue, told, K)

BrowsersShow(V) == \A c \in Clients : synced[c] =>
    \E K \in SUBSET OpIds :
        Shows(V, ops, Done, cdoc[c], K, outbox[c], down[sock[c]], covered[sock[c]])

\* The browser does nothing.
LEMMA ShowStays ==
    ASSUME NEW V, NEW c \in Clients, NEW K \in SUBSET OpIds,
           Shows(V, ops, Done, cdoc[c], K, outbox[c], down[sock[c]], covered[sock[c]]),
           LogIds \subseteq LogIds', rejected \subseteq rejected', \A i \in OpIds : ops'[i] = ops[i],
           cdoc'[c] = cdoc[c], outbox'[c] = outbox[c],
           Reaches(down[sock[c]], covered[sock[c]], K)
              => Reaches(down'[sock'[c]], covered'[sock'[c]], K)
    PROVE  Shows(V, ops', Done', cdoc'[c], K, outbox'[c], down'[sock'[c]], covered'[sock'[c]])
<1>1. EditsIn(ops', K) = EditsIn(ops, K)
  BY EditsStay
<1>2. Done \subseteq Done'
  BY DEF Done
<1> QED
  BY <1>1, <1>2 DEF Shows

\* What is queued for a browser that does nothing.
LEMMA ReachesStays ==
    ASSUME TypeInv, NEW n \in Conns, NEW K,
           Reaches(down[n], covered[n], K),
           \/ down'[n] = down[n] /\ covered'[n] = covered[n]
           \/ Announces
           \/ \E s \in captured : EnqueueState(s)
    PROVE  Reaches(down'[n], covered'[n], K)
<1>0. down[n] \in Seq(Envelopes)
  BY DEF TypeInv, ProtocolTypeOK, ConnTypeOK
<1>a. ASSUME NEW targets \in SUBSET Conns, NEW msg \in Envelopes, Deliver(targets, msg)
      PROVE  Reaches(down'[n], covered'[n], K)
  <2>1. CASE down'[n] = down[n] /\ covered'[n] = covered[n]
    BY <2>1
  <2>2. CASE /\ down'[n] = Append(down[n], msg)
             /\ msg.type = "op" => covered'[n] = covered[n] \cup {msg.id}
             /\ msg.type = "error" => covered'[n] = covered[n]
             /\ msg.type = "state" => covered'[n] = msg.upto
    <3>1. Reaches(Append(down[n], msg), covered'[n], K)
      BY <1>0, <2>2, FollowsAppend
    <3> QED
      BY <2>2, <3>1
  <2>3. \/ down'[n] = down[n] /\ covered'[n] = covered[n]
        \/ /\ n \in targets /\ down'[n] = Append(down[n], msg)
           /\ msg.type = "op" => covered'[n] = covered[n] \cup {msg.id}
           /\ msg.type = "error" => covered'[n] = covered[n]
           /\ msg.type = "state" => covered'[n] = msg.upto
    BY <1>a, DeliverTells
  <2> QED
    BY <2>1, <2>2, <2>3
<1>1. CASE down'[n] = down[n] /\ covered'[n] = covered[n]
  BY <1>1
<1>2. CASE Announces
  BY <1>2, <1>a DEF Announces
<1>3. ASSUME NEW s \in captured, EnqueueState(s) PROVE Reaches(down'[n], covered'[n], K)
  BY <1>3, <1>a, EnqueueType
<1> QED
  BY <1>1, <1>2, <1>3

\* Every action leaves every replica the document of a set of operations.
LEMMA BrowsersStep ==
    ASSUME NEW V, Determines(V), NoStreaming, TypeInv, SafeInv, AckInv, OrderInv, EditsMade,
           Replicas, CopiesShow(V), QueuesFollow, BrowsersShow(V), [Next]_vars
    PROVE  BrowsersShow(V)'
<1> USE DEF serverVars, connVars, sendVars, callVars, browserVars, logVars, boundVars
<1>0. /\ ConnTypeOK /\ BrowserTypeOK /\ HistoryTypeOK /\ KnownIds
      /\ ConnInv /\ SocketsOwn /\ OutboxesOrdered /\ LogKnown /\ AnswersTrue
  BY DEF TypeInv, ProtocolTypeOK, AckInv, ConnInv, OrderInv, SafeInv
<1> DEFINE Goal(c) == \E K \in SUBSET OpIds' :
       Shows(V, ops', Done', cdoc'[c], K, outbox'[c], down'[sock'[c]], covered'[sock'[c]])
<1>g. /\ LogIds \subseteq LogIds' /\ rejected \subseteq rejected'
      /\ OpIds \subseteq OpIds' /\ \A i \in OpIds : ops'[i] = ops[i]
  BY HistoryGrows
<1>k. rejected \subseteq OpIds /\ \A i \in OpIds : ops[i].edit \in AllEdits
  BY <1>0, KnownEdits
<1> SUFFICES ASSUME NEW c \in Clients, synced'[c] PROVE Goal(c)
  BY DEF BrowsersShow
<1> DEFINE n == sock[c]
<1>t. outbox[c] \in Seq(Nat) /\ ToSet(outbox[c]) \subseteq OpIds
  BY <1>0 DEF BrowserTypeOK, KnownIds, ToSet
<1>n. ASSUME synced[c] PROVE n \in Conns /\ Owner(n) = c
  BY <1>0, <1>n DEF SocketsOwn, BrowserTypeOK
<1> HIDE DEF n
<1>s. ASSUME synced[c], sock'[c] = sock[c], cdoc'[c] = cdoc[c], outbox'[c] = outbox[c],
             \/ down'[n] = down[n] /\ covered'[n] = covered[n]
             \/ Announces
             \/ \E s \in captured : EnqueueState(s)
      PROVE  Goal(c)
  <2>1. PICK K \in SUBSET OpIds :
           Shows(V, ops, Done, cdoc[c], K, outbox[c], down[sock[c]], covered[sock[c]])
    BY <1>s DEF BrowsersShow
  <2>2. Reaches(down[n], covered[n], K) => Reaches(down'[n], covered'[n], K)
    BY <1>n, <1>s, ReachesStays
  <2>3. Shows(V, ops', Done', cdoc'[c], K, outbox'[c], down'[sock'[c]], covered'[sock'[c]])
    BY <1>g, <1>s, <2>1, <2>2, ShowStays DEF n
  <2> QED
    BY <1>g, <2>3
<1>1. ASSUME NEW e \in EditsOf[c], Commit(c, e) PROVE Goal(c)
  <2> DEFINE id == Len(ops) + 1
  <2>1. /\ ops' = Append(ops, [by |-> c, edit |-> e, live |-> FALSE])
        /\ cdoc' = [cdoc EXCEPT ![c] = ApplyOp(cdoc[c], e)]
        /\ outbox' = [outbox EXCEPT ![c] = Append(outbox[c], id)]
        /\ UNCHANGED <<log, rejected, synced, sock, down, covered>>
        /\ c \in Actors /\ FALSE \in BOOLEAN
    BY <1>1 DEF Commit, Actors
  <2>2. /\ ops'[id] = [by |-> c, edit |-> e, live |-> FALSE]
        /\ OpIds' = OpIds \cup {id} /\ \A i \in OpIds : ops'[i] = ops[i]
    BY <1>0, <2>1, OneMore
  <2>3. id \in Nat
    BY <1>0 DEF HistoryTypeOK
  <2> HIDE DEF id
  <2>4. ops'[id].edit = e /\ e \in AllEdits
    <3>1. ops'[id].edit = e
      BY <2>2
    <3>2. e \in AllEdits
      BY <2>1 DEF AllEdits
    <3> QED
      BY <3>1, <3>2
  <2>5. PICK K \in SUBSET OpIds :
           Shows(V, ops, Done, cdoc[c], K, outbox[c], down[sock[c]], covered[sock[c]])
    BY <2>1 DEF BrowsersShow
  <2>6. outbox'[c] = Append(outbox[c], id) /\ ToSet(Append(outbox[c], id)) = ToSet(outbox[c]) \cup {id}
    BY <1>0, <1>t, <2>1, <2>3, AppendSet DEF BrowserTypeOK
  <2>7. cdoc'[c] = V[EditsIn(ops', K \cup {id})]
    <3>1. EditsIn(ops', K) = EditsIn(ops, K) /\ \A i \in K : ops'[i].edit \in AllEdits
      BY <1>g, <1>k, EditsStay
    <3>2. ops'[id].edit \in AllEdits
      BY <2>4
    <3>5. V[EditsIn(ops', K \cup {id})] = ApplyOp(V[EditsIn(ops', K)], ops'[id].edit)
      BY <3>1, <3>2, EditsAdd
    <3>3. cdoc[c] = V[EditsIn(ops, K)]
      BY <2>5 DEF Shows
    <3>4. cdoc'[c] = ApplyOp(cdoc[c], e)
      BY <2>1 DEF Replicas
    <3> QED
      BY <2>4, <3>1, <3>3, <3>4, <3>5
  <2>8. Done' = Done
    BY <2>1 DEF Done, LogIds
  <2>9. Reaches(down[n], covered[n], K \cup {id})
    BY <2>5 DEF Shows, Reaches, n
  <2>10. Shows(V, ops', Done', cdoc'[c], K \cup {id}, outbox'[c], down'[sock'[c]], covered'[sock'[c]])
    BY <2>1, <2>5, <2>6, <2>7, <2>8, <2>9 DEF Shows, n
  <2> QED
    BY <2>2, <2>10
<1>r. ASSUME ReceiveState(c) \/ ReceiveOp(c) \/ ReceiveError(c)
      PROVE  /\ n \in Conns /\ down[n] \in Seq(Envelopes) /\ down[n] # <<>>
             /\ down'[n] = Tail(down[n]) /\ covered' = covered
             /\ UNCHANGED <<ops, log, rejected, sock>> /\ OpIds' = OpIds /\ Done' = Done
             /\ Head(down[n]) \in Envelopes /\ Follows(down[n], covered[n])
             /\ Holds(Head(down[n]), LogIds, rejected)
  <2>1. /\ n \in Conns /\ down[n] \in Seq(Envelopes) /\ down[n] # <<>>
        /\ down'[n] = Tail(down[n]) /\ covered' = covered
    BY <1>r, ReceiveTail DEF n
  <2>2. UNCHANGED <<ops, log, rejected, sock>>
    BY <1>r DEF ReceiveState, ReceiveOp, ReceiveError
  <2>3. OpIds' = OpIds /\ Done' = Done
    BY <2>2 DEF OpIds, Done, LogIds
  <2>4. Head(down[n]) = down[n][1] /\ 1 \in DOMAIN down[n] /\ Head(down[n]) \in Envelopes
    BY <2>1, TailAt
  <2>5. Holds(Head(down[n]), LogIds, rejected)
    BY <1>0, <2>1, <2>4 DEF AnswersTrue
  <2> QED
    BY <2>1, <2>2, <2>3, <2>4, <2>5 DEF QueuesFollow
<1>2. CASE ReceiveState(c)
  <2> DEFINE msg == Head(down[n])
             K == msg.upto \cup ToSet(outbox[c])
  <2>1. /\ cdoc' = [cdoc EXCEPT ![c] = Replay(msg.objs, outbox[c])]
        /\ outbox' = outbox /\ msg.type = "state"
    BY <1>2 DEF ReceiveState, Receives, n
  <2>2. cdoc'[c] = Replay(msg.objs, outbox[c])
    BY <2>1 DEF Replicas
  <2>3. IsCopy(V, ops, LogIds, msg)
    <3>1. Head(down[n]) = down[n][1] /\ 1 \in DOMAIN down[n]
      BY <1>2, <1>r, TailAt
    <3> QED
      BY <1>2, <1>r, <2>1, <3>1 DEF CopiesShow
  <2>4. msg.upto \subseteq LogIds /\ msg.upto \subseteq OpIds /\ msg.objs = V[EditsIn(ops, msg.upto)]
    BY <1>0, <2>3 DEF IsCopy, LogKnown
  <2>5. Reaches(down'[n], covered'[n], K)
    <3>1. Follows(down[n], covered[n]) /\ msg.upto \subseteq K /\ down[n] \in Seq(Envelopes) /\ down[n] # <<>>
      BY <1>2, <1>r
    <3>2. Reaches(Tail(down[n]), covered[n], K)
      BY <2>1, <3>1, FollowsTail
    <3> QED
      BY <1>2, <1>r, <3>2
  <2>6. Replay(V[EditsIn(ops, msg.upto)], outbox[c]) = V[EditsIn(ops, K)]
    <3>1. \A i \in msg.upto : ops[i].edit \in AllEdits
      BY <1>k, <2>4
    <3>2. \A j \in DOMAIN outbox[c] : ops[outbox[c][j]].edit \in AllEdits
      BY <1>0, <1>k DEF KnownIds
    <3> HIDE DEF msg
    <3> QED
      BY <1>t, <3>1, <3>2, ReplayShows
  <2>7. K \in SUBSET OpIds' /\ K \subseteq Done' \cup ToSet(outbox'[c])
    BY <1>2, <1>r, <1>t, <2>1, <2>4 DEF Done
  <2> HIDE DEF msg
  <2>8. cdoc'[c] = V[EditsIn(ops', K)]
    BY <1>2, <1>r, <2>2, <2>4, <2>6
  <2>9. ToSet(outbox'[c]) \subseteq K
    BY <2>1
  <2> HIDE DEF K
  <2>10. Shows(V, ops', Done', cdoc'[c], K, outbox'[c], down'[sock'[c]], covered'[sock'[c]])
    BY <1>2, <1>r, <2>5, <2>7, <2>8, <2>9 DEF Shows, n
  <2> QED
    BY <2>7, <2>10
<1>3. CASE ReceiveOp(c)
  <2> DEFINE id == Head(down[n]).id
  <2>1. /\ OutboxDelete(c, id) /\ synced' = synced /\ Head(down[n]).type = "op"
        /\ cdoc' = IF id \in ToSet(outbox[c]) \cup live[c] THEN cdoc
                   ELSE [cdoc EXCEPT ![c] = ApplyOp(@, ops[id].edit)]
    BY <1>3 DEF ReceiveOp, Receives, n
  <2>2. id \in LogIds /\ id \in OpIds
    BY <1>0, <1>3, <1>r, <2>1 DEF Holds, LogKnown
  <2>3. PICK K \in SUBSET OpIds :
           Shows(V, ops, Done, cdoc[c], K, outbox[c], down[sock[c]], covered[sock[c]])
    BY <2>1 DEF BrowsersShow
  <2>4. Reaches(down'[n], covered'[n], K \cup {id})
    <3>1. /\ Reaches(down[n], covered[n], K) /\ K \subseteq K \cup {id} /\ Head(down[n]).type # "state"
          /\ Head(down[n]).id \in K \cup {id}
      BY <2>1, <2>3 DEF Shows, n
    <3>2. Reaches(Tail(down[n]), covered[n], K \cup {id})
      BY <1>3, <1>r, <3>1, FollowsTail
    <3> QED
      BY <1>3, <1>r, <3>2
  <2>5. /\ ToSet(outbox[c]) \subseteq ToSet(outbox'[c]) \cup {id}
        /\ ToSet(outbox'[c]) \subseteq ToSet(outbox[c])
    BY <1>0, <2>1, OutboxDeleteKeeps, OutboxDeleteOrdered
  <2> HIDE DEF id
  <2>6. cdoc'[c] = V[EditsIn(ops', K \cup {id})]
    <3>1. CASE id \in ToSet(outbox[c])
      <4>1. K \cup {id} = K /\ cdoc[c] = V[EditsIn(ops, K)]
        BY <2>3, <3>1 DEF Shows
      <4> QED
        BY <1>3, <1>r, <2>1, <3>1, <4>1
    <3>2. CASE id \notin ToSet(outbox[c])
      <4>1. cdoc'[c] = ApplyOp(cdoc[c], ops[id].edit)
        BY <2>1, <3>2 DEF EditsMade, Replicas
      <4>2. cdoc[c] = V[EditsIn(ops, K)] /\ \A i \in K : ops[i].edit \in AllEdits
        BY <1>k, <2>3 DEF Shows
      <4>3. V[EditsIn(ops, K \cup {id})] = ApplyOp(V[EditsIn(ops, K)], ops[id].edit)
        BY <1>k, <2>2, <4>2, EditsAdd
      <4> QED
        BY <1>3, <1>r, <4>1, <4>2, <4>3
    <3> QED
      BY <3>1, <3>2
  <2>7. /\ K \cup {id} \in SUBSET OpIds' /\ ToSet(outbox'[c]) \subseteq K \cup {id}
        /\ K \cup {id} \subseteq Done' \cup ToSet(outbox'[c])
    BY <1>3, <1>r, <2>2, <2>3, <2>5 DEF Shows, Done
  <2>8. Shows(V, ops', Done', cdoc'[c], K \cup {id}, outbox'[c], down'[sock'[c]], covered'[sock'[c]])
    BY <1>3, <1>r, <2>4, <2>6, <2>7 DEF Shows, n
  <2> QED
    BY <2>7, <2>8
<1>4. CASE ReceiveError(c)
  <2> DEFINE id == Head(down[n]).id
  <2>1. OutboxDelete(c, id) /\ UNCHANGED <<synced, cdoc>> /\ Head(down[n]).type = "error"
    BY <1>4 DEF ReceiveError, Receives, n
  <2>2. id \in rejected
    BY <1>4, <1>r, <2>1 DEF Holds
  <2>3. PICK K \in SUBSET OpIds :
           Shows(V, ops, Done, cdoc[c], K, outbox[c], down[sock[c]], covered[sock[c]])
    BY <2>1 DEF BrowsersShow
  <2>4. Reaches(down'[n], covered'[n], K)
    <3>1. /\ Reaches(down[n], covered[n], K) /\ K \subseteq K /\ Head(down[n]).type # "state"
          /\ Head(down[n]).type # "op"
      BY <2>1, <2>3 DEF Shows, n
    <3>2. Reaches(Tail(down[n]), covered[n], K)
      BY <1>4, <1>r, <3>1, FollowsTail
    <3> QED
      BY <1>4, <1>r, <3>2
  <2>5. /\ ToSet(outbox[c]) \subseteq ToSet(outbox'[c]) \cup {id}
        /\ ToSet(outbox'[c]) \subseteq ToSet(outbox[c])
    BY <1>0, <2>1, OutboxDeleteKeeps, OutboxDeleteOrdered
  <2> HIDE DEF id
  <2>6. Shows(V, ops', Done', cdoc'[c], K, outbox'[c], down'[sock'[c]], covered'[sock'[c]])
    BY <1>4, <1>r, <2>1, <2>2, <2>3, <2>4, <2>5 DEF Shows, Done, n
  <2> QED
    BY <1>g, <2>6
<1>5. ASSUME NEW d \in Clients, d # c, NEW e \in EditsOf[d], Commit(d, e) PROVE Goal(c)
  <2>1. UNCHANGED <<synced, sock, down, covered>> /\ cdoc'[c] = cdoc[c] /\ outbox'[c] = outbox[c]
    BY <1>0, <1>5 DEF Commit, Replicas, BrowserTypeOK
  <2> QED
    BY <1>s, <2>1
<1>6. ASSUME NEW d \in Clients, d # c, ReceiveState(d) \/ ReceiveOp(d) \/ ReceiveError(d)
      PROVE  Goal(c)
  <2>1. sock' = sock /\ synced'[c] = synced[c] /\ cdoc'[c] = cdoc[c] /\ outbox'[c] = outbox[c]
    <3>1. sock' = sock /\ synced'[c] = synced[c] /\ cdoc'[c] = cdoc[c]
      BY <1>0, <1>6 DEF ReceiveState, ReceiveOp, ReceiveError, Replicas, BrowserTypeOK
    <3>2. outbox' = outbox \/ \E id : OutboxDelete(d, id)
      BY <1>6 DEF ReceiveState, ReceiveOp, ReceiveError
    <3>3. outbox'[c] = outbox[c]
      BY <1>0, <1>6, <3>2, OutboxDeleteOrdered
    <3> QED
      BY <3>1, <3>3
  <2>2. n # sock[d] /\ n \in Conns
    <3>1. sock[d] \in Conns /\ Owner(sock[d]) = d
      <4>1. sock[d] \in Conns
        BY <1>6, ReceiveTail
      <4>2. sock[d] # NoConn
        BY <4>1, SyncAssumption DEF SyncAssumption
      <4> QED
        BY <1>0, <4>1, <4>2 DEF SocketsOwn
    <3> QED
      BY <1>6, <1>n, <2>1, <3>1
  <2>3. down'[n] = down[n] /\ covered' = covered
    BY <1>6, <2>2, ReceiveTail
  <2> QED
    BY <1>s, <2>1, <2>3
<1>7. ASSUME NEW d \in Clients, Connect(d) PROVE Goal(c)
  <2>1. /\ UNCHANGED <<synced, cdoc, outbox, covered>> /\ sock[d] = NoConn
        /\ \E m \in Conns : Owner(m) = d /\ down' = [down EXCEPT ![m] = <<>>]
                                        /\ sock' = [sock EXCEPT ![d] = m]
    BY <1>7 DEF Connect
  <2>2. synced[c] /\ d # c
    BY <1>0, <2>1 DEF SocketsOwn
  <2>3. n \in Conns /\ Owner(n) = c
    BY <1>n, <2>2
  <2>4. down'[n] = down[n] /\ sock'[c] = sock[c]
    BY <1>0, <2>1, <2>2, <2>3 DEF ConnTypeOK, BrowserTypeOK
  <2> QED
    BY <1>s, <2>1, <2>2, <2>4
<1>8. ASSUME NEW d \in Clients, Disconnect(d) \/ Kicked(d) PROVE Goal(c)
  <2>1. UNCHANGED <<cdoc, outbox, covered, down>> /\ Detach(d)
    BY <1>8 DEF Disconnect, Kicked
  <2>2. d # c /\ synced[c] /\ sock'[c] = sock[c]
    BY <1>0, <2>1 DEF Detach, BrowserTypeOK
  <2> QED
    BY <1>s, <2>1, <2>2
<1>9. ASSUME NEW d \in Clients, NEW e \in LiveEditsOf[d] PROVE FALSE
  BY DEF NoStreaming
<1>10. ASSUME ServerStep \/ CallStep \/ UNCHANGED vars PROVE Goal(c)
  <2>1. UNCHANGED browserVars
    BY <1>10 DEF ServerStep, CallStep, JoinRegister, DialLost, Handle, HandleDuplicate,
       HandleRejected, HandleApply, ServerLeave, CaptureState, EnqueueState, Broadcast, Evict,
       AgentCall, AgentApply, AgentRecord, AgentBroadcast, RestoreSnapshot, BroadcastState, vars
  <2> QED
    BY <1>10, <1>s, <2>1, ServerQueues
<1> QED
  BY <1>1, <1>2, <1>3, <1>4, <1>5, <1>6, <1>7, <1>8, <1>9, <1>10 DEF Next, BrowserStep, Receive

-----------------------------------------------------------------------------
(* Convergence. *)

Shown(V) == EditsMade /\ ServerShows(V) /\ CopiesShow(V) /\ QueuesFollow /\ BrowsersShow(V)

\* Nothing has been made, and whoever is connected shows the document.
LEMMA ShownInit ==
    ASSUME NEW V, Determines(V), Init \/ InitSteady
    PROVE  Shown(V)
<1>1. EditsMade
  BY MadeInit
<1>2. PICK J \in {{}, Clients} : InitWith(J)
  BY DEF Init, InitSteady
<1>3. /\ ops = <<>> /\ log = <<>> /\ rejected = {} /\ captured = {} /\ doc = InitDoc
      /\ \A n \in Conns : down[n] = <<>> /\ covered[n] = {}
      /\ \A c \in Clients : /\ outbox[c] = <<>>
                            /\ synced[c] => c \in J /\ cdoc[c] = InitDoc
                            /\ c \in J => sock[c] = FirstConn(c)
  BY <1>2 DEF InitWith
<1>4. LogIds = {} /\ Done = {}
  BY <1>3 DEF LogIds, Done
<1>5. EditsIn(ops, {}) = {} /\ V[{}] = InitDoc
  BY DEF EditsIn, Determines
<1>6. ServerShows(V)
  BY <1>3, <1>4, <1>5 DEF ServerShows
<1>7. CopiesShow(V) /\ QueuesFollow
  BY <1>3 DEF CopiesShow, QueuesFollow, Follows
<1>8. ASSUME NEW c \in Clients, synced[c]
      PROVE  Shows(V, ops, Done, cdoc[c], {}, outbox[c], down[sock[c]], covered[sock[c]])
  <2>1. sock[c] \in Conns
    <3>1. (CHOOSE s \in Slots : TRUE) \in Slots
      BY SyncAssumption DEF SyncAssumption
    <3>2. FirstConn(c) \in Conns
      BY <3>1 DEF FirstConn, Conns
    <3> QED
      BY <1>3, <1>8, <3>2
  <2>2. Reaches(down[sock[c]], covered[sock[c]], {})
    BY <1>3, <2>1 DEF Reaches
  <2> QED
    BY <1>3, <1>5, <1>8, <2>2, EmptySet DEF Shows
<1>9. BrowsersShow(V)
  BY <1>8 DEF BrowsersShow
<1> QED
  BY <1>1, <1>6, <1>7, <1>9 DEF Shown

\* A browser that has received everything has the operations of the server, and
\* some it refused, which make no difference.
LEMMA ShownConverged ==
    ASSUME NEW V, TypeInv, PeerInv, Shown(V)
    PROVE  SettledConverged
<1> SUFFICES ASSUME NEW c \in Clients, Settled(c) PROVE cdoc[c] = doc
  BY DEF SettledConverged
<1>1. /\ synced[c] /\ sock[c] \in Listening /\ ~Pending(sock[c])
      /\ outbox[c] = <<>> /\ down[sock[c]] = <<>> /\ loop = Idle /\ agent = NoCall
  BY DEF Settled
<1>2. PICK K \in SUBSET OpIds :
         Shows(V, ops, Done, cdoc[c], K, outbox[c], down[sock[c]], covered[sock[c]])
  BY <1>1 DEF Shown, BrowsersShow
<1>3. K \subseteq LogIds \cup rejected /\ cdoc[c] = V[EditsIn(ops, K)]
  BY <1>1, <1>2, EmptySet DEF Shows, Done
<1>4. covered[sock[c]] \subseteq K
  BY <1>1, <1>2 DEF Shows, Reaches, Copyless, Tells
<1>5. LogIds \subseteq covered[sock[c]]
  <2>1. agent.ids = <<>>
    BY <1>1 DEF NoCall
  <2> QED
    BY <1>1, <2>1, EmptySet DEF PeerInv, RestInv, IdleIsNone, PeersMissNothing
<1> DEFINE R == K \cap rejected
<1>6. LogIds \cup R = K /\ R \in SUBSET rejected
  BY <1>3, <1>4, <1>5
<1> HIDE DEF R
<1> QED
  BY <1>3, <1>6 DEF Shown, ServerShows

\* The documents the browsers start with are documents.
LEMMA ReplicasSteady == InitSteady => Replicas
<1> SUFFICES ASSUME InitWith(Clients) PROVE Replicas
  BY DEF InitSteady
<1>1. cdoc = [c \in Clients |-> InitDoc]
  BY DEF InitWith
<1> QED
  BY <1>1, SyncAssumption DEF SyncAssumption, Replicas

\* The invariants together.
AllInv(V) == TypeInv /\ SafeInv /\ AckInv /\ OrderInv /\ Replicas /\ PeerInv /\ Shown(V)

LEMMA AllInit ==
    ASSUME NEW V, Determines(V)
    PROVE  Init \/ (MaxRooms # 0 /\ InitSteady) => AllInv(V)
<1>1. Init => AllInv(V)
  BY TypeInit, SafeInit, AckInit, OrderInit, ReplicaInit, PeerInit, ShownInit DEF AllInv
<1>2. MaxRooms # 0 /\ InitSteady => AllInv(V)
  BY TypeSteady, SteadyInit, ReplicasSteady, PeerInit, ShownInit DEF AllInv
<1> QED
  BY <1>1, <1>2

LEMMA AllStep ==
    ASSUME NEW V, Determines(V), NoStreaming, KnownFields, AllInv(V),
           InTime, WholeBatches, [Next]_vars, NoRestore'
    PROVE  AllInv(V)'
<1> USE DEF AllInv, Shown
<1>1. TypeInv' /\ SafeInv' /\ AckInv' /\ OrderInv' /\ Replicas' /\ PeerInv'
  BY TypeStep, SafeStep, AckStep, OrderStep, ReplicaStep, PeerStep
<1>2. LogKnown
  BY DEF OrderInv
<1>3. EditsMade' /\ QueuesFollow'
  BY MadeStep, QueuesStep
<1>4. ServerShows(V)'
  BY <1>2, ServerStepShows
<1>5. CopiesShow(V)'
  BY <1>2, CopiesStep
<1>6. BrowsersShow(V)'
  BY BrowsersStep
<1> QED
  BY <1>1, <1>3, <1>4, <1>5, <1>6

\* The theorem for one account V of the documents.
LEMMA DeterminedConverges ==
    ASSUME NEW V, Determines(V), NoStreaming, KnownFields
    PROVE  Spec \/ (MaxRooms # 0 /\ SteadySpec) =>
              ([](InTime /\ WholeBatches /\ NoRestore) => []SettledConverged)
<1>1. Init \/ (MaxRooms # 0 /\ InitSteady) => AllInv(V)
  BY AllInit
<1>2. AllInv(V) /\ InTime /\ WholeBatches /\ NoRestore' /\ [Next]_vars => AllInv(V)'
  BY AllStep
<1>3. AllInv(V) => SettledConverged
  BY ShownConverged DEF AllInv
<1> QED
  BY <1>1, <1>2, <1>3, PTL DEF Spec, SteadySpec

\* Browsers converge, whatever is dropped, kicked, replaced, evicted, refused or
\* resent, when the edits that are made leave a document that does not depend on
\* their order: a browser with nothing in its outbox, nothing on its way and
\* nothing in flight on the server shows the server's document.  The two
\* conditions of PeersTold are needed here too, and no snapshot is restored.
THEOREM OrderFreeConverges ==
    OrderFree /\ NoStreaming /\ KnownFields =>
       (Spec \/ (MaxRooms # 0 /\ SteadySpec) =>
          ([](InTime /\ WholeBatches /\ NoRestore) => [](SettledConverged /\ Converged)))
<1> SUFFICES ASSUME OrderFree, NoStreaming, KnownFields
             PROVE  Spec \/ (MaxRooms # 0 /\ SteadySpec) =>
                       ([](InTime /\ WholeBatches /\ NoRestore) => [](SettledConverged /\ Converged))
  OBVIOUS
<1>1. PICK V : Determines(V)
  BY DEF OrderFree
<1>2. Spec \/ (MaxRooms # 0 /\ SteadySpec) =>
         ([](InTime /\ WholeBatches /\ NoRestore) => []SettledConverged)
  BY <1>1, DeterminedConverges
<1>3. SettledConverged => Converged
  BY SettledSuffices
<1> QED
  BY <1>2, <1>3, PTL

-----------------------------------------------------------------------------
(* Boards on which everybody only draws satisfy OrderFree. *)

\* Nothing is deleted, an object is created with one value, a field of an object
\* that was there is written with one value.
Drawing == \A e, f \in AllEdits :
    /\ e.type # "delete"
    /\ e.type = f.type /\ e.objectId = f.objectId /\ (e.type = "update" => e.path = f.path) => e = f
    /\ e.type = "create" /\ f.type = "update" => e.objectId # f.objectId

\* What S creates as x, and what it writes to a field of x.
CreatedIn(S, x) == {e \in S : e.type = "create" /\ e.objectId = x}
WrittenIn(S, x, p) == {e \in S : e.type = "update" /\ e.objectId = x /\ e.path = p}
AnyOf(S) == CHOOSE e \in S : TRUE

\* The object that is x after S, and the document.
FieldAfter(S, x, p) ==
    IF WrittenIn(S, x, p) # {} THEN AnyOf(WrittenIn(S, x, p)).value ELSE InitDoc[x][p]
ObjectAfter(S, x) ==
    IF CreatedIn(S, x) # {} THEN AnyOf(CreatedIn(S, x)).value
    ELSE IF InitDoc[x] = Absent THEN Absent
    ELSE [p \in DOMAIN InitDoc[x] |-> FieldAfter(S, x, p)]
Drawn == [S \in SUBSET AllEdits |-> [x \in ObjIds |-> ObjectAfter(S, x)]]

\* One edit more changes one object.
LEMMA DrawnMore ==
    ASSUME Drawing, NEW S \in SUBSET AllEdits, NEW e \in AllEdits
    PROVE  /\ \A x : x # e.objectId => ObjectAfter(S \cup {e}, x) = ObjectAfter(S, x)
           /\ e.type = "create" => ObjectAfter(S \cup {e}, e.objectId) = e.value
           /\ e.type = "update" =>
                ObjectAfter(S \cup {e}, e.objectId) =
                   IF InitDoc[e.objectId] = Absent THEN Absent
                   ELSE [p \in DOMAIN InitDoc[e.objectId] |->
                           IF p = e.path THEN e.value ELSE FieldAfter(S, e.objectId, p)]
           /\ e.type = "update" => CreatedIn(S, e.objectId) = {}
<1> DEFINE T == S \cup {e}
           id == e.objectId
<1>1. ASSUME NEW x, x # id PROVE ObjectAfter(T, x) = ObjectAfter(S, x)
  <2>1. CreatedIn(T, x) = CreatedIn(S, x)
    BY <1>1 DEF CreatedIn
  <2>2. \A p : WrittenIn(T, x, p) = WrittenIn(S, x, p)
    BY <1>1 DEF WrittenIn
  <2> HIDE DEF T, id
  <2>3. \A p : FieldAfter(T, x, p) = FieldAfter(S, x, p)
    BY <2>2 DEF FieldAfter
  <2>4. [p \in DOMAIN InitDoc[x] |-> FieldAfter(T, x, p)] = [p \in DOMAIN InitDoc[x] |-> FieldAfter(S, x, p)]
    BY <2>3
  <2> QED
    BY <2>1, <2>4 DEF ObjectAfter
<1>2. ASSUME e.type = "create" PROVE ObjectAfter(T, id) = e.value
  <2>1. CreatedIn(T, id) = {e}
    BY <1>2 DEF CreatedIn, Drawing
  <2>2. AnyOf({e}) = e
    BY DEF AnyOf
  <2> HIDE DEF T, id
  <2> QED
    BY <2>1, <2>2 DEF ObjectAfter
<1>3. ASSUME e.type = "update"
      PROVE  /\ CreatedIn(S, id) = {}
             /\ ObjectAfter(T, id) =
                   IF InitDoc[id] = Absent THEN Absent
                   ELSE [p \in DOMAIN InitDoc[id] |-> IF p = e.path THEN e.value ELSE FieldAfter(S, id, p)]
  <2>1. CreatedIn(T, id) = {} /\ CreatedIn(S, id) = {}
    BY <1>3 DEF CreatedIn, Drawing
  <2>2. WrittenIn(T, id, e.path) = {e}
    BY <1>3 DEF WrittenIn, Drawing
  <2>3. \A p : p # e.path => WrittenIn(T, id, p) = WrittenIn(S, id, p)
    BY <1>3 DEF WrittenIn
  <2>4. AnyOf({e}) = e
    BY DEF AnyOf
  <2> HIDE DEF T, id
  <2>5. \A p : FieldAfter(T, id, p) = IF p = e.path THEN e.value ELSE FieldAfter(S, id, p)
    BY <2>2, <2>3, <2>4 DEF FieldAfter
  <2>6. [p \in DOMAIN InitDoc[id] |-> FieldAfter(T, id, p)] =
           [p \in DOMAIN InitDoc[id] |-> IF p = e.path THEN e.value ELSE FieldAfter(S, id, p)]
    BY <2>5
  <2> QED
    BY <2>1, <2>6 DEF ObjectAfter
<1> QED
  BY <1>1, <1>2, <1>3

\* What is written into an object leaves it an object.
LEMMA FieldsStay ==
    ASSUME NEW S \in SUBSET AllEdits, \A e \in AllEdits : e \in Edit,
           NEW x, InitDoc[x] \in Object
    PROVE  [p \in DOMAIN InitDoc[x] |-> FieldAfter(S, x, p)] \in Object
<1> DEFINE o == InitDoc[x]
           W(p) == WrittenIn(S, x, p)
<1>1. \A p : W(p) # {} => AnyOf(W(p)) \in W(p)
  BY DEF AnyOf
<1>2. ASSUME NEW p, W(p) # {}
      PROVE  AnyOf(W(p)) \in Updates /\ AnyOf(W(p)).path = p
  <2>1. AnyOf(W(p)) \in W(p)
    BY <1>1, <1>2
  <2> HIDE DEF W
  <2>2. AnyOf(W(p)) \in S /\ AnyOf(W(p)).type = "update" /\ AnyOf(W(p)).path = p
    BY <2>1 DEF W, WrittenIn
  <2>3. AnyOf(W(p)) \in Edit
    BY <2>2
  <2>4. AnyOf(W(p)) \notin Creates \cup Deletes
    BY <2>2 DEF Creates, Deletes
  <2> QED
    BY <2>2, <2>3, <2>4 DEF Edit
<1> HIDE DEF W
<1>3. \A p : FieldAfter(S, x, p) = IF W(p) # {} THEN AnyOf(W(p)).value ELSE o[p]
  BY DEF FieldAfter, W
<1>4. ASSUME NEW p, W(p) # {}
      PROVE  \/ p \in {"val", "cornerRadius"} /\ FieldAfter(S, x, p) \in Vals
             \/ p \in {"parentId", "fromId", "toId"} /\ FieldAfter(S, x, p) \in Ref
  <2>1. FieldAfter(S, x, p) = AnyOf(W(p)).value
    BY <1>3, <1>4
  <2> QED
    BY <1>2, <1>4, <2>1 DEF Updates
<1>5. ASSUME NEW p, W(p) = {} PROVE FieldAfter(S, x, p) = o[p]
  BY <1>3, <1>5
<1>6. /\ FieldAfter(S, x, "type") \in Types
      /\ FieldAfter(S, x, "parentId") \in Ref /\ FieldAfter(S, x, "fromId") \in Ref
      /\ FieldAfter(S, x, "toId") \in Ref
      /\ FieldAfter(S, x, "cornerRadius") \in Vals /\ FieldAfter(S, x, "val") \in Vals
  BY <1>4, <1>5 DEF Object
<1>7. DOMAIN o = {"type", "parentId", "fromId", "toId", "cornerRadius", "val"}
  BY DEF Object
<1> HIDE DEF o
<1>8. [p \in DOMAIN o |-> FieldAfter(S, x, p)] \in Object
  BY <1>6, <1>7 DEF Object
<1> QED
  BY <1>8 DEF o

\* Drawing is order free.
LEMMA DrawingOrderFree == Drawing => OrderFree
<1> SUFFICES ASSUME Drawing PROVE Determines(Drawn)
  BY DEF OrderFree
<1>0. /\ InitDoc \in [ObjIds -> Object \cup {Absent}] /\ Absent \notin Object
      /\ \A e \in AllEdits : e \in Edit
  BY SyncAssumption, DocumentAssumption DEF SyncAssumption, Objects, AllEdits, Actors
<1>1. Drawn[{}] = InitDoc
  <2>1. ASSUME NEW x \in ObjIds PROVE ObjectAfter({}, x) = InitDoc[x]
    <3>1. CreatedIn({}, x) = {} /\ \A p : WrittenIn({}, x, p) = {}
      BY DEF CreatedIn, WrittenIn
    <3>2. \A p : FieldAfter({}, x, p) = InitDoc[x][p]
      BY <3>1 DEF FieldAfter
    <3>3. InitDoc[x] # Absent => InitDoc[x] = [p \in DOMAIN InitDoc[x] |-> InitDoc[x][p]]
      BY <1>0 DEF Object
    <3>4. [p \in DOMAIN InitDoc[x] |-> FieldAfter({}, x, p)] = [p \in DOMAIN InitDoc[x] |-> InitDoc[x][p]]
      BY <3>2
    <3> QED
      BY <3>1, <3>3, <3>4 DEF ObjectAfter
  <2>2. Drawn[{}] = [x \in ObjIds |-> ObjectAfter({}, x)]
    BY DEF Drawn
  <2>3. InitDoc = [x \in ObjIds |-> InitDoc[x]]
    BY <1>0
  <2> QED
    BY <2>1, <2>2, <2>3
<1>2. ASSUME NEW S \in SUBSET AllEdits, NEW e \in AllEdits
      PROVE  ApplyOp(Drawn[S], e) = Drawn[S \cup {e}]
  <2> DEFINE d == Drawn[S]
             d2 == Drawn[S \cup {e}]
             id == e.objectId
  <2>1. /\ d = [x \in ObjIds |-> ObjectAfter(S, x)]
        /\ d2 = [x \in ObjIds |-> ObjectAfter(S \cup {e}, x)]
    BY DEF Drawn
  <2>2. /\ \A x : x # id => ObjectAfter(S \cup {e}, x) = ObjectAfter(S, x)
        /\ e.type = "create" => ObjectAfter(S \cup {e}, id) = e.value
        /\ e.type = "update" =>
             ObjectAfter(S \cup {e}, id) =
                IF InitDoc[id] = Absent THEN Absent
                ELSE [p \in DOMAIN InitDoc[id] |-> IF p = e.path THEN e.value ELSE FieldAfter(S, id, p)]
        /\ e.type = "update" => CreatedIn(S, id) = {}
    BY DrawnMore
  <2> HIDE DEF d, d2
  <2>3. e \in Creates \/ e \in Updates
    BY <1>0 DEF Drawing, Edit, Deletes
  <2>4. CASE e \in Creates
    <3>1. e.type = "create" /\ id \in ObjIds
      BY <2>4 DEF Creates
    <3>2. ApplyOp(d, e) = [d EXCEPT ![id] = e.value]
      BY <3>1 DEF ApplyOp
    <3>3. d2 = [d EXCEPT ![id] = e.value]
      BY <2>1, <2>2, <3>1
    <3> QED
      BY <3>2, <3>3 DEF d, d2
  <2>5. CASE e \in Updates
    <3>1. e.type = "update" /\ id \in ObjIds /\ e.path \in Paths
      BY <2>5 DEF Updates, Paths, ServerPaths
    <3>2. d[id] = IF InitDoc[id] = Absent THEN Absent
                  ELSE [p \in DOMAIN InitDoc[id] |-> FieldAfter(S, id, p)]
      BY <2>1, <2>2, <3>1 DEF ObjectAfter
    <3>3. CASE InitDoc[id] = Absent
      <4>1. ApplyOp(d, e) = d
        BY <3>1, <3>2, <3>3 DEF ApplyOp, Bound
      <4>2. d2 = d
        BY <2>1, <2>2, <3>1, <3>2, <3>3
      <4> QED
        BY <4>1, <4>2 DEF d, d2
    <3>4. CASE InitDoc[id] # Absent
      <4> DEFINE fields == DOMAIN InitDoc[id]
      <4>1. fields = {"type", "parentId", "fromId", "toId", "cornerRadius", "val"}
        BY <1>0, <3>1, <3>4 DEF Object
      <4>2. e.path \in fields
        BY <3>1, <4>1 DEF Paths, ServerPaths
      <4>3. d[id] = [p \in fields |-> FieldAfter(S, id, p)]
        BY <3>2, <3>4
      <4>4. d2[id] = [p \in fields |-> IF p = e.path THEN e.value ELSE FieldAfter(S, id, p)]
        BY <2>1, <2>2, <3>1, <3>4
      <4> HIDE DEF fields
      <4>5. d2[id] = [d[id] EXCEPT ![e.path] = e.value]
        BY <4>2, <4>3, <4>4
      <4>6. d[id] # Absent
        <5>1. d[id] \in Object
          BY <1>0, <3>1, <3>4, <4>3, FieldsStay DEF fields
        <5> QED
          BY <1>0, <5>1
      <4>7. ApplyOp(d, e) = [d EXCEPT ![id] = [d[id] EXCEPT ![e.path] = e.value]]
        BY <2>1, <3>1, <4>6 DEF ApplyOp, Bound
      <4>8. d2 = [d EXCEPT ![id] = d2[id]]
        BY <2>1, <2>2, <3>1
      <4> QED
        BY <4>5, <4>7, <4>8 DEF d, d2
    <3> QED
      BY <3>3, <3>4
  <2> QED
    BY <2>3, <2>4, <2>5
<1> QED
  BY <1>1, <1>2 DEF Determines

\* On a board where everybody only draws the browsers converge.
THEOREM DrawingConverges ==
    Drawing /\ NoStreaming /\ KnownFields =>
        (Spec \/ (MaxRooms # 0 /\ SteadySpec) =>
            ([](InTime /\ WholeBatches /\ NoRestore) => [](SettledConverged /\ Converged)))
BY DrawingOrderFree, OrderFreeConverges
=============================================================================
