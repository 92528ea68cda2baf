----------------------------- MODULE BoardSync ------------------------------
(***************************************************************************)
(* One board, edited by browsers over WebSockets and by an MCP agent over  *)
(* HTTP: hub.Room and hub.Registry.Apply on the server (internal/hub), and *)
(* useBoardSession in every browser (web/src/lib).                         *)
(*                                                                         *)
(* A browser applies its own operation at once, keeps it in an outbox      *)
(* until the server acknowledges it, and replays the outbox over the state *)
(* it receives after every reconnection.  The room applies operations one  *)
(* at a time to the shared record, remembers the ids of the recent ones,   *)
(* and sends each to every client, the sender's copy being its ack.        *)
(*                                                                         *)
(* An operation id is its index in the history variable ops.  The record   *)
(* stays loaded here; BoardStore is about the record and its files.        *)
(***************************************************************************)
EXTENDS Document, Integers, Sequences, SequencesExt

CONSTANTS
    Clients,      \* browser sessions (one sessionId each)
    Agent,        \* the MCP agent
    Slots,        \* per client, connections alive at once on either side
    NoConn,       \* no connection
    EditsOf,      \* the edits an actor may commit
    LiveEditsOf,  \* the edits a client may stream while it drags
    InitDoc,      \* the document when the server starts
    SendBuffer,   \* hub.SendBuffer
    RecentOps,    \* hub.recentOpIDs
    MaxOps,       \* bound: operations ever made
    MaxBatch,     \* bound: operations in one call of Apply
    MaxDrops,     \* bound: connections lost
    MaxRooms,     \* bound: rooms ever opened
    MaxRestores   \* bound: snapshots restored

Conns == Clients \X Slots
Owner(n) == n[1]

ASSUME SyncAssumption ==
    /\ Agent \notin Clients
    /\ NoConn \notin Conns
    /\ EditsOf \in [Clients \cup {Agent} -> SUBSET Edit]
    /\ LiveEditsOf \in [Clients -> SUBSET Edit]
    /\ Slots # {}
    /\ InitDoc \in Objects
    /\ {SendBuffer, RecentOps} \subseteq Nat \ {0}
    /\ {MaxOps, MaxBatch, MaxDrops, MaxRooms, MaxRestores} \subseteq Nat

Idle == 0   \* the room's loop, when it is handling nothing

VARIABLES
  \* The server.
    doc,        \* rec.Document
    roomOpen,   \* the registry has a room for the board
    rooms,      \* rooms opened so far; the last one is the open one
    opOrder,    \* Room.opOrder; Room.opSeen is the set of its elements
    loop,       \* the operation handle has applied and not yet broadcast
    clients,    \* Room.clients
    stage,      \* a connection: "idle", "dialing" or "joined"
    closed,     \* Client.closed
    toState,    \* calls of sendState that have not copied the document yet
    captured,   \* calls of sendState that have, and have not sent the copy
    agent,      \* Registry.Apply: the edits left to apply under the record's
                \* lock, the ids applied and left to broadcast
    restoring,  \* restoreSnapshot, between the restore and BroadcastState
  \* The two directions of a connection.
    up,         \* operations between the browser and handle (socket, inbox)
    down,       \* envelopes between the hub and the browser (Send, socket)
  \* The browsers.
    sock,       \* wsRef
    synced,     \* syncedRef
    cdoc,       \* doc, the replica shown
    outbox,     \* outboxRef, in insertion order
    live,       \* liveOpsRef
  \* History.
    ops,        \* every operation made, [by, edit, live]
    log,        \* applications of operations to doc, [id, room]
    rejected,   \* operations answered with an error
    covered,    \* per connection, operations its last state or a later op told
    drops, restores

serverVars  == <<doc, roomOpen, rooms, opOrder>>
connVars    == <<clients, stage>>
sendVars    == <<toState, captured>>
callVars    == <<agent, restoring>>
browserVars == <<sock, synced, cdoc, outbox, live>>
logVars     == <<log, rejected>>
boundVars   == <<drops, restores>>
vars == <<serverVars, loop, connVars, closed, sendVars, callVars, up, down,
          browserVars, ops, logVars, covered, boundVars>>

OpIds == 1 .. Len(ops)
LogIds == {log[k].id : k \in DOMAIN log}

\* Connections that reach broadcast: registered and not closed.
Listening == {n \in Conns : clients[Owner(n)] = n /\ ~closed[n]}

NoCall == [pc |-> "idle", edits |-> <<>>, ids |-> <<>>]

\* rec.mu is free: of its holders, only Apply takes more than one step here.
RecUnlocked == agent.pc # "applying"

-----------------------------------------------------------------------------
\* A server that has been started, and the clients J joined.
FirstConn(c) == <<c, CHOOSE s \in Slots : TRUE>>

InitWith(J) ==
    LET joined == {FirstConn(c) : c \in J}
        conn == [c \in Clients |-> IF c \in J THEN FirstConn(c) ELSE NoConn]
    IN
    /\ doc = InitDoc
    /\ roomOpen = (J # {})
    /\ rooms = IF J = {} THEN 0 ELSE 1
    /\ opOrder = <<>>
    /\ loop = Idle
    /\ clients = conn /\ sock = conn
    /\ stage = [n \in Conns |-> IF n \in joined THEN "joined" ELSE "idle"]
    /\ closed = [n \in Conns |-> n \notin joined]
    /\ toState = {} /\ captured = {}
    /\ agent = NoCall
    /\ restoring = FALSE
    /\ up = [n \in Conns |-> <<>>] /\ down = [n \in Conns |-> <<>>]
    /\ synced = [c \in Clients |-> c \in J]
    /\ cdoc = [c \in Clients |-> IF c \in J THEN InitDoc ELSE NoObjects]
    /\ outbox = [c \in Clients |-> <<>>]
    /\ live = [c \in Clients |-> {}]
    /\ ops = <<>> /\ log = <<>> /\ rejected = {}
    /\ covered = [n \in Conns |-> {}]
    /\ drops = 0 /\ restores = 0

Init == InitWith({})

\* Sessions in progress: for questions that are not about joining.
InitSteady == InitWith(Clients)

(***************************************************************************)
(* Sending to clients: send and broadcast, both through deliverLocked.     *)
(***************************************************************************)

\* Queue msg for the targets, and close (kick) those whose queue is full.
\* down also holds what has left the queue for the network, so a queue may
\* be full once down holds SendBuffer envelopes, and need not be.
Deliver(targets, msg) ==
    \E full \in SUBSET {n \in targets : Len(down[n]) >= SendBuffer} :
        /\ down' = [n \in Conns |->
                      IF n \in targets \ full THEN Append(down[n], msg) ELSE down[n]]
        /\ closed' = [n \in Conns |-> closed[n] \/ n \in full]
        /\ covered' = [n \in Conns |->
              IF n \notin targets \ full THEN covered[n]
              ELSE CASE msg.type = "state" -> msg.upto
                     [] msg.type = "op" -> covered[n] \cup {msg.id}
                     [] msg.type = "error" -> covered[n]]

\* Pongs, presence, cursors and chat pass through the same queues and are left
\* out: SendBuffer bounds the envelopes that are modelled.

\* send: a client that is already closed gets nothing.
Open(n) == {m \in {n} : ~closed[m]}

OpEnvelope(id) == [type |-> "op", id |-> id]

\* Mutant: the error path falls through to the acknowledgement.
ErrorEnvelopeAcks(id) == [type |-> "op", id |-> id]

ErrorEnvelope(id) == [type |-> "error", id |-> id]
StateEnvelope(objs, upto) == [type |-> "state", objs |-> objs, upto |-> upto]

\* Mutants: nothing is forgotten, one id too many is, nothing is recorded.
RecordOpsUntrimmed(ids) == opOrder \o ids
RecordOpsShort(ids) ==
    LET new == opOrder \o ids
    IN  SubSeq(new, Len(new) - RecentOps + 2, Len(new))
RecordOpsNever(ids) == opOrder

\* recordOps: append the ids, none of them recorded yet (handle has looked, and
\* those of Apply are new), then forget the oldest.
RecordOps(ids) ==
    LET new == opOrder \o ids
        excess == Len(new) - RecentOps
    IN  IF excess > 0 THEN SubSeq(new, excess + 1, Len(new)) ELSE new

(***************************************************************************)
(* The browser makes an operation.                                         *)
(***************************************************************************)

\* Mutant: sent as soon as there is a connection, before the outbox is.
SendOpUnsynced(c, id) ==
    up' = IF sock[c] # NoConn /\ stage[sock[c]] = "joined"
          THEN [up EXCEPT ![sock[c]] = Append(@, id)] ELSE up

\* The operation reaches a reader only while the connection is joined.
SendOp(c, id) ==
    LET n == sock[c]
        sent == synced[c] /\ stage[n] = "joined"
    IN  up' = IF sent THEN [up EXCEPT ![n] = Append(@, id)] ELSE up

\* newId names a created object, and deleteObject looks its object up first.
Sensible(objs, e) ==
    /\ e.type = "create" => e.objectId \notin Bound(objs)
    /\ e.type = "delete" => e.objectId \in Bound(objs)

\* commitOp, from createObject, updateObject and deleteObject.
Commit(c, e) ==
    /\ Len(ops) + Len(agent.edits) < MaxOps
    /\ Sensible(cdoc[c], e)
    /\ ops' = Append(ops, [by |-> c, edit |-> e, live |-> FALSE])
    /\ cdoc' = [cdoc EXCEPT ![c] = ApplyOp(@, e)]
    /\ outbox' = [outbox EXCEPT ![c] = Append(@, Len(ops) + 1)]
    /\ SendOp(c, Len(ops) + 1)
    /\ UNCHANGED <<serverVars, loop, connVars, closed, sendVars, callVars, down,
                   sock, synced, live, logVars, covered, boundVars>>

\* updateObjectLive: sent if it can be, never queued, not applied locally.
CommitLive(c, e) ==
    /\ Len(ops) + Len(agent.edits) < MaxOps
    /\ synced[c]
    /\ ops' = Append(ops, [by |-> c, edit |-> e, live |-> TRUE])
    /\ live' = [live EXCEPT ![c] = @ \cup {Len(ops) + 1}]
    /\ SendOp(c, Len(ops) + 1)
    /\ UNCHANGED <<serverVars, loop, connVars, closed, sendVars, callVars, down,
                   sock, synced, cdoc, outbox, logVars, covered, boundVars>>

(***************************************************************************)
(* Connecting: connect in the browser, wsBoard and Join on the server.     *)
(***************************************************************************)
Pending(n) == \E s \in toState \cup captured : s.conn = n

\* connect.  A slot is taken again once nothing of its last use is left.
Connect(c) ==
    /\ sock[c] = NoConn
    /\ \E n \in Conns :
        /\ Owner(n) = c
        /\ stage[n] = "idle" /\ up[n] = <<>> /\ ~Pending(n)
        /\ sock' = [sock EXCEPT ![c] = n]
        /\ stage' = [stage EXCEPT ![n] = "dialing"]
        /\ down' = [down EXCEPT ![n] = <<>>]
    /\ UNCHANGED <<serverVars, loop, clients, closed, sendVars, callVars, up,
                   synced, cdoc, outbox, live, ops, logVars, covered, boundVars>>

\* Join as far as the registration: ensureRoom, close the connection the
\* session had, take its place.  The browser may be gone by now.
JoinRegister(n) ==
    /\ stage[n] = "dialing"
    /\ roomOpen \/ rooms < MaxRooms
    /\ roomOpen' = TRUE
    /\ rooms' = IF roomOpen THEN rooms ELSE rooms + 1
    /\ opOrder' = IF roomOpen THEN opOrder ELSE <<>>
    /\ stage' = [stage EXCEPT ![n] = "joined"]
    /\ clients' = [clients EXCEPT ![Owner(n)] = n]
    /\ closed' = [m \in Conns |->
                    IF m = n THEN FALSE ELSE closed[m] \/ m = clients[Owner(n)]]
    /\ toState' = toState \cup {[conn |-> n, why |-> "join"]}
    /\ UNCHANGED <<doc, loop, captured, callVars, up, down, browserVars,
                   ops, logVars, covered, boundVars>>

\* sendState under the record's lock ...
CaptureState(s) ==
    /\ s \in toState
    /\ RecUnlocked
    /\ toState' = toState \ {s}
    /\ captured' = captured \cup
          {[conn |-> s.conn, why |-> s.why, objs |-> doc, upto |-> LogIds]}
    /\ UNCHANGED <<serverVars, loop, connVars, closed, callVars, up, down,
                   browserVars, ops, logVars, covered, boundVars>>

\* ... and after it.
EnqueueState(s) ==
    /\ s \in captured
    /\ captured' = captured \ {s}
    /\ Deliver(Open(s.conn), StateEnvelope(s.objs, s.upto))
    /\ UNCHANGED <<serverVars, loop, connVars, toState, callVars, up,
                   browserVars, ops, logVars, boundVars>>

\* A browser that hung up before the server accepted.
DialLost(n) ==
    /\ stage[n] = "dialing"
    /\ sock[Owner(n)] # n
    /\ stage' = [stage EXCEPT ![n] = "idle"]
    /\ UNCHANGED <<serverVars, loop, clients, closed, sendVars, callVars, up, down,
                   browserVars, ops, logVars, covered, boundVars>>

(***************************************************************************)
(* The room's loop: handle of an "op" envelope.                            *)
(***************************************************************************)

\* handle, up to the test of opApplied and the answer of Apply.
Takes(n) ==
    /\ roomOpen
    /\ loop = Idle
    /\ up[n] # <<>>
    /\ up' = [up EXCEPT ![n] = Tail(@)]

\* Mutant: what has been applied already gets no second acknowledgement.
HandleDuplicateSilent(n) ==
    /\ Takes(n)
    /\ Head(up[n]) \in ToSet(opOrder)
    /\ UNCHANGED <<serverVars, loop, connVars, closed, sendVars, callVars, down,
                   browserVars, ops, logVars, covered, boundVars>>

HandleDuplicate(n) ==
    /\ Takes(n)
    /\ Head(up[n]) \in ToSet(opOrder)
    /\ Deliver(Open(n), OpEnvelope(Head(up[n])))
    /\ UNCHANGED <<serverVars, loop, connVars, sendVars, callVars, browserVars,
                   ops, logVars, boundVars>>

HandleRejected(n) ==
    LET id == Head(up[n]) IN
    /\ Takes(n)
    /\ RecUnlocked /\ id \notin ToSet(opOrder)
    /\ Rejects(doc, ops[id].edit)
    /\ rejected' = rejected \cup {id}
    /\ Deliver(Open(n), ErrorEnvelope(id))
    /\ UNCHANGED <<serverVars, loop, connVars, sendVars, callVars, browserVars,
                   ops, log, boundVars>>

\* Apply under the record's lock, then recordOps.  Nobody but this loop reads
\* opSeen, so the two are one step; Broadcast is the third.
HandleApply(n) ==
    LET id == Head(up[n]) IN
    /\ Takes(n)
    /\ RecUnlocked /\ id \notin ToSet(opOrder)
    /\ ~Rejects(doc, ops[id].edit)
    /\ doc' = Apply(doc, ops[id].edit)
    /\ opOrder' = RecordOps(<<id>>)
    /\ log' = Append(log, [id |-> id, room |-> rooms])
    /\ loop' = id
    /\ UNCHANGED <<roomOpen, rooms, connVars, closed, sendVars, callVars, down,
                   browserVars, ops, rejected, covered, boundVars>>

Broadcast ==
    /\ loop # Idle
    /\ Deliver(Listening, OpEnvelope(loop))
    /\ loop' = Idle
    /\ UNCHANGED <<serverVars, connVars, sendVars, callVars, up, browserVars,
                   ops, logVars, boundVars>>

(***************************************************************************)
(* The browser receives: handleMessage and onState.                        *)
(***************************************************************************)
Receives(c, type) ==
    LET n == sock[c] IN
    /\ n # NoConn
    /\ down[n] # <<>>
    /\ Head(down[n]).type = type
    /\ down' = [down EXCEPT ![n] = Tail(@)]

\* applyOps(msg.document, queued)
Replay(objs, ids) == FoldLeft(LAMBDA d, id : ApplyOp(d, ops[id].edit), objs, ids)

\* onState: rebase the outbox on the document and send it again.
ReceiveState(c) ==
    LET n == sock[c] IN
    /\ Receives(c, "state")
    /\ cdoc' = [cdoc EXCEPT ![c] = Replay(Head(down[n]).objs, outbox[c])]
    /\ live' = [live EXCEPT ![c] = {}]
    /\ synced' = [synced EXCEPT ![c] = TRUE]
    /\ up' = IF stage[n] = "joined" THEN [up EXCEPT ![n] = @ \o outbox[c]] ELSE up
    /\ UNCHANGED <<serverVars, loop, connVars, closed, sendVars, callVars,
                   sock, outbox, ops, logVars, covered, boundVars>>

\* Mutant: whatever is received acknowledges the oldest operation.
OutboxShift(c, id) ==
    outbox' = [outbox EXCEPT ![c] = IF @ = <<>> THEN @ ELSE Tail(@)]

\* outboxRef.current.delete(id)
OutboxDelete(c, id) ==
    IF id \in ToSet(outbox[c])
    THEN \E p \in DOMAIN outbox[c] :
            outbox[c][p] = id /\ outbox' = [outbox EXCEPT ![c] = RemoveAt(@, p)]
    ELSE UNCHANGED outbox

\* The own echo of a committed or streamed operation only advances rev; any
\* other operation is applied.
ReceiveOp(c) ==
    LET id == Head(down[sock[c]]).id
        echo == id \in ToSet(outbox[c]) \cup live[c]
    IN
    /\ Receives(c, "op")
    /\ OutboxDelete(c, id)
    /\ live' = [live EXCEPT ![c] = IF id \in ToSet(outbox[c]) THEN @ ELSE @ \ {id}]
    /\ cdoc' = IF echo THEN cdoc ELSE [cdoc EXCEPT ![c] = ApplyOp(@, ops[id].edit)]
    /\ UNCHANGED <<serverVars, loop, connVars, closed, sendVars, callVars, up,
                   sock, synced, ops, logVars, covered, boundVars>>

ReceiveError(c) ==
    LET id == Head(down[sock[c]]).id IN
    /\ Receives(c, "error")
    /\ OutboxDelete(c, id)
    /\ live' = [live EXCEPT ![c] = @ \ {id}]
    /\ UNCHANGED <<serverVars, loop, connVars, closed, sendVars, callVars, up,
                   sock, synced, cdoc, ops, logVars, covered, boundVars>>

(***************************************************************************)
(* Connections end.                                                        *)
(***************************************************************************)

\* What is on its way to the server is cut at some point.
CutUp(n) == \E k \in 0 .. Len(up[n]) : up' = [up EXCEPT ![n] = SubSeq(@, 1, k)]

\* detach, which schedules the retry that Connect is.
Detach(c) ==
    /\ sock' = [sock EXCEPT ![c] = NoConn]
    /\ synced' = [synced EXCEPT ![c] = FALSE]
    /\ live' = [live EXCEPT ![c] = {}]

\* The network fails, or the heartbeat finds the socket stale.
Disconnect(c) ==
    LET n == sock[c] IN
    /\ n # NoConn
    /\ drops < MaxDrops
    /\ drops' = drops + 1
    /\ Detach(c)
    /\ CutUp(n)
    /\ UNCHANGED <<serverVars, loop, connVars, closed, sendVars, callVars, down,
                   cdoc, outbox, ops, logVars, covered, restores>>

\* A client the server closed reads what was queued, then the close frame.
Kicked(c) ==
    LET n == sock[c] IN
    /\ n # NoConn
    /\ stage[n] # "dialing"
    /\ closed[n] /\ down[n] = <<>>
    /\ Detach(c)
    /\ UNCHANGED <<serverVars, loop, connVars, closed, sendVars, callVars, up, down,
                   cdoc, outbox, ops, logVars, covered, boundVars>>

\* wsBoard's Read fails and Leave runs.  Envelopes already read stay in the
\* room's inbox.
ServerLeave(n) ==
    LET c == Owner(n) IN
    /\ stage[n] = "joined"
    /\ ~\E s \in toState \cup captured : s.conn = n /\ s.why = "join"
    /\ sock[c] # n \/ closed[n]
    /\ stage' = [stage EXCEPT ![n] = "idle"]
    /\ closed' = [closed EXCEPT ![n] = TRUE]
    /\ clients' = IF clients[c] = n THEN [clients EXCEPT ![c] = NoConn] ELSE clients
    /\ CutUp(n)
    /\ UNCHANGED <<serverVars, loop, sendVars, callVars, down, browserVars,
                   ops, logVars, covered, boundVars>>

\* evictLater, 30 s after the last client left: the room, its inbox and its
\* memory of operation ids go.  A connection of that room, replaced and not
\* gone yet, has nobody to submit to any more, and what Apply has left to
\* broadcast is for the clients of a room that has none.
Evict ==
    /\ roomOpen
    /\ \A c \in Clients : clients[c] = NoConn
    /\ roomOpen' = FALSE
    /\ opOrder' = <<>>
    /\ up' = [n \in Conns |-> <<>>]
    /\ loop' = Idle
    /\ stage' = [n \in Conns |-> IF stage[n] = "joined" THEN "idle" ELSE stage[n]]
    /\ agent' = IF agent.pc = "recorded" THEN NoCall ELSE agent
    /\ UNCHANGED <<doc, rooms, clients, closed, sendVars, restoring, down,
                   browserVars, ops, logVars, covered, boundVars>>

(***************************************************************************)
(* The agent: Registry.Apply, on the goroutine of an MCP request.          *)
(***************************************************************************)

\* Apply takes the record's lock.
AgentCall(edits) ==
    /\ agent.pc = "idle"
    /\ Len(ops) + Len(edits) <= MaxOps
    /\ agent' = [pc |-> "applying", edits |-> edits, ids |-> <<>>]
    /\ UNCHANGED <<serverVars, loop, connVars, closed, sendVars, restoring, up, down,
                   browserVars, ops, logVars, covered, boundVars>>

\* One turn of its loop.  An error leaves the edits before it applied, and
\* returns before anything is recorded or broadcast.
AgentApply ==
    LET e == Head(agent.edits)
        id == Len(ops) + 1
        rest == Tail(agent.edits)
    IN
    /\ agent.pc = "applying"
    /\ ops' = Append(ops, [by |-> Agent, edit |-> e, live |-> FALSE])
    /\ IF Rejects(doc, e)
       THEN agent' = NoCall /\ UNCHANGED <<doc, log>>
       ELSE /\ doc' = Apply(doc, e)
            /\ log' = Append(log, [id |-> id, room |-> rooms])
            /\ agent' = [pc |-> IF rest = <<>> THEN "applied" ELSE "applying",
                         edits |-> rest, ids |-> Append(agent.ids, id)]
    /\ UNCHANGED <<roomOpen, rooms, opOrder, loop, connVars, closed, sendVars,
                   restoring, up, down, browserVars, rejected, covered, boundVars>>

\* The room, if there is one, records the ids of the batch ...
AgentRecord ==
    /\ agent.pc = "applied"
    /\ opOrder' = IF roomOpen THEN RecordOps(agent.ids) ELSE opOrder
    /\ agent' = IF roomOpen THEN [agent EXCEPT !.pc = "recorded"] ELSE NoCall
    /\ UNCHANGED <<doc, roomOpen, rooms, loop, connVars, closed, sendVars, restoring,
                   up, down, browserVars, ops, logVars, covered, boundVars>>

\* Mutant: only the first operation of a batch is broadcast.
AgentBroadcastFirst ==
    /\ agent.pc = "recorded"
    /\ agent' = NoCall
    /\ Deliver(Listening, OpEnvelope(Head(agent.ids)))
    /\ UNCHANGED <<serverVars, loop, connVars, sendVars, restoring, up, browserVars,
                   ops, logVars, boundVars>>

\* ... and broadcasts one operation after the other.
AgentBroadcast ==
    /\ agent.pc = "recorded"
    /\ agent' = IF Len(agent.ids) = 1 THEN NoCall ELSE [agent EXCEPT !.ids = Tail(@)]
    /\ Deliver(Listening, OpEnvelope(Head(agent.ids)))
    /\ UNCHANGED <<serverVars, loop, connVars, sendVars, restoring, up, browserVars,
                   ops, logVars, boundVars>>

(***************************************************************************)
(* restoreSnapshot of the API: the store replaces the document, then       *)
(* BroadcastState sends it to every client of the room.                    *)
(***************************************************************************)
RestoreSnapshot ==
    /\ ~restoring /\ RecUnlocked
    /\ restores < MaxRestores
    /\ restores' = restores + 1
    /\ doc' = InitDoc
    /\ restoring' = TRUE
    /\ UNCHANGED <<roomOpen, rooms, opOrder, loop, connVars, closed, sendVars, agent,
                   up, down, browserVars, ops, logVars, covered, drops>>

BroadcastState ==
    /\ restoring
    /\ restoring' = FALSE
    /\ toState' = toState \cup
          {[conn |-> n, why |-> "restore"] : n \in {m \in Conns : clients[Owner(m)] = m}}
    /\ UNCHANGED <<serverVars, loop, connVars, closed, captured, agent, up, down,
                   browserVars, ops, logVars, covered, boundVars>>

-----------------------------------------------------------------------------
Receive(c) == ReceiveState(c) \/ ReceiveOp(c) \/ ReceiveError(c)
Handle(n) == HandleDuplicate(n) \/ HandleRejected(n) \/ HandleApply(n)
Batches == UNION {[1 .. k -> EditsOf[Agent]] : k \in 1 .. MaxBatch}

BrowserStep ==
    \E c \in Clients :
        \/ \E e \in EditsOf[c] : Commit(c, e)
        \/ \E e \in LiveEditsOf[c] : CommitLive(c, e)
        \/ Connect(c) \/ Receive(c) \/ Disconnect(c) \/ Kicked(c)

ServerStep ==
    \/ \E n \in Conns : JoinRegister(n) \/ DialLost(n) \/ Handle(n) \/ ServerLeave(n)
    \/ \E s \in toState : CaptureState(s)
    \/ \E s \in captured : EnqueueState(s)
    \/ Broadcast \/ Evict

CallStep ==
    \/ \E edits \in Batches : AgentCall(edits)
    \/ AgentApply \/ AgentRecord \/ AgentBroadcast \/ RestoreSnapshot \/ BroadcastState

Next == BrowserStep \/ ServerStep \/ CallStep

Spec == Init /\ [][Next]_vars
SteadySpec == InitSteady /\ [][Next]_vars
-----------------------------------------------------------------------------
(* Properties *)

Sends == [conn : Conns, why : {"join", "restore"}]
Copies == [conn : Conns, why : {"join", "restore"}, objs : Objects, upto : SUBSET Nat]
Envelopes == [type : {"state"}, objs : Objects, upto : SUBSET Nat]
             \cup [type : {"op", "error"}, id : Nat]

ServerTypeOK ==
    /\ doc \in Objects
    /\ roomOpen \in BOOLEAN
    /\ rooms \in 0 .. MaxRooms
    /\ opOrder \in Seq(Nat) /\ Len(opOrder) <= RecentOps
    /\ loop \in Nat

CallTypeOK ==
    /\ restoring \in BOOLEAN
    /\ agent \in [pc : {"idle", "applying", "applied", "recorded"},
                  edits : Seq(Edit), ids : Seq(Nat)]
    /\ agent.pc = "applying" => agent.edits # <<>>
    /\ agent.pc \in {"applied", "recorded"} => agent.ids # <<>>

ConnTypeOK ==
    /\ clients \in [Clients -> Conns \cup {NoConn}]
    /\ stage \in [Conns -> {"idle", "dialing", "joined"}]
    /\ closed \in [Conns -> BOOLEAN]
    /\ toState \subseteq Sends /\ captured \subseteq Copies
    /\ up \in [Conns -> Seq(Nat)]
    /\ down \in [Conns -> Seq(Envelopes)]

BrowserTypeOK ==
    /\ sock \in [Clients -> Conns \cup {NoConn}]
    /\ synced \in [Clients -> BOOLEAN]
    /\ outbox \in [Clients -> Seq(Nat)]
    /\ live \in [Clients -> SUBSET Nat]

HistoryTypeOK ==
    /\ ops \in Seq([by : Clients \cup {Agent}, edit : Edit, live : BOOLEAN])
    /\ log \in Seq([id : Nat, room : 0 .. MaxRooms])
    /\ rejected \subseteq Nat
    /\ drops \in Nat /\ restores \in Nat

\* The part of TypeOK that does not depend on the replicas.
ProtocolTypeOK ==
    ServerTypeOK /\ CallTypeOK /\ ConnTypeOK /\ BrowserTypeOK /\ HistoryTypeOK

\* The ids on their way and in the outboxes are those of operations.
KnownIds ==
    /\ \A n \in Conns : \A k \in DOMAIN up[n] : up[n][k] \in OpIds
    /\ \A c \in Clients : \A k \in DOMAIN outbox[c] : outbox[c][k] \in OpIds

\* The values the program's variables and the history can have: opOrder within
\* its bound, no call of Apply without work, every replica a document.
TypeOK == ProtocolTypeOK /\ KnownIds /\ \A c \in Clients : cdoc[c] \in Objects

\* What an envelope says of an operation, given those applied and those refused.
Holds(msg, applied, refused) ==
    /\ msg.type = "op" => msg.id \in applied
    /\ msg.type = "error" => msg.id \in refused

\* The server never acknowledges, remembers or announces an operation it has not
\* applied, and reports an error only for one it has refused - also when the
\* envelope reaches its browser on a later connection, or the room that sent it
\* is gone.
AnswersTrue ==
    /\ ToSet(opOrder) \cup ToSet(agent.ids) \cup ({loop} \ {Idle}) \subseteq LogIds
    /\ \A n \in Conns : \A k \in DOMAIN down[n] : Holds(down[n][k], LogIds, rejected)

\* Operations client c has committed, streamed ones excepted.
Committed(c) == {i \in OpIds : ops[i].by = c /\ ~ops[i].live}

\* No committed operation is lost: whatever is dropped, kicked, replaced or
\* evicted, it is in its browser's outbox until the server has applied it or
\* answered it with an error.
NoLostCommit ==
    \A c \in Clients : Committed(c) \subseteq ToSet(outbox[c]) \cup LogIds \cup rejected

\* While a session is connected nothing in its outbox is stuck: the operation
\* is still on its way to the room, or the room is about to broadcast it, or
\* its ack or its error is on the way back.  (Nothing is resent before the
\* next state, so an operation out of these places would stay "unsynced".)
AckComing ==
    \A c \in Clients :
        LET n == sock[c] IN
        synced[c] /\ n \in Listening =>
            \A id \in ToSet(outbox[c]) :
                \/ id \in ToSet(up[n]) \cup {loop}
                \/ \E k \in DOMAIN down[n] :
                      down[n][k] \in {OpEnvelope(id), ErrorEnvelope(id)}

\* The server applies what a browser committed in the order it was committed,
\* over however many connections, the leftovers of a replaced one included: when
\* an operation has been applied, every earlier one of the same browser has been
\* applied before it or was answered with an error.
CommitOrder ==
    \A k \in DOMAIN log :
        LET j == log[k].id IN
        ops[j].by \in Clients /\ ~ops[j].live =>
            \A i \in Committed(ops[j].by) :
                i < j => i \in rejected \/ \E m \in 1 .. k - 1 : log[m].id = i

\* A resent operation is recognised for as long as it should be: a room applies
\* an operation a second time only when more than RecentOps operations have been
\* applied before that.
DedupWindow ==
    \A j, k \in DOMAIN log :
        j < k /\ log[j] = log[k] =>
            Cardinality({log[i].id : i \in 1 .. k - 1}) > RecentOps

\* "resent edits are deduplicated" (CHANGELOG.md:22): no operation is applied
\* twice.  True of one room; an eviction forgets the ids.
AppliedAtMostOnce ==
    \A j, k \in DOMAIN log : j < k => log[j].id # log[k].id

Quiet ==
    /\ loop = Idle /\ agent = NoCall /\ ~restoring
    /\ toState = {} /\ captured = {}
    /\ \A n \in Conns : up[n] = <<>> /\ down[n] = <<>>
    /\ \A c \in Clients : synced[c] /\ sock[c] \in Listening /\ outbox[c] = <<>>

\* When everything sent has been received, every browser shows the document
\* of the server.
Converged == Quiet => \A c \in Clients : cdoc[c] = doc

\* A peer is never left without an update: whatever the server has applied is
\* in the last state queued for a connected client, or was queued after it, or
\* is about to be.
PeersMissNothing ==
    \A n \in Listening :
        Pending(n) \/ LogIds \subseteq covered[n] \cup {loop} \cup ToSet(agent.ids)

(***************************************************************************)
(* Fairness: goroutines run, the network delivers what it does not drop,   *)
(* and the browser retries.  Nobody has to commit, drop, evict or restore. *)
(***************************************************************************)
Fairness ==
    /\ \A c \in Clients : WF_vars(Connect(c)) /\ WF_vars(Receive(c)) /\ WF_vars(Kicked(c))
    /\ \A n \in Conns : /\ WF_vars(JoinRegister(n)) /\ WF_vars(DialLost(n))
                        /\ WF_vars(Handle(n)) /\ WF_vars(ServerLeave(n))
    /\ WF_vars(\E s \in toState : CaptureState(s))
    /\ WF_vars(\E s \in captured : EnqueueState(s))
    /\ WF_vars(Broadcast)
    /\ WF_vars(AgentApply) /\ WF_vars(AgentRecord)
    /\ WF_vars(AgentBroadcast) /\ WF_vars(BroadcastState)

FairSpec == Spec /\ Fairness

\* Every outbox is emptied again ("Edits made while offline are kept and synced
\* on reconnect", CHANGELOG.md:16), and every browser ends up connected.
OutboxDrains == \A c \in Clients : []<>(outbox[c] = <<>> /\ synced[c])
=============================================================================
