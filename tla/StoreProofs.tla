---------------------------- MODULE StoreProofs ----------------------------
(***************************************************************************)
(* What the store promises, for any number of goroutines, calls, records,  *)
(* failing writes and crashes, as long as nothing else runs and nothing    *)
(* fails while a record is unloaded (QuietUnload).                         *)
(*                                                                         *)
(* The argument: at most one record is current, the one in the map or the  *)
(* one that is leaving it.  What it calls clean is in the files, and it    *)
(* holds every edit that is kept.  Every other record is clean and free,   *)
(* so that whoever still has it writes nothing, and whoever holds a lock   *)
(* holds the current record's.                                             *)
(*                                                                         *)
(* The types come first.  TypeOK is not inductive: that a call reads a     *)
(* field it has set before depends on where the call is, which WellFormed  *)
(* says.                                                                   *)
(***************************************************************************)
EXTENDS BoardStore, TLAPS

-----------------------------------------------------------------------------
(* The types, and the discipline of the record's lock. *)

\* Where a call has a record.
OnRecord == {"work", "flush", "export", "exported"} \cup Holding

\* Where a call goes through the kinds one by one.
Stepwise == {"read", "write", "copy", "working", "export"}

\* What call c has got by the time it is where it is, of n records made.
WellFormed(c, n) ==
    /\ c.pc \in OnRecord => c.rec # NoRec
    /\ c.rec # NoRec => c.rec <= n
    /\ c.pc \in {"read", "insert"} => \A k \in Kinds \ c.todo : c.read[k] # Missing
    /\ c.pc = "insert" => c.todo = {}
    /\ c.pc \in Stepwise => c.todo # {}
    /\ c.op = "restore" /\ c.pc \in {"flush"} \cup Holding => c.read["board"] # Missing
    /\ c.pc \in {"replace", "working"} => c.op = "restore"
    /\ c.pc = "unload" => c.op \in Unloading

\* The types of everything but the calls.
DataTypes ==
    /\ inMap \in Recs \cup {NoRec} /\ made \in Recs \cup {0}
    /\ mem \in [Recs -> [Kinds -> Content]] /\ dirty \in [Recs -> SUBSET Kinds]
    /\ lock \in [Recs -> Actors \cup {Nobody}]
    /\ dir \in BOOLEAN /\ files \in [Kinds -> Content \cup {Missing}]
    /\ snaps \subseteq [ts : Nat, kind : Kinds, val : Content \cup {Torn}]
    /\ {lastTs, edits, started, faults, crashes} \subseteq Nat
    /\ kept \in Content /\ deleted \in BOOLEAN
    /\ replaced \subseteq [ts : Nat, val : [Kinds -> Content]]
    /\ inMap # NoRec => inMap <= made

\* The calls, with what they have got.
Calling ==
    /\ calls \in [Actors -> CallType]
    /\ \A t \in Actors : WellFormed(calls[t], made)

TypeInv == DataTypes /\ Calling /\ LockDiscipline

-----------------------------------------------------------------------------
\* The kind that is next is one of those that are left.
LEMMA FirstIn ==
  ASSUME NEW S \in SUBSET Kinds
  PROVE  First(S) \in Kinds /\ (S # {} => First(S) \in S)
BY DEF First, Kinds

\* The values that stand for nothing are none of the others.
LEMMA NoRecord == NoRec \notin Recs /\ Nobody \notin Actors /\ Missing \notin Content /\ Torn \notin Content
BY StoreAssumption DEF Recs, Missing, Torn, Content

\* A goroutine that does nothing has a call of the right type.
LEMMA NoCallType == NoCall \in CallType /\ \A n : WellFormed(NoCall, n)
<1>1. NoCall \in CallType
  BY DEF NoCall, CallType, Ops, Edits, Unread, Kinds, Content, Missing, Recs
<1> QED
  BY <1>1 DEF NoCall, WellFormed, OnRecord, Holding, Stepwise

\* What a new state of one goroutine's call leaves to be shown.
LEMMA Frame ==
  ASSUME Calling, made <= made', made \in Int, made' \in Int,
         NEW t \in Actors, NEW c \in CallType, Goes(t, c), WellFormed(c, made')
  PROVE  /\ Calling'
         /\ calls'[t] = c
         /\ \A u \in Actors \ {t} : calls'[u] = calls[u]
<1>1. calls' \in [Actors -> CallType] /\ calls'[t] = c /\ \A u \in Actors \ {t} : calls'[u] = calls[u]
  BY DEF Goes, Calling
<1>2. ASSUME NEW u \in Actors
      PROVE  WellFormed(calls'[u], made')
  <2>1. CASE u = t
    BY <1>1, <2>1
  <2>2. CASE u # t
    <3>1. WellFormed(calls[u], made) /\ calls'[u] = calls[u] /\ calls[u] \in CallType
      BY <1>1, <2>2 DEF Calling
    <3>2. calls[u].rec # NoRec => calls[u].rec <= made'
      BY <3>1 DEF WellFormed, CallType, Recs
    <3> QED
      BY <3>1, <3>2 DEF WellFormed
  <2> QED
    BY <2>1, <2>2
<1> QED
  BY <1>1, <1>2 DEF Calling

\* The record's lock: kept, taken and left.
LEMMA LockKept ==
  ASSUME LockDiscipline, NEW t \in Actors, NEW c, calls'[t] = c,
         \A u \in Actors \ {t} : calls'[u] = calls[u],
         UNCHANGED lock,
         c.pc \in Holding <=> calls[t].pc \in Holding,
         c.pc \in Holding => c.rec = calls[t].rec
  PROVE  LockDiscipline'
BY DEF LockDiscipline

LEMMA LockTaken ==
  ASSUME LockDiscipline, lock \in [Recs -> Actors \cup {Nobody}],
         NEW t \in Actors, NEW c, calls'[t] = c,
         \A u \in Actors \ {t} : calls'[u] = calls[u],
         calls[t].rec \in Recs, Unlocked(t), Locks(t),
         calls[t].pc \notin Holding, c.pc \in Holding, c.rec = calls[t].rec
  PROVE  LockDiscipline' /\ lock' \in [Recs -> Actors \cup {Nobody}]
<1>1. lock' \in [Recs -> Actors \cup {Nobody}]
  BY DEF Locks
<1>2. ASSUME NEW u \in Actors, NEW r \in Recs
      PROVE  lock'[r] = u <=> calls'[u].rec = r /\ calls'[u].pc \in Holding
  BY NoRecord DEF LockDiscipline, Unlocked, Locks
<1> QED
  BY <1>1, <1>2 DEF LockDiscipline

LEMMA LockLeft ==
  ASSUME LockDiscipline, lock \in [Recs -> Actors \cup {Nobody}],
         NEW t \in Actors, NEW c, calls'[t] = c,
         \A u \in Actors \ {t} : calls'[u] = calls[u],
         calls[t].rec \in Recs, Unlocks(t),
         calls[t].pc \in Holding, c.pc \notin Holding
  PROVE  LockDiscipline' /\ lock' \in [Recs -> Actors \cup {Nobody}]
<1>1. lock' \in [Recs -> Actors \cup {Nobody}]
  BY DEF Unlocks
<1>2. ASSUME NEW u \in Actors, NEW r \in Recs
      PROVE  lock'[r] = u <=> calls'[u].rec = r /\ calls'[u].pc \in Holding
  BY NoRecord DEF LockDiscipline, Unlocks
<1> QED
  BY <1>1, <1>2 DEF LockDiscipline

\* Read and ExportFile take one more file into the call.
WithFile(c, k, val, rest, pc) == [c EXCEPT !.read[k] = val, !.todo = rest, !.pc = pc]

\* What a call has read with one more file.
LEMMA WithFileType ==
  ASSUME NEW c \in CallType, NEW k \in Kinds, NEW val \in Content, NEW rest \in SUBSET Kinds,
         NEW pc \in {"read", "insert", "export", "exported"}
  PROVE  LET d == WithFile(c, k, val, rest, pc) IN
         /\ d \in CallType
         /\ d.op = c.op /\ d.pc = pc /\ d.rec = c.rec /\ d.todo = rest /\ d.ts = c.ts
         /\ d.asked = c.asked
         /\ d.read[k] = val /\ \A x \in Kinds \ {k} : d.read[x] = c.read[x]
<1> DEFINE read == [c.read EXCEPT ![k] = val]
           d == WithFile(c, k, val, rest, pc)
<1>1. d = [c EXCEPT !.read = read, !.todo = rest, !.pc = pc]
  BY DEF WithFile
<1>2. read \in [Kinds -> Content \cup {Missing}]
      /\ read[k] = val /\ \A x \in Kinds \ {k} : read[x] = c.read[x]
  BY DEF CallType
<1>3. /\ d \in CallType
      /\ d.op = c.op /\ d.pc = pc /\ d.rec = c.rec /\ d.todo = rest /\ d.ts = c.ts
      /\ d.asked = c.asked /\ d.read = read
  <2> HIDE DEF read, d
  <2> QED
    BY <1>1, <1>2 DEF CallType
<1> HIDE DEF read
<1> QED
  BY <1>2, <1>3

\* What follows a snapshot is a call again, without the lock.
LEMMA AfterType ==
  ASSUME NEW c \in CallType, NEW n, WellFormed(c, n),
         c.op = "export" => c.rec # NoRec
  PROVE  /\ After(c) \in CallType
         /\ WellFormed(After(c), n)
         /\ After(c).pc \notin Holding
<1>1. CASE c.op = "export"
  <2>1. After(c) = [c EXCEPT !.pc = "export", !.todo = Kinds]
    BY <1>1 DEF After
  <2>2. After(c) \in CallType
    BY <2>1 DEF CallType
  <2> QED
    BY <1>1, <2>1, <2>2 DEF WellFormed, OnRecord, Stepwise, Holding, CallType, Kinds
<1>2. CASE c.op = "drop"
  <2>1. After(c) = [c EXCEPT !.op = "delete", !.pc = "unload"]
    BY <1>2 DEF After
  <2>2. After(c) \in CallType
    BY <2>1 DEF CallType, Ops
  <2> QED
    BY <1>2, <2>1, <2>2 DEF WellFormed, OnRecord, Stepwise, Holding, Unloading, CallType
<1>3. CASE c.op = "delete"
  <2>1. After(c) = [c EXCEPT !.pc = "remove"]
    BY <1>3 DEF After
  <2>2. After(c) \in CallType
    BY <2>1 DEF CallType
  <2> QED
    BY <1>3, <2>1, <2>2 DEF WellFormed, OnRecord, Stepwise, Holding, CallType
<1>4. CASE c.op = "stop"
  <2>1. After(c) = [c EXCEPT !.pc = "exit"]
    BY <1>4 DEF After
  <2>2. After(c) \in CallType
    BY <2>1 DEF CallType
  <2> QED
    BY <1>4, <2>1, <2>2 DEF WellFormed, OnRecord, Stepwise, Holding, CallType
<1>5. CASE c.op \notin {"export", "drop", "delete", "stop"}
  BY <1>5, NoCallType DEF After, NoCall, Holding
<1> QED
  BY <1>1, <1>2, <1>3, <1>4, <1>5

-----------------------------------------------------------------------------
\* The state of a board just created.
LEMMA TypeInit == Init => TypeInv
<1> SUFFICES ASSUME Init PROVE TypeInv
  OBVIOUS
<1>1. DataTypes
  <2>1. 1 \in Recs /\ {} \in Content
    BY StoreAssumption DEF Recs, Content
  <2>2. mem \in [Recs -> [Kinds -> Content]] /\ dirty \in [Recs -> SUBSET Kinds]
        /\ lock \in [Recs -> Actors \cup {Nobody}] /\ files \in [Kinds -> Content]
    BY <2>1 DEF Init
  <2>3. files \in [Kinds -> Content \cup {Missing}]
    BY <2>2
  <2>4. inMap \in Recs \cup {NoRec} /\ made \in Recs \cup {0} /\ inMap <= made
        /\ kept \in Content /\ snaps = {} /\ replaced = {}
    BY <2>1 DEF Init
  <2>5. {lastTs, edits, started, faults, crashes} \subseteq Nat
    BY DEF Init
  <2>6. dir \in BOOLEAN /\ deleted \in BOOLEAN
    BY DEF Init
  <2> QED
    BY <2>2, <2>3, <2>4, <2>5, <2>6 DEF DataTypes
<1>2. Calling
  BY NoCallType DEF Init, Calling
<1>3. LockDiscipline
  BY NoRecord DEF Init, LockDiscipline, NoCall, Holding
<1> QED
  BY <1>1, <1>2, <1>3 DEF TypeInv

\* Steps that change nothing but one goroutine's call.
LEMMA CallOnly ==
  ASSUME TypeInv, NEW t \in Actors, NEW c \in CallType, Goes(t, c), WellFormed(c, made),
         UNCHANGED <<inMap, memory, lock, disk, made, lastTs, edits, history>>,
         {started', faults', crashes'} \subseteq Nat,
         c.pc \notin Holding, calls[t].pc \notin Holding
  PROVE  TypeInv'
<1> USE DEF TypeInv, memory, disk, history
<1>1. DataTypes'
  BY DEF DataTypes
<1>2. /\ Calling'
      /\ calls'[t] = c /\ \A u \in Actors \ {t} : calls'[u] = calls[u]
  <2>1. made \in Int /\ made' \in Int /\ made <= made' /\ WellFormed(c, made')
    BY DEF DataTypes, Recs
  <2> QED
    BY <2>1, Frame
<1>3. LockDiscipline'
  BY <1>2, LockKept
<1> QED
  BY <1>1, <1>2, <1>3

\* A call begins.
LEMMA BeginTypes ==
  ASSUME TypeInv, NEW t \in Threads, NEW op \in Calls, Begin(t, op)
  PROVE  TypeInv'
<1> DEFINE c == [NoCall EXCEPT !.op = op,
                   !.asked = IF op = "export" THEN kept ELSE {},
                   !.pc = IF op \in {"unload", "stop"} THEN "unload" ELSE "lookup"]
<1>1. t \in Actors /\ op \in Ops
  BY StoreAssumption DEF Actors
<1>2. c \in CallType
  BY <1>1, NoCallType DEF CallType, TypeInv, DataTypes, Content
<1>3. c.pc \in {"unload", "lookup"} /\ c.rec = NoRec
      /\ (c.pc = "unload" => c.op \in Unloading)
  BY DEF NoCall, Unloading
<1>4. WellFormed(c, made) /\ c.pc \notin Holding /\ calls[t].pc \notin Holding
  BY <1>3 DEF WellFormed, OnRecord, Holding, Stepwise, Begin, Busy
<1>5. Goes(t, c) /\ UNCHANGED <<inMap, memory, lock, disk, made, lastTs, edits, history, faults, crashes>>
      /\ started' = started + 1
  BY DEF Begin
<1>6. {started', faults', crashes'} \subseteq Nat
  BY <1>5 DEF TypeInv, DataTypes
<1> HIDE DEF c
<1> QED
  BY <1>1, <1>2, <1>4, <1>5, <1>6, CallOnly

\* The ticker begins.
LEMMA TickTypes ==
  ASSUME TypeInv, Tick
  PROVE  TypeInv'
<1> DEFINE c == [NoCall EXCEPT !.rec = inMap, !.pc = "flush"]
<1>1. Ticker \in Actors
  BY DEF Actors
<1>2. c \in CallType
  BY NoCallType DEF CallType, TypeInv, DataTypes
<1>3. c.pc = "flush" /\ c.rec = inMap /\ c.op = "tick"
  BY DEF NoCall
<1>4. WellFormed(c, made) /\ c.pc \notin Holding /\ calls[Ticker].pc \notin Holding
  BY <1>3 DEF WellFormed, OnRecord, Holding, Stepwise, Tick, Busy, TypeInv, DataTypes
<1>5. Goes(Ticker, c) /\ UNCHANGED <<inMap, memory, lock, disk, made, lastTs, edits, history, bounds>>
  BY DEF Tick
<1>6. {started', faults', crashes'} \subseteq Nat
  BY <1>5 DEF TypeInv, DataTypes, bounds
<1> HIDE DEF c
<1> QED
  BY <1>1, <1>2, <1>4, <1>5, <1>6, CallOnly

\* A step with a call of the right type that touches only the call.
LEMMA StepOnly ==
  ASSUME TypeInv, NEW t \in Actors, NEW c \in CallType, Goes(t, c), WellFormed(c, made),
         UNCHANGED <<inMap, memory, lock, disk, made, lastTs, edits, history, bounds>>,
         c.pc \notin Holding, calls[t].pc \notin Holding
  PROVE  TypeInv'
<1>1. {started', faults', crashes'} \subseteq Nat
  BY DEF TypeInv, DataTypes, bounds
<1> QED
  BY <1>1, CallOnly

\* Get: the map.
LEMMA LookupTypes ==
  ASSUME TypeInv, NEW t \in Actors, Lookup(t)
  PROVE  TypeInv'
<1> USE DEF Lookup, At
<1>1. calls[t] \in CallType /\ calls[t].pc \notin Holding /\ WellFormed(calls[t], made)
  BY DEF TypeInv, Calling, Holding
<1>2. CASE inMap # NoRec
  <2> DEFINE c == [calls[t] EXCEPT !.rec = inMap, !.pc = "work"]
  <2>1. c \in CallType
    BY <1>1 DEF CallType, TypeInv, DataTypes
  <2>2. c.pc = "work" /\ c.rec = inMap
    BY <1>1 DEF CallType
  <2>3. WellFormed(c, made) /\ c.pc \notin Holding
    BY <1>2, <2>2 DEF WellFormed, OnRecord, Holding, Stepwise, TypeInv, DataTypes
  <2>4. Goes(t, c)
    BY <1>2
  <2> HIDE DEF c
  <2> QED
    BY <1>1, <2>1, <2>3, <2>4, StepOnly
<1>3. CASE inMap = NoRec
  <2> DEFINE c == [calls[t] EXCEPT !.todo = Kinds, !.pc = "read"]
  <2>1. c \in CallType
    BY <1>1 DEF CallType
  <2>2. c.pc = "read" /\ c.rec = calls[t].rec /\ c.todo = Kinds
    BY <1>1 DEF CallType
  <2>3. WellFormed(c, made) /\ c.pc \notin Holding
    BY <1>1, <2>2 DEF WellFormed, OnRecord, Holding, Stepwise, Kinds
  <2>4. Goes(t, c)
    BY <1>3
  <2> HIDE DEF c
  <2> QED
    BY <1>1, <2>1, <2>3, <2>4, StepOnly
<1> QED
  BY <1>2, <1>3

\* Get: a file.
LEMMA ReadTypes ==
  ASSUME TypeInv, NEW t \in Actors, Read(t)
  PROVE  TypeInv'
<1> DEFINE k == First(calls[t].todo)
           rest == calls[t].todo \ {k}
<1>1. calls[t] \in CallType /\ calls[t].pc \notin Holding /\ WellFormed(calls[t], made)
  BY DEF TypeInv, Calling, Holding, Read, At
<1>2. CASE k = "meta" /\ files[k] = Missing
  BY <1>1, <1>2, StepOnly, NoCallType DEF Read, NoCall, Holding
<1>3. CASE ~(k = "meta" /\ files[k] = Missing)
  <2> DEFINE val == IF files[k] = Missing THEN {} ELSE files[k]
             pc == IF rest = {} THEN "insert" ELSE "read"
             c == WithFile(calls[t], k, val, rest, pc)
  <2>1. Goes(t, c)
    BY <1>3 DEF Read, WithFile
  <2>2. k \in Kinds /\ rest \in SUBSET Kinds
    BY <1>1, FirstIn DEF CallType
  <2>3. val \in Content
    BY <2>2 DEF TypeInv, DataTypes, Content
  <2>4. pc \in {"insert", "read"} /\ (pc = "insert" => rest = {}) /\ (pc = "read" => rest # {})
    OBVIOUS
  <2>5. /\ c \in CallType
        /\ c.pc = pc /\ c.todo = rest /\ c.rec = calls[t].rec /\ c.op = calls[t].op
        /\ c.read[k] = val /\ \A x \in Kinds \ {k} : c.read[x] = calls[t].read[x]
    <3>1. calls[t] \in CallType /\ pc \in {"read", "insert", "export", "exported"}
      BY <1>1, <2>4
    <3> HIDE DEF val, k, rest, pc
    <3> QED
      BY <2>2, <2>3, <3>1, WithFileType
  <2>8. \A x \in Kinds \ rest : c.read[x] # Missing
    <3>1. \A x \in Kinds \ calls[t].todo : calls[t].read[x] # Missing
      BY <1>1 DEF WellFormed, Read, At
    <3>2. \A x \in Kinds \ rest : x = k \/ x \notin calls[t].todo
      OBVIOUS
    <3> HIDE DEF val, k, rest, pc, c
    <3> QED
      BY <2>3, <2>5, <3>1, <3>2, NoRecord
  <2>9. WellFormed(c, made) /\ c.pc \notin Holding
    <3> HIDE DEF val, k, rest, pc, c
    <3> QED
      BY <1>1, <2>4, <2>5, <2>8 DEF WellFormed, OnRecord, Holding, Stepwise
  <2>10. UNCHANGED <<inMap, memory, lock, disk, made, lastTs, edits, history, bounds>>
    BY DEF Read
  <2> HIDE DEF c
  <2> QED
    BY <1>1, <2>1, <2>5, <2>9, <2>10, StepOnly
<1> QED
  BY <1>2, <1>3

\* A step with a new state of the call, for the data it changes.
LEMMA StepTypes ==
  ASSUME TypeInv, NEW t \in Actors, NEW c \in CallType, Goes(t, c), WellFormed(c, made'),
         DataTypes', made <= made',
         \/ /\ UNCHANGED lock
            /\ c.pc \in Holding <=> calls[t].pc \in Holding
            /\ c.pc \in Holding => c.rec = calls[t].rec
         \/ Unlocked(t) /\ Locks(t) /\ calls[t].rec \in Recs
            /\ calls[t].pc \notin Holding /\ c.pc \in Holding /\ c.rec = calls[t].rec
         \/ Unlocks(t) /\ calls[t].rec \in Recs
            /\ calls[t].pc \in Holding /\ c.pc \notin Holding
  PROVE  TypeInv'
<1> USE DEF TypeInv
<1>1. made \in Int /\ made' \in Int
  BY DEF DataTypes, Recs
<1>2. /\ Calling'
      /\ calls'[t] = c /\ \A u \in Actors \ {t} : calls'[u] = calls[u]
  BY <1>1, Frame
<1>3. lock \in [Recs -> Actors \cup {Nobody}]
  BY DEF DataTypes
<1>4. LockDiscipline'
  BY <1>2, <1>3, LockKept, LockTaken, LockLeft
<1> QED
  BY <1>2, <1>4

\* Get: the record made is put into the map, or the one there is taken.
LEMMA InsertTypes ==
  ASSUME TypeInv, NEW t \in Actors, Insert(t)
  PROVE  TypeInv'
<1>1. calls[t] \in CallType /\ calls[t].pc \notin Holding /\ WellFormed(calls[t], made)
      /\ calls[t].pc = "insert"
  BY DEF TypeInv, Calling, Holding, Insert, At
<1>2. Unread \in [Kinds -> Content \cup {Missing}]
  BY DEF Unread
<1>3. CASE inMap # NoRec
  <2> DEFINE c == [calls[t] EXCEPT !.rec = inMap, !.read = Unread, !.pc = "work"]
  <2>1. c \in CallType
    BY <1>1, <1>2 DEF CallType, TypeInv, DataTypes
  <2>2. c.pc = "work" /\ c.rec = inMap
    BY <1>1 DEF CallType
  <2>3. WellFormed(c, made) /\ c.pc \notin Holding
    BY <1>3, <2>2 DEF WellFormed, OnRecord, Holding, Stepwise, TypeInv, DataTypes
  <2>4. Goes(t, c) /\ UNCHANGED <<inMap, memory, lock, disk, made, lastTs, edits, history, bounds>>
    BY <1>3 DEF Insert, memory
  <2> HIDE DEF c
  <2> QED
    BY <1>1, <2>1, <2>3, <2>4, StepOnly
<1>4. CASE inMap = NoRec
  <2> DEFINE c == [calls[t] EXCEPT !.rec = made', !.read = Unread, !.pc = "work"]
  <2>1. made' = made + 1 /\ inMap' = made' /\ made' \in Recs /\ made <= made'
    BY <1>4, StoreAssumption DEF Insert, Recs, TypeInv, DataTypes
  <2>2. calls[t].read \in [Kinds -> Content]
    BY <1>1 DEF WellFormed, CallType
  <2>3. mem' \in [Recs -> [Kinds -> Content]]
    BY <1>4, <2>1, <2>2 DEF Insert, TypeInv, DataTypes
  <2>4. DataTypes'
    <3>1. UNCHANGED <<dirty, lock, dir, files, snaps, lastTs, edits, kept, replaced, deleted,
                      started, faults, crashes>>
      BY DEF Insert, disk, history, bounds
    <3>2. inMap' \in Recs \cup {NoRec} /\ made' \in Recs \cup {0} /\ inMap' <= made'
      BY <2>1 DEF Recs
    <3> QED
      BY <2>3, <3>1, <3>2 DEF TypeInv, DataTypes
  <2>5. c \in CallType
    BY <1>1, <1>2, <2>1 DEF CallType
  <2>6. c.pc = "work" /\ c.rec = made'
    BY <1>1 DEF CallType
  <2>7. WellFormed(c, made') /\ c.pc \notin Holding
    BY <2>1, <2>6, NoRecord DEF WellFormed, OnRecord, Holding, Stepwise, Recs
  <2>8. Goes(t, c) /\ UNCHANGED lock
    BY <1>4 DEF Insert
  <2> HIDE DEF c
  <2> QED
    BY <1>1, <2>1, <2>4, <2>5, <2>7, <2>8, StepTypes
<1> QED
  BY <1>3, <1>4

\* An edit of a kind.
LEMMA MarksTypes ==
  ASSUME TypeInv, NEW t \in Actors, NEW k \in Kinds, Marks(t, k), calls[t].rec \in Recs
  PROVE  DataTypes' /\ UNCHANGED <<made, lock>>
<1> USE DEF Marks, TypeInv, DataTypes
<1>1. edits' \in Nat /\ kept' \in Content /\ mem[calls[t].rec][k] \cup {edits'} \in Content
  BY DEF Content
<1>2. mem' \in [Recs -> [Kinds -> Content]]
  <2> DEFINE new == mem[calls[t].rec][k] \cup {edits'}
  <2>1. mem' = [mem EXCEPT ![calls[t].rec][k] = new]
    OBVIOUS
  <2> HIDE DEF new
  <2> QED
    BY <1>1, <2>1
<1>3. dirty' \in [Recs -> SUBSET Kinds]
  OBVIOUS
<1> QED
  BY <1>1, <1>2, <1>3 DEF disk, bounds

\* A call at work has a record.
LEMMA OnARecord ==
  ASSUME TypeInv, NEW t \in Actors, calls[t].pc \in OnRecord
  PROVE  calls[t].rec \in Recs
BY DEF TypeInv, Calling, WellFormed, CallType

\* Edits.
LEMMA ChangeTypes ==
  ASSUME TypeInv, NEW t \in Actors, Change(t) \/ Archive(t)
  PROVE  TypeInv'
<1>1. calls[t] \in CallType /\ calls[t].pc \notin Holding /\ WellFormed(calls[t], made)
      /\ calls[t].rec \in Recs
  BY OnARecord DEF TypeInv, Calling, Holding, OnRecord, Change, Archive, At
<1>2. made <= made
  BY DEF TypeInv, DataTypes, Recs
<1>3. CASE Change(t)
  <2>1. DataTypes' /\ UNCHANGED <<made, lock>>
    BY <1>1, <1>3, MarksTypes DEF Change, Edits
  <2>2. Goes(t, NoCall) /\ NoCall.pc \notin Holding
    BY <1>3 DEF Change, NoCall, Holding
  <2> QED
    BY <1>1, <1>2, <2>1, <2>2, NoCallType, StepTypes
<1>4. CASE Archive(t)
  <2> DEFINE c == [calls[t] EXCEPT !.pc = "flush"]
  <2>1. DataTypes' /\ UNCHANGED <<made, lock>>
    BY <1>1, <1>4, MarksTypes DEF Archive, Kinds
  <2>2. c \in CallType
    BY <1>1 DEF CallType
  <2>3. c.pc = "flush" /\ c.rec = calls[t].rec /\ c.op = "archive" /\ c.todo = calls[t].todo
    BY <1>1, <1>4 DEF CallType, Archive
  <2>4. WellFormed(c, made) /\ c.pc \notin Holding
    BY <1>1, <2>3, NoRecord DEF WellFormed, OnRecord, Holding, Stepwise
  <2>5. Goes(t, c)
    BY <1>4 DEF Archive, GoesTo
  <2> HIDE DEF c
  <2> QED
    BY <1>1, <1>2, <2>1, <2>2, <2>4, <2>5, StepTypes
<1> QED
  BY <1>3, <1>4

\* RestoreSnapshot: the snapshot.
LEMMA FindTypes ==
  ASSUME TypeInv, NEW t \in Actors, FindSnapshot(t)
  PROVE  TypeInv'
<1>1. calls[t] \in CallType /\ calls[t].pc \notin Holding /\ WellFormed(calls[t], made)
      /\ calls[t].rec \in Recs
  BY OnARecord DEF TypeInv, Calling, Holding, OnRecord, FindSnapshot, At
<1>2. UNCHANGED <<inMap, memory, lock, disk, made, lastTs, edits, history, bounds>>
  BY DEF FindSnapshot
<1>3. PICK s \in {x \in snaps : x.kind = "board"} :
        LET chats == {x \in snaps : x.ts = s.ts /\ x.kind = "chat" /\ x.val # Torn} IN
        Goes(t, IF s.val = Torn THEN NoCall
                ELSE [calls[t] EXCEPT !.pc = "flush", !.read =
                        [Unread EXCEPT !["board"] = s.val,
                            !["chat"] = IF chats = {} THEN Missing
                                        ELSE (CHOOSE x \in chats : TRUE).val]])
  BY DEF FindSnapshot
<1>4. CASE s.val = Torn
  BY <1>1, <1>2, <1>3, <1>4, NoCallType, StepOnly DEF NoCall, Holding
<1>5. CASE s.val # Torn
  <2> DEFINE chats == {x \in snaps : x.ts = s.ts /\ x.kind = "chat" /\ x.val # Torn}
             chat == IF chats = {} THEN Missing ELSE (CHOOSE x \in chats : TRUE).val
             read == [Unread EXCEPT !["board"] = s.val, !["chat"] = chat]
             c == [calls[t] EXCEPT !.pc = "flush", !.read = read]
  <2>1. s.val \in Content
    BY <1>5 DEF TypeInv, DataTypes
  <2>2. chat \in Content \cup {Missing}
    <3>1. CASE chats = {}
      BY <3>1
    <3>2. CASE chats # {}
      <4>1. (CHOOSE x \in chats : TRUE) \in chats
        BY <3>2
      <4>2. \A x \in chats : x.val \in Content
        BY DEF TypeInv, DataTypes
      <4> QED
        BY <3>2, <4>1, <4>2
    <3> QED
      BY <3>1, <3>2
  <2>3. read \in [Kinds -> Content \cup {Missing}] /\ read["board"] = s.val
    <3> HIDE DEF chat
    <3> QED
      BY <2>1, <2>2 DEF Unread, Kinds
  <2>4. c \in CallType /\ c.pc = "flush" /\ c.rec = calls[t].rec /\ c.read = read
        /\ c.op = "restore"
    <3> HIDE DEF read
    <3> QED
      BY <1>1, <2>3 DEF CallType, FindSnapshot
  <2>5. WellFormed(c, made) /\ c.pc \notin Holding
    <3> HIDE DEF read, c
    <3> QED
      BY <1>1, <2>1, <2>3, <2>4, NoRecord DEF WellFormed, OnRecord, Holding, Stepwise
  <2>6. Goes(t, c)
    BY <1>3, <1>5
  <2> HIDE DEF c
  <2> QED
    BY <1>1, <1>2, <2>4, <2>5, <2>6, StepOnly
<1> QED
  BY <1>4, <1>5

\* Steps that only go on or end.
LEMMA ProceedTypes ==
  ASSUME TypeInv, NEW t \in Actors, NotFound(t) \/ Proceed(t) \/ Exported(t)
  PROVE  TypeInv'
<1>1. calls[t] \in CallType /\ calls[t].pc \notin Holding /\ WellFormed(calls[t], made)
  BY DEF TypeInv, Calling, Holding, NotFound, Proceed, Exported, At
<1>2. UNCHANGED <<inMap, memory, lock, disk, made, lastTs, edits, history, bounds>>
  BY DEF NotFound, Proceed, Exported
<1>3. CASE NotFound(t) \/ Exported(t)
  BY <1>1, <1>2, <1>3, NoCallType, StepOnly DEF NotFound, Exported, NoCall, Holding
<1>4. CASE Proceed(t)
  <2> DEFINE pc == IF calls[t].op = "drop" THEN "unload" ELSE "flush"
             c == [calls[t] EXCEPT !.pc = pc]
  <2>1. pc \in {"unload", "flush"} /\ (pc = "unload" <=> calls[t].op = "drop")
    OBVIOUS
  <2>2. c \in CallType /\ c.pc = pc /\ c.rec = calls[t].rec /\ c.op = calls[t].op
        /\ calls[t].op # "restore"
    <3> HIDE DEF pc
    <3> QED
      BY <1>1, <1>4, <2>1 DEF CallType, Proceed
  <2>3. WellFormed(c, made) /\ c.pc \notin Holding
    <3> HIDE DEF pc, c
    <3> QED
      BY <1>1, <1>4, <2>1, <2>2
         DEF WellFormed, OnRecord, Holding, Stepwise, Unloading, Proceed, At
  <2>4. Goes(t, c)
    BY <1>4 DEF Proceed, GoesTo
  <2> HIDE DEF c
  <2> QED
    BY <1>1, <1>2, <2>2, <2>3, <2>4, StepOnly
<1> QED
  BY <1>3, <1>4

\* The call of a goroutine that is on a record, and what it may come to.
LEMMA Holder ==
  ASSUME TypeInv, NEW t \in Actors, calls[t].pc \in OnRecord
  PROVE  /\ calls[t] \in CallType /\ WellFormed(calls[t], made)
         /\ calls[t].rec \in Recs
         /\ NoCall \in CallType /\ WellFormed(NoCall, made) /\ NoCall.pc \notin Holding
         /\ After(calls[t]) \in CallType /\ WellFormed(After(calls[t]), made)
         /\ After(calls[t]).pc \notin Holding
         /\ made <= made
<1>1. calls[t] \in CallType /\ WellFormed(calls[t], made) /\ calls[t].rec \in Recs
      /\ calls[t].rec # NoRec
  BY OnARecord, NoRecord DEF TypeInv, Calling
<1>2. NoCall.pc \notin Holding
  BY DEF NoCall, Holding
<1>3. made <= made
  BY DEF TypeInv, DataTypes, Recs
<1> QED
  BY <1>1, <1>2, <1>3, NoCallType, AfterType

\* snapshotLocked begins, with the lock.
LEMMA SnapshotTypes ==
  ASSUME TypeInv, NEW t \in Actors, NEW kinds \in SUBSET Kinds, Snapshot(t, kinds)
  PROVE  TypeInv'
<1>1. calls[t].pc = "flush" /\ calls[t].pc \in OnRecord /\ calls[t].pc \notin Holding
      /\ Unlocked(t)
  BY DEF Snapshot, At, OnRecord, Holding
<1>2. UNCHANGED <<inMap, mem, dirty, files, snaps, made, edits, kept, replaced, deleted,
                  started, faults, crashes>>
  BY DEF Snapshot, memory, history, bounds
<1>3. CASE kinds = {}
  <2>1. Goes(t, After(calls[t])) /\ UNCHANGED <<lock, dir, lastTs>>
    BY <1>3 DEF Snapshot
  <2>2. UNCHANGED <<inMap, memory, lock, disk, made, lastTs, edits, history, bounds>>
    BY <1>2, <2>1 DEF memory, disk, history, bounds
  <2> QED
    BY <1>1, <2>1, <2>2, Holder, StepOnly
<1>4. CASE kinds # {}
  <2> DEFINE c == [calls[t] EXCEPT !.pc = "write", !.todo = kinds, !.ts = lastTs']
  <2>1. Goes(t, c) /\ Locks(t) /\ dir' = TRUE /\ lastTs' = lastTs + 1
    BY <1>4 DEF Snapshot
  <2>2. lastTs' \in Nat
    BY <2>1 DEF TypeInv, DataTypes
  <2>3. /\ c \in CallType
        /\ c.pc = "write" /\ c.todo = kinds /\ c.rec = calls[t].rec /\ c.op = calls[t].op
        /\ c.read = calls[t].read
    BY <1>1, <2>2, Holder DEF CallType
  <2>4. WellFormed(c, made') /\ c.pc \in Holding
    <3> HIDE DEF c
    <3> QED
      BY <1>1, <1>2, <1>4, <2>3, Holder DEF WellFormed, OnRecord, Holding, Stepwise
  <2>5. DataTypes'
    <3>1. lock' \in [Recs -> Actors \cup {Nobody}]
      BY <1>1, <2>1, Holder DEF Locks, TypeInv, DataTypes
    <3>2. dir' \in BOOLEAN
      BY <2>1
    <3> QED
      BY <1>2, <2>2, <3>1, <3>2 DEF TypeInv, DataTypes
  <2> HIDE DEF c
  <2> QED
    BY <1>1, <1>2, <2>1, <2>3, <2>4, <2>5, Holder, StepTypes
<1> QED
  BY <1>3, <1>4

\* A working file.
LEMMA WriteTypes ==
  ASSUME TypeInv, NEW t \in Actors, Write(t)
  PROVE  TypeInv'
<1> DEFINE k == First(calls[t].todo)
           c == [calls[t] EXCEPT !.pc = "copy"]
<1>1. calls[t].pc = "write" /\ calls[t].pc \in OnRecord /\ calls[t].pc \in Holding
  BY DEF Write, At, OnRecord, Holding
<1>2. k \in Kinds
  BY <1>1, Holder, FirstIn DEF CallType
<1>3. files' = [files EXCEPT ![k] = mem[calls[t].rec][k]] /\ Goes(t, c)
      /\ UNCHANGED <<inMap, mem, dirty, lock, dir, snaps, made, lastTs, edits,
                     kept, replaced, deleted, started, faults, crashes>>
  BY DEF Write, GoesTo, memory, history, bounds
<1>4. DataTypes'
  <2>1. mem[calls[t].rec][k] \in Content
    BY <1>1, <1>2, Holder DEF TypeInv, DataTypes
  <2>2. files' \in [Kinds -> Content \cup {Missing}]
    <3> HIDE DEF k, c
    <3> QED
      BY <1>3, <2>1 DEF TypeInv, DataTypes
  <2> QED
    BY <1>3, <2>2 DEF TypeInv, DataTypes
<1>5. /\ c \in CallType
      /\ c.pc = "copy" /\ c.todo = calls[t].todo /\ c.rec = calls[t].rec /\ c.op = calls[t].op
      /\ c.read = calls[t].read
  BY <1>1, Holder DEF CallType
<1>6. WellFormed(c, made') /\ c.pc \in Holding
  <2> HIDE DEF c
  <2> QED
    BY <1>1, <1>3, <1>5, Holder DEF WellFormed, OnRecord, Holding, Stepwise
<1> HIDE DEF c
<1> QED
  BY <1>1, <1>3, <1>4, <1>5, <1>6, Holder, StepTypes

\* A file of a snapshot.
LEMMA SnapOfType ==
  ASSUME TypeInv, NEW t \in Actors, NEW val \in Content \cup {Torn}
  PROVE  SnapOf(t, val) \in [ts : Nat, kind : Kinds, val : Content \cup {Torn}]
<1>1. calls[t].ts \in Nat /\ First(calls[t].todo) \in Kinds
  BY FirstIn DEF TypeInv, Calling, CallType
<1> QED
  BY <1>1 DEF SnapOf

\* A copy in snapshots/, and the flag.
LEMMA CopyTypes ==
  ASSUME TypeInv, NEW t \in Actors, Copy(t)
  PROVE  TypeInv'
<1> DEFINE k == First(calls[t].todo)
           rest == calls[t].todo \ {k}
<1>1. calls[t].pc = "copy" /\ calls[t].pc \in OnRecord /\ calls[t].pc \in Holding
  BY DEF Copy, At, OnRecord, Holding
<1>2. k \in Kinds /\ rest \in SUBSET Kinds
  BY <1>1, Holder, FirstIn DEF CallType
<1>3. /\ files[k] # Missing
      /\ snaps' = snaps \cup {SnapOf(t, files[k])}
      /\ dirty' = [dirty EXCEPT ![calls[t].rec] = @ \ {k}]
      /\ Copied(t, rest)
      /\ UNCHANGED <<inMap, mem, dir, files, made, lastTs, edits,
                     kept, replaced, deleted, started, faults, crashes>>
  BY DEF Copy, history, bounds
<1>4. snaps' \subseteq [ts : Nat, kind : Kinds, val : Content \cup {Torn}]
  <2>1. files[k] \in Content
    BY <1>2, <1>3 DEF TypeInv, DataTypes
  <2> HIDE DEF k
  <2> QED
    BY <1>3, <2>1, SnapOfType DEF TypeInv, DataTypes
<1>5. dirty' \in [Recs -> SUBSET Kinds]
  <2> HIDE DEF k
  <2> QED
    BY <1>3 DEF TypeInv, DataTypes
<1>6. CASE rest # {}
  <2> DEFINE c == [calls[t] EXCEPT !.todo = rest, !.pc = "write"]
  <2>1. Goes(t, c) /\ UNCHANGED lock
    BY <1>3, <1>6 DEF Copied
  <2>2. DataTypes'
    BY <1>3, <1>4, <1>5, <2>1 DEF TypeInv, DataTypes
  <2>3. /\ c \in CallType
        /\ c.pc = "write" /\ c.todo = rest /\ c.rec = calls[t].rec /\ c.op = calls[t].op
        /\ c.read = calls[t].read
    <3> HIDE DEF rest
    <3> QED
      BY <1>1, <1>2, Holder DEF CallType
  <2>4. WellFormed(c, made') /\ c.pc \in Holding
    <3> HIDE DEF c, rest
    <3> QED
      BY <1>1, <1>3, <1>6, <2>3, Holder DEF WellFormed, OnRecord, Holding, Stepwise
  <2> HIDE DEF c
  <2> QED
    BY <1>1, <1>3, <2>1, <2>2, <2>3, <2>4, Holder, StepTypes
<1>7. CASE rest = {} /\ calls[t].op = "restore"
  <2> DEFINE c == [calls[t] EXCEPT !.pc = "replace"]
  <2>1. Goes(t, c) /\ UNCHANGED lock
    BY <1>3, <1>7 DEF Copied, GoesTo
  <2>2. DataTypes'
    BY <1>3, <1>4, <1>5, <2>1 DEF TypeInv, DataTypes
  <2>3. /\ c \in CallType
        /\ c.pc = "replace" /\ c.rec = calls[t].rec /\ c.op = "restore"
        /\ c.read = calls[t].read
    BY <1>1, <1>7, Holder DEF CallType
  <2>4. WellFormed(c, made') /\ c.pc \in Holding
    <3> HIDE DEF c
    <3> QED
      BY <1>1, <1>3, <1>7, <2>3, Holder DEF WellFormed, OnRecord, Holding, Stepwise
  <2> HIDE DEF c
  <2> QED
    BY <1>1, <1>3, <2>1, <2>2, <2>3, <2>4, Holder, StepTypes
<1>8. CASE rest = {} /\ calls[t].op # "restore"
  <2>1. Goes(t, After(calls[t])) /\ Unlocks(t)
    BY <1>3, <1>8 DEF Copied
  <2>2. lock' \in [Recs -> Actors \cup {Nobody}]
    BY <2>1 DEF Unlocks, TypeInv, DataTypes
  <2>3. DataTypes'
    BY <1>3, <1>4, <1>5, <2>2 DEF TypeInv, DataTypes
  <2> QED
    BY <1>1, <1>3, <2>1, <2>3, Holder, StepTypes
<1> QED
  BY <1>6, <1>7, <1>8

\* A failing write gives the lock back.
LEMMA FailTypes ==
  ASSUME TypeInv, NEW t \in Actors, Fail(t)
  PROVE  TypeInv'
<1> DEFINE c == IF calls[t].op = "restore" THEN NoCall ELSE After(calls[t])
<1>1. calls[t].pc \in OnRecord /\ calls[t].pc \in Holding
  BY DEF Fail, OnRecord, Holding
<1>2. Goes(t, c) /\ Unlocks(t)
      /\ UNCHANGED <<inMap, mem, dirty, dir, files, made, lastTs, edits,
                     kept, replaced, deleted, started, crashes>>
  BY DEF Fail, memory, history
<1>3. faults' \in Nat
  BY DEF Fail, TypeInv, DataTypes
<1>4. snaps' \subseteq [ts : Nat, kind : Kinds, val : Content \cup {Torn}]
  <2>1. snaps' = snaps \/ snaps' = snaps \cup {SnapOf(t, Torn)}
    BY DEF Fail
  <2> QED
    BY <2>1, SnapOfType DEF TypeInv, DataTypes
<1>5. lock' \in [Recs -> Actors \cup {Nobody}]
  BY <1>2 DEF Unlocks, TypeInv, DataTypes
<1>6. DataTypes'
  BY <1>2, <1>3, <1>4, <1>5 DEF TypeInv, DataTypes
<1>7. c \in CallType /\ WellFormed(c, made') /\ c.pc \notin Holding
  BY <1>1, <1>2, Holder
<1> HIDE DEF c
<1> QED
  BY <1>1, <1>2, <1>6, <1>7, Holder, StepTypes

\* What a restore puts in.
LEMMA RestoredType ==
  ASSUME TypeInv, NEW t \in Actors, calls[t].op = "restore", calls[t].pc \in {"replace"}
  PROVE  /\ Restored(t) \in [Kinds -> Content]
         /\ Restored(t)["meta"] = mem[calls[t].rec]["meta"]
<1>1. calls[t].pc \in OnRecord /\ calls[t].pc \in Holding
  BY DEF OnRecord, Holding
<1>2. mem[calls[t].rec] \in [Kinds -> Content]
  BY <1>1, Holder DEF TypeInv, DataTypes
<1>3. calls[t].read["board"] \in Content /\ calls[t].read["chat"] \in Content \cup {Missing}
  BY <1>1, Holder DEF WellFormed, CallType, Kinds
<1> QED
  BY <1>2, <1>3 DEF Restored, Kinds

\* RestoreSnapshot: replace and mark.
LEMMA ReplaceTypes ==
  ASSUME TypeInv, NEW t \in Actors, Replace(t)
  PROVE  TypeInv'
<1> DEFINE c == [calls[t] EXCEPT !.pc = "working", !.todo = Kinds]
<1>1. calls[t].pc = "replace" /\ calls[t].pc \in OnRecord /\ calls[t].pc \in Holding
  BY DEF Replace, At, OnRecord, Holding
<1>2. calls[t].op = "restore"
  BY <1>1, Holder DEF WellFormed
<1>3. mem' = [mem EXCEPT ![calls[t].rec] = Restored(t)]
      /\ dirty' = [dirty EXCEPT ![calls[t].rec] = @ \cup {"board", "chat"}]
      /\ replaced' = replaced \cup {[ts |-> calls[t].ts, val |-> mem[calls[t].rec]]}
      /\ kept' = kept \ Unrestored(t)
      /\ Goes(t, c) /\ dir' = TRUE
      /\ UNCHANGED <<inMap, lock, files, snaps, made, lastTs, edits, deleted,
                     started, faults, crashes>>
  BY DEF Replace, bounds
<1>4. mem' \in [Recs -> [Kinds -> Content]]
  BY <1>1, <1>2, <1>3, RestoredType DEF TypeInv, DataTypes
<1>5. dirty' \in [Recs -> SUBSET Kinds]
  BY <1>3 DEF TypeInv, DataTypes, Kinds
<1>6. replaced' \subseteq [ts : Nat, val : [Kinds -> Content]]
  <2>1. calls[t].ts \in Nat /\ mem[calls[t].rec] \in [Kinds -> Content]
    BY <1>1, Holder DEF TypeInv, DataTypes, CallType
  <2> QED
    BY <1>3, <2>1 DEF TypeInv, DataTypes
<1>7. kept' \in Content /\ dir' \in BOOLEAN
  BY <1>3 DEF TypeInv, DataTypes, Content
<1>8. DataTypes'
  BY <1>3, <1>4, <1>5, <1>6, <1>7 DEF TypeInv, DataTypes
<1>9. /\ c \in CallType
      /\ c.pc = "working" /\ c.todo = Kinds /\ c.rec = calls[t].rec /\ c.op = "restore"
      /\ c.read = calls[t].read
  BY <1>1, <1>2, Holder DEF CallType
<1>10. WellFormed(c, made') /\ c.pc \in Holding
  <2> HIDE DEF c
  <2> QED
    BY <1>1, <1>2, <1>3, <1>9, Holder DEF WellFormed, OnRecord, Holding, Stepwise, Kinds
<1> HIDE DEF c
<1> QED
  BY <1>1, <1>3, <1>8, <1>9, <1>10, Holder, StepTypes

\* RestoreSnapshot: a working file.
LEMMA WorkingTypes ==
  ASSUME TypeInv, NEW t \in Actors, WriteWorking(t)
  PROVE  TypeInv'
<1> DEFINE k == First(calls[t].todo)
           rest == calls[t].todo \ {k}
<1>1. calls[t].pc = "working" /\ calls[t].pc \in OnRecord /\ calls[t].pc \in Holding
  BY DEF WriteWorking, At, OnRecord, Holding
<1>2. k \in Kinds /\ rest \in SUBSET Kinds
  BY <1>1, Holder, FirstIn DEF CallType
<1>3. files' = [files EXCEPT ![k] = mem[calls[t].rec][k]]
      /\ UNCHANGED <<inMap, mem, dirty, dir, snaps, made, lastTs, edits,
                     kept, replaced, deleted, started, faults, crashes>>
  BY DEF WriteWorking, memory, history, bounds
<1>4. files' \in [Kinds -> Content \cup {Missing}]
  <2>1. mem[calls[t].rec][k] \in Content
    BY <1>1, <1>2, Holder DEF TypeInv, DataTypes
  <2> HIDE DEF k
  <2> QED
    BY <1>3, <2>1 DEF TypeInv, DataTypes
<1>5. CASE rest = {}
  <2>1. Goes(t, NoCall) /\ Unlocks(t)
    BY <1>5 DEF WriteWorking
  <2>2. lock' \in [Recs -> Actors \cup {Nobody}]
    BY <2>1 DEF Unlocks, TypeInv, DataTypes
  <2>3. DataTypes'
    BY <1>3, <1>4, <2>2 DEF TypeInv, DataTypes
  <2> QED
    BY <1>1, <1>3, <2>1, <2>3, Holder, StepTypes
<1>6. CASE rest # {}
  <2> DEFINE c == [calls[t] EXCEPT !.todo = rest]
  <2>1. Goes(t, c) /\ UNCHANGED lock
    BY <1>6 DEF WriteWorking
  <2>2. DataTypes'
    BY <1>3, <1>4, <2>1 DEF TypeInv, DataTypes
  <2>3. /\ c \in CallType
        /\ c.pc = "working" /\ c.todo = rest /\ c.rec = calls[t].rec /\ c.op = calls[t].op
        /\ c.read = calls[t].read
    <3> HIDE DEF rest
    <3> QED
      BY <1>1, <1>2, Holder DEF CallType
  <2>4. WellFormed(c, made') /\ c.pc \in Holding
    <3> HIDE DEF c, rest
    <3> QED
      BY <1>1, <1>3, <1>6, <2>3, Holder DEF WellFormed, OnRecord, Holding, Stepwise
  <2> HIDE DEF c
  <2> QED
    BY <1>1, <1>3, <2>1, <2>2, <2>3, <2>4, Holder, StepTypes
<1> QED
  BY <1>5, <1>6

\* Export: a file.
LEMMA ExportTypes ==
  ASSUME TypeInv, NEW t \in Actors, ExportFile(t)
  PROVE  TypeInv'
<1> DEFINE k == First(calls[t].todo)
           rest == calls[t].todo \ {k}
<1>1. calls[t].pc = "export" /\ calls[t].pc \in OnRecord /\ calls[t].pc \notin Holding
  BY DEF ExportFile, At, OnRecord, Holding
<1>2. UNCHANGED <<inMap, memory, lock, disk, made, lastTs, edits, history, bounds>>
  BY DEF ExportFile
<1>3. CASE files[k] = Missing
  <2>1. Goes(t, NoCall)
    BY <1>3 DEF ExportFile
  <2> QED
    BY <1>1, <1>2, <2>1, Holder, StepOnly
<1>4. CASE files[k] # Missing
  <2> DEFINE pc == IF rest = {} THEN "exported" ELSE "export"
             c == WithFile(calls[t], k, files[k], rest, pc)
  <2>1. Goes(t, c)
    BY <1>4 DEF ExportFile, WithFile
  <2>2. k \in Kinds /\ rest \in SUBSET Kinds
    BY <1>1, Holder, FirstIn DEF CallType
  <2>3. files[k] \in Content
    BY <1>4, <2>2 DEF TypeInv, DataTypes
  <2>4. pc \in {"exported", "export"} /\ (pc = "export" => rest # {})
    OBVIOUS
  <2>5. /\ c \in CallType
        /\ c.pc = pc /\ c.todo = rest /\ c.rec = calls[t].rec /\ c.op = calls[t].op
    <3>1. calls[t] \in CallType /\ pc \in {"read", "insert", "export", "exported"}
      BY <1>1, <2>4, Holder
    <3> HIDE DEF k, rest, pc
    <3> QED
      BY <2>2, <2>3, <3>1, WithFileType
  <2>6. WellFormed(c, made) /\ c.pc \notin Holding
    <3> HIDE DEF k, rest, pc, c
    <3> QED
      BY <1>1, <2>4, <2>5, Holder DEF WellFormed, OnRecord, Holding, Stepwise
  <2> HIDE DEF c
  <2> QED
    BY <1>1, <1>2, <2>1, <2>5, <2>6, StepOnly
<1> QED
  BY <1>3, <1>4

\* Unload and FlushAll.
LEMMA UnloadTypes ==
  ASSUME TypeInv, NEW t \in Actors, Unload(t)
  PROVE  TypeInv'
<1>1. /\ calls[t].pc = "unload" /\ calls[t].pc \notin Holding
      /\ calls[t] \in CallType /\ WellFormed(calls[t], made)
  BY DEF Unload, At, Holding, TypeInv, Calling
<1>2. UNCHANGED <<mem, dirty, lock, dir, files, snaps, made, lastTs, edits,
                  kept, replaced, deleted, started, faults, crashes>>
      /\ inMap' \in {inMap, NoRec}
  BY DEF Unload, memory, disk, history, bounds
<1>3. DataTypes' /\ made <= made'
  <2>1. DataTypes'
    BY <1>2 DEF TypeInv, DataTypes
  <2>2. made <= made'
    BY <1>2 DEF TypeInv, DataTypes, Recs
  <2> QED
    BY <2>1, <2>2
<1>4. CASE inMap = NoRec
  <2>1. Goes(t, After(calls[t]))
    BY <1>4 DEF Unload
  <2>2. After(calls[t]) \in CallType /\ WellFormed(After(calls[t]), made')
        /\ After(calls[t]).pc \notin Holding
    BY <1>1, <1>2, AfterType DEF WellFormed, Unloading
  <2> QED
    BY <1>1, <1>2, <1>3, <2>1, <2>2, StepTypes
<1>5. CASE inMap # NoRec
  <2> DEFINE c == [calls[t] EXCEPT !.rec = inMap, !.pc = "flush"]
  <2>1. Goes(t, c)
    BY <1>5 DEF Unload
  <2>2. /\ c \in CallType
        /\ c.pc = "flush" /\ c.rec = inMap /\ c.op = calls[t].op
        /\ c.read = calls[t].read
    BY <1>1 DEF CallType, TypeInv, DataTypes
  <2>3. WellFormed(c, made') /\ c.pc \notin Holding
    <3> HIDE DEF c
    <3> QED
      BY <1>1, <1>2, <1>5, <2>2
         DEF WellFormed, OnRecord, Holding, Stepwise, Unloading, TypeInv, DataTypes
  <2> HIDE DEF c
  <2> QED
    BY <1>1, <1>2, <1>3, <2>1, <2>2, <2>3, StepTypes
<1> QED
  BY <1>4, <1>5

\* Delete.
LEMMA RemoveTypes ==
  ASSUME TypeInv, NEW t \in Actors, Remove(t)
  PROVE  TypeInv'
<1>1. calls[t].pc = "remove" /\ calls[t].pc \notin Holding
  BY DEF Remove, At, Holding
<1>2. /\ Goes(t, NoCall)
      /\ dir' = FALSE /\ files' = [k \in Kinds |-> Missing] /\ snaps' = {}
      /\ deleted' = (deleted \/ dir) /\ kept' = {} /\ replaced' = {}
      /\ UNCHANGED <<inMap, mem, dirty, lock, made, lastTs, edits, started, faults, crashes>>
  BY DEF Remove, memory, bounds
<1>3. dir' \in BOOLEAN /\ deleted' \in BOOLEAN /\ kept' \in Content
      /\ files' \in [Kinds -> Content \cup {Missing}]
  BY <1>2 DEF Content
<1>4. DataTypes'
  BY <1>2, <1>3 DEF TypeInv, DataTypes
<1>5. made <= made' /\ NoCall.pc \notin Holding
  BY <1>2 DEF TypeInv, DataTypes, Recs, NoCall, Holding
<1> QED
  BY <1>1, <1>2, <1>4, <1>5, NoCallType, StepTypes

\* The process ends or crashes.
LEMMA RestartTypes ==
  ASSUME TypeInv, NEW t \in Actors, Exit(t) \/ Crash
  PROVE  TypeInv'
<1>1. Restarts /\ crashes' \in Nat
  BY DEF Exit, Crash, TypeInv, DataTypes
<1>2. inMap' = NoRec /\ made' = 0
      /\ lock' = [r \in Recs |-> Nobody]
      /\ mem' = [r \in Recs |-> [k \in Kinds |-> {}]]
      /\ dirty' = [r \in Recs |-> {}]
      /\ calls' = [u \in Actors |-> NoCall]
      /\ UNCHANGED <<dir, files, lastTs, edits, replaced, deleted, started, faults>>
  BY <1>1 DEF Restarts
<1>3. snaps' \subseteq [ts : Nat, kind : Kinds, val : Content \cup {Torn}]
  <2>1. CASE UNCHANGED snaps
    BY <2>1 DEF TypeInv, DataTypes
  <2>2. CASE \E cut \in SUBSET Actors : snaps' = snaps \cup {SnapOf(u, Torn) : u \in cut}
    <3>1. PICK cut \in SUBSET Actors : snaps' = snaps \cup {SnapOf(u, Torn) : u \in cut}
      BY <2>2
    <3>2. \A u \in cut : SnapOf(u, Torn) \in [ts : Nat, kind : Kinds, val : Content \cup {Torn}]
      BY SnapOfType
    <3> QED
      BY <3>1, <3>2 DEF TypeInv, DataTypes
  <2> QED
    BY <2>1, <2>2 DEF Exit, Crash
<1>4. kept' \in Content
  BY DEF Exit, Crash, TypeInv, DataTypes, Content
<1>5. DataTypes'
  <2>1. {} \in Content
    BY DEF Content
  <2>2. lock' \in [Recs -> Actors \cup {Nobody}] /\ mem' \in [Recs -> [Kinds -> Content]]
        /\ dirty' \in [Recs -> SUBSET Kinds]
    BY <1>2, <2>1
  <2>3. inMap' \in Recs \cup {NoRec} /\ made' \in Recs \cup {0} /\ (inMap' # NoRec => inMap' <= made')
    BY <1>2
  <2> QED
    BY <1>1, <1>2, <1>3, <1>4, <2>2, <2>3 DEF TypeInv, DataTypes
<1>6. Calling'
  BY <1>2, NoCallType DEF Calling
<1>7. LockDiscipline'
  BY <1>2, NoRecord DEF LockDiscipline, NoCall, Holding
<1> QED
  BY <1>5, <1>6, <1>7 DEF TypeInv

\* Every step of the specification.
LEMMA TypeStep ==
  ASSUME TypeInv, [Next]_vars
  PROVE  TypeInv'
<1>1. ASSUME NEW t \in Threads, NEW op \in Calls, Begin(t, op)
      PROVE  TypeInv'
  BY <1>1, BeginTypes
<1>2. ASSUME NEW t \in Actors, Works(t) \/ Fail(t)
      PROVE  TypeInv'
  BY <1>2, LookupTypes, ReadTypes, InsertTypes, ChangeTypes, FindTypes, ProceedTypes,
     SnapshotTypes, WriteTypes, CopyTypes, FailTypes, ReplaceTypes, WorkingTypes, ExportTypes,
     UnloadTypes, RemoveTypes, RestartTypes DEF Works
<1>3. CASE Tick
  BY <1>3, TickTypes
<1>4. CASE Crash
  <2>1. Ticker \in Actors
    BY DEF Actors
  <2> QED
    BY <1>4, <2>1, RestartTypes
<1>5. CASE UNCHANGED vars
  BY <1>5 DEF vars, memory, disk, history, bounds, TypeInv, DataTypes, Calling, LockDiscipline
<1> QED
  BY <1>1, <1>2, <1>3, <1>4, <1>5 DEF Next

\* The inductive invariant is stronger.
LEMMA TypesHold == TypeInv => TypeOK
  BY DEF TypeInv, DataTypes, Calling, TypeOK

\* However many goroutines load, edit, save, restore, export, unload and delete
\* the board, whichever of their writes fail and wherever the server crashes: every
\* variable keeps its type, and a record's lock is held by the one call that is
\* inside snapshotLocked or RestoreSnapshot and by nobody else (BoardRecord.mu).
THEOREM StoreTypes == Spec => []TypeOK
<1>1. Spec => []TypeInv
  BY TypeInit, TypeStep, PTL DEF Spec
<1> QED
  BY <1>1, TypesHold, PTL

-----------------------------------------------------------------------------
(* The record that stands for the board. *)

\* In maybeSnapshot.
Flushing == {"flush", "write", "copy"}
\* The call flushes a record that it has taken out of the map, or is about to leave.
Leaves(t) == calls[t].op \in Unloading /\ calls[t].pc \in Flushing
\* The record that stands for the board.
Current(r) == r = inMap \/ \E t \in Threads : Leaves(t) /\ calls[t].rec = r

\* Who unloads, stops or deletes is alone among the requests.
Alone == \A t, u \in Threads : t # u /\ Busy(t) /\ Busy(u) => calls[t].op \notin Unloading

\* Where a request's call may be while m is in the map.
Placed(c, m) ==
    /\ c.op = "tick" <=> c.pc = "idle"
    /\ c.op = "unload" => c.pc \in {"unload"} \cup Flushing
    /\ c.op = "drop" => c.pc \in {"lookup", "read", "insert", "work", "unload"} \cup Flushing
    /\ c.op = "delete" => c.pc \in {"unload", "remove"} /\ m = NoRec
    /\ c.op = "stop" => c.pc \in {"unload", "exit"} \cup Flushing
    /\ c.pc = "remove" => c.op = "delete"
    /\ c.pc = "exit" => c.op = "stop"
    /\ c.pc \in {"export", "exported"} => c.op = "export"
    /\ c.op = "drop" /\ c.pc \in Flushing => m = NoRec
    /\ c.pc \in OnRecord => \/ c.rec = m
                            \/ m = NoRec /\ c.op \in Unloading /\ c.pc \in Flushing

\* The ticker only snapshots, and not while the server stops.
TickerPlaced ==
    /\ calls[Ticker].op = "tick" /\ calls[Ticker].pc \in {"idle"} \cup Flushing
    /\ Busy(Ticker) => \A t \in Threads : calls[t].op # "stop"

\* A record that is not current any more has been flushed, and nobody locks it.
StaleClean ==
    \A r \in Recs : r <= made /\ ~Current(r) => dirty[r] = {} /\ lock[r] = Nobody

\* What the current record calls clean is in the files.
FilesTrue == \A r \in Recs : Current(r) => \A k \in Kinds \ dirty[r] : files[k] = mem[r][k]

\* Half way through a snapshot: the file is as the record, and a flush leaves
\* nothing dirty behind.
FlushTrue(t) == LET c == calls[t] IN
    /\ c.pc = "copy" => files[First(c.todo)] = mem[c.rec][First(c.todo)]
    /\ c.pc \in {"write", "copy"} /\ c.op \notin {"tick", "force", "restore"} =>
          dirty[c.rec] \subseteq c.todo

\* What has been read of the files is still what they hold.
ReadTrue(t) == LET c == calls[t] IN
    inMap = NoRec /\ c.pc \in {"read", "insert"} => \A k \in Kinds \ c.todo : c.read[k] = files[k]

\* A server that is about to exit has saved everything.
ExitSaved(t) == calls[t].pc = "exit" /\ inMap # NoRec => dirty[inMap] = {}

\* The edits that are kept are in the current record, without one in the files.
Kept ==
    /\ \A e \in kept : e <= edits
    /\ \A t \in Threads : \A e \in calls[t].asked : e <= edits
    /\ \A r \in Recs : Current(r) => \A e \in kept : \E k \in Kinds : e \in mem[r][k]
    /\ (\A r \in Recs : ~Current(r)) => \A e \in kept : \E k \in Kinds : e \in files[k]

\* A request that finds the board deleted ends at meta.json, or unloads nothing.
GoneFor(t) == LET c == calls[t] IN
    deleted => /\ c.pc \in {"idle", "lookup", "read", "unload", "exit"}
               /\ c.pc = "read" => "meta" \in c.todo
               /\ c.pc = "unload" => c.op \in {"unload", "stop"}

\* Either the board is deleted for good or all of its files are there.
Gone ==
    /\ deleted => ~dir /\ inMap = NoRec
    /\ ~deleted => dir /\ \A k \in Kinds : files[k] # Missing
    /\ deleted => files["meta"] = Missing

\* Of the snapshot a restore takes first, the files written are in snapshots/.
RestoreSafe(t) == LET c == calls[t] IN
    c.op = "restore" /\ c.pc \in {"write", "copy", "replace"} =>
        \A k \in Kinds : k \notin c.todo \/ c.pc = "replace" =>
            [ts |-> c.ts, kind |-> k, val |-> mem[c.rec][k]] \in snaps

\* What an export was asked for is in what it has read or has still to read.
ExportTrue(t) == LET c == calls[t] IN
    faults = 0 /\ c.pc \in {"export", "exported"} =>
        \A e \in c.asked \cap kept : \E k \in Kinds :
            /\ e \in mem[inMap][k]
            /\ e \in (IF c.pc = "export" /\ k \in c.todo THEN files[k] ELSE c.read[k])

\* What holds of a request's call.
ThreadInv(t) ==
    Placed(calls[t], inMap) /\ ReadTrue(t) /\ ExitSaved(t) /\ GoneFor(t) /\ RestoreSafe(t) /\ ExportTrue(t)

\* The inductive invariant, with the types.
QuietInv ==
    /\ Alone /\ TickerPlaced
    /\ \A t \in Threads : ThreadInv(t)
    /\ StaleClean /\ FilesTrue
    /\ \A t \in Actors : FlushTrue(t)
    /\ Kept /\ Gone /\ RestoreUndoable

-----------------------------------------------------------------------------
(* Who is where. *)

\* Requests and the ticker.
LEMMA ThreadsAct == /\ \A t \in Threads : t \in Actors /\ t # Ticker
                    /\ Ticker \in Actors
                    /\ \A t \in Actors : t \in Threads \/ t = Ticker
BY StoreAssumption DEF Actors

\* A record is current for one goroutine only.
LEMMA OneCurrent ==
  ASSUME QuietInv, NEW r \in Recs, NEW s \in Recs, Current(r), Current(s)
  PROVE  r = s
<1>1. ASSUME NEW t \in Threads, Leaves(t), inMap \in Recs
      PROVE  calls[t].rec = inMap
  BY <1>1, NoRecord DEF QuietInv, ThreadInv, Placed, Leaves, Flushing, OnRecord, Holding
<1>2. ASSUME NEW t \in Threads, NEW u \in Threads, Leaves(t), Leaves(u)
      PROVE  t = u
  BY <1>2 DEF QuietInv, Alone, Leaves, Busy, Flushing
<1> QED
  BY <1>1, <1>2 DEF Current

\* A request on a record that is not leaving the map has the one in the map.
LEMMA Loaded ==
  ASSUME TypeInv, QuietInv, NEW t \in Threads, calls[t].pc \in OnRecord
  PROVE  /\ calls[t].rec \in Recs
         /\ Current(calls[t].rec)
         /\ ~Leaves(t) => calls[t].rec = inMap
<1>1. calls[t].rec \in Recs
  BY ThreadsAct, OnARecord
<1>2. calls[t].rec = inMap \/ Leaves(t)
  BY DEF QuietInv, ThreadInv, Placed, Leaves
<1> QED
  BY <1>1, <1>2 DEF Current

\* Whoever holds a lock holds the current record's, and nobody else holds any.
LEMMA HoldsCurrent ==
  ASSUME TypeInv, QuietInv, NEW t \in Actors, calls[t].pc \in Holding
  PROVE  /\ calls[t].rec \in Recs /\ Current(calls[t].rec)
         /\ lock[calls[t].rec] = t
         /\ \A u \in Actors \ {t} : calls[u].pc \notin Holding
<1>1. ASSUME NEW u \in Actors, calls[u].pc \in Holding
      PROVE  /\ calls[u].rec \in Recs /\ calls[u].rec <= made
             /\ lock[calls[u].rec] = u /\ Current(calls[u].rec)
  <2>1. calls[u].rec \in Recs /\ lock[calls[u].rec] = u
    BY <1>1, OnARecord DEF OnRecord, TypeInv, LockDiscipline
  <2>2. calls[u].rec <= made
    BY <2>1, NoRecord DEF TypeInv, Calling, WellFormed
  <2>3. Current(calls[u].rec)
    BY <2>1, <2>2, NoRecord DEF QuietInv, StaleClean
  <2> QED
    BY <2>1, <2>2, <2>3
<1>2. ASSUME NEW u \in Actors \ {t}, calls[u].pc \in Holding
      PROVE  FALSE
  BY <1>1, <1>2, OneCurrent
<1> QED
  BY <1>1, <1>2

\* While a request unloads, stops or deletes, the others do nothing.
LEMMA UnloaderAlone ==
  ASSUME QuietInv, NEW t \in Threads, calls[t].op \in Unloading, Busy(t)
  PROVE  \A u \in Threads \ {t} : calls[u].pc = "idle" /\ calls[u].op = "tick" /\ ~Leaves(u)
BY DEF QuietInv, Alone, Busy, ThreadInv, Placed, Leaves, Unloading

\* While a request is busy, no other one takes the record out of the map.
LEMMA NobodyLeaves ==
  ASSUME QuietInv, NEW t \in Threads, Busy(t)
  PROVE  \A u \in Threads \ {t} : ~Leaves(u)
BY DEF QuietInv, Alone, Busy, Leaves, Flushing

-----------------------------------------------------------------------------
(* Steps that change nothing but a call. *)

\* Everything but the calls, and the counters that only bound the model.
store == <<inMap, mem, dirty, lock, dir, files, snaps, made, edits, kept, replaced, deleted, faults>>

\* A step that changes nothing but a request's call.
LEMMA CallQuiet ==
  ASSUME QuietInv, UNCHANGED store, NEW t \in Threads,
         \A u \in Actors \ {t} : calls'[u] = calls[u],
         ~Leaves(t), ~Leaves(t)',
         Alone', calls'[t].op = "stop" => ~Busy(Ticker),
         \A e \in calls'[t].asked : e <= edits,
         ThreadInv(t)', FlushTrue(t)'
  PROVE  QuietInv'
<1>1. \A r : Current(r)' <=> Current(r)
  BY ThreadsAct DEF Current, Leaves, store
<1>2. \A u \in Threads : ThreadInv(u)'
  <2>1. ASSUME NEW u \in Threads \ {t}
        PROVE  ThreadInv(u)'
    <3>1. calls'[u] = calls[u] /\ ThreadInv(u)
      BY ThreadsAct DEF QuietInv
    <3> QED
      BY <3>1 DEF ThreadInv, store, ReadTrue, ExitSaved, GoneFor, RestoreSafe, ExportTrue
  <2> QED
    BY <2>1
<1>3. \A u \in Actors : FlushTrue(u)'
  BY DEF QuietInv, FlushTrue, store
<1>4. TickerPlaced'
  BY ThreadsAct DEF QuietInv, TickerPlaced, Busy
<1>5. StaleClean' /\ FilesTrue'
  BY <1>1 DEF QuietInv, StaleClean, FilesTrue, store
<1>6. Kept'
  <2>1. \A u \in Threads : \A e \in calls'[u].asked : e <= edits'
    BY ThreadsAct DEF QuietInv, Kept, store
  <2> QED
    BY <1>1, <2>1 DEF QuietInv, Kept, store
<1>7. Gone' /\ RestoreUndoable'
  BY DEF QuietInv, Gone, RestoreUndoable, store
<1> QED
  BY <1>2, <1>3, <1>4, <1>5, <1>6, <1>7 DEF QuietInv

\* A step that changes nothing but the ticker's call.
LEMMA TickerQuiet ==
  ASSUME QuietInv, UNCHANGED store, \A u \in Threads : calls'[u] = calls[u],
         calls'[Ticker].op = "tick",
         calls'[Ticker].pc = "idle" \/ (calls'[Ticker].pc = "flush" /\ \A u \in Threads : calls[u].op # "stop")
  PROVE  QuietInv'
<1>1. \A r : Current(r)' <=> Current(r)
  BY DEF Current, Leaves, store
<1>2. ASSUME NEW u \in Threads
      PROVE  ThreadInv(u)' /\ FlushTrue(u)'
  <2>1. calls'[u] = calls[u] /\ ThreadInv(u) /\ FlushTrue(u)
    BY ThreadsAct DEF QuietInv
  <2> QED
    BY <2>1 DEF ThreadInv, store, ReadTrue, ExitSaved, GoneFor, RestoreSafe, ExportTrue, FlushTrue
<1>3. TickerPlaced' /\ FlushTrue(Ticker)'
  BY DEF TickerPlaced, FlushTrue, Flushing, Busy
<1>4. Alone'
  BY DEF QuietInv, Alone, Busy
<1>5. StaleClean' /\ FilesTrue'
  BY <1>1 DEF QuietInv, StaleClean, FilesTrue, store
<1>6. Kept'
  BY <1>1 DEF QuietInv, Kept, store
<1>7. Gone' /\ RestoreUndoable'
  BY DEF QuietInv, Gone, RestoreUndoable, store
<1> QED
  BY <1>2, <1>3, <1>4, <1>5, <1>6, <1>7, ThreadsAct DEF QuietInv

\* A request goes on with the same operation, or ends.
LEMMA StepQuiet ==
  ASSUME QuietInv, UNCHANGED store, NEW t \in Threads, Busy(t),
         \A u \in Actors \ {t} : calls'[u] = calls[u],
         ~Leaves(t), ~Leaves(t)', calls'[t].pc \notin {"write", "copy"},
         \/ calls'[t] = NoCall
         \/ calls'[t].op = calls[t].op /\ calls'[t].asked = calls[t].asked /\ ThreadInv(t)'
  PROVE  QuietInv'
<1>1. Alone'
  BY ThreadsAct DEF QuietInv, Alone, Busy, NoCall
<1>2. ThreadInv(t)'
  BY DEF NoCall, ThreadInv, Placed, ReadTrue, ExitSaved, GoneFor, RestoreSafe, ExportTrue,
         OnRecord, Holding, Flushing
<1>3. FlushTrue(t)'
  BY DEF FlushTrue
<1>4. calls'[t].op = "stop" => ~Busy(Ticker)
  BY DEF NoCall, QuietInv, TickerPlaced
<1>5. \A e \in calls'[t].asked : e <= edits
  BY DEF NoCall, QuietInv, Kept
<1> QED
  BY <1>1, <1>2, <1>3, <1>4, <1>5, CallQuiet

\* One call changes, the others do not.
LEMMA GoesOn ==
  ASSUME TypeInv, NEW t \in Actors, NEW c, Goes(t, c)
  PROVE  calls'[t] = c /\ \A u \in Actors \ {t} : calls'[u] = calls[u]
BY DEF TypeInv, Calling, Goes

\* A call begins: alone, if it is going to unload.
LEMMA BeginQuiet ==
  ASSUME TypeInv, QuietInv, QuietUnload, NEW t \in Threads, NEW op \in Calls, Begin(t, op)
  PROVE  QuietInv'
<1> DEFINE c == [NoCall EXCEPT !.op = op,
                   !.asked = IF op = "export" THEN kept ELSE {},
                   !.pc = IF op \in {"unload", "stop"} THEN "unload" ELSE "lookup"]
<1>1. Goes(t, c) /\ UNCHANGED store /\ calls[t].pc = "idle" /\ MayBegin(t, op)
      /\ (op = "stop" => ~Busy(Ticker))
  BY DEF Begin, store, memory, disk, history, Busy
<1>2. c.op = op /\ c.asked \subseteq kept /\ (c.pc = IF op \in {"unload", "stop"} THEN "unload" ELSE "lookup")
  BY DEF NoCall
<1>3. op \in Ops /\ op # "tick" /\ op # "delete"
  BY StoreAssumption
<1>4. calls'[t] = c /\ \A u \in Actors \ {t} : calls'[u] = calls[u]
  <2> HIDE DEF c
  <2> QED
    BY <1>1, GoesOn, ThreadsAct
<1> HIDE DEF c
<1>5. ~Leaves(t) /\ ~Leaves(t)'
  BY <1>1, <1>2, <1>4 DEF Leaves, Flushing
<1>6. Alone'
  <2>1. \A u \in Threads \ {t} : Busy(u) => op \notin Unloading /\ calls[u].op \notin Unloading
    BY <1>1 DEF MayBegin
  <2> QED
    BY <1>2, <1>4, <2>1, ThreadsAct DEF QuietInv, Alone, Busy
<1>7. \A e \in calls'[t].asked : e <= edits
  BY <1>2, <1>4 DEF QuietInv, Kept
<1>8. ThreadInv(t)'
  <2>1. Placed(c, inMap')
    BY <1>2, <1>3 DEF Placed, OnRecord, Holding, Flushing
  <2>2. GoneFor(t)'
    BY <1>2, <1>4 DEF GoneFor
  <2> QED
    BY <1>2, <1>4, <2>1, <2>2 DEF ThreadInv, ReadTrue, ExitSaved, RestoreSafe, ExportTrue
<1>9. FlushTrue(t)'
  BY <1>2, <1>4 DEF FlushTrue
<1> QED
  BY <1>1, <1>2, <1>4, <1>5, <1>6, <1>7, <1>8, <1>9, CallQuiet

\* The ticker begins, and never during a stop.
LEMMA TickQuiet ==
  ASSUME TypeInv, QuietInv, Tick
  PROVE  QuietInv'
<1> DEFINE c == [NoCall EXCEPT !.rec = inMap, !.pc = "flush"]
<1>1. Goes(Ticker, c) /\ UNCHANGED store
  BY DEF Tick, store, memory, disk, history, bounds
<1>2. c.op = "tick" /\ c.pc = "flush"
  BY DEF NoCall
<1>3. calls'[Ticker] = c /\ \A u \in Actors \ {Ticker} : calls'[u] = calls[u]
  <2> HIDE DEF c
  <2> QED
    BY <1>1, GoesOn, ThreadsAct
<1>4. \A u \in Threads : calls[u].op # "stop"
  BY DEF Tick, Busy, QuietInv, ThreadInv, Placed
<1> HIDE DEF c
<1> QED
  BY <1>1, <1>2, <1>3, <1>4, TickerQuiet, ThreadsAct

\* The actions of requests alone.
LEMMA TickerOnly ==
  ASSUME QuietInv, NEW t \in Actors, calls[t].pc \notin {"idle"} \cup Flushing
  PROVE  t \in Threads /\ Busy(t) /\ ~Leaves(t)
BY ThreadsAct DEF QuietInv, TickerPlaced, Busy, Leaves

\* Get: the map.
LEMMA LookupQuiet ==
  ASSUME TypeInv, QuietInv, NEW t \in Actors, Lookup(t)
  PROVE  QuietInv'
<1>1. /\ t \in Threads /\ Busy(t) /\ ~Leaves(t) /\ calls[t] \in CallType
      /\ calls[t].pc = "lookup" /\ Placed(calls[t], inMap) /\ UNCHANGED store
  BY TickerOnly
     DEF Lookup, At, Flushing, QuietInv, ThreadInv, TypeInv, Calling, store, memory, disk, history, bounds
<1>2. CASE inMap # NoRec
  <2> DEFINE c == [calls[t] EXCEPT !.rec = inMap, !.pc = "work"]
  <2>1. Goes(t, c)
    BY <1>2 DEF Lookup
  <2>2. c.pc = "work" /\ c.rec = inMap /\ c.op = calls[t].op /\ c.asked = calls[t].asked
    BY <1>1 DEF CallType
  <2> HIDE DEF c
  <2>3. calls'[t] = c /\ \A u \in Actors \ {t} : calls'[u] = calls[u]
    BY <2>1, GoesOn
  <2>4. ThreadInv(t)' /\ ~Leaves(t)'
    <3>1. Placed(c, inMap')
      BY <1>1, <2>2 DEF Placed, OnRecord, Holding, Flushing, store
    <3>2. GoneFor(t)'
      BY <1>1, <1>2 DEF GoneFor, QuietInv, Gone, store
    <3> QED
      BY <2>2, <2>3, <3>1, <3>2
         DEF ThreadInv, ReadTrue, ExitSaved, RestoreSafe, ExportTrue, Leaves, Flushing
  <2> QED
    BY <1>1, <2>2, <2>3, <2>4, StepQuiet
<1>3. CASE inMap = NoRec
  <2> DEFINE c == [calls[t] EXCEPT !.todo = Kinds, !.pc = "read"]
  <2>1. Goes(t, c)
    BY <1>3 DEF Lookup
  <2>2. c.pc = "read" /\ c.todo = Kinds /\ c.op = calls[t].op /\ c.asked = calls[t].asked
    BY <1>1 DEF CallType
  <2> HIDE DEF c
  <2>3. calls'[t] = c /\ \A u \in Actors \ {t} : calls'[u] = calls[u]
    BY <2>1, GoesOn
  <2>4. ThreadInv(t)' /\ ~Leaves(t)'
    <3>1. Placed(c, inMap')
      BY <1>1, <2>2 DEF Placed, OnRecord, Holding, Flushing, store
    <3>2. GoneFor(t)' /\ ReadTrue(t)'
      BY <2>2, <2>3 DEF GoneFor, ReadTrue, Kinds
    <3> QED
      BY <2>2, <2>3, <3>1, <3>2
         DEF ThreadInv, ExitSaved, RestoreSafe, ExportTrue, Leaves, Flushing
  <2> QED
    BY <1>1, <2>2, <2>3, <2>4, StepQuiet
<1> QED
  BY <1>2, <1>3

\* Get: a file, which is complete unless the board has been deleted.
LEMMA ReadQuiet ==
  ASSUME TypeInv, QuietInv, NEW t \in Actors, Read(t)
  PROVE  QuietInv'
<1> DEFINE k == First(calls[t].todo)
           rest == calls[t].todo \ {k}
<1>1. /\ t \in Threads /\ Busy(t) /\ ~Leaves(t) /\ calls[t] \in CallType
      /\ calls[t].pc = "read" /\ ThreadInv(t) /\ UNCHANGED store
  BY TickerOnly
     DEF Read, At, Flushing, QuietInv, TypeInv, Calling, store, memory, disk, history, bounds
<1>2. CASE k = "meta" /\ files[k] = Missing
  <2>1. calls'[t] = NoCall /\ \A u \in Actors \ {t} : calls'[u] = calls[u]
    BY <1>2, GoesOn DEF Read
  <2>2. ~Leaves(t)' /\ calls'[t].pc \notin {"write", "copy"}
    BY <2>1 DEF Leaves, NoCall, Unloading
  <2> QED
    BY <1>1, <2>1, <2>2, StepQuiet
<1>3. CASE ~(k = "meta" /\ files[k] = Missing)
  <2> DEFINE val == IF files[k] = Missing THEN {} ELSE files[k]
             pc == IF rest = {} THEN "insert" ELSE "read"
             c == WithFile(calls[t], k, val, rest, pc)
  <2>1. Goes(t, c)
    BY <1>3 DEF Read, WithFile
  <2>2. k \in Kinds /\ rest \in SUBSET Kinds
    BY <1>1, FirstIn DEF CallType
  <2>3. val \in Content
    BY <2>2 DEF TypeInv, DataTypes, Content
  <2>4. pc \in {"insert", "read"}
    OBVIOUS
  <2>5. /\ c.pc = pc /\ c.todo = rest /\ c.op = calls[t].op /\ c.asked = calls[t].asked
        /\ c.read[k] = val /\ \A x \in Kinds \ {k} : c.read[x] = calls[t].read[x]
    <3>1. calls[t] \in CallType /\ pc \in {"read", "insert", "export", "exported"}
      BY <1>1, <2>4
    <3> HIDE DEF val, k, rest, pc
    <3> QED
      BY <2>2, <2>3, <3>1, WithFileType
  <2>6. ~deleted
    BY <1>1, <1>3 DEF ThreadInv, GoneFor, QuietInv, Gone, First
  <2>7. val = files[k]
    BY <2>2, <2>6 DEF QuietInv, Gone
  <2>8. \A x \in Kinds \ rest : x = k \/ x \notin calls[t].todo
    OBVIOUS
  <2> HIDE DEF c, k, rest, val, pc
  <2>9. calls'[t] = c /\ \A u \in Actors \ {t} : calls'[u] = calls[u]
    BY <2>1, GoesOn
  <2>10. ThreadInv(t)' /\ ~Leaves(t)'
    <3>1. Placed(c, inMap')
      BY <1>1, <2>4, <2>5 DEF ThreadInv, Placed, OnRecord, Holding, Flushing, store
    <3>2. GoneFor(t)'
      BY <1>1, <2>6 DEF GoneFor, store
    <3>3. ReadTrue(t)'
      BY <1>1, <2>5, <2>7, <2>8, <2>9 DEF ThreadInv, ReadTrue, store
    <3> QED
      BY <2>4, <2>5, <2>9, <3>1, <3>2, <3>3
         DEF ThreadInv, ExitSaved, RestoreSafe, ExportTrue, Leaves, Flushing
  <2> QED
    BY <1>1, <2>4, <2>5, <2>9, <2>10, StepQuiet
<1> QED
  BY <1>2, <1>3

\* RestoreSnapshot: the snapshot.
LEMMA FindQuiet ==
  ASSUME TypeInv, QuietInv, NEW t \in Actors, FindSnapshot(t)
  PROVE  QuietInv'
<1>1. /\ t \in Threads /\ Busy(t) /\ ~Leaves(t) /\ calls[t] \in CallType
      /\ calls[t].pc = "work" /\ calls[t].op = "restore" /\ ThreadInv(t) /\ UNCHANGED store
  BY TickerOnly
     DEF FindSnapshot, At, Flushing, QuietInv, TypeInv, Calling, store, memory, disk, history, bounds
<1>2. PICK s \in {x \in snaps : x.kind = "board"} :
        LET chats == {x \in snaps : x.ts = s.ts /\ x.kind = "chat" /\ x.val # Torn} IN
        Goes(t, IF s.val = Torn THEN NoCall
                ELSE [calls[t] EXCEPT !.pc = "flush", !.read =
                        [Unread EXCEPT !["board"] = s.val,
                            !["chat"] = IF chats = {} THEN Missing
                                        ELSE (CHOOSE x \in chats : TRUE).val]])
  BY DEF FindSnapshot
<1>3. CASE s.val = Torn
  <2>1. calls'[t] = NoCall /\ \A u \in Actors \ {t} : calls'[u] = calls[u]
    BY <1>2, <1>3, GoesOn
  <2>2. ~Leaves(t)' /\ calls'[t].pc \notin {"write", "copy"}
    BY <2>1 DEF Leaves, NoCall, Unloading
  <2> QED
    BY <1>1, <2>1, <2>2, StepQuiet
<1>4. CASE s.val # Torn
  <2> DEFINE chats == {x \in snaps : x.ts = s.ts /\ x.kind = "chat" /\ x.val # Torn}
             chat == IF chats = {} THEN Missing ELSE (CHOOSE x \in chats : TRUE).val
             read == [Unread EXCEPT !["board"] = s.val, !["chat"] = chat]
             c == [calls[t] EXCEPT !.pc = "flush", !.read = read]
  <2>1. Goes(t, c)
    BY <1>2, <1>4
  <2>2. c.pc = "flush" /\ c.op = "restore" /\ c.rec = calls[t].rec /\ c.asked = calls[t].asked
    <3> HIDE DEF read
    <3> QED
      BY <1>1 DEF CallType
  <2> HIDE DEF c
  <2>3. calls'[t] = c /\ \A u \in Actors \ {t} : calls'[u] = calls[u]
    BY <2>1, GoesOn
  <2>4. ThreadInv(t)' /\ ~Leaves(t)'
    <3>1. Placed(c, inMap')
      BY <1>1, <2>2 DEF ThreadInv, Placed, OnRecord, Holding, Flushing, store
    <3>2. GoneFor(t)'
      BY <1>1 DEF ThreadInv, GoneFor, store
    <3> QED
      BY <2>2, <2>3, <3>1, <3>2
         DEF ThreadInv, ReadTrue, ExitSaved, RestoreSafe, ExportTrue, Leaves, Unloading
  <2> QED
    BY <1>1, <2>2, <2>3, <2>4, StepQuiet
<1> QED
  BY <1>3, <1>4

\* Steps that only go on or end.
LEMMA ProceedQuiet ==
  ASSUME TypeInv, QuietInv, NEW t \in Actors, NotFound(t) \/ Proceed(t) \/ Exported(t)
  PROVE  QuietInv'
<1>1. /\ t \in Threads /\ Busy(t) /\ ~Leaves(t) /\ calls[t] \in CallType
      /\ calls[t].pc \in {"work", "exported"} /\ ThreadInv(t) /\ UNCHANGED store
  BY TickerOnly
     DEF NotFound, Proceed, Exported, At, Flushing, QuietInv, TypeInv, Calling, store, memory,
         disk, history, bounds
<1>2. CASE NotFound(t) \/ Exported(t)
  <2>1. calls'[t] = NoCall /\ \A u \in Actors \ {t} : calls'[u] = calls[u]
    BY <1>2, GoesOn DEF NotFound, Exported
  <2>2. ~Leaves(t)' /\ calls'[t].pc \notin {"write", "copy"}
    BY <2>1 DEF Leaves, NoCall, Unloading
  <2> QED
    BY <1>1, <2>1, <2>2, StepQuiet
<1>3. CASE Proceed(t)
  <2> DEFINE pc == IF calls[t].op = "drop" THEN "unload" ELSE "flush"
             c == [calls[t] EXCEPT !.pc = pc]
  <2>1. Goes(t, c)
    BY <1>3 DEF Proceed, GoesTo
  <2>2. pc \in {"unload", "flush"} /\ (pc = "unload" <=> calls[t].op = "drop")
    OBVIOUS
  <2>3. c.pc = pc /\ c.rec = calls[t].rec /\ c.op = calls[t].op /\ c.asked = calls[t].asked
    <3> HIDE DEF pc
    <3> QED
      BY <1>1 DEF CallType
  <2>4. calls[t].pc = "work" /\ calls[t].op \in {"force", "export", "drop"}
    BY <1>3 DEF Proceed, At
  <2> HIDE DEF c, pc
  <2>5. calls'[t] = c /\ \A u \in Actors \ {t} : calls'[u] = calls[u]
    BY <2>1, GoesOn
  <2>6. ThreadInv(t)' /\ ~Leaves(t)'
    <3>1. Placed(c, inMap')
      BY <1>1, <2>2, <2>3, <2>4
         DEF ThreadInv, Placed, OnRecord, Holding, Flushing, Unloading, store
    <3>2. GoneFor(t)'
      BY <1>1, <2>4 DEF ThreadInv, GoneFor, store
    <3> QED
      BY <2>2, <2>3, <2>4, <2>5, <3>1, <3>2
         DEF ThreadInv, ReadTrue, ExitSaved, RestoreSafe, ExportTrue, Leaves, Unloading, Flushing
  <2> QED
    BY <1>1, <2>2, <2>3, <2>5, <2>6, StepQuiet
<1> QED
  BY <1>2, <1>3

\* Export: a file, which holds what the snapshot before has put there.
LEMMA ExportQuiet ==
  ASSUME TypeInv, QuietInv, NEW t \in Actors, ExportFile(t)
  PROVE  QuietInv'
<1> DEFINE k == First(calls[t].todo)
           rest == calls[t].todo \ {k}
<1>1. /\ t \in Threads /\ Busy(t) /\ ~Leaves(t) /\ calls[t] \in CallType
      /\ calls[t].pc = "export" /\ ThreadInv(t) /\ UNCHANGED store
  BY TickerOnly
     DEF ExportFile, At, Flushing, QuietInv, TypeInv, Calling, store, memory, disk, history, bounds
<1>2. CASE files[k] = Missing
  <2>1. calls'[t] = NoCall /\ \A u \in Actors \ {t} : calls'[u] = calls[u]
    BY <1>2, GoesOn DEF ExportFile
  <2>2. ~Leaves(t)' /\ calls'[t].pc \notin {"write", "copy"}
    BY <2>1 DEF Leaves, NoCall, Unloading
  <2> QED
    BY <1>1, <2>1, <2>2, StepQuiet
<1>3. CASE files[k] # Missing
  <2> DEFINE pc == IF rest = {} THEN "exported" ELSE "export"
             c == WithFile(calls[t], k, files[k], rest, pc)
  <2>1. Goes(t, c)
    BY <1>3 DEF ExportFile, WithFile
  <2>2. k \in Kinds /\ rest \in SUBSET Kinds /\ k \in calls[t].todo
    BY <1>1, FirstIn DEF CallType, TypeInv, Calling, WellFormed, Stepwise
  <2>3. files[k] \in Content
    BY <1>3, <2>2 DEF TypeInv, DataTypes
  <2>4. pc \in {"exported", "export"} /\ (pc = "exported" => rest = {})
    OBVIOUS
  <2>5. /\ c.pc = pc /\ c.todo = rest /\ c.op = calls[t].op /\ c.asked = calls[t].asked
        /\ c.rec = calls[t].rec
        /\ c.read[k] = files[k] /\ \A x \in Kinds \ {k} : c.read[x] = calls[t].read[x]
    <3>1. calls[t] \in CallType /\ pc \in {"read", "insert", "export", "exported"}
      BY <1>1, <2>4
    <3> HIDE DEF k, rest, pc
    <3> QED
      BY <2>2, <2>3, <3>1, WithFileType
  <2>6. \A x \in Kinds : x \in rest <=> x \in calls[t].todo /\ x # k
    OBVIOUS
  <2> HIDE DEF c, k, rest, pc
  <2>7. calls'[t] = c /\ \A u \in Actors \ {t} : calls'[u] = calls[u]
    BY <2>1, GoesOn
  <2>8. ThreadInv(t)' /\ ~Leaves(t)'
    <3>1. Placed(c, inMap')
      BY <1>1, <2>4, <2>5 DEF ThreadInv, Placed, OnRecord, Holding, Flushing, store
    <3>2. GoneFor(t)'
      BY <1>1, <2>4, <2>5, <2>7 DEF ThreadInv, GoneFor, store
    <3>3. ExportTrue(t)'
      <4> SUFFICES ASSUME faults = 0, NEW e \in c.asked \cap kept
                   PROVE  \E x \in Kinds : /\ e \in mem[inMap][x]
                                           /\ e \in (IF c.pc = "export" /\ x \in c.todo
                                                     THEN files[x] ELSE c.read[x])
        BY <1>1, <2>7 DEF ExportTrue, store
      <4>1. PICK x \in Kinds : /\ e \in mem[inMap][x]
                               /\ e \in (IF x \in calls[t].todo THEN files[x] ELSE calls[t].read[x])
        BY <1>1, <2>5 DEF ThreadInv, ExportTrue
      <4>2. CASE x = k
        BY <2>2, <2>4, <2>5, <2>6, <4>1, <4>2
      <4>3. CASE x # k
        BY <2>4, <2>5, <2>6, <4>1, <4>3
      <4> QED
        BY <4>2, <4>3
    <3> QED
      BY <2>4, <2>5, <2>7, <3>1, <3>2, <3>3
         DEF ThreadInv, ReadTrue, ExitSaved, RestoreSafe, Leaves, Flushing
  <2> QED
    BY <1>1, <2>4, <2>5, <2>7, <2>8, StepQuiet
<1> QED
  BY <1>2, <1>3

-----------------------------------------------------------------------------
(* Steps that change the record in memory. *)

\* Get: a record made of what was read becomes current.
LEMMA InsertQuiet ==
  ASSUME TypeInv, TypeInv', QuietInv, NEW t \in Actors, Insert(t)
  PROVE  QuietInv'
<1>1. /\ t \in Threads /\ Busy(t) /\ ~Leaves(t) /\ calls[t] \in CallType
      /\ calls[t].pc = "insert" /\ ThreadInv(t) /\ WellFormed(calls[t], made)
      /\ UNCHANGED <<dirty, lock, dir, files, snaps, lastTs, edits, kept, replaced, deleted, faults>>
  BY TickerOnly
     DEF Insert, At, Flushing, QuietInv, TypeInv, Calling, disk, history, bounds
<1>2. CASE inMap # NoRec
  <2> DEFINE c == [calls[t] EXCEPT !.rec = inMap, !.read = Unread, !.pc = "work"]
  <2>1. Goes(t, c) /\ UNCHANGED store
    BY <1>1, <1>2 DEF Insert, store
  <2>2. c.pc = "work" /\ c.rec = inMap /\ c.op = calls[t].op /\ c.asked = calls[t].asked
    BY <1>1 DEF CallType
  <2> HIDE DEF c
  <2>3. calls'[t] = c /\ \A u \in Actors \ {t} : calls'[u] = calls[u]
    BY <2>1, GoesOn
  <2>4. ThreadInv(t)' /\ ~Leaves(t)'
    <3>1. Placed(c, inMap')
      BY <1>1, <2>1, <2>2 DEF ThreadInv, Placed, OnRecord, Holding, Flushing, store
    <3>2. GoneFor(t)'
      BY <1>1, <1>2 DEF GoneFor, QuietInv, Gone
    <3> QED
      BY <2>2, <2>3, <3>1, <3>2
         DEF ThreadInv, ReadTrue, ExitSaved, RestoreSafe, ExportTrue, Leaves, Flushing
  <2> QED
    BY <1>1, <2>1, <2>2, <2>3, <2>4, StepQuiet
<1>3. CASE inMap = NoRec
  <2> DEFINE c == [calls[t] EXCEPT !.rec = made', !.read = Unread, !.pc = "work"]
  <2>1. /\ Goes(t, c) /\ made' = made + 1 /\ inMap' = made' /\ made' \in Recs /\ made < made'
        /\ made \in Int
        /\ mem' = [mem EXCEPT ![made'] = calls[t].read]
    BY <1>3, StoreAssumption DEF Insert, Recs, TypeInv, DataTypes
  <2>2. c.pc = "work" /\ c.rec = made' /\ c.op = calls[t].op /\ c.asked = calls[t].asked
    BY <1>1 DEF CallType
  <2> HIDE DEF c
  <2>3. calls'[t] = c /\ \A u \in Actors \ {t} : calls'[u] = calls[u]
    BY <2>1, GoesOn
  <2>4. ~deleted
    BY <1>1 DEF ThreadInv, GoneFor
  <2>5. \A k \in Kinds : calls[t].read[k] = files[k]
    BY <1>1, <1>3 DEF ThreadInv, ReadTrue, WellFormed
  <2>6. mem'[made'] = calls[t].read /\ \A r \in Recs \ {made'} : mem'[r] = mem[r]
    BY <2>1 DEF TypeInv, DataTypes
  \* Nobody was on a record.
  <2>7. \A u \in Threads : ~Leaves(u)
    BY <1>1, NobodyLeaves
  <2>8. \A u \in Threads : calls[u].pc \notin OnRecord
    BY <1>3, <2>7, Loaded, NoRecord
  <2>9. \A r \in Recs : ~Current(r)
    BY <1>3, <2>7, NoRecord DEF Current
  <2>10. \A u \in Actors : calls[u].pc \notin Holding
    BY <2>9, HoldsCurrent
  <2>11. \A u \in Threads : ~Leaves(u)'
    BY <2>2, <2>3, <2>7, ThreadsAct DEF Leaves, Flushing
  <2>12. \A r \in Recs : Current(r)' <=> r = made'
    BY <2>1, <2>11 DEF Current
  <2>13. Alone'
    BY <1>1, <2>2, <2>3, ThreadsAct DEF QuietInv, Alone, Busy
  <2>14. TickerPlaced'
    BY <1>1, <2>2, <2>3, ThreadsAct DEF QuietInv, TickerPlaced, Busy
  <2>15. ASSUME NEW u \in Threads
         PROVE  ThreadInv(u)'
    <3>1. calls'[u].pc # "insert" \/ u # t
      BY <2>2, <2>3
    <3>2. Placed(calls'[u], inMap')
      <4>1. CASE u = t
        BY <1>1, <2>1, <2>2, <2>3, <4>1 DEF ThreadInv, Placed, OnRecord, Holding, Flushing
      <4>2. CASE u # t
        <5>1. calls'[u] = calls[u] /\ Placed(calls[u], inMap)
          BY <2>3, <4>2, ThreadsAct DEF QuietInv, ThreadInv
        <5>2. Busy(u) => calls[u].op \notin Unloading
          BY <1>1, <4>2 DEF QuietInv, Alone
        <5>3. calls[u].op \notin {"drop", "delete"}
          BY <5>1, <5>2 DEF Placed, Busy, Unloading, Flushing
        <5> QED
          BY <2>8, <5>1, <5>3 DEF Placed
      <4> QED
        BY <4>1, <4>2
    <3>3. calls'[u].pc \in OnRecord => u = t /\ calls'[u].pc = "work"
      BY <2>2, <2>3, <2>8, ThreadsAct
    <3>4. ReadTrue(u)' /\ GoneFor(u)'
      BY <1>1, <2>1, <2>4, NoRecord DEF ReadTrue, GoneFor
    <3>5. ExitSaved(u)'
      <4>1. calls'[u].pc # "exit"
        <5>1. CASE u = t
          BY <2>2, <2>3, <5>1
        <5>2. CASE u # t
          <6>1. calls'[u] = calls[u] /\ Placed(calls[u], inMap)
            BY <2>3, <5>2, ThreadsAct DEF QuietInv, ThreadInv
          <6>2. Busy(u) => calls[u].op \notin Unloading
            BY <1>1, <5>2 DEF QuietInv, Alone
          <6> QED
            BY <6>1, <6>2 DEF Placed, Busy, Unloading
        <5> QED
          BY <5>1, <5>2
      <4> QED
        BY <4>1 DEF ExitSaved
    <3>6. RestoreSafe(u)' /\ ExportTrue(u)'
      BY <3>3 DEF RestoreSafe, ExportTrue, OnRecord, Holding
    <3> QED
      BY <3>2, <3>4, <3>5, <3>6 DEF ThreadInv
  <2>16. StaleClean'
    BY <1>1, <2>1, <2>9, <2>12 DEF QuietInv, StaleClean, Recs
  <2>17. FilesTrue'
    BY <1>1, <2>5, <2>6, <2>12 DEF FilesTrue
  <2>18. \A u \in Actors : FlushTrue(u)'
    BY <2>2, <2>3, <2>10 DEF FlushTrue, Holding
  <2>19. Kept'
    <3>1. \A u \in Threads : \A e \in calls'[u].asked : e <= edits'
      BY <1>1, <2>2, <2>3, ThreadsAct DEF QuietInv, Kept
    <3>2. \A e \in kept : \E k \in Kinds : e \in files[k]
      BY <2>9 DEF QuietInv, Kept
    <3>3. \A e \in kept' : \E k \in Kinds : e \in mem'[made'][k]
      BY <1>1, <2>5, <2>6, <3>2
    <3> QED
      BY <1>1, <2>1, <2>12, <3>1, <3>3 DEF QuietInv, Kept
  <2>20. Gone' /\ RestoreUndoable'
    BY <1>1, <2>4 DEF QuietInv, Gone, RestoreUndoable
  <2> QED
    BY <2>13, <2>14, <2>15, <2>16, <2>17, <2>18, <2>19, <2>20 DEF QuietInv
<1> QED
  BY <1>2, <1>3

\* Nobody holds a lock while the current record's is free.
LEMMA NobodyHolds ==
  ASSUME TypeInv, QuietInv, NEW r \in Recs, Current(r), lock[r] = Nobody
  PROVE  \A u \in Actors : calls[u].pc \notin Holding
<1> SUFFICES ASSUME NEW u \in Actors, calls[u].pc \in Holding
             PROVE  FALSE
  OBVIOUS
<1>1. calls[u].rec = r /\ lock[r] = u
  BY HoldsCurrent, OneCurrent
<1> QED
  BY <1>1, NoRecord

\* An edit is kept in the current record, and its kind dirty.
LEMMA ChangeQuiet ==
  ASSUME TypeInv, TypeInv', QuietInv, NEW t \in Actors, Change(t) \/ Archive(t)
  PROVE  QuietInv'
<1>1. /\ t \in Threads /\ Busy(t) /\ ~Leaves(t) /\ calls[t] \in CallType
      /\ calls[t].pc = "work" /\ ThreadInv(t) /\ calls[t].op \notin Unloading
  BY TickerOnly
     DEF Change, Archive, At, Flushing, QuietInv, TypeInv, Calling, Unloading, Edits, Kinds
<1>2. calls[t].rec = inMap /\ inMap \in Recs /\ Current(inMap) /\ inMap # NoRec
  BY <1>1, Loaded, NoRecord DEF OnRecord
<1>3. PICK k \in Kinds : Marks(t, k)
  BY DEF Change, Archive, Edits, Kinds
<1>4. /\ edits' = edits + 1 /\ edits \in Nat /\ kept' = kept \cup {edits'}
      /\ lock[inMap] = Nobody
      /\ UNCHANGED <<inMap, lock, dir, files, snaps, made, replaced, deleted, faults>>
  BY <1>2, <1>3 DEF Marks, Unlocked, disk, bounds, TypeInv, DataTypes
<1>5. /\ \A r \in Recs \ {inMap} : mem'[r] = mem[r] /\ dirty'[r] = dirty[r]
      /\ dirty'[inMap] = dirty[inMap] \cup {k}
      /\ \A x \in Kinds \ {k} : mem'[inMap][x] = mem[inMap][x]
      /\ mem'[inMap][k] = mem[inMap][k] \cup {edits'}
  <2>1. mem[inMap] \in [Kinds -> Content]
    BY <1>2 DEF TypeInv, DataTypes
  <2> DEFINE new == mem[inMap][k] \cup {edits'}
  <2>2. mem' = [mem EXCEPT ![inMap][k] = new] /\ dirty' = [dirty EXCEPT ![inMap] = @ \cup {k}]
    BY <1>2, <1>3 DEF Marks
  <2> HIDE DEF new
  <2>3. /\ \A r \in Recs \ {inMap} : mem'[r] = mem[r] /\ dirty'[r] = dirty[r]
        /\ dirty'[inMap] = dirty[inMap] \cup {k}
        /\ \A x \in Kinds \ {k} : mem'[inMap][x] = mem[inMap][x]
        /\ mem'[inMap][k] = new
    BY <1>2, <2>1, <2>2 DEF TypeInv, DataTypes
  <2> QED
    BY <2>3 DEF new
<1>6. \A u \in Actors : calls[u].pc \notin Holding
  BY <1>2, <1>4, NobodyHolds
<1>7. /\ \A u \in Actors \ {t} : calls'[u] = calls[u]
      /\ \/ calls'[t] = NoCall
         \/ /\ calls'[t].pc = "flush" /\ calls'[t].op = "archive" /\ calls[t].op = "archive"
            /\ calls'[t].rec = calls[t].rec
            /\ calls'[t].asked = calls[t].asked
  <2>1. CASE Change(t)
    BY <2>1, GoesOn DEF Change
  <2>2. CASE Archive(t)
    <3> DEFINE c == [calls[t] EXCEPT !.pc = "flush"]
    <3>1. Goes(t, c)
      BY <2>2 DEF Archive, GoesTo
    <3>2. c.pc = "flush" /\ c.op = "archive" /\ c.rec = calls[t].rec /\ c.asked = calls[t].asked
          /\ calls[t].op = "archive"
      BY <1>1, <2>2 DEF CallType, Archive
    <3> HIDE DEF c
    <3> QED
      BY <3>1, <3>2, GoesOn
  <2> QED
    BY <2>1, <2>2
<1>8. /\ \A u \in Threads : ~Leaves(u)'
      /\ \A u \in Threads : ~Leaves(u)
      /\ \A r : Current(r) <=> r = inMap
      /\ \A r : Current(r)' <=> r = inMap
  <2>1. \A u \in Threads : ~Leaves(u)
    BY <1>1, NobodyLeaves
  <2>2. \A u \in Threads : ~Leaves(u)'
    BY <1>7, <2>1, ThreadsAct DEF Leaves, NoCall, Unloading
  <2> QED
    BY <1>4, <2>1, <2>2 DEF Current
<1>9. Alone' /\ TickerPlaced'
  BY <1>1, <1>7, ThreadsAct DEF QuietInv, Alone, TickerPlaced, Busy, NoCall
<1>10. ~deleted
  BY <1>2 DEF QuietInv, Gone
<1>11. ASSUME NEW u \in Threads
       PROVE  ThreadInv(u)'
  <2>1. ThreadInv(u)
    BY DEF QuietInv
  <2>2. Placed(calls'[u], inMap')
    BY <1>1, <1>2, <1>4, <1>7, <2>1, ThreadsAct
       DEF ThreadInv, Placed, NoCall, OnRecord, Holding, Flushing
  <2>3. ReadTrue(u)' /\ GoneFor(u)'
    BY <1>2, <1>4, <1>10 DEF ReadTrue, GoneFor
  <2>4. ExitSaved(u)'
    <3>1. calls'[u].pc # "exit"
      BY <1>1, <1>7, <2>1, ThreadsAct
         DEF NoCall, ThreadInv, Placed, QuietInv, Alone, Busy, Unloading
    <3> QED
      BY <3>1 DEF ExitSaved
  <2>5. RestoreSafe(u)'
    <3>1. calls'[u].pc \notin Holding
      BY <1>6, <1>7, ThreadsAct DEF NoCall, Holding
    <3> QED
      BY <3>1 DEF RestoreSafe, Holding
  <2>6. ExportTrue(u)'
    <3> SUFFICES ASSUME faults = 0, calls'[u].pc \in {"export", "exported"},
                        NEW e \in calls'[u].asked \cap kept'
                 PROVE  \E x \in Kinds :
                          /\ e \in mem'[inMap][x]
                          /\ e \in (IF calls'[u].pc = "export" /\ x \in calls'[u].todo
                                    THEN files[x] ELSE calls'[u].read[x])
      BY <1>4 DEF ExportTrue
    <3>1. calls'[u] = calls[u]
      BY <1>7, ThreadsAct DEF NoCall
    <3>2. e \in kept /\ e \in calls[u].asked
      <4>1. e <= edits /\ e \in calls[u].asked
        BY <3>1 DEF QuietInv, Kept
      <4> QED
        BY <1>4, <4>1
    <3>3. PICK x \in Kinds :
             /\ e \in mem[inMap][x]
             /\ e \in (IF calls[u].pc = "export" /\ x \in calls[u].todo
                       THEN files[x] ELSE calls[u].read[x])
      BY <2>1, <3>1, <3>2 DEF ThreadInv, ExportTrue
    <3>4. e \in mem'[inMap][x]
      BY <1>5, <3>3
    <3> QED
      BY <3>1, <3>3, <3>4
  <2> QED
    BY <2>2, <2>3, <2>4, <2>5, <2>6 DEF ThreadInv
<1>12. StaleClean'
  BY <1>4, <1>5, <1>8 DEF QuietInv, StaleClean
<1>13. FilesTrue'
  BY <1>2, <1>4, <1>5, <1>8 DEF QuietInv, FilesTrue
<1>14. \A u \in Actors : FlushTrue(u)'
  BY <1>6, <1>7 DEF FlushTrue, Holding, NoCall
<1>15. Kept'
  <2>1. \A e \in kept' : e <= edits'
    BY <1>4 DEF QuietInv, Kept, TypeInv, DataTypes, Content
  <2>2. \A u \in Threads : \A e \in calls'[u].asked : e <= edits'
    <3>1. \A u \in Threads : \A e \in calls[u].asked : e <= edits /\ e \in Nat
      BY ThreadsAct DEF QuietInv, Kept, TypeInv, Calling, CallType, Content
    <3> QED
      BY <1>4, <1>7, <3>1, ThreadsAct DEF NoCall
  <2>3. \A e \in kept' : \E x \in Kinds : e \in mem'[inMap][x]
    <3>1. \A e \in kept : \E x \in Kinds : e \in mem[inMap][x]
      BY <1>2 DEF QuietInv, Kept
    <3> QED
      BY <1>4, <1>5, <3>1
  <2> QED
    BY <1>2, <1>8, <2>1, <2>2, <2>3 DEF Kept
<1>16. Gone' /\ RestoreUndoable'
  BY <1>4 DEF QuietInv, Gone, RestoreUndoable
<1> QED
  BY <1>9, <1>11, <1>12, <1>13, <1>14, <1>15, <1>16 DEF QuietInv

-----------------------------------------------------------------------------
(* Snapshots. *)

\* A board with a current record is not deleted.
LEMMA NotGone ==
  ASSUME QuietInv, NEW r \in Recs, Current(r)
  PROVE  ~deleted
BY NoRecord DEF QuietInv, Gone, Current, ThreadInv, GoneFor, Leaves, Flushing

\* What comes after a snapshot.
LEMMA AfterCases ==
  ASSUME NEW c \in CallType
  PROVE  /\ c.op = "export" => /\ After(c).op = "export" /\ After(c).pc = "export"
                               /\ After(c).rec = c.rec /\ After(c).todo = Kinds
                               /\ After(c).asked = c.asked
         /\ c.op = "drop" => /\ After(c).op = "delete" /\ After(c).pc = "unload"
                             /\ After(c).asked = c.asked
         /\ c.op = "delete" => /\ After(c).op = "delete" /\ After(c).pc = "remove"
                               /\ After(c).asked = c.asked
         /\ c.op = "stop" => /\ After(c).op = "stop" /\ After(c).pc = "exit"
                             /\ After(c).asked = c.asked
         /\ c.op \notin {"export", "drop", "delete", "stop"} => After(c) = NoCall
<1>1. CASE c.op = "export"
  BY <1>1 DEF After, CallType
<1>2. CASE c.op = "drop"
  BY <1>2 DEF After, CallType
<1>3. CASE c.op = "delete"
  BY <1>3 DEF After, CallType
<1>4. CASE c.op = "stop"
  BY <1>4 DEF After, CallType
<1>5. CASE c.op \notin {"export", "drop", "delete", "stop"}
  BY <1>5 DEF After
<1> QED
  BY <1>1, <1>2, <1>3, <1>4, <1>5

\* A snapshot of the current record is done.
LEMMA FlushedQuiet ==
  ASSUME TypeInv, QuietInv, NEW t \in Actors, calls[t].pc \in Flushing,
         calls[t].op # "restore", Current(calls[t].rec),
         calls'[t] = After(calls[t]), \A u \in Actors \ {t} : calls'[u] = calls[u],
         \A u \in Actors \ {t} : calls[u].pc \notin Holding,
         UNCHANGED <<inMap, mem, dir, files, made, edits, kept, replaced, deleted, faults>>,
         snaps \subseteq snaps',
         \A r \in Recs \ {calls[t].rec} : dirty'[r] = dirty[r] /\ lock'[r] = lock[r],
         dirty'[calls[t].rec] \subseteq dirty[calls[t].rec], lock'[calls[t].rec] = Nobody,
         \A k \in Kinds \ dirty'[calls[t].rec] : files[k] = mem[calls[t].rec][k],
         calls[t].op \notin {"tick", "force"} => dirty'[calls[t].rec] = {}
  PROVE  QuietInv'
<1> DEFINE c == calls[t]
           d == calls'[t]
           rec == calls[t].rec
<1>1. c \in CallType /\ rec \in Recs /\ calls[t].pc \in OnRecord
  BY OnARecord DEF Flushing, OnRecord, Holding, TypeInv, Calling
<1>2. /\ c.op = "export" => d.op = "export" /\ d.pc = "export" /\ d.rec = rec /\ d.todo = Kinds
      /\ c.op = "drop" => d.op = "delete" /\ d.pc = "unload"
      /\ c.op = "delete" => d.op = "delete" /\ d.pc = "remove"
      /\ c.op = "stop" => d.op = "stop" /\ d.pc = "exit"
      /\ c.op \notin {"export", "drop", "delete", "stop"} => d = NoCall
      /\ d.asked = c.asked \/ d = NoCall
  BY <1>1, AfterCases
<1>3. NoCall.op = "tick" /\ NoCall.pc = "idle" /\ NoCall.asked = {}
  BY DEF NoCall
<1>4. ~deleted
  BY <1>1, NotGone
<1>5. t \in Threads => Placed(c, inMap) /\ Busy(t) /\ c.op # "delete"
  BY DEF QuietInv, ThreadInv, Placed, Flushing, Busy
<1>6. t \notin Threads => c.op = "tick" /\ d = NoCall
  BY <1>2, ThreadsAct DEF QuietInv, TickerPlaced
<1>7. t \in Threads => ~Leaves(t)'
  BY <1>2, <1>3 DEF Leaves, Flushing
<1>8. \A u \in Threads \ {t} : Leaves(u)' <=> Leaves(u)
  BY ThreadsAct DEF Leaves
<1>9. \A r \in Recs : Current(r)' => Current(r)
  BY <1>7, <1>8, ThreadsAct DEF Current
<1>10. \A r \in Recs : Current(r) => Current(r)' \/ (t \in Threads /\ Leaves(t) /\ r = rec)
  <2> SUFFICES ASSUME NEW r \in Recs, Current(r), r # inMap,
                      ~(t \in Threads /\ Leaves(t) /\ r = rec)
               PROVE  Current(r)'
    BY DEF Current
  <2>1. PICK u \in Threads : Leaves(u) /\ calls[u].rec = r
    BY DEF Current
  <2>2. u # t
    BY <2>1
  <2> QED
    BY <1>8, <2>1, <2>2, ThreadsAct DEF Current
<1> HIDE DEF d
<1>11. Alone'
  <2>1. \A u \in Threads \ {t} : calls'[u] = calls[u]
    BY ThreadsAct
  <2>2. t \in Threads /\ d.pc # "idle" => d.op = c.op \/ c.op = "drop"
    BY <1>2, <1>3
  <2> QED
    BY <1>5, <2>1, <2>2 DEF QuietInv, Alone, Busy, Unloading, d
<1>12. TickerPlaced'
  <2>1. \A u \in Threads : calls'[u].op = "stop" => calls[u].op = "stop"
    BY <1>2, <1>3, ThreadsAct DEF d, CallType
  <2>2. calls'[Ticker] = calls[Ticker] \/ calls'[Ticker] = NoCall
    BY <1>6, ThreadsAct DEF d
  <2> QED
    BY <1>3, <2>1, <2>2 DEF QuietInv, TickerPlaced, Busy
<1>13. ASSUME NEW u \in Threads \ {t}
       PROVE  ThreadInv(u)'
  <2>1. calls'[u] = calls[u] /\ ThreadInv(u) /\ calls[u].pc \notin Holding
    BY ThreadsAct DEF QuietInv
  <2>2. ExitSaved(u)'
    <3>1. inMap # NoRec => inMap \in Recs
      BY DEF TypeInv, DataTypes
    <3> QED
      BY <2>1, <3>1 DEF ThreadInv, ExitSaved
  <2>3. RestoreSafe(u)'
    BY <2>1 DEF RestoreSafe, Holding
  <2> QED
    BY <2>1, <2>2, <2>3 DEF ThreadInv, ReadTrue, GoneFor, ExportTrue
<1>14. ASSUME t \in Threads
       PROVE  ThreadInv(t)'
  <2>1. CASE c.op = "export"
    <3>1. rec = inMap
      BY <1>1, <1>14, <2>1, Loaded DEF Leaves, Unloading
    <3>2. Placed(d, inMap')
      BY <1>2, <2>1, <3>1 DEF Placed, OnRecord, Holding, Flushing
    <3>3. ExportTrue(t)'
      <4>1. \A e \in kept : \E k \in Kinds : e \in mem[inMap][k]
        BY <1>1, <3>1 DEF QuietInv, Kept
      <4>2. \A k \in Kinds : files[k] = mem[inMap][k]
        BY <2>1, <3>1
      <4> QED
        BY <1>2, <2>1, <4>1, <4>2 DEF ExportTrue, d
    <3> QED
      BY <1>2, <1>4, <2>1, <3>2, <3>3
         DEF ThreadInv, ReadTrue, ExitSaved, GoneFor, RestoreSafe, d
  <2>2. CASE c.op = "drop"
    <3>1. inMap = NoRec
      BY <1>5, <1>14, <2>2 DEF Placed
    <3>2. Placed(d, inMap')
      BY <1>2, <2>2, <3>1 DEF Placed, OnRecord, Holding, Flushing
    <3> QED
      BY <1>2, <1>4, <2>2, <3>2
         DEF ThreadInv, ReadTrue, ExitSaved, GoneFor, RestoreSafe, ExportTrue, d
  <2>3. CASE c.op = "stop"
    <3>1. Placed(d, inMap')
      BY <1>2, <2>3 DEF Placed, OnRecord, Holding, Flushing
    <3>2. ExitSaved(t)'
      <4>1. ASSUME inMap # NoRec
            PROVE  inMap = rec
        BY <1>1, <4>1, OneCurrent DEF TypeInv, DataTypes, Current
      <4> QED
        BY <2>3, <4>1 DEF ExitSaved
    <3> QED
      BY <1>2, <1>4, <2>3, <3>1, <3>2
         DEF ThreadInv, ReadTrue, GoneFor, RestoreSafe, ExportTrue, d
  <2>4. CASE c.op \notin {"export", "drop", "stop"}
    <3>1. d = NoCall
      BY <1>2, <1>5, <1>14, <2>4
    <3> QED
      BY <1>3, <3>1
         DEF ThreadInv, Placed, ReadTrue, ExitSaved, GoneFor, RestoreSafe, ExportTrue, d,
             OnRecord, Holding, Flushing
  <2> QED
    BY <2>1, <2>2, <2>3, <2>4
<1>15. StaleClean'
  <2> SUFFICES ASSUME NEW r \in Recs, r <= made, ~Current(r)'
               PROVE  dirty'[r] = {} /\ lock'[r] = Nobody
    BY DEF StaleClean
  <2>1. CASE Current(r)
    <3>1. t \in Threads /\ Leaves(t) /\ r = rec
      BY <1>10, <2>1
    <3> QED
      BY <3>1 DEF Leaves, Unloading
  <2>2. CASE ~Current(r)
    BY <2>2 DEF QuietInv, StaleClean
  <2> QED
    BY <2>1, <2>2
<1>16. FilesTrue'
  BY <1>9 DEF QuietInv, FilesTrue
<1>17. \A u \in Actors : FlushTrue(u)'
  BY <1>2, <1>3 DEF FlushTrue, Holding, d
<1>18. Kept'
  <2>1. \A u \in Threads : \A e \in calls'[u].asked : e <= edits'
    BY <1>2, <1>3, ThreadsAct DEF QuietInv, Kept, d
  <2>2. \A r \in Recs : Current(r)' => \A e \in kept' : \E k \in Kinds : e \in mem'[r][k]
    BY <1>9 DEF QuietInv, Kept
  <2>3. ASSUME \A r \in Recs : ~Current(r)'
        PROVE  \A e \in kept' : \E k \in Kinds : e \in files'[k]
    <3>1. t \in Threads /\ Leaves(t)
      BY <1>1, <1>10, <2>3
    <3>2. dirty'[rec] = {}
      BY <3>1 DEF Leaves, Unloading
    <3> QED
      BY <1>1, <3>2 DEF QuietInv, Kept
  <2> QED
    BY <2>1, <2>2, <2>3 DEF QuietInv, Kept
<1>19. Gone' /\ RestoreUndoable'
  BY DEF QuietInv, Gone, RestoreUndoable
<1> QED
  BY <1>11, <1>12, <1>13, <1>14, <1>15, <1>16, <1>17, <1>18, <1>19 DEF QuietInv

\* Steps under the lock: the call goes on with the same operation, and neither the map
\* nor who is leaving it changes.
LEMMA SameCurrent ==
  ASSUME NEW t \in Actors, UNCHANGED inMap, \A u \in Actors \ {t} : calls'[u] = calls[u],
         t \in Threads => (Leaves(t)' <=> Leaves(t)) /\ calls'[t].rec = calls[t].rec
  PROVE  /\ \A r : Current(r)' <=> Current(r)
         /\ \A u \in Threads : Leaves(u)' <=> Leaves(u)
<1>1. \A u \in Threads : Leaves(u)' <=> Leaves(u)
  BY ThreadsAct DEF Leaves
<1>2. \A u \in Threads : Leaves(u) => calls'[u].rec = calls[u].rec
  BY ThreadsAct
<1> QED
  BY <1>1, <1>2 DEF Current

\* snapshotLocked begins, or nothing is due.
LEMMA SnapshotQuiet ==
  ASSUME TypeInv, TypeInv', QuietInv, NEW t \in Actors, NEW kinds \in SUBSET Kinds,
         Snapshot(t, kinds)
  PROVE  QuietInv'
<1>1. /\ calls[t] \in CallType /\ calls[t].rec \in Recs /\ calls[t].pc = "flush"
      /\ lock[calls[t].rec] = Nobody /\ kinds \in Due(t) /\ calls[t].rec <= made
  BY OnARecord, NoRecord
     DEF Snapshot, At, Unlocked, OnRecord, TypeInv, Calling, WellFormed
<1>2. UNCHANGED <<inMap, mem, dirty, files, snaps, made, edits, kept, replaced, deleted, faults>>
  BY DEF Snapshot, memory, history, bounds
<1>3. /\ calls[t].op \notin {"force", "restore", "tick"} => kinds = dirty[calls[t].rec]
      /\ calls[t].op = "tick" => kinds \subseteq dirty[calls[t].rec]
      /\ calls[t].op \in {"force", "restore"} => kinds = Kinds
  <2>1. CASE calls[t].op \in {"force", "restore"}
    BY <1>1, <2>1 DEF Due
  <2>2. CASE calls[t].op = "tick"
    BY <1>1, <2>2 DEF Due
  <2>3. CASE calls[t].op \notin {"force", "restore", "tick"}
    BY <1>1, <2>3 DEF Due
  <2> QED
    BY <2>1, <2>2, <2>3
<1>4. t \notin Threads => calls[t].op = "tick"
  BY ThreadsAct DEF QuietInv, TickerPlaced
<1>5. t \in Threads => Current(calls[t].rec) /\ calls[t].op # "tick"
  BY <1>1, Loaded DEF OnRecord, QuietInv, ThreadInv, Placed
<1>6. CASE kinds = {}
  <2>1. UNCHANGED <<lock, dir>> /\ calls'[t] = After(calls[t])
        /\ \A u \in Actors \ {t} : calls'[u] = calls[u]
    BY <1>6, GoesOn DEF Snapshot
  <2>2. CASE t \in Threads
    <3>1. \A u \in Actors : calls[u].pc \notin Holding
      BY <1>1, <1>5, <2>2, NobodyHolds
    <3>2. calls[t].op \notin {"force", "restore", "tick"}
      BY <1>3, <1>5, <1>6, <2>2 DEF Kinds
    <3>3. dirty[calls[t].rec] = {}
      BY <1>3, <1>6, <3>2
    <3>4. \A k \in Kinds \ dirty'[calls[t].rec] : files[k] = mem[calls[t].rec][k]
      BY <1>1, <1>2, <1>5, <2>2 DEF QuietInv, FilesTrue
    <3> QED
      BY <1>1, <1>2, <1>5, <2>1, <2>2, <3>1, <3>2, <3>3, <3>4, FlushedQuiet DEF Flushing
  <2>3. CASE t \notin Threads
    <3>1. t = Ticker /\ calls'[t] = NoCall
      BY <1>1, <1>4, <2>1, <2>3, AfterCases, ThreadsAct
    <3>2. UNCHANGED store /\ \A u \in Threads : calls'[u] = calls[u]
      BY <1>2, <2>1, <2>3, ThreadsAct DEF store
    <3> QED
      BY <3>1, <3>2, TickerQuiet DEF NoCall
  <2> QED
    BY <2>2, <2>3
<1>7. CASE kinds # {}
  <2> DEFINE c == [calls[t] EXCEPT !.pc = "write", !.todo = kinds, !.ts = lastTs']
  <2>1. Goes(t, c) /\ Locks(t) /\ dir' = TRUE
    BY <1>7 DEF Snapshot
  <2>2. c.pc = "write" /\ c.todo = kinds /\ c.rec = calls[t].rec /\ c.op = calls[t].op
        /\ c.asked = calls[t].asked
    BY <1>1 DEF CallType
  <2> HIDE DEF c
  <2>3. calls'[t] = c /\ \A u \in Actors \ {t} : calls'[u] = calls[u]
    BY <2>1, GoesOn
  <2>4. lock'[calls[t].rec] = t /\ \A r \in Recs \ {calls[t].rec} : lock'[r] = lock[r]
    BY <1>1, <2>1 DEF Locks, TypeInv, DataTypes
  <2>5. Current(calls[t].rec)
    <3>1. CASE t \in Threads
      BY <1>5, <3>1
    <3>2. CASE t \notin Threads
      <4>1. dirty[calls[t].rec] # {}
        BY <1>3, <1>4, <1>7, <3>2
      <4> QED
        BY <1>1, <4>1 DEF QuietInv, StaleClean
    <3> QED
      BY <3>1, <3>2
  <2>6. \A u \in Actors : calls[u].pc \notin Holding
    BY <1>1, <2>5, NobodyHolds
  <2>7. ~deleted
    BY <1>1, <2>5, NotGone
  <2>8. \A r : Current(r)' <=> Current(r)
    BY <1>1, <1>2, <2>2, <2>3, SameCurrent DEF Leaves, Flushing
  <2>9. Alone' /\ TickerPlaced'
    <3>1. \A u \in Actors : calls'[u].op = calls[u].op /\ (calls'[u].pc = "idle" <=> calls[u].pc = "idle")
      BY <1>1, <2>2, <2>3
    <3>2. calls'[Ticker].pc \in {"idle"} \cup Flushing
      BY <2>2, <2>3, ThreadsAct DEF QuietInv, TickerPlaced, Flushing
    <3> QED
      BY <3>1, <3>2, ThreadsAct DEF QuietInv, Alone, TickerPlaced, Busy
  <2>10. ASSUME NEW u \in Threads
         PROVE  ThreadInv(u)'
    <3>1. ThreadInv(u) /\ calls[u].pc \notin Holding
      BY <2>6, ThreadsAct DEF QuietInv
    <3>2. CASE u = t
      <4>1. Placed(c, inMap')
        BY <1>1, <1>2, <2>2, <3>1, <3>2 DEF ThreadInv, Placed, OnRecord, Holding, Flushing
      <4>2. RestoreSafe(u)'
        BY <1>3, <2>2, <2>3, <3>2 DEF RestoreSafe
      <4> QED
        BY <1>2, <2>2, <2>3, <2>7, <3>2, <4>1, <4>2
           DEF ThreadInv, ReadTrue, ExitSaved, GoneFor, ExportTrue
    <3>3. CASE u # t
      <4>1. calls'[u] = calls[u]
        BY <2>3, <3>3, ThreadsAct
      <4> QED
        BY <1>2, <3>1, <4>1
           DEF ThreadInv, ReadTrue, ExitSaved, GoneFor, RestoreSafe, ExportTrue
    <3> QED
      BY <3>2, <3>3
  <2>11. StaleClean'
    BY <1>2, <2>4, <2>5, <2>8 DEF QuietInv, StaleClean
  <2>12. FilesTrue'
    BY <1>2, <2>8 DEF QuietInv, FilesTrue
  <2>13. \A u \in Actors : FlushTrue(u)'
    <3>1. FlushTrue(t)'
      BY <1>2, <1>3, <2>2, <2>3 DEF FlushTrue
    <3> QED
      BY <2>3, <2>6, <3>1 DEF FlushTrue, Holding
  <2>14. Kept'
    <3>1. \A u \in Threads : calls'[u].asked = calls[u].asked
      BY <2>2, <2>3, ThreadsAct
    <3> QED
      BY <1>2, <2>8, <3>1 DEF QuietInv, Kept
  <2>15. Gone' /\ RestoreUndoable'
    BY <1>2, <2>1, <2>7 DEF QuietInv, Gone, RestoreUndoable
  <2> QED
    BY <2>9, <2>10, <2>11, <2>12, <2>13, <2>14, <2>15 DEF QuietInv
<1> QED
  BY <1>6, <1>7

\* Both Write and WriteWorking put a kind of the current record into its file.
LEMMA FileWritten ==
  ASSUME TypeInv, QuietInv, NEW t \in Actors, calls[t].pc \in Holding, NEW k \in Kinds,
         files' = [files EXCEPT ![k] = mem[calls[t].rec][k]],
         UNCHANGED <<inMap, mem, dirty, dir, snaps, made, edits, kept, replaced, deleted, faults>>,
         \A r \in Recs \ {calls[t].rec} : lock'[r] = lock[r],
         \A u \in Actors \ {t} : calls'[u] = calls[u],
         t \in Threads => (Leaves(t)' <=> Leaves(t)) /\ Placed(calls'[t], inMap),
         calls'[t] = NoCall \/ (/\ calls'[t].op = calls[t].op /\ calls'[t].rec = calls[t].rec
                                /\ calls'[t].asked = calls[t].asked
                                /\ calls'[t].pc \in Holding),
         calls'[t] = NoCall => ~Leaves(t),
         (t \notin Threads) => calls'[t].op = "tick" /\ calls'[t].pc \in {"idle"} \cup Flushing,
         FlushTrue(t)', t \in Threads => RestoreSafe(t)'
  PROVE  QuietInv'
<1> DEFINE rec == calls[t].rec
<1>1. /\ rec \in Recs /\ Current(rec)
      /\ \A u \in Actors \ {t} : calls[u].pc \notin Holding
  BY HoldsCurrent
<1>2. ~deleted
  BY <1>1, NotGone
<1>3. /\ files'[k] = mem[rec][k] /\ \A x \in Kinds \ {k} : files'[x] = files[x]
      /\ mem[rec][k] \in Content
  BY <1>1 DEF TypeInv, DataTypes
<1>4. NoCall.op = "tick" /\ NoCall.pc = "idle" /\ NoCall.asked = {}
  BY DEF NoCall
<1>5. \A r : Current(r)' <=> Current(r)
  <2>1. \A u \in Threads : Leaves(u)' <=> Leaves(u)
    BY ThreadsAct DEF Leaves
  <2>2. \A u \in Threads : Leaves(u) => calls'[u].rec = calls[u].rec
    BY ThreadsAct
  <2> QED
    BY <2>1, <2>2 DEF Current
<1>6. Alone' /\ TickerPlaced'
  <2>1. Busy(t)
    BY DEF Busy, Holding
  <2>2. \A u \in Threads : calls'[u].pc # "idle" => calls'[u].op = calls[u].op /\ calls[u].pc # "idle"
    BY <1>4, <2>1, ThreadsAct DEF Busy
  <2>3. \A u \in Threads : calls'[u].op = "stop" => calls[u].op = "stop"
    BY <1>4, ThreadsAct
  <2>4. calls'[Ticker].op = "tick" /\ calls'[Ticker].pc \in {"idle"} \cup Flushing
        /\ (calls'[Ticker].pc # "idle" => calls[Ticker].pc # "idle")
    BY <2>1, ThreadsAct DEF QuietInv, TickerPlaced, Busy
  <2> QED
    BY <2>2, <2>3, <2>4 DEF QuietInv, Alone, TickerPlaced, Busy
<1>7. FilesTrue'
  <2> SUFFICES ASSUME NEW r \in Recs, Current(r), NEW x \in Kinds \ dirty[r]
               PROVE  files'[x] = mem[r][x]
    BY <1>5 DEF FilesTrue
  <2>1. r = rec
    BY <1>1, OneCurrent
  <2> QED
    BY <1>3, <2>1 DEF QuietInv, FilesTrue
<1>8. ASSUME NEW u \in Threads
      PROVE  ThreadInv(u)'
  <2>1. ThreadInv(u)
    BY DEF QuietInv
  <2>2. Placed(calls'[u], inMap') /\ GoneFor(u)'
    BY <1>2, <2>1, ThreadsAct DEF ThreadInv, GoneFor
  <2>3. ReadTrue(u)'
    <3> SUFFICES ASSUME inMap = NoRec, calls'[u].pc \in {"read", "insert"}
                 PROVE  FALSE
      BY DEF ReadTrue
    <3>1. u # t /\ calls'[u] = calls[u] /\ Busy(u)
      BY <1>4, ThreadsAct DEF Holding, Busy
    <3>2. \E v \in Threads : Leaves(v)
      BY <1>1, NoRecord DEF Current
    <3> QED
      BY <3>1, <3>2, NobodyLeaves DEF Leaves, Flushing
  <2>4. ExitSaved(u)' /\ RestoreSafe(u)'
    <3>1. CASE u = t
      BY <1>4, <3>1 DEF ExitSaved, Holding
    <3>2. CASE u # t
      BY <2>1, <3>2, ThreadsAct DEF ThreadInv, ExitSaved, RestoreSafe
    <3> QED
      BY <3>1, <3>2
  <2>5. ExportTrue(u)'
    <3> SUFFICES ASSUME faults = 0, calls'[u].pc \in {"export", "exported"},
                        NEW e \in calls'[u].asked \cap kept
                 PROVE  \E x \in Kinds :
                          /\ e \in mem[inMap][x]
                          /\ e \in (IF calls'[u].pc = "export" /\ x \in calls'[u].todo
                                    THEN files'[x] ELSE calls'[u].read[x])
      BY DEF ExportTrue
    <3>1. calls'[u] = calls[u]
      BY <1>4, ThreadsAct DEF Holding
    <3>2. calls[u].pc \in OnRecord /\ ~Leaves(u)
      BY <3>1 DEF OnRecord, Leaves, Flushing
    <3>3. calls[u].rec = inMap /\ inMap \in Recs /\ Current(inMap)
      BY <3>2, Loaded
    <3>4. rec = inMap
      BY <1>1, <3>3, OneCurrent
    <3>5. PICK x \in Kinds : /\ e \in mem[inMap][x]
                             /\ e \in (IF calls[u].pc = "export" /\ x \in calls[u].todo
                                       THEN files[x] ELSE calls[u].read[x])
      BY <2>1, <3>1 DEF ThreadInv, ExportTrue
    <3>6. e \in files[x] => e \in files'[x]
      BY <1>3, <3>4, <3>5
    <3> QED
      BY <3>1, <3>5, <3>6
  <2> QED
    BY <2>2, <2>3, <2>4, <2>5 DEF ThreadInv
<1>9. StaleClean'
  BY <1>1, <1>5 DEF QuietInv, StaleClean
<1>10. \A u \in Actors : FlushTrue(u)'
  BY <1>1 DEF FlushTrue, Holding
<1>11. Kept'
  <2>1. \A u \in Threads : \A e \in calls'[u].asked : e <= edits
    BY <1>4, ThreadsAct DEF QuietInv, Kept
  <2> QED
    BY <1>1, <1>5, <2>1 DEF QuietInv, Kept
<1>12. Gone' /\ RestoreUndoable'
  BY <1>2, <1>3, NoRecord DEF QuietInv, Gone, RestoreUndoable
<1> QED
  BY <1>6, <1>7, <1>8, <1>9, <1>10, <1>11, <1>12 DEF QuietInv

\* A working file of a snapshot.
LEMMA WriteQuiet ==
  ASSUME TypeInv, QuietInv, NEW t \in Actors, Write(t)
  PROVE  QuietInv'
<1> DEFINE k == First(calls[t].todo)
           c == [calls[t] EXCEPT !.pc = "copy"]
<1>1. /\ calls[t] \in CallType /\ calls[t].pc = "write" /\ calls[t].pc \in Holding
      /\ calls[t].rec \in Recs
  BY OnARecord DEF Write, At, OnRecord, Holding, TypeInv, Calling
<1>2. k \in Kinds
  BY <1>1, FirstIn DEF CallType
<1>3. files' = [files EXCEPT ![k] = mem[calls[t].rec][k]] /\ Goes(t, c)
      /\ UNCHANGED <<inMap, mem, dirty, lock, dir, snaps, made, edits, kept, replaced, deleted, faults>>
  BY DEF Write, GoesTo, memory, history, bounds
<1>4. /\ c.pc = "copy" /\ c.todo = calls[t].todo /\ c.rec = calls[t].rec /\ c.op = calls[t].op
      /\ c.asked = calls[t].asked /\ c.ts = calls[t].ts
  BY <1>1 DEF CallType
<1> HIDE DEF c
<1>5. calls'[t] = c /\ \A u \in Actors \ {t} : calls'[u] = calls[u]
  BY <1>3, GoesOn
<1>6. t \in Threads => (Leaves(t)' <=> Leaves(t)) /\ Placed(calls'[t], inMap) /\ RestoreSafe(t)'
  <2> SUFFICES ASSUME t \in Threads
               PROVE  (Leaves(t)' <=> Leaves(t)) /\ Placed(c, inMap) /\ RestoreSafe(t)'
    BY <1>5
  <2>1. Placed(calls[t], inMap) /\ RestoreSafe(t)
    BY DEF QuietInv, ThreadInv
  <2>2. Leaves(t)' <=> Leaves(t)
    BY <1>1, <1>4, <1>5 DEF Leaves, Flushing
  <2>3. Placed(c, inMap)
    BY <1>1, <1>4, <2>1 DEF Placed, OnRecord, Holding, Flushing
  <2>4. RestoreSafe(t)'
    BY <1>1, <1>3, <1>4, <1>5, <2>1 DEF RestoreSafe
  <2> QED
    BY <2>2, <2>3, <2>4
<1>7. FlushTrue(t)'
  <2>1. files'[k] = mem[calls[t].rec][k]
    BY <1>2, <1>3 DEF TypeInv, DataTypes
  <2>2. calls[t].op \notin {"tick", "force", "restore"} => dirty[calls[t].rec] \subseteq calls[t].todo
    BY <1>1 DEF QuietInv, FlushTrue
  <2> QED
    BY <1>3, <1>4, <1>5, <2>1, <2>2 DEF FlushTrue
<1>8. t \notin Threads => calls'[t].op = "tick" /\ calls'[t].pc \in {"idle"} \cup Flushing
  BY <1>4, <1>5, ThreadsAct DEF QuietInv, TickerPlaced, Flushing
<1>9. calls'[t] # NoCall
  BY <1>4, <1>5 DEF NoCall
<1> HIDE DEF k
<1> QED
  BY <1>1, <1>2, <1>3, <1>4, <1>5, <1>6, <1>7, <1>8, <1>9, FileWritten DEF Holding

\* A working file of a restore.
LEMMA WorkingQuiet ==
  ASSUME TypeInv, QuietInv, NEW t \in Actors, WriteWorking(t)
  PROVE  QuietInv'
<1> DEFINE k == First(calls[t].todo)
           rest == calls[t].todo \ {k}
           c == [calls[t] EXCEPT !.todo = rest]
<1>1. /\ calls[t] \in CallType /\ calls[t].pc = "working" /\ calls[t].pc \in Holding
      /\ calls[t].rec \in Recs /\ calls[t].op = "restore"
  BY OnARecord DEF WriteWorking, At, OnRecord, Holding, TypeInv, Calling, WellFormed
<1>2. k \in Kinds
  BY <1>1, FirstIn DEF CallType
<1>3. /\ files' = [files EXCEPT ![k] = mem[calls[t].rec][k]]
      /\ (Goes(t, c) /\ UNCHANGED lock) \/ (Goes(t, NoCall) /\ Unlocks(t))
      /\ UNCHANGED <<inMap, mem, dirty, dir, snaps, made, edits, kept, replaced, deleted, faults>>
  <2>1. (Goes(t, c) /\ UNCHANGED lock) \/ (Goes(t, NoCall) /\ Unlocks(t))
    BY DEF WriteWorking
  <2> QED
    BY <2>1 DEF WriteWorking, memory, history, bounds
<1>4. /\ c.pc = "working" /\ c.rec = calls[t].rec /\ c.op = "restore" /\ c.asked = calls[t].asked
  BY <1>1 DEF CallType
<1>5. NoCall.op = "tick" /\ NoCall.pc = "idle"
  BY DEF NoCall
<1> HIDE DEF c, k
<1>6. /\ calls'[t] = c \/ calls'[t] = NoCall
      /\ \A u \in Actors \ {t} : calls'[u] = calls[u]
      /\ \A r \in Recs \ {calls[t].rec} : lock'[r] = lock[r]
  BY <1>3, GoesOn DEF Unlocks, TypeInv, DataTypes
<1>7. t \in Threads /\ Placed(calls[t], inMap) /\ ~Leaves(t)
  BY <1>1, ThreadsAct DEF QuietInv, TickerPlaced, ThreadInv, Leaves, Unloading
<1>8. Placed(calls'[t], inMap) /\ ~Leaves(t)'
  BY <1>1, <1>4, <1>5, <1>6, <1>7 DEF Placed, OnRecord, Holding, Flushing, Leaves
<1>9. FlushTrue(t)' /\ RestoreSafe(t)'
  BY <1>4, <1>5, <1>6 DEF FlushTrue, RestoreSafe
<1> QED
  BY <1>1, <1>2, <1>3, <1>4, <1>6, <1>7, <1>8, <1>9, FileWritten DEF Holding

\* The copy of a file, with which the kind becomes clean.
LEMMA CopyQuiet ==
  ASSUME TypeInv, QuietInv, NEW t \in Actors, Copy(t)
  PROVE  QuietInv'
<1> DEFINE k == First(calls[t].todo)
           rest == calls[t].todo \ {k}
           rec == calls[t].rec
<1>1. /\ calls[t] \in CallType /\ calls[t].pc = "copy" /\ calls[t].pc \in Holding
      /\ rec \in Recs
  BY OnARecord DEF Copy, At, OnRecord, Holding, TypeInv, Calling
<1>2. k \in Kinds
  BY <1>1, FirstIn DEF CallType
<1>3. /\ Current(rec) /\ lock[rec] = t /\ \A u \in Actors \ {t} : calls[u].pc \notin Holding
  BY <1>1, HoldsCurrent
<1>4. /\ snaps' = snaps \cup {SnapOf(t, files[k])}
      /\ dirty' = [dirty EXCEPT ![rec] = @ \ {k}]
      /\ Copied(t, rest)
      /\ UNCHANGED <<inMap, mem, dir, files, made, edits, kept, replaced, deleted, faults>>
  BY DEF Copy, history, bounds
<1>5. dirty'[rec] = dirty[rec] \ {k} /\ \A r \in Recs \ {rec} : dirty'[r] = dirty[r]
  BY <1>1, <1>4 DEF TypeInv, DataTypes
<1>6. files[k] = mem[rec][k] /\ FlushTrue(t)
  BY <1>1 DEF QuietInv, FlushTrue
<1>7. \A x \in Kinds \ dirty'[rec] : files[x] = mem[rec][x]
  BY <1>1, <1>3, <1>5, <1>6 DEF QuietInv, FilesTrue
<1>8. calls[t].op \notin {"tick", "force", "restore"} => dirty'[rec] \subseteq rest
  BY <1>1, <1>5, <1>6 DEF FlushTrue
<1>9. CASE rest = {} /\ calls[t].op # "restore"
  <2>1. Goes(t, After(calls[t])) /\ Unlocks(t)
    BY <1>4, <1>9 DEF Copied
  <2>2. calls'[t] = After(calls[t]) /\ \A u \in Actors \ {t} : calls'[u] = calls[u]
    BY <2>1, GoesOn
  <2>3. lock'[rec] = Nobody /\ \A r \in Recs \ {rec} : lock'[r] = lock[r]
    BY <1>1, <2>1 DEF Unlocks, TypeInv, DataTypes
  <2>4. calls[t].op \notin {"tick", "force"} => dirty'[rec] = {}
    BY <1>8, <1>9
  <2>5. calls[t].pc \in Flushing /\ snaps \subseteq snaps' /\ dirty'[rec] \subseteq dirty[rec]
    BY <1>1, <1>4, <1>5 DEF Flushing
  <2> HIDE DEF k, rest
  <2> QED
    BY <1>1, <1>3, <1>4, <1>5, <1>7, <1>9, <2>2, <2>3, <2>4, <2>5, FlushedQuiet
<1>10. CASE rest # {} \/ calls[t].op = "restore"
  <2>1. /\ UNCHANGED lock
        /\ calls'[t].op = calls[t].op /\ calls'[t].rec = rec /\ calls'[t].asked = calls[t].asked
        /\ calls'[t].ts = calls[t].ts
        /\ \/ rest # {} /\ calls'[t].pc = "write" /\ calls'[t].todo = rest
           \/ rest = {} /\ calls'[t].pc = "replace" /\ calls[t].op = "restore"
        /\ \A u \in Actors \ {t} : calls'[u] = calls[u]
    <3>1. CASE rest # {}
      <4> DEFINE c == [calls[t] EXCEPT !.todo = rest, !.pc = "write"]
      <4>1. Goes(t, c) /\ UNCHANGED lock
        BY <1>4, <3>1 DEF Copied
      <4>2. /\ c.pc = "write" /\ c.todo = rest /\ c.rec = rec /\ c.op = calls[t].op
            /\ c.asked = calls[t].asked /\ c.ts = calls[t].ts
        <5> HIDE DEF rest
        <5> QED
          BY <1>1 DEF CallType
      <4> HIDE DEF c
      <4> QED
        BY <3>1, <4>1, <4>2, GoesOn
    <3>2. CASE rest = {}
      <4> DEFINE c == [calls[t] EXCEPT !.pc = "replace"]
      <4>1. Goes(t, c) /\ UNCHANGED lock /\ calls[t].op = "restore"
        BY <1>4, <1>10, <3>2 DEF Copied, GoesTo
      <4>2. /\ c.pc = "replace" /\ c.rec = rec /\ c.op = calls[t].op
            /\ c.asked = calls[t].asked /\ c.ts = calls[t].ts
        BY <1>1 DEF CallType
      <4> HIDE DEF c
      <4> QED
        BY <3>2, <4>1, <4>2, GoesOn
    <3> QED
      BY <3>1, <3>2
  <2>2. t \in Threads \/ calls[t].op # "restore"
    BY ThreadsAct DEF QuietInv, TickerPlaced
  <2>3. \A r : Current(r)' <=> Current(r)
    BY <1>1, <1>4, <2>1, SameCurrent DEF Leaves, Flushing, Unloading
  <2>4. Alone' /\ TickerPlaced'
    <3>1. \A u \in Actors : calls'[u].op = calls[u].op /\ (calls'[u].pc = "idle" <=> calls[u].pc = "idle")
      BY <1>1, <2>1
    <3>2. calls'[Ticker].pc \in {"idle"} \cup Flushing
      BY <2>1, <2>2, ThreadsAct DEF QuietInv, TickerPlaced, Flushing
    <3> QED
      BY <3>1, <3>2, ThreadsAct DEF QuietInv, Alone, TickerPlaced, Busy
  <2>5. ~deleted
    BY <1>1, <1>3, NotGone
  <2>6. ASSUME NEW u \in Threads \ {t}
        PROVE  ThreadInv(u)'
    <3>1. ThreadInv(u) /\ calls'[u] = calls[u]
      BY <2>1, ThreadsAct DEF QuietInv
    <3>2. calls[u].pc \notin Holding
      BY <1>3, ThreadsAct
    <3>3. ExitSaved(u)'
      <4>1. inMap # NoRec => dirty'[inMap] \subseteq dirty[inMap]
        BY <1>5 DEF TypeInv, DataTypes
      <4> QED
        BY <1>4, <3>1, <4>1 DEF ThreadInv, ExitSaved
    <3> QED
      BY <1>4, <3>1, <3>2, <3>3
         DEF ThreadInv, ReadTrue, GoneFor, RestoreSafe, ExportTrue, Holding
  <2>7. ASSUME t \in Threads
        PROVE  ThreadInv(t)'
    <3>1. ThreadInv(t)
      BY <2>7 DEF QuietInv
    <3>2. Placed(calls'[t], inMap')
      BY <1>1, <1>4, <2>1, <3>1 DEF ThreadInv, Placed, OnRecord, Holding, Flushing, Unloading
    <3>3. RestoreSafe(t)'
      <4> SUFFICES ASSUME calls[t].op = "restore", NEW x \in Kinds,
                          x \notin rest
                   PROVE  [ts |-> calls[t].ts, kind |-> x, val |-> mem[rec][x]] \in snaps'
        BY <1>4, <2>1 DEF RestoreSafe
      <4>1. CASE x = k
        BY <1>4, <1>6, <4>1 DEF SnapOf
      <4>2. CASE x # k
        <5>1. x \notin calls[t].todo
          BY <4>2
        <5> QED
          BY <1>1, <1>4, <3>1, <5>1 DEF ThreadInv, RestoreSafe
      <4> QED
        BY <4>1, <4>2
    <3>4. ReadTrue(t)' /\ ExitSaved(t)' /\ GoneFor(t)' /\ ExportTrue(t)'
      BY <1>4, <2>1, <2>5 DEF ReadTrue, ExitSaved, GoneFor, ExportTrue
    <3> QED
      BY <3>2, <3>3, <3>4 DEF ThreadInv
  <2>8. StaleClean'
    BY <1>3, <1>4, <1>5, <2>1, <2>3 DEF QuietInv, StaleClean
  <2>9. FilesTrue'
    <3> SUFFICES ASSUME NEW r \in Recs, Current(r), NEW x \in Kinds \ dirty'[r]
                 PROVE  files[x] = mem[r][x]
      BY <1>4, <2>3 DEF FilesTrue
    <3>1. CASE r = rec
      BY <1>7, <3>1
    <3>2. CASE r # rec
      BY <1>5, <3>2 DEF QuietInv, FilesTrue
    <3> QED
      BY <3>1, <3>2
  <2>10. \A u \in Actors : FlushTrue(u)'
    <3>1. FlushTrue(t)'
      BY <1>8, <2>1 DEF FlushTrue
    <3>2. \A u \in Actors \ {t} : FlushTrue(u)'
      BY <1>3, <2>1 DEF FlushTrue, Holding
    <3> QED
      BY <3>1, <3>2
  <2>11. Kept'
    <3>1. \A u \in Threads : calls'[u].asked = calls[u].asked
      BY <2>1, ThreadsAct
    <3> QED
      BY <1>4, <2>3, <3>1 DEF QuietInv, Kept
  <2>12. Gone' /\ RestoreUndoable'
    BY <1>4 DEF QuietInv, Gone, RestoreUndoable
  <2> QED
    BY <2>4, <2>6, <2>7, <2>8, <2>9, <2>10, <2>11, <2>12 DEF QuietInv
<1> QED
  BY <1>9, <1>10

\* A failing write leaves the flag of its kind.
LEMMA FailQuiet ==
  ASSUME TypeInv, QuietInv, QuietUnload, NEW t \in Actors, Fail(t)
  PROVE  QuietInv'
<1> DEFINE k == First(calls[t].todo)
           rec == calls[t].rec
<1>1. /\ calls[t] \in CallType /\ calls[t].pc \in Holding /\ rec \in Recs
      /\ calls[t].pc \in {"write", "copy", "working"}
  BY OnARecord DEF Fail, OnRecord, Holding, TypeInv, Calling
<1>2. /\ Current(rec) /\ lock[rec] = t /\ \A u \in Actors \ {t} : calls[u].pc \notin Holding
  BY <1>1, HoldsCurrent
<1>3. ~deleted /\ dir /\ k \in Kinds /\ files[k] # Missing
  BY <1>1, <1>2, NotGone, FirstIn DEF QuietInv, Gone, CallType
\* Only a write that really fails can fail, and not one of an unloading.
<1>4. calls[t].op \notin Unloading /\ faults' = faults + 1 /\ faults' # 0 /\ snaps \subseteq snaps'
  BY <1>1, <1>3 DEF Fail, At, TypeInv, DataTypes
<1>5. /\ Unlocks(t) /\ Goes(t, IF calls[t].op = "restore" THEN NoCall ELSE After(calls[t]))
      /\ UNCHANGED <<inMap, mem, dirty, dir, files, made, edits, kept, replaced, deleted>>
  BY DEF Fail, memory, history
<1>6. lock'[rec] = Nobody /\ \A r \in Recs \ {rec} : lock'[r] = lock[r]
  BY <1>1, <1>5 DEF Unlocks, TypeInv, DataTypes
<1>7. /\ \A u \in Actors \ {t} : calls'[u] = calls[u]
      /\ \/ calls'[t] = NoCall
         \/ /\ calls[t].op = "export" /\ calls'[t].op = "export" /\ calls'[t].pc = "export"
            /\ calls'[t].rec = rec /\ calls'[t].asked = calls[t].asked
  BY <1>1, <1>4, <1>5, GoesOn, AfterCases DEF Unloading
<1>8. NoCall.op = "tick" /\ NoCall.pc = "idle" /\ NoCall.asked = {}
  BY DEF NoCall
<1>9. \A r : Current(r)' <=> Current(r)
  <2>1. t \in Threads => ~Leaves(t) /\ ~Leaves(t)'
    BY <1>4, <1>7, <1>8 DEF Leaves, Unloading
  <2>2. \A u \in Threads : (Leaves(u)' <=> Leaves(u)) /\ (Leaves(u) => calls'[u].rec = calls[u].rec)
    BY <1>7, <2>1, ThreadsAct DEF Leaves
  <2> QED
    BY <1>5, <2>2 DEF Current
<1>10. t \in Threads \/ calls'[t] = NoCall
  BY <1>7, ThreadsAct DEF QuietInv, TickerPlaced
<1>11. Alone' /\ TickerPlaced'
  <2>1. Busy(t)
    BY <1>1 DEF Busy, Holding
  <2>2. \A u \in Threads : calls'[u].pc # "idle" => calls'[u].op = calls[u].op /\ calls[u].pc # "idle"
    BY <1>7, <1>8, <2>1, ThreadsAct DEF Busy
  <2>3. \A u \in Threads : calls'[u].op = "stop" => calls[u].op = "stop"
    BY <1>7, <1>8, ThreadsAct
  <2>4. calls'[Ticker].op = "tick" /\ calls'[Ticker].pc \in {"idle"} \cup Flushing
        /\ (calls'[Ticker].pc # "idle" => calls[Ticker].pc # "idle")
    BY <1>7, <1>8, <1>10, ThreadsAct DEF QuietInv, TickerPlaced
  <2> QED
    BY <2>2, <2>3, <2>4 DEF QuietInv, Alone, TickerPlaced, Busy
<1>12. ASSUME NEW u \in Threads
       PROVE  ThreadInv(u)'
  <2>1. ThreadInv(u)
    BY DEF QuietInv
  <2>2. ExportTrue(u)' /\ GoneFor(u)'
    BY <1>3, <1>4, <1>5 DEF ExportTrue, GoneFor
  <2>3. CASE u = t
    <3>1. calls[t].op = "export" => rec = inMap
      BY <1>1, <1>4, <2>3, Loaded DEF Leaves, OnRecord
    <3>2. Placed(calls'[t], inMap')
      BY <1>5, <1>7, <1>8, <3>1 DEF Placed, OnRecord, Holding, Flushing
    <3> QED
      BY <1>7, <1>8, <2>2, <2>3, <3>2 DEF ThreadInv, ReadTrue, ExitSaved, RestoreSafe
  <2>4. CASE u # t
    <3>1. calls'[u] = calls[u]
      BY <1>7, <2>4, ThreadsAct
    <3> QED
      BY <1>4, <1>5, <2>1, <2>2, <3>1 DEF ThreadInv, ReadTrue, ExitSaved, RestoreSafe
  <2> QED
    BY <2>3, <2>4
<1>13. StaleClean' /\ FilesTrue'
  BY <1>2, <1>5, <1>6, <1>9 DEF QuietInv, StaleClean, FilesTrue
<1>14. \A u \in Actors : FlushTrue(u)'
  BY <1>2, <1>7, <1>8 DEF FlushTrue, Holding
<1>15. Kept'
  <2>1. \A u \in Threads : \A e \in calls'[u].asked : e <= edits
    BY <1>7, <1>8, ThreadsAct DEF QuietInv, Kept
  <2> QED
    BY <1>5, <1>9, <2>1 DEF QuietInv, Kept
<1>16. Gone' /\ RestoreUndoable'
  BY <1>4, <1>5 DEF QuietInv, Gone, RestoreUndoable
<1> QED
  BY <1>11, <1>12, <1>13, <1>14, <1>15, <1>16 DEF QuietInv

\* RestoreSnapshot replaces what it has just put into a snapshot, and marks it.
LEMMA ReplaceQuiet ==
  ASSUME TypeInv, QuietInv, NEW t \in Actors, Replace(t)
  PROVE  QuietInv'
<1> DEFINE c == [calls[t] EXCEPT !.pc = "working", !.todo = Kinds]
<1>1. /\ calls[t] \in CallType /\ calls[t].pc = "replace" /\ calls[t].pc \in Holding
      /\ calls[t].rec \in Recs /\ calls[t].op = "restore"
  BY OnARecord DEF Replace, At, OnRecord, Holding, TypeInv, Calling, WellFormed
<1>2. t \in Threads /\ ~Leaves(t) /\ ThreadInv(t)
  BY <1>1, TickerOnly DEF Flushing, QuietInv
<1>3. calls[t].rec = inMap /\ inMap \in Recs /\ Current(inMap)
  BY <1>1, <1>2, Loaded DEF OnRecord
<1>4. \A u \in Actors \ {t} : calls[u].pc \notin Holding
  BY <1>1, HoldsCurrent
<1>5. ~deleted /\ dir /\ inMap # NoRec
  BY <1>3, NotGone, NoRecord DEF QuietInv, Gone
<1>6. /\ mem' = [mem EXCEPT ![inMap] = Restored(t)]
      /\ dirty' = [dirty EXCEPT ![inMap] = @ \cup {"board", "chat"}]
      /\ replaced' = replaced \cup {[ts |-> calls[t].ts, val |-> mem[inMap]]}
      /\ kept' = kept \ Unrestored(t)
      /\ Goes(t, c) /\ dir' = TRUE
      /\ UNCHANGED <<inMap, lock, files, snaps, made, edits, deleted, faults>>
  BY <1>3 DEF Replace, bounds
<1>7. c.pc = "working" /\ c.rec = inMap /\ c.op = "restore" /\ c.asked = calls[t].asked
  BY <1>1, <1>3 DEF CallType
<1> HIDE DEF c
<1>8. calls'[t] = c /\ \A u \in Actors \ {t} : calls'[u] = calls[u]
  BY <1>6, GoesOn
<1>9. /\ mem'[inMap] = Restored(t) /\ dirty'[inMap] = dirty[inMap] \cup {"board", "chat"}
      /\ \A r \in Recs \ {inMap} : mem'[r] = mem[r] /\ dirty'[r] = dirty[r]
      /\ mem'[inMap]["meta"] = mem[inMap]["meta"]
  BY <1>1, <1>3, <1>6, RestoredType DEF TypeInv, DataTypes
\* What is still wanted of the record is in what has replaced it.
<1>10. \A e \in kept' : \A k \in Kinds : e \in mem[inMap][k] => e \in mem'[inMap][k]
  <2>1. \A e \in kept' : \A k \in Kinds : ~(e \in mem[inMap][k] \ Restored(t)[k])
    BY <1>3, <1>6 DEF Unrestored
  <2> QED
    BY <1>9, <2>1
<1>11. \A u \in Threads : ~Leaves(u) /\ ~Leaves(u)'
  <2>1. \A u \in Threads : ~Leaves(u)
    BY <1>1, <1>2, NobodyLeaves DEF Busy
  <2> QED
    BY <1>7, <1>8, <2>1, ThreadsAct DEF Leaves, Flushing
<1>12. \A r : (Current(r) <=> r = inMap) /\ (Current(r)' <=> r = inMap)
  BY <1>6, <1>11 DEF Current
<1>13. Alone' /\ TickerPlaced'
  <2>1. \A u \in Threads : calls'[u].op = calls[u].op /\ (calls'[u].pc = "idle" <=> calls[u].pc = "idle")
    BY <1>1, <1>7, <1>8, ThreadsAct
  <2> QED
    BY <1>2, <1>8, <2>1, ThreadsAct DEF QuietInv, Alone, TickerPlaced, Busy
<1>14. ASSUME NEW u \in Threads
       PROVE  ThreadInv(u)'
  <2>1. CASE u = t
    <3>1. Placed(c, inMap')
      BY <1>1, <1>2, <1>6, <1>7 DEF ThreadInv, Placed, OnRecord, Holding, Flushing
    <3> QED
      BY <1>5, <1>6, <1>7, <1>8, <2>1, <3>1
         DEF ThreadInv, ReadTrue, ExitSaved, GoneFor, RestoreSafe, ExportTrue
  <2>2. CASE u # t
    <3>1. calls'[u] = calls[u] /\ ThreadInv(u) /\ calls[u].pc \notin Holding
      BY <1>4, <1>8, <2>2, ThreadsAct DEF QuietInv
    <3>2. ExitSaved(u)'
      <4>1. calls[u].pc # "exit"
        BY <1>1, <1>2, <2>2, <3>1
           DEF ThreadInv, Placed, QuietInv, Alone, Busy, Unloading
      <4> QED
        BY <3>1, <4>1 DEF ExitSaved
    <3>3. ExportTrue(u)'
      <4> SUFFICES ASSUME faults = 0, calls[u].pc \in {"export", "exported"},
                          NEW e \in calls[u].asked \cap kept'
                   PROVE  \E k \in Kinds :
                            /\ e \in mem'[inMap][k]
                            /\ e \in (IF calls[u].pc = "export" /\ k \in calls[u].todo
                                      THEN files[k] ELSE calls[u].read[k])
        BY <1>6, <3>1 DEF ExportTrue
      <4>1. e \in kept
        BY <1>6
      <4>2. PICK k \in Kinds : /\ e \in mem[inMap][k]
                               /\ e \in (IF calls[u].pc = "export" /\ k \in calls[u].todo
                                         THEN files[k] ELSE calls[u].read[k])
        BY <3>1, <4>1 DEF ThreadInv, ExportTrue
      <4>3. e \in mem'[inMap][k]
        BY <1>10, <4>2
      <4> QED
        BY <4>2, <4>3
    <3> QED
      BY <1>5, <1>6, <3>1, <3>2, <3>3
         DEF ThreadInv, ReadTrue, GoneFor, RestoreSafe, Holding
  <2> QED
    BY <2>1, <2>2
<1>15. StaleClean'
  BY <1>6, <1>9, <1>12 DEF QuietInv, StaleClean
<1>16. FilesTrue'
  <2> SUFFICES ASSUME NEW k \in Kinds \ dirty'[inMap]
               PROVE  files[k] = mem'[inMap][k]
    BY <1>6, <1>12 DEF FilesTrue
  <2>1. k = "meta" /\ k \notin dirty[inMap]
    BY <1>9 DEF Kinds
  <2> QED
    BY <1>3, <1>9, <2>1 DEF QuietInv, FilesTrue
<1>17. \A u \in Actors : FlushTrue(u)'
  BY <1>4, <1>7, <1>8 DEF FlushTrue, Holding
<1>18. Kept'
  <2>1. \A u \in Threads : calls'[u].asked = calls[u].asked
    BY <1>7, <1>8, ThreadsAct
  <2>2. \A e \in kept' : \E k \in Kinds : e \in mem'[inMap][k]
    <3>1. \A e \in kept' : e \in kept
      BY <1>6
    <3>2. \A e \in kept : \E k \in Kinds : e \in mem[inMap][k]
      BY <1>3 DEF QuietInv, Kept
    <3> QED
      BY <1>10, <3>1, <3>2
  <2> QED
    BY <1>3, <1>6, <1>12, <2>1, <2>2 DEF QuietInv, Kept
<1>19. Gone'
  BY <1>5, <1>6 DEF QuietInv, Gone
<1>20. RestoreUndoable'
  <2> SUFFICES ASSUME NEW x \in replaced', NEW k \in Kinds
               PROVE  [ts |-> x.ts, kind |-> k, val |-> x.val[k]] \in snaps
    BY <1>6 DEF RestoreUndoable
  <2>1. CASE x \in replaced
    BY <2>1 DEF QuietInv, RestoreUndoable
  <2>2. CASE x = [ts |-> calls[t].ts, val |-> mem[inMap]]
    <3>1. [ts |-> calls[t].ts, kind |-> k, val |-> mem[inMap][k]] \in snaps
      BY <1>1, <1>2, <1>3 DEF ThreadInv, RestoreSafe
    <3>2. x.ts = calls[t].ts /\ x.val = mem[inMap]
      BY <2>2
    <3> QED
      BY <3>1, <3>2
  <2> QED
    BY <1>6, <2>1, <2>2
<1> QED
  BY <1>13, <1>14, <1>15, <1>16, <1>17, <1>18, <1>19, <1>20 DEF QuietInv

\* Out of the map: the record that was in it is now the one that is flushed.
LEMMA UnloadQuiet ==
  ASSUME TypeInv, QuietInv, NEW t \in Actors, Unload(t)
  PROVE  QuietInv'
<1>1. /\ t \in Threads /\ Busy(t) /\ ~Leaves(t) /\ calls[t] \in CallType
      /\ calls[t].pc = "unload" /\ calls[t].op \in Unloading /\ ThreadInv(t)
  BY TickerOnly DEF Unload, At, Flushing, QuietInv, TypeInv, Calling, WellFormed
<1>2. \A u \in Threads \ {t} : calls[u].pc = "idle" /\ calls[u].op = "tick" /\ ~Leaves(u)
  BY <1>1, UnloaderAlone
<1>3. UNCHANGED <<mem, dirty, lock, dir, files, snaps, made, edits, kept, replaced, deleted, faults>>
  BY DEF Unload, memory, disk, history, bounds
<1>4. CASE inMap = NoRec
  <2>1. Goes(t, After(calls[t])) /\ UNCHANGED store
    BY <1>3, <1>4 DEF Unload, store
  <2>2. calls'[t] = After(calls[t]) /\ \A u \in Actors \ {t} : calls'[u] = calls[u]
    BY <2>1, GoesOn
  <2>3. \/ calls'[t] = NoCall
        \/ /\ calls'[t].asked = calls[t].asked
           /\ \/ calls[t].op = "drop" /\ calls'[t].op = "delete" /\ calls'[t].pc = "unload"
              \/ calls[t].op = "delete" /\ calls'[t].op = "delete" /\ calls'[t].pc = "remove"
              \/ calls[t].op = "stop" /\ calls'[t].op = "stop" /\ calls'[t].pc = "exit"
    BY <1>1, <2>2, AfterCases DEF Unloading
  <2>4. NoCall.op = "tick" /\ NoCall.pc = "idle" /\ NoCall.asked = {}
    BY DEF NoCall
  <2>5. Alone'
    <3>1. \A u \in Threads \ {t} : calls'[u].pc = "idle"
      BY <1>2, <2>2, ThreadsAct
    <3> QED
      BY <3>1 DEF Alone, Busy
  <2>6. calls'[t].op = "stop" => ~Busy(Ticker)
    BY <1>1, <2>3, <2>4 DEF QuietInv, TickerPlaced
  <2>7. \A e \in calls'[t].asked : e <= edits
    BY <1>1, <2>3, <2>4 DEF QuietInv, Kept
  <2>8. ThreadInv(t)'
    <3>1. Placed(calls'[t], inMap')
      BY <1>4, <2>1, <2>3, <2>4 DEF Placed, OnRecord, Holding, Flushing, Unloading, store
    <3>2. GoneFor(t)'
      BY <1>1, <2>1, <2>3, <2>4 DEF ThreadInv, GoneFor, store
    <3> QED
      BY <1>4, <2>1, <2>3, <2>4, <3>1, <3>2
         DEF ThreadInv, ReadTrue, ExitSaved, RestoreSafe, ExportTrue, store
  <2>9. FlushTrue(t)' /\ ~Leaves(t)'
    BY <2>3, <2>4 DEF FlushTrue, Leaves, Flushing
  <2> QED
    BY <1>1, <2>1, <2>2, <2>5, <2>6, <2>7, <2>8, <2>9, CallQuiet
<1>5. CASE inMap # NoRec
  <2> DEFINE c == [calls[t] EXCEPT !.rec = inMap, !.pc = "flush"]
  <2>1. Goes(t, c) /\ inMap' = IF calls[t].op = "stop" THEN inMap ELSE NoRec
    BY <1>5 DEF Unload
  <2>2. c.pc = "flush" /\ c.rec = inMap /\ c.op = calls[t].op /\ c.asked = calls[t].asked
    BY <1>1 DEF CallType
  <2> HIDE DEF c
  <2>3. calls'[t] = c /\ \A u \in Actors \ {t} : calls'[u] = calls[u]
    BY <2>1, GoesOn
  <2>4. inMap \in Recs /\ Current(inMap) /\ ~deleted
    BY <1>5, NotGone DEF TypeInv, DataTypes, Current
  <2>5. \A r \in Recs : (Current(r) <=> r = inMap) /\ (Current(r)' <=> r = inMap)
    <3>1. \A u \in Threads : ~Leaves(u)
      BY <1>1, <1>2
    <3>2. \A u \in Threads : Leaves(u)' <=> u = t
      BY <1>1, <1>2, <2>2, <2>3, ThreadsAct DEF Leaves, Flushing
    <3> QED
      BY <1>1, <2>1, <2>2, <2>3, <3>1, <3>2, NoRecord DEF Current
  <2>6. \A u \in Actors : calls'[u].op = calls[u].op /\ calls'[u].asked = calls[u].asked
                          /\ (calls'[u].pc = "idle" <=> calls[u].pc = "idle")
    BY <1>1, <2>2, <2>3
  <2>7. Alone' /\ TickerPlaced'
    BY <1>1, <2>3, <2>6, ThreadsAct DEF QuietInv, Alone, TickerPlaced, Busy
  <2>8. ASSUME NEW u \in Threads
        PROVE  ThreadInv(u)'
    <3>1. CASE u = t
      <4>1. Placed(c, inMap')
        BY <1>1, <1>5, <2>1, <2>2
           DEF ThreadInv, Placed, OnRecord, Holding, Flushing, Unloading
      <4> QED
        BY <1>3, <2>2, <2>3, <2>4, <3>1, <4>1
           DEF ThreadInv, ReadTrue, ExitSaved, GoneFor, RestoreSafe, ExportTrue
    <3>2. CASE u # t
      <4>1. calls'[u].pc = "idle" /\ calls'[u].op = "tick"
        BY <1>2, <2>3, <3>2, ThreadsAct
      <4>2. Placed(calls'[u], inMap')
        BY <4>1 DEF Placed, OnRecord, Holding, Flushing, Unloading
      <4> QED
        BY <1>3, <2>4, <4>1, <4>2
           DEF ThreadInv, ReadTrue, ExitSaved, GoneFor, RestoreSafe, ExportTrue
    <3> QED
      BY <3>1, <3>2
  <2>9. StaleClean' /\ FilesTrue'
    BY <1>3, <2>5 DEF QuietInv, StaleClean, FilesTrue
  <2>10. \A u \in Actors : FlushTrue(u)'
    <3>1. FlushTrue(t)'
      BY <2>2, <2>3 DEF FlushTrue
    <3>2. \A u \in Actors \ {t} : FlushTrue(u)'
      BY <1>3, <2>3 DEF QuietInv, FlushTrue
    <3> QED
      BY <3>1, <3>2
  <2>11. Kept'
    BY <1>3, <2>4, <2>5, <2>6, ThreadsAct DEF QuietInv, Kept
  <2>12. Gone' /\ RestoreUndoable'
    BY <1>3, <2>4 DEF QuietInv, Gone, RestoreUndoable
  <2> QED
    BY <2>7, <2>8, <2>9, <2>10, <2>11, <2>12 DEF QuietInv
<1> QED
  BY <1>4, <1>5

\* Delete, with nothing loaded and nobody else at work.
LEMMA RemoveQuiet ==
  ASSUME TypeInv, QuietInv, NEW t \in Actors, Remove(t)
  PROVE  QuietInv'
<1>1. /\ t \in Threads /\ Busy(t) /\ ~Leaves(t)
      /\ calls[t].pc = "remove" /\ calls[t].op = "delete" /\ inMap = NoRec /\ ThreadInv(t)
  BY TickerOnly DEF Remove, At, Flushing, QuietInv, ThreadInv, Placed
<1>2. \A u \in Threads \ {t} : calls[u].pc = "idle" /\ calls[u].op = "tick" /\ ~Leaves(u)
  BY <1>1, UnloaderAlone DEF Unloading
<1>3. /\ dir' = FALSE /\ files' = [k \in Kinds |-> Missing] /\ snaps' = {}
      /\ deleted' = (deleted \/ dir) /\ kept' = {} /\ replaced' = {}
      /\ Goes(t, NoCall)
      /\ UNCHANGED <<inMap, mem, dirty, lock, made, edits>>
  BY DEF Remove, memory, bounds
<1>4. calls'[t] = NoCall /\ \A u \in Actors \ {t} : calls'[u] = calls[u]
  BY <1>3, GoesOn
<1>5. NoCall.op = "tick" /\ NoCall.pc = "idle" /\ NoCall.asked = {}
  BY DEF NoCall
<1>6. deleted'
  BY <1>1, <1>3 DEF ThreadInv, GoneFor, QuietInv, Gone
<1>7. \A u \in Threads : calls'[u].pc = "idle" /\ calls'[u].op = "tick"
  BY <1>2, <1>4, <1>5, ThreadsAct
<1>8. \A r \in Recs : ~Current(r) /\ ~Current(r)'
  <2>1. \A u \in Threads : ~Leaves(u)
    BY <1>1, <1>2
  <2>2. \A u \in Threads : ~Leaves(u)'
    BY <1>7 DEF Leaves, Flushing
  <2> QED
    BY <1>1, <1>3, <2>1, <2>2, NoRecord DEF Current
<1>9. Alone' /\ TickerPlaced'
  BY <1>1, <1>4, <1>7, ThreadsAct DEF QuietInv, Alone, TickerPlaced, Busy
<1>10. ASSUME NEW u \in Threads
       PROVE  ThreadInv(u)'
  <2>1. Placed(calls'[u], inMap')
    BY <1>7 DEF Placed, OnRecord, Holding, Flushing, Unloading
  <2> QED
    BY <1>7, <2>1 DEF ThreadInv, ReadTrue, ExitSaved, GoneFor, RestoreSafe, ExportTrue
<1>11. StaleClean' /\ FilesTrue'
  BY <1>3, <1>8 DEF QuietInv, StaleClean, FilesTrue
<1>12. \A u \in Actors : FlushTrue(u)'
  <2>1. \A u \in Actors : calls[u].pc \notin Holding
    BY <1>8, HoldsCurrent
  <2>2. \A u \in Actors : calls'[u].pc \notin Holding
    BY <1>4, <1>5, <2>1 DEF Holding
  <2> QED
    BY <2>2 DEF FlushTrue, Holding
<1>13. Kept'
  BY <1>2, <1>3, <1>4, <1>5, <1>8, ThreadsAct DEF QuietInv, Kept
<1>14. Gone' /\ RestoreUndoable'
  BY <1>1, <1>3, <1>6 DEF Gone, RestoreUndoable, Kinds
<1> QED
  BY <1>9, <1>10, <1>11, <1>12, <1>13, <1>14 DEF QuietInv

\* A process that ends leaves nothing but the files, and they hold what is kept.
LEMMA RestartsQuiet ==
  ASSUME TypeInv, QuietInv, Restarts, snaps \subseteq snaps', kept' \subseteq kept,
         \A e \in kept' : \E k \in Kinds : e \in files[k]
  PROVE  QuietInv'
<1>1. /\ inMap' = NoRec /\ made' = 0
      /\ lock' = [r \in Recs |-> Nobody]
      /\ dirty' = [r \in Recs |-> {}]
      /\ calls' = [u \in Actors |-> NoCall]
      /\ UNCHANGED <<dir, files, edits, replaced, deleted>>
  BY DEF Restarts
<1>2. NoCall.op = "tick" /\ NoCall.pc = "idle" /\ NoCall.asked = {}
  BY DEF NoCall
<1>3. \A u \in Actors : calls'[u].pc = "idle" /\ calls'[u].op = "tick" /\ calls'[u].asked = {}
  BY <1>1, <1>2
<1>4. \A r \in Recs : ~Current(r)'
  BY <1>1, <1>3, ThreadsAct, NoRecord DEF Current, Leaves, Flushing
<1>5. Alone' /\ TickerPlaced'
  BY <1>3, ThreadsAct DEF Alone, TickerPlaced, Busy
<1>6. ASSUME NEW u \in Threads
      PROVE  ThreadInv(u)'
  <2>1. calls'[u].pc = "idle" /\ calls'[u].op = "tick"
    BY <1>3, ThreadsAct
  <2>2. Placed(calls'[u], inMap')
    BY <2>1 DEF Placed, OnRecord, Holding, Flushing, Unloading
  <2> QED
    BY <2>1, <2>2 DEF ThreadInv, ReadTrue, ExitSaved, GoneFor, RestoreSafe, ExportTrue
<1>7. StaleClean' /\ FilesTrue'
  BY <1>1, <1>4 DEF StaleClean, FilesTrue
<1>8. \A u \in Actors : FlushTrue(u)'
  BY <1>3 DEF FlushTrue
<1>9. Kept'
  <2>1. \A e \in kept' : e <= edits
    BY DEF QuietInv, Kept
  <2> QED
    BY <1>1, <1>3, <1>4, <2>1, ThreadsAct DEF Kept
<1>10. Gone' /\ RestoreUndoable'
  BY <1>1 DEF QuietInv, Gone, RestoreUndoable
<1> QED
  BY <1>5, <1>6, <1>7, <1>8, <1>9, <1>10 DEF QuietInv

\* A graceful stop.
LEMMA ExitQuiet ==
  ASSUME TypeInv, QuietInv, NEW t \in Actors, Exit(t)
  PROVE  QuietInv'
<1>1. t \in Threads /\ Busy(t) /\ ~Leaves(t) /\ calls[t].pc = "exit" /\ ThreadInv(t)
  BY TickerOnly DEF Exit, At, Flushing, QuietInv
<1>2. calls[t].op \in Unloading
  BY <1>1 DEF ThreadInv, Placed, Unloading
<1>3. \A u \in Threads : ~Leaves(u)
  BY <1>1, <1>2, UnloaderAlone
<1>4. \A e \in kept : \E k \in Kinds : e \in files[k]
  <2>1. CASE inMap = NoRec
    <3>1. \A r \in Recs : ~Current(r)
      BY <1>3, <2>1, NoRecord DEF Current
    <3> QED
      BY <3>1 DEF QuietInv, Kept
  <2>2. CASE inMap # NoRec
    <3>1. inMap \in Recs /\ Current(inMap)
      BY <2>2 DEF TypeInv, DataTypes, Current
    <3>2. \A k \in Kinds : files[k] = mem[inMap][k]
      BY <1>1, <2>2, <3>1 DEF ThreadInv, ExitSaved, QuietInv, FilesTrue
    <3> QED
      BY <3>1, <3>2 DEF QuietInv, Kept
  <2> QED
    BY <2>1, <2>2
<1>5. Restarts /\ snaps' = snaps /\ kept' = kept
  BY DEF Exit
<1> QED
  BY <1>4, <1>5, RestartsQuiet

\* A crash: what is not in the files is not kept any more.
LEMMA CrashQuiet ==
  ASSUME TypeInv, QuietInv, Crash
  PROVE  QuietInv'
<1>1. Restarts /\ snaps \subseteq snaps' /\ kept' \subseteq kept
  BY DEF Crash
<1>2. \A e \in kept' : \E k \in Kinds : e \in files[k]
  BY DEF Crash, Saved, Present
<1> QED
  BY <1>1, <1>2, RestartsQuiet

-----------------------------------------------------------------------------
(* The invariant holds, and what it says of the store. *)

\* A board just created.
LEMMA QuietInit == Init => QuietInv
<1> SUFFICES ASSUME Init
             PROVE  QuietInv
  OBVIOUS
<1>1. /\ inMap = 1 /\ made = 1 /\ 1 \in Recs
      /\ mem = [r \in Recs |-> [k \in Kinds |-> {}]]
      /\ dirty = [r \in Recs |-> {}]
      /\ lock = [r \in Recs |-> Nobody]
      /\ dir = TRUE /\ files = [k \in Kinds |-> {}]
      /\ calls = [u \in Actors |-> NoCall]
      /\ kept = {} /\ replaced = {} /\ deleted = FALSE
  BY StoreAssumption DEF Init, Recs
<1>2. NoCall.op = "tick" /\ NoCall.pc = "idle" /\ NoCall.asked = {}
  BY DEF NoCall
<1>3. \A u \in Actors : calls[u].pc = "idle" /\ calls[u].op = "tick" /\ calls[u].asked = {}
  BY <1>1, <1>2
<1>4. Alone /\ TickerPlaced
  BY <1>3, ThreadsAct DEF Alone, TickerPlaced, Busy
<1>5. ASSUME NEW u \in Threads
      PROVE  ThreadInv(u)
  <2>1. calls[u].pc = "idle" /\ calls[u].op = "tick"
    BY <1>3, ThreadsAct
  <2>2. Placed(calls[u], inMap)
    BY <2>1 DEF Placed, OnRecord, Holding, Flushing, Unloading
  <2> QED
    BY <2>1, <2>2 DEF ThreadInv, ReadTrue, ExitSaved, GoneFor, RestoreSafe, ExportTrue
<1>6. StaleClean /\ FilesTrue
  BY <1>1 DEF StaleClean, FilesTrue
<1>7. \A u \in Actors : FlushTrue(u)
  BY <1>3 DEF FlushTrue
<1>8. Kept
  BY <1>1, <1>3, ThreadsAct DEF Kept
<1>9. Gone /\ RestoreUndoable
  BY <1>1 DEF Gone, RestoreUndoable, Missing
<1> QED
  BY <1>4, <1>5, <1>6, <1>7, <1>8, <1>9 DEF QuietInv

\* Every step of the specification.
LEMMA QuietStep ==
  ASSUME QuietUnload, TypeInv, TypeInv', QuietInv, [Next]_vars
  PROVE  QuietInv'
<1>1. ASSUME NEW t \in Threads, NEW op \in Calls, Begin(t, op)
      PROVE  QuietInv'
  BY <1>1, BeginQuiet
<1>2. ASSUME NEW t \in Actors, Works(t)
      PROVE  QuietInv'
  <2>1. CASE \E kinds \in SUBSET Kinds : Snapshot(t, kinds)
    BY <2>1, SnapshotQuiet
  <2>2. CASE Lookup(t) \/ Read(t) \/ Insert(t) \/ Change(t) \/ Archive(t) \/ FindSnapshot(t)
             \/ NotFound(t) \/ Proceed(t) \/ Exported(t)
    BY <2>2, LookupQuiet, ReadQuiet, InsertQuiet, ChangeQuiet, FindQuiet, ProceedQuiet
  <2>3. CASE Write(t) \/ Copy(t) \/ Replace(t) \/ WriteWorking(t) \/ ExportFile(t)
             \/ Unload(t) \/ Remove(t) \/ Exit(t)
    BY <2>3, WriteQuiet, CopyQuiet, ReplaceQuiet, WorkingQuiet, ExportQuiet, UnloadQuiet,
       RemoveQuiet, ExitQuiet
  <2> QED
    BY <1>2, <2>1, <2>2, <2>3 DEF Works
<1>3. ASSUME NEW t \in Actors, Fail(t)
      PROVE  QuietInv'
  BY <1>3, FailQuiet
<1>4. CASE Tick
  BY <1>4, TickQuiet
<1>5. CASE Crash
  BY <1>5, CrashQuiet
<1>6. CASE UNCHANGED vars
  <2>1. UNCHANGED store /\ UNCHANGED calls
    BY <1>6 DEF vars, memory, disk, history, bounds, store
  <2>2. \A r : Current(r)' <=> Current(r)
    BY <2>1 DEF Current, Leaves, store
  <2>3. \A u \in Threads : ThreadInv(u)'
    BY <2>1 DEF store, QuietInv, ThreadInv, ReadTrue, ExitSaved, GoneFor, RestoreSafe, ExportTrue
  <2>4. \A u \in Actors : FlushTrue(u)'
    BY <2>1 DEF store, QuietInv, FlushTrue
  <2>5. Alone' /\ TickerPlaced'
    BY <2>1 DEF QuietInv, Alone, TickerPlaced, Busy
  <2>6. StaleClean' /\ FilesTrue' /\ Kept'
    BY <2>1, <2>2 DEF store, QuietInv, StaleClean, FilesTrue, Kept
  <2>7. Gone' /\ RestoreUndoable'
    BY <2>1 DEF store, QuietInv, Gone, RestoreUndoable
  <2> QED
    BY <2>3, <2>4, <2>5, <2>6, <2>7 DEF QuietInv
<1> QED
  BY <1>1, <1>2, <1>3, <1>4, <1>5, <1>6 DEF Next

\* The invariant holds throughout.
LEMMA QuietHolds == QuietUnload => (Spec => [](TypeInv /\ QuietInv))
<1> SUFFICES ASSUME QuietUnload
             PROVE  Spec => [](TypeInv /\ QuietInv)
  OBVIOUS
<1>1. Init => TypeInv /\ QuietInv
  BY TypeInit, QuietInit
<1>2. TypeInv /\ QuietInv /\ [Next]_vars => (TypeInv /\ QuietInv)'
  BY TypeStep, QuietStep
<1> QED
  BY <1>1, <1>2, PTL DEF Spec

\* The invariant implies each of the promises.
LEMMA CleanHolds == TypeInv /\ QuietInv => CleanIsSaved
BY DEF TypeInv, DataTypes, QuietInv, FilesTrue, Current, CleanIsSaved

\* A kept edit is in the record in the map, in one that leaves it, or in a file.
LEMMA EditsHold == TypeInv /\ QuietInv => NoLostEdit
<1> SUFFICES ASSUME TypeInv, QuietInv, NEW e \in kept
             PROVE  \E k \in Kinds : e \in Held(k)
  BY DEF NoLostEdit
<1>1. CASE inMap # NoRec
  <2>1. inMap \in Recs /\ Current(inMap)
    BY <1>1 DEF TypeInv, DataTypes, Current
  <2> QED
    BY <1>1, <2>1 DEF QuietInv, Kept, Held
<1>2. CASE inMap = NoRec /\ \E r \in Recs : Current(r)
  <2>1. PICK r \in Recs : Current(r)
    BY <1>2
  <2>2. r \in Leaving
    BY <1>2, <2>1, NoRecord DEF Current, Leaves, Leaving, Flushing
  <2>3. PICK k \in Kinds : e \in mem[r][k]
    BY <2>1 DEF QuietInv, Kept
  <2> QED
    BY <1>2, <2>2, <2>3 DEF Held
<1>3. CASE inMap = NoRec /\ \A r \in Recs : ~Current(r)
  <2>1. PICK k \in Kinds : e \in files[k]
    BY <1>3 DEF QuietInv, Kept
  <2>2. e \in Nat
    BY DEF TypeInv, DataTypes, Content
  <2>3. files[k] # Missing
    BY <2>1, <2>2, StoreAssumption DEF Missing
  <2>4. files[k] \in {files[x] : x \in {k} \cap Present}
    BY <2>1, <2>3 DEF Present
  <2> QED
    BY <1>3, <2>1, <2>4 DEF Held
<1> QED
  BY <1>1, <1>2, <1>3

\* An export that is through has read what it was asked for.
LEMMA ExportsHold == TypeInv /\ QuietInv => ExportComplete
BY DEF QuietInv, ThreadInv, ExportTrue, ExportComplete, At

\* Whatever is edited, snapshotted, restored, unloaded or loaded again, and whichever
\* writes of requests and of the ticker fail: a kind of the loaded record whose flag
\* (fileState.dirty) is down is in its file as it is in memory, at every single step.
THEOREM FlagsTellTruth == QuietUnload => (Spec => []CleanIsSaved)
BY QuietHolds, CleanHolds, PTL

\* Through any sequence of loads, snapshots, evictions, stops, restarts and crashes,
\* with goroutines that still work on a record as it leaves the map: an edit that has
\* been acknowledged is in memory or in a file, unless a restore replaced it or a
\* crash came before it was saved.
THEOREM NoEditLost == QuietUnload => (Spec => []NoLostEdit)
BY QuietHolds, EditsHold, PTL

\* RestoreSnapshot's first snapshot is complete when it replaces the document, and
\* stays: every state ever replaced can be restored, after failed writes and crashes
\* in the middle too.
THEOREM RestoresReversible == QuietUnload => (Spec => []RestoreUndoable)
<1>1. QuietInv => RestoreUndoable
  BY DEF QuietInv
<1> QED
  BY <1>1, QuietHolds, PTL

\* Export reads the files one by one without the lock, while others edit and
\* snapshot: it has every edit that was acknowledged before it was asked for.
THEOREM ExportsComplete == QuietUnload => (Spec => []ExportComplete)
BY QuietHolds, ExportsHold, PTL

\* Once Delete has removed the directory nobody makes it again, also not the ticker,
\* which may hold the record still, nor a Get that had begun to read.
THEOREM DeletedForGood == QuietUnload => (Spec => []DeletedStaysDeleted)
<1>1. QuietInv => DeletedStaysDeleted
  BY DEF QuietInv, Gone, DeletedStaysDeleted
<1> QED
  BY <1>1, QuietHolds, PTL
=============================================================================
