----------------------------- MODULE BoardStore -----------------------------
(***************************************************************************)
(* One board in the store (internal/store): the record in memory, the      *)
(* working files and the snapshots, under requests, the ticker, evictions, *)
(* deletion, failing writes, crashes and a graceful stop.                  *)
(*                                                                         *)
(* Every call runs on a goroutine of its own.  It finds or loads the       *)
(* record (Get), and then works on it under the record's lock, whether or  *)
(* not the map still holds it.  The content of a file is the set of the    *)
(* edits it contains.                                                      *)
(***************************************************************************)
EXTENDS Integers, FiniteSets

CONSTANTS
    Threads,     \* goroutines of requests and of evictLater
    Ticker,      \* the goroutine of Store.loop
    Nobody,      \* the holder of a free lock
    NoRec,       \* no record
    NoFile,      \* marks the content of a file that does not exist
    HalfFile,    \* marks the content of a file whose writing was cut
    Calls,       \* the operations that may be called
    QuietUnload, \* nothing else runs and nothing fails while a record is unloaded
    MaxCalls,    \* bound: calls made
    MaxRecs,     \* bound: records ever loaded
    MaxFaults,   \* bound: writes that fail
    MaxCrashes   \* bound: crashes

Kinds == {"meta", "board", "chat"}
Missing == {NoFile}
Torn == {HalfFile}
Actors == Threads \cup {Ticker}
Recs == 1 .. MaxRecs

\* AddUser, Apply and a chat message; Archive, Restore and SetPassword; ...
Edits == Kinds
Ops == Edits \cup {"archive", "force", "restore", "export", "unload", "drop", "delete",
                   "stop", "tick"}

\* ... evictLater, deleteBoard (Drop, then Delete) and main's shutdown.
Unloading == {"unload", "drop", "delete", "stop"}

ASSUME StoreAssumption ==
    /\ Ticker \notin Threads /\ Nobody \notin Actors
    /\ NoRec \notin Nat
    /\ NoFile \notin Nat /\ HalfFile \notin Nat /\ NoFile # HalfFile
    /\ Calls \subseteq Ops \ {"delete", "tick"}
    /\ QuietUnload \in BOOLEAN
    /\ {MaxCalls, MaxFaults, MaxCrashes} \subseteq Nat
    /\ MaxRecs \in Nat \ {0}

VARIABLES
    inMap,    \* Store.loaded[id]
    mem,      \* a record's Meta, Document and Chat
    dirty,    \* a record's kinds with fileState.dirty
    lock,     \* BoardRecord.mu
    dir,      \* the board's directory exists
    files,    \* meta.json, board.json and chat.json
    snaps,    \* files of snapshots/, [ts, kind, val]
    calls,    \* what every goroutine is doing
  \* History.
    made,     \* records this process has loaded
    lastTs,   \* time of the newest snapshot
    edits,    \* edits made so far
    kept,     \* edits acknowledged, and neither replaced by a restore nor
              \* lost in a crash before they were saved
    replaced, \* states a restore has replaced, [ts, val]
    deleted,  \* Delete has succeeded
    started, faults, crashes

memory == <<mem, dirty>>
disk == <<dir, files, snaps>>
history == <<kept, replaced, deleted>>
bounds == <<started, faults, crashes>>
vars == <<inMap, memory, lock, disk, calls, made, lastTs, edits, history, bounds>>

Unread == [k \in Kinds |-> Missing]
NoCall == [op |-> "tick", pc |-> "idle", rec |-> NoRec, read |-> Unread, todo |-> {},
           ts |-> 0, asked |-> {}]

\* Files are written in this order.
First(kinds) == IF "meta" \in kinds THEN "meta"
                ELSE IF "board" \in kinds THEN "board" ELSE "chat"

-----------------------------------------------------------------------------
\* Create: the record is in the map and in the files.
Init ==
    /\ inMap = 1 /\ made = 1
    /\ mem = [r \in Recs |-> [k \in Kinds |-> {}]]
    /\ dirty = [r \in Recs |-> {}]
    /\ lock = [r \in Recs |-> Nobody]
    /\ dir = TRUE /\ files = [k \in Kinds |-> {}] /\ snaps = {}
    /\ calls = [t \in Actors |-> NoCall]
    /\ lastTs = 0 /\ edits = 0
    /\ kept = {} /\ replaced = {} /\ deleted = FALSE
    /\ started = 0 /\ faults = 0 /\ crashes = 0

Goes(t, call) == calls' = [calls EXCEPT ![t] = call]
GoesTo(t, pc) == Goes(t, [calls[t] EXCEPT !.pc = pc])
At(t, pc) == calls[t].pc = pc

\* mu.Lock by t, at once where a single step is all that is done under it.
Unlocked(t) == lock[calls[t].rec] = Nobody
Locks(t) == lock' = [lock EXCEPT ![calls[t].rec] = t]
Unlocks(t) == lock' = [lock EXCEPT ![calls[t].rec] = Nobody]

(***************************************************************************)
(* Calls begin.                                                            *)
(***************************************************************************)
Busy(t) == calls[t].pc # "idle"

\* main waits for the requests before it stops (srv.Shutdown), for evictLater it
\* does not.  A quiet unloading waits for everybody, and everybody for it.
MayBegin(t, op) ==
    \A u \in Threads \ {t} :
        /\ op = "stop" => ~Busy(u) \/ calls[u].op = "unload"
        /\ Busy(u) => calls[u].op # "stop"
        /\ QuietUnload /\ Busy(u) => {op, calls[u].op} \cap Unloading = {}

Begin(t, op) ==
    /\ ~Busy(t)
    /\ started < MaxCalls /\ started' = started + 1
    /\ MayBegin(t, op)
    /\ op = "stop" => ~Busy(Ticker)
    /\ Goes(t, [NoCall EXCEPT !.op = op,
                !.asked = IF op = "export" THEN kept ELSE {},
                !.pc = IF op \in {"unload", "stop"} THEN "unload" ELSE "lookup"])
    /\ UNCHANGED <<inMap, memory, lock, disk, made, lastTs, edits, history, faults, crashes>>

\* snapshotDue: the loaded record, looked at later.
Tick ==
    /\ ~Busy(Ticker) /\ inMap # NoRec
    /\ \A u \in Threads : Busy(u) => calls[u].op # "stop"
    /\ Goes(Ticker, [NoCall EXCEPT !.rec = inMap, !.pc = "flush"])
    /\ UNCHANGED <<inMap, memory, lock, disk, made, lastTs, edits, history, bounds>>

(***************************************************************************)
(* Get.                                                                    *)
(***************************************************************************)
Lookup(t) ==
    /\ At(t, "lookup")
    /\ Goes(t, IF inMap # NoRec
               THEN [calls[t] EXCEPT !.rec = inMap, !.pc = "work"]
               ELSE [calls[t] EXCEPT !.todo = Kinds, !.pc = "read"])
    /\ UNCHANGED <<inMap, memory, lock, disk, made, lastTs, edits, history, bounds>>

\* The files are read one after the other; only meta.json has to be there.
Read(t) ==
    LET k == First(calls[t].todo)
        rest == calls[t].todo \ {k}
    IN
    /\ At(t, "read")
    /\ Goes(t, IF k = "meta" /\ files[k] = Missing THEN NoCall
               ELSE [calls[t] EXCEPT
                       !.read[k] = IF files[k] = Missing THEN {} ELSE files[k],
                       !.todo = rest, !.pc = IF rest = {} THEN "insert" ELSE "read"])
    /\ UNCHANGED <<inMap, memory, lock, disk, made, lastTs, edits, history, bounds>>

\* Mutant: whoever has read the files puts its own record in the map.
InsertAlways(t) ==
    /\ At(t, "insert")
    /\ made < MaxRecs
    /\ made' = made + 1 /\ inMap' = made'
    /\ mem' = [mem EXCEPT ![made'] = calls[t].read]
    /\ Goes(t, [calls[t] EXCEPT !.rec = made', !.pc = "work"])
    /\ UNCHANGED <<dirty, lock, disk, lastTs, edits, history, bounds>>

\* Somebody may have been faster.
Insert(t) ==
    /\ At(t, "insert")
    /\ IF inMap # NoRec
       THEN /\ Goes(t, [calls[t] EXCEPT !.rec = inMap, !.read = Unread, !.pc = "work"])
            /\ UNCHANGED <<inMap, made, mem>>
       ELSE /\ made < MaxRecs
            /\ made' = made + 1 /\ inMap' = made'
            /\ mem' = [mem EXCEPT ![made'] = calls[t].read]
            /\ Goes(t, [calls[t] EXCEPT !.rec = made', !.read = Unread, !.pc = "work"])
    /\ UNCHANGED <<dirty, lock, disk, lastTs, edits, history, bounds>>

(***************************************************************************)
(* The work of a call that has its record.                                 *)
(***************************************************************************)

\* An edit of kind k, and MarkDirty.
Marks(t, k) ==
    /\ Unlocked(t)
    /\ edits' = edits + 1
    /\ mem' = [mem EXCEPT ![calls[t].rec][k] = @ \cup {edits'}]
    /\ dirty' = [dirty EXCEPT ![calls[t].rec] = @ \cup {k}]
    /\ kept' = kept \cup {edits'}
    /\ UNCHANGED <<inMap, lock, disk, made, lastTs, replaced, deleted, bounds>>

Change(t) ==
    /\ At(t, "work") /\ calls[t].op \in Edits
    /\ Marks(t, calls[t].op)
    /\ Goes(t, NoCall)

Archive(t) ==
    /\ At(t, "work") /\ calls[t].op = "archive"
    /\ Marks(t, "meta")
    /\ GoesTo(t, "flush")

\* RestoreSnapshot reads the snapshot before it locks the record.  A snapshot
\* without a board is not found, one without a chat leaves the chat alone.
FindSnapshot(t) ==
    /\ At(t, "work") /\ calls[t].op = "restore"
    /\ \E s \in {x \in snaps : x.kind = "board"} :
        LET chats == {x \in snaps : x.ts = s.ts /\ x.kind = "chat" /\ x.val # Torn} IN
        Goes(t, IF s.val = Torn THEN NoCall
                ELSE [calls[t] EXCEPT !.pc = "flush", !.read =
                        [Unread EXCEPT !["board"] = s.val,
                            !["chat"] = IF chats = {} THEN Missing
                                        ELSE (CHOOSE x \in chats : TRUE).val]])
    /\ UNCHANGED <<inMap, memory, lock, disk, made, lastTs, edits, history, bounds>>

NotFound(t) ==
    /\ At(t, "work") /\ calls[t].op = "restore"
    /\ ~\E s \in snaps : s.kind = "board"
    /\ Goes(t, NoCall)
    /\ UNCHANGED <<inMap, memory, lock, disk, made, lastTs, edits, history, bounds>>

\* ForceSnapshot and Export go on to the snapshot, Drop to Unload.
Proceed(t) ==
    /\ At(t, "work") /\ calls[t].op \in {"force", "export", "drop"}
    /\ GoesTo(t, IF calls[t].op = "drop" THEN "unload" ELSE "flush")
    /\ UNCHANGED <<inMap, memory, lock, disk, made, lastTs, edits, history, bounds>>

(***************************************************************************)
(* maybeSnapshot and snapshotLocked: for every kind the working file, then *)
(* its copy in snapshots/, then the flags.                                 *)
(***************************************************************************)

\* What follows a snapshot, written or not.  maybeSnapshot drops its errors.
After(call) ==
    CASE call.op = "export" -> [call EXCEPT !.pc = "export", !.todo = Kinds]
      [] call.op = "drop"   -> [call EXCEPT !.op = "delete", !.pc = "unload"]
      [] call.op = "delete" -> [call EXCEPT !.pc = "remove"]
      [] call.op = "stop"   -> [call EXCEPT !.pc = "exit"]
      [] OTHER -> NoCall

\* Mutants: a restore saves what is dirty, an export what is due, the ticker
\* forgets meta.json.
DueDirtyOnly(t) ==
    LET d == dirty[calls[t].rec] IN
    CASE calls[t].op = "force" -> {Kinds}
      [] calls[t].op = "tick" -> SUBSET d
      [] OTHER -> {d}
DueIfReady(t) ==
    LET d == dirty[calls[t].rec] IN
    CASE calls[t].op \in {"force", "restore"} -> {Kinds}
      [] calls[t].op \in {"tick", "export"} -> SUBSET d
      [] OTHER -> {d}

DueNotMeta(t) ==
    LET d == dirty[calls[t].rec] IN
    CASE calls[t].op \in {"force", "restore"} -> {Kinds}
      [] calls[t].op = "tick" -> SUBSET (d \ {"meta"})
      [] OTHER -> {d}

\* The kinds a snapshot may be of.  The ticker takes those that have been idle
\* for IdleSnapshot or dirty for MaxSnapshot, which time decides.
Due(t) ==
    LET d == dirty[calls[t].rec] IN
    CASE calls[t].op \in {"force", "restore"} -> {Kinds}
      [] calls[t].op = "tick" -> SUBSET d
      [] OTHER -> {d}

\* Snapshots of one board are taken to start in different milliseconds.
Snapshot(t, kinds) ==
    /\ At(t, "flush") /\ Unlocked(t)
    /\ kinds \in Due(t)
    /\ IF kinds = {}
       THEN Goes(t, After(calls[t])) /\ UNCHANGED <<lock, dir, lastTs>>
       ELSE /\ Locks(t)
            /\ dir' = TRUE
            /\ lastTs' = lastTs + 1
            /\ Goes(t, [calls[t] EXCEPT !.pc = "write", !.todo = kinds, !.ts = lastTs'])
    /\ UNCHANGED <<inMap, memory, files, snaps, made, edits, history, bounds>>

Write(t) ==
    LET k == First(calls[t].todo) IN
    /\ At(t, "write") /\ dir
    /\ files' = [files EXCEPT ![k] = mem[calls[t].rec][k]]
    /\ GoesTo(t, "copy")
    /\ UNCHANGED <<inMap, memory, lock, dir, snaps, made, lastTs, edits, history, bounds>>

\* The end of the kinds: RestoreSnapshot goes on under the lock.
Copied(t, rest) ==
    IF rest # {}
    THEN Goes(t, [calls[t] EXCEPT !.todo = rest, !.pc = "write"]) /\ UNCHANGED lock
    ELSE IF calls[t].op = "restore" THEN GoesTo(t, "replace") /\ UNCHANGED lock
    ELSE Goes(t, After(calls[t])) /\ Unlocks(t)

SnapOf(t, val) == [ts |-> calls[t].ts, kind |-> First(calls[t].todo), val |-> val]

Copy(t) ==
    LET k == First(calls[t].todo) IN
    /\ At(t, "copy") /\ files[k] # Missing
    /\ snaps' = snaps \cup {SnapOf(t, files[k])}
    /\ dirty' = [dirty EXCEPT ![calls[t].rec] = @ \ {k}]
    /\ Copied(t, calls[t].todo \ {k})
    /\ UNCHANGED <<inMap, mem, dir, files, made, lastTs, edits, history, bounds>>

\* Mutant: the error return forgets the lock.
FailLocked(t) ==
    /\ calls[t].pc \in {"write", "copy", "working"}
    /\ faults < MaxFaults /\ faults' = faults + 1
    /\ Goes(t, NoCall)
    /\ UNCHANGED <<inMap, memory, lock, disk, made, lastTs, edits, history, started, crashes>>

\* A write fails: the disk is full, or the directory is gone.  The copy of a
\* snapshot may be left half written.
Fail(t) ==
    LET gone == ~dir \/ (At(t, "copy") /\ files[First(calls[t].todo)] = Missing) IN
    /\ calls[t].pc \in {"write", "copy", "working"}
    /\ \/ gone /\ UNCHANGED <<faults, snaps>>
       \/ /\ QuietUnload => calls[t].op \notin Unloading
          /\ faults < MaxFaults /\ faults' = faults + 1
          /\ \/ UNCHANGED snaps
             \/ dir /\ At(t, "copy") /\ snaps' = snaps \cup {SnapOf(t, Torn)}
    /\ Goes(t, IF calls[t].op = "restore" THEN NoCall ELSE After(calls[t]))
    /\ Unlocks(t)
    /\ UNCHANGED <<inMap, memory, dir, files, made, lastTs, edits, history, started, crashes>>

(***************************************************************************)
(* RestoreSnapshot goes on: replace, mark, and write the working files.    *)
(***************************************************************************)
Restored(t) ==
    LET call == calls[t] IN
    [mem[call.rec] EXCEPT !["board"] = call.read["board"],
        !["chat"] = IF call.read["chat"] = Missing THEN @ ELSE call.read["chat"]]

Unrestored(t) ==
    UNION {mem[calls[t].rec][k] \ Restored(t)[k] : k \in Kinds}

\* Mutant: nothing is marked, for the working files are written at once.
ReplaceUnmarked(t) ==
    /\ At(t, "replace")
    /\ mem' = [mem EXCEPT ![calls[t].rec] = Restored(t)]
    /\ replaced' = replaced \cup {[ts |-> calls[t].ts, val |-> mem[calls[t].rec]]}
    /\ kept' = kept \ Unrestored(t)
    /\ Goes(t, [calls[t] EXCEPT !.pc = "working", !.todo = Kinds])
    /\ UNCHANGED <<inMap, dirty, lock, disk, made, lastTs, edits, deleted, bounds>>

Replace(t) ==
    /\ At(t, "replace")
    /\ mem' = [mem EXCEPT ![calls[t].rec] = Restored(t)]
    /\ dirty' = [dirty EXCEPT ![calls[t].rec] = @ \cup {"board", "chat"}]
    /\ dir' = TRUE
    /\ replaced' = replaced \cup {[ts |-> calls[t].ts, val |-> mem[calls[t].rec]]}
    /\ kept' = kept \ Unrestored(t)
    /\ Goes(t, [calls[t] EXCEPT !.pc = "working", !.todo = Kinds])
    /\ UNCHANGED <<inMap, lock, files, snaps, made, lastTs, edits, deleted, bounds>>

WriteWorking(t) ==
    LET k == First(calls[t].todo)
        rest == calls[t].todo \ {k}
    IN
    /\ At(t, "working") /\ dir
    /\ files' = [files EXCEPT ![k] = mem[calls[t].rec][k]]
    /\ IF rest = {} THEN Goes(t, NoCall) /\ Unlocks(t)
       ELSE Goes(t, [calls[t] EXCEPT !.todo = rest]) /\ UNCHANGED lock
    /\ UNCHANGED <<inMap, memory, dir, snaps, made, lastTs, edits, history, bounds>>

(***************************************************************************)
(* Export, Unload, Delete.                                                 *)
(***************************************************************************)

\* Export reads the files without the lock.
ExportFile(t) ==
    LET k == First(calls[t].todo)
        rest == calls[t].todo \ {k}
    IN
    /\ At(t, "export")
    /\ Goes(t, IF files[k] = Missing THEN NoCall
               ELSE [calls[t] EXCEPT !.read[k] = files[k], !.todo = rest,
                       !.pc = IF rest = {} THEN "exported" ELSE "export"])
    /\ UNCHANGED <<inMap, memory, lock, disk, made, lastTs, edits, history, bounds>>

Exported(t) ==
    /\ At(t, "exported")
    /\ Goes(t, NoCall)
    /\ UNCHANGED <<inMap, memory, lock, disk, made, lastTs, edits, history, bounds>>

\* Mutant: out of the map, and not flushed.
UnloadOnly(t) ==
    /\ At(t, "unload")
    /\ inMap' = NoRec
    /\ Goes(t, After(calls[t]))
    /\ UNCHANGED <<memory, lock, disk, made, lastTs, edits, history, bounds>>

\* Unload takes the record out of the map and then flushes it; FlushAll, of a
\* server that stops, leaves it there.
Unload(t) ==
    /\ At(t, "unload")
    /\ inMap' = IF calls[t].op = "stop" THEN inMap ELSE NoRec
    /\ Goes(t, IF inMap = NoRec THEN After(calls[t])
               ELSE [calls[t] EXCEPT !.rec = inMap, !.pc = "flush"])
    /\ UNCHANGED <<memory, lock, disk, made, lastTs, edits, history, bounds>>

\* Delete: Stat, and RemoveAll.
Remove(t) ==
    /\ At(t, "remove")
    /\ dir' = FALSE /\ files' = [k \in Kinds |-> Missing] /\ snaps' = {}
    /\ deleted' = (deleted \/ dir)
    /\ kept' = {} /\ replaced' = {}
    /\ Goes(t, NoCall)
    /\ UNCHANGED <<inMap, memory, lock, made, lastTs, edits, bounds>>

(***************************************************************************)
(* The process ends, and starts again with nothing loaded.                 *)
(***************************************************************************)
Restarts ==
    /\ inMap' = NoRec
    /\ lock' = [r \in Recs |-> Nobody]
    /\ mem' = [r \in Recs |-> [k \in Kinds |-> {}]]
    /\ dirty' = [r \in Recs |-> {}]
    /\ made' = 0
    /\ calls' = [t \in Actors |-> NoCall]
    /\ UNCHANGED <<dir, files, lastTs, edits, replaced, deleted,
                   started, faults>>

Exit(t) == At(t, "exit") /\ Restarts /\ UNCHANGED <<snaps, kept, crashes>>

Present == {k \in Kinds : files[k] # Missing}
Saved == UNION {files[k] : k \in Present}

\* writeJSON renames, the copies in snapshots/ are written in place.
Crash ==
    /\ crashes < MaxCrashes /\ crashes' = crashes + 1
    /\ \E cut \in SUBSET {t \in Actors : dir /\ At(t, "copy")} :
          snaps' = snaps \cup {SnapOf(t, Torn) : t \in cut}
    /\ kept' = kept \cap Saved
    /\ Restarts

-----------------------------------------------------------------------------
Works(t) ==
    \/ Lookup(t) \/ Read(t) \/ Insert(t)
    \/ Change(t) \/ Archive(t) \/ FindSnapshot(t) \/ NotFound(t) \/ Proceed(t)
    \/ \E kinds \in SUBSET Kinds : Snapshot(t, kinds)
    \/ Write(t) \/ Copy(t) \/ Replace(t) \/ WriteWorking(t)
    \/ ExportFile(t) \/ Exported(t) \/ Unload(t) \/ Remove(t) \/ Exit(t)

Next ==
    \/ \E t \in Threads : \E op \in Calls : Begin(t, op)
    \/ \E t \in Actors : Works(t) \/ Fail(t)
    \/ Tick \/ Crash

Spec == Init /\ [][Next]_vars

(***************************************************************************)
(* Fairness: goroutines run and the ticker ticks.  A kind that stays dirty *)
(* is due at every tick once MaxSnapshot has passed, hence the strong      *)
(* fairness of the tick that takes all that is dirty.                      *)
(***************************************************************************)
TakesAll == At(Ticker, "flush") /\ Snapshot(Ticker, dirty[calls[Ticker].rec])

Fairness ==
    /\ \A t \in Actors : WF_vars(Works(t))
    /\ WF_vars(Tick) /\ SF_vars(TakesAll)

FairSpec == Spec /\ Fairness
-----------------------------------------------------------------------------
(* Properties *)

Content == SUBSET Nat
CallType == [op : Ops, pc : {"idle", "lookup", "read", "insert", "work", "flush", "write",
                             "copy", "replace", "working", "export", "exported", "unload",
                             "remove", "exit"},
             rec : Recs \cup {NoRec}, read : [Kinds -> Content \cup {Missing}],
             todo : SUBSET Kinds, ts : Nat, asked : Content]

Holding == {"write", "copy", "replace", "working"}

LockDiscipline ==
    \A t \in Actors : \A r \in Recs :
        lock[r] = t <=> calls[t].rec = r /\ calls[t].pc \in Holding

\* Types, and the discipline of the record's lock: it is held by who is inside
\* snapshotLocked or writeWorking, and by nobody else.
TypeOK ==
    /\ inMap \in Recs \cup {NoRec} /\ made \in Recs \cup {0}
    /\ mem \in [Recs -> [Kinds -> Content]] /\ dirty \in [Recs -> SUBSET Kinds]
    /\ lock \in [Recs -> Actors \cup {Nobody}]
    /\ dir \in BOOLEAN /\ files \in [Kinds -> Content \cup {Missing}]
    /\ snaps \subseteq [ts : Nat, kind : Kinds, val : Content \cup {Torn}]
    /\ calls \in [Actors -> CallType]
    /\ {lastTs, edits, started, faults, crashes} \subseteq Nat
    /\ kept \in Content /\ deleted \in BOOLEAN
    /\ replaced \subseteq [ts : Nat, val : [Kinds -> Content]]
    /\ LockDiscipline

\* The flags tell the truth: what the loaded record calls clean is in the file,
\* also half way through a snapshot or a restore and after either has failed.
CleanIsSaved ==
    inMap # NoRec => \A k \in Kinds \ dirty[inMap] : files[k] = mem[inMap][k]

\* Records that have left the map and are being flushed.
Leaving == {calls[t].rec : t \in {u \in Threads : /\ calls[u].op \in Unloading
                                                  /\ calls[u].pc \in {"flush", "write", "copy"}}}

Held(k) == IF inMap # NoRec THEN mem[inMap][k]
           ELSE UNION ({mem[r][k] : r \in Leaving} \cup {files[x] : x \in {k} \cap Present})

\* "Apply persists ops" (hub/apply.go:16): an edit that was acknowledged is found
\* again, in memory or in the files, whatever is loaded, unloaded, stopped or -
\* once it has been saved - crashes, and whichever request fails to write.
NoLostEdit == kept \subseteq UNION {Held(k) : k \in Kinds}

\* "Current state is snapshotted first so the restore is reversible"
\* (store.go:319): what a restore has replaced is in a complete snapshot of that
\* moment, also when the server crashes or a write fails during the restore.
RestoreUndoable ==
    \A x \in replaced : \A k \in Kinds : [ts |-> x.ts, kind |-> k, val |-> x.val[k]] \in snaps

\* An export holds every edit that was acknowledged before it was asked for (and
\* has not been replaced meanwhile).
ExportComplete ==
    faults = 0 =>
        \A t \in Threads :
            At(t, "exported") =>
                calls[t].asked \cap kept \subseteq UNION {calls[t].read[k] : k \in Kinds}

\* "Delete permanently removes the board directory" (manage.go:63): nothing
\* writes it again, the ticker that still holds the record included.
DeletedStaysDeleted == deleted => ~dir

\* What is edited reaches the files: again and again, nothing loaded is dirty.
EditsGetSaved == []<>(inMap = NoRec \/ dirty[inMap] = {})
=============================================================================
