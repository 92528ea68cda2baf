---------------------------- MODULE BoardAccess -----------------------------
(***************************************************************************)
(* One board as the HTTP handlers of internal/api/api.go serve it: who may   *)
(* see it, join it and manage it, with the tokens of internal/auth/auth.go.  *)
(*                                                                         *)
(* A request that changes something is checked on a copy of the board's      *)
(* record and carried out later, under the record's lock.                  *)
(***************************************************************************)
EXTENDS Integers, FiniteSets, FiniteSetsExt

CONSTANTS
    Passwords, NoPassword,   \* what a board is locked with
    Names, NoName,
    MaxCalls                 \* bound: the requests a page has outstanding

ASSUME AccessAssumption == NoPassword \notin Passwords /\ NoName \notin Names /\ MaxCalls \in Nat

VARIABLES
    board,     \* the record's meta: [archived, password, users]
    saved,     \* the same, on the disk
    version,   \* counts the changes of what the document is
    token,     \* by tab, the unlock token it keeps
    lost,      \* history: users a crash forgot before they were saved
    calls,     \* requests on their way, being served, and answers on their way
    left       \* bound: what may still happen, and how often

serverVars == <<board, saved, version, lost, left>>

Nobody == [id |-> 0, name |-> NoName]

\* A token, as the server will find it.
NoToken == "none"
Good == "good"
Expired == "expired"

Lists == {"active", "archived"}

\* What a page knows of a board: nothing, before it has been told.
Meta(archived, locked, users) == [archived |-> archived, locked |-> locked, users |-> users]
NoMeta == Meta(FALSE, FALSE, {})

Waiting == [kind |-> "none", version |-> 0, token |-> NoToken, user |-> Nobody,
            meta |-> NoMeta, rows |-> {}]
Ok == [Waiting EXCEPT !.kind = "ok"]
Refused == [Waiting EXCEPT !.kind = "refused"]
Failed == [Waiting EXCEPT !.kind = "failed"]

\* A call: `why` is the code that waits for it; `live` until that code has been
\* cancelled; `had` is history: the passwords the board has had since the
\* request was sent, for one that manages it.
Call(by, why, what, t) ==
    [by |-> by, n |-> 0, why |-> why, what |-> what, token |-> t, password |-> NoPassword,
     name |-> NoName, next |-> NoPassword, live |-> TRUE, checked |-> FALSE, read |-> {},
     had |-> {}, answer |-> Waiting]

CallsOf(p) == {c \in calls : c.by = p}

\* With the calls already there, one more.
And(cs, c) ==
    LET used == {d.n : d \in {e \in cs : e.by = c.by}} IN
    cs \cup {[c EXCEPT !.n = Min((1 .. MaxCalls + 1) \ used)]}

MayAsk(p) == Cardinality(CallsOf(p)) < MaxCalls

Happens(event) == left[event] > 0 /\ left' = [left EXCEPT ![event] = @ - 1]

-----------------------------------------------------------------------------
\* Who may

Locked(b) == b.password # NoPassword

Unlocked(t) == ~Locked(board) \/ t = Good

AuthorizeManage(t, password) == Unlocked(t) \/ password = board.password

-----------------------------------------------------------------------------
\* The handlers

\* Of an answered request nothing else is needed.
Answered(c, a) ==
    [c EXCEPT !.answer = a, !.checked = FALSE, !.token = NoToken, !.password = NoPassword, !.next = NoPassword,
              !.name = NoName, !.had = {}]

Answer(c, a) == calls' = (calls \ {c}) \cup {Answered(c, a)}

GetDocument(c) == IF Unlocked(c.token) THEN [Ok EXCEPT !.version = version] ELSE Refused

GetBoard(c) ==
    [Ok EXCEPT !.meta = Meta(board.archived, Locked(board),
                             IF Unlocked(c.token) THEN board.users ELSE {})]

ListUsers(c) == IF Unlocked(c.token) THEN Ok ELSE Refused

UnlockBoard(c) ==
    IF ~Locked(board) \/ c.password = board.password THEN [Ok EXCEPT !.token = Good] ELSE Refused

Reads(c) ==
    CASE c.what = "document" -> GetDocument(c)
      [] c.what = "board" -> GetBoard(c)
      [] c.what = "users" -> ListUsers(c)
      [] OTHER -> UnlockBoard(c)

Changes == {"add", "archive", "restore", "password"}

Serve(c) ==
    /\ c.answer = Waiting /\ c.what \notin Changes \cup {"list"}
    /\ Answer(c, Reads(c))
    /\ UNCHANGED serverVars

\* The two lists of boards are two requests, sent together.
ServeList(c) ==
    \E l \in Lists \ c.read :
       LET row == IF board.archived = (l = "archived") THEN {[in |-> l, locked |-> Locked(board)]} ELSE {}
           rows == c.answer.rows \cup row IN
       /\ c.what = "list" /\ c.answer.kind = "none"
       /\ calls' = (calls \ {c}) \cup
             {[c EXCEPT !.read = @ \cup {l},
                        !.answer = [(IF c.read = {} THEN Waiting ELSE Ok) EXCEPT !.rows = rows]]}
       /\ UNCHANGED serverVars

\* Mutant: who changes the password is not asked for it.
AllowedToLock(c) ==
    IF c.what = "add" THEN ~board.archived /\ Unlocked(c.token)
    ELSE c.what = "password" \/ AuthorizeManage(c.token, c.password)

\* What is checked first, before anything is changed.
Allowed(c) ==
    IF c.what = "add" THEN ~board.archived /\ Unlocked(c.token)
    ELSE AuthorizeManage(c.token, c.password)

Check(c) ==
    /\ c.answer = Waiting /\ c.what \in Changes /\ ~c.checked
    /\ IF Allowed(c) THEN calls' = (calls \ {c}) \cup {[c EXCEPT !.checked = TRUE]}
       ELSE Answer(c, Refused)
    /\ UNCHANGED serverVars

\* Mutant: nobody is looked for.
AddUserTwice(users, name, new) == [id |-> new, name |-> name]

\* Whoever has the name is the one.
AddUser(users, name, new) ==
    IF \E u \in users : u.name = name THEN CHOOSE u \in users : u.name = name
    ELSE [id |-> new, name |-> name]

NewUserId == 1 + Max({0} \cup {u.id : u \in board.users \cup lost})

Add(c) ==
    LET u == AddUser(board.users, c.name, NewUserId) IN
    /\ c.checked /\ c.what = "add"
    /\ board' = [board EXCEPT !.users = @ \cup {u}]
    /\ Answer(c, [Ok EXCEPT !.user = u])
    /\ UNCHANGED <<saved, version, lost, left>>

\* Mutant: the copy that was checked is written back, without who came since.
ManagedCopy(b, c) ==
    [b EXCEPT !.archived = IF c.what = "password" THEN @ ELSE c.what = "archive",
              !.password = IF c.what = "password" THEN c.next ELSE @, !.users = saved.users]

Managed(b, c) ==
    [b EXCEPT !.archived = IF c.what = "password" THEN @ ELSE c.what = "archive",
              !.password = IF c.what = "password" THEN c.next ELSE @]

\* The history of who asked to manage the board.
Had(cs, password) == {IF d.had = {} THEN d ELSE [d EXCEPT !.had = @ \cup {password}] : d \in cs}

\* Saved before it is answered, with all else the record holds.
Manage(c) ==
    LET b == Managed(board, c) IN
    /\ c.checked /\ c.what # "add"
    /\ board' = b /\ saved' = b
    /\ calls' = Had(calls \ {c}, b.password) \cup {Answered(c, Ok)}
    /\ UNCHANGED <<version, lost, left>>

\* The same, by somebody else, from the request to the answer.
Elsewhere ==
    \E what \in Changes \ {"add"}, next \in Passwords \cup {NoPassword} :
       LET c == [Call("", "", what, NoToken) EXCEPT !.next = next]
           b == Managed(board, c) IN
       /\ what # "password" => next = NoPassword
       /\ b # board /\ Happens("elsewhere")
       /\ board' = b /\ saved' = b
       /\ calls' = Had(calls, b.password)
       /\ UNCHANGED <<version, lost>>

\* The request did not arrive, or the answer does not.
Lose(c) ==
    /\ Happens("faults")
    /\ c.answer.kind = "none" \/ (c.what \in Changes /\ c.answer.kind # "failed")
    /\ ~c.checked
    /\ Answer(c, Failed)
    /\ UNCHANGED <<board, saved, version, lost>>

-----------------------------------------------------------------------------
\* What happens meanwhile

Edit ==
    /\ Happens("edits") /\ version' = version + 1
    /\ UNCHANGED <<board, saved, lost, calls, token>>

Save == board # saved /\ saved' = board /\ UNCHANGED <<board, version, lost, calls, token, left>>

Old(t) == IF t = Good THEN Expired ELSE t
OldToken(c) == [c EXCEPT !.token = Old(@), !.answer.token = Old(@)]

\* The tokens issued so far have had their day.
Lapse ==
    /\ Happens("lapses")
    /\ token' = [t \in DOMAIN token |-> Old(token[t])]
    /\ calls' = {OldToken(c) : c \in calls}
    /\ UNCHANGED <<board, saved, version, lost>>

\* A new process has a new secret, and the board as it was saved.
Crash ==
    /\ Happens("crashes")
    /\ board' = saved /\ version' = version + 1
    /\ lost' = lost \cup (board.users \ saved.users)
    /\ token' = [t \in DOMAIN token |-> Old(token[t])]
    /\ calls' = {IF c.answer.kind = "none" THEN Answered(c, Failed) ELSE OldToken(c) : c \in calls}
    /\ UNCHANGED saved

Handle(c) == Serve(c) \/ ServeList(c) \/ Check(c) \/ Add(c) \/ Manage(c)
=============================================================================
