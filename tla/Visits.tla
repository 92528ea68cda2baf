------------------------------- MODULE Visits -------------------------------
(***************************************************************************)
(* The pages that ask for a board: ViewPage, JoinPage and the door of        *)
(* BoardPage, HomePage with the dialogs of BoardActions.  Each page is open  *)
(* in a tab of its own, which has a session storage of its own: the unlock    *)
(* token and the user.                                                     *)
(*                                                                         *)
(* Every answer is awaited by some code, which may have been cancelled       *)
(* meanwhile: the calls of BoardAccess, received in any order.              *)
(***************************************************************************)
EXTENDS BoardAccess

CONSTANTS
    Viewers, Joiners, Managers,   \* tabs
    Scenarios    \* what there is in the beginning, and what may happen

\* Bound: what may happen a number of times only, which `left` counts.
Events == {"edits", "lapses", "crashes", "faults", "typos", "elsewhere", "changes"}

ASSUME ScenariosAssumption == \A s \in Scenarios : s.left \in [Events -> Nat]

VARIABLES
    view,    \* by viewer: [open, doc, needsPassword, err]
    join,    \* by joiner: [page, mount, meta, unlocked, err, user, as, link]
    home     \* by manager: [rows, dialog]

vars == <<serverVars, calls, token, view, join, home>>

Tabs == Viewers \cup Joiners \cup Managers

Closed == [kind |-> "none", what |-> "", locked |-> FALSE, busy |-> FALSE]
Dialog(kind, what, locked) == [Closed EXCEPT !.kind = kind, !.what = what, !.locked = locked]

\* What a page knows is gone with it; the user is stored.
NewPage(page) == [page |-> page, mount |-> page = "join", meta |-> NoMeta, unlocked |-> FALSE,
                  err |-> FALSE, user |-> Nobody, as |-> Nobody, link |-> "down"]

Init ==
    \E s \in Scenarios :
       /\ board = [archived |-> FALSE, password |-> s.password, users |-> {}]
       /\ saved = board
       /\ version = 1 /\ lost = {} /\ left = s.left
       /\ token = [t \in Tabs |-> NoToken]
       /\ view = [v \in Viewers |-> [open |-> v \in s.tabs, doc |-> 0, needsPassword |-> FALSE, err |-> FALSE]]
       /\ join = [j \in Joiners |-> NewPage(IF j \in s.tabs THEN "join" ELSE "none")]
       /\ home = [m \in Managers |-> [rows |-> {}, dialog |-> Closed]]
       /\ calls = {[Call(m, "load", "list", NoToken) EXCEPT !.n = 1] : m \in Managers \cap s.tabs}
                  \cup {[Call(v, "fetch", "document", NoToken) EXCEPT !.n = 1] : v \in Viewers \cap s.tabs}

\* The answer of c has been taken: the calls without it, and with what is asked next.
Done(c) == calls' = calls \ {c}
DoneThen(c, d) == calls' = And(calls \ {c}, d)

\* Mutant: nothing is cancelled.
CancelledNever(p, why) == calls

\* What p asked for is not wanted any more.  Nothing is left of a call that only
\* would have been looked at; the others have an effect all the same.
Cancelled(p, why) ==
    LET cancelled == {c \in calls : c.by = p /\ c.why \in why} IN
    (calls \ cancelled) \cup {[c EXCEPT !.live = FALSE] : c \in {d \in cancelled : d.why \notin {"fetch", "mount"}}}

-----------------------------------------------------------------------------
\* ViewPage

SetView(v, r) == view' = [view EXCEPT ![v] = r]
ViewOnly == UNCHANGED <<serverVars, join, home>>

\* The effect of a tick: what the last one asked for does not count any more.
Fetch(v, cs, t) == calls' = And(cs, Call(v, "fetch", "document", t))

\* Every four seconds, unless a password is asked for.
Poll(v) ==
    /\ view[v].open /\ ~view[v].needsPassword /\ MayAsk(v)
    /\ Fetch(v, Cancelled(v, {"fetch"}), token[v])
    /\ ViewOnly /\ UNCHANGED <<view, token>>

Fetched(v, c) ==
    LET shown == [view[v] EXCEPT !.doc = c.answer.version, !.needsPassword = FALSE, !.err = FALSE]
        asking == [view[v] EXCEPT !.doc = 0, !.needsPassword = TRUE] IN
    /\ c.why = "fetch"
    /\ CASE c.answer.kind = "ok" -> Done(c) /\ SetView(v, shown)
         [] c.answer.kind = "refused" -> DoneThen(c, Call(v, "name", "board", NoToken)) /\ SetView(v, asking)
         [] OTHER -> Done(c) /\ SetView(v, [view[v] EXCEPT !.err = TRUE])
    /\ UNCHANGED token

\* Whatever getBoard said and whether or not it is still wanted: the token goes,
\* even one that has been issued since.
Named(v, c) ==
    /\ c.why = "name" /\ Done(c)
    /\ token' = [token EXCEPT ![v] = NoToken]
    /\ UNCHANGED view

Knows(password) == board.password \in {password, NoPassword}

\* One try at a time.
Unlock(p, password) ==
    /\ MayAsk(p) /\ \A c \in CallsOf(p) : c.why # "unlock"
    /\ IF Knows(password) THEN UNCHANGED left ELSE Happens("typos")
    /\ calls' = And(calls, [Call(p, "unlock", "unlock", NoToken) EXCEPT !.password = password])

ViewUnlock(v, password) ==
    /\ view[v].needsPassword /\ Unlock(v, password)
    /\ SetView(v, [view[v] EXCEPT !.err = FALSE])
    /\ UNCHANGED <<board, saved, version, lost, join, home>> /\ UNCHANGED token

\* Mutant: unlocked, but not asked again.
ViewUnlockedQuietly(v, c) ==
    /\ c.why = "unlock" /\ Done(c)
    /\ IF c.answer.kind = "ok"
       THEN token' = [token EXCEPT ![v] = c.answer.token] /\ UNCHANGED view
       ELSE SetView(v, [view[v] EXCEPT !.err = TRUE]) /\ UNCHANGED token

ViewUnlocked(v, c) ==
    /\ c.why = "unlock"
    /\ IF c.answer.kind = "ok"
       THEN /\ token' = [token EXCEPT ![v] = c.answer.token] /\ UNCHANGED view
            /\ Fetch(v, Cancelled(v, {"fetch"}) \ {c}, c.answer.token)
       ELSE Done(c) /\ SetView(v, [view[v] EXCEPT !.err = TRUE]) /\ UNCHANGED token

ViewReceive(v, c) ==
    /\ c.by = v /\ c.answer.kind # "none"
    /\ Fetched(v, c) \/ Named(v, c) \/ ViewUnlocked(v, c)
    /\ ViewOnly

-----------------------------------------------------------------------------
\* JoinPage

SetJoin(j, r) == join' = [join EXCEPT ![j] = r]
JoinOnly == UNCHANGED <<serverVars, view, home>>

FreshPage(j) == [NewPage("join") EXCEPT !.user = join[j].user]

Mount(j) ==
    /\ join[j].mount /\ MayAsk(j)
    /\ calls' = And(calls, Call(j, "mount", "board", token[j]))
    /\ SetJoin(j, [join[j] EXCEPT !.mount = FALSE])
    /\ JoinOnly /\ UNCHANGED token

MountedIf(j, c) ==
    LET meta == c.answer.meta
        told == [join[j] EXCEPT !.meta = meta] IN
    CASE c.answer.kind # "ok" -> Done(c) /\ SetJoin(j, [join[j] EXCEPT !.err = TRUE])
      [] c.answer.kind = "ok" ->
            /\ SetJoin(j, [told EXCEPT !.unlocked = ~meta.archived /\ (~meta.locked \/ @)])
            /\ IF ~meta.archived /\ meta.locked /\ token[j] # NoToken
               THEN DoneThen(c, Call(j, "check", "users", token[j])) ELSE Done(c)

Mounted(j, c) == c.why = "mount" /\ MountedIf(j, c) /\ UNCHANGED token

\* A token that fails, for whatever reason, is thrown away: the one there is now.
Distrust(j, c) == Done(c) /\ token' = [token EXCEPT ![j] = NoToken] /\ UNCHANGED join

Checked(j, c) ==
    /\ c.why = "check"
    /\ IF c.answer.kind = "ok"
       THEN DoneThen(c, [Call(j, "full", "board", token[j]) EXCEPT !.live = c.live]) /\ UNCHANGED <<token, join>>
       ELSE Distrust(j, c)

Full(j, c) ==
    /\ c.why = "full"
    /\ CASE c.answer.kind # "ok" -> Distrust(j, c)
         [] c.answer.kind = "ok" /\ ~c.live -> Done(c) /\ UNCHANGED <<token, join>>
         [] c.answer.kind = "ok" /\ c.live ->
               /\ Done(c) /\ UNCHANGED token
               /\ SetJoin(j, [join[j] EXCEPT !.meta = c.answer.meta, !.unlocked = TRUE])

OnJoin(j) == join[j].page = "join" /\ ~join[j].meta.archived
NeedsPassword(j) == join[j].meta.locked /\ ~join[j].unlocked

JoinUnlock(j, password) ==
    /\ OnJoin(j) /\ NeedsPassword(j) /\ Unlock(j, password)
    /\ \A c \in CallsOf(j) : c.why # "reveal"
    /\ SetJoin(j, [join[j] EXCEPT !.err = FALSE])
    /\ UNCHANGED <<board, saved, version, lost, view, home, token>>

\* Mutant: the token is not kept.
JoinUnlockedForgetting(j, c) ==
    /\ c.why = "unlock" /\ UNCHANGED token
    /\ IF c.answer.kind = "ok" THEN DoneThen(c, Call(j, "reveal", "board", token[j])) /\ UNCHANGED join
       ELSE Done(c) /\ SetJoin(j, [join[j] EXCEPT !.err = TRUE])

JoinUnlocked(j, c) ==
    /\ c.why = "unlock"
    /\ IF c.answer.kind = "ok"
       THEN /\ token' = [token EXCEPT ![j] = c.answer.token]
            /\ DoneThen(c, Call(j, "reveal", "board", c.answer.token)) /\ UNCHANGED join
       ELSE Done(c) /\ SetJoin(j, [join[j] EXCEPT !.err = @ \/ join[j].page = "join"]) /\ UNCHANGED token

Revealed(j, c) ==
    /\ c.why = "reveal" /\ Done(c) /\ UNCHANGED token
    /\ SetJoin(j, IF join[j].page # "join" THEN join[j]
                  ELSE IF c.answer.kind = "ok"
                  THEN [join[j] EXCEPT !.meta = c.answer.meta, !.unlocked = TRUE]
                  ELSE [join[j] EXCEPT !.err = TRUE])

\* The user is stored and the page left.  On the board's page already, the user
\* is stored all the same.
Entered(j, u) ==
    SetJoin(j, IF join[j].page = "board" THEN [join[j] EXCEPT !.user = u]
               ELSE [NewPage("board") EXCEPT !.user = u, !.as = u])

Enter(j, u) ==
    /\ OnJoin(j) /\ ~NeedsPassword(j) /\ u \in join[j].meta.users
    /\ Entered(j, u)
    /\ calls' = Cancelled(j, {"mount", "check", "full"})
    /\ JoinOnly /\ UNCHANGED token

AddMe(j, name) ==
    /\ OnJoin(j) /\ ~NeedsPassword(j) /\ MayAsk(j)
    /\ \A c \in CallsOf(j) : c.why # "add"
    /\ calls' = And(calls, [Call(j, "add", "add", token[j]) EXCEPT !.name = name])
    /\ SetJoin(j, [join[j] EXCEPT !.err = FALSE])
    /\ JoinOnly /\ UNCHANGED token

Added(j, c) ==
    /\ c.why = "add" /\ UNCHANGED token
    /\ IF c.answer.kind = "ok"
       THEN calls' = Cancelled(j, {"mount", "check", "full"}) \ {c} /\ Entered(j, c.answer.user)
       ELSE Done(c) /\ SetJoin(j, [join[j] EXCEPT !.err = @ \/ join[j].page = "join"])

JoinReceive(j, c) ==
    /\ c.by = j /\ c.answer.kind # "none"
    /\ \/ Mounted(j, c) \/ Checked(j, c) \/ Full(j, c)
       \/ JoinUnlocked(j, c) \/ Revealed(j, c) \/ Added(j, c)
    /\ JoinOnly

-----------------------------------------------------------------------------
\* BoardPage: wsBoard accepts the connection of a user it may not know.

Dial(j) ==
    /\ join[j].page = "board" /\ join[j].link \in {"down", "refused"}
    /\ SetJoin(j, [join[j] EXCEPT !.link = IF ~board.archived /\ Unlocked(token[j])
                                           THEN "accepted" ELSE "refused"])
    /\ JoinOnly /\ UNCHANGED <<calls, token>>

\* Join closes the connection of an unknown user for good.
Seat(j) ==
    /\ join[j].link = "accepted"
    /\ SetJoin(j, [join[j] EXCEPT !.link = IF join[j].as \in board.users THEN "up" ELSE "fatal"])
    /\ JoinOnly /\ UNCHANGED <<calls, token>>

Drop(j) ==
    /\ Happens("faults") /\ join[j].link \in {"accepted", "up"}
    /\ SetJoin(j, [join[j] EXCEPT !.link = "down"])
    /\ UNCHANGED <<board, saved, version, lost, calls, token, view, home>>

\* The visitor reloads the page when it is of no use: the user stays who is stored.
Reload(j) ==
    /\ CallsOf(j) = {}
    /\ SetJoin(j, IF join[j].page = "join" THEN FreshPage(j)
                  ELSE [join[j] EXCEPT !.as = join[j].user, !.link = "down"])
    /\ \/ join[j].page = "join" /\ (join[j].meta.archived \/ (join[j].err /\ ~NeedsPassword(j)))
       \/ join[j].page = "board" /\ (join[j].link = "fatal" \/ join[j].as # join[j].user)
    /\ JoinOnly /\ UNCHANGED <<calls, token>>

\* Back to the first page.
Back(j) ==
    /\ join[j].page = "board" /\ join[j].link \in {"refused", "fatal"}
    /\ SetJoin(j, FreshPage(j))
    /\ JoinOnly /\ UNCHANGED <<calls, token>>

-----------------------------------------------------------------------------
\* HomePage and its dialogs

SetHome(m, r) == home' = [home EXCEPT ![m] = r]
HomeOnly == UNCHANGED <<board, saved, version, lost, token, view, join>>

Load(m) == Call(m, "load", "list", NoToken)
Management(m, what, password, next, why) ==
    [Call(m, why, what, NoToken) EXCEPT !.password = password, !.next = next, !.had = {board.password}]

\* A password is asked for if the row, which may be old, says so.
RunProtected(row) == row.locked

Choose(m, row) ==
    LET what == IF row.in = "active" THEN "archive" ELSE "restore" IN
    /\ row \in home[m].rows /\ home[m].dialog = Closed
    /\ IF RunProtected(row)
       THEN SetHome(m, [home[m] EXCEPT !.dialog = Dialog("prompt", what, TRUE)]) /\ UNCHANGED <<calls, left>>
       ELSE /\ MayAsk(m) /\ Happens("changes")
            /\ calls' = And(calls, Management(m, what, NoPassword, NoPassword, "direct"))
            /\ UNCHANGED home
    /\ HomeOnly

ChoosePassword(m, row) ==
    /\ row \in home[m].rows /\ row.in = "active" /\ home[m].dialog = Closed
    /\ SetHome(m, [home[m] EXCEPT !.dialog = Dialog("password", "password", row.locked)])
    /\ HomeOnly /\ UNCHANGED <<calls, left>>

\* A dialog that is busy takes no second confirmation; one opened instead does.
Confirm(m, password, next) ==
    LET d == home[m].dialog IN
    /\ ~d.busy /\ MayAsk(m) /\ Happens("changes")
    /\ calls' = And(calls, Management(m, d.what, password, next, d.kind))
    /\ SetHome(m, [home[m] EXCEPT !.dialog.busy = TRUE])
    /\ HomeOnly

ConfirmPrompt(m, password) == home[m].dialog.kind = "prompt" /\ Confirm(m, password, NoPassword)

ConfirmPassword(m, current, next) ==
    /\ home[m].dialog.kind = "password"
    /\ ~home[m].dialog.locked => current = NoPassword /\ next # NoPassword
    /\ Confirm(m, current, next)

Cancel(m) ==
    /\ home[m].dialog # Closed
    /\ SetHome(m, [home[m] EXCEPT !.dialog = Closed])
    /\ calls' = Cancelled(m, {"prompt", "password", "reload", "close"})
    /\ HomeOnly /\ UNCHANGED left

\* What kept the dialog open is over, whichever dialog of the kind it is by now.
CloseDialog(h, kind) == [h EXCEPT !.dialog = IF @.kind = kind THEN Closed ELSE @]

\* After what was done the boards are loaded again, for a prompt twice: it stays
\* open until they are.  The password dialog closes first.
HomeOk(m, c) ==
    LET loaded == [home[m] EXCEPT !.rows = c.answer.rows]
        again(why) == DoneThen(c, [Load(m) EXCEPT !.why = why, !.live = c.live]) IN
    CASE c.why = "load" -> Done(c) /\ SetHome(m, loaded)
      [] c.why = "reload" -> again("close") /\ SetHome(m, loaded)
      [] c.why = "close" -> Done(c) /\ SetHome(m, CloseDialog(loaded, "prompt"))
      [] c.why = "direct" -> again("load") /\ UNCHANGED home
      [] c.why = "password" -> again("load") /\ SetHome(m, CloseDialog(home[m], "password"))
      [] OTHER -> again("reload") /\ UNCHANGED home

\* A dialog that is still there can be confirmed again.
HomeFailed(m, c) ==
    /\ Done(c)
    /\ SetHome(m, [home[m] EXCEPT !.dialog.busy = @ /\ (c.why \in {"load", "direct"} \/ ~c.live)])

HomeReceive(m, c) ==
    /\ c.by = m /\ c.answer.kind # "none" /\ ~(c.what = "list" /\ c.answer.kind = "ok" /\ c.read # Lists)
    /\ IF c.answer.kind = "ok" THEN HomeOk(m, c) ELSE HomeFailed(m, c)
    /\ HomeOnly /\ UNCHANGED left

-----------------------------------------------------------------------------
Restart ==
    /\ Crash
    /\ join' = [j \in Joiners |-> [join[j] EXCEPT !.link = IF @ \in {"accepted", "up"} THEN "down" ELSE @]]
    /\ UNCHANGED <<view, home>>

Server ==
    /\ \/ Edit \/ Save \/ Lapse
       \/ Elsewhere /\ UNCHANGED token
       \/ \E c \in calls : (Handle(c) \/ Lose(c)) /\ UNCHANGED token
    /\ UNCHANGED <<view, join, home>>

ViewPage(v) ==
    \/ Poll(v)
    \/ \E password \in Passwords : ViewUnlock(v, password)
    \/ \E c \in calls : ViewReceive(v, c)

JoinPage(j) ==
    \/ Mount(j)
    \/ \E password \in Passwords : JoinUnlock(j, password)
    \/ \E u \in join[j].meta.users : Enter(j, u)
    \/ \E name \in Names : AddMe(j, name)
    \/ \E c \in calls : JoinReceive(j, c)

BoardPage(j) == Dial(j) \/ Seat(j) \/ Drop(j) \/ Reload(j) \/ Back(j)

HomePage(m) ==
    \/ \E row \in home[m].rows : Choose(m, row) \/ ChoosePassword(m, row)
    \/ \E password \in Passwords \cup {NoPassword} : ConfirmPrompt(m, password)
    \/ \E current, next \in Passwords \cup {NoPassword} : ConfirmPassword(m, current, next)
    \/ Cancel(m)
    \/ \E c \in calls : HomeReceive(m, c)

Next ==
    \/ Server \/ Restart
    \/ \E v \in Viewers : ViewPage(v)
    \/ \E j \in Joiners : JoinPage(j) \/ BoardPage(j)
    \/ \E m \in Managers : HomePage(m)

Spec == Init /\ [][Next]_vars

-----------------------------------------------------------------------------
\* Fairness: the server and the network get on with every call, the pages with
\* what they are told; visitors type the password, and do not give up.

Serving(p, n) == (\E c \in calls : c.by = p /\ c.n = n /\ Handle(c)) /\ UNCHANGED <<token, view, join, home>>
Receiving(p, n) ==
    \E c \in calls : /\ c.n = n
                     /\ \/ p \in Viewers /\ ViewReceive(p, c)
                        \/ p \in Joiners /\ JoinReceive(p, c)
                        \/ p \in Managers /\ HomeReceive(p, c)

\* One poll in a while is answered, and the answer there, before the next.
InTime(v) ==
    \E c \in calls : c.by = v /\ c.why = "fetch" /\ Handle(c) /\ UNCHANGED <<token, view, join, home>>
Arrives(v) == \E c \in calls : c.why = "fetch" /\ ViewReceive(v, c)

Fairness ==
    /\ \A p \in Tabs, n \in 1 .. MaxCalls : WF_vars(Serving(p, n)) /\ WF_vars(Receiving(p, n))
    /\ \A v \in Viewers :
          /\ WF_vars(Poll(v)) /\ SF_vars(InTime(v)) /\ SF_vars(Arrives(v))
          /\ WF_vars(\E password \in Passwords : Knows(password) /\ ViewUnlock(v, password))
    /\ \A j \in Joiners :
          /\ WF_vars(Mount(j)) /\ WF_vars(Dial(j)) /\ WF_vars(Seat(j)) /\ SF_vars(Reload(j)) /\ WF_vars(Back(j))
          /\ WF_vars(\E password \in Passwords : Knows(password) /\ JoinUnlock(j, password))
          /\ WF_vars((\E u \in join[j].meta.users : Enter(j, u)) \/ (\E name \in Names : AddMe(j, name)))

FairSpec == Spec /\ Fairness

-----------------------------------------------------------------------------
\* What a viewer sees is never replaced by an older state of the document,
\* though polls overlap and are answered in any order.
ViewNeverGoesBack ==
    [][\A v \in Viewers : view[v].doc # 0 /\ view'[v].doc # 0 => view'[v].doc >= view[v].doc]_vars

\* However passwords change, tokens lapse and calls fail: a viewer who types the
\* password when asked sees the newest document again and again.
Shown(v) == IF view[v].err /\ ~view[v].needsPassword THEN 0 ELSE view[v].doc
ViewShows == \A v \in Viewers : view[v].open => []<>(Shown(v) = version)

\* Two visitors who give the same name at the same time are the same user.
OneUserPerName == \A u, w \in board.users : u.name = w.name => u = w

\* A user of the board is turned away only if a crash came before the user was
\* saved, whatever was archived and locked meanwhile.
TurnedAwayIfLost == \A j \in Joiners : join[j].link = "fatal" => join[j].as \in lost

\* A board is archived, restored or locked for who gave a password it had while
\* the request was on its way, or when it had none.
ManagedByKnowing ==
    [][<<board.archived, board.password>>' # <<board.archived, board.password>> /\ left' = left =>
          \E c \in calls :
             /\ c.checked /\ \E d \in calls' : d.by = c.by /\ d.n = c.n /\ ~d.checked
             /\ c.had \cap {c.password, NoPassword} # {}]_vars

\* A visitor who knows the password and reloads a page that has failed gets onto
\* the board, unless it is archived or the visitor's user lost.
JoinerGetsIn ==
    \A j \in Joiners : join[j].page # "none" =>
        []<>(join[j].link = "up" \/ board.archived \/ join[j].as \in lost)
=============================================================================
