---------------------------- MODULE VisitsProofs ----------------------------
(***************************************************************************)
(* What the pages and the handlers guarantee each other, for any number of   *)
(* visitors, managers, requests and crashes: who has a name, who is turned   *)
(* away, who manages the board, and what a viewer is shown.                  *)
(***************************************************************************)
EXTENDS Visits, TLAPS

-----------------------------------------------------------------------------
(* Two users never have the same name. *)

NamesUnique(b) == "users" \in DOMAIN b /\ \A u, w \in b.users : u.name = w.name => u = w

\* What is on the disk comes back after a crash.
NamesInv == NamesUnique(board) /\ NamesUnique(saved)

-----------------------------------------------------------------------------
\* AddUser of internal/store/manage.go, which looks for the name first.
LEMMA AddKeepsNames ==
  ASSUME NEW b, NEW name, NEW new, NamesUnique(b)
  PROVE  NamesUnique([b EXCEPT !.users = @ \cup {AddUser(b.users, name, new)}])
PROOF
<1> DEFINE u == AddUser(b.users, name, new)
           after == [b EXCEPT !.users = @ \cup {u}]
<1>1. "users" \in DOMAIN after /\ after.users = b.users \cup {u}
  BY DEF NamesUnique
<1>2. CASE \E w \in b.users : w.name = name
  <2>1. u \in b.users
    BY <1>2 DEF AddUser
  <2> QED
    BY <1>1, <2>1 DEF NamesUnique
<1>3. CASE ~\E w \in b.users : w.name = name
  <2>1. u.name = name
    BY <1>3 DEF AddUser
  <2>2. NamesUnique(after)
    <3> HIDE DEF u, after
    <3> QED
      BY <1>1, <1>3, <2>1 DEF NamesUnique
  <2> QED
    BY <2>2
<1> QED
  BY <1>2, <1>3

\* Who manages the board has nothing to do with who is on it.
LEMMA ManagedKeepsNames ==
  ASSUME NEW b, NEW c, NamesUnique(b)
  PROVE  NamesUnique(Managed(b, c))
PROOF
<1>1. Managed(b, c).users = b.users /\ "users" \in DOMAIN Managed(b, c)
  BY DEF Managed, NamesUnique
<1> QED
  BY <1>1 DEF NamesUnique

-----------------------------------------------------------------------------
LEMMA NamesInit == Init => NamesInv
  BY DEF Init, NamesInv, NamesUnique

LEMMA HandleKeepsNames ==
  ASSUME NamesInv, NEW c \in calls, Handle(c)
  PROVE  NamesInv'
PROOF
<1>1. CASE Serve(c) \/ ServeList(c) \/ Check(c)
  BY <1>1 DEF Serve, ServeList, Check, serverVars, NamesInv, NamesUnique
<1>2. CASE Add(c)
  BY <1>2, AddKeepsNames DEF Add, NamesInv, NamesUnique
<1>3. CASE Manage(c)
  BY <1>3, ManagedKeepsNames DEF Manage, NamesInv, NamesUnique
<1> QED
  BY <1>1, <1>2, <1>3 DEF Handle

LEMMA ServerKeepsNames ==
  ASSUME NamesInv, Server
  PROVE  NamesInv'
PROOF
<1>1. CASE Edit \/ Save \/ Lapse
  BY <1>1 DEF Edit, Save, Lapse, NamesInv, NamesUnique
<1>2. CASE Elsewhere
  BY <1>2, ManagedKeepsNames DEF Elsewhere, NamesInv, NamesUnique
<1>3. CASE \E c \in calls : Handle(c)
  BY <1>3, HandleKeepsNames
<1>4. CASE \E c \in calls : Lose(c)
  BY <1>4 DEF Lose, NamesInv, NamesUnique
<1> QED
  BY <1>1, <1>2, <1>3, <1>4 DEF Server

\* The pages change the board only through their calls.
LEMMA PagesKeepBoard ==
  ASSUME \/ \E v \in Viewers : ViewPage(v)
         \/ \E j \in Joiners : JoinPage(j) \/ BoardPage(j)
         \/ \E m \in Managers : HomePage(m)
  PROVE  UNCHANGED <<board, saved>>
PROOF
<1>1. ASSUME NEW v \in Viewers, ViewPage(v)
      PROVE  UNCHANGED <<board, saved>>
  BY <1>1 DEF ViewPage, Poll, ViewUnlock, ViewReceive, ViewOnly, serverVars
<1>2. ASSUME NEW j \in Joiners, JoinPage(j)
      PROVE  UNCHANGED <<board, saved>>
  BY <1>2 DEF JoinPage, Mount, JoinUnlock, Enter, AddMe, JoinReceive, JoinOnly, serverVars
<1>3. ASSUME NEW j \in Joiners, BoardPage(j)
      PROVE  UNCHANGED <<board, saved>>
  BY <1>3 DEF BoardPage, Dial, Seat, Drop, Reload, Back, JoinOnly, serverVars
<1>4. ASSUME NEW m \in Managers, HomePage(m)
      PROVE  UNCHANGED <<board, saved>>
  BY <1>4 DEF HomePage, Choose, ChoosePassword, ConfirmPrompt, ConfirmPassword, Confirm, Cancel, HomeReceive,
              HomeOnly
<1> QED
  BY <1>1, <1>2, <1>3, <1>4

LEMMA NamesStep ==
  ASSUME NamesInv, [Next]_vars
  PROVE  NamesInv'
PROOF
<1>1. CASE Server
  BY <1>1, ServerKeepsNames
<1>2. CASE Restart
  BY <1>2 DEF Restart, Crash, NamesInv, NamesUnique
<1>3. CASE UNCHANGED <<board, saved>>
  BY <1>3 DEF NamesInv, NamesUnique
<1>4. CASE UNCHANGED vars
  BY <1>3, <1>4 DEF vars, serverVars
<1> QED
  BY <1>1, <1>2, <1>3, <1>4, PagesKeepBoard DEF Next

-----------------------------------------------------------------------------
\* Two visitors who add the same name, each checked before the other's was
\* added, crashes and restarts included: one user has it (addUser of api.go).
THEOREM NamesStayUnique == Spec => []OneUserPerName
<1>1. Init => NamesInv
  BY NamesInit
<1>2. NamesInv /\ [Next]_vars => NamesInv'
  BY NamesStep
<1>3. NamesInv => OneUserPerName
  BY DEF NamesInv, NamesUnique, OneUserPerName
<1> QED
  BY <1>1, <1>2, <1>3, PTL DEF Spec

-----------------------------------------------------------------------------
(* Who is turned away by the board's connection is a user a crash forgot.    *)
(* The argument: every user a page or an answer on its way knows of is on    *)
(* the board or lost, because nothing but a crash takes users away.          *)

Known == board.users \cup lost

\* The fields the argument looks at; an EXCEPT on others changes nothing.
CallFields == {"by", "why", "what", "answer", "n", "live", "checked", "token", "had", "name", "next", "password"}
AnswerFields == {"kind", "user", "meta", "token", "rows", "version"}

KnownAnswer(a, known) == AnswerFields \subseteq DOMAIN a /\ a.meta.users \subseteq known

KnownCall(c, known) ==
    /\ CallFields \subseteq DOMAIN c
    /\ KnownAnswer(c.answer, known)
    /\ c.why = "add" => c.what = "add" /\ (c.answer.kind = "ok" => c.answer.user \in known)

KnownCalls(cs, known) == \A c \in cs : KnownCall(c, known)

\* A page knows users; the board's page is a user, and has a connection.
PageFields == {"page", "mount", "meta", "unlocked", "err", "user", "as", "link"}

KnownPage(p, known, gone) ==
    /\ PageFields \subseteq DOMAIN p
    /\ p.meta.users \subseteq known
    /\ p.page = "board" => {p.user, p.as} \subseteq known
    /\ p.link # "down" => p.page = "board"
    /\ p.link = "fatal" => p.as \in gone

KnownPages(ps, known, gone) == DOMAIN ps = Joiners /\ \A j \in Joiners : KnownPage(ps[j], known, gone)

\* `users` is a field of both copies of the board: [b EXCEPT !.users = ...] sets it.
KnownInv ==
    /\ "users" \in DOMAIN board /\ "users" \in DOMAIN saved
    /\ KnownCalls(calls, Known)
    /\ KnownPages(join, Known, lost)

-----------------------------------------------------------------------------
\* Calls
LEMMA WaitingKnown ==
  ASSUME NEW known
  PROVE  KnownAnswer(Waiting, known) /\ KnownAnswer(Ok, known) /\ KnownAnswer(Refused, known)
         /\ KnownAnswer(Failed, known)
         /\ Waiting.kind = "none" /\ Refused.kind = "refused" /\ Failed.kind = "failed"
  BY DEF KnownAnswer, AnswerFields, Waiting, Ok, Refused, Failed, NoMeta, Meta

LEMMA CallKnown ==
  ASSUME NEW known, NEW by, NEW why, NEW what, NEW t, why = "add" => what = "add"
  PROVE  KnownCall(Call(by, why, what, t), known)
  BY WaitingKnown DEF KnownCall, CallFields, Call

\* Some fields say nothing of users.
LEMMA OtherFields ==
  ASSUME NEW known, NEW c, KnownCall(c, known), NEW f \in CallFields \ {"why", "what", "answer"}, NEW e
  PROVE  KnownCall([c EXCEPT ![f] = e], known)
PROOF
<1> DEFINE d == [c EXCEPT ![f] = e]
<1>1. DOMAIN d = DOMAIN c /\ d.why = c.why /\ d.what = c.what /\ d.answer = c.answer
  BY DEF KnownCall, CallFields
<1> HIDE DEF d
<1> QED
  BY <1>1 DEF KnownCall

LEMMA AndKnown ==
  ASSUME NEW known, NEW cs, NEW c, KnownCalls(cs, known), KnownCall(c, known)
  PROVE  KnownCalls(And(cs, c), known)
PROOF
<1> DEFINE k == Min((1 .. MaxCalls + 1) \ {d.n : d \in {e \in cs : e.by = c.by}})
<1>1. And(cs, c) = cs \cup {[c EXCEPT !["n"] = k]}
  BY DEF And
<1>2. KnownCall([c EXCEPT !["n"] = k], known)
  <2> HIDE DEF k
  <2> QED
    BY OtherFields DEF CallFields
<1> QED
  BY <1>1, <1>2 DEF KnownCalls

LEMMA CancelledKnown ==
  ASSUME NEW known, NEW p, NEW why, KnownCalls(calls, known)
  PROVE  KnownCalls(Cancelled(p, why), known)
PROOF
<1>1. ASSUME NEW c \in calls
      PROVE  KnownCall([c EXCEPT !.live = FALSE], known)
  BY <1>1, OtherFields DEF KnownCalls, CallFields
<1> QED
  BY <1>1 DEF KnownCalls, Cancelled

LEMMA AnsweredKnown ==
  ASSUME NEW known, NEW c, KnownCall(c, known), NEW a, KnownAnswer(a, known),
         c.why = "add" /\ a.kind = "ok" => a.user \in known
  PROVE  KnownCall(Answered(c, a), known)
PROOF
<1>1. DOMAIN Answered(c, a) = DOMAIN c /\ Answered(c, a).answer = a
      /\ Answered(c, a).why = c.why /\ Answered(c, a).what = c.what
  BY DEF Answered, KnownCall, CallFields
<1> QED
  BY <1>1 DEF KnownCall

LEMMA MoreKnown ==
  ASSUME NEW known, NEW more, known \subseteq more
  PROVE  /\ \A cs : KnownCalls(cs, known) => KnownCalls(cs, more)
         /\ \A gone, all, ps : gone \subseteq all /\ KnownPages(ps, known, gone) => KnownPages(ps, more, all)
PROOF
<1>1. ASSUME NEW cs, KnownCalls(cs, known) PROVE KnownCalls(cs, more)
  BY <1>1 DEF KnownCalls, KnownCall, KnownAnswer
<1>2. ASSUME NEW gone, NEW all, NEW ps, gone \subseteq all, KnownPages(ps, known, gone)
      PROVE KnownPages(ps, more, all)
  BY <1>2 DEF KnownPages, KnownPage
<1> QED
  BY <1>1, <1>2

-----------------------------------------------------------------------------
\* The server
LEMMA ReadsKnown ==
  ASSUME NEW c
  PROVE  KnownAnswer(Reads(c), board.users)
PROOF
<1>1. KnownAnswer(GetDocument(c), board.users)
  BY WaitingKnown DEF GetDocument, KnownAnswer, AnswerFields
<1>2. KnownAnswer(GetBoard(c), board.users)
  BY WaitingKnown DEF GetBoard, Meta, KnownAnswer, AnswerFields
<1>3. KnownAnswer(ListUsers(c), board.users)
  BY WaitingKnown DEF ListUsers
<1>4. KnownAnswer(UnlockBoard(c), board.users)
  BY WaitingKnown DEF UnlockBoard, KnownAnswer, AnswerFields
<1> QED
  BY <1>1, <1>2, <1>3, <1>4 DEF Reads

LEMMA AnswerIsKnown ==
  ASSUME NEW known, NEW c, NEW a, KnownCalls(calls, known), KnownCall(c, known), KnownAnswer(a, known),
         c.why = "add" /\ a.kind = "ok" => a.user \in known, Answer(c, a)
  PROVE  KnownCalls(calls', known)
  BY AnsweredKnown DEF Answer, KnownCalls

LEMMA HadKnown ==
  ASSUME NEW known, NEW cs, NEW password, KnownCalls(cs, known)
  PROVE  KnownCalls(Had(cs, password), known)
PROOF
<1>1. ASSUME NEW c \in cs
      PROVE  KnownCall([c EXCEPT !.had = @ \cup {password}], known)
  BY <1>1, OtherFields DEF KnownCalls, CallFields
<1> QED
  BY <1>1 DEF KnownCalls, Had

LEMMA ServeKnown ==
  ASSUME KnownInv, NEW c \in calls, Serve(c) \/ ServeList(c) \/ Check(c)
  PROVE  KnownCalls(calls', Known)
PROOF
<1>0. KnownCall(c, Known) /\ KnownCalls(calls, Known)
  BY DEF KnownInv, KnownCalls
<1>1. CASE Serve(c)
  <2>1. KnownAnswer(Reads(c), Known)
    BY ReadsKnown DEF KnownAnswer, Known
  <2>2. c.why # "add"
    BY <1>0, <1>1 DEF Serve, KnownCall, Changes
  <2>3. Answer(c, Reads(c))
    BY <1>1 DEF Serve
  <2> QED
    BY <1>0, <2>1, <2>2, <2>3, AnswerIsKnown
<1>2. CASE ServeList(c)
  <2>1. PICK a, k, rows :
           /\ calls' = (calls \ {c}) \cup {[c EXCEPT !.read = k, !.answer = [a EXCEPT !.rows = rows]]}
           /\ a \in {Waiting, Ok} /\ c.what = "list"
    BY <1>2 DEF ServeList
  <2> DEFINE b == [a EXCEPT !.rows = rows]
             d == [c EXCEPT !.read = k, !.answer = b]
  <2>2. KnownAnswer(b, Known)
    BY <2>1, WaitingKnown DEF KnownAnswer, AnswerFields
  <2>3. DOMAIN d = DOMAIN c /\ d.why = c.why /\ d.what = c.what /\ d.answer = b
    <3> HIDE DEF b
    <3> QED
      BY <1>0 DEF KnownCall, CallFields
  <2>4. KnownCall(d, Known)
    <3> HIDE DEF d, b
    <3> QED
      BY <1>0, <2>1, <2>2, <2>3 DEF KnownCall
  <2> QED
    BY <1>0, <2>1, <2>4 DEF KnownCalls
<1>3. CASE Check(c)
  <2>1. CASE calls' = (calls \ {c}) \cup {[c EXCEPT !.checked = TRUE]}
    <3>1. KnownCall([c EXCEPT !.checked = TRUE], Known)
      BY <1>0, OtherFields DEF CallFields
    <3> QED
      BY <1>0, <2>1, <3>1 DEF KnownCalls
  <2>2. CASE Answer(c, Refused)
    <3>1. KnownAnswer(Refused, Known) /\ Refused.kind # "ok"
      BY WaitingKnown
    <3> QED
      BY <1>0, <2>2, <3>1, AnswerIsKnown
  <2> QED
    BY <1>3, <2>1, <2>2 DEF Check
<1> QED
  BY <1>1, <1>2, <1>3

\* What a step of the server keeps for the pages.
ServerKeeps ==
    /\ Known \subseteq Known' /\ lost \subseteq lost'
    /\ "users" \in DOMAIN board' /\ "users" \in DOMAIN saved'
    /\ KnownCalls(calls', Known')

LEMMA ManagedUsers ==
  ASSUME NEW b, NEW c, "users" \in DOMAIN b
  PROVE  Managed(b, c).users = b.users /\ "users" \in DOMAIN Managed(b, c)
  BY DEF Managed

LEMMA HandleKnown ==
  ASSUME KnownInv, NEW c \in calls, Handle(c)
  PROVE  ServerKeeps
PROOF
<1>0. KnownCall(c, Known) /\ KnownCalls(calls, Known)
  BY DEF KnownInv, KnownCalls
<1>1. CASE Serve(c) \/ ServeList(c) \/ Check(c)
  <2>1. UNCHANGED serverVars
    BY <1>1 DEF Serve, ServeList, Check
  <2>2. Known' = Known
    BY <2>1 DEF serverVars, Known
  <2> QED
    BY <1>1, <2>1, <2>2, ServeKnown DEF ServerKeeps, KnownInv, serverVars
<1>2. CASE Add(c)
  <2> DEFINE u == AddUser(board.users, c.name, NewUserId)
             a == [Ok EXCEPT !.user = u]
  <2>1. /\ board' = [board EXCEPT !.users = @ \cup {u}]
        /\ UNCHANGED <<saved, lost>> /\ Answer(c, a)
    BY <1>2 DEF Add
  <2>2. "users" \in DOMAIN board' /\ board'.users = board.users \cup {u}
    BY <2>1 DEF KnownInv
  <2>3. Known \subseteq Known' /\ u \in Known'
    BY <2>1, <2>2 DEF Known
  <2>4. KnownAnswer(a, Known') /\ a.user \in Known'
    <3>1. KnownAnswer(Ok, Known')
      BY WaitingKnown
    <3> HIDE DEF u
    <3> QED
      BY <2>3, <3>1 DEF KnownAnswer, AnswerFields
  <2>5. KnownCalls(calls, Known')
    BY <1>0, <2>3, MoreKnown
  <2>6. KnownCall(c, Known')
    BY <2>5 DEF KnownCalls
  <2>7. KnownCalls(calls', Known')
    <3> HIDE DEF a
    <3> QED
      BY <2>1, <2>4, <2>5, <2>6, AnswerIsKnown
  <2> QED
    BY <2>1, <2>2, <2>3, <2>7 DEF ServerKeeps, KnownInv
<1>3. CASE Manage(c)
  <2> DEFINE b == Managed(board, c)
  <2>1. /\ board' = b /\ saved' = b /\ UNCHANGED lost /\ c.what # "add"
        /\ calls' = Had(calls \ {c}, b.password) \cup {Answered(c, Ok)}
    BY <1>3 DEF Manage
  <2>2. b.users = board.users /\ "users" \in DOMAIN b
    BY ManagedUsers DEF KnownInv
  <2>3. Known' = Known
    BY <2>1, <2>2 DEF Known
  <2>4. KnownCalls(Had(calls \ {c}, b.password), Known)
    BY <1>0, HadKnown DEF KnownCalls
  <2>5. KnownCall(Answered(c, Ok), Known)
    BY <1>0, <2>1, WaitingKnown, AnsweredKnown DEF KnownCall
  <2>6. KnownCalls(calls', Known)
    BY <2>1, <2>4, <2>5 DEF KnownCalls
  <2> QED
    BY <2>1, <2>2, <2>3, <2>6 DEF ServerKeeps
<1> QED
  BY <1>1, <1>2, <1>3 DEF Handle

LEMMA OldKnown ==
  ASSUME NEW known, NEW c, KnownCall(c, known)
  PROVE  KnownCall(OldToken(c), known)
PROOF
<1> DEFINE a == [c.answer EXCEPT !.token = Old(@)]
           d == [c EXCEPT !.token = Old(@)]
<1>1. KnownAnswer(a, known) /\ a.kind = c.answer.kind /\ a.user = c.answer.user
  BY DEF KnownCall, KnownAnswer, AnswerFields
<1>2. KnownCall(d, known) /\ d.answer = c.answer /\ d.why = c.why /\ d.what = c.what
  BY OtherFields DEF CallFields, KnownCall
<1>3. OldToken(c) = [d EXCEPT !.answer = a]
  BY <1>2 DEF OldToken
<1>4. /\ DOMAIN OldToken(c) = DOMAIN d /\ OldToken(c).answer = a
      /\ OldToken(c).why = d.why /\ OldToken(c).what = d.what
  <2> HIDE DEF a, d
  <2> QED
    BY <1>2, <1>3 DEF KnownCall, CallFields
<1> QED
  <2> HIDE DEF a, d
  <2> QED
    BY <1>1, <1>2, <1>4 DEF KnownCall

LEMMA MeanwhileKnown ==
  ASSUME KnownInv, Edit \/ Save \/ Lapse \/ Elsewhere \/ Crash \/ \E c \in calls : Lose(c)
  PROVE  ServerKeeps
PROOF
<1>0. KnownCalls(calls, Known) /\ \A c \in calls : KnownCall(c, Known)
  BY DEF KnownInv, KnownCalls
<1>1. CASE Edit \/ Save
  <2>1. UNCHANGED <<board, lost, calls>> /\ "users" \in DOMAIN saved'
    BY <1>1 DEF Edit, Save, KnownInv
  <2>2. Known' = Known
    BY <2>1 DEF Known
  <2> QED
    BY <1>0, <2>1, <2>2 DEF ServerKeeps, KnownInv
<1>2. CASE Lapse
  <2>1. UNCHANGED <<board, saved, lost>> /\ calls' = {OldToken(c) : c \in calls}
    BY <1>2 DEF Lapse
  <2>2. Known' = Known
    BY <2>1 DEF Known
  <2>3. KnownCalls(calls', Known)
    BY <1>0, <2>1, OldKnown DEF KnownCalls
  <2> QED
    BY <2>1, <2>2, <2>3 DEF ServerKeeps, KnownInv
<1>3. CASE Elsewhere
  <2>1. PICK c, password : /\ board' = Managed(board, c) /\ saved' = board' /\ UNCHANGED lost
                           /\ calls' = Had(calls, password)
    BY <1>3 DEF Elsewhere
  <2>2. board'.users = board.users /\ "users" \in DOMAIN board'
    BY <2>1, ManagedUsers DEF KnownInv
  <2>3. Known' = Known
    BY <2>1, <2>2 DEF Known
  <2>4. KnownCalls(calls', Known)
    BY <1>0, <2>1, HadKnown
  <2> QED
    BY <2>1, <2>2, <2>3, <2>4 DEF ServerKeeps
<1>4. CASE Crash
  <2>1. /\ board' = saved /\ UNCHANGED saved /\ lost' = lost \cup (board.users \ saved.users)
        /\ calls' = {IF c.answer.kind = "none" THEN Answered(c, Failed) ELSE OldToken(c) : c \in calls}
    BY <1>4 DEF Crash
  <2>2. Known \subseteq Known' /\ lost \subseteq lost'
    BY <2>1 DEF Known
  <2>3. ASSUME NEW c \in calls
        PROVE  KnownCall(Answered(c, Failed), Known) /\ KnownCall(OldToken(c), Known)
    BY <1>0, OldKnown, AnsweredKnown, WaitingKnown
  <2>4. KnownCalls(calls', Known)
    BY <2>1, <2>3 DEF KnownCalls
  <2>5. KnownCalls(calls', Known')
    BY <2>2, <2>4, MoreKnown
  <2> QED
    BY <2>1, <2>2, <2>5 DEF ServerKeeps, KnownInv
<1>5. CASE \E c \in calls : Lose(c)
  <2>1. PICK c \in calls : UNCHANGED <<board, saved, lost>> /\ Answer(c, Failed)
    BY <1>5 DEF Lose
  <2>2. Known' = Known
    BY <2>1 DEF Known
  <2>3. KnownCalls(calls', Known)
    BY <1>0, <2>1, WaitingKnown, AnswerIsKnown
  <2> QED
    BY <2>1, <2>2, <2>3 DEF ServerKeeps, KnownInv
<1> QED
  BY <1>1, <1>2, <1>3, <1>4, <1>5

-----------------------------------------------------------------------------
\* The pages
LEMMA DoneKnown ==
  ASSUME NEW known, NEW c, NEW d, KnownCalls(calls, known)
  PROVE  /\ Done(c) => KnownCalls(calls', known)
         /\ KnownCall(d, known) /\ DoneThen(c, d) => KnownCalls(calls', known)
PROOF
<1>1. KnownCalls(calls \ {c}, known)
  BY DEF KnownCalls
<1> QED
  BY <1>1, AndKnown DEF Done, DoneThen

LEMMA UnlockKnown ==
  ASSUME NEW known, NEW p, NEW password, KnownCalls(calls, known), Unlock(p, password)
  PROVE  KnownCalls(calls', known)
PROOF
<1>1. KnownCall(Call(p, "unlock", "unlock", NoToken), known)
  BY CallKnown
<1>2. KnownCall([Call(p, "unlock", "unlock", NoToken) EXCEPT !.password = password], known)
  BY <1>1, OtherFields DEF CallFields
<1> QED
  BY <1>2, AndKnown DEF Unlock

LEMMA ViewKnown ==
  ASSUME NEW known, KnownCalls(calls, known), NEW v \in Viewers, ViewPage(v)
  PROVE  KnownCalls(calls', known) /\ UNCHANGED <<board, saved, lost, join>>
PROOF
<1>1. UNCHANGED <<board, saved, lost, join>>
  BY DEF ViewPage, Poll, ViewUnlock, ViewReceive, ViewOnly, serverVars
<1>2. ASSUME NEW t PROVE KnownCall(Call(v, "fetch", "document", t), known)
  BY CallKnown
<1>3. KnownCall(Call(v, "name", "board", NoToken), known)
  BY CallKnown
<1>4. KnownCalls(Cancelled(v, {"fetch"}), known)
  BY CancelledKnown
<1>5. CASE Poll(v)
  BY <1>1, <1>2, <1>4, <1>5, AndKnown DEF Poll, Fetch
<1>6. CASE \E password \in Passwords : ViewUnlock(v, password)
  BY <1>1, <1>6, UnlockKnown DEF ViewUnlock
<1>7. ASSUME NEW c \in calls, ViewReceive(v, c)
      PROVE  KnownCalls(calls', known)
  <2>1. CASE Fetched(v, c)
    BY <1>3, <2>1, DoneKnown DEF Fetched
  <2>2. CASE Named(v, c)
    BY <2>2, DoneKnown DEF Named
  <2>3. CASE ViewUnlocked(v, c)
    <3>1. KnownCalls(Cancelled(v, {"fetch"}) \ {c}, known)
      BY <1>4 DEF KnownCalls
    <3> QED
      BY <1>2, <2>3, <3>1, DoneKnown, AndKnown DEF ViewUnlocked, Fetch
  <2> QED
    BY <1>7, <2>1, <2>2, <2>3 DEF ViewReceive
<1> QED
  BY <1>1, <1>5, <1>6, <1>7 DEF ViewPage

LEMMA ManagementKnown ==
  ASSUME NEW known, NEW m, NEW what, NEW password, NEW next, NEW why, why # "add"
  PROVE  KnownCall(Management(m, what, password, next, why), known)
PROOF
<1>1. KnownCall(Call(m, why, what, NoToken), known)
  BY CallKnown
<1>2. KnownCall([Call(m, why, what, NoToken) EXCEPT !.password = password], known)
  BY <1>1, OtherFields DEF CallFields
<1>3. KnownCall([[Call(m, why, what, NoToken) EXCEPT !.password = password] EXCEPT !.next = next], known)
  BY <1>2, OtherFields DEF CallFields
<1> DEFINE c == [[Call(m, why, what, NoToken) EXCEPT !.password = password] EXCEPT !.next = next]
<1>4. KnownCall([c EXCEPT !.had = {board.password}], known)
  <2> HIDE DEF c
  <2> QED
    BY <1>3, OtherFields DEF CallFields, c
<1> QED
  BY <1>4 DEF Management

LEMMA HomeKnown ==
  ASSUME NEW known, KnownCalls(calls, known), NEW m \in Managers, HomePage(m)
  PROVE  KnownCalls(calls', known) /\ UNCHANGED <<board, saved, lost, join>>
PROOF
<1>1. UNCHANGED <<board, saved, lost, join>>
  BY DEF HomePage, Choose, ChoosePassword, ConfirmPrompt, ConfirmPassword, Confirm, Cancel, HomeReceive, HomeOnly
<1>2. CASE \E row \in home[m].rows : Choose(m, row)
  <2>1. ASSUME NEW what PROVE KnownCall(Management(m, what, NoPassword, NoPassword, "direct"), known)
    BY ManagementKnown
  <2> QED
    BY <1>1, <1>2, <2>1, AndKnown DEF Choose
<1>3. CASE \E row \in home[m].rows : ChoosePassword(m, row)
  BY <1>1, <1>3 DEF ChoosePassword
<1>4. ASSUME NEW password, NEW next, Confirm(m, password, next), home[m].dialog.kind # "add"
      PROVE  KnownCalls(calls', known)
  BY <1>4, ManagementKnown, AndKnown DEF Confirm
<1>5. CASE \E password \in Passwords \cup {NoPassword} : ConfirmPrompt(m, password)
  BY <1>1, <1>4, <1>5 DEF ConfirmPrompt
<1>6. CASE \E current, next \in Passwords \cup {NoPassword} : ConfirmPassword(m, current, next)
  BY <1>1, <1>4, <1>6 DEF ConfirmPassword
<1>7. CASE Cancel(m)
  BY <1>1, <1>7, CancelledKnown DEF Cancel
<1>8. ASSUME NEW c \in calls, HomeReceive(m, c)
      PROVE  KnownCalls(calls', known)
  <2>1. CASE HomeFailed(m, c)
    BY <2>1, DoneKnown DEF HomeFailed
  <2>2. CASE HomeOk(m, c)
    <3> DEFINE again(why) == [Load(m) EXCEPT !.why = why, !.live = c.live]
    <3>1. ASSUME NEW why \in {"close", "load", "reload"} PROVE KnownCall(again(why), known)
      <4>1. KnownCall(Load(m), known)
        BY CallKnown DEF Load
      <4>2. /\ DOMAIN again(why) = DOMAIN Load(m) /\ again(why).answer = Load(m).answer
            /\ again(why).why = why
        BY <4>1 DEF KnownCall, CallFields
      <4> HIDE DEF again
      <4> QED
        BY <4>1, <4>2 DEF KnownCall
    <3>2. Done(c) \/ \E why \in {"close", "load", "reload"} : DoneThen(c, again(why))
      BY <2>2 DEF HomeOk
    <3> HIDE DEF again
    <3> QED
      BY <3>1, <3>2, DoneKnown
  <2> QED
    BY <1>8, <2>1, <2>2 DEF HomeReceive
<1> QED
  BY <1>1, <1>2, <1>3, <1>5, <1>6, <1>7, <1>8 DEF HomePage

LEMMA PageSet ==
  ASSUME KnownPages(join, Known, lost), NEW j \in Joiners, NEW p, KnownPage(p, Known, lost), SetJoin(j, p)
  PROVE  KnownPages(join', Known, lost)
  BY DEF KnownPages, SetJoin

\* A page that is told of a board, or only other things.
LEMMA PageTold ==
  ASSUME KnownPages(join, Known, lost), NEW j \in Joiners
  PROVE  /\ KnownPage(join[j], Known, lost)
         /\ \A e : KnownPage([join[j] EXCEPT !.mount = e], Known, lost)
         /\ \A e : KnownPage([join[j] EXCEPT !.err = e], Known, lost)
         /\ \A m, e : m.users \subseteq Known =>
               KnownPage([join[j] EXCEPT !.meta = m, !.unlocked = e], Known, lost)
PROOF
<1>1. KnownPage(join[j], Known, lost)
  BY DEF KnownPages
<1> DEFINE r == join[j]
<1>2. ASSUME NEW e PROVE KnownPage([r EXCEPT !.mount = e], Known, lost) /\ KnownPage([r EXCEPT !.err = e], Known, lost)
  <2> HIDE DEF r
  <2> QED
    BY <1>1 DEF KnownPage, PageFields, r
<1>3. ASSUME NEW m, NEW e, m.users \subseteq Known
      PROVE  KnownPage([r EXCEPT !.meta = m, !.unlocked = e], Known, lost)
  <2> HIDE DEF r
  <2> QED
    BY <1>1, <1>3 DEF KnownPage, PageFields, r
<1> QED
  BY <1>1, <1>2, <1>3

LEMMA NewPageKnown ==
  ASSUME NEW known, NEW gone, NEW page, NEW u
  PROVE  /\ page # "board" => KnownPage([NewPage(page) EXCEPT !.user = u], known, gone)
         /\ u \in known => KnownPage([NewPage(page) EXCEPT !.user = u, !.as = u], known, gone)
         /\ page # "board" => KnownPage(NewPage(page), known, gone)
  BY DEF KnownPage, PageFields, NewPage, NoMeta, Meta

LEMMA EnteredKnown ==
  ASSUME KnownPages(join, Known, lost), NEW j \in Joiners, NEW u \in Known, Entered(j, u)
  PROVE  KnownPages(join', Known, lost)
PROOF
<1>1. KnownPage([NewPage("board") EXCEPT !.user = u, !.as = u], Known, lost)
  BY NewPageKnown
<1>2. KnownPage([join[j] EXCEPT !.user = u], Known, lost)
  <2>1. KnownPage(join[j], Known, lost)
    BY DEF KnownPages
  <2> DEFINE r == join[j]
  <2> HIDE DEF r
  <2> QED
    BY <2>1 DEF KnownPage, PageFields, r
<1> QED
  BY <1>1, <1>2, PageSet DEF Entered

LEMMA JoinReceiveKnown ==
  ASSUME KnownInv, NEW j \in Joiners, NEW c \in calls, JoinReceive(j, c)
  PROVE  KnownCalls(calls', Known) /\ KnownPages(join', Known, lost)
PROOF
<1>0. KnownCalls(calls, Known) /\ KnownCall(c, Known) /\ KnownPages(join, Known, lost)
  BY DEF KnownInv, KnownCalls
<1>1. c.answer.meta.users \subseteq Known
  BY <1>0 DEF KnownCall, KnownAnswer
<1>2. CASE Mounted(j, c)
  <2>1. KnownCall(Call(j, "check", "users", token[j]), Known)
    BY CallKnown
  <2>2. KnownCalls(calls', Known)
    BY <1>0, <1>2, <2>1, DoneKnown DEF Mounted, MountedIf
  <2>3. KnownPages(join', Known, lost)
    BY <1>0, <1>1, <1>2, PageTold, PageSet DEF Mounted, MountedIf
  <2> QED
    BY <2>2, <2>3
<1>3. CASE Checked(j, c)
  <2>1. KnownCall(Call(j, "full", "board", token[j]), Known)
    BY CallKnown
  <2>2. KnownCall([Call(j, "full", "board", token[j]) EXCEPT !.live = c.live], Known)
    BY <2>1, OtherFields DEF CallFields
  <2>3. KnownCalls(calls', Known)
    BY <1>0, <1>3, <2>2, DoneKnown DEF Checked, Distrust
  <2>4. UNCHANGED join
    BY <1>3 DEF Checked, Distrust
  <2> QED
    BY <1>0, <2>3, <2>4
<1>4. CASE Full(j, c)
  <2>1. KnownCalls(calls', Known)
    BY <1>0, <1>4, DoneKnown DEF Full, Distrust
  <2>2. KnownPages(join', Known, lost)
    BY <1>0, <1>1, <1>4, PageTold, PageSet DEF Full, Distrust
  <2> QED
    BY <2>1, <2>2
<1>5. CASE JoinUnlocked(j, c)
  <2>1. KnownCall(Call(j, "reveal", "board", c.answer.token), Known)
    BY CallKnown
  <2>2. KnownCalls(calls', Known)
    BY <1>0, <1>5, <2>1, DoneKnown DEF JoinUnlocked
  <2>3. KnownPages(join', Known, lost)
    BY <1>0, <1>5, PageTold, PageSet DEF JoinUnlocked
  <2> QED
    BY <2>2, <2>3
<1>6. CASE Revealed(j, c)
  <2>1. KnownCalls(calls', Known)
    BY <1>0, <1>6, DoneKnown DEF Revealed
  <2>2. KnownPages(join', Known, lost)
    BY <1>0, <1>1, <1>6, PageTold, PageSet DEF Revealed
  <2> QED
    BY <2>1, <2>2
<1>7. CASE Added(j, c)
  <2>1. CASE c.answer.kind = "ok"
    <3>1. c.answer.user \in Known
      BY <1>0, <1>7, <2>1 DEF Added, KnownCall
    <3>2. KnownCalls(calls', Known)
      BY <1>0, <1>7, <2>1, CancelledKnown DEF Added, KnownCalls
    <3>3. KnownPages(join', Known, lost)
      BY <1>0, <1>7, <2>1, <3>1, EnteredKnown DEF Added
    <3> QED
      BY <3>2, <3>3
  <2>2. CASE c.answer.kind # "ok"
    <3>1. KnownCalls(calls', Known)
      BY <1>0, <1>7, <2>2, DoneKnown DEF Added
    <3>2. KnownPages(join', Known, lost)
      BY <1>0, <1>7, <2>2, PageTold, PageSet DEF Added
    <3> QED
      BY <3>1, <3>2
  <2> QED
    BY <2>1, <2>2
<1> QED
  BY <1>2, <1>3, <1>4, <1>5, <1>6, <1>7 DEF JoinReceive

LEMMA JoinKnown ==
  ASSUME KnownInv, NEW j \in Joiners, JoinPage(j)
  PROVE  KnownCalls(calls', Known) /\ KnownPages(join', Known, lost) /\ UNCHANGED <<board, saved, lost>>
PROOF
<1>0. KnownCalls(calls, Known) /\ KnownPages(join, Known, lost)
  BY DEF KnownInv
<1>1. UNCHANGED <<board, saved, lost>>
  BY DEF JoinPage, Mount, JoinUnlock, Enter, AddMe, JoinReceive, JoinOnly, serverVars
<1>2. CASE Mount(j)
  <2>1. KnownCall(Call(j, "mount", "board", token[j]), Known)
    BY CallKnown
  <2> QED
    BY <1>0, <1>1, <1>2, <2>1, AndKnown, PageTold, PageSet DEF Mount
<1>3. CASE \E password \in Passwords : JoinUnlock(j, password)
  BY <1>0, <1>1, <1>3, UnlockKnown, PageTold, PageSet DEF JoinUnlock
<1>4. CASE \E u \in join[j].meta.users : Enter(j, u)
  <2>1. join[j].meta.users \subseteq Known
    BY <1>0 DEF KnownPages, KnownPage
  <2> QED
    BY <1>0, <1>1, <1>4, <2>1, CancelledKnown, EnteredKnown DEF Enter
<1>5. CASE \E name \in Names : AddMe(j, name)
  <2>1. KnownCall(Call(j, "add", "add", token[j]), Known)
    BY CallKnown
  <2>2. ASSUME NEW name PROVE KnownCall([Call(j, "add", "add", token[j]) EXCEPT !.name = name], Known)
    BY <2>1, OtherFields DEF CallFields
  <2> QED
    BY <1>0, <1>1, <1>5, <2>2, AndKnown, PageTold, PageSet DEF AddMe
<1>6. CASE \E c \in calls : JoinReceive(j, c)
  BY <1>1, <1>6, JoinReceiveKnown
<1> QED
  BY <1>2, <1>3, <1>4, <1>5, <1>6 DEF JoinPage

LEMMA BoardPageKnown ==
  ASSUME KnownInv, NEW j \in Joiners, BoardPage(j)
  PROVE  KnownPages(join', Known, lost) /\ UNCHANGED <<calls, board, saved, lost>>
PROOF
<1>0. KnownPages(join, Known, lost) /\ KnownPage(join[j], Known, lost)
  BY DEF KnownInv, KnownPages
<1>1. UNCHANGED <<calls, board, saved, lost>>
  BY DEF BoardPage, Dial, Seat, Drop, Reload, Back, JoinOnly, serverVars
<1> DEFINE r == join[j]
<1>2. ASSUME NEW link, link # "fatal", r.page = "board"
      PROVE  KnownPage([r EXCEPT !.link = link], Known, lost)
  <2> HIDE DEF r
  <2> QED
    BY <1>0, <1>2 DEF KnownPage, PageFields, r
<1>3. CASE Dial(j)
  BY <1>0, <1>1, <1>2, <1>3, PageSet DEF Dial
<1>4. CASE Seat(j)
  <2>1. r.page = "board" /\ r.as \in Known
    BY <1>0, <1>4 DEF Seat, KnownPage
  <2>2. r.as \notin board.users => KnownPage([r EXCEPT !.link = "fatal"], Known, lost)
    <3>1. r.as \notin board.users => r.as \in lost
      BY <2>1 DEF Known
    <3> HIDE DEF r
    <3> QED
      BY <1>0, <2>1, <3>1 DEF KnownPage, PageFields, r
  <2> QED
    BY <1>0, <1>1, <1>2, <1>4, <2>1, <2>2, PageSet DEF Seat
<1>5. CASE Drop(j)
  <2>1. r.page = "board"
    BY <1>0, <1>5 DEF Drop, KnownPage
  <2> QED
    BY <1>0, <1>1, <1>2, <1>5, <2>1, PageSet DEF Drop
<1>6. CASE Back(j)
  BY <1>0, <1>1, <1>6, NewPageKnown, PageSet DEF Back, FreshPage
<1>7. CASE Reload(j)
  <2>1. KnownPage(FreshPage(j), Known, lost)
    BY NewPageKnown DEF FreshPage
  <2>2. r.page = "board" => KnownPage([r EXCEPT !.as = r.user, !.link = "down"], Known, lost)
    <3> HIDE DEF r
    <3> QED
      BY <1>0 DEF KnownPage, PageFields, r
  <2> QED
    BY <1>0, <1>1, <1>7, <2>1, <2>2, PageSet DEF Reload
<1> QED
  BY <1>3, <1>4, <1>5, <1>6, <1>7 DEF BoardPage

LEMMA RestartKnown ==
  ASSUME KnownInv, Restart
  PROVE  KnownInv'
PROOF
<1>1. ServerKeeps
  BY MeanwhileKnown DEF Restart
<1>2. KnownPages(join, Known', lost')
  BY <1>1, MoreKnown DEF ServerKeeps, KnownInv
<1>3. ASSUME NEW j \in Joiners
      PROVE  KnownPage(join'[j], Known', lost')
  <2> DEFINE r == join[j]
  <2>1. KnownPage(r, Known', lost')
    BY <1>2 DEF KnownPages
  <2>2. join'[j] = [r EXCEPT !.link = IF @ \in {"accepted", "up"} THEN "down" ELSE @]
    BY DEF Restart
  <2> HIDE DEF r
  <2> QED
    BY <2>1, <2>2 DEF KnownPage, PageFields
<1>4. DOMAIN join' = Joiners
  BY DEF Restart
<1> QED
  BY <1>1, <1>3, <1>4 DEF ServerKeeps, KnownInv, KnownPages

LEMMA KnownInit == Init => KnownInv
PROOF
<1> SUFFICES ASSUME Init PROVE KnownInv
  OBVIOUS
<1>1. "users" \in DOMAIN board /\ "users" \in DOMAIN saved
  BY DEF Init
<1>2. ASSUME NEW p, NEW why, NEW what, why # "add"
      PROVE  KnownCall([Call(p, why, what, NoToken) EXCEPT !.n = 1], Known)
  <2>1. KnownCall(Call(p, why, what, NoToken), Known)
    BY <1>2, CallKnown
  <2> QED
    BY <2>1, OtherFields DEF CallFields
<1>3. KnownCalls(calls, Known)
  BY <1>2 DEF Init, KnownCalls
<1>4. PICK s : join = [j \in Joiners |-> NewPage(IF j \in s.tabs THEN "join" ELSE "none")]
  BY DEF Init
<1>5. KnownPages(join, Known, lost)
  BY <1>4, NewPageKnown DEF KnownPages
<1> QED
  BY <1>1, <1>3, <1>5 DEF KnownInv

LEMMA KnownStep ==
  ASSUME KnownInv, [Next]_vars
  PROVE  KnownInv'
PROOF
<1>1. CASE Server
  <2>1. ServerKeeps
    BY <1>1, HandleKnown, MeanwhileKnown DEF Server
  <2>2. UNCHANGED join
    BY <1>1 DEF Server
  <2> QED
    BY <2>1, <2>2, MoreKnown DEF ServerKeeps, KnownInv
<1>2. CASE Restart
  BY <1>2, RestartKnown
<1>3. CASE /\ KnownCalls(calls', Known) /\ KnownPages(join', Known, lost)
           /\ UNCHANGED <<board, saved, lost>>
  BY <1>3 DEF KnownInv, Known
<1>4. CASE UNCHANGED vars
  BY <1>4 DEF vars, serverVars, KnownInv, Known
<1>5. KnownCalls(calls, Known) /\ KnownPages(join, Known, lost)
  BY DEF KnownInv
<1>6. ASSUME NEW v \in Viewers, ViewPage(v) PROVE KnownInv'
  BY <1>3, <1>5, <1>6, ViewKnown
<1>7. ASSUME NEW j \in Joiners, JoinPage(j) \/ BoardPage(j) PROVE KnownInv'
  BY <1>3, <1>5, <1>7, JoinKnown, BoardPageKnown
<1>8. ASSUME NEW m \in Managers, HomePage(m) PROVE KnownInv'
  BY <1>3, <1>5, <1>8, HomeKnown
<1> QED
  BY <1>1, <1>2, <1>4, <1>6, <1>7, <1>8 DEF Next

-----------------------------------------------------------------------------
\* Whatever is archived, locked, answered late or lost on the way: wsBoard's Join
\* refuses a visitor of the board's page only if the visitor's user was forgotten
\* by a crash that came before the user was saved.
THEOREM OnlyLostTurnedAway == Spec => []TurnedAwayIfLost
<1>1. Init => KnownInv
  BY KnownInit
<1>2. KnownInv /\ [Next]_vars => KnownInv'
  BY KnownStep
<1>3. KnownInv => TurnedAwayIfLost
  BY DEF KnownInv, KnownPages, KnownPage, TurnedAwayIfLost
<1> QED
  BY <1>1, <1>2, <1>3, PTL DEF Spec

-----------------------------------------------------------------------------
(* Who manages the board knew a password of it, and what a viewer sees never  *)
(* goes back.  Both are about a call between its steps: it is checked against *)
(* the board there is, carried out on the board there is later, and its       *)
(* answer received later still.                                               *)

Managing == Changes \ {"add"}

\* A call that manages the board and is not answered: it shows no token, and the
\* history remembers the password there is.  What was checked was allowed by one
\* of those it remembers.  An answered poll holds a version the viewer has not
\* gone beyond.
AskCall(c, password, top, views) ==
    /\ CallFields \subseteq DOMAIN c /\ AnswerFields \subseteq DOMAIN c.answer
    /\ c.what \in Managing /\ c.answer.kind = "none" => c.token # Good /\ password \in c.had
    /\ c.checked => c.what \in Changes
    /\ c.checked /\ c.what # "add" => c.had \cap {c.password, NoPassword} # {}
    /\ c.why = "fetch" => c.what = "document"
    /\ c.why = "fetch" /\ c.answer.kind = "ok" =>
          /\ c.answer.version \in 0 .. top
          /\ c.by \in Viewers => views[c.by].doc <= c.answer.version

AskCalls(cs, password, top, views) == \A c \in cs : AskCall(c, password, top, views)

\* Of a viewer's polls the last one only counts.
OneFetch(cs) == \A c, d \in cs : c.why = "fetch" /\ d.why = "fetch" /\ c.by = d.by => c = d

BoardFields == {"archived", "password", "users"}

ViewsUpTo(views, top) ==
    /\ DOMAIN views = Viewers
    /\ \A v \in Viewers : "doc" \in DOMAIN views[v] /\ views[v].doc \in 0 .. top

AskInv ==
    /\ BoardFields \subseteq DOMAIN board /\ BoardFields \subseteq DOMAIN saved
    /\ left \in [Events -> Nat]
    /\ version \in Nat
    /\ ViewsUpTo(view, version)
    /\ AskCalls(calls, board.password, version, view)
    /\ OneFetch(calls)

-----------------------------------------------------------------------------
\* A call that asks for no change, or is answered, and is no poll.
LEMMA PlainAsk ==
  ASSUME NEW password, NEW top, NEW views, NEW c,
         CallFields \subseteq DOMAIN c, AnswerFields \subseteq DOMAIN c.answer, ~c.checked,
         c.what \notin Managing \/ c.answer.kind # "none", c.why # "fetch"
  PROVE  AskCall(c, password, top, views)
  BY DEF AskCall

\* A new call of a page.
LEMMA CallAsk ==
  ASSUME NEW password, NEW top, NEW views, NEW by, NEW why, NEW what, NEW t,
         what \notin Managing, why = "fetch" => what = "document"
  PROVE  /\ AskCall(Call(by, why, what, t), password, top, views)
         /\ Call(by, why, what, t).why = why /\ Call(by, why, what, t).by = by
PROOF
<1> DEFINE c == Call(by, why, what, t)
<1>1. /\ CallFields \subseteq DOMAIN c /\ c.answer = Waiting /\ ~c.checked
      /\ c.what = what /\ c.why = why /\ c.by = by
  BY DEF Call, CallFields
<1>2. AnswerFields \subseteq DOMAIN Waiting /\ Waiting.kind = "none"
  BY DEF Waiting, AnswerFields
<1> HIDE DEF c
<1>3. AskCall(c, password, top, views)
  BY <1>1, <1>2 DEF AskCall
<1> QED
  BY <1>1, <1>3 DEF c

\* Some fields say nothing of it.
LEMMA AskOther ==
  ASSUME NEW password, NEW top, NEW views, NEW c, AskCall(c, password, top, views),
         NEW f \in {"n", "live", "name", "next"}, NEW e
  PROVE  /\ AskCall([c EXCEPT ![f] = e], password, top, views)
         /\ [c EXCEPT ![f] = e].why = c.why /\ [c EXCEPT ![f] = e].by = c.by
PROOF
<1> DEFINE d == [c EXCEPT ![f] = e]
<1>1. /\ DOMAIN d = DOMAIN c /\ d.by = c.by /\ d.why = c.why /\ d.what = c.what
      /\ d.answer = c.answer /\ d.checked = c.checked /\ d.token = c.token
      /\ d.had = c.had /\ d.password = c.password
  BY DEF AskCall, CallFields
<1> HIDE DEF d
<1>2. AskCall(d, password, top, views)
  BY <1>1 DEF AskCall
<1> QED
  BY <1>1, <1>2 DEF d

LEMMA AndAsk ==
  ASSUME NEW password, NEW top, NEW views, NEW cs, NEW c,
         AskCalls(cs, password, top, views), AskCall(c, password, top, views)
  PROVE  /\ AskCalls(And(cs, c), password, top, views)
         /\ OneFetch(cs) /\ (c.why = "fetch" => \A d \in cs : ~(d.why = "fetch" /\ d.by = c.by))
               => OneFetch(And(cs, c))
PROOF
<1> DEFINE k == Min((1 .. MaxCalls + 1) \ {d.n : d \in {e \in cs : e.by = c.by}})
           d == [c EXCEPT !["n"] = k]
<1>1. And(cs, c) = cs \cup {d}
  BY DEF And
<1>2. AskCall(d, password, top, views) /\ d.why = c.why /\ d.by = c.by
  <2> HIDE DEF k
  <2> QED
    BY AskOther
<1> HIDE DEF d
<1>3. AskCalls(And(cs, c), password, top, views)
  BY <1>1, <1>2 DEF AskCalls
<1>4. OneFetch(cs) /\ (c.why = "fetch" => \A b \in cs : ~(b.why = "fetch" /\ b.by = c.by))
         => OneFetch(And(cs, c))
  BY <1>1, <1>2 DEF OneFetch
<1> QED
  BY <1>3, <1>4

\* A tick forgets the viewer's earlier polls; a call that was only looked at
\* leaves nothing.
LEMMA CancelledAsk ==
  ASSUME NEW password, NEW top, NEW views, NEW p, NEW why,
         AskCalls(calls, password, top, views), OneFetch(calls)
  PROVE  /\ AskCalls(Cancelled(p, why), password, top, views)
         /\ OneFetch(Cancelled(p, why))
         /\ "fetch" \in why => \A d \in Cancelled(p, why) : ~(d.why = "fetch" /\ d.by = p)
PROOF
<1> DEFINE dead(c) == [c EXCEPT !["live"] = FALSE]
           cancelled == {c \in calls : c.by = p /\ c.why \in why}
           gone == {c \in cancelled : c.why \notin {"fetch", "mount"}}
<1>1. Cancelled(p, why) = (calls \ cancelled) \cup {dead(c) : c \in gone}
  BY DEF Cancelled
<1>2. ASSUME NEW c \in calls
      PROVE  AskCall(dead(c), password, top, views) /\ dead(c).why = c.why /\ dead(c).by = c.by
  BY AskOther DEF AskCalls
<1> HIDE DEF dead
<1>3. AskCalls(Cancelled(p, why), password, top, views)
  BY <1>1, <1>2 DEF AskCalls
<1>4. \A d \in {dead(c) : c \in gone} : d.why # "fetch"
  BY <1>2
<1>5. OneFetch(Cancelled(p, why))
  <2> SUFFICES ASSUME NEW c \in Cancelled(p, why), NEW d \in Cancelled(p, why),
                      c.why = "fetch", d.why = "fetch", c.by = d.by
               PROVE  c = d
    BY DEF OneFetch
  <2>1. c \in calls /\ d \in calls
    BY <1>1, <1>4
  <2> QED
    BY <2>1 DEF OneFetch
<1>6. "fetch" \in why => \A d \in Cancelled(p, why) : ~(d.why = "fetch" /\ d.by = p)
  BY <1>1, <1>4
<1> QED
  BY <1>3, <1>5, <1>6

LEMMA FewerAsk ==
  ASSUME NEW password, NEW top, NEW views, NEW cs, NEW fewer, fewer \subseteq cs,
         AskCalls(cs, password, top, views), OneFetch(cs)
  PROVE  AskCalls(fewer, password, top, views) /\ OneFetch(fewer)
  BY DEF AskCalls, OneFetch

\* Answers taken, and what is asked next.
LEMMA DoneAsk ==
  ASSUME NEW password, NEW top, NEW views, NEW c, NEW d,
         AskCalls(calls, password, top, views), OneFetch(calls)
  PROVE  /\ Done(c) => AskCalls(calls', password, top, views) /\ OneFetch(calls')
         /\ DoneThen(c, d) /\ AskCall(d, password, top, views) /\ d.why # "fetch"
               => AskCalls(calls', password, top, views) /\ OneFetch(calls')
PROOF
<1>1. AskCalls(calls \ {c}, password, top, views) /\ OneFetch(calls \ {c})
  BY FewerAsk
<1>2. ASSUME AskCall(d, password, top, views), d.why # "fetch"
      PROVE  AskCalls(And(calls \ {c}, d), password, top, views) /\ OneFetch(And(calls \ {c}, d))
  BY <1>1, <1>2, AndAsk
<1> QED
  BY <1>1, <1>2 DEF Done, DoneThen

-----------------------------------------------------------------------------
\* What the server does to one call, and what happens to all of them.
LEMMA AnsweredAsk ==
  ASSUME NEW password, NEW top, NEW views, NEW c, AskCall(c, password, top, views),
         NEW a, AnswerFields \subseteq DOMAIN a, a.kind # "none",
         c.why = "fetch" /\ a.kind = "ok" =>
            a.version \in 0 .. top /\ (c.by \in Viewers => views[c.by].doc <= a.version),
         NEW after
  PROVE  /\ AskCall(Answered(c, a), after, top, views)
         /\ Answered(c, a).why = c.why /\ Answered(c, a).by = c.by
PROOF
<1> DEFINE d == Answered(c, a)
<1>1. /\ DOMAIN d = DOMAIN c /\ d.by = c.by /\ d.why = c.why /\ d.what = c.what
      /\ d.answer = a /\ d.checked = FALSE
  BY DEF AskCall, CallFields, Answered
<1> HIDE DEF d
<1>2. AskCall(d, after, top, views)
  BY <1>1 DEF AskCall
<1> QED
  BY <1>1, <1>2 DEF d

LEMMA ReplaceAsk ==
  ASSUME NEW password, NEW top, NEW views, NEW cs, AskCalls(cs, password, top, views), OneFetch(cs),
         NEW c \in cs, NEW d, AskCall(d, password, top, views), d.why = c.why, d.by = c.by
  PROVE  /\ AskCalls((cs \ {c}) \cup {d}, password, top, views)
         /\ OneFetch((cs \ {c}) \cup {d})
  BY DEF AskCalls, OneFetch

\* What is done to every call says nothing of which are polls.
LEMMA MapOneFetch ==
  ASSUME NEW cs, OneFetch(cs), NEW f, \A c \in cs : f[c].why = c.why /\ f[c].by = c.by
  PROVE  OneFetch({f[c] : c \in cs})
  BY DEF OneFetch

\* The password changes, and those who wait are remembered to have seen it.
LEMMA HadAsk ==
  ASSUME NEW password, NEW top, NEW views, NEW cs, AskCalls(cs, password, top, views), OneFetch(cs),
         NEW after
  PROVE  AskCalls(Had(cs, after), after, top, views) /\ OneFetch(Had(cs, after))
PROOF
<1> DEFINE had(c) == [c EXCEPT !.had = @ \cup {after}]
           f == [c \in cs |-> IF c.had = {} THEN c ELSE had(c)]
<1>1. Had(cs, after) = {f[c] : c \in cs}
  BY DEF Had
<1>2. ASSUME NEW c \in cs
      PROVE  AskCall(f[c], after, top, views) /\ f[c].why = c.why /\ f[c].by = c.by
  <2>0. AskCall(c, password, top, views)
    BY DEF AskCalls
  <2>1. CASE c.had = {}
    <3>1. AskCall(c, after, top, views)
      BY <2>0, <2>1 DEF AskCall
    <3> QED
      BY <2>1, <3>1
  <2>2. CASE c.had # {}
    <3> DEFINE d == had(c)
    <3>1. /\ DOMAIN d = DOMAIN c /\ d.by = c.by /\ d.why = c.why /\ d.what = c.what
          /\ d.answer = c.answer /\ d.checked = c.checked /\ d.token = c.token
          /\ d.password = c.password /\ d.had = c.had \cup {after}
      BY <2>0 DEF AskCall, CallFields
    <3>2. f[c] = d
      BY <2>2
    <3> HIDE DEF d, f, had
    <3>3. AskCall(d, after, top, views)
      BY <2>0, <3>1 DEF AskCall
    <3> QED
      BY <3>1, <3>2, <3>3
  <2> QED
    BY <2>1, <2>2
<1> HIDE DEF f
<1>3. AskCalls(Had(cs, after), after, top, views)
  BY <1>1, <1>2 DEF AskCalls
<1>4. OneFetch(Had(cs, after))
  BY <1>1, <1>2, MapOneFetch
<1> QED
  BY <1>3, <1>4

\* Tokens lapse.
LEMMA OldAsk ==
  ASSUME NEW password, NEW top, NEW views, NEW c, AskCall(c, password, top, views)
  PROVE  /\ AskCall(OldToken(c), password, top, views)
         /\ OldToken(c).why = c.why /\ OldToken(c).by = c.by
PROOF
<1> DEFINE d == OldToken(c)
<1>1. /\ DOMAIN d = DOMAIN c /\ d.by = c.by /\ d.why = c.why /\ d.what = c.what
      /\ d.checked = c.checked /\ d.token = Old(c.token)
      /\ d.password = c.password /\ d.had = c.had
  BY DEF AskCall, CallFields, OldToken
<1>2. /\ DOMAIN d.answer = DOMAIN c.answer /\ d.answer.kind = c.answer.kind
      /\ d.answer.version = c.answer.version
  BY DEF AskCall, CallFields, AnswerFields, OldToken
<1>3. d.token # Good
  BY <1>1 DEF Old, Good, Expired
<1> HIDE DEF d
<1>4. AskCall(d, password, top, views)
  BY <1>1, <1>2, <1>3 DEF AskCall
<1> QED
  BY <1>1, <1>4 DEF d

\* More edits only let answers be of newer documents.
LEMMA LaterAsk ==
  ASSUME NEW password, NEW top \in Nat, NEW views, NEW cs, AskCalls(cs, password, top, views),
         NEW later \in Nat, top <= later
  PROVE  AskCalls(cs, password, later, views)
  BY DEF AskCalls, AskCall

LEMMA ReadsAsk ==
  ASSUME NEW c
  PROVE  /\ AnswerFields \subseteq DOMAIN Reads(c) /\ Reads(c).kind # "none"
         /\ c.what = "document" /\ Reads(c).kind = "ok" => Reads(c).version = version
PROOF
<1>1. /\ AnswerFields \subseteq DOMAIN GetDocument(c) /\ GetDocument(c).kind # "none"
      /\ GetDocument(c).kind = "ok" => GetDocument(c).version = version
  BY DEF GetDocument, Ok, Refused, Waiting, AnswerFields
<1>2. AnswerFields \subseteq DOMAIN GetBoard(c) /\ GetBoard(c).kind # "none"
  BY DEF GetBoard, Ok, Waiting, AnswerFields
<1>3. AnswerFields \subseteq DOMAIN ListUsers(c) /\ ListUsers(c).kind # "none"
  BY DEF ListUsers, Ok, Refused, Waiting, AnswerFields
<1>4. AnswerFields \subseteq DOMAIN UnlockBoard(c) /\ UnlockBoard(c).kind # "none"
  BY DEF UnlockBoard, Ok, Refused, Waiting, AnswerFields
<1> QED
  BY <1>1, <1>2, <1>3, <1>4 DEF Reads

\* A request that is checked has shown a password the board has had meanwhile, or
\* the board had none.
LEMMA CheckAsk ==
  ASSUME NEW c, NEW top, NEW views, AskCall(c, board.password, top, views), Check(c), Allowed(c)
  PROVE  /\ AskCall([c EXCEPT !.checked = TRUE], board.password, top, views)
         /\ [c EXCEPT !.checked = TRUE].why = c.why /\ [c EXCEPT !.checked = TRUE].by = c.by
PROOF
<1> DEFINE d == [c EXCEPT !.checked = TRUE]
<1>1. /\ DOMAIN d = DOMAIN c /\ d.by = c.by /\ d.why = c.why /\ d.what = c.what
      /\ d.answer = c.answer /\ d.token = c.token /\ d.password = c.password /\ d.had = c.had
  BY DEF AskCall, CallFields
<1>2. c.what \in Changes /\ c.answer.kind = "none"
  BY DEF Check, Waiting
<1>3. c.what # "add" => c.had \cap {c.password, NoPassword} # {}
  <2> SUFFICES ASSUME c.what # "add" PROVE c.had \cap {c.password, NoPassword} # {}
    OBVIOUS
  <2>1. c.token # Good /\ board.password \in c.had
    BY <1>2 DEF AskCall, Managing
  <2>2. board.password \in {c.password, NoPassword}
    BY <2>1 DEF Allowed, AuthorizeManage, Unlocked, Locked
  <2> QED
    BY <2>1, <2>2
<1> HIDE DEF d
<1>4. AskCall(d, board.password, top, views)
  BY <1>1, <1>2, <1>3 DEF AskCall
<1> QED
  BY <1>1, <1>4 DEF d

-----------------------------------------------------------------------------
LEMMA HandleAsk ==
  ASSUME AskInv, UNCHANGED view, NEW c \in calls, Handle(c)
  PROVE  AskInv'
PROOF
<1>0. AskCall(c, board.password, version, view) /\ AskCalls(calls, board.password, version, view)
      /\ OneFetch(calls)
  BY DEF AskInv, AskCalls
<1>1. ASSUME NEW d, AskCall(d, board.password, version, view), d.why = c.why, d.by = c.by,
             calls' = (calls \ {c}) \cup {d}
      PROVE  AskCalls(calls', board.password, version, view) /\ OneFetch(calls')
  BY <1>0, <1>1, ReplaceAsk
<1>2. ASSUME AskCalls(calls', board.password, version, view), OneFetch(calls'),
             UNCHANGED serverVars
      PROVE  AskInv'
  BY <1>2 DEF AskInv, serverVars
<1>3. CASE Serve(c)
  <2>1. AskCall(Answered(c, Reads(c)), board.password, version, view)
        /\ Answered(c, Reads(c)).why = c.why /\ Answered(c, Reads(c)).by = c.by
    <3> DEFINE a == Reads(c)
    <3>1. /\ AnswerFields \subseteq DOMAIN a /\ a.kind # "none"
          /\ c.what = "document" /\ a.kind = "ok" => a.version = version
      BY ReadsAsk
    <3> HIDE DEF a
    <3>2. c.why = "fetch" /\ a.kind = "ok" =>
             a.version \in 0 .. version /\ (c.by \in Viewers => view[c.by].doc <= a.version)
      BY <1>0, <3>1 DEF AskCall, AskInv, ViewsUpTo
    <3>3. /\ AskCall(Answered(c, a), board.password, version, view)
          /\ Answered(c, a).why = c.why /\ Answered(c, a).by = c.by
      BY <1>0, <3>1, <3>2, AnsweredAsk
    <3> QED
      BY <3>3 DEF a
  <2> QED
    BY <1>1, <1>2, <1>3, <2>1 DEF Serve, Answer
<1>4. CASE ServeList(c)
  <2>1. PICK a, k, rows :
           /\ calls' = (calls \ {c}) \cup {[c EXCEPT !.read = k, !.answer = [a EXCEPT !.rows = rows]]}
           /\ a \in {Waiting, Ok} /\ c.what = "list" /\ UNCHANGED serverVars
    BY <1>4 DEF ServeList
  <2> DEFINE b == [a EXCEPT !.rows = rows]
             d == [c EXCEPT !.read = k, !.answer = b]
  <2>2. AnswerFields \subseteq DOMAIN b
    BY <2>1 DEF Waiting, Ok, AnswerFields
  <2>3. /\ DOMAIN d = DOMAIN c /\ d.by = c.by /\ d.why = c.why /\ d.what = c.what
        /\ d.answer = b /\ d.checked = c.checked /\ d.token = c.token /\ d.password = c.password
        /\ d.had = c.had
    <3> HIDE DEF b
    <3> QED
      BY <1>0 DEF AskCall, CallFields
  <2>4. AskCall(d, board.password, version, view)
    <3> HIDE DEF d, b
    <3> QED
      BY <1>0, <2>1, <2>2, <2>3 DEF AskCall, Managing, Changes
  <2> HIDE DEF d
  <2>5. calls' = (calls \ {c}) \cup {d}
    BY <2>1 DEF d
  <2> QED
    BY <1>1, <1>2, <2>1, <2>3, <2>4, <2>5
<1>5. CASE Check(c)
  <2>1. CASE Allowed(c)
    BY <1>0, <1>1, <1>2, <1>5, <2>1, CheckAsk DEF Check
  <2>2. CASE ~Allowed(c)
    <3>1. AnswerFields \subseteq DOMAIN Refused /\ Refused.kind = "refused"
      BY DEF Refused, Waiting, AnswerFields
    <3>2. /\ AskCall(Answered(c, Refused), board.password, version, view)
          /\ Answered(c, Refused).why = c.why /\ Answered(c, Refused).by = c.by
      BY <1>0, <3>1, AnsweredAsk
    <3> QED
      BY <1>1, <1>2, <1>5, <2>2, <3>2 DEF Check, Answer
  <2> QED
    BY <2>1, <2>2
<1>6. CASE Add(c)
  <2>1. PICK u : /\ board' = [board EXCEPT !.users = @ \cup {u}]
                 /\ Answer(c, [Ok EXCEPT !.user = u]) /\ UNCHANGED <<saved, version, lost, left>>
                 /\ c.what = "add"
    BY <1>6 DEF Add
  <2>2. BoardFields \subseteq DOMAIN board' /\ board'.password = board.password
    BY <2>1 DEF AskInv, BoardFields
  <2> DEFINE a == [Ok EXCEPT !.user = u]
  <2>3. AnswerFields \subseteq DOMAIN a /\ a.kind = "ok"
    BY DEF Ok, Waiting, AnswerFields
  <2>4. c.why # "fetch"
    BY <1>0, <2>1 DEF AskCall
  <2> HIDE DEF a
  <2>5. /\ AskCall(Answered(c, a), board.password, version, view)
        /\ Answered(c, a).why = c.why /\ Answered(c, a).by = c.by
    BY <1>0, <2>3, <2>4, AnsweredAsk
  <2>6. calls' = (calls \ {c}) \cup {Answered(c, a)}
    BY <2>1 DEF Answer, a
  <2>7. AskCalls(calls', board.password, version, view) /\ OneFetch(calls')
    BY <1>1, <2>5, <2>6
  <2> QED
    BY <2>1, <2>2, <2>7 DEF AskInv
<1>7. CASE Manage(c)
  <2> DEFINE b == Managed(board, c)
  <2>1. /\ board' = b /\ saved' = b /\ UNCHANGED <<version, lost, left>> /\ c.checked
        /\ calls' = Had(calls \ {c}, b.password) \cup {Answered(c, Ok)}
    BY <1>7 DEF Manage
  <2>2. BoardFields \subseteq DOMAIN b
    BY DEF Managed, AskInv, BoardFields
  <2>3. AskCalls(calls \ {c}, board.password, version, view) /\ OneFetch(calls \ {c})
    BY <1>0, FewerAsk
  <2>4. AskCalls(Had(calls \ {c}, b.password), b.password, version, view)
        /\ OneFetch(Had(calls \ {c}, b.password))
    BY <2>3, HadAsk
  <2>5. AnswerFields \subseteq DOMAIN Ok /\ Ok.kind = "ok"
    BY DEF Ok, Waiting, AnswerFields
  <2>6. c.why # "fetch"
    BY <1>0, <2>1 DEF AskCall, Changes
  <2> HIDE DEF b
  <2>7. AskCall(Answered(c, Ok), b.password, version, view) /\ Answered(c, Ok).why # "fetch"
    BY <1>0, <2>5, <2>6, AnsweredAsk
  <2>8. AskCalls(calls', b.password, version, view)
    BY <2>1, <2>4, <2>7 DEF AskCalls
  <2>9. OneFetch(calls')
    BY <2>1, <2>4, <2>7 DEF OneFetch
  <2> QED
    BY <2>1, <2>2, <2>8, <2>9 DEF AskInv
<1> QED
  BY <1>3, <1>4, <1>5, <1>6, <1>7 DEF Handle

\* What may happen a number of times only is counted down.
LEMMA HappensCounts ==
  ASSUME left \in [Events -> Nat], NEW event \in Events, Happens(event)
  PROVE  left' \in [Events -> Nat] /\ left' # left
PROOF
<1>1. left[event] \in Nat /\ left[event] - 1 \in Nat /\ left[event] - 1 # left[event]
  BY DEF Happens
<1>2. left' = [left EXCEPT ![event] = left[event] - 1]
  BY DEF Happens
<1>3. left' \in [Events -> Nat]
  BY <1>1, <1>2
<1>4. left'[event] # left[event]
  BY <1>1, <1>2
<1> QED
  BY <1>3, <1>4

LEMMA MeanwhileAsk ==
  ASSUME AskInv, UNCHANGED view,
         Edit \/ Save \/ Lapse \/ Elsewhere \/ Crash \/ \E c \in calls : Lose(c)
  PROVE  AskInv'
PROOF
<1>0. /\ left \in [Events -> Nat] /\ version \in Nat /\ ViewsUpTo(view, version)
      /\ AskCalls(calls, board.password, version, view) /\ OneFetch(calls)
      /\ \A c \in calls : AskCall(c, board.password, version, view)
  BY DEF AskInv, AskCalls
<1>1. {"edits", "lapses", "crashes", "faults", "elsewhere"} \subseteq Events
  BY DEF Events
<1>2. version + 1 \in Nat /\ version <= version + 1 /\ ViewsUpTo(view, version + 1)
  BY <1>0 DEF ViewsUpTo
<1>3. CASE Edit
  <2>1. left' \in [Events -> Nat]
    BY <1>0, <1>1, <1>3, HappensCounts DEF Edit
  <2>2. AskCalls(calls, board.password, version + 1, view)
    BY <1>0, <1>2, LaterAsk
  <2> QED
    BY <1>0, <1>2, <1>3, <2>1, <2>2 DEF Edit, AskInv
<1>4. CASE Save
  BY <1>4 DEF Save, AskInv
<1>5. CASE Lapse
  <2>1. left' \in [Events -> Nat]
    BY <1>0, <1>1, <1>5, HappensCounts DEF Lapse
  <2> DEFINE f == [c \in calls |-> OldToken(c)]
  <2>2. calls' = {f[c] : c \in calls} /\ UNCHANGED <<board, saved, version, lost>>
    BY <1>5 DEF Lapse
  <2>3. \A c \in calls : AskCall(f[c], board.password, version, view) /\ f[c].why = c.why /\ f[c].by = c.by
    BY <1>0, OldAsk
  <2> HIDE DEF f
  <2>4. AskCalls(calls', board.password, version, view) /\ OneFetch(calls')
    BY <1>0, <2>2, <2>3, MapOneFetch DEF AskCalls
  <2> QED
    BY <2>1, <2>2, <2>4 DEF AskInv
<1>6. CASE Elsewhere
  <2>1. PICK c : /\ board' = Managed(board, c) /\ saved' = board' /\ UNCHANGED version
                 /\ calls' = Had(calls, board'.password) /\ Happens("elsewhere")
    BY <1>6 DEF Elsewhere
  <2>2. BoardFields \subseteq DOMAIN board'
    BY <2>1 DEF Managed, AskInv, BoardFields
  <2>3. left' \in [Events -> Nat]
    BY <1>0, <1>1, <2>1, HappensCounts
  <2>4. AskCalls(calls', board'.password, version, view) /\ OneFetch(calls')
    BY <1>0, <2>1, HadAsk
  <2> QED
    BY <1>0, <2>1, <2>2, <2>3, <2>4 DEF AskInv
<1>7. CASE Crash
  <2>1. left' \in [Events -> Nat]
    BY <1>0, <1>1, <1>7, HappensCounts DEF Crash
  <2> DEFINE f == [c \in calls |-> IF c.answer.kind = "none" THEN Answered(c, Failed) ELSE OldToken(c)]
  <2>2. calls' = {f[c] : c \in calls} /\ board' = saved /\ UNCHANGED saved /\ version' = version + 1
    BY <1>7 DEF Crash
  <2>3. AnswerFields \subseteq DOMAIN Failed /\ Failed.kind = "failed"
    BY DEF Failed, Waiting, AnswerFields
  <2>4. ASSUME NEW c \in calls
        PROVE  AskCall(f[c], saved.password, version, view) /\ f[c].why = c.why /\ f[c].by = c.by
    <3>1. CASE c.answer.kind = "none"
      <4>1. /\ AskCall(Answered(c, Failed), saved.password, version, view)
            /\ Answered(c, Failed).why = c.why /\ Answered(c, Failed).by = c.by
        BY <1>0, <2>3, AnsweredAsk
      <4> QED
        BY <3>1, <4>1
    <3>2. CASE c.answer.kind # "none"
      <4>1. AskCall(c, saved.password, version, view)
        BY <1>0, <3>2 DEF AskCall
      <4>2. /\ AskCall(OldToken(c), saved.password, version, view)
            /\ OldToken(c).why = c.why /\ OldToken(c).by = c.by
        BY <4>1, OldAsk
      <4> QED
        BY <3>2, <4>2
    <3> QED
      BY <3>1, <3>2
  <2> HIDE DEF f
  <2>5. AskCalls(calls', saved.password, version, view) /\ OneFetch(calls')
    BY <1>0, <2>2, <2>4, MapOneFetch DEF AskCalls
  <2>6. AskCalls(calls', saved.password, version + 1, view)
    BY <1>0, <1>2, <2>5, LaterAsk
  <2> QED
    BY <1>2, <2>1, <2>2, <2>5, <2>6 DEF AskInv
<1>8. CASE \E c \in calls : Lose(c)
  <2>1. PICK c \in calls : UNCHANGED <<board, saved, version>> /\ Answer(c, Failed) /\ Happens("faults")
    BY <1>8 DEF Lose
  <2>2. left' \in [Events -> Nat]
    BY <1>0, <1>1, <2>1, HappensCounts
  <2>3. AnswerFields \subseteq DOMAIN Failed /\ Failed.kind = "failed"
    BY DEF Failed, Waiting, AnswerFields
  <2>4. /\ AskCall(Answered(c, Failed), board.password, version, view)
        /\ Answered(c, Failed).why = c.why /\ Answered(c, Failed).by = c.by
    BY <1>0, <2>3, AnsweredAsk
  <2>5. calls' = (calls \ {c}) \cup {Answered(c, Failed)}
    BY <2>1 DEF Answer
  <2>6. AskCalls(calls', board.password, version, view) /\ OneFetch(calls')
    BY <1>0, <2>4, <2>5, ReplaceAsk
  <2> QED
    BY <2>1, <2>2, <2>6 DEF AskInv
<1> QED
  BY <1>3, <1>4, <1>5, <1>6, <1>7, <1>8

-----------------------------------------------------------------------------
\* What the pages do.  Their calls are of AskCalls whatever the password is.
PageAsk == AskCalls(calls', board.password, version, view) /\ OneFetch(calls')

LEMMA UnlockAsk ==
  ASSUME AskInv, NEW p, NEW password, Unlock(p, password)
  PROVE  PageAsk /\ left' \in [Events -> Nat]
PROOF
<1> DEFINE c == Call(p, "unlock", "unlock", NoToken)
           d == [c EXCEPT !.password = password]
<1>1. /\ CallFields \subseteq DOMAIN d /\ d.answer = Waiting /\ d.checked = FALSE
      /\ d.what = "unlock" /\ d.why = "unlock"
  BY DEF Call, CallFields
<1>2. AnswerFields \subseteq DOMAIN Waiting
  BY DEF Waiting, AnswerFields
<1> HIDE DEF c, d
<1>3. AskCall(d, board.password, version, view)
  BY <1>1, <1>2, PlainAsk DEF Managing, Changes
<1>4. calls' = And(calls, d)
  BY DEF Unlock, c, d
<1>5. PageAsk
  BY <1>1, <1>3, <1>4, AndAsk DEF AskInv, PageAsk
<1>6. left' \in [Events -> Nat]
  BY HappensCounts DEF Unlock, AskInv, Events
<1> QED
  BY <1>5, <1>6

LEMMA JoinAsk ==
  ASSUME AskInv, NEW j \in Joiners, JoinPage(j)
  PROVE  PageAsk /\ left' \in [Events -> Nat] /\ UNCHANGED <<board, saved, version, view>>
PROOF
<1>0. AskCalls(calls, board.password, version, view) /\ OneFetch(calls) /\ left \in [Events -> Nat]
  BY DEF AskInv
<1>1. UNCHANGED <<board, saved, version, view>>
  BY DEF JoinPage, Mount, JoinUnlock, Enter, AddMe, JoinReceive, JoinOnly, serverVars
<1>2. ASSUME NEW why, NEW what \in {"board", "users", "add"}, NEW t, why # "fetch"
      PROVE  /\ AskCall(Call(j, why, what, t), board.password, version, view)
             /\ Call(j, why, what, t).why # "fetch"
  <2>1. what \notin Managing
    BY DEF Managing, Changes
  <2> QED
    BY <1>2, <2>1, CallAsk
<1>3. CASE Mount(j)
  <2>1. PageAsk
    BY <1>0, <1>2, <1>3, AndAsk DEF Mount, PageAsk
  <2> QED
    BY <1>0, <1>1, <1>3, <2>1 DEF Mount, JoinOnly, serverVars
<1>4. CASE \E password \in Passwords : JoinUnlock(j, password)
  BY <1>1, <1>4, UnlockAsk DEF JoinUnlock
<1>5. CASE \E u \in join[j].meta.users : Enter(j, u)
  <2>1. PageAsk
    BY <1>0, <1>5, CancelledAsk DEF Enter, PageAsk
  <2> QED
    BY <1>0, <1>1, <1>5, <2>1 DEF Enter, JoinOnly, serverVars
<1>6. CASE \E name \in Names : AddMe(j, name)
  <2>1. ASSUME NEW name
        PROVE  /\ AskCall([Call(j, "add", "add", token[j]) EXCEPT !.name = name], board.password, version, view)
               /\ [Call(j, "add", "add", token[j]) EXCEPT !.name = name].why # "fetch"
    BY <1>2, AskOther
  <2>2. PageAsk
    BY <1>0, <1>6, <2>1, AndAsk DEF AddMe, PageAsk
  <2> QED
    BY <1>0, <1>1, <1>6, <2>2 DEF AddMe, JoinOnly, serverVars
<1>7. ASSUME NEW c \in calls, JoinReceive(j, c)
      PROVE  PageAsk /\ left' \in [Events -> Nat]
  <2>0. left' \in [Events -> Nat]
    BY <1>0, <1>7 DEF JoinReceive, JoinOnly, serverVars
  <2>1. CASE Mounted(j, c)
    BY <1>0, <1>2, <2>0, <2>1, DoneAsk DEF Mounted, MountedIf, PageAsk
  <2>2. CASE Checked(j, c)
    <3>1. /\ AskCall([Call(j, "full", "board", token[j]) EXCEPT !.live = c.live], board.password, version, view)
          /\ [Call(j, "full", "board", token[j]) EXCEPT !.live = c.live].why # "fetch"
      BY <1>2, AskOther
    <3> QED
      BY <1>0, <2>0, <2>2, <3>1, DoneAsk DEF Checked, Distrust, PageAsk
  <2>3. CASE Full(j, c)
    BY <1>0, <2>0, <2>3, DoneAsk DEF Full, Distrust, PageAsk
  <2>4. CASE JoinUnlocked(j, c)
    BY <1>0, <1>2, <2>0, <2>4, DoneAsk DEF JoinUnlocked, PageAsk
  <2>5. CASE Revealed(j, c)
    BY <1>0, <2>0, <2>5, DoneAsk DEF Revealed, PageAsk
  <2>6. CASE Added(j, c)
    <3> DEFINE cs == Cancelled(j, {"mount", "check", "full"})
    <3>0. AskCalls(cs, board.password, version, view) /\ OneFetch(cs)
      BY <1>0, CancelledAsk
    <3> HIDE DEF cs
    <3>1. AskCalls(cs \ {c}, board.password, version, view) /\ OneFetch(cs \ {c})
      BY <3>0, FewerAsk
    <3> USE DEF cs
    <3> QED
      BY <1>0, <2>0, <2>6, <3>1, DoneAsk DEF Added, PageAsk
  <2> QED
    BY <1>7, <2>1, <2>2, <2>3, <2>4, <2>5, <2>6 DEF JoinReceive
<1> QED
  BY <1>1, <1>3, <1>4, <1>5, <1>6, <1>7 DEF JoinPage

LEMMA BoardPageAsk ==
  ASSUME AskInv, NEW j \in Joiners, BoardPage(j)
  PROVE  PageAsk /\ left' \in [Events -> Nat] /\ UNCHANGED <<board, saved, version, view>>
PROOF
<1>1. UNCHANGED <<board, saved, version, view, calls>>
  BY DEF BoardPage, Dial, Seat, Drop, Reload, Back, JoinOnly, serverVars
<1>2. left' = left \/ Happens("faults")
  BY DEF BoardPage, Dial, Seat, Drop, Reload, Back, JoinOnly, serverVars
<1>3. left' \in [Events -> Nat]
  BY <1>2, HappensCounts DEF AskInv, Events
<1> QED
  BY <1>1, <1>3 DEF AskInv, PageAsk

\* Who asks to manage the board is remembered with the password it has then.
LEMMA ManagementAsk ==
  ASSUME NEW top, NEW views, NEW m, NEW what, NEW password, NEW next, NEW why, why # "fetch"
  PROVE  /\ AskCall(Management(m, what, password, next, why), board.password, top, views)
         /\ Management(m, what, password, next, why).why # "fetch"
PROOF
<1> DEFINE c == Management(m, what, password, next, why)
<1>1. /\ CallFields \subseteq DOMAIN c /\ c.answer = Waiting /\ c.checked = FALSE
      /\ c.token = NoToken /\ c.had = {board.password} /\ c.why = why
  BY DEF Management, Call, CallFields
<1>2. AnswerFields \subseteq DOMAIN Waiting /\ NoToken # Good
  BY DEF Waiting, AnswerFields, NoToken, Good
<1> HIDE DEF c
<1>3. AskCall(c, board.password, top, views) /\ c.why # "fetch"
  BY <1>1, <1>2 DEF AskCall
<1> QED
  BY <1>3 DEF c

LEMMA HomeAsk ==
  ASSUME AskInv, NEW m \in Managers, HomePage(m)
  PROVE  PageAsk /\ left' \in [Events -> Nat] /\ UNCHANGED <<board, saved, version, view>>
PROOF
<1>0. AskCalls(calls, board.password, version, view) /\ OneFetch(calls) /\ left \in [Events -> Nat]
  BY DEF AskInv
<1>1. UNCHANGED <<board, saved, version, view>>
  BY DEF HomePage, Choose, ChoosePassword, ConfirmPrompt, ConfirmPassword, Confirm, Cancel, HomeReceive, HomeOnly
<1>2. left' = left \/ Happens("changes")
  BY DEF HomePage, Choose, ChoosePassword, ConfirmPrompt, ConfirmPassword, Confirm, Cancel, HomeReceive
<1>3. left' \in [Events -> Nat]
  BY <1>0, <1>2, HappensCounts DEF Events
<1>4. CASE \E row \in home[m].rows : Choose(m, row)
  <2>1. PICK row : Choose(m, row)
    BY <1>4
  <2>2. calls' = calls \/ \E what : calls' = And(calls, Management(m, what, NoPassword, NoPassword, "direct"))
    BY <2>1 DEF Choose
  <2>3. ASSUME NEW what
        PROVE  /\ AskCall(Management(m, what, NoPassword, NoPassword, "direct"), board.password, version, view)
               /\ Management(m, what, NoPassword, NoPassword, "direct").why # "fetch"
    BY ManagementAsk
  <2>4. PageAsk
    BY <1>0, <2>2, <2>3, AndAsk DEF PageAsk
  <2> QED
    BY <1>1, <1>3, <2>4
<1>5. CASE \E row \in home[m].rows : ChoosePassword(m, row)
  BY <1>0, <1>1, <1>3, <1>5 DEF ChoosePassword, PageAsk
<1>6. ASSUME NEW password, NEW next, Confirm(m, password, next), home[m].dialog.kind # "fetch"
      PROVE  PageAsk
  <2> DEFINE c == Management(m, home[m].dialog.what, password, next, home[m].dialog.kind)
  <2>1. AskCall(c, board.password, version, view) /\ c.why # "fetch"
    BY <1>6, ManagementAsk
  <2>2. calls' = And(calls, c)
    BY <1>6 DEF Confirm
  <2> HIDE DEF c
  <2> QED
    BY <1>0, <2>1, <2>2, AndAsk DEF PageAsk
<1>7. CASE \E password \in Passwords \cup {NoPassword} : ConfirmPrompt(m, password)
  BY <1>1, <1>3, <1>6, <1>7 DEF ConfirmPrompt
<1>8. CASE \E current, next \in Passwords \cup {NoPassword} : ConfirmPassword(m, current, next)
  BY <1>1, <1>3, <1>6, <1>8 DEF ConfirmPassword
<1>9. CASE Cancel(m)
  <2>1. PageAsk
    BY <1>0, <1>9, CancelledAsk DEF Cancel, PageAsk
  <2> QED
    BY <1>1, <1>3, <2>1
<1>10. ASSUME NEW c \in calls, HomeReceive(m, c)
       PROVE  PageAsk
  <2>1. CASE HomeFailed(m, c)
    BY <1>0, <2>1, DoneAsk DEF HomeFailed, PageAsk
  <2>2. CASE HomeOk(m, c)
    <3> DEFINE again(why) == [Load(m) EXCEPT !.why = why, !.live = c.live]
    <3>1. ASSUME NEW why \in {"close", "load", "reload"}
          PROVE  AskCall(again(why), board.password, version, view) /\ again(why).why # "fetch"
      <4>1. /\ CallFields \subseteq DOMAIN again(why) /\ again(why).answer = Waiting
            /\ again(why).checked = FALSE /\ again(why).what = "list" /\ again(why).why = why
        BY DEF Load, Call, CallFields
      <4>2. AnswerFields \subseteq DOMAIN Waiting
        BY DEF Waiting, AnswerFields
      <4> HIDE DEF again
      <4> QED
        BY <4>1, <4>2, PlainAsk DEF Managing, Changes
    <3>2. Done(c) \/ \E why \in {"close", "load", "reload"} : DoneThen(c, again(why))
      BY <2>2 DEF HomeOk
    <3> HIDE DEF again
    <3> QED
      BY <1>0, <3>1, <3>2, DoneAsk DEF PageAsk
  <2> QED
    BY <1>10, <2>1, <2>2 DEF HomeReceive
<1> QED
  BY <1>1, <1>3, <1>4, <1>5, <1>7, <1>8, <1>9, <1>10 DEF HomePage

\* With the other views as they are, a viewer's can change if no answered poll of
\* that viewer is left, or none that is older.
LEMMA ViewsAsk ==
  ASSUME NEW password, NEW top, NEW views, NEW after, NEW cs, AskCalls(cs, password, top, views),
         NEW v, \A w \in Viewers \ {v} : after[w].doc = views[w].doc,
         \/ after[v].doc = views[v].doc
         \/ \A d \in cs : ~(d.why = "fetch" /\ d.by = v)
         \/ top \in Nat /\ after[v].doc = 0
  PROVE  AskCalls(cs, password, top, after)
PROOF
<1> SUFFICES ASSUME NEW c \in cs PROVE AskCall(c, password, top, after)
  BY DEF AskCalls
<1>1. AskCall(c, password, top, views)
  BY DEF AskCalls
<1>2. c.why = "fetch" /\ c.answer.kind = "ok" /\ c.by \in Viewers =>
         after[c.by].doc <= c.answer.version
  BY <1>1 DEF AskCall
<1> QED
  BY <1>1, <1>2 DEF AskCall

LEMMA ViewAsk ==
  ASSUME AskInv, NEW v \in Viewers, ViewPage(v)
  PROVE  AskInv' /\ (view[v].doc # 0 /\ view'[v].doc # 0 => view'[v].doc >= view[v].doc)
         /\ UNCHANGED board /\ \A w \in Viewers \ {v} : view'[w] = view[w]
PROOF
<1>0. /\ AskCalls(calls, board.password, version, view) /\ OneFetch(calls)
      /\ left \in [Events -> Nat] /\ version \in Nat /\ ViewsUpTo(view, version)
  BY DEF AskInv
<1>1. UNCHANGED <<board, saved, version>>
  BY DEF ViewPage, Poll, ViewUnlock, ViewReceive, ViewOnly, serverVars
<1>2. \/ UNCHANGED view \/ \E r : view' = [view EXCEPT ![v] = r]
  BY DEF ViewPage, Poll, ViewUnlock, ViewReceive, Fetched, Named, ViewUnlocked, SetView
<1>3. DOMAIN view' = Viewers /\ \A w \in Viewers \ {v} : view'[w] = view[w]
  BY <1>0, <1>2 DEF ViewsUpTo
<1>4. "doc" \in DOMAIN view[v] /\ view[v].doc \in 0 .. version
  BY <1>0 DEF ViewsUpTo
<1>5. left' \in [Events -> Nat]
  <2>1. left' = left \/ Happens("typos")
    BY DEF ViewPage, Poll, ViewUnlock, Unlock, ViewReceive, ViewOnly, serverVars
  <2> QED
    BY <1>0, <2>1, HappensCounts DEF Events
    \* What is left to show.
<1>6. ASSUME "doc" \in DOMAIN view'[v], view'[v].doc \in 0 .. version,
             view[v].doc # 0 /\ view'[v].doc # 0 => view'[v].doc >= view[v].doc,
             AskCalls(calls', board.password, version, view'), OneFetch(calls')
      PROVE  AskInv' /\ (view[v].doc # 0 /\ view'[v].doc # 0 => view'[v].doc >= view[v].doc)
  <2>1. ViewsUpTo(view', version)
    BY <1>0, <1>3, <1>6 DEF ViewsUpTo
  <2> QED
    BY <1>1, <1>5, <1>6, <2>1 DEF AskInv
    \* The document shown is the same.
<1>7. ASSUME "doc" \in DOMAIN view'[v], view'[v].doc = view[v].doc, PageAsk
      PROVE  AskInv' /\ (view[v].doc # 0 /\ view'[v].doc # 0 => view'[v].doc >= view[v].doc)
  <2>1. AskCalls(calls', board.password, version, view')
    BY <1>3, <1>7, ViewsAsk DEF PageAsk
  <2> QED
    BY <1>4, <1>6, <1>7, <2>1 DEF PageAsk
<1> DEFINE r == view[v]
<1>8. \A e : "doc" \in DOMAIN [r EXCEPT !.err = e] /\ [r EXCEPT !.err = e].doc = r.doc
  <2> HIDE DEF r
  <2> QED
    BY <1>4 DEF r
<1>9. ASSUME NEW t, NEW cs, AskCalls(cs, board.password, version, view), OneFetch(cs),
             \A d \in cs : ~(d.why = "fetch" /\ d.by = v), Fetch(v, cs, t)
      PROVE  PageAsk
  <2> DEFINE c == Call(v, "fetch", "document", t)
  <2>1. AskCall(c, board.password, version, view) /\ c.why = "fetch" /\ c.by = v
    BY CallAsk DEF Managing, Changes
  <2>2. calls' = And(cs, c)
    BY <1>9 DEF Fetch
  <2> HIDE DEF c
  <2> QED
    BY <1>9, <2>1, <2>2, AndAsk DEF PageAsk
<1> DEFINE cancelled == Cancelled(v, {"fetch"})
<1>10. /\ AskCalls(cancelled, board.password, version, view) /\ OneFetch(cancelled)
       /\ \A d \in cancelled : ~(d.why = "fetch" /\ d.by = v)
  BY <1>0, CancelledAsk
<1> HIDE DEF cancelled
<1>11. CASE Poll(v)
  <2>1. Fetch(v, cancelled, token[v]) /\ UNCHANGED view
    BY <1>11 DEF Poll, cancelled
  <2>2. PageAsk
    BY <1>9, <1>10, <2>1
  <2> QED
    BY <1>1, <1>3, <1>4, <1>7, <2>1, <2>2
<1>12. CASE \E password \in Passwords : ViewUnlock(v, password)
  <2>1. PICK password \in Passwords : ViewUnlock(v, password)
    BY <1>12
  <2>2. PageAsk
    BY <2>1, UnlockAsk DEF ViewUnlock
  <2>3. view'[v] = [r EXCEPT !.err = FALSE]
    BY <1>0, <2>1 DEF ViewUnlock, SetView, ViewsUpTo
  <2>4. "doc" \in DOMAIN view'[v] /\ view'[v].doc = view[v].doc
    BY <1>8, <2>3
  <2> QED
    BY <1>1, <1>3, <1>7, <2>2, <2>4
<1>13. ASSUME NEW c \in calls, ViewReceive(v, c), Named(v, c) \/ ViewUnlocked(v, c)
       PROVE  AskInv' /\ (view[v].doc # 0 /\ view'[v].doc # 0 => view'[v].doc >= view[v].doc)
  <2>1. "doc" \in DOMAIN view'[v] /\ view'[v].doc = view[v].doc
    <3>1. UNCHANGED view \/ SetView(v, [r EXCEPT !.err = TRUE])
      BY <1>13 DEF Named, ViewUnlocked
    <3>2. view'[v] = view[v] \/ view'[v] = [r EXCEPT !.err = TRUE]
      BY <1>0, <3>1 DEF SetView, ViewsUpTo
    <3> QED
      BY <1>4, <1>8, <3>2
  <2>2. PageAsk
    <3>1. Done(c) => PageAsk
      BY <1>0, DoneAsk DEF PageAsk
    <3>2. /\ AskCalls(cancelled \ {c}, board.password, version, view) /\ OneFetch(cancelled \ {c})
          /\ \A d \in cancelled \ {c} : ~(d.why = "fetch" /\ d.by = v)
      BY <1>10, FewerAsk
    <3>3. Done(c) \/ Fetch(v, cancelled \ {c}, c.answer.token)
      BY <1>13 DEF Named, ViewUnlocked, cancelled
    <3> QED
      BY <1>9, <3>1, <3>2, <3>3
  <2> QED
    BY <1>7, <2>1, <2>2
<1>14. ASSUME NEW c \in calls, ViewReceive(v, c), Fetched(v, c)
       PROVE  AskInv' /\ (view[v].doc # 0 /\ view'[v].doc # 0 => view'[v].doc >= view[v].doc)
  <2>0. c.why = "fetch" /\ c.by = v
    BY <1>14 DEF Fetched, ViewReceive
  <2>1. \A d \in calls \ {c} : ~(d.why = "fetch" /\ d.by = v)
    BY <1>0, <2>0 DEF OneFetch
  <2>2. AskCalls(calls \ {c}, board.password, version, view) /\ OneFetch(calls \ {c})
    BY <1>0, FewerAsk
  <2>3. CASE c.answer.kind = "ok"
    <3>1. calls' = calls \ {c}
          /\ view'[v] = [r EXCEPT !.doc = c.answer.version, !.needsPassword = FALSE, !.err = FALSE]
      BY <1>0, <1>14, <2>3 DEF Fetched, Done, SetView, ViewsUpTo
    <3>2. "doc" \in DOMAIN view'[v] /\ view'[v].doc = c.answer.version
      <4> HIDE DEF r
      <4> QED
        BY <1>4, <3>1 DEF r
    <3>3. c.answer.version \in 0 .. version /\ view[v].doc <= c.answer.version
      BY <1>0, <2>0, <2>3 DEF AskCalls, AskCall
    <3>4. AskCalls(calls', board.password, version, view')
      BY <1>3, <2>1, <2>2, <3>1, ViewsAsk
    <3> QED
      BY <1>0, <1>4, <1>6, <2>2, <3>1, <3>2, <3>3, <3>4
  <2>4. CASE c.answer.kind = "refused"
    <3> DEFINE d == Call(v, "name", "board", NoToken)
    <3>1. DoneThen(c, d) /\ view'[v] = [r EXCEPT !.doc = 0, !.needsPassword = TRUE]
      BY <1>0, <1>14, <2>4 DEF Fetched, SetView, ViewsUpTo
    <3>2. "doc" \in DOMAIN view'[v] /\ view'[v].doc = 0
      <4> HIDE DEF r
      <4> QED
        BY <1>4, <3>1 DEF r
    <3>3. AskCall(d, board.password, version, view) /\ d.why # "fetch"
      BY CallAsk DEF Managing, Changes
    <3> HIDE DEF d
    <3>4. PageAsk
      BY <1>0, <3>1, <3>3, DoneAsk DEF PageAsk
    <3>5. AskCalls(calls', board.password, version, view')
      BY <1>0, <1>3, <3>2, <3>4, ViewsAsk DEF PageAsk
    <3> QED
      BY <1>0, <1>6, <3>2, <3>4, <3>5 DEF PageAsk
  <2>5. CASE c.answer.kind \notin {"ok", "refused"}
    <3>1. Done(c) /\ view'[v] = [r EXCEPT !.err = TRUE]
      BY <1>0, <1>14, <2>5 DEF Fetched, SetView, ViewsUpTo
    <3>2. PageAsk
      BY <1>0, <3>1, DoneAsk DEF PageAsk
    <3> QED
      BY <1>7, <1>8, <3>1, <3>2
  <2> QED
    BY <2>3, <2>4, <2>5
<1> QED
  BY <1>1, <1>3, <1>11, <1>12, <1>13, <1>14 DEF ViewPage, ViewReceive

LEMMA AskInit == Init => AskInv
PROOF
<1> SUFFICES ASSUME Init PROVE AskInv
  OBVIOUS
<1>1. PICK s \in Scenarios :
         /\ board = [archived |-> FALSE, password |-> s.password, users |-> {}]
         /\ saved = board /\ version = 1 /\ left = s.left
         /\ view = [v \in Viewers |-> [open |-> v \in s.tabs, doc |-> 0, needsPassword |-> FALSE, err |-> FALSE]]
         /\ calls = {[Call(m, "load", "list", NoToken) EXCEPT !["n"] = 1] : m \in Managers \cap s.tabs}
                    \cup {[Call(v, "fetch", "document", NoToken) EXCEPT !["n"] = 1] : v \in Viewers \cap s.tabs}
  BY DEF Init
<1>2. /\ BoardFields \subseteq DOMAIN board /\ BoardFields \subseteq DOMAIN saved
      /\ left \in [Events -> Nat] /\ version \in Nat
  BY <1>1, ScenariosAssumption DEF BoardFields
<1>3. ViewsUpTo(view, version)
  BY <1>1 DEF ViewsUpTo
<1> DEFINE load(m) == [Call(m, "load", "list", NoToken) EXCEPT !["n"] = 1]
           fetch(v) == [Call(v, "fetch", "document", NoToken) EXCEPT !["n"] = 1]
<1>4. ASSUME NEW m
      PROVE  AskCall(load(m), board.password, version, view) /\ load(m).why = "load"
  <2>1. /\ AskCall(Call(m, "load", "list", NoToken), board.password, version, view)
        /\ Call(m, "load", "list", NoToken).why = "load"
    <3>1. "list" \notin Managing
      BY DEF Managing, Changes
    <3> QED
      BY <3>1, CallAsk
  <2> QED
    BY <2>1, AskOther
<1>5. ASSUME NEW v
      PROVE  /\ AskCall(fetch(v), board.password, version, view)
             /\ fetch(v).why = "fetch" /\ fetch(v).by = v
  <2>1. /\ AskCall(Call(v, "fetch", "document", NoToken), board.password, version, view)
        /\ Call(v, "fetch", "document", NoToken).why = "fetch"
        /\ Call(v, "fetch", "document", NoToken).by = v
    BY CallAsk DEF Managing, Changes
  <2> QED
    BY <2>1, AskOther
<1>6. calls = {load(m) : m \in Managers \cap s.tabs} \cup {fetch(v) : v \in Viewers \cap s.tabs}
  BY <1>1
<1> HIDE DEF load, fetch
<1>7. AskCalls(calls, board.password, version, view)
  BY <1>4, <1>5, <1>6 DEF AskCalls
<1>8. OneFetch(calls)
  BY <1>4, <1>5, <1>6 DEF OneFetch
<1> QED
  BY <1>2, <1>3, <1>7, <1>8 DEF AskInv

LEMMA AskStep ==
  ASSUME AskInv, [Next]_vars
  PROVE  AskInv'
PROOF
<1>1. CASE Server
  <2>1. UNCHANGED view
    BY <1>1 DEF Server
  <2> QED
    BY <1>1, <2>1, HandleAsk, MeanwhileAsk DEF Server
<1>2. CASE Restart
  BY <1>2, MeanwhileAsk DEF Restart
<1>3. ASSUME PageAsk, left' \in [Events -> Nat], UNCHANGED <<board, saved, version, view>>
      PROVE  AskInv'
  BY <1>3 DEF PageAsk, AskInv
<1>4. CASE \E v \in Viewers : ViewPage(v)
  BY <1>4, ViewAsk
<1>5. CASE \E j \in Joiners : JoinPage(j) \/ BoardPage(j)
  BY <1>3, <1>5, JoinAsk, BoardPageAsk
<1>6. CASE \E m \in Managers : HomePage(m)
  BY <1>3, <1>6, HomeAsk
<1>7. CASE UNCHANGED vars
  BY <1>7 DEF vars, serverVars, AskInv
<1> QED
  BY <1>1, <1>2, <1>4, <1>5, <1>6, <1>7 DEF Next

LEMMA AskAlways == Spec => []AskInv
<1>1. Init => AskInv
  BY AskInit
<1>2. AskInv /\ [Next]_vars => AskInv'
  BY AskStep
<1> QED
  BY <1>1, <1>2, PTL DEF Spec

-----------------------------------------------------------------------------
\* Polls overlap, are cancelled and answered in any order, tokens lapse and the
\* server restarts: what ViewPage shows is never replaced by an older document.
THEOREM ViewsGoForward == Spec => ViewNeverGoesBack
<1>1. AskInv /\ [Next]_vars =>
         [\A v \in Viewers : view[v].doc # 0 /\ view'[v].doc # 0 => view'[v].doc >= view[v].doc]_vars
  <2> SUFFICES ASSUME AskInv, [Next]_vars, NEW v \in Viewers
               PROVE  view[v].doc # 0 /\ view'[v].doc # 0 => view'[v].doc >= view[v].doc
    OBVIOUS
  <2>0. UNCHANGED view => (view[v].doc # 0 /\ view'[v].doc # 0 => view'[v].doc >= view[v].doc)
    BY DEF AskInv, ViewsUpTo
  <2>1. CASE \E w \in Viewers : ViewPage(w)
    <3>1. PICK w \in Viewers : ViewPage(w)
      BY <2>1
    <3>2. CASE w = v
      BY <3>1, <3>2, ViewAsk
    <3>3. CASE w # v
      <4>1. view'[v] = view[v] /\ view[v].doc \in 0 .. version
        BY <3>1, <3>3, ViewAsk DEF AskInv, ViewsUpTo
      <4> QED
        BY <4>1
    <3> QED
      BY <3>2, <3>3
  <2>2. CASE ~\E w \in Viewers : ViewPage(w)
    <3>1. UNCHANGED vars => UNCHANGED view
      BY DEF vars
    <3>2. Server \/ Restart => UNCHANGED view
      BY DEF Server, Restart
    <3>3. ASSUME NEW j \in Joiners, JoinPage(j) \/ BoardPage(j) PROVE UNCHANGED view
      BY <3>3, JoinAsk, BoardPageAsk
    <3>4. ASSUME NEW m \in Managers, HomePage(m) PROVE UNCHANGED view
      BY <3>4, HomeAsk
    <3>5. UNCHANGED view
      BY <2>2, <3>1, <3>2, <3>3, <3>4 DEF Next
    <3> QED
      BY <2>0, <3>5
  <2> QED
    BY <2>1, <2>2
<1> QED
  BY <1>1, AskAlways, PTL DEF Spec, ViewNeverGoesBack

\* AuthorizeManage looks at a copy of the record, and the handler changes the
\* board afterwards, while others change the password: whoever manages the board
\* gave a password it had between the request and the change, or it had none.
THEOREM ManagersKnow == Spec => ManagedByKnowing
<1>1. AskInv /\ [Next]_vars =>
         [<<board.archived, board.password>>' # <<board.archived, board.password>> /\ left' = left =>
             \E c \in calls :
                /\ c.checked /\ \E d \in calls' : d.by = c.by /\ d.n = c.n /\ ~d.checked
                /\ c.had \cap {c.password, NoPassword} # {}]_vars
  <2> SUFFICES ASSUME AskInv, [Next]_vars,
                      <<board.archived, board.password>>' # <<board.archived, board.password>>, left' = left
               PROVE  \E c \in calls :
                         /\ c.checked /\ \E d \in calls' : d.by = c.by /\ d.n = c.n /\ ~d.checked
                         /\ c.had \cap {c.password, NoPassword} # {}
    OBVIOUS
  <2>0. left \in [Events -> Nat] /\ {"crashes", "elsewhere"} \subseteq Events
        /\ AskCalls(calls, board.password, version, view)
    BY DEF AskInv, Events
  <2>1. ~Restart /\ ~Elsewhere
    BY <2>0, HappensCounts DEF Restart, Crash, Elsewhere
  <2>2. board' # board
    OBVIOUS
  <2>3. ~\E v \in Viewers : ViewPage(v)
    BY <2>2, ViewAsk
  <2>4. ~\E j \in Joiners : JoinPage(j) \/ BoardPage(j)
    BY <2>2, JoinAsk, BoardPageAsk
  <2>5. ~\E m \in Managers : HomePage(m)
    BY <2>2, HomeAsk
  <2>6. ~UNCHANGED vars
    BY <2>2 DEF vars, serverVars
  <2>7. Server
    BY <2>1, <2>3, <2>4, <2>5, <2>6 DEF Next
  <2>8. PICK c \in calls : Handle(c)
    BY <2>1, <2>2, <2>7 DEF Server, Edit, Save, Lapse, Lose
  <2>9. ~(Serve(c) \/ ServeList(c) \/ Check(c))
    BY <2>2 DEF Serve, ServeList, Check, serverVars
  <2>10. ~Add(c)
    <3> SUFFICES ASSUME Add(c) PROVE FALSE
      OBVIOUS
    <3>1. board'.archived = board.archived /\ board'.password = board.password
      BY DEF Add, AskInv, BoardFields
    <3> QED
      BY <3>1
  <2>11. Manage(c)
    BY <2>8, <2>9, <2>10 DEF Handle
  <2>12. c.checked /\ c.had \cap {c.password, NoPassword} # {}
    BY <2>0, <2>11 DEF Manage, AskCalls, AskCall
  <2>13. Answered(c, Ok) \in calls'
    BY <2>11 DEF Manage
  <2>14. Answered(c, Ok).by = c.by /\ Answered(c, Ok).n = c.n /\ Answered(c, Ok).checked = FALSE
    BY <2>0 DEF AskCalls, AskCall, CallFields, Answered
  <2> QED
    BY <2>12, <2>13, <2>14
<1> QED
  BY <1>1, AskAlways, PTL DEF Spec, ManagedByKnowing
=============================================================================
