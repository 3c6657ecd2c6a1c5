-------------------------------- MODULE Portal --------------------------------
(***************************************************************************)
(* The web portal (src/portal/scripts): one browser window, the data its   *)
(* controllers share through DataService, and its requests to the server.  *)
(* A request is served at one time and answered at a later one, answers    *)
(* come in any order, and a controller that was left still gets its own.   *)
(*                                                                         *)
(* Item are the things with a detail page (runs, tasks, task attempts,     *)
(* templates, files), Listing the pages that list them ten at a time.      *)
(***************************************************************************)
EXTENDS Naturals, Sequences, SequencesExt

CONSTANTS
  Item,           \* the things whose pages are opened
  Process,        \* those and the runs, tasks and attempts shown as rows of a run
  Listing, User,
  Home,           \* the listing of runs
  None,
  Parts,          \* the first of steps, tasks and all_task_attempts a process has
  LastPage,       \* of every listing
  LoginRequired,  \* the setting of the server
  MaxRequests     \* bound: the user does nothing more when so many requests have been sent

ASSUME ItemAssumption ==
  /\ Item \cap Listing = {} /\ "login" \notin Item \cup Listing
  /\ Home \in Listing
  /\ None \notin Item \cup User
  /\ Item \subseteq Process
  /\ Parts \in [Process -> Seq(Process)]

\* The rows of a run come as one document, in which an attempt that tasks share is
\* written out for each of them: nothing is in it twice, and nothing within itself.
ASSUME PartsAssumption ==
  /\ \A x, y \in Process : \A i \in DOMAIN Parts[x], j \in DOMAIN Parts[y] :
       Parts[x][i] = Parts[y][j] => x = y /\ i = j
  /\ \A C \in SUBSET Process : C # {} => \E x \in C : ToSet(Parts[x]) \cap C = {}

ASSUME BoundAssumption ==
  LastPage \in Nat \ {0} /\ LoginRequired \in BOOLEAN /\ MaxRequests \in Nat

VARIABLES
  page,         \* the route whose view is shown
  visit,        \* the scope of its controller, numbered
  loading,      \* $scope.loading
  currentPage,  \* $scope.currentPage of a listing
  rows,         \* the page whose results the listing shows, 0 before the first
  focus,        \* activeData.focus
  username,     \* activeData.username
  session,      \* the user the server takes the browser for
  requests,     \* sent and not answered
  sent,         \* how many requests have been sent
  shown,        \* history: the request whose answer username is
  excuses       \* history: why something shown may not be what it should be

scope  == <<page, visit, loading, currentPage, rows>>
shared == <<focus, username, shown>>
vars   == <<scope, shared, session, requests, sent, excuses>>

Page == {"login"} \cup Item \cup Listing
Kind == {"item", "rows", "info", "login", "logout"}
Answer == {"none", "ok", "forbidden"}

TypeOK ==
  /\ page \in Page
  /\ visit \in Nat \ {0}
  /\ loading \in BOOLEAN
  /\ currentPage \in 0..LastPage
  /\ rows \in 0..LastPage
  /\ page \in Listing <=> currentPage # 0
  /\ focus \in Item \cup {None}
  /\ username \in User \cup {None}
  /\ session \in User \cup {None}
  /\ \A r \in requests :
       /\ r.number \in 1..sent /\ r.visit \in 1..visit /\ r.kind \in Kind /\ r.answer \in Answer
       /\ r.target \in Item \cup User \cup {None} \cup 1..LastPage
  /\ \A r, s \in requests : r.number = s.number => r = s
  /\ sent \in Nat
  /\ shown \in 0..sent
  /\ excuses \subseteq {"focus", "rows", "loading", "name"}

-----------------------------------------------------------------------------
(* Requests, and the controllers that send them.                            *)

Request(number, kind, target, v) ==
  [number |-> number, kind |-> kind, target |-> target, visit |-> v, answer |-> "none"]

\* (Mutant of the next definition: the pages of a listing count from 0.)
FirstRequestFromZero(number, p, v) ==
  IF p \in Item THEN Request(number, "item", p, v)
  ELSE IF p \in Listing THEN Request(number, "rows", 0, v)
  ELSE Request(number, "info", None, v)

\* What the controller of a page asks for when it starts: setActive..., the first
\* page of a listing, or getLoginAndVersionInfo.
FirstRequest(number, p, v) ==
  IF p \in Item THEN Request(number, "item", p, v)
  ELSE IF p \in Listing THEN Request(number, "rows", 1, v)
  ELSE Request(number, "info", None, v)

\* (Mutant of the next definition: listings keep the item that was looked at.)
KeepFocus(p) == IF p \in Item THEN None ELSE focus

\* The login page leaves the focus and what goes with it; every other page clears it.
ClearFocus(p) == IF p = "login" THEN focus ELSE None

\* The excuses that are over when p is opened.
Kept(p) == excuses \ (IF p = "login" THEN {"rows", "loading"} ELSE {"focus", "rows", "loading"})

\* The router makes a new scope for the page, whose request gets the number n; "held"
\* are the other requests.
Start(p, held, n) ==
  /\ sent' = n
  /\ page' = p
  /\ visit' = visit + 1
  /\ loading' = (p # "login")
  /\ currentPage' = (IF p \in Listing THEN 1 ELSE 0)
  /\ rows' = 0
  /\ focus' = ClearFocus(p)
  /\ requests' = held \cup {FirstRequest(n, p, visit')}
  /\ excuses' = Kept(p)

\* The user follows a link, an unknown path is "otherwise": a page is opened.
Open(p) ==
  /\ p # page
  /\ sent < MaxRequests
  /\ Start(p, requests, sent + 1)
  /\ UNCHANGED <<username, shown, session>>

\* $watch('currentPage', ...): loading stays as it is.  The paging controls are there
\* once the number of items is known.
TurnPage(n) ==
  /\ page \in Listing
  /\ rows # 0
  /\ n # currentPage
  /\ sent < MaxRequests
  /\ sent' = sent + 1
  /\ currentPage' = n
  /\ focus' = None
  /\ requests' = requests \cup {Request(sent', "rows", n, visit)}
  /\ excuses' = excuses \ {"focus"}
  /\ UNCHANGED <<page, visit, loading, rows, username, shown, session>>

Ask(kind, user) ==
  /\ sent < MaxRequests
  /\ sent' = sent + 1
  /\ requests' = requests \cup {Request(sent', kind, user, visit)}
  /\ UNCHANGED <<scope, shared, session, excuses>>

Login(user) == page = "login" /\ Ask("login", user)

\* The button in the bar of every page is there while a user is shown.
Logout == username # None /\ Ask("logout", None)

-----------------------------------------------------------------------------
(* The server.                                                              *)

Answered(r, answer, target) == [r EXCEPT !.answer = answer, !.target = target]

Served(r, answer, target) == requests' = (requests \ {r}) \cup {Answered(r, answer, target)}

\* /api/info/ tells the user of the session; the other reads may need one.
ServeRead(r) ==
  /\ r.answer = "none"
  /\ \/ /\ r.kind = "info"
        /\ Served(r, "ok", session)
     \/ /\ r.kind \in {"item", "rows"}
        /\ Served(r, IF LoginRequired /\ session = None THEN "forbidden" ELSE "ok", r.target)
  /\ UNCHANGED <<scope, shared, session, sent, excuses>>

\* /api/auth/: the target of a logout is None.
ServeAuth(r) ==
  /\ r.answer = "none"
  /\ r.kind \in {"login", "logout"}
  /\ session' = r.target
  /\ Served(r, "ok", r.target)
  /\ UNCHANGED <<scope, shared, sent, excuses>>

\* A login with a wrong password ends in an alert.
Refuse(r) ==
  /\ r.answer = "none"
  /\ r.kind = "login"
  /\ requests' = requests \ {r}
  /\ UNCHANGED <<scope, shared, session, sent, excuses>>

\* Any other failure, before the request is served or after it: the promise is rejected
\* and nobody asks again.  The case of a 500 fails itself before it shows its page.
Excuse(r) ==
  IF r.kind \in {"login", "logout", "info"} THEN {"name"}
  ELSE IF r.visit = visit THEN {"loading", "rows"} ELSE {}

Fail(r) ==
  /\ requests' = requests \ {r}
  /\ excuses' = excuses \cup Excuse(r)
  /\ UNCHANGED <<scope, shared, session, sent>>

-----------------------------------------------------------------------------
(* The answers.                                                             *)

\* setActive...: the focus is everybody's, loading is of the scope that asked.
ShowItem(r) ==
  /\ r.kind = "item"
  /\ r.answer = "ok"
  /\ requests' = requests \ {r}
  /\ focus' = r.target
  /\ loading' = (loading /\ r.visit # visit)
  /\ excuses' = (IF r.visit = visit THEN excuses \ {"focus"} ELSE excuses \cup {"focus"})
  /\ UNCHANGED <<page, visit, currentPage, rows, username, shown, session, sent>>

\* (Mutant of the next definition: a listing shows what another one has asked for.)
ShowRowsOfAny(r) ==
  /\ r.kind = "rows"
  /\ r.answer = "ok"
  /\ requests' = requests \ {r}
  /\ rows' = (IF page \in Listing THEN r.target ELSE 0)
  /\ loading' = FALSE
  /\ UNCHANGED <<page, visit, currentPage, shared, session, sent, excuses>>

\* Pages that come after a later one has been asked for are shown all the same.
ShowRows(r) ==
  /\ r.kind = "rows"
  /\ r.answer = "ok"
  /\ requests' = requests \ {r}
  /\ IF r.visit = visit
     THEN /\ rows' = r.target
          /\ loading' = FALSE
          /\ excuses' = (IF r.target = currentPage THEN excuses \ {"rows"}
                                                   ELSE excuses \cup {"rows"})
     ELSE UNCHANGED <<rows, loading, excuses>>
  /\ UNCHANGED <<page, visit, currentPage, shared, session, sent>>

\* An answer that was overtaken by that of a later request takes its place.
ShowName(r) ==
  /\ r.kind = "info"
  /\ r.answer = "ok"
  /\ requests' = requests \ {r}
  /\ username' = r.target
  /\ shown' = r.number
  /\ excuses' = (IF r.number < shown THEN excuses \cup {"name"}
                 ELSE IF r.target = session /\ \A q \in requests \ {r} : q.kind # "info"
                 THEN excuses \ {"name"} ELSE excuses)
  /\ UNCHANGED <<scope, focus, session, sent>>

\* $window.location = '#/login' starts nothing on the login page itself.
GoToLogin(r, why) ==
  IF page = "login"
  THEN /\ requests' = requests \ {r}
       /\ excuses' = excuses \cup why
       /\ UNCHANGED <<scope, focus, sent>>
  ELSE Start("login", requests \ {r}, sent + 1)

\* (Mutant of the next definition: a 403 is treated as a 500 is.)
ForbiddenKept(r) ==
  /\ r.answer = "forbidden"
  /\ requests' = requests \ {r}
  /\ UNCHANGED <<scope, shared, session, sent, excuses>>

\* responseError, also for a scope that was left.
Forbidden(r) ==
  /\ r.answer = "forbidden"
  /\ GoToLogin(r, {})
  /\ UNCHANGED <<username, shown, session>>

\* On the login page nobody asks who is logged in after a logout.
LoggedOut(r) ==
  /\ r.kind = "logout"
  /\ r.answer = "ok"
  /\ GoToLogin(r, {"name"})
  /\ UNCHANGED <<username, shown, session>>

\* (Mutant of the next definition: the login page is not told of the new user.)
NoInfo(number) == {}

Info(number) == {Request(number, "info", None, visit)}

\* login: getLoginAndVersionInfo(), and the user is sent to the listing of runs, whose
\* controller starts with a request of its own.
LoggedIn(r) ==
  /\ r.kind = "login"
  /\ r.answer = "ok"
  /\ LET held == (requests \ {r}) \cup Info(sent + 1)
     IN  IF page = Home
         THEN /\ sent' = sent + 1
              /\ requests' = held
              /\ UNCHANGED <<scope, focus, excuses>>
         ELSE Start(Home, held, sent + 2)
  /\ UNCHANGED <<username, shown, session>>

-----------------------------------------------------------------------------
\* The menubar starts a VersionController and an AuthController beside the page's own.
Init ==
  /\ page \in Page
  /\ visit = 1
  /\ loading = (page # "login")
  /\ currentPage = (IF page \in Listing THEN 1 ELSE 0)
  /\ rows = 0
  /\ focus = None
  /\ username = None
  /\ session \in User \cup {None}
  /\ sent = 3
  /\ requests = {Request(1, "info", None, 1), Request(2, "info", None, 1), FirstRequest(3, page, 1)}
  /\ shown = 0
  /\ excuses = {}

Act ==
  \/ \E p \in Page : Open(p)
  \/ \E n \in 1..LastPage : TurnPage(n)
  \/ \E u \in User : Login(u)
  \/ Logout

Network ==
  \E r \in requests :
    \/ ServeRead(r) \/ ServeAuth(r) \/ Refuse(r) \/ Fail(r)
    \/ ShowItem(r) \/ ShowRows(r) \/ ShowName(r)
    \/ Forbidden(r) \/ LoggedIn(r) \/ LoggedOut(r)

Next == Act \/ Network

\* A request is answered or fails in the end.
Spec == Init /\ [][Next]_vars /\ WF_vars(Network)

-----------------------------------------------------------------------------
(* The rows of a run under its page: flattenRun.                            *)

RecurseFlattenRun[at \in Process \X Nat] ==
  LET process == at[1]
      level   == at[2]
      below   == [i \in 1..Len(Parts[process]) |-> RecurseFlattenRun[<<Parts[process][i], level + 1>>]]
  IN  <<[item |-> process, level |-> level]>> \o FlattenSeq(below)

\* (Mutant of the next definition: the run itself stays.)
FlattenRunWhole == IF focus = None THEN <<>> ELSE RecurseFlattenRun[<<focus, 0>>]

\* steps.shift() takes the run itself off.
FlattenRun == IF focus = None THEN <<>> ELSE Tail(RecurseFlattenRun[<<focus, 0>>])

-----------------------------------------------------------------------------
\* The data DataService shares between the controllers: a page never shows the item of
\* another one, in its table or in the trail above it, and a page that has stopped
\* loading shows its own, unless the answer for a page that was left came last.
FocusIsOfThePage ==
  page # "login" /\ "focus" \notin excuses =>
    /\ focus \in {None, page}
    /\ page \in Item /\ ~loading => focus = page

\* Paging of the listings: when all its requests are answered a listing shows the page
\* that is chosen, unless that page's answer is lost or came before an earlier one's.
RowsAreOfTheCurrentPage ==
  page \in Listing /\ (\A r \in requests : r.kind = "rows" => r.visit # visit) =>
    rows = currentPage \/ "rows" \in excuses

\* Login, logout and getLoginAndVersionInfo: when no request about it is in the air the
\* user shown is the user of the session, unless one was lost, answers about it crossed,
\* or the logout happened on the login page.
NameIsOfTheSession ==
  (\A r \in requests : r.kind \in {"item", "rows"}) =>
    username = session \/ "name" \in excuses

\* flattenRun: under a run there is one row for each row but the first of its tree, and
\* every row but those of level 1 stands below its parent, one level deeper, with none
\* of a smaller level in between.
FlattenedInOrder ==
  LET rs == FlattenRun
      within == {focus} \cup {row.item : row \in ToSet(rs)}
      Above(i) == {j \in 1..(i - 1) : rs[j].level < rs[i].level}
      ParentOf(i) == IF Above(i) = {} THEN focus ELSE rs[Max(Above(i))].item
  IN  focus # None =>
        /\ Len(rs) + 1 = Cardinality(within)
        /\ \A x \in within : ToSet(Parts[x]) \subseteq within
        /\ \A i \in DOMAIN rs : /\ rs[i].item \in ToSet(Parts[ParentOf(i)])
                                /\ rs[i].level = 1 <=> Above(i) = {}
                                /\ Above(i) # {} => rs[i].level = rs[Max(Above(i))].level + 1

\* Every page: the picture that says it is loading goes away, or the page is left,
\* unless the page's request is lost (nothing in the portal retries).
LoadingEnds == loading ~> ~loading \/ "loading" \in excuses

\* The inductive invariant.  Requests are of the kind their target says, and a request of
\* the page that is shown is about that page; a listing that does not show the chosen page
\* has its request under way; and if the name shown is not that of the session, either an
\* answered login or logout is still to be followed by a question, or a question under way
\* will bring it and none that was asked later will undo it.
RequestRecord ==
  [number : Nat, kind : Kind, target : Item \cup User \cup {None} \cup 1..LastPage,
   visit : Nat, answer : Answer]

RequestsKnown ==
  /\ requests \subseteq RequestRecord
  /\ \A r \in requests :
       /\ r.kind = "item" => r.target \in Item
       /\ r.kind = "rows" => r.target \in 1..LastPage
       /\ r.kind = "info" => r.target \in User \cup {None}
       /\ r.kind \in {"login", "logout"} => r.target \in User \cup {None}
       /\ r.answer = "forbidden" => r.kind \in {"item", "rows"}

RequestsOfThePage ==
  \A r \in requests : r.visit = visit =>
    /\ r.kind = "item" => page \in Item /\ r.target = page
    /\ r.kind = "rows" => page \in Listing

RowsAreComing ==
  page \in Listing =>
    \/ rows = currentPage
    \/ "rows" \in excuses
    \/ \E r \in requests : r.kind = "rows" /\ r.visit = visit /\ r.target = currentPage

Followed(r) == r.kind \in {"login", "logout"} /\ r.answer = "ok"
Stale(r)    == r.kind = "info" /\ r.answer = "ok" /\ r.target # session
Fresh(r)    == r.kind = "info" /\ ~Stale(r)

NameIsComing ==
  \/ "name" \in excuses
  \/ \E r \in requests : Followed(r)
  \/ \E r \in requests : Fresh(r) /\ \A s \in requests : Stale(s) => s.number < r.number
  \/ username = session /\ \A s \in requests : Stale(s) => s.number < shown

IInv == /\ TypeOK /\ RequestsKnown /\ RequestsOfThePage /\ FocusIsOfThePage
        /\ RowsAreComing /\ NameIsComing
=============================================================================
