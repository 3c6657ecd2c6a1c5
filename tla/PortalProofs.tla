---------------------------- MODULE PortalProofs ----------------------------
(***************************************************************************)
(* Proofs about Portal, for any pages, users and number of requests: its   *)
(* inductive invariant, the three invariants about what is shown that      *)
(* follow from it, and the order of the rows under a run.                  *)
(***************************************************************************)
EXTENDS Portal, Induction

-----------------------------------------------------------------------------
(* Sets of requests.                                                        *)

\* A request with number up to n, sent in a visit up to v.
Sound(r, n, v) ==
  /\ r \in RequestRecord
  /\ r.number \in 1..n
  /\ r.visit \in 1..v
  /\ r.kind = "item" => r.target \in Item
  /\ r.kind = "rows" => r.target \in 1..LastPage
  /\ r.kind \in {"info", "login", "logout"} => r.target \in User \cup {None}
  /\ r.answer = "forbidden" => r.kind \in {"item", "rows"}

RequestSet(Q, n, v) ==
  /\ n \in Nat /\ v \in Nat
  /\ \A r \in Q : Sound(r, n, v)
  /\ \A r, s \in Q : r.number = s.number => r = s

\* The fields of a request.
LEMMA RequestFields ==
  ASSUME NEW r, r \in RequestRecord
  PROVE  /\ r.number \in Nat /\ r.kind \in Kind /\ r.visit \in Nat /\ r.answer \in Answer
         /\ r.target \in Item \cup User \cup {None} \cup 1..LastPage
  BY DEF RequestRecord

\* Requests that are answered leave the set as it should be, and so does a new visit.
LEMMA Fewer ==
  ASSUME NEW Q, NEW P \in SUBSET Q, NEW n, NEW v, RequestSet(Q, n, v),
         NEW m \in Nat, NEW w \in Nat, m >= n, w >= v
  PROVE  RequestSet(P, m, w)
  BY DEF RequestSet, Sound

\* So does one more request with the next number.
LEMMA OneMore ==
  ASSUME NEW Q, NEW n, NEW v, RequestSet(Q, n, v), NEW q, Sound(q, n + 1, v), q.number = n + 1
  PROVE  RequestSet(Q \cup {q}, n + 1, v)
<1>1. \A r \in Q : Sound(r, n + 1, v) /\ r.number # q.number
  BY DEF RequestSet, Sound
<1> QED
  BY <1>1 DEF RequestSet

\* So does a request that takes the place of one with the same number.
LEMMA Replaced ==
  ASSUME NEW Q, NEW n, NEW v, RequestSet(Q, n, v), NEW r \in Q, NEW q, Sound(q, n, v),
         q.number = r.number
  PROVE  RequestSet((Q \ {r}) \cup {q}, n, v)
  BY DEF RequestSet

\* A request that is sent is sound.
LEMMA RequestSound ==
  ASSUME NEW n \in Nat \ {0}, NEW v \in Nat \ {0}, NEW kind \in Kind, NEW target,
         kind = "item" => target \in Item,
         kind = "rows" => target \in 1..LastPage,
         kind \in {"info", "login", "logout"} => target \in User \cup {None}
  PROVE  LET q == Request(n, kind, target, v)
         IN  /\ Sound(q, n, v)
             /\ q.number = n /\ q.kind = kind /\ q.target = target /\ q.visit = v
             /\ q.answer = "none"
  BY DEF Request, RequestRecord, Sound, Kind, Answer

\* The request with which the controller of a page starts is about that page.
LEMMA FirstRequestKnown ==
  ASSUME NEW n \in Nat \ {0}, NEW p \in Page, NEW v \in Nat \ {0}
  PROVE  LET q == FirstRequest(n, p, v)
         IN  /\ Sound(q, n, v)
             /\ q.number = n /\ q.visit = v /\ q.answer = "none"
             /\ q.kind = "item" => p \in Item /\ q.target = p
             /\ q.kind = "rows" => p \in Listing
             /\ p \in Listing => q.kind = "rows" /\ q.target = 1
             /\ p = "login" => q.kind = "info"
<1> USE ItemAssumption, BoundAssumption DEF FirstRequest, Page, Kind
<1>1. CASE p \in Item     BY <1>1, RequestSound
<1>2. CASE p \in Listing  BY <1>2, RequestSound
<1>3. CASE p = "login"    BY <1>3, RequestSound
<1> QED
  BY <1>1, <1>2, <1>3

\* The server changes the answer of a request, and the target of one for the name.
LEMMA AnswerSound ==
  ASSUME NEW n, NEW v, NEW r, Sound(r, n, v), NEW answer \in Answer, NEW target,
         answer = "forbidden" => r.kind \in {"item", "rows"},
         r.kind = "info" => target \in User \cup {None},
         r.kind # "info" => target = r.target
  PROVE  LET q == Answered(r, answer, target)
         IN  /\ Sound(q, n, v)
             /\ q.number = r.number /\ q.visit = r.visit /\ q.kind = r.kind
             /\ q.answer = answer /\ q.target = target
<1> DEFINE q == [r EXCEPT !.answer = answer, !.target = target]
           p == [number |-> r.number, kind |-> r.kind, target |-> r.target, visit |-> r.visit,
                 answer |-> answer]
<1>1. p = [r EXCEPT !.answer = answer]
  BY DEF Sound, RequestRecord
<1>2. q = [p EXCEPT !.target = target]
  BY <1>1, Zenon
<1> HIDE DEF q
<1>3. /\ q = [number |-> r.number, kind |-> r.kind, target |-> target, visit |-> r.visit,
              answer |-> answer]
  BY <1>2
<1>4. target \in Item \cup User \cup {None} \cup 1..LastPage
  BY DEF Sound, RequestRecord, Kind
<1>5. q \in RequestRecord
  BY <1>3, <1>4 DEF Sound, RequestRecord
<1>6. /\ Sound(q, n, v)
      /\ q.number = r.number /\ q.visit = r.visit /\ q.kind = r.kind
      /\ q.answer = answer /\ q.target = target
  BY <1>3, <1>5 DEF Sound
<1> QED
  BY <1>6 DEF q, Answered

-----------------------------------------------------------------------------
(* Types.                                                                   *)

Known == TypeOK /\ RequestsKnown

Scalars ==
  /\ page \in Page
  /\ visit \in Nat \ {0}
  /\ loading \in BOOLEAN
  /\ currentPage \in 0..LastPage
  /\ rows \in 0..LastPage
  /\ page \in Listing <=> currentPage # 0
  /\ focus \in Item \cup {None}
  /\ username \in User \cup {None}
  /\ session \in User \cup {None}
  /\ shown \in 0..sent
  /\ excuses \subseteq {"focus", "rows", "loading", "name"}

Requests == RequestSet(requests, sent, visit)

\* What is known falls into what is shown and what is under way.
LEMMA KnownParts == Known <=> Scalars /\ Requests
<1>1. Known => Scalars /\ Requests
  BY DEF Known, TypeOK, RequestsKnown, Scalars, Requests, RequestSet, Sound
<1>2. Scalars /\ Requests => RequestsKnown
  BY DEF RequestsKnown, Requests, RequestSet, Sound
<1>3. Scalars /\ Requests => TypeOK
  BY RequestFields DEF TypeOK, Scalars, Requests, RequestSet, Sound
<1> QED
  BY <1>1, <1>2, <1>3 DEF Known

\* So it is when a page is opened.
LEMMA StartKnown ==
  ASSUME Scalars, Requests, NEW p \in Page, NEW held, NEW n \in Nat, n >= sent,
         RequestSet(held, n, visit), Start(p, held, n + 1), username' = username,
         shown' = shown, session' = session
  PROVE  Scalars' /\ Requests'
<1> USE DEF Requests
<1> visit \in Nat /\ visit + 1 \in Nat \ {0} /\ visit + 1 >= visit /\ n >= n
  BY DEF RequestSet
<1>1. RequestSet(held, n, visit + 1)
  BY Fewer
<1>2. Sound(FirstRequest(n + 1, p, visit + 1), n + 1, visit + 1)
      /\ FirstRequest(n + 1, p, visit + 1).number = n + 1
  BY FirstRequestKnown
<1>3. Requests'
  BY <1>1, <1>2, OneMore DEF Start
<1>4. /\ page' \in Page /\ visit' \in Nat \ {0} /\ loading' \in BOOLEAN /\ rows' \in 0..LastPage
      /\ page' \in Listing <=> currentPage' # 0
      /\ currentPage' \in 0..LastPage
  BY BoundAssumption DEF Start
<1>5. focus' \in Item \cup {None}
  BY DEF Scalars, Start, ClearFocus
<1>6. shown' \in 0..sent'
  BY DEF Scalars, Start, RequestSet
<1>7. excuses' \subseteq {"focus", "rows", "loading", "name"}
  BY DEF Scalars, Start, Kept
<1>8. Scalars'
  BY <1>4, <1>5, <1>6, <1>7 DEF Scalars
<1> QED
  BY <1>3, <1>8

\* Every step keeps the types.
LEMMA KnownStep == Known /\ [Next]_vars => Known'
<1>0. Known' <=> Scalars' /\ Requests'
  BY KnownParts, PTL
<1> SUFFICES ASSUME Scalars, Requests, [Next]_vars PROVE Scalars' /\ Requests'
  BY <1>0, KnownParts
<1> sent \in Nat /\ visit \in Nat \ {0} /\ sent + 1 \in Nat \ {0} /\ sent + 2 \in Nat \ {0}
    /\ sent >= sent /\ visit >= visit /\ sent + 1 >= sent
    /\ page \in Page /\ "login" \in Page /\ Home \in Page
  BY ItemAssumption DEF Requests, RequestSet, Scalars, Page
<1>a. \A r \in requests : /\ Sound(r, sent, visit)
                          /\ r \in RequestRecord
                          /\ RequestSet(requests \ {r}, sent, visit)
  <2>1. \A r \in requests : Sound(r, sent, visit)
    BY DEF Requests, RequestSet
  <2>2. \A r \in requests : r \in RequestRecord
    BY <2>1 DEF Sound
  <2>3. \A r \in requests : RequestSet(requests \ {r}, sent, visit)
    BY Fewer DEF Requests
  <2> QED
    BY <2>1, <2>2, <2>3
<1>1. ASSUME NEW p \in Page, Open(p) PROVE Scalars' /\ Requests'
  BY <1>1, StartKnown DEF Open, Requests
<1>2. ASSUME NEW n \in 1..LastPage, TurnPage(n) PROVE Scalars' /\ Requests'
  <2>1. Sound(Request(sent + 1, "rows", n, visit), sent + 1, visit)
        /\ Request(sent + 1, "rows", n, visit).number = sent + 1
    BY RequestSound DEF Kind
  <2>2. RequestSet(requests \cup {Request(sent + 1, "rows", n, visit)}, sent + 1, visit)
    BY <2>1, OneMore DEF Requests
  <2> QED
    BY <1>2, <2>2 DEF TurnPage, Scalars, Requests
<1>3. ASSUME NEW kind \in {"login", "logout"}, NEW u \in User \cup {None}, Ask(kind, u)
      PROVE  Scalars' /\ Requests'
  <2>1. Sound(Request(sent + 1, kind, u, visit), sent + 1, visit)
        /\ Request(sent + 1, kind, u, visit).number = sent + 1
    BY RequestSound DEF Kind
  <2>2. RequestSet(requests \cup {Request(sent + 1, kind, u, visit)}, sent + 1, visit)
    BY <2>1, OneMore DEF Requests
  <2> QED
    BY <1>3, <2>2 DEF Ask, Scalars, Requests, scope, shared
<1>4. ASSUME NEW r \in requests, NEW answer \in Answer, NEW target, Served(r, answer, target),
             answer = "forbidden" => r.kind \in {"item", "rows"},
             r.kind = "info" => target \in User \cup {None},
             r.kind # "info" => target = r.target,
             UNCHANGED <<sent, visit>>
      PROVE  Requests'
  <2> DEFINE q == Answered(r, answer, target)
  <2>1. Sound(r, sent, visit)
    BY <1>a
  <2>2. Sound(q, sent, visit) /\ q.number = r.number
    BY <1>4, <2>1, AnswerSound
  <2> HIDE DEF q
  <2>3. RequestSet((requests \ {r}) \cup {q}, sent, visit)
    BY <2>2, Replaced DEF Requests
  <2> QED
    BY <1>4, <2>3 DEF q, Served, Requests
<1>5. ASSUME NEW r \in requests, ServeRead(r) PROVE Scalars' /\ Requests'
  <2>1. Scalars'
    BY <1>5 DEF ServeRead, Scalars, scope, shared
  <2>2. UNCHANGED <<sent, visit>>
    BY <1>5 DEF ServeRead, scope
  <2>3. CASE r.kind = "info" /\ Served(r, "ok", session)
    <3> session \in User \cup {None} /\ "ok" \in Answer
      BY DEF Scalars, Answer
    <3> QED
      BY <1>4, <2>1, <2>2, <2>3
  <2>4. CASE /\ r.kind \in {"item", "rows"}
             /\ Served(r, IF LoginRequired /\ session = None THEN "forbidden" ELSE "ok", r.target)
    <3> DEFINE answer == IF LoginRequired /\ session = None THEN "forbidden" ELSE "ok"
    <3> answer \in Answer
      BY DEF Answer
    <3> HIDE DEF answer
    <3>1. Served(r, answer, r.target)
      BY <2>4 DEF answer
    <3> QED
      BY <1>4, <2>1, <2>2, <2>4, <3>1
  <2> QED
    BY <1>5, <2>1, <2>3, <2>4 DEF ServeRead
<1>6. ASSUME NEW r \in requests, ServeAuth(r) PROVE Scalars' /\ Requests'
  <2>1. Scalars'
    BY <1>6, <1>a DEF ServeAuth, Scalars, Sound, scope, shared
  <2>2. UNCHANGED <<sent, visit>> /\ r.kind \in {"login", "logout"} /\ Served(r, "ok", r.target)
    BY <1>6 DEF ServeAuth, scope
  <2>3. Requests'
    BY <1>4, <2>2 DEF Answer
  <2> QED
    BY <2>1, <2>3
<1>7. ASSUME NEW r \in requests, Refuse(r) PROVE Scalars' /\ Requests'
  BY <1>7, <1>a DEF Refuse, Scalars, Requests, scope, shared
<1>8. ASSUME NEW r \in requests, Fail(r) PROVE Scalars' /\ Requests'
  BY <1>8, <1>a DEF Fail, Excuse, Scalars, Requests, scope, shared
<1>9. ASSUME NEW r \in requests, ShowItem(r) PROVE Scalars' /\ Requests'
  BY <1>9, <1>a DEF ShowItem, Scalars, Requests, Sound
<1>10. ASSUME NEW r \in requests, ShowRows(r) PROVE Scalars' /\ Requests'
  <2>1. rows' \in 0..LastPage /\ loading' \in BOOLEAN
    <3>1. r.target \in 1..LastPage
      BY <1>10, <1>a DEF ShowRows, Sound
    <3>2. CASE r.visit = visit
      <4>1. rows' = r.target /\ loading' = FALSE
        BY <1>10, <3>2 DEF ShowRows
      <4>2. \A t \in 1..LastPage : t \in 0..LastPage
        BY BoundAssumption
      <4> QED
        BY <3>1, <4>1, <4>2
    <3>3. CASE r.visit # visit
      BY <1>10, <3>3 DEF ShowRows, Scalars
    <3> QED
      BY <3>2, <3>3
  <2>2. excuses' \subseteq {"focus", "rows", "loading", "name"}
    BY <1>10 DEF ShowRows, Scalars
  <2>3. Requests'
    BY <1>10, <1>a DEF ShowRows, Requests
  <2> QED
    BY <1>10, <2>1, <2>2, <2>3 DEF ShowRows, Scalars, shared
<1>11. ASSUME NEW r \in requests, ShowName(r) PROVE Scalars' /\ Requests'
  BY <1>11, <1>a DEF ShowName, Scalars, Requests, Sound, scope
<1>12. ASSUME NEW r \in requests, NEW why \in SUBSET {"name"}, GoToLogin(r, why),
              UNCHANGED <<username, shown, session>>
       PROVE  Scalars' /\ Requests'
  <2>1. CASE page = "login"
    BY <1>12, <1>a, <2>1 DEF GoToLogin, Scalars, Requests, scope
  <2>2. CASE page # "login"
    BY <1>12, <1>a, <2>2, StartKnown DEF GoToLogin
  <2> QED
    BY <2>1, <2>2
<1>13. ASSUME NEW r \in requests, LoggedIn(r) PROVE Scalars' /\ Requests'
  <2> DEFINE info == Request(sent + 1, "info", None, visit)
             held == (requests \ {r}) \cup {info}
  <2>1. Sound(info, sent + 1, visit) /\ info.number = sent + 1
    BY <1>a, RequestSound DEF Kind
  <2>2. RequestSet(held, sent + 1, visit)
    BY <1>a, <2>1, OneMore
  <2>3. held = (requests \ {r}) \cup Info(sent + 1)
    BY DEF Info
  <2> HIDE DEF held, info
  <2>4. CASE page = Home
    <3>1. sent' = sent + 1 /\ requests' = held /\ UNCHANGED <<scope, focus, excuses, username, shown, session>>
      BY <1>13, <2>3, <2>4 DEF LoggedIn
    <3>2. Requests'
      BY <2>2, <3>1 DEF Requests, scope
    <3>3. shown' \in 0..sent'
      BY <3>1 DEF Scalars
    <3> QED
      BY <3>1, <3>2, <3>3 DEF Scalars, scope
  <2>5. CASE page # Home
    <3>1. Start(Home, held, (sent + 1) + 1) /\ UNCHANGED <<username, shown, session>>
      BY <1>13, <2>3, <2>5 DEF LoggedIn
    <3> QED
      BY <2>2, <3>1, StartKnown
  <2> QED
    BY <2>4, <2>5
<1>14. ASSUME Act PROVE Scalars' /\ Requests'
  <2>1. ASSUME NEW u \in User, Login(u) PROVE Scalars' /\ Requests'
    BY <1>3, <2>1 DEF Login
  <2>2. CASE Logout
    BY <1>3, <2>2 DEF Logout
  <2> QED
    BY <1>1, <1>2, <1>14, <2>1, <2>2 DEF Act
<1>15. ASSUME Network PROVE Scalars' /\ Requests'
  <2>1. PICK r \in requests :
          \/ ServeRead(r) \/ ServeAuth(r) \/ Refuse(r) \/ Fail(r)
          \/ ShowItem(r) \/ ShowRows(r) \/ ShowName(r)
          \/ Forbidden(r) \/ LoggedIn(r) \/ LoggedOut(r)
    BY <1>15 DEF Network
  <2>2. CASE Forbidden(r)
    BY <1>12, <2>2 DEF Forbidden
  <2>3. CASE LoggedOut(r)
    BY <1>12, <2>3 DEF LoggedOut
  <2> QED
    BY <1>5, <1>6, <1>7, <1>8, <1>9, <1>10, <1>11, <1>13, <2>1, <2>2, <2>3
<1>16. CASE UNCHANGED vars
  BY <1>16 DEF vars, scope, shared, Scalars, Requests
<1> QED
  BY <1>14, <1>15, <1>16 DEF Next

-----------------------------------------------------------------------------
(* What the actions do to the requests.                                     *)

\* A request that is served keeps its number, its kind and its visit.
LEMMA ServeFacts ==
  ASSUME Known, NEW r \in requests, ServeRead(r) \/ ServeAuth(r)
  PROVE  \E a : /\ requests' = (requests \ {r}) \cup {a}
                /\ a.number = r.number /\ a.visit = r.visit /\ a.kind = r.kind
                /\ a.kind # "info" => a.target = r.target
                /\ r.kind = "info" => a.target = session
                /\ r.kind \in {"info", "login", "logout"} => a.answer = "ok"
                /\ r.answer = "none"
                /\ r.kind \notin {"login", "logout"} => session' = session
                /\ UNCHANGED <<scope, shared, sent, excuses>>
<1>1. Sound(r, sent, visit)
  BY KnownParts DEF Requests, RequestSet
<1>2. session \in User \cup {None}
  BY KnownParts DEF Scalars
<1> DEFINE answer == IF LoginRequired /\ session = None THEN "forbidden" ELSE "ok"
<1>3. answer \in Answer /\ "ok" \in Answer
  BY DEF Answer
<1> HIDE DEF answer
<1>4. CASE ServeRead(r) /\ r.kind = "info"
  <2> DEFINE a == Answered(r, "ok", session)
  <2>1. /\ a.number = r.number /\ a.visit = r.visit /\ a.kind = r.kind
        /\ a.answer = "ok" /\ a.target = session
    BY <1>1, <1>2, <1>3, <1>4, AnswerSound
  <2>2. requests' = (requests \ {r}) \cup {a}
    BY <1>4 DEF ServeRead, Served
  <2> HIDE DEF a
  <2> QED
    BY <1>4, <2>1, <2>2 DEF ServeRead
<1>5. CASE ServeRead(r) /\ r.kind \in {"item", "rows"}
  <2> DEFINE a == Answered(r, answer, r.target)
  <2>1. a.number = r.number /\ a.visit = r.visit /\ a.kind = r.kind /\ a.target = r.target
    BY <1>1, <1>3, <1>5, AnswerSound
  <2>2. requests' = (requests \ {r}) \cup {a}
    BY <1>5 DEF ServeRead, Served, answer
  <2> HIDE DEF a
  <2> QED
    BY <1>5, <2>1, <2>2 DEF ServeRead
<1>6. CASE ServeAuth(r)
  <2> DEFINE a == Answered(r, "ok", r.target)
  <2>1. /\ a.number = r.number /\ a.visit = r.visit /\ a.kind = r.kind
        /\ a.answer = "ok" /\ a.target = r.target
    BY <1>1, <1>3, <1>6, AnswerSound DEF ServeAuth
  <2>2. requests' = (requests \ {r}) \cup {a}
    BY <1>6 DEF ServeAuth, Served
  <2> HIDE DEF a
  <2> QED
    BY <1>6, <2>1, <2>2 DEF ServeAuth
<1> QED
  BY <1>4, <1>5, <1>6 DEF ServeRead

-----------------------------------------------------------------------------
(* The page and its listing.                                                *)

PageShown == RequestsOfThePage /\ FocusIsOfThePage

\* A page that is opened has only its own request.
LEMMA StartShows ==
  ASSUME Known, NEW p \in Page, NEW held, \A r \in held : r.visit \in 1..visit,
         NEW n \in Nat \ {0}, Start(p, held, n)
  PROVE  PageShown' /\ RowsAreComing'
<1>1. visit + 1 \in Nat \ {0} /\ visit' = visit + 1 /\ \A r \in held : r.visit # visit'
  BY DEF Known, TypeOK, Start
<1> DEFINE q == FirstRequest(n, p, visit')
<1>2. /\ q.visit = visit'
      /\ q.kind = "item" => p \in Item /\ q.target = p
      /\ q.kind = "rows" => p \in Listing
      /\ p \in Listing => q.kind = "rows" /\ q.target = 1
  BY <1>1, FirstRequestKnown
<1>3. requests' = held \cup {q} /\ page' = p
  BY DEF Start
<1> HIDE DEF q
<1>4. RequestsOfThePage'
  BY <1>1, <1>2, <1>3 DEF RequestsOfThePage
<1>5. FocusIsOfThePage'
  BY DEF Start, ClearFocus, FocusIsOfThePage
<1>6. RowsAreComing'
  BY <1>2, <1>3 DEF Start, RowsAreComing
<1> QED
  BY <1>4, <1>5, <1>6 DEF PageShown

\* Requests about pages that stay as they are do no harm.
LEMMA PageKept ==
  ASSUME PageShown, UNCHANGED <<page, visit, loading, focus>>,
         "focus" \in excuses => "focus" \in excuses',
         \A q \in requests' : q.kind \in {"item", "rows"} =>
           \E r \in requests : r.kind = q.kind /\ r.visit = q.visit /\ r.target = q.target
  PROVE  PageShown'
<1>1. FocusIsOfThePage'
  BY DEF PageShown, FocusIsOfThePage
<1>2. RequestsOfThePage'
  BY DEF PageShown, RequestsOfThePage
<1> QED
  BY <1>1, <1>2 DEF PageShown

\* The chosen page of a listing is still coming if its request is still there.
LEMMA RowsKept ==
  ASSUME RowsAreComing, UNCHANGED <<page, visit, currentPage, rows>>,
         "rows" \in excuses => "rows" \in excuses',
         \A r \in requests : r.kind = "rows" /\ r.visit = visit =>
           \E q \in requests' : q.kind = "rows" /\ q.visit = r.visit /\ q.target = r.target
  PROVE  RowsAreComing'
  BY DEF RowsAreComing

\* A question about the name is asked, of this visit.
LEMMA InfoFacts ==
  ASSUME Known
  PROVE  \E q : /\ Info(sent + 1) = {q} /\ q.number = sent + 1 /\ q.kind = "info"
                /\ q.visit = visit /\ q.answer = "none"
<1>1. sent + 1 \in Nat \ {0} /\ visit \in Nat \ {0} /\ "info" \in Kind
  BY DEF Known, TypeOK, Kind
<1> DEFINE q == Request(sent + 1, "info", None, visit)
<1>2. q.number = sent + 1 /\ q.kind = "info" /\ q.visit = visit /\ q.answer = "none"
  BY <1>1, RequestSound
<1>3. Info(sent + 1) = {q}
  BY DEF Info
<1> HIDE DEF q
<1> QED
  BY <1>2, <1>3

\* Likewise a login or a logout that is sent.
LEMMA AskFacts ==
  ASSUME Known, NEW kind \in {"login", "logout"}, NEW u \in User \cup {None}, Ask(kind, u)
  PROVE  \E q : requests' = requests \cup {q} /\ q.kind = kind /\ q.answer = "none"
<1>1. sent + 1 \in Nat \ {0} /\ visit \in Nat \ {0} /\ kind \in Kind
  BY DEF Known, TypeOK, Kind
<1> DEFINE q == Request(sent + 1, kind, u, visit)
<1>2. q.kind = kind /\ q.answer = "none"
  BY <1>1, RequestSound
<1>3. requests' = requests \cup {q}
  BY DEF Ask
<1> HIDE DEF q
<1> QED
  BY <1>2, <1>3

\* Every step keeps the page with what belongs to it, and the rows of its listing coming.
LEMMA PageStep ==
  ASSUME Known, PageShown, RowsAreComing, [Next]_vars
  PROVE  PageShown' /\ RowsAreComing'
<1>1. /\ sent \in Nat /\ sent + 1 \in Nat \ {0} /\ sent + 2 \in Nat \ {0} /\ visit \in Nat \ {0}
      /\ visit \in 1..visit /\ "login" \in Page /\ Home \in Page
      /\ \A r \in requests : r.visit \in 1..visit
  BY ItemAssumption DEF Known, TypeOK, Page
<1>2. ASSUME NEW p \in Page, Open(p) PROVE PageShown' /\ RowsAreComing'
  BY <1>1, <1>2, StartShows DEF Open
<1>3. ASSUME NEW n \in 1..LastPage, TurnPage(n) PROVE PageShown' /\ RowsAreComing'
  <2> DEFINE q == Request(sent + 1, "rows", n, visit)
  <2>1. q.kind = "rows" /\ q.target = n /\ q.visit = visit
    BY <1>1, RequestSound DEF Kind
  <2>2. requests' = requests \cup {q}
    BY <1>3 DEF TurnPage
  <2> HIDE DEF q
  <2>3. RequestsOfThePage'
    BY <1>3, <2>1, <2>2 DEF TurnPage, PageShown, RequestsOfThePage
  <2>4. FocusIsOfThePage'
    BY <1>3, ItemAssumption DEF TurnPage, FocusIsOfThePage
  <2>5. RowsAreComing'
    BY <1>3, <2>1, <2>2 DEF TurnPage, RowsAreComing
  <2> QED
    BY <2>3, <2>4, <2>5 DEF PageShown
<1>4. ASSUME NEW kind \in {"login", "logout"}, NEW u \in User \cup {None}, Ask(kind, u)
      PROVE  PageShown' /\ RowsAreComing'
  <2>1. UNCHANGED <<scope, shared, excuses>>
    BY <1>4 DEF Ask
  <2>2. PICK q : requests' = requests \cup {q} /\ q.kind = kind
    BY <1>4, AskFacts
  <2> QED
    BY <2>1, <2>2, PageKept, RowsKept DEF scope, shared
<1>5. ASSUME NEW r \in requests, ServeRead(r) \/ ServeAuth(r) PROVE PageShown' /\ RowsAreComing'
  <2>1. PICK a : /\ requests' = (requests \ {r}) \cup {a}
                 /\ a.visit = r.visit /\ a.kind = r.kind
                 /\ a.kind # "info" => a.target = r.target
                 /\ UNCHANGED <<scope, shared, excuses>>
    BY <1>5, ServeFacts
  <2> QED
    BY <2>1, PageKept, RowsKept DEF scope, shared
<1>6. ASSUME NEW r \in requests, Refuse(r) PROVE PageShown' /\ RowsAreComing'
  BY <1>6, PageKept, RowsKept DEF Refuse, scope, shared
<1>7. ASSUME NEW r \in requests, Fail(r) PROVE PageShown' /\ RowsAreComing'
  <2>1. PageShown'
    BY <1>7, PageKept DEF Fail, scope, shared
  <2>2. CASE r.kind = "rows" /\ r.visit = visit
    BY <1>7, <2>1, <2>2 DEF Fail, Excuse, RowsAreComing, scope
  <2>3. CASE ~(r.kind = "rows" /\ r.visit = visit)
    BY <1>7, <2>1, <2>3, RowsKept DEF Fail, scope
  <2> QED
    BY <2>1, <2>2, <2>3
<1>8. ASSUME NEW r \in requests, ShowItem(r) PROVE PageShown' /\ RowsAreComing'
  <2>1. RowsAreComing'
    BY <1>8, RowsKept DEF ShowItem
  <2>2. RequestsOfThePage'
    BY <1>8 DEF ShowItem, PageShown, RequestsOfThePage
  <2>3. CASE r.visit = visit
    <3>1. focus' = page'
      BY <1>8, <2>3 DEF ShowItem, PageShown, RequestsOfThePage
    <3> QED
      BY <2>1, <2>2, <3>1 DEF PageShown, FocusIsOfThePage
  <2>4. CASE r.visit # visit
    <3>1. "focus" \in excuses'
      BY <1>8, <2>4 DEF ShowItem
    <3> QED
      BY <2>1, <2>2, <3>1 DEF PageShown, FocusIsOfThePage
  <2> QED
    BY <2>3, <2>4
<1>9. ASSUME NEW r \in requests, ShowRows(r) PROVE PageShown' /\ RowsAreComing'
  <2>1. CASE r.visit = visit
    <3>1. RequestsOfThePage' /\ page' \notin Item
      BY <1>9, <2>1, ItemAssumption DEF ShowRows, PageShown, RequestsOfThePage
    <3>2. FocusIsOfThePage'
      BY <1>9, <2>1, <3>1 DEF ShowRows, shared, PageShown, FocusIsOfThePage
    <3>3. RowsAreComing'
      BY <1>9, <2>1 DEF ShowRows, RowsAreComing
    <3> QED
      BY <3>1, <3>2, <3>3 DEF PageShown
  <2>2. CASE r.visit # visit
    BY <1>9, <2>2, PageKept, RowsKept DEF ShowRows, shared
  <2> QED
    BY <2>1, <2>2
<1>10. ASSUME NEW r \in requests, ShowName(r) PROVE PageShown' /\ RowsAreComing'
  BY <1>10, PageKept, RowsKept DEF ShowName, scope
<1>11. ASSUME NEW r \in requests, NEW why, GoToLogin(r, why) PROVE PageShown' /\ RowsAreComing'
  <2>1. CASE page # "login"
    BY <1>1, <1>11, <2>1, StartShows DEF GoToLogin
  <2>2. CASE page = "login"
    <3>1. page \notin Listing
      BY <2>2, ItemAssumption
    <3> QED
      BY <1>11, <2>2, <3>1, PageKept DEF GoToLogin, scope, RowsAreComing
  <2> QED
    BY <2>1, <2>2
<1>12. ASSUME NEW r \in requests, LoggedIn(r) PROVE PageShown' /\ RowsAreComing'
  <2>1. PICK q : Info(sent + 1) = {q} /\ q.kind = "info" /\ q.visit = visit
    BY InfoFacts
  <2>2. CASE page = Home
    <3>1. requests' = (requests \ {r}) \cup {q} /\ r.kind = "login" /\ UNCHANGED <<scope, focus, excuses>>
      BY <1>12, <2>1, <2>2 DEF LoggedIn
    <3> QED
      BY <2>1, <3>1, PageKept, RowsKept DEF scope
  <2>3. CASE page # Home
    <3>1. Start(Home, (requests \ {r}) \cup {q}, sent + 2)
      BY <1>12, <2>1, <2>3 DEF LoggedIn
    <3> QED
      BY <1>1, <2>1, <3>1, StartShows
  <2> QED
    BY <2>2, <2>3
<1>13. CASE Act
  BY <1>2, <1>3, <1>4, <1>13 DEF Act, Login, Logout
<1>14. CASE Network
  BY <1>5, <1>6, <1>7, <1>8, <1>9, <1>10, <1>11, <1>12, <1>14 DEF Network, Forbidden, LoggedOut
<1>15. CASE UNCHANGED vars
  BY <1>15, PageKept, RowsKept DEF vars, scope, shared
<1> QED
  BY <1>13, <1>14, <1>15 DEF Next

-----------------------------------------------------------------------------
(* The name.                                                                *)

\* Steps that are not about the name leave it coming.
LEMMA NameKept ==
  ASSUME NameIsComing, UNCHANGED <<session, username, shown>>,
         "name" \in excuses => "name" \in excuses',
         \A r \in requests : Followed(r) \/ r.kind = "info" => r \in requests',
         \A q \in requests' : q.kind = "info" /\ q.answer = "ok" => q \in requests
  PROVE  NameIsComing'
<1>1. \A q \in requests' : Stale(q)' => q \in requests /\ Stale(q)
  BY DEF Stale
<1>2. \A q : Fresh(q) => Fresh(q)'
  BY DEF Fresh, Stale
<1>3. \A q : Fresh(q) => q.kind = "info"
  BY DEF Fresh
<1> QED
  BY <1>1, <1>2, <1>3 DEF NameIsComing, Followed

\* A question that is asked after all those that are answered brings it.
LEMMA NameAsked ==
  ASSUME NEW a \in requests', a.kind = "info", a.answer = "none",
         \A q \in requests' : q.kind = "info" /\ q.answer = "ok" => q.number < a.number
  PROVE  NameIsComing'
<1>1. Fresh(a)'
  BY DEF Fresh, Stale
<1>2. \A s \in requests' : Stale(s)' => s.number < a.number
  BY DEF Stale
<1> QED
  BY <1>1, <1>2 DEF NameIsComing

\* The answer to a question about the name leaves it as it is or brings it.
LEMMA NameShown ==
  ASSUME Known, NameIsComing, NEW r \in requests, ShowName(r)
  PROVE  NameIsComing'
<1>1. /\ requests' = requests \ {r} /\ session' = session /\ username' = r.target
      /\ shown' = r.number /\ r.kind = "info" /\ r.answer = "ok"
  BY DEF ShowName
<1>2. /\ \A q \in requests : q.number \in Nat
      /\ shown \in Nat
  BY DEF Known, TypeOK
<1>3. \A q : /\ Stale(q)' <=> Stale(q)
             /\ Fresh(q)' <=> Fresh(q)
             /\ Followed(q)' <=> Followed(q)
  BY <1>1 DEF Fresh, Stale, Followed
<1>4. CASE r.number < shown
  BY <1>4 DEF ShowName, NameIsComing
<1>5. CASE r.target = session /\ \A s \in requests : Stale(s) => s.number < r.number \/ s = r
  <2>1. \A s \in requests' : Stale(s)' => s.number < shown'
    BY <1>1, <1>3, <1>5
  <2> QED
    BY <1>1, <1>5, <2>1 DEF NameIsComing
<1>6. CASE ~(r.number < shown) /\ "name" \in excuses /\ "name" \notin excuses'
  BY <1>1, <1>5, <1>6 DEF ShowName, Stale
<1>7. CASE ~(r.number < shown) /\ "name" \in excuses'
  BY <1>7 DEF NameIsComing
<1>8. CASE \E q \in requests : Followed(q)
  BY <1>1, <1>3, <1>8 DEF NameIsComing, Followed
<1>9. ASSUME NEW q \in requests, Fresh(q), \A s \in requests : Stale(s) => s.number < q.number
      PROVE  NameIsComing'
  <2>1. CASE q = r
    BY <1>1, <1>5, <1>9, <2>1 DEF Fresh, Stale
  <2>2. CASE q # r
    BY <1>1, <1>3, <1>9, <2>2 DEF NameIsComing
  <2> QED
    BY <2>1, <2>2
<1>10. CASE /\ ~(r.number < shown) /\ username = session
            /\ \A s \in requests : Stale(s) => s.number < shown
  <2>1. \A s \in requests : Stale(s) => s.number < r.number
    BY <1>2, <1>10
  <2>2. ~Stale(r)
    BY <1>10
  <2> QED
    BY <1>1, <1>5, <2>1, <2>2 DEF Stale
<1> QED
  BY <1>4, <1>6, <1>7, <1>8, <1>9, <1>10 DEF NameIsComing

\* Every step leaves the name coming or gives an excuse.
LEMMA NameStep ==
  ASSUME Known, NameIsComing, [Next]_vars
  PROVE  NameIsComing'
<1>1. /\ sent \in Nat /\ sent + 1 \in Nat \ {0} /\ sent + 2 \in Nat \ {0} /\ visit \in Nat \ {0}
      /\ visit + 1 \in Nat \ {0} /\ "login" \in Page /\ Home \in Page
      /\ \A r \in requests : r.number \in 1..sent
      /\ \A r \in requests : r.answer = "forbidden" => r.kind \in {"item", "rows"}
  BY ItemAssumption DEF Known, TypeOK, RequestsKnown, Page
<1>2. ASSUME NEW p \in Page, NEW held, NEW n \in Nat \ {0}, Start(p, held, n)
      PROVE  /\ "name" \in excuses => "name" \in excuses'
             /\ \E q : /\ requests' = held \cup {q}
                       /\ q.answer = "none" /\ q.number = n
                       /\ p = "login" => q.kind = "info"
  <2> DEFINE q == FirstRequest(n, p, visit + 1)
  <2>1. q.answer = "none" /\ q.number = n /\ p = "login" => q.kind = "info"
    BY <1>1, FirstRequestKnown
  <2>2. q.answer = "none" /\ q.number = n
    BY <1>1, FirstRequestKnown
  <2>3. requests' = held \cup {q}
    BY <1>2 DEF Start
  <2> HIDE DEF q
  <2> QED
    BY <1>2, <2>1, <2>2, <2>3 DEF Start, Kept
<1>3. ASSUME NEW p \in Page, Open(p) PROVE NameIsComing'
  <2>1. Start(p, requests, sent + 1) /\ UNCHANGED <<session, username, shown>>
    BY <1>3 DEF Open
  <2>2. PICK q : requests' = requests \cup {q} /\ q.answer = "none"
    BY <1>1, <1>2, <2>1
  <2>3. "name" \in excuses => "name" \in excuses'
    BY <1>1, <1>2, <2>1
  <2> QED
    BY <2>1, <2>2, <2>3, NameKept
<1>4. ASSUME NEW n \in 1..LastPage, TurnPage(n) PROVE NameIsComing'
  <2> DEFINE q == Request(sent + 1, "rows", n, visit)
  <2>1. q.answer = "none"
    BY <1>1, RequestSound DEF Kind
  <2>2. requests' = requests \cup {q}
    BY <1>4 DEF TurnPage
  <2> HIDE DEF q
  <2> QED
    BY <1>4, <2>1, <2>2, NameKept DEF TurnPage
<1>5. ASSUME NEW kind \in {"login", "logout"}, NEW u \in User \cup {None}, Ask(kind, u)
      PROVE  NameIsComing'
  <2>1. PICK q : requests' = requests \cup {q} /\ q.answer = "none"
    BY <1>5, AskFacts
  <2> QED
    BY <1>5, <2>1, NameKept DEF Ask, shared
<1>6. ASSUME NEW r \in requests, ServeRead(r) \/ ServeAuth(r) PROVE NameIsComing'
  <2>1. PICK a : /\ requests' = (requests \ {r}) \cup {a}
                 /\ a.number = r.number /\ a.kind = r.kind
                 /\ r.kind = "info" => a.target = session
                 /\ r.kind \in {"info", "login", "logout"} => a.answer = "ok"
                 /\ r.answer = "none"
                 /\ r.kind \notin {"login", "logout"} => session' = session
                 /\ UNCHANGED <<shared, excuses>>
    BY <1>6, ServeFacts
  <2>2. CASE r.kind \in {"login", "logout"}
    BY <2>1, <2>2 DEF NameIsComing, Followed
  <2>3. CASE r.kind \in {"item", "rows"}
    BY <2>1, <2>3, NameKept DEF Followed, shared
  <2>4. CASE r.kind = "info"
    <3>1. \A q : /\ Stale(q)' <=> Stale(q)
                 /\ Fresh(q)' <=> Fresh(q)
                 /\ Followed(q)' <=> Followed(q)
      BY <2>1, <2>4 DEF Fresh, Stale, Followed
    <3>2. Fresh(a) /\ ~Stale(a) /\ ~Followed(r)
      BY <2>1, <2>4 DEF Fresh, Stale, Followed
    <3>3. \A s \in requests' : Stale(s)' => s \in requests /\ Stale(s)
      BY <2>1, <3>1, <3>2
    <3> QED
      BY <2>1, <2>4, <3>1, <3>2, <3>3 DEF NameIsComing, shared
  <2>5. r.kind \in Kind
    BY DEF Known, TypeOK
  <2> QED
    BY <2>2, <2>3, <2>4, <2>5 DEF Kind
<1>7. ASSUME NEW r \in requests, Refuse(r) PROVE NameIsComing'
  BY <1>7, NameKept DEF Refuse, shared, Followed
<1>8. ASSUME NEW r \in requests, Fail(r) PROVE NameIsComing'
  <2>1. CASE r.kind \in {"login", "logout", "info"}
    BY <1>8, <2>1 DEF Fail, Excuse, NameIsComing
  <2>2. CASE r.kind \notin {"login", "logout", "info"}
    BY <1>8, <2>2, NameKept DEF Fail, Followed, shared
  <2> QED
    BY <2>1, <2>2
<1>9. ASSUME NEW r \in requests, ShowItem(r) PROVE NameIsComing'
  BY <1>9, NameKept DEF ShowItem, Followed
<1>10. ASSUME NEW r \in requests, ShowRows(r) PROVE NameIsComing'
  <2>1. "name" \in excuses => "name" \in excuses'
    BY <1>10 DEF ShowRows
  <2> QED
    BY <1>10, <2>1, NameKept DEF ShowRows, Followed, shared
<1>11. ASSUME NEW r \in requests, Forbidden(r) PROVE NameIsComing'
  <2>1. r.kind \in {"item", "rows"} /\ UNCHANGED <<username, shown, session>> /\ GoToLogin(r, {})
    BY <1>1, <1>11 DEF Forbidden
  <2>2. CASE page = "login"
    BY <2>1, <2>2, NameKept DEF GoToLogin, Followed
  <2>3. CASE page # "login"
    <3>1. Start("login", requests \ {r}, sent + 1)
      BY <2>1, <2>3 DEF GoToLogin
    <3>2. PICK q : requests' = (requests \ {r}) \cup {q} /\ q.answer = "none"
      BY <1>1, <1>2, <3>1
    <3>3. "name" \in excuses => "name" \in excuses'
      BY <1>1, <1>2, <3>1
    <3> QED
      BY <2>1, <3>2, <3>3, NameKept DEF Followed
  <2> QED
    BY <2>2, <2>3
<1>12. ASSUME NEW r \in requests, LoggedOut(r) PROVE NameIsComing'
  <2>1. CASE page = "login"
    BY <1>12, <2>1 DEF LoggedOut, GoToLogin, NameIsComing
  <2>2. CASE page # "login"
    <3>1. Start("login", requests \ {r}, sent + 1)
      BY <1>12, <2>2 DEF LoggedOut, GoToLogin
    <3>2. PICK q : /\ requests' = (requests \ {r}) \cup {q}
                   /\ q.answer = "none" /\ q.number = sent + 1 /\ q.kind = "info"
      BY <1>1, <1>2, <3>1
    <3> QED
      BY <1>1, <3>2, NameAsked
  <2> QED
    BY <2>1, <2>2
<1>13. ASSUME NEW r \in requests, LoggedIn(r) PROVE NameIsComing'
  <2>1. PICK a : /\ Info(sent + 1) = {a}
                 /\ a.number = sent + 1 /\ a.kind = "info" /\ a.answer = "none"
    BY InfoFacts
  <2>2. CASE page = Home
    <3>1. requests' = (requests \ {r}) \cup {a}
      BY <1>13, <2>1, <2>2 DEF LoggedIn
    <3> QED
      BY <1>1, <2>1, <3>1, NameAsked
  <2>3. CASE page # Home
    <3>1. Start(Home, (requests \ {r}) \cup {a}, sent + 2)
      BY <1>13, <2>1, <2>3 DEF LoggedIn
    <3>2. PICK q : requests' = (requests \ {r}) \cup {a} \cup {q} /\ q.answer = "none"
      BY <1>1, <1>2, <3>1
    <3> QED
      BY <1>1, <2>1, <3>2, NameAsked
  <2> QED
    BY <2>2, <2>3
<1>14. CASE Act
  BY <1>3, <1>4, <1>5, <1>14 DEF Act, Login, Logout
<1>15. CASE Network
  BY <1>6, <1>7, <1>8, <1>9, <1>10, <1>11, <1>12, <1>13, <1>15, NameShown DEF Network
<1>16. CASE UNCHANGED vars
  BY <1>16, NameKept DEF vars, shared
<1> QED
  BY <1>14, <1>15, <1>16 DEF Next

-----------------------------------------------------------------------------
(* The inductive invariant.                                                 *)

LEMMA InitIInv == Init => IInv
<1> SUFFICES ASSUME Init PROVE IInv
  OBVIOUS
<1> DEFINE a == Request(1, "info", None, 1)
           b == Request(2, "info", None, 1)
           c == FirstRequest(3, page, 1)
<1>1. page \in Page /\ 1 \in Nat \ {0} /\ 2 \in Nat \ {0} /\ 3 \in Nat \ {0}
  BY DEF Init
<1>2. /\ Sound(a, 1, 1) /\ a.number = 1 /\ a.kind = "info" /\ a.answer = "none"
      /\ Sound(b, 2, 1) /\ b.number = 2 /\ b.kind = "info" /\ b.answer = "none"
  BY <1>1, RequestSound DEF Kind
<1>3. /\ Sound(c, 3, 1) /\ c.number = 3 /\ c.visit = 1 /\ c.answer = "none"
      /\ c.kind = "item" => page \in Item /\ c.target = page
      /\ c.kind = "rows" => page \in Listing
      /\ page \in Listing => c.kind = "rows" /\ c.target = 1
  BY <1>1, FirstRequestKnown
<1>4. requests = {a, b, c} /\ sent = 3 /\ visit = 1
  BY DEF Init
<1> HIDE DEF a, b, c
<1>5. Requests
  <2>1. Sound(a, 3, 1) /\ Sound(b, 3, 1)
    BY <1>2 DEF Sound
  <2> QED
    BY <1>2, <1>3, <1>4, <2>1 DEF Requests, RequestSet
<1>6. Scalars
  BY <1>1, BoundAssumption, ItemAssumption DEF Init, Scalars
<1>7. RequestsOfThePage
  BY <1>2, <1>3, <1>4 DEF RequestsOfThePage
<1>8. FocusIsOfThePage
  BY DEF Init, FocusIsOfThePage
<1>9. RowsAreComing
  BY <1>3, <1>4 DEF Init, RowsAreComing
<1>10. NameIsComing
  <2>1. Fresh(a) /\ \A s \in requests : ~Stale(s)
    BY <1>2, <1>3, <1>4 DEF Fresh, Stale
  <2> QED
    BY <1>4, <2>1 DEF NameIsComing
<1> QED
  BY <1>5, <1>6, <1>7, <1>8, <1>9, <1>10, KnownParts DEF IInv, Known

LEMMA Inductive == IInv /\ [Next]_vars => IInv'
<1> SUFFICES ASSUME IInv, [Next]_vars PROVE IInv'
  OBVIOUS
<1>1. Known /\ PageShown /\ RowsAreComing /\ NameIsComing
  BY DEF IInv, Known, PageShown
<1>2. Known'
  BY <1>1, KnownStep
<1>3. PageShown' /\ RowsAreComing'
  BY <1>1, PageStep
<1>4. NameIsComing'
  BY <1>1, NameStep
<1> QED
  BY <1>2, <1>3, <1>4 DEF IInv, Known, PageShown

\* The inductive invariant holds of the portal for any pages and users, whatever is lost,
\* failed or answered out of order.
THEOREM PortalInvariance == Spec => []IInv
  BY InitIInv, Inductive, PTL DEF Spec

\* The controllers' data, and the requests in the air, stay within their types.
THEOREM PortalTypeCorrect == Spec => []TypeOK
<1>1. IInv => TypeOK
  BY DEF IInv
<1> QED
  BY <1>1, PortalInvariance, PTL

\* setActive... of DataService and its callers: a page never shows the item of another one
\* and a loaded page shows its own, unless the answer for a page that was left came last.
THEOREM FocusCorrect == Spec => []FocusIsOfThePage
<1>1. IInv => FocusIsOfThePage
  BY DEF IInv
<1> QED
  BY <1>1, PortalInvariance, PTL

\* The $watch of currentPage: a listing whose requests are all answered shows the page that
\* is chosen, unless that page's answer is lost or came before an earlier one's.
THEOREM RowsCorrect == Spec => []RowsAreOfTheCurrentPage
<1>1. IInv => RowsAreOfTheCurrentPage
  BY DEF IInv, RowsAreComing, RowsAreOfTheCurrentPage
<1> QED
  BY <1>1, PortalInvariance, PTL

\* login, logout and getLoginAndVersionInfo: when no request about it is in the air the user
\* shown is the user of the session, unless one was lost, answers crossed, or the logout
\* happened on the login page.
THEOREM NameCorrect == Spec => []NameIsOfTheSession
<1>1. IInv => NameIsOfTheSession
  <2> SUFFICES ASSUME NameIsComing, \A r \in requests : r.kind \in {"item", "rows"}
               PROVE  username = session \/ "name" \in excuses
    BY DEF IInv, NameIsOfTheSession
  <2> QED
    BY DEF NameIsComing, Followed, Fresh
<1> QED
  BY <1>1, PortalInvariance, PTL

-----------------------------------------------------------------------------
(* How many levels are below an item, and the recursion over them.         *)

\* What is below something that has no more than k levels below it.
IsLevels(H) ==
  /\ H \in [Nat -> SUBSET Process]
  /\ H[0] = {}
  /\ \A k \in Nat : H[k + 1] = {p \in Process : \A i \in DOMAIN Parts[p] : Parts[p][i] \in H[k]}
  /\ \A k, m \in Nat : k <= m => H[k] \subseteq H[m]
  /\ \A p \in Process : \E k \in Nat : p \in H[k]

\* Every process has a number of levels below it.
LEMMA LevelsExist == \E H : IsLevels(H)
<1> DEFINE X == SUBSET Process
           Up(S) == {p \in Process : \A i \in DOMAIN Parts[p] : Parts[p][i] \in S}
           step == [ks \in (Nat \ {0}) \X X |-> Up(ks[2])]
<1>1. step \in [(Nat \ {0}) \X X -> X] /\ {} \in X
  OBVIOUS
<1>2. \A k \in Nat, S \in X : step[<<k + 1, S>>] = Up(S)
  <2> HIDE DEF X, Up
  <2> QED
    OBVIOUS
<1>3. PICK H \in [Nat -> X] : H[0] = {} /\ \A k \in Nat : H[k + 1] = step[<<k + 1, H[k]>>]
  <2> HIDE DEF X, step
  <2>1. PICK H \in [Nat -> X] : ByRecursionOverAll({}, step, H)
    BY <1>1, RecursionOverAll
  <2> QED
    BY <2>1 DEF ByRecursionOverAll
<1>4. \A k \in Nat : H[k + 1] = Up(H[k])
  <2> HIDE DEF X, Up, step
  <2> QED
    BY <1>2, <1>3
<1> HIDE DEF step
<1>5. \A k \in Nat : H[k] \subseteq H[k + 1]
  <2> DEFINE S == {k \in Nat : H[k] \subseteq H[k + 1]}
  <2>1. 0 \in S
    BY <1>3
  <2>2. ASSUME NEW k \in Nat, k \in S PROVE k + 1 \in S
    <3>1. k + 1 \in Nat /\ H[k] \subseteq H[k + 1]
      BY <2>2
    <3>2. H[k + 1] = Up(H[k]) /\ H[(k + 1) + 1] = Up(H[k + 1])
      BY <1>4, <3>1
    <3>3. H[k + 1] \subseteq H[(k + 1) + 1]
      BY <3>1, <3>2
    <3> QED
      BY <3>1, <3>3
  <2> HIDE DEF S
  <2>3. Nat \subseteq S
    BY <2>1, <2>2, EveryNumber
  <2> QED
    BY <2>3 DEF S
<1>6. \A k, m \in Nat : k <= m => H[k] \subseteq H[m]
  <2> SUFFICES ASSUME NEW k \in Nat PROVE \A d \in Nat : H[k] \subseteq H[k + d]
    <3>1. \A k, m \in Nat : k <= m => m - k \in Nat /\ k + (m - k) = m
      OBVIOUS
    <3> QED
      BY <3>1
  <2> DEFINE S == {d \in Nat : H[k] \subseteq H[k + d]}
  <2>1. 0 \in S
    OBVIOUS
  <2>2. ASSUME NEW d \in Nat, d \in S PROVE d + 1 \in S
    <3>1. k + d \in Nat /\ (k + d) + 1 = k + (d + 1)
      OBVIOUS
    <3>2. H[k + d] \subseteq H[k + (d + 1)]
      BY <1>5, <3>1
    <3> QED
      BY <2>2, <3>2
  <2> HIDE DEF S
  <2>3. Nat \subseteq S
    BY <2>1, <2>2, EveryNumber
  <2> QED
    BY <2>3 DEF S
<1>7. \A p \in Process : \E k \in Nat : p \in H[k]
  <2> DEFINE C == {p \in Process : \A k \in Nat : p \notin H[k]}
  <2> SUFFICES ASSUME C # {} PROVE FALSE
    OBVIOUS
  <2>1. PICK x \in C : ToSet(Parts[x]) \cap C = {}
    BY PartsAssumption
  <2> DEFINE s == Parts[x]
  <2>2. s \in Seq(Process)
    BY ItemAssumption
  <2>3. \A i \in 1..Len(s) : \E k \in Nat : s[i] \in H[k]
    BY <2>1, <2>2 DEF ToSet
  <2> HIDE DEF s
  <2> DEFINE S == {n \in Nat : n <= Len(s) => \E N \in Nat : \A i \in 1..n : s[i] \in H[N]}
  <2>4. 0 \in S
    <3>1. \A i \in 1..0 : s[i] \in H[0]
      OBVIOUS
    <3> QED
      BY <3>1
  <2>5. ASSUME NEW n \in Nat, n \in S PROVE n + 1 \in S
    <3> SUFFICES ASSUME n + 1 <= Len(s) PROVE \E N \in Nat : \A i \in 1..(n + 1) : s[i] \in H[N]
      OBVIOUS
    <3>1. Len(s) \in Nat /\ n <= Len(s) /\ n + 1 \in 1..Len(s)
      BY <2>2
    <3>2. PICK N \in Nat : \A i \in 1..n : s[i] \in H[N]
      BY <2>5, <3>1
    <3>3. PICK M \in Nat : s[n + 1] \in H[M]
      BY <2>3, <3>1
    <3>4. N + M \in Nat /\ N <= N + M /\ M <= N + M
      OBVIOUS
    <3>5. \A i \in 1..(n + 1) : i = n + 1 \/ i \in 1..n
      OBVIOUS
    <3>6. \A i \in 1..(n + 1) : s[i] \in H[N + M]
      BY <1>6, <3>2, <3>3, <3>4, <3>5
    <3> QED
      BY <3>4, <3>6
  <2> HIDE DEF S
  <2>6. Nat \subseteq S
    BY <2>4, <2>5, EveryNumber
  <2>7. PICK N \in Nat : \A i \in 1..Len(s) : s[i] \in H[N]
    <3>1. Len(s) \in Nat /\ Len(s) <= Len(s)
      BY <2>2
    <3> QED
      BY <2>6, <3>1 DEF S
  <2>8. x \in H[N + 1]
    BY <1>4, <2>2, <2>7 DEF s
  <2>9. N + 1 \in Nat
    OBVIOUS
  <2> QED
    BY <2>8, <2>9
<1>8. \A k \in Nat : H[k + 1] = {p \in Process : \A i \in DOMAIN Parts[p] : Parts[p][i] \in H[k]}
  BY <1>4
<1>9. H \in [Nat -> SUBSET Process] /\ H[0] = {}
  BY <1>3
<1>10. IsLevels(H)
  <2> HIDE DEF X, Up
  <2> QED
    BY <1>6, <1>7, <1>8, <1>9 DEF IsLevels
<1> QED
  BY <1>10

Row == [item : Process, level : Nat]

\* What recurseFlattenRun returns for p, when g is what it returns for its parts.
Flattened(g, p, l) ==
  <<[item |-> p, level |-> l]>> \o FlattenSeq([i \in 1..Len(Parts[p]) |-> g[<<Parts[p][i], l + 1>>]])

LEMMA FlattenedType ==
  ASSUME NEW g \in [Process \X Nat -> Seq(Row)], NEW p \in Process, NEW l \in Nat
  PROVE  Flattened(g, p, l) \in Seq(Row)
<1> DEFINE below == [i \in 1..Len(Parts[p]) |-> g[<<Parts[p][i], l + 1>>]]
<1>1. Parts[p] \in Seq(Process) /\ Len(Parts[p]) \in Nat
  BY ItemAssumption
<1>2. below \in [1..Len(Parts[p]) -> Seq(Row)]
  BY <1>1
<1> HIDE DEF below
<1>3. below \in Seq(Seq(Row))
  <2> DEFINE T == Seq(Row)
  <2> HIDE DEF T
  <2>1. below \in [1..Len(Parts[p]) -> T]
    BY <1>2 DEF T
  <2>2. below \in Seq(T)
    BY <1>1, <2>1, FunctionSequence
  <2> QED
    BY <2>2 DEF T
<1>4. FlattenSeq(below) \in Seq(Row)
  BY <1>3, FlattenStep
<1>5. <<[item |-> p, level |-> l]>> \in Seq(Row)
  BY DEF Row
<1> QED
  BY <1>4, <1>5 DEF Flattened, below

LEMMA FlattenedAgrees ==
  ASSUME NEW g, NEW h, NEW p \in Process, NEW l \in Nat,
         \A i \in 1..Len(Parts[p]) : g[<<Parts[p][i], l + 1>>] = h[<<Parts[p][i], l + 1>>]
  PROVE  Flattened(g, p, l) = Flattened(h, p, l)
<1>1. [i \in 1..Len(Parts[p]) |-> g[<<Parts[p][i], l + 1>>]]
      = [i \in 1..Len(Parts[p]) |-> h[<<Parts[p][i], l + 1>>]]
  OBVIOUS
<1> QED
  BY <1>1 DEF Flattened

\* The recursion of recurseFlattenRun ends.
LEMMA RecurseFlattenRunFacts ==
  ASSUME NEW p \in Process, NEW l \in Nat
  PROVE  /\ RecurseFlattenRun[<<p, l>>] = Flattened(RecurseFlattenRun, p, l)
         /\ RecurseFlattenRun[<<p, l>>] \in Seq(Row)
<1> DEFINE X == [Process \X Nat -> Seq(Row)]
           Next1(g) == [at \in Process \X Nat |-> Flattened(g, at[1], at[2])]
           step == [kg \in (Nat \ {0}) \X X |-> Next1(kg[2])]
           base == [at \in Process \X Nat |-> <<>>]
<1>1. \A g \in X : Next1(g) \in X
  BY FlattenedType
<1>2. base \in X
  OBVIOUS
<1>3. step \in [(Nat \ {0}) \X X -> X]
  <2> HIDE DEF X, Next1
  <2> QED
    BY <1>1
<1>4. \A k \in Nat, g \in X : step[<<k + 1, g>>] = Next1(g)
  <2> HIDE DEF X, Next1
  <2> QED
    OBVIOUS
<1>5. PICK F \in [Nat -> X] : \A k \in Nat : F[k + 1] = step[<<k + 1, F[k]>>]
  <2> HIDE DEF X, step, base
  <2>1. PICK F \in [Nat -> X] : ByRecursionOverAll(base, step, F)
    BY <1>2, <1>3, RecursionOverAll
  <2> QED
    BY <2>1 DEF ByRecursionOverAll
<1>6. \A k \in Nat : F[k] \in X /\ F[k + 1] = Next1(F[k])
  <2> HIDE DEF X, step, Next1
  <2> QED
    BY <1>4, <1>5
<1> HIDE DEF step, base
<1>7. \A k \in Nat : \A q \in Process, m \in Nat : F[k + 1][<<q, m>>] = Flattened(F[k], q, m)
  BY <1>6
<1> HIDE DEF Next1
<1>8. PICK H : IsLevels(H)
  BY LevelsExist
<1>9. \A q \in Process : Parts[q] \in Seq(Process) /\ Len(Parts[q]) \in Nat /\ DOMAIN Parts[q] = 1..Len(Parts[q])
  BY ItemAssumption
<1>10. \A k \in Nat : \A q \in H[k], m \in Nat : F[k + 1][<<q, m>>] = F[k][<<q, m>>]
  <2> DEFINE Same(k) == \A q \in H[k], m \in Nat : F[k + 1][<<q, m>>] = F[k][<<q, m>>]
             S == {k \in Nat : Same(k)}
  <2>1. 0 \in S
    BY <1>8 DEF IsLevels
  <2>2. ASSUME NEW k \in Nat, k \in S PROVE k + 1 \in S
    <3>1. k + 1 \in Nat /\ Same(k)
      BY <2>2
    <3>2. ASSUME NEW q \in H[k + 1], NEW m \in Nat
          PROVE  F[(k + 1) + 1][<<q, m>>] = F[k + 1][<<q, m>>]
      <4>1. q \in Process /\ \A i \in 1..Len(Parts[q]) : Parts[q][i] \in H[k]
        BY <1>8, <1>9 DEF IsLevels
      <4>2. m + 1 \in Nat
        OBVIOUS
      <4>3. \A i \in 1..Len(Parts[q]) :
              F[k + 1][<<Parts[q][i], m + 1>>] = F[k][<<Parts[q][i], m + 1>>]
        BY <3>1, <4>1, <4>2
      <4>4. Flattened(F[k + 1], q, m) = Flattened(F[k], q, m)
        BY <4>1, <4>3, FlattenedAgrees
      <4> QED
        BY <1>7, <3>1, <4>1, <4>4
    <3>3. Same(k + 1)
      BY <3>2
    <3> HIDE DEF Same
    <3> QED
      BY <3>1, <3>3
  <2> HIDE DEF S
  <2>3. Nat \subseteq S
    BY <2>1, <2>2, EveryNumber
  <2> QED
    BY <2>3 DEF S
<1>11. \A k \in Nat : \A q \in H[k], m \in Nat, d \in Nat : F[k + d][<<q, m>>] = F[k][<<q, m>>]
  <2> SUFFICES ASSUME NEW k \in Nat, NEW q \in H[k], NEW m \in Nat
               PROVE  \A d \in Nat : F[k + d][<<q, m>>] = F[k][<<q, m>>]
    OBVIOUS
  <2> DEFINE S == {d \in Nat : F[k + d][<<q, m>>] = F[k][<<q, m>>]}
  <2>1. 0 \in S
    OBVIOUS
  <2>2. ASSUME NEW d \in Nat, d \in S PROVE d + 1 \in S
    <3>1. k + d \in Nat /\ (k + d) + 1 = k + (d + 1) /\ k <= k + d
      OBVIOUS
    <3>2. q \in H[k + d]
      BY <1>8, <3>1 DEF IsLevels
    <3>3. F[(k + d) + 1][<<q, m>>] = F[k + d][<<q, m>>]
      BY <1>10, <3>1, <3>2
    <3> QED
      BY <2>2, <3>1, <3>3
  <2> HIDE DEF S
  <2>3. Nat \subseteq S
    BY <2>1, <2>2, EveryNumber
  <2> QED
    BY <2>3 DEF S
<1> DEFINE lev == [q \in Process |-> CHOOSE k \in Nat : q \in H[k]]
           G == [at \in Process \X Nat |-> F[lev[at[1]]][at]]
           Rec(f) == [at \in Process \X Nat |-> Flattened(f, at[1], at[2])]
<1>12. \A q \in Process : lev[q] \in Nat /\ q \in H[lev[q]]
  BY <1>8 DEF IsLevels
<1> HIDE DEF lev
<1>13. \A q \in Process, m \in Nat, k \in Nat : q \in H[k] => G[<<q, m>>] = F[k][<<q, m>>]
  <2> SUFFICES ASSUME NEW q \in Process, NEW m \in Nat, NEW k \in Nat, q \in H[k]
               PROVE  F[lev[q]][<<q, m>>] = F[k][<<q, m>>]
    OBVIOUS
  <2>1. k + lev[q] = lev[q] + k /\ lev[q] \in Nat
    BY <1>12
  <2>2. F[k + lev[q]][<<q, m>>] = F[k][<<q, m>>]
    BY <1>11, <2>1
  <2>3. F[lev[q] + k][<<q, m>>] = F[lev[q]][<<q, m>>]
    <3>1. lev[q] \in Nat /\ q \in H[lev[q]]
      BY <1>12
    <3> QED
      BY <1>11, <3>1
  <2> QED
    BY <2>1, <2>2, <2>3
<1>14. G \in X
  <2>1. \A q \in Process, m \in Nat : F[lev[q]][<<q, m>>] \in Seq(Row)
    BY <1>6, <1>12
  <2> QED
    BY <2>1
<1> HIDE DEF G
<1>15. \A q \in Process, m \in Nat : G[<<q, m>>] = Flattened(G, q, m)
  <2> SUFFICES ASSUME NEW q \in Process, NEW m \in Nat PROVE G[<<q, m>>] = Flattened(G, q, m)
    OBVIOUS
  <2>1. PICK k \in Nat : q \in H[k]
    BY <1>12
  <2>2. q \in H[k + 1] /\ k + 1 \in Nat /\ m + 1 \in Nat
    BY <1>8, <2>1 DEF IsLevels
  <2>3. \A i \in 1..Len(Parts[q]) : Parts[q][i] \in H[k] /\ Parts[q][i] \in Process
    BY <1>8, <1>9, <2>1, <2>2 DEF IsLevels
  <2>4. \A i \in 1..Len(Parts[q]) : G[<<Parts[q][i], m + 1>>] = F[k][<<Parts[q][i], m + 1>>]
    BY <1>13, <2>2, <2>3
  <2>5. Flattened(G, q, m) = Flattened(F[k], q, m)
    BY <2>4, FlattenedAgrees
  <2>6. G[<<q, m>>] = F[k + 1][<<q, m>>]
    BY <1>13, <2>2
  <2> QED
    BY <1>7, <2>5, <2>6
<1>16. G = Rec(G)
  <2>1. \A at \in Process \X Nat : at = <<at[1], at[2]>> /\ at[1] \in Process /\ at[2] \in Nat
    OBVIOUS
  <2>2. \A at \in Process \X Nat : G[at] = Flattened(G, at[1], at[2])
    BY <1>15, <2>1
  <2> QED
    BY <1>14, <2>2
<1> DEFINE R == CHOOSE f : f = Rec(f)
<1>17. RecurseFlattenRun = R
  BY DEF RecurseFlattenRun, Flattened
<1>18. R = Rec(R)
  <2> HIDE DEF Rec
  <2> QED
    BY <1>16
<1> HIDE DEF R
<1>19. \A q \in Process, m \in Nat : R[<<q, m>>] = Flattened(R, q, m)
  BY <1>18
<1> HIDE DEF Rec
<1>20. \A k \in Nat : \A q \in H[k], m \in Nat : R[<<q, m>>] = G[<<q, m>>]
  <2> DEFINE S == {k \in Nat : \A q \in H[k], m \in Nat : R[<<q, m>>] = G[<<q, m>>]}
  <2>1. 0 \in S
    BY <1>8 DEF IsLevels
  <2>2. ASSUME NEW k \in Nat, k \in S PROVE k + 1 \in S
    <3> SUFFICES ASSUME NEW q \in H[k + 1], NEW m \in Nat PROVE R[<<q, m>>] = G[<<q, m>>]
      OBVIOUS
    <3>1. q \in Process /\ \A i \in 1..Len(Parts[q]) : Parts[q][i] \in H[k]
      BY <1>8, <1>9 DEF IsLevels
    <3>2. m + 1 \in Nat
      OBVIOUS
    <3>3. \A i \in 1..Len(Parts[q]) : R[<<Parts[q][i], m + 1>>] = G[<<Parts[q][i], m + 1>>]
      BY <2>2, <3>1, <3>2
    <3>4. Flattened(R, q, m) = Flattened(G, q, m)
      BY <3>1, <3>3, FlattenedAgrees
    <3> QED
      BY <1>15, <1>19, <3>1, <3>4
  <2> HIDE DEF S
  <2>3. Nat \subseteq S
    BY <2>1, <2>2, EveryNumber
  <2> QED
    BY <2>3 DEF S
<1>21. R[<<p, l>>] = G[<<p, l>>]
  BY <1>12, <1>20
<1>22. R[<<p, l>>] \in Seq(Row)
  BY <1>14, <1>21
<1> QED
  BY <1>17, <1>19, <1>22

-----------------------------------------------------------------------------
(* What the rows of a tree look like.                                       *)

PartOf(x, y) == \E k \in 1..Len(Parts[y]) : x = Parts[y][k]

\* Row m is the row under which row i stands.
HasParent(s, i, m) ==
  /\ m \in 1..(i - 1)
  /\ s[i].level = s[m].level + 1
  /\ PartOf(s[i].item, s[m].item)
  /\ \A j \in (m + 1)..(i - 1) : s[j].level >= s[i].level

\* Rows of different items in B, with the rows of what they consist of among them.
Complete(s, B) ==
  /\ s \in Seq(Row)
  /\ \A i \in 1..Len(s) : s[i].item \in B
  /\ \A i \in 1..Len(s), x \in Process :
       PartOf(x, s[i].item) => \E j \in 1..Len(s) : s[j].item = x
  /\ \A i, j \in 1..Len(s) : s[i].item = s[j].item => i = j

\* The rows of p, which stands at level l.
Tree(s, p, l, B) ==
  /\ Complete(s, B)
  /\ Len(s) >= 1 /\ s[1] = [item |-> p, level |-> l]
  /\ \A i \in 2..Len(s) : s[i].level > l /\ \E m \in Nat : HasParent(s, i, m)

\* The rows of its first n parts.
Topmost(s, p, l, n, i) == s[i].level = l + 1 /\ \E k \in 1..n : s[i].item = Parts[p][k]

Forest(s, p, l, n, B) ==
  /\ Complete(s, B)
  /\ \A k \in 1..n : \E i \in 1..Len(s) : s[i].item = Parts[p][k]
  /\ \A i \in 1..Len(s) :
       s[i].level > l /\ (Topmost(s, p, l, n, i) \/ \E m \in Nat : HasParent(s, i, m))

LEMMA PartsAreSequences ==
  \A p \in Process : /\ Parts[p] \in Seq(Process) /\ Len(Parts[p]) \in Nat
                     /\ DOMAIN Parts[p] = 1..Len(Parts[p])
                     /\ \A k \in 1..Len(Parts[p]) : Parts[p][k] \in Process
BY ItemAssumption

LEMMA OneParent ==
  ASSUME NEW y \in Process, NEW z \in Process,
         NEW i \in 1..Len(Parts[y]), NEW j \in 1..Len(Parts[z]), Parts[y][i] = Parts[z][j]
  PROVE  y = z /\ i = j
BY PartsAssumption, PartsAreSequences

LEMMA OnePosition ==
  ASSUME NEW p \in Process, NEW i \in 1..Len(Parts[p]), NEW j \in 1..Len(Parts[p]),
         Parts[p][i] = Parts[p][j]
  PROVE  i = j
BY PartsAssumption, PartsAreSequences

LEMMA PartOfOne ==
  ASSUME NEW x, NEW y \in Process, NEW z \in Process, PartOf(x, y), PartOf(x, z)
  PROVE  y = z
BY OneParent DEF PartOf

LEMMA RowFields ==
  ASSUME NEW s \in Seq(Row), NEW i \in 1..Len(s)
  PROVE  s[i] \in Row /\ s[i].item \in Process /\ s[i].level \in Nat
<1>1. s[i] \in Row
  OBVIOUS
<1> QED
  BY <1>1 DEF Row

LEMMA Concatenated ==
  ASSUME NEW T, NEW s \in Seq(T), NEW t \in Seq(T)
  PROVE  /\ s \o t \in Seq(T)
         /\ Len(s) \in Nat /\ Len(t) \in Nat
         /\ Len(s \o t) = Len(s) + Len(t)
         /\ \A i \in 1..Len(s) : (s \o t)[i] = s[i]
         /\ \A j \in 1..Len(t) : (s \o t)[Len(s) + j] = t[j]
OBVIOUS

LEMMA Positions ==
  ASSUME NEW d \in Nat, NEW e \in Nat, NEW i \in 1..(d + e)
  PROVE  i \in 1..d \/ \E j \in 1..e : i = d + j
<1>1. CASE i <= d
  BY <1>1
<1>2. CASE ~(i <= d)
  <2>1. i - d \in 1..e /\ i = d + (i - d)
    BY <1>2
  <2> QED
    BY <2>1
<1> QED
  BY <1>1, <1>2

\* Where rows are put does not matter to who stands under whom.
LEMMA ParentMoves ==
  ASSUME NEW v \in Seq(Row), NEW w \in Seq(Row), NEW d \in Nat,
         \A j \in 1..Len(v) : w[d + j] = v[j],
         NEW i \in 1..Len(v), NEW m \in Nat, HasParent(v, i, m)
  PROVE  d + m \in Nat /\ HasParent(w, d + i, d + m)
<1>1. Len(v) \in Nat /\ i \in Nat /\ m \in 1..(i - 1) /\ m \in 1..Len(v)
  BY DEF HasParent
<1>2. w[d + i] = v[i] /\ w[d + m] = v[m]
  BY <1>1
<1>3. d + m \in 1..((d + i) - 1)
  BY <1>1
<1>4. ASSUME NEW j \in (d + m + 1)..((d + i) - 1) PROVE w[j].level >= w[d + i].level
  <2>1. j - d \in (m + 1)..(i - 1) /\ j - d \in 1..Len(v) /\ d + (j - d) = j
    BY <1>1
  <2>2. w[j] = v[j - d]
    BY <2>1
  <2> QED
    BY <1>2, <2>1, <2>2 DEF HasParent
<1>5. w[d + i].level = w[d + m].level + 1 /\ PartOf(w[d + i].item, w[d + m].item)
  BY <1>2 DEF HasParent
<1> QED
  BY <1>1, <1>3, <1>4, <1>5 DEF HasParent

-----------------------------------------------------------------------------
(* The rows of one part after those of the others.                          *)

\* No item is among the rows of two parts.
LEMMA TreesAreApart ==
  ASSUME NEW p \in Process, NEW l \in Nat, NEW n \in Nat, n + 1 <= Len(Parts[p]),
         NEW B \in SUBSET Process, p \notin B,
         NEW f, Forest(f, p, l, n, B), NEW t, Tree(t, Parts[p][n + 1], l + 1, B)
  PROVE  \A i \in 1..Len(f), j \in 1..Len(t) : f[i].item # t[j].item
<1> DEFINE S == {j \in 1..Len(t) : \E i \in 1..Len(f) : f[i].item = t[j].item}
<1> SUFFICES ASSUME S # {} PROVE FALSE
  OBVIOUS
<1>1. f \in Seq(Row) /\ t \in Seq(Row) /\ Len(f) \in Nat /\ Len(t) \in Nat
  BY DEF Forest, Tree, Complete
<1>2. PICK j \in S : \A k \in S : j <= k
  <2>1. S \in SUBSET Nat
    BY <1>1
  <2> QED
    BY <2>1, LeastNumber
<1>3. j \in 1..Len(t) /\ j \in Nat
  BY <1>1
<1>4. PICK i \in 1..Len(f) : f[i].item = t[j].item
  OBVIOUS
<1>5. /\ \A k \in 1..Len(f) : f[k].item \in B /\ f[k].item # p /\ f[k].item \in Process
      /\ \A k \in 1..Len(t) : t[k].item \in B /\ t[k].item # p /\ t[k].item \in Process
  <2>1. \A k \in 1..Len(f) : f[k].item \in B
    BY DEF Forest, Complete
  <2>2. \A k \in 1..Len(t) : t[k].item \in B
    BY DEF Tree, Complete
  <2>3. \A x \in B : x # p /\ x \in Process
    OBVIOUS
  <2> QED
    BY <2>1, <2>2, <2>3
<1>6. n + 1 \in 1..Len(Parts[p])
  BY PartsAreSequences
<1>7. /\ Topmost(f, p, l, n, i) \/ \E m \in Nat : HasParent(f, i, m)
      /\ j = 1 => t[j].item = Parts[p][n + 1]
      /\ j # 1 => \E m \in Nat : HasParent(t, j, m)
  <2>1. j # 1 => j \in 2..Len(t)
    BY <1>1, <1>3
  <2>2. j # 1 => \E m \in Nat : HasParent(t, j, m)
    BY <2>1 DEF Tree
  <2>3. t[1].item = Parts[p][n + 1]
    BY DEF Tree
  <2>4. Topmost(f, p, l, n, i) \/ \E m \in Nat : HasParent(f, i, m)
    BY DEF Forest
  <2> QED
    BY <2>2, <2>3, <2>4
<1> HIDE DEF S
<1>8. ASSUME NEW m \in Nat, HasParent(t, j, m) PROVE FALSE
  <2>1. m \in 1..Len(t) /\ m \in Nat /\ m < j /\ PartOf(t[j].item, t[m].item)
    BY <1>1, <1>3, <1>8 DEF HasParent
  <2>2. CASE Topmost(f, p, l, n, i)
    <3>1. PICK k \in 1..n : f[i].item = Parts[p][k]
      BY <2>2 DEF Topmost
    <3>2. k \in 1..Len(Parts[p])
      BY <1>6, PartsAreSequences
    <3>3. PartOf(t[j].item, p)
      BY <1>4, <3>1, <3>2 DEF PartOf
    <3> QED
      BY <1>5, <2>1, <3>3, PartOfOne
  <2>3. ASSUME NEW k \in Nat, HasParent(f, i, k) PROVE FALSE
    <3>1. k \in 1..Len(f) /\ PartOf(f[i].item, f[k].item)
      BY <1>1, <2>3 DEF HasParent
    <3>2. f[k].item = t[m].item
      BY <1>4, <1>5, <2>1, <3>1, PartOfOne
    <3>3. m \in S
      BY <2>1, <3>1, <3>2 DEF S
    <3>4. j <= m
      BY <1>2, <3>3
    <3> QED
      BY <1>3, <2>1, <3>4
  <2> QED
    BY <1>7, <2>2, <2>3
<1>9. CASE j = 1
  <2>1. f[i].item = Parts[p][n + 1] /\ PartOf(f[i].item, p)
    BY <1>4, <1>6, <1>7, <1>9 DEF PartOf
  <2>2. CASE Topmost(f, p, l, n, i)
    <3>1. PICK k \in 1..n : f[i].item = Parts[p][k]
      BY <2>2 DEF Topmost
    <3>2. k \in 1..Len(Parts[p]) /\ k # n + 1
      BY <1>6, PartsAreSequences
    <3> QED
      BY <1>6, <2>1, <3>1, <3>2, OnePosition
  <2>3. ASSUME NEW k \in Nat, HasParent(f, i, k) PROVE FALSE
    <3>1. k \in 1..Len(f) /\ PartOf(f[i].item, f[k].item)
      BY <1>1, <2>3 DEF HasParent
    <3> QED
      BY <1>5, <2>1, <3>1, PartOfOne
  <2> QED
    BY <1>7, <2>2, <2>3
<1> QED
  BY <1>7, <1>8, <1>9

LEMMA ForestGrows ==
  ASSUME NEW p \in Process, NEW l \in Nat, NEW n \in Nat, n + 1 <= Len(Parts[p]),
         NEW B \in SUBSET Process, p \notin B,
         NEW f, Forest(f, p, l, n, B), NEW t, Tree(t, Parts[p][n + 1], l + 1, B)
  PROVE  Forest(f \o t, p, l, n + 1, B)
<1> DEFINE w == f \o t
           d == Len(f)
           e == Len(t)
<1>1. f \in Seq(Row) /\ t \in Seq(Row) /\ Complete(f, B) /\ Complete(t, B)
  BY DEF Forest, Tree, Complete
<1>2. /\ w \in Seq(Row) /\ d \in Nat /\ e \in Nat /\ Len(w) = d + e
      /\ \A i \in 1..d : w[i] = f[i] /\ i \in 1..Len(w)
      /\ \A j \in 1..e : w[d + j] = t[j] /\ d + j \in 1..Len(w)
  <2>1. /\ w \in Seq(Row) /\ d \in Nat /\ e \in Nat /\ Len(w) = d + e
        /\ \A i \in 1..d : w[i] = f[i]
        /\ \A j \in 1..e : w[d + j] = t[j]
    BY <1>1, Concatenated
  <2>2. ASSUME NEW a \in Nat, NEW b \in Nat
        PROVE  (\A i \in 1..a : i \in 1..(a + b)) /\ (\A j \in 1..b : a + j \in 1..(a + b))
    OBVIOUS
  <2> QED
    BY <2>1, <2>2
<1>3. \A i \in 1..d, j \in 1..e : f[i].item # t[j].item
  BY TreesAreApart
<1>4. n + 1 \in 1..Len(Parts[p]) /\ n + 1 \in 1..(n + 1) /\ \A k \in 1..n : k \in 1..(n + 1)
  BY PartsAreSequences
<1> HIDE DEF w, d, e
<1>5. \A i \in 1..Len(w) : i \in 1..d \/ \E j \in 1..e : i = d + j
  BY <1>2, Positions
<1>6. Complete(w, B)
  <2>1. ASSUME NEW i \in 1..Len(w) PROVE w[i].item \in B
    <3>1. CASE i \in 1..d
      BY <1>1, <1>2, <3>1 DEF Complete, d
    <3>2. ASSUME NEW k \in 1..e, i = d + k PROVE w[i].item \in B
      <4>1. w[i] = t[k]
        BY <1>2, <3>2
      <4> QED
        BY <1>1, <4>1 DEF Complete, e
    <3> QED
      BY <1>5, <3>1, <3>2
  <2>2. ASSUME NEW i \in 1..Len(w), NEW x \in Process, PartOf(x, w[i].item)
        PROVE  \E j \in 1..Len(w) : w[j].item = x
    <3>1. CASE i \in 1..d
      <4>1. PICK j \in 1..d : f[j].item = x
        BY <1>1, <1>2, <2>2, <3>1 DEF Complete, d
      <4> QED
        BY <1>2, <4>1
    <3>2. ASSUME NEW k \in 1..e, i = d + k PROVE \E j \in 1..Len(w) : w[j].item = x
      <4>1. w[i] = t[k]
        BY <1>2, <3>2
      <4>2. PICK j \in 1..e : t[j].item = x
        BY <1>1, <2>2, <4>1 DEF Complete, e
      <4> QED
        BY <1>2, <4>2
    <3> QED
      BY <1>5, <3>1, <3>2
  <2>3. ASSUME NEW i \in 1..Len(w), NEW j \in 1..Len(w), w[i].item = w[j].item PROVE i = j
    <3>1. CASE i \in 1..d /\ j \in 1..d
      BY <1>1, <1>2, <2>3, <3>1 DEF Complete, d
    <3>2. ASSUME NEW k \in 1..e, i \in 1..d, j = d + k PROVE FALSE
      <4>1. w[i] = f[i] /\ w[j] = t[k]
        BY <1>2, <3>2
      <4> QED
        BY <1>3, <2>3, <3>2, <4>1
    <3>3. ASSUME NEW k \in 1..e, j \in 1..d, i = d + k PROVE FALSE
      <4>1. w[j] = f[j] /\ w[i] = t[k]
        BY <1>2, <3>3
      <4> QED
        BY <1>3, <2>3, <3>3, <4>1
    <3>4. ASSUME NEW a \in 1..e, NEW b \in 1..e, i = d + a, j = d + b PROVE i = j
      <4>1. w[i] = t[a] /\ w[j] = t[b]
        BY <1>2, <3>4
      <4> QED
        BY <1>1, <2>3, <3>4, <4>1 DEF Complete, e
    <3> QED
      BY <1>5, <3>1, <3>2, <3>3, <3>4
  <2> QED
    BY <1>2, <2>1, <2>2, <2>3 DEF Complete
<1>7. ASSUME NEW k \in 1..(n + 1) PROVE \E i \in 1..Len(w) : w[i].item = Parts[p][k]
  <2>1. CASE k = n + 1
    <3>1. 1 \in 1..e /\ t[1].item = Parts[p][k]
      BY <1>2, <2>1 DEF Tree, e
    <3> QED
      BY <1>2, <3>1
  <2>2. CASE k # n + 1
    <3>1. k \in 1..n
      BY <2>2
    <3>2. PICK i \in 1..d : f[i].item = Parts[p][k]
      BY <3>1 DEF Forest, d
    <3> QED
      BY <1>2, <3>2
  <2> QED
    BY <2>1, <2>2
<1>8. ASSUME NEW i \in 1..Len(w)
      PROVE  w[i].level > l /\ (Topmost(w, p, l, n + 1, i) \/ \E m \in Nat : HasParent(w, i, m))
  <2>1. CASE i \in 1..d
    <3>1. /\ f[i].level > l /\ w[i] = f[i]
          /\ Topmost(f, p, l, n, i) \/ \E m \in Nat : HasParent(f, i, m)
      BY <1>2, <2>1 DEF Forest, d
    <3>2. CASE Topmost(f, p, l, n, i)
      BY <1>4, <3>1, <3>2 DEF Topmost
    <3>3. ASSUME NEW m \in Nat, HasParent(f, i, m) PROVE HasParent(w, i, m)
      <4>1. 0 + i = i /\ 0 + m = m /\ \A j \in 1..d : w[0 + j] = f[j]
        BY <1>2, <2>1
      <4>2. HasParent(w, 0 + i, 0 + m)
        BY <1>1, <1>2, <2>1, <3>3, <4>1, ParentMoves DEF d
      <4> QED
        BY <4>1, <4>2
    <3> QED
      BY <3>1, <3>2, <3>3
  <2>2. ASSUME NEW j \in 1..e, i = d + j
        PROVE  w[i].level > l /\ (Topmost(w, p, l, n + 1, i) \/ \E m \in Nat : HasParent(w, i, m))
    <3>1. w[i] = t[j]
      BY <1>2, <2>2
    <3>2. CASE j = 1
      <4>1. t[j] = [item |-> Parts[p][n + 1], level |-> l + 1]
        BY <3>2 DEF Tree
      <4> QED
        BY <1>4, <3>1, <4>1 DEF Topmost
    <3>3. CASE j # 1
      <4>1. j \in 2..e
        BY <1>2, <3>3
      <4>2. t[j].level > l + 1 /\ \E m \in Nat : HasParent(t, j, m)
        BY <4>1 DEF Tree, e
      <4>3. PICK m \in Nat : HasParent(t, j, m)
        BY <4>2
      <4>4. d + m \in Nat /\ HasParent(w, d + j, d + m)
        BY <1>1, <1>2, <4>3, ParentMoves DEF e
      <4>5. w[i].level > l
        <5>1. t[j].level \in Nat
          BY <1>1, RowFields DEF e
        <5> QED
          BY <3>1, <4>2, <5>1
      <4> QED
        BY <2>2, <4>4, <4>5
    <3> QED
      BY <3>2, <3>3
  <2> QED
    BY <1>5, <2>1, <2>2
<1> QED
  BY <1>6, <1>7, <1>8 DEF Forest, w

LEMMA ForestUnderItem ==
  ASSUME NEW p \in Process, NEW l \in Nat, NEW B \in SUBSET Process, p \notin B,
         NEW f, Forest(f, p, l, Len(Parts[p]), B)
  PROVE  Tree(<<[item |-> p, level |-> l]>> \o f, p, l, B \cup {p})
<1> DEFINE row == [item |-> p, level |-> l]
           h == <<row>>
           w == h \o f
           e == Len(f)
<1>1. f \in Seq(Row) /\ h \in Seq(Row) /\ Len(h) = 1 /\ h[1] = row /\ Complete(f, B)
  BY DEF Forest, Complete, Row
<1>2. /\ w \in Seq(Row) /\ e \in Nat /\ Len(w) = 1 + e /\ 1 \in 1..Len(w)
      /\ w[1] = row /\ row.item = p /\ row.level = l
      /\ \A j \in 1..e : w[1 + j] = f[j] /\ 1 + j \in 1..Len(w)
  <2> HIDE DEF row
  <2>1. /\ w \in Seq(Row) /\ e \in Nat /\ Len(w) = 1 + e
        /\ w[1] = row
        /\ \A j \in 1..e : w[1 + j] = f[j]
    BY <1>1, Concatenated
  <2>2. row.item = p /\ row.level = l
    BY DEF row
  <2> HIDE DEF w, e
  <2> QED
    BY <2>1, <2>2
<1> HIDE DEF row, h, w, e
<1>3. \A i \in 1..Len(w) : i = 1 \/ \E j \in 1..e : i = 1 + j
  <2>1. \A i \in 1..Len(w) : i \in 1..1 \/ \E j \in 1..e : i = 1 + j
    BY <1>2, Positions
  <2> QED
    BY <2>1
<1>4. Complete(w, B \cup {p})
  <2>1. ASSUME NEW i \in 1..Len(w) PROVE w[i].item \in B \cup {p}
    <3>1. ASSUME NEW k \in 1..e, i = 1 + k PROVE w[i].item \in B
      <4>1. w[i] = f[k]
        BY <1>2, <3>1
      <4> QED
        BY <1>1, <4>1 DEF Complete, e
    <3> QED
      BY <1>2, <1>3, <3>1
  <2>2. ASSUME NEW i \in 1..Len(w), NEW x \in Process, PartOf(x, w[i].item)
        PROVE  \E j \in 1..Len(w) : w[j].item = x
    <3>1. CASE i = 1
      <4>1. PICK k \in 1..Len(Parts[p]) : x = Parts[p][k]
        BY <1>2, <2>2, <3>1 DEF PartOf
      <4>2. PICK j \in 1..e : f[j].item = x
        BY <4>1 DEF Forest, e
      <4> QED
        BY <1>2, <4>2
    <3>2. ASSUME NEW k \in 1..e, i = 1 + k PROVE \E j \in 1..Len(w) : w[j].item = x
      <4>1. w[i] = f[k]
        BY <1>2, <3>2
      <4>2. PICK j \in 1..e : f[j].item = x
        BY <1>1, <2>2, <4>1 DEF Complete, e
      <4> QED
        BY <1>2, <4>2
    <3> QED
      BY <1>3, <3>1, <3>2
  <2>3. \A k \in 1..e : w[1 + k].item \in B
    BY <1>1, <1>2 DEF Complete, e
  <2>4. ASSUME NEW i \in 1..Len(w), NEW j \in 1..Len(w), w[i].item = w[j].item PROVE i = j
    <3>1. CASE i = 1
      BY <1>2, <1>3, <2>3, <2>4, <3>1
    <3>2. CASE j = 1
      BY <1>2, <1>3, <2>3, <2>4, <3>2
    <3>3. ASSUME NEW a \in 1..e, NEW b \in 1..e, i = 1 + a, j = 1 + b PROVE i = j
      <4>1. w[i] = f[a] /\ w[j] = f[b]
        BY <1>2, <3>3
      <4> QED
        BY <1>1, <2>4, <3>3, <4>1 DEF Complete, e
    <3> QED
      BY <1>3, <3>1, <3>2, <3>3
  <2> QED
    BY <1>2, <2>1, <2>2, <2>4 DEF Complete
<1>5. ASSUME NEW i \in 2..Len(w)
      PROVE  w[i].level > l /\ \E m \in Nat : HasParent(w, i, m)
  <2>1. i \in 1..Len(w) /\ i # 1
    BY <1>2
  <2>2. PICK j \in 1..e : i = 1 + j
    BY <1>3, <2>1
  <2>3. /\ w[i] = f[j] /\ f[j].level > l
        /\ Topmost(f, p, l, Len(Parts[p]), j) \/ \E m \in Nat : HasParent(f, j, m)
    BY <1>2, <2>2 DEF Forest, e
  <2>4. CASE Topmost(f, p, l, Len(Parts[p]), j)
    <3>1. w[i].level = w[1].level + 1 /\ PartOf(w[i].item, w[1].item)
      BY <1>2, <2>3, <2>4 DEF Topmost, PartOf
    <3>2. 1 \in 1..(i - 1) /\ 1 \in Nat
      BY <2>1
    <3>3. ASSUME NEW k \in (1 + 1)..(i - 1) PROVE w[k].level >= w[i].level
      <4>1. k \in 1..Len(w) /\ k # 1
        BY <1>2
      <4>2. PICK a \in 1..e : k = 1 + a
        BY <1>3, <4>1
      <4>3. w[k] = f[a] /\ f[a].level > l /\ f[a].level \in Nat
        BY <1>1, <1>2, <4>2, RowFields DEF Forest, e
      <4>4. w[i].level = l + 1
        BY <1>2, <3>1
      <4> QED
        BY <4>3, <4>4
    <3>4. HasParent(w, i, 1)
      BY <3>1, <3>2, <3>3 DEF HasParent
    <3> QED
      BY <2>3, <3>2, <3>4
  <2>5. ASSUME NEW m \in Nat, HasParent(f, j, m) PROVE \E k \in Nat : HasParent(w, i, k)
    <3>1. 1 + m \in Nat /\ HasParent(w, 1 + j, 1 + m)
      BY <1>1, <1>2, <2>5, ParentMoves DEF e
    <3> QED
      BY <2>2, <3>1
  <2> QED
    BY <2>3, <2>4, <2>5
<1>6. Tree(w, p, l, B \cup {p})
  BY <1>2, <1>4, <1>5 DEF Tree, row
<1> QED
  BY <1>6 DEF w, h, row

LEMMA TreeOfMore ==
  ASSUME NEW s, NEW p, NEW l, NEW B, NEW C, B \subseteq C, Tree(s, p, l, B)
  PROVE  Tree(s, p, l, C)
BY DEF Tree, Complete

\* The rows of p, when those of its parts are right.
LEMMA FlattenedTree ==
  ASSUME NEW g \in [Process \X Nat -> Seq(Row)], NEW p \in Process, NEW l \in Nat,
         NEW B \in SUBSET Process, p \notin B,
         \A k \in 1..Len(Parts[p]) : Tree(g[<<Parts[p][k], l + 1>>], Parts[p][k], l + 1, B)
  PROVE  Tree(Flattened(g, p, l), p, l, B \cup {p})
<1> DEFINE N == Len(Parts[p])
           below == [i \in 1..N |-> g[<<Parts[p][i], l + 1>>]]
           T == Seq(Row)
           S == {n \in Nat : n <= N => Forest(FlattenSeq(SubSeq(below, 1, n)), p, l, n, B)}
<1>1. N \in Nat /\ l + 1 \in Nat /\ \A k \in 1..N : Parts[p][k] \in Process
  BY PartsAreSequences
<1>2. below \in [1..N -> T]
  BY <1>1
<1>3. \A k \in 1..N : below[k] = g[<<Parts[p][k], l + 1>>]
  OBVIOUS
<1> HIDE DEF below, T
<1>4. below \in Seq(T) /\ Len(below) = N
  BY <1>1, <1>2, FunctionSequence
<1>5. \A k \in 1..N : below[k] \in T
  BY <1>2
<1> HIDE DEF N
<1>6. \A n \in 0..N : /\ SubSeq(below, 1, n) \in Seq(T) /\ Len(SubSeq(below, 1, n)) = n
                      /\ \A i \in 1..n : SubSeq(below, 1, n)[i] = below[i]
  BY <1>4, SubSequence
<1>7. \A n \in Nat : n + 1 <= N =>
        SubSeq(below, 1, n + 1) = Append(SubSeq(below, 1, n), below[n + 1])
  <2> SUFFICES ASSUME NEW n \in Nat, n + 1 <= N
               PROVE  SubSeq(below, 1, n + 1) = Append(SubSeq(below, 1, n), below[n + 1])
    OBVIOUS
  <2> DEFINE a == SubSeq(below, 1, n + 1)
             b == SubSeq(below, 1, n)
             x == below[n + 1]
  <2>1. n \in 0..N /\ n + 1 \in 0..N /\ n + 1 \in 1..N
    BY <1>1
  <2>2. a \in Seq(T) /\ Len(a) = n + 1 /\ (\A i \in 1..(n + 1) : a[i] = below[i])
    BY <1>6, <2>1
  <2>3. b \in Seq(T) /\ Len(b) = n /\ (\A i \in 1..n : b[i] = below[i])
    BY <1>6, <2>1
  <2>4. x \in T
    BY <1>5, <2>1
  <2> HIDE DEF a, b
  <2>5. /\ Append(b, x) \in Seq(T) /\ Len(Append(b, x)) = n + 1
        /\ \A i \in 1..(n + 1) : Append(b, x)[i] = IF i = n + 1 THEN x ELSE b[i]
    BY <2>3, <2>4, Appended
  <2>6. \A i \in 1..(n + 1) : i # n + 1 => i \in 1..n
    OBVIOUS
  <2>7. \A i \in 1..(n + 1) : a[i] = Append(b, x)[i]
    BY <2>2, <2>3, <2>5, <2>6
  <2>8. a = Append(b, x)
    BY <2>2, <2>5, <2>7, SameSequence
  <2> QED
    BY <2>8 DEF a, b
<1>8. 0 \in S
  <2>1. 0 \in 0..N
    BY <1>1
  <2>2. SubSeq(below, 1, 0) = <<>>
    BY <1>6, <2>1
  <2>3. FlattenSeq(<<>>) = <<>>
    BY DEF FlattenSeq
  <2>4. Forest(<<>>, p, l, 0, B)
    BY DEF Forest, Complete
  <2> QED
    BY <2>2, <2>3, <2>4
<1>9. ASSUME NEW n \in Nat, n \in S PROVE n + 1 \in S
  <2> SUFFICES ASSUME n + 1 <= N
               PROVE  Forest(FlattenSeq(SubSeq(below, 1, n + 1)), p, l, n + 1, B)
    OBVIOUS
  <2>1. n <= N /\ n \in 0..N /\ n + 1 \in 1..N
    BY <1>1
  <2>2. Forest(FlattenSeq(SubSeq(below, 1, n)), p, l, n, B)
    BY <1>9, <2>1
  <2>3. SubSeq(below, 1, n) \in Seq(Seq(Row)) /\ below[n + 1] \in Seq(Row)
    BY <1>5, <1>6, <2>1 DEF T
  <2>4. FlattenSeq(Append(SubSeq(below, 1, n), below[n + 1]))
        = FlattenSeq(SubSeq(below, 1, n)) \o below[n + 1]
    BY <2>3, FlattenStep
  <2>5. Tree(below[n + 1], Parts[p][n + 1], l + 1, B)
    BY <1>3, <2>1 DEF N
  <2>6. Forest(FlattenSeq(SubSeq(below, 1, n)) \o below[n + 1], p, l, n + 1, B)
    BY <2>2, <2>5, ForestGrows DEF N
  <2> QED
    BY <1>7, <2>4, <2>6
<1> HIDE DEF S
<1>10. N \in S
  <2>1. Nat \subseteq S
    BY <1>8, <1>9, EveryNumber
  <2> QED
    BY <1>1, <2>1
<1>11. SubSeq(below, 1, N) = below
  <2>1. N \in 0..N
    BY <1>1
  <2>2. /\ SubSeq(below, 1, N) \in Seq(T) /\ Len(SubSeq(below, 1, N)) = N
        /\ \A i \in 1..N : SubSeq(below, 1, N)[i] = below[i]
    BY <1>6, <2>1
  <2> QED
    BY <1>4, <2>2, SameSequence
<1>12. Forest(FlattenSeq(below), p, l, N, B)
  <2>1. N \in Nat /\ N <= N
    BY <1>1
  <2>2. Forest(FlattenSeq(SubSeq(below, 1, N)), p, l, N, B)
    BY <1>10, <2>1 DEF S
  <2> QED
    BY <1>11, <2>2
<1>13. Tree(<<[item |-> p, level |-> l]>> \o FlattenSeq(below), p, l, B \cup {p})
  BY <1>12, ForestUnderItem DEF N
<1> QED
  BY <1>13 DEF Flattened, below, N

\* What recurseFlattenRun returns is the tree under an item.
LEMMA RecurseFlattenRunTree ==
  ASSUME NEW p \in Process, NEW l \in Nat
  PROVE  Tree(RecurseFlattenRun[<<p, l>>], p, l, Process)
<1> DEFINE g == [at \in Process \X Nat |-> RecurseFlattenRun[at]]
<1>1. \A q \in Process, m \in Nat : g[<<q, m>>] = RecurseFlattenRun[<<q, m>>]
  OBVIOUS
<1>2. g \in [Process \X Nat -> Seq(Row)]
  <2>1. \A at \in Process \X Nat : at = <<at[1], at[2]>> /\ at[1] \in Process /\ at[2] \in Nat
    OBVIOUS
  <2>2. \A at \in Process \X Nat : RecurseFlattenRun[at] \in Seq(Row)
    BY <2>1, RecurseFlattenRunFacts
  <2> QED
    BY <2>2
<1> HIDE DEF g
<1>3. \A q \in Process, m \in Nat : g[<<q, m>>] = Flattened(g, q, m)
  <2> SUFFICES ASSUME NEW q \in Process, NEW m \in Nat PROVE g[<<q, m>>] = Flattened(g, q, m)
    OBVIOUS
  <2>1. RecurseFlattenRun[<<q, m>>] = Flattened(RecurseFlattenRun, q, m)
    BY RecurseFlattenRunFacts
  <2>2. Flattened(RecurseFlattenRun, q, m) = Flattened(g, q, m)
    <3>1. \A i \in 1..Len(Parts[q]) :
            RecurseFlattenRun[<<Parts[q][i], m + 1>>] = g[<<Parts[q][i], m + 1>>]
      <4>1. m + 1 \in Nat
        OBVIOUS
      <4> QED
        BY <1>1, <4>1, PartsAreSequences
    <3> QED
      BY <3>1, FlattenedAgrees
  <2> QED
    BY <1>1, <2>1, <2>2
<1>4. PICK H : IsLevels(H)
  BY LevelsExist
<1> DEFINE S == {n \in Nat : \A q \in H[n], m \in Nat : Tree(g[<<q, m>>], q, m, H[n])}
<1>5. 0 \in S
  BY <1>4 DEF IsLevels
<1>6. ASSUME NEW n \in Nat, n \in S PROVE n + 1 \in S
  <2> SUFFICES ASSUME NEW q \in H[n + 1], NEW m \in Nat
               PROVE  Tree(g[<<q, m>>], q, m, H[n + 1])
    OBVIOUS
  <2>1. /\ n + 1 \in Nat /\ n <= n + 1
        /\ H[n] \in SUBSET Process /\ H[n + 1] \in SUBSET Process /\ H[n] \subseteq H[n + 1]
    BY <1>4 DEF IsLevels
  <2>2. CASE q \in H[n]
    BY <1>6, <2>1, <2>2, TreeOfMore
  <2>3. CASE q \notin H[n]
    <3>1. q \in Process /\ m + 1 \in Nat /\ \A k \in 1..Len(Parts[q]) : Parts[q][k] \in H[n]
      BY <1>4, <2>1, PartsAreSequences DEF IsLevels
    <3>2. \A k \in 1..Len(Parts[q]) : Tree(g[<<Parts[q][k], m + 1>>], Parts[q][k], m + 1, H[n])
      BY <1>6, <3>1
    <3>3. Tree(Flattened(g, q, m), q, m, H[n] \cup {q})
      BY <1>2, <2>1, <2>3, <3>1, <3>2, FlattenedTree
    <3>4. Tree(g[<<q, m>>], q, m, H[n] \cup {q})
      BY <1>3, <3>1, <3>3
    <3>5. H[n] \cup {q} \subseteq H[n + 1]
      BY <2>1
    <3> QED
      BY <3>4, <3>5, TreeOfMore
  <2> QED
    BY <2>2, <2>3
<1> HIDE DEF S
<1>7. PICK n \in Nat : p \in H[n]
  BY <1>4 DEF IsLevels
<1>8. n \in S
  BY <1>5, <1>6, <1>7, EveryNumber
<1>9. H[n] \subseteq Process /\ Tree(g[<<p, l>>], p, l, H[n])
  BY <1>4, <1>8, <1>7 DEF S, IsLevels
<1> QED
  BY <1>1, <1>9, TreeOfMore

-----------------------------------------------------------------------------
(* The rows under a run.                                                    *)

\* Row i is one level below row m, and nothing between them is above row i.
StandsUnder(s, p, i, m) ==
  /\ m \in 1..Len(s)
  /\ s[m].level \in Nat /\ s[i].level \in Nat
  /\ s[i].level = s[m].level + 1
  /\ s[i].item \in ToSet(Parts[s[m].item])
  /\ \A j \in (m + 1)..(i - 1) : s[j].level >= s[i].level
  /\ m = 1 => s[m].level = 0 /\ s[m].item = p
  /\ m # 1 => s[m].level > 0

LEMMA RowBelow ==
  ASSUME NEW p \in Process, NEW B, NEW s, Tree(s, p, 0, B), NEW i \in 2..Len(s)
  PROVE  \E m \in 1..(i - 1) : StandsUnder(s, p, i, m)
<1>1. s \in Seq(Row) /\ s[1] = [item |-> p, level |-> 0] /\ Len(s) \in Nat
  BY DEF Tree, Complete
<1>2. PICK m \in Nat : HasParent(s, i, m)
  BY DEF Tree
<1>3. m \in 1..(i - 1) /\ m \in 1..Len(s) /\ i \in 1..Len(s) /\ (m # 1 => m \in 2..Len(s))
  BY <1>1, <1>2 DEF HasParent
<1>4. s[m].level \in Nat /\ s[i].level \in Nat /\ s[m].item \in Process
  BY <1>1, <1>3, RowFields
<1>5. s[i].item \in ToSet(Parts[s[m].item])
  BY <1>2, <1>4, PartsAreSequences DEF HasParent, PartOf, ToSet
<1>6. m = 1 => s[m].level = 0 /\ s[m].item = p
  BY <1>1
<1>7. m # 1 => s[m].level > 0
  BY <1>3 DEF Tree
<1>8. s[i].level = s[m].level + 1 /\ \A j \in (m + 1)..(i - 1) : s[j].level >= s[i].level
  BY <1>2 DEF HasParent
<1> QED
  BY <1>3, <1>4, <1>5, <1>6, <1>7, <1>8 DEF StandsUnder

LEMMA RowsInOrder == TypeOK => FlattenedInOrder
<1> SUFFICES ASSUME focus \in Process, focus # None PROVE FlattenedInOrder
  BY ItemAssumption DEF TypeOK, FlattenedInOrder
<1> DEFINE s == RecurseFlattenRun[<<focus, 0>>]
           rs == FlattenRun
           n == Len(s)
           within == {focus} \cup {row.item : row \in ToSet(rs)}
           Above(i) == {j \in 1..(i - 1) : rs[j].level < rs[i].level}
           ParentOf(i) == IF Above(i) = {} THEN focus ELSE rs[Max(Above(i))].item
<1>1. Tree(s, focus, 0, Process)
  BY RecurseFlattenRunTree
<1>2. rs = Tail(s)
  BY DEF FlattenRun
<1> HIDE DEF s, rs
<1>3. s \in Seq(Row) /\ n \in Nat /\ n >= 1 /\ s[1].item = focus /\ s[1].level = 0
  BY <1>1 DEF Tree, Complete
<1>4. /\ rs \in Seq(Row) /\ Len(rs) = n - 1 /\ DOMAIN rs = 1..(n - 1)
      /\ \A i \in 1..(n - 1) : rs[i] = s[i + 1]
  <2> DEFINE T == Row
  <2>1. s \in Seq(T) /\ s # <<>>
    BY <1>3
  <2> HIDE DEF T
  <2>2. Tail(s) \in Seq(T) /\ Len(Tail(s)) = Len(s) - 1 /\ DOMAIN Tail(s) = 1..(Len(s) - 1)
        /\ \A i \in 1..(Len(s) - 1) : Tail(s)[i] = s[i + 1]
    BY <2>1
  <2> QED
    BY <1>2, <2>2 DEF T
<1> HIDE DEF n
<1>5. within = {s[i].item : i \in 1..n}
  <2>1. ToSet(rs) = {s[i + 1] : i \in 1..(n - 1)}
    BY <1>4 DEF ToSet
  <2>2. \A i \in 1..n : i = 1 \/ (i - 1 \in 1..(n - 1) /\ i = (i - 1) + 1)
    BY <1>3
  <2>3. \A i \in 1..(n - 1) : i + 1 \in 1..n
    BY <1>3
  <2>4. 1 \in 1..n
    BY <1>3
  <2>5. {row.item : row \in ToSet(rs)} = {s[i + 1].item : i \in 1..(n - 1)}
    BY <2>1
  <2> QED
    BY <1>3, <2>2, <2>3, <2>4, <2>5
<1>6. Len(rs) + 1 = Cardinality(within)
  <2> DEFINE f == [i \in 1..n |-> s[i].item]
  <2>1. \A i, j \in 1..n : f[i] = f[j] => i = j
    BY <1>1 DEF Tree, Complete, n
  <2>2. {f[i] : i \in 1..n} = {s[i].item : i \in 1..n}
    OBVIOUS
  <2> HIDE DEF f, within
  <2> DEFINE V == {f[i] : i \in 1..n}
  <2>3. Cardinality(V) = n
    <3>1. n \in Nat
      BY <1>3
    <3> QED
      BY <2>1, <3>1, DifferentValues
  <2>4. within = V
    BY <1>5, <2>2
  <2> HIDE DEF V
  <2> QED
    BY <1>3, <1>4, <2>3, <2>4
<1> HIDE DEF within
<1>7. \A x \in within : ToSet(Parts[x]) \subseteq within
  <2> SUFFICES ASSUME NEW x \in within, NEW y \in ToSet(Parts[x]) PROVE y \in within
    OBVIOUS
  <2>1. PICK i \in 1..n : x = s[i].item
    BY <1>5
  <2>2. x \in Process
    BY <1>3, <2>1, RowFields DEF n
  <2>3. y \in Process /\ PartOf(y, x)
    BY <2>2, PartsAreSequences DEF PartOf, ToSet
  <2>4. PICK j \in 1..n : s[j].item = y
    BY <1>1, <2>1, <2>3 DEF Tree, Complete, n
  <2> QED
    BY <1>5, <2>4
<1>8. ASSUME NEW i \in 1..(n - 1)
      PROVE  /\ rs[i].item \in ToSet(Parts[ParentOf(i)])
             /\ rs[i].level = 1 <=> Above(i) = {}
             /\ Above(i) # {} => rs[i].level = rs[Max(Above(i))].level + 1
  <2>1. i \in Nat /\ i + 1 \in 2..n /\ (i + 1) - 1 = i /\ rs[i] = s[i + 1]
    BY <1>3, <1>4
  <2>2. PICK m \in 1..i : StandsUnder(s, focus, i + 1, m)
    <3>1. \E m \in 1..((i + 1) - 1) : StandsUnder(s, focus, i + 1, m)
      BY <1>1, <2>1, RowBelow DEF n
    <3> QED
      BY <2>1, <3>1
  <2>3. /\ m \in 1..n
        /\ s[m].level \in Nat /\ s[i + 1].level \in Nat
        /\ s[i + 1].level = s[m].level + 1
        /\ s[i + 1].item \in ToSet(Parts[s[m].item])
        /\ \A j \in (m + 1)..i : s[j].level >= s[i + 1].level
        /\ m = 1 => s[m].level = 0 /\ s[m].item = focus
        /\ m # 1 => s[m].level > 0
    BY <2>1, <2>2 DEF StandsUnder, n
  <2>4. \A j \in 1..(i - 1) : j \in 1..(n - 1) /\ j + 1 \in 1..n /\ rs[j] = s[j + 1] /\ rs[j].level \in Nat
    <3>1. \A j \in 1..(i - 1) : j \in 1..(n - 1) /\ j + 1 \in 1..n
      BY <1>3
    <3>2. \A j \in 1..n : s[j].level \in Nat
      BY <1>3, RowFields DEF n
    <3> QED
      BY <1>4, <3>1, <3>2
  <2>5. CASE m = 1
    <3>1. rs[i].level = 1 /\ rs[i].item \in ToSet(Parts[focus])
      BY <2>1, <2>3, <2>5
    <3>2. \A j \in 1..(i - 1) : ~(rs[j].level < rs[i].level)
      <4> SUFFICES ASSUME NEW j \in 1..(i - 1) PROVE ~(rs[j].level < rs[i].level)
        OBVIOUS
      <4>1. j + 1 \in (m + 1)..i
        BY <2>5
      <4>2. s[j + 1].level >= s[i + 1].level
        BY <2>3, <4>1
      <4> QED
        BY <2>1, <2>3, <2>4, <4>2
    <3>3. Above(i) = {}
      BY <3>2
    <3> QED
      BY <3>1, <3>3
  <2>6. CASE m # 1
    <3>1. m - 1 \in 1..(i - 1) /\ (m - 1) + 1 = m
      BY <2>3, <2>6
    <3>2. rs[m - 1] = s[m] /\ rs[m - 1].level < rs[i].level
      BY <2>1, <2>3, <2>4, <3>1
    <3>3. m - 1 \in Above(i)
      BY <3>1, <3>2
    <3>4. \A j \in Above(i) : j \in 1..(i - 1) /\ j <= m - 1
      <4> SUFFICES ASSUME NEW j \in 1..(i - 1), rs[j].level < rs[i].level PROVE j <= m - 1
        OBVIOUS
      <4>1. SUFFICES ASSUME ~(j <= m - 1) PROVE FALSE
        OBVIOUS
      <4>2. j + 1 \in (m + 1)..i
        BY <2>3, <4>1
      <4>3. s[j + 1].level >= s[i + 1].level
        BY <2>3, <4>2
      <4> QED
        BY <2>1, <2>3, <2>4, <4>3
    <3>5. Above(i) \in SUBSET (1..(i - 1)) /\ i - 1 \in Nat
      BY <2>1
    <3> HIDE DEF Above
    <3>6. Max(Above(i)) \in Above(i) /\ \A x \in Above(i) : x <= Max(Above(i))
      BY <3>3, <3>5, Largest
    <3>7. Max(Above(i)) = m - 1
      BY <3>3, <3>4, <3>6
    <3>8. rs[i].level # 1 /\ rs[i].level = rs[m - 1].level + 1
      BY <2>1, <2>3, <2>6, <3>2
    <3>9. ParentOf(i) = rs[m - 1].item
      BY <3>3, <3>7
    <3>10. rs[i].item \in ToSet(Parts[rs[m - 1].item])
      BY <2>1, <2>3, <3>2
    <3> QED
      BY <3>3, <3>7, <3>8, <3>9, <3>10
  <2> QED
    BY <2>5, <2>6
<1> QED
  BY <1>4, <1>6, <1>7, <1>8 DEF FlattenedInOrder, within, rs

\* flattenRun: whatever is shown, the rows below it are those of its tree, each once, each
\* one level below its parent with nothing of a smaller level in between.
THEOREM FlattenedCorrect == Spec => []FlattenedInOrder
<1>1. IInv => FlattenedInOrder
  BY RowsInOrder DEF IInv
<1> QED
  BY <1>1, PortalInvariance, PTL
=============================================================================
