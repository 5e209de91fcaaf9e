---------------------------- MODULE DashboardProofs ----------------------------
(***************************************************************************)
(* What two parts of the page keep, for every number of captures, pages    *)
(* and requests and however many checks overlap: a monitor that runs never *)
(* goes blind, and the image dialog shows the first captures in their      *)
(* order and holds no picture that is not on the page.                     *)
(***************************************************************************)
EXTENDS Dashboard, FiniteSetTheorems, TLAPS

-----------------------------------------------------------------------------
\* The monitor of the accelerator.

HealthTypeOK ==
  /\ initial \in Nat /\ polls \in Nat /\ rapids \in Nat /\ strays \in Nat
  /\ polling \in BOOLEAN /\ timer \in BOOLEAN

\* Something is left that goes on asking whatever the answer is.  A check of the interval
\* is not: a good answer to it leaves everything as it is.
Alive == polling \/ timer \/ initial > 0 \/ rapids > 0 \/ strays > 0

HealthInv == HealthTypeOK /\ (Running => Alive)

-----------------------------------------------------------------------------
\* The interval keeps a monitor alive, whatever round ends.
LEMMA PollingAlive ==
  ASSUME HealthTypeOK, NEW r \in Nat, StartHealthyPolling(r),
         UNCHANGED polls, initial' \in Nat
  PROVE  HealthInv'
<1>1. HealthTypeOK'
  BY DEF HealthTypeOK, StartHealthyPolling
<1>2. Alive'
  BY DEF StartHealthyPolling, Alive
<1> QED BY <1>1, <1>2, Zenon DEF HealthInv

\* So does the first check of a rapid round: only a stopped monitor does not make it.
LEMMA RapidAlive ==
  ASSUME HealthTypeOK, StartRapidChecks, UNCHANGED phase, polls' \in Nat, initial' \in Nat
  PROVE  HealthInv'
<1>1. /\ rapids' = rapids + 1 \/ rapids' = rapids
      /\ polling' = FALSE /\ timer' = FALSE /\ strays' = strays
  BY DEF StartRapidChecks
<1>2. HealthTypeOK'
  <2>1. rapids' \in Nat /\ strays' \in Nat
    BY <1>1 DEF HealthTypeOK
  <2>2. polling' \in BOOLEAN /\ timer' \in BOOLEAN
    BY <1>1
  <2> QED BY <2>1, <2>2, Zenon DEF HealthTypeOK
<1>3. Running => Alive'
  BY DEF HealthTypeOK, StartRapidChecks, Alive
<1>4. Running' => Running
  BY DEF Running
<1> QED BY <1>2, <1>3, <1>4, Zenon DEF HealthInv

LEMMA AnswersKeepAlive ==
  ASSUME HealthInv, NEW healthy \in BOOLEAN, InitialAnswers(healthy) \/ PollAnswers(healthy)
  PROVE  HealthInv'
<1>1. CASE InitialAnswers(healthy)
  <2>1. initial' \in Nat /\ polls' \in Nat /\ UNCHANGED <<phase, polls>> /\ rapids \in Nat
    BY <1>1 DEF InitialAnswers, HealthInv, HealthTypeOK
  <2>2. CASE healthy
    BY <1>1, <2>1, <2>2, PollingAlive DEF InitialAnswers, HealthInv
  <2>3. CASE ~healthy
    BY <1>1, <2>1, <2>3, RapidAlive DEF InitialAnswers, HealthInv
  <2> QED BY <2>2, <2>3
<1>2. CASE PollAnswers(healthy)
  <2>1. initial' \in Nat /\ polls' \in Nat /\ UNCHANGED <<phase, initial>>
    BY <1>2 DEF PollAnswers, HealthInv, HealthTypeOK
  <2>2. CASE healthy
    BY <1>2, <2>1, <2>2 DEF PollAnswers, HealthInv, HealthTypeOK, Alive, Running
  <2>3. CASE ~healthy
    BY <1>2, <2>1, <2>3, RapidAlive DEF PollAnswers, HealthInv
  <2> QED BY <2>2, <2>3
<1> QED BY <1>1, <1>2

LEMMA RapidAnswersKeepAlive ==
  ASSUME HealthInv, RapidHealthy \/ RapidFails \/ RapidFailsOpen \/ RapidFailsThird
  PROVE  HealthInv'
<1>1. CASE RapidFails
  BY <1>1 DEF RapidFails, HealthInv, HealthTypeOK, Alive
<1>2. CASE RapidHealthy \/ RapidFailsOpen \/ RapidFailsThird
  <2>1. StartHealthyPolling(rapids - 1) /\ rapids - 1 \in Nat /\ UNCHANGED <<polls, initial>>
    BY <1>2 DEF RapidHealthy, RapidFailsOpen, RapidFailsThird, HealthInv, HealthTypeOK
  <2> QED BY <2>1, PollingAlive DEF HealthInv, HealthTypeOK
<1> QED BY <1>1, <1>2

-----------------------------------------------------------------------------
LEMMA HealthInitInv == HealthInit => HealthInv
<1> SUFFICES ASSUME HealthInit PROVE HealthInv
  OBVIOUS
<1>1. HealthTypeOK
  BY DEF HealthInit, HealthTypeOK
<1>2. ~Running
  BY DEF HealthInit, Running
<1> QED BY <1>1, <1>2 DEF HealthInv

\* Whatever overlaps, a running monitor has something that will ask again.
LEMMA HealthStepInv == HealthInv /\ [HealthNext]_healthVars => HealthInv'
<1> SUFFICES ASSUME HealthInv, [HealthNext]_healthVars PROVE HealthInv'
  OBVIOUS
<1>1. CASE StartMonitoring
  BY <1>1 DEF StartMonitoring, HealthInv, HealthTypeOK, Alive
<1>2. CASE StopMonitoring
  BY <1>2 DEF StopMonitoring, HealthInv, HealthTypeOK, Running
<1>3. CASE Checked
  <2>1. PICK healthy \in {FALSE, up} : InitialAnswers(healthy) \/ PollAnswers(healthy)
    BY <1>3 DEF Checked
  <2>2. CASE healthy
    <3>1. InitialAnswers(TRUE) \/ PollAnswers(TRUE)
      BY <2>1, <2>2 DEF InitialAnswers, PollAnswers
    <3> QED BY <3>1, AnswersKeepAlive
  <2>3. CASE ~healthy
    <3>1. InitialAnswers(FALSE) \/ PollAnswers(FALSE)
      BY <2>1, <2>3 DEF InitialAnswers, PollAnswers
    <3> QED BY <3>1, AnswersKeepAlive
  <2> QED BY <2>2, <2>3
<1>4. CASE RapidChecked
  BY <1>4, RapidAnswersKeepAlive DEF RapidChecked
<1>5. CASE PollTick
  <2>1. CASE Running
    BY <1>5, <2>1 DEF PollTick, HealthInv, HealthTypeOK, Alive, Running
  <2>2. CASE ~Running
    BY <1>5, <2>2, RapidAlive DEF PollTick, HealthInv, HealthTypeOK
  <2> QED BY <2>1, <2>2
<1>6. CASE \E armed \in {"held", "stray"} : RapidTick(armed)
  <2>1. PICK armed \in {"held", "stray"} : RapidTick(armed)
    BY <1>6
  <2>2. UNCHANGED <<phase, initial, polls, polling>>
    BY <2>1 DEF RapidTick
  <2>3. HealthTypeOK'
    <3>1. rapids' \in Nat
      BY <2>1 DEF RapidTick, HealthInv, HealthTypeOK
    <3>2. strays' \in Nat
      BY <2>1 DEF RapidTick, HealthInv, HealthTypeOK
    <3>3. timer' \in BOOLEAN
      BY <2>1 DEF RapidTick, HealthInv, HealthTypeOK
    <3>4. initial' \in Nat /\ polls' \in Nat /\ polling' \in BOOLEAN
      BY <2>2 DEF HealthInv, HealthTypeOK
    <3> QED BY <3>1, <3>2, <3>3, <3>4 DEF HealthTypeOK
  <2>4. Running => Alive'
    BY <2>1 DEF RapidTick, HealthInv, HealthTypeOK, Alive
  <2>5. Running' => Running
    BY <2>2 DEF Running
  <2> QED BY <2>3, <2>4, <2>5, Zenon DEF HealthInv
<1>7. CASE UNCHANGED monitor
  BY <1>7 DEF monitor, HealthInv, HealthTypeOK, Alive, Running
<1>8. CASE CloseDialog \/ PowerOn \/ PowerOnReturns \/ ButtonAsks \/ ButtonClick \/ UpOrDown
           \/ (\E wasOpen \in BOOLEAN : ButtonChecked(wasOpen)) \/ UNCHANGED healthVars
  <2>1. UNCHANGED monitor
    BY <1>8 DEF CloseDialog, PowerOn, PowerOnReturns, ButtonAsks, ButtonClick, UpOrDown,
                ButtonChecked, ButtonAnswers, healthVars
  <2> QED BY <2>1, <1>7
<1> QED BY <1>1, <1>2, <1>3, <1>4, <1>5, <1>6, <1>8 DEF HealthNext

-----------------------------------------------------------------------------
\* The image dialog.

Request == [op : {"list", "delete"}, arg : Nat]

GalleryTypeOK ==
  /\ server \subseteq Images /\ page \in Nat /\ queue \in Seq(Request)
  /\ tab \in {"library", "captured", "closed"} /\ back \in {"library", "captured"}
  /\ tab # "closed" => back = tab
  /\ loading \in BOOLEAN /\ once \in BOOLEAN /\ disturbed \in BOOLEAN
  /\ \A a \in asks : a = [id |-> a.id, cancelled |-> a.cancelled] /\ a.cancelled \in BOOLEAN

\* The one list under way is of the page that comes next.
ListsOf(q) == {i \in DOMAIN q : q[i].op = "list"}
NextPageDue ==
  \A i \in ListsOf(queue) : queue[i].arg = page /\ loading /\ once /\ ListsOf(queue) = {i}

Orderly ==
  /\ tab = "closed" => ~loading /\ ~once
  /\ tab = "captured" => once
  /\ tab # "closed" /\ ~disturbed =>
       /\ shown = Newest(1, page * PageSize)
       /\ ~once => page = 0
       /\ NextPageDue

\* What is asked for and not cancelled is on the page.
Thumbs == urls \subseteq OnPage /\ \A a \in asks : ~a.cancelled => a.id \in OnPage

GalleryInv == GalleryTypeOK /\ Orderly /\ Thumbs

LEMMA Captures ==
  ASSUME GalleryTypeOK
  PROVE  Images \subseteq Nat /\ Cardinality(server) \in Nat
<1>1. Cardinality(Images) \in Nat /\ Images = 1 .. Cardinality(Images)
  BY GalleryAssumption, FS_CardinalityType
<1>2. IsFiniteSet(server)
  BY GalleryAssumption, FS_Subset DEF GalleryTypeOK
<1> QED BY <1>1, <1>2, FS_CardinalityType

\* The first pages with the next one are the first pages, one more.
LEMMA PagesJoin ==
  ASSUME NEW all, NEW c \in Nat, NEW a \in Nat, NEW b \in Nat, a <= b
  PROVE  SubSeq(all, 1, IF a < c THEN a ELSE c) \o SubSeq(all, a + 1, IF b < c THEN b ELSE c)
           = SubSeq(all, 1, IF b < c THEN b ELSE c)
  OBVIOUS

LEMMA NextPageJoins ==
  ASSUME GalleryTypeOK
  PROVE  /\ Newest(1, page * PageSize) \o Newest(page * PageSize + 1, (page + 1) * PageSize)
              = Newest(1, (page + 1) * PageSize)
         /\ Newest(1, 0 * PageSize) = << >>
<1>1. /\ page * PageSize \in Nat /\ (page + 1) * PageSize \in Nat /\ 0 * PageSize = 0
      /\ page * PageSize <= (page + 1) * PageSize
  <2>1. page \in Nat /\ PageSize \in Nat
    BY GalleryAssumption DEF GalleryTypeOK
  <2>2. (page + 1) * PageSize = page * PageSize + PageSize
    BY <2>1
  <2> QED BY <2>1, <2>2
<1>2. Cardinality(server) \in Nat
  BY Captures
<1> DEFINE a == page * PageSize
           b == (page + 1) * PageSize
<1>3. Newest(1, a) \o Newest(a + 1, b) = Newest(1, b)
  <2>1. a \in Nat /\ b \in Nat /\ a <= b
    BY <1>1
  <2> HIDE DEF a, b
  <2> QED BY <2>1, <1>2, PagesJoin DEF Newest
<1>4. Newest(1, 0) = << >>
  BY <1>2 DEF Newest
<1> QED BY <1>1, <1>3, <1>4

\* Thumbnails are mounted for the pictures on the page.
LEMMA MountedThumbs ==
  ASSUME GalleryTypeOK, NEW M, Mounted(M), M = OnPage'
  PROVE  /\ Thumbs'
         /\ \A a \in asks' : a = [id |-> a.id, cancelled |-> a.cancelled] /\ a.cancelled \in BOOLEAN
<1> DEFINE Kept(a) == [a EXCEPT !.cancelled = IF a.id \in M THEN @ ELSE TRUE]
           New(i) == [id |-> i, cancelled |-> FALSE]
<1>1. urls' \subseteq M
  BY DEF Mounted
<1>2. \A b \in asks' : (\E a \in asks : b = Kept(a)) \/ \E i \in M : b = New(i)
  BY DEF Mounted
<1>3. ASSUME NEW a \in asks
      PROVE  /\ Kept(a) = [id |-> Kept(a).id, cancelled |-> Kept(a).cancelled]
             /\ Kept(a).cancelled \in BOOLEAN
             /\ ~Kept(a).cancelled => Kept(a).id \in M
  <2>1. a = [id |-> a.id, cancelled |-> a.cancelled] /\ a.cancelled \in BOOLEAN
    BY DEF GalleryTypeOK
  <2>2. CASE a.id \in M
    <3>1. Kept(a) = a
      BY <2>1, <2>2
    <3> QED BY <2>1, <2>2, <3>1
  <2>3. CASE a.id \notin M
    <3>1. PICK i, c : a = [id |-> i, cancelled |-> c]
      BY <2>1
    <3>2. Kept(a) = [a EXCEPT !.cancelled = TRUE]
      BY <2>3
    <3> HIDE DEF Kept
    <3>3. Kept(a) = [id |-> i, cancelled |-> TRUE]
      BY <3>1, <3>2
    <3> QED BY <2>3, <3>3
  <2> QED BY <2>2, <2>3
<1>4. ASSUME NEW i \in M
      PROVE  /\ New(i) = [id |-> New(i).id, cancelled |-> New(i).cancelled]
             /\ New(i).cancelled \in BOOLEAN /\ New(i).id \in M
  OBVIOUS
<1> HIDE DEF Kept, New
<1> QED BY <1>1, <1>2, <1>3, <1>4 DEF Thumbs

LEMMA ListsOfAppend ==
  ASSUME NEW q \in Seq(Request), NEW e \in Request
  PROVE  /\ Append(q, e) \in Seq(Request)
         /\ e.op = "list" => ListsOf(Append(q, e)) = ListsOf(q) \cup {Len(q) + 1}
         /\ e.op # "list" => ListsOf(Append(q, e)) = ListsOf(q)
         /\ Append(q, e)[Len(q) + 1] = e
         /\ \A i \in ListsOf(q) : Append(q, e)[i] = q[i]
<1>1. /\ Append(q, e) \in Seq(Request) /\ DOMAIN q = 1 .. Len(q) /\ Len(q) \in Nat
      /\ DOMAIN Append(q, e) = 1 .. Len(q) + 1
      /\ Append(q, e)[Len(q) + 1] = e /\ \A i \in 1 .. Len(q) : Append(q, e)[i] = q[i]
  OBVIOUS
<1> QED BY <1>1 DEF ListsOf

\* No list is left once the only one is answered.
LEMMA NoListLeft ==
  ASSUME GalleryTypeOK, NextPageDue, queue # << >>, Head(queue).op = "list"
  PROVE  ListsOf(Tail(queue)) = {} /\ Head(queue).arg = page
<1>1. /\ DOMAIN queue = 1 .. Len(queue) /\ Len(queue) \in Nat \ {0} /\ Head(queue) = queue[1]
      /\ DOMAIN Tail(queue) = 1 .. Len(queue) - 1
      /\ \A i \in 1 .. Len(queue) - 1 : Tail(queue)[i] = queue[i + 1] /\ i + 1 \in DOMAIN queue
  BY DEF GalleryTypeOK
<1>2. 1 \in ListsOf(queue)
  BY <1>1 DEF ListsOf
<1>3. ListsOf(queue) = {1} /\ queue[1].arg = page
  BY <1>2 DEF NextPageDue
<1>4. ASSUME NEW i \in ListsOf(Tail(queue)) PROVE FALSE
  <2>1. i \in 1 .. Len(queue) - 1 /\ queue[i + 1].op = "list" /\ i + 1 \in DOMAIN queue /\ i + 1 # 1
    BY <1>1 DEF ListsOf
  <2>2. i + 1 \in ListsOf(queue)
    BY <2>1 DEF ListsOf
  <2> QED BY <1>3, <2>1, <2>2
<1> QED BY <1>1, <1>3, <1>4

\* A page is asked for when none is under way, and it is the next one.
LEMMA LoadDue ==
  ASSUME GalleryTypeOK, NextPageDue, Load(page), once', page' = page
  PROVE  NextPageDue'
<1>1. CASE loading
  BY <1>1 DEF Load, NextPageDue
<1>2. CASE ~loading
  <2> DEFINE e == [op |-> "list", arg |-> page]
  <2>1. loading' /\ queue' = Append(queue, e)
    BY <1>2 DEF Load
  <2>2. queue \in Seq(Request) /\ e \in Request /\ e.op = "list" /\ e.arg = page
    BY DEF GalleryTypeOK, Request
  <2>3. ListsOf(queue) = {}
    BY <1>2 DEF NextPageDue
  <2> HIDE DEF e
  <2>4. ListsOf(queue') = {Len(queue) + 1} /\ queue'[Len(queue) + 1] = e
    BY <2>1, <2>2, <2>3, ListsOfAppend
  <2> QED BY <2>1, <2>2, <2>4 DEF NextPageDue
<1> QED BY <1>1, <1>2

LEMMA LoadTypes ==
  ASSUME GalleryTypeOK, NEW p \in Nat, Load(p)
  PROVE  queue' \in Seq(Request) /\ loading' \in BOOLEAN
<1> DEFINE e == [op |-> "list", arg |-> p]
<1>1. e \in Request
  BY DEF Request
<1>2. UNCHANGED <<loading, queue>> \/ (loading' = TRUE /\ queue' = Append(queue, e))
  BY DEF Load
<1> HIDE DEF e
<1>3. queue' \in Seq(Request)
  BY <1>1, <1>2 DEF GalleryTypeOK
<1>4. loading' \in BOOLEAN
  BY <1>2 DEF GalleryTypeOK
<1> QED BY <1>3, <1>4

\* A tab is shown, of a dialog that was open or is opened.
LEMMA ShowsInv ==
  ASSUME GalleryTypeOK, NEW t \in {"library", "captured"}, Shows(t),
         UNCHANGED <<server, page>>, disturbed' \in BOOLEAN,
         ~disturbed' => shown = Newest(1, page * PageSize) /\ (~once => page = 0) /\ NextPageDue
  PROVE  GalleryInv'
<1>1. /\ tab' = t /\ back' = t /\ UNCHANGED shown
      /\ \/ t = "captured" /\ ~once /\ once' = TRUE /\ Load(0)
         \/ ~(t = "captured" /\ ~once) /\ UNCHANGED <<once, loading, queue>>
      /\ Mounted(OnPage')
  BY DEF Shows
<1>2. Thumbs' /\ \A a \in asks' : a = [id |-> a.id, cancelled |-> a.cancelled] /\ a.cancelled \in BOOLEAN
  BY <1>1, MountedThumbs
<1>3. GalleryTypeOK'
  <2>1. queue' \in Seq(Request) /\ loading' \in BOOLEAN
    <3>1. CASE Load(0)
      BY <3>1, LoadTypes
    <3>2. CASE UNCHANGED <<once, loading, queue>>
      BY <3>2 DEF GalleryTypeOK
    <3> QED BY <1>1, <3>1, <3>2
  <2>2. once' \in BOOLEAN
    BY <1>1 DEF GalleryTypeOK
  <2> QED BY <1>1, <1>2, <2>1, <2>2 DEF GalleryTypeOK
<1>4. Orderly'
  <2>1. t = "captured" => once'
    BY <1>1
  <2>2. ASSUME ~disturbed' PROVE shown' = Newest(1, page * PageSize)' /\ (~once' => page' = 0) /\ NextPageDue'
    <3>1. shown = Newest(1, page * PageSize) /\ (~once => page = 0) /\ NextPageDue
      BY <2>2
    <3>2. shown' = Newest(1, page * PageSize)'
      BY <1>1, <3>1 DEF Newest
    <3>3. CASE t = "captured" /\ ~once
      <4>1. Load(page) /\ once'
        BY <1>1, <3>1, <3>3
      <4> QED BY <3>2, <4>1, <3>1, LoadDue
    <3>4. CASE ~(t = "captured" /\ ~once)
      <4>1. UNCHANGED <<once, loading, queue>>
        BY <1>1, <3>4
      <4> QED BY <3>1, <3>2, <4>1 DEF NextPageDue
    <3> QED BY <3>3, <3>4
  <2> QED BY <1>1, <2>1, <2>2 DEF Orderly
<1> QED BY <1>2, <1>3, <1>4 DEF GalleryInv

LEMMA OpensInv ==
  ASSUME GalleryInv, OpenGallery \/ \E t \in {"library", "captured"} : SwitchTab(t)
  PROVE  GalleryInv'
<1>0. GalleryTypeOK /\ Orderly
  BY DEF GalleryInv
<1>1. CASE OpenGallery
  <2>1. /\ tab = "closed" /\ Shows(back) /\ UNCHANGED <<server, page, more>>
        /\ disturbed' = (ListsDue \/ shown # << >> \/ page # 0 \/ ~more)
    BY <1>1 DEF OpenGallery
  <2>2. ASSUME ~disturbed'
        PROVE  shown = Newest(1, page * PageSize) /\ (~once => page = 0) /\ NextPageDue
    <3>1. ~ListsDue /\ shown = << >> /\ page = 0
      BY <2>1, <2>2
    <3>2. NextPageDue
      BY <3>1 DEF ListsDue, NextPageDue, ListsOf
    <3>3. Newest(1, 0 * PageSize) = << >>
      BY <1>0, NextPageJoins
    <3> QED BY <3>1, <3>2, <3>3
  <2>3. disturbed' \in BOOLEAN /\ back \in {"library", "captured"}
    BY <1>0, <2>1 DEF GalleryTypeOK
  <2> QED BY <1>0, <2>1, <2>2, <2>3, ShowsInv
<1>2. CASE \E t \in {"library", "captured"} : SwitchTab(t)
  <2>1. PICK t \in {"library", "captured"} : SwitchTab(t)
    BY <1>2
  <2>2. tab # "closed" /\ Shows(t) /\ UNCHANGED <<server, page, more, disturbed>>
    BY <2>1 DEF SwitchTab
  <2>3. disturbed' \in BOOLEAN
    BY <1>0, <2>2 DEF GalleryTypeOK
  <2> QED BY <1>0, <2>2, <2>3, ShowsInv DEF Orderly
<1> QED BY <1>1, <1>2

LEMMA CloseGalleryInv ==
  ASSUME GalleryInv, CloseGallery
  PROVE  GalleryInv'
<1>1. /\ tab # "closed" /\ tab' = "closed" /\ UNCHANGED back
      /\ page' = 0 /\ loading' = FALSE /\ once' = FALSE /\ disturbed' = FALSE
      /\ Mounted(OnPage') /\ UNCHANGED <<server, queue>>
  BY DEF CloseGallery
<1>2. GalleryTypeOK
  BY DEF GalleryInv
<1>3. Thumbs' /\ \A a \in asks' : a = [id |-> a.id, cancelled |-> a.cancelled] /\ a.cancelled \in BOOLEAN
  BY <1>1, <1>2, MountedThumbs
<1>4. GalleryTypeOK' /\ Orderly'
  BY <1>1, <1>2, <1>3 DEF GalleryTypeOK, Orderly
<1> QED BY <1>3, <1>4 DEF GalleryInv

LEMMA ObservedInv ==
  ASSUME GalleryInv, Observed
  PROVE  GalleryInv'
<1>1. /\ tab = "captured" /\ UNCHANGED <<server, tab, back, shown, page, once, thumbs, disturbed>>
      /\ Load(page) \/ UNCHANGED <<loading, queue>>
  BY DEF Observed
<1>2. GalleryTypeOK /\ Orderly /\ Thumbs
  BY DEF GalleryInv
<1>3. GalleryTypeOK'
  <2>1. queue' \in Seq(Request) /\ loading' \in BOOLEAN
    BY <1>1, <1>2, LoadTypes DEF GalleryTypeOK
  <2> QED BY <1>1, <1>2, <2>1 DEF GalleryTypeOK, thumbs
<1>4. Orderly'
  <2>1. NextPageDue => NextPageDue'
    <3>1. CASE Load(page)
      BY <1>1, <1>2, <3>1, LoadDue DEF Orderly
    <3>2. CASE UNCHANGED <<loading, queue>>
      BY <1>1, <3>2 DEF NextPageDue
    <3> QED BY <1>1, <3>1, <3>2
  <2> QED BY <1>1, <1>2, <2>1 DEF Orderly, Newest
<1>5. Thumbs'
  BY <1>1, <1>2 DEF Thumbs, OnPage, thumbs
<1> QED BY <1>3, <1>4, <1>5 DEF GalleryInv

\* The answers to lists.
LEMMA PageInv ==
  ASSUME GalleryInv, PageArrives \/ PageFails
  PROVE  GalleryInv'
<1>1. GalleryTypeOK /\ Orderly /\ Thumbs
  BY DEF GalleryInv
<1>2. /\ queue # << >> /\ Head(queue).op = "list" /\ queue' = Tail(queue)
      /\ loading' = FALSE /\ UNCHANGED <<server, tab, back, once, disturbed>>
  BY DEF PageArrives, PageFails, Answering
<1>3. queue' \in Seq(Request) /\ Head(queue).arg \in Nat
  <2>1. Head(queue) \in Request
    BY <1>1, <1>2 DEF GalleryTypeOK
  <2> QED BY <1>1, <1>2, <2>1 DEF GalleryTypeOK, Request
<1>4. NextPageDue => ListsOf(queue') = {} /\ Head(queue).arg = page
  BY <1>1, <1>2, NoListLeft
<1>5. ListsOf(queue') = {} => NextPageDue'
  BY DEF NextPageDue
<1>6. CASE PageArrives
  <2>1. /\ shown' = shown \o Listed(Head(queue).arg).images /\ page' = Head(queue).arg + 1
        /\ Mounted(OnPage')
    BY <1>6 DEF PageArrives
  <2>2. Thumbs' /\ \A a \in asks' : a = [id |-> a.id, cancelled |-> a.cancelled] /\ a.cancelled \in BOOLEAN
    BY <1>1, <2>1, MountedThumbs
  <2>3. GalleryTypeOK'
    <3>1. page' \in Nat
      BY <1>3, <2>1
    <3> QED BY <1>1, <1>2, <1>3, <2>2, <3>1 DEF GalleryTypeOK
  <2>4. Orderly'
    <3> SUFFICES ASSUME tab # "closed", ~disturbed
                 PROVE  shown' = Newest(1, page * PageSize)' /\ once' /\ NextPageDue'
      BY <1>1, <1>2 DEF Orderly
    <3>1. shown = Newest(1, page * PageSize) /\ NextPageDue
      BY <1>1 DEF Orderly
    <3>2. Head(queue).arg = page /\ NextPageDue' /\ once
      <4>1. 1 \in ListsOf(queue)
        BY <1>1, <1>2 DEF ListsOf, GalleryTypeOK
      <4> QED BY <1>4, <1>5, <3>1, <4>1 DEF NextPageDue
    <3>3. shown' = shown \o Newest(page * PageSize + 1, (page + 1) * PageSize)
      BY <2>1, <3>2 DEF Listed
    <3>4. shown' = Newest(1, (page + 1) * PageSize)
      BY <1>1, <3>1, <3>3, NextPageJoins
    <3>5. shown' = Newest(1, page * PageSize)'
      BY <1>2, <2>1, <3>2, <3>4 DEF Newest
    <3> QED BY <1>2, <3>2, <3>5
  <2> QED BY <2>2, <2>3, <2>4 DEF GalleryInv
<1>7. CASE PageFails
  <2>1. UNCHANGED <<shown, page, thumbs>>
    BY <1>7 DEF PageFails
  <2>2. GalleryTypeOK'
    BY <1>1, <1>2, <1>3, <2>1 DEF GalleryTypeOK, thumbs
  <2>3. Orderly'
    BY <1>1, <1>2, <1>4, <1>5, <2>1 DEF Orderly, Newest
  <2>4. Thumbs'
    BY <1>1, <1>2, <2>1 DEF Thumbs, OnPage, thumbs
  <2> QED BY <2>2, <2>3, <2>4 DEF GalleryInv
<1> QED BY <1>6, <1>7

\* Captures come and go.
LEMMA CapturesInv ==
  ASSUME GalleryInv, \/ Capture \/ DeleteAnswers \/ DeleteFails
                     \/ \E id \in Images : Delete(id)
  PROVE  GalleryInv'
<1>1. GalleryTypeOK /\ Orderly /\ Thumbs
  BY DEF GalleryInv
<1>2. CASE Capture
  <2>1. /\ server' \subseteq Images /\ disturbed' = (tab # "closed")
        /\ UNCHANGED <<tab, back, shown, page, loading, once, queue, thumbs>>
    BY <1>1, <1>2 DEF Capture, paging, GalleryTypeOK
  <2>2. disturbed' \in BOOLEAN /\ (tab # "closed" => disturbed')
    BY <2>1
  <2>3. GalleryTypeOK'
    BY <1>1, <2>1, <2>2 DEF GalleryTypeOK, thumbs
  <2>4. Orderly'
    BY <1>1, <2>1, <2>2 DEF Orderly
  <2>5. Thumbs'
    BY <1>1, <2>1 DEF Thumbs, OnPage, thumbs
  <2> QED BY <2>3, <2>4, <2>5 DEF GalleryInv
<1>3. ASSUME NEW id \in Images, Delete(id) PROVE GalleryInv'
  <2> DEFINE e == [op |-> "delete", arg |-> id]
  <2>1. queue' = Append(queue, e) /\ UNCHANGED <<server, tab, back, shown, page, loading, once, thumbs, disturbed>>
    BY <1>3 DEF Delete, paging
  <2>2. e \in Request /\ e.op = "delete"
    BY <1>1, Captures DEF Request
  <2> HIDE DEF e
  <2>3. queue \in Seq(Request)
    BY <1>1 DEF GalleryTypeOK
  <2>4. /\ queue' \in Seq(Request) /\ ListsOf(queue') = ListsOf(queue)
        /\ \A i \in ListsOf(queue) : queue'[i] = queue[i]
    <3>1. e.op # "list"
      BY <2>2
    <3> QED BY <2>1, <2>2, <2>3, <3>1, ListsOfAppend
  <2>5. GalleryTypeOK'
    BY <1>1, <2>1, <2>4 DEF GalleryTypeOK, thumbs
  <2>6. NextPageDue => NextPageDue'
    BY <2>1, <2>4 DEF NextPageDue
  <2>7. Orderly'
    BY <1>1, <2>1, <2>6 DEF Orderly, Newest
  <2>8. Thumbs'
    BY <1>1, <2>1 DEF Thumbs, OnPage, thumbs
  <2> QED BY <2>5, <2>7, <2>8 DEF GalleryInv
<1>4. CASE DeleteAnswers \/ DeleteFails
  <2>1. /\ server' \subseteq server /\ disturbed' = (tab # "closed") /\ queue # << >> /\ queue' = Tail(queue)
        /\ UNCHANGED <<tab, back, page, loading, once>>
    BY <1>4 DEF DeleteAnswers, DeleteFails, Answering, paging
  <2>2. Thumbs' /\ \A a \in asks' : a = [id |-> a.id, cancelled |-> a.cancelled] /\ a.cancelled \in BOOLEAN
    <3>1. CASE DeleteAnswers
      <4>1. Mounted(OnPage')
        BY <3>1 DEF DeleteAnswers
      <4> QED BY <1>1, <4>1, MountedThumbs
    <3>2. CASE DeleteFails
      <4>1. UNCHANGED <<back, shown, thumbs>>
        BY <3>2 DEF DeleteFails, paging
      <4> QED BY <1>1, <4>1 DEF Thumbs, OnPage, thumbs, GalleryTypeOK
    <3> QED BY <1>4, <3>1, <3>2
  <2>3. queue' \in Seq(Request)
    BY <1>1, <2>1 DEF GalleryTypeOK
  <2>4. GalleryTypeOK'
    BY <1>1, <2>1, <2>2, <2>3 DEF GalleryTypeOK
  <2>5. Orderly'
    BY <1>1, <2>1 DEF Orderly
  <2> QED BY <2>2, <2>4, <2>5 DEF GalleryInv
<1> QED BY <1>2, <1>3, <1>4

\* Nothing but thumbnails and the place of the sentinel.
LEMMA ThumbsInv ==
  ASSUME GalleryInv, ScrollDown \/ (\E a \in asks : ThumbAnswers(a)) \/ UNCHANGED galleryVars
  PROVE  GalleryInv'
<1>1. GalleryTypeOK /\ Orderly /\ Thumbs
  BY DEF GalleryInv
<1>2. UNCHANGED <<server, tab, back, shown, page, loading, once, queue, disturbed>>
  BY DEF ScrollDown, ThumbAnswers, galleryVars, paging
<1>3. Thumbs' /\ asks' \subseteq asks
  <2>1. CASE \E a \in asks : ThumbAnswers(a)
    <3>1. PICK a \in asks : /\ asks' = asks \ {a}
                            /\ urls' = IF ~a.cancelled /\ a.id \in server THEN urls \cup {a.id} ELSE urls
      BY <2>1 DEF ThumbAnswers
    <3> QED BY <1>1, <1>2, <3>1 DEF Thumbs, OnPage
  <2>2. CASE UNCHANGED thumbs
    BY <1>1, <1>2, <2>2 DEF Thumbs, OnPage, thumbs
  <2> QED BY <2>1, <2>2 DEF ScrollDown, galleryVars
<1>4. GalleryTypeOK' /\ Orderly'
  BY <1>1, <1>2, <1>3 DEF GalleryTypeOK, Orderly, NextPageDue, Newest
<1> QED BY <1>3, <1>4 DEF GalleryInv

LEMMA GalleryInitInv == GalleryInit => GalleryInv
<1> SUFFICES ASSUME GalleryInit PROVE GalleryInv
  OBVIOUS
<1>1. /\ tab = "closed" /\ loading = FALSE /\ once = FALSE /\ disturbed = FALSE
      /\ asks = {} /\ urls = {} /\ queue = << >>
  BY DEF GalleryInit
<1>2. GalleryTypeOK
  <2>1. server \subseteq Images /\ page \in Nat /\ back \in {"library", "captured"}
    BY DEF GalleryInit
  <2>2. loading \in BOOLEAN /\ once \in BOOLEAN /\ disturbed \in BOOLEAN
    BY <1>1
  <2>3. queue \in Seq(Request)
    BY <1>1
  <2> QED BY <1>1, <2>1, <2>2, <2>3 DEF GalleryTypeOK
<1>3. Orderly
  BY <1>1 DEF Orderly
<1>4. Thumbs
  BY <1>1 DEF Thumbs
<1> QED BY <1>2, <1>3, <1>4 DEF GalleryInv

LEMMA GalleryStepInv == GalleryInv /\ [GalleryNext]_galleryVars => GalleryInv'
<1> SUFFICES ASSUME GalleryInv, [GalleryNext]_galleryVars PROVE GalleryInv'
  OBVIOUS
<1> QED BY OpensInv, CloseGalleryInv, ObservedInv, PageInv, CapturesInv, ThumbsInv DEF GalleryNext

LEMMA GalleryInvImplies == GalleryInv => DialogIsTrue
  BY DEF GalleryInv, Orderly, Thumbs, OnPage, DialogIsTrue, GalleryInOrder, NoBlobLeak

-----------------------------------------------------------------------------
\* The parts together: each keeps its invariant whichever moves.

DashboardInv == HealthInv /\ GalleryInv

LEMMA DashboardInitInv == DashboardInit => DashboardInv
  BY HealthInitInv, GalleryInitInv DEF DashboardInit, DashboardInv

LEMMA DashboardStepInv == DashboardInv /\ [DashboardNext]_dashboardVars => DashboardInv'
<1> SUFFICES ASSUME DashboardInv, [DashboardNext]_dashboardVars PROVE DashboardInv'
  OBVIOUS
<1>1. [HealthNext]_healthVars /\ [GalleryNext]_galleryVars
  BY DEF DashboardNext, Start, Health, Gallery, Camera, dashboardVars
<1> QED BY <1>1, HealthStepInv, GalleryStepInv DEF DashboardInv

\* The monitor and the image dialog keep their invariants.
THEOREM DashboardInvariant == DashboardSpec => []DashboardInv
<1> QED BY DashboardInitInv, DashboardStepInv, PTL DEF DashboardSpec

\* A monitor that runs always has an interval, a timer or a check that comes back.
THEOREM NeverBlindHolds == DashboardSpec => []NeverBlind
<1>1. DashboardInv => NeverBlind
  BY DEF DashboardInv, HealthInv, HealthTypeOK, Alive, NeverBlind, Busy
<1> QED BY <1>1, DashboardInvariant, PTL

\* While nothing comes or goes the dialog shows the captures in order, none twice and none
\* left out, and its object URLs are those of thumbnails it renders, be it open or closed.
THEOREM DialogAlwaysTrue == DashboardSpec => []DialogIsTrue
<1>1. DashboardInv => DialogIsTrue
  BY GalleryInvImplies DEF DashboardInv
<1> QED BY <1>1, DashboardInvariant, PTL
===============================================================================
