------------------------------ MODULE ImageGallery ------------------------------
(***************************************************************************)
(* The image dialog: the captured pictures are listed page by page as the  *)
(* user scrolls, each with a thumbnail of its own; pictures are captured   *)
(* and deleted meanwhile, and the dialog is closed and opened again with   *)
(* requests under way.  A closed dialog is hidden, not unmounted: a page   *)
(* that comes late mounts its thumbnails.  The control channel answers in  *)
(* order.                                                                  *)
(***************************************************************************)
EXTENDS Naturals, FiniteSets, Sequences, SequencesExt

CONSTANTS
  Images,    \* the pictures there ever are; a later one has a higher number
  PageSize,  \* the pictures of a page, which fill the dialog
  Requests   \* bound: requests to list or delete under way at once

ASSUME GalleryAssumption ==
  /\ IsFiniteSet(Images) /\ Images = 1 .. Cardinality(Images)
  /\ PageSize \in Nat \ {0} /\ Requests \in Nat \ {0}

VARIABLES
  server,   \* the captures the accelerator keeps
  tab,      \* the tab that is shown: "library", "captured", or "closed"
  back,     \* activeTab: the tab that is rendered, also while the dialog is closed
  shown,    \* capturedImages
  page,     \* capturedPageRef
  more,     \* capturedHasMoreRef
  loading,  \* loadingRef
  once,     \* loadedOnceRef
  inView,   \* whether the sentinel below the pictures is "in" or "out" of view
  seen,     \* what the IntersectionObserver reported last, "none" when it is new
  queue,    \* requests on the control channel
  asks,     \* thumbnails asked for: the picture, and whether the effect was cancelled
  urls,     \* pictures whose thumbnail has an object URL
  disturbed,\* history: since the dialog opened, captures came or went, or a page of an
            \* earlier opening was due or had come after the dialog was closed
  broken    \* history: a list has failed since the dialog opened

paging == <<shown, page, more, loading, once>>
thumbs == <<asks, urls>>
galleryVars == <<server, tab, back, paging, inView, seen, queue, thumbs, disturbed, broken>>

GalleryInit ==
  /\ server \in SUBSET Images
  /\ tab = "closed" /\ back = "captured"
  /\ shown = << >> /\ page = 0 /\ more = TRUE /\ loading = FALSE /\ once = FALSE
  /\ inView = "in" /\ seen = "none"
  /\ queue = << >> /\ asks = {} /\ urls = {}
  /\ disturbed = FALSE /\ broken = FALSE

NewestFirst(captures) == SetToSortSeq(captures, >)

\* The accelerator lists the captures newest first: those from the m-th to the n-th.
Newest(m, n) ==
  SubSeq(NewestFirst(server), m, IF n < Cardinality(server) THEN n ELSE Cardinality(server))

Listed(p) ==
  [images |-> Newest(p * PageSize + 1, (p + 1) * PageSize),
   more |-> (p + 1) * PageSize < Cardinality(server)]

ListsDue == \E i \in DOMAIN queue : queue[i].op = "list"

-----------------------------------------------------------------------------
\* Thumbnails: one per picture on the page.

\* The pictures rendered: those of the captured tab, whether the dialog is open or not.
OnPage == IF back = "captured" THEN ToSet(shown) ELSE {}

\* Those of the pictures in M stay or are mounted and ask; the others are unmounted,
\* their URLs revoked.
Mounted(M) ==
  LET known == urls \cup {a.id : a \in {b \in asks : ~b.cancelled}} IN
  /\ urls' = urls \cap M
  /\ asks' = {[a EXCEPT !.cancelled = IF a.id \in M THEN @ ELSE TRUE] : a \in asks}
             \cup {[id |-> i, cancelled |-> FALSE] : i \in M \ known}

\* getCapturedImage answers, or fails.
ThumbAnswers(a) ==
  /\ a \in asks /\ asks' = asks \ {a}
  /\ urls' = IF ~a.cancelled /\ a.id \in server THEN urls \cup {a.id} ELSE urls
  /\ UNCHANGED <<server, tab, back, paging, inView, seen, queue, disturbed, broken>>

-----------------------------------------------------------------------------
\* Pages.

\* loadNextCapturedPage.
Load(p) ==
  IF loading THEN UNCHANGED <<loading, queue>>
  ELSE loading' = TRUE /\ queue' = Append(queue, [op |-> "list", arg |-> p])

\* Fault: the first page is loaded whenever the tab is shown.
ShowsReloads(t) ==
  /\ tab' = t /\ back' = t /\ seen' = "none" /\ once' = TRUE /\ UNCHANGED shown
  /\ inView' \in IF t = "library" \/ Len(shown) < PageSize THEN {"in"} ELSE {"in", "out"}
  /\ IF t = "captured" THEN Load(0) ELSE UNCHANGED <<loading, queue>>
  /\ Mounted(OnPage')

\* The dialog shows tab t: the captures are loaded the first time, and the sentinel is
\* observed anew.
Shows(t) ==
  /\ tab' = t /\ back' = t /\ seen' = "none" /\ UNCHANGED shown
  /\ inView' \in IF t = "library" \/ Len(shown) < PageSize THEN {"in"} ELSE {"in", "out"}
  /\ IF t = "captured" /\ ~once THEN once' = TRUE /\ Load(0)
     ELSE UNCHANGED <<once, loading, queue>>
  /\ Mounted(OnPage')

OpenGallery ==
  /\ tab = "closed" /\ Len(queue) < Requests
  /\ Shows(back)
  /\ disturbed' = (ListsDue \/ shown # << >> \/ page # 0 \/ ~more) /\ broken' = FALSE
  /\ UNCHANGED <<server, page, more>>

SwitchTab(t) ==
  /\ tab # "closed" /\ t # tab /\ Len(queue) < Requests
  /\ Shows(t)
  /\ UNCHANGED <<server, page, more, disturbed, broken>>

\* Closing, or choosing a picture of the library: everything about captures is reset.
CloseGallery ==
  /\ tab # "closed" /\ tab' = "closed" /\ UNCHANGED back
  /\ shown' = << >> /\ page' = 0 /\ more' = TRUE /\ loading' = FALSE /\ once' = FALSE
  /\ inView' = "in" /\ seen' = "none" /\ disturbed' = FALSE /\ broken' = FALSE
  /\ Mounted(OnPage')
  /\ UNCHANGED <<server, queue>>

\* Fault: where the sentinel is when it is first observed is not reported.
ObservedMoves ==
  /\ tab = "captured" /\ seen # inView /\ seen # "none" /\ seen' = inView
  /\ Len(queue) < Requests
  /\ IF inView = "in" /\ more /\ ~loading THEN Load(page) ELSE UNCHANGED <<loading, queue>>
  /\ UNCHANGED <<server, tab, back, shown, page, more, once, inView, thumbs, disturbed, broken>>

\* The observer reports that the sentinel has come into or gone out of view.
Observed ==
  /\ tab = "captured" /\ seen # inView /\ seen' = inView
  /\ Len(queue) < Requests
  /\ IF inView = "in" /\ more /\ ~loading THEN Load(page) ELSE UNCHANGED <<loading, queue>>
  /\ UNCHANGED <<server, tab, back, shown, page, more, once, inView, thumbs, disturbed, broken>>

\* The user scrolls to the end; what the browser has to report comes first.
ScrollDown ==
  /\ tab = "captured" /\ inView = "out" /\ seen = inView /\ inView' = "in"
  /\ UNCHANGED <<server, tab, back, paging, seen, queue, thumbs, disturbed, broken>>

Answering(op) == queue # << >> /\ Head(queue).op = op /\ queue' = Tail(queue)

\* A page is appended, whether or not the dialog is open and it is of this opening; it
\* pushes the sentinel out of view if the pictures fill the dialog.
PageArrives ==
  /\ Answering("list")
  /\ LET p == Head(queue).arg
         answer == Listed(p) IN
     /\ shown' = shown \o answer.images
     /\ page' = p + 1 /\ more' = answer.more
     /\ inView' = IF tab = "captured" /\ Len(shown') >= PageSize /\ answer.images # << >>
                  THEN "out" ELSE inView
  /\ loading' = FALSE
  /\ UNCHANGED <<server, tab, back, once, seen, disturbed, broken>>
  /\ Mounted(OnPage')

PageFails ==
  /\ Answering("list")
  /\ more' = FALSE /\ loading' = FALSE /\ broken' = (tab # "closed")
  /\ UNCHANGED <<server, tab, back, shown, page, once, inView, seen, thumbs, disturbed>>

-----------------------------------------------------------------------------
\* Captures come and go.

\* captureFrame, from the button on the page or another one.
Capture ==
  /\ Cardinality(server) < Cardinality(Images)
  /\ \E i \in Images \ server : (\A j \in server : i > j) /\ server' = server \cup {i}
  /\ disturbed' = (tab # "closed")
  /\ UNCHANGED <<tab, back, paging, inView, seen, queue, thumbs, broken>>

Delete(id) ==
  /\ tab = "captured" /\ id \in ToSet(shown) /\ Len(queue) < Requests
  /\ queue' = Append(queue, [op |-> "delete", arg |-> id])
  /\ UNCHANGED <<server, tab, back, paging, inView, seen, thumbs, disturbed, broken>>

\* The picture leaves the list only if it was there to be deleted.
DeleteAnswers ==
  /\ Answering("delete")
  /\ LET id == Head(queue).arg IN
     /\ server' = server \ {id}
     /\ shown' = IF id \in server THEN SelectSeq(shown, LAMBDA i : i # id) ELSE shown
  /\ inView' = IF Len(shown') < PageSize THEN "in" ELSE inView
  /\ disturbed' = (tab # "closed")
  /\ UNCHANGED <<tab, back, page, more, loading, once, seen, broken>>
  /\ Mounted(OnPage')

\* No answer: the picture may be gone, and is still shown.
DeleteFails ==
  /\ Answering("delete")
  /\ server' \in {server, server \ {Head(queue).arg}}
  /\ disturbed' = (tab # "closed")
  /\ UNCHANGED <<tab, back, paging, inView, seen, thumbs, broken>>

-----------------------------------------------------------------------------
GalleryNext ==
  \/ OpenGallery \/ CloseGallery \/ Observed \/ ScrollDown
  \/ \E t \in {"library", "captured"} : SwitchTab(t)
  \/ PageArrives \/ PageFails \/ Capture \/ DeleteAnswers \/ DeleteFails
  \/ \E id \in Images : Delete(id)
  \/ \E a \in asks : ThumbAnswers(a)

\* Requests are answered or time out, the browser reports, a user who wants to see more
\* goes on scrolling.
GalleryFairness ==
  /\ WF_galleryVars(PageArrives \/ PageFails \/ DeleteAnswers \/ DeleteFails)
  /\ WF_galleryVars(Observed) /\ WF_galleryVars(ScrollDown)

GallerySpec == GalleryInit /\ [][GalleryNext]_galleryVars /\ GalleryFairness

-----------------------------------------------------------------------------
\* As long as no capture comes or goes and no page of an earlier opening comes late, the
\* dialog shows the first pictures of the accelerator's list, none twice and none left
\* out, however the user scrolls and changes tabs.
GalleryInOrder ==
  tab # "closed" /\ ~disturbed => shown = Newest(1, page * PageSize)

\* An object URL belongs to a thumbnail that is rendered: those of a closed dialog are of
\* a page that came after it was closed.
NoBlobLeak == urls \subseteq OnPage

\* The dialog shows what there is and holds what it shows.
DialogIsTrue == GalleryInOrder /\ NoBlobLeak

\* Whoever goes on scrolling gets to see every capture, unless a list fails.
LastPageReached ==
  tab = "captured" ~> ToSet(shown) = server \/ tab # "captured" \/ disturbed \/ broken
=============================================================================
