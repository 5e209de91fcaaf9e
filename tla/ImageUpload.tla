------------------------------ MODULE ImageUpload ------------------------------
(***************************************************************************)
(* The upload of images in the drawer, and the toasts that tell of what it *)
(* refuses.  The box follows one pair of states, uploading and progress,   *)
(* whatever upload they are of: an interval advances the bar, and a timer  *)
(* of the upload that ended empties it 300 ms later.                       *)
(***************************************************************************)
EXTENDS Integers, Sequences

VARIABLES
  drawer,     \* the drawer is open
  picker,     \* the browser's file dialog is open, which is modal
  dragging,   \* isDragging: a file is over the box
  uploading,  \* uploading
  progress,   \* progress, in tenths
  uploads,    \* uploadImage calls under way, each with its interval
  timers,     \* timers of uploads that ended, of 300 ms
  refusal,    \* error: why the last file was not uploaded
  toasts      \* the toasts on the page, oldest first

uploadVars == <<drawer, picker, dragging, uploading, progress, uploads, timers, refusal, toasts>>

Files == {"png", "other", "large"}
Outcomes == {"image", "unread", "refused", "empty"}  \* of fileService.uploadImage
MaxToasts == 5

-----------------------------------------------------------------------------
UploadInit ==
  /\ drawer = FALSE /\ picker = FALSE /\ dragging = FALSE /\ uploading = FALSE
  /\ progress = 0 /\ uploads = 0 /\ timers = 0
  /\ refusal = "none" /\ toasts = << >>

\* pushToast keeps the last five.  None has a duration: each stays until it is clicked.
Toasted(kind) ==
  toasts' = IF Len(toasts) < MaxToasts THEN Append(toasts, kind) ELSE Append(Tail(toasts), kind)

\* The drawer is opened or closed; the box stays mounted.
ToggleDrawer ==
  /\ ~picker /\ ~dragging /\ drawer' = ~drawer
  /\ UNCHANGED <<picker, dragging, uploading, progress, uploads, timers, refusal, toasts>>

ClickBox ==
  /\ drawer /\ ~picker /\ ~dragging /\ ~uploading /\ picker' = TRUE
  /\ UNCHANGED <<drawer, dragging, uploading, progress, uploads, timers, refusal, toasts>>

DragOver ==
  /\ drawer /\ ~picker /\ ~uploading /\ dragging' = TRUE
  /\ UNCHANGED <<drawer, picker, uploading, progress, uploads, timers, refusal, toasts>>

DragLeave ==
  /\ dragging /\ dragging' = FALSE
  /\ UNCHANGED <<drawer, picker, uploading, progress, uploads, timers, refusal, toasts>>

-----------------------------------------------------------------------------
\* uploadFile: a file that is no PNG or too large is refused, another is sent.
Upload(file) ==
  /\ progress' = 0
  /\ IF file = "png"
     THEN uploading' = TRUE /\ uploads' = uploads + 1 /\ refusal' = "none" /\ UNCHANGED toasts
     ELSE refusal' = file /\ Toasted("error") /\ UNCHANGED <<uploading, uploads>>
  /\ UNCHANGED <<drawer, timers>>

\* handleDrop; a drop while an upload is under way is ignored.
Dropped(file) ==
  /\ drawer /\ ~picker /\ dragging' = FALSE
  /\ \/ ~uploading /\ Upload(file)
     \/ uploading /\ UNCHANGED <<drawer, uploading, progress, uploads, timers, refusal, toasts>>
  /\ UNCHANGED picker

\* handleFileSelect, which does not look at uploading.
FileChosen(file) == picker /\ picker' = FALSE /\ Upload(file) /\ UNCHANGED dragging

PickerCancelled ==
  /\ picker /\ picker' = FALSE
  /\ UNCHANGED <<drawer, dragging, uploading, progress, uploads, timers, refusal, toasts>>

\* The interval of an upload under way.
Tick ==
  /\ uploads > 0 /\ progress < 9 /\ progress' = progress + 1
  /\ UNCHANGED <<drawer, picker, dragging, uploading, uploads, timers, refusal, toasts>>

\* uploadImage ends: the file is read, sent, and answered with an image, or it throws.
Returned(outcome) == uploads > 0 /\ uploads' = uploads - 1 /\ outcome \in Outcomes

\* Fault: the box takes the next file while the bar is full.
SentIdle ==
  /\ Returned("image")
  /\ uploading' = FALSE /\ progress' = 10 /\ timers' = timers + 1
  /\ UNCHANGED <<drawer, picker, dragging, refusal, toasts>>

Sent ==
  /\ Returned("image")
  /\ progress' = 10 /\ timers' = timers + 1
  /\ UNCHANGED <<drawer, picker, dragging, uploading, refusal, toasts>>

SendFails ==
  \E outcome \in Outcomes \ {"image"} :
    /\ Returned(outcome)
    /\ uploading' = FALSE /\ progress' = 0 /\ refusal' = outcome /\ Toasted("error")
    /\ UNCHANGED <<drawer, picker, dragging, timers>>

\* The timer of an upload that ended.
Emptied ==
  /\ timers > 0 /\ timers' = timers - 1
  /\ uploading' = FALSE /\ progress' = 0
  /\ UNCHANGED <<drawer, picker, dragging, uploads, refusal, toasts>>

\* The tab for videos is disabled and says so.
VideosTab ==
  /\ drawer /\ ~picker /\ ~dragging /\ Toasted("warning")
  /\ UNCHANGED <<drawer, picker, dragging, uploading, progress, uploads, timers, refusal>>

DismissToast(i) ==
  /\ ~picker /\ ~dragging
  /\ toasts' = SubSeq(toasts, 1, i - 1) \o SubSeq(toasts, i + 1, Len(toasts))
  /\ UNCHANGED <<drawer, picker, dragging, uploading, progress, uploads, timers, refusal>>

UploadNext ==
  \/ ToggleDrawer \/ ClickBox \/ DragOver \/ DragLeave \/ PickerCancelled
  \/ \E file \in Files : Dropped(file) \/ FileChosen(file)
  \/ Tick \/ Sent \/ SendFails \/ Emptied
  \/ VideosTab \/ \E i \in 1 .. Len(toasts) : DismissToast(i)

-----------------------------------------------------------------------------
\* Nothing disturbs an upload under way: neither the timer of the one before nor a file
\* dropped, picked or refused meanwhile empties its bar or lets another begin beside it.
UploadUndisturbed ==
  [][uploads > 0 /\ uploads' > 0 =>
       uploads' = 1 /\ uploading' /\ progress' >= progress]_uploadVars
=============================================================================
