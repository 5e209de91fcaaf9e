------------------------------- MODULE CameraSize -------------------------------
(***************************************************************************)
(* The size of a camera's picture, which the card is told.  For a local    *)
(* camera this and the card's resolution give the dimensions of its        *)
(* preview; when these change, the preview constrains the camera to them   *)
(* and tells the card the size the camera took, which gives other          *)
(* dimensions.  What the accelerator sends back is measured once and told  *)
(* too.  The video of a remote camera tells its size after every render    *)
(* that follows from telling it, unless it has told it before.             *)
(***************************************************************************)
EXTENDS Integers, Sequences

CONSTANTS
  Modes,         \* the sizes the camera can deliver
  Constraining   \* bound: applyConstraints under way when the user chooses another resolution

Nothing == [width |-> 0, height |-> 0]  \* no size: undefined, or 0 by 0

ASSUME ModesAssumption ==
  /\ Modes # {} /\ \A m \in Modes : m.width \in Nat \ {0} /\ m.height \in Nat \ {0}
  /\ Constraining \in Nat \ {0}

VARIABLES
  kind,          \* of the card: "camera" or "remote_camera"
  told,          \* lastReportedResolutionRef of a remote camera, Nothing for null
  chosen,        \* resolution of the card
  display,       \* displayWidth, displayHeight
  capture,       \* the size of the camera or the video, Nothing while there is no stream
  mounted,       \* initialWidthRef, initialHeightRef
  effect,        \* width and height as of the last run of the effect
  constraining,  \* applyConstraints under way, oldest first
  playing,       \* the preview plays the camera
  remote,        \* the processed stream: "none", "probed" or "measured"
  processed,     \* the size of its frames
  due            \* something dispatched waits to be rendered

cameraVars == <<kind, told, chosen, display, capture, mounted, effect, constraining, playing, remote, processed, due>>

Resolutions == {"original", "half", "quarter"}

-----------------------------------------------------------------------------
AtLeast(min, n) == IF n < min THEN min ELSE n

\* getCameraDimensionsForResolution; the division rounds to the nearest.
Dimensions(resolution, size) ==
  LET by == IF resolution = "quarter" THEN 4 ELSE 2
      Scaled(n, default) == ((IF n > 0 THEN n ELSE default) + by \div 2) \div by
  IN IF resolution = "original" THEN Nothing
     ELSE [width |-> AtLeast(160, Scaled(size.width, 1280)),
           height |-> AtLeast(120, Scaled(size.height, 720))]

\* The sizes the browser may choose for ideal dimensions: the nearest of the camera's,
\* by the relative distance in thousandths; any without dimensions.
Apart(m, n) == LET d == IF m < n THEN n - m ELSE m - n IN (1000 * d) \div AtLeast(m, n)
Distance(m, ideal) == Apart(m.width, ideal.width) + Apart(m.height, ideal.height)
Nearest(ideal) ==
  {m \in Modes : ideal = Nothing \/ \A n \in Modes : Distance(m, ideal) <= Distance(n, ideal)}

-----------------------------------------------------------------------------
\* The preview is mounted; its effects have run without a stream.
CameraInit ==
  /\ kind \in {"camera", "remote_camera"} /\ told = Nothing
  /\ chosen \in Resolutions /\ display = Nothing /\ capture = Nothing
  /\ mounted = Dimensions(chosen, display) /\ effect = mounted
  /\ constraining = << >> /\ playing = FALSE
  /\ remote = "none" /\ processed = Nothing /\ due = FALSE

\* The user chooses another resolution for the card.
ChooseResolution(r) ==
  /\ Len(constraining) < Constraining
  /\ r # chosen /\ chosen' = r /\ due' = TRUE
  /\ UNCHANGED <<kind, told, display, capture, mounted, effect, constraining, playing, remote, processed>>

Reported(size) == display' = size /\ due' = TRUE

\* Fault: the effect has no dependencies.
RenderAlways ==
  /\ kind = "camera" /\ due /\ due' = FALSE
  /\ effect' = Dimensions(chosen, display)
  /\ constraining' = IF capture # Nothing /\ effect' # Nothing THEN Append(constraining, effect')
                     ELSE constraining
  /\ UNCHANGED <<kind, told, chosen, display, capture, mounted, playing, remote, processed>>

\* The grid is rendered with the card's dimensions, and the effect runs if they changed.
Render ==
  /\ kind = "camera" /\ due /\ due' = FALSE
  /\ effect' = Dimensions(chosen, display)
  /\ constraining' = IF effect' # effect /\ capture # Nothing /\ effect' # Nothing
                     THEN Append(constraining, effect') ELSE constraining
  /\ UNCHANGED <<kind, told, chosen, display, capture, mounted, playing, remote, processed>>

\* startCamera: the camera is granted, at its ideal when the preview was mounted.
Granted ==
  /\ kind = "camera" /\ capture = Nothing /\ capture' \in Nearest(mounted)
  /\ UNCHANGED <<kind, told, chosen, display, mounted, effect, constraining, playing, remote, processed, due>>

\* The video element plays.
Plays ==
  /\ kind = "camera" /\ capture # Nothing /\ ~playing /\ playing' = TRUE
  /\ Reported(capture)
  /\ UNCHANGED <<kind, told, chosen, capture, mounted, effect, constraining, remote, processed>>

\* The oldest applyConstraints ends; the camera need not be able to.
Applied ==
  /\ constraining # << >> /\ constraining' = Tail(constraining)
  /\ \/ capture' \in Nearest(Head(constraining)) /\ Reported(capture')
     \/ UNCHANGED <<capture, display, due>>
  /\ UNCHANGED <<kind, told, chosen, mounted, effect, playing, remote, processed>>

\* The accelerator answers with a stream, whose frames follow the camera's size later.
RemoteStream ==
  /\ playing /\ remote = "none" /\ remote' = "probed"
  /\ UNCHANGED <<kind, told, chosen, display, capture, mounted, effect, constraining, playing, processed, due>>

FramesFollow ==
  /\ remote # "none" /\ processed # capture /\ processed' = capture
  /\ UNCHANGED <<kind, told, chosen, display, capture, mounted, effect, constraining, playing, remote, due>>

\* tryPromoteRemoteStream: it plays within 1.5 s and is measured, or is not shown.
Promoted ==
  /\ remote = "probed" /\ remote' = "measured"
  /\ \/ processed # Nothing /\ Reported(processed)
     \/ UNCHANGED <<display, due>>
  /\ UNCHANGED <<kind, told, chosen, capture, mounted, effect, constraining, playing, processed>>

-----------------------------------------------------------------------------
\* RemoteCameraVideo: reportResolution; without anything new to tell, waiting says
\* whether a render is due.
ReportResolution(size, waiting) ==
  /\ IF size \in {Nothing, told} THEN due' = waiting /\ UNCHANGED <<told, display>>
     ELSE told' = size /\ Reported(size)
  /\ UNCHANGED <<kind, chosen, mounted, effect, constraining, playing, remote, processed>>

\* The video has its first frame, or one of another size.
Resized ==
  /\ kind = "remote_camera" /\ capture' \in Modes \ {capture}
  /\ ReportResolution(capture', due)

\* The render makes another onResolutionUpdate, and the effect runs for it.
RenderRemote ==
  /\ kind = "remote_camera" /\ due
  /\ ReportResolution(capture, FALSE) /\ UNCHANGED capture

CameraNext ==
  \/ \E r \in Resolutions : ChooseResolution(r)
  \/ Render \/ Granted \/ Plays \/ Applied \/ RemoteStream \/ FramesFollow \/ Promoted
  \/ Resized \/ RenderRemote

CameraSpec ==
  /\ CameraInit /\ [][CameraNext]_cameraVars
  /\ WF_cameraVars(Render \/ RenderRemote) /\ WF_cameraVars(Applied)

-----------------------------------------------------------------------------
\* At each resolution every size of the camera leads to a smaller one until it leads to
\* one and the same.
Dwindling ==
  \A r \in Resolutions \ {"original"} : \E smallest \in Modes :
    \A m \in Modes : \A n \in Nearest(Dimensions(r, m)) :
      n = smallest \/ n.width * n.height < m.width * m.height

\* If the camera's sizes dwindle, then once the user leaves the resolution alone and the
\* video of a remote camera keeps its size, the card is told no more and the camera
\* constrained no more: both loops through the render come to an end, whatever the camera
\* refuses and whenever the processed stream is measured.
SizeSettles ==
  Dwindling /\ (<>[][FALSE]_chosen) /\ (<>[][kind = "camera"]_capture)
    => <>[](~due /\ constraining = << >>)
=============================================================================
