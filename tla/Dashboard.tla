------------------------------- MODULE Dashboard -------------------------------
(***************************************************************************)
(* Four parts of the page that share no state and owe the user something   *)
(* in the end: its start and logger, the watch over the accelerator, the   *)
(* image dialog and the size of a camera.  None reads what another writes, *)
(* so that a property of one holds of the page if it holds of the part by  *)
(* itself: a behaviour is one of a part, the others staying in an initial  *)
(* state.                                                                  *)
(***************************************************************************)
EXTENDS Startup, AcceleratorHealth, ImageGallery, CameraSize

VARIABLE part  \* the part that moves

dashboardVars == <<part, startVars, healthVars, galleryVars, cameraVars>>

DashboardInit ==
  /\ part \in {"start", "health", "gallery", "camera"}
  /\ StartInit /\ HealthInit /\ GalleryInit /\ CameraInit
  /\ part # "health" => up
  /\ part # "gallery" => server = {}
  /\ part # "camera" => chosen = "original" /\ kind = "camera"

Start(A) == part = "start" /\ A /\ UNCHANGED <<part, healthVars, galleryVars, cameraVars>>
Health(A) == part = "health" /\ A /\ UNCHANGED <<part, startVars, galleryVars, cameraVars>>
Gallery(A) == part = "gallery" /\ A /\ UNCHANGED <<part, startVars, healthVars, cameraVars>>
Camera(A) == part = "camera" /\ A /\ UNCHANGED <<part, startVars, healthVars, galleryVars>>

DashboardNext == Start(StartNext) \/ Health(HealthNext) \/ Gallery(GalleryNext) \/ Camera(CameraNext)

\* The fairness of the parts, of the one that moves.
DashboardFairness ==
  /\ WF_dashboardVars(Start(FlagsTimeOut)) /\ WF_dashboardVars(Start(ConfigTimesOut))
  /\ \A l \in Loaders : WF_dashboardVars(Start(LoaderTimesOut(l)))
  /\ WF_dashboardVars(Start(\E result \in {"loaded", "error"} : SystemAnswers(result)))
  /\ WF_dashboardVars(Health(PollTick))
  /\ WF_dashboardVars(Health(Checked)) /\ WF_dashboardVars(Health(RapidChecked))
  /\ \A armed \in {"held", "stray"} : WF_dashboardVars(Health(RapidTick(armed)))
  /\ WF_dashboardVars(Health(ButtonAsks))
  /\ \A wasOpen \in BOOLEAN : WF_dashboardVars(Health(ButtonChecked(wasOpen)))
  /\ WF_dashboardVars(Gallery(PageArrives \/ PageFails \/ DeleteAnswers \/ DeleteFails))
  /\ WF_dashboardVars(Gallery(Observed)) /\ WF_dashboardVars(Gallery(ScrollDown))
  /\ WF_dashboardVars(Camera(Render \/ RenderRemote)) /\ WF_dashboardVars(Camera(Applied))

DashboardSpec == DashboardInit /\ [][DashboardNext]_dashboardVars /\ DashboardFairness
=============================================================================
