-------------------------------- MODULE Startup --------------------------------
(***************************************************************************)
(* How the page starts: runBootstrap asks the services for what they load  *)
(* over the network, step after step, and the dashboard is shown when it   *)
(* is through or has failed.  A call may stay unanswered; most steps are   *)
(* given up after 8 s, and the answer comes to nobody, or late.  With it,  *)
(* the logger: what is logged is queued and sent in batches.               *)
(***************************************************************************)
EXTENDS Naturals

CONSTANTS
  Loaders,  \* the data services: inputSourceService, toolsService, videoService
  Inputs,   \* the first of them
  Batches,  \* bound: the batches on their way at once
  FlushAt   \* the records that are not kept waiting for the interval: 100

ASSUME StartupAssumption ==
  Inputs \in Loaders /\ FlushAt \in Nat \ {0} /\ Batches \in Nat \ {0}

VARIABLES
  stage,    \* the step runBootstrap awaits: "flags", "core", "system", "data"; "idle"
            \* before, "done" or "failed" after
  flags,    \* isFeatureEnabled: "idle", "first", "second" request, "over"
  config,   \* getStreamConfig: "idle", "asked", "loaded", "default"
  system,   \* getSystemInfo: "idle", "asked", "loaded", "error"
  loads,    \* per loader: "idle", "asked", "loaded", "empty" after an error
  awaited,  \* the loaders whose race has no winner yet
  observability,  \* what the flag said
  logger,   \* the logger: initialized, its level that of the "config" or the "default"
  logs,     \* logQueue: how many records
  sending,  \* batches on their way
  seeded    \* the input sources when the default source was picked; "none" before

startVars == <<stage, flags, config, system, loads, awaited, observability, logger, logs, sending, seeded>>

\* The page shows the dashboard.
Ready == stage \in {"done", "failed"}

\* getSources when the dashboard is rendered.
SourcesThen == loads'[Inputs]

StartInit ==
  /\ stage = "idle" /\ flags = "idle" /\ config = "idle" /\ system = "idle"
  /\ loads = [l \in Loaders |-> "idle"] /\ awaited = {}
  /\ observability = FALSE /\ logger = [on |-> FALSE, level |-> "default"]
  /\ logs = 0 /\ sending = 0 /\ seeded = "none"

-----------------------------------------------------------------------------
\* The feature flag.

\* The page is rendered; its first effect starts runBootstrap, which asks for the flag.
Bootstrap ==
  /\ stage = "idle" /\ stage' = "flags" /\ flags' = "first"
  /\ UNCHANGED <<config, system, loads, awaited, observability, logger, logs, sending, seeded>>

\* The flag is known or given up: telemetryService is set up, the configuration is asked
\* for.
Core(enabled) == stage' = "core" /\ observability' = enabled /\ config' = "asked"
FlagUnawaited == UNCHANGED <<stage, observability, config>>

\* listFeatureFlags answers the first time: an error is only logged, and neither it nor
\* an empty list is kept, so that the list is asked for again.
FirstFlags(answer) ==
  /\ flags = "first"
  /\ flags' = IF answer \in {"on", "off"} THEN "over" ELSE "second"
  /\ IF stage = "flags" /\ flags' = "over" THEN Core(answer = "on") ELSE FlagUnawaited
  /\ UNCHANGED <<system, loads, awaited, logger, logs, sending, seeded>>

\* The second time: an error is thrown, and nobody in runBootstrap catches it.
SecondFlags(answer) ==
  /\ flags = "second" /\ flags' = "over"
  /\ IF stage # "flags" THEN FlagUnawaited
     ELSE IF answer = "error" THEN stage' = "failed" /\ UNCHANGED <<observability, config>>
     ELSE Core(answer = "on")
  /\ UNCHANGED <<system, loads, awaited, logger, logs, sending>>
  /\ seeded' = IF stage' = "failed" THEN SourcesThen ELSE seeded

FlagsTimeOut ==
  /\ stage = "flags" /\ Core(FALSE)
  /\ UNCHANGED <<flags, system, loads, awaited, logger, logs, sending, seeded>>

-----------------------------------------------------------------------------
\* The configuration, the logger, the system information.

\* logger.initialize with the level configured by now; getSystemInfo is called.
Settled(level) ==
  /\ stage' = "system" /\ system' = "asked"
  /\ logger' = [on |-> TRUE, level |-> level]

\* An error or an empty list is replaced by the default.
ConfigAnswers(result) ==
  /\ config = "asked" /\ config' = result
  /\ IF stage = "core" THEN Settled(IF result = "loaded" THEN "config" ELSE "default")
     ELSE UNCHANGED <<stage, system, logger>>
  /\ UNCHANGED <<flags, loads, awaited, observability, logs, sending, seeded>>

ConfigTimesOut ==
  /\ stage = "core" /\ Settled("default")
  /\ UNCHANGED <<flags, config, loads, awaited, observability, logs, sending, seeded>>

\* An error is caught.  The data services are asked, all at once.
SystemAnswers(result) ==
  /\ system = "asked" /\ system' = result
  /\ stage' = "data" /\ awaited' = Loaders
  /\ loads' = [l \in Loaders |-> "asked"]
  /\ UNCHANGED <<flags, config, observability, logger, logs, sending, seeded>>

-----------------------------------------------------------------------------
\* The data services.

\* The race of loader l has a winner.  After the last one the dashboard is shown and
\* picks its default source from what is there.
Won(l) ==
  LET through == awaited = {l} IN
  /\ awaited' = awaited \ {l}
  /\ stage' = IF through THEN "done" ELSE stage
  /\ seeded' = IF through THEN SourcesThen ELSE seeded

Loaded(l) ==
  /\ loads[l] = "asked" /\ loads' = [loads EXCEPT ![l] = "loaded"]
  /\ Won(l)
  /\ UNCHANGED <<flags, config, system, observability, logger, logs, sending>>

\* An error is caught and leaves the service with an empty list.
LoadFails(l) ==
  /\ loads[l] = "asked" /\ loads' = [loads EXCEPT ![l] = "empty"]
  /\ Won(l)
  /\ UNCHANGED <<flags, config, system, observability, logger, logs, sending>>

\* Fault: only an answer ends the race.
LoaderWaits(l) ==
  /\ l \in awaited /\ loads[l] # "asked" /\ UNCHANGED loads
  /\ Won(l)
  /\ UNCHANGED <<flags, config, system, observability, logger, logs, sending>>

LoaderTimesOut(l) ==
  /\ l \in awaited /\ UNCHANGED loads
  /\ Won(l)
  /\ UNCHANGED <<flags, config, system, observability, logger, logs, sending>>

-----------------------------------------------------------------------------
\* The logger.

services == <<stage, flags, config, system, loads, awaited, observability, logger, seeded>>

\* flushLogs takes the queue as it is; without observability it takes nothing.
Flushed == logs' = 0 /\ sending' = sending + 1

\* A record below the level or before initialize is dropped.  A full logs is flushed;
\* without observability it only grows.
Log ==
  /\ logger.on /\ sending < Batches /\ logs < 2 * FlushAt
  /\ IF observability /\ logs + 1 >= FlushAt THEN Flushed
     ELSE logs' = logs + 1 /\ UNCHANGED sending
  /\ UNCHANGED services

\* The interval, every 5 s; and shutdown when the page is left.
FlushTick ==
  /\ logger.on /\ observability /\ logs > 0 /\ sending < Batches
  /\ Flushed /\ UNCHANGED services

\* The batch has been posted, or is lost with a warning.
Posted ==
  /\ sending > 0 /\ sending' = sending - 1
  /\ UNCHANGED <<services, logs>>

-----------------------------------------------------------------------------
\* What listFeatureFlags says of the flag.
FlagAnswers == {"on", "off", "error", "none"}

StartNext ==
  \/ Bootstrap
  \/ \E answer \in FlagAnswers : FirstFlags(answer) \/ SecondFlags(answer)
  \/ FlagsTimeOut \/ ConfigTimesOut
  \/ \E result \in {"loaded", "default"} : ConfigAnswers(result)
  \/ \E result \in {"loaded", "error"} : SystemAnswers(result)
  \/ \E l \in Loaders : Loaded(l) \/ LoadFails(l) \/ LoaderTimesOut(l)
  \/ Log \/ FlushTick \/ Posted

\* The timers of the start fire.  Only the system information has to be answered, if with
\* an error; the other calls may stay unanswered.
StartFairness ==
  /\ WF_startVars(FlagsTimeOut) /\ WF_startVars(ConfigTimesOut)
  /\ \A l \in Loaders : WF_startVars(LoaderTimesOut(l))
  /\ WF_startVars(\E result \in {"loaded", "error"} : SystemAnswers(result))

StartSpec == StartInit /\ [][StartNext]_startVars /\ StartFairness

-----------------------------------------------------------------------------
\* The dashboard comes up, although any call but one may stay unanswered, fail or be
\* answered after its step was given up.
DashboardComesUp == stage = "flags" ~> Ready
=============================================================================
