----------------------------- MODULE MappingRobot -----------------------------
(* The mapping half of the simulated mower (virtualRobotCore.ts with            *)
(* ratelStatusPush.ts): the session, its task records, the last status frame,   *)
(* the settle signals, and the timers through which the robot acts by itself.   *)
(*                                                                              *)
(* The program is single-threaded: a request handler or a timer callback runs   *)
(* to its end, frames it pushes included, so each is one action.  A handler is  *)
(* a composition of operators on the robot's state, a record with one field per *)
(* variable.  Time is left out: a scheduled timer fires at any later moment,    *)
(* but for the two frames of an extension, which keep their order.              *)
(*                                                                              *)
(* Left out: the mowing domain and the frames routed to it, the broadcast of    *)
(* frames and records, and the operator overrides (applySetup, forced task      *)
(* status, a change of serial number).                                          *)
EXTENDS MappingReducer, MappingTelemetry, MappingTasks, NotifyMapper, SequencesExt

CONSTANTS
    Frames,      \* the status frames a device, scenario or fault can push: [work, sub]
    RawEvents,   \* the events sent past the task API (/sim/event, scenario emit)
    MaxTasks,    \* bound on the number of tasks created between two resets
    MaxLawns,    \* EXPAND_AREA_MAX_LAWNS
    UploadSteps, \* the number of steps of an upload (10 steps of 10 per cent)
    FailurePoints \* the steps at which an injected upload failure strikes, or NoFailure

ASSUME FramesAssumption ==
    Frames \subseteq [work : STRING \ {"mowing", "return_dock"}, sub : STRING]
ASSUME RawEventsAssumption == RawEvents \subseteq MappingEvent
ASSUME BoundsAssumption ==
    MaxTasks \in Nat \ {0} /\ MaxLawns \in Nat \ {0} /\ UploadSteps \in Nat \ {0}

\* The null of uploadFailAt, as a step that no upload reaches.
NoFailure == UploadSteps + 1
ASSUME FailureAssumption == FailurePoints \subseteq 1..NoFailure

VARIABLES
    mapping,    \* the context of the mapping session
    tasks,      \* the statuses of the task records
    notify,     \* lastNotifyWorkStatus and lastNotifySubStatus
    telemetry,  \* the settle signals
    device,     \* pendingMappingAction and the scheduled mappingActionTimers
    waiting,    \* the completion page: mapCompletingTimer and mapCompletingStartedAt
    upload,     \* uploadState, uploadProgress (in steps) and uploadTimer
    failAt,     \* uploadFailAt, in steps; NoFailure for null
    lawns       \* the number of edge_start labels, counted up to MaxLawns

vars == <<mapping, tasks, notify, telemetry, device, waiting, upload, failAt, lawns>>

Robot ==
    [ mapping |-> mapping, tasks |-> tasks, notify |-> notify, telemetry |-> telemetry,
      device |-> device, waiting |-> waiting, upload |-> upload, failAt |-> failAt,
      lawns |-> lawns ]

Become(r) ==
    /\ mapping' = r.mapping     /\ tasks' = r.tasks     /\ notify' = r.notify
    /\ telemetry' = r.telemetry /\ device' = r.device   /\ waiting' = r.waiting
    /\ upload' = r.upload       /\ failAt' = r.failAt   /\ lawns' = r.lawns

NoNotify  == [work |-> Null, sub |-> Null]
NoDevice  == [pending |-> Null, timers |-> {}]
NotWaiting == [timer |-> FALSE, open |-> FALSE]
NoUpload  == [state |-> Null, progress |-> 0, timer |-> FALSE]

InitialRobot ==
    [ mapping |-> simulatorInitialContext, tasks |-> <<>>, notify |-> NoNotify,
      telemetry |-> resetTelemetry, device |-> NoDevice, waiting |-> NotWaiting,
      upload |-> NoUpload, failAt |-> NoFailure, lawns |-> 0 ]

-----------------------------------------------------------------------------
(* Dispatching events to the session.                                         *)

armMapCompletingCountdown(r)   == [r EXCEPT !.waiting = [timer |-> TRUE, open |-> TRUE]]
clearMapCompletingCountdown(r) == [r EXCEPT !.waiting = NotWaiting]

\* (Mutant: leaving the completion page does not stop its countdown.)
onMappingPhaseChangedOpen(r, from, to) ==
    LET labelled == [r EXCEPT !.telemetry = syncWithPhase(@, to)]
    IN  IF to = "MAP_COMPLETING" THEN armMapCompletingCountdown(labelled) ELSE labelled

\* A closed lawn is labelled; the completion page opens and closes its countdown.
onMappingPhaseChanged(r, from, to) ==
    LET labelled == [r EXCEPT
            !.telemetry = syncWithPhase(@, to),
            !.lawns = IF to = "MAP_BOUNDARY_DONE" /\ @ < MaxLawns THEN @ + 1 ELSE @]
    IN  CASE to = "MAP_COMPLETING"   -> armMapCompletingCountdown(labelled)
          [] from = "MAP_COMPLETING" -> clearMapCompletingCountdown(labelled)
          [] OTHER -> labelled

\* A start that did not come through the task API gets a record if there is none.
ensureScenarioMappingTask(r, event) ==
    IF event.type = "CMD_START" /\ r.tasks = <<>>
    THEN [r EXCEPT !.tasks = createTask(@)]
    ELSE r

\* (Mutant: the record is brought up to date before the event.)
afterReducerLate(r, event, ctx) ==
    LET synced == [ensureScenarioMappingTask(r, event) EXCEPT
                     !.mapping = ctx, !.tasks = syncFromContext(@, r.mapping)]
    IN  IF ctx.phase # r.mapping.phase
        THEN onMappingPhaseChanged(synced, r.mapping.phase, ctx.phase)
        ELSE synced

\* The session becomes ctx; the record and the reactions to a new phase follow.
afterReducer(r, event, ctx) ==
    LET synced == [ensureScenarioMappingTask(r, event) EXCEPT
                     !.mapping = ctx, !.tasks = syncFromContext(@, ctx)]
    IN  IF ctx.phase # r.mapping.phase
        THEN onMappingPhaseChanged(synced, r.mapping.phase, ctx.phase)
        ELSE synced

\* manualScanStartGateRequired is off in the simulator.
dispatchMapping(r, event) == afterReducer(r, event, mappingReducer(r.mapping, event, FALSE))

\* dispatchRaw and dispatchMappingEvent: a reset also forgets the last frame,
\* whether or not the session accepts it.
dispatchMappingEvent(r, event) ==
    dispatchMapping(IF event.type = "CMD_RESET" THEN [r EXCEPT !.notify = NoNotify] ELSE r,
                    event)

Command(type) == [type |-> type]
Phase(phase)  == [type |-> "DEVICE_PHASE", phase |-> phase]
Estop(active) == [type |-> "DEVICE_ESTOP", active |-> active]

-----------------------------------------------------------------------------
(* Pushing a status frame (applyRatelStatusPush).                             *)

\* (Mutant: the completion phase is reported but not confirmed.)
applyMappingToIdleUnconfirmed(r) ==
    IF r.mapping.state \in {"WORKING", "PAUSED", "RESUMING"}
    THEN dispatchMappingEvent(r, Phase("MAP_COMPLETING"))
    ELSE r

applyMappingToIdleCompletion(r) ==
    IF r.mapping.state \notin {"WORKING", "PAUSED", "RESUMING"} THEN r
    ELSE dispatchMappingEvent(
           IF r.mapping.phase # "MAP_COMPLETING"
           THEN dispatchMappingEvent(r, Phase("MAP_COMPLETING"))
           ELSE r,
           Command("CMD_CONFIRM"))

applyUndockingFailedTermination(r) ==
    IF r.mapping.phase = "MAP_UNDOCKING_FAILED" /\ r.mapping.state # "ERRORED"
    THEN dispatchMappingEvent(r, [type |-> "DEVICE_ERROR", recoverable |-> FALSE])
    ELSE r

\* The edges of the work status: the release of the stop, the end of the mapping.
applyReleaseEdge(r, prevWork) ==
    IF prevWork = "emergency_stop" THEN dispatchMappingEvent(r, Estop(FALSE)) ELSE r
applyIdleEdge(r, prevWork, work) ==
    IF prevWork = "mapping" /\ work = "idle" THEN applyMappingToIdleCompletion(r) ELSE r

\* The events of a frame, the status before the phase.
dispatchNotify(r, event) == IF event = NoEvent THEN r ELSE dispatchMappingEvent(r, event)
dispatchFrame(r, frame) ==
    dispatchNotify(dispatchNotify(r, statusEvent(frame.work)),
                   phaseEvent(frame.work, frame.sub))

\* A frame other than emergency_stop, in a robot that has noted its predecessor:
\* the release, the events of the frame, the end, and a failure to undock.
applyMappingFrame(r, frame, prevWork) ==
    applyUndockingFailedTermination(
      applyIdleEdge(dispatchFrame(applyReleaseEdge(r, prevWork), frame),
                    prevWork, frame.work))

\* A frame that repeats its predecessor is dropped.
pushRatelStatus(r, work, sub) ==
    LET frame == [work |-> work, sub |-> sub]
        noted == [r EXCEPT !.notify = frame]
    IN  CASE r.notify = frame -> r
          [] r.notify # frame /\ work = "emergency_stop" ->
               dispatchMappingEvent(noted, Estop(TRUE))
          [] OTHER -> applyMappingFrame(noted, frame, r.notify.work)

-----------------------------------------------------------------------------
(* The robot's own timers.                                                    *)

\* (Mutant: the pending action is not forgotten with its timer.)
clearMappingActionTimersOnly(r) == [r EXCEPT !.device.timers = {}, !.upload = NoUpload]

\* Stops the device timers and the upload; the completion countdown runs on.
clearMappingActionTimers(r) == [r EXCEPT !.device = NoDevice, !.upload = NoUpload]

beginMapUpload(r) ==
    LET begun == [r EXCEPT !.upload = [state |-> "UPLOADING", progress |-> 0, timer |-> FALSE]]
    IN  [pushRatelStatus(begun, "mapping", "upload_map") EXCEPT !.upload.timer = TRUE]

\* Every step reports its progress, in a frame that repeats the last one.
uploadFrame(r, state, progress) ==
    pushRatelStatus(
      [r EXCEPT !.upload = [state |-> state, progress |-> progress, timer |-> FALSE]],
      "mapping", "upload_map")

\* (Mutant: one step too many.)
uploadStepTooFar(r) ==
    LET progress == r.upload.progress + 1
    IN  IF progress > UploadSteps
        THEN pushRatelStatus(uploadFrame(r, "SUCCESS", progress), "idle", "complete")
        ELSE [uploadFrame(r, "UPLOADING", progress) EXCEPT !.upload.timer = TRUE]

\* (Mutant: the session is confirmed instead of reported idle.)
uploadStepConfirms(r) ==
    LET progress == r.upload.progress + 1
    IN  IF progress = UploadSteps
        THEN dispatchMappingEvent(uploadFrame(r, "SUCCESS", progress), Command("CMD_CONFIRM"))
        ELSE [uploadFrame(r, "UPLOADING", progress) EXCEPT !.upload.timer = TRUE]

\* One step of the upload: a failure stops the steps, the last one also reports
\* the robot idle, which is what ends the session.
uploadStep(r) ==
    LET progress == r.upload.progress + 1 IN
    CASE progress >= r.failAt -> uploadFrame(r, "FAILED", progress)
      [] progress < r.failAt /\ progress = UploadSteps ->
           pushRatelStatus(uploadFrame(r, "SUCCESS", progress), "idle", "complete")
      [] OTHER -> [uploadFrame(r, "UPLOADING", progress) EXCEPT !.upload.timer = TRUE]

ack(action) == CASE action = "EDGE_START"    -> "edge_mapping"
                 [] action = "EDGE_CLOSE"    -> "map_edge_finish"
                 [] action = "LEAVE_DOCK"    -> "leave_dock"
                 [] action = "FIND_BOUNDARY" -> "find_boundary"

scheduleMappingActionAck(r, action) ==
    [r EXCEPT !.device = [pending |-> action, timers |-> @.timers \cup {action}]]

-----------------------------------------------------------------------------
(* The task API.  A request is addressed to task i, by its id or as the last   *)
(* one; a request that is refused changes nothing.                             *)

\* mappingActionBusyError: the addressed task is under way, and no earlier
\* action still waits for the device.
Accepts(i) ==
    /\ \/ tasks[i] = "ON_THE_WAY"
       \/ tasks[i] = "PAUSE" /\ mapping.state = "REMOTE_CONTROL"
    /\ device.pending = Null

createMappingTask(r, mode) ==
    LET recorded == [r EXCEPT !.lawns = 0, !.tasks = createTask(@)]
    IN  pushRatelStatus(
          dispatchMapping(recorded, [type |-> "CMD_START", mode |-> mode]),
          "mapping", "precondition")

Create(mode) ==
    /\ Len(tasks) < MaxTasks
    /\ Become(createMappingTask(Robot, mode))

\* The robot must be idle, as far as the last task tells; the session starts over,
\* whatever it was, and the labels of the lawns stay.
Extend ==
    /\ Len(tasks) < MaxTasks
    /\ tasks # <<>> => Last(tasks) \notin {"ON_THE_WAY", "PAUSE"}
    /\ lawns < MaxLawns
    /\ LET afresh == [clearMapCompletingCountdown(clearMappingActionTimers(Robot)) EXCEPT
                        !.mapping = simulatorInitialContext, !.notify = NoNotify,
                        !.telemetry = resetTelemetry, !.tasks = createTask(@)]
           started == dispatchMapping(afresh, [type |-> "CMD_START", mode |-> "remote"])
       IN  Become([pushRatelStatus(started, "mapping", "precondition") EXCEPT
                     !.device.timers = @ \cup {"LEAVE_DOCK", "FIND_BOUNDARY"}])

Pause(i) ==
    /\ i \in DOMAIN tasks
    /\ Become(dispatchMapping(Robot, Command("CMD_PAUSE")))

\* (Mutant: the frame is not told apart from its predecessor.)
ResumeUnconfirmed(i) ==
    /\ i \in DOMAIN tasks
    /\ Become(pushRatelStatus(dispatchMapping(Robot, Command("CMD_RESUME")), "mapping",
                              IF notify.sub = Null THEN "none" ELSE notify.sub))

\* The last frame is pushed again, as the device's confirmation of the resume.
Resume(i) ==
    /\ i \in DOMAIN tasks
    /\ LET resumed == [dispatchMapping(Robot, Command("CMD_RESUME")) EXCEPT
                         !.notify.work = Null, !.telemetry = resetTelemetry]
       IN  Become(pushRatelStatus(resumed, "mapping",
                                  IF notify.sub = Null THEN "none" ELSE notify.sub))

Cancel(i, save) ==
    /\ i \in DOMAIN tasks
    /\ Become(dispatchMapping(clearMappingActionTimers(Robot),
                              Command(IF save THEN "CMD_CONFIRM" ELSE "CMD_CANCEL")))

EdgeStart(i) ==
    /\ i \in DOMAIN tasks /\ Accepts(i)
    /\ mapping.phase = "MAP_SCAN_BOUNDARY_MANUAL"
    /\ telemetry.legitimateStartingPoint
    /\ Become(scheduleMappingActionAck(
                [Robot EXCEPT !.telemetry = confirmEdgeStart(@)], "EDGE_START"))

EdgeClose(i) ==
    /\ i \in DOMAIN tasks /\ Accepts(i)
    /\ mapping.phase \in FOLLOW_PHASES
    /\ telemetry.legitimateEndPoint
    /\ Become(scheduleMappingActionAck(
                [Robot EXCEPT !.telemetry = confirmRegionClosure(@)], "EDGE_CLOSE"))

ExpandAreaFinish(i) ==
    /\ i \in DOMAIN tasks /\ Accepts(i)
    /\ notify.sub = "expand_area"
    /\ Become(beginMapUpload(clearMapCompletingCountdown(Robot)))

ExpandArea(i) ==
    /\ i \in DOMAIN tasks /\ Accepts(i)
    /\ notify.sub = "expand_area"
    /\ lawns < MaxLawns
    /\ Become(pushRatelStatus(
                dispatchMapping(clearMapCompletingCountdown(Robot), Command("CMD_ADD_LAWN")),
                "mapping", "find_boundary"))

RetransmitMap(i) ==
    /\ i \in DOMAIN tasks
    /\ notify.sub = "upload_map"
    /\ upload.state = "FAILED"
    /\ Become(beginMapUpload([Robot EXCEPT !.failAt = NoFailure]))

TaskAction ==
    \/ \E mode \in {"auto", "remote"} : Create(mode)
    \/ Extend
    \/ \E i \in 1..MaxTasks :
         \/ Pause(i)
         \/ Resume(i)
         \/ \E save \in BOOLEAN : Cancel(i, save)
         \/ EdgeStart(i)
         \/ EdgeClose(i)
         \/ ExpandAreaFinish(i)
         \/ ExpandArea(i)
         \/ RetransmitMap(i)

-----------------------------------------------------------------------------
(* The other requests, the device and its faults.                              *)

\* POST /mapping/mode.
SwitchMode ==
    \E type \in {"CMD_SWITCH_MANUAL", "CMD_EXIT_MANUAL"} :
        Become(dispatchMapping(Robot, Command(type)))

\* A map was saved in the editor: the session is told, although it is not its save.
SaveMap == Become(dispatchMapping(Robot, Command("CMD_SAVE")))

SendRawEvent == \E event \in RawEvents : Become(dispatchMappingEvent(Robot, event))

\* An injected upload failure survives a reset.
ResetRobot == Become([InitialRobot EXCEPT !.failAt = failAt])

DeviceFrame == \E frame \in Frames : Become(pushRatelStatus(Robot, frame.work, frame.sub))

InjectUploadFailure ==
    \E step \in FailurePoints : Become([Robot EXCEPT !.failAt = step])

Environment ==
    TaskAction \/ SwitchMode \/ SaveMap \/ SendRawEvent \/ ResetRobot \/ DeviceFrame
    \/ InjectUploadFailure

-----------------------------------------------------------------------------
(* Timers.                                                                     *)

DeviceActions == {"EDGE_START", "EDGE_CLOSE", "LEAVE_DOCK", "FIND_BOUNDARY"}

\* The two frames of an extension are scheduled together, the second one later.
Due(action) ==
    /\ action \in device.timers
    /\ action = "FIND_BOUNDARY" => "LEAVE_DOCK" \notin device.timers

\* (Mutant: the acknowledgement leaves the action pending.)
DeviceTimerStillPending(action) ==
    /\ Due(action)
    /\ Become(pushRatelStatus([Robot EXCEPT !.device.timers = @ \ {action}],
                              "mapping", ack(action)))

DeviceTimer(action) ==
    /\ Due(action)
    /\ LET fired == [Robot EXCEPT !.device =
                       [ timers  |-> @.timers \ {action},
                         pending |-> IF action \in {"EDGE_START", "EDGE_CLOSE"}
                                     THEN Null ELSE @.pending ]]
       IN  Become(pushRatelStatus(fired, "mapping", ack(action)))

StartSettles ==
    /\ telemetry.startSettleTimer
    /\ Become([Robot EXCEPT !.telemetry = startSettled(@)])

EndSettles ==
    /\ telemetry.endSettleTimer
    /\ Become([Robot EXCEPT !.telemetry = endSettled(@)])

\* The user did not decide in time: as if the session had been finished.
CountdownEnds ==
    /\ waiting.timer
    /\ Become(beginMapUpload([Robot EXCEPT !.waiting.timer = FALSE]))

UploadStep ==
    /\ upload.timer
    /\ Become(uploadStep(Robot))

Timer ==
    \/ \E action \in DeviceActions : DeviceTimer(action)
    \/ StartSettles
    \/ EndSettles
    \/ CountdownEnds
    \/ UploadStep

-----------------------------------------------------------------------------

Init ==
    /\ mapping = InitialRobot.mapping     /\ tasks = InitialRobot.tasks
    /\ notify = InitialRobot.notify       /\ telemetry = InitialRobot.telemetry
    /\ device = InitialRobot.device       /\ waiting = InitialRobot.waiting
    /\ upload = InitialRobot.upload       /\ failAt = InitialRobot.failAt
    /\ lawns = InitialRobot.lawns

Next == Environment \/ Timer

\* The event loop runs the callback of a timer that is due; nobody has to call.
\* This is WF_vars(callback) for each of them, as a callback is enabled exactly while
\* its timer is due and never leaves the state as it is.  The condition stands for
\* ENABLED, which TLC evaluates far too slowly on a whole handler.
Fairness ==
    /\ \A action \in DeviceActions :
         []<>~Due(action) \/ []<><<DeviceTimer(action)>>_vars
    /\ []<>~telemetry.startSettleTimer \/ []<><<StartSettles>>_vars
    /\ []<>~telemetry.endSettleTimer   \/ []<><<EndSettles>>_vars
    /\ []<>~waiting.timer              \/ []<><<CountdownEnds>>_vars
    /\ []<>~upload.timer               \/ []<><<UploadStep>>_vars

Spec == Init /\ [][Next]_vars /\ Fairness

-----------------------------------------------------------------------------
(* Safety.                                                                     *)

\* Every variable keeps the shape of its type.
TypeOK ==
    /\ mapping \in MappingContext
    /\ Len(tasks) <= MaxTasks /\ \A i \in DOMAIN tasks : tasks[i] \in TASK_STATUSES
    /\ DOMAIN notify = {"work", "sub"}
    /\ telemetry \in [ legitimateStartingPoint : BOOLEAN, legitimateEndPoint : BOOLEAN,
                        startSettleTimer : BOOLEAN, endSettleTimer : BOOLEAN,
                        lastPhase : MappingPhase \cup {Null, Undefined} ]
    /\ device \in [pending : {Null, "EDGE_START", "EDGE_CLOSE"}, timers : SUBSET DeviceActions]
    /\ waiting \in [timer : BOOLEAN, open : BOOLEAN]
    /\ upload \in [ state : {Null, "UPLOADING", "FAILED", "SUCCESS"},
                     progress : 0..UploadSteps, timer : BOOLEAN ]
    /\ failAt \in 1..NoFailure
    /\ lawns \in 0..MaxLawns

\* No flag outlives its timer.  The API refuses every edge action while one is
\* pending, and the retry of an upload while it is said to run: each of the two
\* is on exactly while the callback that ends it is still scheduled.
BusyHasTimer ==
    /\ \A action \in {"EDGE_START", "EDGE_CLOSE"} :
         action \in device.timers <=> device.pending = action
    /\ upload.timer <=> upload.state = "UPLOADING"

\* The countdown of the completion page runs on that page only, whichever of
\* the frames, commands, resets and extensions took the session off it.
CountdownOnPage == waiting.open => mapping.phase = "MAP_COMPLETING"

\* The record of the active task says what its session does: after every handler,
\* however many events it dispatched.
TaskFollowsSession ==
    tasks # <<>> => Last(tasks) = statusFor(mapping.state, Last(tasks))

\* A settle callback is only scheduled in the phase it is about, and a boundary is
\* earned anew: whatever took the session into a phase, the signal that allows the
\* edge action of that phase is off on entry (it may well have been left on by the
\* last boundary, see legitimateEndPoint while scanning).
SettlesInPhase ==
    /\ telemetry.endSettleTimer   => mapping.phase \in FOLLOW_PHASES
    /\ telemetry.startSettleTimer => mapping.phase = "MAP_SCAN_BOUNDARY_MANUAL"
SignalsEarnedAnew ==
    [][ mapping'.phase # mapping.phase =>
          /\ mapping'.phase \in FOLLOW_PHASES => ~telemetry'.legitimateEndPoint
          /\ mapping'.phase = "MAP_SCAN_BOUNDARY_MANUAL" =>
               ~telemetry'.legitimateStartingPoint ]_vars

\* RESUME is confirmed in the handler itself (virtualRobotCore.ts:415): a paused
\* session that has a phase to resume is neither paused nor resuming after it.
ResumeIsConfirmed ==
    [][ /\ mapping.state = "PAUSED" /\ mapping.resumeTo.phase # Null
        /\ mapping'.state \in {"PAUSED", "RESUMING"}
        => \A i \in DOMAIN tasks : ~Resume(i) ]_vars

\* The robot ends a running session by itself only with the last step of an
\* upload that did not fail, and with that step it does.
UploadEndsSession ==
    [][ /\ mapping.state = "WORKING"
        /\ (mapping'.state = "COMPLETED") # (upload.timer /\ upload'.state = "SUCCESS")
        => ~Timer ]_vars

-----------------------------------------------------------------------------
(* Liveness.                                                                   *)

AnyTimer ==
    \/ device.timers # {}
    \/ telemetry.startSettleTimer \/ telemetry.endSettleTimer
    \/ waiting.timer
    \/ upload.timer

\* An accepted edge action does not block the task for ever, whatever happens to
\* the session meanwhile.
EdgeActionAnswered == device.pending # Null ~> device.pending = Null

\* Left alone the robot comes to rest: the frames its timers push start further
\* timers (a countdown an upload, an upload's end a countdown), but not for ever.
LeftAlone  == <>[][Timer]_vars
ComesToRest == LeftAlone => <>[]~AnyTimer

-----------------------------------------------------------------------------
(* Statements of the source's comments that the code does not keep.            *)

\* virtualRobotCore.ts:715: no progress frame comes after a STOP.  The countdown of
\* the completion page is not among the timers that a STOP clears.
NoUploadAfterStop == mapping.state = "CANCELLED" => upload.state # "UPLOADING"

\* virtualRobotCore.ts:1014: with the last step of the upload the robot reports idle,
\* and that ends the session.  Not one that was paused on the completion page.
UploadSuccessEndsSession ==
    [][ upload.timer /\ upload'.state = "SUCCESS" =>
          mapping'.state \notin {"WORKING", "PAUSED", "RESUMING"} ]_vars
=============================================================================
