------------------------------ MODULE MowingRobot ------------------------------
(* The mowing half of the simulated mower (virtualRobotCore.ts,                 *)
(* ratelStatusPush.ts): the mowing session, its task records with their         *)
(* progress, and the recharge task that walks the robot to its dock.            *)
(*                                                                              *)
(* As in MappingRobot an action is a whole handler or timer callback, written   *)
(* as operators on the record of all variables, and a scheduled timer fires at  *)
(* any later moment.  The mapping half is left out but for what it shares with  *)
(* this one: the last frame and the active domain.  A frame routed to it        *)
(* changes these two only; that the two edge and mowing modes of a task differ  *)
(* in the sub-status they push is left out, as both mean MOW_RUNNING.           *)
EXTENDS MowingReducer, NotifyMapper, Naturals, SequencesExt

CONSTANTS
    Frames,      \* the status frames a device, scenario or fault can push: [work, sub]
    RawEvents,   \* the events sent to the mowing session past the task API
    MaxTasks,    \* bound on the number of tasks created between two resets
    FullProgress \* the number of progress steps of a mow (50 steps of 2 per cent)

ASSUME BoundsAssumption ==
    MaxTasks \in Nat \ {0} /\ FullProgress \in Nat \ {0}
ASSUME FramesAssumption == Frames \subseteq [work : STRING, sub : STRING]
ASSUME RawEventsAssumption == RawEvents \subseteq MowingEvent

VARIABLES
    mowing,    \* the context of the mowing session
    tasks,     \* the task records, oldest first: [status, progress]
    notify,    \* lastNotifyWorkStatus and lastNotifySubStatus
    domain,    \* activeDomain
    dock       \* the recharge task: its status and the next frame of its sequence

vars == <<mowing, tasks, notify, domain, dock>>

Robot == [ mowing |-> mowing, tasks |-> tasks, notify |-> notify, domain |-> domain,
           dock |-> dock ]

Become(r) ==
    /\ mowing' = r.mowing /\ tasks' = r.tasks /\ notify' = r.notify
    /\ domain' = r.domain /\ dock' = r.dock

mowingInitialContext == applyCapabilities(createInitialTaskContext, FALSE, FALSE)

\* recharge/notify_sequence.jsonc, and the idle frame that ends it.
RechargeSequence ==
    << [work |-> "return_dock", sub |-> "go_to_pre_dock_point"],
       [work |-> "return_dock", sub |-> "seek_charger_dock"],
       [work |-> "return_dock", sub |-> "enter_dock"],
       [work |-> "return_dock", sub |-> "at_dock"],
       [work |-> "idle", sub |-> "none"] >>
Arrived == Len(RechargeSequence) + 1

NoNotify == [work |-> Null, sub |-> Null]
NoDock   == [status |-> Null, next |-> Arrived]

InitialRobot == [ mowing |-> mowingInitialContext, tasks |-> <<>>, notify |-> NoNotify,
                  domain |-> Null, dock |-> NoDock ]

-----------------------------------------------------------------------------
(* Task records and the session.                                              *)

newTask == [status |-> "ON_THE_WAY", progress |-> 0]

statusFor(state, status) ==
    CASE state \in {"WORKING", "RESUMING", "PREPARING", "UNDOCKING"} -> "ON_THE_WAY"
      [] state \in {"PAUSED", "REMOTE_CONTROL"} -> "PAUSE"
      [] state = "COMPLETED" -> "COMPLETE"
      [] state = "CANCELLED" -> "CANCEL"
      [] state = "ERRORED"   -> "FAILED"
      [] OTHER -> status

\* A completed mow counts as full, wherever it was ended.
syncMowTask(records, ctx) ==
    IF records = <<>> THEN records
    ELSE [records EXCEPT ![Len(records)] =
            [ status   |-> statusFor(ctx.state, @.status),
              progress |-> IF ctx.state = "COMPLETED" THEN FullProgress ELSE @.progress ]]

\* (Mutant: the record is brought up to date before the event.)
dispatchMowingLate(r, event) ==
    [r EXCEPT !.tasks = syncMowTask(@, r.mowing), !.mowing = mowingReducer(@, event)]

\* A start that did not come through the task API gets a record if there is none;
\* the record of the active task follows the session.
dispatchMowing(r, event) ==
    LET next == mowingReducer(r.mowing, event)
        recorded == IF event.type = "CMD_START" /\ r.tasks = <<>>
                    THEN <<newTask>> ELSE r.tasks
    IN  [r EXCEPT !.mowing = next, !.tasks = syncMowTask(recorded, next)]

\* A reset also forgets the last frame, whether or not the session accepts it.
dispatchMowingEvent(r, event) ==
    dispatchMowing(IF event.type = "CMD_RESET" THEN [r EXCEPT !.notify = NoNotify] ELSE r,
                   event)

Command(type) == [type |-> type]
Estop(active) == [type |-> "DEVICE_ESTOP", active |-> active]

-----------------------------------------------------------------------------
(* Pushing a status frame (applyRatelStatusPush).                             *)

\* The session a frame is meant for: by its own work status, else by the last
\* frame's, else by the domain that was active.
notifyTargetDomain(work, prevWork, active) ==
    CASE work \in {"mowing", "return_dock"} -> "mowing"
      [] work \in {"mapping", "mapping_completed"} -> "mapping"
      [] work \notin {"mowing", "return_dock", "mapping", "mapping_completed"} ->
           CASE prevWork = "mowing" -> "mowing"
             [] prevWork \in {"mapping", "mapping_completed"} -> "mapping"
             [] OTHER -> IF active = "mowing" THEN "mowing" ELSE "mapping"

applyReleaseEdge(r, prevWork) ==
    IF prevWork = "emergency_stop" THEN dispatchMowingEvent(r, Estop(FALSE)) ELSE r

applyMowingToIdleCompletion(r) ==
    IF r.mowing.state \in {"WORKING", "PAUSED", "RESUMING"}
    THEN dispatchMowingEvent(r, [type |-> "DEVICE_WORK_STATUS", status |-> "idle"])
    ELSE r

applyIdleEdge(r, prevWork, work) ==
    IF prevWork = "mowing" /\ work = "idle" THEN applyMowingToIdleCompletion(r) ELSE r

\* The events of a frame, the status before the phase.
dispatchNotify(r, event) == IF event = NoEvent THEN r ELSE dispatchMowingEvent(r, event)
dispatchFrame(r, frame) ==
    dispatchNotify(dispatchNotify(r, statusEvent(frame.work)),
                   phaseEvent(frame.work, frame.sub))

\* A frame other than emergency_stop: the release, its events, the end.
applyMowingFrame(r, frame, prevWork) ==
    applyIdleEdge(dispatchFrame(applyReleaseEdge(r, prevWork), frame), prevWork, frame.work)

\* The frame is noted and its domain becomes the active one.
routeFrame(r, frame, target, prevWork) ==
    CASE target = "mapping" -> r
      [] target = "mowing" /\ frame.work = "emergency_stop" ->
           dispatchMowingEvent(r, Estop(TRUE))
      [] OTHER -> applyMowingFrame(r, frame, prevWork)

noteFrame(r, frame, target) ==
    routeFrame([r EXCEPT !.notify = frame, !.domain = target], frame, target, r.notify.work)

\* A frame that repeats its predecessor is dropped.
pushRatelStatus(r, frame) ==
    IF r.notify = frame THEN r
    ELSE noteFrame(r, frame, notifyTargetDomain(frame.work, r.notify.work, r.domain))

MowingFrame(sub) == [work |-> "mowing", sub |-> sub]

-----------------------------------------------------------------------------
(* The task API.  A request names a task by its id; the session it acts on is   *)
(* the current one, whichever task that belongs to.                            *)

\* A create starts no session but an idle one; its frames run any that has not
\* ended.
CreateMowingTask ==
    /\ Len(tasks) < MaxTasks
    /\ LET recorded == [Robot EXCEPT !.domain = "mowing", !.tasks = Append(@, newTask)]
           started == dispatchMowing(recorded, [type |-> "CMD_START", mode |-> "auto"])
           checked == pushRatelStatus(started, MowingFrame("map_check"))
           left    == pushRatelStatus(checked, MowingFrame("leave_dock"))
       IN  Become(pushRatelStatus(left, MowingFrame("mowing")))

\* RESUME is followed by the frame of a robot that mows.
mowingAction(r, type) ==
    IF type = "CMD_RESUME"
    THEN pushRatelStatus(dispatchMowing(r, Command(type)), MowingFrame("mowing"))
    ELSE dispatchMowing(r, Command(type))

ApplyMowingAction ==
    /\ tasks # <<>>
    /\ \E type \in {"CMD_PAUSE", "CMD_RESUME", "CMD_CANCEL", "CMD_FINISH_AND_RETURN_DOCK"} :
         Become(mowingAction([Robot EXCEPT !.domain = "mowing"], type))

TaskAction == CreateMowingTask \/ ApplyMowingAction

-----------------------------------------------------------------------------
(* Recharging.                                                                *)

\* The current mow ends without a word to its record.
StartRecharge ==
    Become([Robot EXCEPT !.domain = "mowing", !.mowing = mowingInitialContext,
                         !.notify = NoNotify,
                         !.dock = [status |-> "ON_THE_WAY", next |-> 1]])

\* (Mutant: the frames that are scheduled go on.)
RechargeActionNoClear ==
    /\ dock.status # Null
    /\ \E status \in {"PAUSE", "ON_THE_WAY", "CANCEL"} :
         Become([Robot EXCEPT !.dock.status = status])

\* PAUSE, RESUME and CANCEL set the status whatever it was; only the last one
\* stops the scheduled frames.
RechargeAction ==
    /\ dock.status # Null
    /\ \E status \in {"PAUSE", "ON_THE_WAY", "CANCEL"} :
         Become([Robot EXCEPT !.dock =
                   [ status |-> status,
                     next   |-> IF status = "CANCEL" THEN Arrived ELSE @.next ]])

\* (Mutant: the task does not learn of the arrival.)
atDockSilent(r) == [r EXCEPT !.dock.next = @ + 1]

\* The step after a frame; with at_dock the task is complete.
afterDockFrame(r) ==
    [r EXCEPT !.dock =
       [ next   |-> @.next + 1,
         status |-> IF RechargeSequence[@.next].sub = "at_dock" THEN "COMPLETE"
                    ELSE @.status ]]

\* The timers of the sequence fire in the order of their delays.
RechargeStep ==
    /\ dock.next # Arrived
    /\ Become(IF dock.status = "CANCEL"
              THEN [Robot EXCEPT !.dock.next = @ + 1]
              ELSE afterDockFrame(pushRatelStatus(Robot, RechargeSequence[dock.next])))

-----------------------------------------------------------------------------
(* The device, the other requests and the progress timer.                      *)

DeviceFrame ==
    \E frame \in Frames : Become(pushRatelStatus(Robot, frame))

SendRawEvent ==
    \E event \in RawEvents : Become(dispatchMowingEvent(Robot, event))

\* A request of the mapping half makes its domain the active one.
MappingRequest == Become([Robot EXCEPT !.domain = "mapping"])

ResetRobot == Become(InitialRobot)

\* (Mutant: the progress is not capped.)
progressedUncapped(record) == [record EXCEPT !.progress = @ + 1]

progressed(record) ==
    [record EXCEPT !.progress = IF @ < FullProgress THEN @ + 1 ELSE FullProgress]

\* The mow timer: the active record gains progress while it is on the way, and at
\* the end the session is told, every time.
ProgressMowing ==
    /\ tasks # <<>> /\ Last(tasks).status = "ON_THE_WAY"
    /\ LET grown == [Robot EXCEPT !.tasks[Len(tasks)] = progressed(@)]
       IN  Become(IF Last(grown.tasks).progress < FullProgress THEN grown
                  ELSE dispatchMowing(grown, Command("DEVICE_REPORT_FINISHED")))

Timer == RechargeStep \/ ProgressMowing

Init ==
    /\ mowing = InitialRobot.mowing /\ tasks = InitialRobot.tasks
    /\ notify = InitialRobot.notify /\ domain = InitialRobot.domain
    /\ dock = InitialRobot.dock

Next ==
    TaskAction \/ StartRecharge \/ RechargeAction \/ DeviceFrame \/ SendRawEvent
    \/ MappingRequest \/ ResetRobot \/ Timer

\* The event loop runs the callback of every timer that stays scheduled: weak
\* fairness, with the condition written out as in MappingRobot.  (The progress timer
\* needs none: nothing waits for it.)
Fairness == []<>(dock.next = Arrived) \/ []<><<dock' # dock /\ RechargeStep>>_vars

Spec == Init /\ [][Next]_vars /\ Fairness

-----------------------------------------------------------------------------
(* Safety.                                                                     *)

TypeOK ==
    /\ mowing \in MowingContext
    /\ Len(tasks) <= MaxTasks
    /\ \A i \in DOMAIN tasks :
         tasks[i] \in [ status : {"ON_THE_WAY", "PAUSE", "COMPLETE", "CANCEL", "FAILED"},
                        progress : 0..FullProgress ]
    /\ domain \in {Null, "mapping", "mowing"}
    /\ dock \in [status : {Null, "ON_THE_WAY", "PAUSE", "COMPLETE", "CANCEL"}, next : 1..Arrived]

\* A scene to resume is kept exactly while the mow is interrupted: a return to the
\* dock ends the mow (MowingTask.ts:195), so that neither it nor any state that runs
\* or has ended carries one over to the next interruption.
MowResumeTargets ==
    /\ mowing.state \in {"IDLE", "PREPARING", "UNDOCKING", "WORKING", "RETURNING_DOCK"}
                        \cup TERMINAL_TASK_STATES
         => mowing.resumeTo = NoScene
    /\ mowing.state = "REMOTE_CONTROL" => mowing.resumeTo # NoScene
    /\ mowing.state \in {"PAUSED", "RESUMING"} /\ mowing.resumeTo = NoScene =>
         mowing.phase = "charged"

\* The record of the active task says what its session does, after every handler and
\* however many frames it pushed; once complete it is full.
MowTaskFollowsSession ==
    tasks # <<>> =>
      /\ Last(tasks).status = statusFor(mowing.state, Last(tasks).status)
      /\ mowing.state = "COMPLETED" => Last(tasks).progress = FullProgress

\* A cancelled recharge is over: no frame of its sequence is left, not even one that
\* a later RESUME, which makes the task active again, would let through.
CancelStopsDocking == [][ dock.status = "CANCEL" => ~RechargeStep ]_vars

\* The end of the sequence ends the return: the idle frame that follows a frame of the
\* dock completes the session, as long as no mapping request took the domain over.
ReturnIsEnded ==
    [][ /\ mowing.state = "RETURNING_DOCK"
        /\ notify.work = "return_dock" /\ domain = "mowing"
        /\ dock.next = Len(RechargeSequence) /\ RechargeStep
        => mowing'.state = "COMPLETED" ]_vars

\* A return to the dock is not resumed by itself, by a lost link or by a command to
\* the session: only a frame of a robot that mows again (or a request that pushes
\* one), the dock and the end lead out of it.
ReturnNotResumed ==
    [][ mowing.state = "RETURNING_DOCK"
        /\ mowing'.state \in {"WORKING", "RESUMING", "PAUSED", "REMOTE_CONTROL"}
        => notify'.work = "mowing" ]_vars

-----------------------------------------------------------------------------
(* Liveness.                                                                   *)

\* A recharge that has been started arrives, whatever the user does to the session
\* meanwhile: it is complete at some moment, or else cancelled, reset, or started
\* again and again.
RechargeArrives ==
    \/ []<><<dock' # dock /\ StartRecharge>>_vars
    \/ dock.next = 1 ~> dock.status \in {"COMPLETE", "CANCEL", Null}

-----------------------------------------------------------------------------
(* A statement of the docs that the code does not keep.                         *)

\* docs/scenarios.md:60: idle/none takes RETURNING_DOCK to COMPLETED.  The frame has no
\* domain of its own and return_dock is not among the predecessors that give it one,
\* so that any mapping request in between sends it to the mapping session.
IdleEndsReturn ==
    [][ mowing.state = "RETURNING_DOCK" /\ notify.work = "return_dock"
        /\ notify' = [work |-> "idle", sub |-> "none"]
        => mowing'.state # "RETURNING_DOCK" ]_vars
=============================================================================
