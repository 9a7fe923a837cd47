------------------------------- MODULE TaskFSM -------------------------------
(* The transition function shared by the mapping and the mowing sessions of   *)
(* the simulated mower (fsm-mirror/domain/shared/TaskFSM.ts).  It is pure: a  *)
(* context and an event give the next context.  The module declares nothing   *)
(* that varies, so that the sessions and the robot can thread one context     *)
(* through several events of the same handler.                                *)
(*                                                                            *)
(* Left out of the context, because no guard reads them: area, taskMode, the  *)
(* notices queue, lastSource and lastSourceTs, and with them the events that  *)
(* change nothing else.  The battery is read by one guard only (its           *)
(* comparison with 80), whose outcome DEVICE_BATTERY carries.  BLE and WS     *)
(* links fail alike: both are LINK_DOWN.  DEVICE_LOW_BATTERY shares the case  *)
(* of CMD_RETURN_DOCK.                                                        *)

\* `undefined' is what reading `state' or `phase' gives once the default branch
\* of the switch has put an event object where the context belongs.
Undefined == "undefined"

\* The JavaScript null of `phase', `pausedReason' and `error'.
Null == "null"

TASK_STATES ==
    { "IDLE", "PREPARING", "UNDOCKING", "WORKING", "PAUSED", "REMOTE_CONTROL",
      "RECHARGING", "RESUMING", "RETURNING_DOCK", "ESTOPPED", "COMPLETED",
      "CANCELLED", "ERRORED" }

TERMINAL_TASK_STATES == { "COMPLETED", "CANCELLED", "ERRORED" }

ESTOP_RESUMABLE_STATES ==
    { "WORKING", "PAUSED", "REMOTE_CONTROL", "RESUMING", "RECHARGING", "UNDOCKING" }

RechargePhases == { "returning", "charging", "charged" }

\* `resumeTo' is a scene [state, phase], or null.
Scene(state, phase) == [state |-> state, phase |-> phase]
NoScene == Scene(Null, Null)

\* `a ?? b' on scenes and on the phase of an optional scene.
SceneOr(scene, other) == IF scene = NoScene THEN other ELSE scene
PhaseOr(scene, phase) == IF scene.phase = Null THEN phase ELSE scene.phase

RobotWorkStatus ==
    { "idle", "mowing", "charging", "mapping", "mapping_completed", "return_dock",
      "emergency_stop", "error" }

TaskErrors   == { Null, "recoverable", "fatal" }
PausedReasons == { Null, "user", "link" }

\* manualScanStarted belongs to the mapping session; nothing here reads it.
createInitialTaskContext ==
    [ state |-> "IDLE", phase |-> Null, mode |-> "auto", resumeTo |-> NoScene,
      error |-> Null, canSwitchManual |-> TRUE, canSwitchAuto |-> TRUE,
      estopActive |-> FALSE, pausedReason |-> Null, manualScanStarted |-> FALSE ]

-----------------------------------------------------------------------------

\* (Mutant: the two fields swapped.)
snapshotSwapped(ctx) == Scene(ctx.phase, ctx.state)

snapshot(ctx) == Scene(ctx.state, ctx.phase)

\* The scene an emergency stop saves: none outside the resumable states.
estopSnapshot(ctx) ==
    IF ctx.state \in ESTOP_RESUMABLE_STATES THEN snapshot(ctx) ELSE NoScene

withError(ctx) ==
    [ctx EXCEPT !.state = "ERRORED", !.error = "fatal", !.resumeTo = NoScene]

applyCapabilities(ctx, manual, auto) ==
    [ctx EXCEPT !.canSwitchManual = manual, !.canSwitchAuto = auto]

resetCapabilities(ctx) == applyCapabilities(ctx, TRUE, TRUE)

enterRecharging(ctx) ==
    CASE ctx.state = "IDLE" ->
           [ctx EXCEPT !.state = "RECHARGING", !.phase = "charging"]
      [] ctx.state \in {"WORKING", "PAUSED"} ->
           [ctx EXCEPT !.state = "RECHARGING", !.phase = "returning",
                       !.resumeTo = SceneOr(ctx.resumeTo, snapshot(ctx))]
      [] OTHER -> ctx

-----------------------------------------------------------------------------
(* One operator per case of the switch.  The first three are decided before  *)
(* the switch: a reset, an emergency stop, a session that has ended.          *)

\* (Mutant: the reset does not look at the button.)
CmdResetUnchecked(ctx) ==
    CASE ctx.state = "ESTOPPED" /\ ctx.resumeTo # NoScene -> [ctx EXCEPT !.state = "RESUMING"]
      [] ctx.state = "ESTOPPED" /\ ctx.resumeTo = NoScene ->
           [ctx EXCEPT !.state = "IDLE", !.phase = Null]
      [] ctx.state \in TERMINAL_TASK_STATES -> createInitialTaskContext
      [] OTHER -> ctx

CmdReset(ctx) ==
    CASE ctx.state = "ESTOPPED" /\ ctx.estopActive -> ctx
      [] ctx.state = "ESTOPPED" /\ ~ctx.estopActive /\ ctx.resumeTo # NoScene ->
           [ctx EXCEPT !.state = "RESUMING", !.error = Null, !.pausedReason = Null]
      [] ctx.state = "ESTOPPED" /\ ~ctx.estopActive /\ ctx.resumeTo = NoScene ->
           [ctx EXCEPT !.state = "IDLE", !.phase = Null, !.error = Null,
                       !.pausedReason = Null]
      [] ctx.state \in TERMINAL_TASK_STATES -> createInitialTaskContext
      [] OTHER -> ctx

\* (Mutant: the release alone takes the session back to what it did.)
WhileEstoppedResumes(ctx, event) ==
    IF event.type = "DEVICE_ESTOP" /\ ~event.active
    THEN [ctx EXCEPT !.estopActive = FALSE, !.state = "RESUMING"]
    ELSE ctx

\* ESTOPPED: only the release, the capabilities and the link are looked at.
WhileEstopped(ctx, event) ==
    CASE event.type = "DEVICE_ESTOP" ->
           IF event.active THEN ctx ELSE [ctx EXCEPT !.estopActive = FALSE]
      [] event.type = "DEVICE_CAPABILITIES" ->
           applyCapabilities(ctx, event.canSwitchManual, event.canSwitchAuto)
      [] event.type \in {"LINK_DOWN", "LINK_NET_LOST"} -> resetCapabilities(ctx)
      [] OTHER -> ctx

CmdStart(ctx, event) ==
    IF ctx.state # "IDLE" THEN ctx
    ELSE [ctx EXCEPT !.state = "PREPARING", !.mode = event.mode, !.phase = Null,
                     !.resumeTo = NoScene, !.error = Null]

DeviceUndocked(ctx) ==
    IF ctx.state = "PREPARING" THEN [ctx EXCEPT !.state = "UNDOCKING"] ELSE ctx

DeviceWorkStatus(ctx, event) ==
    CASE event.status = "error" -> withError(ctx)
      [] event.status = "charging" -> enterRecharging(ctx)
      [] event.status \in {"mapping", "mowing"} -> DeviceUndocked(ctx)
      [] OTHER -> ctx

DevicePhase(ctx, event) ==
    CASE ctx.state = "UNDOCKING" ->
           [ctx EXCEPT !.state = "WORKING", !.phase = event.phase, !.error = Null]
      [] ctx.state \in {"WORKING", "REMOTE_CONTROL"} ->
           [ctx EXCEPT !.phase = event.phase, !.error = Null]
      [] ctx.state = "RESUMING" ->
           [ctx EXCEPT !.state = "WORKING", !.phase = event.phase,
                       !.resumeTo = NoScene, !.error = Null, !.pausedReason = Null]
      [] OTHER -> ctx

\* (Mutant: the pause keeps the scene of an earlier interruption, if any.)
CmdPauseWithoutScene(ctx) ==
    IF ctx.state \in {"WORKING", "UNDOCKING", "PREPARING"}
    THEN [ctx EXCEPT !.state = "PAUSED", !.pausedReason = "user"]
    ELSE ctx

\* (Mutant: also a robot on its way to the dock.)
CmdPauseReturning(ctx) ==
    IF ctx.state \in {"WORKING", "UNDOCKING", "PREPARING", "RETURNING_DOCK"}
    THEN [ctx EXCEPT !.state = "PAUSED", !.resumeTo = snapshot(ctx), !.pausedReason = "user"]
    ELSE ctx

CmdPause(ctx) ==
    IF ctx.state \in {"WORKING", "UNDOCKING", "PREPARING"}
    THEN [ctx EXCEPT !.state = "PAUSED", !.resumeTo = snapshot(ctx),
                     !.pausedReason = "user"]
    ELSE ctx

CmdResume(ctx) ==
    IF \/ ctx.state = "PAUSED" /\ ctx.resumeTo # NoScene
       \/ ctx.state = "RECHARGING" /\ ctx.phase = "charged"
    THEN [ctx EXCEPT !.state = "RESUMING"]
    ELSE ctx

CmdCancel(ctx) ==
    IF ctx.state = "IDLE" THEN ctx
    ELSE [ctx EXCEPT !.state = "CANCELLED", !.resumeTo = NoScene, !.error = Null]

CmdSwitchManual(ctx, options) ==
    IF ctx.state = "PAUSED" /\ ctx.canSwitchManual /\ ctx.phase \in options.remotePhases
    THEN [ctx EXCEPT !.state = "REMOTE_CONTROL", !.mode = "remote",
                     !.phase = PhaseOr(ctx.resumeTo, ctx.phase),
                     !.resumeTo = SceneOr(ctx.resumeTo, snapshot(ctx))]
    ELSE ctx

\* (Mutant: the scene is not cleared once it has been used.)
CmdExitManualKeepsScene(ctx) ==
    IF ctx.state = "REMOTE_CONTROL" /\ ctx.canSwitchAuto
    THEN [ctx EXCEPT !.state = "WORKING", !.mode = "auto",
                     !.phase = PhaseOr(ctx.resumeTo, ctx.phase)]
    ELSE ctx

CmdExitManual(ctx) ==
    IF ctx.state = "REMOTE_CONTROL" /\ ctx.canSwitchAuto
    THEN [ctx EXCEPT !.state = "WORKING", !.mode = "auto",
                     !.phase = PhaseOr(ctx.resumeTo, ctx.phase),
                     !.resumeTo = NoScene]
    ELSE ctx

CmdConfirm(ctx, options) ==
    IF ctx.state = "WORKING" /\ ctx.phase \in options.terminalPhases
    THEN [ctx EXCEPT !.state = "COMPLETED", !.resumeTo = NoScene, !.error = Null]
    ELSE ctx

DeviceDocked(ctx) ==
    IF ctx.state \in {"RECHARGING", "RETURNING_DOCK"}
    THEN [ctx EXCEPT !.state = "RECHARGING", !.phase = "charging"]
    ELSE ctx

\* event.charged: the level is at least chargedBatteryLevel (80).
DeviceBattery(ctx, event) ==
    IF ctx.state = "RECHARGING" /\ event.charged
    THEN [ctx EXCEPT !.phase = "charged"]
    ELSE ctx

DeviceError(ctx, event) ==
    IF event.recoverable THEN [ctx EXCEPT !.error = "recoverable"] ELSE withError(ctx)

DeviceEstop(ctx, event) ==
    IF event.active
    THEN [ctx EXCEPT !.state = "ESTOPPED", !.estopActive = TRUE,
                     !.resumeTo = SceneOr(ctx.resumeTo, estopSnapshot(ctx))]
    ELSE [ctx EXCEPT !.estopActive = FALSE]

LinkNetLost(ctx) ==
    IF ctx.state \in {"WORKING", "RECHARGING"}
    THEN [resetCapabilities(ctx) EXCEPT
            !.state = "PAUSED", !.resumeTo = SceneOr(ctx.resumeTo, snapshot(ctx)),
            !.pausedReason = "link"]
    ELSE resetCapabilities(ctx)

\* (Mutant: a resume that nobody confirms is given up.)
AckTimeoutGivesUp(ctx) ==
    CASE ctx.state \in {"PAUSED", "IDLE"} -> ctx
      [] ctx.state = "RESUMING" -> [ctx EXCEPT !.state = "IDLE", !.resumeTo = NoScene]
      [] OTHER -> withError(ctx)

\* The acknowledgement of a command did not come in time.
AckTimeout(ctx) ==
    CASE ctx.state \in {"PAUSED", "IDLE"} -> ctx
      [] ctx.state = "RESUMING" -> [ctx EXCEPT !.state = "PAUSED"]
      [] OTHER -> withError(ctx)

\* `return _exhaustive ?? ctx': the event itself, which is never null, becomes
\* the context.  Every field read off it afterwards is undefined, hence falsy;
\* a guard that would throw on it leaves the context as it is, like FALSE.
EventAsContext ==
    [ state |-> Undefined, phase |-> Undefined, mode |-> Undefined,
      resumeTo |-> NoScene, error |-> Null, canSwitchManual |-> FALSE,
      canSwitchAuto |-> FALSE, estopActive |-> FALSE, pausedReason |-> Null,
      manualScanStarted |-> FALSE ]

\* The events of simFsmTypes.ts that no case of the switch names.
SimOnlyEvents == {"CMD_SAVE", "CMD_FINISH_AND_RETURN_DOCK", "DEVICE_REPORT_FINISHED"}

\* The switch on the type of the event, for a session that is neither stopped
\* nor over.
InSession(ctx, event, options) ==
    CASE event.type = "CMD_START"           -> CmdStart(ctx, event)
      [] event.type = "DEVICE_WORK_STATUS"  -> DeviceWorkStatus(ctx, event)
      [] event.type = "DEVICE_UNDOCKED"     -> DeviceUndocked(ctx)
      [] event.type = "DEVICE_PHASE"        -> DevicePhase(ctx, event)
      [] event.type = "CMD_PAUSE"           -> CmdPause(ctx)
      [] event.type = "CMD_RESUME"          -> CmdResume(ctx)
      [] event.type = "CMD_CANCEL"          -> CmdCancel(ctx)
      [] event.type = "CMD_SWITCH_MANUAL"   -> CmdSwitchManual(ctx, options)
      [] event.type = "CMD_EXIT_MANUAL"     -> CmdExitManual(ctx)
      [] event.type = "CMD_CONFIRM"         -> CmdConfirm(ctx, options)
      [] event.type = "CMD_RETURN_DOCK"     -> enterRecharging(ctx)
      [] event.type = "DEVICE_DOCKED"       -> DeviceDocked(ctx)
      [] event.type = "DEVICE_BATTERY"      -> DeviceBattery(ctx, event)
      [] event.type = "DEVICE_ERROR"        -> DeviceError(ctx, event)
      [] event.type = "DEVICE_ESTOP"        -> DeviceEstop(ctx, event)
      [] event.type = "DEVICE_CAPABILITIES" ->
           applyCapabilities(ctx, event.canSwitchManual, event.canSwitchAuto)
      [] event.type = "LINK_NET_LOST"       -> LinkNetLost(ctx)
      [] event.type = "LINK_DOWN"           -> resetCapabilities(ctx)
      [] event.type = "TIMEOUT"             -> AckTimeout(ctx)
      [] event.type \in SimOnlyEvents       -> EventAsContext

\* options: [terminalPhases, remotePhases], the TaskReducerOptions of a session;
\* canEnterRemote is the set of phases it accepts.
transition(ctx, event, options) ==
    CASE event.type = "CMD_RESET" -> CmdReset(ctx)
      [] event.type # "CMD_RESET" /\ ctx.state = "ESTOPPED" -> WhileEstopped(ctx, event)
      [] event.type # "CMD_RESET" /\ ctx.state \in TERMINAL_TASK_STATES -> ctx
      [] OTHER -> InSession(ctx, event, options)
=============================================================================
