----------------------------- MODULE MowingReducer -----------------------------
(* The mowing session (fsm-mirror/domain/mowing/MowingTask.ts): its rules in    *)
(* front of the shared transition function.  Unlike the mapping session it      *)
(* decides the robot's work status before the shared guards, so that a frame    *)
(* can take a stopped or failed session elsewhere.  Left out: task mode, area   *)
(* and notices, which no guard reads.                                           *)
EXTENDS TaskFSM

RETURN_DOCK_PHASES ==
    { "RETURN_PRE_DOCK", "RETURN_SEEK_CHARGER", "RETURN_ENTER_DOCK", "RETURN_AT_DOCK",
      "RETURN_DOCK_FAILED" }

MowingPhase == {"MOW_RUNNING"} \cup RechargePhases \cup RETURN_DOCK_PHASES

MowScenes == [state : TASK_STATES \cup {Null}, phase : MowingPhase \cup {Null, Undefined}]

\* Nothing starts a manual scan here.
MowingContext ==
    [ state : TASK_STATES \cup {Undefined},
      phase : MowingPhase \cup {Null, Undefined},
      mode  : {"auto", "remote", Undefined},
      resumeTo : MowScenes,
      error : TaskErrors, canSwitchManual : BOOLEAN, canSwitchAuto : BOOLEAN,
      estopActive : BOOLEAN, pausedReason : PausedReasons,
      manualScanStarted : {FALSE} ]

\* The events of a session.  A start in a mowing mode is one in mode auto.
MowingEvent ==
    [type : {"CMD_START"}, mode : {"auto", "remote"}] \cup
    [type : {"DEVICE_WORK_STATUS"}, status : RobotWorkStatus] \cup
    [type : {"DEVICE_PHASE"}, phase : MowingPhase] \cup
    [type : {"DEVICE_BATTERY"}, charged : BOOLEAN] \cup
    [type : {"DEVICE_ERROR"}, recoverable : BOOLEAN] \cup
    [type : {"DEVICE_ESTOP"}, active : BOOLEAN] \cup
    [type : {"DEVICE_CAPABILITIES"}, canSwitchManual : BOOLEAN, canSwitchAuto : BOOLEAN] \cup
    [type : {"CMD_PAUSE", "CMD_RESUME", "CMD_CANCEL", "CMD_SWITCH_MANUAL",
             "CMD_EXIT_MANUAL", "CMD_CONFIRM", "CMD_RETURN_DOCK", "CMD_RESET",
             "DEVICE_UNDOCKED", "DEVICE_DOCKED", "LINK_DOWN", "LINK_NET_LOST",
             "TIMEOUT", "RECONCILE_STARTED", "RECONCILE_PAUSED"} \cup SimOnlyEvents]

\* The reducer names no canEnterRemote: every phase may go remote.
MowingOptions ==
    [terminalPhases |-> {"MOW_RUNNING"}, remotePhases |-> MowingPhase \cup {Null}]

mowBase(ctx, event) == transition(ctx, event, MowingOptions)

RunningScene == Scene("WORKING", "MOW_RUNNING")

\* The next two are no-ops outside IDLE.
reconcileMowStarted(ctx) ==
    IF ctx.state # "IDLE" THEN ctx
    ELSE [ctx EXCEPT !.state = "WORKING", !.phase = "MOW_RUNNING", !.error = Null]

reconcileMowPaused(ctx) ==
    IF ctx.state # "IDLE" THEN ctx
    ELSE [ctx EXCEPT !.state = "PAUSED", !.phase = "MOW_RUNNING",
                     !.resumeTo = RunningScene, !.error = Null]

canEnterReturningDock(ctx) ==
    ctx.state \in { "IDLE", "PREPARING", "UNDOCKING", "WORKING", "PAUSED", "RESUMING",
                    "REMOTE_CONTROL", "RETURNING_DOCK" }

\* (Mutant: the interrupted scene is kept for later.)
ReturnToKeepsScene(ctx, phase, error) ==
    [ctx EXCEPT !.state = "RETURNING_DOCK", !.phase = phase, !.error = error]

ReturnTo(ctx, phase, error) ==
    [ctx EXCEPT !.state = "RETURNING_DOCK", !.phase = phase, !.resumeTo = NoScene,
                !.error = error]

enterReturningDock(ctx) ==
    IF canEnterReturningDock(ctx) /\ ctx.state # "RETURNING_DOCK"
    THEN ReturnTo(ctx, "RETURN_PRE_DOCK", Null)
    ELSE ctx

applyReturnDockPhase(ctx, phase) ==
    IF canEnterReturningDock(ctx)
    THEN ReturnTo(ctx, phase,
                  IF phase = "RETURN_DOCK_FAILED" THEN "recoverable" ELSE Null)
    ELSE ctx

\* A mowing frame runs every session that has not ended, a stopped one included.
markRunning(ctx, event) ==
    CASE ctx.state \in TERMINAL_TASK_STATES -> ctx
      [] ctx.state \in {"PREPARING", "UNDOCKING"} -> mowBase(ctx, event)
      [] ctx.state = "WORKING" /\ ctx.phase = "MOW_RUNNING" -> ctx
      [] OTHER -> [ctx EXCEPT !.state = "WORKING", !.phase = "MOW_RUNNING",
                              !.resumeTo = NoScene, !.error = Null, !.pausedReason = Null]

markCharging(ctx) ==
    IF ctx.state \in {"IDLE"} \cup TERMINAL_TASK_STATES THEN ctx
    ELSE [ctx EXCEPT !.state = "RECHARGING", !.phase = "charging",
                     !.resumeTo = SceneOr(ctx.resumeTo, RunningScene)]

\* (Mutant: the return to the dock is not among the sessions that end.)
completeNotReturning(ctx) ==
    IF ctx.state \in {"IDLE", "CANCELLED", "COMPLETED", "RETURNING_DOCK"} THEN ctx
    ELSE [ctx EXCEPT !.state = "COMPLETED", !.phase = "MOW_RUNNING", !.resumeTo = NoScene,
                     !.error = Null]

\* An idle frame ends every session but an idle or cancelled one: also a failed
\* and a stopped one.  A recharge without a session to resume goes back to IDLE.
complete(ctx) ==
    CASE ctx.state \in {"IDLE", "CANCELLED", "COMPLETED"} -> ctx
      [] ctx.state = "RECHARGING" /\ ctx.resumeTo = NoScene ->
           [ctx EXCEPT !.state = "IDLE", !.phase = Null, !.error = Null]
      [] OTHER -> [ctx EXCEPT !.state = "COMPLETED", !.phase = "MOW_RUNNING",
                              !.resumeTo = NoScene, !.error = Null]

mowWorkStatus(ctx, event) ==
    CASE event.status = "mowing"      -> markRunning(ctx, event)
      [] event.status = "charging"    -> markCharging(ctx)
      [] event.status = "return_dock" -> enterReturningDock(ctx)
      [] event.status = "idle"        -> complete(ctx)
      [] OTHER -> mowBase(ctx, event)

mowingReducer(ctx, event) ==
    CASE /\ event.type = "CMD_CONFIRM"
         /\ ctx.state \in {"PAUSED", "RESUMING"}
         /\ ctx.phase = "MOW_RUNNING" -> complete(ctx)
      [] event.type = "RECONCILE_STARTED" -> reconcileMowStarted(ctx)
      [] event.type = "RECONCILE_PAUSED"  -> reconcileMowPaused(ctx)
      [] event.type = "DEVICE_WORK_STATUS" -> mowWorkStatus(ctx, event)
      [] event.type = "DEVICE_PHASE" /\ event.phase \in RETURN_DOCK_PHASES ->
           applyReturnDockPhase(ctx, event.phase)
      [] OTHER -> mowBase(ctx, event)
=============================================================================
