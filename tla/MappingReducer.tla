---------------------------- MODULE MappingReducer ----------------------------
(* The mapping session (fsm-mirror/domain/mapping/MappingSession.ts): the      *)
(* rules it puts in front of the shared transition function, in their order.  *)
(* Left out: canStartFollowBoundary, canCloseBoundary and lawnCount, which no  *)
(* guard reads.                                                               *)
EXTENDS TaskFSM

MAPPING_PHASES ==
    { "MAP_SCAN_BOUNDARY", "MAP_SCAN_BOUNDARY_MANUAL", "MAP_SCAN_BOUNDARY_FAILED",
      "MAP_UNDOCKING_FAILED", "MAP_FOLLOW_BOUNDARY", "MAP_FOLLOW_BOUNDARY_FAILED",
      "MAP_FOLLOW_BOUNDARY_MANUAL", "MAP_BOUNDARY_DONE", "MAP_COMPLETING" }

\* What a device can report as a phase: the status table also produces
\* MAP_UPLOADING, which the phase type does not list.
MappingPhase == MAPPING_PHASES \cup RechargePhases \cup {"MAP_UPLOADING"}

MappingOptions ==
    [ terminalPhases |-> {"MAP_COMPLETING"},
      remotePhases   |-> {"MAP_SCAN_BOUNDARY", "MAP_FOLLOW_BOUNDARY"} ]

baseReducer(ctx, event) == transition(ctx, event, MappingOptions)

\* Where leaving a manual phase leads.
FollowScene == Scene("WORKING", "MAP_FOLLOW_BOUNDARY")

\* The events of a session, by who sends them.
CommandEvents ==
    [type : {"CMD_START"}, mode : {"auto", "remote"}] \cup
    [type : {"CMD_PAUSE", "CMD_RESUME", "CMD_CANCEL", "CMD_SWITCH_MANUAL",
             "CMD_EXIT_MANUAL", "CMD_CONFIRM", "CMD_RETURN_DOCK", "CMD_RESET",
             "CMD_ADD_LAWN", "CMD_MANUAL_SCAN_STARTED"}]
DeviceEvents ==
    [type : {"DEVICE_WORK_STATUS"}, status : RobotWorkStatus] \cup
    [type : {"DEVICE_PHASE"}, phase : MappingPhase] \cup
    [type : {"DEVICE_BATTERY"}, charged : BOOLEAN] \cup
    [type : {"DEVICE_ERROR"}, recoverable : BOOLEAN] \cup
    [type : {"DEVICE_ESTOP"}, active : BOOLEAN] \cup
    [type : {"DEVICE_CAPABILITIES"}, canSwitchManual : BOOLEAN, canSwitchAuto : BOOLEAN] \cup
    [type : {"DEVICE_UNDOCKED", "DEVICE_DOCKED"}]
ReconcileEvents == [type : {"RECONCILE_STARTED", "RECONCILE_PAUSED"}]
LinkEvents      == [type : {"LINK_DOWN", "LINK_NET_LOST"}]
TimeoutEvents   == [type : {"TIMEOUT"}]
SimulatorEvents == [type : SimOnlyEvents]

MappingEvent ==
    CommandEvents \cup DeviceEvents \cup ReconcileEvents \cup LinkEvents \cup
    TimeoutEvents \cup SimulatorEvents

Scenes == [state : TASK_STATES \cup {Null}, phase : MappingPhase \cup {Null, Undefined}]

MappingContext ==
    [ state : TASK_STATES \cup {Undefined},
      phase : MappingPhase \cup {Null, Undefined},
      mode  : {"auto", "remote", Undefined},
      resumeTo : Scenes,
      error : TaskErrors, canSwitchManual : BOOLEAN, canSwitchAuto : BOOLEAN,
      estopActive : BOOLEAN, pausedReason : PausedReasons,
      manualScanStarted : BOOLEAN ]

\* What the simulator starts from: it grants no mode switch until told to.
simulatorInitialContext == applyCapabilities(createInitialTaskContext, FALSE, FALSE)

-----------------------------------------------------------------------------

\* (Mutant: the frame confirms a resume that has no phase to name.)
reduceWorkStatusBlind(ctx, event) ==
    IF ctx.state = "RESUMING" /\ event.status = "mapping"
    THEN [ctx EXCEPT !.state = "WORKING", !.phase = PhaseOr(ctx.resumeTo, ctx.phase),
                     !.resumeTo = NoScene]
    ELSE baseReducer(ctx, event)

\* A work_status frame confirms a resume only when it has a phase to resume.
reduceWorkStatus(ctx, event) ==
    LET resumePhase == PhaseOr(ctx.resumeTo, ctx.phase) IN
    CASE ctx.state = "PREPARING" /\ event.status \in {"mapping", "mowing"} -> ctx
      [] ctx.state = "RESUMING" /\ event.status = "mapping" /\ resumePhase # Null ->
           [ctx EXCEPT !.state = "WORKING", !.phase = resumePhase,
                       !.resumeTo = NoScene, !.error = Null, !.pausedReason = Null]
      [] OTHER -> baseReducer(ctx, event)

\* (Mutant: also in a session that has ended.)
LinkLostAlways(ctx, event) == [baseReducer(ctx, event) EXCEPT !.manualScanStarted = FALSE]

\* A lost link forgets that the manual scan was started.
LinkLost(ctx, event) ==
    IF ctx.state \in TERMINAL_TASK_STATES THEN ctx
    ELSE [baseReducer(ctx, event) EXCEPT !.manualScanStarted = FALSE]

reconcileStarted(ctx) ==
    IF ctx.state # "IDLE" THEN ctx
    ELSE [ctx EXCEPT !.state = "WORKING", !.mode = "auto", !.resumeTo = NoScene,
                     !.error = Null]

reconcilePaused(ctx) ==
    CASE ctx.state = "IDLE" ->
           [ctx EXCEPT !.state = "PAUSED", !.mode = "auto", !.error = Null,
                       !.resumeTo = Scene("WORKING", ctx.phase)]
      [] ctx.state \in {"PREPARING", "UNDOCKING", "WORKING", "RESUMING"} ->
           [ctx EXCEPT !.state = "PAUSED", !.error = Null,
                       !.resumeTo = SceneOr(ctx.resumeTo, snapshot(ctx))]
      [] OTHER -> ctx

\* `Add lawn' on the completion page: back to following the edge by hand.
addLawn(ctx) ==
    IF ctx.state = "WORKING" /\ ctx.phase = "MAP_COMPLETING"
    THEN [ctx EXCEPT !.state = "REMOTE_CONTROL", !.mode = "remote",
                     !.phase = "MAP_FOLLOW_BOUNDARY_MANUAL", !.error = Null,
                     !.resumeTo = FollowScene, !.manualScanStarted = TRUE]
    ELSE ctx

startManualScan(ctx) ==
    IF ctx.state = "REMOTE_CONTROL" /\ ctx.phase = "MAP_SCAN_BOUNDARY_MANUAL"
    THEN [ctx EXCEPT !.manualScanStarted = TRUE]
    ELSE ctx

\* The device has stopped at a lost boundary: no pause is needed first.  While
\* scanning there is no device echo to wait for; while following the edge only
\* the intent is recorded, and the next edge_mapping frame completes the switch.
switchManual(ctx) ==
    CASE ~ctx.canSwitchManual -> ctx
      [] /\ ctx.canSwitchManual
         /\ ctx.state = "WORKING"
         /\ ctx.phase \in {"MAP_SCAN_BOUNDARY_FAILED", "MAP_FOLLOW_BOUNDARY_FAILED"} ->
           [ctx EXCEPT !.state = "REMOTE_CONTROL", !.mode = "remote",
                       !.phase = "MAP_FOLLOW_BOUNDARY_MANUAL", !.error = Null,
                       !.resumeTo = FollowScene]
      [] /\ ctx.canSwitchManual
         /\ ctx.state = "PAUSED"
         /\ ctx.phase = "MAP_SCAN_BOUNDARY" ->
           [ctx EXCEPT !.state = "REMOTE_CONTROL", !.mode = "remote", !.error = Null]
      [] /\ ctx.canSwitchManual
         /\ ctx.state = "PAUSED"
         /\ ctx.phase = "MAP_FOLLOW_BOUNDARY" -> [ctx EXCEPT !.mode = "remote"]
      [] OTHER -> ctx

\* Leaving the manual scan goes back to the automatic scan, not to its resumeTo.
exitManual(ctx) ==
    IF /\ ctx.state = "REMOTE_CONTROL"
       /\ ctx.phase = "MAP_SCAN_BOUNDARY_MANUAL"
       /\ ctx.canSwitchAuto
    THEN [ctx EXCEPT !.state = "WORKING", !.mode = "auto", !.error = Null,
                     !.phase = "MAP_SCAN_BOUNDARY", !.resumeTo = NoScene]
    ELSE baseReducer(ctx, [type |-> "CMD_EXIT_MANUAL"])

-----------------------------------------------------------------------------
(* DEVICE_PHASE.                                                              *)

OnTheWayStates == {"PREPARING", "UNDOCKING", "WORKING", "RESUMING"}

\* (Mutant: whether or not the session is manual.)
entersManualScanAlways(ctx, phase) ==
    phase = "MAP_SCAN_BOUNDARY" /\ ctx.state \in OnTheWayStates \cup {"REMOTE_CONTROL"}

\* find_boundary while the session is manual: the remote panel takes over.
entersManualScan(ctx, phase) ==
    /\ phase = "MAP_SCAN_BOUNDARY"
    /\ ctx.mode = "remote"
    /\ ctx.state \in OnTheWayStates \cup {"REMOTE_CONTROL"}

\* The phases that wait for EDGE_START when the start gate is on.
gated(ctx, phase, gateRequired) ==
    /\ gateRequired
    /\ ~ctx.manualScanStarted
    /\ ctx.state = "REMOTE_CONTROL"
    /\ ctx.phase = "MAP_SCAN_BOUNDARY_MANUAL"
    /\ phase \in {"MAP_FOLLOW_BOUNDARY", "MAP_FOLLOW_BOUNDARY_MANUAL",
                  "MAP_BOUNDARY_DONE", "MAP_COMPLETING"}

\* edge_mapping means the manual phase once the session is manual.
MeantPhase(ctx, phase) ==
    IF phase = "MAP_FOLLOW_BOUNDARY" /\ ctx.mode = "remote"
    THEN "MAP_FOLLOW_BOUNDARY_MANUAL"
    ELSE phase

\* The rules after the gate, on the phase that is meant.
settlePhase(ctx, phase) ==
    CASE /\ phase = "MAP_FOLLOW_BOUNDARY_MANUAL"
         /\ ctx.state = "PAUSED"
         /\ ctx.canSwitchManual
         /\ ctx.phase = "MAP_FOLLOW_BOUNDARY" ->
           [ctx EXCEPT !.state = "REMOTE_CONTROL", !.mode = "remote",
                       !.phase = phase, !.error = Null,
                       !.resumeTo = SceneOr(ctx.resumeTo, Scene("WORKING", ctx.phase))]
      [] /\ phase = "MAP_FOLLOW_BOUNDARY_MANUAL"
         /\ ctx.mode = "remote"
         /\ ctx.state \in OnTheWayStates ->
           [ctx EXCEPT !.state = "REMOTE_CONTROL", !.phase = phase, !.error = Null,
                       !.resumeTo = FollowScene]
      [] phase = "MAP_BOUNDARY_DONE" /\ ctx.state = "REMOTE_CONTROL" ->
           [ctx EXCEPT !.state = "WORKING", !.mode = "auto", !.phase = phase,
                       !.resumeTo = NoScene, !.error = Null]
      [] phase = "MAP_COMPLETING" /\ ctx.state \in {"PAUSED", "RESUMING"} ->
           [ctx EXCEPT !.state = "WORKING", !.phase = phase, !.resumeTo = NoScene,
                       !.error = Null]
      [] OTHER -> baseReducer(ctx, [type |-> "DEVICE_PHASE", phase |-> phase])

mappingPhase(ctx, phase, gateRequired) ==
    CASE entersManualScan(ctx, phase) ->
           [ctx EXCEPT !.state = "REMOTE_CONTROL", !.phase = "MAP_SCAN_BOUNDARY_MANUAL",
                       !.resumeTo = FollowScene, !.error = Null,
                       !.manualScanStarted = FALSE]
      [] gated(ctx, phase, gateRequired) -> ctx
      [] OTHER -> settlePhase(ctx, MeantPhase(ctx, phase))

-----------------------------------------------------------------------------

reduceRecoverableError(ctx, event) ==
    IF ctx.state # "WORKING" THEN baseReducer(ctx, event)
    ELSE [ctx EXCEPT !.error = "recoverable",
                     !.phase = IF ctx.phase = "MAP_FOLLOW_BOUNDARY"
                               THEN "MAP_FOLLOW_BOUNDARY_FAILED"
                               ELSE "MAP_SCAN_BOUNDARY_FAILED"]

mappingReducer(ctx, event, gateRequired) ==
    CASE event.type = "DEVICE_WORK_STATUS" -> reduceWorkStatus(ctx, event)
      [] event.type \in {"LINK_DOWN", "LINK_NET_LOST"} -> LinkLost(ctx, event)
      [] event.type = "RECONCILE_STARTED" -> reconcileStarted(ctx)
      [] event.type = "RECONCILE_PAUSED" -> reconcilePaused(ctx)
      [] event.type = "CMD_ADD_LAWN" -> addLawn(ctx)
      [] event.type = "CMD_MANUAL_SCAN_STARTED" -> startManualScan(ctx)
      [] event.type = "CMD_SWITCH_MANUAL" -> switchManual(ctx)
      [] event.type = "CMD_EXIT_MANUAL" -> exitManual(ctx)
      [] event.type = "DEVICE_PHASE" -> mappingPhase(ctx, event.phase, gateRequired)
      [] event.type = "DEVICE_ERROR" /\ event.recoverable ->
           reduceRecoverableError(ctx, event)
      [] OTHER -> baseReducer(ctx, event)

-----------------------------------------------------------------------------
(* What the reducer keeps of a context, whatever it is sent.                  *)

\* A scene to resume is kept exactly while the session is interrupted.  No state
\* that runs or has ended carries one over (the next interruption would prefer
\* it to its own scene: `ctx.resumeTo ?? snapshot'); remote control always has
\* one to return to; and an interrupted session without one can only come from a
\* recharge that started on the idle dock.
HasNoScene == {"IDLE", "PREPARING", "UNDOCKING", "WORKING", Undefined} \cup TERMINAL_TASK_STATES
ResumeTargetsOf(c) ==
    /\ c.state \in HasNoScene => c.resumeTo = NoScene
    /\ c.state = "REMOTE_CONTROL" => c.resumeTo # NoScene
    /\ c.state \in {"PAUSED", "RESUMING"} /\ c.resumeTo = NoScene => c.phase = "charged"
    /\ c.state = "RECHARGING" /\ c.resumeTo = NoScene => c.phase \in {"charging", "charged"}

\* While the stop button is pressed the session is ESTOPPED.
EstopLatchedOf(c) == c.estopActive => c.state = "ESTOPPED"

\* Remote control is entered with the user's intent recorded.
RemoteIsManualOf(c) == c.state = "REMOTE_CONTROL" => c.mode = "remote"
=============================================================================
