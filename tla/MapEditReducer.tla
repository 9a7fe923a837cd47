--------------------------- MODULE MapEditReducer ---------------------------
(* The session of the map editor, MapEditSession.ts: loading, editing, saving *)
(* and retrying.  The fields of TaskContext that it never sets are left out,  *)
(* as is the map's id.                                                        *)
EXTENDS TaskFSM

MapEditPhase == { "EDIT_LOADING", "EDIT_EDITING", "EDIT_SAVING", "EDIT_SAVE_FAILED" }

EditErrors == { Null, "recoverable", "fatal" }

initialMapEditState == [state |-> "IDLE", phase |-> Null, dirty |-> FALSE, error |-> Null]

In(ctx, phase) == ctx.state = "WORKING" /\ ctx.phase = phase

\* (Mutant: a save counts as done when it is sent.)
ConfirmedIsDone(ctx) ==
    IF ctx.state = "WORKING" /\ ctx.phase \in {"EDIT_EDITING", "EDIT_SAVE_FAILED"}
    THEN [ctx EXCEPT !.state = "COMPLETED", !.dirty = FALSE] ELSE ctx

CmdEditConfirm(ctx) ==
    IF ctx.state = "WORKING" /\ ctx.phase \in {"EDIT_EDITING", "EDIT_SAVE_FAILED"}
    THEN [ctx EXCEPT !.phase = "EDIT_SAVING"] ELSE ctx

\* An error that can be recovered from counts as a failed save, wherever it comes.
EditError(ctx, recoverable) ==
    IF recoverable
    THEN [ctx EXCEPT !.phase = "EDIT_SAVE_FAILED", !.error = "recoverable"]
    ELSE [ctx EXCEPT !.state = "ERRORED", !.error = "fatal"]

Opened(ctx) ==
    IF ctx.state # "IDLE" THEN ctx
    ELSE [state |-> "WORKING", phase |-> "EDIT_LOADING", dirty |-> FALSE, error |-> Null]

DeviceLoaded(ctx) ==
    IF In(ctx, "EDIT_LOADING") THEN [ctx EXCEPT !.phase = "EDIT_EDITING", !.dirty = FALSE] ELSE ctx

CmdMarkDirty(ctx, dirty) ==
    IF In(ctx, "EDIT_EDITING") THEN [ctx EXCEPT !.dirty = dirty] ELSE ctx

DeviceSaveOk(ctx) ==
    IF In(ctx, "EDIT_SAVING")
    THEN [ctx EXCEPT !.state = "COMPLETED", !.dirty = FALSE, !.error = Null] ELSE ctx

DeviceSaveFailed(ctx, recoverable) ==
    IF In(ctx, "EDIT_SAVING")
    THEN [ctx EXCEPT !.phase = "EDIT_SAVE_FAILED",
                     !.error = IF recoverable THEN "recoverable" ELSE "fatal"]
    ELSE ctx

\* The events of TaskFSM that mean nothing here.
IgnoredEvents ==
    { "DEVICE_AREA", "DEVICE_BATTERY", "DEVICE_CAPABILITIES", "DEVICE_DOCKED", "DEVICE_ESTOP",
      "DEVICE_LOW_BATTERY", "DEVICE_NOTICE", "DEVICE_PHASE", "DEVICE_UNDOCKED",
      "DEVICE_WORK_STATUS", "LINK_BLE_DOWN", "LINK_BLE_UP", "LINK_NET_LOST", "LINK_WS_DOWN",
      "LINK_WS_UP", "CMD_ADD_NEW_AREA", "CMD_DISMISS_NOTICE", "CMD_EXIT_MANUAL", "CMD_PAUSE",
      "CMD_RESUME", "CMD_RETURN_DOCK", "CMD_SWITCH_MANUAL", "CMD_START_COVERAGE", "TIMEOUT" }

\* What an event does to a session in progress.  An event that is none of these becomes
\* the context (nobody sends one to an edit session).
InEditing(ctx, event) ==
    CASE event.type \in {"CMD_LOAD", "CMD_START"} -> Opened(ctx)
      [] event.type = "DEVICE_LOADED"      -> DeviceLoaded(ctx)
      [] event.type = "CMD_MARK_DIRTY"     -> CmdMarkDirty(ctx, event.dirty)
      [] event.type = "CMD_CONFIRM"        -> CmdEditConfirm(ctx)
      [] event.type = "DEVICE_SAVE_OK"     -> DeviceSaveOk(ctx)
      [] event.type = "DEVICE_SAVE_FAILED" -> DeviceSaveFailed(ctx, event.recoverable)
      [] event.type = "DEVICE_ERROR"       -> EditError(ctx, event.recoverable)
      [] event.type = "CMD_CANCEL"         ->
           IF ctx.state = "IDLE" THEN ctx ELSE [ctx EXCEPT !.state = "CANCELLED"]
      [] event.type \in IgnoredEvents -> ctx
      [] OTHER -> event

mapEditReducer(ctx, event) ==
    CASE event.type = "CMD_RESET" ->
           IF ctx.state \in TERMINAL_TASK_STATES THEN initialMapEditState ELSE ctx
      [] event.type # "CMD_RESET" /\ ctx.state \in TERMINAL_TASK_STATES -> ctx
      [] OTHER -> InEditing(ctx, event)
=============================================================================
