---------------------------- MODULE MappingSession ----------------------------
(* A mapping session under any sequence of events: what the simulator's event *)
(* endpoint, its scenarios and its device frames can make of the context.     *)
EXTENDS MappingReducer

CONSTANT
    \* manualScanStartGateRequired: FALSE in the simulator, TRUE by default.
    GateRequired

ASSUME GateAssumption == GateRequired \in BOOLEAN

VARIABLE ctx

Receive(event) == ctx' = mappingReducer(ctx, event, GateRequired)

Init == ctx = simulatorInitialContext

UserCommand    == \E event \in CommandEvents   : Receive(event)
DeviceReport   == \E event \in DeviceEvents    : Receive(event)
TaskReconcile  == \E event \in ReconcileEvents : Receive(event)
LinkLoss       == \E event \in LinkEvents      : Receive(event)
CommandTimeout == \E event \in TimeoutEvents   : Receive(event)
SimulatorOnly  == \E event \in SimulatorEvents : Receive(event)

Next ==
    \/ UserCommand
    \/ DeviceReport
    \/ TaskReconcile
    \/ LinkLoss
    \/ CommandTimeout
    \/ SimulatorOnly

Spec == Init /\ [][Next]_ctx

-----------------------------------------------------------------------------

\* The context keeps the shape of its type (and of the one an event leaves when
\* it takes the context's place).
TypeOK == ctx \in MappingContext

\* Every scene kept for later is the one of the running interruption.
ResumeTargets == ResumeTargetsOf(ctx)

\* The stop button stays in charge: while it is pressed the session is ESTOPPED,
\* whatever commands, frames and link losses arrive.
EstopLatched == EstopLatchedOf(ctx)

\* Remote control is only entered with the intent recorded: otherwise the device's
\* next edge_mapping would be read as the automatic phase under the user's hands.
RemoteIsManual == RemoteIsManualOf(ctx)

\* ESTOPPED is left only by a reset after the release (two separate steps), to
\* the interrupted scene when there is one and to IDLE otherwise.
EstopLeftByReset ==
    [][ ctx.state = "ESTOPPED" /\ ctx'.state # "ESTOPPED" =>
          /\ ~ctx.estopActive
          /\ IF ctx.resumeTo = NoScene
             THEN ctx'.state = "IDLE"
             ELSE ctx'.state = "RESUMING" /\ ctx'.resumeTo = ctx.resumeTo ]_ctx

\* An ended session never changes again, but for the reset to a fresh one.
TerminalIsFinal ==
    [][ ctx.state \in TERMINAL_TASK_STATES => ctx' \in {ctx, createInitialTaskContext} ]_ctx

\* Whatever interrupts a working session (pause, recharge, emergency stop, lost
\* network, task list) saves the phase it was in, never an older one.
SceneSaved ==
    [][ ctx.state = "WORKING" /\ ctx'.state \in {"PAUSED", "RECHARGING", "ESTOPPED"} =>
          ctx'.resumeTo = Scene("WORKING", ctx.phase) ]_ctx

\* A resumed session always names a phase, whichever frame confirmed the resume:
\* with none, the app has no button to show (comment at MappingSession.ts:563).
ResumedNamesPhase ==
    [][ ctx.state = "RESUMING" /\ ctx'.state = "WORKING" => ctx'.phase # Null ]_ctx

-----------------------------------------------------------------------------
(* The life of the task, seen in the session's state.                        *)

Stage ==
    CASE ctx.state = "IDLE" -> "idle"
      [] ctx.state \in {"PREPARING", "UNDOCKING", "WORKING", "RETURNING_DOCK"} -> "active"
      [] ctx.state \in {"PAUSED", "REMOTE_CONTROL", "RECHARGING", "RESUMING"} -> "interrupted"
      [] ctx.state = "ESTOPPED" -> "stopped"
      [] ctx.state \in TERMINAL_TASK_STATES -> "ended"
      [] OTHER -> "lost"

Lifecycle ==
    INSTANCE TaskLifecycle WITH
        stage  <- Stage,
        button <- ctx.estopActive,
        kept   <- ctx.resumeTo # NoScene

\* The reducer, with all its phases, keeps the promise to the operator: it lives the
\* life of one task and takes none of the steps that life does not have.
LivesOneTask == Lifecycle!Spec

-----------------------------------------------------------------------------
(* A statement of the source's comments that the code does not keep.          *)

\* simFsmTypes.ts:39: the simulator's own events fall through to the default
\* branch of the reducer, a no-op.
SimulatorOnlyIsNoOp == [][~SimulatorOnly]_ctx
=============================================================================
