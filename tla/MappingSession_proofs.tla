------------------------ MODULE MappingSession_proofs ------------------------
(* What is proved about a mapping session under any sequence of events: its    *)
(* type, the three invariants that are inductive together, the four action     *)
(* properties, and that it implements TaskLifecycle.  Every step is one run of *)
(* the reducer, so all of it rests on MappingReducerSound.                     *)
EXTENDS MappingSession, MappingReducer_proofs

\* The strengthened invariant: the three invariants of the context, with its type,
\* and that a mapping session never returns to the dock.
GoodContext == Good(ctx)

\* The actions of Next are the reducer on an event, from six sets that make up the
\* events of a session.
LEMMA NextIsReducer ==
    ASSUME Next
    PROVE  \E event \in MappingEvent : ctx' = mappingReducer(ctx, event, GateRequired)
<1>. CommandEvents \cup DeviceEvents \cup ReconcileEvents \cup LinkEvents \cup
     TimeoutEvents \cup SimulatorEvents \subseteq MappingEvent
  BY DEF MappingEvent
<1>. HIDE DEF MappingEvent
<1>. QED
  BY DEF Next, UserCommand, DeviceReport, TaskReconcile, LinkLoss, CommandTimeout,
         SimulatorOnly, Receive

\* So every step of the specification leads from a good context to a good one, by
\* one of the moves that a session may make.
LEMMA StepMoves ==
    ASSUME GoodContext, Next
    PROVE  GoodContext' /\ Moves(ctx, ctx')
<1>1. PICK event \in MappingEvent : ctx' = mappingReducer(ctx, event, GateRequired)
  BY NextIsReducer
<1>2. Sound(ctx, mappingReducer(ctx, event, GateRequired))
  BY MappingReducerSound, GateAssumption DEF GoodContext, Good
<1>. QED BY <1>1, <1>2 DEF Sound, GoodContext, Good

\* The session starts with the simulator's context.
LEMMA InitGood == Init => GoodContext
  BY InitialGood DEF Init, GoodContext

\* The strengthened invariant holds of every session.
THEOREM SessionGood == Spec => []GoodContext
<1>1. GoodContext /\ [Next]_ctx => GoodContext'
  BY StepMoves DEF GoodContext
<1>. QED BY InitGood, <1>1, PTL DEF Spec

\* The context keeps its type: what the reducer returns is a context, also when the
\* default branch has put an event in its place.
THEOREM SessionTyped == Spec => []TypeOK
<1>1. GoodContext => TypeOK
  BY DEF GoodContext, Good, TypeOK
<1>. QED BY <1>1, SessionGood, PTL

\* Every scene kept for later is the one of the running interruption.
THEOREM SessionResumeTargets == Spec => []ResumeTargets
<1>1. GoodContext => ResumeTargets
  BY DEF GoodContext, Good, Safe, ResumeTargets
<1>. QED BY <1>1, SessionGood, PTL

\* While the stop button is pressed the session is ESTOPPED.
THEOREM SessionEstopLatched == Spec => []EstopLatched
<1>1. GoodContext => EstopLatched
  BY DEF GoodContext, Good, Safe, EstopLatched
<1>. QED BY <1>1, SessionGood, PTL

\* Remote control is entered with the user's intent recorded.
THEOREM SessionRemoteIsManual == Spec => []RemoteIsManual
<1>1. GoodContext => RemoteIsManual
  BY DEF GoodContext, Good, Safe, RemoteIsManual
<1>. QED BY <1>1, SessionGood, PTL

-----------------------------------------------------------------------------
(* The action properties.                                                     *)

\* ESTOPPED is left only by a reset after the release, to the scene it interrupted.
THEOREM SessionEstopLeftByReset == Spec => EstopLeftByReset
<1>1. GoodContext /\ [Next]_ctx =>
        [ ctx.state = "ESTOPPED" /\ ctx'.state # "ESTOPPED" =>
            /\ ~ctx.estopActive
            /\ IF ctx.resumeTo = NoScene
               THEN ctx'.state = "IDLE"
               ELSE ctx'.state = "RESUMING" /\ ctx'.resumeTo = ctx.resumeTo ]_ctx
  BY StepMoves DEF Moves, EstopKept
<1>. QED BY <1>1, SessionGood, PTL DEF Spec, EstopLeftByReset

\* An ended session never changes again, but for the reset to a fresh one.
THEOREM SessionTerminalIsFinal == Spec => TerminalIsFinal
<1>1. GoodContext /\ [Next]_ctx =>
        [ ctx.state \in TERMINAL_TASK_STATES => ctx' \in {ctx, createInitialTaskContext} ]_ctx
  BY StepMoves DEF Moves, EndKept
<1>. QED BY <1>1, SessionGood, PTL DEF Spec, TerminalIsFinal

\* Whatever interrupts a working session saves the phase it was in.
THEOREM SessionSceneSaved == Spec => SceneSaved
<1>1. GoodContext /\ [Next]_ctx =>
        [ ctx.state = "WORKING" /\ ctx'.state \in {"PAUSED", "RECHARGING", "ESTOPPED"} =>
            ctx'.resumeTo = Scene("WORKING", ctx.phase) ]_ctx
  BY StepMoves DEF Moves, SceneKept
<1>. QED BY <1>1, SessionGood, PTL DEF Spec, SceneSaved

\* A resumed session names a phase, whichever frame confirmed the resume.
THEOREM SessionResumedNamesPhase == Spec => ResumedNamesPhase
<1>1. GoodContext /\ [Next]_ctx =>
        [ ctx.state = "RESUMING" /\ ctx'.state = "WORKING" => ctx'.phase # Null ]_ctx
  BY StepMoves DEF Moves, PhaseNamed
<1>. QED BY <1>1, SessionGood, PTL DEF Spec, ResumedNamesPhase

-----------------------------------------------------------------------------
(* The session implements TaskLifecycle.                                      *)

\* The stage of a session, state by state.
LEMMA StageOfState ==
    ASSUME ctx \in MappingContext
    PROVE  /\ ctx.state = "IDLE" <=> Stage = "idle"
           /\ ctx.state \in Active <=> Stage = "active"
           /\ ctx.state \in Interrupted <=> Stage = "interrupted"
           /\ ctx.state = "ESTOPPED" <=> Stage = "stopped"
           /\ ctx.state \in TERMINAL_TASK_STATES <=> Stage = "ended"
           /\ ctx.state = Undefined <=> Stage = "lost"
           /\ Stage \in Lifecycle!Stages
  BY DEF Stage, Active, Interrupted, TERMINAL_TASK_STATES, TASK_STATES, MappingContext,
         Undefined, Lifecycle!Stages

\* The same of the state after a step.
LEMMA StageOfNextState ==
    ASSUME ctx' \in MappingContext
    PROVE  /\ ctx'.state = "IDLE" <=> Stage' = "idle"
           /\ ctx'.state \in Active <=> Stage' = "active"
           /\ ctx'.state \in Interrupted <=> Stage' = "interrupted"
           /\ ctx'.state = "ESTOPPED" <=> Stage' = "stopped"
           /\ ctx'.state \in TERMINAL_TASK_STATES <=> Stage' = "ended"
           /\ ctx'.state = Undefined <=> Stage' = "lost"
           /\ Stage' \in Lifecycle!Stages
  BY DEF Stage, Active, Interrupted, TERMINAL_TASK_STATES, TASK_STATES, MappingContext,
         Undefined, Lifecycle!Stages

\* Every move of the session is a step of the task's life, or none of them: each step
\* has its move.
LEMMA MoveIsLifecycleStep ==
    ASSUME ctx \in MappingContext, ctx' \in MappingContext, LifeStep(ctx, ctx')
    PROVE  [Lifecycle!Next]_(Lifecycle!vars)
<1>. USE StageOfState, StageOfNextState DEF Kept, TERMINAL_TASK_STATES
<1>. ctx.estopActive \in BOOLEAN /\ ctx'.estopActive \in BOOLEAN
  BY DEF MappingContext
<1>1. CASE Stops(ctx, ctx')
  <2>1. Lifecycle!Stop
    BY <1>1 DEF Stops, Active, Interrupted, Lifecycle!Stop
  <2>. QED BY <2>1 DEF Lifecycle!Next
<1>2. CASE Releases(ctx, ctx')
  <2>1. Lifecycle!Release
    BY <1>2 DEF Releases, Lifecycle!Release
  <2>. QED BY <2>1 DEF Lifecycle!Next
<1>3. CASE Loses(ctx, ctx')
  <2>1. Lifecycle!Lose
    BY <1>3 DEF Loses, Lifecycle!Lose
  <2>. QED BY <2>1 DEF Lifecycle!Next
<1>4. CASE ctx'.estopActive = ctx.estopActive /\ Runs(ctx, ctx')
  <2>1. Lifecycle!Run
    BY <1>4 DEF Runs, Lifecycle!Run
  <2>. QED BY <2>1 DEF Lifecycle!Next
<1>5. CASE ctx'.estopActive = ctx.estopActive /\ Interrupts(ctx, ctx')
  <2>1. Lifecycle!Interrupt
    BY <1>5 DEF Interrupts, Lifecycle!Interrupt
  <2>. QED BY <2>1 DEF Lifecycle!Next
<1>6. CASE ctx'.estopActive = ctx.estopActive /\ Shifts(ctx, ctx')
  <2>1. Lifecycle!Shift
    BY <1>6 DEF Shifts, Lifecycle!Shift
  <2>. QED BY <2>1 DEF Lifecycle!Next
<1>7. CASE ctx'.estopActive = ctx.estopActive /\ Confirms(ctx, ctx')
  <2>1. Lifecycle!Confirm
    BY <1>7 DEF Confirms, Lifecycle!Confirm
  <2>. QED BY <2>1 DEF Lifecycle!Next
<1>8. CASE ctx'.estopActive = ctx.estopActive /\ Ends(ctx, ctx')
  <2>1. Lifecycle!End
    BY <1>8 DEF Ends, Lifecycle!End
  <2>. QED BY <2>1 DEF Lifecycle!Next
<1>9. CASE ctx'.estopActive = ctx.estopActive /\ Acknowledges(ctx, ctx')
  <2>1. Lifecycle!Acknowledge
    BY <1>9 DEF Acknowledges, Lifecycle!Acknowledge
  <2>. QED BY <2>1 DEF Lifecycle!Next
<1>10. CASE ctx'.estopActive = ctx.estopActive /\ Stays(ctx, ctx')
  <2>1. Stage' = Stage
    BY <1>10 DEF Stays, Stage
  <2>. QED BY <1>10, <2>1 DEF Stays, Lifecycle!vars
<1>. QED BY <1>1, <1>2, <1>3, <1>4, <1>5, <1>6, <1>7, <1>8, <1>9, <1>10 DEF LifeStep

\* The reducer, with all its phases, lives the life of one task.
THEOREM SessionLivesOneTask == Spec => LivesOneTask
<1>1. Init => Lifecycle!Init
  <2>. SUFFICES ASSUME Init PROVE Lifecycle!Init
    OBVIOUS
  <2>1. /\ ctx.state = "IDLE"
        /\ ctx.estopActive = FALSE
        /\ ctx.resumeTo = NoScene
    BY DEF Init, simulatorInitialContext, createInitialTaskContext, applyCapabilities
  <2>2. Stage = "idle"
    BY <2>1, InitGood, StageOfState DEF GoodContext, Good
  <2>. QED BY <2>1, <2>2 DEF Lifecycle!Init
<1>2. GoodContext /\ [Next]_ctx => [Lifecycle!Next]_(Lifecycle!vars)
  <2>1. CASE GoodContext /\ Next
    BY <2>1, StepMoves, MoveIsLifecycleStep DEF GoodContext, Good, Moves
  <2>2. CASE UNCHANGED ctx
    BY <2>2 DEF Lifecycle!vars, Stage
  <2>. QED BY <2>1, <2>2
<1>. QED BY <1>1, <1>2, SessionGood, PTL DEF Spec, LivesOneTask, Lifecycle!Spec
=============================================================================
