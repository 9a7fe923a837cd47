--------------------------- MODULE ScenarioEngine ---------------------------
(* The scenario engine (sim/scenarioEngine.ts): one script at a time, run step *)
(* by step against the robot while operators pause, resume, stop and reset,   *)
(* and while the app sends the robot commands that pause and resume the       *)
(* script too.                                                                *)
(*                                                                            *)
(* The engine is one chain of awaits on one thread.  Between two delays it    *)
(* runs on without giving way: an await of something that is already there    *)
(* lets no request in.  So the actions of the operators are enabled in        *)
(* `Yielded' only: when nothing runs, or in one of the 50 ms delays.          *)
(*                                                                            *)
(* A script is a record [fixtures, dataset, setup, steps]; of the steps the   *)
(* ones that reach the robot stand for all that do their work at once (emit;  *)
(* notify, chaos, fault, record ... differ in whom they tell).  The robot is  *)
(* its mapping session; MappingRobot has the rest.                            *)
EXTENDS MappingReducer, Naturals, Sequences

CONSTANTS
    Scripts,        \* the scripts by name: [Names -> script]
    Bodies,         \* the lists of steps: of the scripts, and of their loops
    Endless,        \* names of the scripts that hold a loop without an end
    Datasets,       \* the datasets the map stream knows
    AppEvents       \* what the app or the event endpoint sends meanwhile

\* What the parser of the scripts gives for a step: an event the session knows, a time
\* that is not negative, a loop over a list of steps.
IsStep(s) ==
    CASE s.op = "emit"              -> s.event \in MappingEvent
      [] s.op \in {"wait", "until"} -> s.slices \in Nat
      [] s.op = "loop"              -> s.rounds \in Nat /\ s.steps \in Bodies
      [] OTHER                      -> s.op \in {"expect", "include"}

ASSUME ScriptAssumption ==
    /\ Endless \subseteq DOMAIN Scripts
    /\ Null \notin DOMAIN Scripts
    /\ AppEvents \subseteq MappingEvent
    /\ \A name \in DOMAIN Scripts :
         /\ Scripts[name].steps \in Bodies
         /\ Scripts[name].setup.state \in TASK_STATES \cup {Null}
         /\ Scripts[name].setup.phase \in MappingPhase \cup {Null}
    /\ \A body \in Bodies : \A i \in DOMAIN body : IsStep(body[i])

VARIABLES
    robot,          \* the context of the mapping session
    dataset,        \* the dataset of the map stream
    running,        \* name of the script, or Null
    abortRequested,
    paused,
    frames,         \* what is being executed, innermost first
    place,          \* where the chain of awaits stands
    left,           \* slices (or polls) left of the wait step
    overrides,      \* FixtureLoader.overrideStack, innermost first
    outcome         \* how the last run ended

control == << running, abortRequested, paused >>
vars == << robot, dataset, control, frames, place, left, overrides, outcome >>

\* The delays: of a checkpoint, of a wait step that is held, and of a wait step
\* that counts.
Delays == { "checkpointDelay", "heldDelay", "slice" }
Yielded == place \in Delays \cup {"idle"}

\* `maxIterations' omitted, or not positive.
Forever == 0

\* A script, or the steps of a loop; `rounds' still to go (this one included).
Frame(script, steps, rounds) ==
    [script |-> script, steps |-> steps, pc |-> 1, rounds |-> rounds]

scriptFrame(name) == Frame(name, Scripts[name].steps, 1)

\* Nothing is pushed for a script without fixtures.
pushOverrides(name) ==
    IF Scripts[name].fixtures = {} THEN overrides
    ELSE << Scripts[name].fixtures >> \o overrides

popOverrides(frame) ==
    IF frame.script = Null \/ Scripts[frame.script].fixtures = {} THEN overrides
    ELSE Tail(overrides)

includeStack == { frames[i].script : i \in DOMAIN frames }

top == Head(frames)
step == top.steps[top.pc]
Advanced == << [top EXCEPT !.pc = @ + 1] >> \o Tail(frames)

Init ==
    /\ robot = simulatorInitialContext
    /\ dataset \in Datasets
    /\ running = Null
    /\ abortRequested = FALSE
    /\ paused = FALSE
    /\ frames = << >>
    /\ place = "idle"
    /\ left = 0
    /\ overrides = << >>
    /\ outcome = "none"

-----------------------------------------------------------------------------
(* Starting and ending a run.                                                *)

\* applySetup: a raw override of some fields; the scene to resume, the stop button
\* and the manual scan stay as they were.
applySetup(ctx, setup) ==
    IF setup.state = Null THEN ctx
    ELSE [ctx EXCEPT !.state = setup.state, !.phase = setup.phase, !.mode = "auto"]

\* executeScenario up to its first step: fixtures, dataset, setup.
enterable(name) == Scripts[name].dataset \in Datasets \cup {Null}

Enter(name) ==
    /\ frames' = << scriptFrame(name) >> \o (IF frames = << >> THEN << >> ELSE Advanced)
    /\ overrides' = pushOverrides(name)
    /\ dataset' = IF Scripts[name].dataset = Null THEN dataset ELSE Scripts[name].dataset
    /\ robot' = applySetup(robot, Scripts[name].setup)
    /\ place' = "checkpoint"

\* (Mutant: the fixtures of a run that fails stay.)
EndKeepsOverrides(result) ==
    /\ running' = Null
    /\ abortRequested' = FALSE
    /\ paused' = FALSE
    /\ frames' = << >>
    /\ place' = "idle"
    /\ left' = 0
    /\ overrides' = IF result = "failed" THEN overrides ELSE << >>
    /\ outcome' = result

\* (Mutant: a run that fails is not marked as over.)
EndStillRunning(result) ==
    /\ running' = IF result = "failed" THEN running ELSE Null
    /\ abortRequested' = FALSE
    /\ paused' = FALSE
    /\ frames' = << >>
    /\ place' = "idle"
    /\ left' = 0
    /\ overrides' = << >>
    /\ outcome' = result

\* The end of the run, by its last step or by an exception: every withOverrides on
\* the way out pops what it pushed.
End(result) ==
    /\ running' = Null
    /\ abortRequested' = FALSE
    /\ paused' = FALSE
    /\ frames' = << >>
    /\ place' = "idle"
    /\ left' = 0
    /\ overrides' = << >>
    /\ outcome' = result

Throw(result) == End(result) /\ UNCHANGED << robot, dataset >>

\* A request while a script runs is refused and changes nothing.
Run(name) ==
    /\ Yielded
    /\ running = Null
    /\ IF enterable(name)
       THEN /\ Enter(name)
            /\ running' = name
            /\ abortRequested' = FALSE
            /\ paused' = FALSE
            /\ UNCHANGED << left, outcome >>
       ELSE Throw("failed")

-----------------------------------------------------------------------------
(* The chain of awaits.                                                      *)

\* (Mutant: a script that is paused waits for the resume alone.)
CheckpointDeaf ==
    /\ place = "checkpoint"
    /\ top.pc \in DOMAIN top.steps
    /\ \/ abortRequested /\ ~paused /\ Throw("stopped")
       \/ /\ ~abortRequested \/ paused
          /\ place' = IF paused THEN "checkpointDelay" ELSE "step"
          /\ UNCHANGED << robot, dataset, control, frames, left, overrides, outcome >>

\* Before a step, before every round of a loop and every step of it: a stop, then
\* a pause.
Checkpoint ==
    /\ place = "checkpoint"
    /\ top.pc \in DOMAIN top.steps
    /\ \/ abortRequested /\ Throw("stopped")
       \/ /\ ~abortRequested
          /\ place' = IF paused THEN "checkpointDelay" ELSE "step"
          /\ UNCHANGED << robot, dataset, control, frames, left, overrides, outcome >>

\* (Mutant: the steps inside a loop are not checked.)
AfterStepUnchecked(stack) == IF Head(stack).script = Null THEN "step" ELSE "checkpoint"

\* Where the chain goes on once a step is done.
AfterStep(stack) == "checkpoint"

\* dispatchRaw: the control intent is told before the session looks at the event,
\* whether or not it will accept it.
Dispatch(event) ==
    /\ robot' = mappingReducer(robot, event, FALSE)
    /\ paused' = CASE event.type = "CMD_PAUSE"  -> TRUE
                   [] event.type = "CMD_RESUME" -> FALSE
                   [] OTHER                     -> paused

\* A step that does its work at once.
EmitStep ==
    /\ step.op = "emit"
    /\ Dispatch(step.event)
    /\ frames' = Advanced
    /\ place' = AfterStep(frames)
    /\ UNCHANGED << dataset, running, abortRequested, left, overrides, outcome >>

ExpectStep ==
    /\ step.op = "expect"
    /\ IF robot.state = step.state
       THEN /\ frames' = Advanced
            /\ place' = AfterStep(frames)
            /\ UNCHANGED << robot, dataset, control, left, overrides, outcome >>
       ELSE Throw("failed")

WaitStep ==
    /\ step.op \in {"wait", "until"}
    /\ left' = step.slices
    /\ place' = "waiting"
    /\ UNCHANGED << robot, dataset, control, frames, overrides, outcome >>

\* (Mutant: the cap is not looked at.)
LoopStepUncapped ==
    /\ step.op = "loop"
    /\ frames' = << Frame(Null, step.steps, Forever) >> \o Advanced
    /\ place' = "checkpoint"
    /\ UNCHANGED << robot, dataset, control, left, overrides, outcome >>

LoopStep ==
    /\ step.op = "loop"
    /\ frames' = << Frame(Null, step.steps, step.rounds) >> \o Advanced
    /\ place' = "checkpoint"
    /\ UNCHANGED << robot, dataset, control, left, overrides, outcome >>

\* A script that is already on its way is not entered again.
IncludeStep ==
    /\ step.op = "include"
    /\ IF step.name \in DOMAIN Scripts \ includeStack /\ enterable(step.name)
       THEN Enter(step.name) /\ UNCHANGED << control, left, outcome >>
       ELSE Throw("failed")

Step ==
    /\ place = "step"
    /\ top.pc \in DOMAIN top.steps
    /\ EmitStep \/ ExpectStep \/ WaitStep \/ LoopStep \/ IncludeStep

\* The steps of the frame are done: another round, or back to the frame around it
\* (the fixtures of a script go with it), or the end of the run.
FrameEnd ==
    /\ place \in {"checkpoint", "step"}
    /\ top.pc \notin DOMAIN top.steps
    /\ IF top.rounds # 1
       THEN /\ frames' = << [top EXCEPT !.pc = 1,
                                        !.rounds = IF @ = Forever THEN @ ELSE @ - 1] >> \o Tail(frames)
            /\ place' = "checkpoint"
            /\ UNCHANGED << robot, dataset, control, left, overrides, outcome >>
       ELSE IF Len(frames) = 1
            THEN Throw("completed")
            ELSE /\ frames' = Tail(frames)
                 /\ overrides' = popOverrides(top)
                 /\ place' = "checkpoint"
                 /\ UNCHANGED << robot, dataset, control, left, outcome >>

WaitDone ==
    /\ frames' = Advanced
    /\ place' = AfterStep(frames)
    /\ left' = 0
    /\ UNCHANGED << robot, dataset, control, overrides, outcome >>

Sleep(delay) == place' = delay /\ UNCHANGED << robot, dataset, control, frames, left, overrides, outcome >>

\* executeWait with a duration: the stop and the pause are looked at before every
\* slice, not after the last one.
WaitSlice ==
    /\ place = "waiting"
    /\ step.op = "wait"
    /\ \/ left = 0 /\ WaitDone
       \/ left > 0 /\ abortRequested /\ Throw("stopped")
       \/ left > 0 /\ ~abortRequested /\ paused /\ Sleep("heldDelay")
       \/ left > 0 /\ ~abortRequested /\ ~paused /\ Sleep("slice")

\* executeWait with `until': the time is over before anything else is looked at.
WaitPoll ==
    /\ place = "waiting"
    /\ step.op = "until"
    /\ \/ left = 0 /\ Throw("timeout")
       \/ left > 0 /\ abortRequested /\ Throw("stopped")
       \/ left > 0 /\ ~abortRequested /\ paused /\ Sleep("heldDelay")
       \/ /\ left > 0 /\ ~abortRequested /\ ~paused
          /\ IF robot.state = step.state THEN WaitDone ELSE Sleep("slice")

\* The timer of a delay.
Wake ==
    /\ place \in Delays
    /\ place' = IF place = "checkpointDelay" THEN "checkpoint" ELSE "waiting"
    /\ left' = IF place = "slice" THEN left - 1 ELSE left
    /\ UNCHANGED << robot, dataset, control, frames, overrides, outcome >>

Engine == Checkpoint \/ Step \/ FrameEnd \/ WaitSlice \/ WaitPoll \/ Wake

-----------------------------------------------------------------------------
(* The operators and the app.                                                *)

chain == << frames, place, left, overrides, outcome >>

Pause ==
    /\ Yielded
    /\ paused' = TRUE
    /\ UNCHANGED << robot, dataset, running, abortRequested, chain >>

Resume ==
    /\ Yielded
    /\ paused' = FALSE
    /\ UNCHANGED << robot, dataset, running, abortRequested, chain >>

\* POST /sim/scenario/stop: the engine is told to stop, and the robot is reset if a
\* script was running; the chain of awaits has still to find out.
Stop ==
    /\ Yielded
    /\ abortRequested' = TRUE
    /\ paused' = FALSE
    /\ robot' = IF running = Null THEN robot ELSE simulatorInitialContext
    /\ UNCHANGED << dataset, running, chain >>

\* POST /sim/reset: the script is not stopped.
Reset ==
    /\ Yielded
    /\ robot' = simulatorInitialContext
    /\ UNCHANGED << dataset, control, chain >>

AppSends(event) ==
    /\ Yielded
    /\ Dispatch(event)
    /\ UNCHANGED << dataset, running, abortRequested, chain >>

\* POST /sim/dataset.
SwitchDataset(name) ==
    /\ Yielded
    /\ dataset' = name
    /\ UNCHANGED << robot, control, chain >>

Operator ==
    \/ Pause
    \/ Resume
    \/ Stop
    \/ Reset
    \/ \E name \in DOMAIN Scripts : Run(name)
    \/ \E event \in AppEvents : AppSends(event)
    \/ \E name \in Datasets : SwitchDataset(name)

Next == Engine \/ Operator

\* The thread runs on, and the timers of the delays fire.  Nobody has to press
\* anything.
Spec == Init /\ [][Next]_vars /\ WF_vars(Engine)

-----------------------------------------------------------------------------

TypeOK ==
    /\ robot \in MappingContext
    /\ dataset \in Datasets
    /\ running \in DOMAIN Scripts \cup {Null}
    /\ abortRequested \in BOOLEAN
    /\ paused \in BOOLEAN
    /\ place \in Delays \cup { "idle", "checkpoint", "step", "waiting" }
    /\ left \in Nat
    /\ outcome \in { "none", "completed", "stopped", "failed", "timeout" }
    /\ (running = Null) <=> (place = "idle")
    /\ (running = Null) <=> (frames = << >>)

Declares(frame) == frame.script # Null /\ Scripts[frame.script].fixtures # {}

\* Override k of `os' is of frame at[k] of `fs', in the same order, and there is one
\* for each frame of a script that declares any.
Scoped(fs, os) ==
    \E at \in [DOMAIN os -> DOMAIN fs] :
       /\ \A k, l \in DOMAIN os : k < l => at[k] < at[l]
       /\ \A i \in DOMAIN fs : Declares(fs[i]) <=> \E k \in DOMAIN os : at[k] = i
       /\ \A k \in DOMAIN os : os[k] = Scripts[fs[at[k]].script].fixtures

\* The fixtures that reads are answered with are exactly those of the scripts being
\* executed, innermost first: none are left by a run that was stopped or failed in
\* an included script, and none are taken from the including one.
OverridesScoped == Scoped(frames, overrides)

\* A script that is paused or told to stop does not touch the robot: wherever the
\* request came (inside an included script, a loop, a wait), no further step begins.
HeldBeforeStep == place = "step" => ~paused /\ ~abortRequested

\* A stop ends the run, also of an endless script, also when it is paused again
\* before it has found out.
StopEndsRun == running # Null /\ abortRequested ~> running = Null

\* A script that ends ends, if it is not left paused: no held wait or checkpoint is
\* left hanging, whatever pauses, resumes and resets it went through.
FreeRunEnds == <>[]~paused => (running \in DOMAIN Scripts \ Endless ~> running = Null)

-----------------------------------------------------------------------------
(* A statement of the docs that the code does not keep.                      *)

\* docs/scenarios.md:97: the time of a wait stands still while the script is paused,
\* and goes on from there once it is resumed.
PausedWaitGoesOn == [][outcome' = "timeout" /\ running # Null /\ running' = Null => ~paused]_vars
=============================================================================
