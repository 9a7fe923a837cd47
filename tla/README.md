# Formal model of the mower dev simulator

The repository is a TypeScript (Node) simulator of a robot mower. A mobile app under
development talks to it over HTTP and a WebSocket as if it were the cloud and the device.
This directory holds TLA+ modules translated from the source, TLC configurations that check
them on small instances, and proofs that TLAPS checks for every instance.

Paths below are relative to the repository root (`PROJECT.json` prefixes them with `src/`).

## 1. Inventory

The program is one Node process and one thread. A request handler, a WebSocket message
handler or a timer callback runs to its next `await` undisturbed; nothing is persisted. What
makes it hard is therefore not preemption but *sequence*: requests, pushed device frames,
script steps and some ten kinds of timers interleave at handler granularity, and each handler
runs a cascade (session, task record, telemetry, labels, countdown) through callbacks.

| component | state | operations | interacts with | correct when |
|---|---|---|---|---|
| Shared task FSM `sim/fsm-mirror/domain/shared/TaskFSM.ts` | none (pure): context × event → context | one case per event | wrapped by the two session reducers | stop button latched, ended sessions final, interrupted scene saved and restored |
| Mapping session `sim/fsm-mirror/domain/mapping/MappingSession.ts` | none (pure) | rules in front of the FSM: manual phases, start gate, hand-over, reconciliation | called by the robot for every mapping event | remote control carries the manual intent, a resume names a phase |
| Mowing session `sim/fsm-mirror/domain/mowing/MowingTask.ts` | none (pure) | return to dock, charging, completion | called by the robot for every mowing event | as the FSM, and a finished mowing returns to the dock |
| Status adapter `BackendPhaseMapper.ts`, `EventAdapter.ts`, `workStatus.ts` | none (pure) | frame → sequence of events | `ratelStatusPush.ts` | no sub-status ends a session |
| Mapping telemetry `sim/MappingTelemetry.ts` | two signals, two timers, last phase | sync, confirm, reset | the robot syncs it on each change of phase; routes read the signals | each boundary earns its signal anew, and gets it |
| Task records `sim/task/MappingTaskService.ts` | records by id, latest by serial number | create, resolve, sync | HTTP task API; follows the session | the record says what the session does |
| Virtual robot `sim/virtualRobotCore.ts`, `ratelStatusPush.ts` | both contexts, last frame, pending action, action timers, completion countdown, upload | task API, pushes, reset, timers | everything: HTTP routes, scripts, faults, push channels | see section 4 |
| Mowing and recharge tasks `sim/task/MowingTaskService.ts`, `RechargeTaskService.ts` | records, frame sequence with timers | create, act, progress | robot, push channels | an ended or paused task stays so |
| Scenario engine `sim/scenarioEngine.ts` | running, paused, abort flag, include stack | run, pause, resume, stop, steps | drives the robot; the robot's control intents pause it | one script at a time, a stop ends it, a pause freezes it |
| Fixture loader `fixtures/FixtureLoader.ts` | override stack, cache | read, withOverrides | scripts push overrides around an `await` | overrides end with their script |
| WebSocket server and push channels `ws/`, `sim/pushChannels.ts`, `sim/chaos.ts` | clients, periodic timers, chaos settings | connect, push, drop, delay | robot events, tickets | pushes stop with the session, order of frames per client |
| Tickets `auth/jwt.ts` | issued tickets with expiry | issue, verify (consume), clean up | WebSocket upgrade | used at most once, never after expiry |
| Map edits `domain/mapEdit/MapEditSession.ts`, `fixtures/semanticSave.ts`, `topologyEdit.ts` | draft; overrides with a base version | load, edit, save; cut, merge, delete | map routes; a save dispatches `CMD_SAVE` to the robot | a stale base version is refused by a cut, a save loses nothing, no ground is lost |
| Arbitrator and client pipeline `services/events/Arbitrator.ts`, `features/` | recent source per field, one acknowledgement timer | accept, dispatch, destroy | mirrored from the app; the simulator does not run it | a late answer beats no newer state, one timeout per command |
| Faults, recorder, map stream, errors, panel, HTTP | assorted | - | - | data and I/O around the above |

`PROJECT.json` lists every component with its status and, under `hazards`, what is hard to
test in the code, each at its line.

## 2. Plan

Done, in this order:

1. `TaskFSM`, `MappingReducer`, `MappingSession`: the pure reducers and a session under any
   events; `MappingSession_proofs`; `TaskLifecycle`, the abstract specification it implements.
2. `NotifyMapper`, `MappingTelemetry`, `MappingTasks`: the helpers of the robot.
3. `MappingRobot` (composes 1 and 2), `MCMappingRobot`.
4. `MowingReducer` over the same `TaskFSM`, `MowingRobot` with the mowing records, the recharge
   sequence and the routing of frames between the two domains.
5. `ScenarioEngine` with the override stack of the fixture loader, over `MappingReducer`.
6. `PushServer`: tickets, connections, pushes, the map stream and the chaos settings.
7. `MapEditReducer`, `SemanticMap` and `MapEdits`, which composes them: editors, saves, cuts.

8. The proofs: the reducers (`MappingReducer_proofs`, `MowingReducer_proofs`), then what is built on
   them (`MappingSession_proofs`, `MappingRobot_proofs`, `MowingRobot_proofs`, `ScenarioEngine_proofs`), the
   map edits (`MapEdits_proofs`) and the pushes (`PushServer_proofs`). Every safety property that a
   run checks is a theorem.

Left, in this order: that a step of the robot, whose handlers dispatch several events, is a sequence
of steps of `TaskLifecycle`, as every event of the session alone is one; the same for the scenario engine, whose
steps dispatch one event at most; an abstract specification of the pushes (a client sees a subsequence of what was sent) that `PushServer`
implements; theorems about the order of `mergeIncrements`, of which only what the map edits need is proved.

No module that is proved about has a RECURSIVE operator: where the code loops (events of a frame,
increments of a delta, messages of a push), the model has a recursive function, and the
proof an induction over the indices of the sequence.

## 3. The modules and the code

**TaskFSM** has one operator per `case` of `transition` (`CmdPause`, `DeviceEstop`, ...) and
`transition` with its three prior decisions (reset, ESTOPPED, ended) in front. A context is a
record with the fields some guard reads. `resumeTo` is a scene `[state, phase]`, `NoScene` for
null. The battery is only ever compared with 80, so the event carries the outcome. BLE and WS
link events fail alike and are one event. The default branch `return _exhaustive ?? ctx` returns
the *event*; it is modelled as it runs (`EventAsContext`), and the events that reach it
(`SimOnlyEvents`) are part of every run. After a lost link the capabilities are granted again,
as the code and `TaskFSM.ts:59-61` say; the comment at line 621 ("disables mode switching") is the
older behaviour.

**MappingReducer** is `mappingReducer`: its `if`s in order, as the alternatives of a CASE whose
guards repeat the conditions in that order. **MappingSession** lets any event arrive at any
time: that is what `POST /sim/event`, the `emit` step of scripts and the frames can do. Its
actions group the events by sender, and each is `Receive`. `GateRequired` is
`manualScanStartGateRequired`.

**NotifyMapper** is the sub-status table and what a frame becomes: `statusEvent` and `phaseEvent`, dispatched
in this order, either of which may be `NoEvent`.
**MappingTelemetry** and **MappingTasks** are the operators of the two services on their own
state; a timer is a flag that is set while its callback is scheduled.

**MappingRobot** keeps one variable per group of fields of `VirtualRobot`:

| variable | fields |
|---|---|
| `mapping` | `mapping` |
| `tasks` | `mappingTaskRecords`: the statuses, oldest first, the last one active |
| `notify` | `lastNotifyWorkStatus`, `lastNotifySubStatus` |
| `telemetry` | `mappingTelemetry` |
| `device` | `pendingMappingAction`, `mappingActionTimers` |
| `waiting` | `mapCompletingTimer`, `mapCompletingStartedAt` |
| `upload`, `failAt` | `uploadState`, `uploadProgress`, `uploadTimer`; `uploadFailAt` |
| `lawns` | the number of `edge_start` labels |

A handler dispatches events, pushes frames that dispatch more events, and these arm timers.
So every handler is a composition of operators on the record of all variables
(`dispatchMapping`, `pushRatelStatus`, `beginMapUpload`, ... with the source's names and order),
and an action is a guard with one `Become(...)`: one action for a whole handler or callback.
Refused requests change nothing and are disabled actions. `TaskAction` is the task API,
`SwitchMode`, `SaveMap`, `SendRawEvent`, `ResetRobot`, `DeviceFrame` and `InjectUploadFailure` the
other endpoints, `Timer` the five kinds of callbacks.

Time is left out: a scheduled timer may fire at any later moment, in any order with the
others. This allows more than the real delays (0.5 s to 120 s) do; a request, a lost frame
or a paused process may fall between any two of them. One order is kept: the two frames of
an extension are scheduled together at 1.5 s and 4 s, so the second never comes first (`Due`).

Left out of this half: the mowing domain and frames with `work_status` `mowing` or
`return_dock` (assumed away by `FramesAssumption`; `MowingRobot` has them), battery levels,
forced task status, a change of serial number, and the WebSocket broadcast of what the
handlers do (`PushServer`).

**MowingReducer** is `mowingReducer`: the rules for a return to the dock, for frames of a
mowing, charging and completing robot, in front of the shared `transition`. **MowingRobot** is
built as `MappingRobot`: one record of all variables, one action per handler. `mowing` is
`this.mowing`, `tasks` are the records of `MowingTaskService` with their progress in steps,
`notify` the last frame, `domain` is `activeDomain`, `dock` the recharge task with the next frame of
its sequence. `routeFrame` is `notifyTargetDomain`: a frame for the other domain changes
`notify` only, and `MappingRequest` stands for any mapping request, which takes the active domain.
The five frames of the sequence are scheduled at rising times and keep their order; every
other order of requests, frames and timers is possible. `progressed` at full progress dispatches an event
no case names, as the code does.

**ScenarioEngine** is the chain of awaits of one run, on a stack of frames (`frames`: a script,
an included script, the rounds of a loop). `place` is where it stands; the 50 ms delays are the
only places where it gives way, and only there the actions of `Operator` (pause, resume, stop,
reset, a request of the app, a switch of the dataset) are enabled. So a loop that never waits keeps
everyone out, as it does in Node. `left` counts the slices of a wait; a slice is 50 ms.
`overrides` is `FixtureLoader.overrideStack`. `Throw` unwinds all levels as the `finally` blocks do.
`Bodies` are the sequences of steps the scripts are made of, and `IsStep` what the parser of the
scripts gives for a step. `Scoped` relates frames and overrides without saying how deep either is.

**PushServer** has the robot as the state and phase of its mapping session, which go anywhere at any
time, and the status of its record, which follows as the code has it follow: `RobotChanges` is a
dispatch that moves the session, `RobotStays` one that does not (it brings the record in line all the
same), `CreateTask` a task made while the session is not IDLE, `ForceTask` the operator's
`force-status`, `SetUp` the state override, `RobotReports` all else that emits `changed`, `RatelStatus` the
broadcast of a frame. A step is one dispatch; a request that dispatches several events takes
several steps, with more interleavings than the program has. `line` is what is under way to a client
(each message with the delay it drew: messages with equal delays keep their order, others do not), `view`
what the client saw last. `Upgrade` verifies and uses up a ticket and sends the greeting; `OnChanged`
pushes the status, and the record if there is one, whatever has changed. `untold` records which clients were
connected when the record was made or altered without a `changed`, until the next one. `promised` records whether the settings during a connection
allow to expect order, or everything; a client is followed from its connection under settings
that promise something, and after a change of the settings from its next connection.
`watched` picks the kinds of messages that are followed in a behaviour: the kinds do
not influence one another, so that TLC need not multiply them. `SendingRun` has the pipe of a client
after each message of a push.

**MapEditReducer** is `mapEditReducer`, one operator per `case`. **SemanticMap** has the elements
of a map in their order, `mergeIncrements` (`MergedRun`, increment after increment; an id means the last element
that has it, a deleted one keeps its owner if the same delta brings it back), and cuts and merges on a lawn
that is a row of cells: a cut leaves two pieces, one on either side (in the code an area that is not
convex may fall into more, which a row has none of); only areas without a gap merge.
`Kept` takes chosen elements out of a list in their order.
**MapEdits** serves requests in one step each, as the handlers do not await between
reading the map and setting the override. `saves` and `answers` are under way as long as it
takes; one that is never served is lost. The source says that the edit session is not
wired to a screen yet, so what the editor does between the reducer and the endpoint
is an assumption, marked external in the map: it sends its draft on `CMD_CONFIRM` with the version it
loaded, may give up and send it again, and ignores an answer to a former visit. The `CMD_SAVE` that the save
sends to the mapping session is in `MappingSession` (see `simulator_events`).

**TaskLifecycle** is what a session promises without phases: a task runs, is set aside, is
stopped by the button, ends, and keeps a scene while set aside and only then.
`MappingSession!Lifecycle` maps a context to it (`Stage`), and `LivesOneTask` is its specification.

Not modelled at all: the arbitrator and the client pipeline (mirrored from the app, imported by
nothing that runs; the modules they import are partly missing), robot errors (a keyed record that
influences nothing), trajectories and metadata (pure conversions), request parsing, the panel, the
recorder and the event log.

## 4. The runs

| run | instance | states | shows |
|---|---|---|---|
| `session` | gate off as in the simulator, all events | 35 088 | see below |
| `robot` | 1 task, 1 lawn, 1 upload step, 6 frames, 2 raw events | 294 114 | see below |
| `timers` | 2 tasks, 1 lawn, 2 upload steps, failure at the last one, 2 frames | 57 360 | see below |
| `mowing` | 1 record, 1 progress step, 5 frames, 2 raw events | 292 914 | see below |
| `scenario` | 7 scripts, 2 datasets, 2 app events | 4 718 | see below |
| `push` | 1 client, 2 tickets, 3 sessions, 3 chaos settings, 2 patches, 3 frames, 5 messages under way | 88 168 | see below |
| `edits` | 1 editor, 1 planner, 3 cells in 2 areas, 2 drafts, 2 saves, 4 versions | 1 104 847 | see below |

`session` checks the type; that a scene to resume is kept exactly while the session is
interrupted (`ResumeTargets`: every interruption saves `ctx.resumeTo ?? snapshot(ctx)`, so a
left-over scene would later be preferred); the stop button's latch (`EstopLatched`,
`EstopLeftByReset`); `RemoteIsManual`; `TerminalIsFinal`; `SceneSaved`; and
`ResumedNamesPhase`; and that it implements `TaskLifecycle` (`LivesOneTask`). The state space is
finite without bounds.

`robot` checks, for interleaved requests, frames and callbacks, that the completion
countdown runs on its page only (`CountdownOnPage`), the task record says what the session does
(`TaskFollowsSession`), settle timers and signals belong to the phase the session is in and are
earned anew at each boundary (`SettlesInPhase`, `SignalsEarnedAnew`), a RESUME is confirmed in its own
handler though the frame it repeats would be a duplicate (`ResumeIsConfirmed`), and the
robot ends a running session by itself exactly with the last step of a good upload (`UploadEndsSession`).

`timers` checks that no busy flag outlives its timer (`BusyHasTimer`, which a second task, a
cancel, an extension or an upload failure could break), that an accepted edge action is
always answered (`EdgeActionAnswered`), and that a robot left alone comes to rest
(`ComesToRest`): its countdown starts an upload, whose end may enter the completion page
and arm a countdown again.

Bounds. `MaxTasks`: records differ by being the active one or an older one; two have both,
one suffices where only the active record matters. `MaxLawns` is only compared
with a limit (15 in the code): at 1 the limit is reached and the requests below and at it occur.
`UploadSteps`: `timers` has a first, a last and a failing step (the ten steps of the code
repeat the first); in `robot` the upload ends with its first step, after a push of its own. Frames: those that start a session's phases, an emergency stop and idle;
the robot pushes the others by itself (`precondition`, `map_edge_finish`, `upload_map`,
`idle/complete`). The remaining ones map to phases that no guard of the robot tells apart, or
to events of the `session` run. Raw events: a refused or accepted reset, and the grant of the capabilities without which no mode switch happens.
The `timers` run takes few frames because TLC's liveness check grows with the graph.

Fairness. Only callbacks are fair: Node's event loop runs a timer that stays scheduled.
No request, frame or script step is. `Fairness` is weak fairness of each callback; its
condition is written out because each callback is enabled exactly while its flag is set, and
TLC evaluates ENABLED of a whole handler too slowly. `ComesToRest` assumes in addition that
from some moment only timers act: that is the situation it is about.

`mowing` checks, under interleaved requests, device frames, the recharge sequence and mapping
requests, that a scene is kept exactly while the mow is interrupted (`MowResumeTargets`: the rules of
the return stand in front of the shared reducer), that the record follows the
session and is full when complete (`MowTaskFollowsSession`), that no frame of a cancelled
recharge comes (`CancelStopsDocking`), that the last frame of the sequence ends the return
(`ReturnIsEnded`), that nothing but a mowing frame takes a returning session back to work (`ReturnNotResumed`),
and that a recharge arrives (`RechargeArrives`, weak fairness of the sequence's timers; `PAUSE` does not stop them).
One record shows what the active one does; `MappingRobot` has two. One progress step reaches full progress,
where the code does something else.

`scenario` checks that exactly the overrides of the running scripts are installed (`OverridesScoped`),
that no step starts while the script is held (`HeldBeforeStep`), that a stop ends the run
at every place, also when a pause follows (`StopEndsRun`), and that a script without an endless loop
ends unless it is left paused (`FreeRunEnds`). The scripts are: one that includes another, waits for a
state and loops; an endless one; one that pauses itself; one that never waits; one that includes
itself; and one with an unknown dataset. They reach every branch of the engine. Fairness: weak fairness of the engine's
own steps, which are continuations and timers of the event loop.

`push` checks that a client promised everything, with nothing under way to it, has seen where the
session stands, and the status of the record unless that is untold (`UpToDate`: the greeting must make up
for what was missed, and the next `changed` for what was untold; nothing else leaves a gap), that frames
are seen in order (`FramesInOrder`), and that the last status arrives (`StatusArrives`). One client is enough, as
clients share only what the server sends; it leaves and returns with its second ticket. Two patches wrap
around with the third frame. The robot prepares, maps and charges: a charging robot is one on which a
task can be created without a `changed`; a forced failure stands for the ends of a record. Three messages under
way are a greeting and half a change, or a whole change and a frame. Settings: calm, latency, and latency with loss. Fairness: the
timers of messages under way fire.

`edits` checks that a version names one map, so that the check of `base_version` means something
(`VersionNamesMap`, a save of an old copy must not push the version back); that boundaries go on to share out the lawn
(`GroundSharedOut`); that a saved drawing stays until a save deletes it (`SavedStays`); and that a completed session has
stored its draft, whichever attempt was answered (`CompletedIsStored`). One editor's own late and repeated saves
already meet edits they do not know of, the planner's and those of an earlier visit; two editors
at once are beyond what TLC can exhaust here. Three changes of the map
fit between two deletions: a cut, a save and a merge in every order. Ids are shared between an area and its channel, as in the fixture.
The drafts never name an area: robot-made elements take no part in a save (docs/api.md:34). If a
client did, `GroundSharedOut` would not hold, as the save would bring back an area that has been cut.

Disagreements. Five runs expect a violation; each checks one statement that a comment or a
doc makes and the code does not keep. Their traces are short and use the API as
the app does:

- `simulator_events`: `CMD_SAVE` and two others are said to be no-ops and replace the context.
- `upload_after_stop`: CANCEL on the completion page does not stop its countdown.
- `upload_success`: an upload after PAUSE on the completion page succeeds, and the session stays PAUSED.
- `idle_return`: after a mapping request the idle frame that ends a return to the dock goes to the mapping session.
- `paused_wait`: a wait for a state, paused in its last slice, fails the script with a timeout.

`PROJECT.json` quotes the lines. The positive properties above are stated around these cases, not weakened
by them: `ResumeTargets`, for instance, admits the `undefined` state an event leaves behind because
the code can be in it. The models contain some more of the kind, which no run is spent on:

- RESUME in an unchanged mapping phase drops the settle signal, and EDGE_CLOSE is refused from then on (`virtualRobotCore.ts:426`).
- A mapping task created after an ended session never starts; the extension resets first, the create does not (`virtualRobotCore.ts:447`).
- RESUME of a mapping task while stopped hides the release of the stop button (`virtualRobotCore.ts:425`); RESUME of a mowing task while stopped sets the session to work (`virtualRobotCore.ts:778`), against `TaskFSM.ts:319`.
- A mow at 100 per cent dispatches the unnamed event instead of completing (`virtualRobotCore.ts:845`).
- A loop that never waits can not be stopped (`scenarioEngine.ts:403`), against line 22.
- A client is not always told of a task that is created (`virtualRobotCore.ts:446`), against `docs/api.md:73` ("Sent on task
  creation, FSM changes while a mapping task is active, and terminal status"): while the session is not IDLE, as on a
  robot that charges, the record is made, `CMD_START` changes nothing (`TaskFSM.ts:345`), so that no `changed` follows, and
  the `precondition` frame broadcasts the status alone (`wsServer.ts:168`). A status forced by the operator (line 214) is not
  pushed either. A client that reconnects is told. `untold` in `PushServer` has exactly these cases, and `UpToDate` says that
  they are the only ones.
- The full frame sent to a client that connects moves the pose everyone is sent (`mapStream.ts:80`), against line 38.

## 5. What is proved

The theorems hold for every value of the constants that the named assumptions admit; TLC evaluates
the assumptions on every run. Every invariant and every action property that a run checks is
a theorem, and so is the refinement of `TaskLifecycle`. Every module `M_proofs` has its invariant,
lemmas operator by operator, and the theorems at the end of the component they are about.

| module | theorems | inductive invariant | assumptions |
|---|---|---|---|
| `MappingReducer_proofs` | `MappingReducerSound` | - | - |
| `MappingSession_proofs` | types, three invariants, four action properties, `LivesOneTask` | `GoodContext` | `GateAssumption` |
| `MappingRobot_proofs` | types, four invariants, three action properties | `Robust` | frames, raw events, bounds |
| `MowingReducer_proofs` | `MowingReducerSound` | - | - |
| `MowingRobot_proofs` | types, two invariants, three action properties | `Robust` | frames, raw events, bounds; `Homely` for one |
| `ScenarioEngine_proofs` | types, two invariants | `Robust` | `ScriptAssumption` |
| `MapEdits_proofs` | types, four invariants | `VersionsGrow`, `AnswersAreStored`, `WellDrawn` | `EditsAssumption`; `Drawings` for two |
| `PushServer_proofs` | types, one invariant, one action property | `PushInv` | `PushAssumption` |

**The reducers.** A reducer is a composition of operators on contexts, so the induction is stated on
contexts: `Sound(c, d)` says that `d` is a context, safe if `c` is, and that the move from `c` to `d` is one
the action properties allow. One lemma per operator proves it (`CmdPauseSound`, ...), and
`MappingReducerSound` assembles them. Everything that runs the reducer uses this one theorem. The
mowing reducer wraps the same transitions in other rules and does return to the dock, which `Safe`
excludes, so it has its own.

**The mapping session.** None of its three safety invariants is inductive alone: whether a case may run
with the button pressed depends on the latch, and whether it finds a scene on the states that carry
one. `GoodContext` is their conjunction with the type, and that a mapping session is never on a return
to the dock. `SessionLivesOneTask` maps every event to a step of `TaskLifecycle` or a stutter, from the
same facts about moves.

**The mapping robot.** A handler threads a record of all variables through operators; most of what
could go wrong happens between them. `Robust` says of the record: it is typed; telemetry and page
are in sync with the phase (`InSync`: the phase the telemetry knows is the session's or none, which is what
makes a late settle timer harmless); the active record follows the session; and what is busy has its
timer. Between the operators of one handler only part of it holds, so `Leads` and `Reaches` say what an
operator keeps from any record, and what a handler has kept since it began. The last two theorems follow
an upload to its last step, and a RESUME through its handler.

**The mowing robot** is proved in the same way. `ReturnNotResumed` needs the hypothesis that no
raw event is a mowing status (`Homely`): `POST /sim/event` may of course send one, which then
resumes the mow by itself.

**The scenario engine.** `OverridesScoped` is proved from a correspondence between the frames that
declare fixtures and the overrides, in their order, so that it holds at any depth of includes: entering a script
pushes both, leaving it pops both, and a throw empties both. `HeldBeforeStep` and the types are inductive with it.

**The map edits.** A version names one map because the version never falls, also when a late save
names an old base (`VersionsGrow`). A completed session has stored its draft because of what holds of the attempts
and answers under way (`AnswersAreStored`). `GroundSharedOut` and `SavedStays` rest on `WellDrawn`: boundaries have
unique ids and disjoint cells, which together are the fixture's; pieces of cuts are named for versions that are
past, so that their names are new; what has a drawn id is the app's and no area; and what is owed to the app is in the map. The induction over a delta is `MergedSoFar`.
Both need `Drawings`: the app draws elements of its own and names no area, as section 4 explains. TLC evaluates it in the run
(`MCDrawings`).

**The pushes.** `UpToDate` speaks of clients to which nothing is under way, and is not inductive: what is
under way must be worth as much. `PushInv` says of the pipe of every client (what it has seen and what is under way):
all delays are one, so that the line is a queue (`PushFlows`, from what the settings promise); the frames
in it ascend, from what was seen to the last one made (`PushOrder`); and the last status in it, or else
the one seen, is the session's, the last task the record's unless that is untold (`PushCurrent`). A push is followed message by message
(`Grows`), by induction over the messages.

What stays with TLC: liveness (`EdgeActionAnswered`, `ComesToRest`, `RechargeArrives`, `StopEndsRun`, `FreeRunEnds`, `StatusArrives`),
which needs fairness and ENABLED, out of this prover's reach. The violated statements of section 4 are
counterexamples and need no proof. Induction over data is done where the proofs need it, as an induction
over a set of numbers (`Induct`), because the library's induction theorems take operators as parameters.
