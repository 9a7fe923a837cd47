----------------------------- MODULE PushServer -----------------------------
(* The WebSocket side of the simulator (ws/wsServer.ts, ws/outbound.ts,       *)
(* sim/pushChannels.ts, sim/mapStream.ts, sim/chaos.ts, auth/jwt.ts): clients *)
(* connect with a ticket, are told where the robot stands, and are pushed     *)
(* every change of it; the chaos settings lose, delay and reorder what is     *)
(* sent, while the robot goes on and clients come and go.                     *)
(*                                                                            *)
(* The robot is the state and phase of its mapping session, which change as   *)
(* they please, and the status of the latest record of its serial number,     *)
(* which follows the session as the code has it follow.  A step of the robot  *)
(* is one dispatch, or one call that changes or tells something without one:  *)
(* a request that dispatches several events takes several steps.  A map frame *)
(* is one message (its slices are sent in a row).  The mowing record and the  *)
(* recharge are pushed as the mapping record is; MowingRobot has what becomes *)
(* of them.                                                                   *)
EXTENDS MappingTasks, FiniteSetsExt, SequencesExt

CONSTANTS
    Sockets,        \* clients
    Tickets,
    Sessions,       \* the [state, phase] the robot comes to, besides IDLE
    Forced,         \* the statuses a record is forced to
    Configs,        \* chaos settings: [latency, reorderWindow, drops, wsDelays]
    Watches,        \* the kinds of messages clients are followed for, one set at a time
    Patches,        \* number of patches of a dataset
    MaxFrames,      \* bound: frames of a dataset
    MaxSwitches,    \* bound: switches of the dataset
    MaxLine         \* bound: messages under way to a client

Session(state, phase) == [state |-> state, phase |-> phase]
IdleSession == Session("IDLE", Null)

\* ChaosController's own settings.
Calm == [latency |-> 0, reorderWindow |-> 0, drops |-> FALSE, wsDelays |-> {0}]

ASSUME PushAssumption ==
    /\ Forced \subseteq TASK_STATUSES
    /\ Calm \in Configs
    /\ \A config \in Configs :
         /\ config.latency \in Nat /\ config.reorderWindow \in Nat /\ config.drops \in BOOLEAN
         /\ config.wsDelays \in SUBSET Nat /\ IsFiniteSet(config.wsDelays)
    /\ Patches \in Nat \ {0}
    /\ MaxFrames \in Nat /\ MaxSwitches \in Nat /\ MaxLine \in Nat

VARIABLES
    robot,      \* [session, task]: task is the status of the latest record, or Null
    stream,     \* MapStream: [epoch, patchIndex, frameId, current]
    chaos,
    tickets,    \* issuedTickets
    sockets,    \* open, closed
    subscribed, \* OutboundHub.locationSubs, for the robot's serial number
    line,       \* what is under way to a client: messages with their delays
    view,       \* what the client has seen last
    promised,   \* history: what the settings during the connection allow to expect
    untold,     \* history: the clients whose connection has seen the record made or
                \* altered without a push of it since
    closed,     \* the server is shut down
    watched     \* history: the kinds of messages that are followed, of those in Watches

vars == << robot, stream, chaos, tickets, sockets, subscribed, line, view, promised, untold, closed,
           watched >>
history == << promised, untold, watched >>

STREAMING_MAPPING_PHASES ==
    { "MAP_SCAN_BOUNDARY", "MAP_SCAN_BOUNDARY_MANUAL", "MAP_FOLLOW_BOUNDARY",
      "MAP_FOLLOW_BOUNDARY_FAILED", "MAP_FOLLOW_BOUNDARY_MANUAL" }

shouldStreamMap ==
    /\ robot.session.state \in {"WORKING", "REMOTE_CONTROL"}
    /\ robot.session.phase \in STREAMING_MAPPING_PHASES

Dropped == -1
NoPatch == -1
Unseen == "unseen"
NothingSeen == [frame |-> << 0, 0 >>, status |-> Session(Unseen, Null), task |-> Unseen, pose |-> NoPatch]

\* Messages: what the client looks at, and its new value.
Message(field, value) == [field |-> field, value |-> value]

Init ==
    /\ robot = [session |-> IdleSession, task |-> Null]
    /\ stream = [epoch |-> 0, patchIndex |-> 0, frameId |-> 0, current |-> NoPatch]
    /\ chaos = Calm
    /\ tickets = [t \in Tickets |-> "unissued"]
    /\ sockets = [s \in Sockets |-> "closed"]
    /\ subscribed = [s \in Sockets |-> FALSE]
    /\ line = [s \in Sockets |-> << >>]
    /\ view = [s \in Sockets |-> NothingSeen]
    /\ promised = [s \in Sockets |-> "nothing"]
    /\ untold = {}
    /\ closed = FALSE
    /\ watched \in Watches

-----------------------------------------------------------------------------
(* The way of a message: ChaosController.send, once for every message and     *)
(* client.                                                                    *)

\* latency + jitter + wsDelay; the jitter stays below the window.
delays ==
    { chaos.latency + jitter + wsDelay :
        jitter \in 0..(IF chaos.reorderWindow > 0 THEN chaos.reorderWindow - 1 ELSE 0),
        wsDelay \in chaos.wsDelays }

Fates == delays \cup (IF chaos.drops THEN {Dropped} ELSE {})

Seen(v, message) == [v EXCEPT ![message.field] = message.value]

\* (Mutant: what is put on a timer is sent before what was put on one earlier.)
chaosSendLifo(pipe, message, fate) ==
    CASE fate = Dropped -> pipe
      [] fate = 0       -> [pipe EXCEPT !.view = Seen(@, message)]
      [] OTHER          ->
           [pipe EXCEPT !.line = << [message |-> message, delay |-> fate] >> \o @]

\* One message to an open client: lost, handed over at once, or put on a timer.
chaosSend(pipe, message, fate) ==
    CASE fate = Dropped -> pipe
      [] fate = 0       -> [pipe EXCEPT !.view = Seen(@, message)]
      [] OTHER          ->
           [pipe EXCEPT !.line = Append(@, [message |-> message, delay |-> fate])]

\* Several messages to a client, one after the other, each with its own fate; a message
\* without one is not followed.
SendingRun(pipe, messages, fates) ==
    LET pipes[n \in 0..Len(messages)] ==
          IF n = 0 THEN pipe
          ELSE IF n \in DOMAIN fates THEN chaosSend(pipes[n - 1], messages[n], fates[n])
          ELSE pipes[n - 1]
    IN  pipes

sendAll(pipe, messages, fates) == SendingRun(pipe, messages, fates)[Len(messages)]

\* The order of the statuses says nothing when one of them may be missing.
Worth == IF watched = {"status", "task"} THEN {"everything"} ELSE {"order", "everything"}

\* sendRaw looks at the client before the dice are thrown.  A client that is
\* promised nothing about what is watched is not followed.
Send(receivers, messages) ==
    LET pipe(s) == [line |-> line[s], view |-> view[s]]
        open == { s \in receivers : sockets'[s] = "open" 
                                /\ promised'[s] \in Worth }
        looked == { i \in DOMAIN messages : messages[i].field \in watched }
    IN  \E fates \in [open -> [looked -> Fates]] :
          LET sent == [s \in open |-> sendAll(pipe(s), messages, fates[s])]
          IN  /\ \A s \in open : Len(sent[s].line) <= MaxLine
              /\ line' = [s \in Sockets |-> IF s \in open THEN sent[s].line ELSE line[s]]
              /\ view' = [s \in Sockets |-> IF s \in open THEN sent[s].view ELSE view[s]]

Broadcast(messages) == Send(Sockets, messages)

Silent == UNCHANGED << line, view >>

\* A timer fires: of those that run equally long, the one that was started first.
\* (Timers of different lengths may fire in any order.)
Deliver(s) ==
    \E i \in DOMAIN line[s] :
        /\ \A j \in 1..(i - 1) : line[s][j].delay # line[s][i].delay
        /\ line' = [line EXCEPT ![s] = RemoveAt(@, i)]
        /\ view' = [view EXCEPT ![s] = Seen(@, line[s][i].message)]
        /\ UNCHANGED << robot, stream, chaos, tickets, sockets, subscribed, closed, history >>

-----------------------------------------------------------------------------
(* What is pushed.                                                           *)

notifyRatelStatus(r) == Message("status", r.session)
mappingTaskStatus(r) == Message("task", r.task)
robotLocation(pose)  == Message("pose", pose)
mapFrame(st) == Message("frame", << st.epoch, st.frameId >>)

\* (Mutant: the patches do not start over.)
nextFrameUnwrapped(st) ==
    [st EXCEPT !.patchIndex = @ + 1, !.current = st.patchIndex, !.frameId = @ + 1]

\* (Mutant: the frames are numbered by their patches.)
nextFrameByPatch(st) ==
    [st EXCEPT !.patchIndex = @ + 1, !.current = st.patchIndex % Patches,
               !.frameId = st.patchIndex % Patches]

\* MAP_INCREMENTAL: the patches in turn.
nextFrame(st) ==
    [st EXCEPT !.patchIndex = @ + 1, !.current = st.patchIndex % Patches, !.frameId = @ + 1]

\* MAP_FIX: the first patch, in the same numbering.
fullFrame(st) == [st EXCEPT !.current = 0, !.frameId = @ + 1]

\* The stream is followed for its frames and poses only: nothing else depends on it.
Followed(st) == IF watched = {"status", "task"} THEN stream ELSE st

\* changedPushes: the status, and the task if there is one.
changedPushes(r) ==
    << notifyRatelStatus(r) >> \o (IF r.task = Null THEN << >> ELSE << mappingTaskStatus(r) >>)

\* The robot's event `changed': everybody is told, with the next frame if frames are
\* streamed.
OnChanged ==
    IF closed THEN Silent /\ UNCHANGED stream
    ELSE IF shouldStreamMap' /\ stream.frameId < MaxFrames
         THEN /\ stream' = Followed(nextFrame(stream))
              /\ Broadcast(Append(changedPushes(robot'), mapFrame(stream')))
         ELSE /\ Broadcast(changedPushes(robot'))
              /\ UNCHANGED stream

\* syncActiveMappingTaskFromContext: a record follows the session.
synced(session, task) == IF task = Null THEN Null ELSE statusFor(session.state, task)

\* `changed' is emitted: whoever is connected is told of the record, too.
Tell(session, task) ==
    /\ robot' = [session |-> session, task |-> task]
    /\ untold' = {}
    /\ UNCHANGED << chaos, tickets, sockets, subscribed, promised, closed, watched >>
    /\ OnChanged

\* Nothing is emitted: a record that was made or altered stays untold.
KeepQuiet(task, made) ==
    /\ robot' = [robot EXCEPT !.task = task]
    /\ untold' = IF made \/ task # robot.task THEN Sockets ELSE untold
    /\ Silent
    /\ UNCHANGED << stream, chaos, tickets, sockets, subscribed, promised, closed, watched >>

\* dispatchMapping of an event that moves the session.  A session that starts makes a
\* record or starts over with one.
RobotChanges(session) ==
    \E task \in {robot.task} \cup (IF session.state = "PREPARING" THEN {"ON_THE_WAY"} ELSE {}) :
        Tell(session, synced(session, task))

\* dispatchMapping of an event that does not: the record is brought in line all the same.
RobotStays == KeepQuiet(synced(robot.session, robot.task), FALSE)

\* createMappingTask, or a CMD_START of a script, while the session is not IDLE: the
\* record is made before the event is found to be out of place.
CreateTask ==
    /\ robot.session.state # "IDLE"
    /\ KeepQuiet(synced(robot.session, "ON_THE_WAY"), TRUE)

\* POST /sim/mapping-task/force-status.
ForceTask(status) == KeepQuiet(status, TRUE)

\* applySetup changes the session without the record.
SetUp(session) == Tell(session, robot.task)

\* What else emits `changed': the device, the recharge, the signals of the edge, a
\* passage, and all of mowing.
RobotReports == Tell(robot.session, robot.task)

\* reset() clears the records.
ResetRobot == Tell(IdleSession, Null)

\* onRatelStatus: a frame that was no duplicate, told after its events are dispatched;
\* the state and the phase in it are those of the session.
RatelStatus ==
    /\ ~closed
    /\ UNCHANGED << robot, stream, chaos, tickets, sockets, subscribed, closed, history >>
    /\ Broadcast(<< notifyRatelStatus(robot) >>)

\* The map timer (200 ms).
MapTimer ==
    /\ ~closed
    /\ shouldStreamMap
    /\ stream.frameId < MaxFrames
    /\ stream' = Followed(nextFrame(stream))
    /\ UNCHANGED << robot, chaos, tickets, sockets, subscribed, closed, history >>
    /\ Broadcast(<< mapFrame(stream') >>)

currentRobotPose == IF stream.current = NoPatch THEN 0 ELSE stream.current

\* The location timer (300 ms), for a mapping task: to the clients that subscribed.
LocationTimer ==
    /\ ~closed
    /\ robot.task = "ON_THE_WAY"
    /\ UNCHANGED << robot, stream, chaos, tickets, sockets, subscribed, closed, history >>
    /\ Send({ s \in Sockets : subscribed[s] }, << robotLocation(currentRobotPose) >>)

\* A client (un)subscribes to the locations; it is answered by the timer only (at
\* once if the robot mows).
LocationRegister(s) ==
    /\ sockets[s] = "open"
    /\ subscribed' \in { [subscribed EXCEPT ![s] = TRUE], [subscribed EXCEPT ![s] = FALSE] }
    /\ UNCHANGED << robot, stream, chaos, tickets, sockets, line, view, closed, history >>

\* The dataset is switched (EXPAND_AREA, a fault, a script, the panel).
SwitchDataset ==
    /\ stream.epoch < MaxSwitches
    /\ stream' = Followed([epoch |-> stream.epoch + 1, patchIndex |-> 0, frameId |-> 0,
                            current |-> NoPatch])
    /\ UNCHANGED << robot, chaos, tickets, sockets, subscribed, line, view, closed, history >>

-----------------------------------------------------------------------------
(* Connections.                                                              *)

GenerateTicket(t) ==
    /\ tickets[t] = "unissued"
    /\ tickets' = [tickets EXCEPT ![t] = "issued"]
    /\ UNCHANGED << robot, stream, chaos, sockets, subscribed, line, view, closed, history >>

\* The 120 seconds of a ticket are over; cleanupTickets or the check of the token
\* finds out.
TicketExpires(t) ==
    /\ tickets[t] = "issued"
    /\ tickets' = [tickets EXCEPT ![t] = "gone"]
    /\ UNCHANGED << robot, stream, chaos, sockets, subscribed, line, view, closed, history >>

\* Messages that all take the same time keep their order, and all arrive unless some
\* are dropped.
Promise(config) ==
    IF config.reorderWindow > 0 \/ Cardinality(config.wsDelays) > 1 THEN "nothing"
    ELSE IF config.drops THEN "order" ELSE "everything"

\* (Mutant: a client that connects is told the status, not the task.)
greetingWithoutTask(r, st) == << mapFrame(st), notifyRatelStatus(r) >>

\* What a new client is sent: the whole map, the status, and the task if it runs.
greeting(r, st) ==
    << mapFrame(st), notifyRatelStatus(r) >> \o
    (IF r.task \in {"ON_THE_WAY", "PAUSE"} THEN << mappingTaskStatus(r) >> ELSE << >>)

\* A valid ticket is used up, whatever becomes of the connection.
verifyTicket(t) == tickets[t] = "issued" /\ tickets' = [tickets EXCEPT ![t] = "gone"]

\* `upgrade' on /acc: the client is subscribed to the locations at once.
Upgrade(s, t) ==
    /\ sockets[s] = "closed"
    /\ ~closed
    /\ verifyTicket(t)
    /\ stream.frameId < MaxFrames
    /\ sockets' = [sockets EXCEPT ![s] = "open"]
    /\ subscribed' = [subscribed EXCEPT ![s] = TRUE]
    /\ promised' = [promised EXCEPT ![s] = Promise(chaos)]
    /\ untold' = untold \ {s}
    /\ stream' = Followed(fullFrame(stream))
    /\ UNCHANGED << robot, chaos, closed, watched >>
    /\ Send({s}, greeting(robot, stream'))

\* What is still under way when the connection is closed is not sent any more.
Forget(gone) ==
    /\ sockets' = [s \in Sockets |-> IF s \in gone THEN "closed" ELSE sockets[s]]
    /\ subscribed' = [s \in Sockets |-> s \notin gone /\ subscribed[s]]
    /\ line' = [s \in Sockets |-> IF s \in gone THEN << >> ELSE line[s]]
    /\ view' = [s \in Sockets |-> IF s \in gone THEN NothingSeen ELSE view[s]]
    /\ UNCHANGED << robot, stream, chaos, tickets, history >>

\* The client goes away (or its connection fails); it may come back with another ticket.
Disconnect(s) ==
    /\ sockets[s] = "open"
    /\ Forget({s})
    /\ UNCHANGED closed

\* close(): the timers and the listeners go, and all clients are closed.
Shutdown ==
    /\ ~closed
    /\ closed' = TRUE
    /\ Forget(Sockets)

\* POST /sim/chaos, /sim/realism, a fault or a script.
UpdateChaos(config) ==
    /\ config # chaos
    /\ chaos' = config
    /\ promised' = [s \in Sockets |-> "nothing"]
    /\ line' = [s \in Sockets |-> << >>]
    /\ view' = [s \in Sockets |-> NothingSeen]
    /\ UNCHANGED << robot, stream, tickets, sockets, subscribed, untold, closed, watched >>

Pushes == \E s \in Sockets : Deliver(s)

Next ==
    \/ Pushes
    \/ \E session \in Sessions \cup {IdleSession} : RobotChanges(session) \/ SetUp(session)
    \/ RobotStays
    \/ CreateTask
    \/ \E status \in Forced : ForceTask(status)
    \/ RobotReports
    \/ ResetRobot
    \/ RatelStatus
    \/ MapTimer
    \/ LocationTimer
    \/ \E s \in Sockets : LocationRegister(s) \/ Disconnect(s)
    \/ SwitchDataset
    \/ \E t \in Tickets : GenerateTicket(t) \/ TicketExpires(t)
    \/ \E s \in Sockets, t \in Tickets : Upgrade(s, t)
    \/ Shutdown
    \/ \E config \in Configs : UpdateChaos(config)

\* Timers that were started fire.
Spec == Init /\ [][Next]_vars /\ WF_vars(Pushes)

-----------------------------------------------------------------------------

TaskStatus == TASK_STATUSES \cup {Null}

TypeOK ==
    /\ robot \in [session : Sessions \cup {IdleSession}, task : TaskStatus]
    /\ stream.frameId \in 0..MaxFrames
    /\ stream.current \in {NoPatch} \cup 0..(Patches - 1)
    /\ chaos \in Configs
    /\ tickets \in [Tickets -> {"unissued", "issued", "gone"}]
    /\ sockets \in [Sockets -> {"open", "closed"}]
    /\ subscribed \in [Sockets -> BOOLEAN]
    /\ promised \in [Sockets -> {"nothing", "order", "everything"}]
    /\ untold \subseteq Sockets
    /\ \A s \in Sockets :
         /\ Len(line[s]) <= MaxLine
         /\ view[s].status \in Sessions \cup {IdleSession, Session(Unseen, Null)}
         /\ view[s].task \in TASK_STATUSES \cup {Unseen}
    /\ closed \in BOOLEAN

\* A client that has been sent everything knows where the session stands, whenever it
\* connected and whatever happened since: the greeting and the pushes that follow leave
\* no gap.  Of the record it knows as much, unless the record was made or altered during
\* its connection without a `changed' since: a task created while the session is not
\* IDLE, a forced status, and a record that a dispatch without effect brings in line are
\* told by nobody until the next `changed' (docs/api.md says that a task is told when it
\* is created).  (A client that came after the end of a task is not told of it.)
UpToDate ==
    \A s \in Sockets :
        sockets[s] = "open" /\ promised[s] = "everything" /\ line[s] = << >>
        /\ watched = {"status", "task"} =>
            /\ view[s].status = robot.session
            /\ robot.task # Null /\ s \notin untold =>
                 \/ view[s].task = robot.task
                 \/ view[s].task = Unseen /\ robot.task \notin {"ON_THE_WAY", "PAUSE"}

\* The frames reach a client in the order of their numbers, the whole map it was
\* greeted with among the others; only a new dataset starts over.
FramesInOrder ==
    [][ \A s \in Sockets :
          sockets'[s] = "open" /\ promised'[s] # "nothing" /\ view'[s].frame # view[s].frame =>
              LET old == view[s].frame
                  new == view'[s].frame
              IN  new[1] > old[1] \/ (new[1] = old[1] /\ new[2] > old[2]) ]_vars

\* What the robot has come to reaches every client that stays, however long the
\* messages were under way.
StatusArrives ==
    \A s \in Sockets : \A session \in Sessions \cup {IdleSession} :
        <>[](/\ sockets[s] = "open" /\ promised[s] = "everything"
             /\ "status" \in watched /\ robot.session = session)
            => <>[](view[s].status = session)
=============================================================================
