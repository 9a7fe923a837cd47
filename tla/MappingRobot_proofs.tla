------------------------- MODULE MappingRobot_proofs -------------------------
(* What is proved about the mapping half of the robot, for any frames, raw     *)
(* events and bounds.  A handler is a composition of operators on the robot's  *)
(* record, and every one that changes the session goes through afterReducer,   *)
(* so the induction is stated on records: a lemma for afterReducer, one for    *)
(* each operator that is built on it, and one for each handler.                *)
EXTENDS MappingRobot, MappingReducer_proofs

-----------------------------------------------------------------------------
(* What holds of a robot's record.                                            *)

Telemetries ==
    [ legitimateStartingPoint : BOOLEAN, legitimateEndPoint : BOOLEAN,
      startSettleTimer : BOOLEAN, endSettleTimer : BOOLEAN,
      lastPhase : MappingPhase \cup {Null, Undefined} ]
Devices == [pending : {Null, "EDGE_START", "EDGE_CLOSE"}, timers : SUBSET DeviceActions]
Uploads == [ state : {Null, "UPLOADING", "FAILED", "SUCCESS"},
             progress : 0..UploadSteps, timer : BOOLEAN ]
Pages == [timer : BOOLEAN, open : BOOLEAN]

\* The words of a frame.  Those the handlers push are spelled out, since the provers
\* do not know a literal for a string.
Words ==
    STRING \cup { Null, "none", "mapping", "idle", "precondition", "leave_dock", "find_boundary",
                  "edge_mapping", "map_edge_finish", "upload_map", "complete" }
StatusFrames == [work : Words, sub : Words]

Robots ==
    [ mapping : MappingContext, tasks : Seq(TASK_STATUSES),
      notify : StatusFrames, telemetry : Telemetries, device : Devices,
      waiting : Pages, upload : Uploads,
      failAt : 1..NoFailure, lawns : 0..MaxLawns ]

\* The type of the record, with the bound on the number of tasks.
Typed(r) == r \in Robots /\ Len(r.tasks) <= MaxTasks

\* What every dispatched event keeps.  The telemetry is synchronised by comparing
\* phases, so the settle callbacks are only right as long as the phase it knows is the
\* session's or none; and a session is good as the reducer keeps it.
InSync(r) ==
    /\ r.waiting.timer => r.waiting.open
    /\ r.waiting.open => r.mapping.phase = "MAP_COMPLETING"
    /\ r.telemetry.lastPhase \in {Null, r.mapping.phase}
    /\ r.telemetry.endSettleTimer =>
         r.telemetry.lastPhase = r.mapping.phase /\ r.mapping.phase \in FOLLOW_PHASES
    /\ r.telemetry.startSettleTimer =>
         r.telemetry.lastPhase = r.mapping.phase /\ r.mapping.phase = "MAP_SCAN_BOUNDARY_MANUAL"
    /\ Safe(r.mapping)

\* The active record tells the state of its session.  Not so between the creation of
\* a record and the event that starts its session.
Followed(r) == r.tasks # <<>> => Last(r.tasks) = statusFor(r.mapping.state, Last(r.tasks))

\* What the handlers keep of the timers, between one another.
Busy(r) ==
    /\ \A action \in {"EDGE_START", "EDGE_CLOSE"} :
         action \in r.device.timers <=> r.device.pending = action
    /\ r.upload.timer <=> r.upload.state = "UPLOADING"
    /\ r.upload.timer => r.upload.progress < UploadSteps

\* A signal is off on the entry of the phase it belongs to.
EarnedAnew(r, s) ==
    s.mapping.phase # r.mapping.phase =>
      /\ s.mapping.phase \in FOLLOW_PHASES => ~s.telemetry.legitimateEndPoint
      /\ s.mapping.phase = "MAP_SCAN_BOUNDARY_MANUAL" => ~s.telemetry.legitimateStartingPoint

\* Dispatching and pushing leaves the device, the upload and the injected failure to the
\* handlers.
SameTimers(r, s) == s.device = r.device /\ s.upload = r.upload /\ s.failAt = r.failAt

\* Operator by operator: from a robot in sync to a robot in sync, where the robot at the
\* start of the handler is r.
Leads(r, s, t) ==
    Typed(s) /\ InSync(s) /\ EarnedAnew(r, s) =>
      /\ Typed(t) /\ InSync(t) /\ EarnedAnew(r, t) /\ SameTimers(s, t)
      /\ Followed(s) => Followed(t)

-----------------------------------------------------------------------------
(* Dispatching an event.                                                      *)

\* To bring a record up to date once more changes nothing.
LEMMA StatusForIdempotent ==
    ASSUME NEW state, NEW status \in TASK_STATUSES
    PROVE  /\ statusFor(state, status) \in TASK_STATUSES
           /\ statusFor(state, statusFor(state, status)) = statusFor(state, status)
  BY DEF statusFor, TASK_STATUSES

\* The records after an event: none is lost, and the last one tells the state.
LEMMA SyncFollows ==
    ASSUME NEW list \in Seq(TASK_STATUSES), NEW c, Len(list) <= MaxTasks
    PROVE  /\ syncFromContext(list, c) \in Seq(TASK_STATUSES)
           /\ Len(syncFromContext(list, c)) <= MaxTasks
           /\ syncFromContext(list, c) # <<>> =>
                Last(syncFromContext(list, c)) = statusFor(c.state, Last(syncFromContext(list, c)))
<1>1. CASE list = <<>>
  BY <1>1 DEF syncFromContext
<1>2. CASE list # <<>>
  <2>. DEFINE n == Len(list)
              synced == [list EXCEPT ![n] = statusFor(c.state, list[n])]
  <2>1. n \in DOMAIN list /\ list[n] \in TASK_STATUSES
    BY <1>2
  <2>2. synced \in Seq(TASK_STATUSES) /\ Len(synced) = n /\ synced[n] = statusFor(c.state, list[n])
    BY <2>1, StatusForIdempotent
  <2>3. syncFromContext(list, c) = synced
    BY <1>2 DEF syncFromContext
  <2>. QED BY <2>1, <2>2, <2>3, StatusForIdempotent DEF Last
<1>. QED BY <1>1, <1>2

\* A scenario's start appends one record to none.
LEMMA EnsuredTasks ==
    ASSUME NEW r, Typed(r), NEW event
    PROVE  /\ Typed(ensureScenarioMappingTask(r, event))
           /\ \A field \in DOMAIN r \ {"tasks"} :
                ensureScenarioMappingTask(r, event)[field] = r[field]
  BY BoundsAssumption
     DEF ensureScenarioMappingTask, createTask, TASK_STATUSES, Typed, Robots

\* The telemetry after a new phase.
LEMMA SyncWithPhase ==
    ASSUME NEW t \in Telemetries, NEW phase \in MappingPhase \cup {Null, Undefined},
           phase # t.lastPhase
    PROVE  /\ syncWithPhase(t, phase) \in Telemetries
           /\ syncWithPhase(t, phase).lastPhase = phase
           /\ syncWithPhase(t, phase).endSettleTimer => phase \in FOLLOW_PHASES
           /\ syncWithPhase(t, phase).startSettleTimer => phase = "MAP_SCAN_BOUNDARY_MANUAL"
           /\ phase \in FOLLOW_PHASES => ~syncWithPhase(t, phase).legitimateEndPoint
           /\ phase = "MAP_SCAN_BOUNDARY_MANUAL" =>
                ~syncWithPhase(t, phase).legitimateStartingPoint
  BY DEF syncWithPhase, resetTelemetry, Telemetries, FOLLOW_PHASES

\* The reactions to a new phase: the countdown is armed on the completion page,
\* cleared when the page is left, and is otherwise left alone.
LEMMA PhaseChanged ==
    ASSUME NEW s, Typed(s), NEW from, NEW to \in MappingPhase \cup {Null, Undefined},
           from # to, NEW t, t = onMappingPhaseChanged(s, from, to)
    PROVE  /\ Typed(t)
           /\ t.mapping = s.mapping /\ t.tasks = s.tasks /\ t.notify = s.notify
           /\ t.telemetry = syncWithPhase(s.telemetry, to)
           /\ SameTimers(s, t)
           /\ \/ to = "MAP_COMPLETING" /\ t.waiting.open
              \/ to # "MAP_COMPLETING" /\ from = "MAP_COMPLETING" /\ t.waiting = NotWaiting
              \/ from # "MAP_COMPLETING" /\ t.waiting = s.waiting
<1>. DEFINE count == IF to = "MAP_BOUNDARY_DONE" /\ s.lawns < MaxLawns
                     THEN s.lawns + 1 ELSE s.lawns
            tele     == syncWithPhase(s.telemetry, to)
            labelled == [s EXCEPT !.telemetry = tele, !.lawns = count]
<1>1. count \in 0..MaxLawns
  BY BoundsAssumption DEF Typed, Robots
<1>2. tele \in Telemetries
  BY SyncWithPhase DEF Typed, Robots, syncWithPhase
<1>. HIDE DEF count, tele
<1>3. /\ labelled \in Robots
      /\ labelled.mapping = s.mapping /\ labelled.tasks = s.tasks
      /\ labelled.notify = s.notify /\ labelled.telemetry = tele
      /\ labelled.waiting = s.waiting
      /\ SameTimers(s, labelled)
  BY <1>1, <1>2 DEF Typed, Robots, SameTimers
<1>4. t = CASE to = "MAP_COMPLETING"   -> armMapCompletingCountdown(labelled)
            [] from = "MAP_COMPLETING" -> clearMapCompletingCountdown(labelled)
            [] OTHER -> labelled
  BY DEF onMappingPhaseChanged, count, tele
<1>. HIDE DEF labelled
<1>5. CASE to = "MAP_COMPLETING"
  <2>1. t = [labelled EXCEPT !.waiting = [timer |-> TRUE, open |-> TRUE]]
    BY <1>4, <1>5 DEF armMapCompletingCountdown
  <2>2. [timer |-> TRUE, open |-> TRUE] \in Pages
    BY DEF Pages
  <2>3. t \in Robots /\ t.waiting = [timer |-> TRUE, open |-> TRUE]
    BY <1>3, <2>1, <2>2 DEF Robots
  <2>. QED BY <1>3, <1>5, <2>1, <2>3 DEF Typed, Robots, SameTimers, tele
<1>6. CASE to # "MAP_COMPLETING" /\ from = "MAP_COMPLETING"
  <2>1. t = [labelled EXCEPT !.waiting = NotWaiting]
    BY <1>4, <1>6 DEF clearMapCompletingCountdown
  <2>2. NotWaiting \in Pages
    BY DEF Pages, NotWaiting
  <2>3. t \in Robots /\ t.waiting = NotWaiting
    BY <1>3, <2>1, <2>2 DEF Robots
  <2>. QED BY <1>3, <1>6, <2>1, <2>3 DEF Typed, Robots, SameTimers, tele
<1>7. CASE to # "MAP_COMPLETING" /\ from # "MAP_COMPLETING"
  <2>1. t = labelled
    BY <1>4, <1>7
  <2>. QED BY <1>3, <1>7, <2>1 DEF Typed, tele
<1>. QED BY <1>5, <1>6, <1>7

\* Steps of a handler follow one another.
LEMMA LeadsOn ==
    ASSUME NEW r, NEW s, NEW t, NEW u, Leads(r, s, t), Leads(r, t, u)
    PROVE  Leads(r, s, u)
  BY DEF Leads, SameTimers

\* What has not changed has led nowhere.
LEMMA LeadsNowhere == ASSUME NEW r, NEW s PROVE Leads(r, s, s)
  BY DEF Leads, SameTimers

\* A good session is taken over, and the reactions to its phase bring the robot in sync.
LEMMA AfterReducer ==
    ASSUME NEW r, NEW s, NEW event, NEW ctx \in MappingContext,
           Typed(s) /\ Safe(s.mapping) => Safe(ctx)
    PROVE  /\ Leads(r, s, afterReducer(s, event, ctx))
           /\ Typed(s) => /\ afterReducer(s, event, ctx).mapping = ctx
                          /\ afterReducer(s, event, ctx).notify = s.notify
                          /\ Followed(afterReducer(s, event, ctx))
<1>. SUFFICES ASSUME Typed(s)
     PROVE  /\ InSync(s) /\ EarnedAnew(r, s) =>
                 Typed(afterReducer(s, event, ctx)) /\ InSync(afterReducer(s, event, ctx))
                 /\ EarnedAnew(r, afterReducer(s, event, ctx))
                 /\ SameTimers(s, afterReducer(s, event, ctx))
            /\ afterReducer(s, event, ctx).mapping = ctx
            /\ afterReducer(s, event, ctx).notify = s.notify
            /\ Followed(afterReducer(s, event, ctx))
  BY DEF Leads
<1>. DEFINE ensured == ensureScenarioMappingTask(s, event)
            records == syncFromContext(ensured.tasks, ctx)
            synced  == [ensured EXCEPT !.mapping = ctx, !.tasks = syncFromContext(@, ctx)]
            t       == afterReducer(s, event, ctx)
<1>1. /\ Typed(ensured)
      /\ ensured.mapping = s.mapping /\ ensured.notify = s.notify
      /\ ensured.telemetry = s.telemetry /\ ensured.waiting = s.waiting
      /\ SameTimers(s, ensured)
  BY EnsuredTasks DEF Typed, Robots, SameTimers
<1>2. /\ records \in Seq(TASK_STATUSES) /\ Len(records) <= MaxTasks
      /\ records # <<>> => Last(records) = statusFor(ctx.state, Last(records))
  <2>1. ensured.tasks \in Seq(TASK_STATUSES) /\ Len(ensured.tasks) <= MaxTasks
    BY <1>1 DEF Typed, Robots
  <2>. HIDE DEF ensured
  <2>. QED BY <2>1, SyncFollows
<1>3. t = IF ctx.phase # s.mapping.phase
          THEN onMappingPhaseChanged(synced, s.mapping.phase, ctx.phase)
          ELSE synced
  BY DEF afterReducer
<1>. HIDE DEF ensured, t
<1>4. synced = [ensured EXCEPT !.mapping = ctx, !.tasks = records]
  BY <1>1 DEF Typed, Robots
<1>. HIDE DEF synced, records
<1>5. /\ Typed(synced)
      /\ synced.mapping = ctx /\ synced.tasks = records /\ synced.notify = s.notify
      /\ synced.telemetry = s.telemetry /\ synced.waiting = s.waiting
      /\ SameTimers(s, synced)
  BY <1>1, <1>2, <1>4 DEF Typed, Robots, SameTimers
<1>6. CASE ctx.phase = s.mapping.phase
  <2>1. t = synced
    BY <1>3, <1>6
  <2>2. (InSync(s) => InSync(t)) /\ Followed(t)
    BY <1>2, <1>5, <1>6, <2>1 DEF InSync, Followed
  <2>3. EarnedAnew(r, s) => EarnedAnew(r, t)
    BY <1>5, <1>6, <2>1 DEF EarnedAnew
  <2>. QED BY <1>5, <2>1, <2>2, <2>3 DEF t
<1>7. CASE ctx.phase # s.mapping.phase
  <2>1. t = onMappingPhaseChanged(synced, s.mapping.phase, ctx.phase)
    BY <1>3, <1>7
  <2>2. ctx.phase \in MappingPhase \cup {Null, Undefined}
    BY DEF MappingContext
  <2>3. /\ Typed(t)
        /\ t.mapping = ctx /\ t.tasks = records /\ t.notify = s.notify
        /\ t.telemetry = syncWithPhase(s.telemetry, ctx.phase)
        /\ SameTimers(s, t)
        /\ \/ ctx.phase = "MAP_COMPLETING" /\ t.waiting.open
           \/ /\ ctx.phase # "MAP_COMPLETING" /\ s.mapping.phase = "MAP_COMPLETING"
              /\ t.waiting = NotWaiting
           \/ s.mapping.phase # "MAP_COMPLETING" /\ t.waiting = s.waiting
    BY <1>5, <1>7, <2>1, <2>2, PhaseChanged DEF SameTimers
  <2>4. s.telemetry \in Telemetries
    BY DEF Typed, Robots
  <2>5. ASSUME InSync(s), EarnedAnew(r, s)
        PROVE  InSync(t) /\ EarnedAnew(r, t)
    <3>1. ctx.phase = s.telemetry.lastPhase => ctx.phase = Null /\ t.telemetry = s.telemetry
      BY <1>7, <2>3, <2>5 DEF InSync, syncWithPhase
    <3>2. ctx.phase = s.telemetry.lastPhase =>
            ~s.telemetry.endSettleTimer /\ ~s.telemetry.startSettleTimer
      BY <1>7, <2>5 DEF InSync
    <3>3. Null \notin FOLLOW_PHASES \cup {"MAP_SCAN_BOUNDARY_MANUAL"}
      BY DEF Null, FOLLOW_PHASES
    <3>4. /\ t.telemetry.lastPhase = ctx.phase
          /\ t.telemetry.endSettleTimer => ctx.phase \in FOLLOW_PHASES
          /\ t.telemetry.startSettleTimer => ctx.phase = "MAP_SCAN_BOUNDARY_MANUAL"
          /\ ctx.phase \in FOLLOW_PHASES => ~t.telemetry.legitimateEndPoint
          /\ ctx.phase = "MAP_SCAN_BOUNDARY_MANUAL" => ~t.telemetry.legitimateStartingPoint
      BY <2>2, <2>3, <2>4, <3>1, <3>2, <3>3, SyncWithPhase
    <3>5. /\ t.waiting.timer => t.waiting.open
          /\ t.waiting.open => ctx.phase = "MAP_COMPLETING"
      BY <2>3, <2>5 DEF InSync, NotWaiting
    <3>6. Safe(ctx)
      BY <2>5 DEF InSync
    <3>7. InSync(t)
      BY <2>3, <3>4, <3>5, <3>6 DEF InSync
    <3>8. EarnedAnew(r, t)
      BY <2>3, <3>4 DEF EarnedAnew
    <3>. QED BY <3>7, <3>8
  <2>6. Followed(t)
    BY <1>2, <2>3 DEF Followed
  <2>. QED BY <2>3, <2>5, <2>6 DEF t
<1>. QED BY <1>6, <1>7 DEF t

\* Any event the session knows: the reducer keeps a good session good.
LEMMA DispatchLeads ==
    ASSUME NEW r, NEW s, NEW event \in MappingEvent
    PROVE  /\ Leads(r, s, dispatchMapping(s, event))
           /\ Typed(s) =>
                /\ dispatchMapping(s, event).mapping = mappingReducer(s.mapping, event, FALSE)
                /\ dispatchMapping(s, event).notify = s.notify
                /\ Followed(dispatchMapping(s, event))
<1>. SUFFICES ASSUME Typed(s)
     PROVE  /\ Leads(r, s, dispatchMapping(s, event))
            /\ dispatchMapping(s, event).mapping = mappingReducer(s.mapping, event, FALSE)
            /\ dispatchMapping(s, event).notify = s.notify
            /\ Followed(dispatchMapping(s, event))
  BY DEF Leads
<1>1. s.mapping \in MappingContext
  BY DEF Typed, Robots
<1>2. /\ mappingReducer(s.mapping, event, FALSE) \in MappingContext
      /\ Safe(s.mapping) => Safe(mappingReducer(s.mapping, event, FALSE))
  BY <1>1, MappingReducerSound DEF Sound
<1>. QED BY <1>2, AfterReducer DEF dispatchMapping

\* The last frame is outside of what is kept.
LEMMA NotedLeads ==
    ASSUME NEW r, NEW s, NEW frame \in StatusFrames
    PROVE  /\ Leads(r, s, [s EXCEPT !.notify = frame])
           /\ Typed(s) => /\ [s EXCEPT !.notify = frame].mapping = s.mapping
                          /\ [s EXCEPT !.notify = frame].notify = frame
<1>. SUFFICES ASSUME Typed(s)
     PROVE  /\ Leads(r, s, [s EXCEPT !.notify = frame])
            /\ [s EXCEPT !.notify = frame].mapping = s.mapping
            /\ [s EXCEPT !.notify = frame].notify = frame
  BY DEF Leads
<1>. DEFINE t == [s EXCEPT !.notify = frame]
<1>1. /\ Typed(t)
      /\ t.mapping = s.mapping /\ t.tasks = s.tasks /\ t.telemetry = s.telemetry
      /\ t.waiting = s.waiting /\ SameTimers(s, t) /\ t.notify = frame
  BY DEF Typed, Robots, SameTimers
<1>2. (InSync(s) => InSync(t)) /\ (Followed(s) => Followed(t))
  BY <1>1 DEF InSync, Followed
<1>3. EarnedAnew(r, s) => EarnedAnew(r, t)
  BY <1>1 DEF EarnedAnew
<1>. QED BY <1>1, <1>2, <1>3 DEF Leads

\* A reset also forgets the last frame.
LEMMA DispatchEventLeads ==
    ASSUME NEW r, NEW s, NEW event \in MappingEvent
    PROVE  /\ Leads(r, s, dispatchMappingEvent(s, event))
           /\ Typed(s) =>
                /\ dispatchMappingEvent(s, event).mapping = mappingReducer(s.mapping, event, FALSE)
                /\ event.type # "CMD_RESET" => dispatchMappingEvent(s, event).notify = s.notify
<1>. DEFINE t == IF event.type = "CMD_RESET" THEN [s EXCEPT !.notify = NoNotify] ELSE s
<1>1. NoNotify \in StatusFrames
  BY DEF NoNotify, StatusFrames, Words
<1>2. /\ Leads(r, s, t)
      /\ Typed(s) => t.mapping = s.mapping /\ (event.type # "CMD_RESET" => t.notify = s.notify)
  <2>1. CASE event.type = "CMD_RESET"
    BY <1>1, <2>1, NotedLeads
  <2>2. CASE event.type # "CMD_RESET"
    BY <2>2, LeadsNowhere
  <2>. QED BY <2>1, <2>2
<1>3. Typed(s) => Typed(t)
  <2>1. CASE event.type = "CMD_RESET"
    BY <1>1, <2>1 DEF Typed, Robots
  <2>. QED BY <2>1
<1>4. dispatchMappingEvent(s, event) = dispatchMapping(t, event)
  BY DEF dispatchMappingEvent
<1>. HIDE DEF t
<1>5. /\ Leads(r, t, dispatchMapping(t, event))
      /\ Typed(t) =>
                /\ dispatchMapping(t, event).mapping = mappingReducer(t.mapping, event, FALSE)
                /\ dispatchMapping(t, event).notify = t.notify
  BY DispatchLeads
<1>. QED BY <1>2, <1>3, <1>4, <1>5, LeadsOn

-----------------------------------------------------------------------------
(* Pushing a frame.                                                           *)

\* The commands and reports a handler dispatches are events of the session.
LEMMA HandlerEvents ==
    /\ \A type \in {"CMD_PAUSE", "CMD_RESUME", "CMD_CANCEL", "CMD_SWITCH_MANUAL",
                    "CMD_EXIT_MANUAL", "CMD_CONFIRM", "CMD_RESET", "CMD_ADD_LAWN",
                    "CMD_SAVE"} :
         Command(type) \in MappingEvent /\ Command(type).type = type
    /\ \A mode \in {"auto", "remote"} : [type |-> "CMD_START", mode |-> mode] \in MappingEvent
    /\ Phase("MAP_COMPLETING") \in MappingEvent
    /\ Phase("MAP_COMPLETING").type = "DEVICE_PHASE"
    /\ Phase("MAP_COMPLETING").phase = "MAP_COMPLETING"
    /\ \A active \in BOOLEAN :
         /\ Estop(active) \in MappingEvent
         /\ Estop(active).type = "DEVICE_ESTOP" /\ Estop(active).active = active
    /\ [type |-> "DEVICE_ERROR", recoverable |-> FALSE] \in MappingEvent
<1>1. \A type \in {"CMD_PAUSE", "CMD_RESUME", "CMD_CANCEL", "CMD_SWITCH_MANUAL",
                   "CMD_EXIT_MANUAL", "CMD_CONFIRM", "CMD_RESET", "CMD_ADD_LAWN",
                   "CMD_SAVE"} :
        Command(type) \in MappingEvent /\ Command(type).type = type
  BY DEF Command, MappingEvent, CommandEvents, SimulatorEvents, SimOnlyEvents
<1>2. \A mode \in {"auto", "remote"} : [type |-> "CMD_START", mode |-> mode] \in MappingEvent
  BY DEF MappingEvent, CommandEvents
<1>3. "MAP_COMPLETING" \in MappingPhase
  BY DEF MappingPhase, MAPPING_PHASES
<1>4. /\ Phase("MAP_COMPLETING") \in MappingEvent
      /\ Phase("MAP_COMPLETING").type = "DEVICE_PHASE"
      /\ Phase("MAP_COMPLETING").phase = "MAP_COMPLETING"
  BY <1>3 DEF Phase, MappingEvent, DeviceEvents
<1>5. \A active \in BOOLEAN :
        /\ Estop(active) \in MappingEvent
        /\ Estop(active).type = "DEVICE_ESTOP" /\ Estop(active).active = active
  BY DEF Estop, MappingEvent, DeviceEvents
<1>6. [type |-> "DEVICE_ERROR", recoverable |-> FALSE] \in MappingEvent
  BY DEF MappingEvent, DeviceEvents
<1>. QED BY <1>1, <1>2, <1>4, <1>5, <1>6

\* The statuses of the frames that are routed to the mapping session: the two others
\* belong to the mowing session.
MappingWork == Words \ {"mowing", "return_dock"}

\* What a frame of the mapping session means is an event of the session, or nothing.
LEMMA FrameEvents ==
    ASSUME NEW work \in MappingWork, NEW sub
    PROVE  /\ statusEvent(work) \in MappingEvent \cup {NoEvent}
           /\ phaseEvent(work, sub) \in MappingEvent \cup {NoEvent}
<1>1. statusEvent(work) \in MappingEvent \cup {NoEvent}
  BY DEF statusEvent, CLOUD_WORK_STATUSES, MappingEvent, DeviceEvents, RobotWorkStatus
<1>2. mapBackendSubStatus(work, sub) \in MappingPhase \cup {"skip", "undocked"}
  <2>1. CASE work \in {"mapping", "mapping_completed"} /\ sub \in DOMAIN MAPPING_SUB
    <3>1. mapBackendSubStatus(work, sub) = MAPPING_SUB[sub]
      BY <2>1 DEF mapBackendSubStatus, SUB_STATUS_TABLE
    <3>2. MAPPING_SUB[sub] \in MappingPhase \cup {"skip", "undocked"}
      BY <2>1 DEF MAPPING_SUB, MappingPhase, MAPPING_PHASES, RechargePhases
    <3>. QED BY <3>1, <3>2
  <2>2. CASE work \in {"mapping", "mapping_completed"} /\ sub \notin DOMAIN MAPPING_SUB
    BY <2>2 DEF mapBackendSubStatus, SUB_STATUS_TABLE
  <2>3. CASE work = "charging"
    BY <2>3 DEF mapBackendSubStatus, SUB_STATUS_TABLE, CHARGING_SUB, MappingPhase, RechargePhases
  <2>4. CASE work \notin {"mapping", "mapping_completed", "charging"}
    BY <2>4 DEF mapBackendSubStatus, SUB_STATUS_TABLE, MappingWork
  <2>. QED BY <2>1, <2>2, <2>3, <2>4
<1>3. \A phase \in MappingPhase : [type |-> "DEVICE_PHASE", phase |-> phase] \in MappingEvent
  BY DEF MappingEvent, DeviceEvents
<1>4. [type |-> "DEVICE_UNDOCKED"] \in MappingEvent
  BY DEF MappingEvent, DeviceEvents
<1>5. phaseEvent(work, sub) \in MappingEvent \cup {NoEvent}
  BY <1>2, <1>3, <1>4 DEF phaseEvent
<1>. QED BY <1>1, <1>5

\* The edge to idle ends the session, by way of the completion page.
LEMMA CompletionLeads ==
    ASSUME NEW r, NEW s PROVE Leads(r, s, applyMappingToIdleCompletion(s))
<1>. DEFINE done == IF s.mapping.phase # "MAP_COMPLETING"
                    THEN dispatchMappingEvent(s, Phase("MAP_COMPLETING")) ELSE s
<1>1. Leads(r, s, done)
  BY HandlerEvents, DispatchEventLeads, LeadsNowhere
<1>. HIDE DEF done
<1>2. Leads(r, done, dispatchMappingEvent(done, Command("CMD_CONFIRM")))
  BY HandlerEvents, DispatchEventLeads
<1>3. Leads(r, s, dispatchMappingEvent(done, Command("CMD_CONFIRM")))
  BY <1>1, <1>2, LeadsOn
<1>4. applyMappingToIdleCompletion(s) \in
        {s, dispatchMappingEvent(done, Command("CMD_CONFIRM"))}
  BY DEF applyMappingToIdleCompletion, done
<1>. QED BY <1>3, <1>4, LeadsNowhere

\* A failed undocking only dispatches an event.
LEMMA UndockingFailedLeads ==
    ASSUME NEW r, NEW s PROVE Leads(r, s, applyUndockingFailedTermination(s))
  BY HandlerEvents, DispatchEventLeads, LeadsNowhere DEF applyUndockingFailedTermination

\* A frame dispatches at most the event it is mapped to.
LEMMA NotifyLeads ==
    ASSUME NEW r, NEW s, NEW event \in MappingEvent \cup {NoEvent}
    PROVE  Leads(r, s, dispatchNotify(s, event))
  BY DispatchEventLeads, LeadsNowhere DEF dispatchNotify

\* Both events of a frame, the status before the phase.
LEMMA FrameLeads ==
    ASSUME NEW r, NEW s, NEW frame, frame.work \in MappingWork
    PROVE  Leads(r, s, dispatchFrame(s, frame))
<1>. DEFINE t == dispatchNotify(s, statusEvent(frame.work))
<1>1. Leads(r, s, t)
  BY FrameEvents, NotifyLeads
<1>. HIDE DEF t
<1>2. Leads(r, t, dispatchNotify(t, phaseEvent(frame.work, frame.sub)))
  BY FrameEvents, NotifyLeads
<1>. QED BY <1>1, <1>2, LeadsOn DEF dispatchFrame, t

\* A frame that is not a stop: its events between the two edges.
LEMMA MappingFrameLeads ==
    ASSUME NEW r, NEW s, NEW frame, frame.work \in MappingWork, NEW prev
    PROVE  Leads(r, s, applyMappingFrame(s, frame, prev))
<1>. DEFINE released == applyReleaseEdge(s, prev)
            told     == dispatchFrame(released, frame)
            idled    == applyIdleEdge(told, prev, frame.work)
<1>1. Leads(r, s, released)
  BY HandlerEvents, DispatchEventLeads, LeadsNowhere DEF applyReleaseEdge
<1>2. Leads(r, released, told)
  BY FrameLeads
<1>3. Leads(r, told, idled)
  BY CompletionLeads, LeadsNowhere DEF applyIdleEdge
<1>4. Leads(r, idled, applyUndockingFailedTermination(idled))
  BY UndockingFailedLeads
<1>5. applyMappingFrame(s, frame, prev) = applyUndockingFailedTermination(idled)
  BY DEF applyMappingFrame
<1>. HIDE DEF idled, told, released
<1>. QED BY <1>1, <1>2, <1>3, <1>4, <1>5, LeadsOn

\* Every frame keeps the robot in sync, a repeated one by doing nothing.
LEMMA PushLeads ==
    ASSUME NEW r, NEW s, NEW work \in MappingWork, NEW sub \in Words
    PROVE  Leads(r, s, pushRatelStatus(s, work, sub))
<1>. DEFINE frame == [work |-> work, sub |-> sub]
            noted == [s EXCEPT !.notify = frame]
<1>1. frame \in StatusFrames /\ frame.work = work
  BY DEF StatusFrames, MappingWork
<1>2. Leads(r, s, noted)
  BY <1>1, NotedLeads
<1>3. pushRatelStatus(s, work, sub) \in
        {s, dispatchMappingEvent(noted, Estop(TRUE)), applyMappingFrame(noted, frame, s.notify.work)}
  BY DEF pushRatelStatus
<1>. HIDE DEF noted, frame
<1>4. Leads(r, noted, dispatchMappingEvent(noted, Estop(TRUE)))
  BY HandlerEvents, DispatchEventLeads
<1>5. Leads(r, noted, applyMappingFrame(noted, frame, s.notify.work))
  BY <1>1, MappingFrameLeads
<1>6. Leads(r, s, dispatchMappingEvent(noted, Estop(TRUE)))
  BY <1>2, <1>4, LeadsOn
<1>7. Leads(r, s, applyMappingFrame(noted, frame, s.notify.work))
  BY <1>2, <1>5, LeadsOn
<1>. QED BY <1>3, <1>6, <1>7, LeadsNowhere

-----------------------------------------------------------------------------
(* The handlers.                                                              *)

\* What holds of the robot between two handlers.
Robust(r) == Typed(r) /\ InSync(r) /\ Followed(r) /\ Busy(r)

\* A handler that started in r has come to s.
Reaches(r, s) == Typed(s) /\ InSync(s) /\ Followed(s) /\ EarnedAnew(r, s)

\* What can be reached leads on to what can be reached.
LEMMA ReachesOn ==
    ASSUME NEW r, NEW s, NEW t, Reaches(r, s), Leads(r, s, t)
    PROVE  Reaches(r, t) /\ SameTimers(s, t)
  BY DEF Reaches, Leads

\* A robust robot reaches itself.
LEMMA ReachesItself == ASSUME NEW r, Robust(r) PROVE Reaches(r, r)
  BY DEF Robust, Reaches, EarnedAnew

\* Scheduling and stopping timers touches nothing else.
LEMMA SetDevice ==
    ASSUME NEW r, NEW s, Reaches(r, s), NEW d \in Devices
    PROVE  LET t == [s EXCEPT !.device = d]
           IN  /\ Reaches(r, t) /\ t.device = d /\ t.mapping = s.mapping
               /\ t.upload = s.upload /\ t.failAt = s.failAt /\ t.notify = s.notify
<1>. DEFINE t == [s EXCEPT !.device = d]
<1>1. /\ Typed(t) /\ t.device = d /\ t.mapping = s.mapping /\ t.tasks = s.tasks
      /\ t.telemetry = s.telemetry /\ t.waiting = s.waiting
      /\ t.upload = s.upload /\ t.failAt = s.failAt /\ t.notify = s.notify
  BY DEF Reaches, Typed, Robots
<1>2. InSync(t) /\ Followed(t) /\ EarnedAnew(r, t)
  BY <1>1 DEF Reaches, InSync, Followed, EarnedAnew
<1>. QED BY <1>1, <1>2 DEF Reaches

\* The upload is said to be elsewhere: nothing else changes.
LEMMA SetUpload ==
    ASSUME NEW r, NEW s, Reaches(r, s), NEW u \in Uploads
    PROVE  LET t == [s EXCEPT !.upload = u]
           IN  /\ Reaches(r, t) /\ t.upload = u /\ t.mapping = s.mapping
               /\ t.device = s.device /\ t.failAt = s.failAt /\ t.notify = s.notify
<1>. DEFINE t == [s EXCEPT !.upload = u]
<1>1. /\ Typed(t) /\ t.upload = u /\ t.mapping = s.mapping /\ t.tasks = s.tasks
      /\ t.telemetry = s.telemetry /\ t.waiting = s.waiting
      /\ t.device = s.device /\ t.failAt = s.failAt /\ t.notify = s.notify
  BY DEF Reaches, Typed, Robots
<1>2. InSync(t) /\ Followed(t) /\ EarnedAnew(r, t)
  BY <1>1 DEF Reaches, InSync, Followed, EarnedAnew
<1>. QED BY <1>1, <1>2 DEF Reaches

\* The injected failure is set: nothing else changes.
LEMMA SetFailAt ==
    ASSUME NEW r, NEW s, Reaches(r, s), NEW step \in 1..NoFailure
    PROVE  LET t == [s EXCEPT !.failAt = step]
           IN  Reaches(r, t) /\ t.device = s.device /\ t.upload = s.upload
<1>. DEFINE t == [s EXCEPT !.failAt = step]
<1>1. /\ Typed(t) /\ t.mapping = s.mapping /\ t.tasks = s.tasks
      /\ t.telemetry = s.telemetry /\ t.waiting = s.waiting
      /\ t.device = s.device /\ t.upload = s.upload
  BY DEF Reaches, Typed, Robots
<1>2. InSync(t) /\ Followed(t) /\ EarnedAnew(r, t)
  BY <1>1 DEF Reaches, InSync, Followed, EarnedAnew
<1>. QED BY <1>1, <1>2 DEF Reaches

\* Signals and callbacks may go off, and a signal on where its phase has not changed.
LEMMA SetTelemetry ==
    ASSUME NEW r, NEW s, Reaches(r, s), NEW y \in Telemetries,
           y.lastPhase \in {Null, s.telemetry.lastPhase},
           y.endSettleTimer => s.telemetry.endSettleTimer /\ y.lastPhase = s.telemetry.lastPhase,
           y.startSettleTimer =>
             s.telemetry.startSettleTimer /\ y.lastPhase = s.telemetry.lastPhase,
           \/ s.mapping.phase = r.mapping.phase
           \/ ~y.legitimateStartingPoint /\ ~y.legitimateEndPoint
    PROVE  LET t == [s EXCEPT !.telemetry = y]
           IN  /\ Reaches(r, t) /\ SameTimers(s, t)
               /\ t.mapping = s.mapping /\ t.notify = s.notify
<1>. DEFINE t == [s EXCEPT !.telemetry = y]
<1>1. /\ Typed(t) /\ SameTimers(s, t) /\ t.mapping = s.mapping /\ t.tasks = s.tasks
      /\ t.telemetry = y /\ t.waiting = s.waiting /\ t.notify = s.notify
  BY DEF Reaches, Typed, Robots, SameTimers
<1>2. InSync(t) /\ Followed(t)
  BY <1>1 DEF Reaches, InSync, Followed
<1>3. EarnedAnew(r, t)
  BY <1>1 DEF EarnedAnew
<1>. QED BY <1>1, <1>2, <1>3 DEF Reaches

\* The countdown may stop.
LEMMA SetWaiting ==
    ASSUME NEW r, NEW s, Reaches(r, s), NEW w \in Pages,
           ~w.timer, w.open => s.waiting.open
    PROVE  LET t == [s EXCEPT !.waiting = w]
           IN  Reaches(r, t) /\ SameTimers(s, t) /\ t.mapping = s.mapping /\ t.notify = s.notify
<1>. DEFINE t == [s EXCEPT !.waiting = w]
<1>1. /\ Typed(t) /\ SameTimers(s, t) /\ t.mapping = s.mapping /\ t.tasks = s.tasks
      /\ t.telemetry = s.telemetry /\ t.waiting = w /\ t.notify = s.notify
  BY DEF Reaches, Typed, Robots, SameTimers
<1>2. InSync(t) /\ Followed(t) /\ EarnedAnew(r, t)
  BY <1>1 DEF Reaches, InSync, Followed, EarnedAnew
<1>. QED BY <1>1, <1>2 DEF Reaches

\* The countdown of the completion page is stopped: nothing else changes.
LEMMA ClearedCountdown ==
    ASSUME NEW r, NEW s, Reaches(r, s)
    PROVE  LET t == clearMapCompletingCountdown(s)
           IN  Reaches(r, t) /\ SameTimers(s, t) /\ t.mapping = s.mapping /\ t.notify = s.notify
<1>1. NotWaiting \in Pages /\ ~NotWaiting.timer /\ ~NotWaiting.open
  BY DEF NotWaiting, Pages
<1>. QED BY <1>1, SetWaiting DEF clearMapCompletingCountdown

\* What a dispatched event or a pushed frame does to a robot that a handler has reached.
LEMMA DispatchReaches ==
    ASSUME NEW r, NEW s, Reaches(r, s), NEW event \in MappingEvent
    PROVE  /\ Reaches(r, dispatchMapping(s, event)) /\ SameTimers(s, dispatchMapping(s, event))
           /\ Reaches(r, dispatchMappingEvent(s, event))
           /\ SameTimers(s, dispatchMappingEvent(s, event))
  BY DispatchLeads, DispatchEventLeads, ReachesOn

\* A frame the robot pushes itself is handled as any frame is.
LEMMA PushReaches ==
    ASSUME NEW r, NEW s, Reaches(r, s), NEW work \in MappingWork, NEW sub \in Words
    PROVE  /\ Reaches(r, pushRatelStatus(s, work, sub))
           /\ SameTimers(s, pushRatelStatus(s, work, sub))
  BY PushLeads, ReachesOn

\* The timers of a handler that leaves them alone stay in order.
LEMMA BusyStays ==
    ASSUME NEW s, NEW t, Busy(s), SameTimers(s, t) PROVE Busy(t)
  BY DEF Busy, SameTimers

\* The words of the frames the handlers push.
LEMMA HandlerWords ==
    /\ {"mapping", "idle"} \subseteq MappingWork
    /\ {"none", "precondition", "upload_map", "complete", "find_boundary", "edge_mapping",
        "map_edge_finish", "leave_dock"} \subseteq Words
    /\ \A action \in DeviceActions : ack(action) \in Words
  BY DEF MappingWork, Words, DeviceActions, ack

\* The start of an upload: nothing runs until its first frame is out.
LEMMA BeginUpload ==
    ASSUME NEW r, NEW s, Reaches(r, s), NEW t, t = beginMapUpload(s)
    PROVE  /\ Reaches(r, t) /\ t.device = s.device
           /\ t.upload.state = "UPLOADING" /\ t.upload.progress = 0 /\ t.upload.timer
<1>. DEFINE none   == [state |-> "UPLOADING", progress |-> 0, timer |-> FALSE]
            run    == [none EXCEPT !.timer = TRUE]
            begun  == [s EXCEPT !.upload = none]
            pushed == pushRatelStatus(begun, "mapping", "upload_map")
<1>1. /\ none \in Uploads /\ run \in Uploads
      /\ run.state = "UPLOADING" /\ run.progress = 0 /\ run.timer
  <2>1. none \in Uploads /\ none.state = "UPLOADING" /\ none.progress = 0
    BY BoundsAssumption DEF Uploads
  <2>. HIDE DEF none
  <2>. QED BY <2>1 DEF Uploads
<1>. HIDE DEF none, run
<1>2. Reaches(r, begun) /\ begun.upload = none /\ begun.device = s.device
  BY <1>1, SetUpload
<1>3. t = [pushed EXCEPT !.upload.timer = TRUE]
  BY DEF beginMapUpload, none
<1>. HIDE DEF begun
<1>4. Reaches(r, pushed) /\ SameTimers(begun, pushed)
  BY <1>2, HandlerWords, PushReaches
<1>. HIDE DEF pushed
<1>5. t = [pushed EXCEPT !.upload = run]
  <2>1. pushed.upload = none /\ pushed \in Robots
    BY <1>2, <1>4 DEF SameTimers, Reaches, Typed
  <2>. QED BY <1>3, <2>1 DEF Robots, run
<1>6. Reaches(r, t) /\ t.upload = run /\ t.device = pushed.device
  BY <1>1, <1>4, <1>5, SetUpload
<1>. QED BY <1>1, <1>2, <1>4, <1>6 DEF SameTimers

\* An upload that starts has its timer.
LEMMA BusyUpload ==
    ASSUME NEW r, Busy(r), NEW t, t.device = r.device,
           t.upload.state = "UPLOADING", t.upload.progress = 0, t.upload.timer
    PROVE  Busy(t)
  BY BoundsAssumption DEF Busy

\* A task is created on top of the older ones, and its session is started.
LEMMA CreateKeeps ==
    ASSUME NEW r, Robust(r), NEW mode \in {"auto", "remote"}, Len(r.tasks) < MaxTasks
    PROVE  Reaches(r, createMappingTask(r, mode)) /\ Busy(createMappingTask(r, mode))
<1>. DEFINE recorded == [r EXCEPT !.lawns = 0, !.tasks = createTask(@)]
            event    == [type |-> "CMD_START", mode |-> mode]
            started  == dispatchMapping(recorded, event)
<1>1. createTask(r.tasks) \in Seq(TASK_STATUSES) /\ Len(createTask(r.tasks)) <= MaxTasks
  BY BoundsAssumption DEF createTask, TASK_STATUSES, Robust, Typed, Robots
<1>2. /\ Typed(recorded) /\ recorded.mapping = r.mapping /\ SameTimers(r, recorded)
      /\ recorded.telemetry = r.telemetry /\ recorded.waiting = r.waiting
  <2>1. recorded = [r EXCEPT !.lawns = 0, !.tasks = createTask(r.tasks)]
    BY DEF Robust, Typed, Robots
  <2>2. 0 \in 0..MaxLawns
    BY BoundsAssumption
  <2>. HIDE DEF recorded
  <2>. QED BY <1>1, <2>1, <2>2 DEF Robust, Typed, Robots, SameTimers
<1>3. InSync(recorded) /\ EarnedAnew(r, recorded)
  BY <1>2 DEF Robust, InSync, EarnedAnew
<1>. HIDE DEF recorded
<1>4. event \in MappingEvent
  BY HandlerEvents
<1>5. Reaches(r, started) /\ SameTimers(recorded, started)
  BY <1>2, <1>3, <1>4, DispatchLeads DEF Leads, Reaches
<1>. HIDE DEF started, event
<1>6. /\ Reaches(r, pushRatelStatus(started, "mapping", "precondition"))
      /\ SameTimers(started, pushRatelStatus(started, "mapping", "precondition"))
  BY <1>5, HandlerWords, PushReaches
<1>7. createMappingTask(r, mode) = pushRatelStatus(started, "mapping", "precondition")
  BY DEF createMappingTask, started, event, recorded
<1>. QED BY <1>2, <1>5, <1>6, <1>7, BusyStays DEF Robust

\* An extension starts from a session and telemetry that are new.
LEMMA ExtendKeeps ==
    ASSUME NEW r, Robust(r), Len(r.tasks) < MaxTasks
    PROVE  LET afresh == [clearMapCompletingCountdown(clearMappingActionTimers(r)) EXCEPT
                            !.mapping = simulatorInitialContext, !.notify = NoNotify,
                            !.telemetry = resetTelemetry, !.tasks = createTask(@)]
               started == dispatchMapping(afresh, [type |-> "CMD_START", mode |-> "remote"])
               t == [pushRatelStatus(started, "mapping", "precondition") EXCEPT
                       !.device.timers = @ \cup {"LEAVE_DOCK", "FIND_BOUNDARY"}]
           IN  Reaches(r, t) /\ Busy(t)
<1>. DEFINE quiet  == clearMapCompletingCountdown(clearMappingActionTimers(r))
            afresh == [quiet EXCEPT
                         !.mapping = simulatorInitialContext, !.notify = NoNotify,
                         !.telemetry = resetTelemetry, !.tasks = createTask(@)]
            event   == [type |-> "CMD_START", mode |-> "remote"]
            started == dispatchMapping(afresh, event)
            pushed  == pushRatelStatus(started, "mapping", "precondition")
            t == [pushed EXCEPT !.device.timers = @ \cup {"LEAVE_DOCK", "FIND_BOUNDARY"}]
<1>1. createTask(r.tasks) \in Seq(TASK_STATUSES) /\ Len(createTask(r.tasks)) <= MaxTasks
  BY BoundsAssumption DEF createTask, TASK_STATUSES, Robust, Typed, Robots
<1>2. NoDevice \in Devices /\ NoUpload \in Uploads /\ NotWaiting \in Pages
  BY BoundsAssumption DEF NoDevice, Devices, NoUpload, Uploads, NotWaiting, Pages
<1>3. /\ quiet \in Robots /\ quiet.tasks = r.tasks /\ quiet.waiting = NotWaiting
      /\ quiet.device = NoDevice /\ quiet.upload = NoUpload
  BY <1>2 DEF clearMapCompletingCountdown, clearMappingActionTimers, Robust, Typed, Robots
<1>4. NoNotify \in StatusFrames
  BY DEF NoNotify, StatusFrames, Words
<1>5. /\ resetTelemetry \in Telemetries /\ resetTelemetry.lastPhase = Null
      /\ ~resetTelemetry.startSettleTimer /\ ~resetTelemetry.endSettleTimer
      /\ ~resetTelemetry.legitimateStartingPoint /\ ~resetTelemetry.legitimateEndPoint
  BY DEF resetTelemetry, Telemetries
<1>6. simulatorInitialContext \in MappingContext /\ Safe(simulatorInitialContext)
  BY InitialGood DEF Good
<1>. HIDE DEF quiet
<1>7. /\ Typed(afresh) /\ afresh.mapping = simulatorInitialContext
      /\ afresh.telemetry = resetTelemetry /\ afresh.waiting = NotWaiting
      /\ afresh.device = NoDevice /\ afresh.upload = NoUpload
  <2>1. afresh = [quiet EXCEPT
                    !.mapping = simulatorInitialContext, !.notify = NoNotify,
                    !.telemetry = resetTelemetry, !.tasks = createTask(r.tasks)]
    BY <1>3 DEF Robots
  <2>. HIDE DEF afresh
  <2>. QED BY <1>1, <1>3, <1>4, <1>5, <1>6, <2>1 DEF Typed, Robots
<1>8. InSync(afresh) /\ EarnedAnew(r, afresh)
  BY <1>5, <1>6, <1>7 DEF InSync, EarnedAnew, NotWaiting
<1>. HIDE DEF afresh
<1>9. event \in MappingEvent
  BY HandlerEvents
<1>10. Reaches(r, started) /\ SameTimers(afresh, started)
  BY <1>7, <1>8, <1>9, DispatchLeads DEF Leads, Reaches
<1>. HIDE DEF started, event
<1>11. Reaches(r, pushed) /\ SameTimers(started, pushed)
  BY <1>10, HandlerWords, PushReaches
<1>12. pushed.device = NoDevice /\ pushed.upload = NoUpload
  BY <1>7, <1>10, <1>11 DEF SameTimers
<1>. HIDE DEF pushed
<1>. DEFINE d == [NoDevice EXCEPT !.timers = @ \cup {"LEAVE_DOCK", "FIND_BOUNDARY"}]
<1>13. d \in Devices
  BY DEF NoDevice, Devices, DeviceActions
<1>14. t = [pushed EXCEPT !.device = d]
  BY <1>11, <1>12 DEF Reaches, Typed, Robots
<1>. HIDE DEF d, t
<1>15. Reaches(r, t) /\ t.device = d /\ t.upload = NoUpload
  BY <1>11, <1>12, <1>13, <1>14, SetDevice
<1>16. Busy(t)
  BY <1>15 DEF Busy, NoUpload, NoDevice, Null, d
<1>. QED BY <1>15, <1>16 DEF t, pushed, started, event, afresh, quiet

\* A handler that dispatches one event, or pushes one frame.
LEMMA DispatchKeeps ==
    ASSUME NEW r, Robust(r), NEW event \in MappingEvent
    PROVE  /\ Reaches(r, dispatchMapping(r, event)) /\ Busy(dispatchMapping(r, event))
           /\ Reaches(r, dispatchMappingEvent(r, event)) /\ Busy(dispatchMappingEvent(r, event))
  BY ReachesItself, DispatchReaches, BusyStays DEF Robust

\* A frame the robot pushes keeps the timers of what is busy.
LEMMA PushKeeps ==
    ASSUME NEW r, Robust(r), NEW work \in MappingWork, NEW sub \in Words
    PROVE  Reaches(r, pushRatelStatus(r, work, sub)) /\ Busy(pushRatelStatus(r, work, sub))
  BY ReachesItself, PushReaches, BusyStays DEF Robust

\* The last frame once more: the signals are off, the session goes on.
LEMMA ResumeKeeps ==
    ASSUME NEW r, Robust(r), NEW sub \in Words
    PROVE  LET resumed == [dispatchMapping(r, Command("CMD_RESUME")) EXCEPT
                             !.notify.work = Null, !.telemetry = resetTelemetry]
               t == pushRatelStatus(resumed, "mapping", sub)
           IN  Reaches(r, t) /\ Busy(t)
<1>. DEFINE told    == dispatchMapping(r, Command("CMD_RESUME"))
            frame   == [told.notify EXCEPT !.work = Null]
            noted   == [told EXCEPT !.notify = frame]
            resumed == [told EXCEPT !.notify.work = Null, !.telemetry = resetTelemetry]
            t == pushRatelStatus(resumed, "mapping", sub)
<1>1. Reaches(r, told) /\ Busy(told)
  BY HandlerEvents, DispatchKeeps
<1>. HIDE DEF told
<1>2. frame \in StatusFrames
  BY <1>1 DEF Reaches, Typed, Robots, StatusFrames, Words
<1>3. resumed = [noted EXCEPT !.telemetry = resetTelemetry]
  BY <1>1 DEF Reaches, Typed, Robots
<1>. HIDE DEF frame, resumed
<1>4. Reaches(r, noted) /\ SameTimers(told, noted)
  BY <1>1, <1>2, NotedLeads, ReachesOn
<1>. HIDE DEF noted
<1>5. /\ resetTelemetry \in Telemetries /\ resetTelemetry.lastPhase = Null
      /\ ~resetTelemetry.startSettleTimer /\ ~resetTelemetry.endSettleTimer
      /\ ~resetTelemetry.legitimateStartingPoint /\ ~resetTelemetry.legitimateEndPoint
  BY DEF resetTelemetry, Telemetries
<1>6. Reaches(r, resumed) /\ SameTimers(noted, resumed)
  BY <1>3, <1>4, <1>5, SetTelemetry
<1>7. Reaches(r, t) /\ SameTimers(resumed, t)
  BY <1>6, HandlerWords, PushReaches
<1>. QED BY <1>1, <1>4, <1>6, <1>7, BusyStays DEF t, resumed, told

\* The device and the upload are stopped, then the session is told.
LEMMA CancelKeeps ==
    ASSUME NEW r, Robust(r), NEW event \in MappingEvent
    PROVE  LET t == dispatchMapping(clearMappingActionTimers(r), event)
           IN  Reaches(r, t) /\ Busy(t)
<1>. DEFINE halted  == [r EXCEPT !.device = NoDevice]
            stopped == [halted EXCEPT !.upload = NoUpload]
<1>1. NoDevice \in Devices /\ NoUpload \in Uploads
  BY BoundsAssumption DEF NoDevice, Devices, NoUpload, Uploads
<1>2. Reaches(r, halted) /\ halted.device = NoDevice
  BY <1>1, ReachesItself, SetDevice
<1>. HIDE DEF halted
<1>3. Reaches(r, stopped) /\ stopped.upload = NoUpload /\ stopped.device = NoDevice
  BY <1>1, <1>2, SetUpload
<1>4. clearMappingActionTimers(r) = stopped
  BY DEF clearMappingActionTimers, halted
<1>. HIDE DEF stopped
<1>5. Busy(stopped)
  BY <1>3 DEF Busy, NoUpload, NoDevice, Null
<1>. QED BY <1>3, <1>4, <1>5, DispatchReaches, BusyStays

\* An edge action consumes its signal, and is pending until its callback.
LEMMA EdgeActionKeeps ==
    ASSUME NEW r, Robust(r), r.device.pending = Null,
           NEW action \in {"EDGE_START", "EDGE_CLOSE"},
           NEW y, y \in {confirmEdgeStart(r.telemetry), confirmRegionClosure(r.telemetry)}
    PROVE  LET t == scheduleMappingActionAck([r EXCEPT !.telemetry = y], action)
           IN  Reaches(r, t) /\ Busy(t)
<1>. DEFINE s == [r EXCEPT !.telemetry = y]
            d == [pending |-> action, timers |-> s.device.timers \cup {action}]
            t == scheduleMappingActionAck(s, action)
<1>1. /\ y \in Telemetries /\ y.lastPhase = r.telemetry.lastPhase
      /\ y.endSettleTimer = r.telemetry.endSettleTimer
      /\ y.startSettleTimer = r.telemetry.startSettleTimer
  BY DEF confirmEdgeStart, confirmRegionClosure, Telemetries, Robust, Typed, Robots
<1>2. Reaches(r, s) /\ SameTimers(r, s)
  BY <1>1, ReachesItself, SetTelemetry
<1>. HIDE DEF s
<1>3. d \in Devices /\ d.pending = action /\ d.timers = r.device.timers \cup {action}
  BY <1>2 DEF Devices, DeviceActions, SameTimers, Robust, Typed, Robots
<1>4. t = [s EXCEPT !.device = d]
  BY <1>2 DEF scheduleMappingActionAck, Reaches, Typed, Robots
<1>. HIDE DEF d, t
<1>5. Reaches(r, t) /\ t.device = d /\ t.upload = s.upload
  BY <1>2, <1>3, <1>4, SetDevice
<1>6. r.device.timers \cap {"EDGE_START", "EDGE_CLOSE"} = {}
  BY DEF Robust, Busy, Null
<1>7. Busy(t)
  BY <1>2, <1>3, <1>5, <1>6 DEF Busy, SameTimers, Robust
<1>. QED BY <1>5, <1>7 DEF t, s

\* The session's last area is finished, or one more is added to it.
LEMMA ExpandKeeps ==
    ASSUME NEW r, Robust(r)
    PROVE  LET s == clearMapCompletingCountdown(r)
               t == beginMapUpload(s)
               u == pushRatelStatus(dispatchMapping(s, Command("CMD_ADD_LAWN")),
                                    "mapping", "find_boundary")
           IN  Reaches(r, t) /\ Busy(t) /\ Reaches(r, u) /\ Busy(u)
<1>. DEFINE s == clearMapCompletingCountdown(r)
            t == beginMapUpload(s)
            told == dispatchMapping(s, Command("CMD_ADD_LAWN"))
            u == pushRatelStatus(told, "mapping", "find_boundary")
<1>1. Reaches(r, s) /\ SameTimers(r, s) /\ Busy(s)
  BY ReachesItself, ClearedCountdown, BusyStays DEF Robust
<1>. HIDE DEF s
<1>2. Reaches(r, t) /\ Busy(t)
  BY <1>1, BeginUpload, BusyUpload
<1>3. Reaches(r, told) /\ SameTimers(s, told)
  BY <1>1, HandlerEvents, DispatchReaches
<1>. HIDE DEF told
<1>4. Reaches(r, u) /\ SameTimers(told, u)
  BY <1>3, HandlerWords, PushReaches
<1>. QED BY <1>1, <1>2, <1>3, <1>4, BusyStays DEF told, s

\* The failed upload once more; what made it fail is forgotten.
LEMMA RetransmitKeeps ==
    ASSUME NEW r, Robust(r)
    PROVE  LET t == beginMapUpload([r EXCEPT !.failAt = NoFailure])
           IN  Reaches(r, t) /\ Busy(t)
<1>. DEFINE s == [r EXCEPT !.failAt = NoFailure]
            t == beginMapUpload(s)
<1>1. NoFailure \in 1..NoFailure
  BY BoundsAssumption DEF NoFailure
<1>2. Reaches(r, s) /\ s.device = r.device /\ s.upload = r.upload
  BY <1>1, ReachesItself, SetFailAt
<1>. HIDE DEF s
<1>3. Busy(s)
  BY <1>2 DEF Robust, Busy
<1>4. Reaches(r, t) /\ Busy(t)
  BY <1>2, <1>3, BeginUpload, BusyUpload
<1>. QED BY <1>4 DEF s

\* The robot that has just been built.
LEMMA InitialRobust ==
    /\ Robust(InitialRobot)
    /\ InitialRobot.mapping = simulatorInitialContext
    /\ InitialRobot.telemetry = resetTelemetry
    /\ InitialRobot.device = NoDevice /\ InitialRobot.upload = NoUpload
    /\ ~resetTelemetry.legitimateStartingPoint /\ ~resetTelemetry.legitimateEndPoint
<1>1. NoDevice \in Devices /\ NoUpload \in Uploads /\ NotWaiting \in Pages
  BY BoundsAssumption DEF NoDevice, Devices, NoUpload, Uploads, NotWaiting, Pages
<1>2. NoNotify \in StatusFrames
  BY DEF NoNotify, StatusFrames, Words
<1>3. /\ resetTelemetry \in Telemetries /\ resetTelemetry.lastPhase = Null
      /\ ~resetTelemetry.startSettleTimer /\ ~resetTelemetry.endSettleTimer
      /\ ~resetTelemetry.legitimateStartingPoint /\ ~resetTelemetry.legitimateEndPoint
  BY DEF resetTelemetry, Telemetries
<1>4. simulatorInitialContext \in MappingContext /\ Safe(simulatorInitialContext)
  BY InitialGood DEF Good
<1>5. NoFailure \in 1..NoFailure /\ 0 \in 0..MaxLawns /\ 0 <= MaxTasks
  BY BoundsAssumption DEF NoFailure
<1>6. <<>> \in Seq(TASK_STATUSES) /\ Len(<<>>) = 0
  OBVIOUS
<1>7. /\ Typed(InitialRobot) /\ InitialRobot.mapping = simulatorInitialContext
      /\ InitialRobot.tasks = <<>> /\ InitialRobot.telemetry = resetTelemetry
      /\ InitialRobot.waiting = NotWaiting /\ InitialRobot.device = NoDevice
      /\ InitialRobot.upload = NoUpload
  BY <1>1, <1>2, <1>3, <1>4, <1>5, <1>6 DEF InitialRobot, Typed, Robots
<1>8. InSync(InitialRobot)
  BY <1>3, <1>4, <1>7 DEF InSync, NotWaiting
<1>9. Followed(InitialRobot) /\ Busy(InitialRobot)
  BY <1>7 DEF Followed, Busy, NoDevice, NoUpload, Null
<1>. QED BY <1>3, <1>7, <1>8, <1>9 DEF Robust

\* A reset keeps the injected failure only.
LEMMA ResetKeeps ==
    ASSUME NEW r, Robust(r)
    PROVE  LET t == [InitialRobot EXCEPT !.failAt = r.failAt] IN Reaches(r, t) /\ Busy(t)
<1>. DEFINE t == [InitialRobot EXCEPT !.failAt = r.failAt]
<1>1. Reaches(r, InitialRobot)
  BY InitialRobust DEF Robust, Reaches, EarnedAnew
<1>2. r.failAt \in 1..NoFailure
  BY DEF Robust, Typed, Robots
<1>3. Reaches(r, t) /\ t.device = InitialRobot.device /\ t.upload = InitialRobot.upload
  BY <1>1, <1>2, SetFailAt
<1>. HIDE DEF t
<1>4. Busy(t)
  BY <1>3, InitialRobust DEF Robust, Busy
<1>. QED BY <1>3, <1>4 DEF t

\* An injected failure waits for the next upload step.
LEMMA InjectKeeps ==
    ASSUME NEW r, Robust(r), NEW step \in FailurePoints
    PROVE  LET t == [r EXCEPT !.failAt = step] IN Reaches(r, t) /\ Busy(t)
<1>. DEFINE t == [r EXCEPT !.failAt = step]
<1>1. Reaches(r, t) /\ t.device = r.device /\ t.upload = r.upload
  BY FailureAssumption, ReachesItself, SetFailAt
<1>. HIDE DEF t
<1>2. Busy(t)
  BY <1>1 DEF Robust, Busy
<1>. QED BY <1>1, <1>2 DEF t

\* The callback of a device action: no edge action is pending after its own one.
LEMMA DeviceTimerKeeps ==
    ASSUME NEW r, Robust(r), NEW action \in DeviceActions, action \in r.device.timers
    PROVE  LET fired == [r EXCEPT !.device =
                           [ timers  |-> @.timers \ {action},
                             pending |-> IF action \in {"EDGE_START", "EDGE_CLOSE"}
                                         THEN Null ELSE @.pending ]]
               t == pushRatelStatus(fired, "mapping", ack(action))
           IN  Reaches(r, t) /\ Busy(t)
<1>. DEFINE d == [ timers  |-> r.device.timers \ {action},
                   pending |-> IF action \in {"EDGE_START", "EDGE_CLOSE"}
                               THEN Null ELSE r.device.pending ]
            fired == [r EXCEPT !.device =
                           [ timers  |-> @.timers \ {action},
                             pending |-> IF action \in {"EDGE_START", "EDGE_CLOSE"}
                                         THEN Null ELSE @.pending ]]
            t == pushRatelStatus(fired, "mapping", ack(action))
<1>1. fired = [r EXCEPT !.device = d]
  BY DEF Robust, Typed, Robots
<1>2. /\ d \in Devices /\ d.timers = r.device.timers \ {action}
      /\ d.pending = IF action \in {"EDGE_START", "EDGE_CLOSE"} THEN Null ELSE r.device.pending
  BY DEF Devices, Robust, Typed, Robots
<1>. HIDE DEF d, fired
<1>3. Reaches(r, fired) /\ fired.device = d /\ fired.upload = r.upload
  BY <1>1, <1>2, ReachesItself, SetDevice
<1>4. Busy(fired)
  BY <1>2, <1>3 DEF Robust, Busy, Null
<1>5. Reaches(r, t) /\ SameTimers(fired, t)
  BY <1>3, HandlerWords, PushReaches
<1>. QED BY <1>4, <1>5, BusyStays DEF fired

\* The settle callbacks.
LEMMA SettleKeeps ==
    ASSUME NEW r, Robust(r), NEW y, y \in {startSettled(r.telemetry), endSettled(r.telemetry)}
    PROVE  LET t == [r EXCEPT !.telemetry = y] IN Reaches(r, t) /\ Busy(t)
<1>. DEFINE t == [r EXCEPT !.telemetry = y]
<1>1. /\ y \in Telemetries /\ y.lastPhase = r.telemetry.lastPhase
      /\ y.endSettleTimer => r.telemetry.endSettleTimer
      /\ y.startSettleTimer => r.telemetry.startSettleTimer
  BY DEF startSettled, endSettled, Telemetries, Robust, Typed, Robots
<1>2. Reaches(r, t) /\ SameTimers(r, t)
  BY <1>1, ReachesItself, SetTelemetry
<1>. QED BY <1>2, BusyStays DEF Robust

\* The countdown is over: the upload starts.
LEMMA CountdownKeeps ==
    ASSUME NEW r, Robust(r)
    PROVE  LET t == beginMapUpload([r EXCEPT !.waiting.timer = FALSE])
           IN  Reaches(r, t) /\ Busy(t)
<1>. DEFINE w == [r.waiting EXCEPT !.timer = FALSE]
            s == [r EXCEPT !.waiting.timer = FALSE]
            t == beginMapUpload(s)
<1>1. w \in Pages /\ ~w.timer /\ w.open = r.waiting.open
  BY DEF Pages, Robust, Typed, Robots
<1>2. s = [r EXCEPT !.waiting = w]
  BY DEF Robust, Typed, Robots
<1>. HIDE DEF w, s
<1>3. Reaches(r, s) /\ SameTimers(r, s)
  BY <1>1, <1>2, ReachesItself, SetWaiting
<1>4. Reaches(r, t) /\ Busy(t)
  BY <1>3, BeginUpload, BusyUpload, BusyStays DEF Robust
<1>. QED BY <1>4 DEF s

\* The frame of one upload step.
LEMMA UploadFrame ==
    ASSUME NEW r, Robust(r), NEW state \in {"UPLOADING", "FAILED", "SUCCESS"},
           NEW progress \in 0..UploadSteps
    PROVE  LET t == uploadFrame(r, state, progress)
           IN  /\ Reaches(r, t) /\ t.device = r.device
               /\ t.upload \in Uploads
               /\ t.upload.state = state /\ t.upload.progress = progress /\ ~t.upload.timer
<1>. DEFINE u == [state |-> state, progress |-> progress, timer |-> FALSE]
            s == [r EXCEPT !.upload = u]
            t == pushRatelStatus(s, "mapping", "upload_map")
<1>1. u \in Uploads /\ u.state = state /\ u.progress = progress /\ ~u.timer
  BY DEF Uploads
<1>2. uploadFrame(r, state, progress) = t
  BY DEF uploadFrame
<1>. HIDE DEF u
<1>3. Reaches(r, s) /\ s.upload = u /\ s.device = r.device
  BY <1>1, ReachesItself, SetUpload
<1>. HIDE DEF s
<1>4. Reaches(r, t) /\ SameTimers(s, t)
  BY <1>3, HandlerWords, PushReaches
<1>. QED BY <1>1, <1>2, <1>3, <1>4 DEF SameTimers

\* One step of the upload: it fails, or ends in a frame to idle, or the next one is due.
LEMMA UploadStepKeeps ==
    ASSUME NEW r, Robust(r), r.upload.timer
    PROVE  Reaches(r, uploadStep(r)) /\ Busy(uploadStep(r))
<1>. DEFINE progress == r.upload.progress + 1
<1>1. progress \in 1..UploadSteps
  BY BoundsAssumption DEF Robust, Busy, Typed, Robots, Uploads
<1>2. r.failAt \in Nat
  BY BoundsAssumption DEF Robust, Typed, Robots, NoFailure
<1>. HIDE DEF progress
<1>3. CASE progress >= r.failAt
  <2>. DEFINE t == uploadFrame(r, "FAILED", progress)
  <2>1. uploadStep(r) = t
    BY <1>1, <1>2, <1>3 DEF uploadStep, progress
  <2>2. Reaches(r, t) /\ t.device = r.device /\ t.upload.state = "FAILED" /\ ~t.upload.timer
    BY <1>1, UploadFrame
  <2>. HIDE DEF t
  <2>3. Busy(t)
    BY <2>2 DEF Robust, Busy
  <2>. QED BY <2>1, <2>2, <2>3
<1>4. CASE progress < r.failAt /\ progress = UploadSteps
  <2>. DEFINE s == uploadFrame(r, "SUCCESS", progress)
              t == pushRatelStatus(s, "idle", "complete")
  <2>1. uploadStep(r) = t
    BY <1>1, <1>2, <1>4 DEF uploadStep, progress
  <2>2. Reaches(r, s) /\ s.device = r.device /\ s.upload.state = "SUCCESS" /\ ~s.upload.timer
    BY <1>1, UploadFrame
  <2>. HIDE DEF s
  <2>3. Busy(s)
    BY <2>2 DEF Robust, Busy
  <2>4. Reaches(r, t) /\ SameTimers(s, t)
    BY <2>2, HandlerWords, PushReaches
  <2>. QED BY <2>1, <2>3, <2>4, BusyStays
<1>5. CASE progress < r.failAt /\ progress # UploadSteps
  <2>. DEFINE s == uploadFrame(r, "UPLOADING", progress)
              u == [s.upload EXCEPT !.timer = TRUE]
              t == [s EXCEPT !.upload.timer = TRUE]
  <2>1. uploadStep(r) = t
    BY <1>1, <1>2, <1>5 DEF uploadStep, progress
  <2>2. /\ Reaches(r, s) /\ s.device = r.device /\ s.upload \in Uploads
        /\ s.upload.state = "UPLOADING" /\ s.upload.progress = progress
    BY <1>1, UploadFrame
  <2>. HIDE DEF s
  <2>3. u \in Uploads /\ u.state = "UPLOADING" /\ u.progress = progress /\ u.timer
    BY <2>2 DEF Uploads
  <2>4. t = [s EXCEPT !.upload = u]
    BY <2>2 DEF Reaches, Typed, Robots
  <2>. HIDE DEF u, t
  <2>5. Reaches(r, t) /\ t.upload = u /\ t.device = s.device
    BY <2>2, <2>3, <2>4, SetUpload
  <2>6. Busy(t)
    BY <1>1, <1>5, <2>2, <2>3, <2>5, BoundsAssumption DEF Robust, Busy
  <2>. QED BY <2>1, <2>5, <2>6
<1>. QED BY <1>1, <1>2, <1>3, <1>4, <1>5

-----------------------------------------------------------------------------
(* The steps.                                                                 *)

\* The record of the variables.
LEMMA RobotFields ==
    /\ Robot.mapping = mapping /\ Robot.tasks = tasks /\ Robot.notify = notify
    /\ Robot.telemetry = telemetry /\ Robot.device = device /\ Robot.waiting = waiting
    /\ Robot.upload = upload /\ Robot.failAt = failAt /\ Robot.lawns = lawns
  BY DEF Robot

\* The robot becomes what its handler has reached.
LEMMA Becomes ==
    ASSUME NEW t, Reaches(Robot, t), Busy(t), Become(t)
    PROVE  Robust(Robot)' /\ EarnedAnew(Robot, Robot')
<1>1. /\ Robot'.mapping = t.mapping /\ Robot'.tasks = t.tasks /\ Robot'.notify = t.notify
      /\ Robot'.telemetry = t.telemetry /\ Robot'.device = t.device
      /\ Robot'.waiting = t.waiting /\ Robot'.upload = t.upload
      /\ Robot'.failAt = t.failAt /\ Robot'.lawns = t.lawns
  BY DEF Become, Robot
<1>2. Typed(Robot)'
  BY DEF Become, Robot, Reaches, Typed, Robots
<1>3. InSync(Robot)' /\ Followed(Robot)' /\ Busy(Robot)'
  BY <1>1 DEF Reaches, InSync, Followed, Busy
<1>4. EarnedAnew(Robot, Robot')
  BY <1>1 DEF Reaches, EarnedAnew
<1>. QED BY <1>2, <1>3, <1>4 DEF Robust

\* Init is the robot that has just been built.
LEMMA InitRobust == Init => Robust(Robot)
<1>. SUFFICES ASSUME Init PROVE Robust(Robot)
  OBVIOUS
<1>1. Robot = InitialRobot
  BY DEF Init, Robot, InitialRobot
<1>. QED BY <1>1, InitialRobust

\* The requests of the task API.
LEMMA TaskActionKeeps ==
    ASSUME Robust(Robot), TaskAction
    PROVE  \E t : Reaches(Robot, t) /\ Busy(t) /\ Become(t)
<1>. USE RobotFields
<1>1. ASSUME NEW mode \in {"auto", "remote"}, Create(mode)
      PROVE  \E t : Reaches(Robot, t) /\ Busy(t) /\ Become(t)
  BY <1>1, CreateKeeps DEF Create
<1>2. CASE Extend
  BY <1>2, ExtendKeeps DEF Extend
<1>3. ASSUME NEW i, Pause(i)
      PROVE  \E t : Reaches(Robot, t) /\ Busy(t) /\ Become(t)
  BY <1>3, HandlerEvents, DispatchKeeps DEF Pause
<1>4. ASSUME NEW i, Resume(i)
      PROVE  \E t : Reaches(Robot, t) /\ Busy(t) /\ Become(t)
  <2>. DEFINE sub == IF notify.sub = Null THEN "none" ELSE notify.sub
  <2>1. sub \in Words
    BY DEF Robust, Typed, Robots, StatusFrames, Words
  <2>. HIDE DEF sub
  <2>2. LET resumed == [dispatchMapping(Robot, Command("CMD_RESUME")) EXCEPT
                          !.notify.work = Null, !.telemetry = resetTelemetry]
            t == pushRatelStatus(resumed, "mapping", sub)
        IN  Reaches(Robot, t) /\ Busy(t)
    BY <2>1, ResumeKeeps
  <2>. QED BY <1>4, <2>2 DEF Resume, sub
<1>5. ASSUME NEW i, NEW save \in BOOLEAN, Cancel(i, save)
      PROVE  \E t : Reaches(Robot, t) /\ Busy(t) /\ Become(t)
  <2>1. Command(IF save THEN "CMD_CONFIRM" ELSE "CMD_CANCEL") \in MappingEvent
    BY HandlerEvents
  <2>. QED BY <1>5, <2>1, CancelKeeps DEF Cancel
<1>6. ASSUME NEW i, EdgeStart(i)
      PROVE  \E t : Reaches(Robot, t) /\ Busy(t) /\ Become(t)
  <2>1. [Robot EXCEPT !.telemetry = confirmEdgeStart(@)] =
          [Robot EXCEPT !.telemetry = confirmEdgeStart(Robot.telemetry)]
    BY DEF Robot
  <2>. QED BY <1>6, <2>1, EdgeActionKeeps DEF EdgeStart, Accepts
<1>7. ASSUME NEW i, EdgeClose(i)
      PROVE  \E t : Reaches(Robot, t) /\ Busy(t) /\ Become(t)
  <2>1. [Robot EXCEPT !.telemetry = confirmRegionClosure(@)] =
          [Robot EXCEPT !.telemetry = confirmRegionClosure(Robot.telemetry)]
    BY DEF Robot
  <2>. QED BY <1>7, <2>1, EdgeActionKeeps DEF EdgeClose, Accepts
<1>8. ASSUME NEW i, ExpandAreaFinish(i)
      PROVE  \E t : Reaches(Robot, t) /\ Busy(t) /\ Become(t)
  BY <1>8, ExpandKeeps DEF ExpandAreaFinish
<1>9. ASSUME NEW i, ExpandArea(i)
      PROVE  \E t : Reaches(Robot, t) /\ Busy(t) /\ Become(t)
  BY <1>9, ExpandKeeps DEF ExpandArea
<1>10. ASSUME NEW i, RetransmitMap(i)
       PROVE  \E t : Reaches(Robot, t) /\ Busy(t) /\ Become(t)
  BY <1>10, RetransmitKeeps DEF RetransmitMap
<1>. QED BY <1>1, <1>2, <1>3, <1>4, <1>5, <1>6, <1>7, <1>8, <1>9, <1>10 DEF TaskAction

\* The timers.
LEMMA TimerKeeps ==
    ASSUME Robust(Robot), Timer
    PROVE  \E t : Reaches(Robot, t) /\ Busy(t) /\ Become(t)
<1>. USE RobotFields
<1>1. ASSUME NEW action \in DeviceActions, DeviceTimer(action)
      PROVE  \E t : Reaches(Robot, t) /\ Busy(t) /\ Become(t)
  BY <1>1, DeviceTimerKeeps DEF DeviceTimer, Due
<1>2. CASE StartSettles
  <2>1. [Robot EXCEPT !.telemetry = startSettled(@)] =
          [Robot EXCEPT !.telemetry = startSettled(Robot.telemetry)]
    BY DEF Robot
  <2>. QED BY <1>2, <2>1, SettleKeeps DEF StartSettles
<1>3. CASE EndSettles
  <2>1. [Robot EXCEPT !.telemetry = endSettled(@)] =
          [Robot EXCEPT !.telemetry = endSettled(Robot.telemetry)]
    BY DEF Robot
  <2>. QED BY <1>3, <2>1, SettleKeeps DEF EndSettles
<1>4. CASE CountdownEnds
  BY <1>4, CountdownKeeps DEF CountdownEnds
<1>5. CASE UploadStep
  BY <1>5, UploadStepKeeps DEF UploadStep
<1>. QED BY <1>1, <1>2, <1>3, <1>4, <1>5 DEF Timer

\* Every handler and every callback keeps the robot robust, and lets a signal that
\* allows an edge action be earned in its own phase only.
LEMMA RobotStep ==
    ASSUME Robust(Robot), Next
    PROVE  Robust(Robot)' /\ EarnedAnew(Robot, Robot')
<1>. USE RobotFields
<1>1. CASE TaskAction
  BY <1>1, TaskActionKeeps, Becomes
<1>2. CASE SwitchMode
  BY <1>2, HandlerEvents, DispatchKeeps, Becomes DEF SwitchMode
<1>3. CASE SaveMap
  BY <1>3, HandlerEvents, DispatchKeeps, Becomes DEF SaveMap
<1>4. CASE SendRawEvent
  BY <1>4, RawEventsAssumption, DispatchKeeps, Becomes DEF SendRawEvent
<1>5. CASE ResetRobot
  BY <1>5, ResetKeeps, Becomes DEF ResetRobot
<1>6. CASE DeviceFrame
  <2>1. PICK frame \in Frames : Become(pushRatelStatus(Robot, frame.work, frame.sub))
    BY <1>6 DEF DeviceFrame
  <2>2. frame.work \in MappingWork /\ frame.sub \in Words
    BY FramesAssumption DEF MappingWork, Words
  <2>. QED BY <2>1, <2>2, PushKeeps, Becomes
<1>7. CASE InjectUploadFailure
  BY <1>7, InjectKeeps, Becomes DEF InjectUploadFailure
<1>8. CASE Timer
  BY <1>8, TimerKeeps, Becomes
<1>. QED BY <1>1, <1>2, <1>3, <1>4, <1>5, <1>6, <1>7, <1>8 DEF Next, Environment

\* A stutter.
LEMMA RobotStutters ==
    ASSUME Robust(Robot), UNCHANGED vars PROVE Robust(Robot)' /\ Robot' = Robot
<1>1. Robot' = Robot
  BY DEF vars, Robot
<1>. QED BY <1>1 DEF Robust, Typed, InSync, Followed, Busy

-----------------------------------------------------------------------------
(* The theorems.                                                              *)

\* The inductive invariant: the robot is robust after every handler.
THEOREM RobotRobust == Spec => []Robust(Robot)
<1>1. Robust(Robot) /\ [Next]_vars => Robust(Robot)'
  BY RobotStep, RobotStutters
<1>. QED BY <1>1, InitRobust, PTL DEF Spec

\* Every variable keeps the shape of its type, for any frames, events and bounds.
THEOREM RobotTyped == Spec => []TypeOK
<1>1. Robust(Robot) => TypeOK
  <2>. SUFFICES ASSUME Robust(Robot) PROVE TypeOK
    OBVIOUS
  <2>1. /\ mapping \in MappingContext /\ telemetry \in Telemetries /\ device \in Devices
        /\ waiting \in Pages /\ upload \in Uploads /\ failAt \in 1..NoFailure
        /\ lawns \in 0..MaxLawns
        /\ tasks \in Seq(TASK_STATUSES) /\ Len(tasks) <= MaxTasks /\ notify \in StatusFrames
    BY RobotFields DEF Robust, Typed, Robots
  <2>2. DOMAIN notify = {"work", "sub"}
    BY <2>1 DEF StatusFrames
  <2>3. \A i \in DOMAIN tasks : tasks[i] \in TASK_STATUSES
    BY <2>1
  <2>. QED BY <2>1, <2>2, <2>3 DEF TypeOK, Telemetries, Devices, Pages, Uploads
<1>. QED BY <1>1, RobotRobust, PTL

\* The countdown runs on the completion page only: the phase leaves that page in
\* afterReducer alone, and with the phase the countdown is cleared.
THEOREM RobotCountdownOnPage == Spec => []CountdownOnPage
<1>1. Robust(Robot) => CountdownOnPage
  BY RobotFields DEF Robust, InSync, CountdownOnPage
<1>. QED BY <1>1, RobotRobust, PTL

\* The active record tells the state of its session.
THEOREM RobotTaskFollowsSession == Spec => []TaskFollowsSession
<1>1. Robust(Robot) => TaskFollowsSession
  BY RobotFields DEF Robust, Followed, TaskFollowsSession
<1>. QED BY <1>1, RobotRobust, PTL

\* A settle callback belongs to the phase the session is in.
THEOREM RobotSettlesInPhase == Spec => []SettlesInPhase
<1>1. Robust(Robot) => SettlesInPhase
  BY RobotFields DEF Robust, InSync, SettlesInPhase
<1>. QED BY <1>1, RobotRobust, PTL

\* A pending edge action has its callback, and a running upload its timer.
THEOREM RobotBusyHasTimer == Spec => []BusyHasTimer
<1>1. Robust(Robot) => BusyHasTimer
  BY RobotFields DEF Robust, Busy, BusyHasTimer
<1>. QED BY <1>1, RobotRobust, PTL

\* Whatever takes the session into a phase, the signal of that phase is off on entry.
THEOREM RobotSignalsEarnedAnew == Spec => SignalsEarnedAnew
<1>. DEFINE Earned ==
       mapping'.phase # mapping.phase =>
          /\ mapping'.phase \in FOLLOW_PHASES => ~telemetry'.legitimateEndPoint
          /\ mapping'.phase = "MAP_SCAN_BOUNDARY_MANUAL" =>
               ~telemetry'.legitimateStartingPoint
<1>1. Robust(Robot) /\ [Next]_vars => [Earned]_vars
  <2>. SUFFICES ASSUME Robust(Robot), Next PROVE Earned
    OBVIOUS
  <2>1. EarnedAnew(Robot, Robot')
    BY RobotStep
  <2>. QED BY <2>1, RobotFields DEF EarnedAnew, Robot
<1>2. Robust(Robot) /\ [Next]_vars => Robust(Robot)'
  BY RobotStep, RobotStutters
<1>. QED BY <1>1, <1>2, InitRobust, PTL DEF Spec, SignalsEarnedAnew

-----------------------------------------------------------------------------
(* What single events do to the session.                                      *)

\* A session is completed by a confirmation and by nothing else.
LEMMA OnlyConfirmCompletes ==
    ASSUME NEW c \in MappingContext, c.state # "COMPLETED",
           NEW e \in MappingEvent, e.type # "CMD_CONFIRM"
    PROVE  mappingReducer(c, e, FALSE).state # "COMPLETED"
<1>1. ASSUME NEW f \in MappingEvent, f.type \notin OwnEvents \cup {"CMD_CONFIRM"}
      PROVE  baseReducer(c, f).state # "COMPLETED"
  <2>1. CASE f.type = "CMD_RESET"
    <3>1. baseReducer(c, f) = CmdReset(c)
      BY <2>1 DEF baseReducer, transition
    <3>. QED BY <3>1 DEF CmdReset, createInitialTaskContext, TERMINAL_TASK_STATES, MappingContext
  <2>2. CASE f.type # "CMD_RESET" /\ c.state = "ESTOPPED"
    <3>1. baseReducer(c, f) = WhileEstopped(c, f)
      BY <2>2 DEF baseReducer, transition, TERMINAL_TASK_STATES
    <3>. QED BY <3>1
         DEF WhileEstopped, applyCapabilities, resetCapabilities, MappingContext
  <2>3. CASE f.type # "CMD_RESET" /\ c.state \in TERMINAL_TASK_STATES
    BY <2>3 DEF baseReducer, transition, TERMINAL_TASK_STATES
  <2>4. CASE f.type # "CMD_RESET" /\ c.state \notin TERMINAL_TASK_STATES \cup {"ESTOPPED"}
    <3>1. baseReducer(c, f) = InSession(c, f, MappingOptions)
      BY <2>4 DEF baseReducer, transition
    <3>2. CASE f.type = "CMD_START"
      BY <3>1, <3>2 DEF InSession, SimOnlyEvents, CmdStart, MappingContext
    <3>3. CASE f.type = "DEVICE_WORK_STATUS"
      BY <3>1, <3>3 DEF InSession, SimOnlyEvents, DeviceWorkStatus, withError,
         enterRecharging, DeviceUndocked, MappingContext
    <3>4. CASE f.type = "DEVICE_UNDOCKED"
      BY <3>1, <3>4 DEF InSession, SimOnlyEvents, DeviceUndocked, MappingContext
    <3>5. CASE f.type = "DEVICE_PHASE"
      BY <3>1, <3>5 DEF InSession, SimOnlyEvents, DevicePhase, MappingContext
    <3>6. CASE f.type \in {"CMD_PAUSE", "CMD_RESUME", "CMD_CANCEL"}
      BY <3>1, <3>6 DEF InSession, SimOnlyEvents, CmdPause, CmdResume, CmdCancel, MappingContext
    <3>7. CASE f.type = "CMD_EXIT_MANUAL"
      BY <3>1, <3>7 DEF InSession, SimOnlyEvents, CmdExitManual, MappingContext
    <3>8. CASE f.type \in {"CMD_RETURN_DOCK", "DEVICE_DOCKED", "DEVICE_BATTERY"}
      BY <3>1, <3>8 DEF InSession, SimOnlyEvents, enterRecharging, DeviceDocked, DeviceBattery,
         MappingContext
    <3>9. CASE f.type \in {"DEVICE_ERROR", "DEVICE_ESTOP", "TIMEOUT"}
      BY <3>1, <3>9 DEF InSession, SimOnlyEvents, DeviceError, DeviceEstop, AckTimeout,
         withError, MappingContext
    <3>10. CASE f.type \in {"DEVICE_CAPABILITIES", "LINK_NET_LOST", "LINK_DOWN"}
      BY <3>1, <3>10 DEF InSession, SimOnlyEvents, applyCapabilities, resetCapabilities,
         LinkNetLost, MappingContext
    <3>11. CASE f.type \in SimOnlyEvents
      BY <3>1, <3>11 DEF InSession, SimOnlyEvents, EventAsContext, Undefined
    <3>. QED BY <1>1, <2>4, <3>2, <3>3, <3>4, <3>5, <3>6, <3>7, <3>8, <3>9, <3>10, <3>11,
                EventTypes
  <2>. QED BY <2>1, <2>2, <2>3, <2>4
<1>2. CASE e.type = "DEVICE_WORK_STATUS"
  BY <1>1, <1>2 DEF mappingReducer, reduceWorkStatus, OwnEvents, MappingContext
<1>3. CASE e.type \in {"LINK_DOWN", "LINK_NET_LOST"}
  <2>1. baseReducer(c, e).state # "COMPLETED" /\ baseReducer(c, e) \in MappingContext
    BY <1>1, <1>3, BaseReducerSound DEF OwnEvents, Sound
  <2>2. mappingReducer(c, e, FALSE) = LinkLost(c, e)
    BY <1>3 DEF mappingReducer
  <2>. QED BY <2>1, <2>2 DEF LinkLost, MappingContext
<1>4. CASE e.type \in {"RECONCILE_STARTED", "RECONCILE_PAUSED"}
  BY <1>4 DEF mappingReducer, reconcileStarted, reconcilePaused, MappingContext
<1>5. CASE e.type \in {"CMD_ADD_LAWN", "CMD_MANUAL_SCAN_STARTED", "CMD_SWITCH_MANUAL"}
  BY <1>5 DEF mappingReducer, addLawn, startManualScan, switchManual, MappingContext
<1>6. CASE e.type = "CMD_EXIT_MANUAL"
  <2>1. [type |-> "CMD_EXIT_MANUAL"] \in MappingEvent
    BY HandlerEvents DEF Command
  <2>2. baseReducer(c, [type |-> "CMD_EXIT_MANUAL"]).state # "COMPLETED"
    BY <1>1, <2>1 DEF OwnEvents
  <2>. QED BY <1>6, <2>2 DEF mappingReducer, exitManual, MappingContext
<1>7. CASE e.type = "DEVICE_PHASE"
  <2>1. e.phase \in MappingPhase
    BY <1>7, EventFields
  <2>2. MeantPhase(c, e.phase) \in MappingPhase
    BY <2>1 DEF MeantPhase, MappingPhase, MAPPING_PHASES
  <2>. DEFINE phase == MeantPhase(c, e.phase)
              told  == [type |-> "DEVICE_PHASE", phase |-> phase]
  <2>. HIDE DEF phase
  <2>3. told \in MappingEvent
    BY <2>2 DEF MappingEvent, DeviceEvents, phase
  <2>4. baseReducer(c, told).state # "COMPLETED"
    BY <1>1, <2>3 DEF OwnEvents
  <2>5. settlePhase(c, phase).state # "COMPLETED"
    BY <2>4 DEF settlePhase, MappingContext
  <2>. QED BY <1>7, <2>5 DEF mappingReducer, mappingPhase, MappingContext, phase
<1>8. CASE e.type = "DEVICE_ERROR"
  <2>1. baseReducer(c, e).state # "COMPLETED"
    BY <1>1, <1>8 DEF OwnEvents
  <2>. QED BY <1>8, <2>1 DEF mappingReducer, reduceRecoverableError, MappingContext
<1>9. CASE e.type \notin OwnEvents \cup
               {"DEVICE_WORK_STATUS", "LINK_DOWN", "LINK_NET_LOST", "CMD_EXIT_MANUAL",
                "DEVICE_PHASE", "DEVICE_ERROR"}
  BY <1>1, <1>9 DEF mappingReducer, OwnEvents
<1>. QED BY <1>2, <1>3, <1>4, <1>5, <1>6, <1>7, <1>8, <1>9 DEF OwnEvents

\* A paused session that has a phase to go back to resumes it,
LEMMA ResumeStarts ==
    ASSUME NEW c \in MappingContext, c.state = "PAUSED", c.resumeTo.phase # Null
    PROVE  /\ mappingReducer(c, Command("CMD_RESUME"), FALSE).state = "RESUMING"
           /\ mappingReducer(c, Command("CMD_RESUME"), FALSE).resumeTo = c.resumeTo
<1>1. mappingReducer(c, Command("CMD_RESUME"), FALSE) = CmdResume(c)
  BY DEF mappingReducer, Command, baseReducer, transition, InSession, TERMINAL_TASK_STATES,
         SimOnlyEvents
<1>2. c.resumeTo # NoScene
  BY DEF NoScene, Scene
<1>. QED BY <1>1, <1>2 DEF CmdResume, MappingContext

\* and the frame of a mapping robot confirms it.
LEMMA FrameConfirms ==
    ASSUME NEW c \in MappingContext, c.state = "RESUMING", c.resumeTo.phase # Null
    PROVE  mappingReducer(c, statusEvent("mapping"), FALSE).state = "WORKING"
<1>1. mappingReducer(c, statusEvent("mapping"), FALSE) =
        reduceWorkStatus(c, statusEvent("mapping"))
  BY DEF mappingReducer, statusEvent, CLOUD_WORK_STATUSES
<1>2. PhaseOr(c.resumeTo, c.phase) # Null
  BY DEF PhaseOr
<1>. QED BY <1>1, <1>2
     DEF reduceWorkStatus, statusEvent, CLOUD_WORK_STATUSES, MappingContext

\* The phase of a frame leaves a working session at work, by hand or not.
LEMMA PhaseWorks ==
    ASSUME NEW c \in MappingContext, c.state = "WORKING", NEW phase \in MappingPhase
    PROVE  /\ mappingReducer(c, Phase(phase), FALSE).state \in {"WORKING", "REMOTE_CONTROL"}
           /\ phase \in {"MAP_UPLOADING", "MAP_COMPLETING"} =>
                /\ mappingReducer(c, Phase(phase), FALSE).state = "WORKING"
                /\ mappingReducer(c, Phase(phase), FALSE).phase = phase
<1>. DEFINE meant == MeantPhase(c, phase)
<1>1. mappingReducer(c, Phase(phase), FALSE) = mappingPhase(c, phase, FALSE)
  BY DEF mappingReducer, Phase
<1>2. ~gated(c, phase, FALSE)
  BY DEF gated
<1>3. CASE entersManualScan(c, phase)
  <2>1. mappingPhase(c, phase, FALSE).state = "REMOTE_CONTROL"
    BY <1>2, <1>3 DEF mappingPhase, MappingContext
  <2>2. phase = "MAP_SCAN_BOUNDARY"
    BY <1>3 DEF entersManualScan
  <2>. QED BY <1>1, <2>1, <2>2
<1>4. CASE ~entersManualScan(c, phase)
  <2>1. mappingPhase(c, phase, FALSE) = settlePhase(c, meant)
    BY <1>2, <1>4 DEF mappingPhase
  <2>2. phase \in {"MAP_UPLOADING", "MAP_COMPLETING"} => meant = phase
    BY DEF MeantPhase
  <2>. HIDE DEF meant
  <2>. DEFINE told == [type |-> "DEVICE_PHASE", phase |-> meant]
  <2>3. baseReducer(c, told) = DevicePhase(c, told)
    BY DEF baseReducer, transition, InSession, TERMINAL_TASK_STATES, SimOnlyEvents
  <2>4. baseReducer(c, told).state = "WORKING" /\ baseReducer(c, told).phase = meant
    BY <2>3 DEF DevicePhase, MappingContext
  <2>5. \/ /\ meant = "MAP_FOLLOW_BOUNDARY_MANUAL"
           /\ settlePhase(c, meant).state = "REMOTE_CONTROL"
        \/ settlePhase(c, meant) = baseReducer(c, told)
    BY DEF settlePhase, MappingContext
  <2>. QED BY <1>1, <2>1, <2>2, <2>4, <2>5
<1>. QED BY <1>3, <1>4

\* What a mapping frame's events leave alone in a working session, and a stop button
\* that is let go.
LEMMA NothingForWorking ==
    ASSUME NEW c \in MappingContext, c.state = "WORKING"
    PROVE  /\ \A work \in {"mapping", "idle"} : mappingReducer(c, statusEvent(work), FALSE) = c
           /\ mappingReducer(c, [type |-> "DEVICE_UNDOCKED"], FALSE) = c
           /\ mappingReducer(c, Estop(FALSE), FALSE).state = "WORKING"
<1>1. ASSUME NEW work \in {"mapping", "idle"}
      PROVE  mappingReducer(c, statusEvent(work), FALSE) = c
  BY DEF mappingReducer, statusEvent, CLOUD_WORK_STATUSES, reduceWorkStatus, baseReducer,
         transition, InSession, TERMINAL_TASK_STATES, DeviceWorkStatus, DeviceUndocked,
         SimOnlyEvents
<1>2. mappingReducer(c, [type |-> "DEVICE_UNDOCKED"], FALSE) = c
  BY DEF mappingReducer, baseReducer, transition, InSession, TERMINAL_TASK_STATES,
         DeviceUndocked, SimOnlyEvents
<1>3. mappingReducer(c, Estop(FALSE), FALSE) = DeviceEstop(c, Estop(FALSE))
  BY DEF mappingReducer, Estop, baseReducer, transition, InSession, TERMINAL_TASK_STATES,
         SimOnlyEvents
<1>4. DeviceEstop(c, Estop(FALSE)).state = "WORKING"
  BY DEF DeviceEstop, Estop, MappingContext
<1>. QED BY <1>1, <1>2, <1>3, <1>4

\* A confirmation on the completion page completes the session.
LEMMA ConfirmCompletes ==
    ASSUME NEW c \in MappingContext, c.state = "WORKING", c.phase = "MAP_COMPLETING"
    PROVE  /\ mappingReducer(c, Command("CMD_CONFIRM"), FALSE).state = "COMPLETED"
           /\ mappingReducer(c, Command("CMD_CONFIRM"), FALSE).phase = "MAP_COMPLETING"
<1>1. mappingReducer(c, Command("CMD_CONFIRM"), FALSE) = CmdConfirm(c, MappingOptions)
  BY DEF mappingReducer, Command, baseReducer, transition, InSession, TERMINAL_TASK_STATES,
         SimOnlyEvents
<1>. QED BY <1>1 DEF CmdConfirm, MappingOptions, MappingContext

\* An error that is not recoverable ends a session that is under way.
LEMMA FatalEnds ==
    ASSUME NEW c \in MappingContext, c.state \in {"WORKING", "REMOTE_CONTROL"}
    PROVE  mappingReducer(c, [type |-> "DEVICE_ERROR", recoverable |-> FALSE], FALSE).state
             = "ERRORED"
<1>. DEFINE e == [type |-> "DEVICE_ERROR", recoverable |-> FALSE]
<1>1. mappingReducer(c, e, FALSE) = withError(c)
  BY DEF mappingReducer, baseReducer, transition, InSession, TERMINAL_TASK_STATES,
         SimOnlyEvents, DeviceError
<1>. QED BY <1>1 DEF withError, MappingContext

-----------------------------------------------------------------------------
(* What whole frames do to the session.                                       *)

\* The session and the last frame after one dispatched event, in a handler that
\* started in r.
LEMMA DispatchResult ==
    ASSUME NEW r, NEW s, Reaches(r, s), NEW event \in MappingEvent
    PROVE  /\ Reaches(r, dispatchMappingEvent(s, event))
           /\ s.mapping \in MappingContext
           /\ dispatchMappingEvent(s, event).mapping = mappingReducer(s.mapping, event, FALSE)
           /\ event.type # "CMD_RESET" => dispatchMappingEvent(s, event).notify = s.notify
  BY DispatchEventLeads, DispatchReaches DEF Reaches, Typed, Robots

\* A frame is noted as the last one: nothing else changes.
LEMMA NotedResult ==
    ASSUME NEW r, NEW s, Reaches(r, s), NEW frame \in StatusFrames
    PROVE  /\ Reaches(r, [s EXCEPT !.notify = frame])
           /\ [s EXCEPT !.notify = frame].mapping = s.mapping
           /\ [s EXCEPT !.notify = frame].notify = frame
  BY NotedLeads, ReachesOn DEF Reaches

\* The types of the events of a frame.
LEMMA FrameEventTypes ==
    ASSUME NEW work \in MappingWork, NEW sub
    PROVE  /\ statusEvent(work) # NoEvent => statusEvent(work).type = "DEVICE_WORK_STATUS"
           /\ phaseEvent(work, sub) # NoEvent =>
                \/ phaseEvent(work, sub) = [type |-> "DEVICE_UNDOCKED"]
                \/ \E phase \in MappingPhase : phaseEvent(work, sub) = Phase(phase)
           /\ NoEvent \notin {[type |-> "DEVICE_UNDOCKED"]}
           /\ phaseEvent(work, sub).type \notin {"CMD_CONFIRM", "CMD_RESET"}
<1>1. statusEvent(work) # NoEvent => statusEvent(work).type = "DEVICE_WORK_STATUS"
  BY DEF statusEvent
<1>2. phaseEvent(work, sub) # NoEvent =>
        \/ phaseEvent(work, sub) = [type |-> "DEVICE_UNDOCKED"]
        \/ phaseEvent(work, sub) = Phase(mapBackendSubStatus(work, sub))
  BY DEF phaseEvent, Phase
<1>3. /\ NoEvent.type = "none"
      /\ [type |-> "DEVICE_UNDOCKED"].type = "DEVICE_UNDOCKED"
      /\ \A phase : Phase(phase).type = "DEVICE_PHASE" /\ Phase(phase).phase = phase
  BY DEF NoEvent, Phase
<1>4. phaseEvent(work, sub).type \notin {"CMD_CONFIRM", "CMD_RESET"}
  BY <1>2, <1>3
<1>5. phaseEvent(work, sub).type = "DEVICE_PHASE" =>
        phaseEvent(work, sub).phase \in MappingPhase
  BY <1>3, FrameEvents, EventFields
<1>6. phaseEvent(work, sub) = Phase(mapBackendSubStatus(work, sub)) =>
        mapBackendSubStatus(work, sub) \in MappingPhase
  BY <1>3, <1>5
<1>. QED BY <1>1, <1>2, <1>3, <1>4, <1>6

\* A pushed mapping frame does not complete the session: it is no confirmation, and
\* no edge to idle.
LEMMA PushUncompleted ==
    ASSUME NEW r, NEW s, Reaches(r, s), s.mapping.state # "COMPLETED", NEW sub \in Words
    PROVE  pushRatelStatus(s, "mapping", sub).mapping.state # "COMPLETED"
<1>. DEFINE frame    == [work |-> "mapping", sub |-> sub]
            prev     == s.notify.work
            noted    == [s EXCEPT !.notify = frame]
            released == applyReleaseEdge(noted, prev)
            status   == dispatchNotify(released, statusEvent("mapping"))
            told     == dispatchNotify(status, phaseEvent("mapping", sub))
            last     == applyUndockingFailedTermination(told)
<1>1. frame \in StatusFrames /\ frame.work = "mapping" /\ frame.sub = sub
  BY HandlerWords DEF StatusFrames, Words
<1>2. pushRatelStatus(s, "mapping", sub) \in {s, applyMappingFrame(noted, frame, prev)}
  BY DEF pushRatelStatus
<1>3. applyMappingFrame(noted, frame, prev) = last
  BY <1>1 DEF applyMappingFrame, dispatchFrame, applyIdleEdge
<1>4. ASSUME NEW x, Reaches(r, x), x.mapping.state # "COMPLETED",
             NEW event \in MappingEvent, event.type # "CMD_CONFIRM"
      PROVE  /\ Reaches(r, dispatchMappingEvent(x, event))
             /\ dispatchMappingEvent(x, event).mapping.state # "COMPLETED"
  BY <1>4, DispatchResult, OnlyConfirmCompletes
<1>5. Reaches(r, noted) /\ noted.mapping.state # "COMPLETED"
  BY <1>1, NotedResult
<1>. HIDE DEF noted, frame
<1>6. Reaches(r, released) /\ released.mapping.state # "COMPLETED"
  BY <1>4, <1>5, HandlerEvents DEF applyReleaseEdge
<1>. HIDE DEF released
<1>7. Reaches(r, status) /\ status.mapping.state # "COMPLETED"
  BY <1>4, <1>6, FrameEvents, FrameEventTypes, HandlerWords DEF dispatchNotify
<1>. HIDE DEF status
<1>8. Reaches(r, told) /\ told.mapping.state # "COMPLETED"
  BY <1>4, <1>7, FrameEvents, FrameEventTypes, HandlerWords DEF dispatchNotify
<1>. HIDE DEF told
<1>9. [type |-> "DEVICE_ERROR", recoverable |-> FALSE].type # "CMD_CONFIRM"
  OBVIOUS
<1>10. last.mapping.state # "COMPLETED"
  BY <1>4, <1>8, <1>9, HandlerEvents DEF applyUndockingFailedTermination
<1>. QED BY <1>2, <1>3, <1>10

\* The confirmation of a resume: the frame of a mapping robot, pushed as a new one,
\* sets the session to work, whatever phase it also reports.
LEMMA PushConfirms ==
    ASSUME NEW r, NEW s, Reaches(r, s), s.mapping.state = "RESUMING",
           s.mapping.resumeTo.phase # Null, s.notify.work = Null, NEW sub \in Words
    PROVE  pushRatelStatus(s, "mapping", sub).mapping.state \in
             {"WORKING", "REMOTE_CONTROL", "ERRORED"}
<1>. DEFINE frame    == [work |-> "mapping", sub |-> sub]
            noted    == [s EXCEPT !.notify = frame]
            status   == dispatchNotify(noted, statusEvent("mapping"))
            told     == dispatchNotify(status, phaseEvent("mapping", sub))
            last     == applyUndockingFailedTermination(told)
<1>1. /\ frame \in StatusFrames /\ frame.work = "mapping" /\ frame.sub = sub
      /\ s.notify # frame
  BY HandlerWords DEF StatusFrames, Words, Null
<1>2. pushRatelStatus(s, "mapping", sub) = applyMappingFrame(noted, frame, Null)
  BY <1>1 DEF pushRatelStatus
<1>3. applyMappingFrame(noted, frame, Null) = last
  BY <1>1 DEF applyMappingFrame, dispatchFrame, applyIdleEdge, applyReleaseEdge, Null
<1>4. Reaches(r, noted) /\ noted.mapping = s.mapping
  BY <1>1, NotedResult
<1>. HIDE DEF noted, frame
<1>5. statusEvent("mapping") # NoEvent /\ statusEvent("mapping") \in MappingEvent
  <2>1. statusEvent("mapping").type # NoEvent.type
    BY DEF statusEvent, NoEvent, CLOUD_WORK_STATUSES
  <2>. QED BY <2>1, FrameEvents, HandlerWords
<1>6. Reaches(r, status) /\ status.mapping \in MappingContext /\ status.mapping.state = "WORKING"
  <2>1. status = dispatchMappingEvent(noted, statusEvent("mapping"))
    BY <1>5 DEF dispatchNotify
  <2>2. Reaches(r, status) /\ noted.mapping \in MappingContext
        /\ status.mapping = mappingReducer(noted.mapping, statusEvent("mapping"), FALSE)
    BY <1>4, <1>5, <2>1, DispatchResult
  <2>3. status.mapping \in MappingContext
    BY <2>2 DEF Reaches, Typed, Robots
  <2>. QED BY <1>4, <2>2, <2>3, FrameConfirms
<1>. HIDE DEF status
<1>7. /\ Reaches(r, told) /\ told.mapping \in MappingContext
      /\ told.mapping.state \in {"WORKING", "REMOTE_CONTROL"}
  <2>1. CASE phaseEvent("mapping", sub) = NoEvent
    BY <1>6, <2>1 DEF dispatchNotify
  <2>2. CASE phaseEvent("mapping", sub) # NoEvent
    <3>1. /\ told = dispatchMappingEvent(status, phaseEvent("mapping", sub))
          /\ phaseEvent("mapping", sub) \in MappingEvent
      BY <2>2, FrameEvents, HandlerWords DEF dispatchNotify
    <3>2. /\ Reaches(r, told)
          /\ told.mapping = mappingReducer(status.mapping, phaseEvent("mapping", sub), FALSE)
      BY <1>6, <3>1, DispatchResult
    <3>3. told.mapping \in MappingContext
      BY <3>2 DEF Reaches, Typed, Robots
    <3>4. \/ phaseEvent("mapping", sub) = [type |-> "DEVICE_UNDOCKED"]
          \/ \E phase \in MappingPhase : phaseEvent("mapping", sub) = Phase(phase)
      BY <2>2, FrameEventTypes, HandlerWords
    <3>5. CASE phaseEvent("mapping", sub) = [type |-> "DEVICE_UNDOCKED"]
      <4>1. told.mapping = status.mapping
        BY <1>6, <3>2, <3>5, NothingForWorking
      <4>. QED BY <1>6, <3>2, <4>1
    <3>6. CASE \E phase \in MappingPhase : phaseEvent("mapping", sub) = Phase(phase)
      BY <1>6, <3>2, <3>3, <3>6, PhaseWorks
    <3>. QED BY <3>4, <3>5, <3>6
  <2>. QED BY <2>1, <2>2
<1>. HIDE DEF told
<1>8. last.mapping.state \in {"WORKING", "REMOTE_CONTROL", "ERRORED"}
  <2>. DEFINE fatal == [type |-> "DEVICE_ERROR", recoverable |-> FALSE]
  <2>1. mappingReducer(told.mapping, fatal, FALSE).state = "ERRORED" /\ fatal \in MappingEvent
    BY <1>7, FatalEnds, HandlerEvents
  <2>2. last \in {told, dispatchMappingEvent(told, fatal)}
    BY DEF applyUndockingFailedTermination
  <2>. HIDE DEF fatal, last
  <2>3. dispatchMappingEvent(told, fatal).mapping = mappingReducer(told.mapping, fatal, FALSE)
    BY <1>7, <2>1, DispatchResult
  <2>. QED BY <1>7, <2>1, <2>2, <2>3
<1>. QED BY <1>2, <1>3, <1>8

\* The frame of an upload leaves a working session at work, and is the last frame then.
LEMMA PushUploads ==
    ASSUME NEW r, NEW s, Reaches(r, s), s.mapping.state = "WORKING",
           NEW t, t = pushRatelStatus(s, "mapping", "upload_map")
    PROVE  /\ Reaches(r, t) /\ t.mapping.state = "WORKING"
           /\ t.notify = [work |-> "mapping", sub |-> "upload_map"]
<1>. DEFINE frame    == [work |-> "mapping", sub |-> "upload_map"]
            prev     == s.notify.work
            noted    == [s EXCEPT !.notify = frame]
            released == applyReleaseEdge(noted, prev)
            status   == dispatchNotify(released, statusEvent("mapping"))
            told     == dispatchNotify(status, phaseEvent("mapping", "upload_map"))
            last     == applyUndockingFailedTermination(told)
<1>1. frame \in StatusFrames /\ frame.work = "mapping" /\ frame.sub = "upload_map"
  BY HandlerWords DEF StatusFrames, Words
<1>2. t = IF s.notify = frame THEN s ELSE applyMappingFrame(noted, frame, prev)
  BY DEF pushRatelStatus
<1>3. applyMappingFrame(noted, frame, prev) = last
  BY <1>1 DEF applyMappingFrame, dispatchFrame, applyIdleEdge
<1>4. CASE s.notify = frame
  BY <1>2, <1>4
<1>5. CASE s.notify # frame
  <2>1. Reaches(r, noted) /\ noted.mapping = s.mapping /\ noted.notify = frame
    BY <1>1, NotedResult
  <2>2. t = last
    BY <1>2, <1>3, <1>5
  <2>. HIDE DEF noted, frame
  <2>3. /\ Reaches(r, released) /\ released.mapping \in MappingContext
        /\ released.mapping.state = "WORKING" /\ released.notify = frame
    <3>1. CASE released = noted
      BY <2>1, <3>1 DEF Reaches, Typed, Robots
    <3>2. CASE released = dispatchMappingEvent(noted, Estop(FALSE))
      <4>1. Estop(FALSE) \in MappingEvent /\ Estop(FALSE).type # "CMD_RESET"
        BY HandlerEvents
      <4>2. /\ Reaches(r, released) /\ released.notify = noted.notify
            /\ noted.mapping \in MappingContext
            /\ released.mapping = mappingReducer(noted.mapping, Estop(FALSE), FALSE)
        BY <2>1, <3>2, <4>1, DispatchResult
      <4>3. released.mapping \in MappingContext
        BY <4>2 DEF Reaches, Typed, Robots
      <4>. QED BY <2>1, <4>2, <4>3, NothingForWorking
    <3>. QED BY <3>1, <3>2 DEF applyReleaseEdge
  <2>. HIDE DEF released
  <2>4. /\ Reaches(r, status) /\ status.mapping = released.mapping
        /\ status.notify = frame
    <3>1. CASE status = released
      BY <2>3, <3>1
    <3>2. CASE status = dispatchMappingEvent(released, statusEvent("mapping"))
                 /\ statusEvent("mapping") # NoEvent
      <4>1. statusEvent("mapping") \in MappingEvent /\ statusEvent("mapping").type # "CMD_RESET"
        BY <3>2, FrameEvents, FrameEventTypes, HandlerWords
      <4>2. /\ Reaches(r, status) /\ status.notify = released.notify
            /\ status.mapping = mappingReducer(released.mapping, statusEvent("mapping"), FALSE)
        BY <2>3, <3>2, <4>1, DispatchResult
      <4>. QED BY <2>3, <4>2, NothingForWorking
    <3>. QED BY <3>1, <3>2 DEF dispatchNotify
  <2>. HIDE DEF status
  <2>5. /\ phaseEvent("mapping", "upload_map") = Phase("MAP_UPLOADING")
        /\ Phase("MAP_UPLOADING").type = "DEVICE_PHASE"
        /\ Phase("MAP_UPLOADING") # NoEvent /\ "MAP_UPLOADING" \in MappingPhase
    <3>1. mapBackendSubStatus("mapping", "upload_map") = "MAP_UPLOADING"
      BY DEF mapBackendSubStatus, SUB_STATUS_TABLE, MAPPING_SUB
    <3>2. Phase("MAP_UPLOADING").type # NoEvent.type
      BY DEF Phase, NoEvent
    <3>. QED BY <3>1, <3>2 DEF phaseEvent, Phase, MappingPhase
  <2>6. /\ Reaches(r, told) /\ told.mapping.state = "WORKING"
        /\ told.mapping.phase = "MAP_UPLOADING" /\ told.notify = frame
    <3>1. told = dispatchMappingEvent(status, Phase("MAP_UPLOADING"))
      BY <2>5 DEF dispatchNotify
    <3>2. Phase("MAP_UPLOADING") \in MappingEvent
      BY <2>5, FrameEvents, HandlerWords
    <3>3. /\ Reaches(r, told) /\ told.notify = status.notify
          /\ told.mapping = mappingReducer(status.mapping, Phase("MAP_UPLOADING"), FALSE)
      BY <2>4, <2>5, <3>1, <3>2, DispatchResult
    <3>4. status.mapping \in MappingContext /\ status.mapping.state = "WORKING"
      BY <2>3, <2>4
    <3>5. told.mapping.state = "WORKING" /\ told.mapping.phase = "MAP_UPLOADING"
      BY <2>5, <3>3, <3>4, PhaseWorks
    <3>. QED BY <2>4, <3>3, <3>5
  <2>. HIDE DEF told
  <2>7. last = told
    BY <2>6 DEF applyUndockingFailedTermination
  <2>. QED BY <2>2, <2>6, <2>7 DEF frame
<1>. QED BY <1>4, <1>5

\* The frame to idle after it completes the session, by way of the completion page.
LEMMA PushCompletes ==
    ASSUME NEW r, NEW s, Reaches(r, s), s.mapping.state = "WORKING",
           s.notify = [work |-> "mapping", sub |-> "upload_map"]
    PROVE  pushRatelStatus(s, "idle", "complete").mapping.state = "COMPLETED"
<1>. DEFINE frame == [work |-> "idle", sub |-> "complete"]
            noted == [s EXCEPT !.notify = frame]
            told  == dispatchNotify(noted, statusEvent("idle"))
            page  == IF told.mapping.phase # "MAP_COMPLETING"
                     THEN dispatchMappingEvent(told, Phase("MAP_COMPLETING")) ELSE told
            done  == dispatchMappingEvent(page, Command("CMD_CONFIRM"))
<1>1. /\ frame \in StatusFrames /\ frame.work = "idle" /\ frame.sub = "complete"
      /\ s.notify.work = "mapping" /\ s.notify # frame
  <2>1. frame \in StatusFrames /\ frame.work = "idle" /\ frame.sub = "complete"
    BY HandlerWords DEF StatusFrames, Words
  <2>2. s.notify.work = "mapping"
    OBVIOUS
  <2>. HIDE DEF frame
  <2>. QED BY <2>1, <2>2
<1>2. pushRatelStatus(s, "idle", "complete") = applyMappingFrame(noted, frame, "mapping")
  BY <1>1 DEF pushRatelStatus
<1>3. phaseEvent("idle", "complete") = NoEvent
  BY DEF phaseEvent, mapBackendSubStatus, SUB_STATUS_TABLE
<1>4. applyMappingFrame(noted, frame, "mapping") =
        applyUndockingFailedTermination(applyMappingToIdleCompletion(told))
  <2>1. frame.work = "idle" /\ frame.sub = "complete"
    BY <1>1
  <2>. HIDE DEF frame, noted
  <2>2. dispatchFrame(noted, frame) = told
    BY <1>3, <2>1 DEF dispatchFrame, dispatchNotify
  <2>3. applyReleaseEdge(noted, "mapping") = noted
    BY DEF applyReleaseEdge
  <2>. HIDE DEF told
  <2>. QED BY <2>1, <2>2, <2>3 DEF applyMappingFrame, applyIdleEdge
<1>5. Reaches(r, noted) /\ noted.mapping = s.mapping
  BY <1>1, NotedResult
<1>. HIDE DEF noted, frame
<1>6. /\ Reaches(r, told) /\ told.mapping \in MappingContext
      /\ told.mapping.state = "WORKING"
  <2>1. CASE told = noted
    BY <1>5, <2>1 DEF Reaches, Typed, Robots
  <2>2. CASE told = dispatchMappingEvent(noted, statusEvent("idle"))
               /\ statusEvent("idle") # NoEvent
    <3>1. statusEvent("idle") \in MappingEvent
      BY <2>2, FrameEvents, HandlerWords
    <3>2. /\ Reaches(r, told) /\ noted.mapping \in MappingContext
          /\ told.mapping = mappingReducer(noted.mapping, statusEvent("idle"), FALSE)
      BY <1>5, <2>2, <3>1, DispatchResult
    <3>. QED BY <1>5, <3>2, NothingForWorking
  <2>. QED BY <2>1, <2>2 DEF dispatchNotify
<1>. HIDE DEF told
<1>7. /\ Reaches(r, page) /\ page.mapping \in MappingContext
      /\ page.mapping.state = "WORKING" /\ page.mapping.phase = "MAP_COMPLETING"
  <2>1. CASE told.mapping.phase = "MAP_COMPLETING"
    BY <1>6, <2>1
  <2>2. CASE told.mapping.phase # "MAP_COMPLETING"
    <3>1. page = dispatchMappingEvent(told, Phase("MAP_COMPLETING"))
      BY <2>2
    <3>2. /\ Reaches(r, page)
          /\ page.mapping = mappingReducer(told.mapping, Phase("MAP_COMPLETING"), FALSE)
      <4>1. Phase("MAP_COMPLETING") \in MappingEvent
        BY HandlerEvents
      <4>. QED BY <1>6, <3>1, <4>1, DispatchResult
    <3>3. page.mapping \in MappingContext /\ "MAP_COMPLETING" \in MappingPhase
      BY <3>2 DEF Reaches, Typed, Robots, MappingPhase, MAPPING_PHASES
    <3>. QED BY <1>6, <3>2, <3>3, PhaseWorks
  <2>. QED BY <2>1, <2>2
<1>8. applyMappingToIdleCompletion(told) = done
  BY <1>6 DEF applyMappingToIdleCompletion
<1>. HIDE DEF page
<1>9. done.mapping = mappingReducer(page.mapping, Command("CMD_CONFIRM"), FALSE)
  <2>1. Command("CMD_CONFIRM") \in MappingEvent
    BY HandlerEvents
  <2>. QED BY <1>7, <2>1, DispatchResult
<1>10. done.mapping.state = "COMPLETED" /\ done.mapping.phase = "MAP_COMPLETING"
  BY <1>7, <1>9, ConfirmCompletes
<1>. HIDE DEF done
<1>11. applyUndockingFailedTermination(done) = done
  BY <1>10 DEF applyUndockingFailedTermination
<1>. QED BY <1>2, <1>4, <1>8, <1>10, <1>11

-----------------------------------------------------------------------------
(* Which callbacks end a session.                                             *)

\* A working session is completed by the callback that takes r to t exactly if the
\* callback reports a successful upload.
EndsWithUpload(r, t) ==
    r.mapping.state = "WORKING" =>
      (t.mapping.state = "COMPLETED" <=> r.upload.timer /\ t.upload.state = "SUCCESS")

\* The acknowledgement of a device action is a mapping frame.
LEMMA DeviceTimerEnds ==
    ASSUME NEW r, Robust(r), NEW action \in DeviceActions
    PROVE  LET fired == [r EXCEPT !.device =
                           [ timers  |-> @.timers \ {action},
                             pending |-> IF action \in {"EDGE_START", "EDGE_CLOSE"}
                                         THEN Null ELSE @.pending ]]
           IN  EndsWithUpload(r, pushRatelStatus(fired, "mapping", ack(action)))
<1>. DEFINE d == [ timers  |-> r.device.timers \ {action},
                   pending |-> IF action \in {"EDGE_START", "EDGE_CLOSE"}
                               THEN Null ELSE r.device.pending ]
            fired == [r EXCEPT !.device =
                           [ timers  |-> @.timers \ {action},
                             pending |-> IF action \in {"EDGE_START", "EDGE_CLOSE"}
                                         THEN Null ELSE @.pending ]]
            t == pushRatelStatus(fired, "mapping", ack(action))
<1>1. fired = [r EXCEPT !.device = d]
  BY DEF Robust, Typed, Robots
<1>2. d \in Devices
  BY DEF Devices, Robust, Typed, Robots
<1>. HIDE DEF d, fired
<1>3. Reaches(r, fired) /\ fired.upload = r.upload /\ fired.mapping = r.mapping
  BY <1>1, <1>2, ReachesItself, SetDevice
<1>4. SameTimers(fired, t)
  BY <1>3, HandlerWords, PushReaches
<1>5. r.mapping.state = "WORKING" => t.mapping.state # "COMPLETED"
  BY <1>3, HandlerWords, PushUncompleted
<1>6. r.upload.timer => t.upload.state = "UPLOADING"
  BY <1>3, <1>4 DEF SameTimers, Robust, Busy
<1>. QED BY <1>5, <1>6 DEF EndsWithUpload, fired

\* A settle callback leaves the session and the upload alone.
LEMMA SettleEnds ==
    ASSUME NEW r, Robust(r), NEW y
    PROVE  EndsWithUpload(r, [r EXCEPT !.telemetry = y])
<1>. DEFINE t == [r EXCEPT !.telemetry = y]
<1>1. t.mapping = r.mapping /\ t.upload = r.upload
  BY DEF Robust, Typed, Robots
<1>. HIDE DEF t
<1>2. r.upload.timer => r.upload.state = "UPLOADING"
  BY DEF Robust, Busy
<1>3. EndsWithUpload(r, t)
  BY <1>1, <1>2 DEF EndsWithUpload
<1>. QED BY <1>3 DEF t

\* The end of the countdown starts an upload.
LEMMA CountdownEndsNothing ==
    ASSUME NEW r, Robust(r)
    PROVE  EndsWithUpload(r, beginMapUpload([r EXCEPT !.waiting.timer = FALSE]))
<1>. DEFINE w == [r.waiting EXCEPT !.timer = FALSE]
            s == [r EXCEPT !.waiting.timer = FALSE]
            t == beginMapUpload(s)
            u == [state |-> "UPLOADING", progress |-> 0, timer |-> FALSE]
            begun  == [s EXCEPT !.upload = u]
            pushed == pushRatelStatus(begun, "mapping", "upload_map")
<1>1. w \in Pages /\ ~w.timer /\ w.open = r.waiting.open
  BY DEF Pages, Robust, Typed, Robots
<1>2. s = [r EXCEPT !.waiting = w]
  BY DEF Robust, Typed, Robots
<1>. HIDE DEF w, s
<1>3. Reaches(r, s) /\ s.mapping = r.mapping
  BY <1>1, <1>2, ReachesItself, SetWaiting
<1>4. u \in Uploads
  BY BoundsAssumption DEF Uploads
<1>5. t = [pushed EXCEPT !.upload.timer = TRUE]
  BY DEF beginMapUpload
<1>. HIDE DEF u
<1>6. Reaches(r, begun) /\ begun.mapping = r.mapping
  BY <1>3, <1>4, SetUpload
<1>. HIDE DEF begun
<1>7. pushed \in Robots
  BY <1>6, HandlerWords, PushReaches DEF Reaches, Typed
<1>8. r.mapping.state = "WORKING" => pushed.mapping.state # "COMPLETED"
  BY <1>6, HandlerWords, PushUncompleted
<1>. HIDE DEF pushed
<1>9. t.mapping = pushed.mapping
  BY <1>5, <1>7 DEF Robots
<1>10. t.upload.state = "UPLOADING"
  BY <1>3, BeginUpload
<1>. HIDE DEF t
<1>11. EndsWithUpload(r, t)
  BY <1>8, <1>9, <1>10 DEF EndsWithUpload
<1>. QED BY <1>11 DEF t, s

\* The frame of an upload step does not end the session; after it the frame to idle would.
LEMMA UploadFrameWorks ==
    ASSUME NEW r, Robust(r), NEW state \in {"UPLOADING", "FAILED", "SUCCESS"},
           NEW progress \in 0..UploadSteps, r.mapping.state = "WORKING"
    PROVE  LET t == uploadFrame(r, state, progress)
           IN  /\ t.mapping.state = "WORKING"
               /\ t.notify = [work |-> "mapping", sub |-> "upload_map"]
<1>. DEFINE u == [state |-> state, progress |-> progress, timer |-> FALSE]
            s == [r EXCEPT !.upload = u]
            t == pushRatelStatus(s, "mapping", "upload_map")
<1>1. u \in Uploads
  BY DEF Uploads
<1>2. uploadFrame(r, state, progress) = t
  BY DEF uploadFrame
<1>. HIDE DEF u
<1>3. Reaches(r, s) /\ s.mapping = r.mapping
  BY <1>1, ReachesItself, SetUpload
<1>. HIDE DEF s
<1>4. t.mapping.state = "WORKING" /\ t.notify = [work |-> "mapping", sub |-> "upload_map"]
  BY <1>3, PushUploads
<1>. QED BY <1>2, <1>4

\* One upload step: only the last one, and only if it does not fail, ends the session.
LEMMA UploadStepEnds ==
    ASSUME NEW r, Robust(r), r.upload.timer, r.mapping.state = "WORKING"
    PROVE  uploadStep(r).mapping.state = "COMPLETED" <=> uploadStep(r).upload.state = "SUCCESS"
<1>. DEFINE progress == r.upload.progress + 1
<1>1. progress \in 1..UploadSteps
  BY BoundsAssumption DEF Robust, Busy, Typed, Robots, Uploads
<1>2. r.failAt \in Nat
  BY BoundsAssumption DEF Robust, Typed, Robots, NoFailure
<1>. HIDE DEF progress
<1>3. CASE progress >= r.failAt
  <2>. DEFINE t == uploadFrame(r, "FAILED", progress)
  <2>1. uploadStep(r) = t
    BY <1>1, <1>2, <1>3 DEF uploadStep, progress
  <2>2. t.upload.state = "FAILED" /\ t.mapping.state = "WORKING"
    BY <1>1, UploadFrame, UploadFrameWorks
  <2>. QED BY <2>1, <2>2
<1>4. CASE progress < r.failAt /\ progress = UploadSteps
  <2>. DEFINE s == uploadFrame(r, "SUCCESS", progress)
              t == pushRatelStatus(s, "idle", "complete")
  <2>1. uploadStep(r) = t
    BY <1>1, <1>2, <1>4 DEF uploadStep, progress
  <2>2. Reaches(r, s) /\ s.upload.state = "SUCCESS"
    BY <1>1, UploadFrame
  <2>3. s.mapping.state = "WORKING" /\ s.notify = [work |-> "mapping", sub |-> "upload_map"]
    BY <1>1, UploadFrameWorks
  <2>. HIDE DEF s
  <2>4. SameTimers(s, t)
    BY <2>2, HandlerWords, PushReaches
  <2>5. t.mapping.state = "COMPLETED"
    BY <2>2, <2>3, PushCompletes
  <2>. QED BY <2>1, <2>2, <2>4, <2>5 DEF SameTimers
<1>5. CASE progress < r.failAt /\ progress # UploadSteps
  <2>. DEFINE s == uploadFrame(r, "UPLOADING", progress)
              t == [s EXCEPT !.upload.timer = TRUE]
  <2>1. uploadStep(r) = t
    BY <1>1, <1>2, <1>5 DEF uploadStep, progress
  <2>2. Reaches(r, s) /\ s.upload \in Uploads /\ s.upload.state = "UPLOADING"
    BY <1>1, UploadFrame
  <2>3. s.mapping.state = "WORKING"
    BY <1>1, UploadFrameWorks
  <2>. HIDE DEF s
  <2>4. t.mapping = s.mapping /\ t.upload.state = "UPLOADING"
    BY <2>2 DEF Reaches, Typed, Robots, Uploads
  <2>. QED BY <2>1, <2>3, <2>4
<1>. QED BY <1>1, <1>2, <1>3, <1>4, <1>5

\* The robot ends a running session by itself with the last step of an upload that did
\* not fail, and with no other callback.
THEOREM RobotUploadEndsSession == Spec => UploadEndsSession
<1>. USE RobotFields
<1>. DEFINE Ended ==
       /\ mapping.state = "WORKING"
       /\ (mapping'.state = "COMPLETED") # (upload.timer /\ upload'.state = "SUCCESS")
<1>1. ASSUME NEW t, Become(t), EndsWithUpload(Robot, t) PROVE ~Ended
  <2>1. /\ mapping'.state = t.mapping.state /\ upload'.state = t.upload.state
        /\ Robot.mapping.state = mapping.state
        /\ Robot.upload.timer = upload.timer
    BY <1>1 DEF Become
  <2>. QED BY <1>1, <2>1 DEF EndsWithUpload
<1>2. Robust(Robot) /\ Timer => ~Ended
  <2>. SUFFICES ASSUME Robust(Robot), Timer PROVE ~Ended
    OBVIOUS
  <2>. HIDE DEF Ended
  <2>1. ASSUME NEW action \in DeviceActions, DeviceTimer(action) PROVE ~Ended
    BY <1>1, <2>1, DeviceTimerEnds DEF DeviceTimer
  <2>2. CASE StartSettles
    <3>1. [Robot EXCEPT !.telemetry = startSettled(@)] =
            [Robot EXCEPT !.telemetry = startSettled(Robot.telemetry)]
      BY DEF Robot
    <3>. QED BY <1>1, <2>2, <3>1, SettleEnds DEF StartSettles
  <2>3. CASE EndSettles
    <3>1. [Robot EXCEPT !.telemetry = endSettled(@)] =
            [Robot EXCEPT !.telemetry = endSettled(Robot.telemetry)]
      BY DEF Robot
    <3>. QED BY <1>1, <2>3, <3>1, SettleEnds DEF EndSettles
  <2>4. CASE CountdownEnds
    BY <1>1, <2>4, CountdownEndsNothing DEF CountdownEnds
  <2>5. CASE UploadStep
    <3>1. Become(uploadStep(Robot)) /\ Robot.upload.timer
      BY <2>5 DEF UploadStep
    <3>2. EndsWithUpload(Robot, uploadStep(Robot))
      BY <3>1, UploadStepEnds DEF EndsWithUpload
    <3>. QED BY <1>1, <3>1, <3>2
  <2>. QED BY <2>1, <2>2, <2>3, <2>4, <2>5 DEF Timer
<1>3. Robust(Robot) /\ [Next]_vars => [Ended => ~Timer]_vars
  BY <1>2
<1>4. Robust(Robot) /\ [Next]_vars => Robust(Robot)'
  BY RobotStep, RobotStutters
<1>. QED BY <1>3, <1>4, InitRobust, PTL DEF Spec, UploadEndsSession

\* A request to resume is confirmed before its handler returns.
THEOREM RobotResumeIsConfirmed == Spec => ResumeIsConfirmed
<1>. USE RobotFields
<1>. DEFINE Unconfirmed ==
       /\ mapping.state = "PAUSED" /\ mapping.resumeTo.phase # Null
       /\ mapping'.state \in {"PAUSED", "RESUMING"}
<1>1. ASSUME Robust(Robot), NEW i, Resume(i),
             mapping.state = "PAUSED", mapping.resumeTo.phase # Null
      PROVE  mapping'.state \in {"WORKING", "REMOTE_CONTROL", "ERRORED"}
  <2>. DEFINE sub     == IF notify.sub = Null THEN "none" ELSE notify.sub
              told    == dispatchMapping(Robot, Command("CMD_RESUME"))
              frame   == [told.notify EXCEPT !.work = Null]
              noted   == [told EXCEPT !.notify = frame]
              resumed == [told EXCEPT !.notify.work = Null, !.telemetry = resetTelemetry]
              t       == pushRatelStatus(resumed, "mapping", sub)
  <2>1. sub \in Words
    BY <1>1 DEF Robust, Typed, Robots, StatusFrames, Words
  <2>2. Become(t)
    BY <1>1 DEF Resume
  <2>. HIDE DEF sub
  <2>3. Command("CMD_RESUME") \in MappingEvent
    BY HandlerEvents
  <2>4. /\ Reaches(Robot, told)
        /\ told.mapping = mappingReducer(mapping, Command("CMD_RESUME"), FALSE)
    BY <1>1, <2>3, DispatchKeeps, DispatchLeads DEF Robust
  <2>5. told.mapping.state = "RESUMING" /\ told.mapping.resumeTo.phase # Null
    <3>1. mapping \in MappingContext
      BY <1>1 DEF Robust, Typed, Robots
    <3>. QED BY <1>1, <2>4, <3>1, ResumeStarts
  <2>. HIDE DEF told
  <2>6. frame \in StatusFrames /\ frame.work = Null
    BY <2>4 DEF Reaches, Typed, Robots, StatusFrames, Words
  <2>7. resumed = [noted EXCEPT !.telemetry = resetTelemetry]
    BY <2>4 DEF Reaches, Typed, Robots
  <2>. HIDE DEF frame, resumed
  <2>8. Reaches(Robot, noted) /\ noted.mapping = told.mapping /\ noted.notify = frame
    BY <2>4, <2>6, NotedResult
  <2>. HIDE DEF noted
  <2>9. /\ resetTelemetry \in Telemetries /\ resetTelemetry.lastPhase = Null
        /\ ~resetTelemetry.startSettleTimer /\ ~resetTelemetry.endSettleTimer
        /\ ~resetTelemetry.legitimateStartingPoint /\ ~resetTelemetry.legitimateEndPoint
    BY DEF resetTelemetry, Telemetries
  <2>10. /\ Reaches(Robot, resumed) /\ resumed.mapping = told.mapping
         /\ resumed.notify = frame
    BY <2>7, <2>8, <2>9, SetTelemetry
  <2>11. t.mapping.state \in {"WORKING", "REMOTE_CONTROL", "ERRORED"}
    BY <2>1, <2>5, <2>6, <2>10, PushConfirms
  <2>. QED BY <2>2, <2>11 DEF Become
<1>2. Robust(Robot) /\ [Next]_vars => [Unconfirmed => \A i \in DOMAIN tasks : ~Resume(i)]_vars
  BY <1>1
<1>3. Robust(Robot) /\ [Next]_vars => Robust(Robot)'
  BY RobotStep, RobotStutters
<1>. QED BY <1>2, <1>3, InitRobust, PTL DEF Spec, ResumeIsConfirmed
=============================================================================
