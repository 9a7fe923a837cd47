-------------------------- MODULE MowingRobot_proofs --------------------------
(* What is proved about the mowing half of the robot, for any frames, raw      *)
(* events and bounds.  As for the mapping half, the handlers are operators on  *)
(* the robot's record, and the induction follows them: a lemma for dispatching *)
(* an event, one for pushing a frame, one for each action.                     *)
EXTENDS MowingRobot, MowingReducer_proofs

-----------------------------------------------------------------------------
(* What holds of a robot's record.                                            *)

MowRecords == [ status : {"ON_THE_WAY", "PAUSE", "COMPLETE", "CANCEL", "FAILED"},
                progress : 0..FullProgress ]
Docks == [status : {Null, "ON_THE_WAY", "PAUSE", "COMPLETE", "CANCEL"}, next : 1..Arrived]

\* The words of a frame.  Those the handlers push are spelled out, since the provers
\* do not know a literal for a string.
Words ==
    STRING \cup { Null, "mowing", "map_check", "leave_dock", "return_dock", "idle", "none",
                  "go_to_pre_dock_point", "seek_charger_dock", "enter_dock", "at_dock" }
StatusFrames == [work : Words, sub : Words]

Robots ==
    [ mowing : MowingContext, tasks : Seq(MowRecords), notify : StatusFrames,
      domain : {Null, "mapping", "mowing"}, dock : Docks ]

\* The type of the record, with the bound on the number of tasks.
Typed(r) == r \in Robots /\ Len(r.tasks) <= MaxTasks

\* The active record tells the state of its session.  Not so between the creation of
\* a record and the event that starts its session.
Tells(records, state) ==
    records # <<>> =>
      /\ Last(records).status = statusFor(state, Last(records).status)
      /\ state = "COMPLETED" => Last(records).progress = FullProgress
Followed(r) == Tells(r.tasks, r.mowing.state)

\* A recharge that has been cancelled has no frame left.
Cancelled(r) == r.dock.status = "CANCEL" => r.dock.next = Arrived

\* What holds of the robot between two handlers.
Robust(r) == Typed(r) /\ Resumable(r.mowing) /\ Followed(r) /\ Cancelled(r)

\* The states in which no frame but a mowing one puts the session to work, or in
\* an interruption of it that a resume ends.
Home == {"IDLE", "RETURNING_DOCK", "RECHARGING", "ESTOPPED"} \cup TERMINAL_TASK_STATES

\* Operator by operator: what dispatching and pushing keep, the last frame aside.
Leads(s, t) ==
    Typed(s) =>
      /\ Typed(t) /\ t.dock = s.dock
      /\ Resumable(s.mowing) => Resumable(t.mowing)
      /\ Followed(s) => Followed(t)

\* The same within a frame that is not a mowing one.
LeadsHome(s, t) ==
    Leads(s, t) /\ (Typed(s) => (s.mowing.state \in Home => t.mowing.state \in Home)
                                /\ t.notify = s.notify)

-----------------------------------------------------------------------------
(* Dispatching an event.                                                      *)

\* To bring a record up to date once more changes nothing.
LEMMA StatusForIdempotent ==
    ASSUME NEW state, NEW status \in {"ON_THE_WAY", "PAUSE", "COMPLETE", "CANCEL", "FAILED"}
    PROVE  /\ statusFor(state, status) \in {"ON_THE_WAY", "PAUSE", "COMPLETE", "CANCEL", "FAILED"}
           /\ statusFor(state, statusFor(state, status)) = statusFor(state, status)
  BY DEF statusFor

\* The records after an event: none is lost, and the last one tells the state.
LEMMA SyncTells ==
    ASSUME NEW list \in Seq(MowRecords), NEW c
    PROVE  /\ syncMowTask(list, c) \in Seq(MowRecords)
           /\ Len(syncMowTask(list, c)) = Len(list)
           /\ Tells(syncMowTask(list, c), c.state)
<1>1. CASE list = <<>>
  BY <1>1 DEF syncMowTask, Tells
<1>2. CASE list # <<>>
  <2>. DEFINE n == Len(list)
              old == list[n]
              new == [ status   |-> statusFor(c.state, old.status),
                       progress |-> IF c.state = "COMPLETED" THEN FullProgress
                                    ELSE old.progress ]
              synced == [list EXCEPT ![n] = new]
  <2>1. n \in DOMAIN list /\ old \in MowRecords
    BY <1>2
  <2>2. new \in MowRecords
    BY <2>1, StatusForIdempotent, BoundsAssumption DEF MowRecords
  <2>3. /\ new.status = statusFor(c.state, new.status)
        /\ c.state = "COMPLETED" => new.progress = FullProgress
    BY <2>1, StatusForIdempotent DEF MowRecords
  <2>4. syncMowTask(list, c) = synced
    BY <1>2 DEF syncMowTask
  <2>. HIDE DEF new
  <2>5. synced \in Seq(MowRecords) /\ Len(synced) = n /\ synced[n] = new
    BY <2>1, <2>2
  <2>. QED BY <2>1, <2>3, <2>4, <2>5 DEF Last, Tells
<1>. QED BY <1>1, <1>2

\* A new record.
LEMMA NewTask == newTask \in MowRecords
  BY BoundsAssumption DEF newTask, MowRecords

\* Any event the session knows: the reducer's context, and a record that tells it.
LEMMA DispatchLeads ==
    ASSUME NEW s, Typed(s), NEW event \in MowingEvent, NEW t, t = dispatchMowing(s, event)
    PROVE  /\ Leads(s, t) /\ Followed(t)
           /\ t.mowing = mowingReducer(s.mowing, event)
           /\ t.notify = s.notify /\ t.domain = s.domain
<1>. DEFINE next == mowingReducer(s.mowing, event)
            recorded == IF event.type = "CMD_START" /\ s.tasks = <<>>
                        THEN <<newTask>> ELSE s.tasks
            records == syncMowTask(recorded, next)
<1>1. s.mowing \in MowingContext
  BY DEF Typed, Robots
<1>2. next \in MowingContext /\ (Resumable(s.mowing) => Resumable(next))
  BY <1>1, MowingReducerSound DEF Fits
<1>3. recorded \in Seq(MowRecords) /\ Len(recorded) <= MaxTasks
  BY NewTask, BoundsAssumption DEF Typed, Robots
<1>4. t = [s EXCEPT !.mowing = next, !.tasks = records]
  BY DEF dispatchMowing
<1>. HIDE DEF next, recorded
<1>5. records \in Seq(MowRecords) /\ Len(records) <= MaxTasks /\ Tells(records, next.state)
  BY <1>3, SyncTells
<1>. HIDE DEF records
<1>6. /\ Typed(t) /\ t.mowing = next /\ t.tasks = records
      /\ t.notify = s.notify /\ t.domain = s.domain /\ t.dock = s.dock
  BY <1>2, <1>4, <1>5 DEF Typed, Robots
<1>. QED BY <1>2, <1>5, <1>6 DEF Leads, Followed, next

\* The last frame is outside of what is kept, and so is the domain.
LEMMA NotedLeads ==
    ASSUME NEW s, Typed(s), NEW frame \in StatusFrames, NEW d \in {"mapping", "mowing"}
    PROVE  LET t == [s EXCEPT !.notify = frame, !.domain = d] IN
           Typed(t) /\ Leads(s, t) /\ t.notify = frame /\ t.mowing = s.mowing
<1>. DEFINE t == [s EXCEPT !.notify = frame, !.domain = d]
<1>1. /\ Typed(t) /\ t.notify = frame
      /\ t.mowing = s.mowing /\ t.tasks = s.tasks /\ t.dock = s.dock
  BY DEF Typed, Robots
<1>. QED BY <1>1 DEF Leads, Followed

\* No frame is a frame as well.
LEMMA NoNotifyFrame == NoNotify \in StatusFrames
  BY DEF NoNotify, StatusFrames, Words

\* An event past the task API: a reset forgets the frame.
LEMMA DispatchEventLeads ==
    ASSUME NEW s, Typed(s), NEW event \in MowingEvent,
           NEW t, t = dispatchMowingEvent(s, event)
    PROVE  /\ Leads(s, t)
           /\ t.mowing = mowingReducer(s.mowing, event)
           /\ event.type # "CMD_RESET" => t.notify = s.notify
           /\ t.domain = s.domain
<1>1. CASE event.type # "CMD_RESET"
  <2>1. t = dispatchMowing(s, event)
    BY <1>1 DEF dispatchMowingEvent
  <2>. QED BY <2>1, DispatchLeads
<1>2. CASE event.type = "CMD_RESET"
  <2>. DEFINE u == [s EXCEPT !.notify = NoNotify]
  <2>1. /\ Typed(u) /\ u.domain = s.domain
        /\ u.mowing = s.mowing /\ u.tasks = s.tasks /\ u.dock = s.dock
    BY NoNotifyFrame DEF Typed, Robots
  <2>2. t = dispatchMowing(u, event)
    BY <1>2 DEF dispatchMowingEvent
  <2>. HIDE DEF u
  <2>3. Leads(s, u)
    BY <2>1 DEF Leads, Followed
  <2>4. Leads(u, t) /\ t.mowing = mowingReducer(u.mowing, event) /\ t.domain = u.domain
    BY <2>1, <2>2, DispatchLeads
  <2>. QED BY <1>2, <2>1, <2>3, <2>4 DEF Leads
<1>. QED BY <1>1, <1>2

-----------------------------------------------------------------------------
(* Pushing a frame.                                                           *)

\* What the frames of the mowing session are turned into.
FrameEvents ==
    { e \in MowingEvent :
        e.type \in {"DEVICE_WORK_STATUS", "DEVICE_PHASE", "DEVICE_UNDOCKED", "DEVICE_ESTOP"} }
Homely(e) == e.type = "DEVICE_WORK_STATUS" => e.status # "mowing"

\* The stop button, and the idle status of the edge.
LEMMA EdgeEvents ==
    /\ \A active \in BOOLEAN : Estop(active) \in FrameEvents /\ Homely(Estop(active))
    /\ [type |-> "DEVICE_WORK_STATUS", status |-> "idle"] \in FrameEvents
    /\ Homely([type |-> "DEVICE_WORK_STATUS", status |-> "idle"])
  BY DEF FrameEvents, Homely, Estop, MowingEvent, RobotWorkStatus

\* The two parts of a frame that is routed to the mowing session.
LEMMA FrameMeaning ==
    ASSUME NEW work, work \notin {"mapping", "mapping_completed"}, NEW sub
    PROVE  /\ statusEvent(work) \in FrameEvents \cup {NoEvent}
           /\ phaseEvent(work, sub) \in FrameEvents \cup {NoEvent}
           /\ work # "mowing" => Homely(statusEvent(work))
           /\ Homely(phaseEvent(work, sub))
<1>1. /\ statusEvent(work) \in FrameEvents \cup {NoEvent}
      /\ work # "mowing" => Homely(statusEvent(work))
  BY DEF statusEvent, CLOUD_WORK_STATUSES, FrameEvents, Homely, NoEvent, MowingEvent,
         RobotWorkStatus
<1>2. mapBackendSubStatus(work, sub) \in MowingPhase \cup {"skip", "undocked"}
  <2>1. CASE work = "mowing"
    <3>1. mapBackendSubStatus(work, sub) = IF sub \in DOMAIN MOWING_SUB THEN MOWING_SUB[sub]
                                          ELSE "skip"
      BY <2>1 DEF mapBackendSubStatus, SUB_STATUS_TABLE
    <3>2. sub \in DOMAIN MOWING_SUB =>
            MOWING_SUB[sub] \in MowingPhase \cup {"skip", "undocked"}
      BY DEF MOWING_SUB, MowingPhase, RechargePhases
    <3>. QED BY <3>1, <3>2
  <2>2. CASE work = "return_dock"
    <3>1. mapBackendSubStatus(work, sub) =
            IF sub \in DOMAIN RETURN_DOCK_SUB THEN RETURN_DOCK_SUB[sub] ELSE "skip"
      BY <2>2 DEF mapBackendSubStatus, SUB_STATUS_TABLE
    <3>2. sub \in DOMAIN RETURN_DOCK_SUB =>
            RETURN_DOCK_SUB[sub] \in MowingPhase \cup {"skip", "undocked"}
      BY DEF RETURN_DOCK_SUB, MowingPhase, RETURN_DOCK_PHASES
    <3>. QED BY <3>1, <3>2
  <2>3. CASE work = "charging"
    BY <2>3 DEF mapBackendSubStatus, SUB_STATUS_TABLE, CHARGING_SUB, MowingPhase, RechargePhases
  <2>4. CASE work \notin {"mowing", "return_dock", "charging"}
    BY <2>4 DEF mapBackendSubStatus, SUB_STATUS_TABLE
  <2>. QED BY <2>1, <2>2, <2>3, <2>4
<1>3. \A phase \in MowingPhase : [type |-> "DEVICE_PHASE", phase |-> phase] \in FrameEvents
  BY DEF FrameEvents, MowingEvent
<1>4. [type |-> "DEVICE_UNDOCKED"] \in FrameEvents
  BY DEF FrameEvents, MowingEvent
<1>5. phaseEvent(work, sub) \in FrameEvents \cup {NoEvent}
  BY <1>2, <1>3, <1>4 DEF phaseEvent
<1>6. phaseEvent(work, sub).type # "DEVICE_WORK_STATUS"
  BY DEF phaseEvent, NoEvent
<1>. QED BY <1>1, <1>5, <1>6 DEF Homely

\* No event of a frame leads from the states at home into work, but a mowing status.
LEMMA ReducedHome ==
    ASSUME NEW c \in MowingContext, c.state \in Home, NEW e \in FrameEvents, Homely(e)
    PROVE  mowingReducer(c, e).state \in Home
<1>1. CASE e.type = "DEVICE_ESTOP"
  <2>1. mowingReducer(c, e) = mowBase(c, e)
    BY <1>1 DEF mowingReducer
  <2>2. mowBase(c, e) \in {c, WhileEstopped(c, e), InSession(c, e, MowingOptions)}
    BY <1>1 DEF mowBase, transition
  <2>3. InSession(c, e, MowingOptions) = DeviceEstop(c, e)
    BY <1>1 DEF InSession, SimOnlyEvents
  <2>4. WhileEstopped(c, e).state = c.state
    BY <1>1 DEF WhileEstopped, MowingContext
  <2>5. DeviceEstop(c, e).state \in {c.state, "ESTOPPED"}
    BY DEF DeviceEstop, MowingContext
  <2>. QED BY <2>1, <2>2, <2>3, <2>4, <2>5 DEF Home
<1>2. CASE e.type = "DEVICE_UNDOCKED"
  <2>1. mowingReducer(c, e) = mowBase(c, e)
    BY <1>2 DEF mowingReducer
  <2>2. mowBase(c, e) \in {c, WhileEstopped(c, e), InSession(c, e, MowingOptions)}
    BY <1>2 DEF mowBase, transition
  <2>3. InSession(c, e, MowingOptions) = DeviceUndocked(c)
    BY <1>2 DEF InSession, SimOnlyEvents
  <2>. QED
    BY <1>2, <2>1, <2>2, <2>3
       DEF WhileEstopped, DeviceUndocked, Home, TERMINAL_TASK_STATES, MowingContext
<1>3. CASE e.type = "DEVICE_PHASE"
  <2>1. mowingReducer(c, e) \in {mowBase(c, e), applyReturnDockPhase(c, e.phase)}
    BY <1>3 DEF mowingReducer
  <2>2. mowBase(c, e) \in {c, WhileEstopped(c, e), InSession(c, e, MowingOptions)}
    BY <1>3 DEF mowBase, transition
  <2>3. InSession(c, e, MowingOptions) = DevicePhase(c, e)
    BY <1>3 DEF InSession, SimOnlyEvents
  <2>. QED
    BY <1>3, <2>1, <2>2, <2>3
       DEF WhileEstopped, DevicePhase, applyReturnDockPhase, ReturnTo, Home,
           TERMINAL_TASK_STATES, MowingContext
<1>4. CASE e.type = "DEVICE_WORK_STATUS"
  <2>1. mowingReducer(c, e) \in
          {mowBase(c, e), markCharging(c), enterReturningDock(c), complete(c)}
    BY <1>4 DEF mowingReducer, mowWorkStatus, Homely
  <2>2. mowBase(c, e) \in {c, WhileEstopped(c, e), InSession(c, e, MowingOptions)}
    BY <1>4 DEF mowBase, transition
  <2>3. InSession(c, e, MowingOptions) = DeviceWorkStatus(c, e)
    BY <1>4 DEF InSession, SimOnlyEvents
  <2>4. mowBase(c, e).state \in Home
    <3>1. WhileEstopped(c, e).state = c.state
      BY <1>4 DEF WhileEstopped, MowingContext
    <3>2. DeviceUndocked(c).state = c.state
      BY DEF DeviceUndocked, Home, TERMINAL_TASK_STATES
    <3>3. withError(c).state = "ERRORED" /\ enterRecharging(c).state \in {c.state, "RECHARGING"}
      BY DEF withError, enterRecharging, MowingContext
    <3>4. InSession(c, e, MowingOptions).state \in {c.state, "RECHARGING", "ERRORED"}
      BY <2>3, <3>2, <3>3 DEF DeviceWorkStatus
    <3>. QED BY <2>2, <3>1, <3>4 DEF Home, TERMINAL_TASK_STATES
  <2>5. /\ markCharging(c).state \in Home /\ enterReturningDock(c).state \in Home
        /\ complete(c).state \in Home
    BY DEF markCharging, enterReturningDock, ReturnTo, complete, Home, TERMINAL_TASK_STATES,
           MowingContext
  <2>. QED BY <2>1, <2>4, <2>5
<1>. QED BY <1>1, <1>2, <1>3, <1>4 DEF FrameEvents

\* Steps of a frame follow one another.
LEMMA LeadsOn ==
    ASSUME NEW s, NEW t, NEW u
    PROVE  /\ Leads(s, t) /\ Leads(t, u) => Leads(s, u)
           /\ LeadsHome(s, t) /\ LeadsHome(t, u) => LeadsHome(s, u)
  BY DEF Leads, LeadsHome

\* A part of a frame, which may mean nothing.
LEMMA NotifyLeads ==
    ASSUME NEW s, Typed(s), NEW event \in FrameEvents \cup {NoEvent},
           NEW t, t = dispatchNotify(s, event)
    PROVE  /\ Leads(s, t) /\ t.notify = s.notify
           /\ Homely(event) => LeadsHome(s, t)
<1>1. CASE event = NoEvent
  BY <1>1 DEF dispatchNotify, Leads, LeadsHome
<1>2. CASE event \in FrameEvents /\ event # NoEvent
  <2>1. t = dispatchMowingEvent(s, event) /\ event \in MowingEvent /\ event.type # "CMD_RESET"
    BY <1>2 DEF dispatchNotify, FrameEvents
  <2>2. /\ Leads(s, t) /\ t.mowing = mowingReducer(s.mowing, event)
        /\ t.notify = s.notify
    BY <2>1, DispatchEventLeads
  <2>3. s.mowing \in MowingContext
    BY DEF Typed, Robots
  <2>. QED BY <1>2, <2>2, <2>3, ReducedHome DEF LeadsHome
<1>. QED BY <1>1, <1>2

\* The release that a frame implies.
LEMMA ReleaseLeads ==
    ASSUME NEW s, Typed(s), NEW prev, NEW t, t = applyReleaseEdge(s, prev)
    PROVE  LeadsHome(s, t)
<1>1. s.mowing \in MowingContext
  BY DEF Typed, Robots
<1>2. Estop(FALSE) \in MowingEvent /\ Estop(FALSE).type # "CMD_RESET"
  BY EdgeEvents DEF FrameEvents, Estop
<1>3. t \in {s, dispatchMowingEvent(s, Estop(FALSE))}
  BY DEF applyReleaseEdge
<1>4. CASE t = s
  BY <1>4 DEF LeadsHome, Leads
<1>5. CASE t = dispatchMowingEvent(s, Estop(FALSE))
  <2>1. Leads(s, t) /\ t.mowing = mowingReducer(s.mowing, Estop(FALSE)) /\ t.notify = s.notify
    BY <1>2, <1>5, DispatchEventLeads
  <2>2. s.mowing.state \in Home => t.mowing.state \in Home
    BY <1>1, <2>1, EdgeEvents, ReducedHome
  <2>. QED BY <2>1, <2>2 DEF LeadsHome
<1>. QED BY <1>3, <1>4, <1>5

\* The end that an idle frame implies.
LEMMA IdleEdgeLeads ==
    ASSUME NEW s, Typed(s), NEW prev, NEW work, NEW t, t = applyIdleEdge(s, prev, work)
    PROVE  LeadsHome(s, t)
<1>. DEFINE idle == [type |-> "DEVICE_WORK_STATUS", status |-> "idle"]
<1>1. s.mowing \in MowingContext
  BY DEF Typed, Robots
<1>2. idle \in MowingEvent /\ idle.type # "CMD_RESET" /\ idle \in FrameEvents /\ Homely(idle)
  BY EdgeEvents DEF FrameEvents
<1>3. t \in {s, dispatchMowingEvent(s, idle)}
  BY DEF applyIdleEdge, applyMowingToIdleCompletion
<1>. HIDE DEF idle
<1>. QED BY <1>1, <1>2, <1>3, DispatchEventLeads, ReducedHome DEF LeadsHome, Leads

\* A frame that is routed to the mowing session and is not a stop.
LEMMA MowingFrameLeads ==
    ASSUME NEW s, Typed(s), NEW frame, frame.work \notin {"mapping", "mapping_completed"},
           NEW prev, NEW t, t = applyMowingFrame(s, frame, prev)
    PROVE  /\ Leads(s, t) /\ t.notify = s.notify
           /\ frame.work # "mowing" => LeadsHome(s, t)
<1>. DEFINE released == applyReleaseEdge(s, prev)
            stated   == dispatchNotify(released, statusEvent(frame.work))
            told     == dispatchNotify(stated, phaseEvent(frame.work, frame.sub))
<1>1. LeadsHome(s, released) /\ Typed(released)
  BY ReleaseLeads DEF LeadsHome, Leads
<1>2. t = applyIdleEdge(told, prev, frame.work)
  BY DEF applyMowingFrame, dispatchFrame
<1>. HIDE DEF released
<1>3. /\ Leads(released, stated) /\ Typed(stated) /\ stated.notify = released.notify
      /\ frame.work # "mowing" => LeadsHome(released, stated)
  BY <1>1, FrameMeaning, NotifyLeads DEF Leads
<1>. HIDE DEF stated
<1>a. phaseEvent(frame.work, frame.sub) \in FrameEvents \cup {NoEvent}
      /\ Homely(phaseEvent(frame.work, frame.sub))
  BY FrameMeaning
<1>b. LeadsHome(stated, told)
  BY <1>3, <1>a, NotifyLeads
<1>4. LeadsHome(stated, told) /\ Typed(told)
  BY <1>3, <1>b DEF LeadsHome, Leads
<1>. HIDE DEF told
<1>5. LeadsHome(told, t)
  BY <1>2, <1>4, IdleEdgeLeads
<1>6. LeadsHome(stated, t)
  BY <1>4, <1>5, LeadsOn
<1>7. Leads(s, t) /\ t.notify = s.notify
  BY <1>1, <1>3, <1>6, LeadsOn DEF LeadsHome
<1>8. frame.work # "mowing" => LeadsHome(s, t)
  BY <1>1, <1>3, <1>6, LeadsOn
<1>. QED BY <1>7, <1>8

\* Every frame: whatever it is taken for, and also when it is dropped.
LEMMA PushLeads ==
    ASSUME NEW s, Typed(s), NEW frame \in StatusFrames, NEW t, t = pushRatelStatus(s, frame)
    PROVE  /\ Leads(s, t) /\ Typed(t) /\ t.notify = frame
           /\ frame.work # "mowing" /\ s.mowing.state \in Home => t.mowing.state \in Home
<1>. DEFINE target == notifyTargetDomain(frame.work, s.notify.work, s.domain)
            noted  == [s EXCEPT !.notify = frame, !.domain = target]
<1>1. CASE s.notify = frame
  BY <1>1 DEF pushRatelStatus, Leads
<1>2. CASE s.notify # frame
  <2>1. target \in {"mapping", "mowing"}
    BY DEF notifyTargetDomain
  <2>2. target = "mowing" => frame.work \notin {"mapping", "mapping_completed"}
    BY DEF notifyTargetDomain
  <2>3. t = routeFrame(noted, frame, target, s.notify.work)
    BY <1>2 DEF pushRatelStatus, noteFrame
  <2>. HIDE DEF target
  <2>4. /\ Leads(s, noted) /\ Typed(noted) /\ noted.notify = frame
        /\ noted.mowing = s.mowing
    BY <2>1, NotedLeads
  <2>. HIDE DEF noted
  <2>5. CASE target = "mapping"
    <3>1. t = noted
      BY <2>3, <2>5 DEF routeFrame
    <3>. QED BY <2>4, <3>1
  <2>6. CASE target = "mowing" /\ frame.work = "emergency_stop"
    <3>1. t = dispatchMowingEvent(noted, Estop(TRUE))
      BY <2>3, <2>6 DEF routeFrame
    <3>2. Estop(TRUE) \in MowingEvent /\ Estop(TRUE).type # "CMD_RESET"
      BY EdgeEvents DEF FrameEvents, Estop
    <3>3. /\ Leads(noted, t) /\ t.mowing = mowingReducer(noted.mowing, Estop(TRUE))
          /\ t.notify = noted.notify
      BY <2>4, <3>1, <3>2, DispatchEventLeads
    <3>4. noted.mowing \in MowingContext
      BY <2>4 DEF Typed, Robots
    <3>5. noted.mowing.state \in Home => t.mowing.state \in Home
      BY <3>3, <3>4, EdgeEvents, ReducedHome
    <3>. QED BY <2>4, <3>3, <3>5, LeadsOn DEF Leads
  <2>7. CASE target = "mowing" /\ frame.work # "emergency_stop"
    <3>1. t = applyMowingFrame(noted, frame, s.notify.work)
      BY <2>3, <2>7 DEF routeFrame
    <3>2. /\ Leads(noted, t) /\ t.notify = noted.notify
          /\ frame.work # "mowing" => LeadsHome(noted, t)
      BY <2>2, <2>4, <2>7, <3>1, MowingFrameLeads
    <3>. QED BY <2>4, <3>2, LeadsOn DEF Leads, LeadsHome
  <2>. QED BY <2>1, <2>5, <2>6, <2>7
<1>. QED BY <1>1, <1>2

-----------------------------------------------------------------------------
(* The handlers.                                                              *)

\* The commands and the start are events of the session.
LEMMA CommandEvents ==
    /\ [type |-> "CMD_START", mode |-> "auto"] \in MowingEvent
    /\ \A type \in {"CMD_PAUSE", "CMD_RESUME", "CMD_CANCEL", "CMD_FINISH_AND_RETURN_DOCK",
                    "DEVICE_REPORT_FINISHED"} :
         /\ Command(type) \in MowingEvent /\ Command(type).type # "DEVICE_WORK_STATUS"
  BY DEF MowingEvent, Command, SimOnlyEvents

\* The frames that the handlers push.
LEMMA HandlerFrames ==
    /\ \A sub \in {"map_check", "leave_dock", "mowing"} :
         MowingFrame(sub) \in StatusFrames /\ MowingFrame(sub).work = "mowing"
    /\ Arrived = 6 /\ Len(RechargeSequence) = 5
    /\ \A n \in 1..5 : /\ RechargeSequence[n] \in StatusFrames
                       /\ RechargeSequence[n].work # "mowing"
    /\ RechargeSequence[5] = [work |-> "idle", sub |-> "none"]
  BY DEF MowingFrame, StatusFrames, Words, RechargeSequence, Arrived

\* What the devices push is made of words.
LEMMA DeviceFrames == Frames \subseteq StatusFrames
  BY FramesAssumption DEF StatusFrames, Words

\* A field at a time, the record stays of its type.
LEMMA SetDomain ==
    ASSUME NEW r, Robust(r), NEW d \in {"mapping", "mowing"}
    PROVE  /\ Robust([r EXCEPT !.domain = d])
           /\ [r EXCEPT !.domain = d].mowing = r.mowing
           /\ [r EXCEPT !.domain = d].notify = r.notify
<1>. DEFINE t == [r EXCEPT !.domain = d]
<1>1. /\ Typed(t) /\ t.mowing = r.mowing /\ t.tasks = r.tasks /\ t.notify = r.notify
      /\ t.dock = r.dock
  BY DEF Robust, Typed, Robots
<1>. QED BY <1>1 DEF Robust, Followed, Cancelled

\* The dock's sequence and status, as long as a cancellation leaves no frame.
LEMMA SetDock ==
    ASSUME NEW r, Robust(r), NEW d \in Docks, d.status = "CANCEL" => d.next = Arrived
    PROVE  /\ Robust([r EXCEPT !.dock = d])
           /\ [r EXCEPT !.dock = d].mowing = r.mowing
           /\ [r EXCEPT !.dock = d].notify = r.notify
<1>. DEFINE t == [r EXCEPT !.dock = d]
<1>1. /\ Typed(t) /\ t.mowing = r.mowing /\ t.tasks = r.tasks /\ t.notify = r.notify
      /\ t.dock = d
  BY DEF Robust, Typed, Robots
<1>. QED BY <1>1 DEF Robust, Followed, Cancelled

\* Dispatching and pushing keep the robot robust.
LEMMA LeadsRobust ==
    ASSUME NEW s, NEW t, Robust(s), Leads(s, t)
    PROVE  Robust(t)
  BY DEF Robust, Leads, Cancelled

\* So does a frame.
LEMMA PushKeeps ==
    ASSUME NEW s, Robust(s), NEW frame \in StatusFrames
    PROVE  /\ Robust(pushRatelStatus(s, frame))
           /\ pushRatelStatus(s, frame).notify = frame
<1>1. Leads(s, pushRatelStatus(s, frame)) /\ pushRatelStatus(s, frame).notify = frame
  BY PushLeads DEF Robust
<1>. QED BY <1>1, LeadsRobust

\* A create appends a record, which only the start after it brings up to date; the
\* last frame is one of a robot that mows.
LEMMA CreateKeeps ==
    ASSUME NEW r, Typed(r), Resumable(r.mowing), Cancelled(r), NEW started,
           started = dispatchMowing(r, [type |-> "CMD_START", mode |-> "auto"])
    PROVE  LET checked == pushRatelStatus(started, MowingFrame("map_check"))
               left    == pushRatelStatus(checked, MowingFrame("leave_dock"))
               t       == pushRatelStatus(left, MowingFrame("mowing"))
           IN  Robust(t) /\ t.notify.work = "mowing"
<1>. DEFINE checked == pushRatelStatus(started, MowingFrame("map_check"))
            left    == pushRatelStatus(checked, MowingFrame("leave_dock"))
            t       == pushRatelStatus(left, MowingFrame("mowing"))
<1>1. /\ MowingFrame("map_check") \in StatusFrames /\ MowingFrame("leave_dock") \in StatusFrames
      /\ MowingFrame("mowing") \in StatusFrames /\ MowingFrame("mowing").work = "mowing"
  BY HandlerFrames
<1>2. Leads(r, started) /\ Followed(started)
  BY CommandEvents, DispatchLeads
<1>3. Robust(started)
  BY <1>2 DEF Robust, Leads, Cancelled
<1>4. Robust(checked)
  BY <1>1, <1>3, PushKeeps
<1>. HIDE DEF checked
<1>5. Robust(left)
  BY <1>1, <1>4, PushKeeps
<1>. HIDE DEF left
<1>6. Robust(t) /\ t.notify = MowingFrame("mowing")
  BY <1>1, <1>5, PushKeeps
<1>. QED BY <1>1, <1>6 DEF left, checked

\* The record that a create appends.
LEMMA RecordedTask ==
    ASSUME NEW r, Robust(r), Len(r.tasks) < MaxTasks
    PROVE  LET t == [r EXCEPT !.domain = "mowing", !.tasks = Append(r.tasks, newTask)] IN
           Typed(t) /\ Resumable(t.mowing) /\ Cancelled(t)
<1>1. Append(r.tasks, newTask) \in Seq(MowRecords) /\ Len(Append(r.tasks, newTask)) <= MaxTasks
  BY NewTask, BoundsAssumption DEF Robust, Typed, Robots
<1>. DEFINE t == [r EXCEPT !.domain = "mowing", !.tasks = Append(r.tasks, newTask)]
<1>2. Typed(t) /\ t.mowing = r.mowing /\ t.dock = r.dock
  BY <1>1 DEF Robust, Typed, Robots
<1>. QED BY <1>2 DEF Robust, Cancelled

\* A request on a task: only a resume can take the robot off its way to the dock, with
\* the frame of a robot that mows.
LEMMA ActionKeeps ==
    ASSUME NEW r, Robust(r),
           NEW type \in {"CMD_PAUSE", "CMD_RESUME", "CMD_CANCEL", "CMD_FINISH_AND_RETURN_DOCK"},
           NEW t, t = mowingAction(r, type)
    PROVE  Robust(t) /\ (Homebound(r.mowing, t.mowing) \/ t.notify.work = "mowing")
<1>. DEFINE told == dispatchMowing(r, Command(type))
<1>1. /\ Leads(r, told) /\ told.mowing = mowingReducer(r.mowing, Command(type))
  BY CommandEvents, DispatchLeads DEF Robust
<1>2. t = IF type = "CMD_RESUME" THEN pushRatelStatus(told, MowingFrame("mowing")) ELSE told
  BY DEF mowingAction
<1>. HIDE DEF told
<1>3. Robust(told)
  BY <1>1, LeadsRobust
<1>4. CASE type = "CMD_RESUME"
  <2>1. t = pushRatelStatus(told, MowingFrame("mowing"))
    BY <1>2, <1>4
  <2>2. MowingFrame("mowing") \in StatusFrames /\ MowingFrame("mowing").work = "mowing"
    BY HandlerFrames
  <2>. QED BY <1>3, <2>1, <2>2, PushKeeps
<1>5. CASE type # "CMD_RESUME"
  <2>1. r.mowing \in MowingContext
    BY DEF Robust, Typed, Robots
  <2>2. Homebound(r.mowing, told.mowing)
    BY <1>1, <2>1, CommandEvents, MowingReducerSound
  <2>. QED BY <1>2, <1>3, <1>5, <2>2
<1>. QED BY <1>4, <1>5

\* The fresh session of the simulator.
LEMMA InitialSession ==
    /\ mowingInitialContext \in MowingContext /\ Resumable(mowingInitialContext)
    /\ mowingInitialContext.state = "IDLE"
  BY InitialContext, CapabilitiesSound
     DEF mowingInitialContext, applyCapabilities, Sound, Fits, MowingContext

\* The robot that has just been built.
LEMMA InitialRobust == Robust(InitialRobot)
<1>1. NoDock \in Docks /\ NoDock.next = Arrived
  BY HandlerFrames DEF NoDock, Docks
<1>2. <<>> \in Seq(MowRecords) /\ Len(<<>>) = 0 /\ 0 <= MaxTasks
  BY BoundsAssumption
<1>3. /\ Typed(InitialRobot) /\ InitialRobot.mowing = mowingInitialContext
      /\ InitialRobot.tasks = <<>> /\ InitialRobot.dock = NoDock
  BY <1>1, <1>2, NoNotifyFrame, InitialSession DEF InitialRobot, Typed, Robots
<1>. QED BY <1>1, <1>3, InitialSession DEF Robust, Followed, Tells, Cancelled

\* A recharge takes the session away from its record, which no longer changes.
LEMMA RechargeKeeps ==
    ASSUME NEW r, Robust(r), NEW t,
           t = [r EXCEPT !.domain = "mowing", !.mowing = mowingInitialContext,
                         !.notify = NoNotify,
                         !.dock = [status |-> "ON_THE_WAY", next |-> 1]]
    PROVE  Robust(t) /\ t.mowing.state = "IDLE"
<1>. DEFINE begun == [status |-> "ON_THE_WAY", next |-> 1]
<1>1. begun \in Docks /\ begun.status # "CANCEL"
  BY HandlerFrames DEF Docks
<1>2. t = [r EXCEPT !.domain = "mowing", !.mowing = mowingInitialContext,
                    !.notify = NoNotify, !.dock = begun]
  OBVIOUS
<1>. HIDE DEF begun
<1>3. /\ Typed(t) /\ t.mowing = mowingInitialContext /\ t.tasks = r.tasks /\ t.dock = begun
  BY <1>1, <1>2, NoNotifyFrame, InitialSession DEF Robust, Typed, Robots
<1>4. Followed(t)
  BY <1>3, InitialSession DEF Followed, Tells, statusFor
<1>. QED BY <1>1, <1>3, <1>4, InitialSession DEF Robust, Cancelled

\* The frame of the sequence that is due, and the step to the next one.
LEMMA DockFrameKeeps ==
    ASSUME NEW r, Robust(r), r.dock.next # Arrived, NEW u,
           u = pushRatelStatus(r, RechargeSequence[r.dock.next]),
           NEW t, t = afterDockFrame(u)
    PROVE  /\ Robust(t) /\ t.mowing = u.mowing /\ Leads(r, u) /\ Typed(u)
           /\ r.mowing.state \in Home => t.mowing.state \in Home
<1>1. r.dock \in Docks /\ r.dock.next \in 1..5 /\ r.dock.status # "CANCEL"
  BY HandlerFrames DEF Robust, Cancelled, Typed, Robots, Docks
<1>a. /\ RechargeSequence[r.dock.next] \in StatusFrames
      /\ RechargeSequence[r.dock.next].work # "mowing"
  BY <1>1, HandlerFrames
<1>2. /\ Leads(r, u) /\ Typed(u)
      /\ r.mowing.state \in Home => u.mowing.state \in Home
  BY <1>a, PushLeads DEF Robust
<1>3. Robust(u) /\ u.dock = r.dock
  BY <1>2, LeadsRobust DEF Leads, Robust
<1>. DEFINE d == [ next   |-> u.dock.next + 1,
                   status |-> IF RechargeSequence[u.dock.next].sub = "at_dock"
                              THEN "COMPLETE" ELSE u.dock.status ]
<1>4. t = [u EXCEPT !.dock = d]
  BY DEF afterDockFrame
<1>5. d \in Docks /\ d.status # "CANCEL"
  BY <1>1, <1>3, HandlerFrames DEF Docks
<1>. HIDE DEF d
<1>6. Robust(t) /\ t.mowing = u.mowing
  BY <1>3, <1>4, <1>5, SetDock
<1>. QED BY <1>2, <1>6

\* The progress of a record stays within its bound.
LEMMA ProgressedRecord ==
    ASSUME NEW old \in MowRecords
    PROVE  progressed(old) \in MowRecords /\ progressed(old).status = old.status
<1>. DEFINE p == IF old.progress < FullProgress THEN old.progress + 1 ELSE FullProgress
<1>1. p \in 0..FullProgress
  BY BoundsAssumption DEF MowRecords
<1>2. progressed(old) = [old EXCEPT !.progress = p]
  BY DEF progressed
<1>. HIDE DEF p
<1>. QED BY <1>1, <1>2 DEF MowRecords

\* The progress grows, and once it is full the session is told.
LEMMA ProgressKeeps ==
    ASSUME NEW r, Robust(r), r.tasks # <<>>, Last(r.tasks).status = "ON_THE_WAY",
           NEW grown, grown = [r EXCEPT !.tasks[Len(r.tasks)] = progressed(@)], NEW t,
           t \in {grown, dispatchMowing(grown, Command("DEVICE_REPORT_FINISHED"))}
    PROVE  Robust(t) /\ Homebound(r.mowing, t.mowing)
<1>. DEFINE n == Len(r.tasks)
            new == progressed(r.tasks[n])
            records == [r.tasks EXCEPT ![n] = new]
<1>1. /\ r.tasks \in Seq(MowRecords) /\ n \in DOMAIN r.tasks /\ r.tasks[n] \in MowRecords
      /\ r.tasks[n].status = "ON_THE_WAY" /\ r.mowing \in MowingContext
  BY DEF Robust, Typed, Robots, Last
<1>2. new \in MowRecords /\ new.status = "ON_THE_WAY"
  BY <1>1, ProgressedRecord
<1>3. r.mowing.state # "COMPLETED" /\ statusFor(r.mowing.state, "ON_THE_WAY") = "ON_THE_WAY"
  BY <1>1 DEF Robust, Followed, Tells, Last, statusFor
<1>4. grown = [r EXCEPT !.tasks = records]
  BY <1>1 DEF Robust, Typed, Robots
<1>. HIDE DEF new
<1>5. /\ records \in Seq(MowRecords) /\ Len(records) = n /\ records # <<>>
      /\ records[n] = new
  BY <1>1, <1>2
<1>6. Tells(records, r.mowing.state)
  BY <1>2, <1>3, <1>5 DEF Tells, Last
<1>. HIDE DEF records
<1>7. /\ Typed(grown) /\ grown.mowing = r.mowing /\ grown.tasks = records
      /\ grown.dock = r.dock
  BY <1>4, <1>5 DEF Robust, Typed, Robots
<1>8. Robust(grown)
  BY <1>6, <1>7 DEF Robust, Followed, Cancelled
<1>9. CASE t = grown
  BY <1>7, <1>8, <1>9 DEF Homebound
<1>10. CASE t = dispatchMowing(grown, Command("DEVICE_REPORT_FINISHED"))
  <2>. DEFINE event == Command("DEVICE_REPORT_FINISHED")
  <2>0. event \in MowingEvent /\ event.type # "DEVICE_WORK_STATUS"
    BY CommandEvents
  <2>a. t = dispatchMowing(grown, event)
    BY <1>10
  <2>. HIDE DEF event
  <2>1. Leads(grown, t) /\ t.mowing = mowingReducer(r.mowing, event)
    BY ONLY <1>7, <2>0, <2>a, DispatchLeads
  <2>2. Homebound(r.mowing, t.mowing)
    BY <1>1, <2>0, <2>1, MowingReducerSound
  <2>. QED BY <1>8, <2>1, <2>2, LeadsRobust
<1>. QED BY <1>9, <1>10

-----------------------------------------------------------------------------
(* The steps.                                                                 *)

\* The record of the variables.
LEMMA RobotFields ==
    /\ Robot.mowing = mowing /\ Robot.tasks = tasks /\ Robot.notify = notify
    /\ Robot.domain = domain /\ Robot.dock = dock
  BY DEF Robot

\* The robot becomes what its handler has reached.
LEMMA Becomes ==
    ASSUME NEW t, Robust(t), Become(t)
    PROVE  Robust(Robot)' /\ mowing' = t.mowing /\ notify' = t.notify
<1>1. /\ Robot'.mowing = t.mowing /\ Robot'.tasks = t.tasks /\ Robot'.notify = t.notify
      /\ Robot'.domain = t.domain /\ Robot'.dock = t.dock
  BY DEF Become, Robot
<1>2. Typed(Robot)'
  BY DEF Become, Robot, Robust, Typed, Robots
<1>. QED BY <1>1, <1>2 DEF Robust, Followed, Cancelled, Become

\* What is said of a step: it keeps the robot robust, and the robot on its way home,
\* but for raw mowing statuses.
Steps ==
    /\ Robust(Robot)'
    /\ (\A event \in RawEvents : Homely(event)) =>
         (Homebound(mowing, mowing') \/ notify'.work = "mowing")

\* The states that lead out of a return are not at home.
LEMMA HomeIsBound ==
    ASSUME NEW c, NEW d, c.state \in Home => d.state \in Home
    PROVE  Homebound(c, d)
  BY DEF Home, Homebound, TERMINAL_TASK_STATES

\* The requests of the task API.
LEMMA TaskActionSteps == ASSUME Robust(Robot), TaskAction PROVE Steps
<1>. USE RobotFields
<1>1. CASE CreateMowingTask
  <2>. DEFINE recorded == [Robot EXCEPT !.domain = "mowing", !.tasks = Append(@, newTask)]
              started == dispatchMowing(recorded, [type |-> "CMD_START", mode |-> "auto"])
              checked == pushRatelStatus(started, MowingFrame("map_check"))
              left    == pushRatelStatus(checked, MowingFrame("leave_dock"))
              t       == pushRatelStatus(left, MowingFrame("mowing"))
  <2>1. recorded = [Robot EXCEPT !.domain = "mowing", !.tasks = Append(Robot.tasks, newTask)]
    BY DEF Robot
  <2>2. Len(Robot.tasks) < MaxTasks /\ Become(t)
    BY <1>1 DEF CreateMowingTask
  <2>3. Typed(recorded) /\ Resumable(recorded.mowing) /\ Cancelled(recorded)
    BY <2>1, <2>2, RecordedTask
  <2>. HIDE DEF recorded
  <2>7. Robust(t) /\ t.notify.work = "mowing"
    BY <2>3, CreateKeeps
  <2>. QED BY <2>2, <2>7, Becomes DEF Steps
<1>2. CASE ApplyMowingAction
  <2>. DEFINE r == [Robot EXCEPT !.domain = "mowing"]
  <2>1. Robust(r) /\ r.mowing = mowing
    BY SetDomain
  <2>2. PICK type \in {"CMD_PAUSE", "CMD_RESUME", "CMD_CANCEL", "CMD_FINISH_AND_RETURN_DOCK"} :
          Become(mowingAction(r, type))
    BY <1>2 DEF ApplyMowingAction
  <2>. HIDE DEF r
  <2>3. /\ Robust(mowingAction(r, type))
        /\ \/ Homebound(mowing, mowingAction(r, type).mowing)
           \/ mowingAction(r, type).notify.work = "mowing"
    BY <2>1, ActionKeeps
  <2>. QED BY <2>2, <2>3, Becomes DEF Steps
<1>. QED BY <1>1, <1>2 DEF TaskAction

\* The recharge, its requests and its timers.
LEMMA DockSteps ==
    ASSUME Robust(Robot), StartRecharge \/ RechargeAction \/ RechargeStep
    PROVE  Steps
<1>. USE RobotFields
<1>1. CASE StartRecharge
  <2>. DEFINE t == [Robot EXCEPT !.domain = "mowing", !.mowing = mowingInitialContext,
                                 !.notify = NoNotify,
                                 !.dock = [status |-> "ON_THE_WAY", next |-> 1]]
  <2>1. Become(t)
    BY <1>1 DEF StartRecharge
  <2>2. t = [Robot EXCEPT !.domain = "mowing", !.mowing = mowingInitialContext,
                          !.notify = NoNotify,
                          !.dock = [status |-> "ON_THE_WAY", next |-> 1]]
    OBVIOUS
  <2>. HIDE DEF t
  <2>3. Robust(t) /\ t.mowing.state = "IDLE"
    BY <2>2, RechargeKeeps
  <2>. QED BY <2>1, <2>3, Becomes DEF Steps, Homebound
<1>2. CASE RechargeAction
  <2>1. dock \in Docks /\ Arrived \in 1..Arrived
    BY HandlerFrames DEF Robust, Typed, Robots
  <2>2. PICK status \in {"PAUSE", "ON_THE_WAY", "CANCEL"} :
          Become([Robot EXCEPT !.dock =
                    [ status |-> status,
                      next   |-> IF status = "CANCEL" THEN Arrived ELSE dock.next ]])
    BY <1>2 DEF RechargeAction, Robot
  <2>. DEFINE d == [ status |-> status,
                     next   |-> IF status = "CANCEL" THEN Arrived ELSE dock.next ]
  <2>3. d \in Docks /\ (d.status = "CANCEL" => d.next = Arrived)
    BY <2>1 DEF Docks
  <2>. HIDE DEF d
  <2>4. Robust([Robot EXCEPT !.dock = d]) /\ [Robot EXCEPT !.dock = d].mowing = mowing
    BY <2>3, SetDock
  <2>5. Become([Robot EXCEPT !.dock = d])
    BY <2>2 DEF d
  <2>. QED BY <2>4, <2>5, Becomes DEF Steps, Homebound
<1>3. CASE RechargeStep
  <2>. DEFINE u == pushRatelStatus(Robot, RechargeSequence[dock.next])
              t == afterDockFrame(u)
  <2>1. Robot.dock.next # Arrived /\ dock.status # "CANCEL"
    BY <1>3 DEF RechargeStep, Robust, Cancelled
  <2>2. Become(t)
    BY <1>3, <2>1 DEF RechargeStep
  <2>3. u = pushRatelStatus(Robot, RechargeSequence[Robot.dock.next])
    OBVIOUS
  <2>. HIDE DEF u
  <2>4. t = afterDockFrame(u)
    OBVIOUS
  <2>. HIDE DEF t
  <2>5. Robust(t) /\ (Robot.mowing.state \in Home => t.mowing.state \in Home)
    BY <2>1, <2>3, <2>4, DockFrameKeeps
  <2>. QED BY <2>2, <2>5, Becomes, HomeIsBound DEF Steps
<1>. QED BY <1>1, <1>2, <1>3

\* The device, the raw events, the requests of the other half and the progress.
LEMMA OtherSteps ==
    ASSUME Robust(Robot),
           DeviceFrame \/ SendRawEvent \/ MappingRequest \/ ResetRobot \/ ProgressMowing
    PROVE  Steps
<1>. USE RobotFields
<1>1. CASE DeviceFrame
  <2>1. PICK frame \in Frames : Become(pushRatelStatus(Robot, frame))
    BY <1>1 DEF DeviceFrame
  <2>. DEFINE t == pushRatelStatus(Robot, frame)
  <2>2. frame \in StatusFrames /\ t = pushRatelStatus(Robot, frame) /\ Become(t)
    BY <2>1, DeviceFrames
  <2>. HIDE DEF t
  <2>3. /\ Leads(Robot, t) /\ t.notify = frame
        /\ frame.work # "mowing" /\ mowing.state \in Home => t.mowing.state \in Home
    BY <2>2, PushLeads DEF Robust
  <2>4. Robust(t)
    BY <2>3, LeadsRobust
  <2>. QED BY <2>2, <2>3, <2>4, Becomes, HomeIsBound DEF Steps
<1>2. CASE SendRawEvent
  <2>1. PICK event \in RawEvents : Become(dispatchMowingEvent(Robot, event))
    BY <1>2 DEF SendRawEvent
  <2>. DEFINE t == dispatchMowingEvent(Robot, event)
  <2>2. event \in MowingEvent /\ t = dispatchMowingEvent(Robot, event) /\ Become(t)
    BY <2>1, RawEventsAssumption
  <2>. HIDE DEF t
  <2>3. Leads(Robot, t) /\ t.mowing = mowingReducer(mowing, event)
    BY <2>2, DispatchEventLeads DEF Robust
  <2>4. Robust(t)
    BY <2>3, LeadsRobust
  <2>5. mowing \in MowingContext
    BY DEF Robust, Typed, Robots
  <2>6. Homely(event) => Homebound(mowing, t.mowing)
    BY <2>2, <2>3, <2>5, MowingReducerSound DEF Homely
  <2>. QED BY <2>2, <2>4, <2>6, Becomes DEF Steps
<1>3. CASE MappingRequest
  <2>1. Robust([Robot EXCEPT !.domain = "mapping"])
        /\ [Robot EXCEPT !.domain = "mapping"].mowing = mowing
    BY SetDomain
  <2>2. Become([Robot EXCEPT !.domain = "mapping"])
    BY <1>3 DEF MappingRequest
  <2>. QED BY <2>1, <2>2, Becomes DEF Steps, Homebound
<1>4. CASE ResetRobot
  <2>1. Become(InitialRobot) /\ InitialRobot.mowing.state = "IDLE"
    BY <1>4, InitialSession DEF ResetRobot, InitialRobot
  <2>. QED BY <2>1, InitialRobust, Becomes DEF Steps, Homebound
<1>5. CASE ProgressMowing
  <2>. DEFINE grown == [Robot EXCEPT !.tasks[Len(tasks)] = progressed(@)]
              t == IF Last(grown.tasks).progress < FullProgress THEN grown
                   ELSE dispatchMowing(grown, Command("DEVICE_REPORT_FINISHED"))
  <2>1. Robot.tasks # <<>> /\ Last(Robot.tasks).status = "ON_THE_WAY" /\ Become(t)
    BY <1>5 DEF ProgressMowing
  <2>2. grown = [Robot EXCEPT !.tasks[Len(Robot.tasks)] = progressed(@)]
    OBVIOUS
  <2>. HIDE DEF grown
  <2>3. t \in {grown, dispatchMowing(grown, Command("DEVICE_REPORT_FINISHED"))}
    OBVIOUS
  <2>. HIDE DEF t
  <2>4. Robust(t) /\ Homebound(Robot.mowing, t.mowing)
    BY <2>1, <2>2, <2>3, ProgressKeeps
  <2>. QED BY <2>1, <2>4, Becomes DEF Steps
<1>. QED BY <1>1, <1>2, <1>3, <1>4, <1>5

\* Every step.
LEMMA RobotSteps == ASSUME Robust(Robot), Next PROVE Steps
  BY TaskActionSteps, DockSteps, OtherSteps DEF Next, Timer

\* A stutter.
LEMMA RobotStutters ==
    ASSUME Robust(Robot), UNCHANGED vars PROVE Robust(Robot)' /\ mowing' = mowing
<1>1. Robot' = Robot /\ mowing' = mowing
  BY DEF vars, Robot
<1>. QED BY <1>1 DEF Robust, Typed, Followed, Cancelled

\* Init is the robot that has just been built.
LEMMA InitRobust == Init => Robust(Robot)
<1>. SUFFICES ASSUME Init PROVE Robust(Robot)
  OBVIOUS
<1>1. Robot = InitialRobot
  BY DEF Init, Robot, InitialRobot
<1>. QED BY <1>1, InitialRobust

-----------------------------------------------------------------------------
(* The theorems.                                                              *)

\* The inductive invariant: the robot is robust after every handler.
THEOREM MowerRobust == Spec => []Robust(Robot)
<1>1. Robust(Robot) /\ [Next]_vars => Robust(Robot)'
  BY RobotSteps, RobotStutters DEF Steps
<1>. QED BY <1>1, InitRobust, PTL DEF Spec

\* Every variable keeps the shape of its type, for any frames, events and bounds.
THEOREM MowerTyped == Spec => []TypeOK
<1>1. Robust(Robot) => TypeOK
  <2>. SUFFICES ASSUME Robust(Robot) PROVE TypeOK
    OBVIOUS
  <2>1. /\ mowing \in MowingContext /\ tasks \in Seq(MowRecords) /\ Len(tasks) <= MaxTasks
        /\ domain \in {Null, "mapping", "mowing"} /\ dock \in Docks
    BY RobotFields DEF Robust, Typed, Robots
  <2>2. \A i \in DOMAIN tasks : tasks[i] \in MowRecords
    BY <2>1
  <2>. QED BY <2>1, <2>2 DEF TypeOK, MowRecords, Docks
<1>. QED BY <1>1, MowerRobust, PTL

\* A scene to resume is kept exactly while the mow is interrupted, whatever frames
\* and events come in.
THEOREM MowerResumeTargets == Spec => []MowResumeTargets
<1>1. Robust(Robot) => MowResumeTargets
  BY RobotFields DEF Robust, Resumable, HasScene, MowResumeTargets
<1>. QED BY <1>1, MowerRobust, PTL

\* The record of the active task tells its session's state after every handler, and
\* is full once complete.
THEOREM MowerTaskFollowsSession == Spec => []MowTaskFollowsSession
<1>1. Robust(Robot) => MowTaskFollowsSession
  BY RobotFields DEF Robust, Followed, Tells, MowTaskFollowsSession
<1>. QED BY <1>1, MowerRobust, PTL

\* A cancelled recharge pushes no frame any more: what is left of its sequence has
\* been cleared, and nothing but a new recharge schedules it again.
THEOREM MowerCancelStopsDocking == Spec => CancelStopsDocking
<1>1. Robust(Robot) => (dock.status = "CANCEL" => ~RechargeStep)
  BY RobotFields DEF Robust, Cancelled, RechargeStep
<1>. QED BY <1>1, MowerRobust, PTL DEF CancelStopsDocking

\* A return to the dock is not taken back by the API, a lost link, the dock or the
\* progress, as long as no raw event reports the mowing status itself.
THEOREM MowerReturnNotResumed ==
    ASSUME \A event \in RawEvents : Homely(event)
    PROVE  Spec => ReturnNotResumed
<1>1. Robust(Robot) /\ [Next]_vars =>
        [ mowing.state = "RETURNING_DOCK"
          /\ mowing'.state \in {"WORKING", "RESUMING", "PAUSED", "REMOTE_CONTROL"}
          => notify'.work = "mowing" ]_vars
  BY RobotSteps DEF Steps, Homebound
<1>. QED BY <1>1, MowerRobust, PTL DEF Spec, ReturnNotResumed

\* The idle frame at the end of the sequence completes a session that has come to the
\* dock, if the domain is still the mowing one.
THEOREM MowerReturnIsEnded == Spec => ReturnIsEnded
<1>. DEFINE Ends == /\ mowing.state = "RETURNING_DOCK"
                    /\ notify.work = "return_dock" /\ domain = "mowing"
                    /\ dock.next = Len(RechargeSequence) /\ RechargeStep
                    => mowing'.state = "COMPLETED"
<1>1. ASSUME Robust(Robot) PROVE Ends
  <2>. SUFFICES ASSUME mowing.state = "RETURNING_DOCK", notify.work = "return_dock",
                       domain = "mowing", dock.next = Len(RechargeSequence), RechargeStep
                PROVE  mowing'.state = "COMPLETED"
    OBVIOUS
  <2>. USE RobotFields
  <2>. DEFINE frame == [work |-> "idle", sub |-> "none"]
              idle  == [type |-> "DEVICE_WORK_STATUS", status |-> "idle"]
              u     == pushRatelStatus(Robot, frame)
              noted == [Robot EXCEPT !.notify = frame, !.domain = "mowing"]
              told  == dispatchMowingEvent(noted, idle)
  <2>1. dock.next = 5 /\ dock.status # "CANCEL"
    BY <1>1, HandlerFrames DEF RechargeStep, Robust, Cancelled
  <2>2. RechargeSequence[dock.next] = frame
    BY <2>1, HandlerFrames
  <2>3. Become(afterDockFrame(u))
    BY <2>1, <2>2 DEF RechargeStep
  <2>4. notify # frame
    OBVIOUS
  <2>5. u = routeFrame(noted, frame, "mowing", "return_dock")
    BY <2>4 DEF pushRatelStatus, noteFrame, notifyTargetDomain
  <2>6. statusEvent("idle") = idle /\ phaseEvent("idle", "none") = NoEvent /\ idle # NoEvent
    BY DEF statusEvent, CLOUD_WORK_STATUSES, phaseEvent, mapBackendSubStatus,
           SUB_STATUS_TABLE, NoEvent
  <2>7. u = told
    BY <2>5, <2>6
       DEF routeFrame, applyMowingFrame, applyReleaseEdge, dispatchFrame, dispatchNotify,
           applyIdleEdge
  <2>8. frame \in StatusFrames /\ idle \in MowingEvent
    BY EdgeEvents DEF StatusFrames, Words, FrameEvents
  <2>9. Typed(noted) /\ noted.mowing = mowing
    <3>. HIDE DEF frame
    <3>. QED BY <1>1, <2>8, NotedLeads DEF Robust
  <2>10. told.mowing = mowingReducer(mowing, idle)
    <3>. HIDE DEF noted
    <3>. QED BY <2>8, <2>9, DispatchEventLeads
  <2>11. mowing \in MowingContext
    BY <1>1 DEF Robust, Typed, Robots
  <2>12. mowingReducer(mowing, idle).state = "COMPLETED"
    <3>1. mowingReducer(mowing, idle) = complete(mowing)
      BY DEF mowingReducer, mowWorkStatus
    <3>. QED BY <2>11, <3>1 DEF complete, MowingContext
  <2>13. afterDockFrame(u).mowing = u.mowing
    <3>1. Typed(told)
      <4>. HIDE DEF noted
      <4>. QED BY <2>8, <2>9, DispatchEventLeads DEF Leads
    <3>. HIDE DEF u, told
    <3>. QED BY <2>7, <3>1 DEF afterDockFrame, Typed, Robots
  <2>. QED BY <2>3, <2>7, <2>10, <2>12, <2>13 DEF Become
<1>. QED BY <1>1, MowerRobust, PTL DEF ReturnIsEnded
=============================================================================
