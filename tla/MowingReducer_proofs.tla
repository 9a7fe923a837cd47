------------------------- MODULE MowingReducer_proofs -------------------------
(* What the reducer of the mowing session does to a context: one lemma for     *)
(* each of its operators, for the proofs about the robot that runs it.  It is  *)
(* the shared transition function behind other rules, so that the lemmas of    *)
(* the mapping session, which never returns to the dock, do not cover it.      *)
EXTENDS MowingReducer, TLAPS

\* The invariant of the scenes to resume: kept exactly by what is interrupted.
HasScene(c) == c.resumeTo # NoScene
Resumable(c) ==
    /\ c.state \in {"IDLE", "PREPARING", "UNDOCKING", "WORKING", "RETURNING_DOCK"}
                   \cup TERMINAL_TASK_STATES => ~HasScene(c)
    /\ c.state = "REMOTE_CONTROL" => HasScene(c)
    /\ c.state \in {"PAUSED", "RESUMING"} /\ ~HasScene(c) => c.phase = "charged"

\* A return to the dock is not taken back to work, nor to an interruption of it.
Homebound(c, d) ==
    c.state = "RETURNING_DOCK" =>
      d.state \notin {"WORKING", "RESUMING", "PAUSED", "REMOTE_CONTROL"}

\* An operator gives a context of the type, and a resumable one from a resumable one.
Fits(c, d) == d \in MowingContext /\ (Resumable(c) => Resumable(d))
Sound(c, d) == Fits(c, d) /\ Homebound(c, d)

\* A session that is neither stopped nor over.
InPlay(c) == c.state \notin {"ESTOPPED"} \cup TERMINAL_TASK_STATES

-----------------------------------------------------------------------------

\* The two constant scenes: none, and the one that a mow is taken to have left.
LEMMA Scenery ==
    NoScene \in MowScenes /\ RunningScene \in MowScenes /\ RunningScene # NoScene
  BY DEF NoScene, RunningScene, Scene, MowScenes, TASK_STATES, MowingPhase, Null

\* The values that the operators give to the fields are of the fields' types.
LEMMA FieldValues ==
    /\ {"IDLE", "PREPARING", "UNDOCKING", "WORKING", "PAUSED", "REMOTE_CONTROL",
        "RECHARGING", "RESUMING", "RETURNING_DOCK", "ESTOPPED", "COMPLETED", "CANCELLED",
        "ERRORED"} \subseteq TASK_STATES
    /\ {"MOW_RUNNING", "RETURN_PRE_DOCK", "returning", "charging", "charged"}
         \subseteq MowingPhase
    /\ {Null, "recoverable", "fatal"} \subseteq TaskErrors
    /\ {Null, "user", "link"} \subseteq PausedReasons
  BY DEF TASK_STATES, MowingPhase, RechargePhases, RETURN_DOCK_PHASES,
         TaskErrors, PausedReasons, Null

\* What an interruption saves is a scene, and never the absent one.
LEMMA SnapshotIsScene ==
    ASSUME NEW c \in MowingContext, c.state # Undefined
    PROVE  snapshot(c) \in MowScenes /\ snapshot(c) # NoScene
  BY DEF NoScene, Scene, MowScenes, snapshot, MowingContext, TASK_STATES, Undefined, Null

\* The phase an interruption returns to is a phase.
LEMMA PhaseOrPhase ==
    ASSUME NEW c \in MowingContext
    PROVE  PhaseOr(c.resumeTo, c.phase) \in MowingPhase \cup {Null, Undefined}
  BY DEF PhaseOr, MowingContext, MowScenes

\* `resumeTo ?? scene' is a scene, and never the absent one.
LEMMA SceneOrScene ==
    ASSUME NEW c \in MowingContext, NEW other \in MowScenes, other # NoScene
    PROVE  SceneOr(c.resumeTo, other) \in MowScenes /\ SceneOr(c.resumeTo, other) # NoScene
  BY DEF SceneOr, MowingContext

\* To leave a context as it is is sound.
LEMMA UnchangedSound == ASSUME NEW c \in MowingContext PROVE Sound(c, c)
  BY DEF Sound, Fits, Homebound

\* A fatal error: no interruption survives it.
LEMMA WithErrorSound ==
    ASSUME NEW c \in MowingContext
    PROVE  Sound(c, withError(c))
<1>1. withError(c) \in MowingContext
  BY Scenery, FieldValues DEF withError, MowingContext
<1>2. Resumable(c) => Resumable(withError(c))
  BY Scenery, SnapshotIsScene, SceneOrScene
     DEF withError, Resumable, HasScene, InPlay, TERMINAL_TASK_STATES, MowingContext,
         Undefined
<1>3. Homebound(c, withError(c))
  BY DEF withError, Homebound, InPlay, TERMINAL_TASK_STATES, MowingContext
<1>. QED BY <1>1, <1>2, <1>3 DEF Sound, Fits

\* The capabilities are independent of the rest.
LEMMA CapabilitiesSound ==
    ASSUME NEW c \in MowingContext, NEW m \in BOOLEAN, NEW a \in BOOLEAN
    PROVE  Sound(c, applyCapabilities(c, m, a))
<1>1. applyCapabilities(c, m, a) \in MowingContext
  BY Scenery, FieldValues DEF applyCapabilities, MowingContext
<1>2. Resumable(c) => Resumable(applyCapabilities(c, m, a))
  BY Scenery, SnapshotIsScene, SceneOrScene
     DEF applyCapabilities, Resumable, HasScene, InPlay, TERMINAL_TASK_STATES,
         MowingContext, Undefined
<1>3. Homebound(c, applyCapabilities(c, m, a))
  BY DEF applyCapabilities, Homebound, InPlay, TERMINAL_TASK_STATES, MowingContext
<1>. QED BY <1>1, <1>2, <1>3 DEF Sound, Fits

\* The fresh contexts: of a session, and of the simulator's.
LEMMA InitialContext ==
    /\ createInitialTaskContext \in MowingContext
    /\ createInitialTaskContext.state = "IDLE"
    /\ Resumable(createInitialTaskContext)
<1>1. createInitialTaskContext \in MowingContext
  BY Scenery, FieldValues DEF createInitialTaskContext, MowingContext
<1>. QED
  BY <1>1 DEF createInitialTaskContext, Resumable, HasScene, TERMINAL_TASK_STATES

\* An event in the place of the context reads as an empty one.
LEMMA EventAsContextSound ==
    ASSUME NEW c \in MowingContext
    PROVE  Sound(c, EventAsContext)
<1>1. EventAsContext \in MowingContext
  BY Scenery, FieldValues DEF EventAsContext, MowingContext
<1>. QED
  BY <1>1
     DEF EventAsContext, Sound, Fits, Homebound, Resumable, HasScene,
         TERMINAL_TASK_STATES, Undefined

\* A recharge keeps the scene of the work it interrupts.
LEMMA EnterRechargingSound ==
    ASSUME NEW c \in MowingContext, InPlay(c)
    PROVE  Sound(c, enterRecharging(c))
<1>1. [c EXCEPT !.state = "RECHARGING", !.phase = "charging"] \in MowingContext
  BY Scenery, FieldValues DEF MowingContext
<1>2. \A x \in MowScenes :
         [c EXCEPT !.state = "RECHARGING", !.phase = "returning", !.resumeTo = x]
           \in MowingContext
  BY Scenery, FieldValues DEF MowingContext
<1>3. enterRecharging(c) \in MowingContext
  BY <1>1, <1>2, Scenery, SnapshotIsScene, SceneOrScene, PhaseOrPhase
     DEF enterRecharging, Undefined
<1>4. Resumable(c) => Resumable(enterRecharging(c))
  BY Scenery, SnapshotIsScene, SceneOrScene
     DEF enterRecharging, Resumable, HasScene, InPlay, TERMINAL_TASK_STATES,
         MowingContext, Undefined
<1>5. Homebound(c, enterRecharging(c))
  BY DEF enterRecharging, Homebound, InPlay, TERMINAL_TASK_STATES, MowingContext
<1>. QED BY <1>3, <1>4, <1>5 DEF Sound, Fits

\* A reset leaves ESTOPPED for the scene that is kept, if any.
LEMMA CmdResetSound ==
    ASSUME NEW c \in MowingContext
    PROVE  Sound(c, CmdReset(c))
<1>1. [c EXCEPT !.state = "RESUMING", !.error = Null, !.pausedReason = Null] \in MowingContext
  BY Scenery, FieldValues DEF MowingContext
<1>2. [c EXCEPT !.state = "IDLE", !.phase = Null, !.error = Null, !.pausedReason = Null]
           \in MowingContext
  BY Scenery, FieldValues DEF MowingContext
<1>3. CmdReset(c) \in MowingContext
  BY <1>1, <1>2, Scenery, SnapshotIsScene, SceneOrScene, PhaseOrPhase, InitialContext
     DEF CmdReset, Undefined
<1>4. Resumable(c) => Resumable(CmdReset(c))
  BY Scenery, SnapshotIsScene, SceneOrScene, InitialContext
     DEF CmdReset, Resumable, HasScene, InPlay, TERMINAL_TASK_STATES, MowingContext,
         Undefined
<1>5. Homebound(c, CmdReset(c))
  BY DEF CmdReset, Homebound, InPlay, TERMINAL_TASK_STATES, MowingContext
<1>. QED BY <1>3, <1>4, <1>5 DEF Sound, Fits

\* While stopped, only the release, the capabilities and the link count.
LEMMA WhileEstoppedSound ==
    ASSUME NEW c \in MowingContext,
           NEW e, e.type = "DEVICE_CAPABILITIES" =>
                    e.canSwitchManual \in BOOLEAN /\ e.canSwitchAuto \in BOOLEAN
    PROVE  Sound(c, WhileEstopped(c, e))
<1>. DEFINE released == [c EXCEPT !.estopActive = FALSE]
<1>1. released \in MowingContext
  BY DEF MowingContext
<1>2. Sound(c, released)
  BY <1>1 DEF Sound, Fits, Homebound, Resumable, HasScene, MowingContext
<1>3. \A m, a \in BOOLEAN : Sound(c, applyCapabilities(c, m, a))
  BY CapabilitiesSound
<1>. QED BY <1>2, <1>3, UnchangedSound DEF WhileEstopped, resetCapabilities

\* A start.
LEMMA CmdStartSound ==
    ASSUME NEW c \in MowingContext, NEW e, e.mode \in {"auto", "remote"}
    PROVE  Sound(c, CmdStart(c, e))
<1>1. [c EXCEPT !.state = "PREPARING", !.mode = e.mode, !.phase = Null,
                !.resumeTo = NoScene, !.error = Null] \in MowingContext
  BY Scenery, FieldValues DEF MowingContext
<1>2. CmdStart(c, e) \in MowingContext
  BY <1>1, Scenery, SnapshotIsScene, SceneOrScene, PhaseOrPhase
     DEF CmdStart, Undefined
<1>3. Resumable(c) => Resumable(CmdStart(c, e))
  BY Scenery, SnapshotIsScene, SceneOrScene
     DEF CmdStart, Resumable, HasScene, InPlay, TERMINAL_TASK_STATES, MowingContext,
         Undefined
<1>4. Homebound(c, CmdStart(c, e))
  BY DEF CmdStart, Homebound, InPlay, TERMINAL_TASK_STATES, MowingContext
<1>. QED BY <1>2, <1>3, <1>4 DEF Sound, Fits

\* Leaving the dock.
LEMMA DeviceUndockedSound ==
    ASSUME NEW c \in MowingContext
    PROVE  Sound(c, DeviceUndocked(c))
<1>1. DeviceUndocked(c) \in MowingContext
  BY Scenery, FieldValues DEF DeviceUndocked, MowingContext
<1>2. Resumable(c) => Resumable(DeviceUndocked(c))
  BY Scenery, SnapshotIsScene, SceneOrScene
     DEF DeviceUndocked, Resumable, HasScene, InPlay, TERMINAL_TASK_STATES,
         MowingContext, Undefined
<1>3. Homebound(c, DeviceUndocked(c))
  BY DEF DeviceUndocked, Homebound, InPlay, TERMINAL_TASK_STATES, MowingContext
<1>. QED BY <1>1, <1>2, <1>3 DEF Sound, Fits

\* A work status.
LEMMA DeviceWorkStatusSound ==
    ASSUME NEW c \in MowingContext, InPlay(c), NEW e
    PROVE  Sound(c, DeviceWorkStatus(c, e))
  BY WithErrorSound, EnterRechargingSound, DeviceUndockedSound, UnchangedSound
     DEF DeviceWorkStatus

\* A phase echoed by the device: a resume it confirms drops its scene.
LEMMA DevicePhaseSound ==
    ASSUME NEW c \in MowingContext, NEW e, e.phase \in MowingPhase
    PROVE  Sound(c, DevicePhase(c, e))
<1>1. DevicePhase(c, e) \in MowingContext
  BY Scenery, FieldValues DEF DevicePhase, MowingContext
<1>2. Resumable(c) => Resumable(DevicePhase(c, e))
  BY Scenery, SnapshotIsScene, SceneOrScene
     DEF DevicePhase, Resumable, HasScene, InPlay, TERMINAL_TASK_STATES, MowingContext,
         Undefined
<1>3. Homebound(c, DevicePhase(c, e))
  BY DEF DevicePhase, Homebound, InPlay, TERMINAL_TASK_STATES, MowingContext
<1>. QED BY <1>1, <1>2, <1>3 DEF Sound, Fits

\* A pause keeps the scene it interrupts.
LEMMA CmdPauseSound ==
    ASSUME NEW c \in MowingContext
    PROVE  Sound(c, CmdPause(c))
<1>1. \A x \in MowScenes :
         [c EXCEPT !.state = "PAUSED", !.resumeTo = x, !.pausedReason = "user"]
           \in MowingContext
  BY Scenery, FieldValues DEF MowingContext
<1>2. CmdPause(c) \in MowingContext
  BY <1>1, Scenery, SnapshotIsScene, SceneOrScene, PhaseOrPhase
     DEF CmdPause, Undefined
<1>3. Resumable(c) => Resumable(CmdPause(c))
  BY Scenery, SnapshotIsScene, SceneOrScene
     DEF CmdPause, Resumable, HasScene, InPlay, TERMINAL_TASK_STATES, MowingContext,
         Undefined
<1>4. Homebound(c, CmdPause(c))
  BY DEF CmdPause, Homebound, InPlay, TERMINAL_TASK_STATES, MowingContext
<1>. QED BY <1>2, <1>3, <1>4 DEF Sound, Fits

\* A resume keeps the scene until the device confirms.
LEMMA CmdResumeSound ==
    ASSUME NEW c \in MowingContext
    PROVE  Sound(c, CmdResume(c))
<1>1. CmdResume(c) \in MowingContext
  BY Scenery, FieldValues DEF CmdResume, MowingContext
<1>2. Resumable(c) => Resumable(CmdResume(c))
  BY Scenery, SnapshotIsScene, SceneOrScene
     DEF CmdResume, Resumable, HasScene, InPlay, TERMINAL_TASK_STATES, MowingContext,
         Undefined
<1>3. Homebound(c, CmdResume(c))
  BY DEF CmdResume, Homebound, InPlay, TERMINAL_TASK_STATES, MowingContext
<1>. QED BY <1>1, <1>2, <1>3 DEF Sound, Fits

\* A cancellation.
LEMMA CmdCancelSound ==
    ASSUME NEW c \in MowingContext
    PROVE  Sound(c, CmdCancel(c))
<1>1. CmdCancel(c) \in MowingContext
  BY Scenery, FieldValues DEF CmdCancel, MowingContext
<1>2. Resumable(c) => Resumable(CmdCancel(c))
  BY Scenery, SnapshotIsScene, SceneOrScene
     DEF CmdCancel, Resumable, HasScene, InPlay, TERMINAL_TASK_STATES, MowingContext,
         Undefined
<1>3. Homebound(c, CmdCancel(c))
  BY DEF CmdCancel, Homebound, InPlay, TERMINAL_TASK_STATES, MowingContext
<1>. QED BY <1>1, <1>2, <1>3 DEF Sound, Fits

\* The switch to remote control keeps the scene of the work, or saves the pause.
LEMMA CmdSwitchManualSound ==
    ASSUME NEW c \in MowingContext, NEW o
    PROVE  Sound(c, CmdSwitchManual(c, o))
<1>1. \A x \in MowScenes, p \in MowingPhase \cup {Null, Undefined} :
         [c EXCEPT !.state = "REMOTE_CONTROL", !.mode = "remote", !.phase = p,
                   !.resumeTo = x] \in MowingContext
  BY Scenery, FieldValues DEF MowingContext
<1>2. CmdSwitchManual(c, o) \in MowingContext
  BY <1>1, Scenery, SnapshotIsScene, SceneOrScene, PhaseOrPhase
     DEF CmdSwitchManual, Undefined
<1>3. Resumable(c) => Resumable(CmdSwitchManual(c, o))
  BY Scenery, SnapshotIsScene, SceneOrScene
     DEF CmdSwitchManual, Resumable, HasScene, InPlay, TERMINAL_TASK_STATES,
         MowingContext, Undefined
<1>4. Homebound(c, CmdSwitchManual(c, o))
  BY DEF CmdSwitchManual, Homebound, InPlay, TERMINAL_TASK_STATES, MowingContext
<1>. QED BY <1>2, <1>3, <1>4 DEF Sound, Fits

\* Leaving remote control uses its scene up.
LEMMA CmdExitManualSound ==
    ASSUME NEW c \in MowingContext
    PROVE  Sound(c, CmdExitManual(c))
<1>1. \A p \in MowingPhase \cup {Null, Undefined} :
         [c EXCEPT !.state = "WORKING", !.mode = "auto", !.phase = p, !.resumeTo = NoScene]
           \in MowingContext
  BY Scenery, FieldValues DEF MowingContext
<1>2. CmdExitManual(c) \in MowingContext
  BY <1>1, Scenery, SnapshotIsScene, SceneOrScene, PhaseOrPhase
     DEF CmdExitManual, Undefined
<1>3. Resumable(c) => Resumable(CmdExitManual(c))
  BY Scenery, SnapshotIsScene, SceneOrScene
     DEF CmdExitManual, Resumable, HasScene, InPlay, TERMINAL_TASK_STATES,
         MowingContext, Undefined
<1>4. Homebound(c, CmdExitManual(c))
  BY DEF CmdExitManual, Homebound, InPlay, TERMINAL_TASK_STATES, MowingContext
<1>. QED BY <1>2, <1>3, <1>4 DEF Sound, Fits

\* A completion.
LEMMA CmdConfirmSound ==
    ASSUME NEW c \in MowingContext, NEW o
    PROVE  Sound(c, CmdConfirm(c, o))
<1>1. CmdConfirm(c, o) \in MowingContext
  BY Scenery, FieldValues DEF CmdConfirm, MowingContext
<1>2. Resumable(c) => Resumable(CmdConfirm(c, o))
  BY Scenery, SnapshotIsScene, SceneOrScene
     DEF CmdConfirm, Resumable, HasScene, InPlay, TERMINAL_TASK_STATES, MowingContext,
         Undefined
<1>3. Homebound(c, CmdConfirm(c, o))
  BY DEF CmdConfirm, Homebound, InPlay, TERMINAL_TASK_STATES, MowingContext
<1>. QED BY <1>1, <1>2, <1>3 DEF Sound, Fits

\* Arriving at the dock ends in the charging phase.
LEMMA DeviceDockedSound ==
    ASSUME NEW c \in MowingContext
    PROVE  Sound(c, DeviceDocked(c))
<1>1. DeviceDocked(c) \in MowingContext
  BY Scenery, FieldValues DEF DeviceDocked, MowingContext
<1>2. Resumable(c) => Resumable(DeviceDocked(c))
  BY Scenery, SnapshotIsScene, SceneOrScene
     DEF DeviceDocked, Resumable, HasScene, InPlay, TERMINAL_TASK_STATES, MowingContext,
         Undefined
<1>3. Homebound(c, DeviceDocked(c))
  BY DEF DeviceDocked, Homebound, InPlay, TERMINAL_TASK_STATES, MowingContext
<1>. QED BY <1>1, <1>2, <1>3 DEF Sound, Fits

\* A full battery ends in the charged phase.
LEMMA DeviceBatterySound ==
    ASSUME NEW c \in MowingContext, NEW e
    PROVE  Sound(c, DeviceBattery(c, e))
<1>1. DeviceBattery(c, e) \in MowingContext
  BY Scenery, FieldValues DEF DeviceBattery, MowingContext
<1>2. Resumable(c) => Resumable(DeviceBattery(c, e))
  BY Scenery, SnapshotIsScene, SceneOrScene
     DEF DeviceBattery, Resumable, HasScene, InPlay, TERMINAL_TASK_STATES,
         MowingContext, Undefined
<1>3. Homebound(c, DeviceBattery(c, e))
  BY DEF DeviceBattery, Homebound, InPlay, TERMINAL_TASK_STATES, MowingContext
<1>. QED BY <1>1, <1>2, <1>3 DEF Sound, Fits

\* An error, recoverable or not.
LEMMA DeviceErrorSound ==
    ASSUME NEW c \in MowingContext, NEW e
    PROVE  Sound(c, DeviceError(c, e))
<1>1. DeviceError(c, e) \in MowingContext
  BY Scenery, FieldValues DEF DeviceError, withError, MowingContext
<1>2. Resumable(c) => Resumable(DeviceError(c, e))
  BY Scenery, SnapshotIsScene, SceneOrScene
     DEF DeviceError, withError, Resumable, HasScene, InPlay, TERMINAL_TASK_STATES,
         MowingContext, Undefined
<1>3. Homebound(c, DeviceError(c, e))
  BY DEF DeviceError, withError, Homebound, InPlay, TERMINAL_TASK_STATES, MowingContext
<1>. QED BY <1>1, <1>2, <1>3 DEF Sound, Fits

\* The stop button: the stop keeps the scene of a resumable state.
LEMMA DeviceEstopSound ==
    ASSUME NEW c \in MowingContext, NEW e
    PROVE  Sound(c, DeviceEstop(c, e))
<1>1. \A x \in MowScenes :
         [c EXCEPT !.state = "ESTOPPED", !.estopActive = TRUE, !.resumeTo = x]
           \in MowingContext
  BY Scenery, FieldValues DEF MowingContext
<1>2. [c EXCEPT !.estopActive = FALSE] \in MowingContext
  BY Scenery, FieldValues DEF MowingContext
<1>3. c.resumeTo \in MowScenes
  BY Scenery, FieldValues DEF MowingContext
<1>4. DeviceEstop(c, e) \in MowingContext
  BY <1>1, <1>2, <1>3, Scenery, SnapshotIsScene, SceneOrScene, PhaseOrPhase
     DEF DeviceEstop, estopSnapshot, ESTOP_RESUMABLE_STATES, SceneOr, Undefined
<1>5. Resumable(c) => Resumable(DeviceEstop(c, e))
  BY Scenery, SnapshotIsScene, SceneOrScene
     DEF DeviceEstop, estopSnapshot, ESTOP_RESUMABLE_STATES, SceneOr, Resumable,
         HasScene, InPlay, TERMINAL_TASK_STATES, MowingContext, Undefined
<1>6. Homebound(c, DeviceEstop(c, e))
  BY DEF DeviceEstop, estopSnapshot, ESTOP_RESUMABLE_STATES, SceneOr, Homebound, InPlay,
         TERMINAL_TASK_STATES, MowingContext
<1>. QED BY <1>4, <1>5, <1>6 DEF Sound, Fits

\* A lost network pauses work and keeps its scene.
LEMMA LinkNetLostSound ==
    ASSUME NEW c \in MowingContext
    PROVE  Sound(c, LinkNetLost(c))
<1>1. \A x \in MowScenes :
         [[c EXCEPT !.canSwitchManual = TRUE, !.canSwitchAuto = TRUE] EXCEPT
              !.state = "PAUSED", !.resumeTo = x, !.pausedReason = "link"] \in MowingContext
  BY Scenery, FieldValues DEF MowingContext
<1>2. [c EXCEPT !.canSwitchManual = TRUE, !.canSwitchAuto = TRUE] \in MowingContext
  BY Scenery, FieldValues DEF MowingContext
<1>3. LinkNetLost(c) \in MowingContext
  BY <1>1, <1>2, Scenery, SnapshotIsScene, SceneOrScene, PhaseOrPhase
     DEF LinkNetLost, resetCapabilities, applyCapabilities, Undefined
<1>4. Resumable(c) => Resumable(LinkNetLost(c))
  BY Scenery, SnapshotIsScene, SceneOrScene
     DEF LinkNetLost, resetCapabilities, applyCapabilities, Resumable, HasScene, InPlay,
         TERMINAL_TASK_STATES, MowingContext, Undefined
<1>5. Homebound(c, LinkNetLost(c))
  BY DEF LinkNetLost, resetCapabilities, applyCapabilities, Homebound, InPlay,
         TERMINAL_TASK_STATES, MowingContext
<1>. QED BY <1>3, <1>4, <1>5 DEF Sound, Fits

\* A command that was not acknowledged.
LEMMA AckTimeoutSound ==
    ASSUME NEW c \in MowingContext
    PROVE  Sound(c, AckTimeout(c))
<1>1. AckTimeout(c) \in MowingContext
  BY Scenery, FieldValues DEF AckTimeout, withError, MowingContext
<1>2. Resumable(c) => Resumable(AckTimeout(c))
  BY Scenery, SnapshotIsScene, SceneOrScene
     DEF AckTimeout, withError, Resumable, HasScene, InPlay, TERMINAL_TASK_STATES,
         MowingContext, Undefined
<1>3. Homebound(c, AckTimeout(c))
  BY DEF AckTimeout, withError, Homebound, InPlay, TERMINAL_TASK_STATES, MowingContext
<1>. QED BY <1>1, <1>2, <1>3 DEF Sound, Fits

-----------------------------------------------------------------------------

\* What the cases read off an event.
LEMMA EventFields ==
    ASSUME NEW e \in MowingEvent
    PROVE  /\ e.type = "CMD_START" => e.mode \in {"auto", "remote"}
           /\ e.type = "DEVICE_PHASE" => e.phase \in MowingPhase
           /\ e.type = "DEVICE_CAPABILITIES" =>
                 e.canSwitchManual \in BOOLEAN /\ e.canSwitchAuto \in BOOLEAN
  BY DEF MowingEvent, SimOnlyEvents

\* The mowing session keeps these types for itself.
OwnEvents == {"RECONCILE_STARTED", "RECONCILE_PAUSED"}

\* An event is the mowing session's own or one of the shared switch.
LEMMA EventTypes ==
    ASSUME NEW e \in MowingEvent
    PROVE  e.type \in OwnEvents \cup SimOnlyEvents \cup
             {"CMD_RESET", "CMD_START", "DEVICE_WORK_STATUS", "DEVICE_UNDOCKED",
              "DEVICE_PHASE", "CMD_PAUSE", "CMD_RESUME", "CMD_CANCEL",
              "CMD_SWITCH_MANUAL", "CMD_EXIT_MANUAL", "CMD_CONFIRM", "CMD_RETURN_DOCK",
              "DEVICE_DOCKED", "DEVICE_BATTERY", "DEVICE_ERROR", "DEVICE_ESTOP",
              "DEVICE_CAPABILITIES", "LINK_NET_LOST", "LINK_DOWN", "TIMEOUT"}
  BY DEF MowingEvent, SimOnlyEvents, OwnEvents

\* Every case of the shared switch is sound.
LEMMA InSessionSound ==
    ASSUME NEW c \in MowingContext, InPlay(c), NEW o,
           NEW e \in MowingEvent, e.type \notin OwnEvents \cup {"CMD_RESET"}
    PROVE  Sound(c, InSession(c, e, o))
<1>1. CASE e.type = "CMD_START"
  <2>1. InSession(c, e, o) = CmdStart(c, e)
    BY ONLY <1>1 DEF InSession, SimOnlyEvents
  <2>. QED BY <1>1, <2>1, CmdStartSound, EventFields
<1>2. CASE e.type = "DEVICE_WORK_STATUS"
  <2>1. InSession(c, e, o) = DeviceWorkStatus(c, e)
    BY ONLY <1>2 DEF InSession, SimOnlyEvents
  <2>. QED BY <1>2, <2>1, DeviceWorkStatusSound
<1>3. CASE e.type = "DEVICE_UNDOCKED"
  <2>1. InSession(c, e, o) = DeviceUndocked(c)
    BY ONLY <1>3 DEF InSession, SimOnlyEvents
  <2>. QED BY <1>3, <2>1, DeviceUndockedSound
<1>4. CASE e.type = "DEVICE_PHASE"
  <2>1. InSession(c, e, o) = DevicePhase(c, e)
    BY ONLY <1>4 DEF InSession, SimOnlyEvents
  <2>. QED BY <1>4, <2>1, DevicePhaseSound, EventFields
<1>5. CASE e.type = "CMD_PAUSE"
  <2>1. InSession(c, e, o) = CmdPause(c)
    BY ONLY <1>5 DEF InSession, SimOnlyEvents
  <2>. QED BY <1>5, <2>1, CmdPauseSound
<1>6. CASE e.type = "CMD_RESUME"
  <2>1. InSession(c, e, o) = CmdResume(c)
    BY ONLY <1>6 DEF InSession, SimOnlyEvents
  <2>. QED BY <1>6, <2>1, CmdResumeSound
<1>7. CASE e.type = "CMD_CANCEL"
  <2>1. InSession(c, e, o) = CmdCancel(c)
    BY ONLY <1>7 DEF InSession, SimOnlyEvents
  <2>. QED BY <1>7, <2>1, CmdCancelSound
<1>8. CASE e.type = "CMD_SWITCH_MANUAL"
  <2>1. InSession(c, e, o) = CmdSwitchManual(c, o)
    BY ONLY <1>8 DEF InSession, SimOnlyEvents
  <2>. QED BY <1>8, <2>1, CmdSwitchManualSound
<1>9. CASE e.type = "CMD_EXIT_MANUAL"
  <2>1. InSession(c, e, o) = CmdExitManual(c)
    BY ONLY <1>9 DEF InSession, SimOnlyEvents
  <2>. QED BY <1>9, <2>1, CmdExitManualSound
<1>10. CASE e.type = "CMD_CONFIRM"
  <2>1. InSession(c, e, o) = CmdConfirm(c, o)
    BY ONLY <1>10 DEF InSession, SimOnlyEvents
  <2>. QED BY <1>10, <2>1, CmdConfirmSound
<1>11. CASE e.type = "CMD_RETURN_DOCK"
  <2>1. InSession(c, e, o) = enterRecharging(c)
    BY ONLY <1>11 DEF InSession, SimOnlyEvents
  <2>. QED BY <1>11, <2>1, EnterRechargingSound
<1>12. CASE e.type = "DEVICE_DOCKED"
  <2>1. InSession(c, e, o) = DeviceDocked(c)
    BY ONLY <1>12 DEF InSession, SimOnlyEvents
  <2>. QED BY <1>12, <2>1, DeviceDockedSound
<1>13. CASE e.type = "DEVICE_BATTERY"
  <2>1. InSession(c, e, o) = DeviceBattery(c, e)
    BY ONLY <1>13 DEF InSession, SimOnlyEvents
  <2>. QED BY <1>13, <2>1, DeviceBatterySound
<1>14. CASE e.type = "DEVICE_ERROR"
  <2>1. InSession(c, e, o) = DeviceError(c, e)
    BY ONLY <1>14 DEF InSession, SimOnlyEvents
  <2>. QED BY <1>14, <2>1, DeviceErrorSound
<1>15. CASE e.type = "DEVICE_ESTOP"
  <2>1. InSession(c, e, o) = DeviceEstop(c, e)
    BY ONLY <1>15 DEF InSession, SimOnlyEvents
  <2>. QED BY <1>15, <2>1, DeviceEstopSound
<1>16. CASE e.type = "DEVICE_CAPABILITIES"
  <2>1. InSession(c, e, o) = applyCapabilities(c, e.canSwitchManual, e.canSwitchAuto)
    BY ONLY <1>16 DEF InSession, SimOnlyEvents
  <2>. QED BY <1>16, <2>1, CapabilitiesSound, EventFields
<1>17. CASE e.type = "LINK_NET_LOST"
  <2>1. InSession(c, e, o) = LinkNetLost(c)
    BY ONLY <1>17 DEF InSession, SimOnlyEvents
  <2>. QED BY <1>17, <2>1, LinkNetLostSound
<1>18. CASE e.type = "LINK_DOWN"
  <2>1. InSession(c, e, o) = resetCapabilities(c)
    BY ONLY <1>18 DEF InSession, SimOnlyEvents
  <2>. QED BY <1>18, <2>1, CapabilitiesSound DEF resetCapabilities
<1>19. CASE e.type = "TIMEOUT"
  <2>1. InSession(c, e, o) = AckTimeout(c)
    BY ONLY <1>19 DEF InSession, SimOnlyEvents
  <2>. QED BY <1>19, <2>1, AckTimeoutSound
<1>20. CASE e.type \in SimOnlyEvents
  <2>1. InSession(c, e, o) = EventAsContext
    BY ONLY <1>20 DEF InSession, SimOnlyEvents
  <2>. QED BY <2>1, EventAsContextSound
<1>. QED BY <1>1, <1>2, <1>3, <1>4, <1>5, <1>6, <1>7, <1>8, <1>9, <1>10, <1>11, <1>12,
            <1>13, <1>14, <1>15, <1>16, <1>17, <1>18, <1>19, <1>20, EventTypes

\* The shared transition function as a whole.
LEMMA MowBaseSound ==
    ASSUME NEW c \in MowingContext, NEW e \in MowingEvent, e.type \notin OwnEvents
    PROVE  Sound(c, mowBase(c, e))
<1>. DEFINE o == MowingOptions
<1>1. CASE e.type = "CMD_RESET"
  <2>1. mowBase(c, e) = CmdReset(c)
    BY <1>1 DEF mowBase, transition
  <2>. QED BY <2>1, CmdResetSound
<1>2. CASE e.type # "CMD_RESET" /\ c.state = "ESTOPPED"
  <2>1. mowBase(c, e) = WhileEstopped(c, e)
    BY <1>2 DEF mowBase, transition, TERMINAL_TASK_STATES
  <2>. QED BY <2>1, WhileEstoppedSound, EventFields
<1>3. CASE e.type # "CMD_RESET" /\ c.state \in TERMINAL_TASK_STATES
  <2>1. mowBase(c, e) = c
    BY <1>3 DEF mowBase, transition, TERMINAL_TASK_STATES
  <2>. QED BY <2>1, UnchangedSound
<1>4. CASE e.type # "CMD_RESET" /\ InPlay(c)
  <2>1. mowBase(c, e) = InSession(c, e, o)
    BY <1>4 DEF mowBase, transition, InPlay
  <2>. QED BY <1>4, <2>1, InSessionSound
<1>. QED BY <1>1, <1>2, <1>3, <1>4 DEF InPlay

\* A reconciliation takes an idle session to work,
LEMMA ReconcileStartedSound ==
    ASSUME NEW c \in MowingContext
    PROVE  Sound(c, reconcileMowStarted(c))
<1>1. reconcileMowStarted(c) \in MowingContext
  BY Scenery, FieldValues DEF reconcileMowStarted, MowingContext
<1>2. Resumable(c) => Resumable(reconcileMowStarted(c))
  BY Scenery, SnapshotIsScene, SceneOrScene
     DEF reconcileMowStarted, Resumable, HasScene, InPlay, TERMINAL_TASK_STATES,
         MowingContext, Undefined
<1>3. Homebound(c, reconcileMowStarted(c))
  BY DEF reconcileMowStarted, Homebound, InPlay, TERMINAL_TASK_STATES, MowingContext
<1>. QED BY <1>1, <1>2, <1>3 DEF Sound, Fits

\* or to a pause of it.
LEMMA ReconcilePausedSound ==
    ASSUME NEW c \in MowingContext
    PROVE  Sound(c, reconcileMowPaused(c))
<1>1. reconcileMowPaused(c) \in MowingContext
  BY Scenery, FieldValues DEF reconcileMowPaused, MowingContext
<1>2. Resumable(c) => Resumable(reconcileMowPaused(c))
  BY Scenery, SnapshotIsScene, SceneOrScene
     DEF reconcileMowPaused, Resumable, HasScene, InPlay, TERMINAL_TASK_STATES,
         MowingContext, Undefined
<1>3. Homebound(c, reconcileMowPaused(c))
  BY DEF reconcileMowPaused, Homebound, InPlay, TERMINAL_TASK_STATES, MowingContext
<1>. QED BY <1>1, <1>2, <1>3 DEF Sound, Fits

\* The return to the dock drops the scene, from wherever it is entered.
LEMMA ReturnToSound ==
    ASSUME NEW c \in MowingContext, NEW p \in MowingPhase, NEW x \in TaskErrors
    PROVE  Sound(c, ReturnTo(c, p, x))
<1>1. ReturnTo(c, p, x) \in MowingContext
  BY Scenery, FieldValues DEF ReturnTo, MowingContext
<1>. QED
  BY <1>1
     DEF ReturnTo, Sound, Fits, Homebound, Resumable, HasScene, TERMINAL_TASK_STATES,
         MowingContext

\* The frames of a return.
LEMMA ReturnDockSound ==
    ASSUME NEW c \in MowingContext, NEW p \in MowingPhase
    PROVE  Sound(c, enterReturningDock(c)) /\ Sound(c, applyReturnDockPhase(c, p))
  BY ReturnToSound, UnchangedSound, FieldValues DEF enterReturningDock, applyReturnDockPhase

\* A mowing frame runs the session, also one that returns to the dock.
LEMMA MarkRunningFits ==
    ASSUME NEW c \in MowingContext, NEW e \in MowingEvent, e.type \notin OwnEvents
    PROVE  Fits(c, markRunning(c, e))
<1>. DEFINE running == [c EXCEPT !.state = "WORKING", !.phase = "MOW_RUNNING",
                                 !.resumeTo = NoScene, !.error = Null, !.pausedReason = Null]
<1>1. running \in MowingContext
  BY Scenery, FieldValues DEF MowingContext
<1>2. Resumable(running)
  BY <1>1 DEF Resumable, HasScene, TERMINAL_TASK_STATES, MowingContext
<1>3. markRunning(c, e) \in {c, mowBase(c, e), running}
  BY DEF markRunning
<1>. HIDE DEF running
<1>. QED BY <1>1, <1>2, <1>3, MowBaseSound, UnchangedSound DEF Sound, Fits

\* A charging frame keeps what it interrupts, or else a running mow.
LEMMA MarkChargingSound ==
    ASSUME NEW c \in MowingContext
    PROVE  Sound(c, markCharging(c))
<1>1. \A x \in MowScenes :
         [c EXCEPT !.state = "RECHARGING", !.phase = "charging", !.resumeTo = x]
           \in MowingContext
  BY Scenery, FieldValues DEF MowingContext
<1>2. markCharging(c) \in MowingContext
  BY <1>1, Scenery, SnapshotIsScene, SceneOrScene, PhaseOrPhase
     DEF markCharging, Undefined
<1>3. Resumable(c) => Resumable(markCharging(c))
  BY Scenery, SnapshotIsScene, SceneOrScene
     DEF markCharging, Resumable, HasScene, InPlay, TERMINAL_TASK_STATES, MowingContext,
         Undefined
<1>4. Homebound(c, markCharging(c))
  BY DEF markCharging, Homebound, InPlay, TERMINAL_TASK_STATES, MowingContext
<1>. QED BY <1>2, <1>3, <1>4 DEF Sound, Fits

\* An idle frame ends the session, or the recharge that interrupted none.
LEMMA CompleteSound ==
    ASSUME NEW c \in MowingContext
    PROVE  Sound(c, complete(c))
<1>1. complete(c) \in MowingContext
  BY Scenery, FieldValues DEF complete, MowingContext
<1>2. Resumable(c) => Resumable(complete(c))
  BY Scenery, SnapshotIsScene, SceneOrScene
     DEF complete, Resumable, HasScene, InPlay, TERMINAL_TASK_STATES, MowingContext,
         Undefined
<1>3. Homebound(c, complete(c))
  BY DEF complete, Homebound, InPlay, TERMINAL_TASK_STATES, MowingContext
<1>. QED BY <1>1, <1>2, <1>3 DEF Sound, Fits

\* The work statuses: all but `mowing' leave a return to the dock alone or end it.
LEMMA MowWorkStatusFits ==
    ASSUME NEW c \in MowingContext, NEW e \in MowingEvent, e.type = "DEVICE_WORK_STATUS"
    PROVE  /\ Fits(c, mowWorkStatus(c, e))
           /\ e.status # "mowing" => Sound(c, mowWorkStatus(c, e))
<1>1. e.status = "mowing" => mowWorkStatus(c, e) = markRunning(c, e)
  BY DEF mowWorkStatus
<1>2. e.status # "mowing" =>
        mowWorkStatus(c, e) \in {markCharging(c), enterReturningDock(c), complete(c),
                                 mowBase(c, e)}
  BY DEF mowWorkStatus
<1>3. e.type \notin OwnEvents
  BY DEF OwnEvents
<1>. QED
  BY <1>1, <1>2, <1>3, MarkRunningFits, MarkChargingSound, ReturnDockSound, CompleteSound,
     MowBaseSound, FieldValues DEF Sound

\* The reducer of the mowing session keeps the scenes to resume, and leaves a return to
\* the dock to the frames of a robot that mows, whatever the context and the event.
THEOREM MowingReducerSound ==
    ASSUME NEW c \in MowingContext, NEW e \in MowingEvent
    PROVE  /\ Fits(c, mowingReducer(c, e))
           /\ ~(e.type = "DEVICE_WORK_STATUS" /\ e.status = "mowing") =>
                Homebound(c, mowingReducer(c, e))
<1>1. CASE e.type = "CMD_CONFIRM"
  <2>1. mowingReducer(c, e) \in {complete(c), mowBase(c, e)}
    BY <1>1 DEF mowingReducer
  <2>. QED BY <1>1, <2>1, CompleteSound, MowBaseSound DEF Sound, OwnEvents
<1>2. CASE e.type = "RECONCILE_STARTED"
  BY <1>2, ReconcileStartedSound DEF mowingReducer, Sound
<1>3. CASE e.type = "RECONCILE_PAUSED"
  BY <1>3, ReconcilePausedSound DEF mowingReducer, Sound
<1>4. CASE e.type = "DEVICE_WORK_STATUS"
  <2>1. mowingReducer(c, e) = mowWorkStatus(c, e)
    BY <1>4 DEF mowingReducer
  <2>. QED BY <1>4, <2>1, MowWorkStatusFits DEF Sound
<1>5. CASE e.type = "DEVICE_PHASE"
  <2>1. mowingReducer(c, e) \in {applyReturnDockPhase(c, e.phase), mowBase(c, e)}
    BY <1>5 DEF mowingReducer
  <2>. QED BY <1>5, <2>1, ReturnDockSound, MowBaseSound, EventFields DEF Sound, OwnEvents
<1>6. CASE e.type \notin OwnEvents \cup {"CMD_CONFIRM", "DEVICE_WORK_STATUS", "DEVICE_PHASE"}
  <2>1. mowingReducer(c, e) = mowBase(c, e)
    BY <1>6 DEF mowingReducer, OwnEvents
  <2>. QED BY <1>6, <2>1, MowBaseSound DEF Sound
<1>. QED BY <1>1, <1>2, <1>3, <1>4, <1>5, <1>6 DEF OwnEvents
=============================================================================
