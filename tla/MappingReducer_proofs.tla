------------------------ MODULE MappingReducer_proofs ------------------------
(* What the reducer of the mapping session does to a context, as lemmas for    *)
(* the proofs about the modules that run it.  It is a composition of operators *)
(* on contexts, so there is a lemma for each of them, and each says the same   *)
(* of its operator: that it is `Sound'.                                        *)
EXTENDS MappingReducer, TLAPS

\* The three invariants, which are inductive together only: the latch tells which
\* operators may find the button pressed, and the scene of an interruption is only
\* known with the states that may carry one.  (A mapping session never returns to
\* the dock: were it there, arriving would interrupt it without a scene.)
Safe(c) ==
    /\ ResumeTargetsOf(c) /\ EstopLatchedOf(c) /\ RemoteIsManualOf(c)
    /\ c.state # "RETURNING_DOCK"
Good(c) == c \in MappingContext /\ Safe(c)

\* What may happen to a session between two contexts (the action properties of
\* MappingSession): a stop is left by a reset only,
EstopKept(c, d) ==
    c.state = "ESTOPPED" /\ d.state # "ESTOPPED" =>
      /\ ~c.estopActive
      /\ IF c.resumeTo = NoScene
         THEN d.state = "IDLE"
         ELSE d.state = "RESUMING" /\ d.resumeTo = c.resumeTo

\* an ended session is final,
EndKept(c, d) == c.state \in TERMINAL_TASK_STATES => d \in {c, createInitialTaskContext}

\* an interruption saves the scene of the work it interrupts,
SceneKept(c, d) ==
    c.state = "WORKING" /\ d.state \in {"PAUSED", "RECHARGING", "ESTOPPED"} =>
      d.resumeTo = Scene("WORKING", c.phase)

\* and a resumed session names a phase.
PhaseNamed(c, d) == c.state = "RESUMING" /\ d.state = "WORKING" => d.phase # Null

\* The same in the words of TaskLifecycle: the stages of the task and its steps.
Active      == {"PREPARING", "UNDOCKING", "WORKING", "RETURNING_DOCK"}
Interrupted == {"PAUSED", "REMOTE_CONTROL", "RECHARGING", "RESUMING"}
Kept(c) == c.resumeTo # NoScene

Runs(c, d) ==
    c.state \in {"IDLE"} \cup Interrupted /\ d.state \in Active /\ ~Kept(d)
Interrupts(c, d) ==
    c.state \in {"IDLE"} \cup Active /\ d.state \in Interrupted /\ (c.state \in Active => Kept(d))
Shifts(c, d) ==
    c.state \in Interrupted /\ d.state \in Interrupted /\ (Kept(c) => Kept(d))
Confirms(c, d) ==
    /\ c.state = "ESTOPPED" /\ ~c.estopActive
    /\ (IF Kept(c) THEN d.state \in Interrupted ELSE d.state = "IDLE")
    /\ Kept(d) <=> Kept(c)
Ends(c, d) ==
    /\ c.state \notin {"ESTOPPED"} \cup TERMINAL_TASK_STATES
    /\ d.state \in TERMINAL_TASK_STATES /\ ~Kept(d)
Acknowledges(c, d) ==
    c.state \in TERMINAL_TASK_STATES /\ d.state = "IDLE" /\ (Kept(d) <=> Kept(c))
Stays(c, d) ==
    /\ \/ d.state = c.state
       \/ c.state \in Active /\ d.state \in Active
       \/ c.state \in TERMINAL_TASK_STATES /\ d.state \in TERMINAL_TASK_STATES
    /\ Kept(d) <=> Kept(c)
Stops(c, d) ==
    /\ c.state \notin TERMINAL_TASK_STATES /\ d.state = "ESTOPPED" /\ d.estopActive
    /\ Kept(c) => Kept(d)
    /\ c.state \notin Active \cup Interrupted => (Kept(d) <=> Kept(c))
Releases(c, d) ==
    c.state = "ESTOPPED" /\ d.state = "ESTOPPED" /\ ~d.estopActive /\ (Kept(d) <=> Kept(c))
Loses(c, d) ==
    /\ c.state \in {"IDLE"} \cup Active \cup Interrupted /\ d.state = Undefined
    /\ ~d.estopActive /\ ~Kept(d)

LifeStep(c, d) ==
    \/ Stops(c, d) \/ Releases(c, d) \/ Loses(c, d)
    \/ /\ d.estopActive = c.estopActive
       /\ \/ Runs(c, d) \/ Interrupts(c, d) \/ Shifts(c, d) \/ Confirms(c, d)
          \/ Ends(c, d) \/ Acknowledges(c, d) \/ Stays(c, d)

Moves(c, d) ==
    EstopKept(c, d) /\ EndKept(c, d) /\ SceneKept(c, d) /\ PhaseNamed(c, d) /\ LifeStep(c, d)

\* A session that is neither stopped nor over.
InPlay(c) == c.state \notin {"ESTOPPED"} \cup TERMINAL_TASK_STATES

\* An operator gives a context of the type, whatever it is given; and from a context
\* that is safe another one, by a move.
Sound(c, d) ==
    /\ d \in MappingContext
    /\ Safe(c) => Safe(d) /\ Moves(c, d)

-----------------------------------------------------------------------------

\* The two constant scenes: none, and the one a manual phase returns to.
LEMMA Scenery ==
    /\ NoScene \in Scenes
    /\ FollowScene \in Scenes
    /\ FollowScene # NoScene
  BY DEF NoScene, FollowScene, Scene, Scenes, TASK_STATES, MappingPhase, MAPPING_PHASES,
         RechargePhases, Undefined, Null

\* The values that the operators give to the fields are of the fields' types.
LEMMA FieldValues ==
    /\ {"WORKING", "REMOTE_CONTROL", "CANCELLED", "ESTOPPED"} \subseteq TASK_STATES
    /\ {"MAP_FOLLOW_BOUNDARY", "MAP_FOLLOW_BOUNDARY_MANUAL", "MAP_SCAN_BOUNDARY",
        "MAP_BOUNDARY_DONE", "MAP_COMPLETING"} \subseteq MappingPhase
    /\ Null \in TaskErrors /\ Null \in PausedReasons
  BY DEF TASK_STATES, MappingPhase, MAPPING_PHASES, RechargePhases, TaskErrors,
         PausedReasons, Null

\* What an interruption saves is a scene, and never the absent one.
LEMMA SnapshotIsScene ==
    ASSUME NEW c \in MappingContext, c.state # Undefined
    PROVE  snapshot(c) \in Scenes /\ snapshot(c) # NoScene
  BY DEF NoScene, Scene, Scenes, snapshot, MappingContext, TASK_STATES, Undefined, Null

\* So is the working scene that a hand-over records.
LEMMA SceneOfPhase ==
    ASSUME NEW c \in MappingContext
    PROVE  Scene("WORKING", c.phase) \in Scenes /\ Scene("WORKING", c.phase) # NoScene
  BY DEF NoScene, Scene, Scenes, MappingContext, TASK_STATES, Undefined, Null

\* The phase an interruption returns to is a phase.
LEMMA PhaseOrPhase ==
    ASSUME NEW c \in MappingContext
    PROVE  PhaseOr(c.resumeTo, c.phase) \in MappingPhase \cup {Null, Undefined}
  BY DEF PhaseOr, MappingContext, Scenes

\* `resumeTo ?? scene' is a scene, and never the absent one.
LEMMA SceneOrScene ==
    ASSUME NEW c \in MappingContext, NEW other \in Scenes, other # NoScene
    PROVE  SceneOr(c.resumeTo, other) \in Scenes /\ SceneOr(c.resumeTo, other) # NoScene
  BY DEF SceneOr, MappingContext

\* To leave a context as it is is sound.
LEMMA UnchangedSound == ASSUME NEW c \in MappingContext PROVE Sound(c, c)
  BY DEF Sound, Moves, EstopKept, EndKept, SceneKept, PhaseNamed, LifeStep, Stays

\* A fatal error: no interruption survives it.
LEMMA WithErrorSound ==
    ASSUME NEW c \in MappingContext, InPlay(c)
    PROVE  Sound(c, withError(c))
<1>1. withError(c) \in MappingContext
  BY Scenery
     DEF withError, MappingContext, TASK_STATES, TaskErrors, PausedReasons,
         Undefined, Null
<1>2. ASSUME Safe(c) PROVE Safe(withError(c))
  BY <1>2, Scenery
     DEF withError, InPlay, Safe, ResumeTargetsOf, EstopLatchedOf, RemoteIsManualOf,
         HasNoScene, TERMINAL_TASK_STATES, TASK_STATES, MappingContext, Undefined,
         Null
<1>3. ASSUME Safe(c) PROVE Moves(c, withError(c))
  BY <1>3, Scenery
     DEF withError, Moves, EstopKept, EndKept, SceneKept, PhaseNamed, LifeStep, Ends,
         Kept, Active, Interrupted, InPlay, Safe, ResumeTargetsOf, EstopLatchedOf,
         RemoteIsManualOf, HasNoScene, TERMINAL_TASK_STATES, TASK_STATES,
         MappingContext, Undefined, Null
<1>. QED BY <1>1, <1>2, <1>3 DEF Sound

\* The capabilities are independent of the invariants.
LEMMA CapabilitiesSound ==
    ASSUME NEW c \in MappingContext, c.state \notin TERMINAL_TASK_STATES,
           NEW m \in BOOLEAN, NEW a \in BOOLEAN
    PROVE  Sound(c, applyCapabilities(c, m, a))
<1>1. applyCapabilities(c, m, a) \in MappingContext
  BY Scenery
     DEF applyCapabilities, MappingContext, TASK_STATES, TaskErrors, PausedReasons,
         Undefined, Null
<1>2. ASSUME Safe(c) PROVE Safe(applyCapabilities(c, m, a))
  BY <1>2, Scenery
     DEF applyCapabilities, Safe, ResumeTargetsOf, EstopLatchedOf, RemoteIsManualOf,
         HasNoScene, TERMINAL_TASK_STATES, TASK_STATES, MappingContext, Undefined,
         Null
<1>3. ASSUME Safe(c) PROVE Moves(c, applyCapabilities(c, m, a))
  BY <1>3, Scenery
     DEF applyCapabilities, Moves, EstopKept, EndKept, SceneKept, PhaseNamed,
         LifeStep, Stays, Kept, Active, Interrupted, Safe, ResumeTargetsOf,
         EstopLatchedOf, RemoteIsManualOf, HasNoScene, TERMINAL_TASK_STATES,
         TASK_STATES, MappingContext, Undefined, Null
<1>. QED BY <1>1, <1>2, <1>3 DEF Sound

\* The fresh contexts: of a session, and of the simulator's.
LEMMA InitialGood == Good(createInitialTaskContext) /\ Good(simulatorInitialContext)
<1>1. createInitialTaskContext \in MappingContext
  BY Scenery DEF createInitialTaskContext, MappingContext, TASK_STATES, TaskErrors, PausedReasons
<1>2. Safe(createInitialTaskContext)
  BY DEF createInitialTaskContext, Safe, ResumeTargetsOf, EstopLatchedOf, RemoteIsManualOf, HasNoScene,
         TERMINAL_TASK_STATES, TASK_STATES, MappingContext, Undefined, Null
<1>3. Sound(createInitialTaskContext, simulatorInitialContext)
  BY <1>1, CapabilitiesSound
     DEF simulatorInitialContext, createInitialTaskContext, TERMINAL_TASK_STATES
<1>. QED BY <1>1, <1>2, <1>3 DEF Good, Sound

\* An event in the place of the context reads as an empty one.
LEMMA EventAsContextSound ==
    ASSUME NEW c \in MappingContext, InPlay(c)
    PROVE  Sound(c, EventAsContext)
<1>1. EventAsContext \in MappingContext
  BY Scenery DEF EventAsContext, MappingContext, TaskErrors, PausedReasons
<1>2. Safe(EventAsContext)
  BY DEF EventAsContext, Safe, ResumeTargetsOf, EstopLatchedOf, RemoteIsManualOf, HasNoScene,
         TERMINAL_TASK_STATES, TASK_STATES, MappingContext, Undefined, Null
<1>3. ASSUME Safe(c) PROVE Moves(c, EventAsContext)
  BY <1>3, Scenery
     DEF EventAsContext, Moves, EstopKept, EndKept, SceneKept, PhaseNamed, LifeStep,
         Loses, Stays, Kept, Active, Interrupted, InPlay,
         Safe, ResumeTargetsOf, EstopLatchedOf, RemoteIsManualOf, HasNoScene,
         TERMINAL_TASK_STATES, TASK_STATES, MappingContext, Undefined, Null
<1>. QED BY <1>1, <1>2, <1>3 DEF Sound

\* A recharge keeps the scene of the work it interrupts.
LEMMA EnterRechargingSound ==
    ASSUME NEW c \in MappingContext, InPlay(c)
    PROVE  Sound(c, enterRecharging(c))
<1>1. [c EXCEPT !.state = "RECHARGING", !.phase = "charging"] \in MappingContext
  BY Scenery
     DEF MappingContext, TASK_STATES, TaskErrors, PausedReasons, Undefined, Null,
         MappingPhase, MAPPING_PHASES, RechargePhases
<1>2. \A x \in Scenes :
         [c EXCEPT !.state = "RECHARGING", !.phase = "returning", !.resumeTo = x]
           \in MappingContext
  BY Scenery
     DEF MappingContext, TASK_STATES, TaskErrors, PausedReasons, Undefined, Null,
         MappingPhase, MAPPING_PHASES, RechargePhases
<1>3. enterRecharging(c) \in MappingContext
  BY <1>1, <1>2, SnapshotIsScene, SceneOrScene DEF enterRecharging, Undefined
<1>4. ASSUME Safe(c) PROVE Safe(enterRecharging(c))
  BY <1>4, Scenery, SnapshotIsScene, SceneOrScene
     DEF enterRecharging, SceneOr, InPlay, Safe, ResumeTargetsOf, EstopLatchedOf,
         RemoteIsManualOf, HasNoScene, TERMINAL_TASK_STATES, TASK_STATES,
         MappingContext, Undefined, Null
<1>5. ASSUME Safe(c) PROVE Moves(c, enterRecharging(c))
  BY <1>5, Scenery, SnapshotIsScene, SceneOrScene
     DEF enterRecharging, SceneOr, snapshot, Scene, Moves, EstopKept, EndKept,
         SceneKept, PhaseNamed, LifeStep, Interrupts, Shifts, Stays, Kept, Active,
         Interrupted, InPlay, Safe, ResumeTargetsOf, EstopLatchedOf, RemoteIsManualOf,
         HasNoScene, TERMINAL_TASK_STATES, TASK_STATES, MappingContext, Undefined,
         Null
<1>. QED BY <1>3, <1>4, <1>5 DEF Sound

\* A reset leaves ESTOPPED for the scene that is kept, if any.
LEMMA CmdResetSound ==
    ASSUME NEW c \in MappingContext
    PROVE  Sound(c, CmdReset(c))
<1>1. [c EXCEPT !.state = "RESUMING", !.error = Null, !.pausedReason = Null] \in MappingContext
  BY Scenery DEF MappingContext, TASK_STATES, TaskErrors, PausedReasons, Undefined, Null
<1>2. [c EXCEPT !.state = "IDLE", !.phase = Null, !.error = Null, !.pausedReason = Null]
           \in MappingContext
  BY Scenery DEF MappingContext, TASK_STATES, TaskErrors, PausedReasons, Undefined, Null
<1>3. CmdReset(c) \in MappingContext
  BY <1>1, <1>2, InitialGood DEF CmdReset, Good
<1>4. ASSUME Safe(c) PROVE Safe(CmdReset(c))
  BY <1>4, InitialGood
     DEF CmdReset, Good, Safe, ResumeTargetsOf, EstopLatchedOf, RemoteIsManualOf,
         HasNoScene, TERMINAL_TASK_STATES, TASK_STATES, MappingContext, Undefined,
         Null
<1>5. ASSUME Safe(c) PROVE Moves(c, CmdReset(c))
  <2>1. createInitialTaskContext.state = "IDLE"
        /\ createInitialTaskContext.resumeTo = NoScene
        /\ createInitialTaskContext.estopActive = FALSE
    BY DEF createInitialTaskContext
  <2>. QED
    BY <1>5, <2>1
       DEF CmdReset, Moves, EstopKept, EndKept, SceneKept, PhaseNamed, LifeStep,
           Confirms, Acknowledges, Stays, Kept, Active, Interrupted, Safe,
           ResumeTargetsOf, EstopLatchedOf, RemoteIsManualOf, HasNoScene,
           TERMINAL_TASK_STATES, TASK_STATES, MappingContext, Undefined, Null
<1>. QED BY <1>3, <1>4, <1>5 DEF Sound

\* While stopped, only the release, the capabilities and the link count.
LEMMA WhileEstoppedSound ==
    ASSUME NEW c \in MappingContext, c.state = "ESTOPPED",
           NEW e, e.type = "DEVICE_CAPABILITIES" =>
                    e.canSwitchManual \in BOOLEAN /\ e.canSwitchAuto \in BOOLEAN
    PROVE  Sound(c, WhileEstopped(c, e))
<1>. DEFINE released == [c EXCEPT !.estopActive = FALSE]
<1>1. released \in MappingContext
  BY DEF MappingContext
<1>2. ASSUME Safe(c) PROVE Safe(released)
  BY <1>2 DEF Safe, ResumeTargetsOf, EstopLatchedOf, RemoteIsManualOf, HasNoScene,
         TERMINAL_TASK_STATES, TASK_STATES, MappingContext, Undefined, Null
<1>3. ASSUME Safe(c) PROVE Moves(c, released)
  BY <1>3
     DEF Moves, EstopKept, EndKept, SceneKept, PhaseNamed, LifeStep,
         Releases, Kept, Safe, ResumeTargetsOf, EstopLatchedOf, RemoteIsManualOf, HasNoScene,
         TERMINAL_TASK_STATES, TASK_STATES, MappingContext, Undefined, Null
<1>4. Sound(c, released)
  BY <1>1, <1>2, <1>3 DEF Sound
<1>5. \A m, a \in BOOLEAN : Sound(c, applyCapabilities(c, m, a))
  BY CapabilitiesSound DEF TERMINAL_TASK_STATES
<1>. QED BY <1>4, <1>5, UnchangedSound DEF WhileEstopped, resetCapabilities

\* A start.
LEMMA CmdStartSound ==
    ASSUME NEW c \in MappingContext, NEW e, e.mode \in {"auto", "remote"},
           InPlay(c)
    PROVE  Sound(c, CmdStart(c, e))
<1>1. [c EXCEPT !.state = "PREPARING", !.mode = e.mode, !.phase = Null,
                 !.resumeTo = NoScene, !.error = Null] \in MappingContext
  BY Scenery DEF MappingContext, TASK_STATES, TaskErrors, PausedReasons, Undefined, Null
<1>2. CmdStart(c, e) \in MappingContext
  BY <1>1 DEF CmdStart
<1>3. ASSUME Safe(c) PROVE Safe(CmdStart(c, e))
  BY <1>3, Scenery
     DEF CmdStart, InPlay, Safe, ResumeTargetsOf, EstopLatchedOf, RemoteIsManualOf,
         HasNoScene, TERMINAL_TASK_STATES, TASK_STATES, MappingContext, Undefined,
         Null
<1>4. ASSUME Safe(c) PROVE Moves(c, CmdStart(c, e))
  BY <1>4, Scenery
     DEF CmdStart, Moves, EstopKept, EndKept, SceneKept, PhaseNamed, LifeStep, Runs,
         Stays, Kept, Active, Interrupted, InPlay, Safe, ResumeTargetsOf,
         EstopLatchedOf, RemoteIsManualOf, HasNoScene, TERMINAL_TASK_STATES,
         TASK_STATES, MappingContext, Undefined, Null
<1>. QED BY <1>2, <1>3, <1>4 DEF Sound

\* Leaving the dock.
LEMMA DeviceUndockedSound ==
    ASSUME NEW c \in MappingContext, InPlay(c)
    PROVE  Sound(c, DeviceUndocked(c))
<1>1. DeviceUndocked(c) \in MappingContext
  BY Scenery
     DEF DeviceUndocked, MappingContext, TASK_STATES, TaskErrors, PausedReasons,
         Undefined, Null
<1>2. ASSUME Safe(c) PROVE Safe(DeviceUndocked(c))
  BY <1>2, Scenery
     DEF DeviceUndocked, InPlay, Safe, ResumeTargetsOf, EstopLatchedOf,
         RemoteIsManualOf, HasNoScene, TERMINAL_TASK_STATES, TASK_STATES,
         MappingContext, Undefined, Null
<1>3. ASSUME Safe(c) PROVE Moves(c, DeviceUndocked(c))
  BY <1>3, Scenery
     DEF DeviceUndocked, Moves, EstopKept, EndKept, SceneKept, PhaseNamed, LifeStep,
         Stays, Kept, Active, Interrupted, InPlay, Safe, ResumeTargetsOf,
         EstopLatchedOf, RemoteIsManualOf, HasNoScene, TERMINAL_TASK_STATES,
         TASK_STATES, MappingContext, Undefined, Null
<1>. QED BY <1>1, <1>2, <1>3 DEF Sound

\* A work status.
LEMMA DeviceWorkStatusSound ==
    ASSUME NEW c \in MappingContext, InPlay(c), NEW e
    PROVE  Sound(c, DeviceWorkStatus(c, e))
  BY WithErrorSound, EnterRechargingSound, DeviceUndockedSound, UnchangedSound
     DEF DeviceWorkStatus

\* A phase echoed by the device: a resume it confirms drops its scene.
LEMMA DevicePhaseSound ==
    ASSUME NEW c \in MappingContext, InPlay(c), NEW e, e.phase \in MappingPhase
    PROVE  Sound(c, DevicePhase(c, e))
<1>. e.phase # Null
  BY DEF MappingPhase, MAPPING_PHASES, RechargePhases, Null
<1>1. DevicePhase(c, e) \in MappingContext
  BY Scenery, FieldValues DEF DevicePhase, MappingContext
<1>2. ASSUME Safe(c) PROVE Safe(DevicePhase(c, e))
  BY <1>2, Scenery
     DEF DevicePhase, InPlay, Safe, ResumeTargetsOf, EstopLatchedOf, RemoteIsManualOf,
         HasNoScene, TERMINAL_TASK_STATES, TASK_STATES, MappingContext, Undefined,
         Null
<1>3. ASSUME Safe(c) PROVE Moves(c, DevicePhase(c, e))
  BY <1>3, Scenery
     DEF DevicePhase, Moves, EstopKept, EndKept, SceneKept, PhaseNamed, LifeStep,
         Runs, Stays, Kept, Active, Interrupted, InPlay, Safe, ResumeTargetsOf,
         EstopLatchedOf, RemoteIsManualOf, HasNoScene, TERMINAL_TASK_STATES,
         TASK_STATES, MappingContext, Undefined, Null
<1>. QED BY <1>1, <1>2, <1>3 DEF Sound

\* A pause keeps the scene it interrupts.
LEMMA CmdPauseSound ==
    ASSUME NEW c \in MappingContext, InPlay(c)
    PROVE  Sound(c, CmdPause(c))
<1>1. \A x \in Scenes :
         [c EXCEPT !.state = "PAUSED", !.resumeTo = x, !.pausedReason = "user"] \in MappingContext
  BY Scenery DEF MappingContext, TASK_STATES, TaskErrors, PausedReasons, Undefined, Null
<1>2. CmdPause(c) \in MappingContext
  BY <1>1, SnapshotIsScene DEF CmdPause, Undefined
<1>3. ASSUME Safe(c) PROVE Safe(CmdPause(c))
  BY <1>3, Scenery, SnapshotIsScene, SceneOrScene
     DEF CmdPause, SceneOr, InPlay, Safe, ResumeTargetsOf, EstopLatchedOf,
         RemoteIsManualOf, HasNoScene, TERMINAL_TASK_STATES, TASK_STATES,
         MappingContext, Undefined, Null
<1>4. ASSUME Safe(c) PROVE Moves(c, CmdPause(c))
  BY <1>4, Scenery, SnapshotIsScene, SceneOrScene
     DEF CmdPause, SceneOr, snapshot, Scene, Moves, EstopKept, EndKept, SceneKept,
         PhaseNamed, LifeStep, Interrupts, Stays, Kept, Active, Interrupted, InPlay,
         Safe, ResumeTargetsOf, EstopLatchedOf, RemoteIsManualOf, HasNoScene,
         TERMINAL_TASK_STATES, TASK_STATES, MappingContext, Undefined, Null
<1>. QED BY <1>2, <1>3, <1>4 DEF Sound

\* A resume keeps the scene until the device confirms.
LEMMA CmdResumeSound ==
    ASSUME NEW c \in MappingContext, InPlay(c)
    PROVE  Sound(c, CmdResume(c))
<1>1. CmdResume(c) \in MappingContext
  BY Scenery
     DEF CmdResume, MappingContext, TASK_STATES, TaskErrors, PausedReasons,
         Undefined, Null
<1>2. ASSUME Safe(c) PROVE Safe(CmdResume(c))
  BY <1>2, Scenery
     DEF CmdResume, InPlay, Safe, ResumeTargetsOf, EstopLatchedOf, RemoteIsManualOf,
         HasNoScene, TERMINAL_TASK_STATES, TASK_STATES, MappingContext, Undefined,
         Null
<1>3. ASSUME Safe(c) PROVE Moves(c, CmdResume(c))
  BY <1>3, Scenery
     DEF CmdResume, Moves, EstopKept, EndKept, SceneKept, PhaseNamed, LifeStep,
         Shifts, Stays, Kept, Active, Interrupted, InPlay, Safe, ResumeTargetsOf,
         EstopLatchedOf, RemoteIsManualOf, HasNoScene, TERMINAL_TASK_STATES,
         TASK_STATES, MappingContext, Undefined, Null
<1>. QED BY <1>1, <1>2, <1>3 DEF Sound

\* A cancellation.
LEMMA CmdCancelSound ==
    ASSUME NEW c \in MappingContext, InPlay(c)
    PROVE  Sound(c, CmdCancel(c))
<1>1. CmdCancel(c) \in MappingContext
  BY Scenery, FieldValues DEF CmdCancel, MappingContext
<1>2. ASSUME Safe(c) PROVE Safe(CmdCancel(c))
  BY <1>2, Scenery
     DEF CmdCancel, InPlay, Safe, ResumeTargetsOf, EstopLatchedOf, RemoteIsManualOf,
         HasNoScene, TERMINAL_TASK_STATES, TASK_STATES, MappingContext, Undefined,
         Null
<1>3. ASSUME Safe(c) PROVE Moves(c, CmdCancel(c))
  BY <1>3, Scenery
     DEF CmdCancel, Moves, EstopKept, EndKept, SceneKept, PhaseNamed, LifeStep, Ends,
         Stays, Kept, Active, Interrupted, InPlay, Safe, ResumeTargetsOf,
         EstopLatchedOf, RemoteIsManualOf, HasNoScene, TERMINAL_TASK_STATES,
         TASK_STATES, MappingContext, Undefined, Null
<1>. QED BY <1>1, <1>2, <1>3 DEF Sound

\* Leaving remote control uses its scene up.
LEMMA CmdExitManualSound ==
    ASSUME NEW c \in MappingContext, InPlay(c)
    PROVE  Sound(c, CmdExitManual(c))
<1>1. \A p \in MappingPhase \cup {Null, Undefined} :
         [c EXCEPT !.state = "WORKING", !.mode = "auto", !.phase = p, !.resumeTo = NoScene]
           \in MappingContext
  BY Scenery DEF MappingContext, TASK_STATES, TaskErrors, PausedReasons, Undefined, Null
<1>2. CmdExitManual(c) \in MappingContext
  BY <1>1, PhaseOrPhase DEF CmdExitManual
<1>3. ASSUME Safe(c) PROVE Safe(CmdExitManual(c))
  BY <1>3, Scenery
     DEF CmdExitManual, InPlay, Safe, ResumeTargetsOf, EstopLatchedOf,
         RemoteIsManualOf, HasNoScene, TERMINAL_TASK_STATES, TASK_STATES,
         MappingContext, Undefined, Null
<1>4. ASSUME Safe(c) PROVE Moves(c, CmdExitManual(c))
  BY <1>4, Scenery
     DEF CmdExitManual, Moves, EstopKept, EndKept, SceneKept, PhaseNamed, LifeStep,
         Runs, Stays, Kept, Active, Interrupted, InPlay, Safe, ResumeTargetsOf,
         EstopLatchedOf, RemoteIsManualOf, HasNoScene, TERMINAL_TASK_STATES,
         TASK_STATES, MappingContext, Undefined, Null
<1>. QED BY <1>2, <1>3, <1>4 DEF Sound

\* A completion.
LEMMA CmdConfirmSound ==
    ASSUME NEW c \in MappingContext, InPlay(c), NEW o
    PROVE  Sound(c, CmdConfirm(c, o))
<1>1. [c EXCEPT !.state = "COMPLETED", !.resumeTo = NoScene, !.error = Null] \in MappingContext
  BY Scenery DEF MappingContext, TASK_STATES, TaskErrors, PausedReasons, Undefined, Null
<1>2. CmdConfirm(c, o) \in MappingContext
  BY <1>1 DEF CmdConfirm
<1>3. ASSUME Safe(c) PROVE Safe(CmdConfirm(c, o))
  BY <1>3, Scenery
     DEF CmdConfirm, InPlay, Safe, ResumeTargetsOf, EstopLatchedOf, RemoteIsManualOf,
         HasNoScene, TERMINAL_TASK_STATES, TASK_STATES, MappingContext, Undefined,
         Null
<1>4. ASSUME Safe(c) PROVE Moves(c, CmdConfirm(c, o))
  BY <1>4, Scenery
     DEF CmdConfirm, Moves, EstopKept, EndKept, SceneKept, PhaseNamed, LifeStep, Ends,
         Stays, Kept, Active, Interrupted, InPlay, Safe, ResumeTargetsOf,
         EstopLatchedOf, RemoteIsManualOf, HasNoScene, TERMINAL_TASK_STATES,
         TASK_STATES, MappingContext, Undefined, Null
<1>. QED BY <1>2, <1>3, <1>4 DEF Sound

\* Arriving at the dock ends in the charging phase.
LEMMA DeviceDockedSound ==
    ASSUME NEW c \in MappingContext, InPlay(c)
    PROVE  Sound(c, DeviceDocked(c))
<1>1. [c EXCEPT !.state = "RECHARGING", !.phase = "charging"] \in MappingContext
  BY Scenery
     DEF MappingContext, TASK_STATES, TaskErrors, PausedReasons, Undefined, Null,
         MappingPhase, MAPPING_PHASES, RechargePhases
<1>2. DeviceDocked(c) \in MappingContext
  BY <1>1 DEF DeviceDocked
<1>3. ASSUME Safe(c) PROVE Safe(DeviceDocked(c))
  BY <1>3, Scenery
     DEF DeviceDocked, InPlay, Safe, ResumeTargetsOf, EstopLatchedOf,
         RemoteIsManualOf, HasNoScene, TERMINAL_TASK_STATES, TASK_STATES,
         MappingContext, Undefined, Null
<1>4. ASSUME Safe(c) PROVE Moves(c, DeviceDocked(c))
  BY <1>4, Scenery
     DEF DeviceDocked, Moves, EstopKept, EndKept, SceneKept, PhaseNamed, LifeStep,
         Stays, Kept, Active, Interrupted, InPlay, Safe, ResumeTargetsOf,
         EstopLatchedOf, RemoteIsManualOf, HasNoScene, TERMINAL_TASK_STATES,
         TASK_STATES, MappingContext, Undefined, Null
<1>. QED BY <1>2, <1>3, <1>4 DEF Sound

\* A full battery ends in the charged phase.
LEMMA DeviceBatterySound ==
    ASSUME NEW c \in MappingContext, InPlay(c), NEW e
    PROVE  Sound(c, DeviceBattery(c, e))
<1>1. [c EXCEPT !.phase = "charged"] \in MappingContext
  BY Scenery
     DEF MappingContext, TASK_STATES, TaskErrors, PausedReasons, Undefined, Null,
         MappingPhase, MAPPING_PHASES, RechargePhases
<1>2. DeviceBattery(c, e) \in MappingContext
  BY <1>1 DEF DeviceBattery
<1>3. ASSUME Safe(c) PROVE Safe(DeviceBattery(c, e))
  BY <1>3, Scenery
     DEF DeviceBattery, InPlay, Safe, ResumeTargetsOf, EstopLatchedOf,
         RemoteIsManualOf, HasNoScene, TERMINAL_TASK_STATES, TASK_STATES,
         MappingContext, Undefined, Null
<1>4. ASSUME Safe(c) PROVE Moves(c, DeviceBattery(c, e))
  BY <1>4, Scenery
     DEF DeviceBattery, Moves, EstopKept, EndKept, SceneKept, PhaseNamed, LifeStep,
         Stays, Kept, Active, Interrupted, InPlay, Safe, ResumeTargetsOf,
         EstopLatchedOf, RemoteIsManualOf, HasNoScene, TERMINAL_TASK_STATES,
         TASK_STATES, MappingContext, Undefined, Null
<1>. QED BY <1>2, <1>3, <1>4 DEF Sound

\* An error, recoverable or not.
LEMMA DeviceErrorSound ==
    ASSUME NEW c \in MappingContext, InPlay(c), NEW e
    PROVE  Sound(c, DeviceError(c, e))
<1>. DEFINE noted == [c EXCEPT !.error = "recoverable"]
<1>1. noted \in MappingContext
  BY DEF MappingContext, TaskErrors
<1>2. ASSUME Safe(c) PROVE Safe(noted)
  BY <1>2 DEF Safe, ResumeTargetsOf, EstopLatchedOf, RemoteIsManualOf, HasNoScene,
         TERMINAL_TASK_STATES, TASK_STATES, MappingContext, Undefined, Null
<1>3. ASSUME Safe(c) PROVE Moves(c, noted)
  BY <1>3
     DEF Moves, EstopKept, EndKept, SceneKept, PhaseNamed, LifeStep,
         Stays, Kept, InPlay, Safe, ResumeTargetsOf, EstopLatchedOf, RemoteIsManualOf, HasNoScene,
         TERMINAL_TASK_STATES, TASK_STATES, MappingContext, Undefined, Null
<1>. QED BY <1>1, <1>2, <1>3, WithErrorSound DEF DeviceError, Sound

\* The stop button: the stop keeps the scene of a resumable state.
LEMMA DeviceEstopSound ==
    ASSUME NEW c \in MappingContext, InPlay(c), NEW e
    PROVE  Sound(c, DeviceEstop(c, e))
<1>1. \A x \in Scenes :
         [c EXCEPT !.state = "ESTOPPED", !.estopActive = TRUE, !.resumeTo = x] \in MappingContext
  BY FieldValues DEF MappingContext
<1>2. [c EXCEPT !.estopActive = FALSE] \in MappingContext
  BY DEF MappingContext
<1>a. estopSnapshot(c) \in Scenes
  BY SnapshotIsScene, Scenery DEF estopSnapshot, ESTOP_RESUMABLE_STATES, Undefined
<1>b. SceneOr(c.resumeTo, estopSnapshot(c)) \in Scenes
  BY <1>a DEF SceneOr, MappingContext
<1>3. DeviceEstop(c, e) \in MappingContext
  BY <1>1, <1>2, <1>b DEF DeviceEstop
<1>4. ASSUME Safe(c) PROVE Safe(DeviceEstop(c, e))
  BY <1>4, Scenery, SnapshotIsScene, SceneOrScene
     DEF DeviceEstop, estopSnapshot, ESTOP_RESUMABLE_STATES, SceneOr, InPlay, Safe,
         ResumeTargetsOf, EstopLatchedOf, RemoteIsManualOf, HasNoScene,
         TERMINAL_TASK_STATES, TASK_STATES, MappingContext, Undefined, Null
<1>5. ASSUME Safe(c) PROVE Moves(c, DeviceEstop(c, e))
  BY <1>5, Scenery, SnapshotIsScene, SceneOrScene
     DEF DeviceEstop, estopSnapshot, ESTOP_RESUMABLE_STATES, SceneOr, snapshot, Scene,
         Moves, EstopKept, EndKept, SceneKept, PhaseNamed, LifeStep, Stops, Stays,
         Kept, Active, Interrupted, InPlay, Safe, ResumeTargetsOf, EstopLatchedOf,
         RemoteIsManualOf, HasNoScene, TERMINAL_TASK_STATES, TASK_STATES,
         MappingContext, Undefined, Null
<1>. QED BY <1>3, <1>4, <1>5 DEF Sound

\* A lost network pauses work and keeps its scene.
LEMMA LinkNetLostSound ==
    ASSUME NEW c \in MappingContext, InPlay(c)
    PROVE  Sound(c, LinkNetLost(c))
<1>1. \A x \in Scenes :
         [[c EXCEPT !.canSwitchManual = TRUE, !.canSwitchAuto = TRUE] EXCEPT
              !.state = "PAUSED", !.resumeTo = x, !.pausedReason = "link"] \in MappingContext
  BY Scenery DEF MappingContext, TASK_STATES, TaskErrors, PausedReasons, Undefined, Null
<1>2. [c EXCEPT !.canSwitchManual = TRUE, !.canSwitchAuto = TRUE] \in MappingContext
  BY Scenery DEF MappingContext, TASK_STATES, TaskErrors, PausedReasons, Undefined, Null
<1>3. LinkNetLost(c) \in MappingContext
  BY <1>1, <1>2, SnapshotIsScene, SceneOrScene
     DEF LinkNetLost, resetCapabilities, applyCapabilities, Undefined
<1>4. ASSUME Safe(c) PROVE Safe(LinkNetLost(c))
  BY <1>4, Scenery, SnapshotIsScene, SceneOrScene
     DEF LinkNetLost, resetCapabilities, applyCapabilities, SceneOr, InPlay, Safe,
         ResumeTargetsOf, EstopLatchedOf, RemoteIsManualOf, HasNoScene,
         TERMINAL_TASK_STATES, TASK_STATES, MappingContext, Undefined, Null
<1>5. ASSUME Safe(c) PROVE Moves(c, LinkNetLost(c))
  BY <1>5, Scenery, SnapshotIsScene, SceneOrScene
     DEF LinkNetLost, resetCapabilities, applyCapabilities, SceneOr, snapshot, Scene,
         Moves, EstopKept, EndKept, SceneKept, PhaseNamed, LifeStep, Interrupts,
         Shifts, Stays, Kept, Active, Interrupted, InPlay, Safe, ResumeTargetsOf,
         EstopLatchedOf, RemoteIsManualOf, HasNoScene, TERMINAL_TASK_STATES,
         TASK_STATES, MappingContext, Undefined, Null
<1>. QED BY <1>3, <1>4, <1>5 DEF Sound

\* A command that was not acknowledged.
LEMMA AckTimeoutSound ==
    ASSUME NEW c \in MappingContext, InPlay(c)
    PROVE  Sound(c, AckTimeout(c))
<1>1. AckTimeout(c) \in MappingContext
  BY Scenery
     DEF AckTimeout, withError, MappingContext, TASK_STATES, TaskErrors,
         PausedReasons, Undefined, Null
<1>2. ASSUME Safe(c) PROVE Safe(AckTimeout(c))
  BY <1>2, Scenery
     DEF AckTimeout, withError, InPlay, Safe, ResumeTargetsOf, EstopLatchedOf,
         RemoteIsManualOf, HasNoScene, TERMINAL_TASK_STATES, TASK_STATES,
         MappingContext, Undefined, Null
<1>3. ASSUME Safe(c) PROVE Moves(c, AckTimeout(c))
  BY <1>3, Scenery
     DEF AckTimeout, withError, Moves, EstopKept, EndKept, SceneKept, PhaseNamed,
         LifeStep, Ends, Shifts, Stays, Kept, Active, Interrupted, InPlay, Safe,
         ResumeTargetsOf, EstopLatchedOf, RemoteIsManualOf, HasNoScene,
         TERMINAL_TASK_STATES, TASK_STATES, MappingContext, Undefined, Null
<1>. QED BY <1>1, <1>2, <1>3 DEF Sound

\* What the cases read off an event.
LEMMA EventFields ==
    ASSUME NEW e \in MappingEvent
    PROVE  /\ e.type = "CMD_START" => e.mode \in {"auto", "remote"}
           /\ e.type = "DEVICE_PHASE" => e.phase \in MappingPhase
           /\ e.type = "DEVICE_CAPABILITIES" =>
                 e.canSwitchManual \in BOOLEAN /\ e.canSwitchAuto \in BOOLEAN
  BY DEF MappingEvent, CommandEvents, DeviceEvents, ReconcileEvents, LinkEvents,
         TimeoutEvents, SimulatorEvents, SimOnlyEvents

\* The mapping session keeps these types for itself.
OwnEvents == {"CMD_SWITCH_MANUAL", "CMD_ADD_LAWN", "CMD_MANUAL_SCAN_STARTED",
              "RECONCILE_STARTED", "RECONCILE_PAUSED"}

\* An event is the mapping session's own or one of the shared switch.
LEMMA EventTypes ==
    ASSUME NEW e \in MappingEvent
    PROVE  e.type \in OwnEvents \cup SimOnlyEvents \cup
             {"CMD_RESET", "CMD_START", "DEVICE_WORK_STATUS", "DEVICE_UNDOCKED",
              "DEVICE_PHASE", "CMD_PAUSE", "CMD_RESUME", "CMD_CANCEL",
              "CMD_EXIT_MANUAL", "CMD_CONFIRM", "CMD_RETURN_DOCK", "DEVICE_DOCKED",
              "DEVICE_BATTERY", "DEVICE_ERROR", "DEVICE_ESTOP",
              "DEVICE_CAPABILITIES", "LINK_NET_LOST", "LINK_DOWN", "TIMEOUT"}
  BY DEF MappingEvent, CommandEvents, DeviceEvents, ReconcileEvents, LinkEvents,
         TimeoutEvents, SimulatorEvents, SimOnlyEvents, OwnEvents

\* Every case of the shared switch is sound.
LEMMA InSessionSound ==
    ASSUME NEW c \in MappingContext, InPlay(c), NEW o,
           NEW e \in MappingEvent, e.type \notin OwnEvents \cup {"CMD_RESET"}
    PROVE  Sound(c, InSession(c, e, o))
<1>1. CASE e.type = "CMD_START"
  <2>1. InSession(c, e, o) = CmdStart(c, e)
    BY ONLY <1>1 DEF InSession, SimOnlyEvents
  <2>. QED BY <1>1, <2>1, CmdStartSound, EventFields
<1>2. CASE e.type = "DEVICE_WORK_STATUS"
  <2>1. InSession(c, e, o) = DeviceWorkStatus(c, e)
    BY ONLY <1>2 DEF InSession, SimOnlyEvents
  <2>. QED BY <1>2, <2>1, DeviceWorkStatusSound
<1>3. CASE e.type = "DEVICE_UNDOCKED"
  <2>1. InSession(c, e, o) = DeviceUndocked(c)
    BY ONLY <1>3 DEF InSession, SimOnlyEvents
  <2>. QED BY <1>3, <2>1, DeviceUndockedSound
<1>4. CASE e.type = "DEVICE_PHASE"
  <2>1. InSession(c, e, o) = DevicePhase(c, e)
    BY ONLY <1>4 DEF InSession, SimOnlyEvents
  <2>. QED BY <1>4, <2>1, DevicePhaseSound, EventFields
<1>5. CASE e.type = "CMD_PAUSE"
  <2>1. InSession(c, e, o) = CmdPause(c)
    BY ONLY <1>5 DEF InSession, SimOnlyEvents
  <2>. QED BY <1>5, <2>1, CmdPauseSound
<1>6. CASE e.type = "CMD_RESUME"
  <2>1. InSession(c, e, o) = CmdResume(c)
    BY ONLY <1>6 DEF InSession, SimOnlyEvents
  <2>. QED BY <1>6, <2>1, CmdResumeSound
<1>7. CASE e.type = "CMD_CANCEL"
  <2>1. InSession(c, e, o) = CmdCancel(c)
    BY ONLY <1>7 DEF InSession, SimOnlyEvents
  <2>. QED BY <1>7, <2>1, CmdCancelSound
<1>8. CASE e.type = "CMD_EXIT_MANUAL"
  <2>1. InSession(c, e, o) = CmdExitManual(c)
    BY ONLY <1>8 DEF InSession, SimOnlyEvents
  <2>. QED BY <1>8, <2>1, CmdExitManualSound
<1>9. CASE e.type = "CMD_CONFIRM"
  <2>1. InSession(c, e, o) = CmdConfirm(c, o)
    BY ONLY <1>9 DEF InSession, SimOnlyEvents
  <2>. QED BY <1>9, <2>1, CmdConfirmSound
<1>10. CASE e.type = "CMD_RETURN_DOCK"
  <2>1. InSession(c, e, o) = enterRecharging(c)
    BY ONLY <1>10 DEF InSession, SimOnlyEvents
  <2>. QED BY <1>10, <2>1, EnterRechargingSound
<1>11. CASE e.type = "DEVICE_DOCKED"
  <2>1. InSession(c, e, o) = DeviceDocked(c)
    BY ONLY <1>11 DEF InSession, SimOnlyEvents
  <2>. QED BY <1>11, <2>1, DeviceDockedSound
<1>12. CASE e.type = "DEVICE_BATTERY"
  <2>1. InSession(c, e, o) = DeviceBattery(c, e)
    BY ONLY <1>12 DEF InSession, SimOnlyEvents
  <2>. QED BY <1>12, <2>1, DeviceBatterySound
<1>13. CASE e.type = "DEVICE_ERROR"
  <2>1. InSession(c, e, o) = DeviceError(c, e)
    BY ONLY <1>13 DEF InSession, SimOnlyEvents
  <2>. QED BY <1>13, <2>1, DeviceErrorSound
<1>14. CASE e.type = "DEVICE_ESTOP"
  <2>1. InSession(c, e, o) = DeviceEstop(c, e)
    BY ONLY <1>14 DEF InSession, SimOnlyEvents
  <2>. QED BY <1>14, <2>1, DeviceEstopSound
<1>15. CASE e.type = "DEVICE_CAPABILITIES"
  <2>1. InSession(c, e, o) = applyCapabilities(c, e.canSwitchManual, e.canSwitchAuto)
    BY ONLY <1>15 DEF InSession, SimOnlyEvents
  <2>. QED BY <1>15, <2>1, CapabilitiesSound, EventFields DEF InPlay
<1>16. CASE e.type = "LINK_NET_LOST"
  <2>1. InSession(c, e, o) = LinkNetLost(c)
    BY ONLY <1>16 DEF InSession, SimOnlyEvents
  <2>. QED BY <1>16, <2>1, LinkNetLostSound
<1>17. CASE e.type = "LINK_DOWN"
  <2>1. InSession(c, e, o) = applyCapabilities(c, TRUE, TRUE)
    BY ONLY <1>17 DEF InSession, SimOnlyEvents, resetCapabilities
  <2>. QED BY <1>17, <2>1, CapabilitiesSound DEF InPlay
<1>18. CASE e.type = "TIMEOUT"
  <2>1. InSession(c, e, o) = AckTimeout(c)
    BY ONLY <1>18 DEF InSession, SimOnlyEvents
  <2>. QED BY <1>18, <2>1, AckTimeoutSound
<1>19. CASE e.type \in SimOnlyEvents
  <2>1. InSession(c, e, o) = EventAsContext
    BY ONLY <1>19 DEF InSession, SimOnlyEvents
  <2>. QED BY <2>1, EventAsContextSound
<1>. QED BY <1>1, <1>2, <1>3, <1>4, <1>5, <1>6, <1>7, <1>8, <1>9, <1>10, <1>11, <1>12,
            <1>13, <1>14, <1>15, <1>16, <1>17, <1>18, <1>19, EventTypes

\* So does the shared transition function as a whole.
LEMMA BaseReducerSound ==
    ASSUME NEW c \in MappingContext, NEW e \in MappingEvent, e.type \notin OwnEvents
    PROVE  Sound(c, baseReducer(c, e))
<1>1. CASE e.type = "CMD_RESET"
  <2>1. baseReducer(c, e) = CmdReset(c)
    BY ONLY <1>1 DEF baseReducer, transition
  <2>. QED BY <2>1, CmdResetSound
<1>2. CASE e.type # "CMD_RESET" /\ c.state = "ESTOPPED"
  <2>1. baseReducer(c, e) = WhileEstopped(c, e)
    BY ONLY <1>2 DEF baseReducer, transition, TERMINAL_TASK_STATES
  <2>. QED BY <1>2, <2>1, WhileEstoppedSound, EventFields
<1>3. CASE e.type # "CMD_RESET" /\ c.state \in TERMINAL_TASK_STATES
  <2>1. baseReducer(c, e) = c
    BY ONLY <1>3 DEF baseReducer, transition, TERMINAL_TASK_STATES
  <2>. QED BY <2>1, UnchangedSound
<1>4. CASE e.type # "CMD_RESET" /\ InPlay(c)
  <2>1. baseReducer(c, e) = InSession(c, e, MappingOptions)
    BY ONLY <1>4 DEF baseReducer, transition, InPlay
  <2>. QED BY <1>4, <2>1, InSessionSound
<1>. QED BY <1>1, <1>2, <1>3, <1>4 DEF InPlay

\* The task list says the session runs.
LEMMA ReconcileStartedSound ==
    ASSUME NEW c \in MappingContext
    PROVE  Sound(c, reconcileStarted(c))
<1>1. [c EXCEPT !.state = "WORKING", !.mode = "auto", !.resumeTo = NoScene,
                 !.error = Null] \in MappingContext
  BY Scenery DEF MappingContext, TASK_STATES, TaskErrors, PausedReasons, Undefined, Null
<1>2. reconcileStarted(c) \in MappingContext
  BY <1>1 DEF reconcileStarted
<1>3. ASSUME Safe(c) PROVE Safe(reconcileStarted(c))
  BY <1>3, Scenery
     DEF reconcileStarted, Safe, ResumeTargetsOf, EstopLatchedOf, RemoteIsManualOf,
         HasNoScene, TERMINAL_TASK_STATES, TASK_STATES, MappingContext, Undefined,
         Null
<1>4. ASSUME Safe(c) PROVE Moves(c, reconcileStarted(c))
  BY <1>4, Scenery
     DEF reconcileStarted, Moves, EstopKept, EndKept, SceneKept, PhaseNamed, LifeStep,
         Runs, Stays, Kept, Active, Interrupted, Safe, ResumeTargetsOf,
         EstopLatchedOf, RemoteIsManualOf, HasNoScene, TERMINAL_TASK_STATES,
         TASK_STATES, MappingContext, Undefined, Null
<1>. QED BY <1>2, <1>3, <1>4 DEF Sound

\* The task list says the session is paused.
LEMMA ReconcilePausedSound ==
    ASSUME NEW c \in MappingContext
    PROVE  Sound(c, reconcilePaused(c))
<1>1. \A x \in Scenes :
         [c EXCEPT !.state = "PAUSED", !.mode = "auto", !.error = Null, !.resumeTo = x]
           \in MappingContext
  BY Scenery DEF MappingContext, TASK_STATES, TaskErrors, PausedReasons, Undefined, Null
<1>2. \A x \in Scenes :
         [c EXCEPT !.state = "PAUSED", !.error = Null, !.resumeTo = x] \in MappingContext
  BY Scenery DEF MappingContext, TASK_STATES, TaskErrors, PausedReasons, Undefined, Null
<1>3. reconcilePaused(c) \in MappingContext
  BY <1>1, <1>2, SnapshotIsScene, SceneOrScene, SceneOfPhase
     DEF reconcilePaused, Undefined
<1>4. ASSUME Safe(c) PROVE Safe(reconcilePaused(c))
  BY <1>4, Scenery, SnapshotIsScene, SceneOfPhase
     DEF reconcilePaused, SceneOr, Safe, ResumeTargetsOf, EstopLatchedOf,
         RemoteIsManualOf, HasNoScene, TERMINAL_TASK_STATES, TASK_STATES,
         MappingContext, Undefined, Null
<1>5. ASSUME Safe(c) PROVE Moves(c, reconcilePaused(c))
  BY <1>5, Scenery, SnapshotIsScene, SceneOfPhase
     DEF reconcilePaused, SceneOr, snapshot, Scene, Moves, EstopKept, EndKept,
         SceneKept, PhaseNamed, LifeStep, Interrupts, Shifts, Stays, Kept, Active,
         Interrupted, Safe, ResumeTargetsOf, EstopLatchedOf, RemoteIsManualOf,
         HasNoScene, TERMINAL_TASK_STATES, TASK_STATES, MappingContext, Undefined,
         Null
<1>. QED BY <1>3, <1>4, <1>5 DEF Sound

\* Another lawn: remote control with a scene to return to.
LEMMA AddLawnSound ==
    ASSUME NEW c \in MappingContext
    PROVE  Sound(c, addLawn(c))
<1>1. [c EXCEPT !.state = "REMOTE_CONTROL", !.mode = "remote",
                 !.phase = "MAP_FOLLOW_BOUNDARY_MANUAL", !.error = Null,
                 !.resumeTo = FollowScene, !.manualScanStarted = TRUE] \in MappingContext
  BY Scenery, FieldValues DEF MappingContext
<1>2. addLawn(c) \in MappingContext
  BY <1>1 DEF addLawn
<1>3. ASSUME Safe(c) PROVE Safe(addLawn(c))
  BY <1>3, Scenery
     DEF addLawn, Safe, ResumeTargetsOf, EstopLatchedOf, RemoteIsManualOf, HasNoScene,
         TERMINAL_TASK_STATES, TASK_STATES, MappingContext, Undefined, Null
<1>4. ASSUME Safe(c) PROVE Moves(c, addLawn(c))
  BY <1>4, Scenery
     DEF addLawn, Moves, EstopKept, EndKept, SceneKept, PhaseNamed, LifeStep,
         Interrupts, Stays, Kept, Active, Interrupted, Safe, ResumeTargetsOf,
         EstopLatchedOf, RemoteIsManualOf, HasNoScene, TERMINAL_TASK_STATES,
         TASK_STATES, MappingContext, Undefined, Null
<1>. QED BY <1>2, <1>3, <1>4 DEF Sound

\* The manual scan was started.
LEMMA StartManualScanSound ==
    ASSUME NEW c \in MappingContext
    PROVE  Sound(c, startManualScan(c))
<1>1. [c EXCEPT !.manualScanStarted = TRUE] \in MappingContext
  BY Scenery DEF MappingContext, TASK_STATES, TaskErrors, PausedReasons, Undefined, Null
<1>2. startManualScan(c) \in MappingContext
  BY <1>1 DEF startManualScan
<1>3. ASSUME Safe(c) PROVE Safe(startManualScan(c))
  BY <1>3, Scenery
     DEF startManualScan, Safe, ResumeTargetsOf, EstopLatchedOf, RemoteIsManualOf,
         HasNoScene, TERMINAL_TASK_STATES, TASK_STATES, MappingContext, Undefined,
         Null
<1>4. ASSUME Safe(c) PROVE Moves(c, startManualScan(c))
  BY <1>4, Scenery
     DEF startManualScan, Moves, EstopKept, EndKept, SceneKept, PhaseNamed, LifeStep,
         Stays, Kept, Active, Interrupted, Safe, ResumeTargetsOf, EstopLatchedOf,
         RemoteIsManualOf, HasNoScene, TERMINAL_TASK_STATES, TASK_STATES,
         MappingContext, Undefined, Null
<1>. QED BY <1>2, <1>3, <1>4 DEF Sound

\* The switch to manual control.
LEMMA SwitchManualSound ==
    ASSUME NEW c \in MappingContext
    PROVE  Sound(c, switchManual(c))
<1>1. [c EXCEPT !.state = "REMOTE_CONTROL", !.mode = "remote",
                 !.phase = "MAP_FOLLOW_BOUNDARY_MANUAL", !.error = Null,
                 !.resumeTo = FollowScene] \in MappingContext
  BY Scenery, FieldValues DEF MappingContext
<1>2. [c EXCEPT !.state = "REMOTE_CONTROL", !.mode = "remote", !.error = Null] \in MappingContext
  BY FieldValues DEF MappingContext
<1>3. [c EXCEPT !.mode = "remote"] \in MappingContext
  BY DEF MappingContext
<1>4. switchManual(c) \in MappingContext
  BY <1>1, <1>2, <1>3 DEF switchManual
<1>5. ASSUME Safe(c) PROVE Safe(switchManual(c))
  BY <1>5, Scenery
     DEF switchManual, Safe, ResumeTargetsOf, EstopLatchedOf, RemoteIsManualOf,
         HasNoScene, TERMINAL_TASK_STATES, TASK_STATES, MappingContext, Undefined,
         Null
<1>6. ASSUME Safe(c) PROVE Moves(c, switchManual(c))
  BY <1>6, Scenery
     DEF switchManual, Moves, EstopKept, EndKept, SceneKept, PhaseNamed, LifeStep,
         Interrupts, Shifts, Stays, Kept, Active, Interrupted, Safe, ResumeTargetsOf,
         EstopLatchedOf, RemoteIsManualOf, HasNoScene, TERMINAL_TASK_STATES,
         TASK_STATES, MappingContext, Undefined, Null
<1>. QED BY <1>4, <1>5, <1>6 DEF Sound

\* A lost link forgets the start of the manual scan.
LEMMA LinkLostSound ==
    ASSUME NEW c \in MappingContext, NEW e \in LinkEvents
    PROVE  Sound(c, LinkLost(c, e))
<1>. DEFINE d == baseReducer(c, e)
            forgot == [d EXCEPT !.manualScanStarted = FALSE]
<1>1. CASE c.state \in TERMINAL_TASK_STATES
  BY <1>1, UnchangedSound DEF LinkLost
<1>2. CASE c.state \notin TERMINAL_TASK_STATES
  <2>1. Sound(c, d)
    BY BaseReducerSound DEF LinkEvents, MappingEvent, OwnEvents
  <2>2. LinkLost(c, e) = forgot
    BY <1>2 DEF LinkLost
  <2>. HIDE DEF d
  <2>3. forgot \in MappingContext
    BY <2>1 DEF Sound, MappingContext
  <2>4. ASSUME Safe(c) PROVE Safe(forgot)
    BY <2>1, <2>4
       DEF Sound, Safe, ResumeTargetsOf, EstopLatchedOf, RemoteIsManualOf, MappingContext
  <2>5. ASSUME Safe(c) PROVE Moves(c, forgot)
    BY <1>2, <2>1, <2>5
       DEF Sound, Moves, EstopKept, EndKept, SceneKept, PhaseNamed, LifeStep, Kept,
           Runs, Interrupts, Shifts, Confirms, Ends, Acknowledges, Stays, Stops,
           Releases, Loses, MappingContext
  <2>. QED BY <2>2, <2>3, <2>4, <2>5 DEF Sound
<1>. QED BY <1>1, <1>2

\* A mapping work status that may confirm a resume.
LEMMA ReduceWorkStatusSound ==
    ASSUME NEW c \in MappingContext, NEW e \in MappingEvent, e.type = "DEVICE_WORK_STATUS"
    PROVE  Sound(c, reduceWorkStatus(c, e))
<1>. DEFINE resumePhase == PhaseOr(c.resumeTo, c.phase)
            resumed == [c EXCEPT !.state = "WORKING", !.phase = resumePhase,
                                 !.resumeTo = NoScene, !.error = Null, !.pausedReason = Null]
<1>1. resumePhase \in MappingPhase \cup {Null, Undefined}
  BY PhaseOrPhase
<1>2. Sound(c, baseReducer(c, e))
  BY BaseReducerSound DEF OwnEvents
<1>3. \/ reduceWorkStatus(c, e) = c
      \/ reduceWorkStatus(c, e) = baseReducer(c, e)
      \/ c.state = "RESUMING" /\ resumePhase # Null /\ reduceWorkStatus(c, e) = resumed
  BY ONLY TRUE DEF reduceWorkStatus
<1>. HIDE DEF resumePhase
<1>4. resumed \in MappingContext
  BY <1>1, Scenery
     DEF MappingContext, TASK_STATES, TaskErrors, PausedReasons, Undefined, Null
<1>5. ASSUME c.state = "RESUMING", Safe(c) PROVE Safe(resumed)
  BY <1>5, Scenery
     DEF Safe, ResumeTargetsOf, EstopLatchedOf, RemoteIsManualOf, HasNoScene,
         TERMINAL_TASK_STATES, TASK_STATES, MappingContext, Undefined, Null
<1>6. ASSUME c.state = "RESUMING", resumePhase # Null, Safe(c) PROVE Moves(c, resumed)
  BY <1>6
     DEF Moves, EstopKept, EndKept, SceneKept, PhaseNamed, LifeStep, Runs, Kept, Active,
         Interrupted, TERMINAL_TASK_STATES, MappingContext
<1>. QED BY <1>2, <1>3, <1>4, <1>5, <1>6, UnchangedSound DEF Sound

\* Leaving the manual scan for the automatic one.
LEMMA ExitManualSound ==
    ASSUME NEW c \in MappingContext
    PROVE  Sound(c, exitManual(c))
<1>. DEFINE rescanned == [c EXCEPT !.state = "WORKING", !.mode = "auto", !.error = Null,
                                   !.phase = "MAP_SCAN_BOUNDARY", !.resumeTo = NoScene]
<1>1. Sound(c, baseReducer(c, [type |-> "CMD_EXIT_MANUAL"]))
  BY BaseReducerSound DEF MappingEvent, CommandEvents, OwnEvents
<1>2. rescanned \in MappingContext
  BY Scenery, FieldValues DEF MappingContext
<1>3. ASSUME c.state = "REMOTE_CONTROL", Safe(c) PROVE Safe(rescanned)
  BY <1>3, Scenery
     DEF Safe, ResumeTargetsOf, EstopLatchedOf, RemoteIsManualOf, HasNoScene,
         TERMINAL_TASK_STATES, TASK_STATES, MappingContext, Undefined, Null
<1>4. ASSUME c.state = "REMOTE_CONTROL" PROVE Moves(c, rescanned)
  BY <1>4
     DEF Moves, EstopKept, EndKept, SceneKept, PhaseNamed, LifeStep, Runs, Kept, Active,
         Interrupted, TERMINAL_TASK_STATES, MappingContext
<1>. QED BY <1>1, <1>2, <1>3, <1>4 DEF exitManual, Sound

\* A recoverable error while working names the phase that failed.
LEMMA RecoverableErrorSound ==
    ASSUME NEW c \in MappingContext, NEW e \in MappingEvent, e.type = "DEVICE_ERROR"
    PROVE  Sound(c, reduceRecoverableError(c, e))
<1>. DEFINE failed(p) == [c EXCEPT !.error = "recoverable", !.phase = p]
<1>1. Sound(c, baseReducer(c, e))
  BY BaseReducerSound DEF OwnEvents
<1>2. ASSUME NEW p \in MappingPhase PROVE failed(p) \in MappingContext
  BY <1>2 DEF MappingContext, TaskErrors
<1>3. ASSUME NEW p, c.state = "WORKING", Safe(c) PROVE Safe(failed(p))
  BY <1>3
     DEF Safe, ResumeTargetsOf, EstopLatchedOf, RemoteIsManualOf, HasNoScene,
         TERMINAL_TASK_STATES, TASK_STATES, MappingContext, Undefined, Null
<1>4. ASSUME NEW p, c.state = "WORKING" PROVE Moves(c, failed(p))
  BY <1>4
     DEF Moves, EstopKept, EndKept, SceneKept, PhaseNamed, LifeStep, Stays, Kept,
         TERMINAL_TASK_STATES, MappingContext
<1>5. /\ "MAP_FOLLOW_BOUNDARY_FAILED" \in MappingPhase
      /\ "MAP_SCAN_BOUNDARY_FAILED" \in MappingPhase
  BY DEF MappingPhase, MAPPING_PHASES
<1>. QED BY <1>1, <1>2, <1>3, <1>4, <1>5 DEF reduceRecoverableError, Sound

\* The phase rules behind the start gate.
LEMMA SettlePhaseSound ==
    ASSUME NEW c \in MappingContext, NEW p \in MappingPhase
    PROVE  Sound(c, settlePhase(c, p))
<1>. DEFINE driven(x) == [c EXCEPT !.state = "REMOTE_CONTROL", !.mode = "remote",
                                   !.phase = p, !.error = Null, !.resumeTo = x]
            following == [c EXCEPT !.state = "REMOTE_CONTROL", !.phase = p,
                                   !.error = Null, !.resumeTo = FollowScene]
            closed    == [c EXCEPT !.state = "WORKING", !.mode = "auto", !.phase = p,
                                   !.resumeTo = NoScene, !.error = Null]
            completing == [c EXCEPT !.state = "WORKING", !.phase = p,
                                    !.resumeTo = NoScene, !.error = Null]
            saved == SceneOr(c.resumeTo, Scene("WORKING", c.phase))
<1>1. Sound(c, baseReducer(c, [type |-> "DEVICE_PHASE", phase |-> p]))
  BY BaseReducerSound DEF MappingEvent, DeviceEvents, OwnEvents
<1>2. saved \in Scenes /\ saved # NoScene
  BY SceneOfPhase, SceneOrScene
<1>3. ASSUME NEW x \in Scenes, x # NoScene, c.state = "PAUSED" PROVE Sound(c, driven(x))
  <2>1. driven(x) \in MappingContext
    BY <1>3, FieldValues DEF MappingContext
  <2>2. ASSUME Safe(c) PROVE Safe(driven(x)) /\ Moves(c, driven(x))
    BY <1>3, <2>2
       DEF Moves, EstopKept, EndKept, SceneKept, PhaseNamed, LifeStep, Shifts, Kept,
           Interrupted, Safe, ResumeTargetsOf, EstopLatchedOf, RemoteIsManualOf,
           HasNoScene, TERMINAL_TASK_STATES, TASK_STATES, MappingContext, Undefined, Null
  <2>. QED BY <2>1, <2>2 DEF Sound
<1>4. ASSUME c.mode = "remote", c.state \in OnTheWayStates PROVE Sound(c, following)
  <2>1. following \in MappingContext
    BY Scenery, FieldValues DEF MappingContext
  <2>2. ASSUME Safe(c) PROVE Safe(following) /\ Moves(c, following)
    BY <1>4, <2>2, Scenery
       DEF OnTheWayStates, Moves, EstopKept, EndKept, SceneKept, PhaseNamed, LifeStep,
           Interrupts, Shifts, Kept, Active, Interrupted, Safe, ResumeTargetsOf,
           EstopLatchedOf, RemoteIsManualOf, HasNoScene, TERMINAL_TASK_STATES,
           TASK_STATES, MappingContext, Undefined, Null
  <2>. QED BY <2>1, <2>2 DEF Sound
<1>5. ASSUME c.state = "REMOTE_CONTROL" PROVE Sound(c, closed)
  <2>1. closed \in MappingContext
    BY Scenery, FieldValues DEF MappingContext
  <2>2. ASSUME Safe(c) PROVE Safe(closed) /\ Moves(c, closed)
    BY <1>5, <2>2
       DEF Moves, EstopKept, EndKept, SceneKept, PhaseNamed, LifeStep, Runs, Kept, Active,
           Interrupted, Safe, ResumeTargetsOf, EstopLatchedOf, RemoteIsManualOf,
           HasNoScene, TERMINAL_TASK_STATES, TASK_STATES, MappingContext, Undefined, Null
  <2>. QED BY <2>1, <2>2 DEF Sound
<1>6. ASSUME p = "MAP_COMPLETING", c.state \in {"PAUSED", "RESUMING"}
      PROVE  Sound(c, completing)
  <2>1. completing \in MappingContext
    BY Scenery, FieldValues DEF MappingContext
  <2>2. ASSUME Safe(c) PROVE Safe(completing) /\ Moves(c, completing)
    BY <1>6, <2>2
       DEF Moves, EstopKept, EndKept, SceneKept, PhaseNamed, LifeStep, Runs, Kept, Active,
           Interrupted, Safe, ResumeTargetsOf, EstopLatchedOf, RemoteIsManualOf,
           HasNoScene, TERMINAL_TASK_STATES, TASK_STATES, MappingContext, Undefined, Null
  <2>. QED BY <2>1, <2>2 DEF Sound
<1>7. \/ settlePhase(c, p) = baseReducer(c, [type |-> "DEVICE_PHASE", phase |-> p])
      \/ c.state = "PAUSED" /\ settlePhase(c, p) = driven(saved)
      \/ /\ c.mode = "remote" /\ c.state \in OnTheWayStates
         /\ settlePhase(c, p) = following
      \/ c.state = "REMOTE_CONTROL" /\ settlePhase(c, p) = closed
      \/ /\ p = "MAP_COMPLETING" /\ c.state \in {"PAUSED", "RESUMING"}
         /\ settlePhase(c, p) = completing
  BY DEF settlePhase
<1>. HIDE DEF driven, following, closed, completing, saved
<1>. QED BY <1>1, <1>2, <1>3, <1>4, <1>5, <1>6, <1>7

\* All the phase rules.
LEMMA MappingPhaseSound ==
    ASSUME NEW c \in MappingContext, NEW p \in MappingPhase, NEW g \in BOOLEAN
    PROVE  Sound(c, mappingPhase(c, p, g))
<1>. DEFINE scanned == [c EXCEPT !.state = "REMOTE_CONTROL",
                                 !.phase = "MAP_SCAN_BOUNDARY_MANUAL",
                                 !.resumeTo = FollowScene, !.error = Null,
                                 !.manualScanStarted = FALSE]
<1>1. scanned \in MappingContext
  BY Scenery
     DEF MappingContext, TASK_STATES, TaskErrors, PausedReasons, Undefined, Null,
         MappingPhase, MAPPING_PHASES
<1>2. ASSUME entersManualScan(c, p), Safe(c) PROVE Safe(scanned) /\ Moves(c, scanned)
  BY <1>2, Scenery
     DEF entersManualScan, OnTheWayStates, Moves, EstopKept, EndKept, SceneKept,
         PhaseNamed, LifeStep, Interrupts, Shifts, Kept, Active, Interrupted, Safe,
         ResumeTargetsOf, EstopLatchedOf, RemoteIsManualOf, HasNoScene,
         TERMINAL_TASK_STATES, TASK_STATES, MappingContext, Undefined, Null
<1>3. MeantPhase(c, p) \in MappingPhase
  BY DEF MeantPhase, MappingPhase, MAPPING_PHASES
<1>. QED BY <1>1, <1>2, <1>3, SettlePhaseSound, UnchangedSound DEF mappingPhase, Sound

\* The reducer of the mapping session is sound, whatever the context and the event.
THEOREM MappingReducerSound ==
    ASSUME NEW c \in MappingContext, NEW e \in MappingEvent, NEW g \in BOOLEAN
    PROVE  Sound(c, mappingReducer(c, e, g))
<1>1. CASE e.type = "DEVICE_WORK_STATUS"
  BY <1>1, ReduceWorkStatusSound DEF mappingReducer
<1>2. CASE e.type \in {"LINK_DOWN", "LINK_NET_LOST"}
  <2>1. e \in LinkEvents
    BY <1>2
       DEF MappingEvent, CommandEvents, DeviceEvents, ReconcileEvents, LinkEvents,
           TimeoutEvents, SimulatorEvents, SimOnlyEvents
  <2>. QED BY <1>2, <2>1, LinkLostSound DEF mappingReducer
<1>3. CASE e.type = "RECONCILE_STARTED"
  BY <1>3, ReconcileStartedSound DEF mappingReducer
<1>4. CASE e.type = "RECONCILE_PAUSED"
  BY <1>4, ReconcilePausedSound DEF mappingReducer
<1>5. CASE e.type = "CMD_ADD_LAWN"
  BY <1>5, AddLawnSound DEF mappingReducer
<1>6. CASE e.type = "CMD_MANUAL_SCAN_STARTED"
  BY <1>6, StartManualScanSound DEF mappingReducer
<1>7. CASE e.type = "CMD_SWITCH_MANUAL"
  BY <1>7, SwitchManualSound DEF mappingReducer
<1>8. CASE e.type = "CMD_EXIT_MANUAL"
  BY <1>8, ExitManualSound DEF mappingReducer
<1>9. CASE e.type = "DEVICE_PHASE"
  BY <1>9, MappingPhaseSound, EventFields DEF mappingReducer
<1>10. CASE e.type = "DEVICE_ERROR"
  BY <1>10, RecoverableErrorSound, BaseReducerSound DEF mappingReducer, OwnEvents
<1>11. CASE e.type \notin OwnEvents \cup
               {"DEVICE_WORK_STATUS", "LINK_DOWN", "LINK_NET_LOST", "CMD_EXIT_MANUAL",
                "DEVICE_PHASE", "DEVICE_ERROR"}
  BY <1>11, BaseReducerSound DEF mappingReducer, OwnEvents
<1>. QED BY <1>1, <1>2, <1>3, <1>4, <1>5, <1>6, <1>7, <1>8, <1>9, <1>10, <1>11
            DEF OwnEvents

=============================================================================
