---------------------------- MODULE MappingTelemetry ----------------------------
(* The settle signals of MappingTelemetry.ts: the start point (needed by         *)
(* EDGE_START) and the end point (needed by EDGE_CLOSE) become legitimate a while *)
(* after the robot enters the phase they belong to.  Left out: the confirmed      *)
(* point and the passage checkpoints, coordinates that no guard reads.            *)
EXTENDS TaskFSM

FOLLOW_PHASES == {"MAP_FOLLOW_BOUNDARY", "MAP_FOLLOW_BOUNDARY_MANUAL"}

\* A timer is a flag: it is set while the callback is scheduled.
resetTelemetry ==
    [ legitimateStartingPoint |-> FALSE, legitimateEndPoint |-> FALSE,
      startSettleTimer |-> FALSE, endSettleTimer |-> FALSE, lastPhase |-> Null ]

\* (Mutant: other phases leave a scheduled callback alone.)
syncWithPhaseLeaky(t, phase) ==
    CASE phase # t.lastPhase /\ phase = "MAP_SCAN_BOUNDARY_MANUAL" ->
           [t EXCEPT !.lastPhase = phase, !.startSettleTimer = TRUE]
      [] phase # t.lastPhase /\ phase \in FOLLOW_PHASES ->
           [t EXCEPT !.lastPhase = phase, !.endSettleTimer = TRUE]
      [] OTHER -> [t EXCEPT !.lastPhase = phase]

\* (Mutant: entering a boundary keeps the signal of the last one.)
syncWithPhaseStale(t, phase) ==
    CASE phase = t.lastPhase -> t
      [] phase # t.lastPhase /\ phase = "MAP_SCAN_BOUNDARY_MANUAL" ->
           [t EXCEPT !.lastPhase = phase, !.startSettleTimer = TRUE,
                     !.endSettleTimer = FALSE]
      [] phase # t.lastPhase /\ phase \in FOLLOW_PHASES ->
           [t EXCEPT !.lastPhase = phase, !.startSettleTimer = FALSE,
                     !.endSettleTimer = TRUE]
      [] OTHER -> [resetTelemetry EXCEPT !.lastPhase = phase]

\* A phase that is already known changes nothing, not even a running timer.
syncWithPhase(t, phase) ==
    CASE phase = t.lastPhase -> t
      [] phase # t.lastPhase /\ phase = "MAP_SCAN_BOUNDARY_MANUAL" ->
           [t EXCEPT !.lastPhase = phase, !.startSettleTimer = TRUE,
                     !.endSettleTimer = FALSE, !.legitimateStartingPoint = FALSE]
      [] phase # t.lastPhase /\ phase \in FOLLOW_PHASES ->
           [t EXCEPT !.lastPhase = phase, !.startSettleTimer = FALSE,
                     !.endSettleTimer = TRUE, !.legitimateEndPoint = FALSE]
      [] OTHER -> [resetTelemetry EXCEPT !.lastPhase = phase]

startSettled(t) == [t EXCEPT !.startSettleTimer = FALSE, !.legitimateStartingPoint = TRUE]
endSettled(t)   == [t EXCEPT !.endSettleTimer = FALSE, !.legitimateEndPoint = TRUE]

\* The signal is consumed by the action that it allows.
confirmEdgeStart(t)     == [t EXCEPT !.legitimateStartingPoint = FALSE]
confirmRegionClosure(t) == [t EXCEPT !.legitimateEndPoint = FALSE]
=============================================================================
