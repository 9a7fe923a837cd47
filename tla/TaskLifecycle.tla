--------------------------- MODULE TaskLifecycle ---------------------------
(* What a session of the mower promises to the operator, whatever its frames, *)
(* commands and link losses: the life of one task, told without phases,       *)
(* screens or countdowns.  A task runs (`active'); it is set aside            *)
(* (`interrupted': a pause, remote control, a recharge, a resume that is not  *)
(* confirmed yet); the stop button takes it over (`stopped'); it ends.  While *)
(* it is set aside or stopped the scene to go back to may be kept, and only   *)
(* then.                                                                      *)
(*                                                                            *)
(* `lost' is the session whose context an event has replaced (the default     *)
(* branch of the reducer): it can only be stopped, or ended.                  *)
EXTENDS Naturals

VARIABLES
    stage,      \* idle, active, interrupted, stopped, ended, lost
    button,     \* the stop button is pressed
    kept        \* a scene to resume is kept

vars == << stage, button, kept >>

Stages == { "idle", "active", "interrupted", "stopped", "ended", "lost" }

TypeOK ==
    /\ stage \in Stages
    /\ button \in BOOLEAN
    /\ kept \in BOOLEAN

Init ==
    /\ stage = "idle"
    /\ button = FALSE
    /\ kept = FALSE

-----------------------------------------------------------------------------

\* A task starts, or the scene of an interrupted one is entered again; either way
\* the scene is used up.
Run ==
    /\ stage \in {"idle", "interrupted"}
    /\ stage' = "active"
    /\ kept' = FALSE
    /\ UNCHANGED button

\* A running task is set aside with its scene.  An idle session is set aside too: by
\* a task found in the task list (which has a scene), or by a recharge on the dock.
Interrupt ==
    /\ stage \in {"idle", "active"}
    /\ stage' = "interrupted"
    /\ stage = "active" => kept'
    /\ kept' \in BOOLEAN
    /\ UNCHANGED button

\* One interruption follows another.  The scene is never given up on the way; the
\* recharge that had none becomes itself a scene when it is interrupted.
Shift ==
    /\ stage = "interrupted"
    /\ kept' \in (IF kept THEN {TRUE} ELSE BOOLEAN)
    /\ UNCHANGED << stage, button >>

\* The stop button: the only way to be stopped, from everywhere but the end.  The
\* button is pressed again while it is: nothing changes.  No scene is lost.
Stop ==
    /\ stage # "ended"
    /\ stage' = "stopped"
    /\ button' = TRUE
    /\ kept => kept'
    /\ kept' \in (IF stage \in {"active", "interrupted"} THEN BOOLEAN ELSE {kept})

\* The button is released: the session stays stopped.
Release ==
    /\ stage = "stopped"
    /\ button' = FALSE
    /\ UNCHANGED << stage, kept >>

\* The operator confirms, with the button released: back to the scene, or idle.
Confirm ==
    /\ stage = "stopped"
    /\ ~button
    /\ stage' = IF kept THEN "interrupted" ELSE "idle"
    /\ UNCHANGED << button, kept >>

\* The task ends: complete, cancelled or failed.  A stopped one cannot end.
End ==
    /\ stage \notin {"stopped", "ended"}
    /\ stage' = "ended"
    /\ kept' = FALSE
    /\ UNCHANGED button

\* The result is acknowledged.
Acknowledge ==
    /\ stage = "ended"
    /\ stage' = "idle"
    /\ UNCHANGED << button, kept >>

\* An event takes the place of the context.
Lose ==
    /\ stage \in {"idle", "active", "interrupted"}
    /\ stage' = "lost"
    /\ button' = FALSE
    /\ kept' = FALSE

Next ==
    \/ Run
    \/ Interrupt
    \/ Shift
    \/ Stop
    \/ Release
    \/ Confirm
    \/ End
    \/ Acknowledge
    \/ Lose

Spec == Init /\ [][Next]_vars
=============================================================================
