---------------------------- MODULE MCMappingRobot ----------------------------
(* Instances of the mapping robot for TLC.                                      *)
EXTENDS MappingRobot

Frame(work, sub) == [work |-> work, sub |-> sub]

\* The frames of a mapping run, an emergency stop, and the end of the work.  That a
\* boundary is closed (map_edge_finish) the robot tells itself, after EDGE_CLOSE.
MCFrames ==
    { Frame("mapping", sub) : sub \in
        {"leave_dock", "find_boundary", "edge_mapping", "expand_area"} } \cup
    { Frame("emergency_stop", "none"), Frame("idle", "none") }

\* The frames that start a timer; the others the robot's own timers push.
MCTimerFrames == { Frame("mapping", sub) : sub \in {"leave_dock", "expand_area"} }

MCResetEvents == { Command("CMD_RESET") }

\* A reset, and the grant without which the user cannot take over.
MCRawEvents ==
    { Command("CMD_RESET"),
      [type |-> "DEVICE_CAPABILITIES", canSwitchManual |-> TRUE, canSwitchAuto |-> TRUE] }
=============================================================================
