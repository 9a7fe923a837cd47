----------------------------- MODULE MCMowingRobot -----------------------------
(* Instances of the mowing robot for TLC.                                       *)
EXTENDS MowingRobot

Frame(work, sub) == [work |-> work, sub |-> sub]

\* Mowing, the dock, a stop and the end; the frames of the sequence come on top.
MCFrames ==
    { Frame("mowing", "mowing"), Frame("return_dock", "failed"), Frame("charging", "none"),
      Frame("emergency_stop", "none"), Frame("idle", "none") }

\* A reset, accepted or not, and a lost link.
MCRawEvents == { Command("CMD_RESET"), Command("LINK_NET_LOST") }
=============================================================================
