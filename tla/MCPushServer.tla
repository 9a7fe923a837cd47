---------------------------- MODULE MCPushServer ----------------------------
(* A client that comes back, a robot that prepares, maps and charges.                     *)
EXTENDS PushServer

MCSessions ==
    { Session("PREPARING", Null), Session("WORKING", "MAP_SCAN_BOUNDARY"),
      Session("RECHARGING", Null) }

Slow == [latency |-> 1, reorderWindow |-> 0, drops |-> FALSE, wsDelays |-> {0}]
Lossy == [latency |-> 1, reorderWindow |-> 0, drops |-> TRUE, wsDelays |-> {0}]

\* The kinds do not influence one another: the product is not needed.
MCWatches == { {"frame"}, {"status", "task"} }

MCConfigs == {Calm, Slow, Lossy}
=============================================================================
