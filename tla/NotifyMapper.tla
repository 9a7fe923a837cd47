----------------------------- MODULE NotifyMapper -----------------------------
(* What a NOTIFY_RATEL_STATUS frame means to a session: the status table        *)
(* (BackendPhaseMapper.ts) and the order in which EventAdapter.ts turns a frame *)
(* into events.  A frame is [work, sub]; its optional battery level is left out. *)
\* acceptsWorkStatusForSource for `ws', the only source of the simulator's frames:
\* mapping_completed is a legacy status that produces no event of its own.
CLOUD_WORK_STATUSES ==
    {"idle", "mowing", "charging", "mapping", "return_dock", "emergency_stop", "error"}

\* The rules of the table: `skip', `undocked', or the name of a phase.
MAPPING_SUB ==
    [ precondition     |-> "skip",
      complete         |-> "skip",
      leave_dock       |-> "undocked",
      find_boundary    |-> "MAP_SCAN_BOUNDARY",
      edge_mapping     |-> "MAP_FOLLOW_BOUNDARY",
      map_edge_finish  |-> "MAP_BOUNDARY_DONE",
      map_completing   |-> "skip",
      upload_map       |-> "MAP_UPLOADING",
      expand_area      |-> "MAP_COMPLETING",
      undocking_failed |-> "MAP_UNDOCKING_FAILED",
      return_dock      |-> "returning" ]

MOWING_SUB ==
    [ map_check   |-> "skip",
      complete    |-> "skip",
      leave_dock  |-> "undocked",
      mowing      |-> "MOW_RUNNING",
      edge        |-> "MOW_RUNNING",
      return_dock |-> "returning" ]

RETURN_DOCK_SUB ==
    [ go_to_pre_dock_point |-> "RETURN_PRE_DOCK",
      seek_charger_dock    |-> "RETURN_SEEK_CHARGER",
      enter_dock           |-> "RETURN_ENTER_DOCK",
      at_dock              |-> "RETURN_AT_DOCK",
      failed               |-> "RETURN_DOCK_FAILED",
      complete             |-> "skip" ]

\* The idle row and the rest of the charging row skip everything they know.
CHARGING_SUB == [battery_full |-> "charged"]

SUB_STATUS_TABLE ==
    [ mapping |-> MAPPING_SUB, mapping_completed |-> MAPPING_SUB, mowing |-> MOWING_SUB,
      return_dock |-> RETURN_DOCK_SUB, charging |-> CHARGING_SUB ]

\* `none', the empty cell and an unknown cell produce no event alike.
mapBackendSubStatus(work, sub) ==
    IF work \in DOMAIN SUB_STATUS_TABLE /\ sub \in DOMAIN SUB_STATUS_TABLE[work]
    THEN SUB_STATUS_TABLE[work][sub]
    ELSE "skip"

\* A frame means at most one event for its status, and then at most one for its
\* phase; a part that means nothing is NoEvent.
NoEvent == [type |-> "none"]

statusEvent(work) ==
    IF work \in CLOUD_WORK_STATUSES
    THEN [type |-> "DEVICE_WORK_STATUS", status |-> work]
    ELSE NoEvent

phaseEvent(work, sub) ==
    LET rule == mapBackendSubStatus(work, sub) IN
    CASE rule = "skip"     -> NoEvent
      [] rule = "undocked" -> [type |-> "DEVICE_UNDOCKED"]
      [] OTHER             -> [type |-> "DEVICE_PHASE", phase |-> rule]
=============================================================================
