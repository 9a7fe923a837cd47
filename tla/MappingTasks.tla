----------------------------- MODULE MappingTasks -----------------------------
(* The task records of MappingTaskService.ts for the one serial number of the   *)
(* simulated robot: the sequence of the statuses of its tasks, oldest first.    *)
(* The last one is the active one; the older ones can still be addressed.       *)
EXTENDS TaskFSM, Sequences, Naturals

TASK_STATUSES == {"ON_THE_WAY", "PAUSE", "COMPLETE", "CANCEL", "FAILED"}

createTask(tasks) == Append(tasks, "ON_THE_WAY")

\* The status a session's state stands for; the other states leave it alone.
statusFor(state, status) ==
    CASE state \in {"WORKING", "RESUMING", "PREPARING", "UNDOCKING", "REMOTE_CONTROL"} ->
           "ON_THE_WAY"
      [] state = "PAUSED"    -> "PAUSE"
      [] state = "COMPLETED" -> "COMPLETE"
      [] state = "CANCELLED" -> "CANCEL"
      [] state = "ERRORED"   -> "FAILED"
      [] OTHER -> status

syncFromContext(tasks, ctx) ==
    IF tasks = <<>> THEN tasks ELSE [tasks EXCEPT ![Len(tasks)] = statusFor(ctx.state, @)]
=============================================================================
