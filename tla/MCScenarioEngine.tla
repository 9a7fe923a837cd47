-------------------------- MODULE MCScenarioEngine --------------------------
(* Five scripts after the ones in scenarios/: one that starts a session and    *)
(* waits for it with an included script, an endless stream, one that pauses   *)
(* itself, one that loops without a wait, and one that includes itself.       *)
EXTENDS ScenarioEngine, Functions

Emit(event) == [op |-> "emit", event |-> event]
Wait(slices) == [op |-> "wait", slices |-> slices]
Until(state, slices) == [op |-> "until", state |-> state, slices |-> slices]
Loop(rounds, steps) == [op |-> "loop", rounds |-> rounds, steps |-> steps]
Include(name) == [op |-> "include", name |-> name]
Expect(state) == [op |-> "expect", state |-> state]

Start == [type |-> "CMD_START", mode |-> "auto"]
Undocked == [type |-> "DEVICE_UNDOCKED"]
Scan == [type |-> "DEVICE_PHASE", phase |-> "MAP_SCAN_BOUNDARY"]
Cancel == [type |-> "CMD_CANCEL"]

Keep == [state |-> Null, phase |-> Null]
Idle == [state |-> "IDLE", phase |-> Null]

Script(fixtures, set, setup, steps) ==
    [fixtures |-> fixtures, dataset |-> set, setup |-> setup, steps |-> steps]

MCScripts ==
    [ happy  |-> Script({"selfCheck"}, "happy", Idle,
                   << Emit(Start), Include("undock"), Until("WORKING", 2),
                      Loop(2, << Emit(Scan), Wait(1) >>), Emit(Cancel), Wait(1) >>),
      undock |-> Script({"mapList"}, Null, Keep,
                   << Expect("PREPARING"), Wait(1), Emit(Undocked), Emit(Scan) >>),
      stream |-> Script({}, "happy", Idle, << Loop(Forever, << Emit(Scan), Wait(1) >>) >>),
      hold   |-> Script({}, Null, Idle,
                   << Emit([type |-> "CMD_PAUSE"]), Wait(1), Emit([type |-> "CMD_RESUME"]) >>),
      spin   |-> Script({}, Null, Keep, << Loop(Forever, << Emit(Scan) >>) >>),
      again  |-> Script({"selfCheck"}, Null, Keep, << Wait(1), Include("again") >>),
      lost   |-> Script({"mapList"}, "unknown", Idle, << Wait(1) >>) ]

\* The steps of the scripts and of their loops (a loop of theirs holds none).
MCBodies ==
    LET own == { MCScripts[name].steps : name \in DOMAIN MCScripts }
        loops == { s \in UNION { Range(body) : body \in own } : s.op = "loop" }
    IN  own \cup { loop.steps : loop \in loops }

MCEndless == {"stream", "spin"}
MCDatasets == {"happy", "plain"}
MCAppEvents == { [type |-> "CMD_PAUSE"], [type |-> "CMD_RESUME"] }
=============================================================================
