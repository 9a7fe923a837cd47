SPECIFICATION Spec
CONSTANT GateRequired = FALSE
PROPERTY SimulatorOnlyIsNoOp
