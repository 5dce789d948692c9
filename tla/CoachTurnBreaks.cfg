\* A turn ends: its last states have no successor.
SPECIFICATION Spec
INVARIANTS NoTurnBreaksOff
CHECK_DEADLOCK FALSE
