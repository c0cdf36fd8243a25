\* The comment on the characters that hold shift.
SPECIFICATION Spec
CONSTANT Inputs <- MCSymbols
INVARIANTS HoldsShiftAsCommented
