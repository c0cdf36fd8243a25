\* Every key, and every short text of escapes, broken escapes and equal signs.
SPECIFICATION Spec
CONSTANT Inputs <- MCInputs
INVARIANTS TypeOK ArrivesUnlessTroubled ShowsPrefix
