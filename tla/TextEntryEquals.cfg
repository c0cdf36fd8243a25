\* The help text on enterText.
SPECIFICATION Spec
CONSTANT Inputs <- MCEquals
INVARIANTS SendsText
