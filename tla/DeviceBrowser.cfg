\* Three devices: one in front of and one behind the one that is chosen.
SPECIFICATION Spec
CONSTANTS
    Names = {den, attic, cellar}
    Choose = Choose
    Other = Other
    Typed = Typed
    NoAddress = NoAddress
    Nil = Nil
    MaxChanges = 5
    MaxPicks = 2
SYMMETRY Alike
INVARIANTS TypeOK PickedIsShown CrashNeedsRemoval TitleTellsHost ListCurrent
