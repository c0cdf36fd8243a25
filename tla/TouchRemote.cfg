\* Two directions, one other button and select; four touches.
SPECIFICATION FairSpec
CONSTANTS
    Directions <- MCDirections
    Taps <- MCTaps
    Nil = Nil
    MaxTouches = 4
    MaxQueue = 3
INVARIANTS TypeOK RepeatsHeld TimersAccounted SwallowsOncePerHold
PROPERTIES QuietAfterLift
