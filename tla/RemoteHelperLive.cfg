\* Liveness under the fairness of the main run loop: a hold and a tap of one key, one text.
SPECIFICATION FairSpec
CONSTANTS
    Apps = {tv, search}
    NavEvents <- MCTwoEvents
    Texts <- MCOneText
    DeleteCount = 2
    MaxPosts = 3
    MaxFocusChanges = 1
    MaxRestarts = 1
PROPERTIES HoldsEnd EveryCommandEnds
