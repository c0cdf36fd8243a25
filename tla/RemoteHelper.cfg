\* Two processes, a hold, a tap of the same key, another hold and an unknown command;
\* texts below and above DeleteCount; one focus change, one restart.
SPECIFICATION Spec
CONSTANTS
    Apps = {tv, search}
    NavEvents <- MCNavEvents
    Texts <- MCTexts
    DeleteCount = 2
    MaxPosts = 3
    MaxFocusChanges = 1
    MaxRestarts = 1
INVARIANTS TypeOK PressBalance NoStuckKey FreshEntryIsClean InOrder
PROPERTIES SerialEntryReplaces PipePromise
