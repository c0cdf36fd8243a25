\* The comment's "before entering any new text", with one process and one-character texts:
\* only two requests within half a second can break it.
SPECIFICATION Spec
CONSTANTS
    Apps = {tv}
    NavEvents <- MCNoEvents
    Texts <- MCOneText
    DeleteCount = 50
    MaxPosts = 3
    MaxFocusChanges = 0
    MaxRestarts = 0
PROPERTIES ClearsBeforeNewText
