SPECIFICATION Spec
CONSTANTS
    Missing = Missing
    Torn = Torn
    MaxStores = 2
    MaxKeyrings = 2
    MaxFaults = 1
    Commands = {"init-keys", "encrypt", "decrypt", "import"}
    Presses = {"TAB_MOVE", "OPEN_EDIT", "TYPE", "CANCEL", "SUBMIT", "CHANGE", "CA_PICK", "USERS_INPUT", "USERS_REMOVE", "USERS_SUBMIT", "USERS_CONFIRM", "USERS_CANCEL", "SETUP_START", "SETUP_SECRETS", "REVEAL_OPEN", "REVEAL_CONFIRM", "QUIT", "EXPORT", "UPDATE_ENVS", "PUSH_OPEN", "PUSH_CONFIRM", "UNDO", "NUKE_OPEN", "NUKE_CANCEL", "NUKE_SUBMIT"}
    Ahead = {"CHANGE", "TAB_MOVE", "UNDO", "QUIT", "NUKE_SUBMIT"}
    MaxPresses = 1
    MaxWalk = 1
INVARIANTS
    TypeOK
    ShownIsSaved
    FreshIsFresh
    NothingHangs
PROPERTIES
    NukeAllOrNothing
    KeepsStore
CHECK_DEADLOCK FALSE
