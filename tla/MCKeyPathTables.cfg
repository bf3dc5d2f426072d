SPECIFICATION Spec
CONSTANTS
    Keys = {"a", "bb", "ccc"}
    Length <- LengthOf
    BVN_PATH_MAX_DEPTH = 2
    BVN_PATH_MAX_BYTES = 6
    BVN_PATH_MAX_KEY = 2
    NoKey = "none"
    MaxOpen = 4
INVARIANTS NeverSilentlyWrong
