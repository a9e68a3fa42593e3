CONSTANTS
    Artifacts = {"a1", "a2"}
    Contents <- MCContents
SPECIFICATION Spec
INVARIANTS RedIsExact MergeLosesNothing
CHECK_DEADLOCK FALSE
