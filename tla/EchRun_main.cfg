CONSTANT MaxRestarts = 2
SPECIFICATION Spec
INVARIANTS GreenMeansResults UsesOwnFixture FixtureUpDuringSuites NoContainerLeft
PROPERTIES CtFailureEndsRed ScriptEnds
CHECK_DEADLOCK FALSE
