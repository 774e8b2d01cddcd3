SPECIFICATION FairSpec
CONSTANTS
    core = core
    logic = logic
    tests = tests
    b1 = b1
    b2 = b2
    Nil = Nil
    Projects = {core, logic, tests}
    Builders = {b1, b2}
    Roots <- RootTests
    Circular <- CircularLogicTests
    Configs <- Anything
    SetupBuildTasks <- SetupBuildTasksOf
    StopBuildOnErrors = TRUE
    Incremental = {core, logic}
    Built = {logic, tests}
    MaxSourceEdits = 1
    MaxConfigEdits = 1
    MaxEdits = 1
    EditWhileBuilding = FALSE
INVARIANT OrderRight
INVARIANT ReportedInOrder
INVARIANT SkipJustified
PROPERTY BuildEnds
CHECK_DEADLOCK FALSE
