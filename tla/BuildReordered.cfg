SPECIFICATION FairSpec
CONSTANTS
    core = core
    logic = logic
    tests = tests
    b1 = b1
    b2 = b2
    Nil = Nil
    Projects = {core, logic, tests}
    Builders = {b1, b2}
    Roots <- RootTests
    Circular <- NoneCircular
    Configs <- Moving
    SetupBuildTasks <- SetupBuildTasksOf
    StopBuildOnErrors = FALSE
    Incremental = {core, logic}
    Built = {}
    MaxSourceEdits = 0
    MaxConfigEdits = 1
    MaxEdits = 1
    EditWhileBuilding = FALSE
PROPERTY AlwaysEnds
CHECK_DEADLOCK FALSE
