SPECIFICATION Spec
CONSTANTS
    core = core
    logic = logic
    tests = tests
    b1 = b1
    b2 = b2
    Nil = Nil
    Projects = {core, logic, tests}
    Builders = {b1, b2}
    Roots <- RootTests
    Circular <- NoneCircular
    Configs <- Missing
    SetupBuildTasks <- SetupBuildTasksOf
    StopBuildOnErrors = FALSE
    Incremental = {core, logic}
    Built = {}
    MaxSourceEdits = 1
    MaxConfigEdits = 0
    MaxEdits = 1
    EditWhileBuilding = FALSE
SYMMETRY Symmetry
INVARIANT ClosesOnce
CHECK_DEADLOCK FALSE
