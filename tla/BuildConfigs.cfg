SPECIFICATION Spec
CONSTANTS
    core = core
    logic = logic
    tests = tests
    b1 = b1
    b2 = b2
    Nil = Nil
    Projects = {core, logic, tests}
    Builders = {b1, b2}
    Roots <- RootTests
    Circular <- NoneCircular
    Configs <- Changing
    SetupBuildTasks <- SetupBuildTasksOf
    StopBuildOnErrors = FALSE
    Incremental = {core, logic}
    Built = {tests}
    MaxSourceEdits = 1
    MaxConfigEdits = 3
    MaxEdits = 3
    EditWhileBuilding = FALSE
SYMMETRY Symmetry
INVARIANT Fresh
INVARIANT ConfigFresh
CHECK_DEADLOCK FALSE
