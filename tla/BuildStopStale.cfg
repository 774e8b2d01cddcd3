SPECIFICATION Spec
CONSTANTS
    core = core
    logic = logic
    tests = tests
    b1 = b1
    b2 = b2
    Nil = Nil
    Projects = {core, logic, tests}
    Builders = {b1, b2}
    Roots <- RootsLogicTests
    Circular <- NoneCircular
    Configs <- Fork
    SetupBuildTasks <- SetupBuildTasksOf
    StopBuildOnErrors = TRUE
    Incremental = {core}
    Built = {}
    MaxSourceEdits = 2
    MaxConfigEdits = 0
    MaxEdits = 2
    EditWhileBuilding = FALSE
SYMMETRY Symmetry
INVARIANT Fresh
CHECK_DEADLOCK FALSE
