SPECIFICATION PlanningSpec
CONSTANTS
    p1 = p1
    p2 = p2
    Processes = {p1, p2}
    Installations <- MCInstallations
    Shapes <- MCShapes
    Links <- MCLinks
    Persons <- MCPersons
    Leaves <- MCLeaves
    Changes <- MCChanges
    MaxTasks = 3
    MaxScenarios = 2
    MaxEvents = 3
SYMMETRY Twins
INVARIANTS
    GraphStaysAcyclic
    PlansAreFeasible
    SlackIsHonest
CHECK_DEADLOCK FALSE
