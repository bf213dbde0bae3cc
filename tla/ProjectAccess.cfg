SPECIFICATION Spec
CONSTANTS
    Humans = {ann, ben}
    Groups = {g1}
    Applications = {bot}
    Project = project
    ProjectActions = {manage, make}
    GroupActions = {document}
    ApplicationActions = {key}
    ManageMembers = manage
    CreateGroups = make
    CreateApplications = make
    MaxRevision = 7
    Idle = Idle
SYMMETRY Symmetry
INVARIANTS
    NothingOrphaned
    DecisionsStayTrue
PROPERTIES
    HandoverFindsSomeone
CHECK_DEADLOCK FALSE
