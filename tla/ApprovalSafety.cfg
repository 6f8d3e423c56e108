CONSTANTS
    ann = ann
    bob = bob
    manager = manager
    Users <- MCUsers
    Requests = {r1, r2}
    Titles <- MCTitles
    MaxTodoCalls = 1
    Calls = {c1, c2, c3}
    Roles <- MCRoles
    InitialMembers <- MCMembers
    Admins = {ann}
    Creators = {bob}
    Deciders = {ann, bob}
    Managers = {}
    Cancellers = {}
    MaxAdminChanges = 0
    None = None
SPECIFICATION Spec
SYMMETRY Interchangeable
INVARIANTS
    TypeOK
    HistoryAgrees
    LeftoverExplained
    EveryVerdictReported
PROPERTIES
    PendingTodosUntouched
    RegisterImplemented
    SettledIsFinal
CHECK_DEADLOCK FALSE
VIEW Read
