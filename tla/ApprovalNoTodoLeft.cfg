CONSTANTS
    ann = ann
    bob = bob
    manager = manager
    Users <- MCUsers
    Requests = {r1}
    Titles <- MCTitles
    MaxTodoCalls = 1
    Calls = {c1, c2}
    Roles <- MCRoles
    InitialMembers <- MCMembers
    Admins = {ann}
    Creators = {bob}
    Deciders = {ann, bob}
    Managers = {}
    Cancellers = {}
    MaxAdminChanges = 0
    None = None
SPECIFICATION Spec
INVARIANTS NoTodoLeft
CHECK_DEADLOCK FALSE
