SPECIFICATION ServicesSpec
CONSTANTS
    one = one
    two = two
    tick = tick
    tock = tock
    picture = picture
    remover = remover
    NoPath = NoPath
    NoAccount = NoAccount
    Uploads = {one, two}
    ImageIds = {picture}
    Removals = {remover}
    Times = {tick, tock}
    Requests = {one, two}
    Attempts = 2
    MaxRuns = 2
    Clients = {one, two}
    Emails = {"ann", "Ann", "bob"}
    Phones = {"1", "2"}
    Lower <- MCLower
SYMMETRY ServicesSymmetry
INVARIANTS
    StorageTypeOK
    FilesAgree
    LocationIsOwn
    AuditTypeOK
    LocationsFilled
    RegistrationTypeOK
    SignupKept
    OneAccountPerAddress
    DemoRestored
CHECK_DEADLOCK FALSE
