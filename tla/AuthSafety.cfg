\* Three calls and two administration acts on a password user and a WeChat user.
SPECIFICATION Spec
CONSTANTS
    Users = {alice, wendy}
    WechatUsers = {wendy}
    Calls = {c1, c2, c3}
    Admins = {root, alice}
    Passwords = {p1, p2}
    MaxAdminActs = 2
    None = None
SYMMETRY Interchangeable
INVARIANTS TypeOK RevokedStaysEnded
PROPERTIES SessionImplemented NoSessionWhileDisabled
CHECK_DEADLOCK FALSE
VIEW Read
