\* A login or a refresh in flight while its session is ended.
SPECIFICATION Spec
CONSTANTS
    Users = {alice, wendy}
    WechatUsers = {wendy}
    Calls = {c1, c2, c3}
    Admins = {root, alice}
    Passwords = {p1, p2}
    MaxAdminActs = 0
    None = None
INVARIANTS RevocationEndsSessions
CHECK_DEADLOCK FALSE
