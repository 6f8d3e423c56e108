\* A login that starts after the user was disabled.
SPECIFICATION Spec
CONSTANTS
    Users = {alice, wendy}
    WechatUsers = {wendy}
    Calls = {c1, c2, c3}
    Admins = {root, alice}
    Passwords = {p1, p2}
    MaxAdminActs = 1
    None = None
PROPERTIES DisabledCannotLogIn
CHECK_DEADLOCK FALSE
