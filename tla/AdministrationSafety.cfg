SPECIFICATION AdministrationSpec
CONSTANTS
    rAdmin = rAdmin
    rUser = rUser
    rNew = rNew
    pSystem = pSystem
    pLegacy = pLegacy
    pOwn = pOwn
    pNew = pNew
    boot = boot
    boot2 = boot2
    ann = ann
    cid = cid
    statusType = statusType
    ownType = ownType
    onItem = onItem
    ownItem = ownItem
    newItem = newItem
    mailConfig = mailConfig
    siteConfig = siteConfig
    authMenu = authMenu
    usersMenu = usersMenu
    menuA = menuA
    menuB = menuB
    menuC = menuC
    newMenu = newMenu
    viewUsers = viewUsers
    useOwn = useOwn
    one = one
    two = two
    None = None
    Nobody = Nobody
    NoMenu = NoMenu
    RoleIds = {rAdmin, rUser, rNew}
    PermissionIds = {pSystem, pLegacy, pOwn, pNew}
    UserIds = {boot, boot2, ann, cid}
    BootstrapIds = {boot, boot2}
    RoleCodes = {"admin", "user", "own"}
    Admin = "admin"
    Default = "user"
    PermissionCodes = {"view", "export", "legacy", "own"}
    PermissionSeeds <- MCPermissionSeeds
    RoleSeeds <- MCRoleSeeds
    Managed = {"view", "export"}
    Legacy = "legacy"
    Successor = "export"
    Elsewhere = "elsewhere"
    InitialRoles <- MCRoles
    InitialPermissions <- MCPermissions
    InitialUsers <- MCUsers
    Endpoint = "view"
    Callers = {one, two}
    MaxWork = 2
    DictTypeIds = {statusType, ownType}
    DictItemIds = {onItem, ownItem, newItem}
    ConfigIds = {mailConfig, siteConfig}
    TypeCodes = {"status", "mine"}
    ItemCodes = {"on", "off", "own"}
    Values = {"0", "1", "2"}
    ConfigKeys = {"site", "mail"}
    DictSeeds <- MCDictSeeds
    ConfigSeeds <- MCConfigSeeds
    InitialTypes <- MCTypes
    InitialItems <- MCItems
    InitialConfigs <- MCConfigs
    CatalogCallers = {one, two}
    MaxCatalogWork = 3
    MenuIds = {authMenu, usersMenu, menuA, menuB, menuC, newMenu}
    MenuPermissions = {viewUsers, useOwn}
    MenuCodes = {"auth", "auth.users", "users", "a", "b", "c", "new"}
    Paths = {"/auth", "/users", "/logs", "/own"}
    MenuSeeds <- MCMenuSeeds
    ManagedMenus = {"auth", "auth.users"}
    HiddenMenus = {}
    LegacyPaths = {"/logs"}
    LegacyMenus = {"c"}
    InitialMenus <- MCMenus
    InitialHome <- MCHome
    Requested <- MCRequested
    MenuCallers = {one, two}
    MaxMenuWork = 2
SYMMETRY AdministrationSymmetry
INVARIANTS
    AccessTypeOK
    SystemComplete
    AdminRoleHeld
    CatalogTypeOK
    SeededEntriesServed
    MenuTypeOK
    SystemMenusShown
    CollectionEnds
PROPERTIES
    NoDisabledGrant
    LegacyLinksKept
    ConfigValuesKept
    NothingLeftBehind
CHECK_DEADLOCK FALSE
