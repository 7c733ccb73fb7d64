SPECIFICATION StoresRun
CONSTANTS
    j1 = j1  j2 = j2  t1 = t1  t2 = t2  p1 = p1  p2 = p2  o1 = o1
    Jobs = {j1, j2}
    Threads = {t1, t2}
    Pars = {p1}
    Owners = {o1}
    NoThread = NoThread
    OwnerOf <- OneOwner
    ParOf <- OnePar
    DeleteAfterUse = {}
    MaxActiveGlobal = 1
    MaxActiveOwner = 1
    MaxRetainedOwner = 2
    Requests = {"submit", "list"}
    Cancelable = {}
    Faults = {"spawn_error"}
    Editors = {t1, t2}
    n0 = n0  n1 = n1  n1upper = n1upper
    ProfileNames = {n0, n1, n1upper}
    FoldedName <- SameFolded
    KeyDirOf <- OwnDirectory
    Settings = {"v1"}
    DefaultName = n0
    LocalAdmin = n1
    Missing = Missing
    EditWorks <- AllEditWorks
    Admins = {t1, t2}
    x1 = x1  x2 = x2
    Tables = {x1, x2}
    ForeignKeys = {"fk"}
    ChildOf <- OneChild
    ParentOf <- OneParent
    AutoIncrement = {x1}
    Lakehouse = {}
    SchemaWorks <- AllSchemaWorks
    SchemaFaults = {"ddl_error", "process"}
    EventAdmins = {t1, t2}
    Events = {"e1", "e2", "e3"}
    SystemEvents = {"e3"}
    NoEvent = NoEvent
    MaxSelected = 2
INVARIANTS
    ActiveLimits
    EditsKept FilesConsistent
    HalfDoneAccounted KeysCompatible
    EventsAnswered
PROPERTIES FixesKeepKeys
SYMMETRY ThreadSymmetry
CHECK_DEADLOCK FALSE
