SPECIFICATION ImportsSpec
CONSTANTS
    t1 = t1  t2 = t2  s1 = s1  s2 = s2  c1 = c1  c2 = c2  p1 = p1  p2 = p2
    Threads = {t1, t2}
    Sessions = {s1, s2}
    Conns = {c1, c2}
    Profiles = {p1, p2}
    NoThread = NoThread
    NoSession = NoSession
    NoConn = NoConn
    Works = {"page", "import", "edit", "login", "logout", "cleanup"}
    Faults = {"lost", "refused", "query_error"}
    Tabs = {t1, t2}
    PlanIds = {"p1", "p2"}
    NoPlan = NoPlan
    NoTab = NoTab
    ImportFaults = {"write_error", "row_error", "expiry", "process"}
INVARIANTS
    TypeOK ExclusiveUse OwnServer NoStrayConnection AllOrNothing
    DraftsKept ImportsSeparate
SYMMETRY PoolSymmetry
