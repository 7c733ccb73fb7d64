SPECIFICATION Spec
CONSTANTS
    j1 = j1  j2 = j2  t1 = t1  t2 = t2  p1 = p1  p2 = p2  o1 = o1
    Jobs = {j1}
    Threads = {t1}
    Pars = {p1}
    Owners = {o1}
    NoThread = NoThread
    OwnerOf <- OneOwner
    ParOf <- OnePar
    DeleteAfterUse = {p1}
    MaxActiveGlobal = 1
    MaxActiveOwner = 1
    MaxRetainedOwner = 2
    Requests = {"submit"}
    Cancelable = {j1}
    Faults = {}
PROPERTIES PolicyBeforePublish
CHECK_DEADLOCK FALSE
