SPECIFICATION PagesSpec
CONSTANTS
    t1 = t1  t2 = t2  e1 = e1  e2 = e2  n1 = n1  c1 = c1  c2 = c2
    Threads = {t1, t2}
    Entries = {e1, e2}
    OneUse = {e1}
    Foreign = {e2}
    Names = {n1}
    Contents = {c1, c2}
    NoName = NoName
    NoContent = NoContent
    NoThread = NoThread
    NoReview = NoReview
    NoPlan = NoPlan
    NoEntry = NoEntry
    Forms <- MCForms
    MaxPreviews = 2
    Requests = {"preview", "submit", "view", "create", "delete", "save", "drop_profile"}
    Faults = {"expiry", "oci_error", "refused", "web_crash", "io_error", "unreadable"}
    Objects = {"o1", "o2"}
    FreeNames = {"where"}
    WorkTabs = {t1, t2}
    HistoryLimit = 2
    MaxScript = 2
    MaxEntries = 3
    Attempts = {t1, t2}
    Identities = {"k1", "k2"}
    MaxFailures = 3
    Window = 2
    Block = 1
    MaxIdentities = 1
    LastMoment = 4
    Uploads <- Files
    LowerCase <- LowerLetter
    Plain <- PlainLetter
    Numeral <- Numerals
    LetterOf <- OwnLetter
    MaxName = 2
    FormNames <- WrittenNames
    FormTypes = {"VARCHAR", "TEXT", "other"}
    KeyRoom = 1
    RowRoom = 2
    ca = ca  cb = cb  cB = cB  n0 = n0
    Columns <- TwoColumns
    ColumnNames = {ca, cb, cB, n0}
    Folded <- LowerCaseName
    Unnamed = n0
    BadPosition = BadPosition
INVARIANTS
    TypeOK SubmittedAsReviewed LiveParsKnown
    OptionsKept
    HistorySound
    GuessesCounted
    CellsInTheirColumns FormFits
    FormsTakeEffect
SYMMETRY Symmetry
