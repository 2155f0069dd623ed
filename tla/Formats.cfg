\* Two packages with one byte changed, three frames, keys that collide, three values
\* that hold each other, texts of seven tokens and of eight characters, strings of
\* four bytes.
SPECIFICATION Spec
CONSTANTS
    MaxPackages = 2
    MaxPort = 2
    MaxFaults = 1
    MAX_FRAME_DATA_SIZE = 25
    t1 = t1  t2 = t2
    ka = ka  kb = kb  kab = kab
    JsonThreads = {t1, t2}
    TableKeys = {ka, kb, kab}
    TableValues = {1, 2}
    Seeds = {1, 2}
    KeysOf <- MCKeysOf
    hashlittle <- MCHashlittle
    InitialSize = 2
    Interlocked = TRUE
    MaxSerial = 4
    ListHead = ListHead
    HeapCells = {c1, c2, c3}
    HeapKeys = {0}
    MaxItems = 2
    MaxHeld = 2
    MaxLost = 1
    Free = Free
    MaxTokens = 7
    NoValue = NoValue
    Nodes = {n1, n2}
    Root = n1
    STRBUFFER_MIN_SIZE = 4
    NULL = NULL
    Refused = Refused
    MaxBytes = 8
    MaxDigits = 3
    MaxLength = 4
    Raw = raw
    Thrown = Thrown
    Unused = Unused
SYMMETRY Symmetry
INVARIANTS
    ReceivedWasSent HandedWasSent CountsExact
    LoadsExactly ScansTokens DumpsExactly StringsSurvive DocumentsArrive
PROPERTIES ObjectsAreMaps
\* Every machine comes to the end of its bounds.
CHECK_DEADLOCK FALSE
