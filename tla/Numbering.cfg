SPECIFICATION Spec
CONSTANTS
    None = None
    Callers = {c1, c2}
    Keys = {k1, k2}
    Docs = {d1, d2}
    Years = {1926, 2026}
    Configurations <- MCConfigurations
    Reserved <- MCReserved
    Minima = {1}
    MAX_VALUE = 3
SYMMETRY Symmetry
INVARIANTS
    TypeOK
    RepeatsOnlyAcrossCenturies
    EveryValueIsExplained
    ReceiptsMatchConfiguration
    ReplaysMatchReceipts
    ClaimsMatchReceipts
CHECK_DEADLOCK FALSE
