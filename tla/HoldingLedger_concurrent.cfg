SPECIFICATION Spec
CONSTANTS
    Procs = {p1, p2}
    Codes = {c1}
    Frameworks = {fwA}
    Tables = {"tier"}
    Null = Null
    MaxLots = 2
    MaxDay = 1
    MaxShares = 2
    MaxTraded = 3
    MaxReference = 1
    LegacyLots = 0
SYMMETRY ProcSymmetry
INVARIANTS SharesMatchLedger
PROPERTIES ImplementsLifecycle ClosedIsFinal NewLotInheritsNothing
    StopsTornOnlyByOvertaken OrphansOnlyByOvertaken
