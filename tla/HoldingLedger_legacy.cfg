SPECIFICATION Spec
CONSTANTS
    Procs = {p1, p2}
    Codes = {c1}
    Frameworks = {fwA}
    Tables = {"tier"}
    Null = Null
    MaxLots = 2
    MaxDay = 2
    MaxShares = 2
    MaxTraded = 2
    MaxReference = 0
    LegacyLots = 2
SYMMETRY ProcSymmetry
PROPERTY SalesAreFifo
