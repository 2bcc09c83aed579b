SPECIFICATION Spec
CONSTANTS
    Values = {d}
    Default = d
    Blank = b
    NoRow = none
    Saves = {s1, s2}
    Loads = {l1}
    Nobody = nobody
INVARIANTS
    QuietCallsAgree
PROPERTIES
    LoadsSettle
