SPECIFICATION Spec
CONSTANTS
    Key <- MCKey
    MAC = {m1, m2}
    Private = {"a"}
    Growths = {1, 3}
    PortLimits = {2}
    MinBaseline = 3
    Multiplier = 1
    Window = 2
    MaxSent = 6
    MaxEvents = 2
SYMMETRY MCSymmetry
INVARIANTS
    Inv
    ScansMatchContacts
    ScansUseUpFlows
    SpikesNeedTraffic
