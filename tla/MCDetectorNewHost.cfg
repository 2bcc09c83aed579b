SPECIFICATION Spec
CONSTANTS
    Key = {}
    MAC = {m1}
    Private = {}
    Growths = {1}
    PortLimits = {1}
    MinBaseline = 1
    Multiplier = 2
    Window = 3
    MaxSent = 0
    MaxEvents = 1
INVARIANT NewHostAlertedOnce
