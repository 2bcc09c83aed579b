SPECIFICATION FairSpec
CONSTANTS
    i1 = i1
    i2 = i2
    Nobody = Nobody
    Instances = {i1, i2}
    Last = 9
    MaxSessions = 2
    MaxAlerts = 2
    Keys = {"k"}
INVARIANTS
    Inv
    UpMeansCurrent
    RowsOfOwnCapture
    OldViewsAreHarmless
PROPERTIES
    OpenSettles
