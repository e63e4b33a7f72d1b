CONSTANTS
    Names = {"ots", "other"}
    Values = {"v1", "v2"}
    Expiries = {1, 3}
    MaxAges = {0, 2}
    MaxHeaders = 2
    Now0 = 1
    MaxTime = 3
SPECIFICATION Spec
INVARIANT TypeOK
PROPERTIES
    OnlyValidCookiesSent
    ValidCookiesSent
