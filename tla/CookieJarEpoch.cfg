CONSTANTS
    Names = {"ots"}
    Values = {"v1"}
    Expiries = {0, 3}
    MaxAges = {0, 1}
    MaxHeaders = 1
    Now0 = 1
    MaxTime = 3
SPECIFICATION Spec
PROPERTY OnlyValidCookiesSent
