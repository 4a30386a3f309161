\* Two changes of settings or cookies: enough for a cookie in each of three
\* scopes, and the clock for sessions of two ages.  The `next` values are one of
\* each kind that ends at once, one that logs out, one that goes through the
\* login to the logout, and one through the trusted devices to the login.
SPECIFICATION Spec
CONSTANTS
    Unset = "unset"
    Users = {"ann", "b|b"}
    BarUsers = {"b|b"}
    DeviceUsername = "ann"
    SessionTTL = 2
    MaxClock = 3
    MaxChanges = 2
    OptionsSet <- MCOptionsSet
    NextValues <- MCNextValues
INVARIANTS
    LoginSticks
    LogoutHolds
    RedirectsEnd
