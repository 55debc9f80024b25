\* Two requests at a time, one address, two accounts.
CONSTANTS
    Clients = {r1, r2}
    Keys = {k}
    Accounts <- MCAccounts
    Default <- MCDefault
    Limit = 2
    Window = 3
    Lockout = 3
    Flight = 1
    Session = 2
    Remember = 4
    MaxTime = 6
    MaxFailed = 2
    MaxSecret = 3
    Scenes <- MCScenes
    Torn = Torn
    None = None
\* The bounds on the clock, the failures and the secrets may stop a behaviour.
CHECK_DEADLOCK FALSE
SPECIFICATION Spec
SYMMETRY Symmetry
INVARIANTS FailuresBounded WaitHonoured AuditExact AccountKept
PROPERTY SessionsSurvive
