SPECIFICATION Spec
CONSTANTS
    w1 = w1  w2 = w2  u1 = u1  u2 = u2  core = core  em = em  ph = ph  pw1 = pw1  pw2 = pw2
    Workers = {w1, w2}
    Users = {u1, core}
    CoreUsers = {core}
    CoreEmail <- CoreHas
    NoUser = NoUser
    Phones = {ph}
    Emails = {em}
    Passwords = {pw1, pw2}
    MaxCodes = 2
    MaxTokens = 3
    CodeTTL = 1
    Cooldown = 1
    Window = 1
    SourceMax = 1
    Day = 2
    DailyMax = 1
    MaxAttempts = 2
    TokenTTL = 1
    MaxClock = 2
    BridgeTries = 2
    MaxRequests = 5
SYMMETRY Symmetric
INVARIANTS
    TypeOK
    AccountsWhole
    TokenChains
    CodeUses
    SendLimits
    OneLiveSession
    ResetEndsSessions
    PasswordIsChosen
    PhonesProven
CHECK_DEADLOCK FALSE
