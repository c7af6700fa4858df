SPECIFICATION Spec
CONSTANTS
    w1 = w1  w2 = w2  u1 = u1  u2 = u2  core = core  em = em  ph = ph  pw1 = pw1  pw2 = pw2
    Workers = {w1}
    Users = {u1, core}
    CoreUsers = {core}
    CoreEmail <- CoreHas
    NoUser = NoUser
    Phones = {ph}
    Emails = {em}
    Passwords = {pw1, pw2}
    MaxCodes = 3
    MaxTokens = 3
    CodeTTL = 0
    Cooldown = 1
    Window = 1
    SourceMax = 2
    Day = 2
    DailyMax = 2
    MaxAttempts = 2
    TokenTTL = 1
    MaxClock = 1
    BridgeTries = 1
    MaxRequests = 4
INVARIANTS
    CodesLock
CHECK_DEADLOCK FALSE
