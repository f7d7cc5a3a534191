\* One user's codes, an invite link, a conversation with its calls, its cache, its
\* members and a picture, a user's sockets, the tickets of a user, one cached list,
\* one rate limit and the log of a deployment.

SPECIFICATION SiteSpec

CONSTANTS
    a = a
    b = b
    MaxId = 3
    MaxEdits = 1
    CacheSize = 2
    PageSize = 2
    Job = {a, b}
    Call = {a, b}
    MaxEnds = 2
    Socket = {s1, a, b}
    Founder = u1
    Member = {u1, a, b}
    MaxUses = 1
    Viewer = {v1, v2}
    Tab = {a, b}
    NoTab = NoTab
    Clerk = {k1}
    Visit = {a, b}
    OtpMaxAttempts = 1
    MaxCodes = 2
    Known = TRUE
    Served = {"final", "set_password", "password_reset"}
    MaxRows = 2
    MaxMails = 1
    Guest = {g1, a, b}
    LinkUses = 2
    Ticket = {t1, a, b}
    Watched = {t1}
    NoTicket = NoTicket
    Desk = {a, b}
    MaxOpen = 1
    MaxTicketFiles = 1
    MaxMessages = 2
    Reader = {a, b}
    Writer = {w1, w2}
    MaxChanges = 3
    Caller = {a, b}
    Limit = 2
    MaxPassed = 8
    Source = {a, b}
    Client = {k1}
    PageLimit = 2
    MaxLogs = 5
    MaxClock = 3

SYMMETRY Symmetry

INVARIANTS
    SiteTypeOK
    
    
    PresenceTrue
    OwnerKept
    ViewedOnce
    GuessLimit
    CodeSpentOnce
    CodeMailed
    Invited
    
    
    
    ListCurrent
    RateKept
    LogComplete

PROPERTIES
    CallVerdictKept

\* Every request may have been refused, and the bounds reached.
CHECK_DEADLOCK FALSE
