SPECIFICATION FairWebSpec
CHECK_DEADLOCK FALSE
CONSTANTS
    None = None
    Users = {u1, u2}
    Tab = t
    Threads = {t, d}
    MaxTokens = 3
    Slots = {1, 2}
    MaxMoves = 4
    Offline = TRUE
INVARIANTS
    RevokedStaysRevoked
    LogoutRevokes
    MenusAreOwn
PROPERTIES
    EnteredLoggedIn
    PageShown
