\* Three updaters and the blocker; the server answers the final ROLLBACK, and notices
\* a closed connection some time later.
SPECIFICATION AnsweredSpec
CONSTANTS
    Updaters = {orders, sessions, events}
    Blocker = Blocker
    LongXactEnabled = TRUE
    NoError = NoError
INVARIANTS
    TypeOK
    NoQuietStop
    ErrorIsCause
    NothingLeft
PROPERTIES
    GenerateReturns
    BlockerLetsGo
