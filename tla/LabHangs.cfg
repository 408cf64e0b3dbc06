\* Three updaters and the blocker; the server need not answer the final ROLLBACK.
SPECIFICATION FairSpec
CONSTANTS
    Updaters = {orders, sessions, events}
    Blocker = Blocker
    LongXactEnabled = TRUE
    NoError = NoError
PROPERTY GenerateReturns
