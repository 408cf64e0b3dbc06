\* One table, two limits of the server's and of the table's; files, environments and flags at the boundaries of Load and Validate.
SPECIFICATION FairSpec
CONSTANTS
    Garbled = Garbled
    NaN = NaN
    Inputs <- MCInputs
    ServerLimits <- MCServerLimits
    VacuumCostLimit = 200
    TableLimits = {500}
    Unset = Unset
    Missing = Missing
    Unread = Unread
INVARIANTS
    TypeOK
    NothingBeforeValidation
    ExitSaysWhat
    ConnectionClosed
    GivenIsObeyed
    NothingIsFree
    AcceptedMeansAssumed
PROPERTIES
    SeenWasInForce
    CommandEnds
