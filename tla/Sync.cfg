SPECIFICATION Spec
CONSTANTS
    Devices <- MCDevices
    Actions <- MCActions
    Outbox <- MCOutbox
    Changes <- MCChanges
    Hopeless <- MCHopeless
    Fields <- MCFields
    EntityOf <- MCEntityOf
    Reviewed <- MCReviewed
    InitialValue <- MCInitialValue
    StaffEdits <- MCStaffEdits
    Requests = {r1}
    NoBase = NoBase
    MaxTime = 2
    MaxFaults = 1
    Units = {1, 2}
    References = {3}
    PageLimit = 1
    MaxWrites = 3
    MaxLosses = 1
INVARIANTS
    MirrorIsCurrent
    AcknowledgedIsAccountedFor
PROPERTIES
    ImplementsDelivery
    LaterWriteStands
    PushesAreAnswered
    PullsConverge
