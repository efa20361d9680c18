SPECIFICATION FairSpec
CONSTANTS
    MaxInvocations = 4
INVARIANTS
    PublicationTypeOK
    PromotionHolds
PROPERTIES
    RefusedForCause
    Publishes
CHECK_DEADLOCK FALSE
