SPECIFICATION FairSpec
CONSTANTS
    MAX_PROC = 4
    Nobody = Nobody
CHECK_DEADLOCK FALSE
INVARIANTS TypeOK OneHolder DestroyedUnused
PROPERTIES EveryChildPrints Finishes RefinesMeeting
