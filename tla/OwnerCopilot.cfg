SPECIFICATION OwnerFairSpec
CONSTANTS
    x = x
    p = p
    Texts <- MCTexts
    Numbers <- MCNumbers
    Properties <- MCProperties
    MaxOwnerFaults = 1
INVARIANTS
    OwnerTypeOK
PROPERTIES
    OneListingPerChat
    CreatedAsShown
    RemovedWasPrompted
    PatienceRewarded
