SPECIFICATION FairSpec
CONSTANTS
    plaza = plaza
    plaza2 = plaza2
    gold = gold
    None = None
    Bad = Bad
    Words = Words
    Listings <- MCListings
    Names <- MCNames
    NameOf <- MCNameOf
    Close <- MCClose
    Supply = 2
    MaxFaults = 2
INVARIANTS
    TypeOK
PROPERTIES
    InvestedAsShown
    PaidAsShown
    
