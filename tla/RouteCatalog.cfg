\* One route in the database and two to create, on the same date; two listings,
\* pages of one, one failure or restart.
SPECIFICATION FairSpec
CONSTANTS
    c1 = c1
    c2 = c2
    c3 = c3
    Creations = {c1, c2, c3}
    Existing = {c3}
    Departure <- MCDeparture
    Listings = {g1, g2}
    PageSize = 1
    MaxPage = 2
    MaxFaults = 1
    NoPage = NoPage
INVARIANTS
    CatalogTypeOK
    PageCoversTotal
    PagesFreshUnlessRaced
    OnlyTiesRepeat
PROPERTY
    CatalogSettles
