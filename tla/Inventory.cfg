\* Two overlapping ingestions of a catalog of two items that changes twice.
SPECIFICATION FairSpec
CONSTANTS
    i1 = i1
    i2 = i2
    price = price
    v1 = v1
    v2 = v2
    j1 = j1
    j2 = j2
    None = None
    Items = {i1, i2}
    Rank <- MCRank
    Columns = {price}
    Values = {v1, v2}
    Jobs = {j1, j2}
    MaxChanges = 2
    MaxFailures = 1
INVARIANTS TypeOK SearchableOnceListed EmbeddingFitsRow
PROPERTIES InventoryConverges
