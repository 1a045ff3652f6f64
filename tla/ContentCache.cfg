SPECIFICATION CacheSpec
CONSTANTS
    Requests = {r1, r2}
    Regions = {eu}
    MaxVersion = 2
    Threshold = 2
    PopularThreshold = 0
SYMMETRY Symmetry
INVARIANTS CacheTypeOK RegionsAreCurrent
PROPERTY ReadsKeepContent
