CONSTANTS
    k1 = k1
    k2 = k2
    k3 = k3
    d1 = d1
    d2 = d2
    m1 = m1
    m2 = m2
    Maps = {m1}
    Keys = {k1, k2, k3}
    Entries <- MCEntries
    Hash <- MCHash
    NProbes = 1
    MaxLoadFactors = {50, 75}
    Sizes = {0, 3, 8}
    MaxBuckets <- MCMaxBuckets

SPECIFICATION EraseRangeSpec

INVARIANT FindsWhatItHolds
