CONSTANTS
    At = 3
    Marker <- Plus
    Names <- LetterNames
    Addresses <- ThreeAddresses
    MaxSyms = 4
    LastUnique = TRUE
    None = None
    h1 = h1  h2 = h2  h3 = h3
    Heap <- ThreeRecords
    Chunks <- TwoChunks
    Matching <- Longer
    Lines = {2, 3}
    Margins = {0, 1}
    MaxLoads = 3
    MaxUsed = 4
SPECIFICATION LookupSpec
SYMMETRY RecordSymmetry
CHECK_DEADLOCK FALSE
INVARIANTS WellFormed OnlyRedundantDropped LookupFinds AddressesFound SearchComplete IInv
