CONSTANTS
    f1 = f1 f2 = f2 f3 = f3
    None = None In = In Out = Out Err = Err
    Files <- ThreeFiles
    ST_DEPTH = 2
    MaxDepth = 2
SPECIFICATION Spec
SYMMETRY ThreeSymmetry
INVARIANTS IInv Restored FilesAccounted
PROPERTIES NestedTransparent StreamsStayOpen
