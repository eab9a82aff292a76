SPECIFICATION Spec
CONSTANTS
    A = A
    B = B
    C = C
    D = D
    E = E
    g1 = g1
    g2 = g2
    o1 = o1
    Types = {A, B, C, D, E}
    PkgOf <- MCPkgOf
    Shapes <- MCShapes
    StartFields <- MCStartFields
    Unfit = {E}
    MaxEdits = 2
    Elem = A
    Depth = 2
    Goroutines = {g1, g2}
    Objects = {o1}
INVARIANTS
    RunSettles
    PoolClean
