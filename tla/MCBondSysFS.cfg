CONSTANTS
    n1 = n1
    n2 = n2
    n3 = n3
    o1 = o1
    Nics <- MCNics3
    Opts <- MCOpts
    MaxOps = 3
SPECIFICATION Spec
SYMMETRY NicSymmetry
INVARIANTS
    SlavesTracked
    NewBondRevertDestroys
PROPERTIES
    ImplementsBondTxn
    SlaveEditKeepsUp
