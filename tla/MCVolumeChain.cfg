CONSTANTS
    Blank = "blank"
    Domains <- MCDomains
SPECIFICATION Spec
INVARIANTS
    ChainsClassified
    DumpComplete
