CONSTANTS
    Gens = {g1, g2, g3}
    Receipts = {r1, r2}
    NoGen = NoGen
    Import = Import
    NoReceipt = NoReceipt
    MaxFences = 3
    Malformed = {g3}
SYMMETRY Symmetry
SPECIFICATION Spec
INVARIANT PresentedIsReserved
