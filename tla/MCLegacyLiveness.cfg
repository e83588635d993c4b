CONSTANTS
    Gens = {g1, g2}
    Receipts = {r1}
    NoGen = NoGen
    Import = Import
    NoReceipt = NoReceipt
    MaxFences = 2
    Malformed = {}
SPECIFICATION FairSpec
PROPERTIES
    SuccessorSettled
    LoginEventuallyAdopted
