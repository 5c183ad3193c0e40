\* Two clients write to one object, created again after its deletion.
CONSTANTS
    Clients = {c1, c2}
    Specs = {small, large, broken}
    Malformed = {broken}
    OtherFinalizers = {"other"}
    None = None
    MaxRevision = 4
SPECIFICATION Spec
SYMMETRY Symmetry
INVARIANTS IInv StoredSpecsDecode
PROPERTIES SpecKept UnreadableKept ObjectLives
