\* Two overlapping upserts of one key; two rows can be inserted under it, one
\* after the other, and a row of another key can be moved onto it.
CONSTANTS
    Clients = {c1, c2}
    NoClient = NoClient
    Others = 1
    MaxId = 3
SPECIFICATION Spec
SYMMETRY UpsertSymmetry
INVARIANTS
    CreatedOnce
PROPERTIES
    SameRow
