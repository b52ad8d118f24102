SPECIFICATION Spec
CONSTANTS
    i1 = i1
    i2 = i2
    b1 = b1
    b2 = b2
    c1 = c1
    p1 = p1
    None = None
    Malformed = Malformed
    Imports = {i1, i2}
    Others = {p1}
    Barcodes = {b1, b2}
    Categories = {c1}
    Files <- MCFiles
    MaxStock = 1
INVARIANT
    ImportTellsTruth
CHECK_DEADLOCK FALSE
