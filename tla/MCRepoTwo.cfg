SPECIFICATION FairSpec
CONSTANTS
    notes = notes
    note = note
    other = other
    schema = schema
    f = f
    fr = fr
    k = k
    kp = kp
    s = s
    b = b
    c1 = c1
    c2 = c2
    ck = ck
    lost = lost
    Paths = {note}
    Under <- MCUnder
    Values = {f}
    NoFile = NoFile
    NoChange = NoChange
    Deleted = Deleted
    Handles = {h1, h2}
    Blobs = {b, c1, c2, ck, lost}
    Parts <- MCParts
    SchemaPaths = {}
    Inputs <- MCInputs
    Rebuilt <- MCRebuilt
    Patched <- MCPatched
    Branches = {main}
    Main = main
    NoBranch = NoBranch
    Nobody = Nobody
    MaxCommits = 2
PROPERTY OpsEnd
