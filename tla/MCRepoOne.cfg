SPECIFICATION Spec
CONSTANTS
    notes = notes
    note = note
    other = other
    schema = schema
    f = f
    fr = fr
    k = k
    kp = kp
    s = s
    b = b
    c1 = c1
    c2 = c2
    ck = ck
    lost = lost
    Paths = {notes, note, schema}
    Under <- MCUnder
    Values = {f, fr, s}
    NoFile = NoFile
    NoChange = NoChange
    Deleted = Deleted
    Handles = {h1}
    Blobs = {b, c1, c2, ck, lost}
    Parts <- MCParts
    SchemaPaths = {schema}
    Inputs <- MCInputs
    Rebuilt <- MCRebuilt
    Patched <- MCPatched
    Branches = {main}
    Main = main
    NoBranch = NoBranch
    Nobody = Nobody
    MaxCommits = 2
INVARIANTS TypeOK Closed CommitIsOverlay
PROPERTIES ImplementsHistory
