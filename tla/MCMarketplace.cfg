SPECIFICATION Spec
CONSTANTS
    Reqs = {r1, r2}
    Nobody = Nobody
    probe = probe
    schema = schema
    wasm = wasm
    text = text
    Probes = {probe}
    Schemas = {schema}
    Blobs = {wasm, text}
    NoBlob = NoBlob
    NoEntry = NoEntry
    Publications <- MCPublications
    Readmes = {text}
    MaxFaults = 2
SYMMETRY ReqSymmetry
INVARIANTS BlobsPreserved PublishedBlobsWhole AnsweredIsSaved
PROPERTIES YankHolds
