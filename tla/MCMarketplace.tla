--------------------------- MODULE MCMarketplace ---------------------------
(* A probe and a schema.  The probe's README is the text of the schema, so  *)
(* that requests on both catalogs store the same blob.                      *)
EXTENDS Marketplace, TLC

CONSTANTS probe, schema, \* ids
          wasm, text     \* contents

ReqSymmetry == Permutations(Reqs)

MCPublications ==
    {[id |-> probe, before |-> <<wasm>>, readme |-> text, after |-> <<>>],
     [id |-> schema, before |-> <<text>>, readme |-> NoBlob, after |-> <<>>]}
=============================================================================
