----------------------------- MODULE MCUploads -----------------------------
(* A session of three bytes, sent in chunks that overlap and with two       *)
(* contents for one of the bytes, each any number of times.                 *)
EXTENDS Uploads, TLC

ReqSymmetry == Permutations(Reqs)

Overlapping == {[off |-> 0, len |-> 2, ver |-> 1],
                [off |-> 1, len |-> 1, ver |-> 1], [off |-> 1, len |-> 1, ver |-> 2],
                [off |-> 2, len |-> 1, ver |-> 1]}
=============================================================================
