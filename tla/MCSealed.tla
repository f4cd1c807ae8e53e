------------------------------- MODULE MCSealed -------------------------------
(* An encrypted tenant's repository and its audit log.  Each behaviour        *)
(* exercises one of the two (`focus`), which share no state.                  *)
EXTENDS Sealed, Audit, TLC
CONSTANTS x, y
VARIABLE focus

MCContents == {<<x>>, <<x, y>>, <<y, x, x>>}
mcVars == <<sealedVars, auditVars, focus>>

MCInit == SealedInit /\ AuditInit /\ focus \in {"sealed", "audit"}
MCNext ==
  \/ focus = "sealed" /\ SealedNext /\ UNCHANGED <<auditVars, focus>>
  \/ focus = "audit" /\ AuditNext /\ UNCHANGED <<sealedVars, focus>>
MCSpec == MCInit /\ [][MCNext]_mcVars
Sym == Permutations(Recipients) \cup Permutations(Threads) \cup Permutations(Writers)
================================================================================
