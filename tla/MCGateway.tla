------------------------------- MODULE MCGateway -------------------------------
(* Each behaviour exercises one kind of traffic (`focus`).                    *)
EXTENDS Gateway, TLC
CONSTANTS ada, bob, acme, tok, s1, r1
VARIABLE focus
MCOrgOf == (ada :> acme) @@ (bob :> None)
MCTokenTenant == tok :> acme
MCShardOf == [t \in {ada, bob, acme} |-> s1]

MCInit ==
  /\ Init /\ focus \in {"login", "keys", "install"}
  /\ focus # "keys" => \A k \in ApiKeys : keys[k].org = None
MCNext ==
  /\ \/ focus = "login" /\ LoginSteps
     \/ focus = "keys" /\ KeySteps
     \/ focus = "install" /\ InstallSteps
     \/ CommonSteps
  /\ focus = "login" => \A r \in Requests \ {r1} : req'[r] = NoReq
  /\ focus = "login" => /\ Cardinality({k \in ApiKeys : keys'[k].org # None}) <= 1
                        /\ Cardinality({f \in Flows : ended'[f] # Never}) <= 1
                        /\ \A r \in Requests : req'[r].pc = "resolved" => req'[r].ctx.sub # None
  /\ UNCHANGED focus
Sym == Permutations(Browsers) \cup Permutations(Flows) \cup Permutations(ApiKeys)
MCSpec == MCInit /\ [][MCNext]_<<vars, focus>>
================================================================================
