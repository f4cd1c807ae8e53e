------------------------------- MODULE MCServer -------------------------------
(* Each behaviour exercises one part (`focus`): admin commands; all routes of *)
(* the plaintext tenant, one request after the other; all routes of the       *)
(* encrypted tenant, with its own `omp enc` commands between their steps;     *)
(* writes of one tenant that race to open its Repo; or commits and their      *)
(* events.                                                                    *)
EXTENDS Server
CONSTANTS plainTenant, r1
VARIABLE focus

mcVars == <<vars, focus>>
MCInit == Init /\ focus \in {"admin", "routes", "sealed", "races", "events"}

Racing == {post_file, patch_fields, post_upload}
Committing == {post_file, commit_route}

Arrives ==
  \/ focus = "routes" /\ \E op \in Router : Arrive(r1, plainTenant, op)
  \/ focus = "sealed" /\ \E t \in Encrypted, op \in Router : Arrive(r1, t, op)
  \/ focus = "races"  /\ \E r \in Requests, op \in Racing : Arrive(r, plainTenant, op)
  \/ focus = "events" /\ \E r \in Requests, op \in Committing : Arrive(r, plainTenant, op)

MCNext ==
  \/ Arrives /\ UNCHANGED focus
  \/ (\E r \in Requests : RequestSteps(r)) /\ UNCHANGED focus
  \/ focus = "admin" /\ AdminSteps /\ UNCHANGED focus
  \/ focus = "sealed" /\ ClientSteps /\ UNCHANGED focus
  \/ focus = "races" /\ Restart /\ UNCHANGED focus
  \/ focus = "races" /\ (\E r \in Requests : Cancel(r)) /\ UNCHANGED focus
  \/ focus = "events" /\ EventSteps /\ UNCHANGED focus

MCSpec == MCInit /\ [][MCNext]_mcVars /\ Fairness
================================================================================
