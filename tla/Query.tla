------------------------------- MODULE Query --------------------------------
(***************************************************************************)
(* Pages with the predicate language of Predicates, and that language by   *)
(* itself.  Three things are explored side by side: every tree that puts   *)
(* and deletes can make (no commit), every text of a predicate up to a     *)
(* bound (empty repository), and clients paging through TrackedPaths while *)
(* commits land.                                                           *)
(***************************************************************************)
EXTENDS Pages, Predicates

CONSTANTS Alphabet,       \* the tokens a predicate is written with
          Openings,       \* how a predicate may begin, << >> among them
          MaxTokens,      \* how many tokens are written after an opening
          Samples         \* the manifests a predicate is tried on

VARIABLE tokens           \* the predicate being written

queryVars == <<pagesVars, tokens>>

(* The next token of a predicate, as long as it can still become one.       *)
Viable(ts) == \E r \in {Parse(ts)} : r.ok \/ r.pos > Len(ts)

Write ==
    /\ nested = None /\ commits = <<>> /\ session = Idle
    /\ Viable(tokens)
    /\ \E s \in Openings : IsPrefix(s, tokens) /\ Len(tokens) < Len(s) + MaxTokens
    /\ \E t \in Alphabet : tokens' = Append(tokens, t)
    /\ UNCHANGED pagesVars

Browse == tokens = <<>> /\ PagesNext /\ UNCHANGED tokens

QueryInit == PagesInit /\ tokens \in Openings

QueryNext == Write \/ Browse

QuerySpec == QueryInit /\ [][QueryNext]_queryVars

-----------------------------------------------------------------------------
Respelt(ts, s) == [i \in DOMAIN ts |-> IF ts[i].k = "ident" THEN [ts[i] EXCEPT !.v.s = s] ELSE ts[i]]

(* A predicate is accepted exactly when the documented grammar has it, with *)
(* not before and before or, and then selects the manifests that its text   *)
(* describes, however it and the keys of the manifest are spelt: parse and  *)
(* evaluate together, over every text of tokens.                            *)
MeansWhatItSays ==
    LET accepted == InLanguage(tokens)
        selected == {m \in Samples : Holds(tokens, m)}
    IN  \A s \in 1 .. LowerCase : \A r \in {Parse(Respelt(tokens, s))} :
            /\ r.ok = accepted
            /\ r.ok => {m \in Samples : Evaluate(r.x, m)} = selected
=============================================================================
