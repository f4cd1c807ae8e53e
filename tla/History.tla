------------------------------ MODULE History ------------------------------
(***************************************************************************)
(* What an OMP repository promises to the one who stages and commits, with *)
(* nothing of how it is stored: a log of commits that only grows, branches *)
(* that move from a commit to its child, and a staging area that changes   *)
(* one path at a time and is emptied only once a commit of all of it has   *)
(* been recorded.  There are no locks, files, loops or locals here.  A     *)
(* commit is three steps (recorded, landed, cleared) because a crash may   *)
(* fall between them; the promise is that none of it is ever half done.    *)
(* RepoRefinement shows that a repository with one handle implements this. *)
(***************************************************************************)
EXTENDS Trees, Integers, Sequences

CONSTANTS
    SchemaPaths,   \* schemas/<type>/schema.toml
    Branches,
    Main,          \* the branch HEAD names after init
    NoBranch       \* HEAD is detached

NoSuch == -1       \* a well-formed hash that names no commit
Unborn == 0        \* no commit yet

VARIABLES
    log,        \* the commits: [tree, parent, staged]
    branches,   \* branch -> commit
    head,       \* the branch, or the commit, that is checked out
    staged      \* path -> what is staged there

vars == <<log, branches, head, staged>>

Names  == DOMAIN log \cup {NoSuch}
Tip    == IF head.branch = NoBranch THEN head.commit ELSE branches[head.branch]
At(c)  == IF c \in DOMAIN log THEN log[c].tree ELSE EmptyTree

Init ==
    /\ log = <<>>
    /\ branches = [b \in Branches |-> Unborn]
    /\ head = [branch |-> Main, commit |-> Unborn]
    /\ staged = NoChanges

(* add, remove and patch_fields stage one path.                             *)
Stage(p, x) ==
    /\ staged' = [staged EXCEPT ![p] = x]
    /\ UNCHANGED <<log, branches, head>>

(* What a commit applies is what is staged; when a schema is staged, files  *)
(* of the tip may have been rebuilt for it.                                 *)
Applies(m) ==
    \A p \in Paths : m[p] # staged[p] =>
        /\ m[p] \in Values
        /\ At(Tip)[p] \in Values
        /\ \E s \in SchemaPaths : staged[s] \in Values

(* The tree is the tip's, overlaid; when one staged path lies below another *)
(* only its shape is promised.                                              *)
Record(tr) ==
    /\ log' = Append(log, [tree |-> tr, parent |-> Tip, staged |-> staged])
    /\ UNCHANGED <<branches, head, staged>>
    /\ Tip # NoSuch
    /\ WellFormed(tr)
    /\ \E m \in Staged :
          /\ Applies(m)
          /\ PrefixFree(m) => tr = Overlay(At(Tip), m)

Land ==
    /\ log # <<>>
    /\ log[Len(log)].parent = Tip
    /\ log[Len(log)].staged = staged
    /\ IF head.branch = NoBranch
       THEN head' = [branch |-> NoBranch, commit |-> Len(log)] /\ UNCHANGED branches
       ELSE branches' = [branches EXCEPT ![head.branch] = Len(log)] /\ UNCHANGED head
    /\ UNCHANGED <<log, staged>>

Clear ==
    /\ log # <<>>
    /\ log[Len(log)].staged = staged
    /\ staged' = NoChanges
    /\ UNCHANGED <<log, branches, head>>

Branch(b, c) ==
    /\ branches[b] = Unborn
    /\ c \in Names
    /\ branches' = [branches EXCEPT ![b] = c]
    /\ UNCHANGED <<log, head, staged>>

Checkout(b) ==
    /\ branches[b] # Unborn
    /\ head' = [branch |-> b, commit |-> Unborn]
    /\ UNCHANGED <<log, branches, staged>>

Detach(c) ==
    /\ c \in Names
    /\ head' = [branch |-> NoBranch, commit |-> c]
    /\ UNCHANGED <<log, branches, staged>>

Next ==
    \/ \E p \in Paths, x \in Values \cup {NoChange, Deleted} : Stage(p, x)
    \/ \E tr \in Tree : Record(tr)
    \/ Land
    \/ Clear
    \/ \E b \in Branches, c \in Names : Branch(b, c)
    \/ \E b \in Branches : Checkout(b)
    \/ \E c \in Names : Detach(c)

Spec == Init /\ [][Next]_vars
=============================================================================
