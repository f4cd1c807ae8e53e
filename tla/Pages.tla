------------------------------- MODULE Pages --------------------------------
(***************************************************************************)
(* Queries and diffs over a repository that is being committed to:         *)
(* Repo::query and Repo::diff (crates/omp-core/src/api.rs), the cursor     *)
(* behind GET /query, and a client that follows the cursors it is given.   *)
(*                                                                         *)
(* The trees are those of NestedTrees; ManifestOf parses what is stored    *)
(* under the hash in a leaf.  The language of the predicates is a          *)
(* parameter here; Query puts that of Predicates in its place.             *)
(***************************************************************************)
EXTENDS NestedTrees

CONSTANTS ParsePredicate(_),        \* parse: [ok |-> .., x |-> ..]
          EvaluatePredicate(_, _),  \* evaluate, of the x and a manifest
          Denotes(_, _),            \* whether a text describes a manifest
          ManifestOf,     \* the manifest stored under each hash
          Others,         \* the file trees that diff compares with
          TrackedPaths,   \* the paths of committed trees
          ManifestPaths,  \* paths of user files: not schemas, probes, omp.toml
          TextBefore,     \* pairs of paths in the order of their text
          PathPrefixes,   \* prefix parameters: the paths whose text begins so
          Wheres,         \* where parameters, << >> for none
          Limits,         \* limit parameters
          MaxLimit,       \* 1000 in the code
          MaxCommits      \* commits in a run

ASSUME PagesAssumption ==
    /\ ManifestPaths \subseteq Paths /\ TrackedPaths \subseteq Paths
    /\ Limits \subseteq Int /\ MaxLimit \in Nat \ {0}
    /\ \A tr \in Others : tr \in Tree /\ WellFormed(tr)
    /\ \A p \in Paths : <<p, p>> \notin TextBefore
    /\ \A p, q \in Paths : p # q => <<p, q>> \in TextBefore \/ <<q, p>> \in TextBefore
    /\ \A p, q, r \in Paths :
          <<p, q>> \in TextBefore /\ <<q, r>> \in TextBefore => <<p, r>> \in TextBefore

(* What is asked for is evaluated as it reads: MeansWhatItSays of Query.    *)
ASSUME PredicateAssumption ==
    \A where \in Wheres \ {<<>>}, h \in Values :
        ParsePredicate(where).ok =>
            (EvaluatePredicate(ParsePredicate(where).x, ManifestOf[h])
                <=> Denotes(where, ManifestOf[h]))

VARIABLES commits,        \* the root tree of each commit of the branch at HEAD
          session         \* a client and the pages it has been given

pagesVars == <<nested, flat, commits, session>>

Idle == [st |-> "idle"]

(* The `at` parameter: << >> for none, the name of the branch, a commit.    *)
Branch    == <<"branch">>
CommitAt(n) == <<"commit", n>>

(* resolve_at: a given expression stays as it is, none becomes a hash.      *)
ResolveAt(at) ==
    IF at # <<>> THEN at ELSE IF commits = <<>> THEN <<>> ELSE CommitAt(Len(commits))

(* root_tree: what the expression names at this moment.                     *)
RootTree(at) ==
    IF at = Branch THEN Last(commits) ELSE IF at = <<>> THEN None ELSE commits[at[2]]

Clamp(limit) == IF limit < 1 THEN 1 ELSE IF limit > MaxLimit THEN MaxLimit ELSE limit

(* The elements of a sequence that are in S, in their order.                *)
Only(seq, S) == FlattenSeq([i \in DOMAIN seq |-> IF seq[i] \in S THEN <<seq[i]>> ELSE <<>>])

(* The manifests whose path begins with the prefix, sorted by the text of   *)
(* the path: a.b/c comes before a/c there and after it in a walk.           *)
Sorted(tree, prefix) ==
    LET kept == {e \in Range(WalkInner[tree][<<>>]) : e.path \in ManifestPaths \cap prefix}
    IN  CHOOSE s \in [1 .. Cardinality(kept) -> kept] :
            \A i, j \in DOMAIN s : i < j => <<s[i].path, s[j].path>> \in TextBefore

(* The route parses the where parameter before it calls query.              *)
Predicate == [where \in Wheres |-> ParsePredicate(where)]

Selected ==
    [where \in Wheres |->
        {h \in Values : where = <<>> \/ /\ Predicate[where].ok
                                        /\ EvaluatePredicate(Predicate[where].x, ManifestOf[h])}]

Passes(where, e) == e.hash \in Selected[where]

(* next_offset: just past the entry that filled the page, if any is left.   *)
NextOffset(entries, stop) == IF stop < Len(entries) THEN <<stop>> ELSE <<>>

(* Faulty: the cursor carries no commit, so each page resolves `at` anew.   *)
EncodeOffsetOnly(at, offset) == [commit |-> <<>>, offset |-> offset]

EncodeCursor(at, offset) == [commit |-> at, offset |-> offset]

(* One call of query: the matches and the next cursor.  A cursor that       *)
(* carries a commit is trusted before the `at` of the request.              *)
Page(at, prefix, where, cursor, limit) ==
    LET effective == IF cursor # <<>> /\ cursor[1].commit # <<>>
                     THEN cursor[1].commit ELSE ResolveAt(at)
        entries == Sorted(RootTree(effective), prefix)
        start == IF cursor = <<>> THEN 0 ELSE cursor[1].offset
        hits == {i \in start + 1 .. Len(entries) : Passes(where, entries[i])}
        stop == IF Cardinality(hits) >= Clamp(limit)
                THEN CHOOSE i \in hits : Cardinality({j \in hits : j <= i}) = Clamp(limit)
                ELSE Len(entries)
        next == NextOffset(entries, stop)
    IN  [matches |-> Only(SubSeq(entries, start + 1, stop), {entries[i] : i \in hits}),
         cursor |-> IF next = <<>> THEN <<>> ELSE <<EncodeCursor(effective, next[1])>>]

-----------------------------------------------------------------------------
(* diff: both walks merged path by path, the unchanged ones left out.       *)

(* Faulty: only what the first walk found is looked at.                     *)
PathsOfFirst(before, after) == DOMAIN before

PathsOfBoth(before, after) == DOMAIN before \cup DOMAIN after

(* A walk collected into a map: of two entries with one path the later one. *)
Entries(tree) ==
    LET w == WalkInner[tree][<<>>]
        last(p) == CHOOSE i \in DOMAIN w : /\ w[i].path = p
                                           /\ \A j \in DOMAIN w : w[j].path = p => j <= i
    IN  [p \in {w[i].path : i \in DOMAIN w} |-> w[last(p)].hash]

DiffStatus(before, after, p) ==
    IF p \notin DOMAIN before THEN "added"
    ELSE IF p \notin DOMAIN after THEN "removed"
    ELSE IF before[p] = after[p] THEN "unchanged" ELSE "modified"

Diff(before, after, filter) ==
    LET changed == {p \in PathsOfBoth(before, after) :
                       p \in filter /\ DiffStatus(before, after, p) # "unchanged"}
    IN  [p \in changed |-> [status |-> DiffStatus(before, after, p),
                            after |-> IF p \in DOMAIN after THEN <<after[p]>> ELSE <<>>]]

-----------------------------------------------------------------------------
Received(s, page) ==
    [s EXCEPT !.got = @ \o page.matches, !.cursor = page.cursor,
              !.st = IF page.cursor = <<>> THEN "done" ELSE "paging"]

(* query_route: a predicate that does not parse is refused before the       *)
(* repository is looked at; a branch without a commit does not resolve.     *)
FirstPage(at, prefix, where, limit) ==
    LET s == [st |-> "paging", at |-> at, prefix |-> prefix, where |-> where,
              cursor |-> <<>>, got |-> <<>>,
              pinned |-> IF at = Branch THEN CommitAt(Len(commits)) ELSE ResolveAt(at)]
    IN  /\ session = Idle
        /\ session' =
               IF where # <<>> /\ ~Predicate[where].ok THEN [st |-> "bad_query"]
               ELSE IF at = Branch /\ commits = <<>> THEN [st |-> "not_found"]
               ELSE Received(s, Page(at, prefix, where, <<>>, limit))
        /\ UNCHANGED <<nested, flat, commits>>

NextPage(limit) ==
    /\ session.st = "paging"
    /\ \E page \in {Page(session.at, session.prefix, session.where, session.cursor, limit)} :
           session' = Received(session, page)
    /\ UNCHANGED <<nested, flat, commits>>

(* Commits, whose own steps are those of Repo.                              *)
Commit ==
    /\ commits = <<>> /\ nested # None
    /\ \A p \in Paths \ TrackedPaths : flat[p] = NoFile
    /\ commits' = <<nested>>
    /\ UNCHANGED <<nested, flat, session>>

CommitEdit ==
    /\ commits # <<>> /\ Len(commits) < MaxCommits
    /\ \E p \in TrackedPaths : Delete(p) \/ \E v \in Values : Put(p, v)
    /\ nested' # nested /\ nested' # None
    /\ commits' = Append(commits, nested')
    /\ UNCHANGED session

Edit ==
    /\ commits = <<>> /\ session = Idle
    /\ TreeNext
    /\ UNCHANGED <<commits, session>>

PagesInit == TreeInit /\ commits = <<>> /\ session = Idle

(* Uncommitted trees are not asked about: a query does not see them.        *)
Ask == /\ commits # <<>> \/ nested = None
       /\ \E at \in {<<>>, Branch} \cup {CommitAt(n) : n \in DOMAIN commits} :
              \E prefix \in PathPrefixes, where \in Wheres, limit \in Limits :
                  FirstPage(at, prefix, where, limit)

Follow == \E limit \in Limits : NextPage(limit)

PagesNext == Edit \/ Commit \/ CommitEdit \/ Ask \/ Follow

PagesSpec == PagesInit /\ [][PagesNext]_pagesVars

-----------------------------------------------------------------------------
(* All that a query should find in a commit, without walk, offset or page.  *)
AllMatches(tree, prefix, where) ==
    LET found(p) == GetAt(tree, p)
        leaves == {p \in ManifestPaths : found(p) # Err /\ found(p)[1].mode = "leaf"}
        under == {[path |-> p, hash |-> found(p)[1].hash] : p \in leaves \cap prefix}
    IN  {e \in under : where = <<>> \/ Denotes(where, ManifestOf[e.hash])}

(* What a client has got so far: matches only, in rising order and so each  *)
(* once; what it has not got comes later, and nothing does at the end.      *)
Whole(s) ==
    LET all == IF s.pinned = <<>> THEN {} ELSE AllMatches(RootTree(s.pinned), s.prefix, s.where)
    IN  /\ \A i, j \in DOMAIN s.got : i < j => <<s.got[i].path, s.got[j].path>> \in TextBefore
        /\ Range(s.got) \subseteq all
        /\ \A e \in all \ Range(s.got) :
              /\ s.st = "paging"
              /\ \A i \in DOMAIN s.got : <<s.got[i].path, e.path>> \in TextBefore

(* The pages of a query at HEAD or at a commit are, one after the other,    *)
(* all the matches of the commit of the first page, each once and in order  *)
(* of path, whatever is committed between them and whatever limit each asks.  *)
PagesOfOneCommit ==
    session.st \in {"paging", "done"} /\ session.at # Branch => Whole(session)

FilesOf(tr) == [p \in {q \in Paths : tr[q] # NoFile} |-> tr[p]]

Follows(old, d, new) ==
    LET put == {p \in DOMAIN d : d[p].status # "removed"}
    IN  new = [p \in (DOMAIN old \ DOMAIN d) \cup put |-> IF p \in put THEN d[p].after[1] ELSE old[p]]

(* Whoever has the files of one commit and follows a diff from it to        *)
(* another has exactly the files of the other, also where one has a file    *)
(* for the other's directory: the merge of the two walks misses none and    *)
(* reports none that the other commit does not have.                        *)
DiffExact ==
    session = Idle =>
        LET here == Entries(nested)
        IN  \A tr \in Others :
                LET there == Entries(Nest(tr)[<<>>])
                IN  /\ Follows(FilesOf(flat), Diff(here, there, Paths), FilesOf(tr))
                    /\ Follows(FilesOf(tr), Diff(there, here, Paths), FilesOf(flat))

=============================================================================
