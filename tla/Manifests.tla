----------------------------- MODULE Manifests ------------------------------
(***************************************************************************)
(* What is written in a manifest: schemas and their field order            *)
(* (crates/omp-core/src/schema.rs), the engine that resolves the fields of *)
(* a file (engine.rs), and the rebuilding of every manifest of a file type *)
(* when a commit changes its schema (api.rs, run_auto_reprobe).            *)
(*                                                                         *)
(* Field names, file types and paths are numbers in the order the code     *)
(* sorts them.  A value is a type and a number; the strings 2i and 2i+1    *)
(* have 2i for both lower and slugify.  A probe is a pure function of its  *)
(* bytes, the content and the `path` argument.  An object's hash is the    *)
(* object.  HEAD and the index are kept by the Repo module: here they are  *)
(* the schemas, probes and manifests at HEAD and those staged.             *)
(***************************************************************************)
EXTENDS Integers, Sequences, FiniteSets, SequencesExt, FiniteSetsExt, Functions, TLC

CONSTANTS Paths,          \* paths of user files
          Contents,       \* contents of files
          SizeOf,         \* bytes in a content
          MimeOf,         \* what sniff_mime makes of a content
          Configs,        \* what may be offered as omp.toml
          InitialConfig,  \* omp.toml at HEAD to begin with
          RepoFuel,       \* [probes] fuel
          QuotaFuel,      \* the tenant's probe_fuel_per_request, 0 for none
          Starters,       \* schemas that init left in the working tree
          MinimalSchema,  \* the built-in _minimal schema
          StarterProbes,  \* the probes compiled into the program
          ProbeBlobs,     \* what may be committed as the blob of a probe
          Refused,        \* modules with host imports or without the exports
          FuelNeeded(_, _, _), \* by a probe for a content and a path
          Outcome(_, _, _), \* what it makes of them
          Schemas,        \* schemas that may be offered
          Supplies,       \* user fields that may be given with a file
          InitialSchemas, \* schemas one of which is at HEAD to begin with
          InitialProbes,  \* probes at HEAD to begin with
          Overrides,      \* file types given with a file, 0 for none
          MaxCommits

ASSUME ManifestsAssumption ==
    /\ Paths \subseteq Nat /\ IsFiniteSet(Paths)
    /\ {InitialConfig} \subseteq Configs
    /\ RepoFuel \in Nat /\ QuotaFuel \in Nat

VARIABLES head,       \* HEAD's tree: schemas, probes, files
          staged,     \* the index
          offer,      \* the schema offered last and what add said to it
          skipped,    \* the paths the last commit reported as skipped
          deferred,   \* was OMP_DEFER_REPROBE set at the last commit?
          drifted,    \* paths rebuilt from a manifest HEAD's schema did not make
          commits     \* how many commits there were

vars == <<head, staged, offer, skipped, deferred, drifted, commits>>

(* BTreeMap::insert, and a map read where another has nothing.              *)
Put(f, key, v) == [x \in DOMAIN f \cup {key} |-> IF x = key THEN v ELSE f[x]]
Over(f, g)     == [x \in DOMAIN f \cup DOMAIN g |-> IF x \in DOMAIN f THEN f[x] ELSE g[x]]

---------------------------------------------------------------------------
(* Values, sources and fields.                                              *)

Value(t, n) == [t |-> t, n |-> n]
Null        == Value("null", 0)
Failed      == Value("failed", 0)     \* a probe that did not return

Constant(v)         == [k |-> "constant", v |-> v]
FromProbe(p, path)  == [k |-> "probe", probe |-> p, path |-> path]  \* 0: no path argument
UserProvided        == [k |-> "user"]
FromField(from, tr) == [k |-> "field", from |-> from, tr |-> tr]

(* A field: its source, then the sources of its nested fallbacks.           *)
Field(chain, type, required) == [chain |-> chain, type |-> type, required |-> required]
Primary(field) == field.chain[1]

Accepts(type, v) ==
    \/ v = Null
    \/ v.t = type
    \/ type = "float" /\ v.t = "int"
    \/ type = "datetime" /\ v.t = "string"

NormalizeValue(v, type) ==
    IF type = "float" /\ v.t = "int" THEN Value("float", v.n) ELSE v

Transform(tr, v) ==
    IF tr \in {"lower", "slugify"} /\ v.t = "string" THEN [v EXCEPT !.n = @ - (@ % 2)] ELSE v

---------------------------------------------------------------------------
(* Parsing a schema.                                                        *)

Dependents(fields, n) ==
    {m \in DOMAIN fields : Primary(fields[m]).k = "field" /\ Primary(fields[m]).from = n}

Ascending(S) ==
    CHOOSE s \in [1 .. Cardinality(S) -> S] : \A i, j \in DOMAIN s : i < j => s[i] < s[j]
Descending(S) ==
    CHOOSE s \in [1 .. Cardinality(S) -> S] : \A i, j \in DOMAIN s : i < j => s[i] > s[j]

(* One turn of the loop: the last of the ready names is put out, and the    *)
(* fields that waited for it, one source each, become ready.                *)
PopReady(fields, st) ==
    LET n    == Last(st.ready)
        deps == Dependents(fields, n)
        rest == Front(st.ready)
    IN  IF st.ready = <<>> THEN st
        ELSE [out   |-> Append(st.out, n),
              ready |-> IF deps = {} THEN rest ELSE Descending(Range(rest) \cup deps)]

(* Faulty: the fields in the order of their names.                          *)
ByName(fields) == Ascending(DOMAIN fields)

TopoSort(fields) ==
    LET start == [out |-> <<>>,
                  ready |-> Ascending({n \in DOMAIN fields : Primary(fields[n]).k # "field"})]
        turn[i \in 0 .. Cardinality(DOMAIN fields)] ==
            IF i = 0 THEN start ELSE PopReady(fields, turn[i - 1])
    IN  turn[Cardinality(DOMAIN fields)].out

SelfReference(fields) == \E n \in DOMAIN fields : n \in Dependents(fields, n)

(* Faulty: the check that every field was put out is missing.               *)
NoLengthCheck(fields) == TRUE

EverySorted(fields) == Len(TopoSort(fields)) = Cardinality(DOMAIN fields)

SourcesOf(fields) == UNION {Range(fields[n].chain) : n \in DOMAIN fields}

CheckFieldRefs(fields) ==
    \A src \in SourcesOf(fields) : src.k = "field" => src.from \in DOMAIN fields

ParseAccepts(fields) ==
    /\ ~SelfReference(fields)
    /\ EverySorted(fields)
    /\ CheckFieldRefs(fields)

(* What the deserializer makes of a schema's text: finitely many fields,    *)
(* each of a type that values have, with a source of one of four kinds and  *)
(* fallbacks of these kinds.                                                *)
WellFormed(fields) ==
    /\ DOMAIN fields \subseteq Nat /\ IsFiniteSet(DOMAIN fields)
    /\ \A n \in DOMAIN fields :
          /\ fields[n].type # Failed.t
          /\ fields[n].chain \in Seq(Range(fields[n].chain)) \ {<<>>}
          /\ \A src \in Range(fields[n].chain) : src.k \in {"constant", "probe", "user", "field"}

(* A schema offered may be one that does not sort; those there to begin     *)
(* with do, since load_all_schemas leaves out what does not parse.          *)
ASSUME SchemasAssumption ==
    /\ DOMAIN Starters \subseteq Nat
    /\ \A s \in Schemas \cup InitialSchemas : s.type \in Nat /\ WellFormed(s.fields)
    /\ \A s \in InitialSchemas \cup Range(Starters) \cup {MinimalSchema} :
          WellFormed(s.fields) /\ ParseAccepts(s.fields)

ValidateProbeRefs(fields, probes) ==
    \A src \in SourcesOf(fields) : src.k = "probe" => src.probe \in DOMAIN probes

---------------------------------------------------------------------------
(* The engine.  An ingest is what is known so far: the value of the field   *)
(* at hand, the resolved fields, the probes that fired, the cache, and      *)
(* whether an error ended it.                                               *)

Fail(ing) == [ing EXCEPT !.ok = FALSE]

SourceHash(in) == <<in.content, in.chunked>>

EffectivePath(src, in) == IF src.path = 0 THEN in.path ELSE src.path

(* Faulty: the path argument is not part of the key.                        *)
KeyWithoutArgs(source, wasm, path) == <<source, wasm, 0>>

CacheKey(source, wasm, path) == <<source, wasm, path>>

(* Only the streaming built-ins of a chunked file.                          *)
StreamingBuiltin(probe, content) ==
    CASE probe = "file.size"   -> Value("int", SizeOf[content])
      [] probe = "file.sha256" -> Value("string", 2 * content)
      [] OTHER -> Null

EffectiveCap(blob) == IF blob.cap = 0 THEN head.config.memory ELSE blob.cap

(* clamp_probe: the tenant's ceiling, where there is one, if it is lower.   *)
ClampProbe(fuel, quota) == IF quota # 0 /\ quota < fuel THEN quota ELSE fuel

(* run_probe: one call in a sandbox of its own.                             *)
RunProbe(wasm, content, path) ==
    IF wasm \in Refused \/ FuelNeeded(wasm, content, path) > ClampProbe(RepoFuel, QuotaFuel)
    THEN Failed ELSE Outcome(wasm, content, path)

(* A probe whose value is used is recorded in the manifest with its hash.   *)
RecordFired(ing, probe, blob) == [ing EXCEPT !.fired = Put(@, probe, blob.wasm)]

CacheHit(ing, probe, blob, v) == [RecordFired(ing, probe, blob) EXCEPT !.val = v]

ResolveProbe(src, in, probes, ing) ==
    LET blob  == probes[src.probe]
        path  == EffectivePath(src, in)
        key   == CacheKey(SourceHash(in), blob.wasm, path)
        out   == RunProbe(blob.wasm, in.content, path)
    IN  CASE src.probe \notin DOMAIN probes -> Fail(ing)
          [] OTHER ->
        CASE in.chunked -> [ing EXCEPT !.val = StreamingBuiltin(src.probe, in.content)]
          [] ~in.chunked /\ SizeOf[in.content] > EffectiveCap(blob) -> [ing EXCEPT !.val = Null]
          [] OTHER ->
        CASE key \in DOMAIN ing.cache -> CacheHit(ing, src.probe, blob, ing.cache[key])
          [] key \notin DOMAIN ing.cache /\ out = Failed -> Fail(ing)
          [] OTHER -> [RecordFired(ing, src.probe, blob) EXCEPT
                           !.val = out, !.cache = Put(@, key, out)]

(* The k-th source of a field.  A fallback has a name of its own,           *)
(* `<name>.fallback`, under which no user field is given.                   *)
ResolveSource(name, k, src, in, probes, ing) ==
    CASE src.k = "constant" -> [ing EXCEPT !.val = src.v]
      [] src.k = "user" ->
           [ing EXCEPT !.val = IF k = 1 /\ name \in DOMAIN in.user THEN in.user[name] ELSE Null]
      [] src.k = "field" ->
           [ing EXCEPT !.val = Transform(src.tr, IF src.from \in DOMAIN ing.resolved
                                                 THEN ing.resolved[src.from] ELSE Null)]
      [] src.k = "probe" -> ResolveProbe(src, in, probes, ing)

(* A fallback is used when what comes before it resolved to null.           *)
TrySource(name, k, field, in, probes, ing) ==
    IF ing.ok /\ (k = 1 \/ ing.val = Null)
    THEN ResolveSource(name, k, field.chain[k], in, probes, ing) ELSE ing

ResolveField(name, field, in, probes, ing) ==
    LET tried[k \in 0 .. Len(field.chain)] ==
            IF k = 0 THEN ing ELSE TrySource(name, k, field, in, probes, tried[k - 1])
    IN  tried[Len(field.chain)]

(* What is made of a field that has been resolved.                          *)
KeepField(name, field, ing, r) ==
    CASE ~ing.ok -> ing
      [] ing.ok /\ (~r.ok \/ (field.required /\ r.val = Null) \/ ~Accepts(field.type, r.val)) ->
           Fail(r)
      [] OTHER -> [r EXCEPT !.resolved = Put(@, name, NormalizeValue(r.val, field.type))]

IngestField(name, field, in, probes, ing) ==
    KeepField(name, field, ing, ResolveField(name, field, in, probes, ing))

(* Manifest::serialize leaves the nulls out.                                *)
WithoutNulls(fields) == Restrict(fields, {n \in DOMAIN fields : fields[n] # Null})

Manifest(in, schema, ing) ==
    [source |-> SourceHash(in), type |-> schema.type, schema |-> schema,
     probes |-> ing.fired, fields |-> WithoutNulls(ing.resolved)]

(* The loop over the fields of a schema, in the order topo_sort put them.   *)
IngestFields(in, fields, probes, cache) ==
    LET start == [ok |-> TRUE, val |-> Null, resolved |-> <<>>, fired |-> <<>>, cache |-> cache]
        order == TopoSort(fields)
        turn[i \in 0 .. Len(order)] ==
            IF i = 0 THEN start
            ELSE IngestField(order[i], fields[order[i]], in, probes, turn[i - 1])
    IN  turn[Len(order)]

IngestResult(in, schema, ing) ==
    LET extra == Restrict(in.user, DOMAIN in.user \ DOMAIN schema.fields)
    IN  [ok       |-> ing.ok /\ (schema.extra \/ extra = <<>>),
         manifest |-> Manifest(in, schema, [ing EXCEPT !.resolved = Over(@, extra)]),
         cache    |-> ing.cache]

IngestWithCache(in, schema, probes, cache) ==
    IngestResult(in, schema, IngestFields(in, schema.fields, probes, cache))

---------------------------------------------------------------------------
(* Adding files, schemas and probes: what add does with each, read against  *)
(* HEAD and never against the index.                                        *)

(* current_probes: the starter pack, shadowed by what is at HEAD.           *)
CurrentProbes == Over(head.probes, StarterProbes)

(* load_all_schemas: HEAD's, and those of the working tree HEAD lacks.      *)
LoadAllSchemas == Over(head.schemas, Starters)

(* detect_file_type: the override, else the first type that matches.        *)
DetectFileType(override, mime, schemas) ==
    IF override # 0 THEN {override} \cap DOMAIN schemas
    ELSE LET matching == {t \in DOMAIN schemas : mime \in schemas[t].mimes}
         IN  IF matching = {} THEN {} ELSE {Min(matching)}

(* The schema for a file, {} when it is to be rejected.                     *)
SchemaFor(override, content) ==
    LET types == DetectFileType(override, MimeOf[content], LoadAllSchemas)
    IN  IF types # {} THEN {LoadAllSchemas[t] : t \in types}
        ELSE IF head.config.policy = "minimal" THEN {MinimalSchema} ELSE {}

IngestInput(path, content, user, chunked) ==
    [path |-> path, content |-> content, user |-> user, chunked |-> chunked]

IsChunked(content) == SizeOf[content] >= head.config.chunk

AddFile(path, content, user, override) ==
    \E schema \in SchemaFor(override, content) :
        LET in == IngestInput(path, content, user, IsChunked(content))
            r  == IngestWithCache(in, schema, CurrentProbes, <<>>)
        IN  /\ ValidateProbeRefs(schema.fields, CurrentProbes)
            /\ r.ok
            /\ staged' = [staged EXCEPT !.files = Put(@, path, r.manifest)]
            /\ offer' = <<>>
            /\ UNCHANGED <<head, skipped, deferred, drifted, commits>>

AddSchema(schema) ==
    LET ok == ParseAccepts(schema.fields) /\ ValidateProbeRefs(schema.fields, CurrentProbes)
    IN  /\ offer' = <<schema, ok>>
        /\ staged' = IF ok THEN [staged EXCEPT !.schemas = Put(@, schema.type, schema)] ELSE staged
        /\ UNCHANGED <<head, skipped, deferred, drifted, commits>>

(* RepoConfig::parse                                                        *)
ConfigAccepts(c) == c.policy \in {"reject", "minimal"} /\ c.chunk > 0

AddConfig(c) ==
    /\ staged' = IF ConfigAccepts(c) THEN [staged EXCEPT !.config = <<c>>] ELSE staged
    /\ offer' = <<>>
    /\ UNCHANGED <<head, skipped, deferred, drifted, commits>>

AddProbe(probe, blob) ==
    /\ staged' = [staged EXCEPT !.probes = Put(@, probe, blob)]
    /\ offer' = <<>>
    /\ UNCHANGED <<head, skipped, deferred, drifted, commits>>

---------------------------------------------------------------------------
(* A commit, and in it the reprobe of the files at HEAD whose schema it     *)
(* changes.                                                                 *)

SchemasEqual(a, b) == a.type = b.type /\ a.extra = b.extra /\ a.fields = b.fields

SourceAt(schema, n) == Primary(schema.fields[n])

(* The values to carry over: user-provided by the schema at HEAD.           *)
CarriedUserFields(old, new, m) ==
    Restrict(m.fields, {n \in DOMAIN m.fields \cap DOMAIN old.fields :
                            SourceAt(old, n) = UserProvided})

(* A value stands when its source is unchanged and its probe is the one     *)
(* the old manifest recorded.                                               *)
Reused(old, new, m, probes) ==
    {n \in DOMAIN new.fields \cap DOMAIN old.fields \cap DOMAIN m.fields :
        /\ SourceAt(old, n) = SourceAt(new, n)
        /\ SourceAt(new, n).k = "probe" =>
              LET p == SourceAt(new, n).probe
              IN  /\ p \in DOMAIN probes \cap DOMAIN m.probes
                  /\ m.probes[p] = probes[p].wasm}

(* Values of reused probe fields are put in the cache before the ingest.    *)
SeedField(n, path, old, new, m, probes, cache) ==
    LET src == SourceAt(new, n)
    IN  IF n \in Reused(old, new, m, probes) /\ src.k = "probe"
        THEN Put(cache, CacheKey(m.source, probes[src.probe].wasm,
                                 EffectivePath(src, [path |-> path])), m.fields[n])
        ELSE cache

SeedCache(path, old, new, m, probes, cache) ==
    LET order == TopoSort(new.fields)
        seeded[i \in 0 .. Len(order)] ==
            IF i = 0 THEN cache
            ELSE SeedField(order[i], path, old, new, m, probes, seeded[i - 1])
    IN  seeded[Len(order)]

(* The schema without fields stands for none at HEAD.                       *)
OldSchema(type) ==
    IF type \in DOMAIN LoadAllSchemas THEN LoadAllSchemas[type] ELSE [fields |-> <<>>]

ReprobeOne(path, new, m, probes, cache) ==
    LET old == OldSchema(new.type)
        in  == IngestInput(path, m.source[1], CarriedUserFields(old, new, m), FALSE)
    IN  IngestWithCache(in, new, probes, SeedCache(path, old, new, m, probes, cache))

(* What comes of a rebuilt file, or of one that could not be.               *)
TakeUp(pass, path, r) ==
    [cache   |-> r.cache,
     files   |-> IF r.ok THEN Put(pass.files, path, r.manifest) ELSE pass.files,
     skipped |-> IF r.ok THEN pass.skipped ELSE pass.skipped \cup {path}]

(* One file of the walk.                                                    *)
ReprobeFile(pass, path, new) ==
    LET m == head.files[path]
    IN  CASE m.type # new.type \/ m.schema = new -> pass
          [] m.type = new.type /\ m.schema # new /\ m.source[2] ->
               [pass EXCEPT !.skipped = @ \cup {path}]
          [] OTHER -> TakeUp(pass, path, ReprobeOne(path, new, m, CurrentProbes, pass.cache))

ChangedTypes ==
    {t \in DOMAIN staged.schemas :
        ~(t \in DOMAIN LoadAllSchemas /\ SchemasEqual(staged.schemas[t], LoadAllSchemas[t]))}

NoReprobe == [cache |-> <<>>, files |-> <<>>, skipped |-> {}]

(* One cache for the whole pass; types and paths in their order.            *)
ReprobeType(pass, new) ==
    LET paths == Ascending(DOMAIN head.files)
        walk[i \in 0 .. Len(paths)] ==
            IF i = 0 THEN pass ELSE ReprobeFile(walk[i - 1], paths[i], new)
    IN  walk[Len(paths)]

AutoReprobe ==
    LET types == Ascending(ChangedTypes)
        pass[i \in 0 .. Len(types)] ==
            IF i = 0 THEN NoReprobe ELSE ReprobeType(pass[i - 1], staged.schemas[types[i]])
    IN  pass[Len(types)]

NothingStaged == [schemas |-> <<>>, probes |-> <<>>, files |-> <<>>, config |-> <<>>]

(* A probe staged for removal.                                              *)
NoBlob == [wasm |-> "", cap |-> 0]
WithoutRemoved(probes) == Restrict(probes, {p \in DOMAIN probes : probes[p] # NoBlob})

(* Was the manifest at HEAD made by the schema at HEAD?                     *)
MadeAtHead(path) ==
    LET m == head.files[path]
    IN  m.type \in DOMAIN LoadAllSchemas /\ SchemasEqual(m.schema, LoadAllSchemas[m.type])

(* What was rebuilt takes the place of what was staged for the path.        *)
Commit(defer) ==
    /\ staged # NothingStaged
    /\ commits < MaxCommits
    /\ commits' = commits + 1
    /\ \E pass \in {IF defer THEN NoReprobe ELSE AutoReprobe} :
          /\ head' = [schemas |-> Over(staged.schemas, head.schemas),
                      probes  |-> WithoutRemoved(Over(staged.probes, head.probes)),
                      files   |-> Over(pass.files, Over(staged.files, head.files)),
                      config  |-> IF staged.config = <<>> THEN head.config ELSE staged.config[1]]
          /\ skipped' = pass.skipped
          /\ drifted' = {p \in DOMAIN pass.files : ~MadeAtHead(p)} \cup
                        (drifted \ (DOMAIN staged.files \ DOMAIN pass.files))
    /\ staged' = NothingStaged
    /\ offer' = <<>>
    /\ deferred' = defer

---------------------------------------------------------------------------
Init ==
    /\ \E s \in InitialSchemas :
          head = [schemas |-> Put(<<>>, s.type, s), probes |-> InitialProbes,
                  files |-> <<>>, config |-> InitialConfig]
    /\ staged = NothingStaged
    /\ offer = <<>>
    /\ deferred = FALSE
    /\ drifted = {}
    /\ skipped = {}
    /\ commits = 0

Next ==
    \/ \E path \in Paths, c \in Contents, u \in Supplies, o \in Overrides : AddFile(path, c, u, o)
    \/ \E s \in Schemas : AddSchema(s)
    \/ \E b \in ProbeBlobs : AddProbe(b.probe, b.blob)
    \/ \E c \in Configs : AddConfig(c)
    \/ \E defer \in BOOLEAN : Commit(defer)

Spec == Init /\ [][Next]_vars

---------------------------------------------------------------------------
(* Properties.                                                              *)

(* The dependencies of a schema can be ranked.                              *)
Acyclic(fields) ==
    \E rank \in [DOMAIN fields -> 1 .. Cardinality(DOMAIN fields)] :
        \A n \in DOMAIN fields :
            Primary(fields[n]).k = "field" => rank[Primary(fields[n]).from] < rank[n]

(* add takes a schema exactly when every field it names exists, every       *)
(* probe is there, and no field depends on itself, however far around       *)
(* (schema.rs, topo_sort and check_field_refs).                             *)
SchemaAccepted ==
    offer # <<>> =>
        LET fields == offer[1].fields
        IN  offer[2] <=> /\ CheckFieldRefs(fields)
                         /\ \A src \in SourcesOf(fields) :
                               src.k = "probe" => src.probe \in DOMAIN CurrentProbes
                         /\ Acyclic(fields)

FieldOf(m, n) == IF n \in DOMAIN m.fields THEN m.fields[n] ELSE Null

(* A derived field of a manifest is derived from the value the manifest     *)
(* holds, in whatever order the schema names its fields (engine.rs,         *)
(* resolve_source).                                                         *)
DerivedIn(m) ==
    \A n \in DOMAIN m.schema.fields :
        LET f == m.schema.fields[n] IN
        (Len(f.chain) = 1 /\ Primary(f).k = "field") =>
            FieldOf(m, n) = NormalizeValue(Transform(Primary(f).tr, FieldOf(m, Primary(f).from)),
                                           f.type)

DerivedAgree ==
    /\ \A p \in DOMAIN head.files : DerivedIn(head.files[p])
    /\ \A p \in DOMAIN staged.files : DerivedIn(staged.files[p])

(* What a probe gives for a stored manifest, run again from the record.     *)
Replayed(path, m, src) ==
    IF m.source[2] THEN StreamingBuiltin(src.probe, m.source[1])
    ELSE IF src.probe \in DOMAIN m.probes
         THEN RunProbe(m.probes[src.probe], m.source[1], EffectivePath(src, [path |-> path]))
         ELSE Null

Replays(path, m) ==
    /\ m.source[2] => m.probes = <<>>
    /\ \A n \in DOMAIN m.schema.fields :
          LET f == m.schema.fields[n] IN
          (Len(f.chain) = 1 /\ Primary(f).k = "probe") =>
              FieldOf(m, n) = NormalizeValue(Replayed(path, m, Primary(f)), f.type)

(* The probe hashes of a manifest replay it: a field that only a probe      *)
(* gives is what the recorded probe makes of the recorded source, and is    *)
(* absent when no probe is recorded; nothing is recorded for a chunked      *)
(* file (engine.rs, TreeView and resolve_source).  So it is unless the      *)
(* manifest was rebuilt from one that another schema than HEAD's had made,  *)
(* as long as no probe has a path argument or a fallback: what those give   *)
(* may be taken over for another file or as what the probe gave.            *)
StagedReplay == \A p \in DOMAIN staged.files : Replays(p, staged.files[p])

ProbesReplay == StagedReplay /\ \A p \in DOMAIN head.files \ drifted : Replays(p, head.files[p])

(* Every field of a stored manifest is what its source gives, whether the   *)
(* source is another field or a probe.                                      *)
FieldsFollowSources == DerivedAgree /\ ProbesReplay

(* What the comment on TreeView says of every manifest: the hash of a probe *)
(* is stored so that the extraction replays bit for bit.                    *)
ReplaysBitForBit == \A p \in DOMAIN head.files : Replays(p, head.files[p])

(* A file at HEAD that the commit in progress would rebuild, and that HEAD's *)
(* schema made, from the start.                                             *)
Current(path) ==
    LET m == head.files[path]
    IN  /\ m.type \in ChangedTypes
        /\ m.schema # staged.schemas[m.type]
        /\ MadeAtHead(path)
        /\ path \notin drifted

Reprobes == commits' = commits + 1 /\ ~deferred'

(* A schema change rebuilds every file as if it were added now with the     *)
(* user's fields, whatever values were reused and whichever files came      *)
(* before it; a file that cannot be rebuilt keeps its manifest, is          *)
(* reported, and stops no other (api.rs, run_auto_reprobe and reprobe_one). *)
(* As above for probes with arguments or fallbacks, and for whole numbers   *)
(* that a float field has rounded.                                          *)
ReprobeAsFresh ==
    [][Reprobes =>
        \A path \in DOMAIN head.files : Current(path) =>
            LET m     == head.files[path]
                given == Restrict(m.fields, {n \in DOMAIN m.fields \cap DOMAIN m.schema.fields :
                                                SourceAt(m.schema, n) = UserProvided})
                fresh == IngestWithCache(IngestInput(path, m.source[1], given, FALSE),
                                         staged.schemas[m.type], CurrentProbes, <<>>)
            IN  IF ~m.source[2] /\ fresh.ok
                THEN head'.files[path] = fresh.manifest
                ELSE /\ path \in skipped'
                     /\ head'.files[path] = Over(staged.files, head.files)[path]]_vars

=============================================================================
