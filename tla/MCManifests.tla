---------------------------- MODULE MCManifests -----------------------------
(* Two files, two versions of a probe, schemas of two fields that change in *)
(* one of them, and every dependency between three fields.                  *)
EXTENDS Manifests

CONSTANTS FieldOptions,   \* fields of the schemas that are committed
          MaxStaged       \* how much is staged for one commit

\* 1 and 2 are small, 3 is chunked, 4 has no schema
MCSizeOf == (1 :> 1) @@ (2 :> 2) @@ (3 :> 4) @@ (4 :> 1)
MCMimeOf == (1 :> "text") @@ (2 :> "text") @@ (3 :> "text") @@ (4 :> "other")

Str(n) == Value("string", n)
Schema(type, mimes, extra, note, fields) ==
    [type |-> type, mimes |-> mimes, extra |-> extra, note |-> note, fields |-> fields]

MCMinimal ==
    Schema(0, {}, FALSE, 0, (1 :> Field(<<FromProbe("file.size", 0)>>, "int", FALSE)))
\* the working tree has a schema for type 2, and one for 1 that HEAD shadows
MCStarters ==
    (1 :> Schema(1, {"other"}, FALSE, 0, <<>>)) @@
    (2 :> Schema(2, {"text"}, TRUE, 0, <<>>))

Wasm(w, cap) == [wasm |-> w, cap |-> cap]
MCStarterProbes == ("file.size" :> Wasm("size", 0)) @@ ("meta" :> Wasm("starter", 0))
MCInitialProbes == "meta" :> Wasm("meta", 0)
MCProbeBlobs ==
    {[probe |-> "meta", blob |-> b] : b \in {Wasm("newer", 0), Wasm("imports", 0), Wasm("meta", 1), NoBlob}}

Config(chunk, policy, memory) == [chunk |-> chunk, policy |-> policy, memory |-> memory]
MCInitialConfig == Config(4, "minimal", 8)
MCConfigs ==
    {MCInitialConfig, Config(1, "reject", 8), Config(4, "reject", 1),
     Config(0, "minimal", 8), Config(4, "none", 8)}

\* the newer probe runs out of fuel on path 1; the older finds nothing in content 2
MCRefused == {"imports"}
MCFuelNeeded(w, c, path) == IF w = "newer" /\ path = 1 THEN 9 ELSE 5
MCOutcome(w, c, path) ==
    CASE w = "size" -> Value("int", MCSizeOf[c])
      [] w = "meta" -> IF c = 2 THEN Null ELSE Str(10 * c + path)
      [] w = "newer" -> Str(11 * c)
      [] w = "starter" -> Str(7)

Optional(chain, type) == Field(chain, type, FALSE)
Meta == FromProbe("meta", 0)

\* a probe is never given a fallback of its own: see PlainProbes in ManifestProofs
SomeFields ==
    {Optional(<<Constant(Str(3))>>, "string"),
     Optional(<<UserProvided>>, "string"),
     Field(<<UserProvided>>, "datetime", TRUE),
     Optional(<<UserProvided, Meta>>, "string"),
     Optional(<<Meta>>, "string"),
     Optional(<<FromProbe("meta", 2)>>, "string"),
     Field(<<Meta>>, "string", TRUE),
     Optional(<<FromProbe("file.size", 0)>>, "int"),
     Optional(<<FromField(2, "lower")>>, "string"),
     Optional(<<FromField(1, "identity")>>, "float")}

\* what the second field is to begin with
SecondFields ==
    {Optional(<<UserProvided>>, "string"), Optional(<<Meta>>, "string")}

\* the same probe with and without an argument
ArgumentFields ==
    {Optional(<<Meta>>, "string"), Optional(<<FromProbe("meta", 2)>>, "string")}

\* extra and note never change both
Committed ==
    {s \in {Schema(1, {"text"}, extra, note, (1 :> a) @@ (2 :> b)) :
                a, b \in FieldOptions, extra \in BOOLEAN, note \in {0, 1}} :
        ParseAccepts(s.fields) /\ ~(s.extra /\ s.note = 1)}
MCInitialSchemas == {s \in Committed : ~s.extra /\ s.note = 0 /\ s.fields[2] \in SecondFields}

\* every way three fields may refer to each other, and to one that is absent
Linked ==
    {<<Constant(Str(3))>>, <<Meta, FromField(1, "lower")>>}
      \cup {<<FromField(n, "lower")>> : n \in 1 .. 4}
OfferedSchemas ==
    {Schema(1, {"text"}, FALSE, 0, [n \in 1 .. 3 |-> Optional(c[n], "string")]) :
        c \in [1 .. 3 -> Linked]}
MCSchemas == Committed \cup OfferedSchemas

MCSupplies == {<<>>, (1 :> Str(5))}

Differ(s, t) ==
    Cardinality({n \in {1, 2} : s.fields[n] # t.fields[n]}) +
    (IF s.extra # t.extra THEN 1 ELSE 0) + (IF s.note # t.note THEN 1 ELSE 0) = 1

StagedCount == Cardinality(DOMAIN staged.files) + Cardinality(DOMAIN staged.schemas) +
               Cardinality(DOMAIN staged.probes) + Len(staged.config)
Room == StagedCount < MaxStaged /\ commits < MaxCommits

\* first the files, or a schema that is only offered; then what changes them;
\* of the chunked files only that at path 2 has user fields
MCNext ==
    \/ /\ commits = 0 /\ DOMAIN staged.files \subseteq {2} /\ staged.schemas = <<>>
       /\ \E c \in Contents, u \in Supplies, o \in Overrides :
             /\ o # 0 => c = 4 /\ u # <<>>
             /\ c = 3 => u = <<>>
             /\ AddFile(1, c, u, o)
    \/ \E c \in {1, 3}, u \in Supplies :
          /\ commits = 0 /\ staged = NothingStaged
          /\ c = 3 => u # <<>>
          /\ AddFile(2, c, u, 0)
    \/ /\ commits = 0 /\ staged = NothingStaged /\ offer = <<>>
       /\ \E s \in OfferedSchemas : AddSchema(s)
    \/ \E u \in Supplies : /\ commits > 0 /\ Room /\ staged.files = <<>>
                           /\ AddFile(1, 1, u, 0)
    \/ /\ commits > 0 /\ Room /\ staged.schemas = <<>>
       /\ \E s \in Committed : Differ(s, head.schemas[1]) /\ AddSchema(s)
    \/ \E b \in ProbeBlobs : /\ commits > 0 /\ Room /\ staged.probes = <<>>
                             /\ AddProbe(b.probe, b.blob)
    \/ \E c \in Configs : commits > 0 /\ Room /\ staged.config = <<>> /\ AddConfig(c)
    \/ \E defer \in BOOLEAN : /\ commits = 0 => staged.schemas = <<>>
                              /\ defer => staged.schemas # <<>>
                              /\ Commit(defer)

MCSpec == Init /\ [][MCNext]_vars
=============================================================================
