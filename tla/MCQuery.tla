------------------------------ MODULE MCQuery -------------------------------
(* Every tree over two names, three levels deep; every predicate of up to   *)
(* MaxTokens tokens, and with as many more after some longer openings; two  *)
(* commits of up to four files.                                             *)
EXTENDS Query

MCPaths == UNION {[1 .. n -> Names] : n \in 1 .. Depth}
MCUnder == {<<p, q>> \in MCPaths \X MCPaths : IsStrictPrefix(p, q)}

Name(w, s) == [w |-> w, s |-> s]
Str(s)     == [t |-> "string", v |-> s]
Obj(f)     == [t |-> "object", v |-> f]
Key(w)     == Name(w, LowerCase)

Manifest(type, fields) ==
    [top |-> [w \in TopLevel |-> IF w = "file_type" THEN Str(type) ELSE Str(<<3>>)],
     fields |-> fields]

\* a field a, spelt in two ways, in one manifest also as a.a and below a
\* field that is itself called fields
MCSamples ==
    {Manifest(ft, Key("a") :> Str(a)) : ft \in {<<1>>, <<2>>}, a \in {<<1>>, <<1, 2>>}}
      \cup {Manifest(<<2>>, Name("a", 1) :> Str(<<1>>)),
            Manifest(<<2>>, Name("a", 2) :> Obj(Name("a", 1) :> Str(<<1>>))),
            Manifest(<<2>>, (Key("a") :> Str(<<1>>)) @@
                            (Key("fields") :> Obj(Key("a") :> Str(<<2>>)))),
            Manifest(<<2>>, <<>>)}

MCAlphabet ==
    {Word(k) : k \in {"and", "or", "not", "exists", "(", ")", "."}}
      \cup {Tok("ident", Key(w)) : w \in {"a", "fields", "file_type"}}
      \cup {OpTok("="), Tok("lit", Str(<<1>>))}

CONSTANTS h1, h2
MCManifestOf == (h1 :> Manifest(<<1>>, <<>>)) @@ (h2 :> Manifest(<<2>>, <<>>))

\* a file where other trees have directories, and files below a directory
MCOthers ==
    LET with(S) == [p \in MCPaths |-> IF p \in S THEN h1 ELSE NoFile]
    IN  {with({<<1>>, <<2, 1>>, <<2, 2, 1>>}), with({<<1, 2, 2>>, <<2>>})}

MCTracked == {<<1, 1>>, <<1, 2, 1>>, <<2, 1>>, <<2, 2>>}

\* one of them is a schema
MCManifestPaths == MCPaths \ {<<2, 1>>}

Atom(w) == <<Tok("ident", Key(w)), OpTok("="), Tok("lit", Str(<<1>>))>>
MCOpenings ==
    {<<>>, <<Word("not")>>, <<Word("(")>>, <<Word("exists")>>, <<Word("not")>> \o Atom("a")}
      \cup {Atom("a") \o <<Word(k)>> \o Atom("file_type") : k \in {"and", "or"}}

\* the names are a and a.a: numbers for the bytes of ".", "/" and "a"
Spelt(n) == IF n = 1 THEN <<3>> ELSE <<3, 1, 3>>
Text(p) == FlattenSeq([i \in DOMAIN p |-> IF i = 1 THEN Spelt(p[1]) ELSE <<2>> \o Spelt(p[i])])
MCTextBefore ==
    LET text == [p \in MCPaths |-> Text(p)]
    IN  {<<p, q>> \in MCPaths \X MCPaths :
            Before(text[p], text[q]) \/ IsStrictPrefix(text[p], text[q])}

\* none, and "a/"
MCPrefixes == {MCPaths, {p \in MCPaths : IsPrefix(<<3, 2>>, Text(p))}}
MCWheres ==
    {<<>>, Atom("file_type"), <<Word("not")>>}
=============================================================================
