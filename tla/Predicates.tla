----------------------------- MODULE Predicates -----------------------------
(***************************************************************************)
(* The predicate language of GET /query (crates/omp-core/src/query.rs):    *)
(* its parser, which descends over a list of tokens, and its evaluator,    *)
(* which runs one parsed predicate on one manifest.                        *)
(*                                                                         *)
(* A token is a kind and a value.  A name is a word and one of its         *)
(* spellings; the spellings of a word are numbered in byte order and the   *)
(* all-lowercase one comes last, as in ASCII.  A string is a sequence of   *)
(* byte numbers.  A number is counted in units of which two make one       *)
(* f64::EPSILON, so that a comparison sees numbers it cannot tell apart;   *)
(* integers stay below 2^53, where their conversion to f64 is exact.       *)
(***************************************************************************)
EXTENDS Integers, Sequences, SequencesExt, FiniteSets, FiniteSetsExt

Epsilon   == 2
LowerCase == 3

TopLevel == {"file_type", "source_hash", "schema_hash", "ingested_at", "ingester_version"}

Word(kind)       == [k |-> kind]
Tok(kind, value) == [k |-> kind, v |-> value]
OpTok(op)        == Tok("op", [o |-> op])

Compare(path, op, lit) == [e |-> "compare", path |-> path, op |-> op, lit |-> lit]
Exists(path)           == [e |-> "exists", path |-> path]
And(a, b)              == [e |-> "and", a |-> a, b |-> b]
Or(a, b)               == [e |-> "or", a |-> a, b |-> b]
Not(a)                 == [e |-> "not", a |-> a]

(* What a parsing function returns: the tree and the place after it, or the *)
(* place of the token that does not fit, one past the last for the end.     *)
Parsed(x, p) == [ok |-> TRUE, x |-> x, pos |-> p]
Failed(p)    == [ok |-> FALSE, pos |-> p]

Peek(ts, p) == IF p <= Len(ts) THEN ts[p].k ELSE "end"

(* The parsing functions take a table `at` of what the rules of the grammar *)
(* make of the tokens from a place on, in which they look up the rules they *)
(* call.                                                                    *)

(* ident { "." ident }                                                      *)
ParseFieldPath(at, ts, p) ==
    LET rest == at["path", p + 2]
    IN  IF Peek(ts, p) # "ident" THEN Failed(p)
        ELSE IF Peek(ts, p + 1) # "." THEN Parsed(<<ts[p].v>>, p + 1)
        ELSE IF ~rest.ok THEN rest
        ELSE Parsed(<<ts[p].v>> \o rest.x, rest.pos)

(* <field-path> <op> <literal>                                              *)
ParseLiteral(ts, p) == IF Peek(ts, p) = "lit" THEN Parsed(ts[p].v, p + 1) ELSE Failed(p)

ParseCompare(at, ts, p) ==
    LET path == at["path", p]
        lit == ParseLiteral(ts, path.pos + 1)
    IN  IF ~path.ok THEN path
        ELSE IF Peek(ts, path.pos) # "op" THEN Failed(path.pos)
        ELSE IF ~lit.ok THEN lit
        ELSE Parsed(Compare(path.x, ts[path.pos].v.o, lit.x), lit.pos)

ParseExists(at, ts, p) ==
    LET path == at["path", p + 2]
    IN  IF Peek(ts, p + 1) # "(" THEN Failed(p + 1)
        ELSE IF ~path.ok THEN path
        ELSE IF Peek(ts, path.pos) # ")" THEN Failed(path.pos)
        ELSE Parsed(Exists(path.x), path.pos + 1)

ParsePrimary(at, ts, p) ==
    CASE Peek(ts, p) = "(" ->
            LET inner == at["or", p + 1]
            IN  IF ~inner.ok THEN inner
                ELSE IF Peek(ts, inner.pos) # ")" THEN Failed(inner.pos)
                ELSE Parsed(inner.x, inner.pos + 1)
      [] Peek(ts, p) = "exists" -> ParseExists(at, ts, p)
      [] OTHER -> ParseCompare(at, ts, p)

(* Faulty: not takes everything to its right.                               *)
NotTakesAll(at, ts, p) ==
    LET inner == at["or", p + 1]
    IN  IF Peek(ts, p) # "not" THEN at["primary", p]
        ELSE IF inner.ok THEN Parsed(Not(inner.x), inner.pos) ELSE inner

ParseNot(at, ts, p) ==
    LET inner == at["not", p + 1]
    IN  IF Peek(ts, p) # "not" THEN at["primary", p]
        ELSE IF inner.ok THEN Parsed(Not(inner.x), inner.pos) ELSE inner

(* The operands behind each further connective of the loops of parse_and    *)
(* and parse_or.                                                            *)
More(at, ts, p, word, operand, rule) ==
    LET right == at[operand, p + 1]
        rest == at[rule, right.pos]
    IN  IF Peek(ts, p) # word THEN Parsed(<<>>, p)
        ELSE IF ~right.ok THEN right
        ELSE IF ~rest.ok THEN rest
        ELSE Parsed(<<right.x>> \o rest.x, rest.pos)

(* The first operand and the others.                                        *)
Operands(at, p, operand, rule) ==
    LET first == at[operand, p]
        rest == at[rule, first.pos]
    IN  IF ~first.ok THEN first
        ELSE IF ~rest.ok THEN rest
        ELSE Parsed(<<first.x>> \o rest.x, rest.pos)

(* The operands are joined from the left.                                   *)
ParseAnd(at, p) ==
    LET all == Operands(at, p, "not", "more and")
    IN  IF all.ok THEN Parsed(FoldLeft(And, Head(all.x), Tail(all.x)), all.pos) ELSE all

ParseOr(at, p) ==
    LET all == Operands(at, p, "and", "more or")
    IN  IF all.ok THEN Parsed(FoldLeft(Or, Head(all.x), Tail(all.x)), all.pos) ELSE all

Rules == {"path", "primary", "not", "more and", "and", "more or", "or"}

Parse(ts) ==
    LET at[rule \in Rules, p \in 1 .. Len(ts) + 1] ==
            CASE rule = "path"     -> ParseFieldPath(at, ts, p)
              [] rule = "primary"  -> ParsePrimary(at, ts, p)
              [] rule = "not"      -> ParseNot(at, ts, p)
              [] rule = "more and" -> More(at, ts, p, "and", "not", rule)
              [] rule = "and"      -> ParseAnd(at, p)
              [] rule = "more or"  -> More(at, ts, p, "or", "and", rule)
              [] rule = "or"       -> ParseOr(at, p)
        whole == at["or", 1]
    IN  IF whole.ok /\ whole.pos <= Len(ts) THEN Failed(whole.pos) ELSE whole

-----------------------------------------------------------------------------
Lower(name) == [name EXCEPT !.s = LowerCase]

(* get_ci: the lowercase key if there is one, else the first in byte order. *)
GetCi(map, name) ==
    LET keys == {key \in DOMAIN map : key.w = name.w}
        first == CHOOSE key \in keys : \A other \in keys : key.s <= other.s
    IN  IF Lower(name) \in keys THEN <<map[Lower(name)]>>
        ELSE IF keys # {} THEN <<map[first]>> ELSE <<>>

RECURSIVE Descend(_, _)
Descend(found, path) ==
    IF found = <<>> \/ path = <<>> THEN found
    ELSE IF found[1].t # "object" THEN <<>>
    ELSE Descend(GetCi(found[1].v, Head(path)), Tail(path))

DescendFields(fields, path) ==
    IF path = <<>> THEN <<>> ELSE Descend(GetCi(fields, Head(path)), Tail(path))

(* resolve_path: <<value>> or <<>>.                                         *)
ResolvePath(m, path) ==
    CASE Head(path).w = "fields"   -> DescendFields(m.fields, Tail(path))
      [] Head(path).w \in TopLevel -> IF Len(path) = 1 THEN <<m.top[Head(path).w]>> ELSE <<>>
      [] OTHER                     -> DescendFields(m.fields, path)

CmpNum(a, b, op) ==
    CASE op = "="  -> a - b < Epsilon /\ b - a < Epsilon
      [] op = "!=" -> ~(a - b < Epsilon /\ b - a < Epsilon)
      [] op = "<"  -> a < b
      [] op = "<=" -> a <= b
      [] op = ">"  -> a > b
      [] op = ">=" -> a >= b
      [] OTHER     -> FALSE

(* Strings in the order of their bytes.                                     *)
StrLess(s, t) ==
    \/ IsStrictPrefix(s, t)
    \/ \E i \in DOMAIN s \cap DOMAIN t : s[i] < t[i] /\ SubSeq(s, 1, i - 1) = SubSeq(t, 1, i - 1)

CmpStr(s, t, op) ==
    CASE op = "="  -> s = t
      [] op = "!=" -> s # t
      [] op = "<"  -> StrLess(s, t)
      [] op = "<=" -> ~StrLess(t, s)
      [] op = ">"  -> StrLess(t, s)
      [] op = ">=" -> ~StrLess(s, t)
      [] op = "contains" -> \E i \in 0 .. Len(s) : IsPrefix(t, SubSeq(s, i + 1, Len(s)))
      [] op = "starts_with" -> IsPrefix(t, s)

Numeric == {"int", "float"}

(* An element of a list: integers exactly, other numbers within epsilon; an *)
(* element that is a datetime equals no literal.                            *)
ElementIs(item, lit) ==
    IF item.t = "int" /\ lit.t = "int" THEN item.v = lit.v
    ELSE IF item.t \in Numeric /\ lit.t \in Numeric THEN CmpNum(item.v, lit.v, "=")
    ELSE item.t = lit.t /\ item.t \in {"string", "bool"} /\ item.v = lit.v

CompareValue(field, op, lit) ==
    CASE field.t = "list" -> op = "contains" /\ \E i \in DOMAIN field.v : ElementIs(field.v[i], lit)
      [] field.t \in {"string", "datetime"} /\ lit.t = "string" -> CmpStr(field.v, lit.v, op)
      [] field.t \in Numeric /\ lit.t \in Numeric -> CmpNum(field.v, lit.v, op)
      [] field.t = "bool" /\ lit.t = "bool" ->
            (op = "=" /\ field.v = lit.v) \/ (op = "!=" /\ field.v # lit.v)
      [] field.t = "null" -> IF lit.t = "null" THEN op = "=" ELSE op = "!="
      [] OTHER -> FALSE

RECURSIVE Evaluate(_, _)
Evaluate(x, m) ==
    CASE x.e = "and" -> Evaluate(x.a, m) /\ Evaluate(x.b, m)
      [] x.e = "or"  -> Evaluate(x.a, m) \/ Evaluate(x.b, m)
      [] x.e = "not" -> ~Evaluate(x.a, m)
      [] x.e = "exists"  -> ResolvePath(m, x.path) # <<>>
      [] x.e = "compare" -> LET found == ResolvePath(m, x.path)
                            IN  found # <<>> /\ CompareValue(found[1], x.op, x.lit)

-----------------------------------------------------------------------------
(* The language as the documentation gives it: what a list of tokens means, *)
(* by where its connectives stand, without a parser.                        *)
Nesting(ts, i) == Cardinality({j \in 1 .. i - 1 : ts[j].k = "("})
                    - Cardinality({j \in 1 .. i - 1 : ts[j].k = ")"})

Outer(ts, kind) == {i \in DOMAIN ts : ts[i].k = kind /\ Nesting(ts, i) = 0}

LeftOf(ts, i)  == SubSeq(ts, 1, i - 1)
RightOf(ts, i) == SubSeq(ts, i + 1, Len(ts))
Inside(ts)     == SubSeq(ts, 2, Len(ts) - 1)

IsPath(ts) == /\ Len(ts) % 2 = 1
              /\ \A i \in DOMAIN ts : ts[i].k = IF i % 2 = 1 THEN "ident" ELSE "."

PathOf(ts) == [i \in 1 .. (Len(ts) + 1) \div 2 |-> ts[2 * i - 1].v]

IsCompare(ts) == /\ Len(ts) > 2 /\ IsPath(SubSeq(ts, 1, Len(ts) - 2))
                 /\ ts[Len(ts) - 1].k = "op" /\ ts[Len(ts)].k = "lit"

Wrapped(ts) == Len(ts) > 2 /\ ts[1].k = "(" /\ ts[Len(ts)].k = ")"

RECURSIVE InLanguage(_)
InLanguage(ts) ==
    LET both(i) == InLanguage(LeftOf(ts, i)) /\ InLanguage(RightOf(ts, i))
    IN  IF Outer(ts, "or") # {} THEN \A i \in Outer(ts, "or") : both(i)
        ELSE IF Outer(ts, "and") # {} THEN \A i \in Outer(ts, "and") : both(i)
        ELSE IF ts = <<>> THEN FALSE
        ELSE IF ts[1].k = "not" THEN InLanguage(Tail(ts))
        ELSE IF ts[1].k = "exists" THEN Wrapped(Tail(ts)) /\ IsPath(Inside(Tail(ts)))
        ELSE IF Wrapped(ts) THEN InLanguage(Inside(ts))
        ELSE IsCompare(ts)

(* The values at a path below a set of values: any spelling of a name will  *)
(* do.                                                                      *)
RECURSIVE Reached(_, _)
Reached(found, path) ==
    IF path = <<>> THEN found
    ELSE LET objects == {v \in found : v.t = "object"}
             below(v) == {v.v[key] : key \in {k \in DOMAIN v.v : k.w = Head(path).w}}
         IN  Reached(UNION {below(v) : v \in objects}, Tail(path))

(* A name of the manifest itself comes before a field of that name, and     *)
(* fields. is the way to the latter.                                        *)
Denoted(m, path) ==
    LET fields == {[t |-> "object", v |-> m.fields]}
        word == Head(path).w
    IN  IF word \in TopLevel THEN IF Len(path) = 1 THEN {m.top[word]} ELSE {}
        ELSE IF word = "fields" THEN IF Len(path) = 1 THEN {} ELSE Reached(fields, Tail(path))
        ELSE Reached(fields, path)

RECURSIVE Holds(_, _)
Holds(ts, m) ==
    LET n == Len(ts)
    IN  IF Outer(ts, "or") # {}
        THEN \E i \in Outer(ts, "or") : Holds(LeftOf(ts, i), m) \/ Holds(RightOf(ts, i), m)
        ELSE IF Outer(ts, "and") # {}
        THEN \A i \in Outer(ts, "and") : Holds(LeftOf(ts, i), m) /\ Holds(RightOf(ts, i), m)
        ELSE IF ts[1].k = "not" THEN ~Holds(Tail(ts), m)
        ELSE IF ts[1].k = "exists" THEN Denoted(m, PathOf(Inside(Tail(ts)))) # {}
        ELSE IF Wrapped(ts) THEN Holds(Inside(ts), m)
        ELSE \E v \in Denoted(m, PathOf(SubSeq(ts, 1, n - 2))) :
                CompareValue(v, ts[n - 1].v.o, ts[n].v)
=============================================================================
