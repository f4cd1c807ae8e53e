----------------------------- MODULE GatewayProofs -----------------------------
(* Theorems about Gateway, for any browsers, flows, users, keys and requests, *)
(* and any lifetimes of cookies, cache entries and contexts.                  *)
EXTENDS Gateway, TLAPS

Served == Tenants \cup {TokenTenant[t] : t \in DOMAIN TokenTenant}

Sessions ==
  [sub : Users, tenant : Tenants, sid : Flows \cup {None}, exp : Nat, gen : Nat]

StateCookies == [id : Flows, exp : Nat, gen : Nat]

Contexts == [tenant : Served, sub : Users \cup {None}, exp : Nat, gen : Nat]

By == Flows \cup ApiKeys \cup {None}

(* What is left to stage of an entry.                                         *)
Todo(e) ==
  IF e \in HasReadme THEN {<<"wasm", "toml", "readme">>, <<"toml", "readme">>, <<"readme">>}
  ELSE {<<"wasm", "toml">>, <<"toml">>}

(* A request in progress, by where it is.                                     *)
Exchanging == [pc : {"exchanging"}, b : Browsers, f : Flows, since : Nat]
Refreshing == [pc : {"refreshing"}, b : Browsers, claims : Sessions, at : Nat, since : Nat]
Asking     == [pc : {"asking"}, kind : {"publish", "install"}, k : ApiKeys, since : Nat]
Told       == [pc : {"told"}, kind : {"publish", "install"}, k : ApiKeys, since : Nat, org : Tenants]
Fetching   == [pc : {"fetching"}, tenant : Served, sub : Users \cup {None}, by : By]
Answered   == [pc : {"resolved"}, tenant : Served, by : By, ctx : Contexts]
Staging    == [pc : {"staging"}, e : Entries, shard : Shards, alone : BOOLEAN,
               todo : UNION {Todo(e) : e \in Entries}]

RequestOK(q) ==
  /\ q.pc \in {"idle", "accepted", "installed", "exchanging", "refreshing", "asking", "told",
               "fetching", "resolved", "staging"}
  /\ q.pc = "exchanging" => q \in Exchanging
  /\ q.pc = "refreshing" => q \in Refreshing
  /\ q.pc = "asking" => q \in Asking
  /\ q.pc = "told" => q \in Told
  /\ q.pc = "fetching" => q \in Fetching
  /\ q.pc = "resolved" => q \in Answered
  /\ q.pc = "staging" => q \in Staging /\ q.todo \in Todo(q.e)

ClockOK == now \in Nat /\ now <= MaxTime /\ gen \in Nat

JarOK == jar \in [Browsers -> [session : Sessions \cup {None}, states : SUBSET StateCookies]]

FlowOK ==
  /\ flow \in [Flows -> [st : {"new", "redirected", "code", "used"}, user : Users \cup {None},
                         from : Browsers \cup {None}]]
  /\ \A f \in Flows : flow[f].st \in {"code", "used"} => flow[f].user \in Users
  /\ ended \in [Flows -> Nat]

KeysOK ==
  /\ keys \in [ApiKeys -> [org : Tenants \cup {None}, revoked : Nat]]
  /\ DOMAIN cache \subseteq ApiKeys
  /\ \A k \in DOMAIN cache : cache[k] \in [tenant : Tenants, exp : Nat]

ReqOK ==
  /\ DOMAIN req = Requests
  /\ \A r \in Requests : /\ RequestOK(req[r])
                         /\ req[r].pc = "exchanging" => flow[req[r].f].st = "used"

StagedOK == staged \in [Shards -> [Files -> Entries \cup {None}]]

Types == ClockOK /\ JarOK /\ FlowOK /\ KeysOK /\ ReqOK /\ StagedOK

--------------------------------------------------------------------------------
(* The type invariant.                                                        *)
LEMMA NatConstants ==
  /\ SessionTTL \in Nat /\ RefreshGrace \in Nat /\ StateTTL \in Nat /\ CacheTTL \in Nat
  /\ CtxTTL \in Nat /\ Flight \in Nat /\ MaxTime \in Nat /\ MaxRestarts \in Nat
  BY GatewayAssumption

LEMMA TenantOfUser ==
  ASSUME NEW u \in Users
  PROVE  TenantOf(u) \in Tenants
  BY GatewayAssumption DEF TenantOf, Tenants

LEMMA NoReqOK == RequestOK(NoReq) /\ NoReq.pc = "idle"
  BY DEF NoReq, RequestOK

(* What the answer to a request's credential is.                              *)
LEMMA ResolvedOK ==
  ASSUME ClockOK, NEW kind \in {"publish", "install"}, NEW tenant \in Served,
         NEW sub \in Users \cup {None}, NEW by \in By
  PROVE  LET q == Resolved(kind, tenant, sub, by)
         IN  /\ RequestOK(q) /\ q.by = by /\ q.tenant = tenant
             /\ q.pc = IF kind = "install" THEN "fetching" ELSE "resolved"
             /\ q.pc = "resolved" => q.ctx = Context(tenant, sub)
  <1>1. Context(tenant, sub) \in Contexts
    <2>1. now + CtxTTL \in Nat /\ gen \in Nat
      BY NatConstants DEF ClockOK
    <2> QED
      BY <2>1 DEF Context, Contexts
  <1>2. CASE kind = "install"
    BY <1>2 DEF Resolved, RequestOK, Fetching
  <1>3. CASE kind # "install"
    <2> DEFINE c == Context(tenant, sub)
    <2> HIDE DEF c
    <2>1. Resolved(kind, tenant, sub, by) = [pc |-> "resolved", tenant |-> tenant, by |-> by, ctx |-> c]
      BY <1>3 DEF Resolved, c
    <2>2. c \in Contexts /\ c = Context(tenant, sub)
      BY <1>1 DEF c
    <2> QED
      BY <1>3, <2>1, <2>2 DEF RequestOK, Answered
  <1> QED
    BY <1>2, <1>3

(* A step of one request.                                                     *)
LEMMA RequestMoves ==
  ASSUME Types, NEW r \in Requests, NEW v, RequestOK(v), req' = [req EXCEPT ![r] = v],
         \A f \in Flows : flow[f].st = "used" => flow'[f].st = "used",
         v.pc = "exchanging" => flow'[v.f].st = "used"
  PROVE  ReqOK'
  <1>1. DOMAIN req' = Requests /\ \A q \in Requests : req'[q] = IF q = r THEN v ELSE req[q]
    BY DEF Types, ReqOK
  <1>2. \A q \in Requests : req[q].pc = "exchanging" => req[q].f \in Flows
    BY DEF Types, ReqOK, RequestOK, Exchanging
  <1> QED
    BY <1>1, <1>2 DEF ReqOK, Types

(* A step that leaves the requests and the flows alone.                       *)
LEMMA RequestsStay ==
  ASSUME Types, UNCHANGED <<req, flow>>
  PROVE  ReqOK'
  BY DEF ReqOK, Types

LEMMA TypesCommon ==
  ASSUME Types, Tick \/ Restart
  PROVE  Types'
  <1>1. CASE Tick
    BY <1>1, RequestsStay, NatConstants
       DEF Tick, Types, ClockOK, JarOK, FlowOK, KeysOK, StagedOK
  <1>2. CASE Restart
    <2>1. ClockOK'
      BY <1>2 DEF Restart, ClockOK, Types
    <2>2. ReqOK'
      BY <1>2, NoReqOK DEF Restart, ReqOK
    <2>3. DOMAIN cache' = {}
      BY <1>2 DEF Restart
    <2> QED
      BY <1>2, <2>1, <2>2, <2>3 DEF Restart, Types, JarOK, FlowOK, KeysOK, StagedOK
  <1> QED
    BY <1>1, <1>2

LEMMA TypesLogin ==
  ASSUME Types,
         \/ \E b \in Browsers : \/ DropCookie(b) \/ Logout(b)
                                \/ \E f \in Flows : Login(b, f)
                                \/ \E k \in ApiKeys : WidgetToken(b, k)
         \/ \E f \in Flows : EndSession(f) \/ \E u \in Users : SignIn(f, u)
         \/ \E k \in ApiKeys : RevokeKey(k)
  PROVE  Types'
  <1>1. ASSUME NEW b \in Browsers, DropCookie(b)
        PROVE  Types'
    <2>1. JarOK'
      BY <1>1 DEF DropCookie, Types, JarOK
    <2> QED
      BY <1>1, <2>1, RequestsStay DEF DropCookie, Types, ClockOK, FlowOK, KeysOK, StagedOK
  <1>2. ASSUME NEW f \in Flows, NEW u \in Users, SignIn(f, u)
        PROVE  Types'
    <2>1. FlowOK' /\ \A g \in Flows : flow[g].st = "used" => flow'[g].st = "used"
      BY <1>2 DEF SignIn, Types, FlowOK
    <2>2. ReqOK'
      BY <1>2, <2>1 DEF SignIn, Types, ReqOK, RequestOK, Exchanging
    <2> QED
      BY <1>2, <2>1, <2>2 DEF SignIn, Types, ClockOK, JarOK, KeysOK, StagedOK
  <1>3. ASSUME NEW f \in Flows, EndSession(f)
        PROVE  Types'
    <2>1. FlowOK'
      BY <1>3 DEF EndSession, Types, FlowOK, ClockOK
    <2> QED
      BY <1>3, <2>1, RequestsStay DEF EndSession, Types, ClockOK, JarOK, KeysOK, StagedOK
  <1>4. ASSUME NEW k \in ApiKeys, RevokeKey(k)
        PROVE  Types'
    <2>1. KeysOK'
      BY <1>4 DEF RevokeKey, Types, KeysOK, ClockOK
    <2> QED
      BY <1>4, <2>1, RequestsStay DEF RevokeKey, Types, ClockOK, JarOK, FlowOK, StagedOK
  <1>5. ASSUME NEW b \in Browsers, NEW f \in Flows, Login(b, f)
        PROVE  Types'
    <2>1. FlowOK' /\ \A g \in Flows : flow[g].st = "used" => flow'[g].st = "used"
      BY <1>5 DEF Login, Types, FlowOK
    <2>2. ReqOK'
      BY <1>5, <2>1 DEF Login, Types, ReqOK, RequestOK, Exchanging
    <2>3. [id |-> f, exp |-> now + StateTTL, gen |-> gen] \in StateCookies
      BY NatConstants DEF StateCookies, Types, ClockOK
    <2>4. JarOK'
      BY <1>5, <2>3 DEF Login, Types, JarOK
    <2> QED
      BY <1>5, <2>1, <2>2, <2>4 DEF Login, Types, ClockOK, KeysOK, StagedOK
  <1>6. ASSUME NEW b \in Browsers, Logout(b)
        PROVE  Types'
    <2>1. JarOK'
      BY <1>6 DEF Logout, Types, JarOK
    <2>2. FlowOK'
      BY <1>6 DEF Logout, Types, FlowOK, ClockOK
    <2> QED
      BY <1>6, <2>1, <2>2, RequestsStay DEF Logout, Types, ClockOK, KeysOK, StagedOK
  <1>7. ASSUME NEW b \in Browsers, NEW k \in ApiKeys, WidgetToken(b, k)
        PROVE  Types'
    <2>1. jar[b].session \in Sessions
      BY <1>7 DEF WidgetToken, MayManageKeys, ResolveSession, Types, JarOK
    <2>2. jar[b].session.tenant \in Tenants
      BY <2>1 DEF Sessions
    <2>3. KeysOK'
      BY <1>7, <2>2 DEF WidgetToken, Types, KeysOK
    <2> QED
      BY <1>7, <2>3, RequestsStay DEF WidgetToken, Types, ClockOK, JarOK, FlowOK, StagedOK
  <1> QED
    BY <1>1, <1>2, <1>3, <1>4, <1>5, <1>6, <1>7

(* The cache after it has been asked, and after an entry has come in: no      *)
(* entry of another key changes.                                              *)
LEMMA CacheGot ==
  ASSUME NEW k
  PROVE  /\ DOMAIN CacheAfterGet(k) \subseteq DOMAIN cache
         /\ \A j \in DOMAIN CacheAfterGet(k) : CacheAfterGet(k)[j] = cache[j]
  BY DEF CacheAfterGet, Only

LEMMA CacheFilled ==
  ASSUME NEW k, NEW t
  PROVE  /\ k \in DOMAIN CacheInsert(k, t) /\ DOMAIN CacheInsert(k, t) \subseteq DOMAIN cache \cup {k}
         /\ CacheInsert(k, t)[k] = [tenant |-> t, exp |-> now + CacheTTL]
         /\ \A j \in DOMAIN CacheInsert(k, t) \ {k} : CacheInsert(k, t)[j] = cache[j]
  <1> DEFINE full == Cardinality(DOMAIN cache) >= CacheMax
             kept == IF ~full THEN cache
                     ELSE IF Cardinality(Live(cache)) >= CacheMax THEN <<>>
                     ELSE Only(cache, Live(cache))
  <1>2. DOMAIN kept \subseteq DOMAIN cache /\ \A j \in DOMAIN kept : kept[j] = cache[j]
    <2>1. DOMAIN <<>> = {}
      OBVIOUS
    <2>2. /\ DOMAIN Only(cache, Live(cache)) \subseteq DOMAIN cache
          /\ \A j \in DOMAIN Only(cache, Live(cache)) : Only(cache, Live(cache))[j] = cache[j]
      BY DEF Only, Live
    <2> HIDE DEF full
    <2> QED
      BY <2>1, <2>2
  <1>3. CacheInsert(k, t) = [j \in DOMAIN kept \cup {k} |->
                               IF j = k THEN [tenant |-> t, exp |-> now + CacheTTL] ELSE kept[j]]
    BY DEF CacheInsert
  <1> HIDE DEF kept
  <1> QED
    BY <1>2, <1>3

LEMMA TypesRefresh ==
  ASSUME Types, NEW r \in Requests,
         \/ \E b \in Browsers : Refresh(r, b) \/ \E c, s \in Flows : Callback(r, b, c, s)
         \/ CallbackDone(r) \/ RefreshDone(r)
  PROVE  Types'
  <1>1. ASSUME NEW b \in Browsers, NEW c \in Flows, NEW s \in Flows, Callback(r, b, c, s)
        PROVE  Types'
    <2> DEFINE v == [pc |-> "exchanging", b |-> b, f |-> c, since |-> now]
    <2>1. FlowOK' /\ flow'[c].st = "used" /\ \A g \in Flows : flow[g].st = "used" => flow'[g].st = "used"
      BY <1>1 DEF Callback, Types, FlowOK
    <2>2. RequestOK(v)
      BY DEF RequestOK, Exchanging, Types, ClockOK
    <2>3. ReqOK'
      BY <1>1, <2>1, <2>2, RequestMoves DEF Callback
    <2> QED
      BY <1>1, <2>1, <2>3 DEF Callback, Types, ClockOK, JarOK, KeysOK, StagedOK
  <1>2. ASSUME NEW b \in Browsers, Refresh(r, b)
        PROVE  Types'
    <2> DEFINE v == [pc |-> "refreshing", b |-> b, claims |-> jar[b].session, at |-> now,
                     since |-> now]
    <2>1. jar[b].session \in Sessions
      BY <1>2 DEF Refresh, Refreshable, Types, JarOK
    <2>2. RequestOK(v)
      BY <2>1 DEF RequestOK, Refreshing, Types, ClockOK
    <2>3. ReqOK'
      BY <1>2, <2>2, RequestMoves DEF Refresh
    <2> QED
      BY <1>2, <2>3 DEF Refresh, Types, ClockOK, JarOK, FlowOK, KeysOK, StagedOK
  <1>3. CASE CallbackDone(r)
    <2>1. req[r] \in Exchanging /\ flow[req[r].f].st = "used"
      BY <1>3 DEF CallbackDone, Types, ReqOK, RequestOK
    <2>2. PICK b, f : b = req[r].b /\ f = req[r].f
      OBVIOUS
    <2>3. b \in Browsers /\ f \in Flows
      BY <2>1, <2>2 DEF Exchanging
    <2>4. PICK sid \in Sids(f) :
            jar' = [jar EXCEPT ![b] = [session |-> NewSession(flow[f].user, sid),
                                       states  |-> {c \in jar[b].states : c.id # f}]]
      BY <1>3, <2>2 DEF CallbackDone
    <2>5. NewSession(flow[f].user, sid) \in Sessions
      <3>1. flow[f].user \in Users /\ TenantOf(flow[f].user) \in Tenants
        BY <2>1, <2>2, <2>3, TenantOfUser DEF Types, FlowOK
      <3>2. now + SessionTTL \in Nat /\ gen \in Nat /\ sid \in Flows \cup {None}
        BY <2>3, NatConstants DEF Types, ClockOK, Sids
      <3> QED
        BY <3>1, <3>2 DEF NewSession, Sessions
    <2>6. {c \in jar[b].states : c.id # f} \in SUBSET StateCookies
      BY <2>3 DEF Types, JarOK
    <2> DEFINE w == [session |-> NewSession(flow[f].user, sid),
                     states  |-> {c \in jar[b].states : c.id # f}]
    <2>7. w \in [session : Sessions \cup {None}, states : SUBSET StateCookies]
      BY <2>5, <2>6
    <2> HIDE DEF w
    <2>8. JarOK'
      BY <2>4, <2>7 DEF JarOK, Types, w
    <2>9. ReqOK'
      BY <1>3, NoReqOK, RequestMoves DEF CallbackDone
    <2> QED
      BY <1>3, <2>8, <2>9 DEF CallbackDone, Types, ClockOK, FlowOK, KeysOK, StagedOK
  <1>4. CASE RefreshDone(r)
    <2>1. req[r] \in Refreshing
      BY <1>4 DEF RefreshDone, Types, ReqOK, RequestOK
    <2>2. req[r].b \in Browsers /\ req[r].claims \in Sessions /\ req[r].at + SessionTTL \in Nat
      BY <2>1, NatConstants DEF Refreshing
    <2>3. [req[r].claims EXCEPT !.exp = req[r].at + SessionTTL, !.gen = gen] \in Sessions
      BY <2>2 DEF Sessions, Types, ClockOK
    <2>4. JarOK'
      BY <1>4, <2>2, <2>3 DEF RefreshDone, JarOK, Types
    <2>5. ReqOK'
      BY <1>4, NoReqOK, RequestMoves DEF RefreshDone
    <2> QED
      BY <1>4, <2>4, <2>5 DEF RefreshDone, Types, ClockOK, FlowOK, KeysOK, StagedOK
  <1> QED
    BY <1>1, <1>2, <1>3, <1>4

LEMMA TypesResolve ==
  ASSUME Types, NEW r \in Requests, NEW kind \in {"publish", "install"},
         \/ \E b \in Browsers : ByCookie(r, kind, b)
         \/ \E t \in DOMAIN TokenTenant : ByToken(r, kind, t)
         \/ \E k \in ApiKeys : ByKey(r, kind, k)
  PROVE  Types'
  <1>1. ASSUME NEW b \in Browsers, ByCookie(r, kind, b)
        PROVE  Types'
    <2> DEFINE c == jar[b].session
    <2>1. c \in Sessions
      BY <1>1 DEF ByCookie, ResolveSession, Types, JarOK
    <2>2. c.tenant \in Served /\ c.sub \in Users \cup {None} /\ c.sid \in By
      BY <2>1 DEF Sessions, Served, By
    <2>3. RequestOK(Resolved(kind, c.tenant, c.sub, c.sid))
          /\ Resolved(kind, c.tenant, c.sub, c.sid).pc # "exchanging"
      BY <2>2, ResolvedOK DEF Types
    <2>4. ReqOK'
      BY <1>1, <2>3, RequestMoves DEF ByCookie
    <2> QED
      BY <1>1, <2>4 DEF ByCookie, Types, ClockOK, JarOK, FlowOK, KeysOK, StagedOK
  <1>2. ASSUME NEW t \in DOMAIN TokenTenant, ByToken(r, kind, t)
        PROVE  Types'
    <2>1. TokenTenant[t] \in Served /\ None \in Users \cup {None} /\ None \in By
      BY DEF Served, By
    <2>2. RequestOK(Resolved(kind, TokenTenant[t], None, None))
          /\ Resolved(kind, TokenTenant[t], None, None).pc # "exchanging"
      BY <2>1, ResolvedOK DEF Types
    <2>3. ReqOK'
      BY <1>2, <2>2, RequestMoves DEF ByToken
    <2> QED
      BY <1>2, <2>3 DEF ByToken, Types, ClockOK, JarOK, FlowOK, KeysOK, StagedOK
  <1>3. ASSUME NEW k \in ApiKeys, ByKey(r, kind, k)
        PROVE  Types'
    <2> DEFINE v == [pc |-> "asking", kind |-> kind, k |-> k, since |-> now]
               w == Resolved(kind, cache[k].tenant, None, k)
    <2>1. RequestOK(v) /\ v.pc # "exchanging"
      BY DEF RequestOK, Asking, Types, ClockOK
    <2>2. CacheHit(k) => RequestOK(w) /\ w.pc # "exchanging"
      <3> SUFFICES ASSUME CacheHit(k)
                   PROVE  RequestOK(w) /\ w.pc # "exchanging"
        OBVIOUS
      <3>1. cache[k].tenant \in Served /\ None \in Users \cup {None} /\ k \in By
        BY DEF CacheHit, Types, KeysOK, Served, By
      <3> QED
        BY <3>1, ResolvedOK DEF Types
    <2>3. req' = [req EXCEPT ![r] = IF CacheHit(k) THEN w ELSE v]
      BY <1>3 DEF ByKey
    <2> HIDE DEF v, w
    <2>4. ReqOK'
      BY <1>3, <2>1, <2>2, <2>3, RequestMoves DEF ByKey
    <2>5. KeysOK'
      <3>1. /\ DOMAIN cache' \subseteq DOMAIN cache /\ UNCHANGED keys
            /\ \A j \in DOMAIN cache' : cache'[j] = cache[j]
        BY <1>3, CacheGot DEF ByKey
      <3> QED
        BY <3>1 DEF KeysOK, Types
    <2> QED
      BY <1>3, <2>4, <2>5 DEF ByKey, Types, ClockOK, JarOK, FlowOK, StagedOK
  <1> QED
    BY <1>1, <1>2, <1>3

LEMMA TypesValidate ==
  ASSUME Types, NEW r \in Requests, Validate(r) \/ Validated(r)
  PROVE  Types'
  <1>1. CASE Validate(r)
    <2> DEFINE key == keys[req[r].k]
               v   == [pc |-> "told", kind |-> req[r].kind, k |-> req[r].k,
                       since |-> req[r].since, org |-> key.org]
    <2>1. req[r] \in Asking
      BY <1>1 DEF Validate, Types, ReqOK, RequestOK
    <2>2. req[r].kind \in {"publish", "install"} /\ req[r].k \in ApiKeys /\ req[r].since \in Nat
      BY <2>1 DEF Asking
    <2>3. key.org \in Tenants \cup {None}
      BY <2>2 DEF Types, KeysOK
    <2>4. req' = [req EXCEPT ![r] = IF key.org # None /\ key.revoked = Never THEN v ELSE NoReq]
      BY <1>1 DEF Validate
    <2> HIDE DEF key
    <2>5. key.org # None => RequestOK(v)
      BY <2>2, <2>3 DEF RequestOK, Told
    <2>6. v.pc = "told"
      OBVIOUS
    <2> HIDE DEF v
    <2>7. ReqOK'
      BY <1>1, <2>4, <2>5, <2>6, NoReqOK, RequestMoves DEF Validate
    <2> QED
      BY <1>1, <2>7 DEF Validate, Types, ClockOK, JarOK, FlowOK, KeysOK, StagedOK
  <1>2. CASE Validated(r)
    <2> DEFINE v == Resolved(req[r].kind, req[r].org, None, req[r].k)
    <2>1. req[r] \in Told
      BY <1>2 DEF Validated, Types, ReqOK, RequestOK
    <2>2. req[r].kind \in {"publish", "install"} /\ req[r].k \in ApiKeys /\ req[r].org \in Tenants
      BY <2>1 DEF Told
    <2>3. req[r].org \in Served /\ None \in Users \cup {None} /\ req[r].k \in By
      BY <2>2 DEF Served, By
    <2>4. RequestOK(v) /\ v.pc # "exchanging"
      <3>1. PICK kind, org, k : kind = req[r].kind /\ org = req[r].org /\ k = req[r].k
        OBVIOUS
      <3>2. RequestOK(Resolved(kind, org, None, k)) /\ Resolved(kind, org, None, k).pc # "exchanging"
        BY <2>2, <2>3, <3>1, ResolvedOK DEF Types
      <3> QED
        BY <3>1, <3>2
    <2>5. req' = [req EXCEPT ![r] = v]
      BY <1>2 DEF Validated
    <2> HIDE DEF v
    <2>6. ReqOK'
      BY <1>2, <2>4, <2>5, RequestMoves DEF Validated
    <2>7. PICK k, t : k = req[r].k /\ t = req[r].org
      OBVIOUS
    <2>8. cache' = CacheInsert(k, t) /\ k \in ApiKeys /\ t \in Tenants /\ UNCHANGED keys
      BY <1>2, <2>2, <2>7 DEF Validated
    <2>9. [tenant |-> t, exp |-> now + CacheTTL] \in [tenant : Tenants, exp : Nat]
      BY <2>8, NatConstants DEF Types, ClockOK
    <2>10. KeysOK'
      <3>1. /\ DOMAIN cache' \subseteq DOMAIN cache \cup {k}
            /\ cache'[k] = [tenant |-> t, exp |-> now + CacheTTL]
            /\ \A j \in DOMAIN cache' \ {k} : cache'[j] = cache[j]
        BY <2>8, CacheFilled
      <3>2. \A j \in DOMAIN cache' : cache'[j] \in [tenant : Tenants, exp : Nat]
        BY <2>9, <3>1 DEF KeysOK, Types
      <3> QED
        BY <2>8, <3>1, <3>2 DEF KeysOK, Types
    <2> QED
      BY <1>2, <2>6, <2>10 DEF Validated, Types, ClockOK, JarOK, FlowOK, StagedOK
  <1> QED
    BY <1>1, <1>2

LEMMA TodoSteps ==
  ASSUME NEW e, NEW t \in Todo(e)
  PROVE  /\ Head(t) \in Files /\ Len(t) \in Nat
         /\ Len(t) # 1 => Tail(t) \in Todo(e)
  <1>1. CASE t = <<"wasm", "toml", "readme">>
    <2>1. Head(t) = "wasm" /\ Tail(t) = <<"toml", "readme">> /\ Len(t) = 3
      BY <1>1
    <2> QED
      BY <1>1, <2>1 DEF Todo, Files
  <1>2. CASE t = <<"toml", "readme">>
    <2>1. Head(t) = "toml" /\ Tail(t) = <<"readme">> /\ Len(t) = 2
      BY <1>2
    <2> QED
      BY <1>2, <2>1 DEF Todo, Files
  <1>3. CASE t = <<"wasm", "toml">>
    <2>1. Head(t) = "wasm" /\ Tail(t) = <<"toml">> /\ Len(t) = 2
      BY <1>3
    <2> QED
      BY <1>3, <2>1 DEF Todo, Files
  <1>4. CASE t = <<"readme">> \/ t = <<"toml">>
    <2>1. Head(t) \in Files /\ Len(t) = 1
      BY <1>4 DEF Files
    <2> QED
      BY <2>1
  <1> QED
    BY <1>1, <1>2, <1>3, <1>4 DEF Todo

LEMMA TypesServe ==
  ASSUME Types, NEW r \in Requests,
         Deliver(r) \/ GiveUp(r) \/ Stage(r) \/ \E e \in Entries : FetchEntry(r, e)
  PROVE  Types'
  <1>1. CASE Deliver(r)
    <2>1. RequestOK([pc |-> "accepted"])
      BY DEF RequestOK
    <2>2. ReqOK'
      BY <1>1, <2>1, NoReqOK, RequestMoves DEF Deliver
    <2> QED
      BY <1>1, <2>2 DEF Deliver, Types, ClockOK, JarOK, FlowOK, KeysOK, StagedOK
  <1>2. CASE GiveUp(r)
    <2>1. ReqOK'
      BY <1>2, NoReqOK, RequestMoves DEF GiveUp
    <2> QED
      BY <1>2, <2>1 DEF GiveUp, Types, ClockOK, JarOK, FlowOK, KeysOK, StagedOK
  <1>3. ASSUME NEW e \in Entries, FetchEntry(r, e)
        PROVE  Types'
    <2> DEFINE s == ShardOf[req[r].tenant]
               others == {q \in Requests \ {r} : req[q].pc = "staging" /\ req[q].shard = s}
               todo == IF e \in HasReadme THEN <<"wasm", "toml", "readme">> ELSE <<"wasm", "toml">>
               v == [pc |-> "staging", e |-> e, shard |-> s, alone |-> others = {}, todo |-> todo]
    <2>1. s \in Shards
      <3>1. req[r] \in Fetching
        BY <1>3 DEF FetchEntry, Types, ReqOK, RequestOK
      <3> QED
        BY <3>1, GatewayAssumption DEF Fetching, Served
    <2>2. todo \in Todo(e)
      BY DEF Todo
    <2>3. req' = [q \in Requests |-> IF q = r THEN v
                                     ELSE IF q \in others THEN [req[q] EXCEPT !.alone = FALSE]
                                     ELSE req[q]]
      BY <1>3 DEF FetchEntry
    <2> HIDE DEF todo, s
    <2>4. (others = {}) \in BOOLEAN
      OBVIOUS
    <2> DEFINE a == others = {}
    <2>5. v.pc = "staging" /\ v = [pc |-> "staging", e |-> e, shard |-> s, alone |-> a, todo |-> todo]
      OBVIOUS
    <2> HIDE DEF a, v
    <2>6. RequestOK(v)
      <3>1. a \in BOOLEAN
        BY <2>4 DEF a
      <3> QED
        BY <2>1, <2>2, <2>5, <3>1 DEF RequestOK, Staging
    <2>7. ASSUME NEW q \in others
          PROVE  RequestOK([req[q] EXCEPT !.alone = FALSE]) /\ [req[q] EXCEPT !.alone = FALSE].pc = "staging"
      <3>1. req[q] \in Staging /\ req[q].todo \in Todo(req[q].e)
        BY DEF Types, ReqOK, RequestOK
      <3>2. /\ [req[q] EXCEPT !.alone = FALSE] \in Staging
            /\ [req[q] EXCEPT !.alone = FALSE].pc = "staging"
            /\ [req[q] EXCEPT !.alone = FALSE].todo = req[q].todo
            /\ [req[q] EXCEPT !.alone = FALSE].e = req[q].e
        BY <3>1 DEF Staging
      <3> QED
        BY <3>1, <3>2 DEF RequestOK
    <2> HIDE DEF others
    <2>8. DOMAIN req' = Requests /\ UNCHANGED flow
      BY <1>3, <2>3 DEF FetchEntry
    <2>9. ASSUME NEW q \in Requests
          PROVE  RequestOK(req'[q]) /\ (req'[q].pc = "exchanging" => flow[req'[q].f].st = "used")
      <3>1. CASE q = r
        BY <2>3, <2>5, <2>6, <3>1
      <3>2. CASE q # r /\ q \in others
        BY <2>3, <2>7, <3>2
      <3>3. CASE q # r /\ q \notin others
        BY <2>3, <3>3 DEF Types, ReqOK
      <3> QED
        BY <3>1, <3>2, <3>3
    <2>10. ReqOK'
      BY <2>8, <2>9 DEF ReqOK
    <2> QED
      BY <1>3, <2>10 DEF FetchEntry, Types, ClockOK, JarOK, FlowOK, KeysOK, StagedOK
  <1>4. CASE Stage(r)
    <2>1. req[r] \in Staging /\ req[r].todo \in Todo(req[r].e)
      BY <1>4 DEF Stage, Types, ReqOK, RequestOK
    <2>2. req[r].e \in Entries /\ req[r].shard \in Shards
      BY <2>1 DEF Staging
    <2>3. /\ Head(req[r].todo) \in Files
          /\ Len(req[r].todo) # 1 => Tail(req[r].todo) \in Todo(req[r].e)
      BY <2>1, TodoSteps
    <2>4. StagedOK'
      BY <1>4, <2>2, <2>3 DEF Stage, StagedOK, Types
    <2> DEFINE w == [req[r] EXCEPT !.todo = Tail(req[r].todo)]
    <2>5. Len(req[r].todo) # 1 => RequestOK(w) /\ w.pc = "staging"
      <3> SUFFICES ASSUME Len(req[r].todo) # 1
                   PROVE  RequestOK(w) /\ w.pc = "staging"
        OBVIOUS
      <3>1. Tail(req[r].todo) \in Todo(req[r].e)
        BY <2>3
      <3>2. Tail(req[r].todo) \in UNION {Todo(e) : e \in Entries}
        BY <2>2, <3>1
      <3>3. /\ w \in Staging /\ w.pc = "staging" /\ w.e = req[r].e
            /\ w.todo = Tail(req[r].todo)
        BY <2>1, <3>2 DEF Staging
      <3> QED
        BY <3>1, <3>3 DEF RequestOK
    <2>6. RequestOK([pc |-> "installed"])
      BY DEF RequestOK
    <2>7. req' = [req EXCEPT ![r] = IF Len(req[r].todo) = 1 THEN [pc |-> "installed"] ELSE w]
      <3>1. req' = [req EXCEPT ![r] = IF Len(req[r].todo) = 1 THEN [pc |-> "installed"]
                                      ELSE [req[r] EXCEPT !.todo = Tail(req[r].todo)]]
        BY <1>4 DEF Stage
      <3> QED
        BY <3>1, Zenon
    <2> HIDE DEF w
    <2>8. ReqOK'
      BY <1>4, <2>5, <2>6, <2>7, RequestMoves DEF Stage
    <2> QED
      BY <1>4, <2>4, <2>8 DEF Stage, Types, ClockOK, JarOK, FlowOK, KeysOK
  <1> QED
    BY <1>1, <1>2, <1>3, <1>4

LEMMA TypesKept ==
  ASSUME Types, [Next]_vars
  PROVE  Types'
  <1>1. CASE UNCHANGED vars
    BY <1>1, RequestsStay DEF vars, Types, ClockOK, JarOK, FlowOK, KeysOK, StagedOK
  <1>2. CASE LoginSteps
    <2>1. ASSUME NEW r \in Requests, NEW b \in Browsers, ByCookie(r, "publish", b)
          PROVE  Types'
      BY <2>1, TypesResolve
    <2>2. ASSUME NEW f \in Flows, EndSession(f) \/ \E u \in Users : SignIn(f, u)
          PROVE  Types'
      BY <2>2, TypesLogin
    <2>3. ASSUME NEW b \in Browsers,
                 \/ DropCookie(b) \/ Logout(b)
                 \/ \E f \in Flows : Login(b, f)
                 \/ \E k \in ApiKeys : WidgetToken(b, k)
          PROVE  Types'
      BY <2>3, TypesLogin, Zenon
    <2>4. ASSUME NEW r \in Requests, CallbackDone(r) \/ RefreshDone(r)
          PROVE  Types'
      BY <2>4, TypesRefresh
    <2>5. ASSUME NEW r \in Requests, NEW b \in Browsers,
                 Refresh(r, b) \/ \E c, s \in Flows : Callback(r, b, c, s)
          PROVE  Types'
      BY <2>5, TypesRefresh
    <2> QED
      BY <1>2, <2>1, <2>2, <2>3, <2>4, <2>5, Zenon DEF LoginSteps
  <1>3. CASE KeySteps
    BY <1>3, TypesLogin, TypesResolve, TypesValidate DEF KeySteps
  <1>4. CASE InstallSteps
    BY <1>4, TypesResolve, TypesServe DEF InstallSteps
  <1>5. CASE CommonSteps
    BY <1>5, TypesCommon, TypesResolve, TypesServe DEF CommonSteps
  <1> QED
    BY <1>1, <1>2, <1>3, <1>4, <1>5 DEF Next

LEMMA TypesInitially == Init => Types
  <1> SUFFICES ASSUME Init
               PROVE  Types
    OBVIOUS
  <1>1. ClockOK /\ StagedOK /\ FlowOK
    BY NatConstants DEF Init, ClockOK, StagedOK, FlowOK, Never
  <1>2. JarOK
    BY DEF Init, JarOK
  <1>3. KeysOK
    BY NatConstants DEF Init, KeysOK, Never
  <1>4. ReqOK
    BY NoReqOK DEF Init, ReqOK
  <1> QED
    BY <1>1, <1>2, <1>3, <1>4 DEF Types

LEMMA TypesAlways == Spec => []Types
  BY TypesInitially, TypesKept, PTL DEF Spec

--------------------------------------------------------------------------------
(* What a step does to the clock, the flows, the keys and the provider's      *)
(* sessions.                                                                  *)
FlowsGrow ==
  \A f \in Flows :
    /\ flow[f].st = "used" => flow'[f] = flow[f]
    /\ flow[f].st # "new" => flow'[f].st # "new" /\ flow'[f].from = flow[f].from
    /\ ended'[f] = ended[f] \/ (ended[f] = Never /\ ended'[f] = now)

KeysGrow ==
  \A k \in ApiKeys :
    /\ keys[k].org # None => keys'[k].org = keys[k].org
    /\ keys'[k].revoked = keys[k].revoked \/ (keys[k].revoked = Never /\ keys'[k].revoked = now)

ClockTicks ==
  /\ now' = now + 1
  /\ \A r \in Requests : Waits(r) => now < req[r].since + Flight
  /\ UNCHANGED <<gen, flow, keys, ended, req, jar, cache>>

LEMMA Grows ==
  ASSUME Types, [Next]_vars
  PROVE  /\ FlowsGrow /\ KeysGrow
         /\ now' = now \/ ClockTicks
  <1>1. ASSUME UNCHANGED vars \/ Tick
        PROVE  FlowsGrow /\ KeysGrow
    BY <1>1 DEF vars, Tick, FlowsGrow, KeysGrow
  <1>2. ASSUME Restart
        PROVE  FlowsGrow /\ KeysGrow
    BY <1>2 DEF Restart, FlowsGrow, KeysGrow
  <1>3. ASSUME NEW b \in Browsers, DropCookie(b) \/ Logout(b)
        PROVE  FlowsGrow /\ KeysGrow /\ now' = now
    BY <1>3 DEF DropCookie, Logout, FlowsGrow, KeysGrow, Types, FlowOK
  <1>4. ASSUME NEW b \in Browsers, NEW f \in Flows, Login(b, f)
        PROVE  FlowsGrow /\ KeysGrow /\ now' = now
    BY <1>4 DEF Login, FlowsGrow, KeysGrow, Types, FlowOK
  <1>5. ASSUME NEW b \in Browsers, NEW k \in ApiKeys, WidgetToken(b, k)
        PROVE  FlowsGrow /\ KeysGrow /\ now' = now
    BY <1>5 DEF WidgetToken, FlowsGrow, KeysGrow, Types, KeysOK
  <1>6. ASSUME NEW f \in Flows, EndSession(f)
        PROVE  FlowsGrow /\ KeysGrow /\ now' = now
    BY <1>6 DEF EndSession, FlowsGrow, KeysGrow, Types, FlowOK
  <1>7. ASSUME NEW f \in Flows, NEW u \in Users, SignIn(f, u)
        PROVE  FlowsGrow /\ KeysGrow /\ now' = now
    BY <1>7 DEF SignIn, FlowsGrow, KeysGrow, Types, FlowOK
  <1>8. ASSUME NEW k \in ApiKeys, RevokeKey(k)
        PROVE  FlowsGrow /\ KeysGrow /\ now' = now
    BY <1>8 DEF RevokeKey, FlowsGrow, KeysGrow, Types, KeysOK
  <1>9. ASSUME NEW r, NEW b, NEW c, NEW s, Callback(r, b, c, s)
        PROVE  FlowsGrow /\ KeysGrow /\ now' = now
    BY <1>9 DEF Callback, FlowsGrow, KeysGrow, Types, FlowOK
  <1>10. ASSUME NEW r, NEW b, NEW kind, NEW t, NEW k,
                Refresh(r, b) \/ ByCookie(r, kind, b) \/ ByToken(r, kind, t) \/ ByKey(r, kind, k)
         PROVE  FlowsGrow /\ KeysGrow /\ now' = now
    BY <1>10, Zenon DEF Refresh, ByCookie, ByToken, ByKey, FlowsGrow, KeysGrow
  <1>11. ASSUME NEW r, CallbackDone(r) \/ RefreshDone(r) \/ Validate(r) \/ Validated(r)
         PROVE  FlowsGrow /\ KeysGrow /\ now' = now
    BY <1>11, Zenon DEF CallbackDone, RefreshDone, Validate, Validated, FlowsGrow, KeysGrow
  <1>12. ASSUME NEW r, NEW e, Deliver(r) \/ GiveUp(r) \/ Stage(r) \/ FetchEntry(r, e)
         PROVE  FlowsGrow /\ KeysGrow /\ now' = now
    BY <1>12, Zenon DEF Deliver, GiveUp, Stage, FetchEntry, FlowsGrow, KeysGrow
  <1>13. now' = now \/ ClockTicks
    <2>1. CASE Tick \/ Restart \/ UNCHANGED vars
      BY <2>1 DEF Tick, Restart, vars, ClockTicks
    <2> QED
      BY <1>3, <1>4, <1>5, <1>6, <1>7, <1>8, <1>9, <1>10, <1>11, <1>12, <2>1, Zenon
         DEF Next, LoginSteps, KeySteps, InstallSteps, CommonSteps
  <1> QED
    BY <1>1, <1>2, <1>3, <1>4, <1>5, <1>6, <1>7, <1>8, <1>9, <1>10, <1>11, <1>12, <1>13, Zenon
       DEF Next, LoginSteps, KeySteps, InstallSteps, CommonSteps

(* What a step does to a browser's cookies: it leaves them, drops the session *)
(* cookie, adds the state cookie of a new flow, or ends a callback or refresh *)
(* of a request.                                                              *)
JarSteps ==
  \A b \in Browsers :
    /\ \/ jar'[b].session = jar[b].session \/ jar'[b].session = None
       \/ \E r \in Requests :
            /\ req[r].pc = "exchanging" /\ req[r].b = b
            /\ \E sid \in Sids(req[r].f) :
                 jar'[b].session = NewSession(flow[req[r].f].user, sid)
       \/ \E r \in Requests :
            /\ req[r].pc = "refreshing" /\ req[r].b = b
            /\ jar'[b].session =
                 [req[r].claims EXCEPT !.exp = req[r].at + SessionTTL, !.gen = gen]
    /\ \A c \in jar'[b].states :
         c \in jar[b].states \/ (flow'[c.id].st # "new" /\ flow'[c.id].from = b)

LEMMA JarMoves ==
  ASSUME Types, [Next]_vars
  PROVE  JarSteps
  <1>1. CASE jar' = jar
    BY <1>1 DEF JarSteps
  <1>2. ASSUME NEW b \in Browsers, DropCookie(b) \/ Logout(b)
        PROVE  JarSteps
    <2>1. jar' = [jar EXCEPT ![b].session = None]
      BY <1>2 DEF DropCookie, Logout
    <2>2. \A c \in Browsers : /\ jar'[c].session = jar[c].session \/ jar'[c].session = None
                              /\ jar'[c].states = jar[c].states
      BY <2>1 DEF Types, JarOK
    <2> QED
      BY <2>2 DEF JarSteps
  <1>3. ASSUME NEW b \in Browsers, NEW f \in Flows, Login(b, f)
        PROVE  JarSteps
    <2>1. flow'[f].st # "new" /\ flow'[f].from = b
      BY <1>3 DEF Login, Types, FlowOK
    <2>2. \A c \in Browsers :
            /\ jar'[c].session = jar[c].session
            /\ \A d \in jar'[c].states : d \in jar[c].states \/ (d.id = f /\ c = b)
      BY <1>3 DEF Login, Types, JarOK
    <2> QED
      BY <2>1, <2>2 DEF JarSteps
  <1>4. ASSUME NEW r \in Requests, CallbackDone(r)
        PROVE  JarSteps
    <2>1. PICK b, f : b = req[r].b /\ f = req[r].f
      OBVIOUS
    <2>2. req[r].pc = "exchanging" /\ b \in Browsers
      BY <1>4, <2>1 DEF CallbackDone, Types, ReqOK, RequestOK, Exchanging
    <2>3. PICK sid \in Sids(f) :
            jar' = [jar EXCEPT ![b] = [session |-> NewSession(flow[f].user, sid),
                                       states  |-> {c \in jar[b].states : c.id # f}]]
      BY <1>4, <2>1 DEF CallbackDone
    <2>4. /\ jar'[b].session = NewSession(flow[f].user, sid)
          /\ jar'[b].states \subseteq jar[b].states
          /\ \A c \in Browsers \ {b} : jar'[c] = jar[c]
      BY <2>2, <2>3 DEF Types, JarOK
    <2> QED
      BY <2>1, <2>2, <2>4 DEF JarSteps
  <1>5. ASSUME NEW r \in Requests, RefreshDone(r)
        PROVE  JarSteps
    <2>1. PICK b, s : /\ b = req[r].b
                      /\ s = [req[r].claims EXCEPT !.exp = req[r].at + SessionTTL, !.gen = gen]
      OBVIOUS
    <2>2. req[r].pc = "refreshing" /\ b \in Browsers
      BY <1>5, <2>1 DEF RefreshDone, Types, ReqOK, RequestOK, Refreshing
    <2>3. jar' = [jar EXCEPT ![b].session = s]
      BY <1>5, <2>1 DEF RefreshDone
    <2>4. /\ jar'[b].session = s /\ jar'[b].states = jar[b].states
          /\ \A c \in Browsers \ {b} : jar'[c] = jar[c]
      BY <2>2, <2>3 DEF Types, JarOK
    <2> QED
      BY <2>1, <2>2, <2>4 DEF JarSteps
  <1>6. ASSUME ~\E b \in Browsers : DropCookie(b) \/ Logout(b) \/ \E f \in Flows : Login(b, f),
               ~\E r \in Requests : CallbackDone(r) \/ RefreshDone(r)
        PROVE  jar' = jar
    <2>1. ASSUME NEW f, NEW u, NEW k, NEW b,
                 EndSession(f) \/ SignIn(f, u) \/ RevokeKey(k) \/ WidgetToken(b, k)
          PROVE  jar' = jar
      BY <2>1, Zenon DEF EndSession, SignIn, RevokeKey, WidgetToken
    <2>2. ASSUME NEW r, NEW b, NEW kind, NEW t, NEW k, NEW c, NEW s,
                 \/ Refresh(r, b) \/ ByCookie(r, kind, b) \/ ByToken(r, kind, t)
                 \/ ByKey(r, kind, k) \/ Callback(r, b, c, s)
          PROVE  jar' = jar
      BY <2>2, Zenon DEF Refresh, ByCookie, ByToken, ByKey, Callback
    <2>3. ASSUME NEW r, NEW e, \/ Validate(r) \/ Validated(r) \/ Deliver(r) \/ GiveUp(r)
                               \/ Stage(r) \/ FetchEntry(r, e)
          PROVE  jar' = jar
      BY <2>3, Zenon DEF Validate, Validated, Deliver, GiveUp, Stage, FetchEntry
    <2>4. CASE Tick \/ Restart \/ UNCHANGED vars
      BY <2>4 DEF Tick, Restart, vars
    <2> QED
      BY <1>6, <2>1, <2>2, <2>3, <2>4, Zenon
         DEF Next, LoginSteps, KeySteps, InstallSteps, CommonSteps
  <1> QED
    BY <1>1, <1>2, <1>3, <1>4, <1>5, <1>6

(* What a step does to a request.                                             *)
Begins(r) ==
  \/ \E b \in Browsers, f \in Flows :
       /\ StateCookie(b, f) /\ flow[f].st = "code" /\ ended[f] = Never
       /\ flow' = [flow EXCEPT ![f].st = "used"] /\ UNCHANGED ended
       /\ req'[r] = [pc |-> "exchanging", b |-> b, f |-> f, since |-> now]
  \/ \E b \in Browsers :
       /\ Refreshable(jar[b].session) /\ StillSignedIn(jar[b].session) /\ UNCHANGED ended
       /\ req'[r] = [pc |-> "refreshing", b |-> b, claims |-> jar[b].session,
                     at |-> now, since |-> now]
  \/ \E kind \in {"publish", "install"}, k \in ApiKeys :
       req'[r] = [pc |-> "asking", kind |-> kind, k |-> k, since |-> now]

ResolvesBy(r) ==
  \E kind \in {"publish", "install"} :
    \/ \E b \in Browsers :
         LET c == jar[b].session
         IN  ResolveSession(c) /\ req'[r] = Resolved(kind, c.tenant, c.sub, c.sid)
    \/ \E t \in DOMAIN TokenTenant : req'[r] = Resolved(kind, TokenTenant[t], None, None)
    \/ \E k \in ApiKeys : CacheHit(k) /\ req'[r] = Resolved(kind, cache[k].tenant, None, k)
    \/ req[r].pc = "told" /\ req'[r] = Resolved(kind, req[r].org, None, req[r].k)

RequestSteps ==
  \A r \in Requests :
    \/ req'[r] = req[r]
    \/ req'[r].pc = "idle"
    \/ req'[r].pc \in {"staging", "installed"} /\ Stage(r)
    \/ req'[r].pc = "staging" /\ \E q \in Requests, e \in Entries : FetchEntry(q, e)
    \/ req[r].pc = "resolved" /\ Accepts(req[r].ctx) /\ req'[r].pc = "accepted"
    \/ UNCHANGED <<keys, now>> /\ Begins(r)
    \/ /\ req[r].pc = "asking" /\ req'[r].pc = "told"
       /\ keys[req[r].k].org # None /\ keys[req[r].k].revoked = Never
       /\ UNCHANGED <<keys, now>>
       /\ req'[r].k = req[r].k /\ req'[r].since = req[r].since /\ req'[r].org = keys[req[r].k].org
    \/ UNCHANGED <<keys, now, flow, ended>> /\ ResolvesBy(r)

LEMMA OneRequest ==
  ASSUME Types, NEW r \in Requests, NEW v, req' = [req EXCEPT ![r] = v]
  PROVE  req'[r] = v /\ \A q \in Requests \ {r} : req'[q] = req[q]
  BY DEF Types, ReqOK

LEMMA RequestMovesOn ==
  ASSUME Types, [Next]_vars
  PROVE  RequestSteps
  <1>1. CASE req' = req
    BY <1>1 DEF RequestSteps
  <1>2. CASE Restart
    BY <1>2 DEF Restart, RequestSteps, NoReq
  <1>3. ASSUME NEW r \in Requests, NEW v, req' = [req EXCEPT ![r] = v],
               \/ v.pc = "idle"
               \/ v.pc \in {"staging", "installed"} /\ Stage(r)
               \/ req[r].pc = "resolved" /\ Accepts(req[r].ctx) /\ v.pc = "accepted"
        PROVE  RequestSteps
    BY <1>3, OneRequest DEF RequestSteps
  <1>4. ASSUME NEW r \in Requests, CallbackDone(r) \/ RefreshDone(r) \/ GiveUp(r)
        PROVE  RequestSteps
    BY <1>3, <1>4, NoReqOK DEF CallbackDone, RefreshDone, GiveUp
  <1>5. ASSUME NEW r \in Requests, Deliver(r)
        PROVE  RequestSteps
    <2>1. [pc |-> "accepted"].pc = "accepted"
      OBVIOUS
    <2> QED
      BY <1>3, <1>5, <2>1, NoReqOK DEF Deliver
  <1>6. ASSUME NEW r \in Requests, Stage(r)
        PROVE  RequestSteps
    <2>1. PICK v : /\ req' = [req EXCEPT ![r] = v]
                   /\ v = [pc |-> "installed"] \/ v = [req[r] EXCEPT !.todo = Tail(req[r].todo)]
      <3>1. CASE Len(req[r].todo) = 1
        BY <1>6, <3>1 DEF Stage
      <3>2. CASE Len(req[r].todo) # 1
        BY <1>6, <3>2 DEF Stage
      <3> QED
        BY <3>1, <3>2
    <2>2. v.pc \in {"installed", "staging"}
      <3>1. req[r] \in Staging
        BY <1>6 DEF Stage, Types, ReqOK, RequestOK
      <3> QED
        BY <2>1, <3>1 DEF Staging
    <2> QED
      BY <1>3, <1>6, <2>1, <2>2
  <1>7. ASSUME NEW r \in Requests, NEW e \in Entries, FetchEntry(r, e)
        PROVE  RequestSteps
    <2> DEFINE s      == ShardOf[req[r].tenant]
               others == {q \in Requests \ {r} : req[q].pc = "staging" /\ req[q].shard = s}
               todo   == IF e \in HasReadme THEN <<"wasm", "toml", "readme">>
                         ELSE <<"wasm", "toml">>
               v      == [pc |-> "staging", e |-> e, shard |-> s, alone |-> others = {},
                          todo |-> todo]
    <2>a. req' = [q \in Requests |-> IF q = r THEN v
                                     ELSE IF q \in others THEN [req[q] EXCEPT !.alone = FALSE]
                                     ELSE req[q]]
      BY <1>7 DEF FetchEntry
    <2>b. v.pc = "staging" /\ \A q \in others : q \in Requests /\ req[q].pc = "staging"
      OBVIOUS
    <2> HIDE DEF v, others
    <2>1. /\ v.pc = "staging" /\ \A q \in others : q \in Requests /\ req[q].pc = "staging"
          /\ \A q \in Requests : req'[q] = IF q = r THEN v
                                           ELSE IF q \in others
                                           THEN [req[q] EXCEPT !.alone = FALSE] ELSE req[q]
      BY <2>a, <2>b
    <2>2. ASSUME NEW q \in Requests
          PROVE  req'[q] = req[q] \/ req'[q].pc = "staging"
      <3>1. CASE q # r /\ q \in others
        <4>1. req[q] \in Staging
          BY <2>1, <3>1 DEF Types, ReqOK, RequestOK
        <4> QED
          BY <2>1, <3>1, <4>1 DEF Staging
      <3> QED
        BY <2>1, <3>1
    <2> QED
      BY <1>7, <2>2 DEF RequestSteps
  <1>8. ASSUME NEW r \in Requests, NEW b \in Browsers, NEW c \in Flows, NEW s \in Flows,
               Callback(r, b, c, s)
        PROVE  RequestSteps
    <2> DEFINE v == [pc |-> "exchanging", b |-> b, f |-> c, since |-> now]
    <2>1. req'[r] = v /\ \A q \in Requests \ {r} : req'[q] = req[q]
      BY <1>8, OneRequest DEF Callback
    <2>2. /\ StateCookie(b, c) /\ flow[c].st = "code" /\ ended[c] = Never
          /\ flow' = [flow EXCEPT ![c].st = "used"] /\ UNCHANGED <<ended, keys, now>>
      BY <1>8 DEF Callback
    <2>3. Begins(r)
      BY <2>1, <2>2 DEF Begins
    <2> QED
      BY <2>1, <2>2, <2>3 DEF RequestSteps
  <1>9. ASSUME NEW r \in Requests, NEW b \in Browsers, Refresh(r, b)
        PROVE  RequestSteps
    BY <1>9, OneRequest DEF Refresh, RequestSteps, Begins
  <1>10. ASSUME NEW r \in Requests, Validate(r)
         PROVE  RequestSteps
    <2> DEFINE key == keys[req[r].k]
               v   == [pc |-> "told", kind |-> req[r].kind, k |-> req[r].k,
                       since |-> req[r].since, org |-> key.org]
    <2>1. req' = [req EXCEPT ![r] = IF key.org # None /\ key.revoked = Never THEN v ELSE NoReq]
      BY <1>10 DEF Validate
    <2>2. CASE key.org # None /\ key.revoked = Never
      <3>1. req'[r] = v /\ \A q \in Requests \ {r} : req'[q] = req[q]
        BY <2>1, <2>2, OneRequest
      <3>2. v.pc = "told" /\ v.k = req[r].k /\ v.since = req[r].since /\ v.org = key.org
        OBVIOUS
      <3> QED
        BY <1>10, <2>2, <3>1, <3>2 DEF Validate, RequestSteps
    <2>3. CASE ~(key.org # None /\ key.revoked = Never)
      BY <1>3, <2>1, <2>3, NoReqOK
    <2> QED
      BY <2>2, <2>3
  <1>11. ASSUME NEW r \in Requests, NEW v, req' = [req EXCEPT ![r] = v],
                ResolvesBy(r), UNCHANGED <<keys, now, flow, ended>>
         PROVE  RequestSteps
    BY <1>11, OneRequest DEF RequestSteps
  <1>12. ASSUME NEW r \in Requests, Validated(r)
         PROVE  RequestSteps
    <2>1. req[r] \in Told
      BY <1>12 DEF Validated, Types, ReqOK, RequestOK
    <2>2. req[r].kind \in {"publish", "install"}
      BY <2>1 DEF Told
    <2>3. req' = [req EXCEPT ![r] = Resolved(req[r].kind, req[r].org, None, req[r].k)]
      BY <1>12 DEF Validated
    <2>4. req'[r] = Resolved(req[r].kind, req[r].org, None, req[r].k)
      BY <2>3, OneRequest
    <2>5. ResolvesBy(r)
      BY <1>12, <2>2, <2>4 DEF ResolvesBy, Validated
    <2> QED
      BY <1>11, <1>12, <2>3, <2>5 DEF Validated
  <1>13. ASSUME NEW r \in Requests, NEW kind \in {"publish", "install"}, NEW b \in Browsers,
                ByCookie(r, kind, b)
         PROVE  RequestSteps
    <2>1. ResolvesBy(r)
      <3> DEFINE c == jar[b].session
      <3>1. /\ ResolveSession(c)
            /\ req' = [req EXCEPT ![r] = Resolved(kind, c.tenant, c.sub, c.sid)]
        BY <1>13 DEF ByCookie
      <3>2. req'[r] = Resolved(kind, c.tenant, c.sub, c.sid)
        BY <3>1, OneRequest
      <3> QED
        BY <3>1, <3>2, Zenon DEF ResolvesBy
    <2> QED
      BY <1>11, <1>13, <2>1 DEF ByCookie
  <1>14. ASSUME NEW r \in Requests, NEW kind \in {"publish", "install"},
                NEW t \in DOMAIN TokenTenant, ByToken(r, kind, t)
         PROVE  RequestSteps
    <2>1. ResolvesBy(r)
      BY <1>14, OneRequest DEF ByToken, ResolvesBy
    <2> QED
      BY <1>11, <1>14, <2>1 DEF ByToken
  <1>15. ASSUME NEW r \in Requests, NEW kind \in {"publish", "install"}, NEW k \in ApiKeys,
                ByKey(r, kind, k)
         PROVE  RequestSteps
    <2>1. CASE CacheHit(k)
      <3>1. req' = [req EXCEPT ![r] = Resolved(kind, cache[k].tenant, None, k)]
        BY <1>15, <2>1 DEF ByKey
      <3>2. ResolvesBy(r)
        BY <2>1, <3>1, OneRequest DEF ResolvesBy
      <3> QED
        BY <1>11, <1>15, <3>1, <3>2 DEF ByKey
    <2>2. CASE ~CacheHit(k)
      <3>1. req' = [req EXCEPT ![r] = [pc |-> "asking", kind |-> kind, k |-> k, since |-> now]]
        BY <1>15, <2>2 DEF ByKey
      <3>2. Begins(r)
        BY <3>1, OneRequest DEF Begins
      <3> QED
        BY <1>15, <3>1, <3>2, OneRequest DEF ByKey, RequestSteps
    <2> QED
      BY <2>1, <2>2
  <1>16. ASSUME NEW f, NEW u, NEW k, NEW b,
                \/ EndSession(f) \/ SignIn(f, u) \/ RevokeKey(k) \/ WidgetToken(b, k)
                \/ DropCookie(b) \/ Logout(b) \/ Login(b, f)
         PROVE  req' = req
    BY <1>16, Zenon DEF EndSession, SignIn, RevokeKey, WidgetToken, DropCookie, Logout, Login
  <1>17. CASE Tick \/ UNCHANGED vars
    BY <1>1, <1>17 DEF Tick, vars
  <1>18. CASE LoginSteps
    BY <1>1, <1>4, <1>8, <1>9, <1>13, <1>16, <1>18, Zenon DEF LoginSteps
  <1>19. CASE KeySteps
    BY <1>1, <1>10, <1>12, <1>15, <1>16, <1>19, Zenon DEF KeySteps
  <1>20. CASE InstallSteps
    BY <1>6, <1>7, <1>13, <1>14, <1>15, <1>20, Zenon DEF InstallSteps
  <1>21. CASE CommonSteps
    BY <1>2, <1>4, <1>5, <1>14, <1>17, <1>21, Zenon DEF CommonSteps
  <1> QED
    BY <1>17, <1>18, <1>19, <1>20, <1>21 DEF Next

LEMMA ResolvedPc ==
  ASSUME NEW kind, NEW tenant, NEW sub, NEW by
  PROVE  LET q == Resolved(kind, tenant, sub, by)
         IN  /\ q.pc \in {"fetching", "resolved"} /\ q.by = by /\ q.tenant = tenant
             /\ q.pc = "resolved" => q.ctx = Context(tenant, sub)
  <1> DEFINE c == Context(tenant, sub)
  <1> HIDE DEF c
  <1>1. Resolved(kind, tenant, sub, by) =
          IF kind = "install" THEN [pc |-> "fetching", tenant |-> tenant, sub |-> sub, by |-> by]
          ELSE [pc |-> "resolved", tenant |-> tenant, by |-> by, ctx |-> c]
    BY DEF Resolved, c
  <1> QED
    BY <1>1 DEF c

LEMMA BeginsWaiting ==
  ASSUME NEW r, Begins(r)
  PROVE  /\ req'[r].pc \in {"exchanging", "refreshing", "asking"} /\ req'[r].since = now
         /\ req'[r].pc = "exchanging" =>
              \E b \in Browsers, f \in Flows :
                /\ StateCookie(b, f) /\ flow[f].st = "code" /\ ended[f] = Never
                /\ flow' = [flow EXCEPT ![f].st = "used"] /\ UNCHANGED ended
                /\ req'[r].b = b /\ req'[r].f = f
         /\ req'[r].pc = "refreshing" =>
              \E b \in Browsers :
                /\ Refreshable(jar[b].session) /\ StillSignedIn(jar[b].session) /\ UNCHANGED ended
                /\ req'[r].b = b /\ req'[r].claims = jar[b].session /\ req'[r].at = now
  <1> DEFINE Goal == /\ req'[r].pc \in {"exchanging", "refreshing", "asking"} /\ req'[r].since = now
                     /\ req'[r].pc = "exchanging" =>
                          \E b \in Browsers, f \in Flows :
                            /\ StateCookie(b, f) /\ flow[f].st = "code" /\ ended[f] = Never
                            /\ flow' = [flow EXCEPT ![f].st = "used"] /\ UNCHANGED ended
                            /\ req'[r].b = b /\ req'[r].f = f
                     /\ req'[r].pc = "refreshing" =>
                          \E b \in Browsers :
                            /\ Refreshable(jar[b].session) /\ StillSignedIn(jar[b].session)
                            /\ UNCHANGED ended
                            /\ req'[r].b = b /\ req'[r].claims = jar[b].session /\ req'[r].at = now
  <1>1. ASSUME NEW b \in Browsers, NEW f \in Flows,
               StateCookie(b, f), flow[f].st = "code", ended[f] = Never,
               flow' = [flow EXCEPT ![f].st = "used"], UNCHANGED ended,
               req'[r] = [pc |-> "exchanging", b |-> b, f |-> f, since |-> now]
        PROVE  Goal
    <2>1. req'[r].pc = "exchanging" /\ req'[r].since = now /\ req'[r].b = b /\ req'[r].f = f
      BY <1>1
    <2> QED
      BY <1>1, <2>1
  <1>2. ASSUME NEW b \in Browsers,
               Refreshable(jar[b].session), StillSignedIn(jar[b].session), UNCHANGED ended,
               req'[r] = [pc |-> "refreshing", b |-> b, claims |-> jar[b].session,
                          at |-> now, since |-> now]
        PROVE  Goal
    <2>1. /\ req'[r].pc = "refreshing" /\ req'[r].since = now /\ req'[r].b = b
          /\ req'[r].claims = jar[b].session /\ req'[r].at = now
      BY <1>2
    <2> QED
      BY <1>2, <2>1
  <1>3. ASSUME NEW kind, NEW k,
               req'[r] = [pc |-> "asking", kind |-> kind, k |-> k, since |-> now]
        PROVE  Goal
    BY <1>3
  <1> HIDE DEF Goal
  <1>4. Goal
    BY <1>1, <1>2, <1>3, Zenon DEF Begins
  <1> QED
    BY <1>4 DEF Goal

(* Where a request that has just begun to wait for the provider comes from.   *)
LEMMA WaitsFrom ==
  ASSUME Types, RequestSteps, NEW r \in Requests
  PROVE  /\ req'[r].pc \in {"exchanging", "refreshing", "asking"} /\ req'[r] # req[r] => Begins(r)
         /\ req'[r].pc = "told" /\ req'[r] # req[r] =>
              /\ req[r].pc = "asking" /\ req'[r].k = req[r].k /\ req'[r].since = req[r].since
              /\ req'[r].org = keys[req[r].k].org
              /\ keys[req[r].k].org # None /\ keys[req[r].k].revoked = Never
              /\ UNCHANGED <<keys, now>>
  <1>1. ResolvesBy(r) => req'[r].pc \in {"fetching", "resolved"}
    BY ResolvedPc DEF ResolvesBy
  <1>2. Begins(r) => req'[r].pc \in {"exchanging", "refreshing", "asking"}
    BY BeginsWaiting
  <1> QED
    BY <1>1, <1>2 DEF RequestSteps

--------------------------------------------------------------------------------
(* A call to the provider is answered within Flight.                          *)
WaitInv == \A r \in Requests : Waits(r) => req[r].since <= now /\ now <= req[r].since + Flight

LEMMA WaitKept ==
  ASSUME Types, WaitInv, [Next]_vars
  PROVE  WaitInv'
  <1>1. RequestSteps /\ (now' = now \/ ClockTicks)
    BY RequestMovesOn, Grows
  <1>2. \A r \in Requests : Waits(r) => req[r].since \in Nat
    BY DEF Waits, Types, ReqOK, RequestOK, Exchanging, Refreshing, Asking, Told
  <1>3. now \in Nat /\ Flight \in Nat
    BY NatConstants DEF Types, ClockOK
  <1>4. CASE ClockTicks
    <2>1. \A r \in Requests : req'[r] = req[r]
      BY <1>4 DEF ClockTicks
    <2> QED
      BY <1>2, <1>3, <1>4, <2>1 DEF WaitInv, Waits, ClockTicks
  <1>5. ASSUME now' = now, NEW r \in Requests, Waits(r)'
        PROVE  req'[r].since <= now' /\ now' <= req'[r].since + Flight
    <2>1. CASE req'[r] = req[r]
      BY <1>5, <2>1 DEF WaitInv, Waits
    <2>2. CASE req'[r] # req[r] /\ req'[r].pc = "told"
      BY <1>1, <1>5, <2>2, WaitsFrom DEF WaitInv, Waits
    <2>3. CASE req'[r] # req[r] /\ req'[r].pc \in {"exchanging", "refreshing", "asking"}
      <3>1. Begins(r)
        BY <1>1, <2>3, WaitsFrom
      <3>2. req'[r].since = now
        BY <3>1, BeginsWaiting
      <3> QED
        BY <1>3, <1>5, <3>2
    <2> QED
      BY <1>5, <2>1, <2>2, <2>3 DEF Waits
  <1> QED
    BY <1>1, <1>4, <1>5 DEF WaitInv

--------------------------------------------------------------------------------
(* A session cookie, and the claims a refresh carries, belong to a flow that  *)
(* the browser began and that the cookie's user finished.                     *)
Used(fl, f, b) == fl[f].st = "used" /\ fl[f].from = b

Bound(fl, c, b) ==
  \E f \in Flows : /\ Used(fl, f, b) /\ fl[f].user = c.sub /\ c.sid \in {f, None}
                   /\ c.tenant = TenantOf(c.sub)

LoginInv ==
  /\ \A b \in Browsers : /\ jar[b].session # None => Bound(flow, jar[b].session, b)
                         /\ \A c \in jar[b].states : flow[c.id].st # "new" /\ flow[c.id].from = b
  /\ \A r \in Requests : /\ req[r].pc = "exchanging" => Used(flow, req[r].f, req[r].b)
                         /\ req[r].pc = "refreshing" => Bound(flow, req[r].claims, req[r].b)

LEMMA BoundStays ==
  ASSUME FlowsGrow, NEW c, NEW b, Bound(flow, c, b)
  PROVE  Bound(flow', c, b)
  BY DEF FlowsGrow, Bound, Used

LEMMA LoginKept ==
  ASSUME Types, LoginInv, [Next]_vars
  PROVE  LoginInv'
  <1>1. FlowsGrow /\ JarSteps /\ RequestSteps
    BY Grows, JarMoves, RequestMovesOn
  <1>2. ASSUME NEW b \in Browsers, jar'[b].session # None
        PROVE  Bound(flow', jar'[b].session, b)
    <2>1. CASE jar'[b].session = jar[b].session
      BY <1>1, <1>2, <2>1, BoundStays DEF LoginInv
    <2>2. ASSUME NEW r \in Requests, req[r].pc = "exchanging", req[r].b = b,
                 NEW sid \in Sids(req[r].f),
                 jar'[b].session = NewSession(flow[req[r].f].user, sid)
          PROVE  Bound(flow', jar'[b].session, b)
      <3>1. req[r].f \in Flows
        BY <2>2 DEF Types, ReqOK, RequestOK, Exchanging
      <3>2. /\ jar'[b].session.sub = flow[req[r].f].user /\ jar'[b].session.sid = sid
            /\ jar'[b].session.tenant = TenantOf(flow[req[r].f].user)
        BY <2>2 DEF NewSession
      <3>3. Used(flow, req[r].f, b) /\ sid \in {req[r].f, None}
        BY <2>2 DEF LoginInv, Sids
      <3>4. Bound(flow, jar'[b].session, b)
        BY <3>1, <3>2, <3>3 DEF Bound
      <3> QED
        BY <1>1, <3>4, BoundStays
    <2>3. ASSUME NEW r \in Requests, req[r].pc = "refreshing", req[r].b = b,
                 jar'[b].session = [req[r].claims EXCEPT !.exp = req[r].at + SessionTTL,
                                                         !.gen = gen]
          PROVE  Bound(flow', jar'[b].session, b)
      <3>1. req[r].claims \in Sessions
        BY <2>3 DEF Types, ReqOK, RequestOK, Refreshing
      <3>2. /\ jar'[b].session.sub = req[r].claims.sub /\ jar'[b].session.sid = req[r].claims.sid
            /\ jar'[b].session.tenant = req[r].claims.tenant
        BY <2>3, <3>1 DEF Sessions
      <3>3. Bound(flow, req[r].claims, b)
        BY <2>3 DEF LoginInv
      <3>4. Bound(flow, jar'[b].session, b)
        BY <3>2, <3>3 DEF Bound
      <3> QED
        BY <1>1, <3>4, BoundStays
    <2> QED
      BY <1>1, <1>2, <2>1, <2>2, <2>3 DEF JarSteps
  <1>3. ASSUME NEW b \in Browsers, NEW c \in jar'[b].states
        PROVE  flow'[c.id].st # "new" /\ flow'[c.id].from = b
    <2>1. CASE c \in jar[b].states
      <3>1. c.id \in Flows
        BY <2>1 DEF Types, JarOK, StateCookies
      <3> QED
        BY <1>1, <2>1, <3>1 DEF LoginInv, FlowsGrow
    <2> QED
      BY <1>1, <2>1 DEF JarSteps
  <1>4. ASSUME NEW r \in Requests, req'[r].pc = "exchanging"
        PROVE  Used(flow', req'[r].f, req'[r].b)
    <2>1. CASE req'[r] = req[r]
      <3>1. req[r].f \in Flows /\ Used(flow, req[r].f, req[r].b)
        BY <1>4, <2>1 DEF Types, ReqOK, RequestOK, Exchanging, LoginInv
      <3> QED
        BY <1>1, <2>1, <3>1 DEF FlowsGrow, Used
    <2>2. CASE req'[r] # req[r]
      <3>1. Begins(r)
        BY <1>1, <1>4, <2>2, WaitsFrom
      <3>2. PICK b \in Browsers, f \in Flows :
              /\ StateCookie(b, f) /\ flow' = [flow EXCEPT ![f].st = "used"]
              /\ req'[r].b = b /\ req'[r].f = f
        BY <1>4, <3>1, BeginsWaiting
      <3>3. flow[f].from = b
        BY <3>2 DEF StateCookie, LoginInv
      <3>4. flow'[f].st = "used" /\ flow'[f].from = b
        BY <3>2, <3>3 DEF Types, FlowOK
      <3> QED
        BY <3>2, <3>4 DEF Used
    <2> QED
      BY <2>1, <2>2
  <1>5. ASSUME NEW r \in Requests, req'[r].pc = "refreshing"
        PROVE  Bound(flow', req'[r].claims, req'[r].b)
    <2>1. CASE req'[r] = req[r]
      BY <1>1, <1>5, <2>1, BoundStays DEF LoginInv
    <2>2. CASE req'[r] # req[r]
      <3>1. Begins(r)
        BY <1>1, <1>5, <2>2, WaitsFrom
      <3>2. PICK b \in Browsers :
              /\ Refreshable(jar[b].session)
              /\ req'[r].b = b /\ req'[r].claims = jar[b].session
        BY <1>5, <3>1, BeginsWaiting
      <3>3. Bound(flow, jar[b].session, b)
        BY <3>2 DEF Refreshable, LoginInv
      <3> QED
        BY <1>1, <3>2, <3>3, BoundStays
    <2> QED
      BY <2>1, <2>2
  <1> QED
    BY <1>2, <1>3, <1>4, <1>5 DEF LoginInv

(* callback sets the session cookie of a browser only for a flow that this    *)
(* browser began and that ended with the sign-in of the cookie's user.        *)
THEOREM LoginIsBound == Spec => []LoginBound
  <1>1. Init => LoginInv
    BY NoReqOK DEF Init, LoginInv
  <1>2. Types /\ LoginInv /\ [Next]_vars => LoginInv'
    BY LoginKept
  <1>3. LoginInv => LoginBound
    BY DEF LoginInv, LoginBound, Bound, Used
  <1> QED
    BY <1>1, <1>2, <1>3, TypesAlways, PTL DEF Spec

--------------------------------------------------------------------------------
(* What a session of the provider that has ended still permits.               *)
InTime(c, t, en) ==
  /\ c.exp <= t + SessionTTL
  /\ c.sid \in Flows => c.exp <= en[c.sid] + Flight + SessionTTL

ContextInTime(q, t, en) ==
  /\ q.ctx.exp <= t + CtxTTL
  /\ q.ctx.exp <= en[q.by] + Flight + SessionTTL + CtxTTL

(* The context is in the name of a user who signed in, and the session it was *)
(* issued for is that user's, or one that names no session of the provider.   *)
Named(q, fl) ==
  \E g \in Flows : /\ fl[g].st = "used" /\ fl[g].user = q.ctx.sub /\ q.by \in {g, None}
                   /\ q.ctx.tenant = TenantOf(q.ctx.sub)

SignInv ==
  /\ \A b \in Browsers : jar[b].session # None => InTime(jar[b].session, now, ended)
  /\ \A r \in Requests :
       /\ req[r].pc = "exchanging" => req[r].since <= ended[req[r].f]
       /\ req[r].pc = "refreshing" =>
            /\ req[r].at = req[r].since
            /\ req[r].claims.sid \in Flows => req[r].at <= ended[req[r].claims.sid]
       /\ req[r].pc = "resolved" /\ req[r].by \in Flows => ContextInTime(req[r], now, ended)
       /\ req[r].pc = "resolved" /\ req[r].ctx.sub # None => Named(req[r], flow)

LEMMA Clock ==
  ASSUME Types, [Next]_vars
  PROVE  /\ now \in Nat /\ now' \in Nat /\ now <= now' /\ now <= Never /\ Never \in Nat
         /\ \A f \in Flows : ended[f] \in Nat /\ ended'[f] \in Nat
         /\ \A k \in ApiKeys : keys[k].revoked \in Nat /\ keys'[k].revoked \in Nat
  <1>1. Types' /\ (now' = now \/ ClockTicks)
    BY TypesKept, Grows
  <1> QED
    BY <1>1, NatConstants DEF ClockTicks, Types, ClockOK, FlowOK, KeysOK, Never

LEMMA InTimeStays ==
  ASSUME Types, [Next]_vars, NEW c \in Sessions, InTime(c, now, ended)
  PROVE  InTime(c, now', ended')
  <1>1. FlowsGrow /\ c.exp \in Nat
    BY Grows DEF Sessions
  <1>2. c.exp <= now' + SessionTTL
    BY <1>1, Clock, NatConstants DEF InTime
  <1>3. ASSUME c.sid \in Flows
        PROVE  c.exp <= ended'[c.sid] + Flight + SessionTTL
    <2>1. CASE ended'[c.sid] = ended[c.sid]
      BY <1>3, <2>1 DEF InTime
    <2>2. CASE ended'[c.sid] = now
      BY <1>1, <2>2, Clock, NatConstants DEF InTime
    <2> QED
      BY <1>1, <1>3, <2>1, <2>2 DEF FlowsGrow
  <1> QED
    BY <1>2, <1>3 DEF InTime

LEMMA SessionsInTime ==
  ASSUME Types, WaitInv, SignInv, [Next]_vars, NEW b \in Browsers, jar'[b].session # None
  PROVE  InTime(jar'[b].session, now', ended')
  <1>1. FlowsGrow /\ JarSteps
    BY Grows, JarMoves
  <1>2. CASE jar'[b].session = jar[b].session
    <2>1. PICK c : c = jar[b].session
      OBVIOUS
    <2>2. c \in Sessions /\ InTime(c, now, ended)
      BY <1>2, <2>1 DEF Types, JarOK, SignInv
    <2>3. InTime(c, now', ended')
      BY <2>2, InTimeStays
    <2> QED
      BY <1>2, <2>1, <2>3
  <1>3. ASSUME NEW r \in Requests, req[r].pc = "exchanging", NEW sid \in Sids(req[r].f),
               jar'[b].session = NewSession(flow[req[r].f].user, sid)
        PROVE  InTime(jar'[b].session, now', ended')
    <2>1. PICK f, c : f = req[r].f /\ c = jar'[b].session
      OBVIOUS
    <2>2. f \in Flows /\ req[r].since \in Nat
      BY <1>3, <2>1 DEF Types, ReqOK, RequestOK, Exchanging
    <2>3. c.exp = now + SessionTTL /\ c.sid = sid /\ sid \in {f, None}
      BY <1>3, <2>1 DEF NewSession, Sids
    <2>4. now <= req[r].since + Flight /\ req[r].since <= ended[f]
      BY <1>3, <2>1 DEF WaitInv, Waits, SignInv
    <2>5. now <= ended'[f] + Flight
      BY <1>1, <2>2, <2>4, Clock, NatConstants DEF FlowsGrow
    <2>6. sid \in Flows => sid = f
      BY <2>3, GatewayAssumption
    <2>7. InTime(c, now', ended')
      BY <2>2, <2>3, <2>5, <2>6, Clock, NatConstants DEF InTime
    <2> QED
      BY <2>1, <2>7
  <1>4. ASSUME NEW r \in Requests, req[r].pc = "refreshing",
               jar'[b].session = [req[r].claims EXCEPT !.exp = req[r].at + SessionTTL,
                                                       !.gen = gen]
        PROVE  InTime(jar'[b].session, now', ended')
    <2>1. PICK c, at, sid : c = jar'[b].session /\ at = req[r].at /\ sid = req[r].claims.sid
      OBVIOUS
    <2>2. req[r].claims \in Sessions /\ at \in Nat
      BY <1>4, <2>1 DEF Types, ReqOK, RequestOK, Refreshing
    <2>3. c.exp = at + SessionTTL /\ c.sid = sid
      BY <1>4, <2>1, <2>2 DEF Sessions
    <2>4. at <= now /\ (sid \in Flows => at <= ended[sid])
      BY <1>4, <2>1 DEF WaitInv, Waits, SignInv
    <2>5. sid \in Flows => at <= ended'[sid]
      BY <1>1, <2>2, <2>4, Clock DEF FlowsGrow
    <2>6. at <= now'
      BY <2>2, <2>4, Clock
    <2>7. InTime(c, now', ended')
      BY <2>2, <2>3, <2>5, <2>6, Clock, NatConstants DEF InTime
    <2> QED
      BY <2>1, <2>7
  <1> QED
    BY <1>1, <1>2, <1>3, <1>4 DEF JarSteps

LEMMA RequestsInTime ==
  ASSUME Types, WaitInv, SignInv, [Next]_vars, NEW r \in Requests
  PROVE  /\ req'[r].pc = "exchanging" => req'[r].since <= ended'[req'[r].f]
         /\ req'[r].pc = "refreshing" =>
              /\ req'[r].at = req'[r].since
              /\ req'[r].claims.sid \in Flows => req'[r].at <= ended'[req'[r].claims.sid]
  <1>1. FlowsGrow /\ RequestSteps
    BY Grows, RequestMovesOn
  <1>2. ASSUME req'[r].pc = "exchanging"
        PROVE  req'[r].since <= ended'[req'[r].f]
    <2>1. CASE req'[r] = req[r]
      <3>1. req[r].f \in Flows /\ req[r].since \in Nat
        BY <1>2, <2>1 DEF Types, ReqOK, RequestOK, Exchanging
      <3>2. req[r].since <= ended[req[r].f] /\ req[r].since <= now
        BY <1>2, <2>1 DEF SignInv, WaitInv, Waits
      <3> QED
        BY <1>1, <2>1, <3>1, <3>2, Clock DEF FlowsGrow
    <2>2. CASE req'[r] # req[r]
      <3>1. Begins(r)
        BY <1>1, <1>2, <2>2, WaitsFrom
      <3>2. PICK f \in Flows : ended[f] = Never /\ UNCHANGED ended /\ req'[r].f = f
        BY <1>2, <3>1, BeginsWaiting
      <3>3. req'[r].since = now
        BY <3>1, BeginsWaiting
      <3> QED
        BY <3>2, <3>3, Clock
    <2> QED
      BY <2>1, <2>2
  <1>3. ASSUME req'[r].pc = "refreshing"
        PROVE  /\ req'[r].at = req'[r].since
               /\ req'[r].claims.sid \in Flows => req'[r].at <= ended'[req'[r].claims.sid]
    <2>1. CASE req'[r] = req[r]
      <3>1. req[r].at \in Nat
        BY <1>3, <2>1 DEF Types, ReqOK, RequestOK, Refreshing
      <3>2. /\ req[r].at = req[r].since /\ req[r].at <= now
            /\ req[r].claims.sid \in Flows => req[r].at <= ended[req[r].claims.sid]
        BY <1>3, <2>1 DEF SignInv, WaitInv, Waits
      <3> QED
        BY <1>1, <2>1, <3>1, <3>2, Clock DEF FlowsGrow
    <2>2. CASE req'[r] # req[r]
      <3>1. Begins(r)
        BY <1>1, <1>3, <2>2, WaitsFrom
      <3>2. PICK b \in Browsers :
              /\ StillSignedIn(jar[b].session) /\ UNCHANGED ended
              /\ req'[r].claims = jar[b].session /\ req'[r].at = now /\ req'[r].since = now
        BY <1>3, <3>1, BeginsWaiting
      <3>3. jar[b].session.sid \in Flows => ended[jar[b].session.sid] = Never
        BY <3>2, GatewayAssumption DEF StillSignedIn
      <3> QED
        BY <3>2, <3>3, Clock
    <2> QED
      BY <2>1, <2>2
  <1> QED
    BY <1>2, <1>3

(* A request that has just been resolved: by whom.                            *)
LEMMA ResolvedFrom ==
  ASSUME Types, RequestSteps, NEW r \in Requests, req'[r] # req[r],
         req'[r].pc \in {"fetching", "resolved"}
  PROVE  ResolvesBy(r) /\ UNCHANGED <<keys, now, flow, ended>>
  <1>1. Begins(r) => req'[r].pc \in {"exchanging", "refreshing", "asking"}
    BY BeginsWaiting
  <1> QED
    BY <1>1 DEF RequestSteps

LEMMA ContextsInTime ==
  ASSUME Types, LoginInv, SignInv, [Next]_vars, NEW r \in Requests,
         req'[r].pc = "resolved", req'[r].by \in Flows
  PROVE  ContextInTime(req'[r], now', ended')
  <1>1. FlowsGrow /\ RequestSteps
    BY Grows, RequestMovesOn
  <1>2. PICK q : q = req'[r]
    OBVIOUS
  <1>3. CASE req'[r] = req[r]
    <2>1. q.by \in Flows /\ q.ctx \in Contexts /\ ContextInTime(q, now, ended)
      BY <1>2, <1>3 DEF Types, ReqOK, RequestOK, Answered, SignInv
    <2>2. q.ctx.exp \in Nat
      BY <2>1 DEF Contexts
    <2>3. q.ctx.exp <= now' + CtxTTL
      BY <2>1, <2>2, Clock, NatConstants DEF ContextInTime
    <2>4. q.ctx.exp <= ended'[q.by] + Flight + SessionTTL + CtxTTL
      <3>1. CASE ended'[q.by] = ended[q.by]
        BY <2>1, <3>1 DEF ContextInTime
      <3>2. CASE ended'[q.by] = now
        BY <2>1, <2>2, <3>2, Clock, NatConstants DEF ContextInTime
      <3> QED
        BY <1>1, <2>1, <3>1, <3>2 DEF FlowsGrow
    <2>5. ContextInTime(q, now', ended')
      BY <1>1, <2>1, <2>3, <2>4 DEF ContextInTime, FlowsGrow
    <2> QED
      BY <1>2, <2>5
  <1>4. CASE req'[r] # req[r]
    <2>1. ResolvesBy(r) /\ UNCHANGED <<now, flow, ended>>
      BY <1>1, <1>4, ResolvedFrom
    <2>2. ASSUME NEW kind, NEW b \in Browsers, ResolveSession(jar[b].session),
                 req'[r] = Resolved(kind, jar[b].session.tenant, jar[b].session.sub,
                                    jar[b].session.sid)
          PROVE  ContextInTime(req'[r], now', ended')
      <3>1. PICK c : c = jar[b].session
        OBVIOUS
      <3>2. c # None /\ c.exp >= now /\ c \in Sessions /\ InTime(c, now, ended) /\ Bound(flow, c, b)
        BY <2>2, <3>1 DEF ResolveSession, Types, JarOK, SignInv, LoginInv
      <3>3. q.by = c.sid /\ q.ctx = Context(c.tenant, c.sub)
        BY <1>2, <2>2, <3>1, ResolvedPc
      <3>4. q.ctx.exp = now + CtxTTL /\ q.ctx.sub = c.sub /\ q.ctx.tenant = c.tenant
        BY <3>3 DEF Context
      <3>5. c.sid \in Flows
        BY <1>2, <3>3
      <3>6. now <= ended[c.sid] + Flight + SessionTTL
        <4>1. c.exp \in Nat
          BY <3>2 DEF Sessions
        <4> QED
          BY <3>2, <3>5, <4>1, Clock, NatConstants DEF InTime
      <3>7. ContextInTime(q, now', ended')
        BY <2>1, <3>3, <3>4, <3>5, <3>6, Clock, NatConstants DEF ContextInTime
      <3> QED
        BY <1>2, <3>7
    <2>3. ASSUME NEW kind, NEW t, NEW k, k \notin Flows, req'[r] = Resolved(kind, t, None, k)
          PROVE  FALSE
      BY <2>3, ResolvedPc
    <2>4. None \notin Flows /\ \A k \in ApiKeys : k \notin Flows
      BY GatewayAssumption
    <2>5. req[r].pc = "told" => req[r].k \in ApiKeys
      BY DEF Types, ReqOK, RequestOK, Told
    <2> QED
      BY <2>1, <2>2, <2>3, <2>4, <2>5, Zenon DEF ResolvesBy
  <1> QED
    BY <1>3, <1>4

(* A context with a subject comes from a session cookie.                      *)
LEMMA ContextsNamed ==
  ASSUME Types, LoginInv, SignInv, [Next]_vars, NEW r \in Requests,
         req'[r].pc = "resolved", req'[r].ctx.sub # None
  PROVE  Named(req'[r], flow')
  <1>1. FlowsGrow /\ RequestSteps
    BY Grows, RequestMovesOn
  <1>2. CASE req'[r] = req[r]
    <2>1. Named(req[r], flow)
      BY <1>2 DEF SignInv
    <2> QED
      BY <1>1, <1>2, <2>1 DEF Named, FlowsGrow
  <1>3. CASE req'[r] # req[r]
    <2>1. ResolvesBy(r) /\ UNCHANGED <<now, flow, ended>>
      BY <1>1, <1>3, ResolvedFrom
    <2>2. ASSUME NEW kind, NEW b \in Browsers, ResolveSession(jar[b].session),
                 req'[r] = Resolved(kind, jar[b].session.tenant, jar[b].session.sub,
                                    jar[b].session.sid)
          PROVE  Named(req'[r], flow')
      <3>1. PICK c, q : c = jar[b].session /\ q = req'[r]
        OBVIOUS
      <3>2. Bound(flow, c, b)
        BY <2>2, <3>1 DEF ResolveSession, LoginInv
      <3>3. q.by = c.sid /\ q.ctx = Context(c.tenant, c.sub)
        BY <2>2, <3>1, ResolvedPc
      <3>4. q.ctx.sub = c.sub /\ q.ctx.tenant = c.tenant
        BY <3>3 DEF Context
      <3>5. Named(q, flow')
        BY <2>1, <3>2, <3>3, <3>4 DEF Bound, Used, Named
      <3> QED
        BY <3>1, <3>5
    <2>3. ASSUME NEW kind, NEW t, NEW k, req'[r] = Resolved(kind, t, None, k)
          PROVE  FALSE
      <3>1. req'[r].ctx = Context(t, None)
        BY <2>3, ResolvedPc
      <3> QED
        BY <3>1 DEF Context
    <2> QED
      BY <2>1, <2>2, <2>3, Zenon DEF ResolvesBy
  <1> QED
    BY <1>2, <1>3

LEMMA SignKept ==
  ASSUME Types, WaitInv, LoginInv, SignInv, [Next]_vars
  PROVE  SignInv'
  BY SessionsInTime, RequestsInTime, ContextsInTime, ContextsNamed DEF SignInv

LEMMA WaitAlways == Spec => []WaitInv
  <1>1. Init => WaitInv
    BY NoReqOK DEF Init, WaitInv, Waits
  <1> QED
    BY <1>1, WaitKept, TypesAlways, PTL DEF Spec

LEMMA LoginAlways == Spec => []LoginInv
  <1>1. Init => LoginInv
    BY NoReqOK DEF Init, LoginInv
  <1> QED
    BY <1>1, LoginKept, TypesAlways, PTL DEF Spec

(* Whoever acts at the marketplace signed in; once the provider's session     *)
(* that the cookie names has ended, contexts are accepted for no longer than  *)
(* Flight and the lifetimes of cookie and context.                            *)
THEOREM SignOutIsBound == Spec => SignOutBound
  <1> DEFINE InTheNameOf(r, g) ==
               LET c == req[r].ctx  s == req[r].by IN
               /\ flow[g].st = "used" /\ flow[g].user = c.sub /\ s \in {g, None}
               /\ c.tenant = TenantOf(c.sub)
               /\ s # None => now <= ended[g] + Flight + SessionTTL + CtxTTL
             Bounded ==
               \A r \in Requests : req[r].pc = "resolved" /\ req'[r].pc = "accepted" =>
                 \E g \in Flows : InTheNameOf(r, g)
  <1>1. Init => SignInv
    BY NoReqOK DEF Init, SignInv
  <1>2. Types /\ WaitInv /\ LoginInv /\ SignInv /\ [Next]_vars => SignInv'
    BY SignKept
  <1>3. Types /\ SignInv /\ [Next]_vars => [Bounded]_vars
    <2> SUFFICES ASSUME Types, SignInv, [Next]_vars, NEW r \in Requests,
                        req[r].pc = "resolved", req'[r].pc = "accepted"
                 PROVE  \E g \in Flows : InTheNameOf(r, g)
      BY Zenon
    <2>1. Begins(r) => req'[r].pc # "accepted"
      BY BeginsWaiting
    <2>2. ResolvesBy(r) => req'[r].pc # "accepted"
      BY ResolvedPc DEF ResolvesBy
    <2>3. Accepts(req[r].ctx)
      BY <2>1, <2>2, RequestMovesOn DEF RequestSteps
    <2>4. req[r].ctx.exp >= now
      BY <2>3 DEF Accepts, Verify
    <2>5. PICK g \in Flows : /\ flow[g].st = "used" /\ flow[g].user = req[r].ctx.sub
                            /\ req[r].by \in {g, None}
                            /\ req[r].ctx.tenant = TenantOf(req[r].ctx.sub)
      BY <2>3 DEF Accepts, SignInv, Named
    <2>6. ASSUME req[r].by # None
          PROVE  now <= ended[g] + Flight + SessionTTL + CtxTTL
      <3>1. req[r].by = g /\ ContextInTime(req[r], now, ended)
        BY <2>5, <2>6 DEF SignInv
      <3>2. req[r].ctx.exp \in Nat
        BY DEF Types, ReqOK, RequestOK, Answered, Contexts
      <3> QED
        BY <2>4, <3>1, <3>2, Clock, NatConstants DEF ContextInTime
    <2>7. InTheNameOf(r, g)
      BY <2>5, <2>6
    <2> QED
      BY <2>7
  <1> QED
    BY <1>1, <1>2, <1>3, TypesAlways, WaitAlways, LoginAlways, PTL DEF Spec, SignOutBound

--------------------------------------------------------------------------------
(* What a revoked key still permits: its cache entry, and an answer of the    *)
(* provider that is on its way.                                               *)
KeyInv ==
  /\ \A k \in DOMAIN cache : /\ cache[k].tenant = keys[k].org
                             /\ cache[k].exp <= now + CacheTTL
                             /\ cache[k].exp <= keys[k].revoked + Flight + CacheTTL
  /\ \A r \in Requests : req[r].pc = "told" => /\ req[r].org = keys[req[r].k].org
                                               /\ req[r].since <= keys[req[r].k].revoked

(* What a step does to an entry of the cache.                                 *)
LEMMA CacheMoves ==
  ASSUME Types, [Next]_vars, NEW k \in DOMAIN cache'
  PROVE  \/ k \in DOMAIN cache /\ cache'[k] = cache[k]
         \/ /\ UNCHANGED <<keys, now>>
            /\ \E r \in Requests : /\ req[r].pc = "told" /\ req[r].k = k
                                   /\ cache'[k] = [tenant |-> req[r].org, exp |-> now + CacheTTL]
  <1>1. CASE cache' = cache
    BY <1>1
  <1>2. CASE Restart
    <2>1. DOMAIN cache' = {}
      BY <1>2 DEF Restart
    <2> QED
      BY <2>1
  <1>3. ASSUME NEW r \in Requests, NEW kind, NEW j \in ApiKeys, ByKey(r, kind, j)
        PROVE  k \in DOMAIN cache /\ cache'[k] = cache[k]
    BY <1>3, CacheGot DEF ByKey
  <1>4. ASSUME NEW r \in Requests, Validated(r)
        PROVE  \/ k \in DOMAIN cache /\ cache'[k] = cache[k]
               \/ /\ UNCHANGED <<keys, now>> /\ req[r].pc = "told" /\ req[r].k = k
                  /\ cache'[k] = [tenant |-> req[r].org, exp |-> now + CacheTTL]
    <2>1. PICK j, t : j = req[r].k /\ t = req[r].org
      OBVIOUS
    <2>2. cache' = CacheInsert(j, t) /\ UNCHANGED <<keys, now>> /\ req[r].pc = "told"
      BY <1>4, <2>1 DEF Validated
    <2> QED
      BY <2>1, <2>2, CacheFilled
  <1>5. ASSUME ~Restart, ~\E r \in Requests : Validated(r),
               ~\E r \in Requests, kind \in {"publish", "install"}, j \in ApiKeys : ByKey(r, kind, j)
        PROVE  cache' = cache
    <2>1. ASSUME NEW f, NEW u, NEW j, NEW b,
                 \/ EndSession(f) \/ SignIn(f, u) \/ RevokeKey(j) \/ WidgetToken(b, j)
                 \/ DropCookie(b) \/ Logout(b) \/ Login(b, f)
          PROVE  cache' = cache
      BY <2>1, Zenon DEF EndSession, SignIn, RevokeKey, WidgetToken, DropCookie, Logout, Login
    <2>2. ASSUME NEW r, NEW b, NEW kind, NEW t, NEW c, NEW s,
                 \/ Refresh(r, b) \/ ByCookie(r, kind, b) \/ ByToken(r, kind, t)
                 \/ Callback(r, b, c, s)
          PROVE  cache' = cache
      BY <2>2, Zenon DEF Refresh, ByCookie, ByToken, Callback
    <2>3. ASSUME NEW r, NEW e,
                 \/ CallbackDone(r) \/ RefreshDone(r) \/ Validate(r) \/ Deliver(r) \/ GiveUp(r)
                 \/ Stage(r) \/ FetchEntry(r, e)
          PROVE  cache' = cache
      BY <2>3, Zenon DEF CallbackDone, RefreshDone, Validate, Deliver, GiveUp, Stage, FetchEntry
    <2>4. CASE Tick \/ UNCHANGED vars
      BY <2>4 DEF Tick, vars
    <2>5. "publish" \in {"publish", "install"} /\ "install" \in {"publish", "install"}
      OBVIOUS
    <2> QED
      BY <1>5, <2>1, <2>2, <2>3, <2>4, <2>5, Zenon
         DEF Next, LoginSteps, KeySteps, InstallSteps, CommonSteps
  <1> QED
    BY <1>1, <1>2, <1>3, <1>4, <1>5

LEMMA KeyKept ==
  ASSUME Types, WaitInv, KeyInv, [Next]_vars
  PROVE  KeyInv'
  <1>1. KeysGrow /\ RequestSteps
    BY Grows, RequestMovesOn
  <1>2. ASSUME NEW k \in DOMAIN cache'
        PROVE  /\ cache'[k].tenant = keys'[k].org /\ cache'[k].exp <= now' + CacheTTL
               /\ cache'[k].exp <= keys'[k].revoked + Flight + CacheTTL
    <2>1. CASE k \in DOMAIN cache /\ cache'[k] = cache[k]
      <3>1. /\ k \in ApiKeys /\ cache[k].tenant \in Tenants /\ cache[k].exp \in Nat
        BY <2>1 DEF Types, KeysOK
      <3>2. /\ cache[k].tenant = keys[k].org /\ cache[k].exp <= now + CacheTTL
            /\ cache[k].exp <= keys[k].revoked + Flight + CacheTTL
        BY <2>1 DEF KeyInv
      <3>3. keys'[k].org = keys[k].org
        BY <1>1, <3>1, <3>2 DEF KeysGrow, Tenants
      <3>4. cache[k].exp <= now' + CacheTTL
        BY <3>1, <3>2, Clock, NatConstants
      <3>5. cache[k].exp <= keys'[k].revoked + Flight + CacheTTL
        BY <1>1, <3>1, <3>2, Clock, NatConstants DEF KeysGrow
      <3> QED
        BY <2>1, <3>2, <3>3, <3>4, <3>5
    <2>2. ASSUME NEW r \in Requests, UNCHANGED <<keys, now>>, req[r].pc = "told", req[r].k = k,
                 cache'[k] = [tenant |-> req[r].org, exp |-> now + CacheTTL]
          PROVE  /\ cache'[k].tenant = keys'[k].org /\ cache'[k].exp <= now' + CacheTTL
                 /\ cache'[k].exp <= keys'[k].revoked + Flight + CacheTTL
      <3>1. cache'[k].tenant = req[r].org /\ cache'[k].exp = now + CacheTTL
        BY <2>2
      <3>2. /\ req[r].org = keys[k].org /\ req[r].since <= keys[k].revoked
            /\ now <= req[r].since + Flight
        BY <2>2 DEF KeyInv, WaitInv, Waits
      <3>3. k \in ApiKeys /\ req[r].since \in Nat
        BY <2>2 DEF Types, ReqOK, RequestOK, Told
      <3>4. now + CacheTTL <= keys[k].revoked + Flight + CacheTTL
        BY <3>2, <3>3, Clock, NatConstants
      <3>5. now + CacheTTL <= now + CacheTTL
        BY Clock, NatConstants
      <3> QED
        BY <2>2, <3>1, <3>2, <3>4, <3>5
    <2> QED
      BY <2>1, <2>2, CacheMoves
  <1>3. ASSUME NEW r \in Requests, req'[r].pc = "told"
        PROVE  req'[r].org = keys'[req'[r].k].org /\ req'[r].since <= keys'[req'[r].k].revoked
    <2>1. CASE req'[r] = req[r]
      <3>1. req[r].k \in ApiKeys /\ req[r].since \in Nat /\ req[r].org \in Tenants
        BY <1>3, <2>1 DEF Types, ReqOK, RequestOK, Told
      <3>2. /\ req[r].org = keys[req[r].k].org /\ req[r].since <= keys[req[r].k].revoked
            /\ req[r].since <= now
        BY <1>3, <2>1 DEF KeyInv, WaitInv, Waits
      <3> QED
        BY <1>1, <2>1, <3>1, <3>2, Clock DEF KeysGrow, Tenants
    <2>2. CASE req'[r] # req[r]
      <3>1. /\ req[r].pc = "asking" /\ req'[r].k = req[r].k /\ req'[r].since = req[r].since
            /\ req'[r].org = keys[req[r].k].org /\ keys[req[r].k].revoked = Never
            /\ UNCHANGED <<keys, now>>
        BY <1>1, <1>3, <2>2, WaitsFrom
      <3>2. req[r].since \in Nat /\ req[r].since <= now
        BY <3>1 DEF Types, ReqOK, RequestOK, Asking, WaitInv, Waits
      <3> QED
        BY <3>1, <3>2, Clock
    <2> QED
      BY <2>1, <2>2
  <1> QED
    BY <1>2, <1>3 DEF KeyInv

(* resolve_principal_async admits a revoked key for no longer than an answer  *)
(* may take and then a cache entry lives, and only for the key's tenant.      *)
THEOREM RevocationIsBound == Spec => RevocationBound
  <1> DEFINE Bounded ==
               \A r \in Requests : Resolves(r) /\ req'[r].by \in ApiKeys =>
                 LET key == keys[req'[r].by] IN
                 /\ req'[r].tenant = key.org
                 /\ \/ now <= key.revoked + Flight
                    \/ now < key.revoked + Flight + CacheTTL
  <1>1. Init => KeyInv
    <2>1. DOMAIN <<>> = {}
      OBVIOUS
    <2> QED
      BY <2>1, NoReqOK DEF Init, KeyInv
  <1>2. Types /\ WaitInv /\ KeyInv /\ [Next]_vars => KeyInv'
    BY KeyKept
  <1>3. Types /\ WaitInv /\ KeyInv /\ [Next]_vars => [Bounded]_vars
    <2> SUFFICES ASSUME Types, WaitInv, KeyInv, [Next]_vars, NEW r \in Requests, Resolves(r),
                        req'[r].by \in ApiKeys
                 PROVE  /\ req'[r].tenant = keys[req'[r].by].org
                        /\ \/ now <= keys[req'[r].by].revoked + Flight
                           \/ now < keys[req'[r].by].revoked + Flight + CacheTTL
      BY Zenon
    <2>1. ResolvesBy(r)
      <3>1. req'[r] # req[r] /\ req'[r].pc \in {"fetching", "resolved"}
        BY DEF Resolves
      <3> QED
        BY <3>1, RequestMovesOn, ResolvedFrom
    <2>2. ASSUME NEW kind, NEW t, NEW s, NEW k, k \notin ApiKeys, req'[r] = Resolved(kind, t, s, k)
          PROVE  FALSE
      BY <2>2, ResolvedPc
    <2>3. None \notin ApiKeys
      BY GatewayAssumption
    <2>4. ASSUME NEW b \in Browsers, ResolveSession(jar[b].session)
          PROVE  jar[b].session.sid \notin ApiKeys
      <3>1. jar[b].session \in Sessions
        BY <2>4 DEF ResolveSession, Types, JarOK
      <3> QED
        BY <3>1, GatewayAssumption DEF Sessions
    <2>5. ASSUME NEW kind, NEW k \in ApiKeys, CacheHit(k),
                 req'[r] = Resolved(kind, cache[k].tenant, None, k)
          PROVE  /\ req'[r].tenant = keys[req'[r].by].org
                 /\ now < keys[req'[r].by].revoked + Flight + CacheTTL
      <3>1. req'[r].by = k /\ req'[r].tenant = cache[k].tenant
        BY <2>5, ResolvedPc
      <3>2. k \in DOMAIN cache /\ cache[k].exp > now /\ cache[k].exp \in Nat
        BY <2>5 DEF CacheHit, Types, KeysOK
      <3>3. /\ cache[k].tenant = keys[k].org
            /\ cache[k].exp <= keys[k].revoked + Flight + CacheTTL
        BY <3>2 DEF KeyInv
      <3> QED
        BY <3>1, <3>2, <3>3, Clock, NatConstants
    <2>6. ASSUME NEW kind, req[r].pc = "told",
                 req'[r] = Resolved(kind, req[r].org, None, req[r].k)
          PROVE  /\ req'[r].tenant = keys[req'[r].by].org
                 /\ now <= keys[req'[r].by].revoked + Flight
      <3>1. req'[r].by = req[r].k /\ req'[r].tenant = req[r].org
        BY <2>6, ResolvedPc
      <3>2. req[r].k \in ApiKeys /\ req[r].since \in Nat
        BY <2>6 DEF Types, ReqOK, RequestOK, Told
      <3>3. /\ req[r].org = keys[req[r].k].org /\ req[r].since <= keys[req[r].k].revoked
            /\ now <= req[r].since + Flight
        BY <2>6 DEF KeyInv, WaitInv, Waits
      <3> QED
        BY <3>1, <3>2, <3>3, Clock, NatConstants
    <2> QED
      BY <2>1, <2>2, <2>3, <2>4, <2>5, <2>6, Zenon DEF ResolvesBy
  <1> QED
    BY <1>1, <1>2, <1>3, TypesAlways, WaitAlways, PTL DEF Spec, RevocationBound

--------------------------------------------------------------------------------
(* An installation that no other overlaps on its shard has staged what is not *)
(* left to stage.                                                             *)
FilesOf(e) == Files \ (IF e \in HasReadme THEN {} ELSE {"readme"})
Left(t)    == {t[i] : i \in 1 .. Len(t)}

InstallInv ==
  \A r \in Requests : req[r].pc = "staging" /\ req[r].alone =>
    /\ \A f \in FilesOf(req[r].e) \ Left(req[r].todo) : staged[req[r].shard][f] = req[r].e
    /\ \A q \in Requests \ {r} : req[q].pc = "staging" => req[q].shard # req[r].shard

LEMMA LeftAfter ==
  ASSUME NEW e, NEW t \in Todo(e)
  PROVE  /\ Left(t) \subseteq Left(Tail(t)) \cup {Head(t)}
         /\ Len(t) = 1 => Left(t) = {Head(t)}
  <1>1. t \in Seq(Files) /\ t # <<>>
    <2>1. "wasm" \in Files /\ "toml" \in Files /\ "readme" \in Files
      BY DEF Files
    <2>2. CASE t = <<"wasm", "toml", "readme">>
      BY <2>1, <2>2
    <2>3. CASE t = <<"toml", "readme">>
      BY <2>1, <2>3
    <2>4. CASE t = <<"wasm", "toml">>
      BY <2>1, <2>4
    <2>5. CASE t = <<"readme">>
      BY <2>1, <2>5
    <2>6. CASE t = <<"toml">>
      BY <2>1, <2>6
    <2> QED
      BY <2>2, <2>3, <2>4, <2>5, <2>6 DEF Todo
  <1>2. /\ Tail(t) \in Seq(Files) /\ Len(Tail(t)) = Len(t) - 1 /\ Head(t) = t[1] /\ Len(t) \in Nat
        /\ \A i \in 1 .. Len(t) - 1 : Tail(t)[i] = t[i + 1]
    BY <1>1
  <1>3. ASSUME NEW i \in 1 .. Len(t)
        PROVE  t[i] = Head(t) \/ t[i] \in Left(Tail(t))
    <2>1. CASE i = 1
      BY <1>2, <2>1
    <2>2. CASE i # 1
      <3>1. i - 1 \in 1 .. Len(t) - 1 /\ i - 1 \in 1 .. Len(Tail(t))
        BY <1>2, <2>2
      <3>2. Tail(t)[i - 1] = t[i]
        BY <1>2, <3>1
      <3> QED
        BY <3>1, <3>2 DEF Left
    <2> QED
      BY <2>1, <2>2
  <1>4. Len(t) = 1 => Left(t) = {Head(t)}
    BY <1>2 DEF Left
  <1> QED
    BY <1>3, <1>4 DEF Left

LEMMA StagedMoves ==
  ASSUME Types, [Next]_vars, ~\E r \in Requests : Stage(r)
  PROVE  staged' = staged
  <1>1. ASSUME NEW f, NEW u, NEW j, NEW b,
               \/ EndSession(f) \/ SignIn(f, u) \/ RevokeKey(j) \/ WidgetToken(b, j)
               \/ DropCookie(b) \/ Logout(b) \/ Login(b, f)
        PROVE  staged' = staged
    BY <1>1, Zenon DEF EndSession, SignIn, RevokeKey, WidgetToken, DropCookie, Logout, Login
  <1>2. ASSUME NEW r, NEW b, NEW kind, NEW t, NEW c, NEW s,
               \/ Refresh(r, b) \/ ByCookie(r, kind, b) \/ ByToken(r, kind, t)
               \/ ByKey(r, kind, c) \/ Callback(r, b, c, s)
        PROVE  staged' = staged
    BY <1>2, Zenon DEF Refresh, ByCookie, ByToken, ByKey, Callback
  <1>3. ASSUME NEW r, NEW e,
               \/ CallbackDone(r) \/ RefreshDone(r) \/ Validate(r) \/ Validated(r)
               \/ Deliver(r) \/ GiveUp(r) \/ FetchEntry(r, e)
        PROVE  staged' = staged
    BY <1>3, Zenon DEF CallbackDone, RefreshDone, Validate, Validated, Deliver, GiveUp, FetchEntry
  <1>4. CASE Tick \/ Restart \/ UNCHANGED vars
    BY <1>4 DEF Tick, Restart, vars
  <1> QED
    BY <1>1, <1>2, <1>3, <1>4, Zenon DEF Next, LoginSteps, KeySteps, InstallSteps, CommonSteps

(* The next blob of a request's entry is staged.                              *)
LEMMA InstallStage ==
  ASSUME Types, InstallInv, NEW r \in Requests, Stage(r)
  PROVE  /\ InstallInv'
         /\ req'[r].pc = "installed" /\ req[r].alone =>
              \A f \in FilesOf(req[r].e) : staged'[req[r].shard][f] = req[r].e
  <1>1. PICK s, e, t, h : s = req[r].shard /\ e = req[r].e /\ t = req[r].todo /\ h = Head(t)
    OBVIOUS
  <1>2. req[r].pc = "staging" /\ req[r] \in Staging /\ t \in Todo(e)
    BY <1>1 DEF Stage, Types, ReqOK, RequestOK
  <1>3. s \in Shards /\ e \in Entries /\ h \in Files /\ Len(t) \in Nat
    BY <1>1, <1>2, TodoSteps DEF Staging
  <1>4. /\ staged' = [staged EXCEPT ![s][h] = e]
        /\ req' = [req EXCEPT ![r] = IF Len(t) = 1 THEN [pc |-> "installed"]
                                     ELSE [req[r] EXCEPT !.todo = Tail(t)]]
    BY <1>1 DEF Stage
  <1>5. /\ staged'[s][h] = e /\ \A f \in Files \ {h} : staged'[s][f] = staged[s][f]
        /\ \A x \in Shards \ {s} : staged'[x] = staged[x]
    BY <1>3, <1>4 DEF Types, StagedOK
  <1>6. /\ req'[r] = IF Len(t) = 1 THEN [pc |-> "installed"] ELSE [req[r] EXCEPT !.todo = Tail(t)]
        /\ \A q \in Requests \ {r} : req'[q] = req[q]
    BY <1>4, OneRequest
  <1>7. req'[r].pc = "staging" => /\ req'[r].e = e /\ req'[r].shard = s /\ req'[r].todo = Tail(t)
                                  /\ req'[r].alone = req[r].alone
    <2>1. CASE Len(t) = 1
      BY <1>6, <2>1
    <2>2. CASE Len(t) # 1
      BY <1>1, <1>2, <1>6, <2>2 DEF Staging
    <2> QED
      BY <2>1, <2>2
  <1>8. \A f : f \in FilesOf(e) => f \in Files
    BY DEF FilesOf
  <1>9. ASSUME req[r].alone, NEW f \in FilesOf(e), f \notin Left(t) \/ f = h
        PROVE  staged'[s][f] = e
    BY <1>1, <1>2, <1>5, <1>8, <1>9 DEF InstallInv
  <1>10. ASSUME req'[r].pc = "staging", req'[r].alone
         PROVE  /\ \A f \in FilesOf(req'[r].e) \ Left(req'[r].todo) :
                     staged'[req'[r].shard][f] = req'[r].e
                /\ \A q \in Requests \ {r} : req'[q].pc = "staging" => req'[q].shard # req'[r].shard
    <2>1. \A f \in FilesOf(e) \ Left(Tail(t)) : f \notin Left(t) \/ f = h
      BY <1>1, <1>2, LeftAfter
    <2> QED
      BY <1>1, <1>2, <1>6, <1>7, <1>9, <1>10, <2>1 DEF InstallInv
  <1>11. ASSUME NEW q \in Requests \ {r}, req[q].pc = "staging", req[q].alone
         PROVE  /\ \A f \in FilesOf(req[q].e) \ Left(req[q].todo) :
                     staged'[req[q].shard][f] = req[q].e
                /\ \A x \in Requests \ {q} : req'[x].pc = "staging" => req'[x].shard # req[q].shard
    <2>1. /\ \A f \in FilesOf(req[q].e) \ Left(req[q].todo) : staged[req[q].shard][f] = req[q].e
          /\ \A x \in Requests \ {q} : req[x].pc = "staging" => req[x].shard # req[q].shard
      BY <1>11 DEF InstallInv
    <2>2. req[q].shard \in Shards \ {s}
      <3>1. req[q] \in Staging
        BY <1>11 DEF Types, ReqOK, RequestOK
      <3> QED
        BY <1>1, <1>2, <2>1, <3>1 DEF Staging
    <2>3. staged'[req[q].shard] = staged[req[q].shard]
      BY <1>5, <2>2
    <2>4. \A x \in Requests \ {q} : req'[x].pc = "staging" => req'[x].shard = req[x].shard /\ req[x].pc = "staging"
      BY <1>1, <1>2, <1>6, <1>7
    <2> QED
      BY <2>1, <2>3, <2>4
  <1>12. ASSUME NEW q \in Requests, req'[q].pc = "staging", req'[q].alone
         PROVE  /\ \A f \in FilesOf(req'[q].e) \ Left(req'[q].todo) :
                     staged'[req'[q].shard][f] = req'[q].e
                /\ \A x \in Requests \ {q} : req'[x].pc = "staging" => req'[x].shard # req'[q].shard
    <2>1. CASE q = r
      BY <1>10, <1>12, <2>1
    <2>2. CASE q # r
      <3>1. q \in Requests \ {r} /\ req'[q] = req[q]
        BY <1>6, <2>2
      <3>2. req[q].pc = "staging" /\ req[q].alone
        BY <1>12, <3>1
      <3> QED
        BY <1>11, <3>1, <3>2
    <2> QED
      BY <2>1, <2>2
  <1>13. ASSUME req'[r].pc = "installed", req[r].alone, NEW f \in FilesOf(e)
         PROVE  staged'[s][f] = e
    <2>1. Len(t) = 1
      <3>1. CASE Len(t) # 1
        BY <1>2, <1>6, <1>13, <3>1 DEF Staging
      <3> QED
        BY <3>1
    <2>2. f \notin Left(t) \/ f = h
      BY <1>1, <1>2, <2>1, LeftAfter
    <2> QED
      BY <1>9, <1>13, <2>2
  <1>14. InstallInv'
    BY <1>12 DEF InstallInv
  <1> QED
    BY <1>1, <1>13, <1>14

(* An installation begins: it is alone when no other runs on the shard, and   *)
(* the others are not alone any more.                                         *)
LEMMA InstallBegins ==
  ASSUME Types, InstallInv, NEW r \in Requests, NEW e \in Entries, FetchEntry(r, e)
  PROVE  InstallInv'
  <1> DEFINE s      == ShardOf[req[r].tenant]
             others == {q \in Requests \ {r} : req[q].pc = "staging" /\ req[q].shard = s}
             todo   == IF e \in HasReadme THEN <<"wasm", "toml", "readme">> ELSE <<"wasm", "toml">>
             a      == others = {}
             v      == [pc |-> "staging", e |-> e, shard |-> s, alone |-> a, todo |-> todo]
  <1>1. /\ req' = [q \in Requests |-> IF q = r THEN v
                                      ELSE IF q \in others THEN [req[q] EXCEPT !.alone = FALSE]
                                      ELSE req[q]]
        /\ UNCHANGED staged
    BY DEF FetchEntry
  <1>2. FilesOf(e) \subseteq Left(todo)
    <2>1. CASE e \in HasReadme
      <3>1. todo = <<"wasm", "toml", "readme">>
        BY <2>1
      <3>2. Len(todo) = 3 /\ todo[1] = "wasm" /\ todo[2] = "toml" /\ todo[3] = "readme"
        BY <3>1
      <3>3. 1 \in 1 .. 3 /\ 2 \in 1 .. 3 /\ 3 \in 1 .. 3
        OBVIOUS
      <3> HIDE DEF todo
      <3> QED
        BY <3>2, <3>3 DEF FilesOf, Files, Left
    <2>2. CASE e \notin HasReadme
      <3>1. todo = <<"wasm", "toml">>
        BY <2>2
      <3>2. Len(todo) = 2 /\ todo[1] = "wasm" /\ todo[2] = "toml"
        BY <3>1
      <3>3. 1 \in 1 .. 2 /\ 2 \in 1 .. 2
        OBVIOUS
      <3> HIDE DEF todo
      <3> QED
        BY <2>2, <3>2, <3>3 DEF FilesOf, Files, Left
    <2> QED
      BY <2>1, <2>2
  <1> HIDE DEF s, todo
  <1>3. /\ v.pc = "staging" /\ v.e = e /\ v.shard = s /\ v.todo = todo
        /\ v.alone = a
    OBVIOUS
  <1> HIDE DEF v
  <1>4. \A q \in Requests : req'[q] = IF q = r THEN v
                                      ELSE IF q \in others THEN [req[q] EXCEPT !.alone = FALSE]
                                      ELSE req[q]
    BY <1>1
  <1>5. ASSUME NEW q \in others
        PROVE  req[q].pc = "staging" /\ req'[q].shard = s /\ ~req'[q].alone
    <2>1. req[q] \in Staging /\ q \in Requests /\ q # r
      BY DEF Types, ReqOK, RequestOK
    <2> QED
      BY <1>4, <2>1 DEF Staging
  <1>6. ASSUME NEW q \in Requests, req'[q].pc = "staging", req'[q].alone
        PROVE  /\ \A f \in FilesOf(req'[q].e) \ Left(req'[q].todo) :
                    staged'[req'[q].shard][f] = req'[q].e
               /\ \A x \in Requests \ {q} : req'[x].pc = "staging" => req'[x].shard # req'[q].shard
    <2>1. CASE q = r
      <3>1. req'[q] = v
        BY <1>4, <2>1
      <3>2. others = {}
        BY <1>3, <1>6, <3>1
      <3>3. \A x \in Requests \ {r} : req'[x] = req[x] /\ (req[x].pc = "staging" => req[x].shard # s)
        BY <1>4, <3>2
      <3> QED
        BY <1>2, <1>3, <2>1, <3>1, <3>3
    <2>2. CASE q # r
      <3>1. q \notin others
        BY <1>5, <1>6
      <3>2. req'[q] = req[q]
        BY <1>4, <2>2, <3>1
      <3>3. /\ \A f \in FilesOf(req[q].e) \ Left(req[q].todo) : staged[req[q].shard][f] = req[q].e
            /\ \A x \in Requests \ {q} : req[x].pc = "staging" => req[x].shard # req[q].shard
        BY <1>6, <3>2 DEF InstallInv
      <3>4. req[q].shard # s
        BY <1>6, <2>2, <3>1, <3>2
      <3>5. ASSUME NEW x \in Requests \ {q}, req'[x].pc = "staging"
            PROVE  req'[x].shard # req[q].shard
        <4>1. CASE x = r
          BY <1>3, <1>4, <3>4, <4>1
        <4>2. CASE x # r /\ x \in others
          BY <1>5, <3>4, <4>2
        <4>3. CASE x # r /\ x \notin others
          BY <1>4, <3>3, <3>5, <4>3
        <4> QED
          BY <4>1, <4>2, <4>3
      <3> QED
        BY <1>1, <3>2, <3>3, <3>5
    <2> QED
      BY <2>1, <2>2
  <1> QED
    BY <1>6 DEF InstallInv

(* Every other step leaves what is staged, and begins no installation.        *)
LEMMA InstallOthers ==
  ASSUME Types, InstallInv, [Next]_vars, ~\E r \in Requests : Stage(r),
         ~\E r \in Requests, e \in Entries : FetchEntry(r, e)
  PROVE  InstallInv'
  <1>1. RequestSteps /\ staged' = staged
    BY RequestMovesOn, StagedMoves
  <1>2. ASSUME NEW r \in Requests, req'[r].pc = "staging"
        PROVE  req'[r] = req[r]
    <2>1. Begins(r) => req'[r].pc # "staging"
      BY BeginsWaiting
    <2>2. ResolvesBy(r) => req'[r].pc # "staging"
      BY ResolvedPc DEF ResolvesBy
    <2> QED
      BY <1>1, <1>2, <2>1, <2>2 DEF RequestSteps
  <1> QED
    BY <1>1, <1>2 DEF InstallInv

(* install_from_marketplace answers ok only when every file of the entry is   *)
(* staged, unless another installation on the shard overlapped it.            *)
THEOREM InstallIsWhole == Spec => InstallWhole
  <1> DEFINE Whole ==
               \A r \in Requests : req[r].pc = "staging" /\ req'[r].pc = "installed" /\ req[r].alone =>
                 \A f \in Files \ (IF req[r].e \in HasReadme THEN {} ELSE {"readme"}) :
                   staged'[req[r].shard][f] = req[r].e
  <1>1. Init => InstallInv
    BY NoReqOK DEF Init, InstallInv
  <1>2. Types /\ InstallInv /\ [Next]_vars => InstallInv'
    BY InstallStage, InstallBegins, InstallOthers
  <1>3. Types /\ InstallInv /\ [Next]_vars => [Whole]_vars
    <2> SUFFICES ASSUME Types, InstallInv, [Next]_vars, NEW r \in Requests,
                        req[r].pc = "staging", req'[r].pc = "installed", req[r].alone
                 PROVE  \A f \in FilesOf(req[r].e) : staged'[req[r].shard][f] = req[r].e
      BY Zenon DEF FilesOf
    <2>1. Begins(r) => req'[r].pc # "installed"
      BY BeginsWaiting
    <2>2. ResolvesBy(r) => req'[r].pc # "installed"
      BY ResolvedPc DEF ResolvesBy
    <2>3. Stage(r)
      BY <2>1, <2>2, RequestMovesOn DEF RequestSteps
    <2> QED
      BY <2>3, InstallStage
  <1> QED
    BY <1>1, <1>2, <1>3, TypesAlways, PTL DEF Spec, InstallWhole
================================================================================
