-------------------------------- MODULE Gateway --------------------------------
(* omp-gateway: how a request gets its tenant (session cookie, static token,  *)
(* cached or fresh validation of an API key), the OIDC login that sets the    *)
(* cookie, its refresh and logout, the signed context the gateway forwards,   *)
(* and the installation of a marketplace probe by several calls.  The         *)
(* identity provider is outside the repository.  Time is in whole seconds.    *)
EXTENDS Integers, FiniteSets, Sequences

CONSTANTS
  Browsers, Flows,        \* cookie jars; login flows, by their random id
  Users, OrgOf,           \* users of the provider; their organisation or None
  ApiKeys,                \* keys of organisations, made with the widget
  TokenTenant,            \* config.tokens: a function from static tokens
  Shards, ShardOf,        \* config.shards and sha256(tenant) mod N
  Entries, HasReadme,     \* catalog entries that share one namespace and name
  Requests,               \* requests in progress at one time
  SessionTTL, RefreshGrace, StateTTL, CacheTTL, CtxTTL,
  CacheMax,               \* VALIDATION_CACHE_MAX_ENTRIES
  Flight,                 \* the longest time a call to the provider takes
  MaxTime, MaxRestarts,   \* bounds of the model
  None

VARIABLES
  now,      \* the clock
  gen,      \* which signing key the gateway uses
  jar,      \* cookies of each browser
  flow,     \* what the provider knows of each login flow
  keys,     \* what the provider knows of each API key
  ended,    \* when the provider's session of a flow ended
  cache,    \* ValidationCache
  req,      \* requests in progress
  staged    \* the probe's files in the index of each shard

vars == <<now, gen, jar, flow, keys, ended, cache, req, staged>>

Never == MaxTime + 1
Tenants == (Users \cup {OrgOf[u] : u \in Users}) \ {None}
Files == {"wasm", "toml", "readme"}

(* Random ids of flows and keys do not meet, and every tenant has a shard.    *)
ASSUME GatewayAssumption ==
  /\ {SessionTTL, RefreshGrace, StateTTL, CacheTTL, CtxTTL, Flight, MaxTime, MaxRestarts}
       \subseteq Nat
  /\ None \notin Users \cup Flows \cup ApiKeys /\ Flows \cap ApiKeys = {}
  /\ \A t \in Tenants \cup {TokenTenant[k] : k \in DOMAIN TokenTenant} : ShardOf[t] \in Shards

(* tenant of a user: the organisation, or a tenant of the user's own          *)
TenantOf(u) == IF OrgOf[u] = None THEN u ELSE OrgOf[u]

NoReq == [pc |-> "idle"]

--------------------------------------------------------------------------------
(* Signed values.                                                             *)

(* decode_signed: only what this process's key has signed                     *)
Decodes(c) == c.gen = gen

(* decode_session, resolve_session_cookie: the claims of a live session       *)
ResolveSession(c) == c # None /\ Decodes(c) /\ c.exp >= now

(* callback puts the tenant, the subject and the provider's session id in     *)
(* the cookie                                                                 *)
NewSession(u, sid) ==
  [sub |-> u, tenant |-> TenantOf(u), sid |-> sid, exp |-> now + SessionTTL, gen |-> gen]

(* issue_default_with_sub: the context forwarded upstream                     *)
Context(tenant, sub) == [tenant |-> tenant, sub |-> sub, exp |-> now + CtxTTL, gen |-> gen]

(* TenantContext::verify: in time, and signed by the running gateway, whose   *)
(* verifying key the marketplace has                                          *)
Verify(c) == c.exp >= now /\ c.gen = gen

(* require_authed_publisher: the marketplace wants a subject too              *)
Accepts(c) == Verify(c) /\ c.sub # None

--------------------------------------------------------------------------------
(* The validation cache.                                                      *)

(* Faulty: an entry that has expired is still used.                           *)
CacheHitStale(k) == k \in DOMAIN cache

(* ValidationCache::get                                                       *)
CacheHit(k) == k \in DOMAIN cache /\ cache[k].exp > now

Live(c) == {k \in DOMAIN c : c[k].exp > now}
Only(c, S) == [k \in S |-> c[k]]

(* ValidationCache::get drops an expired entry                                *)
CacheAfterGet(k) ==
  IF k \in DOMAIN cache /\ ~CacheHit(k) THEN Only(cache, DOMAIN cache \ {k}) ELSE cache

(* ValidationCache::insert: a full cache loses what expired, or everything    *)
CacheInsert(k, t) ==
  LET full == Cardinality(DOMAIN cache) >= CacheMax
      kept == IF ~full THEN cache
              ELSE IF Cardinality(Live(cache)) >= CacheMax THEN <<>>
              ELSE Only(cache, Live(cache))
  IN [j \in DOMAIN kept \cup {k} |->
        IF j = k THEN [tenant |-> t, exp |-> now + CacheTTL] ELSE kept[j]]

--------------------------------------------------------------------------------
Init ==
  /\ now = 0 /\ gen = 0
  /\ jar = [b \in Browsers |-> [session |-> None, states |-> {}]]
  /\ flow = [f \in Flows |-> [st |-> "new", user |-> None, from |-> None]]
  /\ keys \in [ApiKeys -> [org : (Tenants \ Users) \cup {None}, revoked : {Never}]]
  /\ ended = [f \in Flows |-> Never]
  /\ cache = <<>>
  /\ req = [r \in Requests |-> NoReq]
  /\ staged = [s \in Shards |-> [f \in Files |-> None]]

Free(r) == req[r].pc \in {"idle", "accepted", "installed"}
Waits(r) == req[r].pc \in {"asking", "told", "exchanging", "refreshing"}

(* Seconds pass; a call to the provider is over within Flight.                *)
Tick ==
  /\ now < MaxTime
  /\ \A r \in Requests : Waits(r) => now < req[r].since + Flight
  /\ now' = now + 1
  /\ UNCHANGED <<gen, jar, flow, keys, ended, cache, req, staged>>

(* A browser drops a cookie at its Max-Age; other clients may keep it longer. *)
DropCookie(b) ==
  /\ jar[b].session # None /\ jar[b].session.exp <= now
  /\ jar' = [jar EXCEPT ![b].session = None]
  /\ UNCHANGED <<now, gen, flow, keys, ended, cache, req, staged>>

(* The process restarts: requests and cache are lost, and without             *)
(* --signing-key a new key is made.                                           *)
Restart ==
  /\ \E g \in {gen, gen + 1} : g <= MaxRestarts /\ gen' = g
  /\ cache' = <<>>
  /\ req' = [r \in Requests |-> NoReq]
  /\ UNCHANGED <<now, jar, flow, keys, ended, staged>>

--------------------------------------------------------------------------------
(* The identity provider.                                                     *)

(* The user signs in on the hosted page of flow f and is sent back with a     *)
(* code bound to the flow's PKCE challenge.                                   *)
SignIn(f, u) ==
  /\ flow[f].st = "redirected"
  /\ flow' = [flow EXCEPT ![f].st = "code", ![f].user = u]
  /\ UNCHANGED <<now, gen, jar, keys, ended, cache, req, staged>>

(* The provider's session of flow f ends.                                     *)
EndSession(f) ==
  /\ flow[f].user # None /\ ended[f] = Never
  /\ ended' = [ended EXCEPT ![f] = now]
  /\ UNCHANGED <<now, gen, jar, flow, keys, cache, req, staged>>

RevokeKey(k) ==
  /\ keys[k].org # None /\ keys[k].revoked = Never
  /\ keys' = [keys EXCEPT ![k].revoked = now]
  /\ UNCHANGED <<now, gen, jar, flow, ended, cache, req, staged>>

--------------------------------------------------------------------------------
(* Login, callback, refresh, logout, widget_token.                            *)

(* login: a state cookie named by the flow's id, and a redirect               *)
Login(b, f) ==
  /\ flow[f].st = "new"
  /\ flow' = [flow EXCEPT ![f].st = "redirected", ![f].from = b]
  /\ jar' = [jar EXCEPT ![b].states = @ \cup {[id |-> f, exp |-> now + StateTTL, gen |-> gen]}]
  /\ UNCHANGED <<now, gen, keys, ended, cache, req, staged>>

(* Faulty: goes on without the state cookie of this browser.                  *)
NoStateCookie(b, s) == TRUE

(* callback: the matching state cookie, signed and not expired                *)
StateCookie(b, s) == \E c \in jar[b].states : c.id = s /\ Decodes(c) /\ c.exp >= now

(* callback(code c, state s) in browser b sends the code to the provider,     *)
(* which takes it once and only with the verifier of the flow it was made     *)
(* for.  Every earlier return restarts the login and changes nothing.         *)
Callback(r, b, c, s) ==
  /\ Free(r)
  /\ StateCookie(b, s)
  /\ flow[c].st = "code" /\ c = s /\ ended[c] = Never
  /\ flow' = [flow EXCEPT ![c].st = "used"]
  /\ req' = [req EXCEPT ![r] = [pc |-> "exchanging", b |-> b, f |-> c, since |-> now]]
  /\ UNCHANGED <<now, gen, jar, keys, ended, cache, staged>>

(* extract_jwt_sid, userinfo: the token may or may not name a session         *)
Sids(f) == {f, None}

(* The token answer arrives: session cookie set, state cookie cleared.        *)
CallbackDone(r) ==
  /\ req[r].pc = "exchanging"
  /\ LET b == req[r].b  f == req[r].f IN
     \E sid \in Sids(f) :
       jar' = [jar EXCEPT ![b] =
                 [session |-> NewSession(flow[f].user, sid),
                  states  |-> {c \in jar[b].states : c.id # f}]]
  /\ req' = [req EXCEPT ![r] = NoReq]
  /\ UNCHANGED <<now, gen, flow, keys, ended, cache, staged>>

(* refresh takes an expired cookie too, within the grace period               *)
Refreshable(c) == c # None /\ Decodes(c) /\ c.exp + RefreshGrace >= now

(* Faulty: the provider is not asked.                                         *)
StillSignedInUnasked(c) == TRUE

(* refresh asks the provider when the cookie names a session of it            *)
StillSignedIn(c) == c.sid # None => ended[c.sid] = Never

(* refresh reads the cookie and calls the provider                            *)
Refresh(r, b) ==
  /\ Free(r)
  /\ Refreshable(jar[b].session)
  /\ StillSignedIn(jar[b].session)
  /\ req' = [req EXCEPT ![r] =
               [pc |-> "refreshing", b |-> b, claims |-> jar[b].session,
                at |-> now, since |-> now]]
  /\ UNCHANGED <<now, gen, jar, flow, keys, ended, cache, staged>>

(* The answer arrives.  `now` was read before the call.                       *)
RefreshDone(r) ==
  /\ req[r].pc = "refreshing"
  /\ jar' = [jar EXCEPT ![req[r].b].session =
               [req[r].claims EXCEPT !.exp = req[r].at + SessionTTL, !.gen = gen]]
  /\ req' = [req EXCEPT ![r] = NoReq]
  /\ UNCHANGED <<now, gen, flow, keys, ended, cache, staged>>

(* logout clears the cookie and, when its session id can be read, sends the   *)
(* browser to the provider's end_session endpoint, which it may not reach     *)
Logout(b) ==
  /\ jar[b].session # None
  /\ jar' = [jar EXCEPT ![b].session = None]
  /\ LET c == jar[b].session IN
     \/ UNCHANGED ended
     \/ /\ Decodes(c) /\ c.sid # None /\ ended[c.sid] = Never
        /\ ended' = [ended EXCEPT ![c.sid] = now]
  /\ UNCHANGED <<now, gen, flow, keys, cache, req, staged>>

(* widget_token is for members of an organisation only                        *)
MayManageKeys(c) == ResolveSession(c) /\ c.tenant \notin Users

(* The widget makes a key with the token widget_token has fetched.            *)
WidgetToken(b, k) ==
  /\ MayManageKeys(jar[b].session)
  /\ keys[k].org = None
  /\ keys' = [keys EXCEPT ![k].org = jar[b].session.tenant]
  /\ UNCHANGED <<now, gen, jar, flow, ended, cache, req, staged>>

--------------------------------------------------------------------------------
(* Requests.                                                                  *)

(* What a resolved request is: proxy issues the context at once, install      *)
(* when it has the catalog entry.                                             *)
Resolved(kind, tenant, sub, by) ==
  IF kind = "install"
  THEN [pc |-> "fetching", tenant |-> tenant, sub |-> sub, by |-> by]
  ELSE [pc |-> "resolved", tenant |-> tenant, by |-> by, ctx |-> Context(tenant, sub)]

(* resolve_principal: the session cookie comes first                          *)
ByCookie(r, kind, b) ==
  LET c == jar[b].session IN
  /\ Free(r)
  /\ ResolveSession(c)
  /\ req' = [req EXCEPT ![r] = Resolved(kind, c.tenant, c.sub, c.sid)]
  /\ UNCHANGED <<now, gen, jar, flow, keys, ended, cache, staged>>

(* resolve_bearer_token: a static token                                       *)
ByToken(r, kind, t) ==
  /\ Free(r)
  /\ req' = [req EXCEPT ![r] = Resolved(kind, TokenTenant[t], None, None)]
  /\ UNCHANGED <<now, gen, jar, flow, keys, ended, cache, staged>>

(* resolve_principal_async: the cache, and the provider when it has nothing   *)
ByKey(r, kind, k) ==
  /\ Free(r)
  /\ req' = [req EXCEPT ![r] =
               IF CacheHit(k) THEN Resolved(kind, cache[k].tenant, None, k)
               ELSE [pc |-> "asking", kind |-> kind, k |-> k, since |-> now]]
  /\ cache' = CacheAfterGet(k)
  /\ UNCHANGED <<now, gen, jar, flow, keys, ended, staged>>

(* The provider looks the key up; the answer is on its way.                   *)
Validate(r) ==
  /\ req[r].pc = "asking"
  /\ LET key == keys[req[r].k] IN
     req' = [req EXCEPT ![r] =
       IF key.org # None /\ key.revoked = Never
       THEN [pc |-> "told", kind |-> @.kind, k |-> @.k, since |-> @.since, org |-> key.org]
       ELSE NoReq]
  /\ UNCHANGED <<now, gen, jar, flow, keys, ended, cache, staged>>

(* The answer arrives, is cached from now on, and resolves the request.       *)
Validated(r) ==
  /\ req[r].pc = "told"
  /\ cache' = CacheInsert(req[r].k, req[r].org)
  /\ req' = [req EXCEPT ![r] = Resolved(@.kind, @.org, None, @.k)]
  /\ UNCHANGED <<now, gen, jar, flow, keys, ended, staged>>

(* proxy to the marketplace, which checks the context                         *)
Deliver(r) ==
  /\ req[r].pc = "resolved"
  /\ req' = [req EXCEPT ![r] = IF Accepts(@.ctx) THEN [pc |-> "accepted"] ELSE NoReq]
  /\ UNCHANGED <<now, gen, jar, flow, keys, ended, cache, staged>>

(* install_from_marketplace, 1: the catalog entry, and the list of blobs      *)
FetchEntry(r, e) ==
  /\ req[r].pc = "fetching"
  /\ LET s == ShardOf[req[r].tenant]
         others == {q \in Requests \ {r} : req[q].pc = "staging" /\ req[q].shard = s}
     IN req' = [q \in Requests |->
          IF q = r THEN [pc |-> "staging", e |-> e, shard |-> s, alone |-> others = {},
                         todo |-> IF e \in HasReadme THEN <<"wasm", "toml", "readme">>
                                  ELSE <<"wasm", "toml">>]
          ELSE IF q \in others THEN [req[q] EXCEPT !.alone = FALSE] ELSE req[q]]
  /\ UNCHANGED <<now, gen, jar, flow, keys, ended, cache, staged>>

(* Faulty: answers when the last blob is still to be staged.                  *)
StageAllButOne(r) ==
  /\ req[r].pc = "staging"
  /\ staged' = [staged EXCEPT ![req[r].shard][Head(req[r].todo)] = req[r].e]
  /\ req' = [req EXCEPT ![r] = IF Len(@.todo) = 2 THEN [pc |-> "installed"]
                               ELSE [@ EXCEPT !.todo = Tail(req[r].todo)]]
  /\ UNCHANGED <<now, gen, jar, flow, keys, ended, cache>>

(* install_from_marketplace, 2: the next blob is fetched and posted to /files *)
Stage(r) ==
  /\ req[r].pc = "staging"
  /\ staged' = [staged EXCEPT ![req[r].shard][Head(req[r].todo)] = req[r].e]
  /\ req' = [req EXCEPT ![r] = IF Len(@.todo) = 1 THEN [pc |-> "installed"]
                               ELSE [@ EXCEPT !.todo = Tail(req[r].todo)]]
  /\ UNCHANGED <<now, gen, jar, flow, keys, ended, cache>>

(* A call to the provider, the marketplace or the shard fails: the handler    *)
(* answers with an error and leaves what is staged.                           *)
GiveUp(r) ==
  /\ ~Free(r)
  /\ req' = [req EXCEPT ![r] = NoReq]
  /\ UNCHANGED <<now, gen, jar, flow, keys, ended, cache, staged>>

(* The steps of a login and of the requests that carry its cookie, of         *)
(* requests with an API key, and of an installation.                          *)
LoginSteps ==
  \/ \E f \in Flows : EndSession(f) \/ \E u \in Users : SignIn(f, u)
  \/ \E b \in Browsers :
       \/ DropCookie(b) \/ Logout(b)
       \/ \E f \in Flows : Login(b, f)
       \/ \E k \in ApiKeys : WidgetToken(b, k)
  \/ \E r \in Requests :
       \/ \E b \in Browsers : \/ Refresh(r, b) \/ ByCookie(r, "publish", b)
                             \/ \E c, s \in Flows : Callback(r, b, c, s)
       \/ CallbackDone(r) \/ RefreshDone(r)

KeySteps ==
  \/ \E k \in ApiKeys : RevokeKey(k) \/ \E r \in Requests : ByKey(r, "publish", k)
  \/ \E r \in Requests : Validate(r) \/ Validated(r)

InstallSteps ==
  \E r \in Requests :
    \/ \E b \in Browsers : ByCookie(r, "install", b)
    \/ \E t \in DOMAIN TokenTenant : ByToken(r, "install", t)
    \/ \E k \in ApiKeys : ByKey(r, "install", k)
    \/ \E e \in Entries : FetchEntry(r, e)
    \/ Stage(r)

CommonSteps ==
  \/ Tick \/ Restart
  \/ \E r \in Requests : \/ GiveUp(r) \/ Deliver(r)
                          \/ \E t \in DOMAIN TokenTenant : ByToken(r, "publish", t)

Next == LoginSteps \/ KeySteps \/ InstallSteps \/ CommonSteps

Spec == Init /\ [][Next]_vars

--------------------------------------------------------------------------------

(* A session cookie in a browser comes from a login that this browser began   *)
(* and that its user finished: callback binds the code to the state cookie,   *)
(* across concurrent tabs, restarts, refreshes and callback URLs opened       *)
(* elsewhere.                                                                 *)
LoginBound ==
  \A b \in Browsers : jar[b].session # None =>
    \E f \in Flows : /\ flow[f].st = "used" /\ flow[f].from = b
                     /\ flow[f].user = jar[b].session.sub
                     /\ jar[b].session.sid \in {f, None}

Resolves(r) == req[r].pc \notin {"resolved", "fetching"} /\ req'[r].pc \in {"resolved", "fetching"}

(* A revoked API key resolves a request while its last validation is under    *)
(* way and then for less than the cache's lifetime, also when a validation    *)
(* that started before the revocation fills the cache after it, and always    *)
(* to the organisation it was made for.                                       *)
RevocationBound ==
  [][\A r \in Requests : Resolves(r) /\ req'[r].by \in ApiKeys =>
       LET key == keys[req'[r].by] IN
       /\ req'[r].tenant = key.org
       /\ \/ now <= key.revoked + Flight
          \/ now < key.revoked + Flight + CacheTTL]_vars

(* An action at the marketplace is in the name and the tenant of a user who   *)
(* signed in; once the provider's session that the cookie names has ended,    *)
(* refresh and the expiries of cookie and context stop it.  A cookie that     *)
(* names no session of the provider (callback found no session id in the      *)
(* token) has no such bound: refresh asks the provider nothing and renews it  *)
(* for as long as its browser comes back within the grace period.             *)
SignOutBound ==
  [][\A r \in Requests : req[r].pc = "resolved" /\ req'[r].pc = "accepted" =>
       LET c == req[r].ctx  s == req[r].by IN
       \E g \in Flows : /\ flow[g].st = "used" /\ flow[g].user = c.sub /\ s \in {g, None}
                        /\ c.tenant = TenantOf(c.sub)
                        /\ s # None => now <= ended[g] + Flight + SessionTTL + CtxTTL]_vars

(* An install that answers ok, and that no other install on the shard         *)
(* overlapped, has staged every file of its entry.                            *)
InstallWhole ==
  [][\A r \in Requests : req[r].pc = "staging" /\ req'[r].pc = "installed" /\ req[r].alone =>
       \A f \in Files \ (IF req[r].e \in HasReadme THEN {} ELSE {"readme"}) :
         staged'[req[r].shard][f] = req[r].e]_vars
================================================================================
