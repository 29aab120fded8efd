------------------------------ MODULE CfWorker ------------------------------
(* One instance of the Cloudflare Worker, cf-worker/index.ts: the fetch      *)
(* handler, the credentials it reads, and SPEC_CACHE, the introspections     *)
(* that all requests of the instance share. An introspection is named by the *)
(* request that started it.                                                  *)
(*                                                                           *)
(* The handler has no await before it holds the promise of the spec, so a    *)
(* request gets there in one step. A rejection removes the promise from the  *)
(* cache in the microtasks that follow it, before another request can run.   *)
EXTENDS TenantContext

CONSTANTS
    Requests,     \* identities of the requests
    Nobody,       \* no entry in the cache
    Urls,         \* texts of base URLs
    Stripped,     \* Urls without their trailing slashes
    HeaderSets,   \* X-Unraid-* headers a request may carry
    Environments  \* bindings the Worker may be deployed with

ASSUME NobodyAssumption == Nobody \notin Requests
ASSUME StrippedAssumption ==
    /\ Stripped \in [Urls -> Urls]
    /\ \A u \in Urls : Stripped[Stripped[u]] = Stripped[u]
ASSUME UrlAssumption ==
    /\ {"absent", "empty"} \cap Urls = {}
    /\ \A h \in HeaderSets : h.baseUrl \in Urls \cup {"absent", "empty"}
    /\ \A e \in Environments : e.baseUrl \in Urls \cup {"absent", "empty"}

VARIABLES
    env,       \* Env, fixed
    headers,   \* of each request
    answer,    \* "none" until the handler returns
    creds,     \* what readCreds gave each request
    waits,     \* the introspection a request awaits or has awaited
    promise,   \* the state of the introspection each request started
    cache      \* SPEC_CACHE

vars == <<env, headers, answer, creds, waits, promise, cache>>

-----------------------------------------------------------------------------
\* h ?? e: an empty header is not null.
Coalesce(h, e) == IF h = "absent" THEN e ELSE h

\* Mutated form: the URL is used as it came.
RawCreds(h, e) ==
    LET url == Coalesce(h.baseUrl, e.baseUrl)
        key == Coalesce(h.apiKey, e.apiKey)
    IN  IF Truthy(url) /\ Truthy(key)
        THEN [kind |-> "creds", apiKey |-> key, baseUrl |-> url]
        ELSE NoCreds

ReadCreds(h, e) ==
    LET url == Coalesce(h.baseUrl, e.baseUrl)
        key == Coalesce(h.apiKey, e.apiKey)
    IN  IF Truthy(url) /\ Truthy(key)
        THEN [kind |-> "creds", apiKey |-> key, baseUrl |-> Stripped[url]]
        ELSE NoCreds

\* Mutated form: the instance keeps one spec.
OnlyKey(c) == CHOOSE u \in Urls : Stripped[u] = u

CacheKey(c) == c.baseUrl

Init ==
    /\ env \in Environments
    /\ headers \in [Requests -> HeaderSets]
    /\ answer = [r \in Requests |-> "none"]
    /\ creds = [r \in Requests |-> NoCreds]
    /\ waits = [r \in Requests |-> Nobody]
    /\ promise = [r \in Requests |-> "none"]
    /\ cache = [u \in Urls |-> Nobody]

Answer(r, a) == answer' = [answer EXCEPT ![r] = a]

Unhandled(r) == answer[r] = "none" /\ waits[r] = Nobody

-----------------------------------------------------------------------------
\* fetch, up to the await of loadSpec

Health(r) ==
    /\ Unhandled(r)
    /\ Answer(r, "health")
    /\ UNCHANGED <<env, headers, creds, waits, promise, cache>>

NotFound(r) ==
    /\ Unhandled(r)
    /\ Answer(r, "not_found")
    /\ UNCHANGED <<env, headers, creds, waits, promise, cache>>

\* NAMESPACE names one that is not shipped.
Reserved(r) ==
    /\ Unhandled(r)
    /\ env.namespace = "other"
    /\ Answer(r, "reserved")
    /\ UNCHANGED <<env, headers, creds, waits, promise, cache>>

Unauthorized(r) ==
    /\ Unhandled(r)
    /\ env.namespace = "local"
    /\ ReadCreds(headers[r], env) = NoCreds
    /\ Answer(r, "unauthorized")
    /\ UNCHANGED <<env, headers, creds, waits, promise, cache>>

\* Only the text "true" is refused.
RefuseInsecure(r) ==
    /\ Unhandled(r)
    /\ env.namespace = "local"
    /\ ReadCreds(headers[r], env) # NoCreds
    /\ headers[r].insecure = "true"
    /\ Answer(r, "insecure")
    /\ creds' = [creds EXCEPT ![r] = ReadCreds(headers[r], env)]
    /\ UNCHANGED <<env, headers, waits, promise, cache>>

\* The handler calls loadSpec with credentials c.
LoadsSpecWith(r, c) ==
    /\ Unhandled(r)
    /\ env.namespace = "local"
    /\ c # NoCreds
    /\ headers[r].insecure # "true"
    /\ creds' = [creds EXCEPT ![r] = c]

JoinIntrospection(r) ==
    LET c == ReadCreds(headers[r], env)
    IN  /\ LoadsSpecWith(r, c)
        /\ cache[CacheKey(c)] # Nobody
        /\ waits' = [waits EXCEPT ![r] = cache[CacheKey(c)]]
        /\ UNCHANGED <<env, headers, answer, promise, cache>>

StartIntrospection(r) ==
    LET c == ReadCreds(headers[r], env)
    IN  /\ LoadsSpecWith(r, c)
        /\ cache[CacheKey(c)] = Nobody
        /\ waits' = [waits EXCEPT ![r] = r]
        /\ promise' = [promise EXCEPT ![r] = "pending"]
        /\ cache' = [cache EXCEPT ![CacheKey(c)] = r]
        /\ UNCHANGED <<env, headers, answer>>

-----------------------------------------------------------------------------
\* fetchIntrospection ends; nothing makes it.

IntrospectionSucceeds(p) ==
    /\ promise[p] = "pending"
    /\ promise' = [promise EXCEPT ![p] = "ok"]
    /\ UNCHANGED <<env, headers, answer, creds, waits, cache>>

\* Mutated form: a rejected promise stays in the cache.
KeepRejected(p) == UNCHANGED cache

\* promise.catch(() => SPEC_CACHE.delete(cacheKey))
Forget(p) == cache' = [cache EXCEPT ![CacheKey(creds[p])] = Nobody]

\* No connection, a status that is not ok, no JSON, no data.
IntrospectionFails(p) ==
    /\ promise[p] = "pending"
    /\ promise' = [promise EXCEPT ![p] = "failed"]
    /\ Forget(p)
    /\ UNCHANGED <<env, headers, answer, creds, waits>>

\* A request is resumed by the introspection it awaits.
Resumed(r, state) ==
    /\ answer[r] = "none"
    /\ waits[r] # Nobody
    /\ promise[waits[r]] = state

BadGateway(r) ==
    /\ Resumed(r, "failed")
    /\ Answer(r, "bad_gateway")
    /\ UNCHANGED <<env, headers, creds, waits, promise, cache>>

\* The server of this request is built from the spec; adaptToFetch then
\* answers 501 whatever was asked.
Scaffold(r) ==
    /\ Resumed(r, "ok")
    /\ Answer(r, "scaffold")
    /\ UNCHANGED <<env, headers, creds, waits, promise, cache>>

Next == \E r \in Requests :
    \/ Health(r)
    \/ NotFound(r)
    \/ Reserved(r)
    \/ Unauthorized(r)
    \/ RefuseInsecure(r)
    \/ JoinIntrospection(r)
    \/ StartIntrospection(r)
    \/ IntrospectionSucceeds(r)
    \/ IntrospectionFails(r)
    \/ BadGateway(r)
    \/ Scaffold(r)

Spec == Init /\ [][Next]_vars

-----------------------------------------------------------------------------
Answers == {"none", "health", "not_found", "reserved", "unauthorized",
            "insecure", "bad_gateway", "scaffold"}

WorkerCreds == {NoCreds} \cup {ReadCreds(h, e) : h \in HeaderSets, e \in Environments}

TypeOK ==
    /\ env \in Environments
    /\ headers \in [Requests -> HeaderSets]
    /\ answer \in [Requests -> Answers]
    /\ creds \in [Requests -> WorkerCreds]
    /\ waits \in [Requests -> Requests \cup {Nobody}]
    /\ promise \in [Requests -> {"none", "pending", "ok", "failed"}]
    /\ cache \in [Urls -> Requests \cup {Nobody}]

Live(p) == promise[p] \in {"pending", "ok"}

\* The cache holds exactly the introspections that run or have succeeded,
\* each under the URL of the request that started it.
CacheInv ==
    /\ \A u \in Urls : cache[u] # Nobody =>
        /\ Live(cache[u])
        /\ creds[cache[u]].baseUrl = u
    /\ \A p \in Requests : Live(p) => cache[creds[p].baseUrl] = p
    /\ \A p \in Requests : promise[p] # "none" => creds[p] # NoCreds /\ waits[p] = p

\* A request awaits an introspection that was started, of its own box.
WaitInv ==
    \A r \in Requests : waits[r] # Nobody =>
        /\ creds[r] # NoCreds
        /\ promise[waits[r]] # "none"
        /\ creds[waits[r]].baseUrl = creds[r].baseUrl

Inv == TypeOK /\ CacheInv /\ WaitInv

\* However its requests overlap, an instance never introspects a box that is
\* being introspected or has been, whatever slashes end its URL: only failures
\* are repeated.
OneIntrospectionPerBox ==
    \A p, q \in Requests :
        /\ Live(p) /\ Live(q)
        /\ Stripped[creds[p].baseUrl] = Stripped[creds[q].baseUrl]
        => p = q

\* The spec a request is served from is one of the box it addresses.
SpecOfOwnBox ==
    \A r \in Requests : answer[r] = "scaffold" =>
        creds[waits[r]].baseUrl = creds[r].baseUrl

\* A failure is not kept: a request is refused with 502 only for an
\* introspection that had not failed yet when the request began to wait for it.
FailureNotInherited ==
    [][\A r \in Requests :
        waits[r] = Nobody /\ waits'[r] \in Requests => promise[waits'[r]] # "failed"]_vars
=============================================================================
