--------------------------- MODULE HttpTransport ---------------------------
(* The multi-user server of server/transport.ts: handleRequest with its      *)
(* stats and its RateLimiter, and the AsyncLocalStorage scope from which an  *)
(* execute, started by the MCP SDK some awaits later, resolves its tenant.   *)
(* Requests of several clients are handled at once, on one thread: the store *)
(* that getStore() reads is the thread's, and changes with what it runs.     *)
EXTENDS Integers, Sequences, FiniteSets, TenantContext

CONSTANTS
    Requests,     \* identities of the requests
    Nobody,       \* no request
    Clients,      \* addresses getClientIp can return
    HeaderSets,   \* X-Unraid-* headers a request may carry
    Environments, \* UNRAID_* variables the process may be started with
    WindowMs, MaxRequests, MaxTime   \* as in RateLimiter

ASSUME RequestsAssumption == IsFiniteSet(Requests) /\ Nobody \notin Requests
ASSUME LimiterAssumption ==
    /\ WindowMs \in Nat
    /\ MaxRequests \in Nat
    /\ MaxTime \in Nat

VARIABLES
    env,       \* process.env, fixed
    closing,   \* the shutdown handler has run
    stats,
    reply,     \* what each request was answered; "open" while the SDK has it
    client,    \* its client, set when handled
    headers,   \* its headers, set when it reaches the SDK
    thread,    \* the request whose SDK call or handler runs, Nobody between two callbacks
    store,     \* the request whose scope getStore() would return now
    captured,  \* the store that the suspended work of each request kept
    tenant,    \* the context its execute got, "unresolved" before
    now, windows, history, last   \* of the RateLimiter

limiterVars == <<now, windows, history, last>>
requestVars == <<reply, client, headers, tenant>>
asyncVars == <<thread, store, captured>>
vars == <<env, closing, stats, requestVars, asyncVars, limiterVars>>

Limiter == INSTANCE RateLimiter

NoHeaders == [apiKey |-> "absent", baseUrl |-> "absent", caCert |-> "absent",
              insecure |-> "absent"]
Unresolved == [kind |-> "unresolved"]

Init ==
    /\ env \in Environments
    /\ closing = FALSE
    /\ stats = [total |-> 0, mcp |-> 0, health |-> 0, limited |-> 0, errors |-> 0]
    /\ reply = [r \in Requests |-> "none"]
    /\ client \in [Requests -> Clients]
    /\ headers = [r \in Requests |-> NoHeaders]
    /\ thread = Nobody /\ store = Nobody
    /\ captured = [r \in Requests |-> Nobody]
    /\ tenant = [r \in Requests |-> Unresolved]
    /\ Limiter!Init

\* Also after shutdown, on a connection that was open then.
Arrives(r) == reply[r] = "none" /\ thread = Nobody

Answer(r, a) == reply' = [reply EXCEPT ![r] = a]

\* The counters a request moves, total among them.
Count(fields) ==
    stats' = [f \in DOMAIN stats |-> stats[f] + (IF f \in fields THEN 1 ELSE 0)]

-----------------------------------------------------------------------------
\* handleRequest up to the call of the SDK: one synchronous step, five ends.

Health(r) ==
    /\ Arrives(r)
    /\ Answer(r, "health")
    /\ Count({"total", "health"})
    /\ UNCHANGED <<env, closing, client, headers, tenant, asyncVars, limiterVars>>

NotFound(r) ==
    /\ Arrives(r)
    /\ Answer(r, "not_found")
    /\ Count({"total"})
    /\ UNCHANGED <<env, closing, client, headers, tenant, asyncVars, limiterVars>>

\* Mutated form: the limiter is asked before the origin is looked at.
LimitThenForbid(r) ==
    /\ Arrives(r)
    /\ Limiter!Allow(client[r])
    /\ Answer(r, "forbidden")
    /\ Count({"total", "errors"})
    /\ UNCHANGED <<env, closing, client, headers, tenant, asyncVars>>

Forbid(r) ==
    /\ Arrives(r)
    /\ Answer(r, "forbidden")
    /\ Count({"total", "errors"})
    /\ UNCHANGED <<env, closing, client, headers, tenant, asyncVars, limiterVars>>

Limit(r) ==
    /\ Arrives(r)
    /\ Limiter!Refuse(client[r])
    /\ Answer(r, "limited")
    /\ Count({"total", "limited"})
    /\ UNCHANGED <<env, closing, client, headers, tenant, asyncVars>>

\* Mutated form: the SDK is called beside requestStore.run and not in it.
RunOutside(r) == thread' = r /\ store' = Nobody

\* requestStore.run: what it calls runs with the scope of r.
Run(r) == thread' = r /\ store' = r

Admit(r) ==
    /\ Arrives(r)
    /\ Limiter!Admit(client[r])
    /\ Answer(r, "open")
    /\ Count({"total", "mcp"})
    /\ \E h \in HeaderSets : headers' = [headers EXCEPT ![r] = h]
    /\ Run(r)
    /\ UNCHANGED <<env, closing, client, tenant, captured>>

-----------------------------------------------------------------------------
\* The SDK's call and the handler it starts, a piece of code between two awaits
\* at a time. The SDK starts handlers without waiting for them, so a handler may
\* go on when transport.handleRequest has ended.

Reached == {"open", "mcp", "internal_error"}

\* What is awaited is continued with the store of now.
Await(r) ==
    /\ thread = r
    /\ thread' = Nobody
    /\ captured' = [captured EXCEPT ![r] = store]
    /\ UNCHANGED <<env, closing, stats, requestVars, store, limiterVars>>

\* Mutated form: the scope is a variable of the module, which stays as the
\* request that came last has set it.
ResumeAsIs(r) ==
    /\ reply[r] \in Reached
    /\ thread = Nobody
    /\ thread' = r
    /\ UNCHANGED <<env, closing, stats, requestVars, store, captured, limiterVars>>

Resume(r) ==
    /\ reply[r] \in Reached
    /\ thread = Nobody
    /\ thread' = r
    /\ store' = captured[r]
    /\ UNCHANGED <<env, closing, stats, requestVars, captured, limiterVars>>

\* tenantResolver: the headers of whichever scope the thread is in, the
\* operator's environment outside of any.
TenantResolver ==
    IF store = Nobody THEN BuildContextFromEnv(env)
    ELSE BuildContextFromHeaders(headers[store], env)

\* The execute handler calls it; what it throws is a tool error.
ResolveTenant(r) ==
    /\ thread = r
    /\ tenant[r] = Unresolved
    /\ tenant' = [tenant EXCEPT ![r] = TenantResolver]
    /\ UNCHANGED <<env, closing, stats, reply, client, headers, asyncVars, limiterVars>>

\* transport.handleRequest resolves.
Complete(r) ==
    /\ reply[r] = "open"
    /\ thread = Nobody
    /\ Answer(r, "mcp")
    /\ UNCHANGED <<env, closing, stats, client, headers, tenant, asyncVars, limiterVars>>

\* Mutated form: a failure is answered but not counted.
ThrowUncounted(r) ==
    /\ reply[r] = "open"
    /\ thread = Nobody
    /\ Answer(r, "internal_error")
    /\ UNCHANGED <<env, closing, stats, client, headers, tenant, asyncVars, limiterVars>>

\* It throws: 500 unless headers were sent.
HandlerThrows(r) ==
    /\ reply[r] = "open"
    /\ thread = Nobody
    /\ Answer(r, "internal_error")
    /\ Count({"errors"})
    /\ UNCHANGED <<env, closing, client, headers, tenant, asyncVars, limiterVars>>

-----------------------------------------------------------------------------
\* Timers and signals

\* The interval is cleared by shutdown.
Cleanup ==
    /\ ~closing
    /\ thread = Nobody
    /\ Limiter!Cleanup
    /\ UNCHANGED <<env, closing, stats, requestVars, asyncVars>>

\* What passes while the thread is busy is seen when it is free again.
Tick ==
    /\ thread = Nobody
    /\ Limiter!Tick
    /\ UNCHANGED <<env, closing, stats, requestVars, asyncVars>>

\* SIGINT or SIGTERM: no new connections; what the SDK has goes on.
Shutdown ==
    /\ ~closing
    /\ thread = Nobody
    /\ closing' = TRUE
    /\ UNCHANGED <<env, stats, requestVars, asyncVars, limiterVars>>

Next ==
    \/ \E r \in Requests :
        \/ Health(r)
        \/ NotFound(r)
        \/ Forbid(r)
        \/ Limit(r)
        \/ Admit(r)
        \/ Await(r)
        \/ Resume(r)
        \/ ResolveTenant(r)
        \/ Complete(r)
        \/ HandlerThrows(r)
    \/ Cleanup
    \/ Tick
    \/ Shutdown

Spec == Init /\ [][Next]_vars

-----------------------------------------------------------------------------
Replies == {"none", "health", "not_found", "forbidden", "limited", "open",
            "mcp", "internal_error"}
Ends(as) == {r \in Requests : reply[r] \in as}

Contexts ==
    {Unresolved} \cup
    {BuildContextFromHeaders(h, e) : h \in HeaderSets \cup {NoHeaders}, e \in Environments}

TypeOK ==
    /\ env \in Environments
    /\ closing \in BOOLEAN
    /\ stats \in [{"total", "mcp", "health", "limited", "errors"} -> Nat]
    /\ reply \in [Requests -> Replies]
    /\ client \in [Requests -> Clients]
    /\ headers \in [Requests -> HeaderSets \cup {NoHeaders}]
    /\ thread \in Requests \cup {Nobody}
    /\ store \in Requests \cup {Nobody}
    /\ captured \in [Requests -> Requests \cup {Nobody}]
    /\ tenant \in [Requests -> Contexts]
    /\ Limiter!TypeOK

\* The thread is in the scope of the request it works for, and work that waits
\* has kept the scope of its own.
ScopeFollowsWork ==
    /\ thread # Nobody => store = thread /\ reply[thread] \in Reached
    /\ \A r \in Requests : reply[r] \in Reached /\ thread # r => captured[r] = r

\* Only a request that reached the SDK has a tenant.
ResolvedAfterAdmission ==
    \A r \in Requests : tenant[r] # Unresolved => reply[r] \in Reached

Inv ==
    /\ TypeOK
    /\ ScopeFollowsWork
    /\ ResolvedAfterAdmission

\* Whatever requests of other tenants arrive, are worked for, end or fail
\* between the admission of a request and the call of tenantResolver, its execute
\* gets the context of the headers of that request.
TenantIsolated ==
    \A r \in Requests :
        tenant[r] # Unresolved =>
            tenant[r] = BuildContextFromHeaders(headers[r], env)

\* A client is set up entirely by its request or entirely by the operator:
\* no key goes to the other's server, and a request with its own server does
\* not inherit UNRAID_INSECURE or the operator's CA bundle.
CredsFromOneSource ==
    \A r \in Requests : tenant[r].kind = "creds" =>
        \/ /\ tenant[r].apiKey = headers[r].apiKey
           /\ tenant[r].baseUrl = headers[r].baseUrl
           /\ tenant[r].caCert = headers[r].caCert
           /\ tenant[r].insecure = ParseBool(headers[r].insecure)
        \/ tenant[r] = ReadLocalFromEnv(env)

\* Exactly the requests that reached the SDK were charged to their clients:
\* a health check, an unknown path, a foreign origin or a refused request
\* costs its client nothing.
QuotaPaidByReached ==
    \A c \in Clients :
        Len(history[c]) = Cardinality({r \in Ends(Reached) : client[r] = c})

\* The figures /health reports: every request is counted once under the way
\* it ended, an MCP request that failed under errors as well.
StatsAddUp ==
    /\ stats.total = Cardinality(Requests \ Ends({"none"}))
    /\ stats.mcp = Cardinality(Ends(Reached))
    /\ stats.health = Cardinality(Ends({"health"}))
    /\ stats.limited = Cardinality(Ends({"limited"}))
    /\ stats.errors = Cardinality(Ends({"forbidden", "internal_error"}))
=============================================================================
