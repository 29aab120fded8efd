------------------------ MODULE HttpTransportProofs ------------------------
(* What holds of the HTTP server for any number of requests and clients. Its *)
(* steps are steps of the RateLimiter or leave it alone, so what              *)
(* RateLimiterProofs shows of the limiter holds of the limiter in the server. *)
EXTENDS HttpTransport, FiniteSetTheorems, TLAPS

L == INSTANCE RateLimiterProofs

\* The server's assumptions are those of the limiter.
LEMMA LimiterConstants ==
    L!WindowAssumption /\ L!MaxRequestsAssumption /\ L!MaxTimeAssumption
  BY LimiterAssumption
     DEF LimiterAssumption, L!WindowAssumption, L!MaxRequestsAssumption, L!MaxTimeAssumption

\* The two instances of RateLimiter are one.
LEMMA SameLimiter ==
    /\ L!Init <=> Limiter!Init
    /\ L!Next <=> Limiter!Next
    /\ L!Inv <=> Limiter!Inv
<1>1. L!Init <=> Limiter!Init
  BY DEF L!Init, Limiter!Init
<1>2. L!Next <=> Limiter!Next
  BY DEF L!Next, L!Allow, L!Admit, L!Refuse, L!Cleanup, L!Tick, L!HasRoom,
     L!Trimmed, L!DropOld, L!FirstKept, L!Window, L!Store, L!Remaining,
     Limiter!Next, Limiter!Allow, Limiter!Admit, Limiter!Refuse,
     Limiter!Cleanup, Limiter!Tick, Limiter!HasRoom, Limiter!Trimmed,
     Limiter!DropOld, Limiter!FirstKept, Limiter!Window, Limiter!Store,
     Limiter!Remaining
<1>3. L!Inv <=> Limiter!Inv
  BY DEF L!Inv, L!TypeOK, L!SuffixInv, L!HistoryInv, L!EntriesBounded,
     L!SlidingBound, L!Dropped, L!Window,
     Limiter!Inv, Limiter!TypeOK, Limiter!SuffixInv, Limiter!HistoryInv,
     Limiter!EntriesBounded, Limiter!SlidingBound, Limiter!Dropped, Limiter!Window
<1>4. QED
  BY <1>1, <1>2, <1>3

\* Requests keep the client they came from, so a charge is a limiter step.
LEMMA StepsOfLimiter ==
    ASSUME client \in [Requests -> Clients], [Next]_vars
    PROVE  [Limiter!Next]_limiterVars
<1> USE DEF limiterVars, requestVars
<1>1. ASSUME NEW r \in Requests, Limit(r) \/ Admit(r) PROVE Limiter!Next
  BY <1>1 DEF Limit, Admit, Limiter!Next, Limiter!Allow
<1>2. CASE Cleanup \/ Tick
  BY <1>2 DEF Cleanup, Tick, Limiter!Next
<1>3. QED
  BY <1>1, <1>2
     DEF Next, vars, Health, NotFound, Forbid, Await, Resume, ResolveTenant, Complete,
         HandlerThrows, Shutdown

\* The limiter's bound holds of the server: no window of windowMs lets more
\* than rateLimitPerMinute requests of a client through.
THEOREM LimiterHolds == Spec => []Limiter!Inv
<1>1. Init => L!Init
  BY SameLimiter DEF Init
<1>2. Init => client \in [Requests -> Clients]
  BY DEF Init
<1>3. client \in [Requests -> Clients] /\ [Next]_vars
        => (client \in [Requests -> Clients])'
  BY DEF Next, vars, requestVars, Health, NotFound, Forbid, Limit, Admit, Await,
     Resume, ResolveTenant, Complete, HandlerThrows, Cleanup, Tick, Shutdown
<1>4. client \in [Requests -> Clients] /\ [Next]_vars => [L!Next]_L!vars
  BY StepsOfLimiter, SameLimiter DEF limiterVars, L!vars
<1>5. L!Init => L!Inv
  BY L!InitInv, LimiterConstants
<1>6. L!Inv /\ [L!Next]_L!vars => L!Inv'
  BY L!NextInv, LimiterConstants
<1>7. L!Inv => Limiter!Inv
  BY SameLimiter
<1>8. QED
  BY <1>1, <1>2, <1>3, <1>4, <1>5, <1>6, <1>7, PTL DEF Spec

\* With all that happens around the limiter, health checks, shutdown and requests
\* that are refused elsewhere, a client's requests pass exactly if fewer than
\* rateLimitPerMinute of them passed in the last windowMs.
THEOREM ServerImplementsWindow == Spec => L!ImplementsSlidingWindow
<1>1. Init => L!Init /\ client \in [Requests -> Clients]
  BY SameLimiter DEF Init
<1>2. client \in [Requests -> Clients] /\ [Next]_vars
        => (client \in [Requests -> Clients])' /\ [L!Next]_L!vars
  <2>1. client \in [Requests -> Clients] /\ [Next]_vars => (client \in [Requests -> Clients])'
    BY DEF Next, vars, requestVars, Health, NotFound, Forbid, Limit, Admit, Await,
       Resume, ResolveTenant, Complete, HandlerThrows, Cleanup, Tick, Shutdown
  <2>2. client \in [Requests -> Clients] /\ [Next]_vars => [L!Next]_L!vars
    BY StepsOfLimiter, SameLimiter DEF limiterVars, L!vars
  <2>3. QED
    BY <2>1, <2>2
<1>3. L!Inv /\ [L!Next]_L!vars => [L!Abstract!SNext]_(L!Abstract!svars)
  BY L!StepRefines, LimiterConstants
<1>4. L!Init => L!Abstract!SInit
  BY DEF L!Init, L!Abstract!SInit
<1>5. L!Inv <=> Limiter!Inv
  BY SameLimiter
<1>6. QED
  BY <1>1, <1>2, <1>3, <1>4, <1>5, LimiterHolds, PTL
     DEF Spec, L!ImplementsSlidingWindow, L!Abstract!SSpec

-----------------------------------------------------------------------------
\* What is the server's own.
OwnTypeOK ==
    /\ env \in Environments
    /\ closing \in BOOLEAN
    /\ stats \in [{"total", "mcp", "health", "limited", "errors"} -> Nat]
    /\ reply \in [Requests -> Replies]
    /\ client \in [Requests -> Clients]
    /\ headers \in [Requests -> HeaderSets \cup {NoHeaders}]
    /\ thread \in Requests \cup {Nobody}
    /\ store \in Requests \cup {Nobody}
    /\ captured \in [Requests -> Requests \cup {Nobody}]
    /\ tenant \in [Requests -> Contexts]

OwnInv ==
    /\ OwnTypeOK
    /\ ScopeFollowsWork
    /\ ResolvedAfterAdmission
    /\ TenantIsolated

Handled == Replies \ {"none"}

\* An answer moves its request from one set of ends to another.
LEMMA EndsStep ==
    ASSUME OwnTypeOK, NEW r \in Requests, NEW a, Answer(r, a), NEW as
    PROVE  /\ IsFiniteSet(Ends(as)) /\ Cardinality(Ends(as)) \in Nat
           /\ (a \in as <=> reply[r] \in as) => Ends(as)' = Ends(as)
           /\ a \in as /\ reply[r] \notin as =>
                 /\ r \notin Ends(as) /\ Ends(as)' = Ends(as) \cup {r}
                 /\ Cardinality(Ends(as)') = Cardinality(Ends(as)) + 1
           /\ a \notin as /\ reply[r] \in as => Ends(as)' = Ends(as) \ {r}
<1>1. IsFiniteSet(Ends(as)) /\ Cardinality(Ends(as)) \in Nat
  <2>1. Ends(as) \subseteq Requests
    BY DEF Ends
  <2>2. QED
    BY <2>1, RequestsAssumption, FS_Subset, FS_CardinalityType DEF RequestsAssumption
<1>2. reply' = [reply EXCEPT ![r] = a] /\ reply \in [Requests -> Replies]
  BY DEF Answer, OwnTypeOK
<1>3. (a \in as <=> reply[r] \in as) => Ends(as)' = Ends(as)
  BY <1>2 DEF Ends
<1>4. a \notin as /\ reply[r] \in as => Ends(as)' = Ends(as) \ {r}
  BY <1>2 DEF Ends
<1>5. a \in as /\ reply[r] \notin as =>
        r \notin Ends(as) /\ Ends(as)' = Ends(as) \cup {r}
  BY <1>2 DEF Ends
<1>6. a \in as /\ reply[r] \notin as =>
        Cardinality(Ends(as)') = Cardinality(Ends(as)) + 1
  BY <1>1, <1>5, FS_AddElement
<1>7. QED
  BY <1>1, <1>3, <1>4, <1>5, <1>6

\* A counted request moves the counters it names.
LEMMA CountStep ==
    ASSUME OwnTypeOK, NEW F, Count(F)
    PROVE  /\ stats' \in [{"total", "mcp", "health", "limited", "errors"} -> Nat]
           /\ stats'.total = stats.total + (IF "total" \in F THEN 1 ELSE 0)
           /\ stats'.mcp = stats.mcp + (IF "mcp" \in F THEN 1 ELSE 0)
           /\ stats'.health = stats.health + (IF "health" \in F THEN 1 ELSE 0)
           /\ stats'.limited = stats.limited + (IF "limited" \in F THEN 1 ELSE 0)
           /\ stats'.errors = stats.errors + (IF "errors" \in F THEN 1 ELSE 0)
  BY DEF OwnTypeOK, Count

\* The scope in which the work of a request runs is its own, so that the resolver
\* builds the context of its headers.
LEMMA ResolverIsInScope ==
    ASSUME OwnTypeOK, ScopeFollowsWork, NEW r \in Requests, thread = r
    PROVE  /\ TenantResolver = BuildContextFromHeaders(headers[r], env)
           /\ TenantResolver \in Contexts
           /\ reply[r] \in Reached
<1>1. store = r /\ r # Nobody /\ reply[r] \in Reached
  BY RequestsAssumption DEF ScopeFollowsWork, RequestsAssumption
<1>2. TenantResolver = BuildContextFromHeaders(headers[r], env)
  BY <1>1 DEF TenantResolver
<1>3. headers[r] \in HeaderSets \cup {NoHeaders} /\ env \in Environments
  BY DEF OwnTypeOK
<1>4. QED
  BY <1>1, <1>2, <1>3 DEF Contexts

\* Every step of the server keeps what is its own.
LEMMA OwnInvStep ==
    ASSUME OwnInv, [Next]_vars
    PROVE  OwnInv'
<1> USE RequestsAssumption DEF RequestsAssumption, OwnInv, OwnTypeOK, ScopeFollowsWork,
        ResolvedAfterAdmission, TenantIsolated, limiterVars, requestVars, asyncVars
<1>1. ASSUME NEW r \in Requests, NEW a \in {"health", "not_found", "forbidden", "limited"},
             Arrives(r), Answer(r, a), NEW F, Count(F),
             UNCHANGED <<env, closing, client, headers, tenant, asyncVars>>
      PROVE  OwnInv'
  <2>1. stats' \in [{"total", "mcp", "health", "limited", "errors"} -> Nat]
    BY <1>1, CountStep
  <2>2. QED
    BY <1>1, <2>1 DEF Arrives, Answer, Replies, Reached
<1>2. ASSUME NEW r \in Requests, Admit(r) PROVE OwnInv'
  <2>1. stats' \in [{"total", "mcp", "health", "limited", "errors"} -> Nat]
    BY <1>2, CountStep DEF Admit
  <2>2. tenant[r] = Unresolved
    BY <1>2 DEF Admit, Arrives, Reached
  <2>3. OwnTypeOK'
    BY <1>2, <2>1 DEF Admit, Run, Answer, Replies
  <2>4. ScopeFollowsWork'
    BY <1>2 DEF Admit, Run, Arrives, Answer, Reached
  <2>5. QED
    BY <1>2, <2>2, <2>3, <2>4 DEF Admit, Arrives, Answer, Reached
<1>3. ASSUME NEW r \in Requests, ResolveTenant(r) PROVE OwnInv'
  <2>1. /\ TenantResolver = BuildContextFromHeaders(headers[r], env)
        /\ TenantResolver \in Contexts /\ reply[r] \in Reached
    BY <1>3, ResolverIsInScope DEF ResolveTenant
  <2>2. tenant' = [tenant EXCEPT ![r] = TenantResolver]
    BY <1>3 DEF ResolveTenant
  <2>3. OwnTypeOK' /\ ScopeFollowsWork'
    BY <1>3, <2>1, <2>2 DEF ResolveTenant
  <2>4. ResolvedAfterAdmission' /\ TenantIsolated'
    BY <1>3, <2>1, <2>2 DEF ResolveTenant
  <2>5. QED
    BY <2>3, <2>4
<1>4. ASSUME NEW r \in Requests, NEW a \in {"mcp", "internal_error"}, reply[r] = "open",
             Answer(r, a),
             stats' \in [{"total", "mcp", "health", "limited", "errors"} -> Nat],
             UNCHANGED <<env, closing, client, headers, tenant, asyncVars>>
      PROVE  OwnInv'
  BY <1>4 DEF Answer, Replies, Reached
<1>5. ASSUME NEW r \in Requests, Complete(r) \/ HandlerThrows(r) PROVE OwnInv'
  BY <1>4, <1>5, CountStep DEF Complete, HandlerThrows
<1>6. ASSUME NEW r \in Requests, Health(r) \/ NotFound(r) \/ Forbid(r) \/ Limit(r)
      PROVE  OwnInv'
  <2>1. CASE Health(r)
    BY <1>1, <2>1 DEF Health
  <2>2. CASE NotFound(r)
    BY <1>1, <2>2 DEF NotFound
  <2>3. CASE Forbid(r)
    BY <1>1, <2>3 DEF Forbid
  <2>4. CASE Limit(r)
    BY <1>1, <2>4 DEF Limit
  <2>5. QED
    BY <1>6, <2>1, <2>2, <2>3, <2>4
<1>7. CASE Cleanup \/ Tick \/ Shutdown \/ UNCHANGED vars
  BY <1>7 DEF Cleanup, Tick, Shutdown, vars
<1>8. ASSUME NEW r \in Requests, Await(r) \/ Resume(r) PROVE OwnInv'
  <2>1. CASE Await(r)
    BY <2>1 DEF Await
  <2>2. CASE Resume(r)
    BY <2>2 DEF Resume
  <2>3. QED
    BY <1>8, <2>1, <2>2
<1>9. QED
  BY <1>2, <1>3, <1>5, <1>6, <1>7, <1>8 DEF Next

\* The invariant of the server holds in every reachable state.
THEOREM Invariance == Spec => [](Inv /\ OwnInv)
<1>1. Init => OwnInv
  <2> SUFFICES ASSUME Init PROVE OwnInv
    OBVIOUS
  <2>1. OwnTypeOK
    <3>1. stats \in [{"total", "mcp", "health", "limited", "errors"} -> Nat]
      BY DEF Init
    <3>2. tenant \in [Requests -> Contexts]
      BY DEF Init, Contexts
    <3>3. QED
      BY <3>1, <3>2 DEF Init, OwnTypeOK, Replies
  <2>2. ScopeFollowsWork
    BY DEF Init, ScopeFollowsWork, Reached
  <2>3. ResolvedAfterAdmission /\ TenantIsolated
    BY DEF Init, ResolvedAfterAdmission, TenantIsolated
  <2>4. QED
    BY <2>1, <2>2, <2>3 DEF OwnInv
<1>2. OwnInv /\ [Next]_vars => OwnInv'
  BY OwnInvStep
<1>3. OwnInv /\ Limiter!Inv => Inv
  BY DEF OwnInv, OwnTypeOK, Inv, TypeOK, Limiter!Inv
<1>4. QED
  BY <1>1, <1>2, <1>3, LimiterHolds, PTL DEF Spec

\* An execute gets the tenant of its own request's headers, since at each await
\* the work of a request takes its scope along, whatever ran on the thread between.
THEOREM TenantsIsolated == Spec => []TenantIsolated
<1>1. OwnInv => TenantIsolated
  BY DEF OwnInv
<1>2. QED
  BY <1>1, Invariance, PTL

\* The credentials of an execute are its request's or the operator's, never
\* a mixture.
THEOREM CredsAreWhole == Spec => []CredsFromOneSource
<1>1. OwnInv => CredsFromOneSource
  <2> SUFFICES ASSUME OwnInv, NEW r \in Requests, tenant[r].kind = "creds"
               PROVE  \/ /\ tenant[r].apiKey = headers[r].apiKey
                         /\ tenant[r].baseUrl = headers[r].baseUrl
                         /\ tenant[r].caCert = headers[r].caCert
                         /\ tenant[r].insecure = ParseBool(headers[r].insecure)
                      \/ tenant[r] = ReadLocalFromEnv(env)
    BY DEF CredsFromOneSource
  <2>1. tenant[r] = BuildContextFromHeaders(headers[r], env)
    BY DEF OwnInv, TenantIsolated, Unresolved
  <2>2. QED
    BY <2>1 DEF BuildContextFromHeaders, Throws, Creds
<1>2. QED
  BY <1>1, Invariance, PTL

\* A client pays with its quota for the requests that reached the SDK, and
\* for no others.
THEOREM QuotaIsPaidByReached == Spec => []QuotaPaidByReached
<1> DEFINE Mine(c) == {r \in Ends(Reached) : client[r] = c}
<1>1. Init => QuotaPaidByReached
  <2> SUFFICES ASSUME Init, NEW c \in Clients
               PROVE  Len(history[c]) = Cardinality(Mine(c))
    BY DEF QuotaPaidByReached
  <2>1. Mine(c) = {} /\ history[c] = << >>
    BY DEF Init, Ends, Reached, Limiter!Init
  <2>2. QED
    BY <2>1, FS_EmptySet
<1>2. OwnInv /\ Limiter!Inv /\ QuotaPaidByReached /\ [Next]_vars => QuotaPaidByReached'
  <2> SUFFICES ASSUME OwnInv, Limiter!Inv, QuotaPaidByReached, [Next]_vars,
                      NEW c \in Clients
               PROVE  Len(history[c])' = Cardinality(Mine(c))'
    BY DEF QuotaPaidByReached
  <2> USE DEF OwnInv, OwnTypeOK, limiterVars, requestVars
  <2>1. Len(history[c]) = Cardinality(Mine(c)) /\ history \in [Clients -> Seq(Nat)]
        /\ now \in Nat
    BY DEF QuotaPaidByReached, Limiter!Inv, Limiter!TypeOK
  <2>2. ASSUME NEW r \in Requests, Admit(r)
        PROVE  Len(history[c])' = Cardinality(Mine(c))'
    <3>1. /\ history' = [history EXCEPT ![client[r]] = Append(@, now)]
          /\ r \notin Ends(Reached) /\ Ends(Reached)' = Ends(Reached) \cup {r}
          /\ client' = client /\ client[r] \in Clients
      BY <2>2, EndsStep DEF Admit, Limiter!Admit, Arrives, Reached
    <3>2. CASE client[r] = c
      <4>1. r \notin Mine(c) /\ Mine(c)' = Mine(c) \cup {r}
        BY <3>1, <3>2
      <4>2. IsFiniteSet(Mine(c))
        BY RequestsAssumption, FS_Subset DEF RequestsAssumption, Ends
      <4>3. Cardinality(Mine(c))' = Cardinality(Mine(c)) + 1
        BY <4>1, <4>2, FS_AddElement
      <4>4. Len(history[c])' = Len(history[c]) + 1
        <5>1. history'[c] = Append(history[c], now) /\ history[c] \in Seq(Nat)
          BY <2>1, <3>1, <3>2
        <5>2. Len(Append(history[c], now)) = Len(history[c]) + 1
          BY <2>1, <5>1
        <5>3. QED
          BY <5>1, <5>2
      <4>5. QED
        BY <2>1, <4>3, <4>4
    <3>3. CASE client[r] # c
      <4>1. Mine(c)' = Mine(c)
        BY <3>1, <3>3
      <4>2. history'[c] = history[c]
        BY <2>1, <3>1, <3>3
      <4>3. QED
        BY <2>1, <4>1, <4>2
    <3>4. QED
      BY <3>2, <3>3
  <2>3. ASSUME UNCHANGED <<history, client>>, Ends(Reached)' = Ends(Reached)
        PROVE  Len(history[c])' = Cardinality(Mine(c))'
    BY <2>1, <2>3
  <2>4. ASSUME NEW r \in Requests, NEW a, Answer(r, a), a \in Reached <=> reply[r] \in Reached
        PROVE  Ends(Reached)' = Ends(Reached)
    BY <2>4, EndsStep
  <2>5. ASSUME NEW r \in Requests,
               Health(r) \/ NotFound(r) \/ Forbid(r) \/ Limit(r) \/ Complete(r) \/ HandlerThrows(r)
        PROVE  UNCHANGED <<history, client>> /\ Ends(Reached)' = Ends(Reached)
    BY <2>4, <2>5 DEF Health, NotFound, Forbid, Limit, Limiter!Refuse, Complete,
       HandlerThrows, Arrives, Reached
  <2>6. ASSUME \/ \E r \in Requests : Await(r) \/ Resume(r) \/ ResolveTenant(r)
               \/ Cleanup \/ Tick \/ Shutdown \/ UNCHANGED vars
        PROVE  UNCHANGED <<history, client>> /\ Ends(Reached)' = Ends(Reached)
    BY <2>6 DEF Await, Resume, ResolveTenant, Cleanup, Limiter!Cleanup, Tick, Limiter!Tick,
       Shutdown, vars, Ends
  <2>7. QED
    BY <2>2, <2>3, <2>5, <2>6 DEF Next
<1>3. QED
  BY <1>1, <1>2, Invariance, LimiterHolds, PTL DEF Spec

\* A request that is answered moves the counters as StatsAddUp demands.
LEMMA StatsStep ==
    ASSUME OwnTypeOK, StatsAddUp, NEW r \in Requests, NEW a \in Handled, NEW F,
           reply[r] = "none", Answer(r, a), Count(F), "total" \in F,
           "mcp" \in F <=> a \in Reached, "health" \in F <=> a = "health",
           "limited" \in F <=> a = "limited",
           "errors" \in F <=> a \in {"forbidden", "internal_error"}
    PROVE  StatsAddUp'
<1>1. ASSUME NEW as \in SUBSET Handled
      PROVE  /\ Cardinality(Ends(as)) \in Nat
             /\ Cardinality(Ends(as)') = Cardinality(Ends(as)) + (IF a \in as THEN 1 ELSE 0)
  <2>1. reply[r] \notin as
    BY DEF Handled
  <2>2. IsFiniteSet(Ends(as)) /\ Cardinality(Ends(as)) \in Nat
    BY EndsStep
  <2>3. CASE a \in as
    BY <2>1, <2>2, <2>3, EndsStep
  <2>4. CASE a \notin as
    <3>1. Ends(as)' = Ends(as)
      BY <2>1, <2>4, EndsStep
    <3>2. Cardinality(Ends(as)') = Cardinality(Ends(as))
      BY <3>1 DEF Ends
    <3>3. (IF a \in as THEN 1 ELSE 0) = 0
      BY <2>4
    <3>4. \A n \in Nat : n + 0 = n
      OBVIOUS
    <3>5. QED
      BY <2>2, <3>2, <3>3, <3>4, Zenon
  <2>5. QED
    BY <2>2, <2>3, <2>4
<1>2. /\ Reached \in SUBSET Handled /\ {"health"} \in SUBSET Handled
      /\ {"limited"} \in SUBSET Handled
      /\ {"forbidden", "internal_error"} \in SUBSET Handled
  BY DEF Handled, Replies, Reached
<1>3. /\ Requests \ Ends({"none"}) = Ends(Handled)
      /\ (Requests \ Ends({"none"}))' = Ends(Handled)'
  <2>1. reply' \in [Requests -> Replies]
    BY DEF OwnTypeOK, Answer, Handled
  <2>2. QED
    BY <2>1 DEF OwnTypeOK, Ends, Handled
<1>4. stats'.total = Cardinality(Requests \ Ends({"none"}))'
  <2>1. stats'.total = stats.total + 1
    BY CountStep
  <2>2. Cardinality(Ends(Handled)') = Cardinality(Ends(Handled)) + 1
    BY <1>1
  <2>3. stats.total = Cardinality(Requests \ Ends({"none"}))
    BY DEF StatsAddUp
  <2>4. QED
    BY <1>3, <2>1, <2>2, <2>3
<1>5. /\ stats'.mcp = Cardinality(Ends(Reached))'
      /\ stats'.health = Cardinality(Ends({"health"}))'
  BY <1>1, <1>2, CountStep DEF StatsAddUp
<1>6. /\ stats'.limited = Cardinality(Ends({"limited"}))'
      /\ stats'.errors = Cardinality(Ends({"forbidden", "internal_error"}))'
  BY <1>1, <1>2, CountStep DEF StatsAddUp
<1>7. QED
  BY <1>4, <1>5, <1>6 DEF StatsAddUp

\* The figures /health reports add up in every reachable state.
THEOREM StatsAreRight == Spec => []StatsAddUp
<1>1. Init => StatsAddUp
  <2>1. Init => /\ Requests \ Ends({"none"}) = {} /\ Ends(Reached) = {}
                /\ Ends({"health"}) = {} /\ Ends({"limited"}) = {}
                /\ Ends({"forbidden", "internal_error"}) = {}
    BY DEF Init, Ends, Reached
  <2>2. Cardinality({}) = 0
    BY FS_EmptySet
  <2>3. Init => stats.total = 0 /\ stats.mcp = 0 /\ stats.health = 0
                /\ stats.limited = 0 /\ stats.errors = 0
    BY DEF Init
  <2>4. QED
    BY <2>1, <2>2, <2>3 DEF StatsAddUp
<1>2. OwnInv /\ StatsAddUp /\ [Next]_vars => StatsAddUp'
  <2> SUFFICES ASSUME OwnInv, StatsAddUp, [Next]_vars PROVE StatsAddUp'
    OBVIOUS
  <2> USE DEF OwnInv, Arrives
  <2>1. ASSUME NEW r \in Requests, Health(r) PROVE StatsAddUp'
    BY <2>1, StatsStep DEF Health, Handled, Replies, Reached
  <2>2. ASSUME NEW r \in Requests, NotFound(r) PROVE StatsAddUp'
    BY <2>2, StatsStep DEF NotFound, Handled, Replies, Reached
  <2>3. ASSUME NEW r \in Requests, Forbid(r) PROVE StatsAddUp'
    BY <2>3, StatsStep DEF Forbid, Handled, Replies, Reached
  <2>4. ASSUME NEW r \in Requests, Limit(r) PROVE StatsAddUp'
    BY <2>4, StatsStep DEF Limit, Handled, Replies, Reached
  <2>5. ASSUME NEW r \in Requests, Admit(r) PROVE StatsAddUp'
    BY <2>5, StatsStep DEF Admit, Handled, Replies, Reached
  <2>6. ASSUME NEW r \in Requests, Complete(r) \/ HandlerThrows(r) PROVE StatsAddUp'
    <3> DEFINE a == reply'[r]
    <3>1. reply[r] = "open" /\ Answer(r, a) /\ a \in {"mcp", "internal_error"}
          /\ (a = "mcp" => Complete(r)) /\ (a = "internal_error" => HandlerThrows(r))
      BY <2>6 DEF Complete, HandlerThrows, Answer, OwnTypeOK
    <3> HIDE DEF a
    <3>2. /\ Ends(Reached)' = Ends(Reached) /\ Ends({"none"})' = Ends({"none"})
          /\ Ends({"health"})' = Ends({"health"}) /\ Ends({"limited"})' = Ends({"limited"})
      BY <3>1, EndsStep DEF Reached
    <3>3. CASE a = "mcp"
      <4>1. Ends({"forbidden", "internal_error"})' = Ends({"forbidden", "internal_error"})
        BY <3>1, <3>3, EndsStep
      <4>2. stats' = stats
        BY <3>1, <3>3 DEF Complete
      <4>3. QED
        BY <3>2, <4>1, <4>2 DEF StatsAddUp
    <3>4. CASE a = "internal_error"
      <4>1. Cardinality(Ends({"forbidden", "internal_error"}))'
              = Cardinality(Ends({"forbidden", "internal_error"})) + 1
        BY <3>1, <3>4, EndsStep
      <4>2. /\ stats'.total = stats.total /\ stats'.mcp = stats.mcp
            /\ stats'.health = stats.health /\ stats'.limited = stats.limited
            /\ stats'.errors = stats.errors + 1
        <5>1. Count({"errors"})
          BY <3>1, <3>4 DEF HandlerThrows
        <5>2. QED
          BY <5>1, CountStep DEF OwnTypeOK
      <4>3. QED
        BY <3>2, <4>1, <4>2 DEF StatsAddUp
    <3>5. QED
      BY <3>1, <3>3, <3>4
  <2>7. CASE \/ \E r \in Requests : Await(r) \/ Resume(r) \/ ResolveTenant(r)
             \/ Cleanup \/ Tick \/ Shutdown \/ UNCHANGED vars
    BY <2>7 DEF Await, Resume, ResolveTenant, Cleanup, Tick, Shutdown, vars, requestVars, Ends, StatsAddUp
  <2>8. QED
    BY <2>1, <2>2, <2>3, <2>4, <2>5, <2>6, <2>7 DEF Next
<1>3. QED
  BY <1>1, <1>2, Invariance, PTL DEF Spec
=============================================================================
