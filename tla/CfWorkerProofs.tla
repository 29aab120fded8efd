--------------------------- MODULE CfWorkerProofs ---------------------------
(* The cache of the Cloudflare Worker, for any number of requests, URLs,     *)
(* header sets and environments.                                             *)
EXTENDS CfWorker, TLAPS

USE NobodyAssumption

\* What readCreds returns names a box by a URL without trailing slashes.
LEMMA CredsNameABox ==
    \A c \in WorkerCreds : c # NoCreds =>
        c.baseUrl \in Urls /\ Stripped[c.baseUrl] = c.baseUrl
<1> SUFFICES ASSUME NEW h \in HeaderSets, NEW e \in Environments,
                    ReadCreds(h, e) # NoCreds
             PROVE  /\ ReadCreds(h, e).baseUrl \in Urls
                    /\ Stripped[ReadCreds(h, e).baseUrl] = ReadCreds(h, e).baseUrl
  BY DEF WorkerCreds
<1> DEFINE url == Coalesce(h.baseUrl, e.baseUrl)
<1>1. url \in Urls
  BY UrlAssumption DEF ReadCreds, Coalesce, Truthy
<1>2. ReadCreds(h, e).baseUrl = Stripped[url]
  BY DEF ReadCreds
<1>3. Stripped[url] \in Urls
  BY <1>1, StrippedAssumption
<1> QED
  BY <1>1, <1>2, <1>3, StrippedAssumption

\* readCreds of a request, given what requests and deployments may carry.
LEMMA CredsOfRequest ==
    ASSUME TypeOK, NEW r \in Requests
    PROVE  ReadCreds(headers[r], env) \in WorkerCreds
  BY DEF TypeOK, WorkerCreds

LEMMA InitInv == Init => Inv
  BY DEF Init, Inv, TypeOK, Answers, WorkerCreds, CacheInv, WaitInv, Live

\* A request that has not reached the cache yet has started nothing, and
\* nobody waits for it.
LEMMA Fresh ==
    ASSUME Inv, NEW r \in Requests, waits[r] = Nobody
    PROVE  /\ promise[r] = "none"
           /\ \A q \in Requests : waits[q] # r
           /\ \A u \in Urls : cache[u] # r
  BY DEF Inv, TypeOK, CacheInv, WaitInv, Live

\* An answer touches neither the cache nor what requests wait for.
LEMMA AnswerKeepsInv ==
    ASSUME Inv, NEW r \in Requests, NEW a \in Answers, Answer(r, a),
           UNCHANGED <<env, headers, creds, waits, promise, cache>>
    PROVE  Inv'
  BY DEF Inv, TypeOK, CacheInv, WaitInv, Live, Answer

LEMMA NextInv == Inv /\ [Next]_vars => Inv'
<1> SUFFICES ASSUME Inv, [Next]_vars PROVE Inv'
  OBVIOUS
<1>1. CASE UNCHANGED vars
  BY <1>1 DEF vars, Inv, TypeOK, CacheInv, WaitInv, Live
<1>2. ASSUME NEW r \in Requests, RefuseInsecure(r) PROVE Inv'
  <2>1. creds' \in [Requests -> WorkerCreds]
    BY <1>2, CredsOfRequest DEF RefuseInsecure, Inv, TypeOK
  <2>2. TypeOK'
    BY <1>2, <2>1 DEF RefuseInsecure, Answer, Answers, Inv, TypeOK
  <2>3. CacheInv' /\ WaitInv'
    BY <1>2, Fresh DEF RefuseInsecure, Unhandled, Inv, TypeOK, CacheInv, WaitInv, Live
  <2> QED
    BY <2>2, <2>3 DEF Inv
<1>3. ASSUME NEW r \in Requests, JoinIntrospection(r) PROVE Inv'
  <2> DEFINE c == ReadCreds(headers[r], env)
  <2>1. c \in WorkerCreds /\ c # NoCreds /\ c.baseUrl \in Urls
    BY <1>3, CredsOfRequest, CredsNameABox DEF JoinIntrospection, LoadsSpecWith, Inv
  <2>2. /\ cache[c.baseUrl] \in Requests
        /\ waits' = [waits EXCEPT ![r] = cache[c.baseUrl]]
        /\ creds' = [creds EXCEPT ![r] = c]
        /\ UNCHANGED <<env, headers, answer, promise, cache>>
        /\ waits[r] = Nobody
    BY <1>3, <2>1
       DEF JoinIntrospection, LoadsSpecWith, Unhandled, CacheKey, Inv, TypeOK
  <2> HIDE DEF c
  <2>3. TypeOK'
    BY <2>1, <2>2 DEF Inv, TypeOK
  <2>4. CacheInv'
    BY <2>2, Fresh DEF Inv, TypeOK, CacheInv, Live
  <2>5. WaitInv'
    BY <2>1, <2>2, Fresh DEF Inv, TypeOK, CacheInv, WaitInv, Live
  <2> QED
    BY <2>3, <2>4, <2>5 DEF Inv
<1>4. ASSUME NEW r \in Requests, StartIntrospection(r) PROVE Inv'
  <2> DEFINE c == ReadCreds(headers[r], env)
  <2>1. c \in WorkerCreds /\ c # NoCreds /\ c.baseUrl \in Urls
    BY <1>4, CredsOfRequest, CredsNameABox DEF StartIntrospection, LoadsSpecWith, Inv
  <2>2. /\ cache[c.baseUrl] = Nobody
        /\ waits' = [waits EXCEPT ![r] = r]
        /\ creds' = [creds EXCEPT ![r] = c]
        /\ promise' = [promise EXCEPT ![r] = "pending"]
        /\ cache' = [cache EXCEPT ![c.baseUrl] = r]
        /\ UNCHANGED <<env, headers, answer>>
        /\ waits[r] = Nobody
    BY <1>4 DEF StartIntrospection, LoadsSpecWith, Unhandled, CacheKey
  <2> HIDE DEF c
  <2>3. TypeOK'
    BY <2>1, <2>2 DEF Inv, TypeOK
  <2>4. CacheInv'
    BY <2>1, <2>2, Fresh DEF Inv, TypeOK, CacheInv, Live
  <2>5. WaitInv'
    BY <2>1, <2>2, Fresh DEF Inv, TypeOK, CacheInv, WaitInv, Live
  <2> QED
    BY <2>3, <2>4, <2>5 DEF Inv
<1>5. ASSUME NEW p \in Requests, IntrospectionSucceeds(p) PROVE Inv'
  BY <1>5 DEF IntrospectionSucceeds, Inv, TypeOK, CacheInv, WaitInv, Live
<1>6. ASSUME NEW p \in Requests, IntrospectionFails(p) PROVE Inv'
  <2>1. Live(p) /\ creds[p].baseUrl \in Urls /\ cache[creds[p].baseUrl] = p
    BY <1>6, CredsNameABox DEF IntrospectionFails, Inv, TypeOK, CacheInv, Live
  <2>2. /\ promise' = [promise EXCEPT ![p] = "failed"]
        /\ cache' = [cache EXCEPT ![creds[p].baseUrl] = Nobody]
        /\ UNCHANGED <<env, headers, answer, creds, waits>>
    BY <1>6 DEF IntrospectionFails, Forget, CacheKey
  <2>3. TypeOK'
    BY <2>2 DEF Inv, TypeOK
  <2>4. CacheInv'
    BY <2>1, <2>2, CredsNameABox DEF Inv, TypeOK, CacheInv, Live
  <2>5. WaitInv'
    BY <2>2 DEF Inv, TypeOK, WaitInv
  <2> QED
    BY <2>3, <2>4, <2>5 DEF Inv
<1>7. ASSUME NEW r \in Requests,
             \/ Health(r) \/ NotFound(r) \/ Reserved(r) \/ Unauthorized(r)
             \/ BadGateway(r) \/ Scaffold(r)
      PROVE  Inv'
  <2>1. UNCHANGED <<env, headers, creds, waits, promise, cache>>
    BY <1>7 DEF Health, NotFound, Reserved, Unauthorized, BadGateway, Scaffold
  <2>2. \E a \in Answers : Answer(r, a)
    BY <1>7 DEF Health, NotFound, Reserved, Unauthorized, BadGateway, Scaffold, Answers
  <2> QED
    BY <2>1, <2>2, AnswerKeepsInv
<1> QED
  BY <1>1, <1>2, <1>3, <1>4, <1>5, <1>6, <1>7 DEF Next

\* The cache and those who wait for it stay consistent.
THEOREM Invariance == Spec => []Inv
  BY InitInv, NextInv, PTL DEF Spec

\* No box is introspected while another introspection of it runs or after one
\* has succeeded.
THEOREM OnlyFailuresAreRepeated == Spec => []OneIntrospectionPerBox
<1>1. Inv => OneIntrospectionPerBox
  <2> SUFFICES ASSUME Inv, NEW p \in Requests, NEW q \in Requests, Live(p), Live(q),
                      Stripped[creds[p].baseUrl] = Stripped[creds[q].baseUrl]
               PROVE  p = q
    BY DEF OneIntrospectionPerBox
  <2>1. creds[p].baseUrl = creds[q].baseUrl
    BY CredsNameABox DEF Inv, TypeOK, CacheInv, Live
  <2> QED
    BY <2>1 DEF Inv, CacheInv
<1> QED
  BY <1>1, Invariance, PTL

\* A request is never served the spec of a box it does not address.
THEOREM SpecsAreNotMixed == Spec => []SpecOfOwnBox
<1> DEFINE AnsweredInv == \A r \in Requests : answer[r] = "scaffold" => waits[r] # Nobody
<1>1. Init => AnsweredInv
  BY DEF Init
<1>2. Inv /\ AnsweredInv /\ [Next]_vars => AnsweredInv'
  <2> SUFFICES ASSUME Inv, AnsweredInv, [Next]_vars PROVE AnsweredInv'
    OBVIOUS
  <2>1. CASE UNCHANGED vars
    BY <2>1 DEF vars
  <2>2. ASSUME NEW r \in Requests,
               \/ Health(r) \/ NotFound(r) \/ Reserved(r) \/ Unauthorized(r)
               \/ RefuseInsecure(r) \/ BadGateway(r) \/ Scaffold(r)
        PROVE  AnsweredInv'
    BY <2>2 DEF Health, NotFound, Reserved, Unauthorized, RefuseInsecure, BadGateway,
       Scaffold, Resumed, Unhandled, Answer, Inv, TypeOK
  <2>3. ASSUME NEW r \in Requests,
               \/ JoinIntrospection(r) \/ StartIntrospection(r)
               \/ IntrospectionSucceeds(r) \/ IntrospectionFails(r)
        PROVE  AnsweredInv'
    BY <2>3 DEF JoinIntrospection, StartIntrospection, IntrospectionSucceeds,
       IntrospectionFails, LoadsSpecWith, Unhandled, Inv, TypeOK
  <2> QED
    BY <2>1, <2>2, <2>3 DEF Next
<1>3. Inv /\ AnsweredInv => SpecOfOwnBox
  BY DEF Inv, WaitInv, SpecOfOwnBox
<1> HIDE DEF AnsweredInv
<1> QED
  BY <1>1, <1>2, <1>3, Invariance, PTL DEF Spec

\* A request begins to wait only for an introspection that has not failed.
THEOREM FailuresAreForgotten == Spec => FailureNotInherited
<1> DEFINE Joins == \A r \in Requests :
        waits[r] = Nobody /\ waits'[r] \in Requests => promise[waits'[r]] # "failed"
<1>1. Inv /\ [Next]_vars => [Joins]_vars
  <2> SUFFICES ASSUME Inv, Next, NEW q \in Requests,
                      waits[q] = Nobody, waits'[q] \in Requests
               PROVE  promise[waits'[q]] # "failed"
    OBVIOUS
  <2>1. PICK r \in Requests : JoinIntrospection(r) \/ StartIntrospection(r)
    BY DEF Next, Health, NotFound, Reserved, Unauthorized, RefuseInsecure,
       IntrospectionSucceeds, IntrospectionFails, BadGateway, Scaffold
  <2>2. CASE StartIntrospection(r)
    BY <2>2, Fresh DEF StartIntrospection, Inv, TypeOK
  <2>3. CASE JoinIntrospection(r)
    <3> DEFINE c == ReadCreds(headers[r], env)
    <3>1. c.baseUrl \in Urls
      BY <2>3, CredsOfRequest, CredsNameABox DEF JoinIntrospection, LoadsSpecWith, Inv
    <3>2. waits'[q] = cache[c.baseUrl]
      BY <2>3 DEF JoinIntrospection, CacheKey, Inv, TypeOK
    <3> QED
      BY <3>1, <3>2 DEF Inv, CacheInv, Live
  <2> QED
    BY <2>1, <2>2, <2>3
<1> QED
  BY <1>1, Invariance, PTL DEF Spec, FailureNotInherited
=============================================================================
