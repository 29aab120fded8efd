# A verification development for unraid-code-mode-mcp

The server gives a language model two MCP tools. `search` runs a script over an
index of an Unraid box's GraphQL schema; `execute` runs a script in a QuickJS
sandbox whose calls cross a bridge to the host, which sends them to the box. It
runs on stdio for one user, or on HTTP for many, whose credentials come with
their requests. This directory models the parts in which order, failure and
sharing matter, checks them with TLC on small instances and proves the most
important results with TLAPS for all values of the constants. All paths are
those of the repository below `src/`, so `src/client/http.ts` is
`src/src/client/http.ts` in `PROJECT.json`.

## 1. Inventory

| Component | Source | State it keeps | Operations | What makes it correct |
| --- | --- | --- | --- | --- |
| Execute sandbox bridge | `src/sandbox/execute-executor.ts`, `executor.ts`, `module.ts` | QuickJS context and job queue, `pending` set, `callsMade`, deadline | `execute`, `startCall`, settle callbacks, drain loop, `finally` | it returns; each handle pair is disposed once; the budget holds; a deadlock verdict is true; nothing touches the context after the return |
| HTTP and GraphQL client | `src/client/http.ts`, `graphql.ts` | attempt, AbortSignal, retry timer | `request`, `execute`, `send`, `sleep` | settles; repeats only refused requests, not too early; partial bodies are not data |
| Rate limiter | `src/server/transport.ts` | map from address to timestamps | `allow`, `cleanup` | is a sliding window |
| HTTP transport, request scope | `src/server/transport.ts`, `request-context.ts`, `server.ts` | stats, AsyncLocalStorage store, limiter, SDK transport | `handleRequest`, `currentRequestScope`, shutdown | a tool sees its own request's tenant; only requests that get through cost quota; the figures add up |
| Tenant context | `src/tenant/context.ts` | none | `buildContextFromHeaders`, `buildContextFromEnv` | a context comes from one source |
| Spec loader, startup | `src/spec/loader.ts`, `src/index.ts` | memory cache, cache file on disk | `loadUnraidSpec`, `loadFallbackSpec`, `tryLoadLocalSpec` | a served spec is genuine; startup ends |
| Operation index | `src/spec/index-builder.ts`, `index.ts` | none | `buildOperationIndex`, `getOperation`, `findOperationsByName`, `searchOperations`, `summarizeOperation` | complete, best matches first |
| Dispatch and prelude | `src/sandbox/dispatch.ts` | none | `buildUnraidPrelude`, `dispatchOperation`, `dispatchGraphql`, `dispatchRawRequest` | every field callable; the request fits the schema; the script gets the field's value |
| Search sandbox, console | `src/sandbox/search-executor.ts`, `executor.ts`, `limits.ts` | logs of one run | helpers, `console.*` | bounded output, announced cuts, best matches |
| MCP tool handlers | `src/server/server.ts` | none across calls | the two handlers, `formatToolResult` | every call is answered; the answer accounts for what the run did |
| Configuration | `src/config.ts`, `version.ts` | none | `loadConfig` | rejects what it cannot use |
| Cloudflare Worker | `cf-worker/index.ts` | `SPEC_CACHE`, promises shared by requests | `fetch`, `readCreds`, `loadSpec` | one introspection per box; failures are not kept |
| Maintenance scripts | `scripts/` | none | spec update, smoke tests | - |

**How they interact.** `index.ts` loads the configuration, the WASM module and
the spec, then starts a transport. The HTTP transport runs the MCP SDK inside an
AsyncLocalStorage scope; a tool handler, some awaits later, reads that scope and
asks the tenant resolver for credentials. The execute handler builds a client and
a context; the prelude defines one method per indexed operation; a method calls a
host function with a pair of script functions; the host dispatches the operation
to the GraphQL client, which uses the HTTP client, and calls one of the pair when
the answer comes. The drain loop alternates the sandbox's jobs with host turns.

**What is hard.** Everything runs on one thread, so the hazards are at awaits and
callbacks: an answer that comes after the context is gone; a budget spent from
inside callbacks; a verdict read from state that a microtask is about to change;
timers of three layers (execute deadline, signal of an attempt, Retry-After
sleep); requests of several tenants interleaved; a cache file that several
processes write, truncate and die over; a promise shared by requests; a limit that
is tested before script code runs and applied after it. The list,
with lines and the properties for each, is under `hazards` in `PROJECT.json`.

## 2. Modules

| Module | What it is |
| --- | --- |
| `AbstractExecute` | what an `execute` promises: requests within budget, each answer handed over at most once and only while the script runs, a justified verdict |
| `AbstractCall` | what one host call means to the box: its request once, and once more only if it was refused |
| `ToolCall` | one call of a tool from handler to content: an `AbstractExecute` run, an `AbstractCall` for each host call, console capture, result formatting |
| `ExecuteExecutor` | one invocation of `ExecuteExecutor.execute` in detail |
| `HttpClient` | one host call, with attempts, signal, retry, body and verdict, beside the budget of its caller |
| `SlidingWindow` | a rate limiter that remembers every admission |
| `RateLimiter` | the class of that name |
| `TenantContext` | operators: where credentials come from |
| `HttpTransport` | `handleRequest`, the scope and the tenant of an execute; an `INSTANCE` of `RateLimiter` and the operators of `TenantContext` |
| `SpecLoader` | startup of several processes around one cache file |
| `OperationIndex` | operators: schema to index, lookup, search |
| `OperationDispatch` | prelude, dispatch and the search helpers over an `OperationIndex` |
| `CfWorker` | one instance of the Worker and its promise cache |
| `MC*` | instances for TLC |
| `*Proofs` | theorems, in a module for each proved component |

Each module has a variable per piece of state, named as in the code, and an
action per handler or stretch between two awaits. `map` in `PROJECT.json` gives
the lines of every definition. Definitions marked *Mutated form* are not used by
any specification: each is the bug that the definition after it must not have,
and the properties are tested against them.

### Execute (`ExecuteExecutor`)

`pc` names what holds the thread: `eval`, the steps of the drain loop, a settle
callback, a yield to the host, the `finally` block. A script is nondeterministic:
whenever it runs it may start a call, queue a job or settle its promise.
`StartCall` is the whole of `startCall`: it owns the handles, counts, and either
refuses, fails before a request, or sends one. A refusal or early failure rejects
in a host microtask, so it can be handled only while the loop yields.
`SettleBegins` and `SettleEnds` are one callback with script code in between;
`DropAnswer` is a callback that finds its entry gone. `Finally` disposes what is
pending and the context. Host callbacks go on after `returned`.

### One tool call (`ToolCall`)

The composition: the handler in `server.ts` around a run, of which `ToolCall`
knows what `AbstractExecute` promises (and `ExecuteExecutor` implements), and the
requests of each host call, of which it knows what `AbstractCall` promises (and
`HttpClient` implements). A `search` is a run without host calls. `OpenConsole`
and `CloseConsole` are one console call: `setupConsole` tests its limits, then
`context.dump` may run script code (a `toJSON`, a getter) that calls console
again, and only then is the message added. `OmitMessage` is a call that returns at
the test. While a console call is open the thread is inside it, so no host step and
no end of the run happens. Of a result only its kind counts: nothing, a text that
fits, one that is cut, a value for which `JSON.stringify` throws. `answer.shows`
names the parts of the content. Host calls go on after the answer.

### One host call (`HttpClient`)

Timers count down to 0 and may then fire now or later, since the thread can be
busy. The server may refuse, answer, break off, send anything, or stay silent.
The body `aborted` is `undefined` to the code; the model tells it apart to say who
cut it. The AbortSignal of an attempt also covers the reading of the body. A
`Retry-After` is a number of seconds, taken as it is, a date, which is never
before now, or something else, which means no retry. A delay below 1 ms or above
`TimerMax` (2^31-1 in Node) is 1 ms, as in `setTimeout`. `Abstract` maps a call onto
`AbstractCall`: what it sent, what was refused, whether it is settled.

### Rate limiter and transport (`RateLimiter`, `HttpTransport`)

`history` records all admissions of a client; it is not in the code and no guard
reads it. `handleRequest` up to its call of the SDK is synchronous, hence one
step with five ends. The SDK's transport is not in the repository: a request it
has ends some time, normally or by a throw.

`thread` is the request whose SDK call or handler runs, and `store` what
`getStore()` would return now, one variable for all requests. `requestStore.run`
(`Run`) sets it at the call of the SDK; from there on the work of a request goes on
in pieces: `Await` gives the thread up and keeps the store with what is awaited
(`captured`), `Resume` takes the thread again and puts that store back. Between two
callbacks `store` is whatever the last one left: nobody reads it. Any number of
pieces come before `ResolveTenant`, also after the SDK's call has ended (the SDK
starts handlers without waiting for them), with arrivals, admissions and pieces of
other requests in between. `TenantResolver` reads the thread's store and not the
request it works for; outside of any scope it would build the operator's context.
That an await keeps the store is what Node promises of `AsyncLocalStorage`, and is
external; that the code calls the SDK inside `run` and reads the store inside the
handler is what the model checks. A request may also arrive after shutdown, on a
connection that was open then. Values of headers and variables are abstracted to
where they were set, which is all that `TenantContext` depends on.

### Startup (`SpecLoader`)

Each process has its release (`CACHE_SCHEMA_VERSION`), may crash at any await and
start again as another release; the box is upgraded meanwhile. `writeFile` is an
open that truncates, then a write from the start, so that two writers can leave
one document with the tail of another, and a failing write a part of one. A read
or write of a document is one step; a document with a tail never parses. Sizes
are version + release, so documents are of equal and of different length.

### Index, prelude, dispatch and search (`OperationIndex`, `OperationDispatch`)

A name is a sequence of pieces, so that a name made by `sanitizeIdentifier` or
`uniqueIdentifier` can equal one of the schema's. A type is the sequence of its
kinds. Of `sanitizeIdentifier` only reserved words remain: a GraphQL name holds no
character that JavaScript refuses. The numeral of a suffix is as many tallies as it
says, so that numerals differ as numbers do. Both sorts are `Sorted`, which puts an
element after as many others as come before it; `localeCompare` is a rank of names
that tells all of them apart. The methods of a prelude are a recursive function of
how many operations of the index have been gone through; a process that found no
spec defines none, and its `graphql()` and `request()` throw. A call fails before it is sent for want of
credentials, an operation, a selection, or because its `args` are no object, in that
order. The data of an answer is null or an object with or without the field asked
for; `Unwrap` hands over the field. A search is given the places where its text
occurs. A limit of 0 stands also for `undefined`, which `context.getNumber` makes NaN.

### Worker (`CfWorker`)

The handler reaches the promise of the spec without an await, so that is one step.
`promise.catch` removes a rejected promise in the microtasks of its rejection,
before another request can run: one step as well.

## 3. Runs

| Run | Instance | Shows |
| --- | --- | --- |
| `execute` | 3 calls, budget 2, batch 2, 2 queued jobs | all safety properties, `Termination`, `ImplementsAbstract` |
| `http_call` | limits 3 and 3, `TimerMax` 3, delays from negative to longer than a timer keeps | settling, retry, whole data, order of the two limits; `ImplementsCall` |
| `http_slow_call` | execute limit 4 above the HTTP limit 2 | a counterexample |
| `rate_limiter` | 2 clients, window 2, limit 2, clock to 6 | the list is the recent end of the history; `ImplementsSlidingWindow` |
| `http_transport` | 3 requests, 2 clients, 4 header sets, 2 environments, limit 1 | isolation of tenants, quota, figures |
| `spec_loader` | 2 processes, 2 releases, 2 schema versions | genuine specs, startup ends |
| `spec_write_failure`, `spec_ca_bundle` | the same | counterexamples |
| `cf_worker` | 3 requests, 2 boxes in 3 spellings, 7 header sets, 3 environments | the promise cache |
| `dispatch` | 59 schemas of up to 5 fields, all argument and selection choices, limits -1 to 25 | reachability of fields, requests that fit, answers that are the field, search |
| `tool_call` | both tools, 3 host calls, budget 2, room for 2 console entries and 2 units of text, messages of 0, 1 and 3, console calls nested twice | bounded and announced output, the budget over retries, the answer |
| `look_up_kind` | the same | a counterexample |

**Why the bounds are enough.** Three calls and a budget of two give a call within
budget, one at it and one over it, with every overlap of two answers. A batch of
two gives drains that end early and drains that are cut. With a window of 2 and a
clock to 6, an admission lives through trims at, before and after its age limit in
three disjoint windows. Three requests of two clients put another tenant's whole
request between two steps of one. Of the environments, one that names a CA file it
cannot read is left to the proofs. Two processes suffice for every overlap of two
writers with a reader that restarts. The schemas hold a shared name, a reserved
word, its sanitised twin, its suffixed twin, and each kind of type under each
wrapper. `MaxJobs`, `MaxTime`, `MaxVersion` are bounds of the model only; the
proofs hold for all of them.

In `tool_call` two nested calls both pass the test of the last free entry, a
message of 3 crosses the limit of 2 and two of 1 meet it exactly; a third host call
is refused by the budget while the first two wait for their retries.

**Deadlock.** It is checked in `rate_limiter`, `http_call`, `spec_loader` and
`dispatch`. The others may stop: an execute has returned and its calls are dealt
with, a server has shut down, a Worker or a tool has answered and its host calls
are settled.

**Fairness.** `execute`: weak fairness of the executor's own steps, of the clock
and of host microtasks. One thread runs them, and script code always ends: the
interrupt handler stops a script that loops for ever. Nothing makes the server answer. `http_call`: weak fairness of the
timers and of the client when one fires, since Node runs due timers; none of the
server. `spec_loader`: weak fairness of a process's load, since file operations
end and introspection has a timeout of 30 s; none of starts and crashes. `tool_call`:
weak fairness of the handler's steps, among them the end of the run, which is what
`Termination` of `execute` shows and the interrupt handler gives a search; none of
the host calls, so that `CallAnswered` needs no answer of the box. The other runs state no liveness.

## 4. Findings

1. The HTTP client's own 30 s limit cuts each request whatever
   `UNRAID_EXECUTE_TIMEOUT_MS` is, which `config.ts:46` offers for long-running
   operations (`graphql.ts:105` passes no `timeoutMs`). Run `http_slow_call`.
   Within the default limits `OwnLimitAfterDeadline` holds, and is proved whenever
   the execute limit is at most the HTTP limit.
2. When the cache file cannot be written, a live introspection that succeeded is
   thrown away for the bundled schema (`loader.ts:117`). Run `spec_write_failure`.
   `OnlyKnownExceptions` proves that a spec that was fetched is lost in no other way.
3. Startup introspection does not get the CA bundle (`index.ts:68`). Run
   `spec_ca_bundle`. By the same theorem a certificate is refused only to an operator
   who passed a CA bundle or nothing.
4. The search helper `getOperation` ignores the kind, so a query is hidden by the
   mutation of its name: five of them in the bundled schema
   (`search-executor.ts:75`). The documented call with `'mutation'` gets what it asks
   for, but only since mutations sort first. Run `look_up_kind`. `LookUpPrefersMutations` proves
   that it hides nothing else.

Met while reading and not part of a run:

- `callsMade` counts refused calls and calls that fail before a request is sent
  (`execute-executor.ts:120`), while `types.ts:8` calls it the number of API calls
  made.
- `MAX_LOG_ENTRIES`, the "maximum number of log entries" (`limits.ts:14`), is
  exceeded by console calls made from inside console calls; `ConsoleBounded` has
  the bound that holds. The size limit in bytes is compared with UTF-16 lengths, and
  a total that meets it exactly silences the console without a notice.
- When the result cannot be serialised (a BigInt), the console output, the
  warnings and the number of calls are lost with it, while `docs/usage.md:27` has
  `console.log()` "captured into tool output".
- The tool descriptions (`server.ts:75-95`) use `await` and `return` at top level;
  the code is evaluated as a global script, in which both are syntax errors.
- A `Retry-After` in seconds may be negative; a date is not allowed to be.
- The Worker takes key and base URL from header or environment each on its own,
  while its comment (lines 26-27) says "exactly like the Node HTTP transport",
  which never mixes them.
- `SECURITY.md:64` has the insecure-TLS warning on every request, the code gives it
  once per execute.
- An operation's `jsName` is not its method name when sanitised names collide.
- `dispatch.ts:222-225` tells a script without a spec to provide `X-Unraid-*` headers;
  the spec is loaded at startup (`index.ts:108`), headers never load one.
- A settle callback interrupted by the deadline has its error discarded
  (`execute-executor.ts:325`), so a run may be reported as deadlocked that timed out.
- An array of blank strings passes for a selection (`dispatch.ts:166`).

## 5. Proofs

All theorems hold for every value of the constants that the named assumptions of
the modules allow.

- **`ExecuteExecutorProofs`.** `Inv` is inductive. Its core is `HandleInv`: an
  entry is in `pending` exactly as long as the host owes it a disposal, a call not
  yet answered is pending until the executor has returned, at most one call is
  settling. `HandlesDisposedOnce` and `NoAnswerLostWhileRunning` follow, but are
  not inductive alone: that a late callback finds no entry needs that `Finally`
  emptied the set. `DrainInv` says that a drain that ran nothing found an empty
  queue and a pending promise; without it `DeadlockVerdictSound` is lost at
  `ReportDeadlock`. `BudgetInv` bounds `issued` by `callsMade` and by the budget.
  `Refinement` maps `issued`, the calls settling or answered, the verdict and the
  deadline onto `AbstractExecute`: every step is one of its steps or a stutter.
- **`RateLimiterProofs`.** `SuffixInv`: a client's list is the end of its history
  and all that was dropped is older than the window. With the order of the history
  this gives `SlidingBound` (if the list has room, the entry `MaxRequests` back is
  dropped or absent) and the refinement of `SlidingWindow`.
- **`HttpClientProofs`.** `AttemptInv` ties `attempt`, `sent` and `refusals`;
  `OwedInv` keeps the sleep at least as long as what is owed, which gives
  `RetryHonoursServer`; `TimerInv`, under `ExecuteMs <= TimeoutMs`, keeps the
  caller's budget below the signal's timer, which gives `OwnLimitAfterDeadline`.
  `Refinement`: each step is one of `AbstractCall` or a stutter; that a second
  request follows a refusal comes from `AttemptInv`.
- **`ToolCallProofs`.** `ConsoleInv` has one conjunct per limit. The calls that are
  open share the room they saw: `Len(logs) + open` stays below
  `MaxLogEntries + MaxDepth` as long as one is open, since a call opens only below
  the limit and the stack holds `MaxDepth`. Text is either all kept or over the
  limit, and notices stand only where it is over; hence `CutsAreAnnounced`.
  `CallInv` carries `AbstractCall`'s promise for each call and `AbstractExecute`'s
  budget for their number, which together bound what the box accepts over the
  whole life of the call: `AcceptedWithinBudget`, also after the answer.
  `RunIsAbstract` and `CallsAreAbstract` say that the composition adds nothing to
  its parts: its run is a behaviour of `AbstractExecute` and each host call one of
  `AbstractCall` (`One(c)`), which are what `ExecuteExecutor` and `HttpClient` are
  proved to implement.
- **`HttpTransportProofs`.** First, every step of the server is a step of the
  limiter or leaves it alone, so `RateLimiterProofs` applies to the limiter in the
  server (`LimiterHolds`), and with it the refinement of `SlidingWindow`
  (`ServerImplementsWindow`): health checks, shutdown and requests refused elsewhere
  do not disturb the window. `ScopeFollowsWork` says that the thread is in the
  scope of the request it works for and that suspended work has kept its own scope;
  `TenantIsolated` is not inductive without it, since the resolver reads the thread's
  store, which other requests set. `OwnInv` adds that only admitted requests have a
  tenant; `QuotaPaidByReached` and
  `StatsAddUp` are inductive with it, by one lemma on how an answer moves a request
  between sets of ends and their cardinalities.
- **`SpecLoaderProofs`.** `FileInv`: whatever the file's document is, the box has
  had its version; the release test and `Parses` do the rest. `OnlyKnownExceptions`
  states what holds in place of the two properties that findings 2 and 3 refute;
  `StartInv` (nothing is got or blamed before introspection) makes it inductive.
- **`OperationDispatchProofs`.** What a schema becomes, and then what a script sees
  of it. Four groups of lemmas carry the proof.
  *Loops*: a set of naturals that has 0 and with each number the next has them all
  (`SetInduction`, from well-foundedness: induction over a set needs no operator as
  a parameter), and every bounded loop has the function that its recursive
  definition describes (`Iteration`).
  *Sorting*: in a finite total order an element has as many before it as its place
  says, so `Sorted` lists each once, in order; hence `IndexIsComplete`,
  `GetOperationFinds`, and with the order of `Better`, `SearchReturnsTheBest`. That
  an exact name is first is arithmetic: all other places together score 59.
  *Names*: among one suffix more than there are names in use one is free, since
  numerals differ; so `uniqueIdentifier` ends at a new name, each operation adds one
  method, and the methods of a kind are its fields (`MethodsAreFields`).
  *Types*: the text of a type, read from its end, is the type
  (`StringifyTypeRefReads`), by induction on its wrappers.
  `IInv` relates the state to these. `ServesSchema`: the index is that of the
  schema, and the methods are those of the index. `CallIsDispatched`: `request` is
  what the dispatcher makes of `called`, and `answer` what it unwraps of `data`, for
  the credentials and methods that the invocation still has. `SearchIsAnswered`:
  `found` is the result for `asked`. None of the four properties is inductive: each
  speaks of what an earlier step computed. TLC checked `IInv` on the instance of
  `dispatch` before it was proved.
- **`CfWorkerProofs`.** `CacheInv`: the cache holds exactly the introspections
  that run or have succeeded, each under the URL of the request that started it.
  Hence no second one is started, and a failing promise removes only itself.

`theorems` in `PROJECT.json` lists them with the properties they state.

Every safety property and refinement that a passing run checks is a theorem. The
constants of `OperationIndex` and `OperationDispatch` carry three assumptions: a
schema gives each kind finitely many fields with distinct names and types that end in
a named one, as GraphQL has it; `localeCompare` tells distinct names apart; and
what the text of a search hits are places of an operation.

**Only model-checked.** Liveness (`Termination`, `CallSettles`,
`StartupCompletes`, `CallAnswered`) stays with TLC, since the provers have no rules
for `ENABLED`, on which weak fairness rests. Of the helpers of a search script
`findOperationsByName` and the search with an empty text are run by TLC and no
property or theorem is about them, nor about negative limits.

## 6. What is not modelled

- **What a script computes**: its calls, logs, jobs and result are
  nondeterministic. The memory limit shows as an error.
- **Configuration** and **tool registration**: one synchronous pass. The limits
  appear as constants.
- **`getType`, the map of named types, tags and summaries**: data no decision reads.
- **`forceRefresh`, `clearSpecCache` and the memory cache** of `loader.ts`: a process
  loads its spec once and passes no `forceRefresh`, so the memory cache is never hit.
- **The MCP SDK and the one transport all HTTP clients share**: its sessions are
  kept by code outside the repository.
- **Stdio transport, maintenance scripts**: plain I/O.
- **The Worker's `doRequest`**: the scaffold answers 501 before a tool can call it.
- **A clock that runs backwards** in the rate limiter.

## 7. Plan

Done, in this order: the executor with its abstract specification; the HTTP
client; the rate limiter with its abstract specification; the spec loader; the
transport over the limiter and the tenant operators; the Worker; index and
dispatch; the host call's abstract specification and refinement; the tool call that
composes both abstract specifications with the console and the result; the proofs
of the transport; the proofs of index, dispatch and search; that the tool call and
the transport keep the abstract specifications of their parts. What could follow:

1. The rate limiter on a clock that may step back: what its list then still
   guarantees.
2. The memory cache and `forceRefresh` of `SpecLoader`, once something calls them.
3. The Worker's tool calls, once the scaffold runs them.
4. One abstract specification of the Worker's promise cache (a single flight for
   each box), refined by `CfWorker`.
5. A bound on what a box is sent by one client of the HTTP server: the sliding
   window of its requests times the budget of each execute and its retries.
