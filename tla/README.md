# Verification of http_js

TLA+ models, TLC configurations and TLAPS proofs for `http_js`, a TypeScript
library of service building blocks: caches, a rate limiter, a request logger, a
Prisma retry extension, HMAC signing, environment loading and a small CLI.
Paths below are relative to the repository; the implementation is under
`src/`.

## 1. Inventory

| Component | State it keeps | Operations | What it interacts with |
| --- | --- | --- | --- |
| In-memory cache (`modules/cache/in-memory-cache.ts`, `utils.ts`) | a `Map` of items with an absolute expiry, at most `maxSize` of them | `set`, `get`, `exists`, `removeItem`, `clear`, private `clean` | the clock; the rate limiter's `RULE_CACHE` is one |
| Rate limiter (`modules/rate-limiter`) | the process-wide `RULE_CACHE` | `rateLimiterMiddleware`, `assertCapacity`, the cached fetches of rule and counts, `resetRateLimiterCache` | the rule table and the request log, through the reader client; Express's `next` and response |
| Request logger (`modules/request-logger`) | per response: has the log been written, the tracked body | middleware, `finish`/`close` handlers, `saveRequestLog` | writes the rows the rate limiter counts |
| Prisma retry (`modules/prisma-retry`) | per operation: attempt, timer, backoff | `executeWithRetry`, `executeWithTimeout`, `shouldRetry`, `calculateDelay` | wraps every query of the two modules above |
| Database cache (`database-cache.ts`, `repositories.ts`) | rows of a table shared by processes | `get` (find, then remove if expired), `set`, `exists`, `cleanupExpired`, `clear` | the database, the clock in whole seconds |
| Redis cache (`redis-cache.ts`) | keys under a prefix in a server | `get`, `set`, `setWithNx`, counters, `clear` by cursor | other clients of the server |
| HMAC (`modules/hmac`) | per client, the lazy resolver's one promise of secrets; the middleware's `SECRETS` | `sign`, `verify`, `hmacMiddleware`, legacy verification | a secret provider that can fail and rotate (`shared/utils/aws`), HTTP and body parsers between the two ends |
| Environment (`modules/environment`) | the values, `initialized`, a process-wide singleton, `process.env` | `createEnvironment`, `initializeSync`, `get`, `.env` loading | files, `process.env`, which the CLI below fills |
| `setup-environment` CLI (`cli/setup-environment.ts`) | the child, settled or not, the signal received | parse, fetch secrets, write a file or spawn and forward signals | AWS, a child process, signals |
| Prisma clients and contexts (`modules/prisma`, `shared/context`) | a writer and readers | create, warm up, clean up, pick a reader | the database |
| Request data, Express adapters (`shared/requests`, `shared/express`) | none | path, product fields, defaults | the logger and the limiter, each of which extracts for itself |
| Logging, utilities (`shared`) | none, or output only | `timeout`, `sleep`, loggers | all of the above |

Everything runs on one event loop: code between two `await`s is atomic, and what
is hard is what happens between them. The hard behaviours are

* **shared caches under concurrent requests**: no request joins another's
  pending query, so requests that miss together query together and write the
  cache in any order;
* **samples that are torn or stale**: three counts of one verdict are three
  queries; boundaries are computed before them; cached values outlive windows;
* **partial failure**: `Promise.all` leaves the second fetch running, a full
  cache fails a fetch after its query succeeded, a timed-out attempt still runs;
* **expiry**: items die at a time, but are deleted when something meets them;
* **events in any order**: `finish` and `close`, `error` and `close`, a signal
  during either;
* **one promise for many callers**: it is shared while it is pending, kept when
  it fulfils, and forgotten when it rejects, each in a callback of its own;
* **two readers of one thing**: the logger and the limiter read the same request
  for themselves, the CLI and the application it starts the same environment, and
  they must mean the same by it;
* **initialisation that fails half-way** and is tried again on what it left.

What makes each component correct: the in-memory cache stays within its size and
is indistinguishable from a map whose items vanish when they expire; the rate
limiter judges each request by its own target, never rejects without a real
count behind it, enforces a limit no later than its cache allows and always
answers; the retry loop reports success only for a query that succeeded,
overlaps attempts only after a timeout, and ends; the request logger writes one
row a response; the HMAC secrets are loaded once for all callers, and a request
is accepted if nothing changed it and only then; the database cache never loses a
fresh value to a cleanup of an old one, and the Redis cache clears all it found and
grants a lease to one; an environment is complete and fixed once it can be read;
the CLI runs what was asked for, under the right values, and settles once with the
child's fate; what the logger stores is what the limiter counts.

The hazards behind these, each with its line and the properties that would
catch it, are listed in `PROJECT.json`.

## 2. Modules

| Module | Models | Uses |
| --- | --- | --- |
| `CacheMap` | the expiring, size-limited map as operators | |
| `InMemoryCache` | the class: one action per method, and the clock | `CacheMap` |
| `TTLMap` | abstract: a map whose items vanish at expiry | `CacheMap` |
| `RateLimiter` | concurrent calls of the middleware over `RULE_CACHE` | `CacheMap` |
| `PrismaRetry` | one operation under the retry extension | |
| `AtLeastOnce` | abstract: what a retried operation promises | |
| `RequestLogger` | requests through the logging middleware | |
| `DatabaseCache` | clients of one cache table | |
| `RequestData` | path and product of an Express request, and their defaults, as operators | |
| `RequestPipeline` | the logger in front of the limiter, over one log | `RateLimiter`, `RequestData` |
| `RedisCache` | clients of caches in one Redis server | |
| `DotEnv` | dotenv files and precedence, as operators | |
| `CommandLine` | the arguments of the command line tool, as operators | `DotEnv` |
| `SetupEnvironment` | the command line tool, from its arguments to its exit | `CommandLine` |
| `Environment` | `createEnvironment` and `Env` in one process | `DotEnv` |
| `ServiceStart` | the tool and an application it starts | `SetupEnvironment`, `Environment` |
| `HmacKeys` | lists of secrets and what is valid among them | |
| `HmacSecrets` | the lazy resolver of one client and its callers | `HmacKeys` |
| `OnceLoaded` | abstract: a value loaded once and given alike to all | |
| `HmacMessage` | the message a signature is over, canonical and legacy, as operators | |
| `HmacExchange` | a request from a signer to a verifier, through HTTP | `HmacMessage`, `HmacKeys` |
| `MC…` | values for constants that a `.cfg` cannot write, for TLC | the module of that name |
| `…Proofs` | theorems and their proofs | the module of that name; `RequestPipeline` for `RateLimiterProofs`, `ServiceStart` for `SetupEnvironmentProofs`, `HmacSecrets` and `HmacExchange` for `HmacProofs` |

Three compositions share state. The rate limiter's `RULE_CACHE` is an in-memory
cache, so `RateLimiter` performs every cache access with the operators of
`CacheMap` that `InMemoryCache` is made of. `RequestPipeline` puts the logger in
front of the limiter: the rows one counts are the entries the other saves, for the
same requests. In `ServiceStart` the application's `process.env` begins as the
environment the command line tool made for its command. Both leave their parts
alone: every behaviour of the whole is one of the limiter, or of the tool
(`LimiterApart`, `ApplicationApart`), so what is proved of them holds there.

The other links are assumptions of one module that another one justifies:
`RequestLogger` takes of its writer that an entry is inserted at most `MaxCopies`
times and perhaps after its promise has settled, which is what `PrismaRetry`
implements (`AtLeastOnce`); `RequestPipeline` takes of `RequestLogger` that an
entry is saved at most once, at some time after it was opened; `HmacExchange`
loads a client's secrets in one step, which is what `HmacSecrets` implements
(`OnceLoaded`).

Operators named as mutants (`ValidAtExpiry`, `TrackNothing`, …) are not part of
any specification: each is a plausible bug, kept beside the definition it would
replace, and breaks the property `PROJECT.json` names for it.

### State and actions

**Steps.** The code runs on Node's event loop, so an action is what runs between
two awaits, all of it: a handler with its trailing calls, or a continuation with
the `catch` block it falls into. A query is a step of the database between the
step that sends it and the step that resumes.

**InMemoryCache.** `cache` is the `Map` (its insertion order decides nothing),
`now` is `Date.now()`, `reply` what the last call returned or threw. `Set` is
`SetItem`: a new key in a full map sweeps (`MakeRoom`), and throws if that freed
nothing (`Refused`), the sweep standing. `Get` and `Exists` delete their own key
if it expired (`Purge`).

**RateLimiter.** `request`, `ruleFetch` and `countFetch` hold, for each call of
the middleware, where it and its two fetches are. `Arrive` is `assertCapacity` up
to its `Promise.all`: both cache lookups, with their lazy deletes, and the window
starts. `AnswerRule` and `AnswerCount` are the database, one step a query;
`FinishRule` and `FinishCount` the continuations that write the cache, where a
full cache makes the fetch fail; `PassError`, `LimitNoRule`, `LimitWindow` and
`Admit` the verdict. A fetch whose partner failed goes on and writes the cache.
`InsertRow`, `ChangeRule` and `Tick` are the rest of the world. Cached values
carry the target and the moment they were asked for, which the code does not
keep: only properties read them. A cache key is a sequence of `:`-free pieces,
which is exactly what the joined string tells apart.

**PrismaRetry.** `attempt` and `phase` are the loop's, `query[a]` is what the
database made of attempt `a`'s query, which may be applied before, after or
without its answer, and go on after its race is lost. `TimerFires`, `Fail` and
`Succeed` end a race and run the code up to the next `await`; `Wake` starts the
next attempt. Errors are sets of the traits `shouldRetry` tests, in its order.
`setTimeout` models the one conversion that matters: a delay Node cannot
represent becomes 1.

**RequestLogger.** `stage` says how far the middleware is with a request, `wire`
what the client is sent, `statusCode` and `tracked` what the response and the
body tracker hold meanwhile, `saves` the entries handed to `saveRequestLog`,
`rows` how often the entry is in the table. `touched` is of the model only: the
responses that the application answered again, or gave another status, between the
answer and the entry (`Touch`). `Emit` is Node firing `finish` or
`close`, with `finalizeLog`; `Send` and `SetStatus` are the application.

**DatabaseCache.** `table[k]` is the row of the key's hash, `call[c]` the method
a client is in, with the clock it read when it was called. `Find` is the
`SELECT` with the continuation of `get`, which on an expired row turns the call
into a `remove`; the other methods are one statement. A row carries when it was set and for how
long, for the properties only; `served` and `present` keep the row a `get` or an
`exists` answered from.

**RequestPipeline.** `entry[r]` is what the logger holds for a request: nothing,
an entry that is open with the target it will be stored under, or the row it
became. `Enter` is the logger up to its `next()` with the limiter's first steps
(neither awaits anything external before); `Reject` is the logger's 400;
`SaveEntry` is the row, at any time after. `RequestData` is what either reads of a
request: `LogTarget` after defaults and overrides, `LimitTarget` without.

**RedisCache.** `expires` is the server: its live names with their times. Each
method but `clear` is one command and one action; `clearing[c]` is a client's
`clear` between its awaits, `Scan` a page with the decision it leads to,
`DeletePage` the deletion of what the page held. `table` is the server's hash table,
as the starts of its buckets along a line of places. A cursor is a place on that line,
a page the matching names of whole buckets from the cursor's on (`PageOf`,
`NextCursors`), and `Resize` splits or merges buckets at any moment: a scan goes on
in the new table where it was, and may show a name twice, but skips none, which is
what `SCAN` promises. Values are left out except for what properties
tell apart: which were there when a `clear` began (`old`), and whether the value a
client was granted a name for still stands (`lease`).

**CommandLine, DotEnv.** A token of `argv` is an option, with or without an inline
value, or a word; a word is a list of names, so that `SECRET_NAMES` and a flag's
value can be split. `Parsed` is the loop as a recursive function from each
index to what is made of the rest, `ParsedToken` one turn of it. `Merged` is the
files of dotenv one after the other, as a recursive function too; nothing declares
a `RECURSIVE` operator, so that all of it can be proved about.

**SetupEnvironment.** `phase`, `exitCode`, `listening` and `receivedSignal` are
the variables of `runSetupEnv`, `argv`, `localEnv`, `secretNames` and `secrets`
what it works with before it has a child; `process`, `child`, `pending` and
`events` what the operating system and Node hold: whether we and the command
live, the signals queued for a listener, the child's events to come. A kill the
system refuses emits `error` from inside the listener (`OnSignal`'s second
disjunct). `local` and `fetched` record what was read, for a property.

**Environment, ServiceStart.** `processEnv` is the process's, `instances` the
`Env` objects somebody holds, with their values, `singleton` the registered one.
All of it is synchronous, so `createEnvironment` is one step with its failures in
it: a parser that throws leaves the values before it new and those behind it old
(`processEnvValues`), a required variable without a value leaves all of them new,
and either leaves a singleton registered. In `ServiceStart` this happens in the
child of the tool, as long as that runs.

**HmacSecrets.** `secretsPromise` is the variable of
`createLazyHmacSecretResolver`, as the number of the call of the provider whose
promise it holds; `calls` has each call with the life of its promise, `caller`
what each `sign` or `verify` awaits or got. `Ask` and `AskThrows` are the call
that finds no promise, `Join` one that finds any; `Fulfil` is
`then(validateHmacSecrets)`, `Forget` the `catch`, and `Resume` the caller's
continuation, which runs later. `Reply`, `Reject` and `Rotate` are the provider,
which may answer with what it held at any moment since it was asked.

**HmacMessage.** A message is the sequence of the pieces the code concatenates,
so that nothing marks where one part ends and the next begins. Paths are told
apart by what `encodeHmacPath`, `encodeURIComponent` and `URL` do with them: plain
text, with a `:`, with one of `!'()*`, with a space, empty; each with how often it was
encoded. Trimming and byte encodings are left out, and SHA-256 is injective.

`HmacSecrets` and `HmacExchange` share `version`, the provider's, of `HmacKeys`. What
the two define for themselves has names of its own in the second (`ExchangeInit`,
`exchangeVars`, …), since one module proves about both.

**HmacExchange.** `setup` says who signs (a client, or the scheme http_js once
used), who verifies (a client or the middleware) and what parses bodies before
the verifier; `held` what secrets each party has loaded, of which rotation;
`exchange` the one request under way. `Sign`, `Load` and `Send` are `sign`, cut at
its await; `Receive`, `Load` and `Verify` are `verify` or the middleware, whose refusals,
errors and silence `reply` records. `OverHttp` is what HTTP and Node do to any request,
`Alter` one change to a part of it or its signature. The order of parameters and the
case and order of header names change freely.

## 3. What the runs show

Runs marked ✗ state what the documentation or a test says, and TLC shows the
code doing otherwise.

| Run | Question | Result |
| --- | --- | --- |
| `in_memory_cache` | size bound; refinement of `TTLMap` | hold |
| `rate_limiter` | how stale a verdict, how late a limit, whether a rejection is earned | less than `TTL + MaxLatency`; always |
| `request_pipeline` | logger and limiter over one log, a cache too small, failing queries: by how much a limit is overshot, whose data, whose error, an answer for all | only by requests not yet saved, or saved for less than `TTL + MaxLatency`; own data; a full cache only while `MaxSize` others are live; every request is answered |
| `rate_limiter_collide` ✗ | no reuse across table prefixes | null and `"default"` share a key |
| `prisma_retry` | spacing, with a backoff that can be too long for a timer, overlap, duration, validation errors, at-least-once, an end though the database need not answer | hold; past the timers' range an attempt waits one tick |
| `request_logger` | `finish` and `close` in any order, an application that may answer again | one entry, handed over in the end, and true unless the response was changed after its answer |
| `database_cache` | races of all methods | nothing served or confirmed late; losses accounted for |
| `database_cache_race` ✗ | a read removes what expired | it can remove a fresh row |
| `redis_cache` | `clear` page by page against everybody and a table that is resized, leases | all that was there at the call is gone; one holder at a time; `clear` ends |
| `setup_environment` | every short command line, then errors, ends, signals and refused kills at every moment, under an application that makes environments | what was asked for is done; local values before secrets; configurations complete and fixed; no orphan once the listeners stand; zero means success; signals are forwarded |
| `hmac_secrets` | callers, rotations and failures of the provider in any order | one question at a time, one list for all, failures forgotten, every caller told; refinement of `OnceLoaded` |
| `hmac_exchange` | what is accepted, by which secrets, and who answers | what was signed, whole; whatever arrives unchanged, while the lists overlap |

### Bounds

* `InMemoryCache`: three keys for two places make refusal, sweep and update
  meet; lifetimes 0, 1, 2 and a clock of four let an item expire, be replaced
  and expire again.
* `RateLimiter`: two concurrent requests, which is what sharing, overwriting and
  orphaned fetches take. `RateLimiter.cfg`: one target, and a whitelisted one
  that `HealthUnruled` leaves without rule and rows, which nothing would read; two
  windows counted on their own, a row that exhausts the hour, and a clock of five
  ticks that outlives a cached value (two ticks) and crosses an hour. A month is a
  window like the others and is not instantiated.
* `RequestPipeline`: two requests of five kinds (a `GET` and a `POST` of two
  targets, a whitelisted path, a method whose product is not read, a body that
  cannot be), so four keys for two places; a limit of one, so that a single row
  exhausts it; `TTL` and `MaxLatency` of one and a clock of two, so that an entry
  saved by the first request counts for the second. `OrdersAlone` keeps to the
  initial states in which just one target has a rule.
* `RedisCache`: a table of one, two or four buckets with the names at its two ends, so
  that pages between them are empty, and a cache whose prefix begins another's; two
  clients, each of which may clear either.
* `PrismaRetry`: three attempts, so there is one that is neither first nor last;
  a timeout (4) that can outlast a backoff, and a clock (31) past the longest
  schedule. `TimerMax` stands for 2³¹ − 1 ms: the first backoff (3 or 4) is within
  it, the second (6 or 7) passes it with the larger jitter. At the default base of
  100 the backoff of the 26th attempt would be the first to do so. No timeout
  (`null`) is covered by the theorems only.
* `RequestLogger`: one request of each kind (requests share nothing), two codes, a
  body and none, so that a second answer or a late status can differ from the
  first, and two copies of a row. The number of answers is not bounded.
* `DatabaseCache`: two clients, two keys, two ticks a second and a clock of three
  ticks, so that a call straddles a second; lifetimes of 0 and 1.
* `SetupEnvironment`: every sequence of up to three of nine tokens, and two longer
  command lines that work; so up to two secrets, of which the second may override
  the first. Two forwarded signals and one that is not, two exit codes. The run
  chooses at its start whether kills can be refused.
* `Environment`: two instances (`MaxInstances`), two configurations that share a
  variable, a parser that throws for one word, values that are empty or missing;
  this makes an attempt fail half-way, then another succeed.
  `SignalsToOneInstance`: TLC does not go on from a state in which there are two
  instances and signals too, since the application does nothing about signals.
* `HmacSecrets`: three callers, so that one can join while another resumes and a
  third asks anew; three calls of the provider, so that a failure is followed by
  a failure and a success; two rotations.
* `HmacExchange`: two secrets kept and two rotations, so that lists of sender and
  receiver overlap in both, one or none, in both directions; one request at a
  time, since exchanges share only what was loaded. Requests are a plain one of
  each method and those that differ from it in one part.

The clock of each module stops at `MaxTime`; TLC's deadlock check is off where
the modelled program itself ends. `RateLimiter`, `InMemoryCache` and `RedisCache` never stop
(`resetRateLimiterCache` and the caches' methods are always enabled).

### Fairness

Fairness is only given to steps the event loop, Node or an external service owes:
continuations that are ready (`FinishRule`, `Decide`, `Wake`, `TimerFires`,
`OnSignal` of a queued signal), timers, a database that settles each query of the
rate limiter one way or the other, a server that answers the commands of a
`clear`, a provider of secrets that settles each call, a connection
that closes in the end. None is
given to clients, to the log's writer, to the command and its application, to signals, or, in `PrismaRetry`, to the
database: there the timer alone makes the operation end.

### Assumptions about the outside

* `MaxLatency` (`RateLimiter`): a query is settled within it. It only gives the
  staleness bound its size; the retry extension's timeout is what provides it.
* `MaxLag` (`PrismaRetry`): a timer fires at most so late. Only `EndsInTime`
  depends on it. The bound there, `LatestEnd`, adds up the schedule attempt by
  attempt: a sleep whose backoff is zero still lasts a tick, as a timer does.
* `MaxCopies` (`RequestLogger`): the writer's `MaxAttempts`.
* `Tables` (`RedisCache`): the server's table has at most `Places` buckets, so that a
  cursor that goes forward comes to the end. `SCAN` promises no more, and `clear` has
  no limit of its own (`src/modules/cache/redis-cache.ts:98`): against names that
  are added so fast that the table grows for ever, `ClearEnds` says nothing.
* `Override = Null` (`RequestPipeline`): the logger overrides no product name. With
  an override it logs under another product than the limiter counts, and
  `AdmissionsWithinLimit` is false. `OrdersAlone` and `Null` in `RequestPipeline.cfg`
  are the run's; the theorem is for all rules.
* The constants are of their kinds: `ErrorsAssumption` (an error of the database has
  one class), `DotEnvsAreSequences` and `LoadsAreSequences` (files come in an order),
  `ArgumentsAreTokens` (arguments are a sequence, a word says something),
  `KeepAssumption`, `VersionAssumption`, `CallsAssumption`, `OrderAssumption`,
  `RequestsAssumption`, `RulesAssumption` (HMAC: at least one secret is kept, and
  requests, rules and the orders of names are lists of strings, each name once in its
  order, in lower case; the rules of the two clients are the same but for order and
  case, as `FaithfulAccepted` takes them). TLC evaluates all of them.
* A `setWithNx` client (`RedisCache`) takes no second lease while it believes it holds
  one, and prefixes have no characters that Redis patterns give a meaning.
* `Faithful` (`HmacExchange`): what `FaithfulAccepted` needs of the way between.
  Without it an unchanged request can be refused: an absolute URL with no path is
  signed as empty and arrives as `/`; a raw space is signed encoded once and
  arrives encoded; a `null` parameter is signed as the word; a signed header sent
  twice arrives joined in Node's way; a body parsed to an object is serialised
  anew, so other spacing is lost and an absent body that a parser fills is `{}`.
  The legacy scheme is for `GET` and `POST`.
* `PartsApart` (`HmacExchange`): no text of the path is one of the parameters, the
  body or the signed headers, and so on, and both key orders have every key of a
  request. The message has no separators, so `AcceptedIsGenuine` is stated for `Alter`,
  which drops or replaces whole parts, and not for changes that move text from one
  part into its neighbour; without `PartsApart` a replacement could be such a move.
  TLC evaluates it for the run's texts (`TextsAreApart`).
* The method is not part of a message. `Alter` changes it too, and a request whose method
  was changed is accepted if its other parts make the same message; `AcceptedIsGenuine`
  says nothing of methods.

## 4. What is proved

Each `…Proofs` module proves, for every value of the constants, an inductive
invariant `IInv` (`Init => IInv`, `IInv /\ [Next]_vars => IInv'`) and from it the
listed properties. The type invariants are proved rather than checked by the runs,
but for those of `HmacSecrets` and `HmacExchange`, which are both.

| Module | Theorems | Hypotheses beyond the module's own assumptions |
| --- | --- | --- |
| `InMemoryCacheProofs` | `TypeCorrect`, `Bounded`, `Refinement` | |
| `RateLimiterProofs` | `TypeCorrect`, `Fresh`, `FullIsEarned` | |
| | `OwnTargetOnly`, `Justified`, `Enforced` | `KeysDistinct` |
| | `LimiterApart` | |
| | `AdmissionsBounded` | `KeysDistinct`, no override of the product |
| | `PlainTargetsAreDistinct` | plain targets: no `:`, no prefix `"default"` |
| `PrismaRetryProofs` | `TypeCorrect`, `Spaced`, `NoEarlyOverlap`, `FailsFast`, `Bounded`, `Refinement` | |
| `RequestLoggerProofs` | `TypeCorrect`, `SavedOnce`, `LogIsTrue` | |
| `DatabaseCacheProofs` | `TypeCorrect`, `Punctual`, `LossesKnown` | |
| `SetupEnvironmentProofs` | `TypeCorrect`, `DoesAsAsked`, `NeverOrphaned`, `ExitsHonestly` | |
| | `ApplicationApart`, `CompleteGetters`, `StableGetters`, `LocalWins` | |
| `RedisCacheProofs` | `TypeCorrect`, `ClearsTheOld`, `GrantedOnce` | |
| `HmacProofs` | `TypeCorrect`, `OneQuestion`, `AllAlike`, `FailureForgotten`, `IsLoadedOnce` | |
| | `ExchangeTypeCorrect`, `AnswersForItself`, `AcceptedInTheWindow`, `AcceptedWasSigned` | |
| | `Genuine` | `PartsApart` |

The hypotheses are the borders of what is true: `KeysDistinct` fails in
`rate_limiter_collide`; without `PartsApart` one message can be that of two requests.
Other conditions are in the statements: that a timer can wait for the backoff
(`RetrySpacing`), that nothing changed the response after its answer
(`EntryMatchesAnswer`), that the system lets us signal the command (`NoOrphan`).

The arguments, in short:

* *InMemoryCache*. Every action either restricts the map to a subset of its keys
  or adds one key where `IsFull` failed; both keep the cardinality within
  `MaxSize`. For the refinement, the swept map is the abstract map, and `clean`
  of the code is a stutter.
* *RateLimiter*. What a verdict rests on is either still in flight, in the cache
  with an expiry that bounds its age by `TTL + MaxLatency`, or settled; the
  invariant follows a value through these. The rows of a window only grow, so a
  sampled count stays a lower bound (`Justified`), and a row older than the
  bound was there when the sample was taken (`Enforced`).
* *RequestPipeline*. Where an entry's target and its request's can differ, the
  limiter has refused the request; so whoever was admitted is logged as it was
  judged (`LoggedAsJudged`), and its row lies where it is counted (`EntriesOK`).
  Saved entries have rows of their own, hence the requests admitted before map
  one-to-one into the rows of the window that are old enough to be in the sample,
  which was below the limit.
* *PrismaRetry*. Queries are sent in the order of the attempts, and the next one
  is sent only after the race before it is lost or answered; hence at most
  `MaxAttempts` effects, and an overlap only after a timeout. For `Bounded`, `OnTime`
  follows the schedule: an attempt starts no later than the latest end of the one
  before it plus the longest sleep and a lag, and its timer fires within a lag.
* *RequestLogger*. While the middleware handles a request, the tracked body and
  the status are those of the answer sent until something touches them afterwards,
  which `touched` records; the flag is up exactly when an entry exists.
* *DatabaseCache*. A row's expiry, in whole seconds, lies between its setting
  time plus its lifetime and one second before it (`Dated`); a call sent to remove
  a row holds one that had expired already, and time does not run back.
* *SetupEnvironment*. While we supervise a running command every signal has a
  listener; only an error the system caused settles us before the command ends.
* *Arguments* (`DoesAsAsked`). By induction from the last token down, what `Parsed`
  makes of the tokens from `i` on is what a reader would make of them (`Reads`): flags
  of ours up to some `n`, the command behind it, and the names of the flags between
  (`NamesBetween`). A value in a token of its own is the only step of two.
* *Precedence* (`LocalWins`). An environment gives what a list of environments gives,
  the first that sets a variable before the others (`Gives`); `Assign` joins two such
  lists (`Joined`), and `Merged` gives the files in reverse. The invariants say so of
  what the tool has in hand (`Precedence`) and of the application's `process.env`
  (`Layered`), which every assignment extends at one end.
* *Environment*. Every instance is as `Env` made it or initialised, and then its
  values are those of `source` throughout and none is missing (`AllSound`): an
  initialisation that succeeds went through every variable, so nothing of an
  earlier attempt is left.
* *RedisCache*. A value that was there when `clear` began is gone, in the page at
  hand, or at a place not before the cursor. A page is of whole buckets and goes up to
  the start of another one, so nothing between two cursors is skipped, whatever the
  table is by then (`PageCovers`). Every action that takes the value
  of a lease's name away also ends the lease, so a name that is free to take is held
  by nobody.
* *HmacSecrets*. Whatever call is not rejected is the one whose promise is kept
  (`Current`), so there is at most one; a call that fulfilled has valid secrets
  (`Answered`), and whoever was served got those of the kept call (`Served`). Hence
  `Forget` never wipes a promise but its own, and for the refinement the value is
  fixed when the kept call fulfils.
* *HmacExchange*. `ExchangeInv` follows a request from its signature on: what is being
  signed can be built (`Built`), the signature is one of its message (`Authentic`), what
  was not altered arrived as HTTP delivers it (`Unaltered`), and a verdict is what the
  secrets and messages at hand say (`Judged`, `Answers`). Two lemmas carry the window
  of acceptance: the sender's secret is in the receiver's list just when their
  versions are less than `Keep` apart (`StillHeld`), and under `Faithful` the message
  of what arrives is the message that was signed (`SameMessage`). The latter goes
  part by part through what HTTP does to paths, parameters and headers; it needs
  that a header with one value arrives with that value (`OneValueArrives`) whatever
  other headers there are. For `Genuine` it goes the other way, from the message to
  the parts: the message accepted is the one signed (`AcceptedWasSigned`); where texts
  tell parts apart, two requests with one message have the texts of their paths, their
  sorted parameters and their bodies in common (`OneReading`); and what arrived is what
  was sent or, part for part, one of the few things on the way puts there (`Carried`),
  none of which has those texts unless the request had them too. Of the headers the
  message is not asked: a client that has rules refuses a request without headers.

What recursive functions and `FlattenSeq` compute is proved by induction over the
naturals: `LeastElement` and `Induction` follow from the library's `WFMin`, which
needs no operator for a parameter. `AcceptedWasSigned` has no run: it says of the
message, for all texts, what `AcceptedIsGenuine` says of its parts.

Only model-checked: everything under fairness (`EveryRequestAnswered`, `ClearEnds`,
`EveryCallerTold`, `EventuallyEnds`, `HandledIsSaved`, `SignalsForwarded`), which is
beyond the prover. The type invariant of `SetupEnvironment` says nothing of the
variables that parsing and merging fill; `AsAsked` and `LocalWinsThenSecrets` say what
is in them.

## 5. Where the code and its words differ

Shown by a run:

1. A limiter with no table prefix and one with the prefix `default` share cached
   rules and counts, though they read different tables.
2. The database cache's `get` can delete a row set after it found the old one
   expired.
Part of the models, without a run of their own:

3. The in-memory cache refuses a new key while it is full of live items (`TTLMap`
   has `SetFull`); its README calls it LRU-style.
4. The retry's backoff is not capped; past 2³¹ − 1 ms Node arms 1 ms (`setTimeout`).
5. The retry's timeout bounds an attempt, not an operation (`EndsInTime` states the
   sum).
6. A second answer, or a status changed after the answer, is what the log records
   (`EntryMatchesAnswer` allows for both): the body is tracked before the send that
   throws, and the status is read at `finish`.
7. A request the logger answers with 400 leaves no entry (`Reject`); its README
   speaks of every inbound request.
8. A client keeps the secrets it loaded for as long as it lives, so a rotation
   reaches it with its next restart (`Restart`).
9. `src/shared/requests/README.md:9` has the defaults applied before data reaches
   the rate limiter. The limiter reads the request without them (`LimitTarget`): a
   request without a product, and every request that is neither `GET` nor `POST`,
   gets an error from it, and yet is logged, under `DEFAULT`. With an override of the
   product name the limiter counts rows that nobody writes.
10. A request the limiter refuses has already been opened an entry by a logger in
    front of it, so refused requests use up the limit as well (`SaveEntry`).
11. A local variable that is set to nothing hides the secret of that name
    (`childEnv`), and then counts as missing (`valueToUse`).
12. `removeItem` by a client whose lease has expired removes the lease of its
    successor (`Lost`): the cache has no release that asks whose it is.
13. A singleton that failed to initialise keeps the callback and the files of its
    first call, whatever options a later call gives (`InitializeAgain`).

Seen in the source, not modelled: `--write-to` quotes values with `JSON.stringify`
(`src/cli/setup-environment.ts:185`), which escapes `"` and `\`, while the dotenv
parser that reads such a file back does not undo either. The database cache returns the
string `"123"` as a number (`src/modules/cache/database-cache.ts:9`), and the
in-memory cache as it was; `src/modules/cache/README.md:7` promises backends that can be
swapped.

## 6. Not modelled

* **Prisma clients and contexts**: creation, warm-up and cleanup are a map and a
  `Promise.all` over clients that live outside the repository; the contexts pick a
  reader. A failed warm-up leaves some clients connected, and nothing in the
  repository acts on that. That a reader may lag behind the writer, and the limiter
  so count late, is part of neither `RateLimiter` nor `RequestPipeline`.
* **Async utilities**: `timeout` is one attempt of the retry loop, without a retry;
  `PrismaRetry` has that race.
* **Logging and the package index**: output and re-exports.
* **Request logger**: the console middleware, which prints, and responses streamed
  past the body tracker. In the pipeline, an entry saved twice, a context that
  cannot be created (`RequestLogger` has it), rules edited and caches reset
  while requests run (`RateLimiter` has both).
* **Request data**: headers and the other product fields, which take the ways of
  the product name and decide nothing.
* **AWS secrets**: the two calls of one load, and timestamps that do not parse.
* **HMAC**: cryptographic functions, and the constructor's validation of its options.
* **Redis cache**: values, `get` and `exists`.
* **Database cache**: values and their serialisation, and the refusal of `null`.
* **A release that asks**: `removeItem` takes a lease from whoever has it. For
  `LeaseHeldAlone` that ends the grant, as an overwriting `set` does; the repository
  has no word to the contrary.
* SQL text and table names beyond what they select, wording and layout of logs and
  messages, and how Prisma combines the extension's two hooks.

Worth adding next, in this order: replica lag in the pipeline, which would widen the
bound of `AdmissionsWithinLimit`; the ordering of secrets by timestamp against a
reference definition.
