# Verification of mcp-openapix

mcp-openapix serves OpenAPI documents to an MCP client as tools. A client starts
one server process per session, so several servers of one user run at a time and
share a cache directory: tokens, spec documents and the state of the background
refresh. What is hard in this program is what happens between those processes, and
between the calls within one, and that is what this project models: TLA+ modules
checked with TLC on small instances, and theorems checked with TLAPS for all of them.

Paths below are relative to `src/src/mcp_openapix/` unless they say otherwise.

## 1. The system

| Component | State | Operations | Interacts with |
|---|---|---|---|
| token provider (`auth.py` `TokenProvider`) | `_memory` per process; `<key>.json`, `<key>.lock` and a staged `.tmp` file in the shared cache; one `asyncio.Lock` per key | `token`, `_fetch`, `retire`, `_read_disk`, `_write_disk` | other servers through the cache directory, helpers, the API client |
| logout (`server.py` `_logout`, `TokenProvider.purge`) | the same directory | unlink every `.json` and `.lock` | running servers, without a lock |
| helper process (`auth.py` `run_helper`) | a process group, two pipes, a timeout | spawn, `_collect`/`_drain`, `_terminate` | the call that waits, the event loop's child watcher |
| helper protocol (`auth.py` `cache_key`, `_build_env`, `_parse_stdout` …) | none | what a helper is told, what its answer means | `docs/token-protocol.md` |
| spec refresh (`refresh.py`) | `spec-state.json`: the lease, and a row per spec | `refresh_due`, `_claim`, `_record`, `_release`, `refresh_loop`; `--refresh` | other processes under a file lock; threads that outlive cancelled awaits |
| spec cache (`cache.py`) | one file per platform, region and service | `fetch_spec`, `validate_spec`, `write_spec`, `fetch_and_cache` | the deployment, the loader, the sweeps |
| spec registry (`spec_loader.py`) | `_loaded`, `_indexed`, `_index`, per process | `get_spec`, `invalidate`, `_index_spec`; lookups | the spec cache; invalidated by the process's own sweeps |
| API client (`api_client.py`, `tools/call_endpoint.py`) | the calls under way | `call_endpoint`, `call`: arguments and defaults, operation, URL, headers, token, request, 401 | the token provider, the registry, the response cache |
| response cache and results (`responses.py`, `_build_result`) | bodies and curl commands with a time | `put`, `get`; truncation to a preview | two resources in `server.py` |
| configuration (`config.py`) | the merged configuration, with what went wrong | `load_config`, `_deep_merge`, `_load_platforms`, defaults; lookups | everything, at start |
| read-only tools (`tools/list_*.py`, `describe_endpoint.py`) | none | projections of configuration and registry | — |
| server and command line (`server.py`) | the lifespan's refresh task | start, stop, `--refresh`, `--logout`, `--check-config` | all of the above |

What makes each correct, in a sentence:

- *Token provider*: sessions share one helper run per key, no lock is kept by anybody
  who has gone, and a token that was refused does not come back.
- *Logout*: what was installed when it started is gone when it ends.
- *Helper process*: every run ends, a helper does not outlive its timeout, nor its children
  when it has to be killed (others may: section 5), and only a whole output of a successful
  helper is read.
- *Helper protocol*: no token crosses declarations or identities, and an output is
  malformed where the contract says so and nowhere else (but for three liberties the code
  takes: section 5).
- *Spec refresh*: one sweeper at a time across processes, under a lease that outlasts
  it; no spec is attempted twice within an interval, and each is attempted in the end (but
  those behind a spec whose URL cannot be formed: section 5).
- *Spec cache and registry*: a working document is replaced by working ones only, the
  index and the document agree, the file ends up with what the deployment serves, and a
  server with what its own sweeps have written (other servers do not: section 5).
- *API client*: a request bears one credential, the right one; none is asked for in vain,
  and none that was refused is sent again.
- *Response cache*: what a result leaves out can be read for the whole TTL, and not after
  (but a body that is JSON null: section 5).
- *Configuration*: the files are merged as if pasted into one, a broken file or platform
  costs only itself, and what is loaded works.

The hazards behind these, each at its line, are the `hazards` of `PROJECT.json`.

## 2. Modules

One module per component. An action is the code of a handler from one `await` to the
next: a server is one event loop, so nothing runs in between in that process, and
everything may run between two actions — other tasks, other processes, threads started
with `asyncio.to_thread` (which go on when the await that waits for them is cancelled),
a crash. Comments name the function each action translates, and `PROJECT.json` its lines.

| Module | What it is |
|---|---|
| `TokenStore` | the abstract promise of the shared token cache: no locks, files or tasks |
| `TokenProvider` | the token cache of several servers with calls in flight; refines `TokenStore` |
| `TokenLogout` | `TokenProvider` composed with one `--logout` |
| `TokenProviderProofs` | the theorems of both, the refinement included |
| `SweepRecord` | the abstract promise of the refresh: who sweeps, and the times recorded |
| `RefreshSweep` | the lease, the attempt record and the sweeps of several processes; refines `SweepRecord` |
| `RefreshSweepProofs` | its theorems, the refinement included |
| `RefreshUnlocked` | the servers' sweeps where the state file cannot be locked: reads, truncations and writes interleave |
| `RefreshUnlockedProofs` | its theorems |
| `SpecService` | the abstract promise of the spec cache: a file, and servers that offer the operations of one document |
| `SpecRegistry` | one spec: deployment, file, registries of several servers, and the sweeps of it; refines `SpecService` |
| `SpecRegistryProofs` | its theorems, the refinement included |
| `HelperProcess` | one run of a helper with a child, its pipes and the call that waits |
| `HelperProcessProofs` | its theorems |
| `HelperProtocol` | one call after another, each helper output of every kind |
| `HelperProtocolProofs` | its theorems |
| `ResponseCache` | results, the cache they fill and the resources that read it; used by `CallEndpoint` |
| `CallEndpoint` | the calls of a server, from arguments and defaults to the result, composed with `ResponseCache` |
| `CallEndpointProofs` | its theorems |
| `ConfigLoad` | `load_config`, file by file and platform by platform |
| `ConfigLoadProofs` | its theorems |
| `MC…` | values for the constants of the module of that name |

### TokenProvider

`memory[p]` is `_memory` of process `p`, `disk` the installed files, `fileLock` the
`FileLock`s, `waiters` the queue of each `asyncio.Lock`, `pc[t]` where call `t` is. `Hit`,
`Enter`, `Enqueue` and `Wake` are `token()`; `Acquire`, `AcquireFails`, `Resume`,
`HelperMints`, `HelperMintsBare`, `HelperFails` and `Install` are `_fetch()`; `Respond`
and `Refuse` are the end of `ApiClient.call`. The four `Cancel…` actions are the awaits at
which a call can be cancelled. `ReadFails` is a `_read_disk` that cannot read or parse a fresh
file and says there is none (`blind` remembers whose). One of the `Cancel…` actions leaves an
*orphan*: a thread still in `lock.acquire`, which takes the lock for nobody until its
`FileLock` is collected. `Crash` frees what the OS frees. `refused` remembers which tokens a
process has seen a 401 for; it is history, and the code has no such variable.

Abstractions: a helper run yields a new token each time (serial numbers), and the
helper of a cancelled call, which `HelperProcess` shows may go on, has no further
effect here, since nobody reads its output.

`TokenLogout` adds the process that purges. It unlinks file by file, takes no lock, and
unlinking a `.lock` file leaves the holder with a nameless file while the next comer
locks a new one.

### SweepRecord, RefreshSweep, RefreshUnlocked

`leaseExpires` and `attempted` are `spec-state.json`; `pc`, `stamp`, `leased` and `due` the
locals of a sweep. `_claim`, `_record` and `_release` are atomic under the file lock but run
on threads: `lostClaims` and `lostRecords` hold those whose await was cancelled.
`CrashWriting` is a crash between `ftruncate` and `write`, which empties the file. `stamp`
is taken where the code takes it, before the lock is waited for. `Tick` keeps a step of
a sweep within `MaxHold` of its lease: a fetch ends within `FETCH_DEADLINE` (60 s), and
`LeaseAssumption` says that, with the file operations around it, this stays below
`LEASE_TTL` (300 s).

`Next` has every fault but one. `RecordCancelNext` adds the cancellation that catches a
sweep at `_record`, with which `OneSweeper` does not hold (section 5); the other
properties, and the theorems, are about `Next`.

`SweepRecord` has the processes that sweep and the time of the last attempt of each spec,
and no lease, lock, thread or clock. `Promise` in `RefreshSweep` maps to it: `sweepers` are the
processes between a claim that took the lease and the end of their sweep, and `last` is
`attempted`. A claim that takes the lease is a `Take`, a `_record` an `Attempt`, a crash that
empties the file a `Lose`, and whatever ends a sweep a `Leave`; the threads of
cancelled awaits, the clock and the lease are stutters.

`_locked_state` goes on without a lock where the filesystem has none. `RefreshUnlocked` is
the loop of the servers there: what `RefreshSweep` does in one step under the lock is a
read, a truncation and a write by a thread (`thread[p]`, with its stage and the state it is
about to write), with those of other threads between them, and a state written over a
longer one leaves a tail that reads back as no state. A spec whose URL cannot be formed ends
the sweep here too (`FetchRaises`), and a thread whose await is cancelled joins `strays`, at
whatever stage it is, and goes on; a cancellation at `_record` is in `Next` here, for nothing
keeps one sweeper at a time anyway. `lastTried` is the true history the file is meant to
record. `--refresh`, which differs in what it finds due, is left to `RefreshSweep`.

### SpecService, SpecRegistry

A document is its version; `OpsOf` says which operations it has. `Load…` is `get_spec` with
`fetch_and_cache`, `Sweep…` is `refresh_one`. A download is two steps, the deployment's answer
and its arrival, so that an old answer may arrive late; `late` holds `write_spec` threads
whose load or sweep was cancelled. That one process sweeps at a time is taken from `RefreshSweep`.

`SpecService` has a file, and a document and its operations per server; `Service` in
`SpecRegistry` maps to it. Its `offered` is `Offered`, the operations in the index: what
`list_operations` returns and `get_operation` finds.

### CallEndpoint, ResponseCache

`call[i]` is a call and the await it is at; `Start`, `OperationFound`, `TokenGiven`, `Answer`
are the code between them, and `Fail` is every way an await can raise. `Address`, `Levels` and
`Bound` are the defaults and the walk to the nearest token helper. `header_for` is what
`TokenStore` promises of it: the cached token of a key, or a new one; `Expire` is what time and
other servers do to the cache. A header name is a pair of a name and a spelling, for the
code merges dicts and the wire does not tell spellings apart. `ResponseCache` holds no
specification of its own: `BuildResult`, `Get` and `Tick` are used by the actions of the calls.
A body has a length in characters, a width in bytes per character, and may be JSON null,
which `read_cached_response` cannot tell from nothing.

### HelperProcess, HelperProtocol, ConfigLoad

- `HelperProcess`: a leader and a child in one group; each may hang or ignore SIGTERM; pipes
  hold `PipeCap` chunks; the caller keeps `KeepOut` chunks and reads on. SIGKILL is
  sent only while the leader is there, as `_terminate` looks the group up through it, and to
  the members there are then; a leader may fork between the two signals.
- `HelperProtocol`: a field of an output is one of the kinds of value the code or the
  contract tells apart, null and unrepresentable numbers and what surrounds the text included;
  keys, environment and checks are those of the code, `""` and no username included.
- `ConfigLoad`: a file is a function from paths to values that are no objects. A file is
  given its contents when it is opened, whether or not they can be parsed, which is what
  lets a property speak about what an unreadable file would have declared. A platform has
  one deployment, and `Here` and `Gone` are the region, service or env of it and another;
  the four defaults are dropped with a platform that fails, and checked as far as they
  are set without a gap.

## 3. Runs

Every run finishes within about two minutes with two workers.

| Run | Instance | What it shows |
|---|---|---|
| `tp_safety` | 2 servers, 2 + 1 calls, 1 key, 2 tokens, clock to 2 | `FetchMutex`, `NoStampede`, `LockIffFetching`, `RetiredStaysRetired`; `NoReplay`, `ImplementsStore`: every behaviour is one of `TokenStore` |
| `tp_logout` | the same with 1 token, the clock at 0, and a logout, fair | `LogoutWipesInstalled`, `OnlyUnlinkingLetsTwoFetch`; `RequestsSettle`, `LocksAreFreed`, with lock files unlinked under their holders |
| `rs_sweeps` | 2 servers and a `--refresh`, 3 specs, of the last of which one server cannot form the URL, a crash, a cancellation, fair | `OneSweeper`, `LeaseCoversSweep`, `NoEarlyRefetch`; `ImplementsRecord`: every behaviour is one of `SweepRecord`; `SweepsReachEverySpec` |
| `ru_unlocked` | 2 servers, 2 specs, of the last of which one server cannot form the URL, a stop (crash, failing write or cancellation, which leaves a thread), clock to 2, fair | `NothingInvented`; `DueIsTried` |
| `sr_refresh` | 2 servers, 3 versions, 2 faults, fair | `TypeOK` (no document without operations is loaded or written), `IndexMatchesLoaded`; `ImplementsService`: every behaviour is one of `SpecService`; `DiskCatchesUp`, `SweeperCatchesUp` |
| `hp_run` | up to 3 chunks on pipes of 1, 2 kept of stdout, 1 of stderr, fair | `TokenFromWholeOutput`, `HelpersAreHeard`; `RunsSettle`, `TimedOutHelpersDie`, `StuckGroupsDie` |
| `pr_safety` | 2 declarations of one name, 2 users, none and `""`, every kind of output | `NeverAcrossIdentities`; `ContractKept`, of the output the code takes one for |
| `ac_calls` | 2 calls of ten kinds, six configurations with helpers at every sort of level, 2 tokens a key, bodies around the threshold, TTL 1, clock to 2 | `LinksStayGood`, `OneCredential`, `NothingForNothing`; `RefusedStayUnsent` |
| `cl_merge` | `config.json` and 2 drop-ins, up to 5 values | `TypeOK` (every value in force has one owner), `PastedAsOne`, `OwnersSetTheirs`, `NothingReplacedSilently`, `LoadedPlatformsWork`, `NoPlatformIsFatal`, `SkippedFilesCost` |
| `rs_cancel_record`, `rs_broken_spec`, `pr_nameless` | 2 servers and 2 specs (in the first with the cancellation at `_record`), as `pr_safety` | counterexamples: section 5 |

Each passing property has a mutant: an operator beside the definition it replaces, which
changes the code the way a plausible bug would, and with which TLC finds the property
violated.

**Why the bounds are enough.** The faults of interest need two processes, of which one has
two calls (for the `asyncio.Lock` and for a late 401), and one key, since keys share
nothing. Two tokens make an old and a new one; a clock of 2 with lifetimes of 2 and a
buffer of 1 has a token fresh, then stale while it is used. A lease is taken over by a
second process, and a third shows when it is taken twice; two specs make a sweep that
renews, and a third one behind them ends it without a record. With fetches of at most 1, a
lease and an interval of 2 and a clock to 4, a lease lapses and is taken over, and a spec is
due a second time. Three versions tell an older document over a newer one from a document over its
successor. A pipe of one chunk and three to write fills whatever is kept. Three files
make a value be set, replaced and set again. Two calls are what a 401 of one and the
token of the other take; the arguments and configurations have each argument given, left
to a default and missing, headers that differ from the token's in spelling only, and
a user who is the default one by name and by omission. In `ru_unlocked` a lease and an
interval of 1 within a clock of 2 let a lease lapse, and a spec become due again, while its
holder or a thread it left behind still writes; a live lease is written back from an old
state. Bodies are one of as many bytes as the threshold, one larger in bytes only, one larger
in characters, and null.
`tp_logout` has no time to pass: a purge looks at no expiry, and `tp_safety` covers that.

**Deadlock** is checked where a system can always go on (`tp_*`), and switched off where it
may stop: bounded clocks and versions, one run of a helper, one load of the configuration.

**Fairness** (`Progress` for each task in `TokenProvider` and with the purge in
`FairLogoutSpec`; `FairSpec` elsewhere) is weak, on what the code's own scheduling or a
bound in it guarantees: a runnable task runs, `lock.acquire` gives up after
`DISK_LOCK_TIMEOUT`, a helper ends by itself or at its timeout, HTTP calls have
timeouts, threads end, those nobody waits for too, time passes, a client restarts its
server, and in `SpecRegistry`, where the interval itself is not modelled, some server sweeps
again and again: which one is open, for whoever comes first leaves nothing due for the others.
No call need be made, answered with a 401 or cancelled, no fault need happen, and nobody need
load a spec.

## 4. Theorems

TLAPS checks these for all values of the constants, in the modules whose names end in
`Proofs`. Every safety invariant, action property and refinement that a passing run checks
is stated by one of them, but `HelpersAreHeard`, which is about `ENABLED`.

| Theorem | Property | Argument |
|---|---|---|
| `TypeCorrect` (six modules) | `TypeOK` | inductive; that of `SpecRegistry` and of `ConfigLoad` is checked too, where it says more than a type |
| `LocksFollowTasks` | `LockIffFetching` | inductive with types, one key at a time (`HolderFetches`, `FetcherHolds`): a lock is taken in the step that enters, and every way out frees it or hands it to an orphan |
| `FetchesExclude` | `FetchMutex` | two tasks that fetch a key would both be the one holder of its lock |
| `StampedesExcluded` | `NoStampede` | inductive with `FetcherHolds` of the key: a helper is started after the file was read under the lock, and only who holds the lock installs a token, so it stays stale; time only makes it staler. A session whose read of the file failed is exempt (`blind`) |
| `TokensInvariant` | — (`TokenInv`) | `RetiredStaysRetired` is not inductive: a staged token could be installed after it was refused. It is strengthened by *tokens are filed under their own key* (a 401 drops the token from where it was read), *serials are known* (a new token is no old one) and *a staged token is nowhere else* (nobody can have seen it refused) |
| `RefusalsLast` | `RetiredStaysRetired` | from `TokensInvariant` |
| `NothingIsReplayed` | `NoReplay` | from `TokenInv` after the step: what a call starts with is in the memory of its process, where no refused token is |
| `InstallsAdvance` | — | with `TokenInv` and `FetcherHolds`, inductive: *what is staged is newer than what is installed*, as it was minted under the lock, which nobody else installs without |
| `RefusalsCostTheirKey` | — | from `TokenInv`: a 401 drops what is filed under the key its token was sent for, and that is the key it was minted for |
| `StoreImplemented` | `ImplementsStore` | with `FetchMutex`, `NoStampede` and `TokenInv`, each action maps to one of `TokenStore` or a stutter |
| `ThreadsExclude` | — (`OneInside`) | inductive with *a queue holds the tasks that wait for its lock, each once and nobody else* (`QueueInv`, which TLC finds kept on the instance of `tp_safety`) |
| `NobodyQueuesInVain` | — | from `QueueInv`: the head of a queue is a task that queues, and its lock is free or held by a task inside, where every await has a bound |
| `LogoutWipesWhatWas`, `RefusalsLastThroughLogout` | `LogoutWipesInstalled`, `RetiredStaysRetired` | of `LogoutSpec`, in which the locks no longer exclude: what was installed is doomed, nobody stages a doomed token (what is minted is new, what is staged is private), and `TokenInv` needs no lock |
| `NothingIsReplayedThroughLogout`, `ThreadsExcludeThroughLogout`, `NobodyQueuesInVainThroughLogout` | `NoReplay`, —, — | of `LogoutSpec` too: `TokenInv` and `QueueInv` are about memories and the `asyncio.Lock`s, which a logout in another process does not touch |
| `NoLockOutlivesItsTask` | — | of `LogoutSpec`: *who holds the lock of a key fetches it* (`HolderFetches`) survives the unlinking, its converse does not |
| `TwoFetchOnlyUnlinked`, `OnlyUnlinkingWastesAHelper`, `OnlyUnlinkingLosesAnUpdate` | `OnlyUnlinkingLetsTwoFetch`, —, — | what of `FetchesExclude`, `StampedesExcluded` and `InstallsAdvance` is left beside a logout: each holds of a key whose lock file is not unlinked yet (`Named`), as the invariants they rest on are about one key each (`LogoutLocks`); that the two are never of one process is `ThreadsExcludeThroughLogout` |
| `SweepInvariant` | `SweepInv` | `LeaseCoversSweep` and `OneSweeper` with `StampsArePast`: the times given to claims and records are past, and within `MaxHold` |
| `SweepersExclude`, `SweepsAreCovered` | `OneSweeper`, `LeaseCoversSweep` | from `SweepInvariant`: a lease that covers its sweep is live for every claim, whenever its time was taken |
| `RefetchesWait` | `NoEarlyRefetch` | inductive with `SweepInv`: attempts are recorded only by the sweeper, of specs it then drops, so what was due stays due |
| `RecordImplemented` | `ImplementsRecord` | with `SweepInv` and *times recorded are no later than the stamp of the sweeper, and what is due was never attempted or is an interval old by that stamp*; each action maps to one of `SweepRecord` or a stutter. That there is a spec to record (`CurrentIsDue`) is that a nonempty set of numbers has a least one |
| `NobodyIsPutOff` | — | of `RecordCancelSpec`, in which a cancelled sweep may leave its record to a thread and the lease no longer excludes, and so of `Spec`: *every time on its way to the record is past* (`NothingAhead`), a lease being written as such a time and `LEASE_TTL` |
| `NothingIsInvented` | `NothingInvented` | inductive, over the threads of sweeps and the stray ones alike, with *a thread's time is past, and one that records has a time no later than the last download*: every state in a file or on its way to one was read from such a state, and what is added to it has happened |
| `OverdueIsClaimed` | — | from that invariant: an attempt in the file was made, so what was not tried for an interval is due by the file a claim reads, whatever writes the file has lost |
| `IndexCorrect` | `IndexMatchesLoaded` | not inductive alone: a load that is under way must be of a server without a document (*loads the missing*), or it would replace what is indexed |
| `ServiceImplemented` | `ImplementsService` | with `IndexCorrect` and *published* (no download and no late write is of a version not published yet), each action maps to one of `SpecService` or a stutter |
| `OldDocumentsDieOut` | — | with *published*: what comes under way is what the deployment serves, and what is written was under way (`UnderWayStep`, `InstalledWasUnderWay`) |
| `NothingIsSentForNothing`, `CredentialIsOne` | `NothingForNothing`, `OneCredential` | inductive: a call keeps the arguments and the token it went on with; `NearestIsBound` says what the walk over the levels finds |
| `RefusedAreUnsent` | `RefusedStayUnsent` | with *what is cached is filed under its key and has not been refused* and *serials are known*: a 401 drops the key its token was sent for, and what is minted is new |
| `LinksAreGood` | `LinksStayGood` | inductive with the types of the cache: an entry is put with the time it is linked, only `get` after its TTL drops it, and only null reads as nothing before |
| `OutputsAreWhole` | `TokenFromWholeOutput` | inductive with *one spawn*, *a leader exits 0 only when it has written what it wants* and *parsed is done*: the pipes are at their end when the output is parsed, and nobody lives to write |
| `NobodyWaitsInVain` | — (`SomethingToDo`) | a full pipe can be read, an empty one written to, and an end of file comes when all have gone: the guards behind `HelpersAreHeard`, without `ENABLED` |
| `TimeoutsAreFatal` | — (`TimedOutAreKilled`) | inductive: the ways out of `_terminate` by a timeout are a leader reaped and a `SIGKILL` sent to the members there are, after which the leader forks no other |
| `IdentitiesKeptApart` | `NeverAcrossIdentities` | inductive with *what is cached suits the declaration and user of its key*, *a helper is told whom the call is for* and *an answer is what is cached*; `KeysTellApart` says that different calls have different keys, `ParsedSuits` what a parsed output bears |
| `MalformedAsAgreed` | `ContractKept` | `ContractMatched`, a lemma about `Parse` and `TakenFor` for all kinds of fields and ends, and that an output is read with the user it was asked for |
| `AsIfPasted`, `ErrorsNameTheFile`, `NothingInSilence` | `PastedAsOne`, `OwnersSetTheirs`, `NothingReplacedSilently` | what files say read as one is defined without the merge: a value is in force if no later file says anything related. Inductive: *what is in force is the last word on it, and all last words are in force*, *what is not in force has been reported* |
| `WhatLoadsWorks`, `PlatformsCostThemselves` | `LoadedPlatformsWork`, `NoPlatformIsFatal` | *loaded platforms are declared and valid, those that failed are not*, and *defaults that lead into a platform that failed have been dropped* when they are checked; `PlatformsApart` says that a platform reads nothing of another |
| `CommasCostTheirs` | `SkippedFilesCost` | with the merge known (`PastedAsOne`), `SameVerdict` compares the verdict on it with that on all the files |

They rest on the assumptions the modules name: `NoTokenAssumption`, `ProcOfAssumption`,
`NamesAssumption` and `TimesAssumption` (names are distinct, numbers are numbers),
`BoundsAssumption`, `UnlockedAssumption`, `VersionsAssumption`, `CacheAssumption`,
`SizesAssumption` (limits and lengths are numbers, null is four characters);
`DeclarationsAssumption` (a declaration is a pair) and `ContentsAssumption` (a file is a
function from paths to values that contains no path inside another, and distinct values; a
platform that is no object is a bad one); `CallAssumption`, whose content is that a
configuration names only helpers it declares, which `LoadedPlatformsWork` of `ConfigLoad`
checks; and `LeaseAssumption`, which relates the deadline of a fetch to the lease.

Only model-checked: the liveness properties, as fairness is out of TLAPS's reach here.
The safety seven of them rest on is proved: `NobodyQueuesInVain` for `RequestsSettle`,
`NoLockOutlivesItsTask` for `LocksAreFreed`, `NobodyIsPutOff` for `SweepsReachEverySpec`,
`OverdueIsClaimed` for `DueIsTried`, `OldDocumentsDieOut` for `DiskCatchesUp`,
`TimeoutsAreFatal` for `TimedOutHelpersDie` and `StuckGroupsDie`. Also
`HelpersAreHeard`, which is stated with `ENABLED` (`NobodyWaitsInVain` proves what
makes it true); and everything in section 5. What `ConfigLoad` reads of the files is defined by
quantifiers, not by recursion over them, so that nothing needed induction over data.

## 5. Where the code and its documents part

Three of these are runs that TLC ends with a counterexample; `PROJECT.json` quotes the
lines they go against.

| Run | Property | What happens |
|---|---|---|
| `rs_cancel_record` | `OneSweeper` | the thread of a sweep cancelled in `_record` overwrites the lease another process has taken since, and whoever claims next (in the trace the first process, started again) sweeps beside it |
| `rs_broken_spec` | `AttemptsAreRecorded` | a `canonical_env` that names no env of the configuration ends the sweep unrecorded, with the lease live |
| `pr_nameless` | `ObedientHelpersServe` | username `""` sets no variable, and rejects every payload |

The others are stated in their modules as what a document or comment says, under a
comment that says how the code differs. No run checks them; in place of the properties
of the run named here, TLC finds each violated.

| In | Property | What happens |
|---|---|---|
| `tp_safety` | `RetireOnlyRefused` | a late 401 for an old token drops the new one, if of the same key (`RefusalsCostTheirKey`) |
| `tp_logout` | `OneMinterPerKey` | logout unlinks a lock that is held; two servers run the helper for one key, for no other reason than that (`OnlyUnlinkingLetsTwoFetch`) |
| `tp_logout` | `LogoutWipes` | a token in the `.tmp` file of a server that died is not wiped |
| `rs_sweeps` | `LeaseDroppedOnCancel` | a sweep cancelled in `_claim` leaves its lease to the TTL |
| `rs_broken_spec` | `SweepsPassBrokenSpecs` | a spec behind one whose URL cannot be formed is never attempted |
| `sr_refresh` | `EveryServerCatchesUp` | servers other than the one that swept serve the old document |
| `hp_run` | `AbandonedHelpersDie` | the helper of a cancelled call is never terminated |
| `hp_run` | `TimedOutGroupsDie` | the child of a helper survives the timeout, if the leader has gone |
| `pr_safety` | `ContractKeptToTheLetter` | three liberties (`TakenFor`): `str.strip()` takes Unicode whitespace and `\x1c` to `\x1f` off the ends, which §4.1 leaves there and §4.10 rejects where they are control characters; a null `expires_at` is an absent one, which §4.2 and §4.10 call malformed; a number no float holds (`1e999`) is malformed, which §4.2 does not say |
| `ac_calls` | `NullStaysReadable` | with a threshold below 4 bytes a body that is JSON null is cached and linked to, and reads back as expired at once |
| `ac_calls` | `ShownWithinThreshold` | a preview of wide characters is longer than the threshold in bytes |
| `cl_merge` | `FilesCostOnlyTheirs` | a skipped drop-in that declares the default helper or platform fails the whole load |
| `ac_calls` | `AuthorizationOverridden` | where no helper is bound, a caller's `Authorization` header is sent (`server.py:465` says it is always overridden) |

Others were met on the way, in what the modules abstract from or as consequences nobody
wrote a property for:

- A first load that has installed its document when a sweep of the same server installs a
  newer one returns after it, and keeps its own in memory (`spec_loader.py:131`):
  `SweeperCatchesUp` exempts it.
- A cached token file that cannot be read for a moment counts as none, and the helper runs
  although the token is fresh (`auth.py:529`): `NoStampede` exempts it.
- The curl command of a JSON body has no `Content-Type`, which httpx adds to the request
  (`api_client.py:44` calls them equivalent); a body that is a scalar is not sent.
- A path parameter whose value contains `{name}` of another has that substituted too.
- A header of the caller and one of the configuration in different spellings are both sent.
- A default platform that fails takes the default region, service and env with it, also
  for calls that name another platform.
- `"platforms": null` in one drop-in hides the platforms of earlier files.

## 6. Not modelled

- The win32 branches; thread pools running out; clocks that jump.
- Strings: queries, bodies, curl commands, previews aligned to lines, error wording. What
  can be wrong in them is the result of one function on one input, which the unit tests
  of the repository reach.
- `resolve_refs`, which follows `$ref`s in one document, and the list and describe tools:
  reads without state. What they read of the registry is `Offered`.
- `list_ids` and `force=True` of `fetch_and_cache`: no caller in the server.
- Where configuration files are looked for, `--check-config` and `--help`, the declarations
  of the tools, the release scripts: input, output and packaging.
- Cancellation during `create_subprocess_exec`, which asyncio cleans up itself; a spec's
  `.tmp` file that a crash leaves.
- A process that replays, from its own memory, a token another process has seen refused:
  nothing tells it, and no document says it should know.

Hazards without a property that holds, each with its reason in `PROJECT.json`. A property in
section 5 says what is violated for a late 401 that drops a newer token (`auth.py:441`), a
token left in a `.tmp` file (`auth.py:560`), a helper that outlives its cancelled call
(`auth.py:348`), servers that did not sweep (`refresh.py:217`), specs behind a broken one
(`refresh.py:198`), a preview cut in characters (`tools/call_endpoint.py:96`) and a cached
null (`responses.py:54`). None is stated for an integer `expires_at`
beyond the floats, for which `math.isfinite` raises `OverflowError` (`auth.py:251`), and the
growth of the response cache, which has no bound (`responses.py:27`).

## 7. Plan

Done: everything in sections 2 to 4. Next: compose `HelperProcess` with `TokenProvider`,
in which the stray helper of a cancelled call runs beside the next, and prove of the
composition that the stray helper's output reaches nobody.
