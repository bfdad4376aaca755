---------------------------- MODULE TokenProvider ----------------------------
(***************************************************************************)
(* The token cache of src/src/mcp_openapix/auth.py (class TokenProvider),  *)
(* as the server processes of several client sessions run it against one   *)
(* cache directory, together with the HTTP call that uses a token          *)
(* (ApiClient.call) and the helper process that mints it (run_helper).     *)
(*                                                                         *)
(* A process is a single-threaded event loop: an action is the code        *)
(* between two awaits.  What the awaits wait for -- the file lock taken on *)
(* a worker thread, the helper, the upstream API -- happens between the    *)
(* actions, where every other task and process may act, a call may be      *)
(* cancelled, and a process may die.                                       *)
(***************************************************************************)
EXTENDS Integers, Sequences, SequencesExt

CONSTANTS
    Procs,          \* server processes sharing one cache directory
    Tasks,          \* calls in flight, each in one process
    ProcOf,         \* the process a task runs in
    Keys,           \* cache keys: a helper declaration and a username
    Nobody,         \* the holder of a free file lock
    NoToken,        \* no token
    ExpiryBuffer,   \* EXPIRY_BUFFER_SECONDS
    BareLifetime,   \* BARE_TOKEN_LIFETIME_SECONDS
    Lifetimes,      \* how far ahead of minting a helper sets expires_at
    MaxTokens,      \* bound on the tokens minted
    MaxTime         \* bound on the clock

VARIABLES
    now,        \* time.time(), in steps
    minted,     \* how many tokens the helpers have minted
    memory,     \* memory[p][k]: TokenProvider._memory of process p
    disk,       \* disk[k]: <key>.json
    fileLock,   \* fileLock[k]: who holds the OS lock on <key>.lock
    waiters,    \* waiters[p][k]: the FIFO of the asyncio.Lock of k
    pc,         \* where a task is
    req,        \* req[t]: the key t last asked for
    tok,        \* tok[t]: the token t is installing or calling with
    refused,    \* refused[p]: the tokens process p has seen a 401 for
    orphans,    \* <<p, k>>: threads still acquiring for a cancelled task
    blind       \* the tasks minting past a fresh file they could not read

clock  == <<now, minted>>
locks  == <<fileLock, waiters, orphans>>
vars   == <<now, minted, memory, disk, fileLock, waiters, pc, req, tok, refused,
            orphans, blind>>

Token == [key : Keys, serial : Nat, exp : Int]

ASSUME NoTokenAssumption == NoToken \notin Token
ASSUME ProcOfAssumption  == ProcOf \in [Tasks -> Procs]
ASSUME NamesAssumption   == /\ Procs \cap Tasks = {}
                            /\ Nobody \notin Procs \cup Tasks
ASSUME TimesAssumption   == /\ ExpiryBuffer \in Nat
                            /\ BareLifetime \in Nat
                            /\ Lifetimes \subseteq Int
                            /\ MaxTokens \in Nat
                            /\ MaxTime \in Nat

(***************************************************************************)
(* Where a task can be.                                                    *)
(*   idle       not in token(), and not in a request                       *)
(*   queued     waiting in the asyncio.Lock of its key                     *)
(*   acquiring  inside that lock, a thread blocked in lock.acquire         *)
(*   locked     the thread has the file lock, the task has not resumed     *)
(*   helper     awaiting run_helper                                        *)
(*   staged     the token is in the .tmp file, os.replace not done         *)
(*   calling    awaiting the upstream API, the token in its headers        *)
(***************************************************************************)
Inside   == {"acquiring", "locked", "helper", "staged"}
Fetching == {"locked", "helper", "staged"}
Minting  == {"helper", "staged"}
Location == {"idle", "queued", "calling"} \cup Inside

Fresh(token) == token # NoToken /\ now + ExpiryBuffer < token.exp

(* Mutant: a new asyncio.Lock for every call, instead of one per key. *)
HeldByNobody(p, k) == FALSE

(* The asyncio.Lock of key k in process p: `async with` frees it on every  *)
(* way out, so it is held exactly while some task is inside.               *)
Held(p, k) == \E t \in Tasks : ProcOf[t] = p /\ req[t] = k /\ pc[t] \in Inside

Minted(k, life) == [key |-> k, serial |-> minted + 1, exp |-> now + life]

Init ==
    /\ now = 0
    /\ minted = 0
    /\ memory = [p \in Procs |-> [k \in Keys |-> NoToken]]
    /\ disk = [k \in Keys |-> NoToken]
    /\ fileLock = [k \in Keys |-> Nobody]
    /\ waiters = [p \in Procs |-> [k \in Keys |-> <<>>]]
    /\ pc = [t \in Tasks |-> "idle"]
    /\ req \in [Tasks -> Keys]
    /\ tok = [t \in Tasks |-> NoToken]
    /\ refused = [p \in Procs |-> {}]
    /\ orphans = {}
    /\ blind = {}

-----------------------------------------------------------------------------
(* token(): the memory tier and the per-key asyncio.Lock.                  *)

(* The call starts with a token that needs no lock. *)
Hit(t, k) ==
    /\ pc[t] = "idle"
    /\ Fresh(memory[ProcOf[t]][k])
    /\ pc' = [pc EXCEPT ![t] = "calling"]
    /\ req' = [req EXCEPT ![t] = k]
    /\ tok' = [tok EXCEPT ![t] = memory[ProcOf[t]][k]]
    /\ UNCHANGED <<clock, memory, disk, locks, refused, blind>>

(* A free lock is taken without suspending, so the second look at memory   *)
(* sees what the first one saw and the task goes on to the file lock.      *)
Enter(t, k) ==
    /\ pc[t] = "idle"
    /\ ~Fresh(memory[ProcOf[t]][k])
    /\ ~Held(ProcOf[t], k)
    /\ waiters[ProcOf[t]][k] = <<>>
    /\ pc' = [pc EXCEPT ![t] = "acquiring"]
    /\ req' = [req EXCEPT ![t] = k]
    /\ UNCHANGED <<clock, memory, disk, locks, tok, refused, blind>>

Enqueue(t, k) ==
    /\ pc[t] = "idle"
    /\ ~Fresh(memory[ProcOf[t]][k])
    /\ Held(ProcOf[t], k) \/ waiters[ProcOf[t]][k] # <<>>
    /\ pc' = [pc EXCEPT ![t] = "queued"]
    /\ req' = [req EXCEPT ![t] = k]
    /\ waiters' = [waiters EXCEPT ![ProcOf[t]][k] = Append(@, t)]
    /\ UNCHANGED <<clock, memory, disk, fileLock, orphans, tok, refused, blind>>

(* The head of the queue gets the lock and looks at memory again: whoever  *)
(* held the lock may have put a token there.                               *)
Wake(t) ==
    LET p == ProcOf[t]
        k == req[t]
    IN  /\ pc[t] = "queued"
        /\ waiters[p][k] # <<>> /\ Head(waiters[p][k]) = t
        /\ ~Held(p, k)
        /\ waiters' = [waiters EXCEPT ![p][k] = Tail(@)]
        /\ \/ /\ Fresh(memory[p][k])
              /\ pc' = [pc EXCEPT ![t] = "calling"]
              /\ tok' = [tok EXCEPT ![t] = memory[p][k]]
           \/ /\ ~Fresh(memory[p][k])
              /\ pc' = [pc EXCEPT ![t] = "acquiring"]
              /\ UNCHANGED tok
        /\ UNCHANGED <<clock, memory, disk, fileLock, orphans, req, refused, blind>>

-----------------------------------------------------------------------------
(* _fetch(): the file lock, the disk tier and the helper.                  *)

Acquire(t) ==
    /\ pc[t] = "acquiring"
    /\ fileLock[req[t]] = Nobody
    /\ fileLock' = [fileLock EXCEPT ![req[t]] = t]
    /\ pc' = [pc EXCEPT ![t] = "locked"]
    /\ UNCHANGED <<clock, memory, disk, waiters, orphans, req, tok, refused, blind>>

(* Mutant: the `try ... finally lock.release()` also covers the acquire. *)
AcquireFailsReleasing(t) ==
    /\ pc[t] = "acquiring"
    /\ pc' = [pc EXCEPT ![t] = "idle"]
    /\ fileLock' = [fileLock EXCEPT ![req[t]] = Nobody]
    /\ UNCHANGED <<clock, memory, disk, waiters, orphans, req, tok, refused, blind>>

(* DISK_LOCK_TIMEOUT passes, or the cache directory cannot be used.  This  *)
(* `raise` comes before the `try` whose finally releases the lock.         *)
AcquireFails(t) ==
    /\ pc[t] = "acquiring"
    /\ pc' = [pc EXCEPT ![t] = "idle"]
    /\ UNCHANGED <<clock, memory, disk, locks, req, tok, refused, blind>>

(* Mutant: the release finds a zero counter on this thread (thread_local). *)
ReleasedNever(t) == fileLock

(* lock.release() in the finally: a task that no longer holds the lock     *)
(* file of this name frees nobody else's.                                  *)
Released(t) ==
    IF fileLock[req[t]] = t THEN [fileLock EXCEPT ![req[t]] = Nobody] ELSE fileLock

(* Mutant: the file is not read again once the lock is held. *)
OnDiskUnread(t) == NoToken

(* _read_disk, under the lock. *)
OnDisk(t) == disk[req[t]]

Resume(t) ==
    /\ pc[t] = "locked"
    /\ \/ /\ Fresh(OnDisk(t))
          /\ memory' = [memory EXCEPT ![ProcOf[t]][req[t]] = OnDisk(t)]
          /\ tok' = [tok EXCEPT ![t] = OnDisk(t)]
          /\ pc' = [pc EXCEPT ![t] = "calling"]
          /\ fileLock' = Released(t)
       \/ /\ ~Fresh(OnDisk(t))
          /\ pc' = [pc EXCEPT ![t] = "helper"]
          /\ UNCHANGED <<memory, tok, fileLock>>
    /\ UNCHANGED <<clock, disk, waiters, orphans, req, refused, blind>>

(* _read_disk takes a file it cannot read or parse for no file.            *)
ReadFails(t) ==
    /\ pc[t] = "locked"
    /\ Fresh(OnDisk(t))
    /\ pc' = [pc EXCEPT ![t] = "helper"]
    /\ blind' = blind \cup {t}
    /\ UNCHANGED <<clock, memory, disk, locks, req, tok, refused>>

(* The helper returns a token with an expiry; _write_disk stages it. *)
HelperMints(t) ==
    /\ pc[t] = "helper"
    /\ minted < MaxTokens
    /\ \E life \in Lifetimes : tok' = [tok EXCEPT ![t] = Minted(req[t], life)]
    /\ minted' = minted + 1
    /\ pc' = [pc EXCEPT ![t] = "staged"]
    /\ UNCHANGED <<now, memory, disk, locks, req, refused, blind>>

(* The helper returns a token without an expiry: memory only, briefly. *)
HelperMintsBare(t) ==
    /\ pc[t] = "helper"
    /\ minted < MaxTokens
    /\ minted' = minted + 1
    /\ tok' = [tok EXCEPT ![t] = Minted(req[t], BareLifetime)]
    /\ memory' = [memory EXCEPT ![ProcOf[t]][req[t]] = Minted(req[t], BareLifetime)]
    /\ pc' = [pc EXCEPT ![t] = "calling"]
    /\ fileLock' = Released(t)
    /\ blind' = blind \ {t}
    /\ UNCHANGED <<now, disk, waiters, orphans, req, refused>>

(* It is not on PATH, cannot start, exits non-zero, times out and is       *)
(* killed, or its output is an error or malformed.                         *)
HelperFails(t) ==
    /\ pc[t] = "helper"
    /\ pc' = [pc EXCEPT ![t] = "idle"]
    /\ fileLock' = Released(t)
    /\ blind' = blind \ {t}
    /\ UNCHANGED <<clock, memory, disk, waiters, orphans, req, tok, refused>>

(* os.replace installs the staged file; a failing write removes it.  The   *)
(* token is kept in memory and used either way.                            *)
Install(t) ==
    /\ pc[t] = "staged"
    /\ \/ disk' = [disk EXCEPT ![req[t]] = tok[t]]
       \/ UNCHANGED disk
    /\ memory' = [memory EXCEPT ![ProcOf[t]][req[t]] = tok[t]]
    /\ pc' = [pc EXCEPT ![t] = "calling"]
    /\ fileLock' = Released(t)
    /\ blind' = blind \ {t}
    /\ UNCHANGED <<clock, waiters, orphans, req, tok, refused>>

-----------------------------------------------------------------------------
(* ApiClient.call: the request that carries the token.                     *)

Leave(t) ==
    /\ pc' = [pc EXCEPT ![t] = "idle"]
    /\ tok' = [tok EXCEPT ![t] = NoToken]

(* Any answer but a 401, or no answer. *)
Respond(t) ==
    /\ pc[t] = "calling"
    /\ Leave(t)
    /\ UNCHANGED <<clock, memory, disk, locks, req, refused, blind>>

(* Mutant: retire() forgets the disk tier. *)
RetiredInMemoryOnly(k) == disk

(* A 401: retire() drops whatever is cached under the key now. *)
Retired(k) == [disk EXCEPT ![k] = NoToken]

Refuse(t) ==
    /\ pc[t] = "calling"
    /\ memory' = [memory EXCEPT ![ProcOf[t]][req[t]] = NoToken]
    /\ disk' = Retired(req[t])
    /\ refused' = [refused EXCEPT ![ProcOf[t]] = @ \cup {tok[t]}]
    /\ Leave(t)
    /\ UNCHANGED <<clock, locks, req, blind>>

-----------------------------------------------------------------------------
(* A cancelled tool call, and what it leaves behind.                       *)

CancelQueued(t) ==
    /\ pc[t] = "queued"
    /\ pc' = [pc EXCEPT ![t] = "idle"]
    /\ \E i \in DOMAIN waiters[ProcOf[t]][req[t]] :
          /\ waiters[ProcOf[t]][req[t]][i] = t
          /\ waiters' = [waiters EXCEPT ![ProcOf[t]][req[t]] = RemoveAt(@, i)]
    /\ UNCHANGED <<clock, memory, disk, fileLock, orphans, req, tok, refused, blind>>

(* The await ends, the thread does not: it goes on waiting for the lock.   *)
CancelAcquiring(t) ==
    /\ pc[t] = "acquiring"
    /\ pc' = [pc EXCEPT ![t] = "idle"]
    /\ orphans' = orphans \cup {<<ProcOf[t], req[t]>>}
    /\ UNCHANGED <<clock, memory, disk, fileLock, waiters, req, tok, refused, blind>>

(* The thread already has the lock; the exception is raised before the     *)
(* `try`, so only the collection of the FileLock object frees it.          *)
CancelLocked(t) ==
    /\ pc[t] = "locked"
    /\ pc' = [pc EXCEPT ![t] = "idle"]
    /\ fileLock' = [fileLock EXCEPT ![req[t]] = IF @ = t THEN ProcOf[t] ELSE @]
    /\ UNCHANGED <<clock, memory, disk, waiters, orphans, req, tok, refused, blind>>

(* run_helper handles a timeout and nothing else: the lock is released and *)
(* the helper, which nobody awaits now, is left running.                   *)
CancelHelper(t) ==
    /\ pc[t] = "helper"
    /\ pc' = [pc EXCEPT ![t] = "idle"]
    /\ fileLock' = Released(t)
    /\ blind' = blind \ {t}
    /\ UNCHANGED <<clock, memory, disk, waiters, orphans, req, tok, refused>>

Cancel(t) ==
    CancelQueued(t) \/ CancelAcquiring(t) \/ CancelLocked(t) \/ CancelHelper(t)

OrphanAcquires(p, k) ==
    /\ <<p, k>> \in orphans
    /\ fileLock[k] = Nobody
    /\ fileLock' = [fileLock EXCEPT ![k] = p]
    /\ orphans' = orphans \ {<<p, k>>}
    /\ UNCHANGED <<clock, memory, disk, waiters, pc, req, tok, refused, blind>>

OrphanGivesUp(p, k) ==
    /\ <<p, k>> \in orphans
    /\ orphans' = orphans \ {<<p, k>>}
    /\ UNCHANGED <<clock, memory, disk, fileLock, waiters, pc, req, tok, refused, blind>>

(* FileLock.__del__ *)
OrphanReleases(p, k) ==
    /\ fileLock[k] = p
    /\ fileLock' = [fileLock EXCEPT ![k] = Nobody]
    /\ UNCHANGED <<clock, memory, disk, waiters, orphans, pc, req, tok, refused, blind>>

-----------------------------------------------------------------------------
(* A server process dies and its client starts another: memory is empty,   *)
(* the OS has freed its locks, a staged .tmp file stays and is never read. *)
TasksOf(p) == {t \in Tasks : ProcOf[t] = p}

Crash(p) ==
    /\ memory' = [memory EXCEPT ![p] = [k \in Keys |-> NoToken]]
    /\ fileLock' = [k \in Keys |->
                      IF fileLock[k] \in {p} \cup TasksOf(p) THEN Nobody ELSE fileLock[k]]
    /\ waiters' = [waiters EXCEPT ![p] = [k \in Keys |-> <<>>]]
    /\ pc' = [t \in Tasks |-> IF ProcOf[t] = p THEN "idle" ELSE pc[t]]
    /\ tok' = [t \in Tasks |-> IF ProcOf[t] = p THEN NoToken ELSE tok[t]]
    /\ orphans' = {o \in orphans : o[1] # p}
    /\ blind' = blind \ TasksOf(p)
    /\ UNCHANGED <<clock, disk, req, refused>>

Tick ==
    /\ now < MaxTime
    /\ now' = now + 1
    /\ UNCHANGED <<minted, memory, disk, locks, pc, req, tok, refused, blind>>

Request(t) == \E k \in Keys : Hit(t, k) \/ Enter(t, k) \/ Enqueue(t, k)
HelperEnds(t) == HelperMints(t) \/ HelperMintsBare(t) \/ HelperFails(t)

(* Mutant: lock.acquire without a timeout. *)
AcquireWaits(t) == Acquire(t)

AcquireEnds(t) == Acquire(t) \/ AcquireFails(t)
ReadEnds(t) == Resume(t) \/ ReadFails(t)
CallEnds(t) == Respond(t) \/ Refuse(t)

Step(t) == \/ Request(t) \/ Wake(t) \/ AcquireEnds(t) \/ ReadEnds(t)
           \/ HelperEnds(t) \/ Install(t) \/ CallEnds(t) \/ Cancel(t)

Orphan(p, k) == OrphanAcquires(p, k) \/ OrphanGivesUp(p, k) \/ OrphanReleases(p, k)

Next ==
    \/ \E t \in Tasks : Step(t)
    \/ \E p \in Procs, k \in Keys : Orphan(p, k)
    \/ \E p \in Procs : Crash(p)
    \/ Tick

Spec == Init /\ [][Next]_vars

(***************************************************************************)
(* Fairness: the event loop runs a task that can run, lock.acquire gives   *)
(* up after DISK_LOCK_TIMEOUT, run_helper ends the helper it awaits after  *)
(* `timeout`, the HTTP client has a timeout, and a thread or a FileLock    *)
(* nobody refers to ends.  No call need be made, cancelled or refused.     *)
(***************************************************************************)
Progress(t) == \/ Wake(t) \/ AcquireEnds(t) \/ ReadEnds(t) \/ HelperEnds(t)
               \/ Install(t) \/ CallEnds(t)

Fairness ==
    /\ \A t \in Tasks : WF_vars(Progress(t))
    /\ \A p \in Procs, k \in Keys :
          /\ WF_vars(OrphanAcquires(p, k) \/ OrphanGivesUp(p, k))
          /\ WF_vars(OrphanReleases(p, k))

FairSpec == Spec /\ Fairness

-----------------------------------------------------------------------------
(* Every variable keeps its type, a task that installs or calls has a      *)
(* token, and only a task that mints does so blindly.                      *)
TypeOK ==
    /\ now \in Nat
    /\ minted \in Nat
    /\ memory \in [Procs -> [Keys -> Token \cup {NoToken}]]
    /\ disk \in [Keys -> Token \cup {NoToken}]
    /\ fileLock \in [Keys -> Tasks \cup Procs \cup {Nobody}]
    /\ waiters \in [Procs -> [Keys -> Seq(Tasks)]]
    /\ pc \in [Tasks -> Location]
    /\ req \in [Tasks -> Keys]
    /\ tok \in [Tasks -> Token \cup {NoToken}]
    /\ \A t \in Tasks : pc[t] \in {"staged", "calling"} => tok[t] \in Token
    /\ refused \in [Procs -> SUBSET Token]
    /\ orphans \subseteq Procs \X Keys
    /\ blind \subseteq {t \in Tasks : pc[t] \in Minting}

(* Across all processes, at most one task at a time is between taking and  *)
(* releasing the file lock of a key, whatever is cancelled or dies: two    *)
(* sessions never wait for the helper of one key side by side (_fetch).    *)
FetchMutex ==
    \A t, u \in Tasks :
        (t # u /\ pc[t] \in Fetching /\ pc[u] \in Fetching) => req[t] # req[u]

(* No helper runs, and none of its tokens waits to be installed, while the *)
(* cache directory has a fresh token for its key: the sessions that waited *)
(* for the one that minted reuse its token (the re-read in _fetch).  The   *)
(* one exception is a session whose own read of that file has failed.      *)
NoStampede ==
    \A t \in Tasks : pc[t] \in Minting /\ t \notin blind => ~Fresh(disk[req[t]])

(* A task holds the file lock of a key exactly while it is fetching that   *)
(* key: it never runs the helper without the lock, and no way out of       *)
(* _fetch keeps the lock, which would make every session wait for          *)
(* DISK_LOCK_TIMEOUT and fail.                                             *)
LockIffFetching ==
    \A k \in Keys, t \in Tasks :
        fileLock[k] = t <=> pc[t] \in Fetching /\ req[t] = k

(* A token some process has seen refused is never on disk, and never in    *)
(* the memory of that process, again: no slow fetch, late 401 or restart   *)
(* brings it back (retire).                                                *)
RetiredStaysRetired ==
    \A p \in Procs, k \in Keys :
        disk[k] \notin refused[p] /\ memory[p][k] \notin refused[p]

(* Why retired tokens stay retired.  A token is filed under the key it was *)
(* minted for, so a 401 drops it from where it was read; serials only      *)
(* grow, so a new token is no old one; and a staged token is nowhere else, *)
(* so nobody can have seen it refused before it is installed.              *)
TokensFiled ==
    /\ \A k \in Keys : disk[k] # NoToken => disk[k].key = k
    /\ \A p \in Procs, k \in Keys : memory[p][k] # NoToken => memory[p][k].key = k
    /\ \A t \in Tasks : pc[t] \in {"staged", "calling"} => tok[t].key = req[t]

Known(token) == token # NoToken => token.serial <= minted

TokensKnown ==
    /\ \A k \in Keys : Known(disk[k])
    /\ \A p \in Procs, k \in Keys : Known(memory[p][k])
    /\ \A t \in Tasks : Known(tok[t])
    /\ \A p \in Procs : \A token \in refused[p] : Known(token)

StagedIsPrivate ==
    \A t \in Tasks : pc[t] = "staged" =>
        /\ \A k \in Keys : disk[k] # tok[t]
        /\ \A p \in Procs : tok[t] \notin refused[p]
        /\ \A p \in Procs, k \in Keys : memory[p][k] # tok[t]
        /\ \A u \in Tasks \ {t} : tok[u] # tok[t]

TokenInv == TokensFiled /\ TokensKnown /\ StagedIsPrivate /\ RetiredStaysRetired

(* A call never starts with a token its own process has seen refused. *)
NoReplay ==
    [][\A t \in Tasks :
          (pc[t] # "calling" /\ pc'[t] = "calling") => tok'[t] \notin refused[ProcOf[t]]]_vars

(* Every task that waits or fetches gets a token or an error, or is        *)
(* cancelled, although others may hold the lock, be cancelled or die.      *)
RequestsSettle ==
    \A t \in Tasks :
        pc[t] \in {"queued"} \cup Inside ~> pc[t] \in {"idle", "calling"}

(* A file lock does not stay taken, abandoned acquisitions included. *)
LocksAreFreed == \A k \in Keys : fileLock[k] # Nobody ~> fileLock[k] = Nobody

(* What sessions see of one another through the cache directory is a store *)
(* of one token per key: the shared token is the installed file, a key is  *)
(* being minted while a task that holds its file lock has a helper running *)
(* or a file staged, and unread if that task could not read the file.      *)
Store == INSTANCE TokenStore WITH
    store   <- disk,
    minting <- {req[t] : t \in {u \in Tasks : pc[u] \in Minting}},
    unread  <- {req[t] : t \in blind},
    retired <- UNION {refused[p] : p \in Procs}

(* The sessions implement the token store: whatever the interleaving,      *)
(* cancellation or crash, their steps are its steps.                       *)
ImplementsStore == Store!Spec

-----------------------------------------------------------------------------
(* What the documents say and the code does not do.                        *)

(* docs/token-protocol.md 4.9: a 401 retires the token it refused.  It     *)
(* retires whatever is cached under its key by then.                       *)
RetireOnlyRefused ==
    [][\A k \in Keys :
          (disk[k] # NoToken /\ disk'[k] = NoToken) =>
              \E t \in Tasks : pc[t] = "calling" /\ tok[t] = disk[k]]_vars
=============================================================================
