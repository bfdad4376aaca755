----------------------------- MODULE RefreshSweep -----------------------------
(***************************************************************************)
(* The background refresh of src/src/mcp_openapix/refresh.py: every server *)
(* process sweeps the cached specs now and then, and spec-state.json, the  *)
(* lease and the record of attempts, decides who sweeps and what.          *)
(*                                                                         *)
(* _claim, _record and _release run on worker threads, each atomically     *)
(* under the lock of the state file; a fetch happens outside it.  A        *)
(* cancelled await ends, the thread it waited for does not.                *)
(***************************************************************************)
EXTENDS Integers, FiniteSets

CONSTANTS
    Procs,          \* processes that sweep
    Forced,         \* those started with --refresh: force=True
    NumSpecs,       \* the cached specs are 1..NumSpecs, in sorted order
    Broken,         \* Broken[p]: specs whose canonical_env names no env in
                    \* the configuration that p read when it started
    LeaseTTL,       \* LEASE_TTL
    Interval,       \* spec_refresh.interval_seconds
    MaxHold,        \* bound on the age of a lease when its holder renews it
    MaxTime,        \* bound on the clock
    MaxCrashes,     \* bound on crashes and failing writes
    MaxCancels      \* bound on cancelled sweeps

Specs == 1..NumSpecs
Never == -1         \* the spec has no row in the state file

VARIABLES
    now,
    leaseExpires,   \* state["lease_expires"]
    attempted,      \* attempted[s]: state["specs"][s]["attempted"]
    pc,             \* where the sweep of a process is
    stamp,          \* stamp[p]: the `now` its pending _claim or _record was given
    leased,         \* leased[p]: the `now` its lease was last written with
    due,            \* due[p]: the specs it has still to sweep
    lostClaims,     \* <<process, now>> of the _claim threads of cancelled sweeps
    lostRecords,    \* <<spec, now, renew>> of the _record threads likewise
    crashes, cancels

vars == <<now, leaseExpires, attempted, pc, stamp, leased, due, lostClaims,
          lostRecords, crashes, cancels>>

state    == <<leaseExpires, attempted>>
sweep    == <<stamp, leased, due>>
lost     == <<lostClaims, lostRecords>>
mishaps  == <<crashes, cancels>>

(***************************************************************************)
(* What "it must outlast one document's fetch" asks of LEASE_TTL: a fetch  *)
(* ends within FETCH_DEADLINE, and with the file operations around it      *)
(* within MaxHold.                                                         *)
(***************************************************************************)
ASSUME LeaseAssumption == MaxHold \in Nat /\ LeaseTTL \in Nat /\ MaxHold < LeaseTTL
ASSUME BoundsAssumption == /\ NumSpecs \in Nat /\ Interval \in Nat
                           /\ MaxTime \in Nat /\ MaxCrashes \in Nat /\ MaxCancels \in Nat
                           /\ Forced \subseteq Procs

(***************************************************************************)
(*   idle       between sweeps                                             *)
(*   claiming   awaiting _claim                                            *)
(*   fetching   in refresh_one                                             *)
(*   recording  awaiting _record                                           *)
(*   releasing  cancelled, awaiting _release                               *)
(*   stopped    the process has gone                                       *)
(***************************************************************************)
Sweeping == {"fetching", "recording", "releasing"}
Places   == Sweeping \cup {"idle", "claiming", "stopped"}

Init ==
    /\ now = 0
    /\ leaseExpires = 0
    /\ attempted = [s \in Specs |-> Never]
    /\ pc = [p \in Procs |-> "idle"]
    /\ stamp = [p \in Procs |-> 0]
    /\ leased = [p \in Procs |-> 0]
    /\ due = [p \in Procs |-> {}]
    /\ lostClaims = {}
    /\ lostRecords = {}
    /\ crashes = 0
    /\ cancels = 0

Goto(p, place) == pc' = [pc EXCEPT ![p] = place]

(* The sweep is over, and its locals are gone. *)
Quit(p, place) ==
    /\ Goto(p, place)
    /\ stamp' = [stamp EXCEPT ![p] = 0]
    /\ leased' = [leased EXCEPT ![p] = 0]
    /\ due' = [due EXCEPT ![p] = {}]

(* The spec a sweep is at: the keys are sorted. *)
Current(p) == CHOOSE s \in due[p] : \A r \in due[p] : s <= r

-----------------------------------------------------------------------------
(* refresh_due takes the time before it waits for the lock. *)
Start(p) ==
    /\ pc[p] = "idle"
    /\ stamp' = [stamp EXCEPT ![p] = now]
    /\ Goto(p, "claiming")
    /\ UNCHANGED <<now, state, leased, due, lost, mishaps>>

(* Mutants: the claim does not look at the lease, or takes any lease,      *)
(* expired ones included, for a live one.                                  *)
LeaseIgnored(at) == FALSE
LeaseForEver(at) == leaseExpires # 0

LeaseLive(at) == leaseExpires > at

(* Mutant: the claim does not look at the attempts. *)
DueWhenever(p, at) == Specs

DueAt(p, at) ==
    {s \in Specs : p \in Forced \/ attempted[s] = Never \/ at - attempted[s] >= Interval}

Claim(p) ==
    /\ pc[p] = "claiming"
    /\ \/ /\ LeaseLive(stamp[p]) \/ DueAt(p, stamp[p]) = {}
          /\ Quit(p, "idle")
          /\ UNCHANGED leaseExpires
       \/ /\ ~LeaseLive(stamp[p])
          /\ DueAt(p, stamp[p]) # {}
          /\ leaseExpires' = stamp[p] + LeaseTTL
          /\ leased' = [leased EXCEPT ![p] = stamp[p]]
          /\ due' = [due EXCEPT ![p] = DueAt(p, stamp[p])]
          /\ Goto(p, "fetching")
          /\ UNCHANGED stamp
    /\ UNCHANGED <<now, attempted, lost, mishaps>>

(* refresh_one returns a row, of whatever status. *)
FetchEnds(p) ==
    /\ pc[p] = "fetching"
    /\ Current(p) \notin Broken[p]
    /\ stamp' = [stamp EXCEPT ![p] = now]
    /\ Goto(p, "recording")
    /\ UNCHANGED <<now, state, leased, due, lost, mishaps>>

(* spec_source_url indexes envs with the canonical_env: the KeyError is    *)
(* none of those refresh_one turns into a row, and leaves refresh_due, to  *)
(* be logged by the loop.  Only a cancellation drops the lease.            *)
FetchRaises(p) ==
    /\ pc[p] = "fetching"
    /\ Current(p) \in Broken[p]
    /\ Quit(p, "idle")
    /\ UNCHANGED <<now, state, lost, mishaps>>

(* renew: specs are left after this one. *)
Renews(p) == due[p] # {Current(p)}

(* Mutants: _record drops the lease after every spec, never renews it, or  *)
(* drops it by writing no time at all.                                     *)
LeaseDropped(at, renew) == 0
LeaseNotRenewed(at, renew) == IF renew THEN leaseExpires ELSE 0

(* What _record leaves as lease: renewed, or dropped. *)
LeaseAfter(at, renew) == IF renew THEN at + LeaseTTL ELSE 0

Record(p) ==
    /\ pc[p] = "recording"
    /\ attempted' = [attempted EXCEPT ![Current(p)] = stamp[p]]
    /\ leaseExpires' = LeaseAfter(stamp[p], Renews(p))
    /\ \/ /\ Renews(p)
          /\ leased' = [leased EXCEPT ![p] = stamp[p]]
          /\ due' = [due EXCEPT ![p] = @ \ {Current(p)}]
          /\ Goto(p, "fetching")
          /\ UNCHANGED stamp
       \/ /\ ~Renews(p)
          /\ Quit(p, "idle")
    /\ UNCHANGED <<now, lost, mishaps>>

-----------------------------------------------------------------------------
(* The lifespan ends and cancels the loop, or --refresh is interrupted.    *)
Cancelling == cancels < MaxCancels /\ cancels' = cancels + 1

(* At the fetch: the handler drops the lease. *)
CancelFetching(p) ==
    /\ pc[p] = "fetching"
    /\ Cancelling
    /\ Goto(p, "releasing")
    /\ UNCHANGED <<now, state, sweep, lost, crashes>>

Release(p) ==
    /\ pc[p] = "releasing"
    /\ leaseExpires' = 0
    /\ Quit(p, "stopped")
    /\ UNCHANGED <<now, attempted, lost, mishaps>>

(* At the claim, which is not inside the `try`. *)
CancelClaiming(p) ==
    /\ pc[p] = "claiming"
    /\ Cancelling
    /\ now + LeaseTTL < MaxTime
    /\ lostClaims' = lostClaims \cup {<<p, stamp[p]>>}
    /\ Quit(p, "stopped")
    /\ UNCHANGED <<now, state, lostRecords, crashes>>

LostClaimRuns(p, at) ==
    /\ <<p, at>> \in lostClaims
    /\ lostClaims' = lostClaims \ {<<p, at>>}
    /\ leaseExpires' = IF LeaseLive(at) \/ DueAt(p, at) = {} THEN leaseExpires
                                                            ELSE at + LeaseTTL
    /\ UNCHANGED <<now, attempted, pc, sweep, lostRecords, mishaps>>

(* At the record: the handler's _release and the _record thread race.      *)
CancelRecording(p) ==
    /\ pc[p] = "recording"
    /\ Cancelling
    /\ lostRecords' = lostRecords \cup {<<Current(p), stamp[p], Renews(p)>>}
    /\ Goto(p, "releasing")
    /\ UNCHANGED <<now, state, sweep, lostClaims, crashes>>

LostRecordRuns(s, at, renew) ==
    /\ <<s, at, renew>> \in lostRecords
    /\ lostRecords' = lostRecords \ {<<s, at, renew>>}
    /\ attempted' = [attempted EXCEPT ![s] = at]
    /\ leaseExpires' = LeaseAfter(at, renew)
    /\ UNCHANGED <<now, pc, sweep, lostClaims, mishaps>>

-----------------------------------------------------------------------------
(* Crashes, failing writes and new sessions.  A crash leaves the lease     *)
(* live, so it comes while the clock can still pass the lease.             *)
Crashing == crashes < MaxCrashes /\ now + LeaseTTL < MaxTime /\ crashes' = crashes + 1

Crash(p) ==
    /\ pc[p] # "stopped"
    /\ Crashing
    /\ Quit(p, "stopped")
    /\ UNCHANGED <<now, state, lost, cancels>>

Writing(p) == \/ pc[p] \in {"recording", "releasing"}
              \/ pc[p] = "claiming" /\ ~LeaseLive(stamp[p])
                                    /\ DueAt(p, stamp[p]) # {}

(* Between ftruncate and write: the file reads back as empty. *)
CrashWriting(p) ==
    /\ Writing(p)
    /\ Crashing
    /\ leaseExpires' = 0
    /\ attempted' = [s \in Specs |-> Never]
    /\ Quit(p, "stopped")
    /\ UNCHANGED <<now, lost, cancels>>

(* _claim or _record raises OSError before it has written; the loop logs   *)
(* it and sleeps.                                                          *)
WriteFails(p) ==
    /\ pc[p] \in {"claiming", "recording"}
    /\ Crashing
    /\ Quit(p, "idle")
    /\ UNCHANGED <<now, state, lost, cancels>>

Restart(p) ==
    /\ pc[p] = "stopped"
    /\ Goto(p, "idle")
    /\ UNCHANGED <<now, state, sweep, lost, mishaps>>

(* Time passes, but a claim, a fetch and what follows it are over MaxHold  *)
(* after the time they were given (FETCH_DEADLINE).                        *)
WithinHold(p) ==
    /\ pc[p] = "claiming" => now < stamp[p] + MaxHold
    /\ pc[p] \in Sweeping => now < leased[p] + MaxHold

Tick ==
    /\ now < MaxTime
    /\ \A p \in Procs : WithinHold(p)
    /\ now' = now + 1
    /\ UNCHANGED <<state, pc, sweep, lost, mishaps>>

Work(p) == \/ Start(p) \/ Claim(p) \/ FetchEnds(p) \/ FetchRaises(p)
           \/ Record(p) \/ Release(p) \/ Restart(p)

Fault(p) == \/ CancelFetching(p) \/ CancelClaiming(p)
            \/ Crash(p) \/ CrashWriting(p) \/ WriteFails(p)

LostClaims == \E c \in lostClaims : LostClaimRuns(c[1], c[2])
LostRecords == \E r \in lostRecords : LostRecordRuns(r[1], r[2], r[3])

Next == \/ \E p \in Procs : Work(p) \/ Fault(p)
        \/ LostClaims
        \/ Tick

Spec == Init /\ [][Next]_vars

(* With cancellations that catch a sweep while it records. *)
RecordCancelNext == Next \/ LostRecords \/ \E p \in Procs : CancelRecording(p)

RecordCancelSpec == Init /\ [][RecordCancelNext]_vars

(* Every loop goes on, every thread ends, time passes, and a client that   *)
(* lost its server starts another.                                         *)
FairSpec == /\ Spec
            /\ \A p \in Procs : WF_vars(Work(p))
            /\ WF_vars(LostClaims)
            /\ WF_vars(Tick)

-----------------------------------------------------------------------------
(* Every variable keeps its type, and a process sweeps only what is due.   *)
TypeOK ==
    /\ now \in Nat
    /\ leaseExpires \in Nat
    /\ attempted \in [Specs -> Nat \cup {Never}]
    /\ pc \in [Procs -> Places]
    /\ stamp \in [Procs -> Nat]
    /\ leased \in [Procs -> Nat]
    /\ due \in [Procs -> SUBSET Specs]
    /\ \A p \in Procs : due[p] = {} <=> pc[p] \notin Sweeping
    /\ lostClaims \subseteq Procs \X Nat
    /\ lostRecords \subseteq Specs \X Nat \X BOOLEAN
    /\ crashes \in Nat /\ cancels \in Nat

(* "The lease is what keeps one sweeper at a time across processes": with  *)
(* crashes, truncated state files, failing writes, late threads of         *)
(* cancelled claims and a claim time taken before the lock was waited for. *)
OneSweeper ==
    \A p, q \in Procs : (pc[p] \in Sweeping /\ pc[q] \in Sweeping) => p = q

(* "A long sweep never expires its own lease": the lease outlasts every    *)
(* moment of the sweep it was taken for, however many specs are due.       *)
LeaseCoversSweep ==
    \A p \in Procs : pc[p] \in Sweeping =>
        leaseExpires = leased[p] + LeaseTTL /\ now <= leased[p] + MaxHold

(* No document is downloaded again within the interval of its last         *)
(* recorded attempt, by whichever process, unless --refresh asked for it:  *)
(* what was due when the lease was taken stays due until it is swept.      *)
NoEarlyRefetch ==
    \A p \in Procs \ Forced : \A s \in due[p] :
        attempted[s] = Never \/ attempted[s] + Interval <= now

Promise == INSTANCE SweepRecord WITH
    sweepers <- {p \in Procs : pc[p] \in Sweeping},
    last     <- attempted

(* The processes keep the record a single sweeper would: whatever crashes, *)
(* fails or is cancelled, and however late a thread runs, an attempt is    *)
(* recorded by the one that sweeps, after the last and, if nobody forced   *)
(* it, the interval after, for as long as the state file lasts.            *)
ImplementsRecord == Promise!Spec

(* The specs no sweep can end before: every process can form their URL and *)
(* that of each spec sorted before them.                                   *)
Reachable == {s \in Specs : \A r \in 1..s, p \in Procs : r \notin Broken[p]}

(* Every cached spec with no broken one before it is attempted in the end, *)
(* although sweepers die holding the lease, lose the state file, or end at *)
(* a broken spec behind it.                                                *)
SweepsReachEverySpec ==
    \A s \in Reachable : attempted[s] = Never ~> attempted[s] # Never

-----------------------------------------------------------------------------
(* refresh.py:268: a cancelled sweep drops the lease "rather than make the *)
(* next process wait out its TTL".  Where nothing crashed, nobody sweeps   *)
(* and no thread is pending, no lease should be live.                      *)
LeaseDroppedOnCancel ==
    ( /\ crashes = 0 /\ lostClaims = {} /\ lostRecords = {}
      /\ \A p \in Procs : pc[p] \in {"idle", "stopped"} ) => ~LeaseLive(now)

(* refresh.py:235, refresh_due sweeps "the cached specs whose last attempt *)
(* is older than interval": one that every process can form the URL of     *)
(* waits for ever behind one that ends each sweep.                         *)
SweepsPassBrokenSpecs ==
    \A s \in Specs \ UNION {Broken[p] : p \in Procs} : attempted[s] = Never ~> attempted[s] # Never

(* refresh.py:245: "An attempt is recorded whether it succeeded or         *)
(* failed".  A sweep that goes on living and leaves a spec has recorded    *)
(* it; one whose spec names a canonical_env without an env has not.        *)
AttemptsAreRecorded ==
    [][\A p \in Procs :
          (pc[p] = "fetching" /\ pc'[p] # "fetching") =>
              pc'[p] \in {"recording", "releasing", "stopped"}]_vars
=============================================================================
