---------------------------- MODULE RefreshUnlocked ----------------------------
(***************************************************************************)
(* The background refresh where the filesystem cannot lock spec-state.json *)
(* (_locked_state of refresh.py goes on without): what RefreshSweep has as *)
(* one step under the lock is here a read, a truncation and a write of the *)
(* file, with those of the other threads between them.                     *)
(*                                                                         *)
(* Rows lost and leases overlooked are what the docstring puts up with     *)
(* ("the sweep still runs -- the cost is a duplicated download"); what the *)
(* properties say is that nothing worse comes of it.                       *)
(***************************************************************************)
EXTENDS Integers

CONSTANTS
    Procs,          \* processes that sweep
    NumSpecs,       \* the cached specs are 1..NumSpecs, in sorted order
    Broken,         \* Broken[p]: specs whose canonical_env names no env in
                    \* the configuration that p read when it started
    LeaseTTL,       \* LEASE_TTL
    Interval,       \* spec_refresh.interval_seconds
    MaxTime,        \* bound on the clock
    MaxStops        \* bound on crashes, failing writes and cancelled sweeps

Specs == 1..NumSpecs
Never == -1
NoSpec == 0

(* What a file without a usable state reads back as.                       *)
Empty == [lease |-> 0, attempted |-> [s \in Specs |-> Never]]

ASSUME UnlockedAssumption == /\ NumSpecs \in Nat /\ LeaseTTL \in Nat /\ Interval \in Nat
                             /\ MaxTime \in Nat /\ MaxStops \in Nat

VARIABLES
    now,
    file,       \* the state in spec-state.json
    lastTried,  \* lastTried[s]: when s was last downloaded, by whomever
    pc,         \* where the sweep of a process is
    thread,     \* thread[p]: the thread it waits for, or the last one
    due,        \* due[p]: the specs it has still to sweep
    strays,     \* the threads whose sweeps were cancelled
    stops

vars == <<now, file, lastTried, pc, thread, due, strays, stops>>

(***************************************************************************)
(*   idle       between sweeps                                             *)
(*   waiting    awaiting a thread that runs _claim, _record or _release    *)
(*   fetching   in refresh_one                                             *)
(*                                                                         *)
(* A thread was given `at' as its `now', and has the state it is about to  *)
(* write in `own'.                                                         *)
(*                                                                         *)
(*   reading     the file is not read yet                                  *)
(*   truncating  the state to write is made from what was read             *)
(*   writing     the file is truncated and not written                     *)
(*   done        there is none, or it has ended                            *)
(***************************************************************************)
Thread(kind, at, spec, renew) ==
    [kind |-> kind, at |-> at, spec |-> spec, renew |-> renew,
     stage |-> "reading", own |-> Empty]

(* The thread has ended; its time is what is left of it.                   *)
Done(at) ==
    [kind |-> "none", at |-> at, spec |-> NoSpec, renew |-> FALSE,
     stage |-> "done", own |-> Empty]

NoThread == Done(0)

Await(p, t) ==
    /\ pc' = [pc EXCEPT ![p] = "waiting"]
    /\ thread' = [thread EXCEPT ![p] = t]

(* The sweep is over, and its locals are gone.                             *)
Quit(p) ==
    /\ pc' = [pc EXCEPT ![p] = "idle"]
    /\ thread' = [thread EXCEPT ![p] = NoThread]
    /\ due' = [due EXCEPT ![p] = {}]

Init ==
    /\ now = 0
    /\ file = Empty
    /\ lastTried = [s \in Specs |-> Never]
    /\ pc = [p \in Procs |-> "idle"]
    /\ thread = [p \in Procs |-> NoThread]
    /\ due = [p \in Procs |-> {}]
    /\ strays = {}
    /\ stops = 0

Start(p) ==
    /\ pc[p] = "idle"
    /\ Await(p, Thread("claim", now, NoSpec, FALSE))
    /\ UNCHANGED <<now, file, lastTried, due, strays, stops>>

-----------------------------------------------------------------------------
(* Mutant: any lease, expired ones included, is live.                      *)
LeaseForEver(at) == file.lease # 0

LeaseLive(at) == file.lease > at

DueAt(at) ==
    {s \in Specs : file.attempted[s] = Never \/ at - file.attempted[s] >= Interval}

ClaimsNothing(t) == t.kind = "claim" /\ (LeaseLive(t.at) \/ DueAt(t.at) = {})

(* Mutant: what is due is recorded as attempted when it is claimed.        *)
ClaimedAhead(at) ==
    [lease |-> at + LeaseTTL,
     attempted |-> [s \in Specs |-> IF s \in DueAt(at) THEN at ELSE file.attempted[s]]]

(* What _claim, _record and _release make of what they have read.          *)
Claimed(at) == [file EXCEPT !.lease = at + LeaseTTL]

Recorded(s, at, renew) == [lease |-> IF renew THEN at + LeaseTTL ELSE 0,
                           attempted |-> [file.attempted EXCEPT ![s] = at]]

Released == [file EXCEPT !.lease = 0]

Made(t) == CASE t.kind = "claim"   -> Claimed(t.at)
             [] t.kind = "record"  -> Recorded(t.spec, t.at, t.renew)
             [] t.kind = "release" -> Released

HasRead(t) == [t EXCEPT !.stage = "truncating", !.own = Made(t)]

Truncated(t) == [t EXCEPT !.stage = "writing"]

(* What another thread has written since the truncation may be longer: its *)
(* end is left behind the new state, and that reads back as empty.         *)
Writes(t) == file' \in {t.own} \cup (IF file # Empty THEN {Empty} ELSE {})

At(p, stage) == pc[p] = "waiting" /\ thread[p].stage = stage

Read(p) ==
    /\ At(p, "reading")
    /\ IF ClaimsNothing(thread[p])
       THEN Quit(p)
       ELSE /\ Await(p, HasRead(thread[p]))
            /\ due' = [due EXCEPT ![p] = IF thread[p].kind = "claim"
                                         THEN DueAt(thread[p].at) ELSE @]
    /\ UNCHANGED <<now, file, lastTried, strays, stops>>

Truncate(p) ==
    /\ At(p, "truncating")
    /\ file' = Empty
    /\ Await(p, Truncated(thread[p]))
    /\ UNCHANGED <<now, lastTried, due, strays, stops>>

(* The thread ends, and the sweep goes on to its next spec, if any.        *)
Write(p) ==
    /\ At(p, "writing")
    /\ Writes(thread[p])
    /\ LET left == due[p] \ {thread[p].spec}
       IN  IF left = {}
           THEN Quit(p)
           ELSE /\ pc' = [pc EXCEPT ![p] = "fetching"]
                /\ thread' = [thread EXCEPT ![p] = Done(@.at)]
                /\ due' = [due EXCEPT ![p] = left]
    /\ UNCHANGED <<now, lastTried, strays, stops>>

-----------------------------------------------------------------------------
(* The spec a sweep is at: the keys are sorted.                            *)
Current(p) == CHOOSE s \in due[p] : \A r \in due[p] : s <= r

(* refresh_one returns a row, of whatever status.                          *)
FetchEnds(p) ==
    /\ pc[p] = "fetching"
    /\ Current(p) \notin Broken[p]
    /\ lastTried' = [lastTried EXCEPT ![Current(p)] = now]
    /\ Await(p, Thread("record", now, Current(p), due[p] # {Current(p)}))
    /\ UNCHANGED <<now, file, due, strays, stops>>

(* The KeyError of spec_source_url leaves refresh_due: no row, and no      *)
(* release of the lease.                                                   *)
FetchRaises(p) ==
    /\ pc[p] = "fetching"
    /\ Current(p) \in Broken[p]
    /\ Quit(p)
    /\ UNCHANGED <<now, file, lastTried, strays, stops>>

(* A stop may leave a live lease behind, so it comes while the clock can   *)
(* still pass it.                                                          *)
Stopping == stops < MaxStops /\ now + LeaseTTL < MaxTime /\ stops' = stops + 1

(* The handler drops the lease.                                            *)
AwaitRelease(p) ==
    /\ Await(p, Thread("release", thread[p].at, NoSpec, FALSE))
    /\ due' = [due EXCEPT ![p] = {}]

CancelFetching(p) ==
    /\ pc[p] = "fetching"
    /\ Stopping
    /\ AwaitRelease(p)
    /\ UNCHANGED <<now, file, lastTried, strays>>

(* At a thread, which goes on: the claim is not inside the `try', and the  *)
(* handler's _release races the _record.                                   *)
CancelWaiting(p) ==
    /\ pc[p] = "waiting"
    /\ Stopping
    /\ strays' = strays \cup {thread[p]}
    /\ \/ thread[p].kind = "claim" /\ Quit(p)
       \/ thread[p].kind = "record" /\ AwaitRelease(p)
    /\ UNCHANGED <<now, file, lastTried>>

(* A thread that nobody waits for does what any does.                      *)
StrayRuns(t) ==
    /\ t \in strays
    /\ \/ /\ t.stage = "reading"
          /\ strays' = (strays \ {t}) \cup (IF ClaimsNothing(t) THEN {} ELSE {HasRead(t)})
          /\ UNCHANGED file
       \/ /\ t.stage = "truncating"
          /\ file' = Empty
          /\ strays' = (strays \ {t}) \cup {Truncated(t)}
       \/ /\ t.stage = "writing"
          /\ Writes(t)
          /\ strays' = strays \ {t}
    /\ UNCHANGED <<now, lastTried, pc, thread, due, stops>>

(* The process dies, and its client starts another; or a read or a write   *)
(* fails, and its loop sleeps.                                             *)
Crash(p) ==
    /\ pc[p] # "idle"
    /\ Stopping
    /\ Quit(p)
    /\ UNCHANGED <<now, file, lastTried, strays>>

(* No fetch and no thread takes longer than LeaseTTL from its time.        *)
Tick ==
    /\ now < MaxTime
    /\ \A p \in Procs : pc[p] # "idle" => now < thread[p].at + LeaseTTL
    /\ \A t \in strays : now < t.at + LeaseTTL
    /\ now' = now + 1
    /\ UNCHANGED <<file, lastTried, pc, thread, due, strays, stops>>

Work(p) == \/ Start(p) \/ Read(p) \/ Truncate(p) \/ Write(p)
           \/ FetchEnds(p) \/ FetchRaises(p)

Strays == \E t \in strays : StrayRuns(t)

Next == \/ \E p \in Procs : Work(p) \/ CancelFetching(p) \/ CancelWaiting(p) \/ Crash(p)
        \/ Strays
        \/ Tick

Spec == Init /\ [][Next]_vars

(* Every loop goes on, every thread ends, and time passes.                 *)
FairSpec == /\ Spec
            /\ \A p \in Procs : WF_vars(Work(p))
            /\ WF_vars(Strays)
            /\ WF_vars(Tick)

-----------------------------------------------------------------------------
(* A lost update loses attempts and never invents one: no row, in the file *)
(* or on its way there, is later than the last download of its spec, so no *)
(* process passes over a spec that is due; and no lease, however old the   *)
(* state it was written back from, keeps anyone waiting for longer than    *)
(* LEASE_TTL from now.                                                     *)
NothingInvented ==
    \A st \in {file} \cup {thread[p].own : p \in Procs} \cup {t.own : t \in strays} :
        /\ \A s \in Specs : st.attempted[s] <= lastTried[s]
        /\ st.lease <= now + LeaseTTL

(* The specs no sweep can end before: no broken one is sorted before them. *)
Reachable == {s \in Specs : \A r \in 1..s, p \in Procs : r \notin Broken[p]}

(* refresh.py:106: "the sweep still runs".  Every cached spec with no      *)
(* broken one before it, that has not been downloaded within the interval, *)
(* is in the end, whoever overwrites whose state, whoever dies or is       *)
(* cancelled on the way, and however late an abandoned thread writes.      *)
Overdue(s) == lastTried[s] = Never \/ lastTried[s] + Interval <= now

DueIsTried == \A s \in Reachable : Overdue(s) ~> ~Overdue(s)
=============================================================================
