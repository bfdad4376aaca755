------------------------- MODULE RefreshUnlockedProofs -------------------------
(***************************************************************************)
(* For any number of processes and specs, any lease and interval, and any  *)
(* stops: without a lock the state file may lose attempts, and holds none  *)
(* that was not made.                                                      *)
(***************************************************************************)
EXTENDS RefreshUnlocked, WellFoundedInduction, TLAPS

Kinds  == {"claim", "record", "release"}
Stages == {"reading", "truncating", "writing", "done"}
States == [lease : Int, attempted : [Specs -> Nat \cup {Never}]]

Threads == [kind : Kinds \cup {"none"}, at : Nat, spec : Specs \cup {NoSpec}, renew : BOOLEAN,
            stage : Stages, own : States]

(* NothingInvented, one state at a time.                                   *)
Sound(st, tried, time) ==
    /\ \A s \in Specs : st.attempted[s] <= tried[s]
    /\ st.lease <= time + LeaseTTL

(* No thread carries a time to come, the row it records is of a download   *)
(* that was made, and the state it is about to write is sound.             *)
Fine(t, tried, time) ==
    /\ t \in Threads
    /\ t.stage = "reading" => t.kind \in Kinds
    /\ t.kind = "record" => t.spec \in Specs /\ t.at <= tried[t.spec]
    /\ t.at <= time
    /\ Sound(t.own, tried, time)

Inv ==
    /\ now \in Nat
    /\ file \in States /\ Sound(file, lastTried, now)
    /\ lastTried \in [Specs -> Int]
    /\ \A s \in Specs : Never <= lastTried[s] /\ lastTried[s] <= now
    /\ pc \in [Procs -> {"idle", "waiting", "fetching"}]
    /\ due \in [Procs -> SUBSET Specs]
    /\ \A p \in Procs : pc[p] = "fetching" => due[p] # {}
    /\ DOMAIN thread = Procs
    /\ \A p \in Procs : Fine(thread[p], lastTried, now)
    /\ \A t \in strays : Fine(t, lastTried, now)

-----------------------------------------------------------------------------
(* An empty state is sound at any time.                                    *)
LEMMA EmptySound ==
    ASSUME Inv PROVE Empty \in States /\ Sound(Empty, lastTried, now)
BY UnlockedAssumption DEF Inv, Empty, Never, States, Sound

(* A thread that starts is fine, if what it is to record was downloaded,   *)
LEMMA ThreadFine ==
    ASSUME Inv, NEW kind \in Kinds, NEW at \in Nat, NEW spec \in Specs \cup {NoSpec},
           NEW renew \in BOOLEAN, at <= now,
           kind = "record" => spec \in Specs /\ at <= lastTried[spec]
    PROVE  Fine(Thread(kind, at, spec, renew), lastTried, now)
<1>1. Thread(kind, at, spec, renew) \in Threads
  BY EmptySound DEF Thread, Threads, Kinds, Stages
<1> QED
  BY <1>1, EmptySound DEF Fine, Thread

(* and one that has ended is. *)
LEMMA DoneFine ==
    ASSUME Inv, NEW at \in Nat, at <= now
    PROVE  Fine(Done(at), lastTried, now)
<1>1. Done(at) = [kind |-> "none", at |-> at, spec |-> NoSpec, renew |-> FALSE,
                  stage |-> "done", own |-> Empty]
  BY DEF Done
<1> QED
  BY <1>1, EmptySound DEF Fine, Threads, Kinds, Stages

(* What a thread makes of a sound state is sound.                          *)
LEMMA MadeSound ==
    ASSUME Inv, NEW t, Fine(t, lastTried, now), t.stage = "reading"
    PROVE  Made(t) \in States /\ Sound(Made(t), lastTried, now)
<1> USE UnlockedAssumption
<1>1. /\ now \in Nat /\ t.at \in Nat /\ t.at <= now
      /\ file.lease \in Int /\ file.attempted \in [Specs -> Nat \cup {Never}]
      /\ file = [lease |-> file.lease, attempted |-> file.attempted]
  BY DEF Inv, Fine, Threads, States
<1>2. \A s \in Specs : file.attempted[s] <= lastTried[s]
  BY DEF Inv, Sound
<1>3. CASE t.kind = "claim"
  <2>1. Made(t) = [lease |-> t.at + LeaseTTL, attempted |-> file.attempted]
    BY <1>1, <1>3 DEF Made, Claimed
  <2> QED
    BY <1>1, <1>2, <2>1 DEF States, Sound
<1>4. CASE t.kind = "record"
  <2> DEFINE rows == [file.attempted EXCEPT ![t.spec] = t.at]
             lease == IF t.renew THEN t.at + LeaseTTL ELSE 0
  <2>1. Made(t) = [lease |-> lease, attempted |-> rows]
    BY <1>4 DEF Made, Recorded
  <2>2. rows \in [Specs -> Nat \cup {Never}] /\ \A s \in Specs : rows[s] <= lastTried[s]
    BY <1>1, <1>2, <1>4 DEF Fine
  <2>3. lease \in Int /\ lease <= now + LeaseTTL
    BY <1>1
  <2> HIDE DEF rows, lease
  <2> QED
    BY <2>1, <2>2, <2>3 DEF States, Sound
<1>5. CASE t.kind = "release"
  <2>1. Made(t) = [lease |-> 0, attempted |-> file.attempted]
    BY <1>1, <1>5 DEF Made, Released
  <2> QED
    BY <1>1, <1>2, <2>1 DEF States, Sound
<1> QED
  BY <1>3, <1>4, <1>5 DEF Fine, Kinds

(* A thread stays fine as it reads the file and truncates it.              *)
LEMMA HasReadFine ==
    ASSUME Inv, NEW t, Fine(t, lastTried, now), t.stage = "reading"
    PROVE  Fine(HasRead(t), lastTried, now)
<1>1. t \in Threads
  BY DEF Fine
<1>2. HasRead(t) = [kind |-> t.kind, at |-> t.at, spec |-> t.spec, renew |-> t.renew,
                    stage |-> "truncating", own |-> Made(t)]
  <2>1. t = [kind |-> t.kind, at |-> t.at, spec |-> t.spec, renew |-> t.renew,
             stage |-> t.stage, own |-> t.own]
    BY <1>1 DEF Threads
  <2> DEFINE made == Made(t)
  <2>2. HasRead(t) = [t EXCEPT !.stage = "truncating", !.own = made]
    BY DEF HasRead
  <2> HIDE DEF made
  <2>3. HasRead(t) = [kind |-> t.kind, at |-> t.at, spec |-> t.spec, renew |-> t.renew,
                      stage |-> "truncating", own |-> made]
    BY <2>1, <2>2
  <2> QED
    BY <2>3 DEF made
<1> HIDE DEF HasRead
<1> QED
  BY <1>1, <1>2, MadeSound DEF Fine, Threads, Stages

LEMMA TruncatedFine ==
    ASSUME NEW t, Fine(t, lastTried, now)
    PROVE  Fine(Truncated(t), lastTried, now)
<1>1. t \in Threads
  BY DEF Fine
<1>2. Truncated(t) = [kind |-> t.kind, at |-> t.at, spec |-> t.spec, renew |-> t.renew,
                      stage |-> "writing", own |-> t.own]
  BY <1>1 DEF Truncated, Threads
<1> QED
  BY <1>1, <1>2 DEF Fine, Threads, Stages

(* A set of numbers that is not empty has a least one.                     *)
LEMMA LeastOfSome ==
    ASSUME NEW T, T \subseteq Nat, T # {}
    PROVE  \E x \in T : \A y \in T : x <= y
<1> DEFINE Less == OpToRel(<, Nat)
<1>1. PICK x \in T : \A y \in T : <<y, x>> \notin Less
  BY NatLessThanWellFounded, WFMin
<1>2. \A y \in T : ~(y < x)
  BY <1>1 DEF OpToRel
<1> QED
  BY <1>2

(* The spec a sweep is at is one of those it has still to do.              *)
LEMMA CurrentIsDue ==
    ASSUME Inv, NEW p \in Procs, pc[p] = "fetching"
    PROVE  Current(p) \in due[p] /\ Current(p) \in Specs
<1>1. due[p] \subseteq Nat /\ due[p] # {} /\ due[p] \subseteq Specs
  BY DEF Inv, Specs
<1>2. \E s \in due[p] : \A r \in due[p] : s <= r
  BY <1>1, LeastOfSome
<1> QED
  BY <1>1, <1>2 DEF Current

-----------------------------------------------------------------------------
(* To begin with nothing is written, and nothing attempted.                *)
LEMMA InvInit == Init => Inv
<1> SUFFICES ASSUME Init PROVE Inv
  OBVIOUS
<1>1. Empty \in States /\ Sound(Empty, lastTried, now)
  BY UnlockedAssumption DEF Init, Empty, Never, States, Sound
<1>2. NoThread = [kind |-> "none", at |-> 0, spec |-> NoSpec, renew |-> FALSE,
                  stage |-> "done", own |-> Empty]
  BY DEF NoThread, Done
<1>3. Fine(NoThread, lastTried, now)
  BY <1>1, <1>2 DEF Init, Fine, Threads, Kinds, Stages
<1> QED
  BY <1>1, <1>3 DEF Init, Inv, Never

(* The clock and the downloads only go forward,                            *)
LEMMA Grows ==
    ASSUME Inv, [Next]_vars
    PROVE  /\ now' \in Nat /\ now <= now'
           /\ lastTried' \in [Specs -> Int]
           /\ \A s \in Specs : lastTried[s] <= lastTried'[s] /\ lastTried'[s] <= now'
<1>1. CASE UNCHANGED <<now, lastTried>>
  BY <1>1 DEF Inv
<1>2. CASE Tick
  BY <1>2 DEF Tick, Inv, Never
<1>3. ASSUME NEW p \in Procs, FetchEnds(p)
      PROVE  lastTried' = [lastTried EXCEPT ![Current(p)] = now] /\ now' = now
  BY <1>3 DEF FetchEnds
<1>4. \/ UNCHANGED <<now, lastTried>> \/ Tick \/ \E p \in Procs : FetchEnds(p)
  BY DEF Next, Work, Start, Read, Truncate, Write, FetchRaises, CancelFetching, CancelWaiting,
     Crash, Strays, StrayRuns, vars
<1> QED
  BY <1>1, <1>2, <1>3, <1>4 DEF Inv

(* so what is fine or sound stays so.                                      *)
LEMMA StaysSound ==
    ASSUME Inv, [Next]_vars, NEW st \in States, Sound(st, lastTried, now)
    PROVE  Sound(st, lastTried', now')
<1>1. st.lease \in Int /\ \A s \in Specs : st.attempted[s] \in Int
  BY DEF States, Never
<1> QED
  BY <1>1, Grows, UnlockedAssumption DEF Sound, Inv

LEMMA StaysFine ==
    ASSUME Inv, [Next]_vars, NEW t, Fine(t, lastTried, now)
    PROVE  Fine(t, lastTried', now')
<1>1. t \in Threads /\ t.own \in States /\ t.at \in Nat
  BY DEF Fine, Threads
<1>2. Sound(t.own, lastTried', now')
  BY <1>1, StaysSound DEF Fine
<1>3. t.at <= now'
  BY <1>1, Grows DEF Fine, Inv
<1>4. t.kind = "record" => t.spec \in Specs /\ t.at <= lastTried'[t.spec]
  BY <1>1, Grows DEF Fine, Inv
<1> QED
  BY <1>1, <1>2, <1>3, <1>4 DEF Fine

-----------------------------------------------------------------------------
(* The file is left alone, emptied, or overwritten with a thread's own.    *)
LEMMA FileStep ==
    Inv /\ [Next]_vars => file' \in States /\ Sound(file', lastTried', now')
<1> SUFFICES ASSUME Inv, [Next]_vars
             PROVE  file' \in States /\ Sound(file', lastTried', now')
  OBVIOUS
<1>1. \A t : Fine(t, lastTried, now) => t.own \in States /\ Sound(t.own, lastTried, now)
  BY DEF Fine, Threads
<1>2. \/ file' \in {file, Empty}
      \/ \E p \in Procs : file' = thread[p].own
      \/ \E t \in strays : file' = t.own
  BY DEF Next, Work, Start, Read, Truncate, Write, Writes, FetchEnds, FetchRaises,
     CancelFetching, CancelWaiting, Crash, Strays, StrayRuns, Tick, vars
<1>3. file' \in States /\ Sound(file', lastTried, now)
  BY <1>1, <1>2, EmptySound DEF Inv
<1> QED
  BY <1>3, StaysSound

(* Where a sweep is, and what it has still to do, keep their types.        *)
LEMMA SweepStep ==
    ASSUME Inv, [Next]_vars
    PROVE  /\ pc' \in [Procs -> {"idle", "waiting", "fetching"}]
           /\ due' \in [Procs -> SUBSET Specs]
           /\ \A p \in Procs : pc'[p] = "fetching" => due'[p] # {}
           /\ DOMAIN thread' = Procs
<1> USE DEF Inv, Await, Quit
<1>1. ASSUME NEW p \in Procs, Start(p) \/ Truncate(p) \/ FetchEnds(p)
      PROVE  /\ pc' = [pc EXCEPT ![p] = "waiting"] /\ due' = due /\ DOMAIN thread' = DOMAIN thread
  BY <1>1 DEF Start, Truncate, FetchEnds
<1>2. ASSUME NEW p \in Procs, Read(p)
      PROVE  /\ \/ Quit(p)
                \/ /\ pc' = [pc EXCEPT ![p] = "waiting"]
                   /\ \E d \in SUBSET Specs : due' = [due EXCEPT ![p] = d]
             /\ DOMAIN thread' = DOMAIN thread
  BY <1>2 DEF Read, DueAt
<1>3. ASSUME NEW p \in Procs, Write(p)
      PROVE  /\ \/ Quit(p)
                \/ /\ pc' = [pc EXCEPT ![p] = "fetching"]
                   /\ \E d \in SUBSET Specs : d # {} /\ due' = [due EXCEPT ![p] = d]
             /\ DOMAIN thread' = DOMAIN thread
  BY <1>3 DEF Write
<1>4. ASSUME NEW p \in Procs,
             FetchRaises(p) \/ CancelFetching(p) \/ CancelWaiting(p) \/ Crash(p)
      PROVE  /\ \/ Quit(p)
                \/ pc' = [pc EXCEPT ![p] = "waiting"] /\ due' = [due EXCEPT ![p] = {}]
             /\ DOMAIN thread' = DOMAIN thread
  BY <1>4 DEF FetchRaises, CancelFetching, CancelWaiting, Crash, AwaitRelease
<1>5. ASSUME Strays \/ Tick \/ UNCHANGED vars PROVE UNCHANGED <<pc, due, thread>>
  BY <1>5 DEF Strays, StrayRuns, Tick, vars
<1> QED
  BY <1>1, <1>2, <1>3, <1>4, <1>5 DEF Next, Work

(* A thread starts with its time, and goes on as threads do.               *)
LEMMA ThreadsStep ==
    Inv /\ [Next]_vars => /\ \A p \in Procs : Fine(thread'[p], lastTried', now')
                         /\ \A t \in strays' : Fine(t, lastTried', now')
<1> SUFFICES ASSUME Inv, [Next]_vars
             PROVE  /\ \A p \in Procs : Fine(thread'[p], lastTried', now')
                    /\ \A t \in strays' : Fine(t, lastTried', now')
  OBVIOUS
<1>0. /\ DOMAIN thread = Procs /\ now \in Nat
      /\ \A p \in Procs : Fine(thread[p], lastTried, now)
      /\ \A t \in strays : Fine(t, lastTried, now)
      /\ \A p \in Procs : thread[p].at \in Nat /\ thread[p].at <= now
      /\ Fine(NoThread, lastTried, now)
  BY DoneFine DEF Inv, Fine, Threads, NoThread
<1> DEFINE Kept(p, t) == /\ \A q \in Procs : q # p => thread'[q] = thread[q]
                         /\ thread'[p] = t
                         /\ strays' \subseteq strays \cup {thread[p]}
<1>1. ASSUME NEW p \in Procs, NEW t, Kept(p, t), Fine(t, lastTried', now')
      PROVE  /\ \A q \in Procs : Fine(thread'[q], lastTried', now')
             /\ \A u \in strays' : Fine(u, lastTried', now')
  <2>1. /\ \A q \in Procs : Fine(thread[q], lastTried', now')
        /\ \A u \in strays : Fine(u, lastTried', now')
    BY <1>0, StaysFine
  <2> QED
    BY <1>1, <2>1
<1>2. ASSUME NEW p \in Procs, NEW t, Fine(t, lastTried, now), Kept(p, t)
      PROVE  /\ \A q \in Procs : Fine(thread'[q], lastTried', now')
             /\ \A u \in strays' : Fine(u, lastTried', now')
  BY <1>1, <1>2, StaysFine
<1>3. ASSUME NEW p \in Procs, NEW t, Await(p, t) \/ (Quit(p) /\ t = NoThread),
             strays' \subseteq strays \cup {thread[p]}
      PROVE  Kept(p, t)
  BY <1>0, <1>3 DEF Await, Quit
<1> HIDE DEF Kept
<1>4. Fine(Thread("claim", now, NoSpec, FALSE), lastTried, now)
  <2>1. now \in Nat /\ now <= now /\ NoSpec \in Specs \cup {NoSpec}
    BY <1>0
  <2> QED
    BY <2>1, ThreadFine DEF Kinds
<1>5. \A p \in Procs : Fine(Thread("release", thread[p].at, NoSpec, FALSE), lastTried, now)
  BY <1>0, ThreadFine DEF Kinds
<1>6. ASSUME NEW p \in Procs, Start(p)
      PROVE  Kept(p, Thread("claim", now, NoSpec, FALSE))
  BY <1>3, <1>6 DEF Start
<1>7. ASSUME NEW p \in Procs, Read(p)
      PROVE  \E t : Fine(t, lastTried, now) /\ Kept(p, t)
  <2>1. (Quit(p) \/ Await(p, HasRead(thread[p]))) /\ strays' = strays
    BY <1>7 DEF Read
  <2>2. Fine(HasRead(thread[p]), lastTried, now)
    BY <1>0, <1>7, HasReadFine DEF Read, At
  <2> QED
    BY <1>0, <1>3, <2>1, <2>2
<1>8. ASSUME NEW p \in Procs, Truncate(p)
      PROVE  \E t : Fine(t, lastTried, now) /\ Kept(p, t)
  <2>1. Await(p, Truncated(thread[p])) /\ strays' = strays
    BY <1>8 DEF Truncate
  <2>2. Fine(Truncated(thread[p]), lastTried, now)
    BY <1>0, TruncatedFine
  <2> QED
    BY <1>3, <2>1, <2>2
<1>9. ASSUME NEW p \in Procs, Write(p)
      PROVE  \E t : Fine(t, lastTried, now) /\ Kept(p, t)
  <2>1. CASE Quit(p)
    BY <1>0, <1>3, <1>9, <2>1 DEF Write
  <2>2. CASE thread' = [thread EXCEPT ![p] = Done(thread[p].at)]
    <3>1. Fine(Done(thread[p].at), lastTried, now)
      BY <1>0, DoneFine
    <3>2. Kept(p, Done(thread[p].at))
      BY <1>0, <1>9, <2>2 DEF Kept, Write
    <3> QED
      BY <3>1, <3>2
  <2> QED
    BY <1>9, <2>1, <2>2 DEF Write
<1>10. ASSUME NEW p \in Procs, FetchEnds(p)
       PROVE  /\ \A q \in Procs : Fine(thread'[q], lastTried', now')
              /\ \A t \in strays' : Fine(t, lastTried', now')
  <2> DEFINE renew == due[p] # {Current(p)}
  <2>1. /\ pc[p] = "fetching" /\ now' = now /\ strays' = strays
        /\ lastTried' = [lastTried EXCEPT ![Current(p)] = now]
        /\ Await(p, Thread("record", now, Current(p), renew))
    BY <1>10 DEF FetchEnds
  <2>2. Current(p) \in Specs /\ renew \in BOOLEAN
    BY <2>1, CurrentIsDue
  <2>3. Fine(Thread("record", now, Current(p), renew), lastTried', now')
    <3>1. /\ Empty \in States /\ Sound(Empty, lastTried', now')
          /\ lastTried'[Current(p)] = now
      BY <2>1, <2>2, EmptySound, StaysSound DEF Inv
    <3>2. Thread("record", now, Current(p), renew) \in Threads
      BY <1>0, <2>2, <3>1 DEF Thread, Threads, Kinds, Stages
    <3> QED
      BY <1>0, <2>1, <2>2, <3>1, <3>2 DEF Fine, Thread, Kinds
  <2> HIDE DEF renew
  <2>4. Kept(p, Thread("record", now, Current(p), renew))
    BY <1>3, <2>1
  <2> QED
    BY <1>1, <2>3, <2>4
<1>11. ASSUME NEW p \in Procs, FetchRaises(p) \/ Crash(p)
       PROVE  Kept(p, NoThread)
  BY <1>3, <1>11 DEF FetchRaises, Crash
<1>12. ASSUME NEW p \in Procs, CancelFetching(p) \/ CancelWaiting(p)
       PROVE  \E t : Fine(t, lastTried, now) /\ Kept(p, t)
  <2>1. /\ Quit(p) \/ Await(p, Thread("release", thread[p].at, NoSpec, FALSE))
        /\ strays' \subseteq strays \cup {thread[p]}
    BY <1>12 DEF CancelFetching, CancelWaiting, AwaitRelease
  <2> QED
    BY <1>0, <1>3, <1>5, <2>1
<1>13. CASE Strays
  <2>1. PICK t \in strays : StrayRuns(t)
    BY <1>13 DEF Strays
  <2>2. Fine(t, lastTried, now) /\ thread' = thread
    BY <1>0, <2>1 DEF StrayRuns
  <2>3. \A u \in strays' : \/ u \in strays
                           \/ (t.stage = "reading" /\ u = HasRead(t))
                           \/ u = Truncated(t)
    BY <2>1 DEF StrayRuns
  <2>4. \A u \in strays' : Fine(u, lastTried, now)
    BY <1>0, <2>2, <2>3, HasReadFine, TruncatedFine
  <2> QED
    BY <1>0, <2>2, <2>4, StaysFine
<1>14. CASE Tick \/ UNCHANGED vars
  BY <1>0, <1>14, StaysFine DEF Tick, vars
<1> QED
  BY <1>0, <1>2, <1>4, <1>6, <1>7, <1>8, <1>9, <1>10, <1>11, <1>12, <1>13, <1>14
     DEF Next, Work

(* The invariant in full.                                                  *)
LEMMA InvAlways == Spec => []Inv
<1>1. Inv /\ [Next]_vars => Inv'
  <2> SUFFICES ASSUME Inv, [Next]_vars PROVE Inv'
    OBVIOUS
  <2>1. \A s \in Specs : Never <= lastTried'[s]
    BY Grows DEF Inv, Never
  <2>2. Inv' <=>
           /\ now' \in Nat
           /\ file' \in States /\ Sound(file', lastTried', now')
           /\ lastTried' \in [Specs -> Int]
           /\ \A s \in Specs : Never <= lastTried'[s] /\ lastTried'[s] <= now'
           /\ pc' \in [Procs -> {"idle", "waiting", "fetching"}]
           /\ due' \in [Procs -> SUBSET Specs]
           /\ \A p \in Procs : pc'[p] = "fetching" => due'[p] # {}
           /\ DOMAIN thread' = Procs
           /\ \A p \in Procs : Fine(thread'[p], lastTried', now')
           /\ \A t \in strays' : Fine(t, lastTried', now')
    BY DEF Inv
  <2>3. /\ now' \in Nat /\ lastTried' \in [Specs -> Int]
        /\ \A s \in Specs : lastTried'[s] <= now'
    BY Grows
  <2>4. file' \in States /\ Sound(file', lastTried', now')
    BY FileStep
  <2>5. /\ pc' \in [Procs -> {"idle", "waiting", "fetching"}]
        /\ due' \in [Procs -> SUBSET Specs]
        /\ \A p \in Procs : pc'[p] = "fetching" => due'[p] # {}
        /\ DOMAIN thread' = Procs
    BY SweepStep
  <2>6. /\ \A p \in Procs : Fine(thread'[p], lastTried', now')
        /\ \A t \in strays' : Fine(t, lastTried', now')
    BY ThreadsStep
  <2> QED
    BY <2>1, <2>2, <2>3, <2>4, <2>5, <2>6
<1> QED
  BY <1>1, InvInit, PTL DEF Spec

(* Without the lock, the state file says of no spec that it was tried when *)
(* it was not, and holds no lease beyond LEASE_TTL (NothingInvented).      *)
THEOREM NothingIsInvented == Spec => []NothingInvented
<1>1. Inv => NothingInvented
  BY DEF Inv, Fine, Sound, NothingInvented
<1> QED
  BY <1>1, InvAlways, PTL

-----------------------------------------------------------------------------
(* No process passes over a spec that is due: whoever claims, claims every *)
(* spec that nobody has downloaded in the interval before its claim, and   *)
(* whoever leaves such a spec has found a lease that ends within           *)
(* LEASE_TTL, or is stopped on the way.  The safety behind DueIsTried: an  *)
(* update that is lost costs a download too many and none too few.         *)
THEOREM OverdueIsClaimed ==
    Spec => [][\A p \in Procs, s \in Specs :
                  (/\ At(p, "reading") /\ thread[p].kind = "claim" /\ thread'[p] # thread[p]
                   /\ lastTried[s] = Never \/ lastTried[s] + Interval <= thread[p].at) =>
                      \/ thread'[p].stage = "truncating" /\ s \in due'[p]
                      \/ stops' # stops
                      \/ thread[p].at < file.lease /\ file.lease <= now + LeaseTTL]_vars
<1>1. Inv /\ [Next]_vars =>
         [\A p \in Procs, s \in Specs :
             (/\ At(p, "reading") /\ thread[p].kind = "claim" /\ thread'[p] # thread[p]
              /\ lastTried[s] = Never \/ lastTried[s] + Interval <= thread[p].at) =>
                 \/ thread'[p].stage = "truncating" /\ s \in due'[p]
                 \/ stops' # stops
                 \/ thread[p].at < file.lease /\ file.lease <= now + LeaseTTL]_vars
  <2> SUFFICES ASSUME Inv, [Next]_vars, NEW p \in Procs, NEW s \in Specs,
                      At(p, "reading"), thread[p].kind = "claim", thread'[p] # thread[p],
                      stops' = stops,
                      lastTried[s] = Never \/ lastTried[s] + Interval <= thread[p].at
               PROVE  \/ thread'[p].stage = "truncating" /\ s \in due'[p]
                      \/ thread[p].at < file.lease /\ file.lease <= now + LeaseTTL
    OBVIOUS
  <2> USE UnlockedAssumption
  <2>0. /\ DOMAIN thread = Procs /\ thread[p] \in Threads /\ thread[p].at \in Nat
        /\ thread[p].stage = "reading" /\ pc[p] = "waiting" /\ due \in [Procs -> SUBSET Specs]
    BY DEF Inv, Fine, Threads, At
  <2>1. Read(p)
    <3>1. ~Stopping
      <4>1. stops' = stops + 1 => stops' # stops
        BY Z3
      <4> QED
        BY <4>1 DEF Stopping
    <3>2. PICK q \in Procs : Work(q)
      BY <3>1 DEF Next, CancelFetching, CancelWaiting, Crash, Strays, StrayRuns, Tick, vars
    <3>3. q = p
      BY <2>0, <3>2 DEF Work, Start, Read, Truncate, Write, FetchEnds, FetchRaises, Await, Quit
    <3> QED
      BY <2>0, <3>2, <3>3 DEF Work, Start, Truncate, Write, FetchEnds, FetchRaises, At
  <2>2. s \in DueAt(thread[p].at)
    <3>1. /\ file.attempted[s] \in Nat \cup {Never} /\ file.attempted[s] <= lastTried[s]
          /\ lastTried[s] \in Int
      BY DEF Inv, States, Sound
    <3>2. file.attempted[s] = Never \/ thread[p].at - file.attempted[s] >= Interval
      BY <2>0, <3>1 DEF Never
    <3> QED
      BY <3>2 DEF DueAt
  <2>3. CASE LeaseLive(thread[p].at)
    BY <2>3 DEF LeaseLive, Inv, Sound, States
  <2>4. CASE ~LeaseLive(thread[p].at)
    <3>1. ~ClaimsNothing(thread[p])
      BY <2>2, <2>4 DEF ClaimsNothing
    <3>2. Await(p, HasRead(thread[p])) /\ due'[p] = DueAt(thread[p].at)
      BY <2>0, <2>1, <3>1 DEF Read
    <3>3. thread'[p].stage = "truncating"
      BY <2>0, <3>2 DEF Await, HasRead, Threads
    <3> QED
      BY <2>2, <3>2, <3>3
  <2> QED
    BY <2>3, <2>4
<1> QED
  BY <1>1, InvAlways, PTL DEF Spec
================================================================================
