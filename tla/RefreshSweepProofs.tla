-------------------------- MODULE RefreshSweepProofs --------------------------
(***************************************************************************)
(* Theorems about RefreshSweep, for any number of processes and specs, any *)
(* interval and any lease that outlasts a fetch (LeaseAssumption).         *)
(***************************************************************************)
EXTENDS RefreshSweep, WellFoundedInduction, TLAPS

USE DEF state, sweep, lost, mishaps, Sweeping, Places

(* The last spec of a sweep is the one after which the lease is dropped.   *)
LEMMA SpecsAreLeft ==
    ASSUME NEW p \in Procs, due[p] # {}, Renews(p)
    PROVE  due[p] \ {Current(p)} # {}
  BY DEF Renews

(* The types hold to begin with. *)
LEMMA TypeInit == Init => TypeOK
  BY DEF Init, TypeOK

(* No step leaves the types. *)
LEMMA TypeStep == TypeOK /\ [Next]_vars => TypeOK'
<1> SUFFICES ASSUME TypeOK, [Next]_vars
             PROVE  TypeOK'
  OBVIOUS
<1> USE LeaseAssumption, BoundsAssumption DEF TypeOK, Goto, Quit
<1>1. ASSUME NEW p \in Procs, Start(p) PROVE TypeOK'
  BY <1>1 DEF Start
<1>2. ASSUME NEW p \in Procs, Claim(p) PROVE TypeOK'
  BY <1>2 DEF Claim, DueAt
<1>3. ASSUME NEW p \in Procs, FetchEnds(p) PROVE TypeOK'
  BY <1>3 DEF FetchEnds
<1>4. ASSUME NEW p \in Procs, FetchRaises(p) PROVE TypeOK'
  BY <1>4 DEF FetchRaises
<1>5. ASSUME NEW p \in Procs, Record(p) PROVE TypeOK'
  <2>1. leaseExpires' = LeaseAfter(stamp[p], Renews(p))
    BY <1>5 DEF Record
  <2>2. leaseExpires' \in Nat
    BY <2>1 DEF LeaseAfter
  <2>3. attempted' \in [Specs -> Nat \cup {Never}]
    BY <1>5 DEF Record
  <2>4. CASE Renews(p)
    <3>1. due[p] \ {Current(p)} # {}
      BY <1>5, <2>4, SpecsAreLeft DEF Record
    <3>2. /\ pc' = [pc EXCEPT ![p] = "fetching"]
          /\ leased' = [leased EXCEPT ![p] = stamp[p]]
          /\ due' = [due EXCEPT ![p] = @ \ {Current(p)}]
          /\ UNCHANGED <<now, stamp, lost, mishaps>>
      BY <1>5, <2>4 DEF Record
    <3> QED
      BY <2>2, <2>3, <3>1, <3>2
  <2>5. CASE ~Renews(p)
    BY <1>5, <2>2, <2>3, <2>5 DEF Record
  <2> QED
    BY <2>4, <2>5
<1>6. ASSUME NEW p \in Procs, Release(p) PROVE TypeOK'
  BY <1>6 DEF Release
<1>7. ASSUME NEW p \in Procs, Restart(p) PROVE TypeOK'
  BY <1>7 DEF Restart
<1>8. ASSUME NEW p \in Procs, CancelFetching(p) PROVE TypeOK'
  BY <1>8 DEF CancelFetching, Cancelling
<1>9. ASSUME NEW p \in Procs, CancelClaiming(p) PROVE TypeOK'
  BY <1>9 DEF CancelClaiming, Cancelling
<1>10. ASSUME NEW p \in Procs, Crash(p) PROVE TypeOK'
  BY <1>10 DEF Crash, Crashing
<1>11. ASSUME NEW p \in Procs, CrashWriting(p) PROVE TypeOK'
  BY <1>11 DEF CrashWriting, Crashing
<1>12. ASSUME NEW p \in Procs, WriteFails(p) PROVE TypeOK'
  BY <1>12 DEF WriteFails, Crashing
<1>13. ASSUME LostClaims PROVE TypeOK'
  <2>1. PICK c \in lostClaims : LostClaimRuns(c[1], c[2])
    BY <1>13 DEF LostClaims
  <2>2. c[2] \in Nat
    OBVIOUS
  <2> QED
    BY <2>1, <2>2 DEF LostClaimRuns
<1>14. CASE Tick
  BY <1>14 DEF Tick
<1>15. CASE UNCHANGED vars
  BY <1>15 DEF vars
<1> QED
  BY <1>1, <1>2, <1>3, <1>4, <1>5, <1>6, <1>7, <1>8, <1>9, <1>10,
     <1>11, <1>12, <1>13, <1>14, <1>15 DEF Next, Work, Fault

(* Every variable keeps its type, and a process sweeps only what is due.   *)
THEOREM TypeCorrect == Spec => []TypeOK
  BY TypeInit, TypeStep, PTL DEF Spec

-----------------------------------------------------------------------------
(* Times a process still works with are of the past, a claim is young and  *)
(* a record is written with a later time than the lease it renews.         *)
StampsArePast ==
    /\ \A p \in Procs : /\ stamp[p] <= now
                        /\ leased[p] <= now
                        /\ pc[p] = "claiming" => now <= stamp[p] + MaxHold
                        /\ pc[p] = "recording" => leased[p] <= stamp[p]
    /\ \A c \in lostClaims : c[2] <= now

(* What makes the lease an exclusive one: LeaseCoversSweep strengthened    *)
(* with the age of the times that claims and records are given.            *)
SweepInv == StampsArePast /\ LeaseCoversSweep /\ OneSweeper

(* The lease of a process that sweeps is live for every claim, whenever    *)
(* its time was taken.                                                     *)
LEMMA SweeperHoldsLease ==
    ASSUME TypeOK, SweepInv, NEW p \in Procs, pc[p] \in Sweeping,
           NEW at \in Nat, at <= now
    PROVE  LeaseLive(at)
  BY LeaseAssumption DEF SweepInv, LeaseCoversSweep, LeaseLive, TypeOK

(* Every step keeps lease, stamps and sweeper in step. *)
LEMMA SweepInvStep == TypeOK /\ TypeOK' /\ SweepInv /\ [Next]_vars => SweepInv'
<1> SUFFICES ASSUME TypeOK, TypeOK', SweepInv, [Next]_vars
             PROVE  SweepInv'
  OBVIOUS
<1> USE LeaseAssumption, BoundsAssumption
        DEF TypeOK, Goto, Quit, SweepInv, StampsArePast, LeaseCoversSweep, OneSweeper
<1>1. ASSUME NEW p \in Procs, Start(p) PROVE SweepInv'
  BY <1>1 DEF Start
<1>2. ASSUME NEW p \in Procs, Claim(p) PROVE SweepInv'
  <2>1. CASE LeaseLive(stamp[p]) \/ DueAt(p, stamp[p]) = {}
    <3>1. leaseExpires' = leaseExpires /\ Quit(p, "idle")
      BY <1>2, <2>1 DEF Claim
    <3> QED
      BY <1>2, <3>1 DEF Claim
  <2>2. CASE ~LeaseLive(stamp[p]) /\ DueAt(p, stamp[p]) # {}
    <3>1. \A q \in Procs : pc[q] \notin Sweeping
      BY <2>2, SweeperHoldsLease
    <3> QED
      BY <1>2, <2>2, <3>1 DEF Claim
  <2> QED
    BY <2>1, <2>2
<1>3. ASSUME NEW p \in Procs, FetchEnds(p) PROVE SweepInv'
  BY <1>3 DEF FetchEnds
<1>4. ASSUME NEW p \in Procs, FetchRaises(p) PROVE SweepInv'
  BY <1>4 DEF FetchRaises
<1>5. ASSUME NEW p \in Procs, Record(p) PROVE SweepInv'
  <2>1. \A q \in Procs : pc[q] \in Sweeping => q = p
    BY <1>5 DEF Record
  <2>2. CASE Renews(p)
    BY <1>5, <2>1, <2>2 DEF Record, LeaseAfter
  <2>3. CASE ~Renews(p)
    BY <1>5, <2>1, <2>3 DEF Record
  <2> QED
    BY <2>2, <2>3
<1>6. ASSUME NEW p \in Procs, Release(p) PROVE SweepInv'
  <2>1. \A q \in Procs : pc[q] \in Sweeping => q = p
    BY <1>6 DEF Release
  <2> QED
    BY <1>6, <2>1 DEF Release
<1>7. ASSUME NEW p \in Procs, Restart(p) PROVE SweepInv'
  BY <1>7 DEF Restart
<1>8. ASSUME NEW p \in Procs, CancelFetching(p) PROVE SweepInv'
  BY <1>8 DEF CancelFetching
<1>9. ASSUME NEW p \in Procs, CancelClaiming(p) PROVE SweepInv'
  BY <1>9 DEF CancelClaiming
<1>10. ASSUME NEW p \in Procs, Crash(p) PROVE SweepInv'
  BY <1>10 DEF Crash
<1>11. ASSUME NEW p \in Procs, CrashWriting(p) PROVE SweepInv'
  <2>1. \A q \in Procs : pc[q] \in Sweeping => q = p
    <3>1. CASE pc[p] \in Sweeping
      BY <3>1
    <3>2. CASE ~LeaseLive(stamp[p])
      BY <3>2, SweeperHoldsLease
    <3> QED
      BY <1>11, <3>1, <3>2 DEF CrashWriting, Writing
  <2> QED
    BY <1>11, <2>1 DEF CrashWriting
<1>12. ASSUME NEW p \in Procs, WriteFails(p) PROVE SweepInv'
  BY <1>12 DEF WriteFails
<1>13. ASSUME LostClaims PROVE SweepInv'
  <2>1. PICK c \in lostClaims : LostClaimRuns(c[1], c[2])
    BY <1>13 DEF LostClaims
  <2>2. c[2] \in Nat /\ c[2] <= now
    OBVIOUS
  <2>3. leaseExpires' = leaseExpires \/ \A q \in Procs : pc[q] \notin Sweeping
    BY <2>1, <2>2, SweeperHoldsLease DEF LostClaimRuns
  <2> QED
    BY <2>1, <2>3 DEF LostClaimRuns
<1>14. CASE Tick
  BY <1>14 DEF Tick, WithinHold
<1>15. CASE UNCHANGED vars
  BY <1>15 DEF vars
<1> QED
  BY <1>1, <1>2, <1>3, <1>4, <1>5, <1>6, <1>7, <1>8, <1>9, <1>10,
     <1>11, <1>12, <1>13, <1>14, <1>15 DEF Next, Work, Fault

(* The invariant holds: LeaseAssumption is what a claim needs of the TTL.  *)
THEOREM SweepInvariant == Spec => []SweepInv
<1>1. Init => SweepInv
  BY LeaseAssumption DEF Init, SweepInv, StampsArePast, LeaseCoversSweep, OneSweeper
<1> QED
  BY <1>1, SweepInvStep, TypeCorrect, PTL DEF Spec

(* One process sweeps at a time, whatever crashes, is truncated or late.   *)
THEOREM SweepersExclude == Spec => []OneSweeper
  BY SweepInvariant, PTL DEF SweepInv

(* A sweep never outlives its lease, however many specs it fetches.        *)
THEOREM SweepsAreCovered == Spec => []LeaseCoversSweep
  BY SweepInvariant, PTL DEF SweepInv

-----------------------------------------------------------------------------
(* Every step keeps what is due an interval old. *)
LEMMA NoEarlyStep ==
    TypeOK /\ SweepInv /\ NoEarlyRefetch /\ [Next]_vars => NoEarlyRefetch'
<1> SUFFICES ASSUME TypeOK, SweepInv, NoEarlyRefetch, [Next]_vars
             PROVE  NoEarlyRefetch'
  OBVIOUS
<1> USE BoundsAssumption DEF NoEarlyRefetch, TypeOK, Goto, Quit
<1>1. ASSUME NEW p \in Procs, Start(p) PROVE NoEarlyRefetch'
  BY <1>1 DEF Start
<1>2. ASSUME NEW p \in Procs, Claim(p) PROVE NoEarlyRefetch'
  <2>1. stamp[p] <= now
    BY DEF SweepInv, StampsArePast
  <2>2. \A s \in DueAt(p, stamp[p]) :
            p \in Forced \/ attempted[s] = Never \/ attempted[s] + Interval <= now
    <3> SUFFICES ASSUME NEW s \in DueAt(p, stamp[p]), p \notin Forced, attempted[s] # Never
                 PROVE  attempted[s] + Interval <= now
      OBVIOUS
    <3>1. attempted[s] \in Nat /\ stamp[p] - attempted[s] >= Interval
      BY DEF DueAt
    <3> QED
      BY <2>1, <3>1
  <2>3. \/ due' = [due EXCEPT ![p] = {}]
        \/ due' = [due EXCEPT ![p] = DueAt(p, stamp[p])]
    BY <1>2 DEF Claim
  <2>4. UNCHANGED <<now, attempted>>
    BY <1>2 DEF Claim
  <2> QED
    BY <2>2, <2>3, <2>4
<1>3. ASSUME NEW p \in Procs, FetchEnds(p) PROVE NoEarlyRefetch'
  BY <1>3 DEF FetchEnds
<1>4. ASSUME NEW p \in Procs, FetchRaises(p) PROVE NoEarlyRefetch'
  BY <1>4 DEF FetchRaises
<1>5. ASSUME NEW p \in Procs, Record(p) PROVE NoEarlyRefetch'
  <2>1. \A q \in Procs : q # p => due[q] = {}
    BY <1>5 DEF Record, SweepInv, OneSweeper
  <2>2. /\ UNCHANGED now
        /\ attempted' = [attempted EXCEPT ![Current(p)] = stamp[p]]
        /\ \/ due' = [due EXCEPT ![p] = @ \ {Current(p)}]
           \/ due' = [due EXCEPT ![p] = {}]
    BY <1>5 DEF Record
  <2> QED
    BY <2>1, <2>2
<1>6. ASSUME NEW p \in Procs, Release(p) PROVE NoEarlyRefetch'
  BY <1>6 DEF Release
<1>7. ASSUME NEW p \in Procs, Restart(p) PROVE NoEarlyRefetch'
  BY <1>7 DEF Restart
<1>8. ASSUME NEW p \in Procs, CancelFetching(p) PROVE NoEarlyRefetch'
  BY <1>8 DEF CancelFetching
<1>9. ASSUME NEW p \in Procs, CancelClaiming(p) PROVE NoEarlyRefetch'
  BY <1>9 DEF CancelClaiming
<1>10. ASSUME NEW p \in Procs, Crash(p) PROVE NoEarlyRefetch'
  BY <1>10 DEF Crash
<1>11. ASSUME NEW p \in Procs, CrashWriting(p) PROVE NoEarlyRefetch'
  BY <1>11 DEF CrashWriting
<1>12. ASSUME NEW p \in Procs, WriteFails(p) PROVE NoEarlyRefetch'
  BY <1>12 DEF WriteFails
<1>13. ASSUME LostClaims PROVE NoEarlyRefetch'
  BY <1>13 DEF LostClaims, LostClaimRuns
<1>14. CASE Tick
  BY <1>14 DEF Tick, Never
<1>15. CASE UNCHANGED vars
  BY <1>15 DEF vars
<1> QED
  BY <1>1, <1>2, <1>3, <1>4, <1>5, <1>6, <1>7, <1>8, <1>9, <1>10,
     <1>11, <1>12, <1>13, <1>14, <1>15 DEF Next, Work, Fault

(* No spec is fetched again within the interval of its last attempt,       *)
(* unless --refresh asks for it.                                           *)
THEOREM RefetchesWait == Spec => []NoEarlyRefetch
<1>1. Init => NoEarlyRefetch
  BY DEF Init, NoEarlyRefetch
<1> QED
  BY <1>1, NoEarlyStep, TypeCorrect, SweepInvariant, PTL DEF Spec

-----------------------------------------------------------------------------
(***************************************************************************)
(* The record.  What a sweep is at is due, and the time it records is      *)
(* later than what the record has, by the interval unless it is forced:    *)
(* that was so when the fetch ended, and nobody has recorded since.        *)
(***************************************************************************)
RecordInv ==
    /\ \A s \in Specs : attempted[s] <= now
    /\ \A p \in Procs : pc[p] = "recording" =>
          \A s \in due[p] : /\ attempted[s] <= stamp[p]
                            /\ \/ p \in Forced \/ attempted[s] = Never
                               \/ attempted[s] + Interval <= stamp[p]

(* A set of numbers that is not empty has a least one. *)
LEMMA LeastOfSome ==
    ASSUME NEW T, T \subseteq Nat, T # {}
    PROVE  \E x \in T : \A y \in T : x <= y
<1> DEFINE R == {ss \in Nat \X Nat : ss[1] < ss[2]}
<1>1. IsWellFoundedOn(R, Nat)
  BY NatLessThanWellFounded DEF OpToRel
<1>2. \A x, y \in Nat : x < y => <<x, y>> \in R
  OBVIOUS
<1> HIDE DEF R
<1>3. \E x \in T : \A y \in T : <<y, x>> \notin R
  BY <1>1, WFMin
<1>4. \A x, y \in Nat : <<y, x>> \notin R => x <= y
  BY <1>2
<1> QED
  BY <1>3, <1>4

(* A sweep that is not over is at one of the specs it has left. *)
LEMMA CurrentIsDue ==
    ASSUME TypeOK, NEW p \in Procs, pc[p] \in Sweeping
    PROVE  Current(p) \in due[p] /\ Current(p) \in Specs
<1>1. due[p] # {} /\ due[p] \subseteq Specs /\ Specs \subseteq Nat
  BY BoundsAssumption DEF TypeOK, Specs
<1>2. \E s \in due[p] : \A r \in due[p] : s <= r
  BY <1>1, LeastOfSome
<1> QED
  BY <1>1, <1>2 DEF Current

(* Every step keeps the times of the record in order. *)
LEMMA RecordInvStep ==
    TypeOK /\ SweepInv /\ NoEarlyRefetch /\ RecordInv /\ [Next]_vars => RecordInv'
<1> SUFFICES ASSUME TypeOK, SweepInv, NoEarlyRefetch, RecordInv, [Next]_vars
             PROVE  RecordInv'
  OBVIOUS
<1> USE BoundsAssumption DEF RecordInv, TypeOK, Goto, Quit, Never
<1>1. ASSUME NEW p \in Procs,
             Start(p) \/ Claim(p) \/ FetchRaises(p) \/ Release(p) \/ Restart(p)
      PROVE  RecordInv'
  BY <1>1 DEF Start, Claim, FetchRaises, Release, Restart
<1>2. ASSUME NEW p \in Procs, FetchEnds(p) PROVE RecordInv'
  <2>1. \A s \in due[p] : /\ attempted[s] <= now
                          /\ \/ p \in Forced \/ attempted[s] = Never
                             \/ attempted[s] + Interval <= now
    BY DEF NoEarlyRefetch
  <2>2. /\ stamp' = [stamp EXCEPT ![p] = now] /\ pc' = [pc EXCEPT ![p] = "recording"]
        /\ UNCHANGED <<now, attempted, due>>
    BY <1>2 DEF FetchEnds
  <2> QED
    BY <2>1, <2>2
<1>3. ASSUME NEW p \in Procs, Record(p) PROVE RecordInv'
  <2>1. \A q \in Procs : pc[q] = "recording" => q = p
    BY <1>3 DEF Record, SweepInv, OneSweeper
  <2>2. pc' = [pc EXCEPT ![p] = "fetching"] \/ pc' = [pc EXCEPT ![p] = "idle"]
    BY <1>3 DEF Record
  <2>3. \A q \in Procs : pc'[q] # "recording"
    BY <2>1, <2>2
  <2>4. attempted' = [attempted EXCEPT ![Current(p)] = stamp[p]] /\ now' = now
    BY <1>3 DEF Record
  <2>5. \A s \in Specs : attempted'[s] <= now'
    BY <2>4 DEF SweepInv, StampsArePast
  <2> QED
    BY <2>3, <2>5
<1>4. ASSUME NEW p \in Procs, CancelFetching(p) \/ CancelClaiming(p) \/ Crash(p) \/ WriteFails(p)
      PROVE  RecordInv'
  BY <1>4 DEF CancelFetching, CancelClaiming, Crash, WriteFails
<1>5. ASSUME NEW p \in Procs, CrashWriting(p) PROVE RecordInv'
  <2>1. /\ attempted' = [s \in Specs |-> Never]
        /\ stamp' = [stamp EXCEPT ![p] = 0] /\ due' = [due EXCEPT ![p] = {}] /\ now' = now
    BY <1>5 DEF CrashWriting
  <2> QED
    BY <2>1
<1>6. CASE LostClaims
  BY <1>6 DEF LostClaims, LostClaimRuns
<1>7. CASE Tick
  BY <1>7 DEF Tick
<1>8. CASE UNCHANGED vars
  BY <1>8 DEF vars
<1> QED
  BY <1>1, <1>2, <1>3, <1>4, <1>5, <1>6, <1>7, <1>8 DEF Next, Work, Fault

(* Nobody has swept or recorded anything to begin with. *)
LEMMA PromiseInit == Init => Promise!Init
BY DEF Init, Promise!Init, Promise!Blank

(* Every step of the processes is one of the single sweeper, or none.      *)
LEMMA PromiseStep ==
    TypeOK /\ SweepInv /\ RecordInv /\ [Next]_vars => [Promise!Next]_(Promise!vars)
<1> SUFFICES ASSUME TypeOK, SweepInv, RecordInv, [Next]_vars
             PROVE  Promise!Next \/ UNCHANGED Promise!vars
  OBVIOUS
<1> DEFINE sweepers == {q \in Procs : pc[q] \in Sweeping}
           Goal == Promise!Next \/ UNCHANGED Promise!vars
<1>1. ASSUME UNCHANGED <<sweepers, attempted>> PROVE Goal
  BY <1>1 DEF Promise!vars
<1>2. ASSUME sweepers' = {}, UNCHANGED attempted PROVE Goal
  BY <1>2 DEF Promise!Next, Promise!Leave
<1>3. ASSUME UNCHANGED attempted, NEW p \in Procs, NEW place, pc' = [pc EXCEPT ![p] = place],
             place \in Sweeping <=> pc[p] \in Sweeping
      PROVE  Goal
  <2>1. \A q \in Procs : pc'[q] \in Sweeping <=> pc[q] \in Sweeping
    BY <1>3 DEF TypeOK
  <2> HIDE DEF Goal
  <2> QED
    BY <1>1, <1>3, <2>1
<1>4. ASSUME UNCHANGED attempted, NEW p \in Procs, NEW place, pc' = [pc EXCEPT ![p] = place],
             place \notin Sweeping
      PROVE  Goal
  <2>1. CASE pc[p] \in Sweeping
    <3>1. \A q \in Procs : pc'[q] \notin Sweeping
      BY <1>4, <2>1 DEF TypeOK, SweepInv, OneSweeper
    <3> HIDE DEF Goal
    <3> QED
      BY <1>2, <1>4, <3>1
  <2>2. CASE pc[p] \notin Sweeping
    <3> HIDE DEF Goal
    <3> QED
      BY <1>3, <1>4, <2>2
  <2> QED
    BY <2>1, <2>2
<1>5. ASSUME NEW p \in Procs,
             Start(p) \/ FetchEnds(p) \/ Restart(p) \/ CancelFetching(p)
      PROVE  Goal
  <2> HIDE DEF Goal
  <2> QED
    BY <1>3, <1>5 DEF Start, FetchEnds, Restart, CancelFetching, Goto
<1>6. ASSUME NEW p \in Procs,
             FetchRaises(p) \/ Release(p) \/ CancelClaiming(p) \/ Crash(p) \/ WriteFails(p)
      PROVE  Goal
  <2> HIDE DEF Goal
  <2> QED
    BY <1>4, <1>6 DEF FetchRaises, Release, CancelClaiming, Crash, WriteFails, Quit, Goto
<1>7. ASSUME NEW p \in Procs, Claim(p) PROVE Goal
  <2>1. CASE pc' = [pc EXCEPT ![p] = "idle"]
    <3> HIDE DEF Goal
    <3> QED
      BY <1>4, <1>7, <2>1 DEF Claim
  <2>2. CASE ~LeaseLive(stamp[p]) /\ pc' = [pc EXCEPT ![p] = "fetching"]
    <3>1. sweepers = {}
      BY <2>2, SweeperHoldsLease DEF SweepInv, StampsArePast, TypeOK
    <3>2. sweepers' = {p}
      BY <2>2, <3>1 DEF TypeOK
    <3>3. UNCHANGED attempted
      BY <1>7 DEF Claim
    <3>4. Promise!Take(p)
      BY <3>1, <3>2, <3>3 DEF Promise!Take
    <3> QED
      BY <3>4 DEF Promise!Next
  <2> QED
    BY <1>7, <2>1, <2>2 DEF Claim, Quit, Goto
<1>8. ASSUME NEW p \in Procs, Record(p) PROVE Goal
  <2>1. PICK s : s = Current(p)
    OBVIOUS
  <2>2. pc[p] = "recording" /\ s \in due[p] /\ s \in Specs
    BY <1>8, <2>1, CurrentIsDue DEF Record
  <2>3. sweepers = {p}
    BY <2>2 DEF SweepInv, OneSweeper
  <2>4. sweepers' \in {{p}, {}}
    <3>1. pc' = [pc EXCEPT ![p] = "fetching"] \/ pc' = [pc EXCEPT ![p] = "idle"]
      BY <1>8 DEF Record, Quit, Goto
    <3> QED
      BY <2>3, <3>1 DEF TypeOK
  <2>5. attempted' = [attempted EXCEPT ![s] = stamp[p]] /\ attempted'[s] = stamp[p]
    BY <1>8, <2>1, <2>2 DEF Record, TypeOK
  <2>6. /\ attempted[s] <= stamp[p]
        /\ p \in Forced \/ attempted[s] = Never \/ attempted[s] + Interval <= stamp[p]
    BY <2>2 DEF RecordInv
  <2> HIDE DEF sweepers
  <2>7. Promise!Attempt(p, s)
    BY <2>3, <2>4, <2>5, <2>6 DEF Promise!Attempt, sweepers
  <2> QED
    BY <2>2, <2>7 DEF Promise!Next
<1>9. ASSUME NEW p \in Procs, CrashWriting(p) PROVE Goal
  <2>1. \A q \in Procs : pc[q] \in Sweeping => q = p
    <3>1. CASE pc[p] \in Sweeping
      BY <3>1 DEF SweepInv, OneSweeper
    <3>2. CASE pc[p] = "claiming" /\ ~LeaseLive(stamp[p])
      BY <3>2, SweeperHoldsLease DEF SweepInv, StampsArePast, TypeOK
    <3> QED
      BY <1>9, <3>1, <3>2 DEF CrashWriting, Writing
  <2>2. sweepers' = {}
    BY <1>9, <2>1 DEF CrashWriting, Quit, Goto, TypeOK
  <2>3. Promise!Lose
    BY <1>9, <2>2 DEF CrashWriting, Promise!Lose, Promise!Blank
  <2> QED
    BY <2>3 DEF Promise!Next
<1>10. ASSUME LostClaims \/ Tick \/ UNCHANGED vars PROVE Goal
  <2>1. UNCHANGED <<pc, attempted>>
    BY <1>10 DEF LostClaims, LostClaimRuns, Tick, vars
  <2>2. \A q \in Procs : pc'[q] \in Sweeping <=> pc[q] \in Sweeping
    BY <2>1
  <2> HIDE DEF Goal
  <2> QED
    BY <1>1, <2>1, <2>2
<1>11. ASSUME NEW p \in Procs, Work(p) \/ Fault(p) PROVE Goal
  <2> HIDE DEF Goal
  <2> QED
    BY <1>5, <1>6, <1>7, <1>8, <1>9, <1>11 DEF Work, Fault
<1> QED
  BY <1>10, <1>11 DEF Next

(* The processes keep the record a single sweeper would keep. *)
THEOREM RecordImplemented == Spec => ImplementsRecord
<1>1. Init => RecordInv
  BY DEF Init, RecordInv, Never
<1> QED
  BY <1>1, RecordInvStep, PromiseInit, PromiseStep, TypeCorrect, SweepInvariant, RefetchesWait, PTL
     DEF Spec, ImplementsRecord, Promise!Spec

-----------------------------------------------------------------------------
(***************************************************************************)
(* What is left where a cancellation catches a sweep while it records.     *)
(* OneSweeper is not (README, section 5), and neither are LeaseCoversSweep *)
(* and NoEarlyRefetch, which rest on it; that nobody is put off rests on   *)
(* the times that are written and not on who sweeps.                       *)
(***************************************************************************)

(* No time anybody works with is to come, and no lease reaches further     *)
(* than LEASE_TTL from now.                                                *)
NothingAhead ==
    /\ \A p \in Procs : stamp[p] <= now
    /\ \A c \in lostClaims : c[2] <= now
    /\ \A r \in lostRecords : r[2] <= now
    /\ \A s \in Specs : attempted[s] <= now
    /\ leaseExpires <= now + LeaseTTL

(* A record nobody awaits is of a spec, and takes its row with it. *)
LEMMA RecordCancelTypeStep == TypeOK /\ [RecordCancelNext]_vars => TypeOK'
<1> SUFFICES ASSUME TypeOK, [RecordCancelNext]_vars PROVE TypeOK'
  OBVIOUS
<1>1. ASSUME NEW p \in Procs, CancelRecording(p) PROVE TypeOK'
  <2>1. pc[p] \in Sweeping /\ due[p] # {}
    BY <1>1 DEF CancelRecording, TypeOK
  <2>2. Current(p) \in Specs
    BY <2>1, CurrentIsDue
  <2>3. lostRecords' = lostRecords \cup {<<Current(p), stamp[p], Renews(p)>>}
    BY <1>1 DEF CancelRecording
  <2>4. Renews(p) \in BOOLEAN
    BY DEF Renews
  <2>5. lostRecords' \subseteq Specs \X Nat \X BOOLEAN
    BY <2>2, <2>3, <2>4 DEF TypeOK
  <2> QED
    BY <1>1, <2>5 DEF CancelRecording, Cancelling, Goto, TypeOK
<1>2. ASSUME NEW r \in lostRecords, LostRecordRuns(r[1], r[2], r[3]) PROVE TypeOK'
  <2>1. r[1] \in Specs /\ r[2] \in Nat /\ r[3] \in BOOLEAN
    BY DEF TypeOK
  <2>2. leaseExpires' \in Nat
    BY <1>2, <2>1, LeaseAssumption DEF LostRecordRuns, LeaseAfter
  <2> QED
    BY <1>2, <2>1, <2>2 DEF LostRecordRuns, TypeOK
<1> QED
  BY <1>1, <1>2, TypeStep DEF RecordCancelNext, LostRecords

(* A lease is written as the time of a claim or a record, and LEASE_TTL.   *)
LEMMA NothingAheadStep == TypeOK /\ NothingAhead /\ [RecordCancelNext]_vars => NothingAhead'
<1> SUFFICES ASSUME TypeOK, NothingAhead, [RecordCancelNext]_vars PROVE NothingAhead'
  OBVIOUS
<1> USE LeaseAssumption DEF NothingAhead, TypeOK, Goto, Quit
<1>1. ASSUME NEW p \in Procs, Claim(p) PROVE NothingAhead'
  <2>1. leaseExpires' \in {leaseExpires, stamp[p] + LeaseTTL}
    BY <1>1 DEF Claim
  <2>2. UNCHANGED <<now, attempted, lost>> /\ \A q \in Procs : stamp'[q] \in {0, stamp[q]}
    BY <1>1 DEF Claim
  <2> QED
    BY <2>1, <2>2
<1>2. ASSUME NEW p \in Procs, Record(p) PROVE NothingAhead'
  <2>1. leaseExpires' \in {0, stamp[p] + LeaseTTL}
    BY <1>2 DEF Record, LeaseAfter
  <2>2. UNCHANGED <<now, lost>> /\ \A q \in Procs : stamp'[q] \in {0, stamp[q]}
    BY <1>2 DEF Record
  <2>3. \A s \in Specs : attempted'[s] \in {attempted[s], stamp[p]}
    BY <1>2 DEF Record
  <2> QED
    BY <2>1, <2>2, <2>3
<1>3. ASSUME NEW c \in lostClaims, LostClaimRuns(c[1], c[2]) PROVE NothingAhead'
  <2>1. leaseExpires' \in {leaseExpires, c[2] + LeaseTTL} /\ c[2] \in Nat
    BY <1>3 DEF LostClaimRuns
  <2>2. UNCHANGED <<now, attempted, stamp, lostRecords>> /\ lostClaims' \subseteq lostClaims
    BY <1>3 DEF LostClaimRuns
  <2> QED
    BY <2>1, <2>2
<1>4. ASSUME NEW r \in lostRecords, LostRecordRuns(r[1], r[2], r[3]) PROVE NothingAhead'
  <2>1. leaseExpires' \in {0, r[2] + LeaseTTL} /\ r[2] \in Nat
    BY <1>4 DEF LostRecordRuns, LeaseAfter
  <2>2. UNCHANGED <<now, stamp, lostClaims>> /\ lostRecords' \subseteq lostRecords
    BY <1>4 DEF LostRecordRuns
  <2>3. \A s \in Specs : attempted'[s] \in {attempted[s], r[2]}
    BY <1>4 DEF LostRecordRuns
  <2> QED
    BY <2>1, <2>2, <2>3
<1>5. ASSUME NEW p \in Procs, CancelRecording(p) PROVE NothingAhead'
  BY <1>5 DEF CancelRecording
<1>6. ASSUME NEW p \in Procs, CancelClaiming(p) PROVE NothingAhead'
  BY <1>6 DEF CancelClaiming
<1>7. ASSUME NEW p \in Procs, Release(p) \/ CrashWriting(p) PROVE NothingAhead'
  <2>1. leaseExpires' = 0 /\ UNCHANGED <<now, lost>>
    BY <1>7 DEF Release, CrashWriting
  <2>2. \A q \in Procs : stamp'[q] \in {0, stamp[q]}
    BY <1>7 DEF Release, CrashWriting
  <2>3. \A s \in Specs : attempted'[s] \in {attempted[s], Never}
    BY <1>7 DEF Release, CrashWriting
  <2> QED
    BY <2>1, <2>2, <2>3 DEF Never
<1>8. ASSUME NEW p \in Procs,
             \/ Start(p) \/ FetchEnds(p) \/ FetchRaises(p) \/ Restart(p)
             \/ CancelFetching(p) \/ Crash(p) \/ WriteFails(p)
      PROVE  NothingAhead'
  <2>1. UNCHANGED <<now, state, lost>> /\ \A q \in Procs : stamp'[q] \in {0, now, stamp[q]}
    BY <1>8 DEF Start, FetchEnds, FetchRaises, Restart, CancelFetching, Crash, WriteFails
  <2> QED
    BY <2>1
<1>9. CASE Tick
  <2>1. now' = now + 1 /\ UNCHANGED <<state, stamp, lost>>
    BY <1>9 DEF Tick
  <2>2. \A c \in lostClaims : c[2] \in Nat
    OBVIOUS
  <2>3. \A r \in lostRecords : r[2] \in Nat
    OBVIOUS
  <2>4. \A s \in Specs : attempted[s] \in Int
    BY DEF Never
  <2> QED
    BY <2>1, <2>2, <2>3, <2>4
<1>10. CASE UNCHANGED vars
  BY <1>10 DEF vars
<1> QED
  BY <1>1, <1>2, <1>3, <1>4, <1>5, <1>6, <1>7, <1>8, <1>9, <1>10
     DEF RecordCancelNext, Next, Work, Fault, LostClaims, LostRecords

(* Whoever finds a lease that nobody sweeps under, as after a crash or     *)
(* from a claim or a record nobody awaits, waits LEASE_TTL for it at most; *)
(* and no spec counts as attempted at a time to come.  This is the safety  *)
(* behind SweepsReachEverySpec, and it holds whatever is cancelled.        *)
THEOREM NobodyIsPutOff ==
    RecordCancelSpec => [](/\ leaseExpires <= now + LeaseTTL
                           /\ \A s \in Specs : attempted[s] <= now)
<1>1. Init => NothingAhead
  BY LeaseAssumption DEF Init, NothingAhead, Never
<1>2. NothingAhead => /\ leaseExpires <= now + LeaseTTL
                      /\ \A s \in Specs : attempted[s] <= now
  BY DEF NothingAhead
<1> QED
  BY <1>1, <1>2, TypeInit, RecordCancelTypeStep, NothingAheadStep, PTL DEF RecordCancelSpec

(* The behaviours without such a cancellation are among these.             *)
LEMMA RecordsMayBeCancelled == Spec => RecordCancelSpec
  BY PTL DEF Spec, RecordCancelSpec, RecordCancelNext
=============================================================================
