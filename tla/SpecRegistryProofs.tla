-------------------------- MODULE SpecRegistryProofs --------------------------
(***************************************************************************)
(* For any number of servers, operations and versions, and any faults: the *)
(* operations a server offers are those of one document, and the servers   *)
(* implement SpecService.                                                  *)
(***************************************************************************)
EXTENDS SpecRegistry, TLAPS

(* Every variable keeps its type (TypeOK). *)
LEMMA TypeInit == Init => TypeOK
BY VersionsAssumption DEF Init, TypeOK, Versions, Answers, Missing, Rubbish, NoOps,
   LoadPlaces, SweepPlaces

(* A load or a sweep keeps its type wherever it goes. *)
LEMMA TypeStep == TypeOK /\ [Next]_vars => TypeOK'
<1> SUFFICES ASSUME TypeOK, [Next]_vars PROVE TypeOK'
  OBVIOUS
<1> USE VersionsAssumption DEF TypeOK, Versions, Answers, Missing, Rubbish, LoadPlaces,
        SweepPlaces, registry, loader, sweeper
<1>1. CASE Publish
  BY <1>1 DEF Publish
<1>2. ASSUME NEW p \in Procs, LoadFromDisk(p) PROVE TypeOK'
  BY <1>2 DEF LoadFromDisk, Loads, IndexSpec
<1>3. ASSUME NEW p \in Procs, LoadStart(p) PROVE TypeOK'
  BY <1>3 DEF LoadStart, LoadGoto
<1>4. ASSUME NEW p \in Procs, LoadAnswered(p) PROVE TypeOK'
  BY <1>4 DEF LoadAnswered, LoadGoto, Answer, Faulty
<1>5. ASSUME NEW p \in Procs, LoadArrives(p) PROVE TypeOK'
  BY <1>5 DEF LoadArrives, LoadGoto, Accepted
<1>6. ASSUME NEW p \in Procs, LoadWrites(p) PROVE TypeOK'
  BY <1>6 DEF LoadWrites, LoadGoto
<1>7. ASSUME NEW p \in Procs, LoadEnds(p) PROVE TypeOK'
  BY <1>7 DEF LoadEnds, LoadGoto, Loads, IndexSpec
<1>8. ASSUME NEW p \in Procs, LoadFails(p) PROVE TypeOK'
  <2>1. load[p] = "writing" => got[p] \in Versions
    OBVIOUS
  <2>2. late' \in [Procs -> SUBSET Versions]
    BY <1>8, <2>1 DEF LoadFails
  <2>3. /\ load' = [load EXCEPT ![p] = "idle"] /\ got' = [got EXCEPT ![p] = Missing]
        /\ faults' = faults + 1
        /\ UNCHANGED <<upstream, disk, loaded, indexed, index, sweep, swept>>
    BY <1>8 DEF LoadFails, LoadGoto, Faulty
  <2> QED
    BY <2>2, <2>3
<1>9. ASSUME NEW p \in Procs, SweepStart(p) PROVE TypeOK'
  BY <1>9 DEF SweepStart, SweepGoto
<1>10. ASSUME NEW p \in Procs, SweepAnswered(p) PROVE TypeOK'
  BY <1>10 DEF SweepAnswered, SweepGoto, Answer, Faulty
<1>11. ASSUME NEW p \in Procs, SweepArrives(p) PROVE TypeOK'
  BY <1>11 DEF SweepArrives, SweepGoto, Accepted
<1>12. ASSUME NEW p \in Procs, SweepWrites(p) PROVE TypeOK'
  BY <1>12 DEF SweepWrites, SweepGoto, SameOnDisk
<1>13. ASSUME NEW p \in Procs, SweepEnds(p) PROVE TypeOK'
  <2>1. NoOps \in [Ops -> Versions \cup {Missing}]
    BY DEF NoOps
  <2>2. UNCHANGED registry \/ Invalidate(p)
    BY <1>13 DEF SweepEnds
  <2>3. /\ loaded' \in [Procs -> Versions \cup {Missing}]
        /\ indexed' \in [Procs -> BOOLEAN]
        /\ index' \in [Procs -> [Ops -> Versions \cup {Missing}]]
    <3>1. CASE UNCHANGED registry
      BY <3>1
    <3>2. CASE Invalidate(p)
      <4>1. loaded' \in [Procs -> Versions \cup {Missing}]
        BY <3>2 DEF Invalidate
      <4>2. indexed' \in [Procs -> BOOLEAN]
        BY <3>2 DEF Invalidate
      <4>3. index' = [index EXCEPT ![p] = NoOps]
        BY <3>2 DEF Invalidate
      <4> HIDE DEF Versions
      <4>4. index' \in [Procs -> [Ops -> Versions \cup {Missing}]]
        BY <2>1, <4>3
      <4> QED
        BY <4>1, <4>2, <4>4
    <3> QED
      BY <2>2, <3>1, <3>2
  <2> QED
    BY <1>13, <2>3 DEF SweepEnds, SweepGoto
<1>14. ASSUME NEW p \in Procs, SweepFails(p) PROVE TypeOK'
  <2>1. sweep[p] = "writing" => swept[p] \in Versions
    OBVIOUS
  <2>2. late' \in [Procs -> SUBSET Versions]
    BY <1>14, <2>1 DEF SweepFails
  <2>3. /\ sweep' = [sweep EXCEPT ![p] = "idle"] /\ swept' = [swept EXCEPT ![p] = Missing]
        /\ faults' = faults + 1
        /\ UNCHANGED <<upstream, disk, loaded, indexed, index, load, got>>
    BY <1>14 DEF SweepFails, SweepGoto, Faulty
  <2> QED
    BY <2>2, <2>3
<1>15. ASSUME NEW p \in Procs, Restart(p) PROVE TypeOK'
  BY <1>15 DEF Restart, LoadGoto, SweepGoto, NoOps, Faulty
<1>16. ASSUME NEW p \in Procs, NEW v \in Versions, LateWrite(p, v) PROVE TypeOK'
  BY <1>16 DEF LateWrite
<1>17. CASE UNCHANGED vars
  BY <1>17 DEF vars
<1> QED
  BY <1>1, <1>2, <1>3, <1>4, <1>5, <1>6, <1>7, <1>8, <1>9, <1>10, <1>11, <1>12, <1>13,
     <1>14, <1>15, <1>16, <1>17 DEF Next, Load, Sweep

(* Every reachable state is of the type the spec registry's variables      *)
(* have: no write is ever without a document (TypeOK).                     *)
THEOREM TypeCorrect == Spec => []TypeOK
BY TypeInit, TypeStep, PTL DEF Spec
-----------------------------------------------------------------------------
(* Nothing fetched is newer than what was published, and a load is under   *)
(* way only where nothing is loaded.                                       *)
Published == \A p \in Procs : /\ got[p] <= upstream
                              /\ swept[p] <= upstream
                              /\ \A v \in late[p] : v <= upstream

LoadsTheMissing == \A p \in Procs : load[p] # "idle" => loaded[p] = Missing

Inv == TypeOK /\ Published /\ LoadsTheMissing /\ IndexMatchesLoaded

(* To begin with nothing is fetched and nothing loaded.                    *)
LEMMA InvInit == Init => Inv
BY TypeInit, VersionsAssumption
   DEF Init, Inv, Published, LoadsTheMissing, IndexMatchesLoaded, NoOps, Missing, Versions

(* A fetch brings back at most what the deployment serves by then.         *)
LEMMA PublishedStep == Inv /\ [Next]_vars => Published'
<1> SUFFICES ASSUME Inv, [Next]_vars PROVE Published'
  OBVIOUS
<1> USE VersionsAssumption
        DEF Inv, Published, TypeOK, registry, loader, sweeper, Missing, Rubbish, Versions, Answers
<1>1. CASE Publish
  BY <1>1 DEF Publish
<1>2. ASSUME NEW p \in Procs, Load(p) PROVE Published'
  <2>1. CASE LoadFromDisk(p) \/ LoadWrites(p)
    BY <2>1 DEF LoadFromDisk, LoadWrites, LoadGoto
  <2>2. CASE LoadStart(p) \/ LoadEnds(p)
    BY <2>2 DEF LoadStart, LoadEnds, LoadGoto
  <2>3. CASE LoadArrives(p)
    <3>1. CASE Accepted(got[p])
      BY <2>3, <3>1 DEF LoadArrives, LoadGoto
    <3>2. CASE ~Accepted(got[p])
      BY <2>3, <3>2 DEF LoadArrives, LoadGoto
    <3> QED
      BY <3>1, <3>2
  <2>4. CASE LoadAnswered(p)
    BY <2>4 DEF LoadAnswered, LoadGoto, Answer
  <2> QED
    BY <1>2, <2>1, <2>2, <2>3, <2>4 DEF Load
<1>3. ASSUME NEW p \in Procs, SweepStart(p) \/ Sweep(p) PROVE Published'
  <2>1. CASE SweepStart(p)
    BY <2>1 DEF SweepStart, SweepGoto
  <2>2. CASE SweepAnswered(p)
    BY <2>2 DEF SweepAnswered, SweepGoto, Answer
  <2>3. CASE SweepArrives(p)
    <3>1. CASE Accepted(swept[p])
      BY <2>3, <3>1 DEF SweepArrives, SweepGoto
    <3>2. CASE ~Accepted(swept[p])
      BY <2>3, <3>2 DEF SweepArrives, SweepGoto
    <3> QED
      BY <3>1, <3>2
  <2>4. CASE SweepWrites(p)
    BY <2>4 DEF SweepWrites, SweepGoto
  <2>5. CASE SweepEnds(p)
    BY <2>5 DEF SweepEnds, SweepGoto
  <2> QED
    BY <1>3, <2>1, <2>2, <2>3, <2>4, <2>5 DEF Sweep
<1>4. ASSUME NEW p \in Procs, LoadFails(p) PROVE Published'
  <2>1. got' = [got EXCEPT ![p] = Missing] /\ UNCHANGED <<upstream, swept>>
    BY <1>4 DEF LoadFails, LoadGoto
  <2>2. late' = late \/ late' = [late EXCEPT ![p] = @ \cup {got[p]}]
    BY <1>4 DEF LoadFails
  <2>3. \A q \in Procs : got'[q] <= upstream' /\ swept'[q] <= upstream'
    BY <2>1
  <2>4. \A q \in Procs : \A v \in late'[q] : v \in late[q] \/ v = got[q]
    BY <2>2
  <2> QED
    BY <2>1, <2>3, <2>4
<1>5. ASSUME NEW p \in Procs, SweepFails(p) \/ Restart(p) PROVE Published'
  <2>1. CASE SweepFails(p)
    <3>1. swept' = [swept EXCEPT ![p] = Missing] /\ UNCHANGED <<upstream, got>>
      BY <2>1 DEF SweepFails, SweepGoto
    <3>2. late' = late \/ late' = [late EXCEPT ![p] = @ \cup {swept[p]}]
      BY <2>1 DEF SweepFails
    <3>3. \A q \in Procs : got'[q] <= upstream' /\ swept'[q] <= upstream'
      BY <3>1
    <3>4. \A q \in Procs : \A v \in late'[q] : v \in late[q] \/ v = swept[q]
      BY <3>2
    <3> QED
      BY <3>1, <3>3, <3>4
  <2>2. CASE Restart(p)
    BY <2>2 DEF Restart, LoadGoto, SweepGoto
  <2> QED
    BY <1>5, <2>1, <2>2
<1>6. ASSUME NEW p \in Procs, NEW v \in Versions, LateWrite(p, v) PROVE Published'
  BY <1>6 DEF LateWrite
<1>7. CASE UNCHANGED vars
  BY <1>7 DEF vars
<1> QED
  BY <1>1, <1>2, <1>3, <1>4, <1>5, <1>6, <1>7 DEF Next

(* A load ends in the step that loads, and none starts where one did.      *)
LEMMA LoadsStep == Inv /\ [Next]_vars => LoadsTheMissing'
<1> SUFFICES ASSUME Inv, [Next]_vars PROVE LoadsTheMissing'
  OBVIOUS
<1> USE DEF Inv, LoadsTheMissing, TypeOK, registry, loader, sweeper
<1>1. ASSUME NEW p \in Procs, Load(p) PROVE LoadsTheMissing'
  BY <1>1 DEF Load, LoadFromDisk, LoadStart, LoadAnswered, LoadArrives, LoadWrites, LoadEnds,
     LoadGoto, Loads
<1>2. ASSUME NEW p \in Procs, SweepStart(p) \/ Sweep(p) PROVE LoadsTheMissing'
  BY <1>2 DEF SweepStart, Sweep, SweepAnswered, SweepArrives, SweepWrites, SweepEnds, Invalidate
<1>3. ASSUME NEW p \in Procs, LoadFails(p) \/ SweepFails(p) \/ Restart(p) PROVE LoadsTheMissing'
  BY <1>3 DEF LoadFails, SweepFails, Restart, LoadGoto
<1>4. CASE Publish \/ UNCHANGED vars \/ \E p \in Procs : \E v \in Versions : LateWrite(p, v)
  BY <1>4 DEF Publish, vars, LateWrite
<1> QED
  BY <1>1, <1>2, <1>3, <1>4 DEF Next

-----------------------------------------------------------------------------
(* A server that had nothing works with one document.                      *)
LEMMA LoadsKeepTheMatch ==
    ASSUME Inv, NEW p \in Procs, NEW v \in Versions, loaded[p] = Missing, Loads(p, v)
    PROVE  IndexMatchesLoaded'
<1> USE VersionsAssumption DEF Inv, TypeOK, IndexMatchesLoaded, Missing
<1>1. indexed[p] = FALSE /\ \A o \in Ops : index[p][o] = Missing
  OBVIOUS
<1>2. /\ loaded' = [loaded EXCEPT ![p] = v]
      /\ indexed' = [indexed EXCEPT ![p] = TRUE]
      /\ index' = [index EXCEPT ![p] = [o \in Ops |-> IF o \in OpsOf[v] THEN v ELSE @[o]]]
  BY <1>1 DEF Loads, IndexSpec
<1>3. v # Missing
  BY DEF Versions
<1> QED
  BY <1>1, <1>2, <1>3

(* An invalidation leaves a server with nothing at all.                    *)
LEMMA InvalidationKeepsTheMatch ==
    ASSUME Inv, NEW p \in Procs, Invalidate(p)
    PROVE  IndexMatchesLoaded'
BY DEF Inv, TypeOK, IndexMatchesLoaded, Invalidate, NoOps, Missing

(* Where nothing of the registry changes, it matches as it did.            *)
LEMMA RegistryKept ==
    ASSUME IndexMatchesLoaded, UNCHANGED registry
    PROVE  IndexMatchesLoaded'
BY DEF IndexMatchesLoaded, registry

(* Only four steps touch a registry, each of them whole.                   *)
LEMMA IndexStep == Inv /\ [Next]_vars => IndexMatchesLoaded'
<1> SUFFICES ASSUME Inv, [Next]_vars PROVE IndexMatchesLoaded'
  OBVIOUS
<1>0. IndexMatchesLoaded
  BY DEF Inv
<1>1. ASSUME NEW p \in Procs, LoadFromDisk(p) PROVE IndexMatchesLoaded'
  <2>1. disk \in Versions /\ loaded[p] = Missing /\ Loads(p, disk)
    BY <1>1 DEF LoadFromDisk, Inv, TypeOK
  <2> QED
    BY <2>1, LoadsKeepTheMatch
<1>2. ASSUME NEW p \in Procs, LoadEnds(p) PROVE IndexMatchesLoaded'
  <2>1. got[p] \in Versions /\ loaded[p] = Missing /\ Loads(p, got[p])
    BY <1>2 DEF LoadEnds, Inv, TypeOK, LoadsTheMissing
  <2> QED
    BY <2>1, LoadsKeepTheMatch
<1>3. ASSUME NEW p \in Procs, SweepEnds(p) PROVE IndexMatchesLoaded'
  BY <1>0, <1>3, InvalidationKeepsTheMatch, RegistryKept DEF SweepEnds
<1>4. ASSUME NEW p \in Procs, Restart(p) PROVE IndexMatchesLoaded'
  <2>1. Invalidate(p)
    BY <1>4 DEF Restart, Invalidate
  <2> QED
    BY <2>1, InvalidationKeepsTheMatch
<1>5. ASSUME UNCHANGED registry PROVE IndexMatchesLoaded'
  BY <1>0, <1>5, RegistryKept
<1>6. \/ UNCHANGED registry
      \/ \E p \in Procs : LoadFromDisk(p) \/ LoadEnds(p) \/ SweepEnds(p) \/ Restart(p)
  BY DEF Next, vars, registry, Publish, Load, LoadStart, LoadAnswered, LoadArrives, LoadWrites,
     SweepStart, Sweep, SweepAnswered, SweepArrives, SweepWrites, LoadFails, SweepFails, LateWrite
<1> QED
  BY <1>1, <1>2, <1>3, <1>4, <1>5, <1>6

(* The invariant in full.                                                  *)
LEMMA InvAlways == Spec => []Inv
<1>1. Inv /\ [Next]_vars => Inv'
  BY TypeStep, PublishedStep, IndexStep, LoadsStep DEF Inv
<1> QED
  BY <1>1, InvInit, PTL DEF Spec

(* The operations a server lists, describes and calls are always those of  *)
(* the one document it resolves references in (IndexMatchesLoaded).        *)
THEOREM IndexCorrect == Spec => []IndexMatchesLoaded
<1>1. Inv => IndexMatchesLoaded
  BY DEF Inv
<1> QED
  BY <1>1, InvAlways, PTL

-----------------------------------------------------------------------------
(* What a server offers is what its document declares.                     *)
LEMMA OfferedByDocument ==
    ASSUME TypeOK, IndexMatchesLoaded
    PROVE  \A p \in Procs : Offered(p) = IF loaded[p] = Missing THEN {} ELSE OpsOf[loaded[p]]
BY VersionsAssumption DEF TypeOK, IndexMatchesLoaded, Offered, Missing, Versions

(* The servers start as the service does.                                  *)
LEMMA ServiceInit == Init => Service!Init
BY VersionsAssumption DEF Init, Service!Init, Service!Versions, Versions, Offered, NoOps, Missing

(* Every step of the servers is one of the service, or none.               *)
LEMMA ServiceStep == Inv /\ Inv' /\ [Next]_vars => [Service!Next]_(Service!vars)
<1> SUFFICES ASSUME Inv, Inv', [Next]_vars PROVE [Service!Next]_(Service!vars)
  OBVIOUS
<1> DEFINE offers == [p \in Procs |-> Offered(p)]
           declares == [p \in Procs |-> IF loaded[p] = Missing THEN {} ELSE OpsOf[loaded[p]]]
<1>1. offers = declares
  BY OfferedByDocument DEF Inv
<1>2. offers' = declares'
  <2>1. \A p \in Procs : Offered(p)' = (IF loaded[p] = Missing THEN {} ELSE OpsOf[loaded[p]])'
    BY VersionsAssumption DEF Inv, TypeOK, IndexMatchesLoaded, Offered, Missing, Versions
  <2> QED
    BY <2>1
<1>3. ASSUME UNCHANGED loaded PROVE UNCHANGED offers
  <2>1. declares' = declares
    BY <1>3
  <2> QED
    BY <1>1, <1>2, <2>1
<1>4. ASSUME NEW p \in Procs, NEW v \in (1..upstream) \cup ({disk} \ {Missing}),
             loaded[p] = Missing, loaded' = [loaded EXCEPT ![p] = v],
             UNCHANGED <<upstream, disk>>
      PROVE  Service!Serve(p)
  <2>1. v # Missing
    BY DEF Missing
  <2>2. declares' = [declares EXCEPT ![p] = OpsOf[v]]
    BY <1>4, <2>1 DEF Inv, TypeOK
  <2>3. offers' = [offers EXCEPT ![p] = OpsOf[v]]
    BY <1>1, <1>2, <2>2
  <2> QED
    BY <1>4, <2>3 DEF Service!Serve
<1>5. ASSUME NEW p \in Procs, loaded' = [loaded EXCEPT ![p] = Missing],
             UNCHANGED <<upstream, disk>>
      PROVE  Service!Drop(p)
  <2>1. declares' = [declares EXCEPT ![p] = {}]
    BY <1>5 DEF Inv, TypeOK
  <2>2. offers' = [offers EXCEPT ![p] = {}]
    BY <1>1, <1>2, <2>1
  <2> QED
    BY <1>5, <2>2 DEF Service!Drop
<1>6. ASSUME disk' \in 1..upstream, UNCHANGED <<upstream, loaded>> PROVE Service!Install
  BY <1>3, <1>6 DEF Service!Install
<1>7. ASSUME UNCHANGED <<upstream, disk, loaded>> PROVE UNCHANGED Service!vars
  BY <1>3, <1>7 DEF Service!vars
<1>8. ASSUME Publish PROVE Service!Publish
  BY <1>3, <1>8 DEF Publish, registry, Service!Publish
<1>9. ASSUME NEW p \in Procs, LoadFromDisk(p) PROVE Service!Serve(p)
  BY <1>4, <1>9 DEF LoadFromDisk, Loads
<1>10. ASSUME NEW p \in Procs, LoadWrites(p) \/ SweepWrites(p)
       PROVE  Service!Install \/ UNCHANGED Service!vars
  BY <1>6, <1>7, <1>10 DEF LoadWrites, SweepWrites, registry, Inv, TypeOK, Published, Versions
<1>11. ASSUME NEW p \in Procs, LoadEnds(p) PROVE Service!Serve(p)
  <2>1. got[p] \in 1..upstream /\ loaded[p] = Missing
    BY <1>11 DEF LoadEnds, Inv, TypeOK, Published, LoadsTheMissing, Versions
  <2> QED
    BY <1>4, <1>11, <2>1 DEF LoadEnds, Loads
<1>12. ASSUME NEW p \in Procs, SweepEnds(p) PROVE Service!Drop(p) \/ UNCHANGED Service!vars
  BY <1>5, <1>7, <1>12 DEF SweepEnds, Invalidate, registry
<1>13. ASSUME NEW p \in Procs, Restart(p) PROVE Service!Drop(p)
  BY <1>5, <1>13 DEF Restart
<1>14. ASSUME NEW p \in Procs, NEW v \in Versions, LateWrite(p, v) PROVE Service!Install
  BY <1>6, <1>14 DEF LateWrite, registry, Inv, TypeOK, Published, Versions
<1>15. ASSUME NEW p \in Procs,
              \/ LoadStart(p) \/ LoadAnswered(p) \/ LoadArrives(p) \/ LoadFails(p)
              \/ SweepStart(p) \/ SweepAnswered(p) \/ SweepArrives(p) \/ SweepFails(p)
       PROVE  UNCHANGED Service!vars
  BY <1>7, <1>15 DEF LoadStart, LoadAnswered, LoadArrives, LoadFails, SweepStart, SweepAnswered,
     SweepArrives, SweepFails, registry
<1>16. CASE UNCHANGED vars
  BY <1>7, <1>16 DEF vars
<1> HIDE DEF offers, declares
<1> QED
  BY <1>8, <1>9, <1>10, <1>11, <1>12, <1>13, <1>14, <1>15, <1>16
     DEF Next, Load, Sweep, Service!Next

(* The servers implement the spec service: a working document is replaced  *)
(* only by one that was published, and no server ever offers the           *)
(* operations of two documents (ImplementsService).                        *)
THEOREM ServiceImplemented == Spec => ImplementsService
BY ServiceInit, ServiceStep, InvAlways, PTL DEF Spec, ImplementsService, Service!Spec

-----------------------------------------------------------------------------
(***************************************************************************)
(* Why the cache catches up.  A document is under way in a server while it *)
(* is fetched and not written yet, by a load, a sweep or a thread that     *)
(* nobody waits for.                                                       *)
(***************************************************************************)
UnderWay(p, v) ==
    \/ load[p] \in {"fetching", "writing"} /\ got[p] = v
    \/ sweep[p] \in {"fetching", "writing"} /\ swept[p] = v
    \/ v \in late[p]

(* Those under way that the deployment has replaced since.                 *)
Outdated == {pv \in Procs \X Versions : pv[2] < upstream /\ UnderWay(pv[1], pv[2])}

(* What comes under way is what the deployment serves.                     *)
LEMMA UnderWayStep ==
    ASSUME Inv, [Next]_vars, NEW p \in Procs, NEW v \in Versions, UnderWay(p, v)'
    PROVE  UnderWay(p, v) \/ v = upstream
<1> USE VersionsAssumption
        DEF Inv, TypeOK, UnderWay, Versions, Answers, Missing, Rubbish, loader, sweeper
<1>1. ASSUME NEW q \in Procs, LoadStart(q) \/ LoadAnswered(q) PROVE UnderWay(p, v) \/ v = upstream
  BY <1>1 DEF LoadStart, LoadAnswered, LoadGoto, Answer
<1>2. ASSUME NEW q \in Procs, LoadArrives(q) PROVE UnderWay(p, v)
  <2>1. load[q] = "fetching" /\ UNCHANGED <<sweep, swept, late>>
    BY <1>2 DEF LoadArrives
  <2>2. CASE load' = [load EXCEPT ![q] = "writing"] /\ got' = [got EXCEPT ![q] = got[q]]
    BY <2>1, <2>2
  <2>3. CASE load' = [load EXCEPT ![q] = "idle"] /\ got' = [got EXCEPT ![q] = 0]
    BY <2>1, <2>3
  <2> QED
    BY <1>2, <2>2, <2>3 DEF LoadArrives, LoadGoto
<1>3. ASSUME NEW q \in Procs, LoadWrites(q) \/ LoadEnds(q) PROVE UnderWay(p, v)
  BY <1>3 DEF LoadWrites, LoadEnds, LoadGoto
<1>4. ASSUME NEW q \in Procs, LoadFails(q) PROVE UnderWay(p, v)
  <2>1. /\ load' = [load EXCEPT ![q] = "idle"] /\ got' = [got EXCEPT ![q] = 0]
        /\ UNCHANGED <<sweep, swept>>
    BY <1>4 DEF LoadFails, LoadGoto
  <2>2. CASE UNCHANGED late
    BY <2>1, <2>2
  <2>3. CASE load[q] = "writing" /\ late' = [late EXCEPT ![q] = @ \cup {got[q]}]
    BY <2>1, <2>3
  <2> QED
    BY <1>4, <2>2, <2>3 DEF LoadFails
<1>5. ASSUME NEW q \in Procs, SweepStart(q) \/ SweepAnswered(q) PROVE UnderWay(p, v) \/ v = upstream
  BY <1>5 DEF SweepStart, SweepAnswered, SweepGoto, Answer
<1>6. ASSUME NEW q \in Procs, SweepArrives(q) PROVE UnderWay(p, v)
  <2>1. sweep[q] = "fetching" /\ UNCHANGED <<load, got, late>>
    BY <1>6 DEF SweepArrives
  <2>2. CASE sweep' = [sweep EXCEPT ![q] = "writing"] /\ swept' = [swept EXCEPT ![q] = swept[q]]
    BY <2>1, <2>2
  <2>3. CASE sweep' = [sweep EXCEPT ![q] = "idle"] /\ swept' = [swept EXCEPT ![q] = 0]
    BY <2>1, <2>3
  <2> QED
    BY <1>6, <2>2, <2>3 DEF SweepArrives, SweepGoto
<1>7. ASSUME NEW q \in Procs, SweepWrites(q) \/ SweepEnds(q) PROVE UnderWay(p, v)
  BY <1>7 DEF SweepWrites, SweepEnds, SweepGoto
<1>8. ASSUME NEW q \in Procs, SweepFails(q) PROVE UnderWay(p, v)
  <2>1. /\ sweep' = [sweep EXCEPT ![q] = "idle"] /\ swept' = [swept EXCEPT ![q] = 0]
        /\ UNCHANGED <<load, got>>
    BY <1>8 DEF SweepFails, SweepGoto
  <2>2. CASE UNCHANGED late
    BY <2>1, <2>2
  <2>3. CASE sweep[q] = "writing" /\ late' = [late EXCEPT ![q] = @ \cup {swept[q]}]
    BY <2>1, <2>3
  <2> QED
    BY <1>8, <2>2, <2>3 DEF SweepFails
<1>9. ASSUME NEW q \in Procs, Restart(q) PROVE UnderWay(p, v)
  BY <1>9 DEF Restart, LoadGoto, SweepGoto
<1>10. ASSUME NEW q \in Procs, NEW w \in Versions, LateWrite(q, w) PROVE UnderWay(p, v)
  BY <1>10 DEF LateWrite
<1>11. ASSUME Publish \/ UNCHANGED vars \/ \E q \in Procs : LoadFromDisk(q) PROVE UnderWay(p, v)
  BY <1>11 DEF Publish, LoadFromDisk, vars
<1> QED
  BY <1>1, <1>2, <1>3, <1>4, <1>5, <1>6, <1>7, <1>8, <1>9, <1>10, <1>11 DEF Next, Load, Sweep

(* What is installed was under way, and is none that was not published.    *)
LEMMA InstalledWasUnderWay ==
    ASSUME Inv, [Next]_vars, disk' # disk
    PROVE  /\ disk' \in Versions /\ disk' <= upstream
           /\ \E p \in Procs : UnderWay(p, disk')
<1> USE DEF Inv, TypeOK, Published, UnderWay
<1>1. ASSUME NEW p \in Procs, LoadWrites(p)
      PROVE  disk' \in Versions /\ disk' <= upstream /\ UnderWay(p, disk')
  BY <1>1 DEF LoadWrites
<1>2. ASSUME NEW p \in Procs, SweepWrites(p)
      PROVE  disk' \in Versions /\ disk' <= upstream /\ UnderWay(p, disk')
  BY <1>2 DEF SweepWrites
<1>3. ASSUME NEW p \in Procs, NEW v \in Versions, LateWrite(p, v)
      PROVE  disk' \in Versions /\ disk' <= upstream /\ UnderWay(p, disk')
  BY <1>3 DEF LateWrite
<1>4. \/ \E p \in Procs : LoadWrites(p) \/ SweepWrites(p)
      \/ \E p \in Procs : \E v \in Versions : LateWrite(p, v)
  BY DEF Next, vars, Publish, Load, LoadFromDisk, LoadStart, LoadAnswered, LoadArrives, LoadEnds,
     SweepStart, Sweep, SweepAnswered, SweepArrives, SweepEnds, LoadFails, SweepFails, Restart
<1> QED
  BY <1>1, <1>2, <1>3, <1>4

(* While the deployment publishes nothing, outdated documents only become  *)
(* fewer, whatever fails, is cancelled or comes late; and what is written  *)
(* to the file is what the deployment serves, or one of those.  So once    *)
(* they are through, the file never goes back: the safety behind           *)
(* DiskCatchesUp.                                                          *)
THEOREM OldDocumentsDieOut ==
    Spec => [][upstream' = upstream =>
                  /\ Outdated' \subseteq Outdated
                  /\ disk' # disk => \/ disk' = upstream
                                    \/ \E p \in Procs : <<p, disk'>> \in Outdated]_vars
<1>1. Inv /\ [Next]_vars =>
         [upstream' = upstream =>
             /\ Outdated' \subseteq Outdated
             /\ disk' # disk => \/ disk' = upstream
                               \/ \E p \in Procs : <<p, disk'>> \in Outdated]_vars
  <2> SUFFICES ASSUME Inv, [Next]_vars, upstream' = upstream
               PROVE  /\ Outdated' \subseteq Outdated
                      /\ disk' # disk => \/ disk' = upstream
                                        \/ \E p \in Procs : <<p, disk'>> \in Outdated
    OBVIOUS
  <2>0. upstream \in Int
    BY VersionsAssumption DEF Inv, TypeOK, Versions
  <2>1. Outdated' \subseteq Outdated
    <3> SUFFICES ASSUME NEW p \in Procs, NEW v \in Versions, v < upstream, UnderWay(p, v)'
                 PROVE  UnderWay(p, v)
      BY DEF Outdated
    <3> QED
      BY <2>0, UnderWayStep
  <2>2. ASSUME disk' # disk, disk' # upstream
        PROVE  \E p \in Procs : <<p, disk'>> \in Outdated
    <3>1. PICK p \in Procs : UnderWay(p, disk')
      BY <2>2, InstalledWasUnderWay
    <3>2. disk' \in Versions /\ disk' < upstream
      BY <2>0, <2>2, InstalledWasUnderWay DEF Versions
    <3> QED
      BY <3>1, <3>2 DEF Outdated
  <2> QED
    BY <2>1, <2>2
<1> QED
  BY <1>1, InvAlways, PTL DEF Spec
=============================================================================
