----------------------------- MODULE SpecRegistry -----------------------------
(***************************************************************************)
(* One cached spec: the file under the cache root (cache.py), the parsed   *)
(* document and operation index of every server process (spec_loader.py),  *)
(* and the sweeps that rewrite the file (refresh_one of refresh.py).       *)
(*                                                                         *)
(* A document is its version.  The loader and the sweeper of a process     *)
(* share an event loop: a step lasts from one await to the next, and what  *)
(* asyncio.to_thread runs is a step of its own, which outlives the call    *)
(* that waited for it but not its process.                                 *)
(***************************************************************************)
EXTENDS Integers, FiniteSets

CONSTANTS
    Procs,          \* server processes
    Ops,            \* operation ids
    OpsOf,          \* OpsOf[v]: the operations version v declares
    FirstVersions,  \* versions the file may hold to begin with, 0 for none
    MaxVersion,     \* bound on the versions the deployment publishes
    MaxFaults       \* bound on cancelled, failing and rejected fetches and stops

Versions == 1..MaxVersion
Missing  == 0       \* no file, nothing loaded, no index entry
Rubbish  == -1      \* JSON that declares no operation: an error body, say
Answers  == Versions \cup {Rubbish}

VARIABLES
    upstream,       \* the version the deployment serves
    disk,           \* the version in the file
    loaded,         \* loaded[p]: _loaded
    indexed,        \* indexed[p]: the spec is in _indexed
    index,          \* index[p][o]: the version whose operation o _index holds
    load,           \* load[p]: where the load of p under the spec's lock is
    got,            \* got[p]: the version that load has fetched
    sweep,          \* sweep[p]: where the sweep of p is
    swept,          \* swept[p]: the version that sweep has fetched
    late,           \* late[p]: what its abandoned write_spec threads install
    faults

vars == <<upstream, disk, loaded, indexed, index, load, got, sweep, swept, late, faults>>

registry == <<loaded, indexed, index>>
loader   == <<load, got>>
sweeper  == <<sweep, swept>>

ASSUME VersionsAssumption ==
    /\ MaxVersion \in Nat \ {0} /\ MaxFaults \in Nat
    /\ FirstVersions \subseteq {Missing} \cup Versions
    /\ OpsOf \in [Versions -> (SUBSET Ops) \ {{}}]

NoOps == [o \in Ops |-> Missing]

(***************************************************************************)
(*   idle      no load, or no sweep of this spec, is under way             *)
(*   fetching  awaiting the download                                       *)
(*   writing   awaiting write_spec                                         *)
(*   wrote     write_spec has installed the document and has not returned  *)
(*   same      write_spec has found the same bytes in the file             *)
(***************************************************************************)
LoadPlaces  == {"idle", "fetching", "writing", "wrote"}
SweepPlaces == {"idle", "fetching", "writing", "wrote", "same"}

Init ==
    /\ upstream = 1
    /\ disk \in FirstVersions
    /\ loaded = [p \in Procs |-> Missing]
    /\ indexed = [p \in Procs |-> FALSE]
    /\ index = [p \in Procs |-> NoOps]
    /\ load = [p \in Procs |-> "idle"]
    /\ got = [p \in Procs |-> Missing]
    /\ sweep = [p \in Procs |-> "idle"]
    /\ swept = [p \in Procs |-> Missing]
    /\ late = [p \in Procs |-> {}]
    /\ faults = 0

(* The deployment publishes a new document.                                *)
Publish ==
    /\ upstream < MaxVersion
    /\ upstream' = upstream + 1
    /\ UNCHANGED <<disk, registry, loader, sweeper, late, faults>>

Faulty == faults < MaxFaults /\ faults' = faults + 1

(* What the deployment answers now, right or not.                          *)
Answer(v) == \/ v = upstream /\ UNCHANGED faults
             \/ v = Rubbish /\ Faulty

(* Mutant: validate_spec raises nothing.                                   *)
AcceptedAll(v) == v \in Answers

(* validate_spec: the document declares an operation.                      *)
Accepted(v) == v \in Versions /\ OpsOf[v] # {}

-----------------------------------------------------------------------------
(* _index_spec: skipped if the spec counts as indexed, and otherwise laid  *)
(* over what the index holds.                                              *)
IndexSpec(p, v) ==
    /\ index' = [index EXCEPT ![p] =
                    IF indexed[p] THEN @
                    ELSE [o \in Ops |-> IF o \in OpsOf[v] THEN v ELSE @[o]]]
    /\ indexed' = [indexed EXCEPT ![p] = TRUE]

Loads(p, v) == loaded' = [loaded EXCEPT ![p] = v] /\ IndexSpec(p, v)

(* The load of p is at `place', having fetched v.                          *)
LoadGoto(p, place, v) ==
    /\ load' = [load EXCEPT ![p] = place]
    /\ got' = [got EXCEPT ![p] = v]

(* get_spec, the file being there: no await between the check and the      *)
(* index.                                                                  *)
LoadFromDisk(p) ==
    /\ load[p] = "idle"
    /\ loaded[p] = Missing
    /\ disk # Missing
    /\ Loads(p, disk)
    /\ UNCHANGED <<upstream, disk, loader, sweeper, late, faults>>

LoadStart(p) ==
    /\ load[p] = "idle"
    /\ loaded[p] = Missing
    /\ disk = Missing
    /\ LoadGoto(p, "fetching", Missing)
    /\ UNCHANGED <<upstream, disk, registry, sweeper, late, faults>>

(* The deployment's answer, which the network may deliver long after.      *)
LoadAnswered(p) ==
    /\ load[p] = "fetching"
    /\ got[p] = Missing
    /\ \E v \in Answers : Answer(v) /\ LoadGoto(p, "fetching", v)
    /\ UNCHANGED <<upstream, disk, registry, sweeper, late>>

LoadArrives(p) ==
    /\ load[p] = "fetching"
    /\ got[p] # Missing
    /\ IF Accepted(got[p]) THEN LoadGoto(p, "writing", got[p])
                           ELSE LoadGoto(p, "idle", Missing)
    /\ UNCHANGED <<upstream, disk, registry, sweeper, late, faults>>

LoadWrites(p) ==
    /\ load[p] = "writing"
    /\ disk' = got[p]
    /\ LoadGoto(p, "wrote", got[p])
    /\ UNCHANGED <<upstream, registry, sweeper, late, faults>>

(* What get_spec keeps is what it fetched, whatever the file holds by now. *)
LoadEnds(p) ==
    /\ load[p] = "wrote"
    /\ Loads(p, got[p])
    /\ LoadGoto(p, "idle", Missing)
    /\ UNCHANGED <<upstream, disk, sweeper, late, faults>>

(* An HTTP error, no JSON, an OSError of the write, or a cancelled call:   *)
(* the spec stays unloaded.  The thread of a cancelled write goes on.      *)
LoadFails(p) ==
    /\ load[p] # "idle"
    /\ Faulty
    /\ \/ UNCHANGED late
       \/ load[p] = "writing" /\ late' = [late EXCEPT ![p] = @ \cup {got[p]}]
    /\ LoadGoto(p, "idle", Missing)
    /\ UNCHANGED <<upstream, disk, registry, sweeper>>

-----------------------------------------------------------------------------
SweepGoto(p, place, v) ==
    /\ sweep' = [sweep EXCEPT ![p] = place]
    /\ swept' = [swept EXCEPT ![p] = v]

(* A sweep covers what is cached, and RefreshSweep shows that one process  *)
(* sweeps at a time.                                                       *)
SweepStart(p) ==
    /\ \A q \in Procs : sweep[q] = "idle"
    /\ disk # Missing
    /\ SweepGoto(p, "fetching", Missing)
    /\ UNCHANGED <<upstream, disk, registry, loader, late, faults>>

SweepAnswered(p) ==
    /\ sweep[p] = "fetching"
    /\ swept[p] = Missing
    /\ \E v \in Answers : Answer(v) /\ SweepGoto(p, "fetching", v)
    /\ UNCHANGED <<upstream, disk, registry, loader, late>>

SweepArrives(p) ==
    /\ sweep[p] = "fetching"
    /\ swept[p] # Missing
    /\ IF Accepted(swept[p]) THEN SweepGoto(p, "writing", swept[p])
                             ELSE SweepGoto(p, "idle", Missing)
    /\ UNCHANGED <<upstream, disk, registry, loader, late, faults>>

(* Mutant: the document is compared with the one in memory.                *)
SameInMemory(p) == swept[p] = loaded[p]

(* write_spec leaves a file alone that has the same bytes.                 *)
SameOnDisk(p) == swept[p] = disk

SweepWrites(p) ==
    /\ sweep[p] = "writing"
    /\ disk' = IF SameOnDisk(p) THEN disk ELSE swept[p]
    /\ SweepGoto(p, IF SameOnDisk(p) THEN "same" ELSE "wrote", swept[p])
    /\ UNCHANGED <<upstream, registry, loader, late, faults>>

(* Mutants: the operations stay in _index, or nothing is invalidated.      *)
InvalidateKeepsIndex(p) ==
    /\ loaded' = [loaded EXCEPT ![p] = Missing]
    /\ indexed' = [indexed EXCEPT ![p] = FALSE]
    /\ UNCHANGED index

InvalidateNothing(p) == p \in Procs /\ UNCHANGED registry

Invalidate(p) ==
    /\ loaded' = [loaded EXCEPT ![p] = Missing]
    /\ indexed' = [indexed EXCEPT ![p] = FALSE]
    /\ index' = [index EXCEPT ![p] = NoOps]

SweepEnds(p) ==
    /\ \/ sweep[p] = "wrote" /\ Invalidate(p)
       \/ sweep[p] = "same" /\ UNCHANGED registry
    /\ SweepGoto(p, "idle", Missing)
    /\ UNCHANGED <<upstream, disk, loader, late, faults>>

(* The same errors (RefreshSweep has the row), or the server stops and its *)
(* sweep is cancelled: the thread of a cancelled write goes on here too.   *)
SweepFails(p) ==
    /\ sweep[p] \in {"fetching", "writing"}
    /\ Faulty
    /\ \/ UNCHANGED late
       \/ sweep[p] = "writing" /\ late' = [late EXCEPT ![p] = @ \cup {swept[p]}]
    /\ SweepGoto(p, "idle", Missing)
    /\ UNCHANGED <<upstream, disk, registry, loader>>

-----------------------------------------------------------------------------
(* A thread nobody waits for installs its document.                        *)
LateWrite(p, v) ==
    /\ v \in late[p]
    /\ late' = [late EXCEPT ![p] = @ \ {v}]
    /\ disk' = v
    /\ UNCHANGED <<upstream, registry, loader, sweeper, faults>>

(* The process stops, and its client starts another.                       *)
Restart(p) ==
    /\ Faulty
    /\ loaded' = [loaded EXCEPT ![p] = Missing]
    /\ indexed' = [indexed EXCEPT ![p] = FALSE]
    /\ index' = [index EXCEPT ![p] = NoOps]
    /\ LoadGoto(p, "idle", Missing)
    /\ SweepGoto(p, "idle", Missing)
    /\ late' = [late EXCEPT ![p] = {}]
    /\ UNCHANGED <<upstream, disk>>

Load(p) == \/ LoadFromDisk(p) \/ LoadStart(p) \/ LoadAnswered(p) \/ LoadArrives(p)
           \/ LoadWrites(p) \/ LoadEnds(p)

Sweep(p) == SweepAnswered(p) \/ SweepArrives(p) \/ SweepWrites(p) \/ SweepEnds(p)

Next == \/ Publish
        \/ \E p \in Procs : Load(p) \/ SweepStart(p) \/ Sweep(p)
                            \/ LoadFails(p) \/ SweepFails(p) \/ Restart(p)
                            \/ \E v \in Versions : LateWrite(p, v)

Spec == Init /\ [][Next]_vars

(* Fetches and threads end, late ones too.  Every interval some server     *)
(* sweeps and leaves nothing due for the others, so none is sure to sweep. *)
(* A call that loads is not fair: nobody need ever ask.                    *)
FairSpec == /\ Spec
            /\ WF_vars(\E p \in Procs : SweepStart(p))
            /\ \A p \in Procs : /\ WF_vars(LoadAnswered(p) \/ LoadArrives(p)
                                           \/ LoadWrites(p) \/ LoadEnds(p))
                                /\ WF_vars(Sweep(p))
                                /\ \A v \in Versions : WF_vars(LateWrite(p, v))

-----------------------------------------------------------------------------
(* Every variable keeps its type, and no write is without a document.      *)
TypeOK ==
    /\ upstream \in Versions
    /\ disk \in Versions \cup {Missing}
    /\ loaded \in [Procs -> Versions \cup {Missing}]
    /\ indexed \in [Procs -> BOOLEAN]
    /\ index \in [Procs -> [Ops -> Versions \cup {Missing}]]
    /\ load \in [Procs -> LoadPlaces]
    /\ got \in [Procs -> Answers \cup {Missing}]
    /\ \A p \in Procs : load[p] \in {"writing", "wrote"} => got[p] \in Versions
    /\ sweep \in [Procs -> SweepPlaces]
    /\ swept \in [Procs -> Answers \cup {Missing}]
    /\ \A p \in Procs : sweep[p] \in {"writing", "wrote", "same"} => swept[p] \in Versions
    /\ late \in [Procs -> SUBSET Versions]
    /\ faults \in Nat

(* The operations a server lists, describes and calls are exactly those of *)
(* the document it resolves their $refs in: _loaded, _indexed and _index   *)
(* agree, whatever loads and invalidations raced.                          *)
IndexMatchesLoaded ==
    \A p \in Procs :
        /\ indexed[p] <=> loaded[p] # Missing
        /\ \A o \in Ops :
              index[p][o] = IF loaded[p] # Missing /\ o \in OpsOf[loaded[p]]
                            THEN loaded[p] ELSE Missing

(* What list_operations returns, and get_operation finds.                  *)
Offered(p) == {o \in Ops : index[p][o] # Missing}

Service == INSTANCE SpecService WITH
    published <- upstream,
    file      <- disk,
    serving   <- loaded,
    offered   <- [p \in Procs |-> Offered(p)]

(* The servers implement the spec service: whatever the deployment         *)
(* answers, and whatever fails, is cancelled or comes late, a working      *)
(* document is only replaced by a working one that was published, and a    *)
(* server goes from the operations of one document to those of another     *)
(* without ever offering some of each.                                     *)
ImplementsService == Service!Spec

(* Once the deployment publishes no more, the cache holds what it serves,  *)
(* although loads and late threads may install an older document over a    *)
(* newer one.                                                              *)
DiskCatchesUp == <>[](disk \in {Missing, upstream})

(* refresh.py:215: a server whose sweep has installed a document serves    *)
(* that one from then on, or loads it when next asked, for as long as the  *)
(* file holds it.  Only a load of its own that had installed a document by *)
(* then, and not returned, keeps its own (spec_loader.py:131).             *)
SweeperCatchesUp ==
    \A p \in Procs, v \in Versions :
        [](/\ sweep[p] = "wrote" /\ swept[p] = v /\ load[p] # "wrote"
           /\ [](disk = v)
           => <>[](loaded[p] \in {Missing, v}))

-----------------------------------------------------------------------------
(* refresh.py:215: "without this the running server would serve the old    *)
(* document until it restarts".  Of two servers this does not hold: only   *)
(* the one that swept drops its document (README, section 5).              *)
EveryServerCatchesUp == \A p \in Procs : <>[](loaded[p] \in {Missing, upstream})
=============================================================================
