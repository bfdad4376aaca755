------------------------- MODULE TokenProviderProofs -------------------------
(***************************************************************************)
(* Theorems about TokenProvider, for any processes, tasks, keys, lifetimes *)
(* and bounds, and in the end about TokenLogout, which has its state.      *)
(***************************************************************************)
EXTENDS TokenLogout, TLAPS

USE DEF Location, Inside, Fetching, Minting, clock, locks

(* Taking an element out of a sequence leaves a sequence over the same set. *)
LEMMA RemoveAtType ==
    ASSUME NEW S, NEW s \in Seq(S), NEW i \in DOMAIN s
    PROVE  RemoveAt(s, i) \in Seq(S)
  BY DEF RemoveAt

(* What a helper mints is a token. *)
LEMMA MintedType ==
    ASSUME TypeOK, NEW k \in Keys, NEW life \in Int
    PROVE  Minted(k, life) \in Token
  BY DEF TypeOK, Minted, Token

(* The types hold to begin with. *)
LEMMA TypeInit == Init => TypeOK
  BY DEF Init, TypeOK

(* No step leaves the types. *)
LEMMA TypeStep == TypeOK /\ [Next]_vars => TypeOK'
<1> SUFFICES ASSUME TypeOK, [Next]_vars
             PROVE  TypeOK'
  OBVIOUS
<1> USE ProcOfAssumption, TimesAssumption DEF TypeOK
<1>1. ASSUME NEW t \in Tasks, NEW k \in Keys, Hit(t, k) PROVE TypeOK'
  <2>1. memory[ProcOf[t]][k] \in Token
    BY <1>1 DEF Hit, Fresh
  <2> QED
    BY <1>1, <2>1 DEF Hit
<1>2. ASSUME NEW t \in Tasks, NEW k \in Keys, Enter(t, k) PROVE TypeOK'
  BY <1>2 DEF Enter
<1>3. ASSUME NEW t \in Tasks, NEW k \in Keys, Enqueue(t, k) PROVE TypeOK'
  BY <1>3 DEF Enqueue
<1>4. ASSUME NEW t \in Tasks, Wake(t) PROVE TypeOK'
  <2>1. waiters' \in [Procs -> [Keys -> Seq(Tasks)]]
    BY <1>4 DEF Wake
  <2>2. CASE Fresh(memory[ProcOf[t]][req[t]])
    <3>1. memory[ProcOf[t]][req[t]] \in Token
      BY <2>2 DEF Fresh
    <3> QED
      BY <1>4, <2>1, <2>2, <3>1 DEF Wake
  <2>3. CASE ~Fresh(memory[ProcOf[t]][req[t]])
    BY <1>4, <2>1, <2>3 DEF Wake
  <2> QED
    BY <2>2, <2>3
<1>5. ASSUME NEW t \in Tasks, Acquire(t) PROVE TypeOK'
  BY <1>5 DEF Acquire
<1>6. ASSUME NEW t \in Tasks, AcquireFails(t) PROVE TypeOK'
  BY <1>6 DEF AcquireFails
<1>7. ASSUME NEW t \in Tasks, Resume(t) PROVE TypeOK'
  <2>1. CASE Fresh(disk[req[t]])
    <3>1. disk[req[t]] \in Token
      BY <2>1 DEF Fresh
    <3>2. Released(t) \in [Keys -> Tasks \cup Procs \cup {Nobody}]
      BY DEF Released
    <3>3. /\ memory' = [memory EXCEPT ![ProcOf[t]][req[t]] = disk[req[t]]]
          /\ tok' = [tok EXCEPT ![t] = disk[req[t]]]
          /\ pc' = [pc EXCEPT ![t] = "calling"]
          /\ fileLock' = Released(t)
          /\ UNCHANGED <<now, minted, disk, waiters, orphans, req, refused, blind>>
      BY <1>7, <2>1 DEF Resume, OnDisk
    <3>4. memory' \in [Procs -> [Keys -> Token \cup {NoToken}]]
      BY <3>1, <3>3
    <3>5. \A u \in Tasks : pc'[u] \in {"staged", "calling"} => tok'[u] \in Token
      BY <3>1, <3>3
    <3>6. blind' \subseteq {u \in Tasks : pc'[u] \in Minting}
      BY <1>7, <3>3 DEF Resume
    <3> QED
      BY <3>1, <3>2, <3>3, <3>4, <3>5, <3>6
  <2>2. CASE ~Fresh(disk[req[t]])
    BY <1>7, <2>2 DEF Resume, OnDisk
  <2> QED
    BY <2>1, <2>2
<1>22. ASSUME NEW t \in Tasks, ReadFails(t) PROVE TypeOK'
  BY <1>22 DEF ReadFails
<1>8. ASSUME NEW t \in Tasks, HelperMints(t) PROVE TypeOK'
  <2>1. PICK life \in Lifetimes : tok' = [tok EXCEPT ![t] = Minted(req[t], life)]
    BY <1>8 DEF HelperMints
  <2>2. Minted(req[t], life) \in Token
    BY MintedType
  <2> QED
    BY <1>8, <2>1, <2>2 DEF HelperMints
<1>9. ASSUME NEW t \in Tasks, HelperMintsBare(t) PROVE TypeOK'
  <2>1. Minted(req[t], BareLifetime) \in Token
    BY MintedType
  <2> QED
    BY <1>9, <2>1 DEF HelperMintsBare, Released
<1>10. ASSUME NEW t \in Tasks, HelperFails(t) PROVE TypeOK'
  BY <1>10 DEF HelperFails, Released
<1>11. ASSUME NEW t \in Tasks, Install(t) PROVE TypeOK'
  BY <1>11 DEF Install, Released
<1>12. ASSUME NEW t \in Tasks, Respond(t) PROVE TypeOK'
  BY <1>12 DEF Respond, Leave
<1>13. ASSUME NEW t \in Tasks, Refuse(t) PROVE TypeOK'
  BY <1>13 DEF Refuse, Leave, Retired
<1>14. ASSUME NEW t \in Tasks, CancelQueued(t) PROVE TypeOK'
  BY <1>14, RemoveAtType DEF CancelQueued
<1>15. ASSUME NEW t \in Tasks, CancelAcquiring(t) PROVE TypeOK'
  BY <1>15 DEF CancelAcquiring
<1>16. ASSUME NEW t \in Tasks, CancelLocked(t) PROVE TypeOK'
  BY <1>16 DEF CancelLocked
<1>17. ASSUME NEW t \in Tasks, CancelHelper(t) PROVE TypeOK'
  BY <1>17 DEF CancelHelper, Released
<1>18. ASSUME NEW p \in Procs, NEW k \in Keys, Orphan(p, k) PROVE TypeOK'
  BY <1>18 DEF Orphan, OrphanAcquires, OrphanGivesUp, OrphanReleases
<1>19. ASSUME NEW p \in Procs, Crash(p) PROVE TypeOK'
  BY <1>19 DEF Crash, TasksOf
<1>20. CASE Tick
  BY <1>20 DEF Tick
<1>21. CASE UNCHANGED vars
  BY <1>21 DEF vars
<1> QED
  BY <1>1, <1>2, <1>3, <1>4, <1>5, <1>6, <1>7, <1>8, <1>9, <1>10,
     <1>11, <1>12, <1>13, <1>14, <1>15, <1>16, <1>17, <1>18, <1>19, <1>20, <1>21,
     <1>22 DEF Next, Step, Request, AcquireEnds, ReadEnds, HelperEnds, CallEnds, Cancel

(* Every variable keeps its type. *)
THEOREM TypeCorrect == Spec => []TypeOK
  BY TypeInit, TypeStep, PTL DEF Spec

(* The two halves of LockIffFetching, key by key: the holder of the file   *)
(* lock fetches, and who fetches holds it.  Each is kept without the       *)
(* other, which is what a logout needs: it breaks the second one only.     *)
HolderFetches(k) == \A t \in Tasks : fileLock[k] = t => pc[t] \in Fetching /\ req[t] = k
FetcherHolds(k)  == \A t \in Tasks : pc[t] \in Fetching /\ req[t] = k => fileLock[k] = t

LEMMA LocksStep ==
    ASSUME TypeOK, [Next]_vars, NEW j \in Keys
    PROVE  /\ HolderFetches(j) => HolderFetches(j)'
           /\ FetcherHolds(j) => FetcherHolds(j)'
<1> DEFINE Kept == /\ HolderFetches(j) => HolderFetches(j)'
                   /\ FetcherHolds(j) => FetcherHolds(j)'
<1> USE ProcOfAssumption, NamesAssumption DEF TypeOK, HolderFetches, FetcherHolds
<1>1. ASSUME NEW t \in Tasks, NEW k \in Keys, Hit(t, k) \/ Enter(t, k) PROVE Kept
  <2>1. pc[t] = "idle" /\ pc' = [pc EXCEPT ![t] = pc'[t]]
    BY <1>1 DEF Hit, Enter
  <2>2. pc'[t] \in {"calling", "acquiring"}
    BY <1>1 DEF Hit, Enter
  <2>3. req' = [req EXCEPT ![t] = k] /\ fileLock' = fileLock
    BY <1>1 DEF Hit, Enter
  <2> QED
    BY <2>1, <2>2, <2>3
<1>2. ASSUME NEW t \in Tasks, NEW k \in Keys, Enqueue(t, k) PROVE Kept
  BY <1>2 DEF Enqueue
<1>3. ASSUME NEW t \in Tasks, Wake(t) PROVE Kept
  <2>1. pc[t] = "queued" /\ pc' = [pc EXCEPT ![t] = pc'[t]]
    BY <1>3 DEF Wake
  <2>2. pc'[t] \in {"calling", "acquiring"}
    BY <1>3 DEF Wake
  <2>3. req' = req /\ fileLock' = fileLock
    BY <1>3 DEF Wake
  <2> QED
    BY <2>1, <2>2, <2>3
<1>4. ASSUME NEW t \in Tasks, Acquire(t) PROVE Kept
  BY <1>4 DEF Acquire
<1>5. ASSUME NEW t \in Tasks, AcquireFails(t) PROVE Kept
  BY <1>5 DEF AcquireFails
<1>6. ASSUME NEW t \in Tasks, Resume(t) PROVE Kept
  <2>1. pc[t] = "locked" /\ req' = req
    BY <1>6 DEF Resume
  <2>2. CASE pc' = [pc EXCEPT ![t] = "calling"] /\ fileLock' = Released(t)
    BY <2>1, <2>2 DEF Released
  <2>3. CASE pc' = [pc EXCEPT ![t] = "helper"] /\ fileLock' = fileLock
    BY <2>1, <2>3
  <2> QED
    BY <1>6, <2>2, <2>3 DEF Resume
<1>19. ASSUME NEW t \in Tasks, ReadFails(t) PROVE Kept
  BY <1>19 DEF ReadFails
<1>7. ASSUME NEW t \in Tasks, HelperMints(t) PROVE Kept
  BY <1>7 DEF HelperMints
<1>8. ASSUME NEW t \in Tasks, HelperMintsBare(t) PROVE Kept
  BY <1>8 DEF HelperMintsBare, Released
<1>9. ASSUME NEW t \in Tasks, HelperFails(t) PROVE Kept
  BY <1>9 DEF HelperFails, Released
<1>10. ASSUME NEW t \in Tasks, Install(t) PROVE Kept
  BY <1>10 DEF Install, Released
<1>11. ASSUME NEW t \in Tasks, Respond(t) \/ Refuse(t) PROVE Kept
  BY <1>11 DEF Respond, Refuse, Leave
<1>12. ASSUME NEW t \in Tasks, CancelQueued(t) \/ CancelAcquiring(t) PROVE Kept
  BY <1>12 DEF CancelQueued, CancelAcquiring
<1>13. ASSUME NEW t \in Tasks, CancelLocked(t) PROVE Kept
  BY <1>13 DEF CancelLocked
<1>14. ASSUME NEW t \in Tasks, CancelHelper(t) PROVE Kept
  BY <1>14 DEF CancelHelper, Released
<1>15. ASSUME NEW p \in Procs, NEW k \in Keys, Orphan(p, k) PROVE Kept
  <2>1. UNCHANGED <<pc, req>> /\ p \notin Tasks /\ Nobody \notin Tasks
    BY <1>15 DEF Orphan, OrphanAcquires, OrphanGivesUp, OrphanReleases
  <2>2. CASE fileLock' = fileLock
    BY <2>1, <2>2
  <2>3. CASE fileLock[k] = Nobody /\ fileLock' = [fileLock EXCEPT ![k] = p]
    BY <2>1, <2>3
  <2>4. CASE fileLock[k] = p /\ fileLock' = [fileLock EXCEPT ![k] = Nobody]
    BY <2>1, <2>4
  <2> QED
    BY <1>15, <2>2, <2>3, <2>4 DEF Orphan, OrphanAcquires, OrphanGivesUp, OrphanReleases
<1>16. ASSUME NEW p \in Procs, Crash(p) PROVE Kept
  BY <1>16 DEF Crash, TasksOf
<1>17. CASE Tick
  BY <1>17 DEF Tick
<1>18. CASE UNCHANGED vars
  BY <1>18 DEF vars
<1> QED
  BY <1>1, <1>2, <1>3, <1>4, <1>5, <1>6, <1>7, <1>8, <1>9, <1>10, <1>11,
     <1>12, <1>13, <1>14, <1>15, <1>16, <1>17, <1>18, <1>19
     DEF Next, Step, Request, AcquireEnds, ReadEnds, HelperEnds, CallEnds, Cancel, Orphan

(* A task holds the file lock of a key exactly while it is fetching it. *)
THEOREM LocksFollowTasks == Spec => []LockIffFetching
<1> DEFINE IInv == \A k \in Keys : HolderFetches(k) /\ FetcherHolds(k)
<1>1. Init => IInv
  BY NamesAssumption DEF Init, HolderFetches, FetcherHolds
<1>2. TypeOK /\ IInv /\ [Next]_vars => IInv'
  BY LocksStep
<1>3. IInv => LockIffFetching
  BY DEF LockIffFetching, HolderFetches, FetcherHolds
<1> QED
  BY <1>1, <1>2, <1>3, TypeCorrect, PTL DEF Spec

(* At most one task at a time fetches a key, across all processes. *)
THEOREM FetchesExclude == Spec => []FetchMutex
<1>1. TypeOK /\ LockIffFetching => FetchMutex
  BY DEF TypeOK, LockIffFetching, FetchMutex
<1> QED
  BY <1>1, TypeCorrect, LocksFollowTasks, PTL

(* A key is minted by a task that could read its file only while the cache *)
(* directory lacks a fresh token for it.  The one step that installs a token is taken by the one task that   *)
(* fetches its key.                                                        *)
MintsWhatLacks(k) ==
    \A t \in Tasks : pc[t] \in Minting /\ req[t] = k /\ t \notin blind => ~Fresh(disk[k])

LEMMA MintsStep ==
    ASSUME TypeOK, [Next]_vars, NEW j \in Keys, FetcherHolds(j), MintsWhatLacks(j)
    PROVE  MintsWhatLacks(j)'
<1> USE DEF TypeOK, MintsWhatLacks, Fresh
<1>1. ASSUME NEW t \in Tasks, NEW k \in Keys, Hit(t, k) \/ Enter(t, k) \/ Enqueue(t, k) PROVE MintsWhatLacks(j)'
  <2>1. pc'[t] \notin Minting /\ pc' = [pc EXCEPT ![t] = pc'[t]]
    BY <1>1 DEF Hit, Enter, Enqueue
  <2>2. req' = [req EXCEPT ![t] = k] /\ UNCHANGED <<now, disk, blind>>
    BY <1>1 DEF Hit, Enter, Enqueue
  <2> QED
    BY <2>1, <2>2
<1>2. ASSUME NEW t \in Tasks, Wake(t) \/ AcquireEnds(t) PROVE MintsWhatLacks(j)'
  <2>1. pc'[t] \notin Minting /\ pc' = [pc EXCEPT ![t] = pc'[t]]
    BY <1>2 DEF Wake, AcquireEnds, Acquire, AcquireFails
  <2>2. UNCHANGED <<now, disk, req>> /\ blind \subseteq blind' \cup {t}
    BY <1>2 DEF Wake, AcquireEnds, Acquire, AcquireFails
  <2> QED
    BY <2>1, <2>2
<1>3. ASSUME NEW t \in Tasks, Resume(t) PROVE MintsWhatLacks(j)'
  BY <1>3 DEF Resume, OnDisk
<1>13. ASSUME NEW t \in Tasks, ReadFails(t) PROVE MintsWhatLacks(j)'
  BY <1>13 DEF ReadFails
<1>4. ASSUME NEW t \in Tasks, HelperMints(t) PROVE MintsWhatLacks(j)'
  BY <1>4 DEF HelperMints
<1>5. ASSUME NEW t \in Tasks, HelperMintsBare(t) \/ HelperFails(t) PROVE MintsWhatLacks(j)'
  <2>1. pc'[t] \notin Minting /\ pc' = [pc EXCEPT ![t] = pc'[t]]
    BY <1>5 DEF HelperMintsBare, HelperFails
  <2>2. UNCHANGED <<now, disk, req>> /\ blind \subseteq blind' \cup {t}
    BY <1>5 DEF HelperMintsBare, HelperFails
  <2> QED
    BY <2>1, <2>2
<1>6. ASSUME NEW t \in Tasks, Install(t) PROVE MintsWhatLacks(j)'
  <2>1. pc[t] = "staged" /\ pc' = [pc EXCEPT ![t] = "calling"]
    BY <1>6 DEF Install
  <2>2. UNCHANGED <<now, req>> /\ blind' = blind \ {t}
    BY <1>6 DEF Install
  <2>3. \A k \in Keys : k # req[t] => disk'[k] = disk[k]
    BY <1>6 DEF Install
  <2>4. \A u \in Tasks \ {t} : pc[u] \in Minting => req[u] # j \/ req[t] # j
    BY <2>1 DEF FetcherHolds
  <2> QED
    BY <2>1, <2>2, <2>3, <2>4
<1>7. ASSUME NEW t \in Tasks, CallEnds(t) PROVE MintsWhatLacks(j)'
  <2>1. pc' = [pc EXCEPT ![t] = "idle"] /\ UNCHANGED <<now, req, blind>>
    BY <1>7 DEF CallEnds, Respond, Refuse, Leave
  <2>2. \A k \in Keys : disk'[k] \in {disk[k], NoToken}
    BY <1>7 DEF CallEnds, Respond, Refuse, Leave, Retired
  <2> QED
    BY <2>1, <2>2
<1>8. ASSUME NEW t \in Tasks, Cancel(t) PROVE MintsWhatLacks(j)'
  <2>1. pc'[t] \notin Minting /\ pc' = [pc EXCEPT ![t] = pc'[t]]
    BY <1>8 DEF Cancel, CancelQueued, CancelAcquiring, CancelLocked, CancelHelper
  <2>2. UNCHANGED <<now, disk, req>> /\ blind \subseteq blind' \cup {t}
    BY <1>8 DEF Cancel, CancelQueued, CancelAcquiring, CancelLocked, CancelHelper
  <2> QED
    BY <2>1, <2>2
<1>9. ASSUME NEW p \in Procs, NEW k \in Keys, Orphan(p, k) PROVE MintsWhatLacks(j)'
  BY <1>9 DEF Orphan, OrphanAcquires, OrphanGivesUp, OrphanReleases
<1>10. ASSUME NEW p \in Procs, Crash(p) PROVE MintsWhatLacks(j)'
  BY <1>10, ProcOfAssumption DEF Crash, TasksOf
<1>11. CASE Tick
  <2> SUFFICES ASSUME NEW t \in Tasks, pc[t] \in Minting, req[t] = j, t \notin blind,
                      Fresh(disk[j])'
               PROVE  FALSE
    BY <1>11 DEF Tick
  <2>1. now' = now + 1 /\ disk'[j] = disk[j]
    BY <1>11 DEF Tick
  <2>2. disk[j] \in Token
    BY <2>1
  <2>3. disk[j].exp \in Int
    BY <2>2 DEF Token
  <2> QED
    BY <2>1, <2>2, <2>3, TimesAssumption
<1>12. CASE UNCHANGED vars
  BY <1>12 DEF vars
<1> QED
  BY <1>1, <1>2, <1>3, <1>4, <1>5, <1>6, <1>7, <1>8, <1>9, <1>10, <1>11,
     <1>12, <1>13
     DEF Next, Step, Request, AcquireEnds, ReadEnds, HelperEnds, CallEnds, Cancel, Orphan

(* No helper runs while the cache directory has a fresh token for its key  *)
(* that the session could read.                                            *)
THEOREM StampedesExcluded == Spec => []NoStampede
<1> DEFINE IInv == \A k \in Keys : MintsWhatLacks(k)
<1>1. Init => IInv
  BY DEF Init, MintsWhatLacks
<1>2. TypeOK /\ LockIffFetching /\ IInv /\ [Next]_vars => IInv'
  <2>1. LockIffFetching => \A k \in Keys : FetcherHolds(k)
    BY DEF LockIffFetching, FetcherHolds
  <2> QED
    BY <2>1, MintsStep
<1>3. TypeOK /\ IInv => NoStampede
  BY DEF TypeOK, MintsWhatLacks, NoStampede
<1> QED
  BY <1>1, <1>2, <1>3, TypeCorrect, LocksFollowTasks, PTL DEF Spec

(***************************************************************************)
(* Retired tokens stay retired: TokenInv is inductive.  Steps that move no *)
(* token, steps that take one from memory or disk, and steps that make one *)
(* preserve it for different reasons.                                      *)
(***************************************************************************)
LEMMA QuietStep ==
    ASSUME TypeOK, TokenInv,
           NEW t \in Tasks, NEW k \in Keys,
           pc' = [pc EXCEPT ![t] = pc'[t]], pc'[t] \notin {"staged", "calling"},
           req' = [req EXCEPT ![t] = k],
           UNCHANGED <<minted, memory, disk, tok, refused>>
    PROVE  TokenInv'
<1>1. TokensFiled'
  BY DEF TypeOK, TokenInv, TokensFiled
<1>2. TokensKnown'
  BY DEF TypeOK, TokenInv, TokensKnown, Known
<1>3. StagedIsPrivate'
  <2>1. \A u \in Tasks : pc'[u] = "staged" => pc[u] = "staged"
    BY DEF TypeOK
  <2> QED
    BY <2>1 DEF TokenInv, StagedIsPrivate
<1>4. RetiredStaysRetired'
  BY DEF TypeOK, TokenInv, RetiredStaysRetired
<1> QED
  BY <1>1, <1>2, <1>3, <1>4 DEF TokenInv

(* A call that starts with a cached token keeps TokenInv. *)
LEMMA TakeStep ==
    ASSUME TypeOK, TokenInv,
           NEW t \in Tasks, NEW k \in Keys, NEW x \in Token,
           x = memory[ProcOf[t]][k] \/ x = disk[k],
           pc' = [pc EXCEPT ![t] = "calling"],
           req' = [req EXCEPT ![t] = k],
           tok' = [tok EXCEPT ![t] = x],
           memory' = [memory EXCEPT ![ProcOf[t]][k] = x],
           UNCHANGED <<minted, disk, refused>>
    PROVE  TokenInv'
<1> USE ProcOfAssumption, NoTokenAssumption
<1>1. x.key = k /\ Known(x)
  <2>1. ProcOf[t] \in Procs /\ x # NoToken
    OBVIOUS
  <2> QED
    BY <2>1 DEF TokenInv, TokensFiled, TokensKnown
<1>2. \A p \in Procs, j \in Keys :
         memory'[p][j] = memory[p][j] \/ (p = ProcOf[t] /\ j = k /\ memory'[p][j] = x)
  BY DEF TypeOK
<1>3. \A u \in Tasks : IF u = t THEN tok'[u] = x /\ pc'[u] = "calling" /\ req'[u] = k
                                ELSE tok'[u] = tok[u] /\ pc'[u] = pc[u] /\ req'[u] = req[u]
  BY DEF TypeOK
<1>4. TokensFiled'
  BY <1>1, <1>2, <1>3 DEF TokenInv, TokensFiled
<1>5. TokensKnown'
  BY <1>1, <1>2, <1>3 DEF TokenInv, TokensKnown, Known
<1>6. StagedIsPrivate'
  BY <1>2, <1>3 DEF TokenInv, StagedIsPrivate
<1>7. RetiredStaysRetired'
  BY <1>2 DEF TokenInv, RetiredStaysRetired
<1> QED
  BY <1>4, <1>5, <1>6, <1>7 DEF TokenInv

(* A new token is nowhere yet. *)
LEMMA NewToken ==
    ASSUME TypeOK, TokenInv, NEW x \in Token, x.serial = minted + 1
    PROVE  /\ \A k \in Keys : disk[k] # x
           /\ \A p \in Procs, k \in Keys : memory[p][k] # x
           /\ \A t \in Tasks : tok[t] # x
           /\ \A p \in Procs : x \notin refused[p]
<1>1. minted \in Nat /\ ~Known(x)
  BY NoTokenAssumption DEF TypeOK, Known
<1> QED
  BY <1>1 DEF TokenInv, TokensKnown

(* Minting keeps the serials known. *)
LEMMA KnownStep ==
    ASSUME TypeOK, TokenInv, NEW x \in Token, x.serial = minted + 1,
           minted' = minted + 1,
           \A k \in Keys : disk'[k] = disk[k],
           \A p \in Procs, k \in Keys : memory'[p][k] \in {memory[p][k], x},
           \A t \in Tasks : tok'[t] \in {tok[t], x},
           refused' = refused
    PROVE  TokensKnown'
<1> DEFINE Grown(y) == y # NoToken => y.serial <= minted'
<1>1. Grown(x) /\ minted \in Nat
  BY DEF TypeOK
<1>2. \A y \in Token \cup {NoToken} : Known(y) => Grown(y)
  BY DEF TypeOK, Known, Token
<1>3. /\ \A k \in Keys : Grown(disk[k])
      /\ \A p \in Procs, k \in Keys : Grown(memory[p][k])
      /\ \A t \in Tasks : Grown(tok[t])
      /\ \A p \in Procs : \A y \in refused[p] : Grown(y)
  <2> HIDE DEF Grown
  <2> QED
    BY <1>2 DEF TypeOK, TokenInv, TokensKnown
<1>4. /\ \A k \in Keys : Grown(disk'[k])
      /\ \A p \in Procs, k \in Keys : Grown(memory'[p][k])
      /\ \A t \in Tasks : Grown(tok'[t])
      /\ \A p \in Procs : \A y \in refused'[p] : Grown(y)
  <2> HIDE DEF Grown
  <2> QED
    BY <1>1, <1>3
<1> QED
  BY <1>4 DEF TokensKnown, Known

(* What is no token is not refused either. *)
LEMMA NoTokenNotRefused ==
    ASSUME TypeOK, NEW p \in Procs
    PROVE  NoToken \notin refused[p]
  BY NoTokenAssumption DEF TypeOK

(* There are no tokens to begin with. *)
LEMMA TokensInit == Init => TokenInv
  BY NoTokenAssumption DEF Init, TokenInv, TokensFiled, TokensKnown, Known, StagedIsPrivate,
                       RetiredStaysRetired

(* Every step keeps TokenInv. *)
LEMMA TokensStep == TypeOK /\ TokenInv /\ [Next]_vars => TokenInv'
<1> SUFFICES ASSUME TypeOK, TokenInv, [Next]_vars
             PROVE  TokenInv'
  OBVIOUS
<1> USE ProcOfAssumption, NoTokenAssumption
<1>1. ASSUME NEW t \in Tasks, NEW k \in Keys, Hit(t, k) PROVE TokenInv'
  <2>1. memory[ProcOf[t]][k] \in Token
    BY <1>1 DEF Hit, Fresh, TypeOK
  <2>2. memory' = [memory EXCEPT ![ProcOf[t]][k] = memory[ProcOf[t]][k]]
    BY <1>1 DEF Hit, TypeOK
  <2> QED
    BY <1>1, <2>1, <2>2, TakeStep DEF Hit
<1>2. ASSUME NEW t \in Tasks, NEW k \in Keys, Enter(t, k) \/ Enqueue(t, k) PROVE TokenInv'
  <2>1. pc' = [pc EXCEPT ![t] = pc'[t]] /\ pc'[t] \notin {"staged", "calling"}
    BY <1>2 DEF Enter, Enqueue, TypeOK
  <2>2. req' = [req EXCEPT ![t] = k] /\ UNCHANGED <<minted, memory, disk, tok, refused>>
    BY <1>2 DEF Enter, Enqueue, TypeOK
  <2> QED
    BY <2>1, <2>2, QuietStep DEF TypeOK
<1>3. ASSUME NEW t \in Tasks, Wake(t) PROVE TokenInv'
  <2>1. CASE Fresh(memory[ProcOf[t]][req[t]])
    <3>1. memory[ProcOf[t]][req[t]] \in Token
      BY <2>1 DEF Fresh, TypeOK
    <3>2. memory' = [memory EXCEPT ![ProcOf[t]][req[t]] = memory[ProcOf[t]][req[t]]]
      BY <1>3 DEF Wake, TypeOK
    <3>3. req' = [req EXCEPT ![t] = req[t]] /\ UNCHANGED <<minted, disk, refused>>
      BY <1>3 DEF Wake, TypeOK
    <3>4. /\ pc' = [pc EXCEPT ![t] = "calling"]
          /\ tok' = [tok EXCEPT ![t] = memory[ProcOf[t]][req[t]]]
      BY <1>3, <2>1 DEF Wake
    <3> QED
      BY <3>1, <3>2, <3>3, <3>4, TakeStep DEF TypeOK
  <2>2. CASE ~Fresh(memory[ProcOf[t]][req[t]])
    <3>1. pc' = [pc EXCEPT ![t] = "acquiring"] /\ UNCHANGED tok
      BY <1>3, <2>2 DEF Wake
    <3>2. req' = [req EXCEPT ![t] = req[t]] /\ UNCHANGED <<minted, memory, disk, refused>>
      BY <1>3 DEF Wake, TypeOK
    <3>3. pc' = [pc EXCEPT ![t] = pc'[t]] /\ pc'[t] \notin {"staged", "calling"}
      BY <3>1 DEF TypeOK
    <3> QED
      BY <3>1, <3>2, <3>3, QuietStep DEF TypeOK
  <2> QED
    BY <2>1, <2>2
<1>4. ASSUME NEW t \in Tasks, AcquireEnds(t) \/ ReadFails(t) \/ HelperFails(t) \/ Cancel(t)
      PROVE  TokenInv'
  <2>1. pc' = [pc EXCEPT ![t] = pc'[t]] /\ pc'[t] \notin {"staged", "calling"}
    BY <1>4 DEF AcquireEnds, Acquire, AcquireFails, ReadFails, HelperFails, Cancel, CancelQueued,
       CancelAcquiring, CancelLocked, CancelHelper, TypeOK
  <2>2. req' = [req EXCEPT ![t] = req[t]] /\ UNCHANGED <<minted, memory, disk, tok, refused>>
    BY <1>4 DEF AcquireEnds, Acquire, AcquireFails, ReadFails, HelperFails, Cancel, CancelQueued,
       CancelAcquiring, CancelLocked, CancelHelper, TypeOK
  <2> QED
    BY <2>1, <2>2, QuietStep DEF TypeOK
<1>5. ASSUME NEW t \in Tasks, Resume(t) PROVE TokenInv'
  <2>1. CASE Fresh(disk[req[t]])
    <3>1. disk[req[t]] \in Token
      BY <2>1 DEF Fresh, TypeOK
    <3>2. req' = [req EXCEPT ![t] = req[t]] /\ UNCHANGED <<minted, disk, refused>>
      BY <1>5 DEF Resume, TypeOK
    <3>3. /\ pc' = [pc EXCEPT ![t] = "calling"]
          /\ tok' = [tok EXCEPT ![t] = disk[req[t]]]
          /\ memory' = [memory EXCEPT ![ProcOf[t]][req[t]] = disk[req[t]]]
      BY <1>5, <2>1 DEF Resume, OnDisk
    <3> QED
      BY <3>1, <3>2, <3>3, TakeStep DEF TypeOK
  <2>2. CASE ~Fresh(disk[req[t]])
    <3>1. pc' = [pc EXCEPT ![t] = "helper"] /\ UNCHANGED <<tok, memory>>
      BY <1>5, <2>2 DEF Resume, OnDisk
    <3>2. req' = [req EXCEPT ![t] = req[t]] /\ UNCHANGED <<minted, disk, refused>>
      BY <1>5 DEF Resume, TypeOK
    <3>3. pc' = [pc EXCEPT ![t] = pc'[t]] /\ pc'[t] \notin {"staged", "calling"}
      BY <3>1 DEF TypeOK
    <3> QED
      BY <3>1, <3>2, <3>3, QuietStep DEF TypeOK
  <2> QED
    BY <2>1, <2>2
<1>6. ASSUME NEW t \in Tasks, HelperMints(t) PROVE TokenInv'
  <2>1. PICK life \in Lifetimes : tok' = [tok EXCEPT ![t] = Minted(req[t], life)]
    BY <1>6 DEF HelperMints
  <2> DEFINE x == Minted(req[t], life)
  <2>2. x \in Token /\ x.key = req[t] /\ x.serial = minted + 1
    <3>1. x \in Token
      BY MintedType, TimesAssumption DEF TypeOK
    <3> QED
      BY <3>1 DEF Minted
  <2> HIDE DEF x
  <2>3. \A u \in Tasks : IF u = t THEN tok'[u] = x /\ pc'[u] = "staged"
                                 ELSE tok'[u] = tok[u] /\ pc'[u] = pc[u]
    BY <1>6, <2>1 DEF HelperMints, TypeOK, x
  <2>4. minted' = minted + 1 /\ UNCHANGED <<memory, disk, req, refused>>
    BY <1>6 DEF HelperMints
  <2>5. TokensFiled'
    BY <2>2, <2>3, <2>4 DEF TokenInv, TokensFiled
  <2>6. TokensKnown'
    BY <2>2, <2>3, <2>4, KnownStep
  <2>7. StagedIsPrivate'
    BY <2>2, <2>3, <2>4, NewToken DEF TokenInv, StagedIsPrivate
  <2>8. RetiredStaysRetired'
    BY <2>4 DEF TokenInv, RetiredStaysRetired
  <2> QED
    BY <2>5, <2>6, <2>7, <2>8 DEF TokenInv
<1>7. ASSUME NEW t \in Tasks, HelperMintsBare(t) PROVE TokenInv'
  <2> DEFINE x == Minted(req[t], BareLifetime)
  <2>1. x \in Token /\ x.key = req[t] /\ x.serial = minted + 1
    <3>1. x \in Token
      BY MintedType, TimesAssumption DEF TypeOK
    <3> QED
      BY <3>1 DEF Minted
  <2>2. memory' = [memory EXCEPT ![ProcOf[t]][req[t]] = x]
    BY <1>7 DEF HelperMintsBare
  <2>3. \A u \in Tasks : IF u = t THEN tok'[u] = x /\ pc'[u] = "calling"
                                 ELSE tok'[u] = tok[u] /\ pc'[u] = pc[u]
    BY <1>7 DEF HelperMintsBare, TypeOK
  <2> HIDE DEF x
  <2>4. minted' = minted + 1 /\ UNCHANGED <<disk, req, refused>>
    BY <1>7 DEF HelperMintsBare
  <2>5. \A p \in Procs, j \in Keys :
           \/ memory'[p][j] = memory[p][j]
           \/ p = ProcOf[t] /\ j = req[t] /\ memory'[p][j] = x
    BY <2>2 DEF TypeOK
  <2>6. TokensFiled'
    BY <2>1, <2>3, <2>4, <2>5 DEF TokenInv, TokensFiled
  <2>7. TokensKnown'
    BY <2>1, <2>3, <2>4, <2>5, KnownStep
  <2>8. StagedIsPrivate'
    BY <2>1, <2>3, <2>4, <2>5, NewToken DEF TokenInv, StagedIsPrivate
  <2>9. RetiredStaysRetired'
    BY <2>1, <2>4, <2>5, NewToken DEF TokenInv, RetiredStaysRetired
  <2> QED
    BY <2>6, <2>7, <2>8, <2>9 DEF TokenInv
<1>8. ASSUME NEW t \in Tasks, Install(t) PROVE TokenInv'
  <2>1. pc[t] = "staged" /\ tok[t] # NoToken
    BY <1>8, NoTokenAssumption DEF Install, TypeOK
  <2>2. minted' = minted /\ UNCHANGED <<tok, req, refused>>
    BY <1>8 DEF Install
  <2>3. \A u \in Tasks : pc'[u] = IF u = t THEN "calling" ELSE pc[u]
    BY <1>8 DEF Install, TypeOK
  <2>4. \A j \in Keys : disk'[j] = disk[j] \/ (j = req[t] /\ disk'[j] = tok[t])
    BY <1>8 DEF Install, TypeOK
  <2>5. \A p \in Procs, j \in Keys :
           \/ memory'[p][j] = memory[p][j]
           \/ p = ProcOf[t] /\ j = req[t] /\ memory'[p][j] = tok[t]
    BY <1>8 DEF Install, TypeOK
  <2>6. TokensFiled'
    BY <2>1, <2>2, <2>3, <2>4, <2>5 DEF TokenInv, TokensFiled
  <2>7. TokensKnown'
    BY <2>2, <2>4, <2>5 DEF TokenInv, TokensKnown, Known
  <2>8. StagedIsPrivate'
    BY <2>1, <2>2, <2>3, <2>4, <2>5 DEF TokenInv, StagedIsPrivate
  <2>9. RetiredStaysRetired'
    BY <2>1, <2>2, <2>4, <2>5 DEF TokenInv, StagedIsPrivate, RetiredStaysRetired
  <2> QED
    BY <2>6, <2>7, <2>8, <2>9 DEF TokenInv
<1>9. ASSUME NEW t \in Tasks, CallEnds(t) PROVE TokenInv'
  <2>1. pc[t] = "calling" /\ UNCHANGED <<minted, req>>
    BY <1>9 DEF CallEnds, Respond, Refuse
  <2>2. \A u \in Tasks : IF u = t THEN pc'[u] = "idle" /\ tok'[u] = NoToken
                                 ELSE pc'[u] = pc[u] /\ tok'[u] = tok[u]
    BY <1>9 DEF CallEnds, Respond, Refuse, Leave, TypeOK
  <2>3. \/ UNCHANGED <<memory, disk, refused>>
        \/ /\ \A p \in Procs : refused'[p] =
                 IF p = ProcOf[t] THEN refused[p] \cup {tok[t]} ELSE refused[p]
           /\ \A j \in Keys : disk'[j] = IF j = req[t] THEN NoToken ELSE disk[j]
           /\ \A p \in Procs, j \in Keys : memory'[p][j] =
                 IF p = ProcOf[t] /\ j = req[t] THEN NoToken ELSE memory[p][j]
    <3>1. CASE Respond(t)
      BY <3>1 DEF Respond
    <3>2. CASE Refuse(t)
      BY <3>2 DEF Refuse, Retired, TypeOK
    <3> QED
      BY <1>9, <3>1, <3>2 DEF CallEnds
  <2>4. /\ \A j \in Keys : disk'[j] \in {NoToken, disk[j]}
        /\ \A p \in Procs, j \in Keys : memory'[p][j] \in {NoToken, memory[p][j]}
        /\ \A p \in Procs : refused'[p] \subseteq refused[p] \cup {tok[t]}
    BY <2>3
  <2>5. TokensFiled'
    BY <2>1, <2>2, <2>4 DEF TokenInv, TokensFiled
  <2>6. TokensKnown'
    BY <2>1, <2>2, <2>4 DEF TokenInv, TokensKnown, Known
  <2>7. StagedIsPrivate'
    <3> SUFFICES ASSUME NEW u \in Tasks, pc'[u] = "staged"
                 PROVE  /\ \A k \in Keys : disk'[k] # tok'[u]
                        /\ \A p \in Procs : tok'[u] \notin refused'[p]
                        /\ \A p \in Procs, k \in Keys : memory'[p][k] # tok'[u]
                        /\ \A v \in Tasks \ {u} : tok'[v] # tok'[u]
      BY DEF StagedIsPrivate
    <3>1. u # t /\ pc[u] = "staged" /\ tok'[u] = tok[u]
      BY <2>2
    <3>2. tok[u] # NoToken
      BY <3>1 DEF TypeOK
    <3> QED
      BY <2>2, <2>4, <3>1, <3>2 DEF TokenInv, StagedIsPrivate
  <2>8. RetiredStaysRetired'
    <3>1. CASE UNCHANGED <<memory, disk, refused>>
      BY <3>1 DEF TokenInv, RetiredStaysRetired
    <3>2. tok[t] \in Token /\ tok[t].key = req[t]
      BY <2>1 DEF TypeOK, TokenInv, TokensFiled
    <3>3. /\ \A j \in Keys : j # req[t] => disk[j] # tok[t]
          /\ \A p \in Procs, j \in Keys : j # req[t] => memory[p][j] # tok[t]
      BY <3>2, NoTokenAssumption DEF TokenInv, TokensFiled
    <3>4. \A p \in Procs : NoToken \notin refused[p] \cup {tok[t]}
      BY <3>2, NoTokenNotRefused
    <3>5. \A p \in Procs, j \in Keys : j # req[t] =>
             /\ disk[j] \notin refused[p] \cup {tok[t]}
             /\ memory[p][j] \notin refused[p] \cup {tok[t]}
      BY <3>3 DEF TokenInv, RetiredStaysRetired
    <3> QED
      <4> SUFFICES ASSUME ~(UNCHANGED <<memory, disk, refused>>),
                          NEW p \in Procs, NEW j \in Keys
                   PROVE  disk'[j] \notin refused'[p] /\ memory'[p][j] \notin refused'[p]
        BY <3>1 DEF RetiredStaysRetired
      <4>1. refused'[p] \subseteq refused[p] \cup {tok[t]}
        BY <2>4
      <4>2. CASE j # req[t]
        BY <2>3, <3>5, <4>1, <4>2
      <4>3. CASE j = req[t] /\ p = ProcOf[t]
        BY <2>3, <3>4, <4>1, <4>3
      <4>4. CASE j = req[t] /\ p # ProcOf[t]
        <5>1. disk'[j] = NoToken /\ memory'[p][j] = memory[p][j] /\ refused'[p] = refused[p]
          BY <2>3, <4>4
        <5> QED
          BY <5>1, NoTokenNotRefused DEF TokenInv, RetiredStaysRetired
      <4> QED
        BY <4>2, <4>3, <4>4
  <2> QED
    BY <2>5, <2>6, <2>7, <2>8 DEF TokenInv
<1>10. ASSUME NEW p \in Procs, NEW k \in Keys, Orphan(p, k) PROVE TokenInv'
  <2>1. UNCHANGED <<minted, memory, disk, pc, req, tok, refused>>
    BY <1>10 DEF Orphan, OrphanAcquires, OrphanGivesUp, OrphanReleases
  <2>5. TokensFiled'
    BY <2>1 DEF TokenInv, TokensFiled
  <2>6. TokensKnown'
    BY <2>1 DEF TokenInv, TokensKnown, Known
  <2>7. StagedIsPrivate'
    BY <2>1 DEF TokenInv, StagedIsPrivate
  <2>8. RetiredStaysRetired'
    BY <2>1 DEF TokenInv, RetiredStaysRetired
  <2> QED
    BY <2>5, <2>6, <2>7, <2>8 DEF TokenInv
<1>11. ASSUME NEW p \in Procs, Crash(p) PROVE TokenInv'
  <2>1. UNCHANGED <<minted, disk, req, refused>>
    BY <1>11 DEF Crash
  <2>2. \A t \in Tasks : \/ pc'[t] = "idle" /\ tok'[t] = NoToken
                         \/ pc'[t] = pc[t] /\ tok'[t] = tok[t]
    BY <1>11 DEF Crash, TypeOK
  <2>3. \A q \in Procs, k \in Keys : memory'[q][k] \in {NoToken, memory[q][k]}
    BY <1>11 DEF Crash, TypeOK
  <2>4. TokensFiled'
    BY <2>1, <2>2, <2>3 DEF TokenInv, TokensFiled
  <2>5. TokensKnown'
    BY <2>1, <2>2, <2>3 DEF TokenInv, TokensKnown, Known
  <2>6. StagedIsPrivate'
    <3> SUFFICES ASSUME NEW u \in Tasks, pc'[u] = "staged"
                 PROVE  /\ \A k \in Keys : disk'[k] # tok'[u]
                        /\ \A q \in Procs : tok'[u] \notin refused'[q]
                        /\ \A q \in Procs, k \in Keys : memory'[q][k] # tok'[u]
                        /\ \A v \in Tasks \ {u} : tok'[v] # tok'[u]
      BY DEF StagedIsPrivate
    <3>1. pc[u] = "staged" /\ tok'[u] = tok[u]
      BY <2>2
    <3>2. tok[u] # NoToken
      BY <3>1 DEF TypeOK
    <3> QED
      BY <2>1, <2>2, <2>3, <3>1, <3>2 DEF TokenInv, StagedIsPrivate
  <2>7. RetiredStaysRetired'
    BY <2>1, <2>3, NoTokenNotRefused DEF TokenInv, RetiredStaysRetired
  <2> QED
    BY <2>4, <2>5, <2>6, <2>7 DEF TokenInv
<1>12. CASE Tick \/ UNCHANGED vars
  <2>1. UNCHANGED <<minted, memory, disk, pc, req, tok, refused>>
    BY <1>12 DEF Tick, vars
  <2>5. TokensFiled'
    BY <2>1 DEF TokenInv, TokensFiled
  <2>6. TokensKnown'
    BY <2>1 DEF TokenInv, TokensKnown, Known
  <2>7. StagedIsPrivate'
    BY <2>1 DEF TokenInv, StagedIsPrivate
  <2>8. RetiredStaysRetired'
    BY <2>1 DEF TokenInv, RetiredStaysRetired
  <2> QED
    BY <2>5, <2>6, <2>7, <2>8 DEF TokenInv
<1> QED
  BY <1>1, <1>2, <1>3, <1>4, <1>5, <1>6, <1>7, <1>8, <1>9, <1>10, <1>11,
     <1>12
     DEF Next, Step, Request, AcquireEnds, ReadEnds, HelperEnds, CallEnds, Cancel, Orphan

(* Tokens stay filed, known and, while staged, private; retired tokens stay retired. *)
THEOREM TokensInvariant == Spec => []TokenInv
  BY TokensInit, TokensStep, TypeCorrect, PTL DEF Spec

(* A token a process has seen refused is never on disk or in its memory again. *)
THEOREM RefusalsLast == Spec => []RetiredStaysRetired
  BY TokensInvariant, PTL DEF TokenInv

(***************************************************************************)
(* Every way into a call leaves the token it is made with in memory.       *)
(***************************************************************************)
LEMMA CallsUseMemory ==
    ASSUME TypeOK, [Next]_vars, NEW t \in Tasks, pc[t] # "calling", pc'[t] = "calling"
    PROVE  /\ tok'[t] = memory'[ProcOf[t]][req'[t]]
           /\ req'[t] \in Keys
           /\ UNCHANGED refused
<1> USE ProcOfAssumption DEF TypeOK
<1>1. ASSUME NEW k \in Keys, Hit(t, k)
      PROVE  tok'[t] = memory'[ProcOf[t]][req'[t]] /\ req'[t] \in Keys /\ UNCHANGED refused
  BY <1>1 DEF Hit
<1>2. ASSUME Wake(t) \/ Resume(t)
      PROVE  tok'[t] = memory'[ProcOf[t]][req'[t]] /\ req'[t] \in Keys /\ UNCHANGED refused
  BY <1>2 DEF Wake, Resume
<1>3. ASSUME HelperMintsBare(t) \/ Install(t)
      PROVE  tok'[t] = memory'[ProcOf[t]][req'[t]] /\ req'[t] \in Keys /\ UNCHANGED refused
  BY <1>3 DEF HelperMintsBare, Install
<1>4. \/ \E k \in Keys : Hit(t, k)
      \/ Wake(t) \/ Resume(t) \/ HelperMintsBare(t) \/ Install(t)
  <2>1. CASE \E u \in Tasks : Step(u)
    <3>1. PICK u \in Tasks : Step(u)
      BY <2>1
    <3>2. pc' = [pc EXCEPT ![u] = pc'[u]]
      BY <3>1 DEF Step, Request, Hit, Enter, Enqueue, Wake, AcquireEnds, Acquire, AcquireFails,
         ReadEnds, Resume, ReadFails, HelperEnds, HelperMints, HelperMintsBare, HelperFails, Install, CallEnds,
         Respond, Refuse, Leave, Cancel, CancelQueued, CancelAcquiring, CancelLocked, CancelHelper
    <3>3. u = t
      BY <3>2
    <3> QED
      BY <3>1, <3>3 DEF Step, Request, Enter, Enqueue, AcquireEnds, Acquire, AcquireFails,
         ReadEnds, ReadFails, HelperEnds, HelperMints, HelperFails, CallEnds,
         Respond, Refuse, Leave, Cancel, CancelQueued, CancelAcquiring, CancelLocked, CancelHelper
  <2>2. CASE UNCHANGED pc
    BY <2>2
  <2>3. CASE \E p \in Procs : Crash(p)
    BY <2>3 DEF Crash
  <2> QED
    BY <2>1, <2>2, <2>3 DEF Next, Orphan, OrphanAcquires, OrphanGivesUp, OrphanReleases, Tick, vars
<1> QED
  BY <1>1, <1>2, <1>3, <1>4

(* A call never starts with a token its own process has seen refused: what *)
(* it starts with is in memory after the step, where no refused token is.  *)
THEOREM NothingIsReplayed == Spec => NoReplay
<1>1. TypeOK /\ TokenInv' /\ [Next]_vars =>
         [\A t \in Tasks : (pc[t] # "calling" /\ pc'[t] = "calling") =>
                               tok'[t] \notin refused[ProcOf[t]]]_vars
  <2> SUFFICES ASSUME TypeOK, TokenInv', [Next]_vars,
                      NEW t \in Tasks, pc[t] # "calling", pc'[t] = "calling"
               PROVE  tok'[t] \notin refused[ProcOf[t]]
    OBVIOUS
  <2> QED
    BY CallsUseMemory, ProcOfAssumption DEF TokenInv, RetiredStaysRetired
<1> QED
  BY <1>1, TypeCorrect, TokensInvariant, PTL DEF Spec, NoReplay

(* What a server step installs was staged, and what it stages was staged   *)
(* before or is new.                                                       *)
LEMMA InstalledWasStaged ==
    ASSUME TypeOK, [Next]_vars
    PROVE  /\ minted' \in {minted, minted + 1}
           /\ \A k \in Keys : \/ disk'[k] \in {disk[k], NoToken}
                              \/ \E t \in Tasks : pc[t] = "staged" /\ disk'[k] = tok[t]
           /\ \A t \in Tasks : pc'[t] = "staged" =>
                 \/ pc[t] = "staged" /\ tok'[t] = tok[t]
                 \/ tok'[t].serial = minted + 1
<1> DEFINE Kept == \A u \in Tasks : pc'[u] = "staged" => pc[u] = "staged" /\ tok'[u] = tok[u]
<1> USE DEF TypeOK
<1>1. ASSUME NEW t \in Tasks, Request(t) \/ Wake(t) PROVE Kept /\ UNCHANGED <<minted, disk>>
  BY <1>1 DEF Request, Hit, Enter, Enqueue, Wake
<1>2. ASSUME NEW t \in Tasks, AcquireEnds(t) \/ ReadFails(t) \/ Cancel(t) \/ HelperFails(t)
      PROVE  Kept /\ UNCHANGED <<minted, disk>>
  BY <1>2 DEF AcquireEnds, Acquire, AcquireFails, ReadFails, HelperFails, Cancel, CancelQueued,
     CancelAcquiring, CancelLocked, CancelHelper
<1>3. ASSUME NEW t \in Tasks, Resume(t) PROVE Kept /\ UNCHANGED <<minted, disk>>
  BY <1>3 DEF Resume
<1>4. ASSUME NEW t \in Tasks, HelperMintsBare(t)
      PROVE  Kept /\ minted' = minted + 1 /\ UNCHANGED disk
  BY <1>4 DEF HelperMintsBare
<1>5. ASSUME NEW t \in Tasks, HelperMints(t)
      PROVE  /\ minted' = minted + 1 /\ UNCHANGED disk
             /\ \A u \in Tasks : pc'[u] = "staged" =>
                   \/ pc[u] = "staged" /\ tok'[u] = tok[u]
                   \/ tok'[u].serial = minted + 1
  BY <1>5 DEF HelperMints, Minted
<1>6. ASSUME NEW t \in Tasks, Install(t)
      PROVE  /\ Kept /\ UNCHANGED minted /\ pc[t] = "staged"
             /\ \A k \in Keys : disk'[k] \in {disk[k], tok[t]}
  BY <1>6 DEF Install
<1>7. ASSUME NEW t \in Tasks, CallEnds(t)
      PROVE  /\ Kept /\ UNCHANGED minted
             /\ \A k \in Keys : disk'[k] \in {disk[k], NoToken}
  BY <1>7 DEF CallEnds, Respond, Refuse, Leave, Retired
<1>8. ASSUME NEW q \in Procs, Crash(q) PROVE Kept /\ UNCHANGED <<minted, disk>>
  BY <1>8 DEF Crash
<1>9. ASSUME \/ \E q \in Procs, k \in Keys : Orphan(q, k)
             \/ Tick \/ UNCHANGED vars
      PROVE  Kept /\ UNCHANGED <<minted, disk>>
  BY <1>9 DEF Orphan, OrphanAcquires, OrphanGivesUp, OrphanReleases, Tick, vars
<1> QED
  BY <1>1, <1>2, <1>3, <1>4, <1>5, <1>6, <1>7, <1>8, <1>9
     DEF Next, Step, ReadEnds, HelperEnds

(* A staged token is newer than the one it will replace: what is installed *)
(* for its key while it is staged would be installed by another fetch.     *)
StagedIsNewer(k) ==
    \A t \in Tasks : (pc[t] = "staged" /\ req[t] = k /\ disk[k] # NoToken) =>
                        disk[k].serial < tok[t].serial

(* The file of k goes from a token to a newer one. *)
Advances(k) == (disk'[k] # NoToken /\ disk'[k] # disk[k]) =>
                  (disk[k] = NoToken \/ disk[k].serial < disk'[k].serial)

LEMMA AdvanceStep ==
    ASSUME TypeOK, TokenInv, [Next]_vars, NEW j \in Keys, FetcherHolds(j), StagedIsNewer(j)
    PROVE  StagedIsNewer(j)' /\ Advances(j)
<1>1. TypeOK' /\ TokenInv'
  BY TypeStep, TokensStep
<1>2. minted \in Nat /\ \A token \in Token : token # NoToken /\ token.serial \in Nat
  BY NoTokenAssumption DEF TypeOK, Token
<1>3. CASE disk'[j] \in {disk[j], NoToken}
  <2> SUFFICES ASSUME NEW u \in Tasks, pc'[u] = "staged", req'[u] = j,
                      disk'[j] = disk[j], disk[j] # NoToken
               PROVE  disk[j].serial < tok'[u].serial
    BY <1>3 DEF StagedIsNewer, Advances
  <2>1. CASE pc[u] = "staged" /\ tok'[u] = tok[u]
    <3>1. req[u] = j
      BY <1>1, <2>1 DEF TokenInv, TokensFiled
    <3> QED
      BY <2>1, <3>1 DEF StagedIsNewer
  <2>2. CASE tok'[u].serial = minted + 1
    <3>1. disk[j] \in Token /\ disk[j].serial <= minted
      BY DEF TypeOK, TokenInv, TokensKnown, Known
    <3> QED
      BY <1>2, <2>2, <3>1
  <2> QED
    BY <2>1, <2>2, InstalledWasStaged
<1>4. ASSUME NEW t \in Tasks, pc[t] = "staged", disk'[j] = tok[t]
      PROVE  StagedIsNewer(j)' /\ Advances(j)
  <2>1. tok[t] \in Token /\ tok[t] # NoToken /\ tok[t].serial <= minted
    BY <1>2, <1>4 DEF TypeOK, TokenInv, TokensKnown, Known
  <2>2. req[t] = j
    <3>1. tok[t].key = req[t]
      BY <1>4 DEF TokenInv, TokensFiled
    <3>2. disk'[j].key = j
      BY <1>1, <1>4, <2>1 DEF TokenInv, TokensFiled
    <3> QED
      BY <1>4, <3>1, <3>2
  <2>3. Advances(j)
    BY <1>4, <2>2 DEF Advances, StagedIsNewer
  <2>4. ASSUME NEW u \in Tasks, pc'[u] = "staged", req'[u] = j
        PROVE  disk'[j].serial < tok'[u].serial
    <3>1. CASE pc[u] = "staged" /\ tok'[u] = tok[u]
      <4>1. req[u] = j
        BY <1>1, <2>4, <3>1 DEF TokenInv, TokensFiled
      <4>2. u = t
        BY <1>4, <2>2, <3>1, <4>1 DEF FetcherHolds
      <4>3. disk'[j] # tok'[u]
        BY <1>1, <2>4 DEF TokenInv, StagedIsPrivate
      <4> QED
        BY <1>4, <3>1, <4>2, <4>3
    <3>2. CASE tok'[u].serial = minted + 1
      BY <1>2, <1>4, <2>1, <3>2
    <3> QED
      BY <2>4, <3>1, <3>2, InstalledWasStaged
  <2> QED
    BY <2>3, <2>4 DEF StagedIsNewer
<1> QED
  BY <1>3, <1>4, InstalledWasStaged

(* No update is lost: the cache directory goes from a token of a key to a  *)
(* newer one or to none, however long a session takes over its helper and  *)
(* whatever the others install, retire or cancel meanwhile (_fetch).       *)
THEOREM InstallsAdvance == Spec => [][\A k \in Keys : Advances(k)]_vars
<1> DEFINE IInv == \A k \in Keys : StagedIsNewer(k)
<1>1. Init => IInv
  BY DEF Init, StagedIsNewer
<1>2. LockIffFetching => \A k \in Keys : FetcherHolds(k)
  BY DEF LockIffFetching, FetcherHolds
<1>3. TypeOK /\ TokenInv /\ LockIffFetching /\ IInv /\ [Next]_vars =>
         IInv' /\ [\A k \in Keys : Advances(k)]_vars
  BY <1>2, AdvanceStep
<1> HIDE DEF IInv
<1> QED
  BY <1>1, <1>3, TypeCorrect, TokensInvariant, LocksFollowTasks, PTL DEF Spec

(* A 401 costs at most the token of its own key: what is dropped from the  *)
(* cache directory is dropped by a call whose own token, of that key, was  *)
(* refused.  (It need not be the token that was refused: RetireOnlyRefused *)
(* does not hold.)                                                         *)
THEOREM RefusalsCostTheirKey ==
    Spec => [][\A k \in Keys : (disk[k] # NoToken /\ disk'[k] = NoToken) =>
                  \E t \in Tasks : /\ pc[t] = "calling" /\ tok[t].key = k
                                   /\ tok[t] \in refused'[ProcOf[t]]]_vars
<1>1. TypeOK /\ TokenInv /\ [Next]_vars =>
         [\A k \in Keys : (disk[k] # NoToken /\ disk'[k] = NoToken) =>
            \E t \in Tasks : /\ pc[t] = "calling" /\ tok[t].key = k
                             /\ tok[t] \in refused'[ProcOf[t]]]_vars
  <2> SUFFICES ASSUME TypeOK, TokenInv, [Next]_vars, NEW k \in Keys,
                      disk[k] # NoToken, disk'[k] = NoToken
               PROVE  \E t \in Tasks : /\ pc[t] = "calling" /\ tok[t].key = k
                                       /\ tok[t] \in refused'[ProcOf[t]]
    OBVIOUS
  <2>1. ASSUME NEW t \in Tasks, Install(t) PROVE FALSE
    <3>1. tok[t] \in Token /\ disk'[k] \in {disk[k], tok[t]}
      BY <2>1 DEF Install, TypeOK
    <3> QED
      BY <3>1, NoTokenAssumption
  <2>2. PICK t \in Tasks : Refuse(t)
    <3>1. disk' # disk
      OBVIOUS
    <3> QED
      BY <2>1, <3>1 DEF Next, Step, Request, Hit, Enter, Enqueue, Wake, AcquireEnds, Acquire,
         AcquireFails, ReadEnds, Resume, ReadFails, HelperEnds, HelperMints, HelperMintsBare,
         HelperFails, CallEnds,
         Respond, Cancel, CancelQueued, CancelAcquiring, CancelLocked, CancelHelper, Orphan,
         OrphanAcquires, OrphanGivesUp, OrphanReleases, Crash, Tick, vars
  <2>3. pc[t] = "calling" /\ disk' = [disk EXCEPT ![req[t]] = NoToken]
    BY <2>2 DEF Refuse, Retired
  <2>4. req[t] = k /\ tok[t].key = k
    BY <2>3 DEF TypeOK, TokenInv, TokensFiled
  <2>5. tok[t] \in refused'[ProcOf[t]]
    BY <2>2, ProcOfAssumption DEF Refuse, TypeOK
  <2> QED
    BY <2>3, <2>4, <2>5
<1> QED
  BY <1>1, TypeCorrect, TokensInvariant, PTL DEF Spec

-----------------------------------------------------------------------------
(***************************************************************************)
(* The sessions implement the token store.                                 *)
(***************************************************************************)
BeingMinted == {req[t] : t \in {u \in Tasks : pc[u] \in Minting}}

BeingUnread == {req[t] : t \in blind}

Everyone == UNION {refused[p] : p \in Procs}

(* A step of one task that neither was nor comes to be minting leaves the  *)
(* keys that are minted.                                                   *)
LEMMA MintingKept ==
    ASSUME TypeOK, NEW t \in Tasks,
           \A u \in Tasks \ {t} : pc'[u] = pc[u] /\ req'[u] = req[u],
           pc[t] \notin Minting, pc'[t] \notin Minting, UNCHANGED blind
    PROVE  BeingMinted' = BeingMinted /\ BeingUnread' = BeingUnread
<1>1. BeingMinted' = BeingMinted
  BY DEF BeingMinted
<1>2. \A u \in blind : u # t /\ req'[u] = req[u]
  BY DEF TypeOK
<1> QED
  BY <1>1, <1>2 DEF BeingUnread

(* A task that is done with minting takes its key away, and only its key.  *)
LEMMA MintingEnds ==
    ASSUME TypeOK, FetchMutex, NEW t \in Tasks,
           \A u \in Tasks \ {t} : pc'[u] = pc[u], UNCHANGED req,
           pc[t] \in Minting, pc'[t] \notin Minting, blind' = blind \ {t}
    PROVE  /\ BeingMinted' = BeingMinted \ {req[t]}
           /\ BeingUnread' = BeingUnread \ {req[t]}
<1>1. \A u \in Tasks \ {t} : pc[u] \in Minting => req[u] # req[t]
  BY DEF FetchMutex
<1>2. BeingMinted' = BeingMinted \ {req[t]}
  BY <1>1 DEF BeingMinted
<1>3. \A u \in blind \ {t} : req[u] # req[t]
  BY <1>1 DEF TypeOK
<1> QED
  BY <1>2, <1>3 DEF BeingUnread

(* What could not be read is being minted. *)
LEMMA UnreadIsMinted == TypeOK => BeingUnread \subseteq BeingMinted
  BY DEF TypeOK, BeingMinted, BeingUnread

(* The sessions begin as the store does. *)
LEMMA StoreInit == Init => Store!Init
  BY DEF Init, Store!Init

(* Every step of the sessions is one of the store, or none. *)
LEMMA StoreStep ==
    TypeOK /\ FetchMutex /\ NoStampede /\ TokenInv /\ [Next]_vars =>
        [Store!Next]_(Store!vars)
<1> SUFFICES ASSUME TypeOK, FetchMutex, NoStampede, TokenInv, [Next]_vars
             PROVE  [Store!Next]_(Store!vars)
  OBVIOUS
<1> DEFINE Quiet == UNCHANGED <<now, disk, BeingMinted, BeingUnread, refused>>
<1>1. ASSUME Quiet PROVE UNCHANGED Store!vars
  BY <1>1 DEF Store!vars, BeingMinted, BeingUnread
<1>2. ASSUME BeingMinted' \subseteq BeingMinted, BeingUnread' = BeingUnread \cap BeingMinted',
             UNCHANGED <<now, disk, refused>>
      PROVE  Store!Next
  BY <1>2 DEF Store!Next, Store!Abandon, BeingMinted, BeingUnread
<1>3. ASSUME NEW t \in Tasks, NEW k \in Keys, Hit(t, k) \/ Enter(t, k) \/ Enqueue(t, k)
      PROVE  Quiet
  <2>1. /\ \A u \in Tasks \ {t} : pc'[u] = pc[u] /\ req'[u] = req[u]
        /\ pc[t] \notin Minting /\ pc'[t] \notin Minting
    BY <1>3 DEF Hit, Enter, Enqueue, TypeOK
  <2>2. UNCHANGED <<now, disk, refused, blind>>
    BY <1>3 DEF Hit, Enter, Enqueue
  <2> QED
    BY <2>1, <2>2, MintingKept
<1>4. ASSUME NEW t \in Tasks, Wake(t) \/ AcquireEnds(t) PROVE Quiet
  <2>1. /\ \A u \in Tasks \ {t} : pc'[u] = pc[u] /\ req'[u] = req[u]
        /\ pc[t] \notin Minting /\ pc'[t] \notin Minting
    BY <1>4 DEF Wake, AcquireEnds, Acquire, AcquireFails, TypeOK
  <2>2. UNCHANGED <<now, disk, refused, blind>>
    BY <1>4 DEF Wake, AcquireEnds, Acquire, AcquireFails
  <2> QED
    BY <2>1, <2>2, MintingKept
<1>5. ASSUME NEW t \in Tasks, NEW k \in Keys, k = req[t], Resume(t)
      PROVE  Quiet \/ Store!StartMint(k)
  <2>1. CASE Fresh(disk[req[t]])
    <3>1. /\ \A u \in Tasks \ {t} : pc'[u] = pc[u] /\ req'[u] = req[u]
          /\ pc[t] \notin Minting /\ pc'[t] \notin Minting
      BY <1>5, <2>1 DEF Resume, OnDisk, TypeOK
    <3>2. UNCHANGED <<now, disk, refused, blind>>
      BY <1>5 DEF Resume
    <3> QED
      BY <3>1, <3>2, MintingKept
  <2>2. CASE ~Fresh(disk[req[t]])
    <3>1. pc[t] = "locked" /\ pc' = [pc EXCEPT ![t] = "helper"]
      BY <1>5, <2>2 DEF Resume, OnDisk
    <3>2. UNCHANGED <<now, disk, req, refused, blind>>
      BY <1>5 DEF Resume
    <3>3. req[t] \notin BeingMinted
      BY <3>1 DEF BeingMinted, FetchMutex
    <3>4. BeingMinted' = BeingMinted \cup {req[t]}
      BY <3>1, <3>2 DEF BeingMinted, TypeOK
    <3> QED
      BY <1>5, <2>2, <3>2, <3>3, <3>4
         DEF Store!StartMint, Store!Fresh, Fresh, BeingMinted, BeingUnread
  <2> QED
    BY <2>1, <2>2
<1>16. ASSUME NEW t \in Tasks, NEW k \in Keys, k = req[t], ReadFails(t)
       PROVE  Store!StartMint(k)
  <2>1. pc[t] = "locked" /\ pc' = [pc EXCEPT ![t] = "helper"]
    BY <1>16 DEF ReadFails
  <2>2. UNCHANGED <<now, disk, req, refused>> /\ blind' = blind \cup {t}
    BY <1>16 DEF ReadFails
  <2>3. req[t] \notin BeingMinted
    BY <2>1 DEF BeingMinted, FetchMutex
  <2>4. BeingMinted' = BeingMinted \cup {req[t]} /\ BeingUnread' = BeingUnread \cup {req[t]}
    BY <2>1, <2>2 DEF BeingMinted, BeingUnread, TypeOK
  <2> QED
    BY <1>16, <2>2, <2>3, <2>4 DEF Store!StartMint, BeingMinted, BeingUnread
<1>6. ASSUME NEW t \in Tasks, HelperMints(t) PROVE Quiet
  BY <1>6 DEF HelperMints, BeingMinted, BeingUnread, TypeOK
<1>7. ASSUME NEW t \in Tasks, HelperMintsBare(t) \/ HelperFails(t) \/ CancelHelper(t)
      PROVE  Store!Next
  <2>1. /\ \A u \in Tasks \ {t} : pc'[u] = pc[u]
        /\ pc[t] \in Minting /\ pc'[t] \notin Minting
    BY <1>7 DEF HelperMintsBare, HelperFails, CancelHelper, TypeOK
  <2>2. UNCHANGED <<now, disk, req, refused>> /\ blind' = blind \ {t}
    BY <1>7 DEF HelperMintsBare, HelperFails, CancelHelper
  <2> QED
    BY <1>2, <2>1, <2>2, MintingEnds, UnreadIsMinted
<1>8. ASSUME NEW t \in Tasks, NEW k \in Keys, k = req[t], Install(t) PROVE Store!Next
  <2>1. /\ \A u \in Tasks \ {t} : pc'[u] = pc[u]
        /\ pc[t] = "staged" /\ pc'[t] \notin Minting
    BY <1>8 DEF Install, TypeOK
  <2>2. UNCHANGED <<now, req, refused>> /\ blind' = blind \ {t}
    BY <1>8 DEF Install
  <2>3. BeingMinted' = BeingMinted \ {req[t]} /\ BeingUnread' = BeingUnread \ {req[t]}
    BY <2>1, <2>2, MintingEnds
  <2>4. CASE disk' = [disk EXCEPT ![req[t]] = tok[t]]
    <3>1. /\ req[t] \in Keys /\ req[t] \in BeingMinted
          /\ req[t] \notin BeingUnread => ~Fresh(disk[req[t]])
      BY <2>1 DEF TypeOK, BeingMinted, BeingUnread, NoStampede
    <3>2. tok[t] \in Token /\ tok[t].key = req[t] /\ disk'[req[t]] = tok[t]
      BY <2>1, <2>4 DEF TypeOK, TokenInv, TokensFiled
    <3>3. tok[t] \notin Everyone
      BY <2>1 DEF TokenInv, StagedIsPrivate, Everyone
    <3>4. Store!Publish(k)
      BY <1>8, <2>2, <2>3, <2>4, <3>1, <3>2, <3>3
         DEF Store!Publish, Store!Fresh, Store!Token, Fresh, Token, BeingMinted, BeingUnread,
             Everyone
    <3> QED
      BY <3>4 DEF Store!Next
  <2>5. CASE UNCHANGED disk
    BY <1>2, <2>2, <2>3, <2>5, UnreadIsMinted
  <2> QED
    BY <1>8, <2>4, <2>5 DEF Install
<1>9. ASSUME NEW t \in Tasks, NEW k \in Keys, k = req[t], CallEnds(t)
      PROVE  Quiet \/ Store!Retire(k)
  <2>1. /\ \A u \in Tasks \ {t} : pc'[u] = pc[u] /\ req'[u] = req[u]
        /\ pc[t] \notin Minting /\ pc'[t] \notin Minting /\ UNCHANGED blind
    BY <1>9 DEF CallEnds, Respond, Refuse, Leave, TypeOK
  <2>2. UNCHANGED <<BeingMinted, BeingUnread>>
    BY <2>1, MintingKept
  <2>3. CASE Respond(t)
    BY <2>2, <2>3 DEF Respond
  <2>4. CASE Refuse(t)
    <3>1. Everyone \subseteq Everyone'
      BY <2>4 DEF Refuse, Everyone, TypeOK
    <3> QED
      BY <1>9, <2>2, <2>4, <3>1 DEF Refuse, Retired, Store!Retire, BeingMinted, BeingUnread,
         Everyone
  <2> QED
    BY <1>9, <2>3, <2>4 DEF CallEnds
<1>10. ASSUME NEW t \in Tasks, CancelQueued(t) \/ CancelAcquiring(t) \/ CancelLocked(t)
       PROVE  Quiet
  <2>1. /\ \A u \in Tasks \ {t} : pc'[u] = pc[u] /\ req'[u] = req[u]
        /\ pc[t] \notin Minting /\ pc'[t] \notin Minting
    BY <1>10 DEF CancelQueued, CancelAcquiring, CancelLocked, TypeOK
  <2>2. UNCHANGED <<now, disk, refused, blind>>
    BY <1>10 DEF CancelQueued, CancelAcquiring, CancelLocked
  <2> QED
    BY <2>1, <2>2, MintingKept
<1>11. ASSUME NEW p \in Procs, NEW k \in Keys, Orphan(p, k) PROVE Quiet
  BY <1>11 DEF Orphan, OrphanAcquires, OrphanGivesUp, OrphanReleases, BeingMinted, BeingUnread
<1>12. ASSUME NEW p \in Procs, Crash(p) PROVE Store!Next
  <2>1. UNCHANGED <<now, disk, req, refused>> /\ blind' = blind \ TasksOf(p)
    BY <1>12 DEF Crash
  <2>2. \A t \in Tasks : pc'[t] = IF t \in TasksOf(p) THEN "idle" ELSE pc[t]
    BY <1>12 DEF Crash, TasksOf
  <2>3. BeingMinted' \subseteq BeingMinted
    BY <2>1, <2>2 DEF BeingMinted
  <2>4. BeingUnread' \subseteq BeingUnread \cap BeingMinted'
    BY <2>1, <2>2 DEF BeingMinted, BeingUnread, TypeOK
  <2>5. ASSUME NEW t \in blind, req[t] \in BeingMinted' PROVE req[t] \in BeingUnread'
    <3>1. PICK u \in Tasks : req[u] = req[t] /\ pc[u] \in Minting /\ u \notin TasksOf(p)
      BY <2>1, <2>2, <2>5 DEF BeingMinted
    <3>2. u = t
      BY <3>1 DEF FetchMutex, TypeOK
    <3> QED
      BY <2>1, <3>1, <3>2 DEF BeingUnread
  <2>6. BeingUnread' = BeingUnread \cap BeingMinted'
    BY <2>4, <2>5 DEF BeingUnread
  <2> QED
    BY <1>2, <2>1, <2>3, <2>6
<1>13. CASE Tick
  BY <1>13 DEF Tick, Store!Next, Store!Tick
<1>14. CASE UNCHANGED vars
  BY <1>14 DEF vars, Store!vars
<1> HIDE DEF Quiet
<1>15. ASSUME NEW t \in Tasks, Step(t) PROVE [Store!Next]_(Store!vars)
  <2>1. PICK k \in Keys : k = req[t]
    BY DEF TypeOK
  <2>2. CASE \/ Request(t) \/ Wake(t) \/ AcquireEnds(t) \/ HelperMints(t)
             \/ CancelQueued(t) \/ CancelAcquiring(t) \/ CancelLocked(t)
    BY <1>1, <1>3, <1>4, <1>6, <1>10, <2>2 DEF Request
  <2>3. CASE HelperMintsBare(t) \/ HelperFails(t) \/ CancelHelper(t) \/ Install(t)
    BY <1>7, <1>8, <2>1, <2>3
  <2>4. CASE ReadEnds(t) \/ CallEnds(t)
    BY <1>1, <1>5, <1>9, <1>16, <2>1, <2>4 DEF ReadEnds, Store!Next
  <2> QED
    BY <1>15, <2>2, <2>3, <2>4 DEF Step, HelperEnds, Cancel
<1> QED
  BY <1>1, <1>11, <1>12, <1>13, <1>14, <1>15 DEF Next, Store!Next

(* Whatever the interleaving, cancellation or crash, the sessions do what  *)
(* the abstract token store does (ImplementsStore).                        *)
THEOREM StoreImplemented == Spec => ImplementsStore
<1> QED
  BY StoreInit, StoreStep, TypeCorrect, FetchesExclude, StampedesExcluded, TokensInvariant, PTL
     DEF Spec, ImplementsStore, Store!Spec

-----------------------------------------------------------------------------
(***************************************************************************)
(* The queues behind the asyncio.Locks.  A queue holds the tasks that wait *)
(* for its lock, each once, and nobody else; so a cancelled task leaves no *)
(* place that is never given up.                                           *)
(***************************************************************************)
InQueue(t) ==
    \E i \in 1..Len(waiters[ProcOf[t]][req[t]]) : waiters[ProcOf[t]][req[t]][i] = t

QueuesHoldQueued ==
    \A p \in Procs, k \in Keys : \A i \in 1..Len(waiters[p][k]) :
        /\ pc[waiters[p][k][i]] = "queued"
        /\ ProcOf[waiters[p][k][i]] = p
        /\ req[waiters[p][k][i]] = k

QueuedOnce ==
    \A p \in Procs, k \in Keys : \A i, j \in 1..Len(waiters[p][k]) :
        waiters[p][k][i] = waiters[p][k][j] => i = j

QueuedAreInQueues == \A t \in Tasks : pc[t] = "queued" => InQueue(t)

(* A process has one task at a time inside the lock of a key: no two of    *)
(* its threads ever wait for one file lock for tasks that are there.       *)
OneInside ==
    \A t, u \in Tasks :
        (t # u /\ ProcOf[t] = ProcOf[u] /\ pc[t] \in Inside /\ pc[u] \in Inside) =>
            req[t] # req[u]

QueueInv == QueuesHoldQueued /\ QueuedOnce /\ QueuedAreInQueues /\ OneInside

(* RemoveAt takes one element out, and those behind it move up.            *)
LEMMA RemoveAtElements ==
    ASSUME NEW S, NEW s \in Seq(S), NEW i \in 1..Len(s)
    PROVE  /\ Len(RemoveAt(s, i)) = Len(s) - 1
           /\ \A j \in 1..Len(s) - 1 :
                 RemoveAt(s, i)[j] = IF j < i THEN s[j] ELSE s[j + 1]
<1> DEFINE front == SubSeq(s, 1, i - 1)
           back  == SubSeq(s, i + 1, Len(s))
<1>1. /\ front \in Seq(S) /\ Len(front) = i - 1
      /\ \A j \in 1..i - 1 : front[j] = s[j]
  OBVIOUS
<1>2. /\ back \in Seq(S) /\ Len(back) = Len(s) - i
      /\ \A j \in 1..Len(s) - i : back[j] = s[i + j]
  OBVIOUS
<1>3. RemoveAt(s, i) = front \o back
  BY DEF RemoveAt
<1> HIDE DEF front, back
<1>4. Len(front \o back) = Len(s) - 1
  <2>1. ASSUME NEW a \in Seq(S), NEW b \in Seq(S) PROVE Len(a \o b) = Len(a) + Len(b)
    OBVIOUS
  <2>2. Len(front \o back) = (i - 1) + (Len(s) - i)
    BY <1>1, <1>2, <2>1
  <2>3. Len(s) \in Nat /\ i \in Nat
    OBVIOUS
  <2> QED
    BY <2>2, <2>3
<1>5. ASSUME NEW j \in 1..Len(s) - 1
      PROVE  (front \o back)[j] = IF j < i THEN s[j] ELSE s[j + 1]
  <2>1. CASE j < i
    BY <1>1, <1>2, <2>1
  <2>2. CASE ~(j < i)
    <3>1. (front \o back)[j] = back[j - (i - 1)] /\ j - (i - 1) \in 1..Len(s) - i
      BY <1>1, <1>2, <2>2
    <3> QED
      BY <1>2, <2>2, <3>1
  <2> QED
    BY <2>1, <2>2
<1> QED
  BY <1>3, <1>4, <1>5

(* Where nobody comes in, those inside are alone as before. *)
LEMMA NobodyComesIn ==
    ASSUME OneInside,
           \A t \in Tasks : pc'[t] \in Inside => pc[t] \in Inside /\ req'[t] = req[t]
    PROVE  OneInside'
<1> HIDE DEF Inside
<1> QED
  BY DEF OneInside

(* A step that leaves the queues and the queued alone, and lets nobody in, *)
(* keeps QueueInv.                                                         *)
LEMMA QueuesLeftAlone ==
    ASSUME TypeOK, QueueInv, UNCHANGED waiters,
           \A t \in Tasks : pc'[t] = "queued" <=> pc[t] = "queued",
           \A t \in Tasks : pc'[t] = "queued" => req'[t] = req[t],
           \A t \in Tasks : pc'[t] \in Inside => pc[t] \in Inside /\ req'[t] = req[t]
    PROVE  QueueInv'
<1>1. QueuesHoldQueued'
  <2> SUFFICES ASSUME NEW p \in Procs, NEW k \in Keys, NEW i \in 1..Len(waiters[p][k])
               PROVE  /\ pc'[waiters[p][k][i]] = "queued"
                      /\ ProcOf[waiters[p][k][i]] = p
                      /\ req'[waiters[p][k][i]] = k
    BY DEF QueuesHoldQueued
  <2>1. waiters[p][k][i] \in Tasks
    BY DEF TypeOK
  <2> QED
    BY <2>1 DEF QueueInv, QueuesHoldQueued
<1>2. QueuedOnce' /\ QueuedAreInQueues'
  BY DEF QueueInv, QueuedOnce, QueuedAreInQueues, InQueue
<1>3. OneInside'
  BY NobodyComesIn DEF QueueInv
<1> QED
  BY <1>1, <1>2, <1>3 DEF QueueInv

(* Who takes a place in a queue out of it keeps the others in it, in order. *)
LEMMA PlaceTaken ==
    ASSUME TypeOK, QueuesHoldQueued, QueuedOnce, QueuedAreInQueues, UNCHANGED req,
           NEW t \in Tasks, NEW i \in 1..Len(waiters[ProcOf[t]][req[t]]),
           waiters[ProcOf[t]][req[t]][i] = t,
           waiters' = [waiters EXCEPT ![ProcOf[t]][req[t]] = RemoveAt(@, i)],
           pc'[t] # "queued",
           \A u \in Tasks \ {t} : pc'[u] = pc[u]
    PROVE  QueuesHoldQueued' /\ QueuedOnce' /\ QueuedAreInQueues'
<1> DEFINE w == waiters[ProcOf[t]][req[t]]
           v == RemoveAt(w, i)
<1>1. ProcOf[t] \in Procs /\ req[t] \in Keys /\ w \in Seq(Tasks)
  BY ProcOfAssumption DEF TypeOK
<1>2. /\ Len(v) = Len(w) - 1
      /\ \A j \in 1..Len(v) : v[j] = IF j < i THEN w[j] ELSE w[j + 1]
  BY <1>1, RemoveAtElements
<1>3. \A p \in Procs, k \in Keys :
         waiters'[p][k] = IF p = ProcOf[t] /\ k = req[t] THEN v ELSE waiters[p][k]
  BY <1>1 DEF TypeOK
<1>4. \A j \in 1..Len(w) : j # i => w[j] # t
  BY <1>1 DEF QueuedOnce
<1> HIDE DEF v
<1>5. ASSUME NEW p \in Procs, NEW k \in Keys, NEW j \in 1..Len(waiters'[p][k])
      PROVE  /\ waiters'[p][k][j] \in Tasks \ {t}
             /\ \E n \in 1..Len(waiters[p][k]) : waiters'[p][k][j] = waiters[p][k][n]
  <2>1. CASE p = ProcOf[t] /\ k = req[t]
    <3>1. j \in 1..Len(w) - 1 /\ v[j] = (IF j < i THEN w[j] ELSE w[j + 1])
      BY <1>2, <1>3, <2>1
    <3>2. PICK n \in 1..Len(w) : n # i /\ v[j] = w[n]
      <4>1. CASE j < i
        BY <1>1, <3>1, <4>1
      <4>2. CASE ~(j < i)
        <5>1. j + 1 \in 1..Len(w) /\ j + 1 # i
          BY <1>1, <3>1, <4>2
        <5> QED
          BY <3>1, <4>2, <5>1
      <4> QED
        BY <4>1, <4>2
    <3> QED
      BY <1>1, <1>3, <1>4, <2>1, <3>2
  <2>2. CASE ~(p = ProcOf[t] /\ k = req[t])
    <3>1. waiters'[p][k] = waiters[p][k] /\ waiters[p][k][j] \in Tasks
      BY <1>3, <2>2 DEF TypeOK
    <3>2. waiters[p][k][j] # t
      BY <2>2, <3>1 DEF QueuesHoldQueued
    <3> QED
      BY <3>1, <3>2
  <2> QED
    BY <2>1, <2>2
<1>6. QueuesHoldQueued'
  <2> SUFFICES ASSUME NEW p \in Procs, NEW k \in Keys, NEW j \in 1..Len(waiters'[p][k])
               PROVE  /\ pc'[waiters'[p][k][j]] = "queued"
                      /\ ProcOf[waiters'[p][k][j]] = p
                      /\ req'[waiters'[p][k][j]] = k
    BY DEF QueuesHoldQueued
  <2>1. waiters'[p][k][j] \in Tasks \ {t}
    BY <1>5
  <2>2. PICK n \in 1..Len(waiters[p][k]) : waiters'[p][k][j] = waiters[p][k][n]
    BY <1>5
  <2>3. /\ pc[waiters[p][k][n]] = "queued"
        /\ ProcOf[waiters[p][k][n]] = p
        /\ req[waiters[p][k][n]] = k
    BY DEF QueuesHoldQueued
  <2> QED
    BY <2>1, <2>2, <2>3
<1>7. QueuedOnce'
  <2> SUFFICES ASSUME NEW p \in Procs, NEW k \in Keys,
                      NEW j \in 1..Len(waiters'[p][k]), NEW n \in 1..Len(waiters'[p][k]),
                      waiters'[p][k][j] = waiters'[p][k][n]
               PROVE  j = n
    BY DEF QueuedOnce
  <2>1. CASE p = ProcOf[t] /\ k = req[t]
    <3> DEFINE Was(m) == IF m < i THEN m ELSE m + 1
    <3>1. j \in 1..Len(w) - 1 /\ n \in 1..Len(w) - 1
      BY <1>2, <1>3, <2>1
    <3>2. ASSUME NEW m \in 1..Len(w) - 1 PROVE v[m] = w[Was(m)]
      <4>1. v[m] = IF m < i THEN w[m] ELSE w[m + 1]
        BY <1>2
      <4>2. CASE m < i
        BY <4>1, <4>2
      <4>3. CASE ~(m < i)
        BY <4>1, <4>3
      <4> QED
        BY <4>2, <4>3
    <3>3. ASSUME NEW m \in 1..Len(w) - 1 PROVE Was(m) \in 1..Len(w)
      <4>1. Len(w) \in Nat
        BY <1>1
      <4> HIDE DEF w
      <4> QED
        BY <4>1
    <3> HIDE DEF Was
    <3>4. w[Was(j)] = w[Was(n)]
      BY <1>1, <1>3, <2>1, <3>1, <3>2
    <3>5. Was(j) \in 1..Len(w) /\ Was(n) \in 1..Len(w)
      BY <3>1, <3>3
    <3>6. Was(j) = Was(n)
      BY <1>1, <3>4, <3>5 DEF QueuedOnce
    <3> QED
      BY <3>1, <3>6 DEF Was
  <2>2. CASE ~(p = ProcOf[t] /\ k = req[t])
    BY <1>3, <2>2 DEF QueuedOnce
  <2> QED
    BY <2>1, <2>2
<1>8. QueuedAreInQueues'
  <2> SUFFICES ASSUME NEW u \in Tasks, pc'[u] = "queued"
               PROVE  \E j \in 1..Len(waiters'[ProcOf[u]][req[u]]) :
                         waiters'[ProcOf[u]][req[u]][j] = u
    BY DEF QueuedAreInQueues, InQueue
  <2>1. u # t /\ ProcOf[u] \in Procs /\ req[u] \in Keys
    BY ProcOfAssumption DEF TypeOK
  <2>2. PICK n \in 1..Len(waiters[ProcOf[u]][req[u]]) : waiters[ProcOf[u]][req[u]][n] = u
    BY <2>1 DEF QueuedAreInQueues, InQueue
  <2>3. CASE ProcOf[u] = ProcOf[t] /\ req[u] = req[t]
    <3>1. n # i /\ n \in 1..Len(w) /\ w[n] = u
      BY <2>1, <2>2, <2>3
    <3>2. CASE n < i
      <4>1. n \in 1..Len(v) /\ v[n] = u
        BY <1>1, <1>2, <3>1, <3>2
      <4> QED
        BY <1>1, <1>3, <2>3, <4>1
    <3>3. CASE n > i
      <4>1. n - 1 \in 1..Len(v) /\ ~(n - 1 < i) /\ (n - 1) + 1 = n
        BY <1>1, <1>2, <3>1, <3>3
      <4>2. v[n - 1] = u
        BY <1>2, <3>1, <4>1
      <4> QED
        BY <1>1, <1>3, <2>3, <4>1, <4>2
    <3> QED
      BY <1>1, <3>1, <3>2, <3>3
  <2>4. CASE ~(ProcOf[u] = ProcOf[t] /\ req[u] = req[t])
    BY <1>3, <2>1, <2>2, <2>4
  <2> QED
    BY <2>3, <2>4
<1> QED
  BY <1>6, <1>7, <1>8

(* The head of a sequence is its first element, and the tail what is left. *)
LEMMA TailIsRemoveAt ==
    ASSUME NEW S, NEW s \in Seq(S), s # <<>>
    PROVE  /\ 1 \in 1..Len(s) /\ Head(s) = s[1]
           /\ Tail(s) = RemoveAt(s, 1)
<1>1. Len(s) \in Nat \ {0} /\ Head(s) = s[1]
  OBVIOUS
<1>2. Tail(s) \in Seq(S) /\ Len(Tail(s)) = Len(s) - 1
      /\ \A j \in 1..Len(s) - 1 : Tail(s)[j] = s[j + 1]
  BY <1>1
<1>3. RemoveAt(s, 1) \in Seq(S)
  BY <1>1, RemoveAtType
<1>4. Len(RemoveAt(s, 1)) = Len(s) - 1
      /\ \A j \in 1..Len(s) - 1 : RemoveAt(s, 1)[j] = s[j + 1]
  BY <1>1, RemoveAtElements
<1> QED
  BY <1>1, <1>2, <1>3, <1>4

(* Who comes in where nobody is, is inside alone. *)
LEMMA ComesInAlone ==
    ASSUME OneInside, NEW t \in Tasks, ~Held(ProcOf[t], req'[t]),
           \A u \in Tasks \ {t} : pc'[u] = pc[u] /\ req'[u] = req[u]
    PROVE  OneInside'
<1> SUFFICES ASSUME NEW u \in Tasks, NEW v \in Tasks, u # v, ProcOf[u] = ProcOf[v],
                    pc'[u] \in Inside, pc'[v] \in Inside
             PROVE  req'[u] # req'[v]
  BY DEF OneInside
<1> HIDE DEF Inside
<1>1. \A x \in Tasks : (ProcOf[x] = ProcOf[t] /\ pc[x] \in Inside) => req[x] # req'[t]
  BY DEF Held
<1>2. CASE u = t
  BY <1>1, <1>2
<1>3. CASE v = t
  BY <1>1, <1>3
<1>4. CASE u # t /\ v # t
  BY <1>4 DEF OneInside
<1> QED
  BY <1>2, <1>3, <1>4

(* Every step keeps the queues. *)
LEMMA QueuesStep == TypeOK /\ QueueInv /\ [Next]_vars => QueueInv'
<1> SUFFICES ASSUME TypeOK, QueueInv, [Next]_vars PROVE QueueInv'
  OBVIOUS
<1> USE ProcOfAssumption
<1>1. ASSUME NEW t \in Tasks, NEW k \in Keys, Hit(t, k) PROVE QueueInv'
  BY <1>1, QueuesLeftAlone DEF Hit, TypeOK
<1>2. ASSUME NEW t \in Tasks, NEW k \in Keys, Enter(t, k) PROVE QueueInv'
  <2>1. /\ pc[t] = "idle" /\ pc' = [pc EXCEPT ![t] = "acquiring"]
        /\ req' = [req EXCEPT ![t] = k] /\ waiters' = waiters
        /\ ~Held(ProcOf[t], k)
    BY <1>2 DEF Enter
  <2>2. \A u \in Tasks : pc[u] = "queued" <=> pc'[u] = "queued"
    BY <2>1 DEF TypeOK
  <2>3. \A u \in Tasks \ {t} : pc'[u] = pc[u] /\ req'[u] = req[u]
    BY <2>1 DEF TypeOK
  <2>4. QueuesHoldQueued'
    <3> SUFFICES ASSUME NEW p \in Procs, NEW j \in Keys, NEW i \in 1..Len(waiters[p][j])
                 PROVE  /\ pc'[waiters[p][j][i]] = "queued"
                        /\ ProcOf[waiters[p][j][i]] = p
                        /\ req'[waiters[p][j][i]] = j
      BY <2>1 DEF QueuesHoldQueued
    <3>1. waiters[p][j][i] \in Tasks
      BY DEF TypeOK
    <3> QED
      BY <2>1, <2>3, <3>1 DEF QueueInv, QueuesHoldQueued
  <2>5. QueuedOnce' /\ QueuedAreInQueues'
    BY <2>1, <2>2, <2>3 DEF QueueInv, QueuedOnce, QueuedAreInQueues, InQueue
  <2>6. OneInside'
    BY <2>1, <2>3, ComesInAlone DEF QueueInv, TypeOK
  <2> QED
    BY <2>4, <2>5, <2>6 DEF QueueInv
<1>3. ASSUME NEW t \in Tasks, NEW k \in Keys, Enqueue(t, k) PROVE QueueInv'
  <2> DEFINE w == waiters[ProcOf[t]][k]
  <2>1. /\ pc[t] = "idle" /\ pc' = [pc EXCEPT ![t] = "queued"]
        /\ req' = [req EXCEPT ![t] = k]
        /\ waiters' = [waiters EXCEPT ![ProcOf[t]][k] = Append(@, t)]
    BY <1>3 DEF Enqueue
  <2>2. w \in Seq(Tasks) /\ ProcOf[t] \in Procs
    BY DEF TypeOK
  <2>3. /\ Len(Append(w, t)) = Len(w) + 1 /\ Append(w, t)[Len(w) + 1] = t
        /\ \A i \in 1..Len(w) : Append(w, t)[i] = w[i]
    BY <2>2
  <2>4. \A p \in Procs, j \in Keys :
           waiters'[p][j] = IF p = ProcOf[t] /\ j = k THEN Append(w, t) ELSE waiters[p][j]
    BY <2>1, <2>2 DEF TypeOK
  <2>5. \A p \in Procs, j \in Keys : \A i \in 1..Len(waiters[p][j]) :
           waiters[p][j][i] \in Tasks \ {t}
    <3> SUFFICES ASSUME NEW p \in Procs, NEW j \in Keys, NEW i \in 1..Len(waiters[p][j])
                 PROVE  waiters[p][j][i] \in Tasks \ {t}
      OBVIOUS
    <3>1. waiters[p][j] \in Seq(Tasks)
      BY DEF TypeOK
    <3>2. pc[waiters[p][j][i]] = "queued"
      BY DEF QueueInv, QueuesHoldQueued
    <3> QED
      BY <2>1, <3>1, <3>2
  <2>6. \A u \in Tasks \ {t} : pc'[u] = pc[u] /\ req'[u] = req[u]
    BY <2>1 DEF TypeOK
  <2>7. pc'[t] = "queued" /\ req'[t] = k
    BY <2>1 DEF TypeOK
  <2>8. ASSUME NEW p \in Procs, NEW j \in Keys, NEW i \in 1..Len(waiters'[p][j])
        PROVE  \/ p = ProcOf[t] /\ j = k /\ i = Len(w) + 1 /\ waiters'[p][j][i] = t
               \/ /\ i \in 1..Len(waiters[p][j]) /\ waiters'[p][j][i] = waiters[p][j][i]
                  /\ waiters[p][j][i] \in Tasks \ {t}
    <3>1. CASE p = ProcOf[t] /\ j = k
      <4>1. i \in 1..Len(w) + 1
        BY <2>3, <2>4, <3>1
      <4>2. CASE i = Len(w) + 1
        BY <2>3, <2>4, <3>1, <4>2
      <4>3. CASE i # Len(w) + 1
        <5>1. i \in 1..Len(w)
          BY <2>2, <4>1, <4>3
        <5> QED
          BY <2>2, <2>3, <2>4, <2>5, <3>1, <5>1
      <4> QED
        BY <4>2, <4>3
    <3>2. CASE ~(p = ProcOf[t] /\ j = k)
      BY <2>4, <2>5, <3>2
    <3> QED
      BY <3>1, <3>2
  <2> HIDE DEF w
  <2>9. QueuesHoldQueued'
    <3> SUFFICES ASSUME NEW p \in Procs, NEW j \in Keys, NEW i \in 1..Len(waiters'[p][j])
                 PROVE  /\ pc'[waiters'[p][j][i]] = "queued"
                        /\ ProcOf[waiters'[p][j][i]] = p
                        /\ req'[waiters'[p][j][i]] = j
      BY DEF QueuesHoldQueued
    <3>1. CASE p = ProcOf[t] /\ j = k /\ waiters'[p][j][i] = t
      BY <2>7, <3>1
    <3>2. CASE /\ i \in 1..Len(waiters[p][j]) /\ waiters'[p][j][i] = waiters[p][j][i]
               /\ waiters[p][j][i] \in Tasks \ {t}
      <4>1. /\ pc[waiters[p][j][i]] = "queued"
            /\ ProcOf[waiters[p][j][i]] = p
            /\ req[waiters[p][j][i]] = j
        BY <3>2 DEF QueueInv, QueuesHoldQueued
      <4> QED
        BY <2>6, <3>2, <4>1
    <3> QED
      BY <2>8, <3>1, <3>2
  <2>10. QueuedOnce'
    <3> SUFFICES ASSUME NEW p \in Procs, NEW j \in Keys,
                        NEW i \in 1..Len(waiters'[p][j]), NEW n \in 1..Len(waiters'[p][j]),
                        waiters'[p][j][i] = waiters'[p][j][n]
                 PROVE  i = n
      BY DEF QueuedOnce
    <3> DEFINE AtEnd(m) == m = Len(w) + 1 /\ waiters'[p][j][m] = t
               Kept(m) == /\ m \in 1..Len(waiters[p][j])
                          /\ waiters'[p][j][m] = waiters[p][j][m]
                          /\ waiters[p][j][m] \in Tasks \ {t}
    <3>1. ASSUME NEW m \in 1..Len(waiters'[p][j]) PROVE AtEnd(m) \/ Kept(m)
      BY <2>8
    <3>2. CASE Kept(i) /\ Kept(n)
      BY <3>2 DEF QueueInv, QueuedOnce
    <3> QED
      BY <3>1, <3>2
  <2>11. QueuedAreInQueues'
    <3> SUFFICES ASSUME NEW u \in Tasks, pc'[u] = "queued"
                 PROVE  \E i \in 1..Len(waiters'[ProcOf[u]][req'[u]]) :
                           waiters'[ProcOf[u]][req'[u]][i] = u
      BY DEF QueuedAreInQueues, InQueue
    <3>1. CASE u = t
      <4>1. waiters'[ProcOf[u]][req'[u]] = Append(w, t)
        BY <2>2, <2>4, <2>7, <3>1
      <4>2. Len(w) \in Nat /\ Len(w) + 1 \in 1..Len(Append(w, t))
        BY <2>2, <2>3
      <4> QED
        BY <2>3, <3>1, <4>1, <4>2
    <3>2. CASE u # t
      <4>1. ProcOf[u] \in Procs /\ req[u] \in Keys /\ req'[u] = req[u] /\ pc[u] = "queued"
        BY <2>6, <3>2 DEF TypeOK
      <4>2. PICK i \in 1..Len(waiters[ProcOf[u]][req[u]]) : waiters[ProcOf[u]][req[u]][i] = u
        BY <4>1 DEF QueueInv, QueuedAreInQueues, InQueue
      <4>3. CASE ProcOf[u] = ProcOf[t] /\ req[u] = k
        <5>1. i \in 1..Len(w) /\ i \in 1..Len(w) + 1 /\ w[i] = u
          BY <2>2, <4>2, <4>3 DEF w
        <5> QED
          BY <2>3, <2>4, <4>1, <4>3, <5>1
      <4>4. CASE ~(ProcOf[u] = ProcOf[t] /\ req[u] = k)
        BY <2>4, <4>1, <4>2, <4>4
      <4> QED
        BY <4>3, <4>4
    <3> QED
      BY <3>1, <3>2
  <2>12. OneInside'
    BY <2>6, <2>7, NobodyComesIn DEF QueueInv
  <2> QED
    BY <2>9, <2>10, <2>11, <2>12 DEF QueueInv
<1>4. ASSUME NEW t \in Tasks, Wake(t) PROVE QueueInv'
  <2> DEFINE w == waiters[ProcOf[t]][req[t]]
  <2>1. /\ pc[t] = "queued" /\ w # <<>> /\ Head(w) = t /\ ~Held(ProcOf[t], req[t])
        /\ waiters' = [waiters EXCEPT ![ProcOf[t]][req[t]] = Tail(@)]
        /\ UNCHANGED req
        /\ pc' = [pc EXCEPT ![t] = "calling"] \/ pc' = [pc EXCEPT ![t] = "acquiring"]
    BY <1>4 DEF Wake
  <2>2. w \in Seq(Tasks)
    BY DEF TypeOK
  <2>3. 1 \in 1..Len(w) /\ w[1] = t /\ Tail(w) = RemoveAt(w, 1)
    BY <2>1, <2>2, TailIsRemoveAt
  <2>4. waiters' = [waiters EXCEPT ![ProcOf[t]][req[t]] = RemoveAt(@, 1)]
    BY <2>1, <2>3 DEF TypeOK
  <2>5. pc'[t] # "queued" /\ \A u \in Tasks \ {t} : pc'[u] = pc[u]
    BY <2>1 DEF TypeOK
  <2>6. QueuesHoldQueued' /\ QueuedOnce' /\ QueuedAreInQueues'
    BY <2>1, <2>3, <2>4, <2>5, PlaceTaken DEF QueueInv
  <2>7. OneInside'
    BY <2>1, <2>5, ComesInAlone DEF QueueInv, TypeOK
  <2> QED
    BY <2>6, <2>7 DEF QueueInv
<1>5. ASSUME NEW t \in Tasks,
             AcquireEnds(t) \/ ReadEnds(t) \/ HelperEnds(t) \/ Install(t) \/ CallEnds(t)
      PROVE  QueueInv'
  <2>1. UNCHANGED <<waiters, req>> /\ pc[t] \in Inside \cup {"calling"}
    BY <1>5 DEF AcquireEnds, Acquire, AcquireFails, ReadEnds, Resume, ReadFails,
       HelperEnds, HelperMints, HelperMintsBare, HelperFails, Install, CallEnds, Respond, Refuse, Leave
  <2>2. \/ pc' = [pc EXCEPT ![t] = "idle"] \/ pc' = [pc EXCEPT ![t] = "calling"]
        \/ pc[t] \in Inside /\ \E place \in Fetching : pc' = [pc EXCEPT ![t] = place]
    BY <1>5 DEF AcquireEnds, Acquire, AcquireFails, ReadEnds, Resume, ReadFails,
       HelperEnds, HelperMints, HelperMintsBare, HelperFails, Install, CallEnds, Respond, Refuse, Leave
  <2> QED
    BY <2>1, <2>2, QueuesLeftAlone DEF TypeOK
<1>6. ASSUME NEW t \in Tasks, CancelQueued(t) PROVE QueueInv'
  <2>1. PICK i \in DOMAIN waiters[ProcOf[t]][req[t]] :
           /\ waiters[ProcOf[t]][req[t]][i] = t
           /\ waiters' = [waiters EXCEPT ![ProcOf[t]][req[t]] = RemoveAt(@, i)]
    BY <1>6 DEF CancelQueued
  <2>2. waiters[ProcOf[t]][req[t]] \in Seq(Tasks)
    BY DEF TypeOK
  <2>3. i \in 1..Len(waiters[ProcOf[t]][req[t]])
    BY <2>2
  <2>4. UNCHANGED req /\ pc'[t] = "idle" /\ \A u \in Tasks \ {t} : pc'[u] = pc[u]
    BY <1>6 DEF CancelQueued, TypeOK
  <2>5. QueuesHoldQueued' /\ QueuedOnce' /\ QueuedAreInQueues'
    BY <2>1, <2>3, <2>4, PlaceTaken DEF QueueInv
  <2>6. OneInside'
    BY <2>4, NobodyComesIn DEF QueueInv
  <2> QED
    BY <2>5, <2>6 DEF QueueInv
<1>7. ASSUME NEW t \in Tasks, CancelAcquiring(t) \/ CancelLocked(t) \/ CancelHelper(t)
      PROVE  QueueInv'
  BY <1>7, QueuesLeftAlone DEF CancelAcquiring, CancelLocked, CancelHelper, TypeOK
<1>8. ASSUME NEW p \in Procs, Crash(p) PROVE QueueInv'
  <2>1. /\ waiters' = [waiters EXCEPT ![p] = [k \in Keys |-> <<>>]] /\ UNCHANGED req
        /\ pc' = [t \in Tasks |-> IF ProcOf[t] = p THEN "idle" ELSE pc[t]]
    BY <1>8 DEF Crash
  <2>2. \A q \in Procs, k \in Keys :
           waiters'[q][k] = IF q = p THEN <<>> ELSE waiters[q][k]
    BY <2>1 DEF TypeOK
  <2>3. QueuesHoldQueued'
    <3> SUFFICES ASSUME NEW q \in Procs, NEW k \in Keys, NEW i \in 1..Len(waiters'[q][k])
                 PROVE  /\ pc'[waiters'[q][k][i]] = "queued"
                        /\ ProcOf[waiters'[q][k][i]] = q
                        /\ req'[waiters'[q][k][i]] = k
      BY DEF QueuesHoldQueued
    <3>1. q # p /\ waiters'[q][k] = waiters[q][k] /\ waiters[q][k][i] \in Tasks
      BY <2>2 DEF TypeOK
    <3> QED
      BY <2>1, <3>1 DEF QueueInv, QueuesHoldQueued
  <2>4. QueuedOnce'
    BY <2>2 DEF QueueInv, QueuedOnce
  <2>5. QueuedAreInQueues'
    BY <2>1, <2>2 DEF QueueInv, QueuedAreInQueues, InQueue, TypeOK
  <2>6. OneInside'
    BY <2>1, NobodyComesIn DEF QueueInv
  <2> QED
    BY <2>3, <2>4, <2>5, <2>6 DEF QueueInv
<1>9. ASSUME (\E p \in Procs, k \in Keys : Orphan(p, k)) \/ Tick \/ UNCHANGED vars
      PROVE  QueueInv'
  <2>1. UNCHANGED <<waiters, pc, req>>
    BY <1>9 DEF Orphan, OrphanAcquires, OrphanGivesUp, OrphanReleases, Tick, vars
  <2> QED
    BY <2>1, QueuesLeftAlone
<1> QED
  BY <1>1, <1>2, <1>3, <1>4, <1>5, <1>6, <1>7, <1>8, <1>9 DEF Next, Step, Request, Cancel

(* One task at a time of a process fetches a key, the others queue.        *)
THEOREM ThreadsExclude == Spec => []OneInside
<1>1. Init => QueueInv
  BY DEF Init, QueueInv, QueuesHoldQueued, QueuedOnce, QueuedAreInQueues, OneInside
<1>2. QueueInv => OneInside
  BY DEF QueueInv
<1> QED
  BY <1>1, <1>2, QueuesStep, TypeCorrect, PTL DEF Spec

(* The guard of Wake. *)
CanWake(t) ==
    /\ pc[t] = "queued"
    /\ waiters[ProcOf[t]][req[t]] # <<>> /\ Head(waiters[ProcOf[t]][req[t]]) = t
    /\ ~Held(ProcOf[t], req[t])

(* While a task waits for a lock, a task of its process is inside, where   *)
(* lock.acquire gives up, run_helper has a timeout and the rest does not   *)
(* wait, or the first in the queue can go on.                              *)
NoVainQueue ==
    \A t \in Tasks : pc[t] = "queued" =>
        \E u \in Tasks : /\ ProcOf[u] = ProcOf[t] /\ req[u] = req[t]
                         /\ pc[u] \in Inside \/ CanWake(u)

LEMMA QueuesServe == TypeOK /\ QueueInv => NoVainQueue
<1> SUFFICES ASSUME TypeOK, QueueInv, NEW t \in Tasks, pc[t] = "queued",
                    ~Held(ProcOf[t], req[t])
             PROVE  \E u \in Tasks : ProcOf[u] = ProcOf[t] /\ req[u] = req[t] /\ CanWake(u)
  BY DEF NoVainQueue, Held
<1> DEFINE w == waiters[ProcOf[t]][req[t]]
<1>1. w \in Seq(Tasks) /\ ProcOf[t] \in Procs /\ req[t] \in Keys
  BY ProcOfAssumption DEF TypeOK
<1>2. Len(w) # 0 /\ w # <<>>
  BY <1>1 DEF QueueInv, QueuedAreInQueues, InQueue
<1>3. 1 \in 1..Len(w) /\ Head(w) = w[1] /\ w[1] \in Tasks
  BY <1>1, <1>2
<1>4. pc[w[1]] = "queued" /\ ProcOf[w[1]] = ProcOf[t] /\ req[w[1]] = req[t]
  BY <1>1, <1>3 DEF QueueInv, QueuesHoldQueued
<1>5. CanWake(w[1])
  BY <1>2, <1>3, <1>4 DEF CanWake
<1> QED
  BY <1>3, <1>4, <1>5

(* Nobody queues in vain.  This is the safety behind RequestsSettle; a     *)
(* queue that kept the place of a cancelled task would break it.           *)
THEOREM NobodyQueuesInVain == Spec => []NoVainQueue
<1>1. Init => QueueInv
  BY DEF Init, QueueInv, QueuesHoldQueued, QueuedOnce, QueuedAreInQueues, OneInside
<1> QED
  BY <1>1, QueuesStep, QueuesServe, TypeCorrect, PTL DEF Spec

-----------------------------------------------------------------------------
(***************************************************************************)
(* Logout beside the servers.  A staged token, which is the only one that  *)
(* can still be installed, is neither doomed nor litter; so whatever is    *)
(* installed of the doomed tokens has been there from the start, and purge *)
(* has its file before it.  Purge breaks FetchMutex and LockIffFetching,   *)
(* and the first theorems do not rest on them; the last ones say what is   *)
(* left of them.                                                           *)
(***************************************************************************)
Condemned == litter \cup doomed

LogoutInv ==
    /\ TypeOK
    /\ TokenInv
    /\ logout \in {"before", "running", "done"}
    /\ Condemned \subseteq Token
    /\ \A token \in Condemned : Known(token)
    /\ \A t \in Tasks : pc[t] = "staged" => tok[t] \notin Condemned
    /\ logout = "running" => \A k \in Keys : disk[k] \in doomed => <<k, ".json">> \in unlinking
    /\ LogoutWipesInstalled

(* Before the logout nothing is doomed. *)
LEMMA LogoutInvInit == LogoutInit => LogoutInv
<1> SUFFICES ASSUME LogoutInit PROVE LogoutInv
  OBVIOUS
<1>1. TypeOK /\ TokenInv
  BY TypeInit, TokensInit DEF LogoutInit
<1> QED
  BY <1>1 DEF LogoutInit, LogoutInv, Condemned, LogoutWipesInstalled, Init

(* Whatever the servers do, no doomed token is installed again. *)
LEMMA ServersKeepLogoutInv == LogoutInv /\ ServerStep => LogoutInv'
<1> SUFFICES ASSUME LogoutInv, ServerStep PROVE LogoutInv'
  OBVIOUS
<1> DEFINE left == {tok[t] : t \in {u \in Tasks : pc[u] = "staged" /\ pc'[u] = "idle"}}
<1>1. Next /\ litter' = litter \cup left /\ UNCHANGED <<unlinking, logout, doomed>>
  BY DEF ServerStep
<1>2. TypeOK' /\ TokenInv'
  BY <1>1, TypeStep, TokensStep DEF LogoutInv
<1>3. Condemned' = Condemned \cup left
  BY <1>1 DEF Condemned
<1>4. left \subseteq Token /\ \A token \in left : Known(token)
  BY DEF LogoutInv, TypeOK, TokenInv, TokensKnown
<1>5. /\ minted \in Nat /\ minted' \in {minted, minted + 1}
      /\ \A k \in Keys : \/ disk'[k] \in {disk[k], NoToken}
                         \/ \E t \in Tasks : pc[t] = "staged" /\ disk'[k] = tok[t]
      /\ \A t \in Tasks : pc'[t] = "staged" =>
            \/ pc[t] = "staged" /\ tok'[t] = tok[t]
            \/ tok'[t].serial = minted + 1
  BY <1>1, InstalledWasStaged DEF LogoutInv, TypeOK
<1>6. Condemned' \subseteq Token /\ \A token \in Condemned' : Known(token)
  BY <1>3, <1>4 DEF LogoutInv
<1>7. \A token \in Condemned' : Known(token)'
  <2> SUFFICES ASSUME NEW token \in Condemned' PROVE Known(token)'
    OBVIOUS
  <2>1. token.serial \in Nat /\ token # NoToken /\ token.serial <= minted
    BY <1>6, NoTokenAssumption DEF Known, Token
  <2> QED
    BY <1>5, <2>1 DEF Known
<1>8. \A t \in Tasks : pc'[t] = "staged" => tok'[t] \notin Condemned'
  <2> SUFFICES ASSUME NEW t \in Tasks, pc'[t] = "staged" PROVE tok'[t] \notin Condemned'
    OBVIOUS
  <2>1. CASE pc[t] = "staged" /\ tok'[t] = tok[t]
    <3>1. \A u \in Tasks \ {t} : tok[u] # tok[t]
      BY <2>1 DEF LogoutInv, TokenInv, StagedIsPrivate
    <3>2. tok[t] \notin left
      BY <3>1
    <3> QED
      BY <1>3, <2>1, <3>2 DEF LogoutInv
  <2>2. CASE tok'[t].serial = minted + 1
    <3>1. \A token \in Condemned' : token.serial <= minted
      BY <1>6, NoTokenAssumption DEF Known
    <3> QED
      BY <1>5, <2>2, <3>1
  <2> QED
    BY <1>5, <2>1, <2>2
<1>9. \A k \in Keys : disk'[k] \in doomed' => disk[k] \in doomed
  <2>1. NoToken \notin doomed /\ \A t \in Tasks : pc[t] = "staged" => tok[t] \notin doomed
    BY NoTokenAssumption DEF LogoutInv, Condemned
  <2> QED
    BY <1>1, <1>5, <2>1
<1>10. LogoutWipesInstalled'
  BY <1>1, <1>9 DEF LogoutInv, LogoutWipesInstalled
<1>11. logout' = "running" => \A k \in Keys : disk'[k] \in doomed' => <<k, ".json">> \in unlinking'
  BY <1>1, <1>9 DEF LogoutInv
<1> QED
  BY <1>1, <1>2, <1>6, <1>7, <1>8, <1>10, <1>11 DEF LogoutInv

(* The start dooms what is installed and lists its files. *)
LEMMA StartKeepsLogoutInv == LogoutInv /\ PurgeStart => LogoutInv'
<1> SUFFICES ASSUME LogoutInv, PurgeStart PROVE LogoutInv'
  OBVIOUS
<1>1. UNCHANGED vars /\ UNCHANGED litter /\ logout' = "running" /\ unlinking' = Purgeable
  BY DEF PurgeStart
<1>2. TypeOK' /\ TokenInv'
  BY <1>1, TypeStep, TokensStep DEF LogoutInv
<1>3. Condemned' \subseteq Condemned \cup ({disk[k] : k \in Keys} \ {NoToken})
  BY DEF PurgeStart, Condemned
<1>4. UNCHANGED <<minted, disk, pc, tok>>
  BY <1>1 DEF vars
<1>5. Condemned' \subseteq Token
  BY <1>3 DEF LogoutInv, TypeOK
<1>6. \A token \in Condemned' : Known(token)'
  BY <1>3, <1>4 DEF LogoutInv, TokenInv, TokensKnown, Known
<1>7. \A t \in Tasks : pc'[t] = "staged" => tok'[t] \notin Condemned'
  BY <1>3, <1>4 DEF LogoutInv, TokenInv, StagedIsPrivate
<1>8. \A k \in Keys : disk'[k] \in doomed' => <<k, ".json">> \in unlinking'
  <2>1. NoToken \notin doomed'
    BY <1>5, NoTokenAssumption DEF Condemned
  <2> QED
    BY <1>1, <1>4, <2>1 DEF Purgeable
<1> QED
  BY <1>1, <1>2, <1>5, <1>6, <1>7, <1>8 DEF LogoutInv, LogoutWipesInstalled

(* An unlinked file has no token, and an unlinked lock moves none. *)
LEMMA UnlinkKeepsLogoutInv ==
    ASSUME LogoutInv, NEW k \in Keys, NEW suffix \in {".json", ".lock"}, PurgeUnlink(k, suffix)
    PROVE  LogoutInv'
<1>1. /\ logout = "running" /\ logout' = "running"
      /\ unlinking' = unlinking \ {<<k, suffix>>}
      /\ UNCHANGED <<now, minted, memory, waiters, orphans, pc, req, tok, refused, blind, litter,
                     doomed>>
  BY DEF PurgeUnlink
<1>2. \/ suffix = ".json" /\ disk' = [disk EXCEPT ![k] = NoToken] /\ UNCHANGED fileLock
      \/ suffix = ".lock" /\ fileLock' = [fileLock EXCEPT ![k] = Nobody] /\ UNCHANGED disk
  BY DEF PurgeUnlink, Retired
<1>3. TypeOK'
  BY <1>1, <1>2 DEF LogoutInv, TypeOK
<1>4. \A j \in Keys : disk'[j] \in {disk[j], NoToken}
  BY <1>2 DEF LogoutInv, TypeOK
<1>5. TokenInv'
  <2>1. TokensFiled'
    BY <1>1, <1>4 DEF LogoutInv, TokenInv, TokensFiled
  <2>2. TokensKnown'
    BY <1>1, <1>4 DEF LogoutInv, TokenInv, TokensKnown, Known
  <2>3. StagedIsPrivate'
    <3>1. \A t \in Tasks : pc[t] = "staged" => tok[t] # NoToken
      BY NoTokenAssumption DEF LogoutInv, TypeOK
    <3> QED
      BY <1>1, <1>4, <3>1 DEF LogoutInv, TokenInv, StagedIsPrivate
  <2>4. RetiredStaysRetired'
    BY <1>1, <1>4, NoTokenNotRefused DEF LogoutInv, TokenInv, RetiredStaysRetired
  <2> QED
    BY <2>1, <2>2, <2>3, <2>4 DEF TokenInv
<1>6. Condemned' = Condemned /\ \A token \in Condemned : Known(token)'
  BY <1>1 DEF LogoutInv, Condemned, Known
<1>7. \A j \in Keys : disk'[j] \in doomed' => <<j, ".json">> \in unlinking'
  <2>1. NoToken \notin doomed
    BY NoTokenAssumption DEF LogoutInv, Condemned
  <2>2. CASE suffix = ".json"
    BY <1>1, <1>2, <2>1, <2>2 DEF LogoutInv, TypeOK
  <2>3. CASE suffix = ".lock"
    BY <1>1, <1>2, <2>3 DEF LogoutInv
  <2> QED
    BY <2>2, <2>3
<1> QED
  BY <1>1, <1>3, <1>5, <1>6, <1>7 DEF LogoutInv, LogoutWipesInstalled

(* With no file left to visit, nothing doomed is installed. *)
LEMMA EndKeepsLogoutInv ==
    LogoutInv /\ (PurgeEnd \/ UNCHANGED <<vars, logoutVars>>) => LogoutInv'
<1> SUFFICES ASSUME LogoutInv, PurgeEnd \/ UNCHANGED <<vars, logoutVars>> PROVE LogoutInv'
  OBVIOUS
<1>1. UNCHANGED vars /\ UNCHANGED <<litter, unlinking, doomed>>
  BY DEF PurgeEnd, logoutVars
<1>2. TypeOK' /\ TokenInv'
  BY <1>1, TypeStep, TokensStep DEF LogoutInv
<1>3. UNCHANGED <<minted, disk, pc, tok, Condemned>>
  BY <1>1 DEF vars, Condemned
<1>4. \/ logout' = logout
      \/ logout = "running" /\ unlinking = {} /\ logout' = "done"
  BY DEF PurgeEnd, logoutVars
<1>5. LogoutWipesInstalled'
  BY <1>1, <1>3, <1>4 DEF LogoutInv, LogoutWipesInstalled
<1>6. \A token \in Condemned' : Known(token)'
  BY <1>3 DEF LogoutInv, Known
<1> QED
  BY <1>1, <1>2, <1>3, <1>4, <1>5, <1>6 DEF LogoutInv

(* Servers and purge together keep the invariant. *)
LEMMA LogoutInvAlways == LogoutSpec => []LogoutInv
<1>1. LogoutInv /\ [LogoutNext]_<<vars, logoutVars>> => LogoutInv'
  BY ServersKeepLogoutInv, StartKeepsLogoutInv, UnlinkKeepsLogoutInv, EndKeepsLogoutInv
     DEF LogoutNext
<1> QED
  BY <1>1, LogoutInvInit, PTL DEF LogoutSpec

(* Once logout has ended, nothing that was installed when it started is    *)
(* installed, whatever the servers did meanwhile.                          *)
THEOREM LogoutWipesWhatWas == LogoutSpec => []LogoutWipesInstalled
<1>1. LogoutInv => LogoutWipesInstalled
  BY DEF LogoutInv
<1> QED
  BY <1>1, LogoutInvAlways, PTL

(* A logout that takes locks away under their holders still brings no      *)
(* refused token back.                                                     *)
THEOREM RefusalsLastThroughLogout == LogoutSpec => []RetiredStaysRetired
<1>1. LogoutInv => RetiredStaysRetired
  BY DEF LogoutInv, TokenInv
<1> QED
  BY <1>1, LogoutInvAlways, PTL

(* What a logout adds to the steps of the servers is the unlinking, which  *)
(* leaves the tasks and their queues alone.                                *)
Unlinks == \E k \in Keys, suffix \in {".json", ".lock"} : PurgeUnlink(k, suffix)

LEMMA LogoutSteps ==
    ASSUME [LogoutNext]_<<vars, logoutVars>>
    PROVE  [Next]_vars \/ Unlinks
  BY DEF LogoutNext, ServerStep, PurgeStart, PurgeEnd, Unlinks, logoutVars

LEMMA UnlinksLeaveTasks ==
    ASSUME Unlinks
    PROVE  UNCHANGED <<now, minted, memory, waiters, orphans, pc, req, tok, refused, blind>>
  BY DEF Unlinks, PurgeUnlink, clock

(* A logout hands no call a token its process has seen refused, either.    *)
THEOREM NothingIsReplayedThroughLogout == LogoutSpec => NoReplay
<1>1. LogoutInv /\ LogoutInv' /\ [LogoutNext]_<<vars, logoutVars>> =>
         [\A t \in Tasks : (pc[t] # "calling" /\ pc'[t] = "calling") =>
                               tok'[t] \notin refused[ProcOf[t]]]_vars
  <2> SUFFICES ASSUME LogoutInv, LogoutInv', [LogoutNext]_<<vars, logoutVars>>,
                      NEW t \in Tasks, pc[t] # "calling", pc'[t] = "calling"
               PROVE  tok'[t] \notin refused[ProcOf[t]]
    OBVIOUS
  <2>1. [Next]_vars
    BY LogoutSteps, UnlinksLeaveTasks
  <2> QED
    BY <2>1, CallsUseMemory, ProcOfAssumption DEF LogoutInv, TokenInv, RetiredStaysRetired
<1> QED
  BY <1>1, LogoutInvAlways, PTL DEF LogoutSpec, NoReplay

(* The queues of the processes are their own: a logout that frees a held   *)
(* file lock still meets one task per process and key.                     *)
LEMMA LogoutKeepsQueues == LogoutSpec => []QueueInv
<1>1. Init => QueueInv
  BY DEF Init, QueueInv, QueuesHoldQueued, QueuedOnce, QueuedAreInQueues, OneInside
<1>2. LogoutInv /\ QueueInv /\ [LogoutNext]_<<vars, logoutVars>> => QueueInv'
  <2> SUFFICES ASSUME LogoutInv, QueueInv, [LogoutNext]_<<vars, logoutVars>> PROVE QueueInv'
    OBVIOUS
  <2>1. TypeOK
    BY DEF LogoutInv
  <2>2. CASE Unlinks
    <3>1. UNCHANGED <<waiters, pc, req>>
      BY <2>2, UnlinksLeaveTasks
    <3> QED
      BY <2>1, <3>1, QueuesLeftAlone
  <2> QED
    BY <2>1, <2>2, LogoutSteps, QueuesStep
<1>3. LogoutInit => Init
  BY DEF LogoutInit
<1> QED
  BY <1>1, <1>2, <1>3, LogoutInvAlways, PTL DEF LogoutSpec

(* So a logout makes at most as many sessions fetch one key at once as     *)
(* there are processes.                                                    *)
THEOREM ThreadsExcludeThroughLogout == LogoutSpec => []OneInside
<1>1. QueueInv => OneInside
  BY DEF QueueInv
<1> QED
  BY <1>1, LogoutKeepsQueues, PTL

(* And nobody queues in vain: the safety behind RequestsSettle beside a    *)
(* logout.                                                                 *)
THEOREM NobodyQueuesInVainThroughLogout == LogoutSpec => []NoVainQueue
<1>1. LogoutInv => TypeOK
  BY DEF LogoutInv
<1> QED
  BY <1>1, QueuesServe, LogoutKeepsQueues, LogoutInvAlways, PTL

(* While a lock file has its name, it excludes as if there were no logout. *)
LogoutLocks ==
    \A k \in Keys :
        /\ HolderFetches(k)
        /\ Named(k) => FetcherHolds(k) /\ MintsWhatLacks(k) /\ StagedIsNewer(k)

LEMMA LogoutLocksStep ==
    LogoutInv /\ LogoutLocks /\ [LogoutNext]_<<vars, logoutVars>> => LogoutLocks'
<1> SUFFICES ASSUME LogoutInv, LogoutLocks, [LogoutNext]_<<vars, logoutVars>>,
                    NEW j \in Keys
             PROVE  /\ HolderFetches(j)'
                    /\ Named(j)' => FetcherHolds(j)' /\ MintsWhatLacks(j)' /\ StagedIsNewer(j)'
  BY DEF LogoutLocks
<1>1. /\ TypeOK /\ TokenInv /\ HolderFetches(j)
      /\ Named(j) => FetcherHolds(j) /\ MintsWhatLacks(j) /\ StagedIsNewer(j)
  BY DEF LogoutInv, LogoutLocks
<1>2. Named(j)' => Named(j)
  <2>1. CASE UNCHANGED <<unlinking, logout>>
    BY <2>1 DEF Named
  <2>2. CASE PurgeStart
    BY <2>2 DEF Named, PurgeStart
  <2>3. ASSUME NEW k \in Keys, NEW suffix \in {".json", ".lock"}, PurgeUnlink(k, suffix)
        PROVE  Named(j)' => Named(j)
    <3>1. logout' = "running" /\ unlinking' \subseteq unlinking
      BY <2>3 DEF PurgeUnlink
    <3> QED
      BY <3>1 DEF Named
  <2>4. CASE PurgeEnd
    BY <2>4 DEF Named, PurgeEnd
  <2>5. ServerStep => UNCHANGED <<unlinking, logout>>
    BY DEF ServerStep
  <2> QED
    BY <2>1, <2>2, <2>3, <2>4, <2>5 DEF LogoutNext, logoutVars
<1>3. CASE [Next]_vars
  BY <1>1, <1>2, <1>3, LocksStep, MintsStep, AdvanceStep
<1>4. ASSUME NEW k \in Keys, PurgeUnlink(k, ".lock")
      PROVE  /\ HolderFetches(j)'
             /\ Named(j)' => FetcherHolds(j)' /\ MintsWhatLacks(j)' /\ StagedIsNewer(j)'
  <2>1. /\ UNCHANGED <<now, pc, req, tok, disk, blind>> /\ logout' = "running"
        /\ unlinking' = unlinking \ {<<k, ".lock">>}
        /\ fileLock' = [fileLock EXCEPT ![k] = Nobody]
    BY <1>4 DEF PurgeUnlink, clock
  <2>2. HolderFetches(j)'
    BY <1>1, <2>1, NamesAssumption DEF HolderFetches, TypeOK
  <2>3. ASSUME Named(j)' PROVE FetcherHolds(j)' /\ MintsWhatLacks(j)' /\ StagedIsNewer(j)'
    <3>1. j # k
      BY <2>1, <2>3 DEF Named
    <3> QED
      BY <1>1, <1>2, <2>1, <2>3, <3>1
         DEF FetcherHolds, MintsWhatLacks, StagedIsNewer, Fresh, TypeOK
  <2> QED
    BY <2>2, <2>3
<1>5. ASSUME NEW k \in Keys, PurgeUnlink(k, ".json")
      PROVE  /\ HolderFetches(j)'
             /\ Named(j)' => FetcherHolds(j)' /\ MintsWhatLacks(j)' /\ StagedIsNewer(j)'
  <2>1. UNCHANGED <<now, pc, req, tok, fileLock, blind>> /\ disk' = [disk EXCEPT ![k] = NoToken]
    BY <1>5 DEF PurgeUnlink, Retired, clock
  <2>2. disk'[j] \in {disk[j], NoToken}
    BY <2>1 DEF LogoutInv, TypeOK
  <2> QED
    BY <1>1, <1>2, <2>1, <2>2
       DEF HolderFetches, FetcherHolds, MintsWhatLacks, StagedIsNewer, Fresh
<1> QED
  BY <1>3, <1>4, <1>5, LogoutSteps DEF Unlinks

LEMMA LogoutLocksAlways == LogoutSpec => []LogoutLocks
<1>1. LogoutInit => LogoutLocks
  BY NamesAssumption
     DEF LogoutInit, Init, LogoutLocks, HolderFetches, FetcherHolds, MintsWhatLacks,
         StagedIsNewer
<1> QED
  BY <1>1, LogoutLocksStep, LogoutInvAlways, PTL DEF LogoutSpec

(* No file lock outlives its task, beside a logout too: whoever holds one  *)
(* is a task on its way through _fetch, every way out of which releases    *)
(* it, or a collected FileLock.  The safety behind LocksAreFreed.          *)
THEOREM NoLockOutlivesItsTask ==
    LogoutSpec => [](\A k \in Keys, t \in Tasks :
                        fileLock[k] = t => pc[t] \in Fetching /\ req[t] = k)
<1>1. LogoutLocks => \A k \in Keys, t \in Tasks :
                        fileLock[k] = t => pc[t] \in Fetching /\ req[t] = k
  BY DEF LogoutLocks, HolderFetches
<1> QED
  BY <1>1, LogoutLocksAlways, PTL

(* auth.py:469 up to the unlinking: two tasks fetch one key side by side   *)
(* only when a logout has unlinked the lock file of that key, and then     *)
(* only in two processes.                                                  *)
THEOREM TwoFetchOnlyUnlinked == LogoutSpec => []OnlyUnlinkingLetsTwoFetch
<1>1. TypeOK /\ LogoutLocks /\ OneInside => OnlyUnlinkingLetsTwoFetch
  <2>1. Fetching \subseteq Inside
    OBVIOUS
  <2> HIDE DEF Fetching, Inside
  <2> QED
    BY <2>1 DEF TypeOK, LogoutLocks, FetcherHolds, OneInside, OnlyUnlinkingLetsTwoFetch
<1>2. LogoutInv => TypeOK
  BY DEF LogoutInv
<1> QED
  BY <1>1, <1>2, LogoutInvAlways, LogoutLocksAlways, ThreadsExcludeThroughLogout, PTL

(* And a helper runs for a key that has a fresh token on disk, which its   *)
(* session could read, only then.                                          *)
THEOREM OnlyUnlinkingWastesAHelper ==
    LogoutSpec => [](\A t \in Tasks :
                        (pc[t] \in Minting /\ t \notin blind /\ Fresh(disk[req[t]]))
                            => ~Named(req[t]))
<1>1. TypeOK /\ LogoutLocks =>
         \A t \in Tasks : (pc[t] \in Minting /\ t \notin blind /\ Fresh(disk[req[t]]))
                             => ~Named(req[t])
  BY DEF TypeOK, LogoutLocks, MintsWhatLacks
<1>2. LogoutInv => TypeOK
  BY DEF LogoutInv
<1> QED
  BY <1>1, <1>2, LogoutInvAlways, LogoutLocksAlways, PTL

(* And only then may an older token replace a newer one.                   *)
THEOREM OnlyUnlinkingLosesAnUpdate ==
    LogoutSpec => [][\A k \in Keys : Named(k) => Advances(k)]_vars
<1>1. LogoutInv /\ LogoutLocks /\ [LogoutNext]_<<vars, logoutVars>> =>
         [\A k \in Keys : Named(k) => Advances(k)]_vars
  <2> SUFFICES ASSUME LogoutInv, LogoutLocks, [LogoutNext]_<<vars, logoutVars>>,
                      NEW j \in Keys, Named(j)
               PROVE  Advances(j)
    OBVIOUS
  <2>1. CASE [Next]_vars
    BY <2>1, AdvanceStep DEF LogoutInv, LogoutLocks
  <2>2. CASE Unlinks
    <3>1. PICK k \in Keys, suffix \in {".json", ".lock"} : PurgeUnlink(k, suffix)
      BY <2>2 DEF Unlinks
    <3>2. disk'[j] \in {disk[j], NoToken}
      BY <3>1 DEF PurgeUnlink, Retired, LogoutInv, TypeOK
    <3> QED
      BY <3>2 DEF Advances
  <2> QED
    BY <2>1, <2>2, LogoutSteps
<1> QED
  BY <1>1, LogoutInvAlways, LogoutLocksAlways, PTL DEF LogoutSpec
=============================================================================
