-------------------------- MODULE HelperProcessProofs --------------------------
(***************************************************************************)
(* Theorems about a helper run, for any amount of output, any pipes and    *)
(* any sizes kept: only whole outputs of helpers that ended well are read, *)
(* and caller and helper are never both waiting for the other.             *)
(***************************************************************************)
EXTENDS HelperProcess, TLAPS

USE SizesAssumption DEF Pipes, Members, Places, Outcomes, Lives, Codes, plan, pipes, Running, Unread

(* The types hold to begin with, *)
LEMMA TypeInit == Init => TypeOK
BY DEF Init, TypeOK

(* and no step leaves them: a chunk is written only where one fits, and    *)
(* read only where one is.                                                 *)
LEMMA TypeStep == TypeOK /\ [Next]_vars => TypeOK'
<1> SUFFICES ASSUME TypeOK, [Next]_vars PROVE TypeOK'
  OBVIOUS
<1> USE DEF TypeOK
<1>1. CASE Spawn \/ SpawnFails
  BY <1>1 DEF Spawn, SpawnFails, End
<1>2. CASE Fork \/ ChildExits \/ Reap
  BY <1>2 DEF Fork, ChildExits, Reap
<1>3. ASSUME NEW fd \in Pipes, Write(fd) PROVE TypeOK'
  <2>1. wrote' \in [Pipes -> 0..MaxOut]
    BY <1>3 DEF Write
  <2>2. \A q \in Pipes : wrote'[q] - read'[q] \in 0..PipeCap
    BY <1>3 DEF Write
  <2> QED
    BY <1>3, <2>1, <2>2 DEF Write
<1>4. ASSUME NEW fd \in Pipes, Drain(fd) PROVE TypeOK'
  <2>1. read[fd] < wrote[fd]
    BY <1>4 DEF Drain, Readable
  <2>2. read' \in [Pipes -> 0..MaxOut]
    BY <1>4, <2>1 DEF Drain
  <2>3. \A q \in Pipes : wrote'[q] - read'[q] \in 0..PipeCap
    BY <1>4, <2>1 DEF Drain
  <2> QED
    BY <1>4, <2>2, <2>3 DEF Drain
<1>5. ASSUME NEW c \in {0, 1, 2}, Exit(c) PROVE TypeOK'
  BY <1>5 DEF Exit
<1>6. ASSUME NEW m \in Members, Die(m) PROVE TypeOK'
  BY <1>6 DEF Die
<1>7. CASE Collect
  BY <1>7 DEF Collect, End, Conclusion
<1>8. CASE Timeout \/ GraceEnds \/ Cancel
  <2>1. ASSUME NEW s \in {"TERM", "KILL"}
        PROVE  Sent(s) \in [Members -> SUBSET {"TERM", "KILL"}]
    BY DEF Sent
  <2>2. signals' \in [Members -> SUBSET {"TERM", "KILL"}]
    BY <1>8, <2>1 DEF Timeout, GraceEnds, Cancel
  <2> QED
    BY <1>8, <2>2 DEF Timeout, GraceEnds, Cancel, End
<1>9. CASE UNCHANGED vars
  BY <1>9 DEF vars
<1> QED
  BY <1>1, <1>2, <1>3, <1>4, <1>5, <1>6, <1>7, <1>8, <1>9 DEF Next, Helper, Await

(* Every variable keeps its type, and no pipe holds more than it can. *)
THEOREM TypeCorrect == Spec => []TypeOK
BY TypeInit, TypeStep, PTL DEF Spec

-----------------------------------------------------------------------------
(***************************************************************************)
(* Whole outputs.  An exit code of the helper's own means that it wrote    *)
(* all it was to write, since the other ends of a leader are signals; and  *)
(* once a pipe has seen its end, nobody is left to write or to fork.       *)
(***************************************************************************)
SpawnedOnce ==
    /\ caller = "spawning" => life["leader"] = "unborn"
    /\ caller \in {"collecting", "grace"} => life["leader"] # "unborn"

ExitsAreWhole ==
    life["leader"] \in {"zombie", "reaped"} /\ code \in {0, 1, 2} => wrote = want

ParsedIsDone == outcome = "parsed" => caller = "done"

WritesAreWanted == \A fd \in Pipes : wrote[fd] <= want[fd]

RunInv == SpawnedOnce /\ ExitsAreWhole /\ ParsedIsDone /\ WritesAreWanted /\ TokenFromWholeOutput

HelperInv == TypeOK /\ RunInv

(* Nothing is spawned or parsed to begin with. *)
LEMMA InvInit == Init => HelperInv
BY TypeInit DEF Init, HelperInv, RunInv, SpawnedOnce, ExitsAreWhole, ParsedIsDone,
   WritesAreWanted, TokenFromWholeOutput, TypeOK

(* The steps of run_helper. *)
LEMMA CallerStep ==
    ASSUME HelperInv, Await \/ Timeout \/ GraceEnds \/ Cancel
    PROVE  RunInv'
<1> USE DEF HelperInv, TypeOK, RunInv, SpawnedOnce, ExitsAreWhole, ParsedIsDone,
           WritesAreWanted, TokenFromWholeOutput
<1>1. CASE Spawn
  BY <1>1 DEF Spawn
<1>2. CASE SpawnFails
  BY <1>2 DEF SpawnFails, End
<1>3. ASSUME NEW fd \in Pipes, Drain(fd)
      PROVE  RunInv'
  BY <1>3 DEF Drain
<1>4. CASE Collect
  <2>1. /\ caller' = "done" /\ outcome' = Conclusion /\ life["leader"] = "reaped"
        /\ UNCHANGED <<life, code, wrote, read, want>>
    BY <1>4 DEF Collect, End
  <2>2. wrote["stdout"] = read["stdout"] /\ life["child"] # "running"
    BY <1>4 DEF Collect, Eof
  <2>3. Conclusion = "parsed" => code = 0 /\ read["stdout"] <= KeepOut
    BY DEF Conclusion
  <2> QED
    BY <2>1, <2>2, <2>3
<1>5. CASE Timeout \/ GraceEnds \/ Cancel
  BY <1>5 DEF Timeout, GraceEnds, Cancel, End
<1> QED
  BY <1>1, <1>2, <1>3, <1>4, <1>5 DEF Await

(* The steps of the helper, its child, and whoever kills and reaps them. *)
LEMMA GroupStep ==
    ASSUME HelperInv, Helper
    PROVE  RunInv'
<1> USE DEF HelperInv, TypeOK, RunInv, SpawnedOnce, ExitsAreWhole, ParsedIsDone,
           WritesAreWanted, TokenFromWholeOutput
<1>1. CASE Fork \/ ChildExits \/ Reap
  BY <1>1 DEF Fork, ChildExits, Reap
<1>2. ASSUME NEW fd \in Pipes, Write(fd)
      PROVE  RunInv'
  BY <1>2 DEF Write
<1>3. ASSUME NEW c \in {0, 1, 2}, Exit(c)
      PROVE  RunInv'
  BY <1>3 DEF Exit
<1>4. ASSUME NEW m \in Members, Die(m)
      PROVE  RunInv'
  BY <1>4 DEF Die
<1> QED
  BY <1>1, <1>2, <1>3, <1>4 DEF Helper

(* The invariant in full. *)
LEMMA InvAlways == Spec => []HelperInv
<1>1. HelperInv /\ [Next]_vars => HelperInv'
  <2> SUFFICES ASSUME HelperInv, [Next]_vars PROVE HelperInv'
    OBVIOUS
  <2>1. TypeOK'
    BY TypeStep DEF HelperInv
  <2>2. CASE Next
    BY <2>1, <2>2, CallerStep, GroupStep DEF Next, HelperInv
  <2>3. CASE UNCHANGED vars
    BY <2>1, <2>3 DEF vars, HelperInv, RunInv, SpawnedOnce, ExitsAreWhole, ParsedIsDone,
       WritesAreWanted, TokenFromWholeOutput
  <2> QED
    BY <2>2, <2>3
<1> QED
  BY <1>1, InvInit, PTL DEF Spec

(* A token is only ever read out of the whole output of a helper that      *)
(* exited 0 of itself.                                                     *)
THEOREM OutputsAreWhole == Spec => []TokenFromWholeOutput
<1>1. HelperInv => TokenFromWholeOutput
  BY DEF HelperInv, RunInv
<1> QED
  BY <1>1, InvAlways, PTL

-----------------------------------------------------------------------------
(* Something the caller awaits, or the helper can do, is there to be done: *)
(* the guards of Await and Helper, in the order they come about.           *)
SomethingToDo ==
    \/ caller = "spawning"
    \/ \E fd \in Pipes : Readable(fd)
    \/ Running("leader") /\ wrote = want
    \/ Running("leader") /\ \E fd \in Pipes : wrote[fd] < want[fd] /\ Unread(fd) < PipeCap
    \/ Running("child") \/ life["leader"] = "zombie"
    \/ life["leader"] = "reaped" /\ \A fd \in Pipes : Eof(fd)

(* The wait is never mutual: while no member of the group hangs, caller or *)
(* helper can go on without a timer.  HelpersAreHeard says so with         *)
(* ENABLED; this says of what.  A full pipe has something to be read, as   *)
(* _drain reads on whatever it keeps.                                      *)
THEOREM NobodyWaitsInVain ==
    Spec => [](caller \in {"spawning", "collecting"} => SomethingToDo)
<1>1. HelperInv => (caller \in {"spawning", "collecting"} => SomethingToDo)
  <2> SUFFICES ASSUME HelperInv, caller = "collecting", \A fd \in Pipes : ~Readable(fd)
               PROVE  SomethingToDo
    BY DEF SomethingToDo
  <2>1. \A fd \in Pipes : Unread(fd) = 0
    BY DEF Readable, HelperInv, TypeOK
  <2>2. CASE Running("leader")
    <3>1. CASE wrote = want
      BY <2>2, <3>1 DEF SomethingToDo
    <3>2. CASE wrote # want
      <4>1. PICK fd \in Pipes : wrote[fd] # want[fd]
        BY <3>2 DEF HelperInv, TypeOK
      <4>2. wrote[fd] < want[fd]
        BY <4>1 DEF HelperInv, RunInv, WritesAreWanted, TypeOK
      <4> QED
        BY <2>1, <2>2, <4>2 DEF SomethingToDo
    <3> QED
      BY <3>1, <3>2
  <2>3. CASE life["leader"] = "reaped"
    BY <2>1, <2>3 DEF SomethingToDo, Eof
  <2> QED
    BY <2>2, <2>3 DEF SomethingToDo, HelperInv, RunInv, TypeOK, SpawnedOnce
<1> QED
  BY <1>1, InvAlways, PTL

-----------------------------------------------------------------------------
(* No helper is left to itself by a timeout: its leader has gone, or every *)
(* process of the group that runs has been sent what it cannot ignore.     *)
(* TimedOutHelpersDie and StuckGroupsDie say where this leads.             *)
TimedOutAreKilled ==
    outcome = "timeout" =>
        \/ life["leader"] = "reaped"
        \/ \A m \in Members : Running(m) => "KILL" \in signals[m]

OutcomesAreLast == outcome # "none" => caller = "done"

(* The ways out by timeout are those of _terminate, a leader that has been *)
(* reaped stays so, and one that has been sent a SIGKILL does not fork.    *)
THEOREM TimeoutsAreFatal == Spec => []TimedOutAreKilled
<1> DEFINE Inv == TypeOK /\ OutcomesAreLast /\ TimedOutAreKilled
<1> USE DEF OutcomesAreLast, TimedOutAreKilled
<1>1. Init => Inv
  BY TypeInit DEF Init
<1>2. Inv /\ [Next]_vars => Inv'
  <2> SUFFICES ASSUME Inv, [Next]_vars PROVE OutcomesAreLast' /\ TimedOutAreKilled'
    BY TypeStep
  <2>1. CASE Await
    BY <2>1 DEF Await, Spawn, SpawnFails, Collect, Drain, End, Conclusion, TypeOK
  <2>2. CASE Timeout \/ GraceEnds \/ Cancel
    BY <2>2 DEF Timeout, GraceEnds, Cancel, End, Sent, TypeOK
  <2>3. CASE Helper
    <3>1. UNCHANGED <<caller, outcome, signals>>
      BY <2>3 DEF Helper, Fork, Write, Exit, ChildExits, Die, Reap
    <3>2. life["leader"] = "reaped" => life'["leader"] = "reaped"
      BY <2>3 DEF Helper, Fork, Write, Exit, ChildExits, Die, Reap, TypeOK
    <3>3. ASSUME NEW m \in Members, life'[m] = "running", life[m] # "running"
          PROVE  Fork
      BY <2>3, <3>3 DEF Helper, Fork, Write, Exit, ChildExits, Die, Reap, TypeOK
    <3>4. CASE Fork
      BY <3>1, <3>4 DEF Fork, Fatal
    <3> QED
      BY <3>1, <3>2, <3>3, <3>4
  <2>4. CASE UNCHANGED vars
    BY <2>4 DEF vars
  <2> QED
    BY <2>1, <2>2, <2>3, <2>4 DEF Next
<1> QED
  BY <1>1, <1>2, PTL DEF Spec
=============================================================================
