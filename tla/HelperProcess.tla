---------------------------- MODULE HelperProcess ----------------------------
(***************************************************************************)
(* One run of a token helper (run_helper, _collect, _drain and _terminate  *)
(* of src/src/mcp_openapix/auth.py): the call that waits, the helper and a *)
(* child the helper spawns ("uvx and friends"), both in one process group, *)
(* and the two pipes they hold.                                            *)
(***************************************************************************)
EXTENDS Integers, FiniteSets

CONSTANTS
    MaxOut,         \* bound on the chunks a helper writes on a pipe
    PipeCap,        \* chunks a pipe holds unread
    KeepOut,        \* MAX_STDOUT_BYTES, in chunks
    KeepErr         \* STDERR_CAPTURE_BYTES, in chunks

ASSUME SizesAssumption == /\ MaxOut \in Nat /\ PipeCap \in Nat \ {0}
                          /\ KeepOut \in Nat \ {0} /\ KeepErr \in Nat \ {0}

Pipes   == {"stdout", "stderr"}
Members == {"leader", "child"}
Keep    == [fd \in Pipes |-> IF fd = "stdout" THEN KeepOut ELSE KeepErr]

VARIABLES
    caller,         \* where run_helper is
    outcome,        \* what it has returned or raised
    life,           \* life[m]: what has become of a member of the group
    code,           \* the exit code of the leader
    want,           \* want[fd]: chunks the leader is to write
    wrote, read,    \* wrote[fd], read[fd]: chunks it wrote, and _drain read
    hung,           \* members that do not end of themselves
    stubborn,       \* members that ignore SIGTERM
    signals         \* signals[m]: the signals a member has been sent

vars == <<caller, outcome, life, code, want, wrote, read, hung, stubborn, signals>>

plan  == <<want, hung, stubborn>>
pipes == <<wrote, read>>

(***************************************************************************)
(*   spawning    in create_subprocess_exec                                 *)
(*   collecting  in wait_for(_collect(proc), timeout)                      *)
(*   grace       in _terminate, between SIGTERM and SIGKILL                *)
(*   done        run_helper has ended, with the outcome                    *)
(*   cancelled   run_helper was cancelled                                  *)
(***************************************************************************)
Places   == {"spawning", "collecting", "grace", "done", "cancelled"}
Outcomes == {"none", "unstarted", "parsed", "malformed", "failed", "needs_action", "timeout"}
Lives    == {"unborn", "running", "zombie", "reaped"}
Codes    == {0, 1, 2, -15, -9}

Init ==
    /\ caller = "spawning"
    /\ outcome = "none"
    /\ life = [m \in Members |-> "unborn"]
    /\ code = 0
    /\ want \in [Pipes -> 0..MaxOut]
    /\ wrote = [fd \in Pipes |-> 0]
    /\ read = [fd \in Pipes |-> 0]
    /\ hung \in SUBSET Members
    /\ stubborn \in SUBSET Members
    /\ signals = [m \in Members |-> {}]

Running(m) == life[m] = "running"
Unread(fd) == wrote[fd] - read[fd]

(* Nobody that could still write holds the pipe, and all of it was read. *)
Eof(fd) == Unread(fd) = 0 /\ \A m \in Members : ~Running(m)

End(o) == caller' = "done" /\ outcome' = o

-----------------------------------------------------------------------------
(* The helper and its child.                                               *)
Spawn ==
    /\ caller = "spawning"
    /\ caller' = "collecting"
    /\ life' = [life EXCEPT !["leader"] = "running"]
    /\ UNCHANGED <<outcome, code, pipes, plan, signals>>

SpawnFails ==
    /\ caller = "spawning"
    /\ End("unstarted")
    /\ UNCHANGED <<life, code, pipes, plan, signals>>

Fatal(m) == \/ "KILL" \in signals[m]
            \/ "TERM" \in signals[m] /\ m \notin stubborn

(* The child of a leader that outlives a SIGTERM has not been sent it. *)
Fork ==
    /\ Running("leader")
    /\ ~Fatal("leader")
    /\ life["child"] = "unborn"
    /\ life' = [life EXCEPT !["child"] = "running"]
    /\ UNCHANGED <<caller, outcome, code, pipes, plan, signals>>

(* A write blocks while the pipe is full. *)
Write(fd) ==
    /\ Running("leader")
    /\ wrote[fd] < want[fd]
    /\ Unread(fd) < PipeCap
    /\ wrote' = [wrote EXCEPT ![fd] = @ + 1]
    /\ UNCHANGED <<caller, outcome, life, code, read, plan, signals>>

Exit(c) ==
    /\ Running("leader")
    /\ "leader" \notin hung
    /\ wrote = want
    /\ life' = [life EXCEPT !["leader"] = "zombie"]
    /\ code' = c
    /\ UNCHANGED <<caller, outcome, pipes, plan, signals>>

ChildExits ==
    /\ Running("child")
    /\ "child" \notin hung
    /\ life' = [life EXCEPT !["child"] = "reaped"]
    /\ UNCHANGED <<caller, outcome, code, pipes, plan, signals>>

Die(m) ==
    /\ Running(m)
    /\ Fatal(m)
    /\ life' = [life EXCEPT ![m] = IF m = "leader" THEN "zombie" ELSE "reaped"]
    /\ code' = IF m # "leader" THEN code ELSE IF "KILL" \in signals[m] THEN -9 ELSE -15
    /\ UNCHANGED <<caller, outcome, pipes, plan, signals>>

(* The event loop's child watcher. *)
Reap ==
    /\ life["leader"] = "zombie"
    /\ life' = [life EXCEPT !["leader"] = "reaped"]
    /\ UNCHANGED <<caller, outcome, code, pipes, plan, signals>>

-----------------------------------------------------------------------------
(* run_helper.                                                             *)

(* Mutant: _drain stops at what it keeps. *)
ReadableUpToKeep(fd) == Unread(fd) > 0 /\ read[fd] < Keep[fd]

(* _collect gathers a _drain of each pipe, and each reads to the end. *)
Readable(fd) == Unread(fd) > 0

Drain(fd) ==
    /\ caller = "collecting"
    /\ Readable(fd)
    /\ read' = [read EXCEPT ![fd] = @ + 1]
    /\ UNCHANGED <<caller, outcome, life, code, wrote, plan, signals>>

(* Mutant: the exit code is not looked at. *)
ConclusionOfOutput == IF read["stdout"] > KeepOut THEN "malformed" ELSE "parsed"

(* "The exit code decides", then the size; _parse_stdout reads the rest.   *)
Conclusion ==
    CASE code = 2                                  -> "needs_action"
      [] code \notin {0, 2}                        -> "failed"
      [] code = 0 /\ read["stdout"] > KeepOut      -> "malformed"
      [] OTHER                                     -> "parsed"

(* Both drains have seen the end, and the leader has been waited for. *)
Collect ==
    /\ caller = "collecting"
    /\ \A fd \in Pipes : Eof(fd)
    /\ life["leader"] = "reaped"
    /\ End(Conclusion)
    /\ UNCHANGED <<life, code, pipes, plan, signals>>

(* Mutant: proc.send_signal reaches the helper and none of its children. *)
SentToLeader(s) == [signals EXCEPT !["leader"] = @ \cup {s}]

(* os.killpg *)
Sent(s) ==
    [m \in Members |-> IF life[m] = "unborn" THEN signals[m] ELSE signals[m] \cup {s}]

(* wait_for gives up.  _terminate looks the group up by the leader's pid:  *)
(* once the leader is reaped there is no such process, and it returns.     *)
Timeout ==
    /\ caller = "collecting"
    /\ \/ /\ life["leader"] = "reaped"
          /\ End("timeout")
          /\ UNCHANGED signals
       \/ /\ life["leader"] # "reaped"
          /\ caller' = "grace"
          /\ signals' = Sent("TERM")
          /\ UNCHANGED outcome
    /\ UNCHANGED <<life, code, pipes, plan>>

(* Mutants: proc.wait() without a bound, or no SIGKILL after it. *)
GraceWaits ==
    /\ caller = "grace"
    /\ life["leader"] = "reaped"
    /\ End("timeout")
    /\ UNCHANGED <<life, code, pipes, plan, signals>>

GraceGivesUp ==
    /\ caller = "grace"
    /\ End("timeout")
    /\ UNCHANGED <<life, code, pipes, plan, signals>>

(* The leader has gone, or KILL_GRACE_SECONDS have. *)
GraceEnds ==
    /\ caller = "grace"
    /\ signals' = IF life["leader"] = "reaped" THEN signals ELSE Sent("KILL")
    /\ End("timeout")
    /\ UNCHANGED <<life, code, pipes, plan>>

(* The call is cancelled: the CancelledError passes through run_helper.    *)
Cancel ==
    /\ caller \in {"collecting", "grace"}
    /\ caller' = "cancelled"
    /\ UNCHANGED <<outcome, life, code, pipes, plan, signals>>

Helper == \/ Fork \/ ChildExits \/ Reap
          \/ \E c \in {0, 1, 2} : Exit(c)
          \/ \E fd \in Pipes : Write(fd)
          \/ \E m \in Members : Die(m)

Await == Spawn \/ SpawnFails \/ Collect \/ \E fd \in Pipes : Drain(fd)

Next == Helper \/ Await \/ Timeout \/ GraceEnds \/ Cancel

Spec == Init /\ [][Next]_vars

(* A helper that does not hang writes and exits, signals are delivered and *)
(* the event loop runs; forking is the helper's choice.                    *)
Fairness == /\ WF_vars(Await) /\ WF_vars(ChildExits) /\ WF_vars(Reap)
            /\ WF_vars(\E c \in {0, 1, 2} : Exit(c))
            /\ \A fd \in Pipes : WF_vars(Write(fd)) /\ WF_vars(Drain(fd))
            /\ \A m \in Members : WF_vars(Die(m))

(* Timers go off as well. *)
FairSpec == Spec /\ Fairness /\ WF_vars(Timeout) /\ WF_vars(GraceEnds)

-----------------------------------------------------------------------------
(* Every variable keeps its type, and a pipe never holds more than it can. *)
TypeOK ==
    /\ caller \in Places
    /\ outcome \in Outcomes
    /\ life \in [Members -> Lives]
    /\ code \in Codes
    /\ want \in [Pipes -> 0..MaxOut]
    /\ wrote \in [Pipes -> 0..MaxOut]
    /\ read \in [Pipes -> 0..MaxOut]
    /\ \A fd \in Pipes : Unread(fd) \in 0..PipeCap
    /\ hung \subseteq Members
    /\ stubborn \subseteq Members
    /\ signals \in [Members -> SUBSET {"TERM", "KILL"}]

(* A token is only ever read out of a whole output: the helper exited 0 of *)
(* itself, every byte of its stdout was read and kept, and no descendant   *)
(* could have added one.                                                   *)
TokenFromWholeOutput ==
    outcome = "parsed" =>
        /\ code = 0 /\ life["leader"] = "reaped"
        /\ read["stdout"] = want["stdout"] /\ want["stdout"] <= KeepOut
        /\ ~Running("child")

(* A helper that does not hang, nor leaves a child that does, is heard     *)
(* out without the help of a timer, however much it writes to either pipe: *)
(* caller and helper are never both waiting for the other.  (What they do  *)
(* then only moves counters and lives forward, so it ends.)                *)
HelpersAreHeard ==
    hung = {} /\ caller \in {"spawning", "collecting"} => ENABLED (Helper \/ Await)

(* Every run ends, by timeout at the latest. *)
RunsSettle == <>(caller \in {"done", "cancelled"})

(* A helper that times out is gone in the end, even one that ignores       *)
(* SIGTERM and has filled its pipes.                                       *)
TimedOutHelpersDie == outcome = "timeout" ~> ~Running("leader")

(* Nor does a child outlive the helper that had to be killed: while its    *)
(* leader is there to look the group up by, SIGKILL reaches every process  *)
(* of it, those that ignore SIGTERM or were forked since included.         *)
StuckGroupsDie ==
    outcome = "timeout" /\ life["leader"] # "reaped" ~> \A m \in Members : ~Running(m)

-----------------------------------------------------------------------------
(* token-protocol.md §2.3: the process group is "terminated when timeout   *)
(* elapses: SIGTERM, then SIGKILL after a 2 second grace".  A child        *)
(* outlives a leader that has gone before the timeout or in its grace.     *)
TimedOutGroupsDie == outcome = "timeout" ~> \A m \in Members : ~Running(m)

(* token-protocol.md §2.3, of a run that is cancelled: whatever becomes of *)
(* the call, a helper is gone once its timeout has elapsed.                *)
AbandonedHelpersDie == caller = "cancelled" ~> ~Running("leader")
=============================================================================
