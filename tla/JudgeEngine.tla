----------------------------- MODULE JudgeEngine -----------------------------
(***************************************************************************)
(* JudgeEngineService.executeCode: one container per call, a race between  *)
(* the end of its output stream and a timer, and the removal of the        *)
(* container whatever happened.  Calls of different worker slots run       *)
(* concurrently in one process.                                            *)
(*                                                                         *)
(* A step is one answer of the Docker daemon, one event of the output      *)
(* stream, or the timer, with what the code does up to its next await.     *)
(* The daemon and the programs outlive the process.                        *)
(***************************************************************************)
EXTENDS Naturals

CONSTANTS
    Call,         \* concurrent calls of executeCode
    MemoryLimit,  \* HostConfig.Memory
    MaxRejects,   \* bound: requests the daemon refuses
    MaxLostAcks,  \* bound: createContainer that succeeds and then fails
    MaxCrashes    \* bound: process crashes from outside

ASSUME EngineAssumption == {MemoryLimit, MaxRejects, MaxLostAcks, MaxCrashes} \subseteq Nat

VARIABLES
    pc,        \* the request each call waits for
    reader,    \* its readStream
    output,    \* its local output, "full" once readStream won the race
    result,    \* its ExecutionResult
    box,       \* its container
    exit,      \* why the program in it ended
    crashed,   \* the process died
    kept,      \* calls the daemon failed when it mattered most: creation not
               \* acknowledged or removal refused (auxiliary)
    used       \* faults so far

vars == <<pc, reader, output, result, box, exit, crashed, kept, used>>

\* "kill" is the kill of the timeout, "cleanup" that of the inner catch.
Holding == {"attach", "start", "race", "kill", "cleanup", "stats", "remove"}
PC == {"idle", "create", "done", "dead"} \cup Holding
Reader == {"off", "open", "waiting", "read", "failed"}
Output == {"none", "full"}
Result == [success: BOOLEAN, timedOut: BOOLEAN, memoryExceeded: BOOLEAN, output: Output]
Box == {"none", "created", "running", "exited", "removed"}
Exit == {"none", "own", "stderr", "oom", "killed"}
Fault == {"reject", "ack", "crash"}

NoResult == [success |-> FALSE, timedOut |-> FALSE, memoryExceeded |-> FALSE, output |-> "none"]

TypeOK ==
    /\ pc \in [Call -> PC]
    /\ reader \in [Call -> Reader]
    /\ output \in [Call -> Output]
    /\ result \in [Call -> Result]
    /\ box \in [Call -> Box]
    /\ exit \in [Call -> Exit]
    /\ crashed \in BOOLEAN
    /\ kept \subseteq Call
    /\ used \in [Fault -> Nat]

Init ==
    /\ pc = [c \in Call |-> "idle"]
    /\ reader = [c \in Call |-> "off"]
    /\ output = [c \in Call |-> "none"]
    /\ result = [c \in Call |-> NoResult]
    /\ box = [c \in Call |-> "none"]
    /\ exit = [c \in Call |-> "none"]
    /\ crashed = FALSE
    /\ kept = {}
    /\ used = [f \in Fault |-> 0]

GoTo(c, p) == pc' = [pc EXCEPT ![c] = p]
Become(c, b) == box' = [box EXCEPT ![c] = b]
Use(f, limit) == used[f] < limit /\ used' = [used EXCEPT ![f] = @ + 1]

-----------------------------------------------------------------------------
(* The daemon and the program (external) *)

\* The program ends: by itself, with or without output on stderr, or because
\* the kernel refused it memory.
ProgramEnds(c, why) ==
    /\ box[c] = "running"
    /\ why \in {"own", "stderr", "oom"}
    /\ Become(c, "exited")
    /\ exit' = [exit EXCEPT ![c] = why]
    /\ UNCHANGED <<pc, reader, output, result, crashed, kept, used>>

\* Whether anything is on stderr; the OOM killer itself writes nothing there.
Stderr(c) == IF exit[c] = "oom" THEN BOOLEAN ELSE {exit[c] = "stderr"}

\* A container that does not run has no memory_stats; one that does cannot use
\* more than its limit.
Usage(c) == IF box[c] = "running" THEN {0, MemoryLimit} ELSE {0}

\* A variant the checks must reject: the kill has no effect.
KilledNot(c) == UNCHANGED <<box, exit>>

Killed(c) ==
    /\ Become(c, IF box[c] = "running" THEN "exited" ELSE box[c])
    /\ exit' = [exit EXCEPT ![c] = IF box[c] = "running" THEN "killed" ELSE @]

-----------------------------------------------------------------------------
(* executeCode *)

ExecuteCode(c) ==
    /\ ~crashed /\ pc[c] = "idle"
    /\ GoTo(c, "create")
    /\ UNCHANGED <<reader, output, result, box, exit, crashed, kept, used>>

\* The pull of a missing image is part of the creation.
CreateContainer(c) ==
    /\ pc[c] = "create"
    /\ Become(c, "created")
    /\ GoTo(c, "attach")
    /\ UNCHANGED <<reader, output, result, exit, crashed, kept, used>>

Attach(c) ==
    /\ pc[c] = "attach"
    /\ GoTo(c, "start")
    /\ UNCHANGED <<reader, output, result, box, exit, crashed, kept, used>>

\* The race begins: readStream listens to the stream and the timer is set.
Start(c) ==
    /\ pc[c] = "start"
    /\ Become(c, "running")
    /\ GoTo(c, "race")
    /\ reader' = [reader EXCEPT ![c] = "open"]
    /\ UNCHANGED <<output, result, exit, crashed, kept, used>>

\* The stream ended, with the program or before it, which may close its outputs and
\* go on; the listener waits for the container to exit.
StreamEnds(c) ==
    /\ ~crashed /\ reader[c] = "open"
    /\ reader' = [reader EXCEPT ![c] = "waiting"]
    /\ UNCHANGED <<pc, output, result, box, exit, crashed, kept, used>>

StreamFails(c) ==
    /\ ~crashed /\ reader[c] = "open"
    /\ Use("reject", MaxRejects)
    /\ reader' = [reader EXCEPT ![c] = "failed"]
    /\ GoTo(c, IF pc[c] = "race" THEN "cleanup" ELSE pc[c])
    /\ UNCHANGED <<output, result, box, exit, crashed, kept>>

\* A variant the checks must reject: a read that comes too late counts as well.
WonLate(c) == TRUE

\* Promise.race is on.
Won(c) == pc[c] = "race"

\* container.wait answers; output is assigned if that wins the race.
WaitAnswers(c) ==
    /\ ~crashed /\ reader[c] = "waiting" /\ box[c] = "exited"
    /\ reader' = [reader EXCEPT ![c] = "read"]
    /\ output' = [output EXCEPT ![c] = IF Won(c) THEN "full" ELSE @]
    /\ GoTo(c, IF pc[c] = "race" THEN "stats" ELSE pc[c])
    /\ UNCHANGED <<result, box, exit, crashed, kept, used>>

\* Of a container that was removed meanwhile container.wait rejects, in a
\* listener nobody awaits: an unhandled rejection ends the process.
WaitRejects(c) ==
    /\ ~crashed /\ reader[c] = "waiting" /\ box[c] = "removed"
    /\ crashed' = TRUE
    /\ pc' = [d \in Call |-> IF pc[d] \in {"idle", "done"} THEN pc[d] ELSE "dead"]
    /\ UNCHANGED <<reader, output, result, box, exit, kept, used>>

\* A variant the checks must reject: the timer is set when the stream has ended.
TimerFiresLate(c) ==
    /\ pc[c] = "race" /\ reader[c] = "waiting"
    /\ GoTo(c, "kill")
    /\ UNCHANGED <<reader, output, result, box, exit, crashed, kept, used>>

TimerFires(c) ==
    /\ pc[c] = "race"
    /\ GoTo(c, "kill")
    /\ UNCHANGED <<reader, output, result, box, exit, crashed, kept, used>>

\* A variant the checks must reject: what was read so far is returned.
TimedOutPartial == [NoResult EXCEPT !.timedOut = TRUE, !.output = "partial"]

\* What executeCode returns when its kill succeeded.
TimedOut == [NoResult EXCEPT !.timedOut = TRUE]

\* The kill of a container that has exited rejects, and the inner catch, which
\* is meant for the stream, kills once more.
KillAnswers(c) ==
    /\ pc[c] = "kill"
    /\ Killed(c)
    /\ IF box[c] = "running"
       THEN GoTo(c, "remove") /\ result' = [result EXCEPT ![c] = TimedOut]
       ELSE GoTo(c, "cleanup") /\ UNCHANGED result
    /\ UNCHANGED <<reader, output, crashed, kept, used>>

CleanupAnswers(c) ==
    /\ pc[c] = "cleanup"
    /\ Killed(c)
    /\ GoTo(c, "stats")
    /\ UNCHANGED <<reader, output, result, crashed, kept, used>>

\* What executeCode makes of the race; wrote: something was on stderr, which is
\* known only to a call whose readStream won.
Outcome(c, wrote, usage) ==
    LET exceeded == usage > MemoryLimit
        error == output[c] = "full" /\ wrote
    IN  [success |-> ~error /\ ~exceeded, timedOut |-> FALSE,
         memoryExceeded |-> exceeded, output |-> output[c]]

\* getContainerStats never rejects.
StatsAnswer(c) ==
    /\ pc[c] = "stats"
    /\ \E wrote \in Stderr(c), u \in Usage(c) :
          result' = [result EXCEPT ![c] = Outcome(c, wrote, u)]
    /\ GoTo(c, "remove")
    /\ UNCHANGED <<reader, output, box, exit, crashed, kept, used>>

Remove(c) ==
    /\ pc[c] = "remove"
    /\ Become(c, "removed")
    /\ exit' = [exit EXCEPT ![c] = IF box[c] = "running" THEN "killed" ELSE @]
    /\ GoTo(c, "done")
    /\ UNCHANGED <<reader, output, result, crashed, kept, used>>

\* A variant the checks must reject: only a call that came to its end removes
\* its container.
AfterRejectDone(p) ==
    CASE p = "kill" -> "cleanup"
      [] p = "cleanup" -> "stats"
      [] p = "stats" -> "remove"
      [] OTHER -> "done"

\* Where executeCode goes on when a request rejects: the inner catch, the rest
\* after an ignored rejection, or the finally block.
AfterReject(p) ==
    CASE p = "kill" -> "cleanup"
      [] p = "cleanup" -> "stats"
      [] p \in {"attach", "start", "stats"} -> "remove"
      [] p \in {"create", "remove"} -> "done"

RequestFails(c) ==
    /\ pc[c] \in {"create", "attach", "start", "kill", "cleanup", "remove"}
    /\ Use("reject", MaxRejects)
    /\ GoTo(c, AfterReject(pc[c]))
    /\ kept' = IF pc[c] = "remove" THEN kept \cup {c} ELSE kept
    /\ UNCHANGED <<reader, output, result, box, exit, crashed>>

\* The container was created and the answer is lost: container stays null.
CreateAckLost(c) ==
    /\ pc[c] = "create"
    /\ Use("ack", MaxLostAcks)
    /\ Become(c, "created")
    /\ GoTo(c, "done")
    /\ kept' = kept \cup {c}
    /\ UNCHANGED <<reader, output, result, exit, crashed>>

Crash ==
    /\ ~crashed
    /\ Use("crash", MaxCrashes)
    /\ crashed' = TRUE
    /\ pc' = [c \in Call |-> IF pc[c] \in {"idle", "done"} THEN pc[c] ELSE "dead"]
    /\ UNCHANGED <<reader, output, result, box, exit, kept>>

-----------------------------------------------------------------------------
\* The answers of the daemon and the events of the stream.
Answers(c) ==
    \/ CreateContainer(c) \/ Attach(c) \/ Start(c) \/ WaitAnswers(c) \/ KillAnswers(c)
    \/ CleanupAnswers(c) \/ StatsAnswer(c) \/ Remove(c)

Next ==
    \/ \E c \in Call : \/ ExecuteCode(c) \/ Answers(c) \/ TimerFires(c) \/ StreamEnds(c)
                       \/ StreamFails(c) \/ WaitRejects(c) \/ RequestFails(c)
                       \/ CreateAckLost(c)
                       \/ \E why \in Exit : ProgramEnds(c, why)
    \/ Crash

Spec == Init /\ [][Next]_vars

\* The daemon answers and the timer fires; a program need not end.
Fairness == \A c \in Call : WF_vars(Answers(c)) /\ WF_vars(TimerFires(c))

FairSpec == Spec /\ Fairness

-----------------------------------------------------------------------------
(* Properties *)

\* A container outlives its call only when the daemon refused to remove it or
\* its creation was not acknowledged: every other way out of executeCode, errors
\* and timeouts included, goes through the finally block
\* (judge-engine.service.ts:171-191).
FinishedIsRemoved ==
    \A c \in Call \ kept : pc[c] = "done" => box[c] \in {"none", "removed"}

\* Output is handed over for comparison only when the program has ended, by itself
\* or by the kernel's OOM killer: never what was written until the kill of a
\* timeout or of a failed read (judge-engine.service.ts:126-149, 287-289).
OutputIsWhole ==
    \A c \in Call : result[c].output = "full" => exit[c] \in {"own", "stderr", "oom"}

\* A result that reports the time limit is that of a program killed by it, and
\* the program runs no longer (judge-engine.service.ts:132-143).
TimedOutIsKilled ==
    \A c \in Call : result[c].timedOut => exit[c] = "killed" /\ box[c] # "running"

\* A call returns although its program never ends, unless the process dies.
CallsReturn == \A c \in Call : pc[c] = "create" ~> pc[c] \in {"done", "dead"}
=============================================================================
