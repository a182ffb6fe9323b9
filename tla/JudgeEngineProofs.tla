-------------------------- MODULE JudgeEngineProofs --------------------------
(***************************************************************************)
(* Proofs about JudgeEngine, for any number of calls and of faults: type   *)
(* correctness, and what a call leaves behind and hands over.  About       *)
(* TestReport, for any texts: what is told of a call that exceeded its     *)
(* time limit, what a report holds, and that a test case passes when its   *)
(* output is the expected one, which rests on what the loops of            *)
(* compareOutput make of a text.                                           *)
(***************************************************************************)
EXTENDS TestReport, FiniteSetTheorems, WellFoundedInduction, SequenceTheorems, TLAPS

-----------------------------------------------------------------------------
(* Type correctness *)

LEMMA UseTyped ==
    ASSUME TypeOK, NEW f \in Fault, NEW limit, Use(f, limit)
    PROVE  used' \in [Fault -> Nat]
BY DEF Use, TypeOK

\* Where a rejection leads.
LEMMA AfterRejectTyped ==
    \A p \in {"create", "attach", "start", "kill", "cleanup", "remove"} :
        AfterReject(p) \in {"cleanup", "stats", "remove", "done"}
BY DEF AfterReject

LEMMA OutcomeTyped ==
    ASSUME TypeOK, NEW c \in Call, NEW wrote \in BOOLEAN, NEW usage
    PROVE  /\ Outcome(c, wrote, usage) \in Result
           /\ Outcome(c, wrote, usage).output = output[c]
           /\ Outcome(c, wrote, usage).timedOut = FALSE
BY DEF Outcome, Result, Output, TypeOK

LEMMA StderrTyped == \A c \in Call : Stderr(c) \subseteq BOOLEAN
BY DEF Stderr

LEMMA TimedOutTyped ==
    TimedOut \in Result /\ TimedOut.timedOut /\ TimedOut.output = "none"
BY DEF TimedOut, NoResult, Result, Output

LEMMA InitTyped == Init => TypeOK
<1> SUFFICES ASSUME Init PROVE TypeOK
  OBVIOUS
<1>1. NoResult \in Result
  BY DEF NoResult, Result, Output
<1> QED
  BY <1>1 DEF Init, TypeOK, PC, Reader, Output, Box, Exit

\* The steps of one call towards its end.
LEMMA AnswersTyped ==
    ASSUME TypeOK, NEW c \in Call, Answers(c) PROVE TypeOK'
<1> USE DEF TypeOK, PC, Holding, Reader, Box, Exit, GoTo, Become
<1>1. CASE CreateContainer(c)
  BY <1>1 DEF CreateContainer
<1>2. CASE Attach(c)
  BY <1>2 DEF Attach
<1>3. CASE Start(c)
  BY <1>3 DEF Start
<1>4. CASE WaitAnswers(c)
  BY <1>4 DEF WaitAnswers, Output
<1>5. CASE KillAnswers(c)
  BY <1>5, TimedOutTyped DEF KillAnswers, Killed
<1>6. CASE CleanupAnswers(c)
  BY <1>6 DEF CleanupAnswers, Killed
<1>7. CASE StatsAnswer(c)
  <2>1. PICK wrote \in Stderr(c), u \in Usage(c) :
           result' = [result EXCEPT ![c] = Outcome(c, wrote, u)]
    BY <1>7 DEF StatsAnswer
  <2>2. Outcome(c, wrote, u) \in Result
    BY StderrTyped, OutcomeTyped
  <2> QED
    BY <1>7, <2>1, <2>2 DEF StatsAnswer
<1>8. CASE Remove(c)
  BY <1>8 DEF Remove
<1> QED
  BY <1>1, <1>2, <1>3, <1>4, <1>5, <1>6, <1>7, <1>8 DEF Answers

\* What happens to a call: its start, its timer, its stream, and failures.
LEMMA EventsTyped ==
    ASSUME TypeOK, NEW c \in Call,
           \/ ExecuteCode(c) \/ TimerFires(c) \/ StreamEnds(c) \/ StreamFails(c)
           \/ WaitRejects(c) \/ RequestFails(c) \/ CreateAckLost(c)
           \/ \E why \in Exit : ProgramEnds(c, why)
    PROVE  TypeOK'
<1> USE DEF TypeOK, PC, Holding, Reader, Box, Exit, GoTo, Become
<1>0. ASSUME NEW f \in {"reject", "ack"}, NEW limit, Use(f, limit)
      PROVE  used' \in [Fault -> Nat]
  BY <1>0, UseTyped DEF Fault
<1>1. CASE ExecuteCode(c)
  BY <1>1 DEF ExecuteCode
<1>2. CASE TimerFires(c)
  BY <1>2 DEF TimerFires
<1>3. CASE StreamEnds(c)
  BY <1>3 DEF StreamEnds
<1>4. CASE StreamFails(c)
  BY <1>0, <1>4 DEF StreamFails
<1>5. CASE WaitRejects(c)
  BY <1>5 DEF WaitRejects
<1>6. CASE RequestFails(c)
  <2>1. AfterReject(pc[c]) \in PC
    BY <1>6, AfterRejectTyped DEF RequestFails
  <2> QED
    BY <1>0, <1>6, <2>1 DEF RequestFails
<1>7. CASE CreateAckLost(c)
  BY <1>0, <1>7 DEF CreateAckLost
<1>8. ASSUME NEW why \in Exit, ProgramEnds(c, why) PROVE TypeOK'
  BY <1>8 DEF ProgramEnds
<1> QED
  BY <1>1, <1>2, <1>3, <1>4, <1>5, <1>6, <1>7, <1>8

LEMMA NextTyped == TypeOK /\ [Next]_vars => TypeOK'
<1> SUFFICES ASSUME TypeOK, [Next]_vars PROVE TypeOK'
  OBVIOUS
<1>1. CASE Crash
  <2>1. used' \in [Fault -> Nat]
    BY <1>1, UseTyped DEF Crash, Fault
  <2> QED
    BY <1>1, <2>1 DEF Crash, TypeOK, PC
<1>2. CASE UNCHANGED vars
  BY <1>2 DEF vars, TypeOK
<1> QED
  BY <1>1, <1>2, AnswersTyped, EventsTyped DEF Next

\* Every reachable state of the engine is well typed.
THEOREM TypeCorrect == Spec => []TypeOK
BY InitTyped, NextTyped, PTL DEF Spec

-----------------------------------------------------------------------------
(* What a call leaves behind and hands over *)

Ended == {"own", "stderr", "oom"}

\* A call created nothing yet, or answers for its container until it is removed.
Owned(c) ==
    /\ pc[c] \in {"idle", "create"} => box[c] = "none"
    /\ pc[c] = "done" /\ c \notin kept => box[c] \in {"none", "removed"}

\* While the race is on nobody kills, and what is read then is a whole output.
Whole(c) ==
    /\ pc[c] = "race" /\ box[c] = "exited" => exit[c] \in Ended
    /\ output[c] = "full" => /\ exit[c] \in Ended /\ box[c] # "running"
                             /\ pc[c] \in {"stats", "remove", "done", "dead"}
    /\ result[c].output = "full" => output[c] = "full"

\* The time limit is reported only by the kill that succeeded.
Limited(c) ==
    result[c].timedOut => /\ exit[c] = "killed" /\ box[c] # "running"
                          /\ pc[c] \in {"remove", "done", "dead"}

Sound(c) == Owned(c) /\ Whole(c) /\ Limited(c)

\* The inductive strengthening of the three invariants.
Soundness == \A c \in Call : Sound(c)

LEMMA SoundnessIsEnough ==
    Soundness => FinishedIsRemoved /\ OutputIsWhole /\ TimedOutIsKilled
<1> USE DEF Soundness, Sound
<1>1. Soundness => FinishedIsRemoved
  BY DEF Owned, FinishedIsRemoved
<1>2. Soundness => OutputIsWhole
  BY DEF Whole, Ended, OutputIsWhole
<1>3. Soundness => TimedOutIsKilled
  BY DEF Limited, TimedOutIsKilled
<1> QED
  BY <1>1, <1>2, <1>3

LEMMA InitSound == Init => Soundness
<1> SUFFICES ASSUME Init, NEW c \in Call PROVE Sound(c)
  BY DEF Soundness
<1>1. result[c].output = "none" /\ result[c].timedOut = FALSE
  BY DEF Init, NoResult
<1> QED
  BY <1>1 DEF Init, Sound, Owned, Whole, Limited

\* A call that does not move, or dies where it stands, stays sound.
LEMMA StandsStill ==
    ASSUME NEW c, Sound(c),
           pc'[c] \in {pc[c], "dead"}, output'[c] = output[c],
           result'[c] = result[c], box'[c] = box[c], exit'[c] = exit[c],
           kept \subseteq kept'
    PROVE  Sound(c)'
BY DEF Sound, Owned, Whole, Limited

LEMMA AnswersSound ==
    ASSUME TypeOK, NEW c \in Call, Sound(c), Answers(c) PROVE Sound(c)'
<1> USE DEF TypeOK, Sound, Owned, Whole, Limited, Ended, GoTo, Become
<1>1. CASE CreateContainer(c)
  BY <1>1 DEF CreateContainer
<1>2. CASE Attach(c)
  BY <1>2 DEF Attach
<1>3. CASE Start(c)
  BY <1>3 DEF Start
<1>4. CASE WaitAnswers(c)
  BY <1>4 DEF WaitAnswers, Won
<1>5. CASE KillAnswers(c)
  <2>1. CASE box[c] = "running"
    BY <1>5, <2>1, TimedOutTyped DEF KillAnswers, Killed
  <2>2. CASE box[c] # "running"
    BY <1>5, <2>2 DEF KillAnswers, Killed
  <2> QED
    BY <2>1, <2>2
<1>6. CASE CleanupAnswers(c)
  BY <1>6 DEF CleanupAnswers, Killed
<1>7. CASE StatsAnswer(c)
  <2>1. PICK wrote \in Stderr(c), u \in Usage(c) :
           result' = [result EXCEPT ![c] = Outcome(c, wrote, u)]
    BY <1>7 DEF StatsAnswer
  <2>2. result'[c].output = output[c] /\ result'[c].timedOut = FALSE
    BY <2>1, StderrTyped, OutcomeTyped
  <2> QED
    BY <1>7, <2>2 DEF StatsAnswer
<1>8. CASE Remove(c)
  BY <1>8 DEF Remove
<1> QED
  BY <1>1, <1>2, <1>3, <1>4, <1>5, <1>6, <1>7, <1>8 DEF Answers

\* What happens to one call, apart from the answers it goes on with.
Event(c) ==
    \/ ExecuteCode(c) \/ TimerFires(c) \/ StreamEnds(c) \/ StreamFails(c)
    \/ RequestFails(c) \/ CreateAckLost(c)
    \/ \E why \in Exit : ProgramEnds(c, why)

LEMMA EventSound ==
    ASSUME TypeOK, NEW c \in Call, Sound(c), Event(c) PROVE Sound(c)'
<1> USE DEF TypeOK, Sound, Owned, Whole, Limited, Ended, GoTo, Become
<1>1. CASE ExecuteCode(c)
  BY <1>1 DEF ExecuteCode
<1>2. CASE TimerFires(c)
  BY <1>2 DEF TimerFires
<1>3. CASE StreamEnds(c)
  BY <1>3 DEF StreamEnds
<1>4. CASE StreamFails(c)
  BY <1>4 DEF StreamFails
<1>5. CASE RequestFails(c)
  BY <1>5 DEF RequestFails, AfterReject
<1>6. CASE CreateAckLost(c)
  BY <1>6 DEF CreateAckLost
<1>7. ASSUME NEW why \in Exit, ProgramEnds(c, why) PROVE Sound(c)'
  BY <1>7 DEF ProgramEnds
<1> QED
  BY <1>1, <1>2, <1>3, <1>4, <1>5, <1>6, <1>7 DEF Event

\* What happens to one call touches no other.
LEMMA OthersStandStill ==
    ASSUME TypeOK, NEW c \in Call, Answers(c) \/ Event(c), NEW d \in Call, d # c
    PROVE  /\ pc'[d] = pc[d] /\ output'[d] = output[d] /\ result'[d] = result[d]
           /\ box'[d] = box[d] /\ exit'[d] = exit[d] /\ kept \subseteq kept'
<1> USE DEF TypeOK, GoTo, Become
<1>1. CASE Answers(c)
  BY <1>1 DEF Answers, CreateContainer, Attach, Start, WaitAnswers, KillAnswers,
              CleanupAnswers, StatsAnswer, Remove, Killed
<1>2. CASE Event(c)
  BY <1>2 DEF Event, ExecuteCode, TimerFires, StreamEnds, StreamFails,
              RequestFails, CreateAckLost, ProgramEnds
<1> QED
  BY <1>1, <1>2

LEMMA NextSound == TypeOK /\ Soundness /\ [Next]_vars => Soundness'
<1> SUFFICES ASSUME TypeOK, Soundness, [Next]_vars, NEW d \in Call
             PROVE  Sound(d)'
  BY DEF Soundness
<1>0. Sound(d)
  BY DEF Soundness
<1>1. ASSUME NEW c \in Call, Answers(c) \/ Event(c) PROVE Sound(d)'
  <2>1. CASE d = c
    BY <1>0, <1>1, <2>1, AnswersSound, EventSound
  <2>2. CASE d # c
    BY <1>0, <1>1, <2>2, OthersStandStill, StandsStill
  <2> QED
    BY <2>1, <2>2
<1>2. CASE Crash \/ \E c \in Call : WaitRejects(c)
  BY <1>0, <1>2, StandsStill DEF Crash, WaitRejects, TypeOK
<1>3. CASE UNCHANGED vars
  BY <1>0, <1>3, StandsStill DEF vars
<1> QED
  BY <1>1, <1>2, <1>3 DEF Next, Event

\* Every reachable state of the engine satisfies the strengthening.
THEOREM CallsAreSound == Spec => []Soundness
BY InitTyped, NextTyped, InitSound, NextSound, PTL DEF Spec

\* A call that ended left no container behind, whatever requests failed, and
\* whichever of its timer, its stream and its program came first
\* (judge-engine.service.ts:171-191).
THEOREM NothingIsLeftBehind == Spec => []FinishedIsRemoved
BY CallsAreSound, SoundnessIsEnough, PTL

\* No output of a killed program is handed over
\* (judge-engine.service.ts:126-149).
THEOREM OnlyWholeOutput == Spec => []OutputIsWhole
BY CallsAreSound, SoundnessIsEnough, PTL

\* A reported time limit is that of a killed program
\* (judge-engine.service.ts:132-143).
THEOREM OnlyKilledTimeOut == Spec => []TimedOutIsKilled
BY CallsAreSound, SoundnessIsEnough, PTL

-----------------------------------------------------------------------------
(* What is told of a call that exceeded the time limit *)

\* A call whose result is reported has returned, and was no success if the timer
\* ended it; then its row holds the message of the limit.
Told(c) ==
    /\ result[c].timedOut => ~result[c].success
    /\ Reported(c) => pc[c] = "done"
    /\ Reported(c) /\ result[c].timedOut =>
          /\ report[c].live = "tle" /\ report[c].error = "timeout"
          /\ report[c].passed = FALSE

LimitInv ==
    /\ TypeOK
    /\ DOMAIN report = Call /\ report = [c \in Call |-> report[c]]
    /\ \A c \in Call : Told(c)

\* A call that returned has its result for good, and only results of a kill
\* report the time limit.
LEMMA ResultStands ==
    ASSUME TypeOK, [Next]_vars, NEW c \in Call
    PROVE  /\ pc[c] = "done" => pc'[c] = "done" /\ result'[c] = result[c]
           /\ \/ result'[c] = result[c]
              \/ result'[c] = TimedOut
              \/ result'[c].timedOut = FALSE
<1> USE DEF TypeOK, GoTo, Become
<1>1. ASSUME NEW d \in Call, Answers(d) \/ Event(d), c # d
      PROVE  pc'[c] = pc[c] /\ result'[c] = result[c]
  BY <1>1, OthersStandStill
<1>2. ASSUME Answers(c)
      PROVE  /\ pc[c] = "done" => pc'[c] = "done" /\ result'[c] = result[c]
             /\ \/ result'[c] = result[c] \/ result'[c] = TimedOut
                \/ result'[c].timedOut = FALSE
  <2>1. CASE CreateContainer(c) \/ Attach(c) \/ Start(c) \/ CleanupAnswers(c) \/ Remove(c)
    BY <2>1 DEF CreateContainer, Attach, Start, CleanupAnswers, Remove
  <2>2. CASE WaitAnswers(c)
    BY <2>2 DEF WaitAnswers
  <2>3. CASE KillAnswers(c)
    BY <2>3 DEF KillAnswers
  <2>4. CASE StatsAnswer(c)
    BY <2>4 DEF StatsAnswer, Outcome
  <2> QED
    BY <1>2, <2>1, <2>2, <2>3, <2>4 DEF Answers
<1>3. ASSUME Event(c)
      PROVE  (pc[c] = "done" => pc'[c] = "done") /\ result'[c] = result[c]
  BY <1>3 DEF Event, ExecuteCode, TimerFires, StreamEnds, StreamFails,
              RequestFails, CreateAckLost, ProgramEnds
<1>4. CASE Crash \/ \E d \in Call : WaitRejects(d)
  BY <1>4 DEF Crash, WaitRejects
<1>5. CASE UNCHANGED vars
  BY <1>5 DEF vars
<1>6. CASE \E d \in Call : Answers(d) \/ Event(d)
  BY <1>1, <1>2, <1>3, <1>6
<1> QED
  BY <1>4, <1>5, <1>6 DEF Next, Event

LEMMA NextLimited ==
    ASSUME LimitInv, [Next]_vars, UNCHANGED report
    PROVE  LimitInv'
<1>1. TypeOK'
  BY NextTyped DEF LimitInv
<1>2. ASSUME NEW c \in Call PROVE Told(c)'
  <2>1. TimedOut.timedOut /\ TimedOut.success = FALSE
    BY DEF TimedOut, NoResult
  <2>2. Told(c)
    BY DEF LimitInv
  <2>3. /\ pc[c] = "done" => pc'[c] = "done" /\ result'[c] = result[c]
        /\ \/ result'[c] = result[c] \/ result'[c] = TimedOut
           \/ result'[c].timedOut = FALSE
    BY ResultStands DEF LimitInv
  <2> QED
    BY <2>1, <2>2, <2>3 DEF Told, Reported
<1> QED
  BY <1>1, <1>2 DEF LimitInv

LEMMA ReportLimited ==
    ASSUME LimitInv, NEW c \in Call, NEW expected \in Expected, Report(c, expected)
    PROVE  LimitInv'
<1>1. PICK text \in Texts(result[c]), e \in Errors(result[c]) :
        \E cuts \in SUBSET Wide(text) :
          LET out == Trim(Decode(text, cuts))
              passed == result[c].success /\ CompareOutput(out, expected)
              error == StoredError(e)
          IN  report' = [report EXCEPT ![c] =
                  [wrote |-> text, cut |-> cuts # {}, expected |-> expected,
                   passed |-> passed, output |-> out, error |-> error,
                   live |-> LiveVerdict(passed, error)]]
  BY DEF Report
<1>2. PICK cuts \in SUBSET Wide(text) :
          LET out == Trim(Decode(text, cuts))
              passed == result[c].success /\ CompareOutput(out, expected)
              error == StoredError(e)
          IN  report' = [report EXCEPT ![c] =
                  [wrote |-> text, cut |-> cuts # {}, expected |-> expected,
                   passed |-> passed, output |-> out, error |-> error,
                   live |-> LiveVerdict(passed, error)]]
  BY <1>1
<1> DEFINE passed == result[c].success /\ CompareOutput(Trim(Decode(text, cuts)), expected)
<1>3. /\ report'[c].passed = passed
      /\ report'[c].error = StoredError(e)
      /\ report'[c].live = LiveVerdict(passed, StoredError(e))
      /\ \A d \in Call : d # c => report'[d] = report[d]
      /\ DOMAIN report' = Call /\ report' = [d \in Call |-> report'[d]]
  BY <1>2 DEF LimitInv
<1>4. UNCHANGED vars /\ pc[c] = "done"
  BY DEF Report
<1>5. Told(c)'
  <2>1. CASE result[c].timedOut
    <3>2. ~result[c].success
      BY <2>1 DEF LimitInv, Told
    <3>3. passed = FALSE
      BY <3>2
    <3>4. e = "timeout"
      BY <2>1 DEF Errors, LimitError
    <3>5. StoredError(e) = "timeout"
      BY <3>4 DEF StoredError
    <3>6. LiveVerdict(passed, StoredError(e)) = "tle"
      BY <3>3, <3>5 DEF LiveVerdict
    <3> QED
      BY <1>3, <1>4, <3>2, <3>3, <3>5, <3>6 DEF Told, vars
  <2>2. CASE ~result[c].timedOut
    BY <1>4, <2>2 DEF Told, vars
  <2> QED
    BY <2>1, <2>2
<1>6. ASSUME NEW d \in Call, d # c PROVE Told(d)'
  BY <1>3, <1>4, <1>6 DEF LimitInv, Told, Reported, vars
<1>7. TypeOK'
  BY <1>4 DEF LimitInv, TypeOK, vars
<1> QED
  BY <1>3, <1>5, <1>6, <1>7 DEF LimitInv

\* Whoever is killed by the timer is told so, live and by replay: the message of
\* the limit passes both tests for it, and a call that was killed is no success
\* (submission.processor.ts:125-129, sse.controller.ts:100-104).
THEOREM LimitsAreTold == FairReportSpec => []LimitIsTle
<1>1. ReportInit => LimitInv
  <2> SUFFICES ASSUME ReportInit PROVE LimitInv
    OBVIOUS
  <2>1. TypeOK
    BY InitTyped DEF ReportInit
  <2>2. ASSUME NEW c \in Call PROVE Told(c)
    BY DEF ReportInit, Init, NoResult, Told, Reported
  <2> QED
    BY <2>1, <2>2 DEF ReportInit, LimitInv
<1>2. LimitInv /\ [ReportNext]_reportVars => LimitInv'
  <2>1. CASE UNCHANGED reportVars
    BY <2>1, NextLimited DEF reportVars
  <2>2. CASE Next /\ UNCHANGED report
    BY <2>2, NextLimited
  <2>3. CASE \E c \in Call, expected \in Expected : Report(c, expected)
    BY <2>3, ReportLimited
  <2> QED
    BY <2>1, <2>2, <2>3 DEF ReportNext
<1>3. LimitInv => LimitIsTle
  BY DEF LimitInv, Told, LimitIsTle, ReplayVerdict
<1> QED
  BY <1>1, <1>2, <1>3, PTL DEF FairReportSpec
-----------------------------------------------------------------------------
(* What a report holds *)

\* A set of numbers has a least element.
LEMMA Least ==
    ASSUME NEW T, T \subseteq Nat, T # {}
    PROVE  \E m \in T : \A k \in T : m <= k
<1>1. PICK m \in T : \A k \in T : <<k, m>> \notin OpToRel(<, Nat)
  BY NatLessThanWellFounded, WFMin
<1>2. \A k \in T : ~ (k < m)
  BY <1>1 DEF OpToRel
<1> QED
  BY <1>2

\* Induction over the natural numbers, as a fact about a set.
LEMMA NatSet ==
    ASSUME NEW T, 0 \in T, \A n \in Nat : n \in T => n + 1 \in T
    PROVE  Nat \subseteq T
<1> SUFFICES ASSUME Nat \ T # {} PROVE FALSE
  OBVIOUS
<1>1. PICK m \in Nat \ T : \A k \in Nat \ T : m <= k
  BY Least
<1>2. m # 0 /\ m - 1 \in Nat /\ m - 1 \notin Nat \ T
  BY <1>1
<1> QED
  BY <1>1, <1>2

\* A set of positions has a last element.
LEMMA Greatest ==
    ASSUME NEW n \in Nat, NEW T, T \subseteq 1..n, T # {}
    PROVE  \E m \in T : \A k \in T : m >= k
<1> DEFINE U == {n - i : i \in T}
<1>1. PICK m \in U : \A k \in U : m <= k
  <2>1. U \subseteq Nat
    OBVIOUS
  <2>2. U # {}
    <3>1. PICK i \in T : TRUE
      OBVIOUS
    <3> QED
      BY <3>1
  <2> HIDE DEF U
  <2> QED
    BY <2>1, <2>2, Least
<1>2. PICK i \in T : m = n - i
  OBVIOUS
<1>3. \A k \in T : i >= k
  <2>1. \A k \in T : n - i <= n - k
    BY <1>1, <1>2
  <2> QED
    BY <2>1
<1> QED
  BY <1>3

\* g is the pieces so far, one after the other.
Flattens(parts, g) ==
    g = [i \in 1..Len(parts) |-> IF i = 1 THEN parts[i] ELSE g[i - 1] \o parts[i]]

\* The first k pieces can be put one after the other.
Joined(parts, k, g) ==
    \A i \in 1..k : g[i] = IF i = 1 THEN parts[i] ELSE g[i - 1] \o parts[i]

Joins(S, parts, k) == \E g \in [1..k -> Seq(S)] : Joined(parts, k, g)

\* The pieces of a text are put one after the other.
LEMMA FlattenChain ==
    ASSUME NEW S, NEW parts \in Seq(Seq(S))
    PROVE  /\ Len(parts) = 0 => Seqs!FlattenSeq(parts) = << >>
           /\ Len(parts) # 0 =>
                 \E f : /\ \A k \in 1..Len(parts) : f[k] \in Seq(S)
                       /\ Joined(parts, Len(parts), f)
                       /\ Seqs!FlattenSeq(parts) = f[Len(parts)]
<1> DEFINE n == Len(parts)
           Step(g, i) == IF i = 1 THEN parts[i] ELSE g[i - 1] \o parts[i]
           K == {k \in Nat : k <= n => Joins(S, parts, k)}
<1>0. n \in Nat /\ \A i \in 1..n : parts[i] \in Seq(S)
  OBVIOUS
<1>1. 0 \in K
  <2> DEFINE h == [i \in 1..0 |-> << >>]
  <2>1. h \in [1..0 -> Seq(S)] /\ Joined(parts, 0, h)
    BY DEF Joined
  <2> HIDE DEF h
  <2> QED
    BY <2>1 DEF Joins
<1>2. ASSUME NEW k \in Nat, k \in K PROVE k + 1 \in K
  <2> SUFFICES ASSUME k + 1 <= n
               PROVE  Joins(S, parts, k + 1)
    OBVIOUS
  <2>1. PICK g \in [1..k -> Seq(S)] : Joined(parts, k, g)
    BY <1>0, <1>2 DEF Joins
  <2> DEFINE h == [i \in 1..(k + 1) |-> IF i = k + 1 THEN Step(g, i) ELSE g[i]]
  <2>2. Step(g, k + 1) \in Seq(S)
    <3>1. CASE k = 0
      BY <3>1, <1>0
    <3>2. CASE k # 0
      <4>1. g[k] \in Seq(S) /\ parts[k + 1] \in Seq(S) /\ (k + 1) - 1 = k /\ k + 1 # 1
        BY <3>2, <1>0, <2>1
      <4> QED
        BY <4>1
    <3> QED
      BY <3>1, <3>2
  <2>3. h \in [1..(k + 1) -> Seq(S)]
    BY <2>1, <2>2
  <2>4. \A i \in 1..(k + 1) : Step(h, i) = Step(g, i)
    <3>1. \A i \in 1..(k + 1) : i # 1 => i - 1 \in 1..(k + 1) /\ i - 1 # k + 1
      OBVIOUS
    <3>2. \A i \in 1..(k + 1) : i # 1 => h[i - 1] = g[i - 1]
      BY <3>1
    <3> QED
      BY <3>2
  <2>5. ASSUME NEW i \in 1..(k + 1) PROVE h[i] = Step(h, i)
    <3>1. CASE i = k + 1
      BY <3>1, <2>4
    <3>2. CASE i # k + 1
      <4>1. i \in 1..k
        BY <3>2
      <4>2. h[i] = g[i] /\ g[i] = Step(g, i)
        BY <4>1, <2>1 DEF Joined
      <4> QED
        BY <4>2, <2>4
    <3> QED
      BY <3>1, <3>2
  <2>6. Joined(parts, k + 1, h)
    BY <2>5 DEF Joined
  <2> HIDE DEF h
  <2> QED
    BY <2>3, <2>6 DEF Joins
<1>3. Nat \subseteq K
  <2> HIDE DEF K
  <2> QED
    BY <1>1, <1>2, NatSet
<1>4. PICK g \in [1..n -> Seq(S)] : Joined(parts, n, g)
  BY <1>3, <1>0 DEF Joins
<1>5. Flattens(parts, g)
  BY <1>4 DEF Flattens, Joined
<1> DEFINE f == CHOOSE h : Flattens(parts, h)
<1>6. Flattens(parts, f)
  BY <1>5
<1>7. \A i \in 1..n : f[i] \in Seq(S)
  <2> HIDE DEF f
  <2> DEFINE J == {k \in Nat : k \in 1..n => f[k] \in Seq(S)}
  <2>1. 0 \in J
    OBVIOUS
  <2>2. ASSUME NEW k \in Nat, k \in J PROVE k + 1 \in J
    <3> SUFFICES ASSUME k + 1 \in 1..n PROVE f[k + 1] \in Seq(S)
      OBVIOUS
    <3>1. f[k + 1] = IF k + 1 = 1 THEN parts[k + 1] ELSE f[(k + 1) - 1] \o parts[k + 1]
      BY <1>6 DEF Flattens
    <3>2. CASE k = 0
      BY <3>1, <3>2, <1>0
    <3>3. CASE k # 0
      <4>1. f[k] \in Seq(S) /\ parts[k + 1] \in Seq(S) /\ (k + 1) - 1 = k
        BY <2>2, <3>3, <1>0
      <4> QED
        BY <4>1, <3>1, <3>3
    <3> QED
      BY <3>2, <3>3
  <2>3. Nat \subseteq J
    <3> HIDE DEF J
    <3> QED
      BY <2>1, <2>2, NatSet
  <2> QED
    BY <2>3
<1>8. n # 0 => Seqs!FlattenSeq(parts) = f[n]
  BY DEF Seqs!FlattenSeq, Flattens
<1>9. n = 0 => Seqs!FlattenSeq(parts) = parts /\ parts = << >>
  BY DEF Seqs!FlattenSeq
<1>10. Joined(parts, n, f)
  <2> HIDE DEF f
  <2> QED
    BY <1>6 DEF Flattens, Joined
<1> HIDE DEF f
<1> QED
  BY <1>0, <1>7, <1>8, <1>9, <1>10

LEMMA FlattenTyped ==
    ASSUME NEW S, NEW parts \in Seq(Seq(S))
    PROVE  Seqs!FlattenSeq(parts) \in Seq(S)
<1>1. CASE Len(parts) = 0
  <2>1. << >> \in Seq(S)
    OBVIOUS
  <2> QED
    BY <1>1, <2>1, FlattenChain
<1>2. CASE Len(parts) # 0
  <2>1. Len(parts) \in 1..Len(parts)
    BY <1>2
  <2> QED
    BY <1>2, <2>1, FlattenChain
<1> QED
  BY <1>1, <1>2
\* The positions of a text that hold no white space.
Solids(s) == {i \in DOMAIN s : s[i] \notin White}

\* Trimming takes the part from the first to the last glyph that is no white space.
LEMMA TrimIs ==
    ASSUME NEW S, NEW s \in Seq(S)
    PROVE  /\ Solids(s) = {} => Trim(s) = << >>
           /\ Solids(s) # {} =>
                 \E a, b \in Solids(s) :
                    Trim(s) = SubSeq(s, a, b) /\ \A i \in Solids(s) : a <= i /\ i <= b
<1>1. Solids(s) = {} => Trim(s) = << >>
  BY DEF Trim, Solids
<1>2. ASSUME Solids(s) # {}
      PROVE  \E a, b \in Solids(s) :
                Trim(s) = SubSeq(s, a, b) /\ \A i \in Solids(s) : a <= i /\ i <= b
  <2> DEFINE T == Solids(s)
             a == CHOOSE i \in T : \A j \in T : i <= j
             b == CHOOSE i \in T : \A j \in T : i >= j
  <2>1. Len(s) \in Nat /\ T \subseteq 1..Len(s) /\ T \subseteq Nat /\ T # {}
    BY <1>2 DEF Solids
  <2>2. Trim(s) = SubSeq(s, a, b)
    BY <1>2 DEF Trim, Solids
  <2> HIDE DEF T
  <2>3. a \in T /\ \A j \in T : a <= j
    BY <2>1, Least
  <2>4. b \in T /\ \A j \in T : b >= j
    BY <2>1, Greatest
  <2> HIDE DEF a, b
  <2>5. \A i \in T : a <= i /\ i <= b
    BY <2>1, <2>3, <2>4
  <2> QED
    BY <2>2, <2>3, <2>4, <2>5 DEF T
<1> QED
  BY <1>1, <1>2

LEMMA TrimTyped ==
    ASSUME NEW S, NEW s \in Seq(S) PROVE Trim(s) \in Seq(S)
<1>1. CASE Solids(s) = {}
  <2>1. Trim(s) = << >>
    BY <1>1, TrimIs
  <2> QED
    BY <2>1
<1>2. CASE Solids(s) # {}
  <2>1. PICK a, b \in Solids(s) : Trim(s) = SubSeq(s, a, b)
    BY <1>2, TrimIs
  <2>2. a \in 1..Len(s) /\ b \in 1..Len(s)
    BY DEF Solids
  <2> QED
    BY <2>1, <2>2
<1> QED
  BY <1>1, <1>2

\* What becomes of each glyph.
Pieces(text, cuts) ==
    [i \in DOMAIN text |-> IF i \in cuts THEN <<"bad", "bad">> ELSE <<text[i]>>]

LEMMA PiecesAre ==
    ASSUME NEW text \in Seq(Glyph), NEW cuts
    PROVE  /\ Pieces(text, cuts) \in Seq(Seq(Decoded))
           /\ Len(Pieces(text, cuts)) = Len(text) /\ Len(text) \in Nat
           /\ Decode(text, cuts) = Seqs!FlattenSeq(Pieces(text, cuts))
           /\ \A i \in 1..Len(text) :
                 Pieces(text, cuts)[i] = IF i \in cuts THEN <<"bad", "bad">> ELSE <<text[i]>>
<1>1. DOMAIN text = 1..Len(text) /\ Len(text) \in Nat
  OBVIOUS
<1>2. \A i \in 1..Len(text) : text[i] \in Decoded
  BY DEF Decoded
<1>3. <<"bad", "bad">> \in Seq(Decoded) /\ \A g \in Decoded : <<g>> \in Seq(Decoded)
  BY DEF Decoded
<1>4. Pieces(text, cuts) = [i \in 1..Len(text) |->
                              IF i \in cuts THEN <<"bad", "bad">> ELSE <<text[i]>>]
  BY <1>1 DEF Pieces
<1>5. \A i \in 1..Len(text) : Pieces(text, cuts)[i] \in Seq(Decoded)
  BY <1>2, <1>3, <1>4
<1>6. Decode(text, cuts) = Seqs!FlattenSeq(Pieces(text, cuts))
  BY DEF Decode, Pieces
<1> QED
  BY <1>1, <1>4, <1>5, <1>6

\* What readStream decodes is a text, whatever the program wrote and wherever the
\* frames end.
LEMMA DecodeTyped ==
    ASSUME NEW text \in Seq(Glyph), NEW cuts PROVE Decode(text, cuts) \in Seq(Decoded)
BY PiecesAre, FlattenTyped

\* The report of a call that returned.
ReportOf(c, text, e, cuts, expected) ==
    LET passed == result[c].success /\ CompareOutput(Trim(Decode(text, cuts)), expected)
    IN  [wrote |-> text, cut |-> cuts # {}, expected |-> expected, passed |-> passed,
         output |-> Trim(Decode(text, cuts)), error |-> StoredError(e),
         live |-> LiveVerdict(passed, StoredError(e))]

LEMMA ReportIs ==
    ASSUME NEW c \in Call, NEW expected \in Expected, Report(c, expected)
    PROVE  \E text \in Texts(result[c]), e \in Errors(result[c]) :
              \E cuts \in SUBSET Wide(text) :
                 report' = [report EXCEPT ![c] = ReportOf(c, text, e, cuts, expected)]
BY DEF Report, ReportOf

\* What a report is made of.
IsReport(r) ==
    /\ DOMAIN r = DOMAIN NoReport
    /\ r.wrote \in Written \cup {<< >>}
    /\ r.expected \in Expected \cup {<< >>}
    /\ {r.cut, r.passed} \subseteq BOOLEAN
    /\ r.output \in Seq(Decoded)
    /\ r.error \in ErrorText \ {"blank"}
    /\ r.live \in {"none", "pass", "tle", "fail"}

ReportInv ==
    /\ TypeOK
    /\ report = [c \in Call |-> report[c]]
    /\ \A c \in Call : IsReport(report[c])

LEMMA WrittenTyped ==
    ASSUME NEW c \in Call, NEW text \in Texts(result[c])
    PROVE  text \in Written \cup {<< >>} /\ text \in Seq(Glyph)
<1>1. << >> \in Seq(Glyph)
  OBVIOUS
<1> QED
  BY <1>1, ReportAssumption DEF Texts

LEMMA ReportOfTyped ==
    ASSUME NEW c \in Call, NEW expected \in Expected, NEW text \in Texts(result[c]),
           NEW e \in Errors(result[c]), NEW cuts
    PROVE  IsReport(ReportOf(c, text, e, cuts, expected))
<1> DEFINE out == Trim(Decode(text, cuts))
           passed == result[c].success /\ CompareOutput(out, expected)
<1>1. out \in Seq(Decoded)
  BY WrittenTyped, DecodeTyped, TrimTyped
<1>2. StoredError(e) \in ErrorText \ {"blank"}
  BY DEF Errors, StoredError, ErrorText, LimitError
<1>3. LiveVerdict(passed, StoredError(e)) \in {"none", "pass", "tle", "fail"}
  BY DEF LiveVerdict
<1>4. passed \in BOOLEAN
  BY Zenon
<1>5. ReportOf(c, text, e, cuts, expected) =
           [wrote |-> text, cut |-> cuts # {}, expected |-> expected, passed |-> passed,
                   output |-> out, error |-> StoredError(e),
                   live |-> LiveVerdict(passed, StoredError(e))]
  BY DEF ReportOf
<1>6. text \in Written \cup {<< >>}
  BY WrittenTyped
<1> HIDE DEF out, passed
<1>7. DOMAIN ReportOf(c, text, e, cuts, expected) = DOMAIN NoReport
  BY <1>5 DEF NoReport
<1> QED
  BY <1>1, <1>2, <1>3, <1>4, <1>5, <1>6, <1>7 DEF IsReport

LEMMA NextReportTyped == ReportInv /\ [ReportNext]_reportVars => ReportInv'
<1> SUFFICES ASSUME ReportInv, [ReportNext]_reportVars PROVE ReportInv'
  OBVIOUS
<1>1. ASSUME [Next]_vars, UNCHANGED report PROVE ReportInv'
  <2>1. TypeOK'
    BY <1>1, NextTyped DEF ReportInv
  <2> QED
    BY <1>1, <2>1 DEF ReportInv
<1>2. ASSUME NEW c \in Call, NEW expected \in Expected, Report(c, expected) PROVE ReportInv'
  <2>1. PICK text \in Texts(result[c]), e \in Errors(result[c]) :
          \E cuts \in SUBSET Wide(text) :
             report' = [report EXCEPT ![c] = ReportOf(c, text, e, cuts, expected)]
    BY <1>2, ReportIs
  <2>2. PICK cuts \in SUBSET Wide(text) :
             report' = [report EXCEPT ![c] = ReportOf(c, text, e, cuts, expected)]
    BY <2>1
  <2>3. /\ report'[c] = ReportOf(c, text, e, cuts, expected)
        /\ \A d \in Call \ {c} : report'[d] = report[d]
        /\ report' = [d \in Call |-> report'[d]]
    BY <2>2 DEF ReportInv
  <2>4. UNCHANGED vars
    BY <1>2 DEF Report
  <2>5. TypeOK'
    BY <2>4 DEF ReportInv, TypeOK, vars
  <2>6. \A d \in Call : IsReport(report'[d])
    BY <2>3, ReportOfTyped DEF ReportInv
  <2> QED
    BY <2>3, <2>5, <2>6 DEF ReportInv
<1> QED
  BY <1>1, <1>2 DEF ReportNext, reportVars

\* What is stored and told of a call is one of the texts and verdicts the code
\* knows: a decoded text, an error that is never blank, a verdict
\* (judge-engine.service.ts:158-160, 171-187, submission.processor.ts:84-129).
THEOREM ReportsAreTyped == FairReportSpec => []ReportTypeOK
<1>1. ReportInit => ReportInv
  <2> SUFFICES ASSUME ReportInit PROVE ReportInv
    OBVIOUS
  <2>1. TypeOK
    BY InitTyped DEF ReportInit
  <2>2. IsReport(NoReport)
    BY DEF IsReport, NoReport, ErrorText
  <2> QED
    BY <2>1, <2>2 DEF ReportInit, ReportInv
<1>2. ReportInv => ReportTypeOK
  BY DEF ReportInv, IsReport, ReportTypeOK
<1> QED
  BY <1>1, <1>2, NextReportTyped, PTL DEF FairReportSpec
-----------------------------------------------------------------------------
(* A loop over a sequence *)

\* turn takes a value and a position to a value.
Turns(n, V, turn) == \A v \in V, i \in 1..n : turn[<<v, i>>] \in V

\* g folds turn over the sets of positions, as FoldLeft does.
Folding(n, base, turn, g) ==
    \A t \in SUBSET (1..n) :
        g[t] = IF t = {} THEN base
               ELSE turn[<<g[t \ {Seqs!Max(t)}], Seqs!Max(t)>>]

LEMMA MaxIs ==
    ASSUME NEW n \in Nat, NEW t \in SUBSET (1..n), t # {}
    PROVE  /\ Seqs!Max(t) \in t /\ \A i \in t : i <= Seqs!Max(t)
           /\ n \in t => Seqs!Max(t) = n
<1>1. Seqs!Max(t) \in t /\ \A i \in t : Seqs!Max(t) >= i
  BY Greatest DEF Seqs!Max
<1>2. Seqs!Max(t) \in 1..n /\ \A i \in t : i \in 1..n
  BY <1>1
<1> HIDE DEF Seqs!Max
<1>3. \A i \in t : i <= Seqs!Max(t)
  BY <1>1, <1>2
<1>4. n \in t => Seqs!Max(t) = n
  BY <1>2, <1>3
<1> QED
  BY <1>1, <1>3, <1>4

Foldable(n, V, base, turn) == \E g \in [SUBSET (1..n) -> V] : Folding(n, base, turn, g)

\* A fold over the positions of a sequence is defined.
LEMMA FoldExists ==
    ASSUME NEW n \in Nat, NEW V, NEW base \in V, NEW turn, Turns(n, V, turn)
    PROVE  Foldable(n, V, base, turn)
<1> DEFINE K == {k \in Nat : k <= n => Foldable(k, V, base, turn)}
<1>1. 0 \in K
  <2> DEFINE h == [t \in SUBSET (1..0) |-> base]
  <2>1. h \in [SUBSET (1..0) -> V]
    OBVIOUS
  <2>2. Folding(0, base, turn, h)
    BY DEF Folding
  <2> HIDE DEF h
  <2> QED
    BY <2>1, <2>2 DEF Foldable
<1>2. ASSUME NEW k \in Nat, k \in K PROVE k + 1 \in K
  <2> SUFFICES ASSUME k + 1 <= n PROVE Foldable(k + 1, V, base, turn)
    OBVIOUS
  <2>1. PICK g \in [SUBSET (1..k) -> V] : Folding(k, base, turn, g)
    <3>1. Foldable(k, V, base, turn)
      BY <1>2
    <3> QED
      BY <3>1 DEF Foldable
  <2> DEFINE m == k + 1
             h == [t \in SUBSET (1..m) |->
                     IF m \in t THEN turn[<<g[t \ {m}], m>>] ELSE g[t]]
  <2>2. \A t \in SUBSET (1..m) : t \ {m} \in SUBSET (1..k)
    OBVIOUS
  <2>3. \A t \in SUBSET (1..m) : m \notin t => t \in SUBSET (1..k)
    OBVIOUS
  <2>4. h \in [SUBSET (1..m) -> V]
    <3>1. m \in 1..n
      OBVIOUS
    <3> QED
      BY <2>1, <2>2, <2>3, <3>1 DEF Turns
  <2>5. ASSUME NEW t \in SUBSET (1..m)
        PROVE  h[t] = IF t = {} THEN base ELSE turn[<<h[t \ {Seqs!Max(t)}], Seqs!Max(t)>>]
    <3>1. CASE m \in t
      <4>1. Seqs!Max(t) = m
        BY <3>1, MaxIs
      <4>2. h[t \ {m}] = g[t \ {m}] /\ h[t] = turn[<<g[t \ {m}], m>>]
        BY <3>1
      <4> QED
        BY <3>1, <4>1, <4>2
    <3>2. CASE m \notin t
      <4>1. t \in SUBSET (1..k) /\ h[t] = g[t]
        BY <2>3, <3>2
      <4>2. g[t] = IF t = {} THEN base ELSE turn[<<g[t \ {Seqs!Max(t)}], Seqs!Max(t)>>]
        BY <2>1, <4>1 DEF Folding
      <4>3. h[t \ {Seqs!Max(t)}] = g[t \ {Seqs!Max(t)}]
        BY <3>2
      <4> HIDE DEF h
      <4> QED
        BY <4>1, <4>2, <4>3
    <3> QED
      BY <3>1, <3>2
  <2>6. Folding(m, base, turn, h)
    BY <2>5 DEF Folding
  <2> HIDE DEF h
  <2> QED
    BY <2>4, <2>6 DEF Foldable
<1>3. Nat \subseteq K
  <2> HIDE DEF K
  <2> QED
    BY <1>1, <1>2, NatSet
<1> QED
  BY <1>3

\* The first k positions are those before the k-th, and that one.
LEMMA FirstPositions ==
    ASSUME NEW n \in Nat, NEW k \in 0..(n - 1)
    PROVE  /\ 1..(k + 1) \in SUBSET (1..n) /\ 1..(k + 1) # {}
           /\ Seqs!Max(1..(k + 1)) = k + 1
           /\ (1..(k + 1)) \ {k + 1} = 1..k
<1>1. 1..(k + 1) \in SUBSET (1..(k + 1)) /\ k + 1 \in 1..(k + 1) /\ k + 1 \in Nat
  OBVIOUS
<1>2. Seqs!Max(1..(k + 1)) = k + 1
  BY <1>1, MaxIs
<1>3. (1..(k + 1)) \ {k + 1} = 1..k
  OBVIOUS
<1>4. 1..(k + 1) \in SUBSET (1..n) /\ 1..(k + 1) # {}
  <2>1. k + 1 <= n
    OBVIOUS
  <2> QED
    BY <1>1, <2>1
<1> QED
  BY <1>2, <1>3, <1>4

SplitTurn(lines, g) ==
    IF g = "\n" THEN Append(lines, << >>)
    ELSE [lines EXCEPT ![Len(lines)] = Append(@, g)]

JoinTurn(s, line) ==
    IF line = << >> THEN s ELSE IF s = << >> THEN line ELSE s \o <<"\n">> \o line

LEMMA SplitTurnTyped ==
    ASSUME NEW S, NEW lines \in Seq(Seq(S)), NEW g \in S
    PROVE  SplitTurn(lines, g) \in Seq(Seq(S))
<1>1. CASE g = "\n"
  BY <1>1 DEF SplitTurn
<1>2. CASE g # "\n"
  <2>1. \A i \in 1..Len(lines) : lines[i] \in Seq(S) /\ Append(lines[i], g) \in Seq(S)
    OBVIOUS
  <2>2. SplitTurn(lines, g) =
           [i \in 1..Len(lines) |-> IF i = Len(lines) THEN Append(lines[i], g) ELSE lines[i]]
    <3>1. DOMAIN lines = 1..Len(lines) /\ Len(lines) \in Nat
      OBVIOUS
    <3>2. [lines EXCEPT ![Len(lines)] = Append(@, g)] =
             [i \in DOMAIN lines |->
                IF i = Len(lines) THEN Append(lines[i], g) ELSE lines[i]]
      BY Zenon
    <3> QED
      BY <1>2, <3>1, <3>2 DEF SplitTurn
  <2> HIDE DEF SplitTurn
  <2> QED
    BY <2>1, <2>2
<1> QED
  BY <1>1, <1>2

\* The loop of split, glyph by glyph.
LEMMA SplitChain ==
    ASSUME NEW S, NEW s \in Seq(S)
    PROVE  \E c \in [0..Len(s) -> Seq(Seq(S))] :
              /\ c[0] = << << >> >> /\ c[Len(s)] = Split(s)
              /\ \A k \in 0..(Len(s) - 1) : c[k + 1] = SplitTurn(c[k], s[k + 1])
<1> DEFINE n == Len(s)
           V == Seq(Seq(S))
           base == << << >> >>
           turn == [p \in V \X (1..n) |-> SplitTurn(p[1], s[p[2]])]
           Fold(g) == g = [t \in SUBSET (1..n) |->
                             IF t = {} THEN base
                             ELSE SplitTurn(g[t \ {Seqs!Max(t)}], s[Seqs!Max(t)])]
           f == CHOOSE g : Fold(g)
<1>1. n \in Nat /\ DOMAIN s = 1..n /\ \A i \in 1..n : s[i] \in S
  OBVIOUS
<1>2. base \in V
  OBVIOUS
<1>3. \A v \in V, i \in 1..n : SplitTurn(v, s[i]) \in V
  BY <1>1, SplitTurnTyped
<1>4. \E g : Fold(g)
  <2>1. Turns(n, V, turn)
    BY <1>3 DEF Turns
  <2>2. PICK g \in [SUBSET (1..n) -> V] : Folding(n, base, turn, g)
    <3> HIDE DEF n, V, base, turn
    <3> QED
      BY <1>1, <1>2, <2>1, FoldExists DEF Foldable
  <2>3. ASSUME NEW t \in SUBSET (1..n)
        PROVE  g[t] = IF t = {} THEN base
                      ELSE SplitTurn(g[t \ {Seqs!Max(t)}], s[Seqs!Max(t)])
    <3>1. CASE t = {}
      BY <3>1, <2>2 DEF Folding
    <3>2. CASE t # {}
      <4>1. Seqs!Max(t) \in 1..n /\ t \ {Seqs!Max(t)} \in SUBSET (1..n)
        BY <3>2, <1>1, MaxIs
      <4>2. g[t \ {Seqs!Max(t)}] \in V
        BY <4>1
      <4>3. g[t] = turn[<<g[t \ {Seqs!Max(t)}], Seqs!Max(t)>>]
        BY <3>2, <2>2 DEF Folding
      <4> QED
        BY <3>2, <4>1, <4>2, <4>3
    <3> QED
      BY <3>1, <3>2
  <2>4. Fold(g)
    BY <2>2, <2>3
  <2> QED
    BY <2>4
<1>5. Fold(f)
  <2> HIDE DEF Fold
  <2> QED
    BY <1>4
<1>6. Split(s) = f[1..n]
  BY <1>1 DEF Split, Seqs!FoldLeft, Seqs!MapThenFoldSet, SplitTurn
<1> HIDE DEF f
<1> DEFINE c == [k \in 0..n |-> f[1..k]]
<1>7. f[1..0] = base
  <2>1. 1..0 = {} /\ 1..0 \in SUBSET (1..n)
    BY <1>1
  <2> QED
    BY <2>1, <1>5
<1>8. ASSUME NEW k \in 0..(n - 1) PROVE f[1..(k + 1)] = SplitTurn(f[1..k], s[k + 1])
  <2>1. /\ 1..(k + 1) \in SUBSET (1..n) /\ 1..(k + 1) # {}
        /\ Seqs!Max(1..(k + 1)) = k + 1 /\ (1..(k + 1)) \ {k + 1} = 1..k
    BY <1>1, FirstPositions
  <2> HIDE DEF n
  <2> QED
    BY <2>1, <1>5
<1>9. c \in [0..n -> V]
  <2> DEFINE K == {k \in Nat : k <= n => f[1..k] \in V}
  <2>1. 0 \in K
    BY <1>2, <1>7
  <2>2. ASSUME NEW k \in Nat, k \in K PROVE k + 1 \in K
    <3> SUFFICES ASSUME k + 1 <= n PROVE f[1..(k + 1)] \in V
      OBVIOUS
    <3>1. k \in 0..(n - 1) /\ k + 1 \in 1..n
      BY <1>1
    <3> QED
      BY <2>2, <3>1, <1>1, <1>3, <1>8
  <2>3. Nat \subseteq K
    <3> HIDE DEF K
    <3> QED
      BY <2>1, <2>2, NatSet
  <2> QED
    BY <2>3
<1>10. c[0] = base /\ c[n] = Split(s)
  BY <1>1, <1>6, <1>7
<1>11. \A k \in 0..(n - 1) : c[k + 1] = SplitTurn(c[k], s[k + 1])
  BY <1>1, <1>8
<1> HIDE DEF c
<1> QED
  BY <1>9, <1>10, <1>11
LEMMA JoinTurnTyped ==
    ASSUME NEW S, "\n" \in S, NEW s \in Seq(S), NEW line \in Seq(S)
    PROVE  JoinTurn(s, line) \in Seq(S)
<1>1. s \o <<"\n">> \o line \in Seq(S)
  OBVIOUS
<1> QED
  BY <1>1 DEF JoinTurn

\* The loop of join, line by line.
LEMMA JoinChain ==
    ASSUME NEW S, "\n" \in S, NEW lines \in Seq(Seq(S))
    PROVE  \E c \in [0..Len(lines) -> Seq(S)] :
              /\ c[0] = << >> /\ c[Len(lines)] = Join(lines)
              /\ \A k \in 0..(Len(lines) - 1) : c[k + 1] = JoinTurn(c[k], lines[k + 1])
<1> DEFINE n == Len(lines)
           V == Seq(S)
           base == << >>
           turn == [p \in V \X (1..n) |-> JoinTurn(p[1], lines[p[2]])]
           Fold(g) == g = [t \in SUBSET (1..n) |->
                             IF t = {} THEN base
                             ELSE JoinTurn(g[t \ {Seqs!Max(t)}], lines[Seqs!Max(t)])]
           f == CHOOSE g : Fold(g)
<1>1. n \in Nat /\ DOMAIN lines = 1..n /\ \A i \in 1..n : lines[i] \in Seq(S)
  OBVIOUS
<1>2. base \in V
  OBVIOUS
<1>3. \A v \in V, i \in 1..n : JoinTurn(v, lines[i]) \in V
  BY <1>1, JoinTurnTyped
<1>4. \E g : Fold(g)
  <2>1. Turns(n, V, turn)
    BY <1>3 DEF Turns
  <2>2. PICK g \in [SUBSET (1..n) -> V] : Folding(n, base, turn, g)
    <3> HIDE DEF n, V, base, turn
    <3> QED
      BY <1>1, <1>2, <2>1, FoldExists DEF Foldable
  <2>3. ASSUME NEW t \in SUBSET (1..n)
        PROVE  g[t] = IF t = {} THEN base
                      ELSE JoinTurn(g[t \ {Seqs!Max(t)}], lines[Seqs!Max(t)])
    <3>1. CASE t = {}
      BY <3>1, <2>2 DEF Folding
    <3>2. CASE t # {}
      <4>1. Seqs!Max(t) \in 1..n /\ t \ {Seqs!Max(t)} \in SUBSET (1..n)
        BY <3>2, <1>1, MaxIs
      <4>2. g[t \ {Seqs!Max(t)}] \in V
        BY <4>1
      <4>3. g[t] = turn[<<g[t \ {Seqs!Max(t)}], Seqs!Max(t)>>]
        BY <3>2, <2>2 DEF Folding
      <4> QED
        BY <3>2, <4>1, <4>2, <4>3
    <3> QED
      BY <3>1, <3>2
  <2>4. Fold(g)
    BY <2>2, <2>3
  <2> QED
    BY <2>4
<1>5. Fold(f)
  <2> HIDE DEF Fold
  <2> QED
    BY <1>4
<1>6. Join(lines) = f[1..n]
  BY <1>1 DEF Join, Seqs!FoldLeft, Seqs!MapThenFoldSet, JoinTurn
<1> HIDE DEF f
<1> DEFINE c == [k \in 0..n |-> f[1..k]]
<1>7. f[1..0] = base
  <2>1. 1..0 = {} /\ 1..0 \in SUBSET (1..n)
    BY <1>1
  <2> QED
    BY <2>1, <1>5
<1>8. ASSUME NEW k \in 0..(n - 1) PROVE f[1..(k + 1)] = JoinTurn(f[1..k], lines[k + 1])
  <2>1. /\ 1..(k + 1) \in SUBSET (1..n) /\ 1..(k + 1) # {}
        /\ Seqs!Max(1..(k + 1)) = k + 1 /\ (1..(k + 1)) \ {k + 1} = 1..k
    BY <1>1, FirstPositions
  <2> HIDE DEF n
  <2> QED
    BY <2>1, <1>5
<1>9. c \in [0..n -> V]
  <2> DEFINE K == {k \in Nat : k <= n => f[1..k] \in V}
  <2>1. 0 \in K
    BY <1>2, <1>7
  <2>2. ASSUME NEW k \in Nat, k \in K PROVE k + 1 \in K
    <3> SUFFICES ASSUME k + 1 <= n PROVE f[1..(k + 1)] \in V
      OBVIOUS
    <3>1. k \in 0..(n - 1) /\ k + 1 \in 1..n
      BY <1>1
    <3> QED
      BY <2>2, <3>1, <1>1, <1>3, <1>8
  <2>3. Nat \subseteq K
    <3> HIDE DEF K
    <3> QED
      BY <2>1, <2>2, NatSet
  <2> QED
    BY <2>3
<1>10. c[0] = base /\ c[n] = Join(lines)
  BY <1>1, <1>6, <1>7
<1>11. \A k \in 0..(n - 1) : c[k + 1] = JoinTurn(c[k], lines[k + 1])
  BY <1>1, <1>8
<1> HIDE DEF c
<1> QED
  BY <1>9, <1>10, <1>11

LEMMA JoinEmpty == Join(<< >>) = << >>
<1> DEFINE none == << >>
<1>1. none \in Seq(Seq({"\n"})) /\ Len(none) = 0
  OBVIOUS
<1> HIDE DEF none
<1>2. PICK e \in [0..Len(none) -> Seq({"\n"})] : e[0] = << >> /\ e[Len(none)] = Join(none)
  BY <1>1, JoinChain
<1>3. Join(none) = << >>
  BY <1>1, <1>2
<1> QED
  BY <1>3 DEF none

LEMMA JoinAppend ==
    ASSUME NEW S, "\n" \in S, NEW lines \in Seq(Seq(S)), NEW line \in Seq(S)
    PROVE  /\ Join(lines) \in Seq(S)
           /\ Join(Append(lines, line)) = JoinTurn(Join(lines), line)
<1> DEFINE n == Len(lines)
           more == Append(lines, line)
<1>1. /\ more \in Seq(Seq(S)) /\ n \in Nat /\ Len(more) = n + 1 /\ more[n + 1] = line
      /\ \A i \in 1..n : more[i] = lines[i]
  OBVIOUS
<1>2. PICK c \in [0..n -> Seq(S)] :
         /\ c[0] = << >> /\ c[n] = Join(lines)
         /\ \A k \in 0..(n - 1) : c[k + 1] = JoinTurn(c[k], lines[k + 1])
  BY JoinChain
<1> HIDE DEF more
<1>3. PICK d \in [0..Len(more) -> Seq(S)] :
         /\ d[0] = << >> /\ d[Len(more)] = Join(more)
         /\ \A k \in 0..(Len(more) - 1) : d[k + 1] = JoinTurn(d[k], more[k + 1])
  BY <1>1, JoinChain
<1>4. c[n] = d[n]
  <2> DEFINE K == {k \in Nat : k <= n => c[k] = d[k]}
  <2>1. 0 \in K
    BY <1>2, <1>3
  <2>2. ASSUME NEW k \in Nat, k \in K PROVE k + 1 \in K
    <3> SUFFICES ASSUME k + 1 <= n PROVE c[k + 1] = d[k + 1]
      OBVIOUS
    <3>1. k \in 0..(n - 1) /\ k \in 0..(Len(more) - 1) /\ k + 1 \in 1..n
      BY <1>1
    <3>2. c[k + 1] = JoinTurn(c[k], lines[k + 1])
      BY <1>2, <3>1
    <3>3. d[k + 1] = JoinTurn(d[k], more[k + 1])
      BY <1>3, <3>1
    <3>4. c[k] = d[k] /\ more[k + 1] = lines[k + 1]
      BY <2>2, <3>1, <1>1
    <3> QED
      BY <3>2, <3>3, <3>4
  <2>3. Nat \subseteq K
    <3> HIDE DEF K
    <3> QED
      BY <2>1, <2>2, NatSet
  <2>4. n \in K
    <3> HIDE DEF K
    <3> QED
      BY <1>1, <2>3
  <2> QED
    BY <2>4
<1>5. Join(more) = JoinTurn(d[n], line)
  <2>1. n \in 0..(Len(more) - 1) /\ Len(more) = n + 1
    BY <1>1
  <2>2. d[n + 1] = JoinTurn(d[n], more[n + 1])
    BY <2>1, <1>3
  <2> QED
    BY <2>1, <2>2, <1>1, <1>3
<1>7. Join(lines) \in Seq(S)
  <2>1. n \in 0..n
    BY <1>1
  <2> QED
    BY <2>1, <1>2
<1> QED
  BY <1>2, <1>4, <1>5, <1>7 DEF more
-----------------------------------------------------------------------------
(* The positions a text is made of *)

\* Text r is what s holds at the positions C, in their order: e[k] is the
\* position of the k-th glyph.
Places(r, s, C, e) ==
    /\ e \in [1..Len(r) -> C]
    /\ \A i \in C : \E k \in 1..Len(r) : e[k] = i
    /\ \A k, l \in 1..Len(r) : k < l => e[k] < e[l]
    /\ \A k \in 1..Len(r) : r[k] = s[e[k]]

MadeOf(r, s, C) == C \subseteq Nat /\ \E e : Places(r, s, C, e)

\* A text of positions that lie before those of another one, and that one.
LEMMA MadeOfBoth ==
    ASSUME NEW S, NEW p \in Seq(S), NEW q \in Seq(S), NEW s, NEW C, NEW D,
           MadeOf(p, s, C), MadeOf(q, s, D), \A i \in C, j \in D : i < j
    PROVE  MadeOf(p \o q, s, C \cup D)
<1>1. PICK f : Places(p, s, C, f)
  BY DEF MadeOf
<1>2. PICK g : Places(q, s, D, g)
  BY DEF MadeOf
<1> DEFINE m == Len(p)
           n == Len(q)
           e == [k \in 1..(m + n) |-> IF k <= m THEN f[k] ELSE g[k - m]]
<1>3. m \in Nat /\ n \in Nat /\ C \subseteq Nat /\ D \subseteq Nat
  BY DEF MadeOf
<1>4. /\ Len(p \o q) = m + n
      /\ \A k \in 1..m : (p \o q)[k] = p[k]
      /\ \A k \in (m + 1)..(m + n) : (p \o q)[k] = q[k - m]
  OBVIOUS
<1>5. /\ \A k \in 1..m : e[k] = f[k] /\ f[k] \in C
      /\ \A k \in (m + 1)..(m + n) : e[k] = g[k - m] /\ g[k - m] \in D /\ k - m \in 1..n
  <2>1. f \in [1..m -> C] /\ g \in [1..n -> D]
    BY <1>1, <1>2 DEF Places
  <2>2. \A k \in 1..m : k \in 1..(m + n) /\ k <= m
    BY <1>3
  <2>3. \A k \in (m + 1)..(m + n) : k \in 1..(m + n) /\ ~(k <= m) /\ k - m \in 1..n
    BY <1>3
  <2> HIDE DEF m, n
  <2> QED
    BY <2>1, <2>2, <2>3
<1>6. e \in [1..(m + n) -> C \cup D]
  <2>1. \A k \in 1..(m + n) : k \in 1..m \/ k \in (m + 1)..(m + n)
    BY <1>3
  <2>2. \A k \in 1..(m + n) : e[k] \in C \cup D
    BY <2>1, <1>5
  <2> HIDE DEF m, n
  <2> QED
    BY <2>2
<1> HIDE DEF m, n, e
<1>7. ASSUME NEW i \in C \cup D PROVE \E k \in 1..(m + n) : e[k] = i
  <2>1. CASE i \in C
    <3>1. PICK k \in 1..m : f[k] = i
      BY <2>1, <1>1 DEF Places, m
    <3>2. k \in 1..(m + n) /\ e[k] = i
      BY <3>1, <1>3, <1>5
    <3> QED
      BY <3>2
  <2>2. CASE i \in D
    <3>1. PICK k \in 1..n : g[k] = i
      BY <2>2, <1>2 DEF Places, n
    <3>2. k + m \in (m + 1)..(m + n) /\ k + m \in 1..(m + n) /\ (k + m) - m = k
      BY <1>3
    <3>3. e[k + m] = i
      BY <3>1, <3>2, <1>5
    <3> QED
      BY <3>2, <3>3
  <2> QED
    BY <2>1, <2>2
<1>8. ASSUME NEW k \in 1..(m + n), NEW l \in 1..(m + n), k < l PROVE e[k] < e[l]
  <2>1. CASE l <= m
    <3>1. k \in 1..m /\ l \in 1..m
      BY <2>1, <1>3, <1>8
    <3> QED
      BY <3>1, <1>1, <1>5, <1>8 DEF Places, m
  <2>2. CASE k <= m /\ ~(l <= m)
    <3>1. k \in 1..m /\ l \in (m + 1)..(m + n)
      BY <2>2, <1>3
    <3> QED
      BY <3>1, <1>5
  <2>3. CASE ~(k <= m)
    <3>1. k \in (m + 1)..(m + n) /\ l \in (m + 1)..(m + n) /\ k - m < l - m
      BY <2>3, <1>3, <1>8
    <3>2. g[k - m] < g[l - m]
      BY <3>1, <1>2, <1>5 DEF Places, n
    <3> QED
      BY <3>1, <3>2, <1>5
  <2> QED
    BY <2>1, <2>2, <2>3
<1>9. ASSUME NEW k \in 1..(m + n) PROVE (p \o q)[k] = s[e[k]]
  <2>1. CASE k <= m
    <3>1. k \in 1..m
      BY <2>1, <1>3
    <3> QED
      BY <3>1, <1>1, <1>4, <1>5 DEF Places, m
  <2>2. CASE ~(k <= m)
    <3>1. k \in (m + 1)..(m + n)
      BY <2>2, <1>3
    <3> QED
      BY <3>1, <1>2, <1>4, <1>5 DEF Places, n
  <2> QED
    BY <2>1, <2>2
<1>10. Places(p \o q, s, C \cup D, e)
  BY <1>4, <1>6, <1>7, <1>8, <1>9 DEF Places
<1> QED
  BY <1>3, <1>10 DEF MadeOf

\* A part of a text, and one glyph of it.
LEMMA MadeOfPart ==
    ASSUME NEW S, NEW s \in Seq(S), NEW a \in 1..Len(s), NEW b \in a..Len(s)
    PROVE  MadeOf(SubSeq(s, a, b), s, a..b)
<1> DEFINE r == SubSeq(s, a, b)
           e == [k \in 1..(b - a + 1) |-> a - 1 + k]
<1>1. /\ Len(s) \in Nat /\ Len(r) = b - a + 1
      /\ \A k \in 1..(b - a + 1) : r[k] = s[a - 1 + k]
  OBVIOUS
<1>2. e \in [1..(b - a + 1) -> a..b]
  OBVIOUS
<1>3. ASSUME NEW i \in a..b PROVE \E k \in 1..(b - a + 1) : e[k] = i
  <2>1. i - a + 1 \in 1..(b - a + 1) /\ a - 1 + (i - a + 1) = i
    OBVIOUS
  <2> QED
    BY <2>1
<1>4. \A k, l \in 1..(b - a + 1) : k < l => e[k] < e[l]
  OBVIOUS
<1>5. \A k \in 1..(b - a + 1) : r[k] = s[e[k]]
  BY <1>1
<1> HIDE DEF e, r
<1>6. Places(r, s, a..b, e)
  BY <1>1, <1>2, <1>3, <1>4, <1>5 DEF Places
<1> QED
  BY <1>6 DEF MadeOf, r

LEMMA MadeOfOne ==
    ASSUME NEW s, NEW i \in Nat PROVE MadeOf(<<s[i]>>, s, {i})
<1>1. Places(<<s[i]>>, s, {i}, [k \in 1..1 |-> i])
  BY DEF Places
<1> QED
  BY <1>1 DEF MadeOf

\* The empty text is made of no position, and no other text is.
LEMMA MadeOfNone ==
    ASSUME NEW S, NEW r \in Seq(S), NEW s, NEW C
    PROVE  /\ MadeOf(<< >>, s, {})
           /\ MadeOf(r, s, C) => (r = << >> <=> C = {})
<1>1. Places(<< >>, s, {}, << >>)
  BY DEF Places
<1>2. ASSUME MadeOf(r, s, C) PROVE r = << >> <=> C = {}
  <2>1. PICK e : Places(r, s, C, e)
    BY <1>2 DEF MadeOf
  <2>2. \A k \in 1..Len(r) : e[k] \in C
    BY <2>1 DEF Places
  <2>3. \A i \in C : \E k \in 1..Len(r) : e[k] = i
    BY <2>1 DEF Places
  <2>4. r # << >> => 1 \in 1..Len(r)
    OBVIOUS
  <2>5. r = << >> => 1..Len(r) = {}
    OBVIOUS
  <2> QED
    BY <2>2, <2>3, <2>4, <2>5
<1> QED
  BY <1>1, <1>2 DEF MadeOf
-----------------------------------------------------------------------------
(* The positions that count, line by line *)

\* A blank within a line, and the break between two lines that are not blank, of
\* the first n glyphs.
Inner(s, i, n) ==
    /\ s[i] = " "
    /\ \E j \in 1..i : Solid(s, j) /\ OneLine(s, j, i)
    /\ \E j \in i..n : Solid(s, j) /\ OneLine(s, i, j)

Breaks(s, i, n) ==
    /\ s[i] = "\n"
    /\ \E j \in 1..(i - 1) : Solid(s, j) /\ OneLine(s, j, i - 1)
    /\ \E j \in i..n : Solid(s, j)

CountsTo(s, n) == {i \in 1..n : Solid(s, i) \/ Inner(s, i, n) \/ Breaks(s, i, n)}

LEMMA CountsToAll ==
    ASSUME NEW S, NEW s \in Seq(S) PROVE Counts(s) = CountsTo(s, Len(s))
<1>1. DOMAIN s = 1..Len(s)
  OBVIOUS
<1> QED
  BY <1>1 DEF Counts, CountsTo, Inner, Breaks

\* Whatever counts has a glyph that is no white space before or at it, and one at
\* or behind it.
LEMMA CountsBetween ==
    ASSUME NEW s, NEW n \in Nat, NEW i \in CountsTo(s, n)
    PROVE  /\ \E j \in 1..i : Solid(s, j)
           /\ \E j \in i..n : Solid(s, j)
<1>1. i \in 1..n /\ i \in 1..i /\ i \in i..n
  BY DEF CountsTo
<1>2. CASE Solid(s, i)
  BY <1>1, <1>2
<1>3. CASE Inner(s, i, n)
  BY <1>3 DEF Inner
<1>4. CASE Breaks(s, i, n)
  <2>1. \A j \in 1..(i - 1) : j \in 1..i
    BY <1>1
  <2> QED
    BY <1>4, <2>1 DEF Breaks
<1> QED
  BY <1>2, <1>3, <1>4 DEF CountsTo

\* What counts among the first b glyphs counts among more.
LEMMA CountsGrow ==
    ASSUME NEW s, NEW n \in Nat, NEW b \in 0..n
    PROVE  CountsTo(s, b) \subseteq CountsTo(s, n)
<1> SUFFICES ASSUME NEW i \in CountsTo(s, b) PROVE i \in CountsTo(s, n)
  OBVIOUS
<1>1. i \in 1..b /\ i \in 1..n /\ i..b \subseteq i..n
  BY DEF CountsTo
<1>2. Inner(s, i, b) => Inner(s, i, n)
  BY <1>1 DEF Inner
<1>3. Breaks(s, i, b) => Breaks(s, i, n)
  BY <1>1 DEF Breaks
<1> QED
  BY <1>1, <1>2, <1>3 DEF CountsTo

\* The line behind b goes on up to n: no break is between them, and b is one.
Line(s, b, n) ==
    /\ b \in 0..n
    /\ b # 0 => s[b] = "\n"
    /\ \A i \in (b + 1)..n : s[i] # "\n"

\* Of a blank line nothing counts.
LEMMA BlankLine ==
    ASSUME NEW s, NEW n \in Nat, NEW b \in 0..n, \A i \in (b + 1)..n : ~Solid(s, i)
    PROVE  CountsTo(s, n) = CountsTo(s, b)
<1>1. b \in 0..n
  OBVIOUS
<1> SUFFICES ASSUME NEW i \in CountsTo(s, n) PROVE i \in CountsTo(s, b)
  BY CountsGrow
<1>2. i \in 1..n
  BY DEF CountsTo
<1>3. \A j \in i..n : Solid(s, j) => j \in i..b
  BY <1>1, <1>2
<1>4. i \in 1..b
  <2>1. \E j \in i..n : Solid(s, j)
    BY CountsBetween
  <2> QED
    BY <2>1, <1>1, <1>2, <1>3
<1>5. Inner(s, i, n) => Inner(s, i, b)
  BY <1>3 DEF Inner
<1>6. Breaks(s, i, n) => Breaks(s, i, b)
  BY <1>3 DEF Breaks
<1> QED
  BY <1>4, <1>5, <1>6 DEF CountsTo

\* The glyphs x and y are the first and the last of a line that are no white space.
Filled(s, b, n, x, y) ==
    /\ Line(s, b, n)
    /\ x \in (b + 1)..n /\ y \in x..n
    /\ Solid(s, x) /\ Solid(s, y)
    /\ \A i \in (b + 1)..n : Solid(s, i) => i \in x..y

\* What counts in a line is its part between these.
LEMMA FilledPart ==
    ASSUME NEW s, NEW n \in Nat, NEW b, NEW x, NEW y, Filled(s, b, n, x, y)
    PROVE  /\ x..y \subseteq CountsTo(s, n)
           /\ \A i \in CountsTo(s, n) : i > b => i \in x..y
<1>1. /\ Line(s, b, n) /\ b \in 0..n /\ x \in (b + 1)..n /\ y \in x..n
      /\ Solid(s, x) /\ Solid(s, y)
      /\ \A i \in (b + 1)..n : s[i] # "\n"
      /\ \A i \in (b + 1)..n : Solid(s, i) => i \in x..y
  BY DEF Filled, Line
<1>2. ASSUME NEW i \in x..y PROVE i \in CountsTo(s, n)
  <2>1. i \in 1..n /\ i \in (b + 1)..n /\ x \in 1..i /\ y \in i..n
    BY <1>1
  <2>2. x..i \subseteq (b + 1)..n /\ i..y \subseteq (b + 1)..n
    BY <1>1
  <2>3. OneLine(s, x, i) /\ OneLine(s, i, y)
    BY <1>1, <2>2 DEF OneLine
  <2>4. CASE Solid(s, i)
    BY <2>1, <2>4 DEF CountsTo
  <2>5. CASE ~Solid(s, i)
    <3>1. s[i] = " "
      BY <2>1, <2>5, <1>1 DEF Solid, White
    <3>2. Inner(s, i, n)
      BY <3>1, <2>1, <2>3, <1>1 DEF Inner
    <3> QED
      BY <2>1, <3>2 DEF CountsTo
  <2> QED
    BY <2>4, <2>5
<1>3. ASSUME NEW i \in CountsTo(s, n), i > b PROVE i \in x..y
  <2>1. i \in (b + 1)..n /\ i \in 1..n
    BY <1>1, <1>3 DEF CountsTo
  <2>2. ~Breaks(s, i, n)
    BY <1>1, <2>1 DEF Breaks
  <2>3. CASE Solid(s, i)
    BY <1>1, <2>1, <2>3
  <2>4. CASE Inner(s, i, n)
    <3>1. PICK j \in 1..i : Solid(s, j) /\ OneLine(s, j, i)
      BY <2>4 DEF Inner
    <3>2. PICK k \in i..n : Solid(s, k)
      BY <2>4 DEF Inner
    <3>3. j > b
      <4> SUFFICES ASSUME ~(j > b) PROVE FALSE
        OBVIOUS
      <4>1. b \in j..i /\ b # 0
        BY <1>1, <2>1, <3>1
      <4>2. s[b] = "\n"
        BY <1>1, <4>1 DEF Line
      <4> QED
        BY <3>1, <4>1, <4>2 DEF OneLine
    <3>4. j \in (b + 1)..n /\ k \in (b + 1)..n
      BY <1>1, <2>1, <3>1, <3>2, <3>3
    <3>5. j \in x..y /\ k \in x..y
      BY <1>1, <3>1, <3>2, <3>4
    <3> QED
      BY <3>1, <3>2, <3>5, <1>1, <2>1
  <2> QED
    BY <2>2, <2>3, <2>4 DEF CountsTo
<1> QED
  BY <1>2, <1>3

\* Behind blank lines only, nothing else counts.
LEMMA FirstLine ==
    ASSUME NEW s, NEW n \in Nat, NEW b, NEW x, NEW y, Filled(s, b, n, x, y),
           \A i \in 1..b : ~Solid(s, i)
    PROVE  CountsTo(s, n) = x..y
<1>1. b \in 0..n
  BY DEF Filled, Line
<1>2. ASSUME NEW i \in CountsTo(s, n) PROVE i > b
  <2>1. PICK j \in 1..i : Solid(s, j)
    BY CountsBetween
  <2> QED
    BY <1>1, <2>1 DEF CountsTo
<1> QED
  BY <1>2, FilledPart

\* Behind a line with something on it, one line break counts besides.
LEMMA NextLine ==
    ASSUME NEW s, NEW n \in Nat, NEW b, NEW x, NEW y, Filled(s, b, n, x, y),
           NEW f \in 1..b, Solid(s, f)
    PROVE  \E m \in 1..b :
              /\ s[m] = "\n"
              /\ \A i \in CountsTo(s, b) : i < m
              /\ CountsTo(s, n) = (CountsTo(s, b) \cup {m}) \cup x..y
<1>1. /\ Line(s, b, n) /\ b \in 1..n /\ x \in (b + 1)..n /\ Solid(s, x) /\ s[b] = "\n"
  BY DEF Filled, Line
<1>2. ~Solid(s, b)
  BY <1>1 DEF Solid, White
<1>3. PICK q \in 1..b : Solid(s, q) /\ \A i \in 1..b : Solid(s, i) => i <= q
  <2> DEFINE T == {i \in 1..b : Solid(s, i)}
  <2>1. T \subseteq 1..b /\ T # {} /\ b \in Nat
    BY <1>1
  <2>2. PICK q \in T : \A k \in T : q >= k
    <3> HIDE DEF T
    <3> QED
      BY <2>1, Greatest
  <2> QED
    BY <2>2, <1>1
<1>4. q < b
  BY <1>1, <1>2, <1>3
<1>5. PICK m \in (q + 1)..b : s[m] = "\n" /\ \A i \in (q + 1)..b : s[i] = "\n" => m <= i
  <2> DEFINE T == {i \in (q + 1)..b : s[i] = "\n"}
  <2>1. T \subseteq Nat /\ b \in T
    BY <1>1, <1>4
  <2>2. PICK m \in T : \A k \in T : m <= k
    <3> HIDE DEF T
    <3> QED
      BY <2>1, Least
  <2> QED
    BY <2>2
<1>6. ASSUME NEW i \in CountsTo(s, b) PROVE i < m
  <2>1. PICK j \in i..b : Solid(s, j)
    BY <1>1, CountsBetween
  <2>2. i \in 1..b
    BY DEF CountsTo
  <2>3. j <= q
    BY <1>3, <2>1, <2>2
  <2> QED
    BY <2>1, <2>2, <2>3, <1>5
<1>7. m \in CountsTo(s, n)
  <2>1. OneLine(s, q, m - 1)
    <3> SUFFICES ASSUME NEW k \in q..(m - 1), s[k] = "\n" PROVE FALSE
      BY DEF OneLine
    <3>1. k # q
      BY <1>3 DEF Solid, White
    <3>2. k \in (q + 1)..b
      <4>1. q \in Int /\ b \in Int /\ m \in Int /\ k \in Int
        BY <1>1
      <4>2. q <= k /\ k < m /\ m <= b
        BY <4>1
      <4> QED
        BY <3>1, <4>1, <4>2
    <3> QED
      BY <3>2, <1>5
  <2>2. q \in 1..(m - 1) /\ x \in m..n /\ m \in 1..n
    BY <1>1, <1>5
  <2>3. Breaks(s, m, n)
    BY <1>1, <1>3, <1>5, <2>1, <2>2 DEF Breaks
  <2> QED
    BY <2>2, <2>3 DEF CountsTo
<1>8. ASSUME NEW i \in CountsTo(s, n), ~(i > b), i \notin CountsTo(s, b) PROVE i = m
  <2>1. i \in 1..b
    BY <1>1, <1>8 DEF CountsTo
  <2>2. ~Solid(s, i)
    BY <1>8, <2>1 DEF CountsTo
  <2>3. \A j \in i..n : OneLine(s, i, j) => j \in i..b
    <3> SUFFICES ASSUME NEW j \in i..n, j > b, OneLine(s, i, j) PROVE FALSE
      BY <1>1, <2>1
    <3>1. b \in i..j
      BY <2>1, <1>1
    <3> QED
      BY <3>1, <1>1 DEF OneLine
  <2>4. ~Inner(s, i, n)
    <3>1. ~Inner(s, i, b)
      BY <1>8, <2>1 DEF CountsTo
    <3> QED
      BY <3>1, <2>3 DEF Inner
  <2>5. Breaks(s, i, n)
    BY <2>2, <2>4 DEF CountsTo
  <2>6. PICK j \in 1..(i - 1) : Solid(s, j) /\ OneLine(s, j, i - 1)
    BY <2>5 DEF Breaks
  <2>7. q < i
    <3>1. ~Breaks(s, i, b)
      BY <1>8, <2>1 DEF CountsTo
    <3>2. q \notin i..b
      BY <3>1, <2>5, <1>3 DEF Breaks
    <3> QED
      BY <3>2, <2>1
  <2>8. m <= i
    BY <1>5, <2>1, <2>5, <2>7 DEF Breaks
  <2>9. j <= q
    <3>1. j \in 1..b
      BY <1>1, <2>1
    <3> QED
      BY <1>3, <2>6, <3>1
  <2>10. m \notin j..(i - 1)
    BY <1>5, <2>6 DEF OneLine
  <2> QED
    BY <2>1, <2>6, <2>8, <2>9, <2>10, <1>5
<1>9. CountsTo(s, n) = (CountsTo(s, b) \cup {m}) \cup x..y
  <2>1. CountsTo(s, b) \subseteq CountsTo(s, n)
    BY <1>1, CountsGrow
  <2>2. x..y \subseteq CountsTo(s, n) /\ \A i \in CountsTo(s, n) : i > b => i \in x..y
    BY FilledPart
  <2> QED
    BY <2>1, <2>2, <1>7, <1>8
<1>10. m \in 1..b
  BY <1>5
<1> QED
  BY <1>5, <1>6, <1>9, <1>10
\* The line behind b, trimmed and joined to the text of the lines before.
LEMMA LineAdded ==
    ASSUME NEW S, "\n" \in S, NEW s \in Seq(S), NEW n \in 0..Len(s), NEW b, Line(s, b, n),
           NEW text \in Seq(S), MadeOf(text, s, CountsTo(s, b))
    PROVE  MadeOf(JoinTurn(text, Trim(SubSeq(s, b + 1, n))), s, CountsTo(s, n))
<1> DEFINE line == SubSeq(s, b + 1, n)
<1>1. b \in 0..n /\ n \in Nat /\ Len(s) \in Nat /\ \A i \in (b + 1)..n : i \in 1..Len(s)
  BY DEF Line
<1>2. /\ line \in Seq(S) /\ Len(line) = n - b /\ DOMAIN line = 1..(n - b)
      /\ \A i \in 1..(n - b) : line[i] = s[b + i]
  BY <1>1
<1>3. \A i \in 1..(n - b) : i \in Solids(line) <=> Solid(s, b + i)
  BY <1>2 DEF Solids, Solid
<1>4. \A i \in (b + 1)..n : i - b \in 1..(n - b) /\ b + (i - b) = i
  BY <1>1
<1> HIDE DEF line
<1>5. CASE Solids(line) = {}
  <2>1. Trim(line) = << >>
    BY <1>2, <1>5, TrimIs
  <2>2. \A i \in (b + 1)..n : ~Solid(s, i)
    BY <1>3, <1>4, <1>5
  <2>3. CountsTo(s, n) = CountsTo(s, b)
    BY <1>1, <2>2, BlankLine
  <2>4. JoinTurn(text, Trim(line)) = text
    BY <2>1 DEF JoinTurn
  <2> QED
    BY <2>3, <2>4 DEF line
<1>6. CASE Solids(line) # {}
  <2>1. PICK f, l \in Solids(line) :
           Trim(line) = SubSeq(line, f, l) /\ \A i \in Solids(line) : f <= i /\ i <= l
    BY <1>2, <1>6, TrimIs
  <2>2. f \in 1..(n - b) /\ l \in f..(n - b)
    <3>1. \A i \in Solids(line) : i \in 1..(n - b)
      BY <1>2 DEF Solids
    <3> QED
      BY <2>1, <3>1
  <2> DEFINE x == b + f
             y == b + l
  <2>3. x \in (b + 1)..n /\ y \in x..n /\ x \in 1..Len(s) /\ y \in x..Len(s)
    BY <1>1, <2>2
  <2>4. Trim(line) = SubSeq(s, x, y)
    <3>1. Trim(line) = [i \in 1..(l - f + 1) |-> line[i + f - 1]]
      BY <2>1, <1>2, <2>2
    <3>2. SubSeq(s, x, y) = [i \in 1..(y - x + 1) |-> s[i + x - 1]]
      BY <2>3, <1>1
    <3>3. l - f + 1 = y - x + 1
      BY <1>1, <2>2
    <3>4. \A i \in 1..(l - f + 1) : line[i + f - 1] = s[i + x - 1]
      <4>1. \A i \in 1..(l - f + 1) :
               i + f - 1 \in 1..(n - b) /\ b + (i + f - 1) = i + x - 1
        BY <1>1, <2>2
      <4> QED
        BY <1>2, <4>1
    <3> HIDE DEF x, y
    <3> QED
      BY <3>1, <3>2, <3>3, <3>4
  <2>5. Filled(s, b, n, x, y)
    <3>1. Solid(s, x) /\ Solid(s, y)
      BY <1>3, <2>1, <2>2
    <3>2. ASSUME NEW i \in (b + 1)..n, Solid(s, i) PROVE i \in x..y
      <4>1. i - b \in Solids(line)
        BY <1>3, <1>4, <3>2
      <4>2. f <= i - b /\ i - b <= l
        BY <2>1, <4>1
      <4> QED
        BY <4>2, <1>1, <2>2
    <3> HIDE DEF x, y
    <3> QED
      BY <2>3, <3>1, <3>2 DEF Filled
  <2> HIDE DEF x, y
  <2>6. MadeOf(Trim(line), s, x..y)
    BY <2>3, <2>4, MadeOfPart
  <2>7. Trim(line) \in Seq(S) /\ Trim(line) # << >>
    <3>1. x..y # {}
      <4>1. x \in x..y
        BY <2>3, <1>1
      <4> QED
        BY <4>1
    <3>2. Trim(line) \in Seq(S)
      BY <1>2, TrimTyped
    <3> QED
      BY <2>6, <3>1, <3>2, MadeOfNone
  <2>8. CASE text = << >>
    <3>1. CountsTo(s, b) = {}
      BY <2>8, MadeOfNone
    <3>2. \A i \in 1..b : ~Solid(s, i)
      BY <3>1 DEF CountsTo
    <3>3. CountsTo(s, n) = x..y
      BY <1>1, <2>5, <3>2, FirstLine
    <3>4. JoinTurn(text, Trim(line)) = Trim(line)
      BY <2>7, <2>8 DEF JoinTurn
    <3> QED
      BY <2>6, <3>3, <3>4 DEF line
  <2>9. CASE text # << >>
    <3>1. PICK i : i \in CountsTo(s, b)
      BY <2>9, MadeOfNone
    <3>2. PICK g \in 1..i : Solid(s, g)
      BY <1>1, <3>1, CountsBetween
    <3>3. g \in 1..b
      BY <1>1, <3>1, <3>2 DEF CountsTo
    <3>4. PICK m \in 1..b :
             /\ s[m] = "\n"
             /\ \A k \in CountsTo(s, b) : k < m
             /\ CountsTo(s, n) = (CountsTo(s, b) \cup {m}) \cup x..y
      BY <1>1, <2>5, <3>2, <3>3, NextLine
    <3>5. m \in Nat
      BY <1>1
    <3>6. MadeOf(<<"\n">>, s, {m})
      <4>1. MadeOf(<<s[m]>>, s, {m})
        BY <3>5, MadeOfOne
      <4> QED
        BY <3>4, <4>1
    <3>7. <<"\n">> \in Seq(S) /\ text \o <<"\n">> \in Seq(S)
      OBVIOUS
    <3>8. MadeOf(text \o <<"\n">>, s, CountsTo(s, b) \cup {m})
      BY <3>4, <3>6, <3>7, MadeOfBoth
    <3>9. \A i1 \in CountsTo(s, b) \cup {m}, j \in x..y : i1 < j
      <4>1. \A i1 \in CountsTo(s, b) \cup {m} : i1 \in Nat /\ i1 <= m
        BY <1>1, <3>4, <3>5 DEF CountsTo
      <4>2. \A j \in x..y : m < j /\ j \in Nat
        BY <1>1, <2>3, <3>5
      <4> QED
        BY <3>5, <4>1, <4>2
    <3>10. MadeOf((text \o <<"\n">>) \o Trim(line), s, (CountsTo(s, b) \cup {m}) \cup x..y)
      BY <2>6, <2>7, <3>7, <3>8, <3>9, MadeOfBoth
    <3>11. JoinTurn(text, Trim(line)) = (text \o <<"\n">>) \o Trim(line)
      BY <2>7, <2>9 DEF JoinTurn
    <3> QED
      BY <3>4, <3>10, <3>11 DEF line
  <2> QED
    BY <2>8, <2>9
<1> QED
  BY <1>5, <1>6

TrimAll(lines) == [i \in DOMAIN lines |-> Trim(lines[i])]

LEMMA TrimAllTyped ==
    ASSUME NEW S, NEW lines \in Seq(Seq(S))
    PROVE  /\ TrimAll(lines) \in Seq(Seq(S)) /\ Len(TrimAll(lines)) = Len(lines)
           /\ \A i \in 1..Len(lines) : TrimAll(lines)[i] = Trim(lines[i])
<1>1. DOMAIN lines = 1..Len(lines) /\ Len(lines) \in Nat
  OBVIOUS
<1>2. TrimAll(lines) = [i \in 1..Len(lines) |-> Trim(lines[i])]
  BY <1>1 DEF TrimAll
<1>3. \A i \in 1..Len(lines) : Trim(lines[i]) \in Seq(S)
  BY TrimTyped
<1> QED
  BY <1>1, <1>2, <1>3

LEMMA TrimAllAppend ==
    ASSUME NEW S, NEW lines \in Seq(Seq(S)), NEW line \in Seq(S)
    PROVE  TrimAll(Append(lines, line)) = Append(TrimAll(lines), Trim(line))
<1> DEFINE more == Append(lines, line)
           p == TrimAll(more)
           q == Append(TrimAll(lines), Trim(line))
<1>1. /\ more \in Seq(Seq(S)) /\ Len(more) = Len(lines) + 1 /\ Len(lines) \in Nat
      /\ more[Len(lines) + 1] = line /\ \A i \in 1..Len(lines) : more[i] = lines[i]
  OBVIOUS
<1> HIDE DEF more
<1>2. /\ p \in Seq(Seq(S)) /\ Len(p) = Len(lines) + 1
      /\ \A i \in 1..(Len(lines) + 1) : p[i] = Trim(more[i])
  BY <1>1, TrimAllTyped
<1>3. /\ TrimAll(lines) \in Seq(Seq(S)) /\ Len(TrimAll(lines)) = Len(lines)
      /\ \A i \in 1..Len(lines) : TrimAll(lines)[i] = Trim(lines[i])
  BY TrimAllTyped
<1>4. Trim(line) \in Seq(S)
  BY TrimTyped
<1>5. /\ q \in Seq(Seq(S)) /\ Len(q) = Len(lines) + 1
      /\ q[Len(lines) + 1] = Trim(line)
      /\ \A i \in 1..Len(lines) : q[i] = TrimAll(lines)[i]
  BY <1>3, <1>4
<1> HIDE DEF p, q
<1>6. ASSUME NEW i \in 1..Len(p) PROVE p[i] = q[i]
  <2>1. CASE i = Len(lines) + 1
    BY <2>1, <1>1, <1>2, <1>5
  <2>2. CASE i # Len(lines) + 1
    <3>1. i \in 1..Len(lines)
      BY <2>2, <1>1, <1>2
    <3> QED
      BY <3>1, <1>1, <1>2, <1>3, <1>5
  <2> QED
    BY <2>1, <2>2
<1>7. p = q
  BY <1>2, <1>5, <1>6, SeqEqual
<1> QED
  BY <1>7 DEF p, q, more

\* After n glyphs of a text the loop of split has these lines: full ones, whose
\* text is made of what counts of them, and the line behind b so far.
Reading(S, s, n, lines) ==
    \E b, full :
       /\ full \in Seq(Seq(S)) /\ Line(s, b, n)
       /\ lines = Append(full, SubSeq(s, b + 1, n))
       /\ MadeOf(Join(TrimAll(full)), s, CountsTo(s, b))

\* Their text, trimmed and joined, is made of what counts.
LEMMA ReadingText ==
    ASSUME NEW S, "\n" \in S, NEW s \in Seq(S), NEW n \in 0..Len(s), NEW lines,
           Reading(S, s, n, lines)
    PROVE  lines \in Seq(Seq(S)) /\ MadeOf(Join(TrimAll(lines)), s, CountsTo(s, n))
<1>1. PICK b, full :
         /\ full \in Seq(Seq(S)) /\ Line(s, b, n)
         /\ lines = Append(full, SubSeq(s, b + 1, n))
         /\ MadeOf(Join(TrimAll(full)), s, CountsTo(s, b))
  BY DEF Reading
<1> DEFINE line == SubSeq(s, b + 1, n)
<1>2. line \in Seq(S)
  <2>1. b \in 0..n /\ Len(s) \in Nat
    BY <1>1 DEF Line
  <2> QED
    BY <2>1
<1> HIDE DEF line
<1>3. Trim(line) \in Seq(S) /\ TrimAll(full) \in Seq(Seq(S))
  BY <1>1, <1>2, TrimTyped, TrimAllTyped
<1>4. TrimAll(lines) = Append(TrimAll(full), Trim(line))
  BY <1>1, <1>2, TrimAllAppend DEF line
<1>5. /\ Join(TrimAll(full)) \in Seq(S)
      /\ Join(TrimAll(lines)) = JoinTurn(Join(TrimAll(full)), Trim(line))
  BY <1>3, <1>4, JoinAppend
<1>6. MadeOf(JoinTurn(Join(TrimAll(full)), Trim(line)), s, CountsTo(s, n))
  BY <1>1, <1>5, LineAdded DEF line
<1>7. lines \in Seq(Seq(S))
  <2>1. \A r \in Seq(Seq(S)), l \in Seq(S) : Append(r, l) \in Seq(Seq(S))
    OBVIOUS
  <2> QED
    BY <2>1, <1>1, <1>2 DEF line
<1> QED
  BY <1>5, <1>6, <1>7

\* One more glyph.
LEMMA ReadingOn ==
    ASSUME NEW S, "\n" \in S, NEW s \in Seq(S), NEW n \in 0..(Len(s) - 1), NEW lines,
           Reading(S, s, n, lines)
    PROVE  Reading(S, s, n + 1, SplitTurn(lines, s[n + 1]))
<1>1. PICK b, full :
         /\ full \in Seq(Seq(S)) /\ Line(s, b, n)
         /\ lines = Append(full, SubSeq(s, b + 1, n))
         /\ MadeOf(Join(TrimAll(full)), s, CountsTo(s, b))
  BY DEF Reading
<1>2. n \in 0..Len(s) /\ n \in Nat /\ Len(s) \in Nat /\ b \in 0..n /\ n + 1 \in 1..Len(s)
  BY <1>1 DEF Line
<1>3. CASE s[n + 1] = "\n"
  <2>1. lines \in Seq(Seq(S)) /\ MadeOf(Join(TrimAll(lines)), s, CountsTo(s, n))
    BY <1>2, ReadingText
  <2>2. CountsTo(s, n + 1) = CountsTo(s, n)
    <3>1. \A i \in (n + 1)..(n + 1) : ~Solid(s, i)
      <4>1. \A i \in (n + 1)..(n + 1) : i = n + 1
        BY <1>2
      <4> QED
        BY <1>3, <4>1 DEF Solid, White
    <3> QED
      BY <1>2, <3>1, BlankLine
  <2>3. Line(s, n + 1, n + 1)
    BY <1>2, <1>3 DEF Line
  <2>4. SplitTurn(lines, s[n + 1]) = Append(lines, SubSeq(s, (n + 1) + 1, n + 1))
    <3>1. SubSeq(s, (n + 1) + 1, n + 1) = << >>
      BY <1>2
    <3> QED
      BY <1>3, <3>1 DEF SplitTurn
  <2> QED
    BY <2>1, <2>2, <2>3, <2>4 DEF Reading
<1>4. CASE s[n + 1] # "\n"
  <2>1. Line(s, b, n + 1)
    <3>1. \A i \in (b + 1)..(n + 1) : i \in (b + 1)..n \/ i = n + 1
      BY <1>2
    <3> QED
      BY <1>1, <1>2, <1>4, <3>1 DEF Line
  <2> DEFINE line == SubSeq(s, b + 1, n)
             longer == SubSeq(s, b + 1, n + 1)
  <2>2. line \in Seq(S) /\ longer \in Seq(S) /\ s[n + 1] \in S
    BY <1>2
  <2>3. longer = Append(line, s[n + 1])
    <3>1. /\ Len(line) = n - b /\ Len(longer) = n - b + 1
          /\ \A i \in 1..(n - b) : line[i] = s[i + b]
          /\ \A i \in 1..(n - b + 1) : longer[i] = s[i + b]
      BY <1>2
    <3> DEFINE q == Append(line, s[n + 1])
    <3>2. /\ q \in Seq(S) /\ Len(q) = n - b + 1 /\ q[n - b + 1] = s[n + 1]
          /\ \A i \in 1..(n - b) : q[i] = line[i]
      <4>1. Len(line) \in Nat /\ Len(line) + 1 = n - b + 1
        BY <1>2, <3>1
      <4>2. /\ q \in Seq(S) /\ Len(q) = Len(line) + 1 /\ q[Len(line) + 1] = s[n + 1]
            /\ \A i \in 1..Len(line) : q[i] = line[i]
        <5> HIDE DEF line
        <5> QED
          BY <2>2, <4>1
      <4> HIDE DEF q, line, longer
      <4> QED
        BY <3>1, <4>1, <4>2
    <3> HIDE DEF q, line, longer
    <3>3. \A i \in 1..Len(longer) : longer[i] = q[i]
      <4> SUFFICES ASSUME NEW i \in 1..(n - b + 1) PROVE longer[i] = q[i]
        BY <3>1
      <4>1. CASE i = n - b + 1
        BY <4>1, <3>1, <3>2, <1>2
      <4>2. CASE i # n - b + 1
        <5>1. i \in 1..(n - b)
          BY <4>2, <1>2
        <5> QED
          BY <5>1, <3>1, <3>2
      <4> QED
        BY <4>1, <4>2
    <3>4. longer = q
      BY <2>2, <3>1, <3>2, <3>3, SeqEqual
    <3> QED
      BY <3>4 DEF q
  <2>4. SplitTurn(lines, s[n + 1]) = Append(full, longer)
    <3> DEFINE p == Append(full, line)
               q == Append(full, longer)
    <3> HIDE DEF line, longer
    <3>1. /\ p \in Seq(Seq(S)) /\ Len(p) = Len(full) + 1 /\ Len(full) \in Nat
          /\ p[Len(full) + 1] = line /\ \A i \in 1..Len(full) : p[i] = full[i]
      BY <1>1, <2>2
    <3>2. /\ q \in Seq(Seq(S)) /\ Len(q) = Len(full) + 1
          /\ q[Len(full) + 1] = longer /\ \A i \in 1..Len(full) : q[i] = full[i]
      BY <1>1, <2>2
    <3>3. lines = p
      BY <1>1 DEF line
    <3> HIDE DEF p, q
    <3> DEFINE e == [p EXCEPT ![Len(p)] = Append(@, s[n + 1])]
    <3>4. SplitTurn(lines, s[n + 1]) = e
      BY <1>4, <3>3 DEF SplitTurn
    <3>5. e = [p EXCEPT ![Len(p)] = longer]
      BY <2>3, <3>1
    <3>6. /\ e \in Seq(Seq(S)) /\ Len(e) = Len(p)
          /\ \A i \in 1..Len(p) : e[i] = IF i = Len(p) THEN longer ELSE p[i]
      <4> HIDE DEF e
      <4>1. Len(p) \in 1..Len(p) /\ longer \in Seq(S)
        BY <3>1, <2>2
      <4> QED
        BY <3>1, <3>5, <4>1, ExceptSeq
    <3> HIDE DEF e
    <3>7. \A i \in 1..Len(e) : e[i] = q[i]
      <4> SUFFICES ASSUME NEW i \in 1..(Len(full) + 1) PROVE e[i] = q[i]
        BY <3>1, <3>6
      <4>1. CASE i = Len(full) + 1
        BY <4>1, <3>1, <3>2, <3>6
      <4>2. CASE i # Len(full) + 1
        <5>1. i \in 1..Len(full)
          BY <4>2, <3>1
        <5> QED
          BY <5>1, <4>2, <3>1, <3>2, <3>6
      <4> QED
        BY <4>1, <4>2
    <3>8. e = q
      BY <3>1, <3>2, <3>6, <3>7, SeqEqual
    <3> QED
      BY <3>4, <3>8 DEF q
  <2> QED
    BY <1>1, <2>1, <2>4 DEF Reading
<1> QED
  BY <1>3, <1>4
LEMMA SplitReads ==
    ASSUME NEW S, "\n" \in S, NEW s \in Seq(S) PROVE Reading(S, s, Len(s), Split(s))
<1> DEFINE n == Len(s)
<1>1. PICK c \in [0..n -> Seq(Seq(S))] :
         /\ c[0] = << << >> >> /\ c[n] = Split(s)
         /\ \A k \in 0..(n - 1) : c[k + 1] = SplitTurn(c[k], s[k + 1])
  BY SplitChain
<1>2. n \in Nat
  OBVIOUS
<1> DEFINE K == {k \in Nat : k <= n => Reading(S, s, k, c[k])}
<1>3. 0 \in K
  <2> DEFINE full == << >>
  <2>1. full \in Seq(Seq(S))
    OBVIOUS
  <2>2. Line(s, 0, 0)
    BY DEF Line
  <2>3. c[0] = Append(full, SubSeq(s, 0 + 1, 0))
    BY <1>1
  <2>4. MadeOf(Join(TrimAll(full)), s, CountsTo(s, 0))
    <3>1. TrimAll(full) = << >>
      BY DEF TrimAll
    <3>2. Join(TrimAll(full)) = << >>
      BY <3>1, JoinEmpty
    <3>3. CountsTo(s, 0) = {}
      BY DEF CountsTo
    <3>4. MadeOf(<< >>, s, {})
      BY MadeOfNone
    <3> QED
      BY <3>2, <3>3, <3>4
  <2> HIDE DEF full
  <2> QED
    BY <2>1, <2>2, <2>3, <2>4 DEF Reading
<1>4. ASSUME NEW k \in Nat, k \in K PROVE k + 1 \in K
  <2> SUFFICES ASSUME k + 1 <= n PROVE Reading(S, s, k + 1, c[k + 1])
    OBVIOUS
  <2>1. k \in 0..(n - 1) /\ Reading(S, s, k, c[k])
    BY <1>2, <1>4
  <2>2. c[k + 1] = SplitTurn(c[k], s[k + 1])
    BY <1>1, <2>1
  <2> QED
    BY <2>1, <2>2, ReadingOn
<1>5. Nat \subseteq K
  <2> HIDE DEF K
  <2> QED
    BY <1>3, <1>4, NatSet
<1>6. n \in K
  <2> HIDE DEF K
  <2> QED
    BY <1>2, <1>5
<1> QED
  BY <1>1, <1>2, <1>6

-----------------------------------------------------------------------------
(* compareOutput *)

\* Trimming a text keeps what counts of it.
LEMMA TrimCounts ==
    ASSUME NEW S, NEW s \in Seq(S), NEW r \in Seq(S),
           MadeOf(r, Trim(s), Counts(Trim(s)))
    PROVE  MadeOf(r, s, Counts(s))
<1> DEFINE n == Len(s)
           u == Trim(s)
<1>1. n \in Nat /\ DOMAIN s = 1..n /\ \A i \in 1..n : i \in Solids(s) <=> Solid(s, i)
  BY DEF Solids, Solid
<1>2. u \in Seq(S) /\ Counts(u) = CountsTo(u, Len(u)) /\ Counts(s) = CountsTo(s, n)
  BY TrimTyped, CountsToAll
<1>3. CASE Solids(s) = {}
  <2>1. u = << >>
    BY <1>3, TrimIs
  <2>2. Counts(u) = {}
    BY <2>1 DEF Counts
  <2>3. r = << >>
    BY <2>2, MadeOfNone
  <2>4. Counts(s) = {}
    <3> SUFFICES ASSUME NEW i \in CountsTo(s, n) PROVE FALSE
      BY <1>2
    <3>1. PICK j \in 1..i : Solid(s, j)
      BY <1>1, CountsBetween
    <3>2. j \in 1..n
      BY <1>1, <3>1 DEF CountsTo
    <3> QED
      BY <1>1, <1>3, <3>1, <3>2
  <2> QED
    BY <2>3, <2>4, MadeOfNone
<1>4. CASE Solids(s) # {}
  <2>1. PICK a, b \in Solids(s) : u = SubSeq(s, a, b) /\ \A i \in Solids(s) : a <= i /\ i <= b
    BY <1>4, TrimIs
  <2>2. a \in 1..n /\ b \in a..n
    BY <2>1, <1>1 DEF Solids
  <2> DEFINE m == b - a + 1
             At(i) == a - 1 + i
  <2>3. m \in Nat /\ Len(u) = m /\ \A i \in 1..m : At(i) \in 1..n /\ u[i] = s[At(i)]
    BY <1>1, <2>1, <2>2
  <2>4. \A i \in a..b : i - a + 1 \in 1..m /\ At(i - a + 1) = i
    BY <1>1, <2>2
  <2>5. \A i \in 1..m : Solid(u, i) <=> Solid(s, At(i))
    BY <2>3 DEF Solid
  <2>6. \A j \in 1..n : Solid(s, j) => j \in a..b
    BY <1>1, <2>1, <2>2
  <2> HIDE DEF u
  <2>7. ASSUME NEW i \in 1..m, NEW j \in 0..m PROVE OneLine(u, i, j) <=> OneLine(s, At(i), At(j))
    <3>1. ASSUME OneLine(u, i, j), NEW k \in At(i)..At(j) PROVE s[k] # "\n"
      <4>1. k - a + 1 \in i..j /\ k - a + 1 \in 1..m /\ At(k - a + 1) = k
        BY <1>1, <2>2
      <4> QED
        BY <3>1, <4>1, <2>3 DEF OneLine
    <3>2. ASSUME OneLine(s, At(i), At(j)), NEW k \in i..j PROVE u[k] # "\n"
      <4>1. At(k) \in At(i)..At(j) /\ k \in 1..m
        BY <1>1, <2>2
      <4> QED
        BY <3>2, <4>1, <2>3 DEF OneLine
    <3> QED
      BY <3>1, <3>2 DEF OneLine
  <2>8. ASSUME NEW i \in 1..m PROVE Inner(u, i, m) <=> Inner(s, At(i), n)
    <3>1. ASSUME Inner(u, i, m) PROVE Inner(s, At(i), n)
      <4>1. PICK j \in 1..i : Solid(u, j) /\ OneLine(u, j, i)
        BY <3>1 DEF Inner
      <4>2. PICK k \in i..m : Solid(u, k) /\ OneLine(u, i, k)
        BY <3>1 DEF Inner
      <4>3. /\ j \in 1..m /\ k \in 1..m /\ i \in 0..m /\ k \in 0..m
            /\ At(j) \in 1..At(i) /\ At(k) \in At(i)..n
        BY <1>1, <2>2, <4>1, <4>2
      <4>4. Solid(s, At(j)) /\ OneLine(s, At(j), At(i)) /\ Solid(s, At(k)) /\ OneLine(s, At(i), At(k))
        BY <2>5, <2>7, <4>1, <4>2, <4>3
      <4>5. s[At(i)] = " "
        BY <2>3, <3>1 DEF Inner
      <4> HIDE DEF At
      <4> QED
        BY <4>3, <4>4, <4>5 DEF Inner
    <3>2. ASSUME Inner(s, At(i), n) PROVE Inner(u, i, m)
      <4>1. PICK j \in 1..At(i) : Solid(s, j) /\ OneLine(s, j, At(i))
        BY <3>2 DEF Inner
      <4>2. PICK k \in At(i)..n : Solid(s, k) /\ OneLine(s, At(i), k)
        BY <3>2 DEF Inner
      <4>3. j \in a..b /\ k \in a..b
        <5>1. j \in 1..n /\ k \in 1..n
          BY <1>1, <2>2, <2>3
        <5> QED
          BY <2>6, <4>1, <4>2, <5>1
      <4> DEFINE x == j - a + 1
                 y == k - a + 1
      <4>4. x \in 1..i /\ y \in i..m /\ At(x) = j /\ At(y) = k /\ x \in 1..m /\ y \in 0..m
            /\ y \in 1..m /\ i \in 0..m
        BY <1>1, <2>2, <4>1, <4>2, <4>3
      <4> HIDE DEF x, y
      <4>5. Solid(u, x) /\ OneLine(u, x, i) /\ Solid(u, y) /\ OneLine(u, i, y)
        BY <2>5, <2>7, <4>1, <4>2, <4>4
      <4>6. u[i] = " "
        BY <2>3, <3>2 DEF Inner
      <4> QED
        BY <4>4, <4>5, <4>6 DEF Inner
    <3> QED
      BY <3>1, <3>2
  <2>9. ASSUME NEW i \in 1..m PROVE Breaks(u, i, m) <=> Breaks(s, At(i), n)
    <3>1. ASSUME Breaks(u, i, m) PROVE Breaks(s, At(i), n)
      <4>1. PICK j \in 1..(i - 1) : Solid(u, j) /\ OneLine(u, j, i - 1)
        BY <3>1 DEF Breaks
      <4>2. PICK k \in i..m : Solid(u, k)
        BY <3>1 DEF Breaks
      <4>3. /\ j \in 1..m /\ k \in 1..m /\ i - 1 \in 0..m /\ At(i - 1) = At(i) - 1
            /\ At(j) \in 1..(At(i) - 1) /\ At(k) \in At(i)..n
        BY <1>1, <2>2, <4>1, <4>2
      <4>4. Solid(s, At(j)) /\ OneLine(s, At(j), At(i) - 1) /\ Solid(s, At(k))
        BY <2>5, <2>7, <4>1, <4>2, <4>3
      <4>5. s[At(i)] = "\n"
        BY <2>3, <3>1 DEF Breaks
      <4> HIDE DEF At
      <4> QED
        BY <4>3, <4>4, <4>5 DEF Breaks
    <3>2. ASSUME Breaks(s, At(i), n) PROVE Breaks(u, i, m)
      <4>1. PICK j \in 1..(At(i) - 1) : Solid(s, j) /\ OneLine(s, j, At(i) - 1)
        BY <3>2 DEF Breaks
      <4>2. PICK k \in At(i)..n : Solid(s, k)
        BY <3>2 DEF Breaks
      <4>3. j \in a..b /\ k \in a..b
        <5>1. j \in 1..n /\ k \in 1..n
          BY <1>1, <2>2, <2>3
        <5> QED
          BY <2>6, <4>1, <4>2, <5>1
      <4> DEFINE x == j - a + 1
                 y == k - a + 1
      <4>4. x \in 1..(i - 1) /\ y \in i..m /\ At(x) = j /\ At(y) = k /\ x \in 1..m
            /\ y \in 1..m /\ i - 1 \in 0..m /\ At(i - 1) = At(i) - 1
        BY <1>1, <2>2, <4>1, <4>2, <4>3
      <4> HIDE DEF x, y
      <4>5. Solid(u, x) /\ OneLine(u, x, i - 1) /\ Solid(u, y)
        BY <2>5, <2>7, <4>1, <4>2, <4>4
      <4>6. u[i] = "\n"
        BY <2>3, <3>2 DEF Breaks
      <4> QED
        BY <4>4, <4>5, <4>6 DEF Breaks
    <3> QED
      BY <3>1, <3>2
  <2>10. \A i \in 1..m : i \in Counts(u) <=> At(i) \in Counts(s)
    BY <1>2, <2>3, <2>5, <2>8, <2>9 DEF CountsTo
  <2>11. \A i \in Counts(s) : i \in a..b
    <3> SUFFICES ASSUME NEW i \in CountsTo(s, n) PROVE i \in a..b
      BY <1>2
    <3>1. i \in 1..n
      BY DEF CountsTo
    <3>2. PICK j \in 1..i : Solid(s, j)
      BY <1>1, CountsBetween
    <3>3. PICK k \in i..n : Solid(s, k)
      BY <1>1, CountsBetween
    <3>4. j \in a..b /\ k \in a..b
      BY <2>6, <3>1, <3>2, <3>3
    <3> QED
      BY <2>2, <3>1, <3>2, <3>3, <3>4
  <2>12. PICK e : Places(r, u, Counts(u), e)
    BY DEF MadeOf, u
  <2>13. Counts(u) \subseteq 1..m /\ Counts(s) \subseteq Nat
    BY <1>2, <2>3 DEF CountsTo
  <2> DEFINE f == [k \in 1..Len(r) |-> At(e[k])]
  <2>14. \A k \in 1..Len(r) : e[k] \in Counts(u) /\ e[k] \in 1..m
    BY <2>12, <2>13 DEF Places
  <2>15. f \in [1..Len(r) -> Counts(s)]
    BY <2>10, <2>14
  <2>16. ASSUME NEW i \in Counts(s) PROVE \E k \in 1..Len(r) : f[k] = i
    <3>1. i - a + 1 \in 1..m /\ At(i - a + 1) = i
      BY <2>4, <2>11
    <3>2. i - a + 1 \in Counts(u)
      BY <2>10, <3>1
    <3>3. PICK k \in 1..Len(r) : e[k] = i - a + 1
      BY <2>12, <3>2 DEF Places
    <3> QED
      BY <3>1, <3>3
  <2>17. ASSUME NEW k \in 1..Len(r), NEW l \in 1..Len(r), k < l PROVE f[k] < f[l]
    <3>1. e[k] < e[l]
      BY <2>12, <2>17 DEF Places
    <3> QED
      BY <3>1, <2>2, <2>14
  <2>18. \A k \in 1..Len(r) : r[k] = s[f[k]]
    BY <2>3, <2>12, <2>14 DEF Places
  <2> HIDE DEF f
  <2>19. Places(r, s, Counts(s), f)
    BY <2>15, <2>16, <2>17, <2>18 DEF Places
  <2> QED
    BY <2>13, <2>19 DEF MadeOf
<1> QED
  BY <1>3, <1>4

\* The normalised text is made of what counts, in its order.
LEMMA NormalizeIs ==
    ASSUME NEW S, "\n" \in S, NEW s \in Seq(S)
    PROVE  Normalize(s) \in Seq(S) /\ MadeOf(Normalize(s), s, Counts(s))
<1> DEFINE u == Trim(s)
           lines == Split(u)
<1>1. u \in Seq(S)
  BY TrimTyped
<1>2. Normalize(s) = Join(TrimAll(lines))
  BY DEF Normalize, TrimmedLines, TrimAll
<1> HIDE DEF u, lines
<1>3. Reading(S, u, Len(u), lines)
  BY <1>1, SplitReads DEF lines
<1>4. Len(u) \in 0..Len(u)
  BY <1>1
<1>5. lines \in Seq(Seq(S)) /\ MadeOf(Join(TrimAll(lines)), u, CountsTo(u, Len(u)))
  BY <1>1, <1>3, <1>4, ReadingText
<1>6. TrimAll(lines) \in Seq(Seq(S))
  BY <1>5, TrimAllTyped
<1>7. Normalize(s) \in Seq(S)
  <2>1. << >> \in Seq(S)
    OBVIOUS
  <2> QED
    BY <1>2, <1>6, <2>1, JoinAppend
<1>8. MadeOf(Normalize(s), u, Counts(u))
  BY <1>1, <1>2, <1>5, CountsToAll
<1> QED
  BY <1>7, <1>8, TrimCounts DEF u

\* The marks of a text are the glyphs of the text made of what counts.
LEMMA MarksAre ==
    ASSUME NEW S, NEW s \in Seq(S), NEW r \in Seq(S), MadeOf(r, s, Counts(s))
    PROVE  Marks(s) = {<<k, r[k]>> : k \in 1..Len(r)}
<1> DEFINE C == Counts(s)
           n == Len(r)
<1>1. PICK e : Places(r, s, C, e)
  BY DEF MadeOf
<1>2. n \in Nat /\ C \subseteq Nat \ {0}
  <2>1. C = CountsTo(s, Len(s)) /\ Len(s) \in Nat
    BY CountsToAll
  <2>2. CountsTo(s, Len(s)) \subseteq 1..Len(s)
    BY DEF CountsTo
  <2> HIDE DEF C
  <2> QED
    BY <2>1, <2>2
<1>3. Marks(s) = {<<Cardinality(C \cap 1..i), s[i]>> : i \in C}
  BY DEF Marks
<1> HIDE DEF C, n
<1>4. \A k \in 1..n : e[k] \in C /\ e[k] \in Nat \ {0} /\ r[k] = s[e[k]]
  BY <1>1, <1>2 DEF Places, n
<1>5. \A i \in C : \E k \in 1..n : e[k] = i
  BY <1>1 DEF Places, n
<1>6. \A k, l \in 1..n : k < l => e[k] < e[l]
  BY <1>1 DEF Places, n
<1>7. ASSUME NEW k \in 1..n PROVE Cardinality(C \cap 1..e[k]) = k
  <2> DEFINE T == C \cap 1..e[k]
             f == [l \in 1..k |-> e[l]]
  <2>1. \A l \in 1..k : l \in 1..n /\ e[l] \in T
    <3> SUFFICES ASSUME NEW l \in 1..k PROVE l \in 1..n /\ e[l] \in T
      OBVIOUS
    <3>1. l \in 1..n /\ l <= k
      BY <1>2
    <3>2. e[l] <= e[k]
      BY <3>1, <1>4, <1>6
    <3> QED
      BY <3>1, <3>2, <1>4
  <2>2. \A i \in T : \E l \in 1..k : f[l] = i
    <3> SUFFICES ASSUME NEW i \in T PROVE \E l \in 1..k : f[l] = i
      OBVIOUS
    <3>1. PICK l \in 1..n : e[l] = i
      BY <1>5
    <3>2. ~(k < l)
      BY <3>1, <1>4, <1>6
    <3>3. l \in 1..k
      BY <3>1, <3>2, <1>2
    <3> QED
      BY <3>1, <3>3
  <2>3. \A l, m \in 1..k : f[l] = f[m] => l = m
    <3> SUFFICES ASSUME NEW l \in 1..k, NEW m \in 1..k, e[l] = e[m] PROVE l = m
      OBVIOUS
    <3>1. l \in 1..n /\ m \in 1..n /\ ~(l < m) /\ ~(m < l)
      BY <2>1, <1>4, <1>6
    <3> QED
      BY <3>1, <1>2
  <2>4. f \in [1..k -> T]
    BY <2>1
  <2> HIDE DEF f, T
  <2>5. f \in Surjection(1..k, T)
    BY <2>2, <2>4 DEF Surjection
  <2>6. f \in Injection(1..k, T)
    BY <2>3, <2>4 DEF Injection, IsInjective
  <2>7. IsFiniteSet(1..k) /\ Cardinality(1..k) = k
    <3>1. 1 \in Int /\ k \in Int /\ 1 <= k
      BY <1>2
    <3> QED
      BY <3>1, FS_Interval
  <2>8. Cardinality(T) = k
    BY <2>5, <2>6, <2>7, FS_Surjection
  <2> QED
    BY <2>8 DEF T
<1>8. ASSUME NEW i \in C PROVE <<Cardinality(C \cap 1..i), s[i]>> \in {<<k, r[k]>> : k \in 1..n}
  <2>1. PICK k \in 1..n : e[k] = i
    BY <1>5
  <2> QED
    BY <2>1, <1>4, <1>7
<1>9. ASSUME NEW k \in 1..n PROVE <<k, r[k]>> \in {<<Cardinality(C \cap 1..i), s[i]>> : i \in C}
  <2>1. e[k] \in C /\ s[e[k]] = r[k] /\ Cardinality(C \cap 1..e[k]) = k
    BY <1>4, <1>7
  <2> QED
    BY <2>1
<1> QED
  BY <1>3, <1>8, <1>9 DEF n

\* compareOutput finds two texts equal when what counts of them is the same.
LEMMA ComparesWhatCounts ==
    ASSUME NEW S, "\n" \in S, NEW s \in Seq(S), NEW t \in Seq(S)
    PROVE  Normalize(s) = Normalize(t) <=> SameOutput(s, t)
<1> DEFINE p == Normalize(s)
           q == Normalize(t)
<1>1. p \in Seq(S) /\ Marks(s) = {<<k, p[k]>> : k \in 1..Len(p)}
  BY NormalizeIs, MarksAre
<1>2. q \in Seq(S) /\ Marks(t) = {<<k, q[k]>> : k \in 1..Len(q)}
  BY NormalizeIs, MarksAre
<1> HIDE DEF p, q
<1>3. ASSUME Marks(s) = Marks(t) PROVE p = q
  <2>1. \A k \in 1..Len(p) : k \in 1..Len(q) /\ p[k] = q[k]
    <3> SUFFICES ASSUME NEW k \in 1..Len(p) PROVE k \in 1..Len(q) /\ p[k] = q[k]
      OBVIOUS
    <3>1. <<k, p[k]>> \in Marks(t)
      BY <1>1, <1>3
    <3>2. PICK l \in 1..Len(q) : <<k, p[k]>> = <<l, q[l]>>
      BY <1>2, <3>1
    <3> QED
      BY <3>2
  <2>2. \A k \in 1..Len(q) : k \in 1..Len(p)
    <3> SUFFICES ASSUME NEW k \in 1..Len(q) PROVE k \in 1..Len(p)
      OBVIOUS
    <3>1. <<k, q[k]>> \in Marks(s)
      BY <1>2, <1>3
    <3>2. PICK l \in 1..Len(p) : <<k, q[k]>> = <<l, p[l]>>
      BY <1>1, <3>1
    <3> QED
      BY <3>2
  <2>3. Len(p) = Len(q)
    <3>1. Len(p) \in Nat /\ Len(q) \in Nat
      BY <1>1, <1>2
    <3>2. Len(p) # 0 => Len(p) \in 1..Len(q)
      BY <2>1, <3>1
    <3>3. Len(q) # 0 => Len(q) \in 1..Len(p)
      BY <2>2, <3>1
    <3> QED
      BY <3>1, <3>2, <3>3
  <2> QED
    BY <1>1, <1>2, <2>1, <2>3, SeqEqual
<1>4. ASSUME p = q PROVE Marks(s) = Marks(t)
  BY <1>1, <1>2, <1>4
<1> QED
  BY <1>3, <1>4 DEF SameOutput, p, q
-----------------------------------------------------------------------------
(* What is decoded of a stream *)

\* A text whose frames end between glyphs is decoded as it was written.
LEMMA WholeIsDecoded ==
    ASSUME NEW text \in Seq(Glyph) PROVE Decode(text, {}) = text
<1> DEFINE parts == Pieces(text, {})
           n == Len(text)
<1>1. /\ parts \in Seq(Seq(Decoded)) /\ Len(parts) = n /\ n \in Nat
      /\ Decode(text, {}) = Seqs!FlattenSeq(parts)
      /\ \A i \in 1..n : parts[i] = <<text[i]>>
  BY PiecesAre
<1> HIDE DEF parts
<1>2. CASE n = 0
  <2>1. text = << >>
    BY <1>2
  <2> QED
    BY <1>1, <1>2, <2>1, FlattenChain
<1>3. CASE n # 0
  <2>1. PICK f : /\ \A k \in 1..n : f[k] \in Seq(Decoded)
                 /\ Joined(parts, n, f)
                 /\ Decode(text, {}) = f[n]
    BY <1>1, <1>3, FlattenChain
  <2> DEFINE Same(k) == Len(f[k]) = k /\ \A i \in 1..k : f[k][i] = text[i]
             K == {k \in Nat : k \in 1..n => Same(k)}
  <2>2. 0 \in K
    OBVIOUS
  <2>3. ASSUME NEW k \in Nat, k \in K PROVE k + 1 \in K
    <3> SUFFICES ASSUME k + 1 \in 1..n PROVE Same(k + 1)
      OBVIOUS
    <3>1. parts[k + 1] = <<text[k + 1]>>
      BY <1>1
    <3>2. f[k + 1] = IF k + 1 = 1 THEN parts[k + 1] ELSE f[(k + 1) - 1] \o parts[k + 1]
      BY <2>1 DEF Joined
    <3>3. CASE k = 0
      <4>1. f[k + 1] = <<text[k + 1]>>
        BY <3>1, <3>2, <3>3
      <4> QED
        BY <3>3, <4>1
    <3>4. CASE k # 0
      <4>1. k \in 1..n /\ (k + 1) - 1 = k /\ k + 1 # 1
        BY <3>4, <1>1
      <4>2. f[k + 1] = f[k] \o <<text[k + 1]>> /\ f[k] \in Seq(Decoded)
        BY <2>1, <3>1, <3>2, <4>1
      <4>3. Len(f[k]) = k /\ \A i \in 1..k : f[k][i] = text[i]
        BY <2>3, <4>1
      <4> DEFINE p == f[k]
                 q == <<text[k + 1]>>
      <4>4. text[k + 1] \in Decoded
        BY DEF Decoded
      <4>5. /\ Len(p \o q) = Len(p) + 1 /\ (p \o q)[Len(p) + 1] = text[k + 1]
            /\ \A i \in 1..Len(p) : (p \o q)[i] = p[i]
        <5>1. q \in Seq(Decoded) /\ Len(q) = 1 /\ q[1] = text[k + 1] /\ p \in Seq(Decoded)
          BY <4>2, <4>4
        <5> HIDE DEF p, q
        <5>2. /\ Len(p \o q) = Len(p) + Len(q)
              /\ \A i \in 1..(Len(p) + Len(q)) :
                    (p \o q)[i] = IF i <= Len(p) THEN p[i] ELSE q[i - Len(p)]
          BY <5>1, ConcatProperties
        <5> DEFINE m == Len(p)
        <5>3. m \in Nat
          BY <5>1
        <5> HIDE DEF m
        <5>4. /\ m + 1 \in 1..(m + 1) /\ ~(m + 1 <= m) /\ (m + 1) - m = 1
              /\ \A i \in 1..m : i \in 1..(m + 1) /\ i <= m
          BY <5>3
        <5>5. /\ Len(p \o q) = m + 1
              /\ \A i \in 1..(m + 1) :
                    (p \o q)[i] = IF i <= m THEN p[i] ELSE q[i - m]
          BY <5>1, <5>2 DEF m
        <5>6. (p \o q)[m + 1] = q[1] /\ \A i \in 1..m : (p \o q)[i] = p[i]
          BY <5>4, <5>5
        <5> QED
          BY <5>1, <5>5, <5>6 DEF m
      <4> QED
        BY <4>1, <4>2, <4>3, <4>5
    <3> QED
      BY <3>3, <3>4
  <2>4. Nat \subseteq K
    <3> HIDE DEF K
    <3> QED
      BY <2>2, <2>3, NatSet
  <2>5. Same(n)
    <3>1. n \in Nat /\ n \in 1..n
      BY <1>1, <1>3
    <3> HIDE DEF Same
    <3> QED
      BY <3>1, <2>4
  <2>6. text \in Seq(Decoded)
    BY DEF Decoded
  <2>7. f[n] \in Seq(Decoded)
    BY <1>1, <1>3, <2>1
  <2>8. f[n] = text
    BY <2>5, <2>6, <2>7, SeqEqual
  <2> QED
    BY <2>1, <2>8
<1> QED
  BY <1>2, <1>3

\* One of which a frame ends within a glyph is not.
LEMMA CutIsDecoded ==
    ASSUME NEW text \in Seq(Glyph), NEW cuts \in SUBSET DOMAIN text, cuts # {}
    PROVE  \E j \in 1..Len(Decode(text, cuts)) : Decode(text, cuts)[j] = "bad"
<1> DEFINE parts == Pieces(text, cuts)
           n == Len(text)
<1>1. /\ parts \in Seq(Seq(Decoded)) /\ Len(parts) = n /\ n \in Nat
      /\ Decode(text, cuts) = Seqs!FlattenSeq(parts)
      /\ \A i \in 1..n : i \in cuts => parts[i] = <<"bad", "bad">>
  BY PiecesAre
<1>2. PICK c \in cuts : c \in 1..n
  OBVIOUS
<1> HIDE DEF parts
<1>3. PICK f : /\ \A k \in 1..n : f[k] \in Seq(Decoded)
               /\ Joined(parts, n, f)
               /\ Decode(text, cuts) = f[n]
  <2>1. n # 0
    BY <1>1, <1>2
  <2> HIDE DEF n
  <2> QED
    BY <1>1, <2>1, FlattenChain
<1> DEFINE Bad(x) == \E j \in 1..Len(x) : x[j] = "bad"
           K == {k \in Nat : k \in c..n => Bad(f[k])}
<1>4. ASSUME NEW p \in Seq(Decoded), NEW q \in Seq(Decoded), Bad(p) \/ Bad(q) PROVE Bad(p \o q)
  <2>1. CASE Bad(p)
    <3>1. PICK j \in 1..Len(p) : p[j] = "bad"
      BY <2>1
    <3>2. j \in 1..Len(p \o q) /\ (p \o q)[j] = p[j]
      OBVIOUS
    <3> QED
      BY <3>1, <3>2
  <2>2. CASE Bad(q)
    <3>1. PICK j \in 1..Len(q) : q[j] = "bad"
      BY <2>2
    <3>2. Len(p) + j \in 1..Len(p \o q) /\ (p \o q)[Len(p) + j] = q[j]
      OBVIOUS
    <3> QED
      BY <3>1, <3>2
  <2> QED
    BY <1>4, <2>1, <2>2
<1>5. 0 \in K
  BY <1>2
<1>6. ASSUME NEW k \in Nat, k \in K PROVE k + 1 \in K
  <2> SUFFICES ASSUME k + 1 \in c..n PROVE Bad(f[k + 1])
    OBVIOUS
  <2>1. k + 1 \in 1..n
    BY <1>1, <1>2
  <2>2. f[k + 1] = IF k + 1 = 1 THEN parts[k + 1] ELSE f[(k + 1) - 1] \o parts[k + 1]
    BY <1>3, <2>1 DEF Joined
  <2>3. parts[k + 1] \in Seq(Decoded)
    BY <1>1, <2>1
  <2>4. k + 1 = c => Bad(parts[k + 1])
    <3> SUFFICES ASSUME k + 1 = c PROVE Bad(parts[k + 1])
      OBVIOUS
    <3>1. parts[k + 1] = <<"bad", "bad">>
      BY <1>1, <1>2, <2>1
    <3> DEFINE two == <<"bad", "bad">>
    <3>2. 1 \in 1..Len(two) /\ two[1] = "bad"
      OBVIOUS
    <3> HIDE DEF two
    <3>3. Bad(two)
      BY <3>2
    <3> QED
      BY <3>1, <3>3 DEF two
  <2>5. CASE k = 0
    <3>1. k + 1 = c
      BY <1>2, <2>5
    <3> HIDE DEF Bad
    <3> QED
      BY <2>2, <2>4, <2>5, <3>1
  <2>6. CASE k # 0
    <3>1. f[k + 1] = f[k] \o parts[k + 1] /\ f[k] \in Seq(Decoded)
      <4>1. k \in 1..n /\ (k + 1) - 1 = k /\ k + 1 # 1
        BY <1>1, <2>1, <2>6
      <4> QED
        BY <1>3, <2>2, <4>1
    <3>2. k + 1 # c => Bad(f[k])
      <4>1. k + 1 # c => k \in c..n
        BY <1>1, <1>2
      <4> HIDE DEF Bad
      <4> QED
        BY <1>6, <4>1
    <3> HIDE DEF Bad
    <3> QED
      BY <1>4, <2>3, <2>4, <3>1, <3>2
  <2> QED
    BY <2>5, <2>6
<1>7. Nat \subseteq K
  <2> HIDE DEF K
  <2> QED
    BY <1>5, <1>6, NatSet
<1>8. Bad(f[n])
  <2>1. n \in Nat /\ n \in c..n
    BY <1>1, <1>2
  <2> HIDE DEF Bad
  <2> QED
    BY <2>1, <1>7
<1> QED
  BY <1>3, <1>8
-----------------------------------------------------------------------------
(* A test case that passes *)

\* What is compared of a text: the same of it as of its trimmed form.
LEMMA TrimCompares ==
    ASSUME NEW S, "\n" \in S, NEW s \in Seq(S)
    PROVE  /\ Normalize(Trim(s)) \in Seq(S)
           /\ MadeOf(Normalize(Trim(s)), s, Counts(s))
           /\ Marks(Trim(s)) = Marks(s)
<1> DEFINE u == Trim(s)
           r == Normalize(u)
<1>1. u \in Seq(S)
  BY TrimTyped
<1> HIDE DEF u
<1>2. r \in Seq(S) /\ MadeOf(r, u, Counts(u))
  BY <1>1, NormalizeIs
<1> HIDE DEF r
<1>3. MadeOf(r, s, Counts(s))
  BY <1>2, TrimCounts DEF u
<1>4. Marks(u) = {<<k, r[k]>> : k \in 1..Len(r)}
  BY <1>1, <1>2, MarksAre
<1>5. Marks(s) = {<<k, r[k]>> : k \in 1..Len(r)}
  BY <1>2, <1>3, MarksAre
<1> QED
  BY <1>2, <1>3, <1>4, <1>5 DEF r, u

\* An output that was decoded as it was written passes for what it is.
LEMMA WholeCompares ==
    ASSUME NEW text \in Seq(Glyph), NEW expected \in Seq(Glyph)
    PROVE  CompareOutput(Trim(Decode(text, {})), expected) <=> SameOutput(text, expected)
<1>1. "\n" \in Glyph
  BY DEF Glyph, White
<1>2. Decode(text, {}) = text
  BY WholeIsDecoded
<1>3. Trim(text) \in Seq(Glyph) /\ Marks(Trim(text)) = Marks(text)
  BY <1>1, TrimTyped, TrimCompares
<1>4. Normalize(Trim(text)) = Normalize(expected) <=> SameOutput(Trim(text), expected)
  BY <1>1, <1>3, ComparesWhatCounts
<1>5. SameOutput(Trim(text), expected) <=> SameOutput(text, expected)
  BY <1>3 DEF SameOutput
<1> QED
  BY <1>2, <1>4, <1>5 DEF CompareOutput

\* An output with a glyph that was cut is what no test case expects.
LEMMA CutCompares ==
    ASSUME NEW text \in Seq(Glyph), NEW expected \in Seq(Glyph),
           NEW cuts \in SUBSET DOMAIN text, cuts # {}
    PROVE  ~CompareOutput(Trim(Decode(text, cuts)), expected)
<1> DEFINE d == Decode(text, cuts)
           r == Normalize(Trim(d))
           w == Normalize(expected)
<1>1. "\n" \in Glyph /\ "\n" \in Decoded /\ "bad" \notin Glyph /\ "bad" \notin White
  BY ReportAssumption DEF Glyph, White, Decoded
<1>2. d \in Seq(Decoded)
  BY DecodeTyped
<1>3. PICK j \in 1..Len(d) : d[j] = "bad"
  BY CutIsDecoded
<1>4. w \in Seq(Glyph)
  BY <1>1, NormalizeIs
<1> HIDE DEF d
<1>5. r \in Seq(Decoded) /\ MadeOf(r, d, Counts(d))
  BY <1>1, <1>2, TrimCompares
<1> HIDE DEF r, w
<1>6. j \in Counts(d)
  <2>1. DOMAIN d = 1..Len(d)
    BY <1>2
  <2> QED
    BY <1>1, <1>3, <2>1 DEF Counts, Solid
<1>7. PICK e : Places(r, d, Counts(d), e)
  BY <1>5 DEF MadeOf
<1>8. PICK k \in 1..Len(r) : e[k] = j
  BY <1>6, <1>7 DEF Places
<1>9. r[k] = "bad"
  BY <1>3, <1>7, <1>8 DEF Places
<1>10. r # w
  <2> SUFFICES ASSUME r = w PROVE FALSE
    OBVIOUS
  <2>1. w[k] \in Glyph
    BY <1>4, <1>8
  <2> QED
    BY <1>1, <1>9, <2>1
<1> QED
  BY <1>10 DEF CompareOutput, d, r, w

\* A program whose output was read is a success if it ended by itself with nothing
\* on stderr, and none if it ended with something there; nor is one that was killed
\* for its time.
Clean(c) ==
    /\ result[c].output = "full" /\ exit[c] = "own" => result[c].success
    /\ result[c].output = "full" /\ exit[c] = "stderr" => ~result[c].success
    /\ result[c].timedOut => ~result[c].success

\* A reported call has returned, and what passed is what its text, decoded over
\* some frames, compares to.
Compared(c) ==
    Reported(c) =>
        /\ pc[c] = "done"
        /\ report[c].wrote \in Texts(result[c])
        /\ report[c].expected \in Expected
        /\ \E cuts \in SUBSET Wide(report[c].wrote) :
              /\ report[c].cut = (cuts # {})
              /\ report[c].passed =
                    (/\ result[c].success
                     /\ CompareOutput(Trim(Decode(report[c].wrote, cuts)), report[c].expected))

CompareInv ==
    /\ TypeOK /\ Soundness
    /\ report = [c \in Call |-> report[c]]
    /\ \A c \in Call : Clean(c) /\ Compared(c)

\* Of a program that does not run it stands how it ended.
LEMMA ExitStands ==
    ASSUME TypeOK, [Next]_vars, NEW c \in Call, box[c] # "running"
    PROVE  exit'[c] = exit[c]
<1> USE DEF TypeOK, GoTo, Become
<1>1. ASSUME NEW d \in Call, Answers(d) \/ Event(d), c # d PROVE exit'[c] = exit[c]
  BY <1>1, OthersStandStill
<1>2. ASSUME Answers(c) PROVE exit'[c] = exit[c]
  BY <1>2 DEF Answers, CreateContainer, Attach, Start, WaitAnswers, KillAnswers,
              CleanupAnswers, StatsAnswer, Remove, Killed
<1>3. ASSUME Event(c) PROVE exit'[c] = exit[c]
  BY <1>3 DEF Event, ExecuteCode, TimerFires, StreamEnds, StreamFails,
              RequestFails, CreateAckLost, ProgramEnds
<1>4. CASE Crash \/ \E d \in Call : WaitRejects(d)
  BY <1>4 DEF Crash, WaitRejects
<1>5. CASE UNCHANGED vars
  BY <1>5 DEF vars
<1>6. CASE \E d \in Call : Answers(d) \/ Event(d)
  BY <1>1, <1>2, <1>3, <1>6
<1> QED
  BY <1>4, <1>5, <1>6 DEF Next, Event

\* How the result of a call comes to be: by its statistics, or by its kill.
LEMMA ResultComes ==
    ASSUME TypeOK, [Next]_vars, NEW c \in Call
    PROVE  \/ result'[c] = result[c]
           \/ result'[c] = TimedOut
           \/ \E wrote \in Stderr(c), u \in Usage(c) : result'[c] = Outcome(c, wrote, u)
<1> USE DEF TypeOK, GoTo, Become
<1>1. ASSUME NEW d \in Call, Answers(d) \/ Event(d), c # d PROVE result'[c] = result[c]
  BY <1>1, OthersStandStill
<1>2. CASE StatsAnswer(c)
  BY <1>2 DEF StatsAnswer
<1>3. CASE KillAnswers(c)
  BY <1>3 DEF KillAnswers
<1>4. ASSUME Answers(c), ~StatsAnswer(c), ~KillAnswers(c) PROVE result'[c] = result[c]
  BY <1>4 DEF Answers, CreateContainer, Attach, Start, WaitAnswers, CleanupAnswers, Remove
<1>5. ASSUME Event(c) PROVE result'[c] = result[c]
  BY <1>5 DEF Event, ExecuteCode, TimerFires, StreamEnds, StreamFails,
              RequestFails, CreateAckLost, ProgramEnds
<1>6. CASE Crash \/ \E d \in Call : WaitRejects(d)
  BY <1>6 DEF Crash, WaitRejects
<1>7. CASE UNCHANGED vars
  BY <1>7 DEF vars
<1>8. CASE \E d \in Call : Answers(d) \/ Event(d)
  BY <1>1, <1>2, <1>3, <1>4, <1>5, <1>8
<1> QED
  BY <1>6, <1>7, <1>8 DEF Next, Event

LEMMA CleanStands ==
    ASSUME TypeOK, Soundness, [Next]_vars, NEW c \in Call, Clean(c)
    PROVE  Clean(c)'
<1>1. /\ output[c] = "full" => box[c] # "running"
      /\ result[c].output = "full" => output[c] = "full"
  BY DEF Soundness, Sound, Whole
<1>2. CASE result'[c] = result[c]
  <2>1. result[c].output = "full" => exit'[c] = exit[c]
    BY <1>1, ExitStands
  <2> QED
    BY <1>2, <2>1 DEF Clean
<1>3. CASE result'[c] = TimedOut
  <2>1. TimedOut.output = "none" /\ TimedOut.success = FALSE
    BY DEF TimedOut, NoResult
  <2> QED
    BY <1>3, <2>1 DEF Clean
<1>4. ASSUME NEW wrote \in Stderr(c), NEW u \in Usage(c), result'[c] = Outcome(c, wrote, u)
      PROVE  Clean(c)'
  <2>1. /\ result'[c].output = output[c] /\ result'[c].timedOut = FALSE
        /\ result'[c].success = (~(output[c] = "full" /\ wrote) /\ ~(u > MemoryLimit))
    <3> DEFINE good == ~(output[c] = "full" /\ wrote) /\ ~(u > MemoryLimit)
               full == output[c]
               exceeded == u > MemoryLimit
    <3>1. Outcome(c, wrote, u) = [success |-> good, timedOut |-> FALSE,
                                  memoryExceeded |-> exceeded, output |-> full]
      BY DEF Outcome
    <3> HIDE DEF good, full, exceeded
    <3>2. /\ result'[c].output = full /\ result'[c].success = good
          /\ result'[c].timedOut = FALSE
      BY <1>4, <3>1
    <3> QED
      BY <3>2 DEF good, full
  <2> SUFFICES ASSUME result'[c].output = "full", exit'[c] \in {"own", "stderr"}
               PROVE  result'[c].success <=> exit'[c] = "own"
    BY <2>1 DEF Clean
  <2>2. output[c] = "full" /\ box[c] # "running"
    BY <1>1, <2>1
  <2>3. exit'[c] = exit[c]
    BY <2>2, ExitStands
  <2>4. wrote = (exit[c] = "stderr")
    BY <2>3 DEF Stderr
  <2>5. u = 0
    BY <2>2 DEF Usage
  <2>6. ~(u > MemoryLimit)
    BY <2>5, EngineAssumption
  <2> QED
    BY <2>1, <2>2, <2>3, <2>4, <2>6
<1> QED
  BY <1>2, <1>3, <1>4, ResultComes

LEMMA NextCompared ==
    ASSUME CompareInv, [Next]_vars, UNCHANGED report
    PROVE  CompareInv'
<1>1. TypeOK' /\ Soundness'
  BY NextTyped, NextSound DEF CompareInv
<1>2. ASSUME NEW c \in Call PROVE Clean(c)' /\ Compared(c)'
  <2>1. Clean(c) /\ Compared(c)
    BY DEF CompareInv
  <2>2. Clean(c)'
    BY <2>1, CleanStands DEF CompareInv
  <2>3. pc[c] = "done" => pc'[c] = "done" /\ result'[c] = result[c]
    BY ResultStands DEF CompareInv
  <2>4. Compared(c)'
    BY <2>1, <2>3 DEF Compared, Reported, Texts
  <2> QED
    BY <2>2, <2>4
<1> QED
  BY <1>1, <1>2 DEF CompareInv

LEMMA ReportCompared ==
    ASSUME CompareInv, NEW c \in Call, NEW expected \in Expected, Report(c, expected)
    PROVE  CompareInv'
<1>1. PICK text \in Texts(result[c]), e \in Errors(result[c]) :
        \E cuts \in SUBSET Wide(text) :
           report' = [report EXCEPT ![c] = ReportOf(c, text, e, cuts, expected)]
  BY ReportIs
<1>2. PICK cuts \in SUBSET Wide(text) :
           report' = [report EXCEPT ![c] = ReportOf(c, text, e, cuts, expected)]
  BY <1>1
<1>3. /\ report'[c] = ReportOf(c, text, e, cuts, expected)
      /\ \A d \in Call \ {c} : report'[d] = report[d]
      /\ report' = [d \in Call |-> report'[d]]
  BY <1>2 DEF CompareInv
<1>4. UNCHANGED vars /\ pc[c] = "done"
  BY DEF Report
<1>5. TypeOK' /\ Soundness'
  BY <1>4 DEF CompareInv, TypeOK, Soundness, Sound, Owned, Whole, Limited, vars
<1>6. ASSUME NEW d \in Call PROVE Clean(d)'
  BY <1>4 DEF CompareInv, Clean, vars
<1>7. Compared(c)'
  <2> DEFINE passed == result[c].success /\ CompareOutput(Trim(Decode(text, cuts)), expected)
             r == report'[c]
  <2>1. /\ r.wrote = text /\ r.expected = expected
        /\ r.cut = (cuts # {}) /\ r.passed = passed
    BY <1>3 DEF ReportOf
  <2>2. pc'[c] = "done" /\ result'[c] = result[c]
    BY <1>4 DEF vars
  <2> HIDE DEF r
  <2>3. /\ r.wrote \in Texts(result'[c]) /\ r.expected \in Expected
        /\ cuts \in SUBSET Wide(r.wrote) /\ r.cut = (cuts # {})
        /\ r.passed = (/\ result'[c].success
                       /\ CompareOutput(Trim(Decode(r.wrote, cuts)), r.expected))
    BY <2>1, <2>2
  <2> QED
    BY <2>2, <2>3 DEF Compared, Texts, r
<1>8. ASSUME NEW d \in Call, d # c PROVE Compared(d)'
  <2>1. Compared(d) /\ report'[d] = report[d]
    BY <1>3, <1>8 DEF CompareInv
  <2> QED
    BY <1>4, <2>1 DEF Compared, Reported, Texts, vars
<1> QED
  BY <1>3, <1>5, <1>6, <1>7, <1>8 DEF CompareInv

LEMMA ComparedIsEqual == CompareInv => PassedIsEqual
<1> SUFFICES ASSUME CompareInv, NEW c \in Call, Reported(c)
             PROVE  LET equal == SameOutput(report[c].wrote, report[c].expected)
                        ended == result[c].output = "full" /\ exit[c] \in {"own", "oom"}
                        unread == result[c].output = "none" /\ Counts(report[c].expected) = {}
                    IN  /\ report[c].passed =>
                              equal /\ ~result[c].timedOut /\ (ended \/ unread)
                        /\ equal /\ ~report[c].cut /\ exit[c] = "own"
                             /\ result[c].output = "full" => report[c].passed
  BY DEF PassedIsEqual
<1> DEFINE w == report[c].wrote
           x == report[c].expected
           equal == SameOutput(w, x)
<1>1. Compared(c) /\ Clean(c)
  BY DEF CompareInv
<1>2. w \in Texts(result[c]) /\ x \in Expected
  BY <1>1 DEF Compared
<1>3. PICK cuts \in SUBSET Wide(w) :
         /\ report[c].cut = (cuts # {})
         /\ report[c].passed = (result[c].success /\ CompareOutput(Trim(Decode(w, cuts)), x))
  BY <1>1 DEF Compared
<1>4. w \in Seq(Glyph)
  BY <1>2, WrittenTyped
<1>5. x \in Seq(Glyph)
  BY <1>2, ReportAssumption
<1>6. cuts \in SUBSET DOMAIN w
  BY <1>3 DEF Wide
<1> HIDE DEF w, x
<1>7. cuts = {} => (CompareOutput(Trim(Decode(w, cuts)), x) <=> equal)
  BY <1>4, <1>5, WholeCompares
<1>8. cuts # {} => ~CompareOutput(Trim(Decode(w, cuts)), x)
  BY <1>4, <1>5, <1>6, CutCompares
<1>9. report[c].passed => equal
  BY <1>3, <1>7, <1>8, Zenon
<1>10. equal /\ ~report[c].cut /\ exit[c] = "own" /\ result[c].output = "full" => report[c].passed
  <2> SUFFICES ASSUME equal, ~report[c].cut, exit[c] = "own", result[c].output = "full"
               PROVE  report[c].passed
    OBVIOUS
  <2>1. cuts = {}
    BY <1>3
  <2>2. result[c].success
    BY <1>1 DEF Clean
  <2>3. CompareOutput(Trim(Decode(w, cuts)), x)
    BY <1>7, <2>1
  <2> QED
    BY <1>3, <2>2, <2>3, Zenon
<1>11. ASSUME report[c].passed
       PROVE  /\ ~result[c].timedOut
              /\ \/ result[c].output = "full" /\ exit[c] \in {"own", "oom"}
                 \/ result[c].output = "none" /\ Counts(x) = {}
  <2>1. result[c].success /\ ~result[c].timedOut
    BY <1>1, <1>3, <1>11 DEF Clean
  <2>2. result[c].output \in {"none", "full"}
    BY DEF CompareInv, TypeOK, Result, Output
  <2>3. CASE result[c].output = "full"
    <3>1. exit[c] \in {"own", "stderr", "oom"}
      BY <2>3, SoundnessIsEnough DEF CompareInv, OutputIsWhole
    <3> QED
      BY <1>1, <2>1, <2>3, <3>1 DEF Clean
  <2>4. CASE result[c].output = "none"
    <3>1. w = << >>
      BY <1>2, <2>4 DEF Texts
    <3>2. Marks(w) = {}
      BY <3>1 DEF Marks, Counts
    <3>3. Marks(x) = {}
      BY <1>9, <1>11, <3>2 DEF SameOutput
    <3>4. Counts(x) = {}
      BY <3>3 DEF Marks
    <3> QED
      BY <2>1, <2>4, <3>4
  <2> QED
    BY <2>1, <2>2, <2>3, <2>4
<1> QED
  BY <1>9, <1>10, <1>11 DEF w, x

\* Whatever texts there are, a test case passes only when its program ended in time
\* with nothing on stderr and wrote what is expected, line by line, or was not read
\* where nothing is expected; and a program that ended by itself with nothing on
\* stderr, was read and wrote that passes, unless a frame of its stream ends within
\* a glyph
\* (judge-engine.service.ts:147-160, 197-212, 273-291, submission.processor.ts:84-90).
THEOREM PassesAreEqual == FairReportSpec => []PassedIsEqual
<1>1. ReportInit => CompareInv
  <2> SUFFICES ASSUME ReportInit PROVE CompareInv
    OBVIOUS
  <2>1. TypeOK /\ Soundness
    BY InitTyped, InitSound DEF ReportInit
  <2>2. ASSUME NEW c \in Call PROVE Clean(c) /\ Compared(c)
    <3>1. result[c] = NoResult /\ report[c] = NoReport
      BY DEF ReportInit, Init
    <3>2. NoResult.output = "none" /\ NoResult.timedOut = FALSE
      BY DEF NoResult
    <3> QED
      BY <3>1, <3>2 DEF Clean, Compared, Reported
  <2> QED
    BY <2>1, <2>2 DEF ReportInit, CompareInv
<1>2. CompareInv /\ [ReportNext]_reportVars => CompareInv'
  <2>1. CASE UNCHANGED reportVars
    BY <2>1, NextCompared DEF reportVars
  <2>2. CASE Next /\ UNCHANGED report
    BY <2>2, NextCompared
  <2>3. CASE \E c \in Call, expected \in Expected : Report(c, expected)
    BY <2>3, ReportCompared
  <2> QED
    BY <2>1, <2>2, <2>3 DEF ReportNext
<1> QED
  BY <1>1, <1>2, ComparedIsEqual, PTL DEF FairReportSpec
=============================================================================
