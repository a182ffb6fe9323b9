----------------------------- MODULE TestReport -----------------------------
(***************************************************************************)
(* One test case from the call of executeCode to the verdict its author is *)
(* told: readStream decodes the frames of the Docker stream, compareOutput *)
(* normalises both texts, the processor stores a row and pushes an event,  *)
(* and the SSE controller rebuilds that event from the row for a client    *)
(* that joins late.  The calls and their containers are those of           *)
(* JudgeEngine, whose states hold no text: what a program wrote is chosen  *)
(* here when its call has returned.                                        *)
(*                                                                         *)
(* A text is a sequence of glyphs: letters, a blank (any white space that  *)
(* ends no line), a line break, and "wide", which takes two bytes.  Of an  *)
(* error text only matters what the code looks for in it.                  *)
(***************************************************************************)
EXTENDS JudgeEngine, Sequences, FiniteSets

CONSTANTS
    Letter,   \* one-byte glyphs that are no white space
    Written,  \* the texts programs write
    Expected  \* the expected outputs of test cases

VARIABLE report   \* what became of each call

reportVars == <<vars, report>>

Seqs == INSTANCE SequencesExt

White == {" ", "\n"}
Glyph == Letter \cup White \cup {"wide"}
Decoded == Glyph \cup {"bad"}   \* "bad" is U+FFFD

ASSUME ReportAssumption ==
    /\ Written \subseteq Seq(Glyph) /\ Expected \subseteq Seq(Glyph)
    /\ Letter \cap (White \cup {"wide", "bad"}) = {}

\* What an error says: nothing, white space only, the word timeout in lower
\* case, the letters t, i, m, e in any case (as in RuntimeError), or neither.
ErrorText == {"none", "blank", "other", "time", "timeout"}

\* wrote, cut and expected are auxiliary: what the program wrote to the stream,
\* nothing where its output was not read, whether a frame ended within a glyph,
\* and what the test case expects; error, output and passed are columns of the
\* row, live is the verdict pushed.
NoReport == [wrote |-> << >>, cut |-> FALSE, expected |-> << >>, passed |-> FALSE,
             output |-> << >>, error |-> "none", live |-> "none"]

ReportTypeOK ==
    /\ TypeOK
    /\ \A c \in Call :
           /\ DOMAIN report[c] = DOMAIN NoReport
           /\ report[c].wrote \in Written \cup {<< >>}
           /\ report[c].expected \in Expected \cup {<< >>}
           /\ {report[c].cut, report[c].passed} \subseteq BOOLEAN
           /\ report[c].output \in Seq(Decoded)
           /\ report[c].error \in ErrorText \ {"blank"}
           /\ report[c].live \in {"none", "pass", "tle", "fail"}

-----------------------------------------------------------------------------
(* readStream *)

Wide(text) == {i \in DOMAIN text : text[i] = "wide"}

\* data.toString() of one frame after the other; cuts are the glyphs within
\* which a frame ends, and each half of one becomes U+FFFD.
Decode(text, cuts) ==
    Seqs!FlattenSeq([i \in DOMAIN text |->
        IF i \in cuts THEN <<"bad", "bad">> ELSE <<text[i]>>])

-----------------------------------------------------------------------------
(* compareOutput *)

Trim(s) ==
    LET solid == {i \in DOMAIN s : s[i] \notin White}
    IN  IF solid = {} THEN << >>
        ELSE SubSeq(s, CHOOSE i \in solid : \A j \in solid : i <= j,
                       CHOOSE i \in solid : \A j \in solid : i >= j)

Split(s) ==
    Seqs!FoldLeft(LAMBDA lines, g : IF g = "\n" THEN Append(lines, << >>)
                                    ELSE [lines EXCEPT ![Len(lines)] = Append(@, g)],
                  << << >> >>, s)

\* filter and join: a line with nothing on it is left out.
Join(lines) ==
    Seqs!FoldLeft(LAMBDA s, line : IF line = << >> THEN s ELSE IF s = << >> THEN line
                                   ELSE s \o <<"\n">> \o line,
                  << >>, lines)

TrimmedLines(s) == LET lines == Split(Trim(s)) IN [i \in DOMAIN lines |-> Trim(lines[i])]

\* A variant the checks must reject: blank lines are kept.
NormalizeBlank(s) ==
    LET lines == TrimmedLines(s)
    IN  Seqs!FlattenSeq([i \in DOMAIN lines |-> lines[i] \o <<"\n">>])

Normalize(s) == Join(TrimmedLines(s))

CompareOutput(actual, wanted) == Normalize(actual) = Normalize(wanted)

-----------------------------------------------------------------------------
(* The result, the row and the two reports of it *)

\* A variant the checks must reject: the message is worded anew.
LimitErrorReworded == "time"

\* "Execution timeout exceeded ...ms"
LimitError == "timeout"

\* The errors a call may have ended with: what is on stderr or exceeded memory,
\* or, of a call nothing was read for, the message of a request that rejected.
Errors(r) ==
    IF r.timedOut THEN {LimitError}
    ELSE IF r.success THEN {"none"}
    ELSE {"other", "time", "timeout"} \cup (IF r.output = "full" THEN {"blank"} ELSE {})

\* A variant the checks must reject: the error is stored as it is.
StoredErrorRaw(error) == error

\* A blank error is trimmed to nothing, which counts as no error from here on.
StoredError(error) == IF error = "blank" THEN "none" ELSE error

LiveVerdict(passed, error) ==
    IF passed THEN "pass" ELSE IF error \in {"time", "timeout"} THEN "tle" ELSE "fail"

ReplayVerdict(row) ==
    IF row.passed THEN "pass" ELSE IF row.error = "timeout" THEN "tle" ELSE "fail"

\* The texts of a call that returned r: none, unless readStream won the race.
Texts(r) == IF r.output = "full" THEN Written ELSE {<< >>}

\* The processor goes on with what executeCode returned.
Report(c, expected) ==
    /\ ~crashed /\ pc[c] = "done" /\ report[c] = NoReport
    /\ \E text \in Texts(result[c]), e \in Errors(result[c]) :
          \E cuts \in SUBSET Wide(text) :
             LET out == Trim(Decode(text, cuts))
                 passed == result[c].success /\ CompareOutput(out, expected)
                 error == StoredError(e)
             IN  report' = [report EXCEPT ![c] =
                     [wrote |-> text, cut |-> cuts # {}, expected |-> expected,
                      passed |-> passed, output |-> out, error |-> error,
                      live |-> LiveVerdict(passed, error)]]
    /\ UNCHANGED vars

ReportInit == Init /\ report = [c \in Call |-> NoReport]

ReportNext ==
    \/ Next /\ UNCHANGED report
    \/ \E c \in Call, expected \in Expected : Report(c, expected)

FairReportSpec == ReportInit /\ [][ReportNext]_reportVars /\ Fairness

-----------------------------------------------------------------------------
(* When two outputs are the same, said without the loop of compareOutput *)

Solid(s, i) == s[i] \notin White
OneLine(s, i, j) == \A k \in i..j : s[k] # "\n"

\* The positions that count: no white space at the ends of a line, and one line
\* break between two lines that are not blank.
Counts(s) ==
    {i \in DOMAIN s :
        \/ Solid(s, i)
        \/ /\ s[i] = " "
           /\ \E j \in 1..i : Solid(s, j) /\ OneLine(s, j, i)
           /\ \E j \in i..Len(s) : Solid(s, j) /\ OneLine(s, i, j)
        \/ /\ s[i] = "\n"
           /\ \E j \in 1..(i - 1) : Solid(s, j) /\ OneLine(s, j, i - 1)
           /\ \E j \in i..Len(s) : Solid(s, j)}

\* The glyphs at these positions, each with its place among them.
Marks(s) ==
    LET counted == Counts(s)
    IN  {<<Cardinality(counted \cap 1..i), s[i]>> : i \in counted}

SameOutput(s, t) == Marks(s) = Marks(t)

-----------------------------------------------------------------------------
(* Properties *)

Reported(c) == report[c] # NoReport

\* A test passes only within the time limit and in one of two ways: the program
\* ended, with nothing on stderr, and wrote what is expected, wherever the frames
\* were cut; or its output was never read and nothing is expected but blanks.  It
\* may have been ended by the OOM killer, and its exit code is not looked at.  And
\* a program that ended by itself with nothing on stderr, and wrote what is
\* expected, passes once it is read, however many blank lines and blanks it adds:
\* unless a frame ends within a glyph, which readStream decodes to two others
\* (judge-engine.service.ts:147-160, 197-212, 273-291, submission.processor.ts:84-90).
PassedIsEqual ==
    \A c \in Call : Reported(c) =>
        LET equal == SameOutput(report[c].wrote, report[c].expected)
            ended == result[c].output = "full" /\ exit[c] \in {"own", "oom"}
            unread == result[c].output = "none" /\ Counts(report[c].expected) = {}
        IN  /\ report[c].passed => equal /\ ~result[c].timedOut /\ (ended \/ unread)
            /\ equal /\ ~report[c].cut /\ exit[c] = "own" /\ result[c].output = "full"
                  => report[c].passed

\* The author of a program that was killed by the timer is told so, live and by
\* replay, although each looks for another word in the message
\* (submission.processor.ts:125-129, sse.controller.ts:100-104).
LimitIsTle ==
    \A c \in Call : Reported(c) /\ result[c].timedOut =>
        report[c].live = "tle" /\ ReplayVerdict(report[c]) = "tle"
=============================================================================
