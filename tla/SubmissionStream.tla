-------------------------- MODULE SubmissionStream --------------------------
(***************************************************************************)
(* The live result stream of a submission: SubmissionSseService, which     *)
(* keeps one RxJS Subject and a reference count per submission id, and     *)
(* SseController.stream, which replays a finished submission or subscribes *)
(* the client to the Subject.  The judging pipeline of SubmissionJudging   *)
(* feeds it: every action of the pipeline that pushes, completes or errors *)
(* a stream is composed here with what it does to the clients.             *)
(***************************************************************************)
EXTENDS SubmissionJudging, SequencesExt

CONSTANTS
    Client,  \* SSE connections: the submission's owner and administrators
    Admin    \* those of an administrator

ASSUME ClientAssumption == Admin \subseteq Client

VARIABLES
    refs,       \* refCounts: 0 when the service holds no stream for the id
    listeners,  \* the clients subscribed to the Subject, in that order
    conn,       \* the state of each client's request
    watch,      \* the submission it asks for
    view,       \* what its findOne returned
    seen        \* the events it received on this request, until it leaves

sse == <<refs, listeners, conn, watch, view, seen>>
streamVars == <<vars, sse>>

\* "read": findOne has answered; "gone": and the client has left; "ghost": left
\* before its close handler was registered, and subscribed; "ended", "cut": the
\* server ended the response and its 'close' event has not fired yet; what cut it
\* was the 'close' of another client, whose own stream had ended before.
Conn == {"idle", "read", "gone", "live", "ghost", "ended", "cut"}

View == [status: Status, score: Nat, rows: SUBSET Row]
NoView == [status |-> "none", score |-> 0, rows |-> {}]

Event ==
    [type: {"test_result"}, index: Nat, row: Row, output: BOOLEAN]
    \cup [type: {"completed"}, verdict: Status, score: Nat, passed: Nat, total: Nat]
    \cup [type: {"error"}]

StreamTypeOK ==
    /\ TypeOK
    /\ refs \in [Submission -> Nat]
    /\ listeners \in [Submission -> Seq(Client)]
    /\ conn \in [Client -> Conn]
    /\ watch \in [Client -> Submission]
    /\ view \in [Client -> View]
    /\ seen \in [Client -> Seq(Event)]

StreamInit ==
    /\ Init
    /\ refs = [s \in Submission |-> 0]
    /\ listeners = [s \in Submission |-> <<>>]
    /\ conn = [c \in Client |-> "idle"]
    /\ watch = [c \in Client |-> IdleRun.sub]
    /\ view = [c \in Client |-> NoView]
    /\ seen = [c \in Client |-> <<>>]

-----------------------------------------------------------------------------
(* SubmissionSseService *)

Listening(s, c) == Contains(listeners[s], c)

\* A variant the checks must reject: only the first subscriber deletes.
RedactedByFirst(s, c, row) == row.case \in Hidden /\ Head(listeners[s]) \notin Admin

\* The map() of every subscriber deletes the output of a hidden case from the
\* one event object all of them share: what a client gets depends on those
\* subscribed before it.
Redacted(s, c, row) ==
    /\ row.case \in Hidden
    /\ \E i \in 1 .. SelectInSeq(listeners[s], LAMBDA d : d = c) :
          listeners[s][i] \notin Admin

Filter(s, c, e) ==
    IF e.type = "test_result" THEN [e EXCEPT !.output = ~Redacted(s, c, e.row)] ELSE e

\* Subject.next on the stream of s, if there is one.
Push(s, e) ==
    seen' = [c \in Client |->
                IF Listening(s, c) THEN Append(seen[c], Filter(s, c, e)) ELSE seen[c]]

\* Where the end of the stream of s leaves the clients subscribed to it.
EndOf(s, how) ==
    [c \in Client |-> IF ~Listening(s, c) THEN conn[c]
                      ELSE IF conn[c] = "ghost" THEN "idle" ELSE how]

\* A variant the checks must reject: the stream is left in the map.
EndWithoutDelete(s) == conn' = EndOf(s, "ended") /\ UNCHANGED <<refs, listeners>>

\* complete: the Subject ends for its subscribers and leaves both maps.
Complete(s) ==
    /\ conn' = EndOf(s, "ended")
    /\ refs' = [refs EXCEPT ![s] = 0]
    /\ listeners' = [listeners EXCEPT ![s] = <<>>]

\* A variant the checks must reject: the stream ends without the last event.
FinishUntold(s, e) == Complete(s) /\ UNCHANGED <<watch, view, seen>>

\* push of the last event, then complete; error does the same.
Finish(s, e) == Push(s, e) /\ Complete(s) /\ UNCHANGED <<watch, view>>

\* A variant the checks must reject: the count goes down without a look at it.
CloseUnguarded(s, c) ==
    /\ conn' = [conn EXCEPT ![c] = "idle"]
    /\ refs' = [refs EXCEPT ![s] = @ - 1]
    /\ listeners' = [listeners EXCEPT ![s] = RemoveFirst(@, c)]

\* cleanup, once client c, subscribed or not, is out of the way: the count
\* belongs to the id and not to the stream c was subscribed to.
Close(s, c) ==
    IF refs[s] <= 1
    THEN /\ conn' = [EndOf(s, "cut") EXCEPT ![c] = "idle"]
         /\ refs' = [refs EXCEPT ![s] = 0]
         /\ listeners' = [listeners EXCEPT ![s] = <<>>]
    ELSE /\ conn' = [conn EXCEPT ![c] = "idle"]
         /\ refs' = [refs EXCEPT ![s] = @ - 1]
         /\ listeners' = [listeners EXCEPT ![s] = RemoveFirst(@, c)]

-----------------------------------------------------------------------------
(* SseController.stream *)

InsertedBefore(r, q) ==
    \/ r.exec < q.exec
    \/ r.exec = q.exec /\ r.case \notin Hidden /\ q.case \in Hidden
    \/ r.exec = q.exec /\ (r.case \in Hidden <=> q.case \in Hidden) /\ r.case < q.case

\* Rows in the order they were inserted.
Inserted(rows) ==
    [i \in 1 .. Cardinality(rows) |->
        CHOOSE r \in rows : Cardinality({q \in rows : InsertedBefore(q, r)}) = i - 1]

\* buildReplayEvents on what findOne returned, its hidden outputs already
\* blanked for everybody by sanitizeSubmission.
ReplayEvents(v) ==
    LET rows == Inserted(v.rows) IN
    [i \in 1 .. Len(rows) |->
        [type |-> "test_result", index |-> i - 1, row |-> rows[i],
         output |-> rows[i].case \notin Hidden]]
    \o <<[type |-> "completed", verdict |-> v.status, score |-> v.score,
          passed |-> Cardinality({r \in v.rows : r.passed}),
          total |-> Cardinality(v.rows)]>>

\* What the handler uses of the row: all of it if it replays, else the status.
Found(s) ==
    IF status[s] \in Final
    THEN [status |-> status[s], score |-> score[s], rows |-> results[s]]
    ELSE [NoView EXCEPT !.status = status[s]]

\* A GET /sse/submission/:id; the database answers findOne, which throws when
\* there is no such row.  Browsers reconnect whenever a response ends.
Read(c, s) ==
    /\ conn[c] = "idle"
    /\ status[s] # "none"
    /\ conn' = [conn EXCEPT ![c] = "read"]
    /\ watch' = [watch EXCEPT ![c] = s]
    /\ view' = [view EXCEPT ![c] = Found(s)]
    /\ seen' = [seen EXCEPT ![c] = <<>>]
    /\ UNCHANGED <<vars, refs, listeners>>

\* The client leaves before the handler has registered its close handler.
Drop(c) ==
    /\ conn[c] = "read"
    /\ conn' = [conn EXCEPT ![c] = "gone"]
    /\ UNCHANGED <<vars, refs, listeners, watch, view, seen>>

\* isFinalStatus held of the row that was read: the handler replays it.  Its
\* response has no close handler.
Replay(c) ==
    /\ conn[c] \in {"read", "gone"}
    /\ view[c].status \in Final
    /\ conn' = [conn EXCEPT ![c] = "idle"]
    /\ seen' = [seen EXCEPT ![c] = IF conn[c] = "read" THEN ReplayEvents(view[c]) ELSE @]
    /\ view' = [view EXCEPT ![c] = NoView]
    /\ UNCHANGED <<vars, refs, listeners, watch>>

\* getOrCreate and the subscription.
Subscribe(c) ==
    LET s == watch[c] IN
    /\ conn[c] \in {"read", "gone"}
    /\ view[c].status \notin Final
    /\ conn' = [conn EXCEPT ![c] = IF @ = "read" THEN "live" ELSE "ghost"]
    /\ refs' = [refs EXCEPT ![s] = @ + 1]
    /\ listeners' = [listeners EXCEPT ![s] = Append(@, c)]
    /\ view' = [view EXCEPT ![c] = NoView]
    /\ UNCHANGED <<vars, watch, seen>>

\* The 'close' event of a request whose handler subscribed: the client left, or
\* the response the server had ended is over.
Closed(c) ==
    /\ conn[c] \in {"live", "ended", "cut"}
    /\ Close(watch[c], c)
    /\ seen' = [seen EXCEPT ![c] = <<>>]
    /\ UNCHANGED <<vars, watch, view>>

-----------------------------------------------------------------------------
(* The pipeline and what it does to the streams *)

Sub(w) == run[w].sub

\* A variant the checks must reject: each of the two loops counts on its own.
IndexInLoop(r) ==
    Cardinality(IF r.cases \ Hidden \subseteq r.ran THEN r.ran \cap Hidden ELSE r.ran)

\* currentIndex goes on from the visible to the hidden cases.
CurrentIndex(r) == Cardinality(r.ran)

\* runTestCase saves the row and pushes its event.
StreamJudgeCase(w, c, passed) ==
    /\ JudgeCase(w, c, passed)
    /\ Push(Sub(w), [type |-> "test_result", index |-> CurrentIndex(run[w]),
                     row |-> [exec |-> run[w].exec, case |-> c, passed |-> passed],
                     output |-> TRUE])
    /\ UNCHANGED <<refs, listeners, conn, watch, view>>

StreamAnnounce(w) ==
    /\ Announce(w)
    /\ Finish(Sub(w), [type |-> "completed", verdict |-> Verdict(run[w]),
                       score |-> Score(Cardinality(run[w].passed), Cardinality(run[w].cases)),
                       passed |-> Cardinality(run[w].passed),
                       total |-> Cardinality(run[w].cases)])

\* The catch block tells the clients first.
StreamThrow(w) ==
    IF run'[w].pc = "refetch" THEN Finish(Sub(w), [type |-> "error"]) ELSE UNCHANGED sse

StreamCrash ==
    /\ Crash
    /\ refs' = [s \in Submission |-> 0]
    /\ listeners' = [s \in Submission |-> <<>>]
    /\ conn' = [c \in Client |-> "idle"]
    /\ view' = [c \in Client |-> NoView]
    /\ seen' = [c \in Client |-> <<>>]
    /\ UNCHANGED watch

Handle(c) == Replay(c) \/ Subscribe(c)

\* The steps of a run, those that no client hears of included.
StreamProcess(w) ==
    \/ \E c \in TestCase, passed \in BOOLEAN : StreamJudgeCase(w, c, passed)
    \/ StreamAnnounce(w)
    \/ LoadTests(w) /\ StreamThrow(w)
    \/ /\ \/ FetchSubmission(w) \/ MarkRunning(w) \/ SaveVerdict(w)
          \/ Refetch(w) \/ MarkError(w) \/ Settle(w)
       /\ UNCHANGED sse

Silent ==
    /\ \/ \E s \in Submission : Serve(s) \/ Promote(s) \/ Stall(s)
       \/ \E w \in Worker, s \in Submission : Take(w, s)
       \/ EditTests
    /\ UNCHANGED sse

StreamNext ==
    \/ Silent
    \/ \E w \in Worker : \/ StreamProcess(w)
                         \/ (CallFails(w) \/ AckLost(w)) /\ StreamThrow(w)
    \/ StreamCrash
    \/ \E c \in Client : \/ \E s \in Submission : Read(c, s)
                         \/ Drop(c) \/ Handle(c) \/ Closed(c)

StreamSpec == StreamInit /\ [][StreamNext]_streamVars

\* The pipeline's fairness, and handlers whose query was answered go on.
StreamFairness ==
    /\ \A s \in Submission : SF_streamVars(Advance(s) /\ UNCHANGED sse)
    /\ \A w \in Worker : WF_streamVars(StreamProcess(w))
    /\ \A c \in Client : WF_streamVars(Handle(c))

FairStreamSpec == StreamSpec /\ StreamFairness
-----------------------------------------------------------------------------
(* Properties *)

Events(c) == 1 .. Len(seen[c])
Results(c) == {i \in Events(c) : seen[c][i].type = "test_result"}
Told(c) == seen[c] # <<>> /\ Last(seen[c]).type = "completed"

\* Whoever receives a final event, completed or error, receives nothing after
\* it, although retries push new events for the same id
\* (submission-sse.service.ts:28-45).
FinalEventIsLast ==
    \A c \in Client : \A i \in Events(c) : i < Len(seen[c]) => i \in Results(c)

\* The results a client receives on one connection have consecutive indices,
\* wherever it joined, and a client that received all of them can count the
\* passed ones in its final event (submission.processor.ts:120-134, 187-195;
\* sse.controller.ts:92-116).
ResultsAddUp ==
    \A c \in Client :
        /\ \A i, k \in Results(c) : i < k => seen[c][k].index = seen[c][i].index + (k - i)
        /\ Told(c) /\ Len(seen[c]) > 1 /\ seen[c][1].index = 0 =>
              Last(seen[c]).passed =
                  Cardinality({i \in Results(c) : seen[c][i].row.passed})

\* The verdict and score a client was last told are those of the database, also
\* when it was told before a retry, except for an error that is retried and for
\* a submission that is judged again after a crash (submission.processor.ts:185-195).
ToldWhatIsStored ==
    \A c \in Client :
        Told(c) /\ Last(seen[c]).verdict # "runtime_error" /\ job[watch[c]].stalls = 0 =>
            /\ Last(seen[c]).verdict = status[watch[c]]
            /\ Last(seen[c]).score = score[watch[c]]

\* Nobody but an administrator receives the output of a hidden test case, live
\* or replayed, in whatever order clients subscribe (sse.controller.ts:78-82).
HiddenStaysHidden ==
    \A c \in Client \ Admin : \A i \in Results(c) :
        seen[c][i].output => seen[c][i].row.case \notin Hidden

ToldTheEnd(c) ==
    conn[c] = "ended" /\ seen[c] # <<>> /\ Last(seen[c]).type \in {"completed", "error"}

\* A client that is subscribed while its submission, whose request was answered,
\* is still being judged is told how that ended, with a completed or an error
\* event, before the server ends its response: unless it leaves itself, the
\* process dies, or the late close of another client cuts its stream
\* (submission.processor.ts:187-195, 213-221; submission-sse.service.ts:28-55).
WatcherIsTold ==
    \A c \in Client :
        conn[c] = "live" /\ request[watch[c]] = "answered"
            /\ status[watch[c]] \in {"pending", "running"}
        ~> ToldTheEnd(c) \/ conn[c] \in {"cut", "idle"}

\* README.md:201: "Late-join support: replays all results if submission already
\* finished".  Nobody is left subscribed to a stream for ever.
NobodyStranded == \A c \in Client : conn[c] = "live" ~> conn[c] # "live"
=============================================================================
