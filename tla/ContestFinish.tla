---------------------------- MODULE ContestFinish ----------------------------
(***************************************************************************)
(* The life of a contest after its creation: finishContest (an editor      *)
(* closes it), finishExpiredContests (the sweep of every minute), update,  *)
(* remove and restore of BaseService, and ContestFinishedListener, which   *)
(* turns the contest.finished event into one delivery per subscription.    *)
(*                                                                         *)
(* One contest.  Every caller is a thread of awaits in the same process; a *)
(* step is what it does between two of them, and a crash takes all of them *)
(* and every event that was not handled to its end.                        *)
(***************************************************************************)
EXTENDS Naturals, FiniteSets

CONSTANTS
    Finisher,      \* PATCH /contests/finish/:id requests
    Sweeper,       \* sweeps that may overlap
    Updater,       \* PATCH /contests/:id requests
    Remover,       \* DELETE /contests/:id requests
    Restorer,      \* PATCH /contests/restore/:id requests
    Subscription,  \* active webhook subscriptions that concern the contest
    Global,        \* those of them without a contestId
    MaxTime,       \* bound: instants of the clock
    MaxCrashes,    \* bound: process crashes
    MaxRejects     \* bound: calls that reject

ASSUME CallersAssumption ==
    /\ Finisher \cap (Sweeper \cup Updater \cup Remover \cup Restorer) = {}
    /\ Sweeper \cap (Updater \cup Remover \cup Restorer) = {}
    /\ Updater \cap (Remover \cup Restorer) = {} /\ Remover \cap Restorer = {}
    /\ \A X \in {Finisher, Sweeper, Updater, Remover, Restorer} : IsFiniteSet(X)
    /\ Global \subseteq Subscription
    /\ {MaxCrashes, MaxRejects} \subseteq Nat /\ MaxTime \in Nat \ {0, 1}

VARIABLES
    clock,
    contest,     \* the row: its end, and which of its other dates are set
    caller,      \* progress of each caller
    subscribed,  \* WebhookSubscription rows
    created,     \* WebhookDelivery rows created for each subscription
    enqueued,    \* those of them whose first job was enqueued
    finishes,    \* saves that set finishedAt (auxiliary)
    used         \* faults so far

vars == <<clock, contest, caller, subscribed, created, enqueued, finishes, used>>
told == <<created, enqueued>>

Caller == Finisher \cup Sweeper \cup Updater \cup Remover \cup Restorer

\* "save" is behind the read of the row, "listen", "create" and "enqueue" are in
\* the listener that emit started.  read is the entity the caller holds, todo
\* the subscriptions still to be served and now the one being served.
PC == {"ready", "save", "listen", "create", "enqueue", "done"}
Time == 1..MaxTime
Contest == [endTime: Time, finishedAt: BOOLEAN, deletedAt: BOOLEAN]
CallerState ==
    [pc: PC, read: Contest, todo: SUBSET Subscription, now: SUBSET Subscription]
NewContest == [endTime |-> 2, finishedAt |-> FALSE, deletedAt |-> FALSE]
Ready == [pc |-> "ready", read |-> NewContest, todo |-> {}, now |-> {}]

TypeOK ==
    /\ clock \in Time
    /\ contest \in Contest
    /\ caller \in [Caller -> CallerState]
    /\ subscribed \subseteq Subscription
    /\ created \in [Subscription -> Nat]
    /\ enqueued \in [Subscription -> Nat]
    /\ finishes \in Nat
    /\ used \in [{"reject", "crash"} -> Nat]

Init ==
    /\ clock = 1
    /\ contest = NewContest
    /\ caller = [a \in Caller |-> Ready]
    /\ subscribed = {}
    /\ created = [s \in Subscription |-> 0]
    /\ enqueued = [s \in Subscription |-> 0]
    /\ finishes = 0
    /\ used = [f \in {"reject", "crash"} |-> 0]

\* Where a caller that is through goes: sweeps come again.
Rest(a) == IF a \in Sweeper THEN "ready" ELSE "done"

GoTo(a, pc) == caller' = [caller EXCEPT ![a] = [Ready EXCEPT !.pc = pc]]
End(a) == GoTo(a, Rest(a))

\* The process dies; after its restart only the interval comes back.
Die ==
    caller' = [a \in Caller |-> IF caller[a].pc = "ready" THEN Ready
                                ELSE [Ready EXCEPT !.pc = Rest(a)]]

Reject == used["reject"] < MaxRejects /\ used' = [used EXCEPT !["reject"] = @ + 1]

-----------------------------------------------------------------------------
(* ContestService and BaseService.  A soft-deleted row is found by no query. *)

Expired == contest.endTime <= clock

\* A variant the checks must reject: the sweep looks at endTime alone.
SweepFindsExpired == Expired

\* A variant the checks must reject: the sweep looks for contests that run.
SweepFindsRunning == ~Expired /\ ~contest.finishedAt

\* The query of finishExpiredContests; a sweep that finds nothing does nothing.
SweepFinds == Expired /\ ~contest.finishedAt /\ ~contest.deletedAt

\* finishContest returns early when finishedAt is set.
FinishFinds == ~contest.deletedAt /\ ~contest.finishedAt

Read(a, found) ==
    /\ caller[a].pc = "ready"
    /\ IF found THEN caller' = [caller EXCEPT ![a].pc = "save", ![a].read = contest]
       ELSE GoTo(a, "done")
    /\ UNCHANGED <<clock, contest, subscribed, told, finishes, used>>

FinishRead(a) == a \in Finisher /\ Read(a, FinishFinds)

SweepRead(a) == a \in Sweeper /\ SweepFinds /\ Read(a, TRUE)

\* findOne of update and of remove: 404 when there is no such row.
EditRead(a) == a \in Updater \cup Remover /\ Read(a, ~contest.deletedAt)

\* A variant the checks must reject: finishedAt is set and not saved.
StoreNothing(a) == UNCHANGED contest

\* save writes every column of the entity that differs from the row, as it was
\* read unless the caller set it; softDelete writes deletedAt alone.  An update
\* may move endTime, or leave it and change a column that is not modelled.
Store(a) ==
    \/ a \in Remover /\ contest' = [contest EXCEPT !.deletedAt = TRUE]
    \/ a \in Updater /\ \E t \in Time : contest' = [caller[a].read EXCEPT !.endTime = t]
    \/ /\ a \in Finisher \cup Sweeper
       /\ contest' = [caller[a].read EXCEPT !.finishedAt = TRUE]

Write(a) ==
    /\ Store(a)
    /\ finishes' = IF a \in Finisher \cup Sweeper /\ contest'.finishedAt
                   THEN finishes + 1 ELSE finishes
    /\ UNCHANGED <<clock, subscribed, told>>

\* Who finished the contest emits the event, and with it starts the listener.
Save(a) ==
    /\ caller[a].pc = "save"
    /\ Write(a)
    /\ GoTo(a, IF a \in Finisher \cup Sweeper THEN "listen" ELSE "done")
    /\ UNCHANGED used

\* The save rejects, committed or not.  Nobody catches that in the sweep, and an
\* unhandled rejection ends the process.
SaveFails(a) ==
    /\ caller[a].pc = "save"
    /\ Reject
    /\ Write(a) \/ UNCHANGED <<clock, contest, subscribed, told, finishes>>
    /\ IF a \in Sweeper THEN Die ELSE End(a)

Restore(a) ==
    /\ a \in Restorer /\ caller[a].pc = "ready"
    /\ contest' = [contest EXCEPT !.deletedAt = FALSE]
    /\ GoTo(a, "done")
    /\ UNCHANGED <<clock, subscribed, told, finishes, used>>

-----------------------------------------------------------------------------
(* WebhooksService and ContestFinishedListener.handleContestFinished *)

Subscribe(s) ==
    /\ s \notin subscribed
    /\ subscribed' = subscribed \cup {s}
    /\ UNCHANGED <<clock, contest, caller, told, finishes, used>>

\* A variant the checks must reject: only those without a contestId are served.
MatchingGlobal == subscribed \cap Global

\* findActiveByContestId: a subscription without contestId matches no contest.
Matching == subscribed \ Global

\* The contest, its submissions and the matching subscriptions are read.
Listen(a) ==
    /\ caller[a].pc = "listen"
    /\ LET todo == IF contest.deletedAt THEN {} ELSE Matching
       IN  IF todo = {} THEN End(a)
           ELSE caller' = [caller EXCEPT ![a].pc = "create", ![a].todo = todo]
    /\ UNCHANGED <<clock, contest, subscribed, told, finishes, used>>

CreateDelivery(a, s) ==
    /\ caller[a].pc = "create"
    /\ s \in caller[a].todo
    /\ created' = [created EXCEPT ![s] = @ + 1]
    /\ caller' = [caller EXCEPT ![a].pc = "enqueue", ![a].now = {s},
                                ![a].todo = @ \ {s}]
    /\ UNCHANGED <<clock, contest, subscribed, enqueued, finishes, used>>

EnqueueDelivery(a, s) ==
    /\ caller[a].pc = "enqueue"
    /\ caller[a].now = {s}
    /\ enqueued' = [enqueued EXCEPT ![s] = @ + 1]
    /\ IF caller[a].todo = {} THEN End(a)
       ELSE caller' = [caller EXCEPT ![a].pc = "create", ![a].now = {}]
    /\ UNCHANGED <<clock, contest, subscribed, created, finishes, used>>

\* A call of the listener rejects: the loop is over, whoever is left in it.
ListenerFails(a) ==
    /\ caller[a].pc \in {"listen", "create", "enqueue"}
    /\ Reject
    /\ End(a)
    /\ UNCHANGED <<clock, contest, subscribed, told, finishes>>

-----------------------------------------------------------------------------
(* The environment *)

Tick ==
    /\ clock < MaxTime
    /\ clock' = clock + 1
    /\ UNCHANGED <<contest, caller, subscribed, told, finishes, used>>

Crash ==
    /\ used["crash"] < MaxCrashes
    /\ used' = [used EXCEPT !["crash"] = @ + 1]
    /\ Die
    /\ UNCHANGED <<clock, contest, subscribed, told, finishes>>

-----------------------------------------------------------------------------
Sweep(a) == a \in Sweeper /\ (SweepRead(a) \/ Save(a))

Edit(a) == FinishRead(a) \/ EditRead(a) \/ Save(a) \/ Restore(a)

Notify(a) ==
    Listen(a) \/ \E s \in Subscription : CreateDelivery(a, s) \/ EnqueueDelivery(a, s)

Next ==
    \/ \E a \in Caller : Edit(a) \/ SaveFails(a) \/ SweepRead(a) \/ Notify(a) \/ ListenerFails(a)
    \/ \E s \in Subscription : Subscribe(s)
    \/ Tick \/ Crash

Spec == Init /\ [][Next]_vars

\* The clock runs, the interval fires, and handlers go on while the process lives.
Fairness ==
    /\ WF_vars(Tick)
    /\ \A a \in Sweeper : WF_vars(Sweep(a))
    /\ \A a \in Caller : WF_vars(Save(a)) /\ WF_vars(Notify(a))

FairSpec == Spec /\ Fairness

-----------------------------------------------------------------------------
(* Properties *)

Faults == used["crash"] + used["reject"]

\* However many finishers, sweeps and updates race, a subscription is told at
\* most once for every save that finished the contest, and never otherwise
\* (contest.service.ts:35-38, 52-54).
ToldOfFinished ==
    \A s \in Subscription : enqueued[s] <= created[s] /\ created[s] <= finishes

\* Callers that overlap finish the contest once each; only an update that puts
\* finishedAt back gives the sweeps another round, and neither removals nor
\* restorations do (contest.service.ts:31-33, 46-49).
FinishesAreBounded ==
    finishes <= Cardinality(Finisher) + Cardinality(Sweeper) * (1 + Cardinality(Updater))

\* An expired contest that is not removed ends up finished for good, although a
\* crash may stop the sweep, updates move its end or, with a row read earlier, put
\* finishedAt back, and restorations bring it back unfinished
\* (contest.service.ts:42-56, generic-crud.service.ts:34-38, 46-50).
ExpiredIsFinished == Expired ~> [](contest.finishedAt \/ contest.deletedAt)

\* Whatever races for the end of the contest, a subscription scoped to it that
\* was there before it was finished has a delivery in the queue in the end,
\* unless the contest is removed, the process dies or a call fails
\* (contest-finished.listener.ts:25-66).
ScopedAreTold ==
    \A s \in Subscription \ Global :
        s \in subscribed /\ ~contest.finishedAt ~>
            enqueued[s] > 0 \/ Faults > 0 \/ \E a \in Remover : caller[a].pc # "ready"

\* README.md:44: "Contests and problems support soft-delete with restore
\* capability": a removed contest comes back by a restoration.
RemovedStaysRemoved ==
    [][contest.deletedAt /\ ~contest'.deletedAt =>
          \E a \in Restorer : caller'[a] # caller[a]]_vars
=============================================================================
