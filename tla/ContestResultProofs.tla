-------------------------- MODULE ContestResultProofs --------------------------
(***************************************************************************)
(* Proofs about the end of a contest and about its result, for any number  *)
(* of submissions, scores, runs, requests, sweeps, subscriptions, instants *)
(* and faults.                                                             *)
(***************************************************************************)
EXTENDS ContestResult, FiniteSetTheorems, TLAPS

-----------------------------------------------------------------------------
(* Type correctness *)

LEMMA ReadyTyped ==
    \A a \in Caller : /\ Ready \in CallerState
                      /\ \A pc \in PC : [Ready EXCEPT !.pc = pc] \in CallerState
                      /\ Rest(a) \in PC
<1>1. NewContest \in Contest
  BY CallersAssumption DEF NewContest, Contest, Time
<1> QED
  BY <1>1 DEF Ready, CallerState, PC, Rest

LEMMA GoneTyped ==
    ASSUME TypeOK, NEW a \in Caller, NEW pc \in PC, GoTo(a, pc)
    PROVE  caller' \in [Caller -> CallerState]
BY ReadyTyped DEF TypeOK, GoTo

\* The two ways in which a caller stops keep the type of caller.
LEMMA StoppedTyped ==
    ASSUME TypeOK, NEW a \in Caller, End(a) \/ Die
    PROVE  caller' \in [Caller -> CallerState]
<1>1. CASE End(a)
  BY <1>1, ReadyTyped, GoneTyped DEF End
<1>2. CASE Die
  BY <1>2, ReadyTyped DEF TypeOK, Die
<1> QED
  BY <1>1, <1>2

LEMMA WriteTyped ==
    ASSUME TypeOK, NEW a \in Caller, Write(a)
    PROVE  contest' \in Contest /\ finishes' \in Nat
<1>1. caller[a].read \in Contest
  BY DEF TypeOK, CallerState
<1>2. contest' \in Contest
  BY <1>1 DEF TypeOK, Write, Store, Contest, Time
<1> QED
  BY <1>2 DEF TypeOK, Write

LEMMA EditTyped ==
    ASSUME TypeOK, NEW a \in Caller, Edit(a) \/ SaveFails(a) \/ SweepRead(a)
    PROVE  TypeOK'
<1> USE DEF TypeOK, told
<1>1. ASSUME NEW found \in BOOLEAN, Read(a, found) PROVE TypeOK'
  <2>1. CASE found
    BY <1>1, <2>1 DEF Read, CallerState, PC
  <2>2. CASE ~found
    <3>1. caller' \in [Caller -> CallerState]
      BY <1>1, <2>2, GoneTyped DEF Read, PC
    <3> QED
      BY <1>1, <3>1 DEF Read
  <2> QED
    BY <2>1, <2>2
<1>2. CASE FinishRead(a)
  BY <1>1, <1>2 DEF FinishRead, FinishFinds
<1>3. CASE EditRead(a)
  BY <1>1, <1>3 DEF EditRead
<1>4. CASE SweepRead(a)
  BY <1>1, <1>4 DEF SweepRead
<1>5. CASE Save(a)
  <2>1. caller' \in [Caller -> CallerState]
    BY <1>5, GoneTyped DEF Save, PC
  <2> QED
    BY <1>5, <2>1, WriteTyped DEF Save, Write
<1>6. CASE SaveFails(a)
  <2>1. caller' \in [Caller -> CallerState]
    BY <1>6, StoppedTyped DEF SaveFails
  <2>2. used' \in [{"reject", "crash"} -> Nat]
    BY <1>6 DEF SaveFails, Reject
  <2> QED
    BY <1>6, <2>1, <2>2, WriteTyped DEF SaveFails, Write
<1>7. CASE Restore(a)
  <2>1. caller' \in [Caller -> CallerState]
    BY <1>7, GoneTyped DEF Restore, PC
  <2> QED
    BY <1>7, <2>1 DEF Restore, Contest
<1> QED
  BY <1>2, <1>3, <1>4, <1>5, <1>6, <1>7 DEF Edit

LEMMA NotifyTyped ==
    ASSUME TypeOK, NEW a \in Caller, Notify(a) \/ ListenerFails(a)
    PROVE  TypeOK'
<1> USE DEF TypeOK, told
<1>1. CASE Listen(a)
  <2>1. caller' \in [Caller -> CallerState]
    BY <1>1, StoppedTyped DEF Listen, Matching, CallerState, PC
  <2> QED
    BY <1>1, <2>1 DEF Listen
<1>2. ASSUME NEW s \in Subscription, CreateDelivery(a, s) PROVE TypeOK'
  BY <1>2 DEF CreateDelivery, CallerState, PC
<1>3. ASSUME NEW s \in Subscription, EnqueueDelivery(a, s) PROVE TypeOK'
  <2>1. caller' \in [Caller -> CallerState]
    BY <1>3, StoppedTyped DEF EnqueueDelivery, CallerState, PC
  <2> QED
    BY <1>3, <2>1 DEF EnqueueDelivery
<1>4. CASE ListenerFails(a)
  BY <1>4, StoppedTyped DEF ListenerFails, Reject
<1> QED
  BY <1>1, <1>2, <1>3, <1>4 DEF Notify

LEMMA InitTyped == Init => TypeOK
<1>1. \A a \in Caller : Ready \in CallerState
  BY ReadyTyped
<1>2. NewContest \in Contest /\ 1 \in Time
  BY CallersAssumption DEF NewContest, Contest, Time
<1> SUFFICES ASSUME Init PROVE TypeOK
  OBVIOUS
<1>3. caller \in [Caller -> CallerState] /\ contest \in Contest
  BY <1>1, <1>2 DEF Init
<1>4. used \in [{"reject", "crash"} -> Nat]
  BY DEF Init
<1>5. created \in [Subscription -> Nat] /\ enqueued \in [Subscription -> Nat]
  BY DEF Init
<1> QED
  BY <1>2, <1>3, <1>4, <1>5 DEF Init, TypeOK

LEMMA NextTyped == TypeOK /\ [Next]_vars => TypeOK'
<1> SUFFICES ASSUME TypeOK, [Next]_vars PROVE TypeOK'
  OBVIOUS
<1> USE DEF TypeOK, told
<1>1. ASSUME NEW s \in Subscription, Subscribe(s) PROVE TypeOK'
  BY <1>1 DEF Subscribe
<1>2. CASE Tick
  BY <1>2, CallersAssumption DEF Tick, Time
<1>3. CASE Crash
  <2>1. caller' \in [Caller -> CallerState]
    BY <1>3, ReadyTyped DEF Crash, Die
  <2> QED
    BY <1>3, <2>1 DEF Crash
<1>4. CASE UNCHANGED vars
  BY <1>4 DEF vars
<1> QED
  BY <1>1, <1>2, <1>3, <1>4, EditTyped, NotifyTyped DEF Next

\* Every variable of the end of a contest has its type, in every instance.
THEOREM TypeCorrect == Spec => []TypeOK
BY InitTyped, NextTyped, PTL DEF Spec

-----------------------------------------------------------------------------
(* The accounts *)

\* The callers that will still create a delivery for s, and that enqueue one.
Creating(s) == {a \in Caller : caller[a].pc = "listen" \/ s \in caller[a].todo}
Enqueuing(s) == {a \in Caller : caller[a].pc = "enqueue" /\ caller[a].now = {s}}

\* Every delivery created or still to be created is paid by a save that finished
\* the contest, every job by a delivery.
Paid ==
    \A s \in Subscription :
        /\ Cardinality(Creating(s)) + created[s] <= finishes
        /\ Cardinality(Enqueuing(s)) + enqueued[s] <= created[s]

\* Which requests may still save, and which sweeps will finish the contest unless an update
\* puts finishedAt back.
Saving == {a \in Finisher \cup Updater : caller[a].pc \in {"ready", "save"}}
Sweeping == {a \in Sweeper : caller[a].pc = "save" \/ ~contest.finishedAt}

Bound == Cardinality(Finisher) + Cardinality(Sweeper) * (1 + Cardinality(Updater))

\* A finisher saves once, a sweep once and once more for every update.
Accounted ==
    finishes + Cardinality(Saving \cap Finisher)
             + Cardinality(Sweeper) * Cardinality(Saving \cap Updater)
             + Cardinality(Sweeping) <= Bound

-----------------------------------------------------------------------------
(* Counting callers *)

LEMMA CallersFinite == IsFiniteSet(Caller)
<1>1. IsFiniteSet(Finisher \cup Sweeper)
  BY CallersAssumption, FS_Union
<1>2. IsFiniteSet(Finisher \cup Sweeper \cup Updater)
  BY <1>1, CallersAssumption, FS_Union
<1>3. IsFiniteSet(Finisher \cup Sweeper \cup Updater \cup Remover)
  BY <1>2, CallersAssumption, FS_Union
<1> QED
  BY <1>3, CallersAssumption, FS_Union DEF Caller

LEMMA Counted ==
    ASSUME NEW X \in SUBSET Caller
    PROVE  IsFiniteSet(X) /\ Cardinality(X) \in Nat
BY CallersFinite, FS_Subset, FS_CardinalityType

LEMMA CountKept ==
    ASSUME NEW X \in SUBSET Caller, NEW Y \in SUBSET X
    PROVE  Cardinality(Y) <= Cardinality(X)
BY Counted, FS_Subset

LEMMA CountUp ==
    ASSUME NEW X \in SUBSET Caller, NEW a \in Caller, NEW Y \in SUBSET (X \cup {a})
    PROVE  Cardinality(Y) <= Cardinality(X) + 1
<1>1. Cardinality(X \cup {a}) <= Cardinality(X) + 1
  BY Counted, FS_AddElement
<1>2. Cardinality(Y) <= Cardinality(X \cup {a})
  BY CountKept
<1> QED
  BY <1>1, <1>2, Counted

LEMMA CountDown ==
    ASSUME NEW X \in SUBSET Caller, NEW a \in X, NEW Y \in SUBSET (X \ {a})
    PROVE  Cardinality(Y) + 1 <= Cardinality(X)
<1>1. Cardinality(X \ {a}) = Cardinality(X) - 1
  BY Counted, FS_RemoveElement
<1>2. Cardinality(Y) <= Cardinality(X \ {a})
  BY CountKept
<1> QED
  BY <1>1, <1>2, Counted

-----------------------------------------------------------------------------
(* A subscription is told of saves that finished the contest *)

\* A step that adds no debt keeps the accounts.
LEMMA PaidKept ==
    ASSUME TypeOK, TypeOK', Paid, created' = created, enqueued' = enqueued,
           finishes' >= finishes,
           \A s \in Subscription : /\ Creating(s)' \subseteq Creating(s)
                                  /\ Enqueuing(s)' \subseteq Enqueuing(s)
    PROVE  Paid'
<1> SUFFICES ASSUME NEW s \in Subscription
             PROVE  /\ Cardinality(Creating(s)') + created[s] <= finishes'
                    /\ Cardinality(Enqueuing(s)') + enqueued[s] <= created[s]
  BY DEF Paid
<1>1. Creating(s) \in SUBSET Caller /\ Enqueuing(s) \in SUBSET Caller
  BY DEF Creating, Enqueuing
<1>2. /\ Cardinality(Creating(s)') <= Cardinality(Creating(s))
      /\ Cardinality(Enqueuing(s)') <= Cardinality(Enqueuing(s))
  BY <1>1, CountKept
<1>3. /\ Cardinality(Creating(s)) \in Nat /\ Cardinality(Creating(s)') \in Nat
      /\ Cardinality(Enqueuing(s)) \in Nat /\ Cardinality(Enqueuing(s)') \in Nat
  BY <1>1, Counted, CountKept
<1> QED
  BY <1>2, <1>3 DEF TypeOK, Paid

\* A caller that stops owes nothing more, and the others what they owed.
LEMMA StoppedPays ==
    ASSUME TypeOK, NEW a \in Caller, End(a) \/ Die, NEW s \in Subscription
    PROVE  /\ Creating(s)' \subseteq Creating(s)
           /\ Enqueuing(s)' \subseteq Enqueuing(s)
<1> USE DEF TypeOK, Creating, Enqueuing, Ready, Rest, CallerState
<1>1. CASE End(a)
  BY <1>1 DEF End, GoTo
<1>2. CASE Die
  BY <1>2 DEF Die
<1> QED
  BY <1>1, <1>2

LEMMA WriteCounts ==
    ASSUME TypeOK, NEW a \in Caller, Write(a)
    PROVE  finishes' = IF a \in Finisher \cup Sweeper THEN finishes + 1 ELSE finishes
<1>1. caller[a].read \in Contest
  BY DEF TypeOK, CallerState
<1>2. a \in Finisher \cup Sweeper => a \notin Updater \cup Remover
  BY CallersAssumption DEF Caller
<1>3. a \in Finisher \cup Sweeper => contest'.finishedAt
  BY <1>1, <1>2 DEF Write, Store, Contest
<1> QED
  BY <1>3 DEF Write

\* A caller that moves on without a delivery in hand owes nothing more.
LEMMA MovedPays ==
    ASSUME TypeOK, NEW a \in Caller, NEW s \in Subscription,
           NEW pc \in {"ready", "save", "done"}, GoTo(a, pc)
    PROVE  /\ Creating(s)' \subseteq Creating(s)
           /\ Enqueuing(s)' \subseteq Enqueuing(s)
BY DEF GoTo, Ready, TypeOK, CallerState, Creating, Enqueuing

LEMMA EditPays ==
    ASSUME TypeOK, TypeOK', Paid, NEW a \in Caller, Edit(a) \/ SaveFails(a) \/ SweepRead(a)
    PROVE  Paid'
<1> USE DEF TypeOK, told
<1>1. ASSUME NEW found \in BOOLEAN, Read(a, found) PROVE Paid'
  <2>1. CASE found
    <3>1. /\ caller' = [caller EXCEPT ![a].pc = "save", ![a].read = contest]
          /\ created' = created /\ enqueued' = enqueued /\ finishes' = finishes
      BY <1>1, <2>1 DEF Read
    <3>2. \A s \in Subscription : /\ Creating(s)' \subseteq Creating(s)
                                 /\ Enqueuing(s)' \subseteq Enqueuing(s)
      BY <3>1 DEF Creating, Enqueuing, CallerState
    <3> QED
      BY <3>1, <3>2, PaidKept
  <2>2. CASE ~found
    BY <1>1, <2>2, MovedPays, PaidKept DEF Read
  <2> QED
    BY <2>1, <2>2
<1>2. CASE FinishRead(a)
  BY <1>1, <1>2 DEF FinishRead, FinishFinds
<1>3. CASE EditRead(a)
  BY <1>1, <1>3 DEF EditRead
<1>4. CASE SweepRead(a)
  BY <1>1, <1>4 DEF SweepRead
<1>5. CASE Save(a)
  <2>1. Write(a) /\ created' = created /\ enqueued' = enqueued
    BY <1>5 DEF Save, Write
  <2>2. CASE a \in Finisher \cup Sweeper
    <3>1. finishes' = finishes + 1
      BY <2>1, <2>2, WriteCounts
    <3>2. \A s \in Subscription : /\ Creating(s)' \subseteq Creating(s) \cup {a}
                                 /\ Enqueuing(s)' \subseteq Enqueuing(s)
      BY <1>5, <2>2 DEF Save, GoTo, Creating, Enqueuing, CallerState
    <3> SUFFICES ASSUME NEW s \in Subscription
                 PROVE  /\ Cardinality(Creating(s)') + created[s] <= finishes'
                        /\ Cardinality(Enqueuing(s)') + enqueued[s] <= created[s]
      BY <2>1 DEF Paid
    <3>3. Creating(s) \in SUBSET Caller /\ Creating(s)' \in SUBSET Caller
      BY DEF Creating
    <3>4. Enqueuing(s) \in SUBSET Caller /\ Enqueuing(s)' \in SUBSET Caller
      BY DEF Enqueuing
    <3>5. Cardinality(Creating(s)') <= Cardinality(Creating(s)) + 1
      BY <3>2, <3>3, CountUp
    <3>6. Cardinality(Enqueuing(s)') <= Cardinality(Enqueuing(s))
      BY <3>2, <3>4, CountKept
    <3> QED
      BY <3>1, <3>3, <3>4, <3>5, <3>6, Counted DEF Paid
  <2>3. CASE a \notin Finisher \cup Sweeper
    <3>1. GoTo(a, "done") /\ finishes' = finishes
      BY <1>5, <2>1, <2>3, WriteCounts DEF Save
    <3> QED
      BY <2>1, <3>1, MovedPays, PaidKept
  <2> QED
    BY <2>2, <2>3
<1>6. CASE SaveFails(a)
  <2>1. finishes' >= finishes
    BY <1>6, WriteCounts DEF SaveFails
  <2>2. End(a) \/ Die
    BY <1>6 DEF SaveFails
  <2> QED
    BY <1>6, <2>1, <2>2, StoppedPays, PaidKept DEF SaveFails, Write
<1>7. CASE Restore(a)
  BY <1>7, MovedPays, PaidKept DEF Restore
<1> QED
  BY <1>2, <1>3, <1>4, <1>5, <1>6, <1>7 DEF Edit

LEMMA NotifyPays ==
    ASSUME TypeOK, TypeOK', Paid, NEW a \in Caller, Notify(a) \/ ListenerFails(a)
    PROVE  Paid'
<1> USE DEF TypeOK, told
<1>1. CASE Listen(a)
  <2>1. \A s \in Subscription : /\ Creating(s)' \subseteq Creating(s)
                               /\ Enqueuing(s)' \subseteq Enqueuing(s)
    <3>1. CASE End(a)
      BY <3>1, StoppedPays
    <3>2. CASE ~End(a)
      BY <1>1, <3>2 DEF Listen, Creating, Enqueuing, CallerState
    <3> QED
      BY <3>1, <3>2
  <2> QED
    BY <1>1, <2>1, PaidKept DEF Listen
<1>2. ASSUME NEW r \in Subscription, CreateDelivery(a, r), NEW s \in Subscription
      PROVE  /\ Cardinality(Creating(s)') + created'[s] <= finishes'
             /\ Cardinality(Enqueuing(s)') + enqueued'[s] <= created'[s]
  <2>1. /\ Creating(s) \in SUBSET Caller /\ Creating(s)' \in SUBSET Caller
        /\ Enqueuing(s) \in SUBSET Caller /\ Enqueuing(s)' \in SUBSET Caller
    BY DEF Creating, Enqueuing
  <2>2. /\ Cardinality(Creating(s)) \in Nat /\ Cardinality(Creating(s)') \in Nat
        /\ Cardinality(Enqueuing(s)) \in Nat /\ Cardinality(Enqueuing(s)') \in Nat
    BY <2>1, Counted
  <2>3. CASE s = r
    <3>1. created'[s] = created[s] + 1 /\ enqueued' = enqueued /\ finishes' = finishes
      BY <1>2, <2>3 DEF CreateDelivery
    <3>2. a \in Creating(s) /\ Creating(s)' \subseteq Creating(s) \ {a}
      BY <1>2, <2>3 DEF CreateDelivery, Creating, CallerState
    <3>3. Enqueuing(s)' \subseteq Enqueuing(s) \cup {a}
      BY <1>2, <2>3 DEF CreateDelivery, Enqueuing, CallerState
    <3>4. Cardinality(Creating(s)') + 1 <= Cardinality(Creating(s))
      BY <2>1, <3>2, CountDown
    <3>5. Cardinality(Enqueuing(s)') <= Cardinality(Enqueuing(s)) + 1
      BY <2>1, <3>3, CountUp
    <3> QED
      BY <2>2, <3>1, <3>4, <3>5 DEF Paid
  <2>4. CASE s # r
    <3>1. created'[s] = created[s] /\ enqueued' = enqueued /\ finishes' = finishes
      BY <1>2, <2>4 DEF CreateDelivery
    <3>2. Creating(s)' \subseteq Creating(s) /\ Enqueuing(s)' \subseteq Enqueuing(s)
      BY <1>2, <2>4 DEF CreateDelivery, Creating, Enqueuing, CallerState
    <3>3. /\ Cardinality(Creating(s)') <= Cardinality(Creating(s))
          /\ Cardinality(Enqueuing(s)') <= Cardinality(Enqueuing(s))
      BY <2>1, <3>2, CountKept
    <3> QED
      BY <2>2, <3>1, <3>3 DEF Paid
  <2> QED
    BY <2>3, <2>4
<1>3. ASSUME NEW r \in Subscription, EnqueueDelivery(a, r), NEW s \in Subscription
      PROVE  /\ Cardinality(Creating(s)') + created'[s] <= finishes'
             /\ Cardinality(Enqueuing(s)') + enqueued'[s] <= created'[s]
  <2>1. /\ Creating(s) \in SUBSET Caller /\ Creating(s)' \in SUBSET Caller
        /\ Enqueuing(s) \in SUBSET Caller /\ Enqueuing(s)' \in SUBSET Caller
    BY DEF Creating, Enqueuing
  <2>2. /\ Cardinality(Creating(s)) \in Nat /\ Cardinality(Creating(s)') \in Nat
        /\ Cardinality(Enqueuing(s)) \in Nat /\ Cardinality(Enqueuing(s)') \in Nat
    BY <2>1, Counted
  <2>3. created' = created /\ finishes' = finishes
    BY <1>3 DEF EnqueueDelivery
  <2>4. Creating(s)' \subseteq Creating(s) /\ Enqueuing(s)' \subseteq Enqueuing(s) \ {a}
    <3>1. CASE End(a)
      BY <3>1 DEF End, GoTo, Creating, Enqueuing, CallerState, Ready, Rest
    <3>2. CASE ~End(a)
      <4>1. caller' = [caller EXCEPT ![a].pc = "create", ![a].now = {}]
        BY <1>3, <3>2 DEF EnqueueDelivery
      <4> QED
        BY <4>1 DEF Creating, Enqueuing, CallerState
    <3> QED
      BY <3>1, <3>2
  <2>5. Cardinality(Creating(s)') <= Cardinality(Creating(s))
    BY <2>1, <2>4, CountKept
  <2>6. CASE s = r
    <3>1. enqueued'[s] = enqueued[s] + 1 /\ a \in Enqueuing(s)
      BY <1>3, <2>6 DEF EnqueueDelivery, Enqueuing
    <3>2. Cardinality(Enqueuing(s)') + 1 <= Cardinality(Enqueuing(s))
      BY <2>1, <2>4, <3>1, CountDown
    <3> QED
      BY <2>2, <2>3, <2>5, <3>1, <3>2 DEF Paid
  <2>7. CASE s # r
    <3>1. enqueued'[s] = enqueued[s]
      BY <1>3, <2>7 DEF EnqueueDelivery
    <3>2. Cardinality(Enqueuing(s)') <= Cardinality(Enqueuing(s))
      BY <2>1, <2>4, CountKept
    <3> QED
      BY <2>2, <2>3, <2>5, <3>1, <3>2 DEF Paid
  <2> QED
    BY <2>6, <2>7
<1>4. CASE ListenerFails(a)
  BY <1>4, StoppedPays, PaidKept DEF ListenerFails
<1> QED
  BY <1>1, <1>2, <1>3, <1>4 DEF Notify, Paid

LEMMA InitPaid == Init => Paid
<1> SUFFICES ASSUME Init, NEW s \in Subscription
             PROVE  /\ Cardinality(Creating(s)) + created[s] <= finishes
                    /\ Cardinality(Enqueuing(s)) + enqueued[s] <= created[s]
  BY DEF Paid
<1>1. Creating(s) = {} /\ Enqueuing(s) = {}
  BY DEF Init, Ready, Creating, Enqueuing
<1>2. created[s] = 0 /\ enqueued[s] = 0 /\ finishes = 0
  BY DEF Init
<1> QED
  BY <1>1, <1>2, FS_EmptySet

LEMMA NextPaid == TypeOK /\ TypeOK' /\ Paid /\ [Next]_vars => Paid'
<1> SUFFICES ASSUME TypeOK, TypeOK', Paid, [Next]_vars PROVE Paid'
  OBVIOUS
<1> USE DEF TypeOK, told
<1>1. ASSUME caller' = caller, created' = created, enqueued' = enqueued, finishes' = finishes
      PROVE  Paid'
  BY <1>1 DEF Paid, Creating, Enqueuing
<1>2. CASE Tick \/ \E s \in Subscription : Subscribe(s)
  BY <1>1, <1>2 DEF Tick, Subscribe
<1>3. CASE UNCHANGED vars
  BY <1>1, <1>3 DEF vars
<1>4. CASE Crash
  <2>1. \A s \in Subscription : /\ Creating(s)' \subseteq Creating(s)
                               /\ Enqueuing(s)' \subseteq Enqueuing(s)
    BY <1>4 DEF Crash, Die, Creating, Enqueuing, Ready, Rest
  <2> QED
    BY <1>4, <2>1, PaidKept DEF Crash
<1> QED
  BY <1>2, <1>3, <1>4, EditPays, NotifyPays DEF Next

LEMMA PaidIsEnough == TypeOK /\ Paid => ToldOfFinished
<1> SUFFICES ASSUME TypeOK, Paid, NEW s \in Subscription
             PROVE  enqueued[s] <= created[s] /\ created[s] <= finishes
  BY DEF ToldOfFinished
<1>1. Cardinality(Creating(s)) \in Nat /\ Cardinality(Enqueuing(s)) \in Nat
  BY Counted DEF Creating, Enqueuing
<1> QED
  BY <1>1 DEF TypeOK, Paid

\* However finishers, sweeps, updates, removals, crashes and failed calls
\* interleave, a subscription is told at most once for every save that finished
\* the contest (contest.service.ts:35-38, 52-54; contest-finished.listener.ts:25-66).
THEOREM ToldOfFinishes == Spec => []ToldOfFinished
BY InitTyped, NextTyped, InitPaid, NextPaid, PaidIsEnough, PTL DEF Spec

-----------------------------------------------------------------------------
(* How often the contest is finished *)

LEMMA TimesMonotone == \A s, m, n \in Nat : m <= n => s * m <= s * n /\ s * m \in Nat
<1> SUFFICES ASSUME NEW s \in Nat, NEW m \in Nat, NEW k \in Nat
             PROVE  s * m <= s * (m + k) /\ s * m \in Nat
  <2>1. \A m, n \in Nat : m <= n => n - m \in Nat /\ m + (n - m) = n
    OBVIOUS
  <2> QED
    BY <2>1
<1>1. s * (m + k) = s * m + s * k /\ s * k \in Nat /\ s * m \in Nat
  OBVIOUS
<1> QED
  BY <1>1

LEMMA AccountsCounted ==
    /\ Cardinality(Sweeper) \in Nat
    /\ Cardinality(Saving \cap Finisher) \in Nat
    /\ Cardinality(Saving \cap Updater) \in Nat
    /\ Cardinality(Sweeping) \in Nat
    /\ Cardinality(Sweeping) <= Cardinality(Sweeper)
<1>1. Sweeper \in SUBSET Caller /\ Sweeping \in SUBSET Sweeper
  BY DEF Sweeping, Caller
<1> QED
  BY <1>1, Counted, CountKept DEF Saving, Caller

\* The next state counts like this one.
LEMMA AccountsCountedNext ==
    /\ Cardinality(Saving' \cap Finisher) \in Nat
    /\ Cardinality(Saving' \cap Updater) \in Nat
    /\ Cardinality(Sweeping') \in Nat
    /\ Cardinality(Sweeping') <= Cardinality(Sweeper)
<1>1. Sweeper \in SUBSET Caller /\ Sweeping' \in SUBSET Sweeper
  BY DEF Sweeping, Caller
<1>2. Saving' \cap Finisher \in SUBSET Caller /\ Saving' \cap Updater \in SUBSET Caller
  BY DEF Caller
<1> QED
  BY <1>1, <1>2, Counted, CountKept

\* A step without a save that lets nobody save again keeps the accounts.
LEMMA AccountedKept ==
    ASSUME TypeOK, Accounted, finishes' = finishes,
           Saving' \subseteq Saving, Sweeping' \subseteq Sweeping
    PROVE  Accounted'
<1>1. /\ Cardinality(Saving' \cap Finisher) <= Cardinality(Saving \cap Finisher)
      /\ Cardinality(Saving' \cap Updater) <= Cardinality(Saving \cap Updater)
      /\ Cardinality(Sweeping') <= Cardinality(Sweeping)
  BY CountKept DEF Saving, Sweeping, Caller
<1>2. Cardinality(Sweeper) * Cardinality(Saving' \cap Updater)
          <= Cardinality(Sweeper) * Cardinality(Saving \cap Updater)
  BY <1>1, TimesMonotone, AccountsCounted, AccountsCountedNext
<1> DEFINE owed == Cardinality(Sweeper) * Cardinality(Saving \cap Updater)
<1>3. owed \in Nat /\ Cardinality(Sweeper) * Cardinality(Saving' \cap Updater) \in Nat
  BY TimesMonotone, AccountsCounted, AccountsCountedNext
<1>4. Bound \in Int
  <2>1. Cardinality(Finisher) \in Nat /\ Cardinality(Updater) \in Nat
    BY Counted DEF Caller
  <2> QED
    BY <2>1, AccountsCounted DEF Bound
<1> QED
  BY <1>1, <1>2, <1>3, <1>4, AccountsCounted, AccountsCountedNext DEF TypeOK, Accounted, Bound

\* A save costs a finisher its only one, a sweep its turn, and an update one of
\* the rounds it may give to the sweeps.
LEMMA WriteAccounted ==
    ASSUME TypeOK, Accounted, NEW a \in Caller, caller[a].pc = "save", Write(a),
           Saving' \subseteq Saving, a \in Finisher \cup Updater => a \notin Saving',
           \A b \in Sweeper : caller'[b].pc = "save" => caller[b].pc = "save" /\ b # a
    PROVE  Accounted'
<1>0. /\ caller[a].read \in Contest /\ contest \in Contest
      /\ a \in Finisher \cup Updater => a \in Saving
      /\ a \in Finisher \cup Sweeper => a \notin Updater \cup Remover
      /\ a \in Sweeper => a \notin Finisher
  BY CallersAssumption DEF TypeOK, CallerState, Saving, Caller
<1> DEFINE owed == Cardinality(Sweeper) * Cardinality(Saving \cap Updater)
           owes == Cardinality(Sweeper) * Cardinality(Saving' \cap Updater)
<1>1. owed \in Nat /\ owes \in Nat /\ Bound \in Int /\ finishes \in Nat
  <2>1. Cardinality(Finisher) \in Nat /\ Cardinality(Updater) \in Nat
    BY Counted DEF Caller
  <2> QED
    BY <2>1, AccountsCounted, AccountsCountedNext DEF Bound, TypeOK
<1>2. /\ Cardinality(Saving' \cap Finisher) <= Cardinality(Saving \cap Finisher)
      /\ Cardinality(Saving' \cap Updater) <= Cardinality(Saving \cap Updater)
  BY CountKept DEF Saving, Caller
<1>3. owes <= owed
  BY <1>2, TimesMonotone, AccountsCounted, AccountsCountedNext
<1>4. CASE a \in Finisher
  <2>1. contest'.finishedAt /\ finishes' = finishes + 1
    BY <1>0, <1>4, WriteCounts DEF Write, Store, Contest
  <2>2. Sweeping' \subseteq Sweeping
    BY <2>1 DEF Sweeping
  <2>3. Cardinality(Sweeping') <= Cardinality(Sweeping)
    BY <2>2, CountKept DEF Sweeping, Caller
  <2>4. Cardinality(Saving' \cap Finisher) + 1 <= Cardinality(Saving \cap Finisher)
    <3>1. a \in Saving \cap Finisher /\ Saving' \cap Finisher \subseteq (Saving \cap Finisher) \ {a}
      BY <1>0, <1>4
    <3> QED
      BY <3>1, CountDown DEF Caller
  <2> QED
    BY <1>1, <1>3, <2>1, <2>3, <2>4, AccountsCounted, AccountsCountedNext DEF Accounted, Bound
<1>5. CASE a \in Sweeper
  <2>1. contest'.finishedAt /\ finishes' = finishes + 1
    BY <1>0, <1>5, WriteCounts DEF Write, Store, Contest
  <2>2. a \in Sweeping /\ Sweeping' \subseteq Sweeping \ {a}
    BY <1>5, <2>1 DEF Sweeping
  <2>3. Cardinality(Sweeping') + 1 <= Cardinality(Sweeping)
    BY <2>2, CountDown DEF Sweeping, Caller
  <2> QED
    BY <1>1, <1>2, <1>3, <2>1, <2>3, AccountsCounted, AccountsCountedNext DEF Accounted, Bound
<1>6. CASE a \in Updater
  <2>1. finishes' = finishes
    BY <1>0, <1>6, WriteCounts
  <2>2. Cardinality(Saving' \cap Updater) + 1 <= Cardinality(Saving \cap Updater)
    <3>1. a \in Saving \cap Updater /\ Saving' \cap Updater \subseteq (Saving \cap Updater) \ {a}
      BY <1>0, <1>6
    <3> QED
      BY <3>1, CountDown DEF Caller
  <2>3. owes + Cardinality(Sweeper) <= owed
    <3>1. \A s, m, n \in Nat : m + 1 <= n => s * m + s <= s * n
      <4> SUFFICES ASSUME NEW s \in Nat, NEW m \in Nat, NEW n \in Nat, m + 1 <= n
                   PROVE  s * m + s <= s * n
        OBVIOUS
      <4>1. s * (m + 1) <= s * n
        BY TimesMonotone
      <4> QED
        BY <4>1
    <3> QED
      BY <2>2, <3>1, AccountsCounted, AccountsCountedNext
  <2> QED
    BY <1>1, <1>2, <2>1, <2>3, AccountsCounted, AccountsCountedNext DEF Accounted, Bound
<1>7. CASE a \in Remover \cup Restorer
  <2>0. a \notin Finisher \cup Sweeper \cup Updater
    BY <1>7, CallersAssumption
  <2>1. finishes' = finishes
    BY <2>0, WriteCounts
  <2>2. contest'.finishedAt = contest.finishedAt \/ contest'.finishedAt
    BY <1>0, <2>0 DEF Write, Store, Contest
  <2>3. Sweeping' \subseteq Sweeping
    BY <2>2 DEF Sweeping
  <2> QED
    BY <2>1, <2>3, AccountedKept
<1> QED
  BY <1>4, <1>5, <1>6, <1>7 DEF Caller

LEMMA EditAccounted ==
    ASSUME TypeOK, TypeOK', Accounted, NEW a \in Caller, Edit(a) \/ SaveFails(a) \/ SweepRead(a)
    PROVE  Accounted'
<1> USE DEF TypeOK, told, Saving, Sweeping, CallerState
<1>1. ASSUME NEW found \in BOOLEAN, Read(a, found),
             a \in Sweeper => ~contest.finishedAt
      PROVE  Accounted'
  <2>1. /\ finishes' = finishes /\ contest' = contest
        /\ \A b \in Caller : b # a => caller'[b] = caller[b]
        /\ caller[a].pc = "ready"
    BY <1>1 DEF Read, GoTo
  <2> QED
    BY <1>1, <2>1, AccountedKept DEF Caller
<1>2. CASE FinishRead(a)
  BY <1>1, <1>2, CallersAssumption DEF FinishRead, FinishFinds
<1>3. CASE EditRead(a)
  BY <1>1, <1>3, CallersAssumption DEF EditRead
<1>4. CASE SweepRead(a)
  BY <1>1, <1>4 DEF SweepRead, SweepFinds
<1>5. CASE Save(a)
  <2>1. /\ Write(a) /\ caller[a].pc = "save"
        /\ caller'[a].pc \in {"listen", "done"}
        /\ \A b \in Caller : b # a => caller'[b] = caller[b]
    BY <1>5 DEF Save, GoTo
  <2> QED
    BY <2>1, WriteAccounted DEF Caller
<1>6. CASE SaveFails(a)
  <2>1. /\ caller[a].pc = "save"
        /\ a \in Finisher \cup Updater => caller'[a].pc = "done"
        /\ \A b \in Caller : /\ caller'[b].pc = "ready" => caller[b].pc = "ready" \/ b \in Sweeper
                             /\ caller'[b].pc = "save" => b # a /\ caller[b].pc = "save"
    <3>1. CASE a \in Sweeper
      BY <1>6, <3>1, CallersAssumption DEF SaveFails, Die, Ready, Rest
    <3>2. CASE a \notin Sweeper
      BY <1>6, <3>2 DEF SaveFails, End, GoTo, Ready, Rest
    <3> QED
      BY <3>1, <3>2
  <2>2. PICK done \in BOOLEAN : IF done THEN Write(a)
                               ELSE contest' = contest /\ finishes' = finishes
    BY <1>6 DEF SaveFails
  <2>3. Saving' \subseteq Saving /\ (a \in Finisher \cup Updater => a \notin Saving')
    BY <2>1, CallersAssumption DEF Caller
  <2>4. CASE done
    BY <2>1, <2>2, <2>3, <2>4, WriteAccounted DEF Caller
  <2>5. CASE ~done
    <3>1. Sweeping' \subseteq Sweeping
      BY <2>1, <2>2, <2>5 DEF Caller
    <3> QED
      BY <2>2, <2>3, <2>5, <3>1, AccountedKept
  <2> QED
    BY <2>4, <2>5
<1>7. CASE Restore(a)
  <2>1. contest'.finishedAt = contest.finishedAt /\ finishes' = finishes
    BY <1>7 DEF Restore, Contest
  <2>2. /\ caller'[a].pc = "done"
        /\ \A b \in Caller : b # a => caller'[b] = caller[b]
    BY <1>7 DEF Restore, GoTo
  <2> QED
    BY <2>1, <2>2, AccountedKept DEF Caller
<1> QED
  BY <1>2, <1>3, <1>4, <1>5, <1>6, <1>7 DEF Edit

LEMMA InitAccounted == Init => Accounted
<1> SUFFICES ASSUME Init PROVE Accounted
  OBVIOUS
<1>1. Saving = Finisher \cup Updater /\ Sweeping = Sweeper /\ finishes = 0
  BY DEF Init, Saving, Sweeping, Ready, NewContest, Caller
<1>2. Saving \cap Finisher = Finisher /\ Saving \cap Updater = Updater
  BY <1>1
<1>3. /\ Cardinality(Finisher) \in Nat /\ Cardinality(Sweeper) \in Nat
      /\ Cardinality(Updater) \in Nat
  BY Counted DEF Caller
<1>4. \A s, u \in Nat : s * (1 + u) = s + s * u /\ s * u \in Nat
  OBVIOUS
<1>5. Bound = Cardinality(Finisher) + Cardinality(Sweeper)
                 + Cardinality(Sweeper) * Cardinality(Updater)
  BY <1>3, <1>4 DEF Bound
<1>6. Cardinality(Sweeper) * Cardinality(Updater) \in Nat
  BY <1>3, <1>4
<1> DEFINE owed == Cardinality(Sweeper) * Cardinality(Updater)
<1>7. finishes + Cardinality(Finisher) + owed + Cardinality(Sweeper) <= Bound
  <2> HIDE DEF Bound
  <2> QED
    BY <1>1, <1>3, <1>5, <1>6
<1> QED
  BY <1>1, <1>2, <1>7 DEF Accounted

LEMMA NextAccounted == TypeOK /\ TypeOK' /\ Accounted /\ [Next]_vars => Accounted'
<1> SUFFICES ASSUME TypeOK, TypeOK', Accounted, [Next]_vars PROVE Accounted'
  OBVIOUS
<1> USE DEF TypeOK, told, Saving, Sweeping, CallerState
<1>1. ASSUME caller' = caller, contest' = contest, finishes' = finishes
      PROVE  Accounted'
  BY <1>1, AccountedKept
<1>2. CASE Tick \/ \E s \in Subscription : Subscribe(s)
  BY <1>1, <1>2 DEF Tick, Subscribe
<1>3. CASE UNCHANGED vars
  BY <1>1, <1>3 DEF vars
<1>4. CASE Crash
  BY <1>4, AccountedKept, CallersAssumption DEF Crash, Die, Ready, Rest, Caller
<1>5. ASSUME NEW a \in Caller, Notify(a) \/ ListenerFails(a) PROVE Accounted'
  <2>1. contest' = contest /\ finishes' = finishes
    BY <1>5 DEF Notify, Listen, CreateDelivery, EnqueueDelivery, ListenerFails
  <2>2. \A b \in Caller : b # a => caller'[b] = caller[b]
    BY <1>5 DEF Notify, Listen, CreateDelivery, EnqueueDelivery, ListenerFails, End, GoTo
  <2>3. caller'[a].pc \in {"create", "enqueue", Rest(a)}
    <3>1. CASE End(a)
      BY <3>1 DEF End, GoTo, Ready
    <3>2. CASE ~End(a)
      <4>1. CASE Listen(a)
        BY <3>2, <4>1 DEF Listen
      <4>2. ASSUME NEW s \in Subscription, CreateDelivery(a, s)
            PROVE  caller'[a].pc = "enqueue"
        BY <4>2 DEF CreateDelivery
      <4>3. ASSUME NEW s \in Subscription, EnqueueDelivery(a, s)
            PROVE  caller'[a].pc = "create"
        BY <3>2, <4>3 DEF EnqueueDelivery
      <4> QED
        BY <1>5, <3>2, <4>1, <4>2, <4>3 DEF Notify, ListenerFails
    <3> QED
      BY <3>1, <3>2
  <2> QED
    BY <2>1, <2>2, <2>3, AccountedKept, CallersAssumption DEF Rest, Caller
<1> QED
  BY <1>2, <1>3, <1>4, <1>5, EditAccounted DEF Next

LEMMA AccountedIsEnough == TypeOK /\ Accounted => FinishesAreBounded
<1> SUFFICES ASSUME TypeOK, Accounted PROVE FinishesAreBounded
  OBVIOUS
<1>1. Cardinality(Sweeper) * Cardinality(Saving \cap Updater) \in Nat
  BY TimesMonotone, AccountsCounted
<1>2. Bound \in Int
  <2>1. Cardinality(Finisher) \in Nat /\ Cardinality(Updater) \in Nat
    BY Counted DEF Caller
  <2> QED
    BY <2>1, AccountsCounted DEF Bound
<1>3. finishes <= Bound
  BY <1>1, <1>2, AccountsCounted DEF TypeOK, Accounted
<1> QED
  BY <1>3 DEF FinishesAreBounded, Bound

\* However many callers overlap, each finisher finishes the contest once, and each
\* sweep once and once more for every update that puts finishedAt back; removals,
\* restorations, crashes and failed saves add nothing
\* (contest.service.ts:25-56, generic-crud.service.ts:34-50).
THEOREM FinishesBounded == Spec => []FinishesAreBounded
BY InitTyped, NextTyped, InitAccounted, NextAccounted, AccountedIsEnough, PTL DEF Spec

-----------------------------------------------------------------------------
(* The result: definitions *)

\* A submission without a completedAt has no score yet, and a request has neither.
Unscored ==
    \A e \in Entry : /\ entry[e].at = 0 => entry[e].score = 0
                     /\ entry[e].at # 0 => e \in Stored

\* Those a settled winner won against are closed, and unless the end has moved since
\* they are all there are and nobody can join them.
Stands ==
    \A p \in announced : p.settled =>
        /\ p.winner \in p.among /\ \A e \in p.among : entry[e].state = "closed"
        /\ entry[p.winner].score = p.score
        /\ \A e \in p.among : ~Before(e, p.winner)
        /\ p.moves <= moves
        /\ moves = p.moves => Settled /\ Stored = p.among

ResultInv == ResultTypeOK /\ Unscored /\ Stands

-----------------------------------------------------------------------------
(* Submissions *)

\* What the intake and the judging make of one submission.
EntryStep(e) ==
    \/ Check(e) \/ StoreEntry(e) \/ FailEntry(e) \/ ReopenEntry(e) \/ CloseEntry(e)
    \/ \E points \in Points : JudgeEntry(e, points)

\* They change this one only, not when it is closed, and leave the contest alone.
LEMMA EntryChanges ==
    ASSUME ResultTypeOK, NEW e \in Entry, EntryStep(e)
    PROVE  /\ UNCHANGED <<vars, moves, announced>>
           /\ entry[e].state # "closed"
           /\ entry[e].state = "none" => OpenNow
           /\ \E to \in EntryState :
                 /\ entry' = [entry EXCEPT ![e] = to]
                 /\ to.at = 0 /\ to.score # 0 => entry[e].at = 0 /\ entry[e].score = to.score
                 /\ to.at # 0 => to.state \notin {"none", "checked"}
<1> USE DEF EntryBecomes
<1>0. /\ entry[e] \in EntryState /\ 0 \in 0..MaxTime
      /\ \A t \in 1..clock : t \in 0..MaxTime /\ t # 0
  BY CallersAssumption DEF ResultTypeOK, TypeOK, Time
<1>1. CASE Check(e)
  <2> DEFINE to == [NoEntry EXCEPT !.state = "checked"]
  <2>1. to \in EntryState /\ to.at = 0 /\ to.score = 0
    BY <1>0 DEF NoEntry, EntryState
  <2>2. EntryBecomes(e, to) /\ entry[e].state = "none" /\ OpenNow
    BY <1>1 DEF Check
  <2> HIDE DEF to
  <2> QED
    BY <2>1, <2>2
<1>2. CASE StoreEntry(e)
  <2> DEFINE to == [NoEntry EXCEPT !.state = "queued"]
  <2>1. to \in EntryState /\ to.at = 0 /\ to.score = 0
    BY <1>0 DEF NoEntry, EntryState
  <2>2. EntryBecomes(e, to) /\ entry[e].state = "checked"
    BY <1>2 DEF StoreEntry
  <2> HIDE DEF to
  <2> QED
    BY <2>1, <2>2
<1>3. CASE FailEntry(e)
  <2>1. PICK t \in 1..clock : EntryBecomes(e, [entry[e] EXCEPT !.at = t])
    BY <1>3 DEF FailEntry
  <2>2. /\ [entry[e] EXCEPT !.at = t] \in EntryState /\ [entry[e] EXCEPT !.at = t].at # 0
        /\ [entry[e] EXCEPT !.at = t].state = entry[e].state
    BY <1>0 DEF EntryState
  <2> QED
    BY <1>3, <2>1, <2>2 DEF FailEntry
<1>4. CASE ReopenEntry(e)
  <2>1. /\ [entry[e] EXCEPT !.state = "queued"] \in EntryState
        /\ [entry[e] EXCEPT !.state = "queued"].at = entry[e].at
        /\ [entry[e] EXCEPT !.state = "queued"].score = entry[e].score
        /\ [entry[e] EXCEPT !.state = "queued"].state = "queued"
    BY <1>0 DEF EntryState
  <2> QED
    BY <1>4, <2>1 DEF ReopenEntry
<1>5. CASE CloseEntry(e)
  <2>1. /\ [entry[e] EXCEPT !.state = "closed"] \in EntryState
        /\ [entry[e] EXCEPT !.state = "closed"].at = entry[e].at
        /\ [entry[e] EXCEPT !.state = "closed"].score = entry[e].score
        /\ [entry[e] EXCEPT !.state = "closed"].state = "closed"
    BY <1>0 DEF EntryState
  <2> QED
    BY <1>5, <2>1 DEF CloseEntry
<1>6. ASSUME NEW points \in Points, JudgeEntry(e, points)
      PROVE  /\ UNCHANGED <<vars, moves, announced>>
             /\ entry[e].state = "queued"
             /\ \E to \in EntryState :
                   entry' = [entry EXCEPT ![e] = to] /\ to.at # 0 /\ to.state = "judged"
  <2>1. PICK t \in 1..clock :
           EntryBecomes(e, [state |-> "judged", score |-> points, at |-> t])
    BY <1>6 DEF JudgeEntry
  <2>2. [state |-> "judged", score |-> points, at |-> t] \in EntryState
    BY <1>0, EntryAssumption DEF EntryState
  <2>3. [state |-> "judged", score |-> points, at |-> t].at # 0
    BY <1>0
  <2> QED
    BY <1>6, <2>1, <2>2, <2>3 DEF JudgeEntry
<1>7. CASE \E points \in Points : JudgeEntry(e, points)
  BY <1>6, <1>7
<1> QED
  BY <1>1, <1>2, <1>3, <1>4, <1>5, <1>7 DEF EntryStep

LEMMA EntryKeeps ==
    ASSUME ResultTypeOK, Unscored, NEW e \in Entry, EntryStep(e)
    PROVE  ResultTypeOK' /\ Unscored'
<1>1. PICK to \in EntryState :
         /\ entry' = [entry EXCEPT ![e] = to]
         /\ to.at = 0 /\ to.score # 0 => entry[e].at = 0 /\ entry[e].score = to.score
         /\ to.at # 0 => to.state \notin {"none", "checked"}
  BY EntryChanges
<1>2. UNCHANGED <<vars, moves, announced>>
  BY EntryChanges
<1>3. TypeOK'
  BY <1>2 DEF vars, told, TypeOK, ResultTypeOK
<1>4. entry'[e] = to /\ \A f \in Entry : f # e => entry'[f] = entry[f]
  BY <1>1 DEF ResultTypeOK
<1>5. Unscored'
  BY <1>1, <1>4 DEF Unscored, Stored
<1> QED
  BY <1>1, <1>2, <1>3, <1>5 DEF ResultTypeOK

\* A crash takes requests back and opens jobs; it changes no score and no time.
LEMMA CrashChanges ==
    ASSUME ResultTypeOK, ProcessDies, NEW e \in Entry
    PROVE  /\ entry'[e] \in EntryState
           /\ entry[e].state \in {"none", "closed"} => entry'[e] = entry[e]
           /\ \/ entry'[e].at = 0 /\ entry'[e].score = 0
              \/ /\ entry'[e].at = entry[e].at /\ entry'[e].score = entry[e].score
                 /\ e \in Stored => entry'[e].state \notin {"none", "checked"}
<1>1. entry[e] \in EntryState /\ 0 \in 0..MaxTime
  BY CallersAssumption DEF ResultTypeOK
<1>2. entry'[e] = Interrupted(e)
  BY DEF ProcessDies
<1>3. CASE entry[e].state = "checked"
  BY <1>1, <1>2, <1>3 DEF Interrupted, NoEntry, EntryState
<1>4. CASE entry[e].state = "judged"
  <2>1. entry'[e] = [entry[e] EXCEPT !.state = "queued"]
    BY <1>2, <1>4 DEF Interrupted
  <2> QED
    BY <1>1, <1>4, <2>1 DEF EntryState
<1>5. CASE entry[e].state \notin {"checked", "judged"}
  <2>1. entry'[e] = entry[e]
    BY <1>2, <1>5 DEF Interrupted
  <2> QED
    BY <1>1, <2>1 DEF Stored
<1> QED
  BY <1>3, <1>4, <1>5

LEMMA CrashKeeps ==
    ASSUME ResultTypeOK, Unscored, ProcessDies
    PROVE  ResultTypeOK' /\ Unscored'
<1>1. TypeOK'
  <2>1. Next
    BY DEF ProcessDies, Next, Caller
  <2> QED
    BY <2>1, NextTyped DEF ResultTypeOK
<1>2. entry' \in [Entry -> EntryState]
  BY CrashChanges DEF ProcessDies
<1>3. Unscored'
  BY CrashChanges DEF Unscored, Stored
<1> QED
  BY <1>1, <1>2, <1>3 DEF ProcessDies, CountMoves, ResultTypeOK

-----------------------------------------------------------------------------
(* The end of the contest *)

\* Whatever is not about submissions is a step of ContestFinish.
LEMMA EndIsNext ==
    ASSUME Elsewhere \/ \E a \in Caller : Announce(a)
    PROVE  Next /\ entry' = entry
BY DEF Elsewhere, Announce, Next, Notify

LEMMA AnnounceTyped ==
    ASSUME ResultTypeOK, NEW a \in Caller, Announce(a)
    PROVE  announced' \subseteq Announcement
<1>1. ASSUME NEW e \in Winners
      PROVE  [winner |-> e, score |-> entry[e].score, among |-> Stored,
              moves |-> moves, settled |-> Settled] \in Announcement
  <2>1. e \in Entry /\ entry[e].score \in 0..100 /\ Stored \in SUBSET Entry
    BY <1>1 DEF Winners, Stored, ResultTypeOK, EntryState
  <2>2. Settled \in BOOLEAN /\ moves \in Nat
    BY DEF Settled, ResultTypeOK
  <2> QED
    BY <2>1, <2>2 DEF Announcement
<1> QED
  BY <1>1 DEF Announce, ResultTypeOK

LEMMA EndKeeps ==
    ASSUME ResultTypeOK, Unscored, Elsewhere \/ \E a \in Caller : Announce(a)
    PROVE  ResultTypeOK' /\ Unscored'
<1>1. Next /\ entry' = entry
  BY EndIsNext
<1>2. TypeOK'
  BY <1>1, NextTyped DEF ResultTypeOK
<1>3. announced' \subseteq Announcement
  BY AnnounceTyped DEF Elsewhere, ResultTypeOK
<1>4. moves' \in Nat
  BY DEF Elsewhere, CountMoves, Announce, ResultTypeOK
<1> QED
  BY <1>1, <1>2, <1>3, <1>4 DEF ResultTypeOK, Unscored, Stored

LEMMA ResultInitInv == ResultInit => ResultInv
<1> SUFFICES ASSUME ResultInit PROVE ResultInv
  OBVIOUS
<1>1. NoEntry \in EntryState
  BY CallersAssumption DEF NoEntry, EntryState
<1>2. ResultTypeOK
  BY <1>1, InitTyped DEF ResultInit, ResultTypeOK
<1>3. Unscored
  BY DEF ResultInit, Unscored, NoEntry
<1>4. Stands
  BY DEF ResultInit, Stands
<1> QED
  BY <1>2, <1>3, <1>4 DEF ResultInv

\* The cases of a step.
LEMMA ResultSteps ==
    ASSUME [ResultNext]_resultVars
    PROVE  \/ \E e \in Entry : EntryStep(e)
           \/ \E a \in Caller : Announce(a)
           \/ Elsewhere \/ ProcessDies \/ UNCHANGED resultVars
BY DEF ResultNext, EntryStep

LEMMA ResultNextTyped ==
    ResultTypeOK /\ Unscored /\ [ResultNext]_resultVars => ResultTypeOK' /\ Unscored'
<1> SUFFICES ASSUME ResultTypeOK, Unscored, [ResultNext]_resultVars
             PROVE  ResultTypeOK' /\ Unscored'
  OBVIOUS
<1>1. CASE UNCHANGED resultVars
  BY <1>1 DEF resultVars, vars, TypeOK, ResultTypeOK, Unscored, Stored
<1> QED
  BY <1>1, EntryKeeps, CrashKeeps, EndKeeps, ResultSteps

LEMMA ContestTyped ==
    ASSUME ResultTypeOK, [ResultNext]_resultVars
    PROVE  TypeOK'
<1>1. CASE UNCHANGED vars
  BY <1>1 DEF vars, told, TypeOK, ResultTypeOK
<1>2. CASE Next
  BY <1>2, NextTyped DEF ResultTypeOK
<1> QED
  BY <1>1, <1>2, ResultSteps, EntryChanges, EndIsNext DEF ProcessDies, Next, Caller, resultVars

\* Only a step that counts as a move takes the end of the contest further away.
LEMMA EndStays ==
    ASSUME ResultTypeOK, [ResultNext]_resultVars
    PROVE  /\ clock' >= clock /\ moves' >= moves
           /\ moves' = moves => contest'.endTime <= contest.endTime
<1>0. clock \in Nat /\ moves \in Nat /\ contest.endTime \in Nat /\ contest'.endTime \in Nat
  BY ContestTyped DEF ResultTypeOK, TypeOK, Contest, Time
<1>1. CASE clock' = clock /\ moves' = moves /\ contest' = contest
  BY <1>0, <1>1
<1>2. CASE Elsewhere \/ ProcessDies
  <2>1. clock' = clock \/ Tick
    <3>1. ASSUME NEW a \in Caller,
                 Edit(a) \/ SaveFails(a) \/ SweepRead(a) \/ ListenerFails(a)
          PROVE  clock' = clock
      BY <3>1 DEF Edit, FinishRead, EditRead, SweepRead, Read, Save, SaveFails, Write,
                  Restore, ListenerFails
    <3>2. ASSUME NEW a \in Caller, NEW s \in Subscription,
                 CreateDelivery(a, s) \/ EnqueueDelivery(a, s)
          PROVE  clock' = clock
      BY <3>2 DEF CreateDelivery, EnqueueDelivery
    <3> QED
      BY <1>2, <3>1, <3>2 DEF Elsewhere, ProcessDies, Subscribe, Crash, Caller
  <2>3. clock' >= clock
    BY <1>0, <2>1 DEF Tick
  <2>2. moves' = IF contest'.endTime > contest.endTime THEN moves + 1 ELSE moves
    BY <1>2 DEF Elsewhere, ProcessDies, CountMoves
  <2> QED
    BY <1>0, <2>2, <2>3
<1>3. CASE \E e \in Entry : EntryStep(e)
  BY <1>1, <1>3, EntryChanges DEF vars
<1>4. CASE \E a \in Caller : Announce(a)
  BY <1>1, <1>4 DEF Announce, Listen
<1>5. CASE UNCHANGED resultVars
  BY <1>1, <1>5 DEF resultVars, vars
<1> QED
  BY <1>2, <1>3, <1>4, <1>5, ResultSteps

\* A closed submission never changes.
LEMMA ClosedStays ==
    ASSUME ResultTypeOK, [ResultNext]_resultVars, NEW e \in Entry, entry[e].state = "closed"
    PROVE  entry'[e] = entry[e]
<1>1. ASSUME NEW f \in Entry, EntryStep(f) PROVE entry'[e] = entry[e]
  BY <1>1, EntryChanges DEF ResultTypeOK
<1>2. CASE ProcessDies
  BY <1>2, CrashChanges
<1> QED
  BY <1>1, <1>2, EndIsNext, ResultSteps DEF resultVars

\* When the contest is over and nothing underway, no submission changes before the end
\* of the contest moves.
LEMMA SettledStays ==
    ASSUME ResultTypeOK, [ResultNext]_resultVars, Settled, moves' = moves
    PROVE  Settled' /\ Stored' = Stored
<1>1. contest.endTime < clock /\ contest'.endTime <= contest.endTime /\ clock' >= clock
  BY EndStays DEF Settled
<1>2. contest.endTime \in Nat /\ clock \in Nat
  BY DEF ResultTypeOK, TypeOK, Contest, Time
<1>3. ASSUME NEW e \in Entry PROVE entry'[e] = entry[e]
  <2>1. entry[e].state \in {"none", "closed"}
    BY DEF Settled
  <2>2. ASSUME NEW f \in Entry, EntryStep(f) PROVE FALSE
    <3>1. entry[f].state \in {"none", "closed"} /\ ~OpenNow
      BY <1>1, <1>2 DEF Settled, OpenNow
    <3>2. entry[f].state # "closed" /\ (entry[f].state = "none" => OpenNow)
      BY <2>2, EntryChanges
    <3> QED
      BY <3>1, <3>2
  <2>3. CASE ProcessDies
    BY <2>1, <2>3, CrashChanges
  <2> QED
    BY <2>2, <2>3, EndIsNext, ResultSteps DEF resultVars
<1>4. contest'.endTime \in Nat /\ clock' \in Nat
  BY ContestTyped DEF TypeOK, Contest, Time
<1>5. contest'.endTime < clock'
  BY <1>1, <1>2, <1>4
<1>6. Settled'
  BY <1>3, <1>5 DEF Settled
<1> QED
  BY <1>3, <1>6 DEF Stored

LEMMA ResultNextStands ==
    ResultInv /\ [ResultNext]_resultVars => Stands'
<1> SUFFICES ASSUME ResultInv, [ResultNext]_resultVars, NEW p \in announced', p.settled
             PROVE  /\ p.winner \in p.among /\ \A e \in p.among : entry'[e].state = "closed"
                    /\ entry'[p.winner].score = p.score
                    /\ \A e \in p.among : ~Before(e, p.winner)'
                    /\ p.moves <= moves'
                    /\ moves' = p.moves => Settled' /\ Stored' = p.among
  BY DEF Stands
<1> USE DEF ResultInv
<1>0. moves \in Nat /\ moves' \in Nat
  BY ResultNextTyped DEF ResultTypeOK
<1>1. CASE p \in announced
  <2>1. /\ p.winner \in p.among /\ \A e \in p.among : entry[e].state = "closed"
        /\ entry[p.winner].score = p.score
        /\ \A e \in p.among : ~Before(e, p.winner)
        /\ p.moves <= moves
        /\ moves = p.moves => Settled /\ Stored = p.among
    BY <1>1 DEF Stands
  <2>2. p.among \subseteq Entry /\ p.moves \in Nat
    BY <1>1 DEF ResultTypeOK, Announcement
  <2>3. \A e \in p.among : entry'[e] = entry[e]
    BY <2>1, <2>2, ClosedStays
  <2>4. \A e \in p.among : ~Before(e, p.winner)'
    BY <2>1, <2>3 DEF Before
  <2>5. moves' >= moves
    BY EndStays
  <2>6. ASSUME moves' = p.moves PROVE Settled' /\ Stored' = p.among
    <3>1. moves = p.moves /\ moves' = moves
      BY <1>0, <2>1, <2>2, <2>5, <2>6
    <3> QED
      BY <2>1, <3>1, SettledStays
  <2> QED
    BY <1>0, <2>1, <2>2, <2>3, <2>4, <2>5, <2>6
<1>2. CASE p \notin announced
  <2>1. PICK a \in Caller : Announce(a)
    BY <1>2, EntryChanges, ResultSteps DEF ProcessDies, Elsewhere, resultVars
  <2>2. PICK e \in Winners :
           p = [winner |-> e, score |-> entry[e].score, among |-> Stored,
                moves |-> moves, settled |-> Settled]
    BY <1>2, <2>1 DEF Announce
  <2>3. /\ p.winner = e /\ p.score = entry[e].score /\ p.among = Stored
        /\ p.moves = moves /\ Settled
    BY <2>2
  <2>4. moves' = moves /\ entry' = entry
    BY <2>1 DEF Announce
  <2>5. Settled' /\ Stored' = Stored
    BY <2>3, <2>4, SettledStays
  <2>6. e \in Stored /\ \A f \in Stored : ~Before(f, e)
    BY DEF Winners
  <2>7. \A f \in Stored : entry[f].state = "closed"
    BY <2>3 DEF Settled, Stored
  <2>8. \A f \in Stored : ~Before(f, e)'
    BY <2>4, <2>6 DEF Before
  <2> QED
    BY <1>0, <2>3, <2>4, <2>5, <2>6, <2>7, <2>8
<1> QED
  BY <1>1, <1>2

LEMMA ResultNextInv == ResultInv /\ [ResultNext]_resultVars => ResultInv'
BY ResultNextTyped, ResultNextStands DEF ResultInv

-----------------------------------------------------------------------------
(* Theorems *)

\* Every variable of contest, submissions and announcements has its type, in every
\* instance; above all no run adds to the score of an earlier one.
THEOREM ResultTypeCorrect == ResultSpec => []ResultTypeOK
BY ResultInitInv, ResultNextInv, PTL DEF ResultSpec, ResultInv

\* A winner announced when the contest was over and nothing underway keeps its score
\* and its place before those it won against, whatever is judged again behind a crash
\* or a lost answer meanwhile, and stays a winner until the end is moved to a later time
\* (submissions.service.ts:44-84, contest-finished.listener.ts:35-56,
\* generic-crud.service.ts:34-38).
THEOREM AnnouncementStands == ResultSpec => []AnnouncedStands
<1>1. ResultInv => AnnouncedStands
  BY DEF ResultInv, Stands, AnnouncedStands, Winners
<1> QED
  BY <1>1, ResultInitInv, ResultNextInv, PTL DEF ResultSpec

\* A submission without a completedAt is announced as the winner only when none has
\* one (contest-finished.listener.ts:35-41).
THEOREM UnjudgedWinsAlone == ResultSpec => WinnerIsJudged
<1> DEFINE A == \A p \in announced' \ announced :
                   entry[p.winner].at = 0 => \A e \in Entry : entry[e].at = 0
<1>1. ResultInv /\ [ResultNext]_resultVars => [A]_resultVars
  <2> SUFFICES ASSUME ResultInv, [ResultNext]_resultVars,
                      NEW p \in announced' \ announced, entry[p.winner].at = 0,
                      NEW e \in Entry, entry[e].at # 0
               PROVE  FALSE
    OBVIOUS
  <2> USE DEF ResultInv
  <2>1. PICK a \in Caller : Announce(a)
    BY EntryChanges, ResultSteps DEF ProcessDies, Elsewhere, resultVars
  <2>2. p.winner \in Winners
    BY <2>1 DEF Announce
  <2>3. p.winner \in Entry /\ \A f \in Stored : ~Before(f, p.winner)
    BY <2>2 DEF Winners, Stored
  <2>4. entry[p.winner].score = 0
    BY <2>3 DEF Unscored
  <2>5. entry[e].score \in 0..100
    BY DEF ResultTypeOK, EntryState
  <2>6. Before(e, p.winner)
    BY <2>4, <2>5 DEF Before
  <2>7. e \in Stored
    BY DEF Unscored
  <2> QED
    BY <2>3, <2>6, <2>7
<1> QED
  BY <1>1, ResultInitInv, ResultNextInv, PTL DEF ResultSpec, WinnerIsJudged
=============================================================================
