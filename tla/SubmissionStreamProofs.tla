----------------------- MODULE SubmissionStreamProofs -----------------------
(***************************************************************************)
(* Proofs about the live result stream, for every number of submissions,   *)
(* slots, clients and faults.  The pipeline's own invariants come with the *)
(* modules this one extends; here is what the clients see of them.         *)
(***************************************************************************)
EXTENDS SubmissionStream, SubmissionJudgingProofs, SequenceTheorems

-----------------------------------------------------------------------------
(* Definitions *)

ResultEvent == [type: {"test_result"}, index: Nat, row: Row, output: BOOLEAN]
FinalEvent ==
    [type: {"completed"}, verdict: Status, score: Nat, passed: Nat, total: Nat]
    \cup [type: {"error"}]

\* No two rows of a set stand for the same test case of the same run.
Distinct(rows) == \A r, q \in rows : r.exec = q.exec /\ r.case = q.case => r = q

\* What a replay is made of is finite and in a strict order.
RowsFinite == \A s \in Submission : IsFiniteSet(results[s])
Views == \A c \in Client : IsFiniteSet(view[c].rows) /\ Distinct(view[c].rows)

\* A client is subscribed at most once, to the stream of the submission it
\* watches, and by the handler of its present request.
Seated(c) ==
    \A s \in Submission : Listening(s, c) => watch[c] = s /\ conn[c] \in {"live", "ghost"}

OneSeat ==
    \A s \in Submission : \A i, k \in 1 .. Len(listeners[s]) :
        listeners[s][i] = listeners[s][k] => i = k

\* What a client received while it may receive more is results only; before its
\* handler has subscribed it is nothing.
Waiting(c) ==
    /\ conn[c] \in {"read", "gone"} => seen[c] = <<>>
    /\ conn[c] \in {"live", "ghost"} => \A i \in Events(c) : i \in Results(c)

\* A run announces the verdict of its test cases, which is the stored one unless
\* a stall has let another run in.
Reporting(w) ==
    LET r == run[w] IN
    r.pc = "announce" =>
        /\ r.cases # {}
        /\ job[r.sub].stalls = 0 =>
              /\ status[r.sub] = Verdict(r)
              /\ score[r.sub] = Score(Cardinality(r.passed), Cardinality(r.cases))

Reports == \A w \in Worker : Reporting(w)

\* What the judging pipeline keeps, whatever its faults.
Pipeline == Typed /\ ExecutionsAccounted /\ Judged /\ Listed /\ Owners /\ Reports

-----------------------------------------------------------------------------
(* Sequences and sets *)

\* SelectInSeq finds the first position of an element that is there.
LEMMA FirstIs ==
    ASSUME NEW S, NEW q \in Seq(S), NEW c, Contains(q, c)
    PROVE  LET k == SelectInSeq(q, LAMBDA d : d = c) IN k \in 1 .. Len(q) /\ q[k] = c
<1> DEFINE I == {i \in 1 .. Len(q) : q[i] = c}
<1>1. I # {} /\ I \subseteq Nat
  BY DEF Contains
<1>2. \E i \in I : \A j \in I : i <= j
  <2> DEFINE R == {p \in Nat \X Nat : p[1] < p[2]}
  <2>1. IsWellFoundedOn(R, Nat)
    BY NatLessThanWellFounded DEF OpToRel
  <2> HIDE DEF R, I
  <2>2. PICK x \in I : \A y \in I : ~(<<y, x>> \in R)
    BY <1>1, <2>1, WFMin
  <2>3. ASSUME NEW y \in I PROVE x <= y
    <3>1. x \in Nat /\ y \in Nat /\ ~(<<y, x>> \in R)
      BY <1>1, <2>2
    <3>2. <<y, x>> \in Nat \X Nat => ~(y < x)
      BY <3>1 DEF R
    <3> QED
      BY <3>1, <3>2
  <2> QED
    BY <2>3
<1>3. Min(I) \in I
  BY <1>2 DEF Min
<1>4. SelectInSeq(q, LAMBDA d : d = c) = Min(I)
  BY <1>1 DEF SelectInSeq
<1> QED
  BY <1>3, <1>4

\* Who is in a sequence once somebody was added to it.
LEMMA AppendContains ==
    ASSUME NEW S, NEW q \in Seq(S), NEW c \in S, NEW d
    PROVE  /\ Append(q, c) \in Seq(S)
           /\ Contains(Append(q, c), d) <=> Contains(q, d) \/ d = c
<1>1. /\ Append(q, c) \in Seq(S) /\ Len(Append(q, c)) = Len(q) + 1 /\ Len(q) \in Nat
      /\ \A i \in 1 .. Len(q) : Append(q, c)[i] = q[i]
      /\ Append(q, c)[Len(q) + 1] = c
  BY AppendProperties, LenProperties
<1>2. Contains(Append(q, c), d) => Contains(q, d) \/ d = c
  BY <1>1 DEF Contains
<1>3. Contains(q, d) => Contains(Append(q, c), d)
  <2> SUFFICES ASSUME NEW i \in 1 .. Len(q), q[i] = d PROVE Contains(Append(q, c), d)
    BY DEF Contains
  <2>1. i \in 1 .. Len(Append(q, c)) /\ Append(q, c)[i] = d
    BY <1>1
  <2> QED
    BY <2>1 DEF Contains
<1>4. Contains(Append(q, c), c)
  <2>1. Len(q) + 1 \in 1 .. Len(Append(q, c))
    BY <1>1
  <2> QED
    BY <1>1, <2>1 DEF Contains
<1> QED
  BY <1>1, <1>2, <1>3, <1>4

\* A newcomer does not repeat anybody.
LEMMA AppendOnce ==
    ASSUME NEW S, NEW q \in Seq(S), NEW c \in S, ~Contains(q, c),
           \A i, k \in 1 .. Len(q) : q[i] = q[k] => i = k
    PROVE  \A i, k \in 1 .. Len(Append(q, c)) : Append(q, c)[i] = Append(q, c)[k] => i = k
<1> DEFINE p == Append(q, c)
<1>1. /\ Len(q) \in Nat /\ Len(p) = Len(q) + 1
      /\ \A i \in 1 .. Len(q) : p[i] = q[i]
      /\ p[Len(q) + 1] = c
  BY AppendProperties, LenProperties
<1>2. \A i \in 1 .. Len(q) : q[i] # c
  BY DEF Contains
<1> HIDE DEF p
<1>3. \A i, k \in 1 .. Len(p) : p[i] = p[k] => i = k
  BY <1>1, <1>2
<1> QED
  BY <1>3 DEF p

\* Who is in a sequence without repetitions once somebody was removed from it.
LEMMA RemoveContains ==
    ASSUME NEW S, NEW q \in Seq(S), NEW c,
           \A i, k \in 1 .. Len(q) : q[i] = q[k] => i = k
    PROVE  LET p == RemoveFirst(q, c) IN
           /\ p \in Seq(S)
           /\ \A i, k \in 1 .. Len(p) : p[i] = p[k] => i = k
           /\ \A d : Contains(p, d) => Contains(q, d) /\ d # c
<1> DEFINE p == RemoveFirst(q, c)
<1>1. CASE ~Contains(q, c)
  BY <1>1 DEF RemoveFirst, Contains
<1>2. CASE Contains(q, c)
  <2>1. PICK k \in 1 .. Len(q) : k = SelectInSeq(q, LAMBDA d : d = c) /\ q[k] = c
    BY <1>2, FirstIs
  <2>2. p = RemoveAt(q, k)
    BY <1>2, <2>1 DEF RemoveFirst, Contains
  <2>3. Len(q) \in Nat /\ \A i \in 1 .. Len(q) : q[i] \in S
    BY LenProperties
  <2> DEFINE a == SubSeq(q, 1, k - 1)
             b == SubSeq(q, k + 1, Len(q))
  <2>4. /\ a \in Seq(S) /\ Len(a) = k - 1
        /\ \A i \in 1 .. k - 1 : a[i] = q[i]
    BY <2>3, SubSeqProperties
  <2>5. /\ b \in Seq(S) /\ Len(b) = Len(q) - k
        /\ \A i \in 1 .. Len(q) - k : b[i] = q[i + k]
    BY <2>3, SubSeqProperties
  <2>a. p = a \o b
    BY <2>2 DEF RemoveAt
  <2> HIDE DEF a, b, p
  <2>b. /\ p \in Seq(S) /\ Len(p) = Len(q) - 1
        /\ \A i \in 1 .. Len(q) - 1 : p[i] = IF i <= k - 1 THEN a[i] ELSE b[i - (k - 1)]
    <3>1. /\ p \in Seq(S) /\ Len(p) = Len(a) + Len(b)
          /\ \A i \in 1 .. Len(a) + Len(b) : p[i] = IF i <= Len(a) THEN a[i] ELSE b[i - Len(a)]
      <4>1. a \in Seq(S) /\ b \in Seq(S)
        BY <2>4, <2>5
      <4>2. /\ a \o b \in Seq(S) /\ Len(a \o b) = Len(a) + Len(b)
            /\ \A i \in 1 .. Len(a) + Len(b) :
                  (a \o b)[i] = IF i <= Len(a) THEN a[i] ELSE b[i - Len(a)]
        BY <4>1
      <4> QED
        BY <2>a, <4>2
    <3>2. Len(a) + Len(b) = Len(q) - 1
      BY <2>3, <2>4, <2>5
    <3> QED
      BY <2>4, <3>1, <3>2
  <2>6. /\ p \in Seq(S) /\ Len(p) = Len(q) - 1
        /\ \A i \in 1 .. Len(q) - 1 : p[i] = IF i < k THEN q[i] ELSE q[i + 1]
    <3>1. ASSUME NEW i \in 1 .. Len(q) - 1, i < k PROVE p[i] = q[i]
      BY <2>3, <2>4, <2>b, <3>1
    <3>2. ASSUME NEW i \in 1 .. Len(q) - 1, ~(i < k) PROVE p[i] = q[i + 1]
      <4>1. i - (k - 1) \in 1 .. Len(q) - k /\ (i - (k - 1)) + k = i + 1
        BY <2>3, <3>2
      <4>2. p[i] = b[i - (k - 1)]
        BY <2>3, <2>b, <3>2
      <4> QED
        BY <2>5, <4>1, <4>2
    <3> QED
      BY <2>b, <3>1, <3>2
  <2>7. \A i, j \in 1 .. Len(p) : p[i] = p[j] => i = j
    <3> SUFFICES ASSUME NEW i \in 1 .. Len(p), NEW j \in 1 .. Len(p), p[i] = p[j]
                 PROVE  i = j
      OBVIOUS
    <3> DEFINE Was(n) == IF n < k THEN n ELSE n + 1
    <3>1. /\ Was(i) \in 1 .. Len(q) /\ Was(j) \in 1 .. Len(q)
          /\ p[i] = q[Was(i)] /\ p[j] = q[Was(j)]
      BY <2>3, <2>6
    <3>2. Was(i) = Was(j)
      BY <3>1
    <3> QED
      BY <2>3, <3>2
  <2>8. ASSUME NEW d, Contains(p, d) PROVE Contains(q, d) /\ d # c
    <3>1. PICK i \in 1 .. Len(p) : p[i] = d
      BY <2>8 DEF Contains
    <3>2. PICK j \in 1 .. Len(q) : q[j] = d /\ j # k
      BY <2>3, <2>6, <3>1
    <3> QED
      BY <2>1, <3>2 DEF Contains
  <2> QED
    BY <2>6, <2>7, <2>8 DEF p
<1> QED
  BY <1>1, <1>2

-----------------------------------------------------------------------------
(* Replayed rows *)

\* The order of insertion is strict and total on rows of different test cases.
LEMMA InsertedOrder ==
    ASSUME NEW rows \in SUBSET Row, Distinct(rows),
           NEW p \in rows, NEW q \in rows, NEW r \in rows
    PROVE  /\ ~InsertedBefore(p, p)
           /\ p # q => InsertedBefore(p, q) \/ InsertedBefore(q, p)
           /\ InsertedBefore(p, q) /\ InsertedBefore(q, r) => InsertedBefore(p, r)
<1>1. /\ p.exec \in Nat /\ q.exec \in Nat /\ r.exec \in Nat
      /\ p.case \in Nat /\ q.case \in Nat /\ r.case \in Nat
  BY TestsAssumption DEF Row
<1>2. ~InsertedBefore(p, p)
  BY <1>1 DEF InsertedBefore
<1>3. p # q => InsertedBefore(p, q) \/ InsertedBefore(q, p)
  BY <1>1 DEF InsertedBefore, Distinct
<1>4. InsertedBefore(p, q) /\ InsertedBefore(q, r) => InsertedBefore(p, r)
  BY <1>1 DEF InsertedBefore
<1> QED
  BY <1>2, <1>3, <1>4

\* Inserted puts every row in one position: the rows before it are fewer than
\* those before a later one, so that ranks are a bijection.
LEMMA InsertedIs ==
    ASSUME NEW rows \in SUBSET Row, Distinct(rows), IsFiniteSet(rows)
    PROVE  /\ Cardinality(rows) \in Nat
           /\ Inserted(rows) \in Bijection(1 .. Cardinality(rows), rows)
<1> DEFINE n == Cardinality(rows)
           Before(r) == {q \in rows : InsertedBefore(q, r)}
           Rank == [r \in rows |-> Cardinality(Before(r)) + 1]
<1>1. n \in Nat
  BY FS_CardinalityType
<1>2. ASSUME NEW r \in rows
      PROVE  /\ IsFiniteSet(Before(r)) /\ Cardinality(Before(r)) \in Nat
             /\ Cardinality(Before(r)) < n
  <2>1. IsFiniteSet(Before(r)) /\ Cardinality(Before(r)) <= n /\ (Cardinality(rows) = Cardinality(Before(r)) => rows = Before(r))
    BY FS_Subset
  <2>2. Cardinality(Before(r)) \in Nat
    BY <2>1, FS_CardinalityType
  <2>3. r \notin Before(r)
    BY InsertedOrder
  <2> QED
    BY <1>1, <2>1, <2>2, <2>3
<1>3. ASSUME NEW p \in rows, NEW q \in rows, InsertedBefore(p, q)
      PROVE  Cardinality(Before(p)) < Cardinality(Before(q))
  <2>1. Before(p) \subseteq Before(q) /\ p \in Before(q) /\ p \notin Before(p)
    BY <1>3, InsertedOrder
  <2>2. /\ Cardinality(Before(p)) <= Cardinality(Before(q))
        /\ Cardinality(Before(q)) = Cardinality(Before(p)) => Before(q) = Before(p)
    BY <1>2, <2>1, FS_Subset
  <2> HIDE DEF Before
  <2> QED
    BY <1>2, <2>1, <2>2
<1>4. Rank \in [rows -> 1 .. n]
  BY <1>1, <1>2
<1>r. \A r \in rows : Rank[r] = Cardinality(Before(r)) + 1
  OBVIOUS
<1>s. \A r \in rows : Cardinality(Before(r)) \in Nat
  BY <1>2
<1>5. \A p, q \in rows : Rank[p] = Rank[q] => p = q
  <2> HIDE DEF Before, Rank
  <2>1. ASSUME NEW p \in rows, NEW q \in rows, InsertedBefore(p, q) PROVE Rank[p] # Rank[q]
    BY <1>3, <1>r, <1>s, <2>1
  <2>2. \A p, q \in rows : p # q => InsertedBefore(p, q) \/ InsertedBefore(q, p)
    BY InsertedOrder
  <2> QED
    BY <2>1, <2>2
<1> HIDE DEF Rank
<1>6. Rank \in Injection(rows, 1 .. n)
  BY <1>4, <1>5 DEF Injection, IsInjective
<1>7. Rank \in Surjection(rows, 1 .. n)
  <2>1. IsFiniteSet(1 .. n) /\ Cardinality(1 .. n) = n
    BY <1>1, FS_Interval
  <2> QED
    BY <1>6, <2>1, FS_Injection
<1>8. ASSUME NEW i \in 1 .. n
      PROVE  Inserted(rows)[i] \in rows /\ Rank[Inserted(rows)[i]] = i
  <2>1. PICK r \in rows : Rank[r] = i
    BY <1>7 DEF Surjection
  <2>2. Inserted(rows)[i] = CHOOSE q \in rows : Cardinality(Before(q)) = i - 1
    BY DEF Inserted
  <2>r. Cardinality(Before(r)) \in Nat /\ Rank[r] = Cardinality(Before(r)) + 1
    BY <1>2, <1>r
  <2> HIDE DEF Before
  <2>3. Cardinality(Before(r)) = i - 1
    BY <2>1, <2>r
  <2>4. Inserted(rows)[i] \in rows /\ Cardinality(Before(Inserted(rows)[i])) = i - 1
    BY <2>2, <2>3
  <2> QED
    BY <1>1, <1>r, <2>4
<1>9. Inserted(rows) = [i \in 1 .. n |-> Inserted(rows)[i]]
  <2> DEFINE At(i) == CHOOSE r \in rows : Cardinality(Before(r)) = i - 1
  <2>1. Inserted(rows) = [i \in 1 .. n |-> At(i)]
    BY DEF Inserted
  <2> HIDE DEF At
  <2> QED
    BY <2>1
<1>10. \A r \in rows : Rank[r] \in 1 .. n /\ Inserted(rows)[Rank[r]] = r
  BY <1>4, <1>5, <1>8
<1> HIDE DEF n
<1>11. Inserted(rows) \in [1 .. n -> rows]
  BY <1>8, <1>9
<1>12. \A i, k \in 1 .. n : Inserted(rows)[i] = Inserted(rows)[k] => i = k
  BY <1>8
<1>13. Inserted(rows) \in Injection(1 .. n, rows) /\ Inserted(rows) \in Surjection(1 .. n, rows)
  BY <1>10, <1>11, <1>12 DEF Injection, IsInjective, Surjection
<1> QED
  BY <1>1, <1>13 DEF Bijection, n

\* A replay gives each row in its place, and then the verdict.
LEMMA ReplayIs ==
    ASSUME NEW v \in View, IsFiniteSet(v.rows), Distinct(v.rows)
    PROVE  LET q == ReplayEvents(v)
               n == Cardinality(v.rows)
           IN  /\ q \in Seq(Event) /\ n \in Nat /\ Len(q) = n + 1
               /\ \A i \in 1 .. n : q[i] = [type |-> "test_result", index |-> i - 1,
                                            row |-> Inserted(v.rows)[i],
                                            output |-> Inserted(v.rows)[i].case \notin Hidden]
               /\ q[n + 1] = [type |-> "completed", verdict |-> v.status, score |-> v.score,
                              passed |-> Cardinality({r \in v.rows : r.passed}), total |-> n]
<1> DEFINE n == Cardinality(v.rows)
           rows == Inserted(v.rows)
           told == [i \in 1 .. n |-> [type |-> "test_result", index |-> i - 1, row |-> rows[i],
                                      output |-> rows[i].case \notin Hidden]]
           last == [type |-> "completed", verdict |-> v.status, score |-> v.score,
                    passed |-> Cardinality({r \in v.rows : r.passed}), total |-> n]
<1>1. /\ v.rows \in SUBSET Row /\ v.status \in Status /\ v.score \in Nat
  BY DEF View
<1>2. n \in Nat /\ \A i \in 1 .. n : rows[i] \in v.rows
  <2>1. n \in Nat /\ rows \in Bijection(1 .. n, v.rows)
    BY <1>1, InsertedIs
  <2> QED
    BY <2>1 DEF Bijection, Injection
<1>3. Len(rows) = n
  BY <1>2 DEF Inserted
<1>4. ReplayEvents(v) = told \o <<last>>
  BY <1>3 DEF ReplayEvents
<1>5. told \in Seq(Event) /\ Len(told) = n
  <2>1. ASSUME NEW i \in 1 .. n PROVE told[i] \in Event
    <3>1. rows[i] \in Row /\ i - 1 \in Nat
      BY <1>1, <1>2, <2>1
    <3> QED
      BY <2>1, <3>1 DEF Event
  <2>2. told \in [1 .. n -> Event] /\ n \in Nat
    BY <1>2, <2>1
  <2> HIDE DEF told, n
  <2>3. told \in Seq(Event)
    BY <2>2, SeqDef
  <2>4. DOMAIN told = 1 .. n
    BY <2>2
  <2> QED
    BY <2>2, <2>3, <2>4, LenProperties
<1>6. last \in Event
  <2>1. Cardinality({r \in v.rows : r.passed}) \in Nat
    BY FS_Subset, FS_CardinalityType
  <2> QED
    BY <1>1, <1>2, <2>1 DEF Event
<1> HIDE DEF n, rows, last
<1>7. \A i \in 1 .. n : told[i] = [type |-> "test_result", index |-> i - 1, row |-> rows[i],
                                   output |-> rows[i].case \notin Hidden]
  OBVIOUS
<1> HIDE DEF told
<1>8. /\ told \o <<last>> \in Seq(Event) /\ Len(told \o <<last>>) = n + 1
      /\ \A i \in 1 .. n : (told \o <<last>>)[i] = told[i]
      /\ (told \o <<last>>)[n + 1] = last
  BY <1>2, <1>5, <1>6
<1> QED
  BY <1>2, <1>4, <1>7, <1>8 DEF n, rows, last

-----------------------------------------------------------------------------
(* What the service does to its clients *)

LEMMA EventKinds ==
    /\ Event = ResultEvent \cup FinalEvent
    /\ \A e \in ResultEvent : e.type = "test_result" /\ e.index \in Nat /\ e.row \in Row
    /\ \A e \in FinalEvent : e.type # "test_result"
BY DEF Event, ResultEvent, FinalEvent

\* The map() of a subscriber decides on the output, and nothing else.
LEMMA FilterIs ==
    ASSUME NEW s, NEW c, NEW e \in Event
    PROVE  /\ Filter(s, c, e) \in Event
           /\ e \in FinalEvent => Filter(s, c, e) = e
           /\ e \in ResultEvent =>
                 /\ Filter(s, c, e) \in ResultEvent
                 /\ Filter(s, c, e).index = e.index /\ Filter(s, c, e).row = e.row
                 /\ Filter(s, c, e).output => ~Redacted(s, c, e.row)
<1>1. CASE e \in FinalEvent
  BY <1>1, EventKinds DEF Filter
<1>2. CASE e \in ResultEvent
  <2>1. Filter(s, c, e) = [e EXCEPT !.output = ~Redacted(s, c, e.row)]
    BY <1>2, EventKinds DEF Filter
  <2>2. (~Redacted(s, c, e.row)) \in BOOLEAN
    OBVIOUS
  <2>3. /\ Filter(s, c, e) \in ResultEvent
        /\ Filter(s, c, e).index = e.index /\ Filter(s, c, e).row = e.row
    BY <1>2, <2>1, <2>2 DEF ResultEvent
  <2>4. Redacted(s, c, e.row) => Filter(s, c, e).output = FALSE
    BY <1>2, <2>1 DEF ResultEvent
  <2> QED
    BY <1>2, <2>3, <2>4, EventKinds
<1> QED
  BY <1>1, <1>2, EventKinds

\* Only the subscribers of the stream receive an event, at the end of what they have.
LEMMA PushIs ==
    ASSUME seen \in [Client -> Seq(Event)], NEW s, NEW e \in Event, Push(s, e),
           NEW c \in Client
    PROVE  /\ seen'[c] \in Seq(Event)
           /\ ~Listening(s, c) => seen'[c] = seen[c]
           /\ Listening(s, c) =>
                 /\ seen'[c] # <<>> /\ Len(seen[c]) \in Nat
                 /\ Len(seen'[c]) = Len(seen[c]) + 1
                 /\ \A i \in 1 .. Len(seen[c]) : seen'[c][i] = seen[c][i]
                 /\ seen'[c][Len(seen[c]) + 1] = Filter(s, c, e)
<1>1. seen'[c] = IF Listening(s, c) THEN Append(seen[c], Filter(s, c, e)) ELSE seen[c]
  BY DEF Push
<1>2. seen[c] \in Seq(Event) /\ Filter(s, c, e) \in Event
  BY FilterIs
<1>3. /\ Append(seen[c], Filter(s, c, e)) \in Seq(Event)
      /\ Append(seen[c], Filter(s, c, e)) # <<>> /\ Len(seen[c]) \in Nat
      /\ Len(Append(seen[c], Filter(s, c, e))) = Len(seen[c]) + 1
      /\ \A i \in 1 .. Len(seen[c]) : Append(seen[c], Filter(s, c, e))[i] = seen[c][i]
      /\ Append(seen[c], Filter(s, c, e))[Len(seen[c]) + 1] = Filter(s, c, e)
  BY <1>2, AppendProperties, LenProperties
<1> QED
  BY <1>1, <1>2, <1>3

-----------------------------------------------------------------------------
(* What a run announces is what is stored *)

\* A stall is never forgotten.
LEMMA StallsStay ==
    ASSUME Typed, ExecutionsAccounted, [Next]_vars, NEW s \in Submission, job'[s].stalls = 0
    PROVE  job[s].stalls = 0
<1>0. job \in [Submission -> Job] /\ job[s] \in Job /\ job[s].stalls \in Nat
  BY JobFields DEF Typed, TypeOK
<1>1. ASSUME NEW u \in Submission, Serve(u) PROVE job[s].stalls = 0
  <2>1. CASE Enqueue(u) \/ EnqueueFails(u)
    <3>1. job[u].stalls = 0 /\ (job' = job \/ AddJob(u))
      BY <2>1 DEF Enqueue, EnqueueFails, RequestStep, ExecutionsAccounted, NoJob
    <3> QED
      BY <1>0, <3>1 DEF AddJob
  <2>2. CASE CheckRequest(u) \/ SaveSubmission(u)
    BY <2>2 DEF CheckRequest, SaveSubmission
  <2> QED
    BY <1>1, <2>1, <2>2 DEF Serve
<1>2. ASSUME NEW u \in Submission, Promote(u) PROVE job[s].stalls = 0
  BY <1>0, <1>2, JobFields DEF Promote, Job
<1>3. ASSUME NEW u \in Submission, Stall(u) PROVE job[s].stalls = 0
  BY <1>0, <1>3, JobFields DEF Stall, Requeue, Job
<1>4. ASSUME NEW w \in Worker, NEW u \in Submission, Take(w, u) PROVE job[s].stalls = 0
  BY <1>4, TakeStep, QueueStep
<1>5. ASSUME NEW w \in Worker, Process(w) \/ CallFails(w) \/ AckLost(w) PROVE job[s].stalls = 0
  BY <1>5, RunStep, SettleStep
<1>6. CASE Crash \/ EditTests \/ UNCHANGED vars
  BY <1>6 DEF Crash, EditTests, vars
<1> QED
  BY <1>1, <1>2, <1>3, <1>4, <1>5, <1>6 DEF Next

\* Whoever writes the row of s: the request that saves it, or a run of s that is
\* not returning, and moves.
LEMMA Writers ==
    ASSUME Typed, [Next]_vars, NEW s \in Submission
    PROVE  \/ status'[s] = status[s] /\ score'[s] = score[s]
           \/ SaveSubmission(s)
           \/ \E w \in Worker : On(w, s) /\ run[w].pc \notin Returning /\ run'[w] # run[w]
<1> USE DEF database
<1>1. ASSUME NEW u \in Submission, Serve(u) \/ Promote(u) \/ Stall(u), ~SaveSubmission(s)
      PROVE  status'[s] = status[s] /\ score'[s] = score[s]
  <2>1. CASE u # s
    BY <1>1, <2>1, QueueStep
  <2>2. CASE u = s
    BY <1>1, <2>2 DEF Serve, CheckRequest, Enqueue, EnqueueFails, Promote, Stall
  <2> QED
    BY <2>1, <2>2
<1>2. ASSUME NEW w \in Worker, NEW u \in Submission, Take(w, u)
      PROVE  status'[s] = status[s] /\ score'[s] = score[s]
  BY <1>2 DEF Take
<1>3. ASSUME NEW w \in Worker, Process(w) \/ CallFails(w) \/ AckLost(w)
      PROVE  \/ status'[s] = status[s] /\ score'[s] = score[s]
             \/ On(w, s) /\ run[w].pc \notin Returning /\ run'[w] # run[w]
  <2>0. run[w] \in Run /\ run \in [Worker -> Run] /\ run[w].pc \in PC
    BY SubTyped DEF Typed, TypeOK
  <2>1. CASE run[w].sub # s
    BY <1>3, <2>1, RunElsewhere
  <2>2. CASE run[w].sub = s /\ (Settle(w) \/ Announce(w))
    BY <2>2 DEF Settle, Announce
  <2>3. CASE run[w].sub = s /\ ~(Settle(w) \/ Announce(w))
    <3>1. run[w].pc \in Trying \cup Catching
      BY <1>3, <2>3 DEF Process, FetchSubmission, MarkRunning, LoadTests, JudgeCase,
            SaveVerdict, Refetch, MarkError, CallFails, AckLost, Trying, Catching
    <3>2. On(w, s) /\ run[w].pc \notin Returning
      BY <2>3, <3>1 DEF On, Trying, Catching, Returning
    <3>3. CASE status' # status \/ score' # score
      <4>1. \/ MarkRunning(w) \/ SaveVerdict(w) \/ MarkError(w) \/ AckLost(w)
        BY <1>3, <3>3 DEF Process, FetchSubmission, LoadTests, JudgeCase, WriteRow, Announce,
              Refetch, Settle, CallFails
      <4>2. run'[w].pc # run[w].pc
        BY <2>0, <4>1 DEF MarkRunning, SaveVerdict, MarkError, AckLost, GoTo, Throw, Handler,
              Run, Trying
      <4> QED
        BY <3>2, <4>2
    <3> QED
      BY <3>2, <3>3
  <2> QED
    BY <2>1, <2>2, <2>3
<1>4. CASE Crash \/ EditTests \/ UNCHANGED vars
  BY <1>4 DEF Crash, EditTests, vars
<1> QED
  BY <1>1, <1>2, <1>3, <1>4 DEF Next

\* A run gets to its announcement by storing its verdict.
LEMMA Announcers ==
    ASSUME Typed, [Next]_vars, NEW v \in Worker, run'[v].pc = "announce"
    PROVE  SaveVerdict(v) \/ run'[v] = run[v]
<1>1. ASSUME NEW w \in Worker, Process(w) \/ CallFails(w) \/ AckLost(w), w = v, ~SaveVerdict(v)
      PROVE  FALSE
  <2>0. run[w] \in Run /\ run \in [Worker -> Run] /\ run[w].pc \in PC
    BY SubTyped DEF Typed, TypeOK
  <2>1. CASE FetchSubmission(w) \/ MarkRunning(w) \/ LoadTests(w) \/ Refetch(w) \/ MarkError(w)
    BY <1>1, <2>0, <2>1 DEF FetchSubmission, MarkRunning, LoadTests, Refetch, MarkError, GoTo,
          Handler, Run
  <2>2. CASE Announce(w) \/ Settle(w)
    BY <1>1, <2>0, <2>2 DEF Announce, Settle, GoTo, IdleRun, Run
  <2>3. ASSUME NEW c \in TestCase, NEW passed \in BOOLEAN, JudgeCase(w, c, passed) PROVE FALSE
    BY <1>1, <2>0, <2>3 DEF JudgeCase, Run
  <2>4. CASE CallFails(w) \/ AckLost(w)
    BY <1>1, <2>0, <2>4 DEF CallFails, AckLost, GoTo, Throw, Handler, Run
  <2> QED
    BY <1>1, <2>1, <2>2, <2>3, <2>4 DEF Process
<1>2. ASSUME NEW w \in Worker, Process(w) \/ CallFails(w) \/ AckLost(w)
      PROVE  SaveVerdict(v) \/ run'[v] = run[v]
  BY <1>1, <1>2, RunStep, SettleStep
<1>3. ASSUME NEW w \in Worker, NEW s \in Submission, Take(w, s) PROVE run'[v] = run[v]
  BY <1>3, TakeStep
<1>4. ~Crash
  BY DEF Crash, IdleRun
<1>5. ASSUME NEW s \in Submission, Serve(s) \/ Promote(s) \/ Stall(s) PROVE run' = run
  BY <1>5 DEF Serve, CheckRequest, SaveSubmission, Enqueue, EnqueueFails, Promote, Stall
<1> QED
  BY <1>2, <1>3, <1>4, <1>5 DEF Next, EditTests, vars

LEMMA NextReports ==
    Typed /\ Typed' /\ ExecutionsAccounted /\ Owners /\ Reports /\ [Next]_vars => Reports'
<1> SUFFICES ASSUME Typed, Typed', ExecutionsAccounted, Owners, Reports, [Next]_vars,
                    NEW v \in Worker, run'[v].pc = "announce"
             PROVE  Reporting(v)'
  BY DEF Reports, Reporting
<1>0. run[v] \in Run /\ run \in [Worker -> Run] /\ run[v].sub \in Submission
  BY SubTyped DEF Typed, TypeOK
<1>1. CASE SaveVerdict(v)
  <2>1. /\ run'[v].pc = "announce" /\ run'[v].sub = run[v].sub /\ run'[v].cases = run[v].cases
        /\ run'[v].passed = run[v].passed /\ run[v].pc = "judge"
    BY <1>0, <1>1 DEF SaveVerdict, GoTo, Run
  <2>2. run[v].cases # {}
    BY <2>1 DEF Typed, RunsHaveCases
  <2>3. /\ status'[run[v].sub] = Verdict(run[v])
        /\ score'[run[v].sub] = Score(Cardinality(run[v].passed), Cardinality(run[v].cases))
    BY <1>0, <1>1 DEF SaveVerdict, WriteVerdict, Typed, TypeOK
  <2> QED
    BY <2>1, <2>2, <2>3 DEF Reporting, Verdict
<1>2. CASE run'[v] = run[v]
  <2>1. Reporting(v) /\ run[v].pc = "announce" /\ On(v, run[v].sub)
    BY <1>2 DEF Reports, On
  <2> SUFFICES ASSUME job'[run[v].sub].stalls = 0
               PROVE  /\ status'[run[v].sub] = status[run[v].sub]
                      /\ score'[run[v].sub] = score[run[v].sub]
                      /\ job[run[v].sub].stalls = 0
    BY <1>2, <2>1 DEF Reporting, Verdict
  <2>2. job[run[v].sub].stalls = 0
    BY <1>0, StallsStay
  <2>3. Sole(run[v].sub)
    BY <2>2 DEF Sole
  <2>4. Owned(v)
    BY <2>1, <2>3 DEF Owners, On
  <2>5. ~SaveSubmission(run[v].sub)
    BY <1>0, <2>4 DEF SaveSubmission, RequestStep, ExecutionsAccounted, NoJob, Owned
  <2>6. \A w \in Worker : On(w, run[v].sub) => w = v
    BY <1>0, <2>1, <2>3, RunIsSole
  <2> QED
    BY <1>0, <1>2, <2>2, <2>5, <2>6, Writers
<1> QED
  BY <1>1, <1>2, Announcers

LEMMA InitReports == Init => Reports
BY DEF Init, Reports, Reporting, IdleRun

-----------------------------------------------------------------------------
(* The steps of the composed system *)

ClientStep(c) ==
    (\E s \in Submission : Read(c, s)) \/ Drop(c) \/ Handle(c) \/ Closed(c)

\* The clients' steps leave the pipeline alone, and the others are its own.
LEMMA PipelineSteps == [StreamNext]_streamVars => [Next]_vars
<1>1. ASSUME NEW c \in Client, ClientStep(c) PROVE UNCHANGED vars
  BY <1>1 DEF ClientStep, Read, Drop, Handle, Replay, Subscribe, Closed
<1>2. ASSUME NEW w \in Worker, StreamProcess(w) PROVE Process(w)
  BY <1>2 DEF StreamProcess, StreamJudgeCase, StreamAnnounce, Process
<1> QED
  BY <1>1, <1>2 DEF StreamNext, streamVars, Next, Silent, StreamCrash, ClientStep

LEMMA InitPipeline == Init => Pipeline
BY InitTyped, InitAccounted, InitJudged, InitListed, InitOwners, InitReports DEF Pipeline

LEMMA NextPipeline == Pipeline /\ [StreamNext]_streamVars => Pipeline'
BY PipelineSteps, NextTyped, NextAccounted, NextJudged, NextListed, NextOwners,
   NextReports DEF Pipeline

\* The events of a run: the result of a case, its verdict, its failure.
ResultOf(w, c, passed) ==
    [type |-> "test_result", index |-> CurrentIndex(run[w]),
     row |-> [exec |-> run[w].exec, case |-> c, passed |-> passed], output |-> TRUE]
VerdictOf(w) ==
    [type |-> "completed", verdict |-> Verdict(run[w]),
     score |-> Score(Cardinality(run[w].passed), Cardinality(run[w].cases)),
     passed |-> Cardinality(run[w].passed), total |-> Cardinality(run[w].cases)]
ErrorEvent == [type |-> "error"]

LEMMA EventsTyped ==
    ASSUME Pipeline, NEW w \in Worker
    PROVE  /\ Sub(w) \in Submission
           /\ \A c \in TestCase, passed \in BOOLEAN : ResultOf(w, c, passed) \in ResultEvent
           /\ run[w].pc = "announce" => VerdictOf(w) \in FinalEvent
           /\ ErrorEvent \in FinalEvent
<1> DEFINE r == run[w]
<1>0. /\ Sub(w) \in Submission /\ r.exec \in Nat /\ r.ran \in SUBSET TestCase
      /\ r.passed \in SUBSET TestCase /\ r.cases \in SUBSET TestCase
  BY SubTyped DEF Pipeline, Run, Sub
<1>1. ASSUME NEW c \in TestCase, NEW passed \in BOOLEAN
      PROVE  ResultOf(w, c, passed) \in ResultEvent
  <2>1. CurrentIndex(r) \in Nat
    BY <1>0, CasesCounted DEF CurrentIndex
  <2> QED
    BY <1>0, <2>1 DEF ResultOf, ResultEvent, Row
<1>2. ASSUME r.pc = "announce" PROVE VerdictOf(w) \in FinalEvent
  <2>1. /\ Cardinality(r.passed) \in Nat /\ Cardinality(r.cases) \in Nat
        /\ Verdict(r) \in Status
    BY <1>0, CasesCounted DEF Verdict, Status, Final
  <2>2. Score(Cardinality(r.passed), Cardinality(r.cases)) \in Nat
    <3>1. r.cases # {}
      BY <1>2 DEF Pipeline, Reports, Reporting
    <3>2. Cardinality(r.cases) > 0
      BY <1>0, <3>1, CasesCounted
    <3> QED
      BY <2>1, <3>2, ScoreIsNat
  <2> QED
    BY <2>1, <2>2 DEF VerdictOf, FinalEvent
<1>3. ErrorEvent \in FinalEvent
  BY DEF ErrorEvent, FinalEvent
<1> QED
  BY <1>0, <1>1, <1>2, <1>3

\* What reaches the clients: a result, a verdict, an error, a crash, or their own step.
LEMMA StreamSteps ==
    ASSUME [StreamNext]_streamVars
    PROVE  \/ UNCHANGED sse
           \/ \E w \in Worker, c \in TestCase, passed \in BOOLEAN :
                 /\ JudgeCase(w, c, passed) /\ Push(Sub(w), ResultOf(w, c, passed))
                 /\ UNCHANGED <<refs, listeners, conn, watch, view>>
           \/ \E w \in Worker : Announce(w) /\ Finish(Sub(w), VerdictOf(w))
           \/ \E w \in Worker : Finish(Sub(w), ErrorEvent)
           \/ StreamCrash
           \/ \E c \in Client : ClientStep(c)
<1>1. ASSUME NEW w \in Worker,
             StreamProcess(w) \/ ((CallFails(w) \/ AckLost(w)) /\ StreamThrow(w))
      PROVE  \/ UNCHANGED sse
             \/ \E c \in TestCase, passed \in BOOLEAN :
                   /\ JudgeCase(w, c, passed) /\ Push(Sub(w), ResultOf(w, c, passed))
                   /\ UNCHANGED <<refs, listeners, conn, watch, view>>
             \/ Announce(w) /\ Finish(Sub(w), VerdictOf(w))
             \/ Finish(Sub(w), ErrorEvent)
  BY <1>1 DEF StreamProcess, StreamJudgeCase, StreamAnnounce, StreamThrow, ResultOf, VerdictOf,
              ErrorEvent
<1> QED
  BY <1>1 DEF StreamNext, streamVars, Silent, ClientStep

-----------------------------------------------------------------------------
(* Types, and who is subscribed to what *)

\* The variables of the service and of the requests have their types.
SseTyped ==
    /\ refs \in [Submission -> Nat]
    /\ listeners \in [Submission -> Seq(Client)]
    /\ conn \in [Client -> Conn]
    /\ watch \in [Client -> Submission]
    /\ view \in [Client -> View]
    /\ seen \in [Client -> Seq(Event)]

Seats == OneSeat /\ \A c \in Client : Seated(c) /\ Waiting(c)

\* What holds of the clients, and all that is needed to keep it.
Clients == SseTyped /\ Views /\ Seats
StreamInv == Pipeline /\ RowsFinite /\ Clients

\* A run adds one row at a time, and nobody deletes any.
LEMMA RowsStayFinite ==
    ASSUME Typed, [Next]_vars, \A s \in Submission : IsFiniteSet(results[s])
    PROVE  \A s \in Submission : IsFiniteSet(results'[s])
<1>1. ASSUME NEW w \in Worker, NEW c \in TestCase, NEW passed \in BOOLEAN, WriteRow(w, c, passed)
      PROVE  \A s \in Submission : IsFiniteSet(results'[s])
  <2> SUFFICES ASSUME NEW s \in Submission PROVE IsFiniteSet(results'[s])
    OBVIOUS
  <2>1. PICK r : results'[s] \in {results[s], results[s] \cup {r}}
    BY <1>1 DEF WriteRow, Typed, TypeOK
  <2> QED
    BY <2>1, FS_AddElement
<1>2. CASE results' = results
  BY <1>2
<1>3. ASSUME NEW w \in Worker, Process(w) \/ CallFails(w)
      PROVE  \/ results' = results
             \/ \E c \in TestCase, passed \in BOOLEAN : WriteRow(w, c, passed)
  BY <1>3 DEF Process, CallFails, FetchSubmission, MarkRunning, LoadTests, JudgeCase, SaveVerdict,
        Announce, Refetch, MarkError, Settle, WriteStatus, WriteVerdict, database
<1>4. ASSUME NEW w \in Worker, AckLost(w)
      PROVE  \/ results' = results
             \/ \E c \in TestCase, passed \in BOOLEAN : WriteRow(w, c, passed)
  <2>1. NextCases(run[w]) \subseteq TestCase
    BY SubTyped DEF NextCases, Phase, Run
  <2> QED
    BY <1>4, <2>1 DEF AckLost, WriteStatus, WriteVerdict
<1>5. ASSUME NEW s \in Submission, Serve(s) \/ Promote(s) \/ Stall(s) PROVE results' = results
  BY <1>5 DEF Serve, CheckRequest, SaveSubmission, Enqueue, EnqueueFails, Promote, Stall, database
<1>6. ASSUME NEW w \in Worker, NEW s \in Submission, Take(w, s) PROVE results' = results
  BY <1>6 DEF Take, database
<1>7. CASE Crash \/ EditTests \/ UNCHANGED vars
  BY <1>2, <1>7 DEF Crash, EditTests, vars, database
<1> QED
  BY <1>1, <1>2, <1>3, <1>4, <1>5, <1>6, <1>7 DEF Next

\* The end of a stream takes its clients away, and leaves the others alone.
LEMMA EndOfIs ==
    ASSUME conn \in [Client -> Conn], NEW s, NEW how \in {"ended", "cut"}
    PROVE  /\ EndOf(s, how) \in [Client -> Conn]
           /\ \A d \in Client : IF Listening(s, d)
                                THEN EndOf(s, how)[d] \in {"idle", "ended", "cut"}
                                ELSE EndOf(s, how)[d] = conn[d]
BY DEF EndOf, Conn

\* What complete and cleanup have in common: they take clients off one stream.
Leaving(s) ==
    /\ refs' \in [Submission -> Nat]
    /\ listeners' \in [Submission -> Seq(Client)]
    /\ conn' \in [Client -> Conn]
    /\ \A u \in Submission : u # s => listeners'[u] = listeners[u]
    /\ \A i, k \in 1 .. Len(listeners'[s]) : listeners'[s][i] = listeners'[s][k] => i = k
    /\ \A d \in Client :
          /\ Contains(listeners'[s], d) => Listening(s, d) /\ conn'[d] = conn[d]
          /\ conn'[d] = conn[d] \/ (conn'[d] \in {"idle", "ended", "cut"} /\ watch[d] = s)

LEMMA EmptyStream ==
    ASSUME SseTyped, OneSeat, NEW s \in Submission, NEW f \in [Client -> Conn],
           \A d \in Client : f[d] = conn[d] \/ (f[d] \in {"idle", "ended", "cut"} /\ watch[d] = s),
           conn' = f, refs' = [refs EXCEPT ![s] = 0], listeners' = [listeners EXCEPT ![s] = <<>>]
    PROVE  Leaving(s)
<1>1. /\ refs' \in [Submission -> Nat] /\ listeners' \in [Submission -> Seq(Client)]
      /\ listeners'[s] = <<>> /\ \A u \in Submission : u # s => listeners'[u] = listeners[u]
  BY DEF SseTyped
<1>2. \A d : ~Contains(listeners'[s], d)
  BY <1>1 DEF Contains
<1> QED
  BY <1>1, <1>2 DEF Leaving

LEMMA CompleteLeaves ==
    ASSUME SseTyped, Seats, NEW s \in Submission, Complete(s)
    PROVE  Leaving(s) /\ \A d \in Client : Listening(s, d) => conn'[d] \in {"idle", "ended", "cut"}
<1>1. /\ EndOf(s, "ended") \in [Client -> Conn]
      /\ \A d \in Client : IF Listening(s, d) THEN EndOf(s, "ended")[d] \in {"idle", "ended", "cut"}
                           ELSE EndOf(s, "ended")[d] = conn[d]
  BY EndOfIs DEF SseTyped
<1>2. \A d \in Client : Listening(s, d) => watch[d] = s
  BY DEF Seats, Seated
<1> QED
  BY <1>1, <1>2, EmptyStream DEF Complete, Seats

LEMMA CloseLeaves ==
    ASSUME SseTyped, Seats, NEW c \in Client, NEW s \in Submission, s = watch[c], Close(s, c)
    PROVE  Leaving(s) /\ conn'[c] = "idle"
<1>1. /\ EndOf(s, "cut") \in [Client -> Conn]
      /\ \A d \in Client : IF Listening(s, d) THEN EndOf(s, "cut")[d] \in {"idle", "ended", "cut"}
                           ELSE EndOf(s, "cut")[d] = conn[d]
  BY EndOfIs DEF SseTyped
<1>a. OneSeat /\ \A d \in Client : Listening(s, d) => watch[d] = s
  BY DEF Seats, Seated
<1>2. CASE refs[s] <= 1
  <2>1. /\ conn' = [EndOf(s, "cut") EXCEPT ![c] = "idle"] /\ refs' = [refs EXCEPT ![s] = 0]
        /\ listeners' = [listeners EXCEPT ![s] = <<>>]
    BY <1>2 DEF Close
  <2>2. /\ [EndOf(s, "cut") EXCEPT ![c] = "idle"] \in [Client -> Conn]
        /\ \A d \in Client : \/ [EndOf(s, "cut") EXCEPT ![c] = "idle"][d] = conn[d]
                             \/ /\ [EndOf(s, "cut") EXCEPT ![c] = "idle"][d] \in {"idle", "ended", "cut"}
                                /\ watch[d] = s
    BY <1>1, <1>a DEF Conn
  <2>3. conn'[c] = "idle"
    BY <1>1, <2>1
  <2> QED
    BY <1>a, <2>1, <2>2, <2>3, EmptyStream
<1>3. CASE ~(refs[s] <= 1)
  <2>1. /\ conn' = [conn EXCEPT ![c] = "idle"] /\ refs' = [refs EXCEPT ![s] = refs[s] - 1]
        /\ listeners' = [listeners EXCEPT ![s] = RemoveFirst(listeners[s], c)]
    BY <1>3 DEF Close
  <2>2. listeners[s] \in Seq(Client) /\ refs[s] \in Nat
    BY DEF SseTyped
  <2>3. /\ RemoveFirst(listeners[s], c) \in Seq(Client)
        /\ \A i, k \in 1 .. Len(RemoveFirst(listeners[s], c)) :
              RemoveFirst(listeners[s], c)[i] = RemoveFirst(listeners[s], c)[k] => i = k
        /\ \A d : Contains(RemoveFirst(listeners[s], c), d) => Listening(s, d) /\ d # c
    BY <1>a, <2>2, RemoveContains DEF OneSeat, Listening
  <2>4. refs[s] - 1 \in Nat
    BY <1>3, <2>2
  <2>5. refs' \in [Submission -> Nat] /\ conn' \in [Client -> Conn] /\ conn'[c] = "idle"
    BY <2>1, <2>4 DEF SseTyped, Conn
  <2>6. /\ listeners' \in [Submission -> Seq(Client)]
        /\ listeners'[s] = RemoveFirst(listeners[s], c)
        /\ \A u \in Submission : u # s => listeners'[u] = listeners[u]
    BY <2>1, <2>3 DEF SseTyped
  <2>7. \A d \in Client : IF d = c THEN conn'[d] = "idle" ELSE conn'[d] = conn[d]
    BY <2>1 DEF SseTyped
  <2> QED
    BY <2>3, <2>5, <2>6, <2>7 DEF Leaving
<1> QED
  BY <1>2, <1>3

\* Whoever still listens afterwards does so as before.
LEMMA LeavingSeats ==
    ASSUME SseTyped, Seats, NEW s \in Submission, Leaving(s), watch' = watch
    PROVE  OneSeat' /\ \A d \in Client : Seated(d)'
<1>1. OneSeat'
  <2> SUFFICES ASSUME NEW u \in Submission
               PROVE  \A i, k \in 1 .. Len(listeners'[u]) :
                         listeners'[u][i] = listeners'[u][k] => i = k
    BY DEF OneSeat
  <2> QED
    BY DEF Leaving, Seats, OneSeat
<1>2. ASSUME NEW d \in Client, NEW u \in Submission, Contains(listeners'[u], d)
      PROVE  watch'[d] = u /\ conn'[d] \in {"live", "ghost"}
  <2>1. Listening(u, d)
    BY <1>2 DEF Leaving, Listening
  <2>2. watch[d] = u /\ conn[d] \in {"live", "ghost"}
    BY <2>1 DEF Seats, Seated
  <2>3. conn'[d] = conn[d]
    BY <1>2, <2>2 DEF Leaving
  <2> QED
    BY <2>2, <2>3
<1> QED
  BY <1>1, <1>2 DEF Seated, Listening

\* A client that is not live is not subscribed.
LEMMA NotSeated ==
    ASSUME Seats, NEW c \in Client, conn[c] \notin {"live", "ghost"}, NEW s \in Submission
    PROVE  ~Listening(s, c)
BY DEF Seats, Seated

\* What a client knows of a submission is typed, finite and without repetitions.
LEMMA FoundIs ==
    ASSUME Pipeline, RowsFinite, NEW s \in Submission
    PROVE  Found(s) \in View /\ IsFiniteSet(Found(s).rows) /\ Distinct(Found(s).rows)
<1>1. /\ status[s] \in Status /\ score[s] \in Nat /\ results[s] \in SUBSET Row
      /\ IsFiniteSet(results[s]) /\ Distinct(results[s])
  BY DEF Pipeline, Typed, TypeOK, RowsFinite, Listed, RowsInOrder, Distinct
<1>2. IsFiniteSet({}) /\ Distinct({})
  BY FS_EmptySet DEF Distinct
<1>3. CASE status[s] \in Final
  BY <1>1, <1>3 DEF Found, View
<1>4. CASE status[s] \notin Final
  BY <1>1, <1>2, <1>4 DEF Found, View, NoView
<1> QED
  BY <1>3, <1>4

LEMMA NoViewIs == NoView \in View /\ IsFiniteSet(NoView.rows) /\ Distinct(NoView.rows)
BY FS_EmptySet DEF NoView, View, Status, Distinct

LEMMA ReadClients ==
    ASSUME Pipeline, RowsFinite, Clients, NEW c \in Client, NEW s \in Submission, Read(c, s)
    PROVE  Clients'
<1> USE DEF Clients, SseTyped
<1>1. /\ conn[c] = "idle" /\ conn' = [conn EXCEPT ![c] = "read"]
      /\ watch' = [watch EXCEPT ![c] = s] /\ view' = [view EXCEPT ![c] = Found(s)]
      /\ seen' = [seen EXCEPT ![c] = <<>>] /\ refs' = refs /\ listeners' = listeners
  BY DEF Read
<1>2. Found(s) \in View /\ IsFiniteSet(Found(s).rows) /\ Distinct(Found(s).rows)
  BY FoundIs
<1>3. SseTyped'
  BY <1>1, <1>2 DEF Conn
<1>4. Views'
  BY <1>1, <1>2 DEF Views, Distinct
<1>5. OneSeat'
  BY <1>1 DEF Seats, OneSeat
<1>6. \A u \in Submission : ~Listening(u, c)
  BY <1>1, NotSeated
<1>7. ASSUME NEW d \in Client PROVE Seated(d)' /\ Waiting(d)'
  <2>1. CASE d = c
    BY <1>1, <1>6, <2>1 DEF Seated, Listening, Waiting
  <2>2. CASE d # c
    BY <1>1, <2>2 DEF Seats, Seated, Listening, Waiting, Events, Results
  <2> QED
    BY <2>1, <2>2
<1> QED
  BY <1>3, <1>4, <1>5, <1>7 DEF Seats

LEMMA DropClients ==
    ASSUME Clients, NEW c \in Client, Drop(c)
    PROVE  Clients'
<1> USE DEF Clients, SseTyped
<1>1. /\ conn[c] = "read" /\ conn' = [conn EXCEPT ![c] = "gone"]
      /\ UNCHANGED <<refs, listeners, watch, view, seen>>
  BY DEF Drop
<1>2. SseTyped'
  BY <1>1 DEF Conn
<1>3. \A u \in Submission : ~Listening(u, c)
  BY <1>1, NotSeated
<1>4. ASSUME NEW d \in Client PROVE Seated(d)' /\ Waiting(d)'
  <2>1. CASE d = c
    BY <1>1, <1>3, <2>1 DEF Seats, Seated, Listening, Waiting
  <2>2. CASE d # c
    BY <1>1, <2>2 DEF Seats, Seated, Listening, Waiting, Events, Results
  <2> QED
    BY <2>1, <2>2
<1> QED
  BY <1>1, <1>2, <1>4 DEF Seats, OneSeat, Views, Distinct

LEMMA ReplayClients ==
    ASSUME Clients, NEW c \in Client, Replay(c)
    PROVE  Clients'
<1> USE DEF Clients, SseTyped
<1>1. /\ conn[c] \in {"read", "gone"} /\ conn' = [conn EXCEPT ![c] = "idle"]
      /\ seen' = [seen EXCEPT ![c] = IF conn[c] = "read" THEN ReplayEvents(view[c]) ELSE seen[c]]
      /\ view' = [view EXCEPT ![c] = NoView] /\ UNCHANGED <<refs, listeners, watch>>
  BY DEF Replay
<1>2. ReplayEvents(view[c]) \in Seq(Event)
  BY ReplayIs DEF Views
<1>3. SseTyped'
  BY <1>1, <1>2, NoViewIs DEF Conn
<1>4. Views'
  BY <1>1, NoViewIs DEF Views, Distinct
<1>5. \A u \in Submission : ~Listening(u, c)
  BY <1>1, NotSeated
<1>6. ASSUME NEW d \in Client PROVE Seated(d)' /\ Waiting(d)'
  <2>1. CASE d = c
    BY <1>1, <1>5, <2>1 DEF Seated, Listening, Waiting
  <2>2. CASE d # c
    BY <1>1, <2>2 DEF Seats, Seated, Listening, Waiting, Events, Results
  <2> QED
    BY <2>1, <2>2
<1> QED
  BY <1>1, <1>3, <1>4, <1>6 DEF Seats, OneSeat

LEMMA SubscribeClients ==
    ASSUME Clients, NEW c \in Client, Subscribe(c)
    PROVE  Clients'
<1> USE DEF Clients, SseTyped
<1>1. PICK s \in Submission : s = watch[c]
  OBVIOUS
<1>2. /\ conn[c] \in {"read", "gone"} /\ conn' = [conn EXCEPT ![c] = IF @ = "read" THEN "live" ELSE "ghost"]
      /\ refs' = [refs EXCEPT ![s] = @ + 1]
      /\ listeners' = [listeners EXCEPT ![s] = Append(listeners[s], c)]
      /\ view' = [view EXCEPT ![c] = NoView] /\ UNCHANGED <<watch, seen>>
  BY <1>1 DEF Subscribe
<1>3. /\ Append(listeners[s], c) \in Seq(Client)
      /\ \A d : Contains(Append(listeners[s], c), d) <=> Contains(listeners[s], d) \/ d = c
  BY AppendContains
<1>4. SseTyped'
  BY <1>2, <1>3, NoViewIs DEF Conn
<1>5. Views'
  BY <1>2, NoViewIs DEF Views, Distinct
<1>6. \A u \in Submission : ~Listening(u, c)
  BY <1>2, NotSeated
<1>7. \A u \in Submission : IF u = s THEN listeners'[u] = Append(listeners[s], c)
                            ELSE listeners'[u] = listeners[u]
  BY <1>2
<1>8. OneSeat'
  <2>1. \A i, k \in 1 .. Len(Append(listeners[s], c)) :
            Append(listeners[s], c)[i] = Append(listeners[s], c)[k] => i = k
    BY <1>6, AppendOnce DEF Listening, Seats, OneSeat
  <2> QED
    BY <1>7, <2>1 DEF Seats, OneSeat
<1>9. ASSUME NEW d \in Client PROVE Seated(d)' /\ Waiting(d)'
  <2>1. CASE d = c
    <3>1. conn'[c] \in {"live", "ghost"} /\ watch'[c] = s /\ seen'[c] = <<>>
      BY <1>1, <1>2 DEF Seats, Waiting
    <3>2. \A u \in Submission : Contains(listeners'[u], c) => u = s
      BY <1>6, <1>7 DEF Listening
    <3>3. Seated(c)'
      BY <3>1, <3>2 DEF Seated, Listening
    <3>4. Waiting(c)'
      BY <3>1 DEF Waiting, Events, Results
    <3> QED
      BY <2>1, <3>3, <3>4
  <2>2. CASE d # c
    <3>1. conn'[d] = conn[d] /\ watch'[d] = watch[d] /\ seen'[d] = seen[d]
      BY <1>2, <2>2
    <3>2. \A u \in Submission : Contains(listeners'[u], d) => Contains(listeners[u], d)
      BY <1>3, <1>7, <2>2
    <3>3. Seated(d)'
      BY <3>1, <3>2 DEF Seats, Seated, Listening
    <3>4. Waiting(d)'
      BY <3>1 DEF Seats, Waiting, Events, Results
    <3> QED
      BY <3>3, <3>4
  <2> QED
    BY <2>1, <2>2
<1> QED
  BY <1>4, <1>5, <1>8, <1>9 DEF Seats

LEMMA ClosedClients ==
    ASSUME Clients, NEW c \in Client, Closed(c)
    PROVE  Clients'
<1> USE DEF Clients
<1>1. PICK s \in Submission : s = watch[c]
  BY DEF SseTyped
<1>2. Close(s, c) /\ seen' = [seen EXCEPT ![c] = <<>>] /\ UNCHANGED <<watch, view>>
  BY <1>1 DEF Closed
<1>3. Leaving(s) /\ conn'[c] = "idle"
  BY <1>1, <1>2, CloseLeaves
<1>4. SseTyped'
  <2>1. <<>> \in Seq(Event)
    OBVIOUS
  <2>2. seen' \in [Client -> Seq(Event)]
    BY <1>2, <2>1 DEF SseTyped
  <2> QED
    BY <1>2, <1>3, <2>2 DEF SseTyped, Leaving
<1>5. OneSeat' /\ \A d \in Client : Seated(d)'
  BY <1>2, <1>3, LeavingSeats
<1>6. ASSUME NEW d \in Client PROVE Waiting(d)'
  <2>1. CASE d = c
    BY <1>3, <2>1 DEF Waiting
  <2>2. CASE d # c
    <3>1. /\ seen'[d] = seen[d]
          /\ conn'[d] \in {"read", "gone", "live", "ghost"} => conn'[d] = conn[d]
      BY <1>2, <1>3, <2>2 DEF SseTyped, Leaving
    <3> QED
      BY <3>1 DEF Seats, Waiting, Events, Results
  <2> QED
    BY <2>1, <2>2
<1> QED
  BY <1>2, <1>4, <1>5, <1>6 DEF Seats, Views, Distinct

\* The events reach those who wait for more.
LEMMA PushWaits ==
    ASSUME SseTyped, Seats, NEW s \in Submission, NEW e \in Event, Push(s, e)
    PROVE  /\ seen' \in [Client -> Seq(Event)]
           /\ \A d \in Client : ~Listening(s, d) => seen'[d] = seen[d]
           /\ \A d \in Client : Listening(s, d) =>
                 \A i \in 1 .. Len(seen'[d]) :
                     i = Len(seen'[d]) \/ seen'[d][i].type = "test_result"
<1> USE DEF SseTyped
<1>1. ASSUME NEW d \in Client
      PROVE  seen'[d] \in Seq(Event) /\ (~Listening(s, d) => seen'[d] = seen[d])
  BY PushIs
<1>2. seen' \in [Client -> Seq(Event)]
  BY <1>1 DEF Push
<1>3. ASSUME NEW d \in Client, Listening(s, d), NEW i \in 1 .. Len(seen'[d]),
             i # Len(seen'[d])
      PROVE  seen'[d][i].type = "test_result"
  <2>1. /\ Len(seen[d]) \in Nat /\ Len(seen'[d]) = Len(seen[d]) + 1
        /\ \A k \in 1 .. Len(seen[d]) : seen'[d][k] = seen[d][k]
    BY <1>3, PushIs
  <2>2. conn[d] \in {"live", "ghost"}
    BY <1>3 DEF Seats, Seated
  <2>3. i \in 1 .. Len(seen[d])
    BY <1>3, <2>1
  <2>4. seen[d][i].type = "test_result"
    BY <2>2, <2>3 DEF Seats, Waiting, Events, Results
  <2> QED
    BY <2>1, <2>3, <2>4
<1> QED
  BY <1>1, <1>2, <1>3

LEMMA PushClients ==
    ASSUME Clients, NEW s \in Submission, NEW e \in ResultEvent, Push(s, e),
           UNCHANGED <<refs, listeners, conn, watch, view>>
    PROVE  Clients'
<1> USE DEF Clients
<1>0. e \in Event
  BY EventKinds
<1>1. SseTyped'
  BY <1>0, PushWaits DEF SseTyped
<1>2. OneSeat' /\ \A d \in Client : Seated(d)'
  BY DEF Seats, OneSeat, Seated, Listening
<1>3. ASSUME NEW d \in Client PROVE Waiting(d)'
  <2>1. CASE ~Listening(s, d)
    <3>1. seen'[d] = seen[d]
      BY <1>0, <2>1, PushWaits
    <3> QED
      BY <3>1 DEF Seats, Waiting, Events, Results
  <2>2. CASE Listening(s, d)
    <3>1. conn'[d] \in {"live", "ghost"}
      BY <2>2 DEF Seats, Seated
    <3>2. /\ Len(seen[d]) \in Nat /\ Len(seen'[d]) = Len(seen[d]) + 1
          /\ seen'[d][Len(seen[d]) + 1] = Filter(s, d, e)
      BY <1>0, <2>2, PushIs DEF SseTyped
    <3>3. Filter(s, d, e).type = "test_result"
      BY <1>0, FilterIs, EventKinds
    <3>4. \A i \in 1 .. Len(seen'[d]) : seen'[d][i].type = "test_result"
      BY <1>0, <2>2, <3>2, <3>3, PushWaits
    <3> QED
      BY <3>1, <3>4 DEF Waiting, Events, Results
  <2> QED
    BY <2>1, <2>2
<1> QED
  BY <1>1, <1>2, <1>3 DEF Seats, Views, Distinct

LEMMA FinishClients ==
    ASSUME Clients, NEW s \in Submission, NEW e \in FinalEvent, Finish(s, e)
    PROVE  Clients'
<1> USE DEF Clients
<1>0. e \in Event /\ Push(s, e) /\ Complete(s) /\ UNCHANGED <<watch, view>>
  BY EventKinds DEF Finish
<1>1. Leaving(s) /\ \A d \in Client : Listening(s, d) => conn'[d] \in {"idle", "ended", "cut"}
  BY <1>0, CompleteLeaves
<1>2. SseTyped'
  BY <1>0, <1>1, PushWaits DEF SseTyped, Leaving
<1>3. OneSeat' /\ \A d \in Client : Seated(d)'
  BY <1>0, <1>1, LeavingSeats
<1>4. ASSUME NEW d \in Client PROVE Waiting(d)'
  <2>1. CASE Listening(s, d)
    BY <1>1, <2>1 DEF Waiting
  <2>2. CASE ~Listening(s, d)
    <3>1. /\ seen'[d] = seen[d]
          /\ conn'[d] \in {"read", "gone", "live", "ghost"} => conn'[d] = conn[d]
      BY <1>0, <1>1, <2>2, PushWaits DEF Leaving
    <3> QED
      BY <3>1 DEF Seats, Waiting, Events, Results
  <2> QED
    BY <2>1, <2>2
<1> QED
  BY <1>0, <1>2, <1>3, <1>4 DEF Seats, Views, Distinct

\* After a crash, and before anything happened, nobody is connected.
LEMMA NobodyConnected ==
    ASSUME refs = [s \in Submission |-> 0], listeners = [s \in Submission |-> <<>>],
           conn = [c \in Client |-> "idle"], watch \in [Client -> Submission],
           view = [c \in Client |-> NoView], seen = [c \in Client |-> <<>>]
    PROVE  Clients
<1>1. SseTyped
  BY NoViewIs DEF SseTyped, Conn
<1>2. Views
  BY NoViewIs DEF Views
<1>3. \A s \in Submission : listeners[s] = <<>>
  OBVIOUS
<1>4. OneSeat /\ \A c \in Client : Seated(c)
  BY <1>3 DEF OneSeat, Seated, Listening, Contains
<1>5. \A c \in Client : Waiting(c)
  BY DEF Waiting
<1> QED
  BY <1>1, <1>2, <1>4, <1>5 DEF Clients, Seats

LEMMA InitStream == StreamInit => StreamInv
<1> SUFFICES ASSUME StreamInit PROVE StreamInv
  OBVIOUS
<1>1. IdleRun.sub \in Submission
  BY SubmissionAssumption DEF IdleRun
<1>2. watch \in [Client -> Submission]
  BY <1>1 DEF StreamInit
<1>3. Clients
  BY <1>2, NobodyConnected DEF StreamInit
<1>4. RowsFinite
  BY FS_EmptySet DEF StreamInit, Init, RowsFinite
<1> QED
  BY <1>3, <1>4, InitPipeline DEF StreamInit, StreamInv

LEMMA NextStream == StreamInv /\ [StreamNext]_streamVars => StreamInv'
<1> SUFFICES ASSUME StreamInv, [StreamNext]_streamVars PROVE StreamInv'
  OBVIOUS
<1> USE DEF StreamInv
<1>1. Pipeline'
  BY NextPipeline
<1>2. RowsFinite'
  BY PipelineSteps, RowsStayFinite DEF RowsFinite, Pipeline
<1>3. ASSUME UNCHANGED sse PROVE Clients'
  BY <1>3 DEF sse, Clients, SseTyped, Views, Distinct, Seats, OneSeat, Seated, Listening,
              Waiting, Events, Results
<1>4. ASSUME StreamCrash PROVE Clients'
  <2>1. /\ refs' = [s \in Submission |-> 0] /\ listeners' = [s \in Submission |-> <<>>]
        /\ conn' = [c \in Client |-> "idle"] /\ watch' \in [Client -> Submission]
        /\ view' = [c \in Client |-> NoView] /\ seen' = [c \in Client |-> <<>>]
    BY <1>4 DEF StreamCrash, Clients, SseTyped
  <2>2. SseTyped'
    BY <2>1, NoViewIs DEF SseTyped, Conn
  <2>3. Views'
    BY <2>1, NoViewIs DEF Views, Distinct
  <2>4. \A s \in Submission : listeners'[s] = <<>>
    BY <2>1
  <2>5. OneSeat' /\ \A c \in Client : Seated(c)'
    BY <2>4 DEF OneSeat, Seated, Listening, Contains
  <2>6. \A c \in Client : Waiting(c)'
    BY <2>1 DEF Waiting
  <2> QED
    BY <2>2, <2>3, <2>5, <2>6 DEF Clients, Seats
<1>5. ASSUME NEW c \in Client, ClientStep(c) PROVE Clients'
  BY <1>5, ReadClients, DropClients, ReplayClients, SubscribeClients, ClosedClients
     DEF ClientStep, Handle
<1>6. ASSUME NEW w \in Worker, NEW c \in TestCase, NEW passed \in BOOLEAN,
             Push(Sub(w), ResultOf(w, c, passed)),
             UNCHANGED <<refs, listeners, conn, watch, view>>
      PROVE  Clients'
  BY <1>6, EventsTyped, PushClients
<1>7. ASSUME NEW w \in Worker,
             (Announce(w) /\ Finish(Sub(w), VerdictOf(w))) \/ Finish(Sub(w), ErrorEvent)
      PROVE  Clients'
  BY <1>7, EventsTyped, FinishClients DEF Announce
<1>8. Clients'
  BY <1>3, <1>4, <1>5, <1>6, <1>7, StreamSteps
<1> QED
  BY <1>1, <1>2, <1>8

\* The variables of the composed system stay in their types.
THEOREM StreamTypeCorrect == StreamSpec => []StreamTypeOK
<1>1. StreamInv => StreamTypeOK
  BY DEF StreamInv, Pipeline, Typed, Clients, SseTyped, StreamTypeOK
<1> QED
  BY <1>1, InitStream, NextStream, PTL DEF StreamSpec

-----------------------------------------------------------------------------
(* What a client receives *)

\* The event of a run reaches client d.
Receives(d, e) ==
    /\ Listening(watch[d], d)
    /\ seen'[d] = Append(seen[d], Filter(watch[d], d, e))

\* How the events of one client come about.
LEMMA SeenSteps ==
    ASSUME StreamInv, [StreamNext]_streamVars, NEW d \in Client
    PROVE  \/ seen'[d] = <<>>
           \/ /\ watch'[d] = watch[d]
              /\ \/ seen'[d] = seen[d]
                 \/ /\ UNCHANGED vars /\ view[d].status \in Final
                    /\ seen'[d] = ReplayEvents(view[d])
                 \/ \E w \in Worker, c \in TestCase, passed \in BOOLEAN :
                       /\ Sub(w) = watch[d] /\ JudgeCase(w, c, passed)
                       /\ Receives(d, ResultOf(w, c, passed))
                 \/ \E w \in Worker :
                       Sub(w) = watch[d] /\ Announce(w) /\ Receives(d, VerdictOf(w))
                 \/ Receives(d, ErrorEvent)
<1> USE DEF StreamInv, Clients, SseTyped
<1>1. ASSUME NEW s \in Submission, NEW e, Push(s, e)
      PROVE  seen'[d] = seen[d] \/ (s = watch[d] /\ Receives(d, e))
  <2>1. Listening(s, d) => s = watch[d]
    BY DEF Seats, Seated
  <2> QED
    BY <1>1, <2>1 DEF Push, Receives
<1>2. CASE UNCHANGED sse
  BY <1>2 DEF sse
<1>3. CASE StreamCrash
  BY <1>3 DEF StreamCrash
<1>4. ASSUME NEW w \in Worker, NEW c \in TestCase, NEW passed \in BOOLEAN,
             JudgeCase(w, c, passed), Push(Sub(w), ResultOf(w, c, passed))
      PROVE  \/ seen'[d] = seen[d]
             \/ Sub(w) = watch[d] /\ Receives(d, ResultOf(w, c, passed))
  BY <1>1, <1>4, EventsTyped
<1>5. ASSUME NEW w \in Worker, NEW e, Finish(Sub(w), e)
      PROVE  /\ watch'[d] = watch[d]
             /\ seen'[d] = seen[d] \/ (Sub(w) = watch[d] /\ Receives(d, e))
  BY <1>1, <1>5, EventsTyped DEF Finish
<1>6. ASSUME NEW c \in Client, ClientStep(c)
      PROVE  \/ seen'[d] = <<>>
             \/ /\ watch'[d] = watch[d]
                /\ \/ seen'[d] = seen[d]
                   \/ /\ UNCHANGED vars /\ view[d].status \in Final
                      /\ seen'[d] = ReplayEvents(view[d])
  <2>1. ASSUME NEW s \in Submission, Read(c, s)
        PROVE  seen'[d] = <<>> \/ (watch'[d] = watch[d] /\ seen'[d] = seen[d])
    BY <2>1 DEF Read
  <2>2. CASE Drop(c) \/ Subscribe(c)
    BY <2>2 DEF Drop, Subscribe
  <2>3. CASE Closed(c)
    BY <2>3 DEF Closed
  <2>4. CASE Replay(c)
    BY <2>4 DEF Replay
  <2> QED
    BY <1>6, <2>1, <2>2, <2>3, <2>4 DEF ClientStep, Handle
<1> QED
  BY <1>2, <1>3, <1>4, <1>5, <1>6, StreamSteps

LEMMA SeenKinds ==
    ASSUME StreamInv, [StreamNext]_streamVars, NEW d \in Client
    PROVE  \/ seen'[d] = <<>> \/ seen'[d] = seen[d] \/ seen'[d] = ReplayEvents(view[d])
           \/ \E e \in Event : Receives(d, e)
<1>1. /\ \A w \in Worker, c \in TestCase, passed \in BOOLEAN : ResultOf(w, c, passed) \in Event
      /\ \A w \in Worker : Announce(w) => VerdictOf(w) \in Event
  BY EventsTyped, EventKinds DEF StreamInv, Announce
<1>2. ErrorEvent \in Event
  BY DEF ErrorEvent, Event
<1> QED
  BY <1>1, <1>2, SeenSteps

\* A replay gives a client the rows it read, in order, and then the verdict.
LEMMA ReplaySeen ==
    ASSUME StreamInv, NEW d \in Client, seen'[d] = ReplayEvents(view[d])
    PROVE  LET n == Cardinality(view[d].rows) IN
           /\ seen'[d] \in Seq(Event) /\ n \in Nat /\ Len(seen'[d]) = n + 1
           /\ \A i \in 1 .. n :
                 /\ seen'[d][i].type = "test_result" /\ seen'[d][i].index = i - 1
                 /\ seen'[d][i].row = Inserted(view[d].rows)[i]
                 /\ seen'[d][i].output => seen'[d][i].row.case \notin Hidden
           /\ seen'[d][n + 1] =
                 [type |-> "completed", verdict |-> view[d].status, score |-> view[d].score,
                  passed |-> Cardinality({r \in view[d].rows : r.passed}), total |-> n]
<1> DEFINE n == Cardinality(view[d].rows)
<1>1. view[d] \in View /\ IsFiniteSet(view[d].rows) /\ Distinct(view[d].rows)
  BY DEF StreamInv, Clients, SseTyped, Views
<1>2. /\ seen'[d] \in Seq(Event) /\ n \in Nat /\ Len(seen'[d]) = n + 1
      /\ \A i \in 1 .. n : seen'[d][i] = [type |-> "test_result", index |-> i - 1,
                                          row |-> Inserted(view[d].rows)[i],
                                          output |-> Inserted(view[d].rows)[i].case \notin Hidden]
      /\ seen'[d][n + 1] =
            [type |-> "completed", verdict |-> view[d].status, score |-> view[d].score,
             passed |-> Cardinality({r \in view[d].rows : r.passed}), total |-> n]
  BY <1>1, ReplayIs
<1>3. ASSUME NEW i \in 1 .. n
      PROVE  /\ seen'[d][i].type = "test_result" /\ seen'[d][i].index = i - 1
             /\ seen'[d][i].row = Inserted(view[d].rows)[i]
             /\ seen'[d][i].output => seen'[d][i].row.case \notin Hidden
  <2> DEFINE row == Inserted(view[d].rows)[i]
             e == seen'[d][i]
  <2>1. e = [type |-> "test_result", index |-> i - 1, row |-> row,
             output |-> row.case \notin Hidden]
    BY <1>2
  <2> HIDE DEF row, e
  <2>2. e.type = "test_result" /\ e.index = i - 1 /\ e.row = row
    BY <2>1
  <2>3. row.case \in Hidden => e.output = FALSE
    BY <2>1
  <2> QED
    BY <2>2, <2>3 DEF row, e
<1> QED
  BY <1>2, <1>3

\* What Receives does to the sequence of events.
LEMMA ReceivesIs ==
    ASSUME StreamInv, NEW d \in Client, NEW e \in Event, Receives(d, e)
    PROVE  /\ Filter(watch[d], d, e) \in Event
           /\ Len(seen[d]) \in Nat /\ Len(seen'[d]) = Len(seen[d]) + 1
           /\ seen'[d] # <<>> /\ seen[d] \in Seq(Event)
           /\ \A i \in 1 .. Len(seen[d]) : seen'[d][i] = seen[d][i] /\ i \in Results(d)
           /\ seen'[d][Len(seen[d]) + 1] = Filter(watch[d], d, e)
<1>1. seen[d] \in Seq(Event) /\ Filter(watch[d], d, e) \in Event /\ watch[d] \in Submission
  BY FilterIs DEF StreamInv, Clients, SseTyped
<1>2. /\ Append(seen[d], Filter(watch[d], d, e)) # <<>> /\ Len(seen[d]) \in Nat
      /\ Len(Append(seen[d], Filter(watch[d], d, e))) = Len(seen[d]) + 1
      /\ \A i \in 1 .. Len(seen[d]) : Append(seen[d], Filter(watch[d], d, e))[i] = seen[d][i]
      /\ Append(seen[d], Filter(watch[d], d, e))[Len(seen[d]) + 1] = Filter(watch[d], d, e)
  BY <1>1, AppendProperties, LenProperties
<1>3. \A i \in 1 .. Len(seen[d]) : i \in Results(d)
  BY <1>1 DEF Receives, StreamInv, Clients, Seats, Seated, Waiting, Events
<1> QED
  BY <1>1, <1>2, <1>3 DEF Receives

\* Whoever receives a final event, completed or error, receives nothing after
\* it, although retries push new events for the same id: whoever still listens
\* has received results only (submission-sse.service.ts:28-45).
THEOREM FinalEventsAreLast == StreamSpec => []FinalEventIsLast
<1>1. StreamInit => FinalEventIsLast
  BY DEF StreamInit, FinalEventIsLast, Events, Results
<1>2. StreamInv /\ FinalEventIsLast /\ [StreamNext]_streamVars => FinalEventIsLast'
  <2> SUFFICES ASSUME StreamInv, FinalEventIsLast, [StreamNext]_streamVars, NEW d \in Client,
                      NEW i \in 1 .. Len(seen'[d]), i < Len(seen'[d])
               PROVE  seen'[d][i].type = "test_result"
    BY DEF FinalEventIsLast, Events, Results
  <2>1. CASE seen'[d] = <<>>
    BY <2>1
  <2>2. CASE seen'[d] = seen[d]
    BY <2>2 DEF FinalEventIsLast, Events, Results
  <2>3. CASE seen'[d] = ReplayEvents(view[d])
    <3>0. PICK n \in Nat : n = Cardinality(view[d].rows) /\ Len(seen'[d]) = n + 1
      BY <2>3, ReplaySeen
    <3>1. i \in 1 .. n
      BY <3>0
    <3> QED
      BY <2>3, <3>0, <3>1, ReplaySeen
  <2>4. ASSUME NEW e \in Event, Receives(d, e) PROVE seen'[d][i].type = "test_result"
    <3>1. i \in 1 .. Len(seen[d])
      BY <2>4, ReceivesIs
    <3> QED
      BY <2>4, <3>1, ReceivesIs DEF Results
  <2> QED
    BY <2>1, <2>2, <2>3, <2>4, SeenKinds
<1> QED
  BY <1>1, <1>2, InitStream, NextStream, PTL DEF StreamSpec

\* Nobody but an administrator receives the output of a hidden test case, live
\* or replayed, in whatever order clients subscribe: a subscriber that may not
\* see it redacts it at the latest itself (sse.controller.ts:78-82).
THEOREM HiddenIsHidden == StreamSpec => []HiddenStaysHidden
<1>1. StreamInit => HiddenStaysHidden
  BY DEF StreamInit, HiddenStaysHidden, Events, Results
<1>2. StreamInv /\ HiddenStaysHidden /\ [StreamNext]_streamVars => HiddenStaysHidden'
  <2> SUFFICES ASSUME StreamInv, HiddenStaysHidden, [StreamNext]_streamVars,
                      NEW d \in Client, d \notin Admin,
                      NEW i \in 1 .. Len(seen'[d]), seen'[d][i].type = "test_result",
                      seen'[d][i].output
               PROVE  seen'[d][i].row.case \notin Hidden
    BY DEF HiddenStaysHidden, Events, Results
  <2>1. CASE seen'[d] = <<>>
    BY <2>1
  <2>2. CASE seen'[d] = seen[d]
    BY <2>2 DEF HiddenStaysHidden, Events, Results
  <2>3. CASE seen'[d] = ReplayEvents(view[d])
    <3>0. PICK n \in Nat : n = Cardinality(view[d].rows) /\ Len(seen'[d]) = n + 1
      BY <2>3, ReplaySeen
    <3>1. seen'[d][n + 1].type # "test_result"
      <4>1. seen'[d][n + 1] =
               [type |-> "completed", verdict |-> view[d].status, score |-> view[d].score,
                passed |-> Cardinality({r \in view[d].rows : r.passed}), total |-> n]
        BY <2>3, <3>0, ReplaySeen
      <4> QED
        BY <4>1
    <3>2. i \in 1 .. n
      BY <3>0, <3>1
    <3> QED
      BY <2>3, <3>0, <3>2, ReplaySeen
  <2>4. ASSUME NEW e \in Event, Receives(d, e) PROVE seen'[d][i].row.case \notin Hidden
    <3> DEFINE s == watch[d]
    <3>1. CASE i \in 1 .. Len(seen[d])
      BY <2>4, <3>1, ReceivesIs DEF HiddenStaysHidden, Events, Results
    <3>2. CASE i = Len(seen[d]) + 1
      <4>1. seen'[d][i] = Filter(s, d, e)
        BY <2>4, <3>2, ReceivesIs
      <4>2. e \in ResultEvent
        BY <4>1, FilterIs, EventKinds
      <4>3. seen'[d][i].row = e.row /\ ~Redacted(s, d, e.row)
        BY <4>1, <4>2, FilterIs
      <4>4. Contains(listeners[s], d) /\ listeners[s] \in Seq(Client)
        BY <2>4 DEF Receives, Listening, StreamInv, Clients, SseTyped
      <4>5. PICK k \in 1 .. Len(listeners[s]) :
                k = SelectInSeq(listeners[s], LAMBDA c : c = d) /\ listeners[s][k] = d
        BY <4>4, FirstIs
      <4>6. k \in 1 .. SelectInSeq(listeners[s], LAMBDA c : c = d) /\ listeners[s][k] \notin Admin
        BY <4>5
      <4> QED
        BY <4>3, <4>6 DEF Redacted
    <3> QED
      BY <2>4, <3>1, <3>2, ReceivesIs
  <2> QED
    BY <2>1, <2>2, <2>3, <2>4, SeenKinds
<1> QED
  BY <1>1, <1>2, InitStream, NextStream, PTL DEF StreamSpec

-----------------------------------------------------------------------------
(* What a client was told is what the database holds *)

\* What a client read, and what it was told last, is the stored verdict.
Stored(d) ==
    LET s == watch[d] IN
    /\ view[d].status \in Verdicts /\ job[s].stalls = 0 =>
          view[d].status = status[s] /\ view[d].score = score[s]
    /\ Told(d) =>
          /\ Last(seen[d]).verdict \in Final
          /\ Last(seen[d]).verdict # "runtime_error" /\ job[s].stalls = 0 =>
                Last(seen[d]).verdict = status[s] /\ Last(seen[d]).score = score[s]

\* A stored verdict is replaced only after a stall.
LEMMA VerdictStands ==
    ASSUME Typed, ExecutionsAccounted, Scores, [Next]_vars, NEW s \in Submission,
           status[s] \in Verdicts, job'[s].stalls = 0
    PROVE  status'[s] = status[s] /\ score'[s] = score[s] /\ job[s].stalls = 0
<1>1. job[s].stalls = 0
  BY StallsStay
<1>2. /\ job[s].state \in {"active", "done"}
      /\ \A w \in Worker : On(w, s) => run[w].pc \in Returning
  BY <1>1 DEF Scores, Unscored, Returning
<1>3. ~SaveSubmission(s)
  BY <1>2 DEF SaveSubmission, RequestStep, ExecutionsAccounted, NoJob
<1> QED
  BY <1>1, <1>2, <1>3, Writers

LEMMA ViewSteps ==
    ASSUME StreamInv, [StreamNext]_streamVars, NEW d \in Client
    PROVE  \/ view'[d] = NoView
           \/ view'[d] = view[d] /\ watch'[d] = watch[d]
           \/ view'[d] = Found(watch'[d]) /\ UNCHANGED vars
<1> USE DEF StreamInv, Clients, SseTyped
<1>1. ASSUME NEW c \in Client, ClientStep(c)
      PROVE  \/ view'[d] = NoView
             \/ view'[d] = view[d] /\ watch'[d] = watch[d]
             \/ view'[d] = Found(watch'[d]) /\ UNCHANGED vars
  <2>1. ASSUME NEW s \in Submission, Read(c, s)
        PROVE  \/ view'[d] = view[d] /\ watch'[d] = watch[d]
               \/ view'[d] = Found(watch'[d]) /\ UNCHANGED vars
    BY <2>1 DEF Read
  <2>2. CASE Drop(c) \/ Closed(c)
    BY <2>2 DEF Drop, Closed
  <2>3. CASE Replay(c) \/ Subscribe(c)
    BY <2>3 DEF Replay, Subscribe
  <2> QED
    BY <1>1, <2>1, <2>2, <2>3 DEF ClientStep, Handle
<1>2. ASSUME NEW s, NEW e, Finish(s, e) PROVE view' = view /\ watch' = watch
  BY <1>2 DEF Finish
<1>3. CASE StreamCrash
  BY <1>3 DEF StreamCrash
<1> QED
  BY <1>1, <1>2, <1>3, StreamSteps DEF sse

LEMMA NextViews ==
    ASSUME StreamInv, Scores, [StreamNext]_streamVars, NEW d \in Client, Stored(d),
           view'[d].status \in Verdicts, job'[watch'[d]].stalls = 0
    PROVE  view'[d].status = status'[watch'[d]] /\ view'[d].score = score'[watch'[d]]
<1>0. [Next]_vars /\ Typed /\ ExecutionsAccounted /\ watch[d] \in Submission
  BY PipelineSteps DEF StreamInv, Pipeline, Clients, SseTyped
<1>1. CASE view'[d] = NoView
  BY <1>1 DEF NoView, Verdicts
<1>2. CASE view'[d] = view[d] /\ watch'[d] = watch[d]
  <2>1. job[watch[d]].stalls = 0
    BY <1>0, <1>2, StallsStay
  <2>2. view[d].status = status[watch[d]] /\ view[d].score = score[watch[d]]
    BY <1>2, <2>1 DEF Stored
  <2> QED
    BY <1>0, <1>2, <2>2, VerdictStands
<1>3. CASE view'[d] = Found(watch'[d]) /\ UNCHANGED vars
  <2>1. status' = status /\ score' = score
    BY <1>3 DEF vars, database
  <2>2. CASE status[watch'[d]] \in Final
    BY <1>3, <2>1, <2>2 DEF Found
  <2>3. CASE status[watch'[d]] \notin Final
    BY <1>3, <2>1, <2>3 DEF Found, NoView, Final, Verdicts
  <2> QED
    BY <2>2, <2>3
<1> QED
  BY <1>1, <1>2, <1>3, ViewSteps

\* The last event of a client that receives one.
LEMMA ReceivesLast ==
    ASSUME StreamInv, NEW d \in Client, NEW e \in Event, Receives(d, e)
    PROVE  /\ e \in FinalEvent => Last(seen'[d]) = e
           /\ e \in ResultEvent => Last(seen'[d]).type = "test_result"
<1>1. Last(seen'[d]) = Filter(watch[d], d, e)
  BY ReceivesIs DEF Last
<1> QED
  BY <1>1, FilterIs, EventKinds

LEMMA NextTold ==
    ASSUME StreamInv, Scores, [StreamNext]_streamVars, NEW d \in Client, Stored(d), Told(d)'
    PROVE  /\ Last(seen'[d]).verdict \in Final
           /\ Last(seen'[d]).verdict # "runtime_error" /\ job'[watch'[d]].stalls = 0 =>
                 /\ Last(seen'[d]).verdict = status'[watch'[d]]
                 /\ Last(seen'[d]).score = score'[watch'[d]]
<1>0. /\ [Next]_vars /\ Typed /\ ExecutionsAccounted /\ watch[d] \in Submission
      /\ seen'[d] # <<>> /\ Last(seen'[d]).type = "completed"
  BY PipelineSteps DEF StreamInv, Pipeline, Clients, SseTyped, Told
<1>1. CASE watch'[d] = watch[d] /\ seen'[d] = seen[d]
  <2>1. Told(d)
    BY <1>0, <1>1 DEF Told
  <2> SUFFICES ASSUME Last(seen[d]).verdict # "runtime_error", job'[watch[d]].stalls = 0
               PROVE  /\ Last(seen[d]).verdict = status'[watch[d]]
                      /\ Last(seen[d]).score = score'[watch[d]]
    BY <1>1, <2>1 DEF Stored
  <2>2. job[watch[d]].stalls = 0
    BY <1>0, StallsStay
  <2>3. /\ Last(seen[d]).verdict = status[watch[d]] /\ Last(seen[d]).score = score[watch[d]]
        /\ status[watch[d]] \in Verdicts
    BY <2>1, <2>2 DEF Stored, Final, Verdicts
  <2> QED
    BY <1>0, <2>3, VerdictStands
<1>2. CASE /\ watch'[d] = watch[d] /\ UNCHANGED vars /\ view[d].status \in Final
           /\ seen'[d] = ReplayEvents(view[d])
  <2>1. PICK n \in Nat : n = Cardinality(view[d].rows) /\ Len(seen'[d]) = n + 1
    BY <1>2, ReplaySeen
  <2>2. seen'[d][n + 1] =
           [type |-> "completed", verdict |-> view[d].status, score |-> view[d].score,
            passed |-> Cardinality({r \in view[d].rows : r.passed}), total |-> n]
    BY <1>2, <2>1, ReplaySeen
  <2>3. Last(seen'[d]).verdict = view[d].status /\ Last(seen'[d]).score = view[d].score
    BY <2>1, <2>2 DEF Last
  <2>4. status' = status /\ score' = score /\ job' = job
    BY <1>2 DEF vars, database
  <2> QED
    BY <1>2, <2>3, <2>4 DEF Stored, Final, Verdicts
<1>3. ASSUME NEW w \in Worker, NEW c \in TestCase, NEW passed \in BOOLEAN,
             Receives(d, ResultOf(w, c, passed))
      PROVE  FALSE
  <2>1. ResultOf(w, c, passed) \in ResultEvent
    BY EventsTyped DEF StreamInv
  <2> QED
    BY <1>0, <1>3, <2>1, ReceivesLast, EventKinds
<1>4. ASSUME NEW w \in Worker, Sub(w) = watch[d], Announce(w), Receives(d, VerdictOf(w)),
             watch'[d] = watch[d]
      PROVE  /\ Last(seen'[d]).verdict \in Final
             /\ Last(seen'[d]).verdict # "runtime_error" /\ job'[watch'[d]].stalls = 0 =>
                   /\ Last(seen'[d]).verdict = status'[watch'[d]]
                   /\ Last(seen'[d]).score = score'[watch'[d]]
  <2>1. VerdictOf(w) \in FinalEvent
    BY <1>4, EventsTyped DEF StreamInv, Announce
  <2>2. Last(seen'[d]) = VerdictOf(w)
    BY <1>4, <2>1, ReceivesLast, EventKinds
  <2>3. /\ Last(seen'[d]).verdict = Verdict(run[w])
        /\ Last(seen'[d]).score = Score(Cardinality(run[w].passed), Cardinality(run[w].cases))
    BY <2>2 DEF VerdictOf
  <2>4. run[w].pc = "announce" /\ status' = status /\ score' = score /\ job' = job
    BY <1>4 DEF Announce, database
  <2>5. Verdict(run[w]) \in Final
    BY DEF Verdict, Final
  <2> QED
    BY <1>4, <2>3, <2>4, <2>5 DEF StreamInv, Pipeline, Reports, Reporting, Sub
<1>5. ~Receives(d, ErrorEvent)
  <2>1. ErrorEvent \in FinalEvent /\ ErrorEvent.type = "error"
    BY DEF ErrorEvent, FinalEvent
  <2> QED
    BY <1>0, <2>1, ReceivesLast, EventKinds
<1> QED
  BY <1>0, <1>1, <1>2, <1>3, <1>4, <1>5, SeenSteps

\* The verdict and score a client was last told are those of the database, also
\* when it was told before a retry, except for an error that is retried and for
\* a submission that is judged again after a crash: whoever announces has stored
\* what it announces, and who replays has read it (submission.processor.ts:185-195).
THEOREM ToldIsStored ==
    ASSUME MaxLostAcks = 0
    PROVE  StreamSpec => []ToldWhatIsStored
<1> DEFINE I == StreamInv /\ Scores /\ \A d \in Client : Stored(d)
<1>1. StreamInit => I
  <2> SUFFICES ASSUME StreamInit PROVE I
    OBVIOUS
  <2>1. \A d \in Client : view[d] = NoView /\ seen[d] = <<>>
    BY DEF StreamInit
  <2> QED
    BY <2>1, InitStream, InitScores DEF StreamInit, Stored, Told, NoView, Verdicts
<1>2. I /\ [StreamNext]_streamVars => I'
  <2> SUFFICES ASSUME I, [StreamNext]_streamVars PROVE I'
    OBVIOUS
  <2>1. StreamInv'
    BY NextStream
  <2>2. Scores'
    BY PipelineSteps, NextScores DEF StreamInv, Pipeline
  <2>3. ASSUME NEW d \in Client PROVE Stored(d)'
    BY NextViews, NextTold DEF Stored
  <2> QED
    BY <2>1, <2>2, <2>3
<1>3. I => ToldWhatIsStored
  BY DEF Stored, ToldWhatIsStored
<1> HIDE DEF I
<1> QED
  BY <1>1, <1>2, <1>3, PTL DEF StreamSpec

-----------------------------------------------------------------------------
(* The results of a client add up *)

Passed(d) == {i \in Results(d) : seen[d][i].row.passed}

InOrder(d) ==
    \A i, k \in Results(d) : i < k => seen[d][k].index = seen[d][i].index + (k - i)

\* A client that listens, and has received something, follows the one run of its
\* submission: it knows the last case of it, and what passed if it saw the first.
Follows(d) ==
    Listening(watch[d], d) /\ seen[d] # <<>> =>
        \E w \in Worker :
            /\ On(w, watch[d]) /\ run[w].pc \in {"judge", "announce"}
            /\ Last(seen[d]).index + 1 = Cardinality(run[w].ran)
            /\ seen[d][1].index = 0 => Cardinality(Passed(d)) = Cardinality(run[w].passed)

AddedUp(d) ==
    Told(d) /\ Len(seen[d]) > 1 /\ seen[d][1].index = 0 =>
        Last(seen[d]).passed = Cardinality(Passed(d))

AddsUp(d) == InOrder(d) /\ Follows(d) /\ AddedUp(d)

\* The run a client follows goes on quietly, tells it a result, or ends the stream.
LEMMA FollowedStep ==
    ASSUME StreamInv, [StreamNext]_streamVars, NEW w \in Worker, NEW s \in Submission,
           On(w, s), run[w].pc \in {"judge", "announce"}
    PROVE  \/ /\ On(w, s)' /\ run'[w].pc \in {"judge", "announce"}
              /\ run'[w].ran = run[w].ran /\ run'[w].passed = run[w].passed
           \/ \E c \in TestCase, passed \in BOOLEAN : Push(s, ResultOf(w, c, passed))
           \/ listeners'[s] = <<>>
<1>0. /\ Typed /\ run[w] \in Run /\ run \in [Worker -> Run] /\ Sub(w) = s
      /\ listeners \in [Submission -> Seq(Client)]
  BY SubTyped DEF StreamInv, Pipeline, Clients, SseTyped, Typed, TypeOK, On, Sub
<1>1. ASSUME NEW e, Finish(s, e) PROVE listeners'[s] = <<>>
  BY <1>0, <1>1 DEF Finish, Complete
<1>2. ASSUME run'[w] = run[w]
      PROVE  /\ On(w, s)' /\ run'[w].pc \in {"judge", "announce"}
             /\ run'[w].ran = run[w].ran /\ run'[w].passed = run[w].passed
  BY <1>2 DEF On
<1>3. CASE StreamProcess(w)
  <2>1. CASE \E c \in TestCase, passed \in BOOLEAN : StreamJudgeCase(w, c, passed)
    BY <1>0, <2>1 DEF StreamJudgeCase, ResultOf
  <2>2. CASE StreamAnnounce(w)
    BY <1>0, <1>1, <2>2 DEF StreamAnnounce
  <2>3. CASE SaveVerdict(w)
    BY <1>0, <2>3 DEF SaveVerdict, GoTo, Run, On, Sub
  <2>4. ~(FetchSubmission(w) \/ MarkRunning(w) \/ LoadTests(w) \/ Refetch(w) \/ MarkError(w)
          \/ Settle(w))
    BY DEF FetchSubmission, MarkRunning, LoadTests, Refetch, MarkError, Settle
  <2> QED
    BY <1>3, <2>1, <2>2, <2>3, <2>4 DEF StreamProcess
<1>4. CASE (CallFails(w) \/ AckLost(w)) /\ StreamThrow(w)
  <2>1. run[w].pc = "judge"
    BY <1>4 DEF CallFails, AckLost, Trying, Catching
  <2>2. run'[w].pc = "refetch"
    BY <1>0, <1>4, <2>1 DEF CallFails, AckLost, Throw, GoTo, Handler, Trying, Run
  <2> QED
    BY <1>0, <1>1, <1>4, <2>2 DEF StreamThrow
<1>5. ASSUME NEW v \in Worker, v # w, Process(v) \/ CallFails(v) \/ AckLost(v)
      PROVE  run'[w] = run[w]
  BY <1>0, <1>5, RunStep, SettleStep
<1>6. ASSUME NEW v \in Worker, NEW u \in Submission, Take(v, u) PROVE run'[w] = run[w]
  BY <1>0, <1>6, TakeStep
<1>7. ASSUME NEW u \in Submission, Serve(u) \/ Promote(u) \/ Stall(u) PROVE run' = run
  BY <1>7 DEF Serve, CheckRequest, SaveSubmission, Enqueue, EnqueueFails, Promote, Stall
<1>8. CASE StreamCrash
  BY <1>8 DEF StreamCrash
<1>9. ASSUME NEW c \in Client, ClientStep(c) PROVE run' = run
  BY <1>9 DEF ClientStep, Read, Drop, Handle, Replay, Subscribe, Closed, vars
<1>10. ASSUME NEW v \in Worker, StreamProcess(v) PROVE Process(v)
  BY <1>10 DEF StreamProcess, StreamJudgeCase, StreamAnnounce, Process
<1>11. CASE EditTests \/ UNCHANGED streamVars
  BY <1>2, <1>11 DEF EditTests, streamVars, vars
<1> QED
  BY <1>2, <1>3, <1>4, <1>5, <1>6, <1>7, <1>8, <1>9, <1>10, <1>11
     DEF StreamNext, Silent, ClientStep

\* Whoever was told the end no longer listens.
LEMMA NoMore ==
    ASSUME StreamInv', NEW d \in Client, seen'[d] # <<>>, Last(seen'[d]).type # "test_result"
    PROVE  ~Contains(listeners'[watch'[d]], d)
<1>1. seen'[d] \in Seq(Event) /\ watch'[d] \in Submission
  BY DEF StreamInv, Clients, SseTyped
<1>2. Len(seen'[d]) \in 1 .. Len(seen'[d])
  BY <1>1
<1>3. conn'[d] \notin {"live", "ghost"}
  BY <1>2 DEF StreamInv, Clients, Seats, Waiting, Events, Results, Last
<1> QED
  BY <1>1, <1>3 DEF StreamInv, Clients, Seats, Seated, Listening

\* A client that has received something and listens has listened before.
LEMMA ListenedBefore ==
    ASSUME StreamInv, [StreamNext]_streamVars, NEW d \in Client, watch'[d] = watch[d],
           seen'[d] = seen[d], seen[d] # <<>>, Contains(listeners'[watch[d]], d)
    PROVE  Listening(watch[d], d)
<1> DEFINE s == watch[d]
<1>0. s \in Submission /\ SseTyped /\ Seats
  BY DEF StreamInv, Clients, SseTyped
<1>1. ASSUME listeners' = listeners PROVE Listening(s, d)
  BY <1>1 DEF Listening
<1>2. ASSUME NEW u \in Submission, Leaving(u) PROVE Listening(s, d)
  BY <1>0, <1>2 DEF Leaving, Listening
<1>3. ASSUME NEW c \in Client, ClientStep(c) PROVE Listening(s, d)
  <2>1. CASE Subscribe(c)
    <3>1. c # d
      BY <1>0, <2>1 DEF Subscribe, Seats, Waiting
    <3>2. PICK u \in Submission : listeners' = [listeners EXCEPT ![u] = Append(listeners[u], c)]
      BY <1>0, <2>1 DEF Subscribe, SseTyped
    <3>3. Contains(Append(listeners[u], c), d) => Contains(listeners[u], d)
      BY <1>0, <3>1, AppendContains DEF SseTyped
    <3>4. \A v \in Submission : listeners'[v] = IF v = u THEN Append(listeners[u], c)
                                                ELSE listeners[v]
      BY <1>0, <3>2 DEF SseTyped
    <3> QED
      BY <1>0, <3>3, <3>4 DEF Listening
  <2>2. CASE Closed(c)
    BY <1>0, <1>2, <2>2, CloseLeaves DEF Closed, SseTyped
  <2>3. ASSUME NEW u \in Submission, Read(c, u) PROVE Listening(s, d)
    BY <1>1, <2>3 DEF Read
  <2>4. CASE Drop(c) \/ Replay(c)
    BY <1>1, <2>4 DEF Drop, Replay
  <2> QED
    BY <1>3, <2>1, <2>2, <2>3, <2>4 DEF ClientStep, Handle
<1>4. ASSUME NEW w \in Worker, NEW e, Finish(Sub(w), e) PROVE Listening(s, d)
  <2>1. Sub(w) \in Submission
    BY EventsTyped DEF StreamInv
  <2> QED
    BY <1>0, <1>2, <1>4, <2>1, CompleteLeaves DEF Finish
<1>5. ~StreamCrash
  BY <1>0 DEF StreamCrash, Contains
<1> QED
  BY <1>1, <1>3, <1>4, <1>5, StreamSteps DEF sse

\* How the results of a client grow.
LEMMA ResultsGrow ==
    ASSUME StreamInv, NEW d \in Client, NEW e \in Event, Receives(d, e)
    PROVE  /\ Results(d) = 1 .. Len(seen[d])
           /\ e \in ResultEvent =>
                 /\ Results(d)' = 1 .. Len(seen[d]) + 1
                 /\ seen'[d][Len(seen[d]) + 1].index = e.index
                 /\ Passed(d)' = IF e.row.passed THEN Passed(d) \cup {Len(seen[d]) + 1}
                                 ELSE Passed(d)
           /\ e \in FinalEvent => Results(d)' = Results(d) /\ Passed(d)' = Passed(d)
<1> DEFINE n == Len(seen[d])
<1>1. /\ n \in Nat /\ Len(seen'[d]) = n + 1
      /\ \A i \in 1 .. n : seen'[d][i] = seen[d][i] /\ seen[d][i].type = "test_result"
      /\ seen'[d][n + 1] = Filter(watch[d], d, e)
  BY ReceivesIs DEF Results
<1>2. Results(d) = 1 .. n
  BY <1>1 DEF Results, Events
<1>3. Results(d)' = {i \in 1 .. n + 1 : seen'[d][i].type = "test_result"}
  BY <1>1 DEF Results, Events
<1>4. Passed(d)' = {i \in Results(d)' : seen'[d][i].row.passed}
  BY DEF Passed
<1>5. ASSUME e \in ResultEvent
      PROVE  /\ Results(d)' = 1 .. n + 1 /\ seen'[d][n + 1].index = e.index
             /\ Passed(d)' = IF e.row.passed THEN Passed(d) \cup {n + 1} ELSE Passed(d)
  <2>1. /\ seen'[d][n + 1].type = "test_result" /\ seen'[d][n + 1].index = e.index
        /\ seen'[d][n + 1].row = e.row
    BY <1>1, <1>5, FilterIs, EventKinds
  <2>2. Results(d)' = 1 .. n + 1
    BY <1>1, <1>3, <2>1
  <2>3. Passed(d) = {i \in 1 .. n : seen[d][i].row.passed}
    BY <1>2 DEF Passed
  <2> HIDE DEF n
  <2>4. \A i \in 1 .. n + 1 : i \in Passed(d)' <=> i \in Passed(d) \/ (i = n + 1 /\ e.row.passed)
    BY <1>1, <1>4, <2>1, <2>2, <2>3
  <2>5. Passed(d)' \subseteq 1 .. n + 1 /\ Passed(d) \subseteq 1 .. n + 1
    BY <1>1, <1>4, <2>2, <2>3
  <2>6. n + 1 \in 1 .. n + 1
    BY <1>1
  <2> QED
    BY <2>1, <2>2, <2>4, <2>5, <2>6
<1>6. ASSUME e \in FinalEvent PROVE Results(d)' = Results(d) /\ Passed(d)' = Passed(d)
  <2>1. seen'[d][n + 1].type # "test_result"
    BY <1>1, <1>6, FilterIs, EventKinds
  <2>2. Results(d)' = 1 .. n
    BY <1>1, <1>3, <2>1
  <2> QED
    BY <1>1, <1>2, <1>4, <2>2 DEF Passed
<1> QED
  BY <1>2, <1>5, <1>6

\* A client that received nothing has nothing to add up.
LEMMA NothingAddsUp ==
    ASSUME NEW d \in Client, seen'[d] = <<>>
    PROVE  AddsUp(d)'
<1>1. Results(d)' = {} /\ ~Told(d)'
  BY DEF Results, Events, Told
<1> QED
  BY <1>1 DEF AddsUp, InOrder, Follows, AddedUp

\* Events of others, and steps without any, leave what a client received alone.
LEMMA QuietAddsUp ==
    ASSUME StreamInv, [StreamNext]_streamVars, NEW d \in Client, AddsUp(d),
           watch'[d] = watch[d], seen'[d] = seen[d]
    PROVE  AddsUp(d)'
<1>1. Results(d)' = Results(d) /\ Passed(d)' = Passed(d)
  BY DEF Results, Events, Passed
<1>2. InOrder(d)' /\ AddedUp(d)'
  BY <1>1 DEF AddsUp, InOrder, AddedUp, Told
<1>3. ASSUME Contains(listeners'[watch[d]], d), seen[d] # <<>>
      PROVE  \E w \in Worker :
                /\ On(w, watch[d])' /\ run'[w].pc \in {"judge", "announce"}
                /\ Last(seen[d]).index + 1 = Cardinality(run'[w].ran)
                /\ seen[d][1].index = 0 => Cardinality(Passed(d)) = Cardinality(run'[w].passed)
  <2>1. Listening(watch[d], d) /\ watch[d] \in Submission
    BY <1>3, ListenedBefore DEF StreamInv, Clients, SseTyped
  <2>2. PICK w \in Worker :
            /\ On(w, watch[d]) /\ run[w].pc \in {"judge", "announce"}
            /\ Last(seen[d]).index + 1 = Cardinality(run[w].ran)
            /\ seen[d][1].index = 0 => Cardinality(Passed(d)) = Cardinality(run[w].passed)
    BY <1>3, <2>1 DEF AddsUp, Follows
  <2>3. ASSUME NEW c \in TestCase, NEW passed \in BOOLEAN,
               Push(watch[d], ResultOf(w, c, passed))
        PROVE  FALSE
    <3>1. ResultOf(w, c, passed) \in Event
      BY EventsTyped, EventKinds DEF StreamInv
    <3>2. Len(seen[d]) \in Nat /\ Len(seen'[d]) = Len(seen[d]) + 1
      BY <2>1, <2>3, <3>1, PushIs DEF StreamInv, Clients, SseTyped
    <3> QED
      BY <3>2
  <2>4. listeners'[watch[d]] # <<>>
    BY <1>3 DEF Contains
  <2> QED
    BY <2>1, <2>2, <2>3, <2>4, FollowedStep
<1>4. Follows(d)'
  BY <1>1, <1>3 DEF Follows, Listening
<1> QED
  BY <1>2, <1>4 DEF AddsUp

\* A replay counts the rows it gives.
LEMMA ReplayAddsUp ==
    ASSUME StreamInv, StreamInv', NEW d \in Client, watch'[d] = watch[d],
           seen'[d] = ReplayEvents(view[d])
    PROVE  AddsUp(d)'
<1> DEFINE rows == view[d].rows
           f == Inserted(rows)
<1>1. PICK n \in Nat : n = Cardinality(rows) /\ Len(seen'[d]) = n + 1
  BY ReplaySeen
<1>2. \A i \in 1 .. n : /\ seen'[d][i].type = "test_result" /\ seen'[d][i].index = i - 1
                        /\ seen'[d][i].row = f[i]
  BY <1>1, ReplaySeen
<1>3. seen'[d][n + 1] =
         [type |-> "completed", verdict |-> view[d].status, score |-> view[d].score,
          passed |-> Cardinality({r \in rows : r.passed}), total |-> n]
  BY <1>1, ReplaySeen
<1>4. f \in Bijection(1 .. n, rows) /\ IsFiniteSet(rows)
  <2>1. rows \in SUBSET Row /\ IsFiniteSet(rows) /\ Distinct(rows)
    BY DEF StreamInv, Clients, SseTyped, Views, View
  <2> QED
    BY <1>1, <2>1, InsertedIs
<1> HIDE DEF rows, f
<1>5. seen'[d][n + 1].type = "completed"
  BY <1>3
<1>6. Results(d)' = 1 .. n
  <2>1. Results(d)' = {i \in 1 .. n + 1 : seen'[d][i].type = "test_result"}
    BY <1>1 DEF Results, Events
  <2> QED
    BY <1>1, <1>2, <1>5, <2>1
<1>7. InOrder(d)'
  <2>1. \A i, k \in 1 .. n : i < k => seen'[d][k].index = seen'[d][i].index + (k - i)
    <3> TAKE i \in 1 .. n, k \in 1 .. n
    <3>1. seen'[d][i].index = i - 1 /\ seen'[d][k].index = k - 1
      BY <1>2
    <3> QED
      BY <1>1, <3>1
  <2> QED
    BY <1>6, <2>1 DEF InOrder
<1>8. Last(seen'[d]) = seen'[d][n + 1] /\ seen'[d] # <<>>
  BY <1>1 DEF Last
<1>9. Follows(d)'
  BY <1>5, <1>8, NoMore DEF Follows, Listening
<1>10. Passed(d)' = {i \in 1 .. n : f[i].passed}
  BY <1>2, <1>6 DEF Passed
<1>11. Cardinality({r \in rows : r.passed}) = Cardinality({i \in 1 .. n : f[i].passed})
  <2> DEFINE S == {i \in 1 .. n : f[i].passed}
             T == {r \in rows : r.passed}
             g == [i \in S |-> f[i]]
  <2>1. /\ f \in [1 .. n -> rows] /\ \A i, k \in 1 .. n : f[i] = f[k] => i = k
        /\ \A r \in rows : \E i \in 1 .. n : f[i] = r
    BY <1>4 DEF Bijection, Injection, Surjection, IsInjective
  <2>2a. \A i \in S : g[i] = f[i] /\ f[i] \in T /\ i \in 1 .. n
    BY <2>1
  <2>2b. g \in [S -> T]
    BY <2>2a
  <2>2c. \A i, k \in S : g[i] = g[k] => i = k
    BY <2>1, <2>2a
  <2>2d. \A r \in T : \E i \in S : g[i] = r
    <3> TAKE r \in T
    <3>1. PICK i \in 1 .. n : f[i] = r
      BY <2>1
    <3>2. i \in S
      BY <3>1
    <3> QED
      BY <2>2a, <3>1, <3>2
  <2>3. IsFiniteSet(S)
    <3>1. IsFiniteSet(1 .. n)
      BY <1>1, FS_Interval
    <3>2. S \subseteq 1 .. n
      OBVIOUS
    <3> QED
      BY <3>1, <3>2, FS_Subset
  <2> HIDE DEF S, T, g
  <2>4. g \in Bijection(S, T)
    BY <2>2b, <2>2c, <2>2d DEF Bijection, Injection, Surjection, IsInjective
  <2>5. ExistsBijection(S, T)
    BY <2>4 DEF ExistsBijection
  <2>6. Cardinality(T) = Cardinality(S)
    BY <2>3, <2>5, FS_Bijection
  <2> QED
    BY <2>6 DEF S, T
<1>12. AddedUp(d)'
  BY <1>3, <1>8, <1>10, <1>11 DEF AddedUp
<1> QED
  BY <1>7, <1>9, <1>12 DEF AddsUp

\* A result goes on where the client is; one that starts with the first case of a
\* run counts from nothing.
LEMMA ResultAddsUp ==
    ASSUME MaxLockLosses = 0, StreamInv, StreamInv', NEW d \in Client, AddsUp(d),
           watch'[d] = watch[d],
           NEW w \in Worker, NEW c \in TestCase, NEW passed \in BOOLEAN,
           Sub(w) = watch[d], JudgeCase(w, c, passed), Receives(d, ResultOf(w, c, passed))
    PROVE  AddsUp(d)'
<1> DEFINE e == ResultOf(w, c, passed)
           n == Len(seen[d])
           r == run[w]
<1>0. /\ Typed /\ Owners /\ r \in Run /\ run \in [Worker -> Run] /\ watch[d] \in Submission
      /\ r.pc = "judge" /\ On(w, watch[d]) /\ r.sub = watch[d]
  BY SubTyped DEF StreamInv, Pipeline, Clients, SseTyped, Typed, TypeOK, JudgeCase, On, Sub
<1>1. e \in Event /\ e \in ResultEvent
  BY EventsTyped, EventKinds DEF StreamInv
<1>2. e.index = Cardinality(r.ran) /\ (e.row.passed <=> passed)
  BY DEF ResultOf, CurrentIndex
<1>3. /\ n \in Nat /\ Len(seen'[d]) = n + 1 /\ seen'[d] # <<>> /\ seen[d] \in Seq(Event)
      /\ \A i \in 1 .. n : seen'[d][i] = seen[d][i]
  BY <1>1, ReceivesIs
<1>4. /\ Results(d) = 1 .. n /\ Results(d)' = 1 .. n + 1
      /\ seen'[d][n + 1].index = Cardinality(r.ran)
      /\ Passed(d)' = IF passed THEN Passed(d) \cup {n + 1} ELSE Passed(d)
  BY <1>1, <1>2, ResultsGrow
<1>5. /\ Last(seen'[d]) = seen'[d][n + 1] /\ Last(seen'[d]).type = "test_result"
  BY <1>1, <1>3, ReceivesLast DEF Last
<1>6. /\ r.passed \subseteq r.ran /\ c \notin r.ran
      /\ r.ran \in SUBSET TestCase /\ r.passed \in SUBSET TestCase
  BY <1>0 DEF StreamInv, Pipeline, Listed, Listing, Trying, JudgeCase, NextCases, Phase, Run
<1>7. /\ run'[w].pc = "judge" /\ run'[w].sub = r.sub /\ run'[w].ran = r.ran \cup {c}
      /\ run'[w].passed = IF passed THEN r.passed \cup {c} ELSE r.passed
  BY <1>0 DEF JudgeCase, Run
<1>8. /\ Cardinality(r.ran) \in Nat /\ Cardinality(run'[w].ran) = Cardinality(r.ran) + 1
      /\ Cardinality(r.passed) \in Nat
      /\ Cardinality(run'[w].passed) = Cardinality(r.passed) + (IF passed THEN 1 ELSE 0)
  <2>1. /\ IsFiniteSet(r.ran) /\ Cardinality(r.ran) \in Nat
        /\ IsFiniteSet(r.passed) /\ Cardinality(r.passed) \in Nat
    BY <1>6, CasesCounted
  <2>2. Cardinality(r.ran \cup {c}) = Cardinality(r.ran) + 1
    BY <1>6, <2>1, FS_AddElement
  <2>3. Cardinality(r.passed \cup {c}) = Cardinality(r.passed) + 1
    BY <1>6, <2>1, FS_AddElement
  <2> QED
    BY <1>7, <2>1, <2>2, <2>3
<1>9. /\ Passed(d) \subseteq 1 .. n /\ Cardinality(Passed(d)) \in Nat
      /\ Cardinality(Passed(d)') = Cardinality(Passed(d)) + (IF passed THEN 1 ELSE 0)
  <2>1. Passed(d) \subseteq 1 .. n
    BY <1>4 DEF Passed
  <2>2. IsFiniteSet(Passed(d)) /\ Cardinality(Passed(d)) \in Nat
    <3>1. IsFiniteSet(1 .. n)
      BY <1>3, FS_Interval
    <3>2. IsFiniteSet(Passed(d))
      BY <2>1, <3>1, FS_Subset
    <3> QED
      BY <3>2, FS_CardinalityType
  <2>3. n + 1 \notin Passed(d)
    BY <1>3, <2>1
  <2>4. Cardinality(Passed(d) \cup {n + 1}) = Cardinality(Passed(d)) + 1
    BY <2>2, <2>3, FS_AddElement
  <2> QED
    BY <1>4, <2>1, <2>2, <2>4
<1> HIDE DEF e, n, r
\* What the client knows already is what this run has done.
<1>10. ASSUME n > 0
       PROVE  /\ seen[d][n].index + 1 = Cardinality(r.ran)
              /\ seen[d][1].index = 0 => Cardinality(Passed(d)) = Cardinality(r.passed)
  <2>1. Listening(watch[d], d) /\ seen[d] # <<>>
    BY <1>3, <1>10 DEF Receives, n
  <2>2. PICK v \in Worker :
            /\ On(v, watch[d])
            /\ Last(seen[d]).index + 1 = Cardinality(run[v].ran)
            /\ seen[d][1].index = 0 => Cardinality(Passed(d)) = Cardinality(run[v].passed)
    BY <2>1 DEF AddsUp, Follows
  <2>3. v = w
    BY <1>0, <2>2, RunIsSole DEF Sole
  <2> QED
    BY <2>2, <2>3 DEF Last, n, r
<1>11. InOrder(d)'
  <2> SUFFICES ASSUME NEW i \in 1 .. n + 1, NEW k \in 1 .. n + 1, i < k
               PROVE  seen'[d][k].index = seen'[d][i].index + (k - i)
    BY <1>4 DEF InOrder
  <2>1. i \in 1 .. n
    BY <1>3
  <2>2. seen[d][i].index \in Nat
    <3>1. seen[d][i] \in Event /\ seen[d][i].type = "test_result"
      BY <1>3, <1>4, <2>1 DEF Results, n
    <3> QED
      BY <3>1, EventKinds
  <2>3. CASE k \in 1 .. n
    BY <1>3, <1>4, <2>1, <2>3 DEF AddsUp, InOrder
  <2>4. CASE k = n + 1
    <3>1. seen[d][n].index + 1 = Cardinality(r.ran) /\ n \in 1 .. n
      BY <1>3, <1>10, <2>1
    <3>2. seen[d][n].index = seen[d][i].index + (n - i)
      <4>1. CASE i = n
        BY <1>3, <2>2, <4>1
      <4>2. CASE i < n
        BY <1>4, <2>1, <3>1, <4>2 DEF AddsUp, InOrder
      <4> QED
        BY <1>3, <2>1, <4>1, <4>2
    <3> QED
      <4>1. seen'[d][i].index = seen[d][i].index /\ seen'[d][k].index = Cardinality(r.ran)
        BY <1>3, <1>4, <2>1, <2>4
      <4>2. Cardinality(r.ran) = seen[d][i].index + (n - i) + 1
        BY <3>1, <3>2
      <4>3. n \in Nat /\ i \in Nat /\ k = n + 1
        BY <1>3, <2>1, <2>4
      <4> HIDE DEF e, n, r
      <4> QED
        BY <2>2, <4>1, <4>2, <4>3
  <2> QED
    BY <1>3, <2>3, <2>4
<1>12. Follows(d)'
  <2>1. On(w, watch[d])' /\ run'[w].pc \in {"judge", "announce"}
    BY <1>0, <1>7 DEF On
  <2>2. Last(seen'[d]).index + 1 = Cardinality(run'[w].ran)
    BY <1>4, <1>5, <1>8
  <2>3. ASSUME seen'[d][1].index = 0
        PROVE  Cardinality(Passed(d)') = Cardinality(run'[w].passed)
    <3>1. CASE n > 0
      <4>1. seen[d][1].index = 0
        BY <1>3, <2>3, <3>1
      <4> QED
        BY <1>8, <1>9, <1>10, <3>1, <4>1
    <3>2. CASE n = 0
      <4>1. Cardinality(r.ran) = 0
        BY <1>4, <2>3, <3>2
      <4>2. r.ran = {} /\ r.passed = {}
        BY <1>6, <4>1, CasesCounted
      <4>3. Passed(d) = {}
        BY <1>9, <3>2
      <4> QED
        BY <1>8, <1>9, <4>2, <4>3
    <3> QED
      BY <1>3, <3>1, <3>2
  <2> QED
    BY <2>1, <2>2, <2>3 DEF Follows
<1>13. AddedUp(d)'
  BY <1>5 DEF AddedUp, Told
<1> QED
  BY <1>11, <1>12, <1>13 DEF AddsUp

\* The verdict counts what its run counted, and an error counts nothing.
LEMMA EndAddsUp ==
    ASSUME MaxLockLosses = 0, StreamInv, StreamInv', NEW d \in Client, AddsUp(d),
           watch'[d] = watch[d], NEW e \in FinalEvent, Receives(d, e),
           \/ e = ErrorEvent
           \/ \E w \in Worker : Sub(w) = watch[d] /\ Announce(w) /\ e = VerdictOf(w)
    PROVE  AddsUp(d)'
<1> DEFINE n == Len(seen[d])
<1>0. /\ Typed /\ Owners /\ watch[d] \in Submission
  BY DEF StreamInv, Pipeline, Clients, SseTyped
<1>1. e \in Event /\ e.type # "test_result"
  BY EventKinds
<1>2. /\ n \in Nat /\ Len(seen'[d]) = n + 1 /\ seen'[d] # <<>>
      /\ \A i \in 1 .. n : seen'[d][i] = seen[d][i]
  BY <1>1, ReceivesIs
<1>3. Results(d) = 1 .. n /\ Results(d)' = Results(d) /\ Passed(d)' = Passed(d)
  BY <1>1, ResultsGrow
<1>4. Last(seen'[d]) = e
  BY <1>1, ReceivesLast
<1>5. InOrder(d)'
  BY <1>2, <1>3 DEF AddsUp, InOrder
<1>6. Follows(d)'
  BY <1>1, <1>2, <1>4, NoMore DEF Follows, Listening
<1>7. AddedUp(d)'
  <2> SUFFICES ASSUME Told(d)', Len(seen'[d]) > 1, seen'[d][1].index = 0
               PROVE  e.passed = Cardinality(Passed(d))
    BY <1>3, <1>4 DEF AddedUp
  <2>1. e # ErrorEvent
    BY <1>4 DEF Told, ErrorEvent
  <2>2. PICK w \in Worker : Sub(w) = watch[d] /\ Announce(w) /\ e = VerdictOf(w)
    BY <2>1
  <2>3. e.passed = Cardinality(run[w].passed) /\ On(w, watch[d])
    BY <2>2 DEF VerdictOf, Announce, On, Sub
  <2>4. n > 0 /\ seen[d] # <<>> /\ seen[d][1].index = 0 /\ Listening(watch[d], d)
    BY <1>2 DEF Receives
  <2>5. PICK v \in Worker : /\ On(v, watch[d])
                            /\ Cardinality(Passed(d)) = Cardinality(run[v].passed)
    BY <2>4 DEF AddsUp, Follows
  <2>6. v = w
    BY <1>0, <2>3, <2>5, RunIsSole DEF Sole
  <2> QED
    BY <2>3, <2>5, <2>6
<1> QED
  BY <1>5, <1>6, <1>7 DEF AddsUp

\* The results a client receives on one connection have consecutive indices,
\* wherever it joined, and a client that received all of them can count the
\* passed ones in its final event: as long as no live run loses its lock, those
\* of one stream come from one run (submission.processor.ts:120-134, 187-195;
\* sse.controller.ts:92-116).
THEOREM ResultsAreAdded ==
    ASSUME MaxLockLosses = 0
    PROVE  StreamSpec => []ResultsAddUp
<1> DEFINE I == StreamInv /\ \A d \in Client : AddsUp(d)
<1>1. StreamInit => I
  <2> SUFFICES ASSUME StreamInit PROVE I
    OBVIOUS
  <2>1. ASSUME NEW d \in Client PROVE AddsUp(d)
    <3>1. seen[d] = <<>>
      BY DEF StreamInit
    <3>2. Results(d) = {} /\ ~Told(d)
      BY <3>1 DEF Results, Events, Told
    <3> QED
      BY <3>1, <3>2 DEF AddsUp, InOrder, Follows, AddedUp
  <2> QED
    BY <2>1, InitStream
<1>2. I /\ [StreamNext]_streamVars => I'
  <2> SUFFICES ASSUME I, [StreamNext]_streamVars PROVE I'
    OBVIOUS
  <2>1. StreamInv'
    BY NextStream
  <2>2. ASSUME NEW d \in Client PROVE AddsUp(d)'
    <3>1. ASSUME NEW w \in Worker, NEW c \in TestCase, NEW passed \in BOOLEAN,
                 Sub(w) = watch[d], JudgeCase(w, c, passed), watch'[d] = watch[d],
                 Receives(d, ResultOf(w, c, passed))
          PROVE  AddsUp(d)'
      BY <2>1, <3>1, ResultAddsUp
    <3>2. ASSUME NEW w \in Worker, Sub(w) = watch[d], Announce(w), watch'[d] = watch[d],
                 Receives(d, VerdictOf(w))
          PROVE  AddsUp(d)'
      <4>1. VerdictOf(w) \in FinalEvent
        BY <3>2, EventsTyped DEF StreamInv, Announce
      <4> QED
        BY <2>1, <3>2, <4>1, EndAddsUp
    <3>3. ASSUME Receives(d, ErrorEvent), watch'[d] = watch[d] PROVE AddsUp(d)'
      <4>1. ErrorEvent \in FinalEvent
        BY DEF ErrorEvent, FinalEvent
      <4> QED
        BY <2>1, <3>3, <4>1, EndAddsUp
    <3> QED
      BY <2>1, <3>1, <3>2, <3>3, SeenSteps, NothingAddsUp, QuietAddsUp, ReplayAddsUp
  <2> QED
    BY <2>1, <2>2
<1>3. I => ResultsAddUp
  BY DEF AddsUp, InOrder, AddedUp, ResultsAddUp, Passed
<1> HIDE DEF I
<1> QED
  BY <1>1, <1>2, <1>3, PTL DEF StreamSpec

=============================================================================
