--------------------------- MODULE StandingsProofs ---------------------------
(***************************************************************************)
(* Proofs about the standings, for every contest: induction as a fact      *)
(* about sets, what the loops of the service compute, types, the ICPC      *)
(* rule, the ranks, the agreement of the boards, and what a verdict        *)
(* changes.                                                                *)
(***************************************************************************)
EXTENDS Standings, FiniteSetTheorems, WellFoundedInduction, SequenceTheorems, TLAPS

-----------------------------------------------------------------------------
(* Induction, over sets of numbers and over sets of subsets *)

\* A set of numbers has a least element.
LEMMA Least ==
    ASSUME NEW T, T \subseteq Nat, T # {}
    PROVE  \E m \in T : \A k \in T : m <= k
<1>1. PICK m \in T : \A k \in T : <<k, m>> \notin OpToRel(<, Nat)
  BY NatLessThanWellFounded, WFMin
<1>2. \A k \in T : ~ (k < m)
  BY <1>1 DEF OpToRel
<1> QED
  BY <1>2

\* Induction over the natural numbers, as a fact about a set.
LEMMA NatSet ==
    ASSUME NEW T, 0 \in T, \A n \in Nat : n \in T => n + 1 \in T
    PROVE  Nat \subseteq T
<1> SUFFICES ASSUME Nat \ T # {} PROVE FALSE
  OBVIOUS
<1>1. PICK m \in Nat \ T : \A k \in Nat \ T : m <= k
  BY Least
<1>2. m # 0 /\ m - 1 \in Nat /\ m - 1 \notin Nat \ T
  BY <1>1
<1> QED
  BY <1>1, <1>2

\* The subsets of D with at most k elements.
Small(D, k) == {s \in SUBSET D : Cardinality(s) <= k}

\* What small subsets are.
LEMMA SmallSets ==
    ASSUME NEW D, IsFiniteSet(D)
    PROVE  /\ Small(D, 0) = {{}}
           /\ Small(D, Cardinality(D)) = SUBSET D
           /\ Cardinality(D) \in Nat
           /\ \A k \in Nat : Small(D, k) \subseteq Small(D, k + 1)
           /\ \A k \in Nat : \A s \in Small(D, k + 1) : \A x \in s : s \ {x} \in Small(D, k)
<1>1. \A s \in SUBSET D : IsFiniteSet(s) /\ Cardinality(s) <= Cardinality(D)
  BY FS_Subset
<1>2. \A s \in SUBSET D : Cardinality(s) \in Nat
  BY <1>1, FS_CardinalityType
<1>3. \A s \in SUBSET D : Cardinality(s) = 0 <=> s = {}
  BY <1>1, FS_EmptySet
<1>4. Small(D, 0) = {{}}
  <2>1. \A s \in Small(D, 0) : s = {}
    BY <1>2, <1>3 DEF Small
  <2>2. {} \in Small(D, 0)
    BY <1>3 DEF Small
  <2> QED
    BY <2>1, <2>2
<1>5. Small(D, Cardinality(D)) = SUBSET D
  BY <1>1 DEF Small
<1>6. \A k \in Nat : Small(D, k) \subseteq Small(D, k + 1)
  BY <1>2 DEF Small
<1>7. ASSUME NEW k \in Nat, NEW s \in Small(D, k + 1), NEW x \in s
      PROVE  s \ {x} \in Small(D, k)
  <2>1. Cardinality(s \ {x}) = Cardinality(s) - 1
    BY <1>1, FS_RemoveElement DEF Small
  <2> QED
    BY <2>1, <1>2 DEF Small
<1> QED
  BY <1>2, <1>4, <1>5, <1>6, <1>7

\* pick names one element of every subset of D but the empty one.
Picks(D, pick) == \A s \in SUBSET D : s # {} => pick[s] \in s

\* T holds the empty set, and a set if it holds it without the picked element.
Inductive(D, pick, T) ==
    /\ {} \in T
    /\ \A s \in SUBSET D : s # {} /\ s \ {pick[s]} \in T => s \in T

\* Induction over the subsets of a finite set.
LEMMA SubsetInduction ==
    ASSUME NEW D, IsFiniteSet(D), NEW pick, Picks(D, pick), NEW T, Inductive(D, pick, T)
    PROVE  SUBSET D \subseteq T
<1> USE DEF Picks, Inductive
<1> DEFINE K == {k \in Nat : Small(D, k) \subseteq T}
<1>1. 0 \in K
  BY SmallSets
<1>2. ASSUME NEW k \in Nat, k \in K PROVE k + 1 \in K
  <2>1. ASSUME NEW s \in Small(D, k + 1), s # {} PROVE s \in T
    <3>1. s \in SUBSET D /\ pick[s] \in s
      BY <2>1 DEF Small
    <3>2. s \ {pick[s]} \in Small(D, k)
      BY <3>1, SmallSets
    <3> QED
      BY <3>1, <3>2, <2>1, <1>2
  <2>2. \A s \in Small(D, k + 1) : s \in T
    BY <2>1
  <2> QED
    BY <2>2
<1>3. Nat \subseteq K
  <2> HIDE DEF K
  <2> QED
    BY <1>1, <1>2, NatSet
<1> QED
  BY <1>3, SmallSets

\* op takes an element of D and a value to a value.
Turns(D, V, op) == \A x \in D, v \in V : op[<<x, v>>] \in V

\* g folds op over the subsets of D.
Folds(D, pick, base, op, g) ==
    \A s \in SUBSET D :
        g[s] = IF s = {} THEN base ELSE op[<<pick[s], g[s \ {pick[s]}]>>]

\* A fold over a finite set is defined: some function satisfies its equation.
LEMMA Iterates ==
    ASSUME NEW D, IsFiniteSet(D), NEW pick, Picks(D, pick), NEW V, NEW base \in V,
           NEW op, Turns(D, V, op)
    PROVE  \E g \in [SUBSET D -> V] : Folds(D, pick, base, op, g)
<1> USE DEF Picks, Turns, Folds
<1> DEFINE Step(g, s) == IF s = {} THEN base ELSE op[<<pick[s], g[s \ {pick[s]}]>>]
           Good(g, k) == \A s \in Small(D, k) : g[s] = Step(g, s)
           K == {k \in Nat : \E g \in [Small(D, k) -> V] : Good(g, k)}
<1>1. 0 \in K
  <2> DEFINE h == [s \in Small(D, 0) |-> base]
  <2>1. h \in [Small(D, 0) -> V] /\ Good(h, 0)
    BY SmallSets
  <2> HIDE DEF h
  <2> QED
    BY <2>1
<1>2. ASSUME NEW k \in Nat, k \in K PROVE k + 1 \in K
  <2>1. PICK g \in [Small(D, k) -> V] : Good(g, k)
    BY <1>2
  <2> DEFINE h == [s \in Small(D, k + 1) |-> Step(g, s)]
  <2>2. \A s \in Small(D, k + 1) : s # {} =>
           pick[s] \in s /\ pick[s] \in D /\ s \ {pick[s]} \in Small(D, k)
    <3> SUFFICES ASSUME NEW s \in Small(D, k + 1), s # {}
                 PROVE  pick[s] \in s /\ pick[s] \in D /\ s \ {pick[s]} \in Small(D, k)
      OBVIOUS
    <3>1. s \in SUBSET D
      BY DEF Small
    <3>2. pick[s] \in s /\ pick[s] \in D
      BY <3>1
    <3> QED
      BY <3>2, SmallSets
  <2>3. h \in [Small(D, k + 1) -> V]
    BY <2>2
  <2>4. \A s \in Small(D, k) : h[s] = g[s]
    BY <2>1, SmallSets
  <2>5. Good(h, k + 1)
    <3> SUFFICES ASSUME NEW s \in Small(D, k + 1) PROVE h[s] = Step(h, s)
      OBVIOUS
    <3>1. CASE s = {}
      BY <3>1
    <3>2. CASE s # {}
      <4>1. h[s \ {pick[s]}] = g[s \ {pick[s]}]
        BY <2>2, <2>4, <3>2
      <4>2. h[s] = op[<<pick[s], g[s \ {pick[s]}]>>]
        BY <3>2
      <4> HIDE DEF h
      <4> QED
        BY <4>1, <4>2, <3>2
    <3> QED
      BY <3>1, <3>2
  <2>6. \E f \in [Small(D, k + 1) -> V] : Good(f, k + 1)
    <3> HIDE DEF h, Good
    <3> QED
      BY <2>3, <2>5
  <2> QED
    BY <2>6
<1>3. Nat \subseteq K
  <2> HIDE DEF K
  <2> QED
    BY <1>1, <1>2, NatSet
<1>4. Cardinality(D) \in K
  <2> HIDE DEF K
  <2> QED
    BY <1>3, SmallSets
<1>5. PICK g \in [Small(D, Cardinality(D)) -> V] : Good(g, Cardinality(D))
  BY <1>4
<1>6. Small(D, Cardinality(D)) = SUBSET D
  BY SmallSets
<1> QED
  BY <1>5, <1>6

\* What Max and Min pick of a set of numbers.
LEMMA Extremes ==
    ASSUME NEW D, IsFiniteSet(D), D \subseteq Nat
    PROVE  \A s \in SUBSET D : s # {} =>
              /\ Max(s) \in s /\ \A x \in s : x <= Max(s)
              /\ Min(s) \in s /\ \A x \in s : Min(s) <= x
<1> DEFINE Topped == {t \in SUBSET D : t # {} => \E m \in t : \A x \in t : m >= x}
           first == [t \in SUBSET D |-> CHOOSE x \in t : TRUE]
<1>1. Picks(D, first)
  BY DEF Picks
<1>2. PICK any : Picks(D, any)
  <2> HIDE DEF first
  <2> QED
    BY <1>1
<1>3. ASSUME NEW t \in SUBSET D, t # {}, t \ {any[t]} \in Topped PROVE t \in Topped
  <2>1. any[t] \in t /\ any[t] \in Nat
    BY <1>2, <1>3 DEF Picks
  <2>2. CASE t \ {any[t]} = {}
    <3>1. \A x \in t : any[t] >= x
      BY <2>1, <2>2
    <3> QED
      BY <3>1, <2>1
  <2>3. CASE t \ {any[t]} # {}
    <3>1. PICK m \in t \ {any[t]} : \A x \in t \ {any[t]} : m >= x
      BY <1>3, <2>3
    <3>2. CASE any[t] >= m
      <4>1. \A x \in t : any[t] >= x
        BY <3>1, <3>2, <2>1
      <4> QED
        BY <4>1, <2>1
    <3>3. CASE ~(any[t] >= m)
      <4>1. \A x \in t : m >= x
        BY <3>1, <3>3, <2>1
      <4> QED
        BY <4>1
    <3> QED
      BY <3>2, <3>3
  <2> QED
    BY <2>2, <2>3
<1>4. SUBSET D \subseteq Topped
  <2>1. {} \in Topped
    OBVIOUS
  <2> HIDE DEF Topped
  <2>2. Inductive(D, any, Topped)
    BY <1>3, <2>1 DEF Inductive
  <2> QED
    BY <1>2, <2>2, SubsetInduction
<1> SUFFICES ASSUME NEW s \in SUBSET D, s # {}
             PROVE  /\ Max(s) \in s /\ \A x \in s : x <= Max(s)
                    /\ Min(s) \in s /\ \A x \in s : Min(s) <= x
  OBVIOUS
<1>5. Max(s) \in s /\ \A x \in s : Max(s) >= x
  BY <1>4 DEF Max
<1>6. Min(s) \in s /\ \A x \in s : Min(s) <= x
  <2>1. \E m \in s : \A x \in s : m <= x
    BY Least
  <2> QED
    BY <2>1 DEF Min
<1>7. Max(s) \in Nat /\ s \subseteq Nat
  BY <1>5
<1> QED
  BY <1>5, <1>6, <1>7

-----------------------------------------------------------------------------
(* The loops *)

Standing == [solved: BOOLEAN, attempts: Nat, minute: Nat]

\* The indices of rows are a finite set of numbers.
LEMMA RowsOfLoop ==
    ASSUME TypeOK, NEW S \in SUBSET DOMAIN submissions
    PROVE  /\ IsFiniteSet(S) /\ S \subseteq Nat
           /\ \A i \in S : submissions[i] \in Row
           /\ \E last : Picks(S, last) /\ \A s \in SUBSET S : last[s] = Max(s)
<1>1. Len(submissions) \in Nat /\ DOMAIN submissions = 1 .. Len(submissions)
  BY DEF TypeOK
<1>2. IsFiniteSet(1 .. Len(submissions))
  BY <1>1, FS_Interval
<1>3. IsFiniteSet(S) /\ S \subseteq Nat
  BY <1>1, <1>2, FS_Subset
<1>4. \A i \in S : submissions[i] \in Row
  BY DEF TypeOK
<1> DEFINE last == [s \in SUBSET S |-> Max(s)]
<1>5. \A s \in SUBSET S : last[s] = Max(s)
  OBVIOUS
<1>6. Picks(S, last)
  BY <1>3, Extremes DEF Picks
<1> HIDE DEF last
<1> QED
  BY <1>3, <1>4, <1>5, <1>6

\* One turn of the loop of the live leaderboard, case by case.
LEMMA CountTurn ==
    ASSUME NEW acc \in Standing, NEW s \in Row
    PROVE  /\ Count(acc, s) \in Standing
           /\ acc.solved => Count(acc, s) = acc
           /\ ~acc.solved /\ s.status = "accepted" =>
                 Count(acc, s) = [acc EXCEPT !.solved = TRUE, !.minute = s.minute]
           /\ ~acc.solved /\ IsPenalisable(s.status) =>
                 Count(acc, s) = [acc EXCEPT !.attempts = @ + 1]
           /\ ~acc.solved /\ s.status # "accepted" /\ ~IsPenalisable(s.status) =>
                 Count(acc, s) = acc
<1>1. s.minute \in Nat /\ acc.solved \in BOOLEAN
  BY StandingsAssumption DEF Row, Standing
<1>2. CASE acc.solved
  BY <1>1, <1>2 DEF Count
<1>3. CASE ~acc.solved /\ s.status = "accepted"
  BY <1>1, <1>3 DEF Count, Standing, IsPenalisable
<1>4. CASE ~acc.solved /\ IsPenalisable(s.status)
  BY <1>4 DEF Count, Standing, IsPenalisable
<1>5. CASE ~acc.solved /\ s.status # "accepted" /\ ~IsPenalisable(s.status)
  BY <1>5 DEF Count, Standing
<1> QED
  BY <1>2, <1>3, <1>4, <1>5

\* The loop over the rows of S, turn by turn: what it yields for a set is one turn
\* on what it yields without the last row (leaderboard.service.ts:94-103).
LEMMA CountLoop ==
    ASSUME TypeOK, NEW S \in SUBSET DOMAIN submissions
    PROVE  \E g \in [SUBSET S -> Standing] :
              /\ Loop(Count, Open, S) = g[S]
              /\ g[{}] = Open
              /\ \A s \in (SUBSET S) \ {{}} : g[s] = Count(g[s \ {Max(s)}], submissions[Max(s)])
<1> DEFINE Step(g, s) == IF s = {} THEN Open
                         ELSE Count(g[s \ {Max(s)}], submissions[Max(s)])
           g == CHOOSE g : g = [s \in SUBSET S |-> Step(g, s)]
<1>1. IsFiniteSet(S) /\ S \subseteq Nat /\ \A i \in S : submissions[i] \in Row
  BY RowsOfLoop
<1>2. PICK last : Picks(S, last) /\ \A s \in SUBSET S : last[s] = Max(s)
  BY RowsOfLoop
<1>3. \A i \in S, v \in Standing : Count(v, submissions[i]) \in Standing
  BY <1>1, CountTurn
<1>4. Open \in Standing
  BY DEF Open, Standing
<1>5. \E h : h = [s \in SUBSET S |-> Step(h, s)]
  <2> DEFINE op == [p \in S \X Standing |-> Count(p[2], submissions[p[1]])]
  <2>1. Turns(S, Standing, op)
    BY <1>3 DEF Turns
  <2>2. PICK h \in [SUBSET S -> Standing] : Folds(S, last, Open, op, h)
    <3> HIDE DEF op
    <3> QED
      BY <2>1, <1>1, <1>2, <1>4, Iterates
  <2>3. ASSUME NEW s \in SUBSET S PROVE h[s] = Step(h, s)
    <3>1. CASE s = {}
      BY <3>1, <2>2 DEF Folds
    <3>2. CASE s # {}
      <4>1. Max(s) \in S /\ h[s \ {Max(s)}] \in Standing
        BY <1>2, <3>2 DEF Picks
      <4>2. h[s] = op[<<Max(s), h[s \ {Max(s)}]>>]
        BY <1>2, <2>2, <3>2 DEF Folds
      <4> QED
        BY <4>1, <4>2, <3>2
    <3> QED
      BY <3>1, <3>2
  <2>4. h = [s \in SUBSET S |-> Step(h, s)]
    <3> HIDE DEF Step
    <3> QED
      BY <2>3
  <2> QED
    BY <2>4
<1>6. g = [s \in SUBSET S |-> Step(g, s)]
  BY <1>5
<1>7. Loop(Count, Open, S) = g[S]
  BY DEF Loop, MapThenFoldSet
<1> HIDE DEF g
<1>8. \A s \in SUBSET S : g[s] = Step(g, s)
  BY <1>6
<1>9. g[{}] = Open
  BY <1>8
<1>10. ASSUME NEW s \in SUBSET S, s # {}
       PROVE  g[s] = Count(g[s \ {Max(s)}], submissions[Max(s)])
  BY <1>8, <1>10
<1>11. g \in [SUBSET S -> Standing]
  <2> DEFINE T == {s \in SUBSET S : g[s] \in Standing}
  <2>1. ASSUME NEW s \in SUBSET S, s # {}, s \ {last[s]} \in T PROVE s \in T
    <3>1. last[s] = Max(s) /\ Max(s) \in S /\ s \ {Max(s)} \in T
      BY <2>1, <1>2 DEF Picks
    <3>2. Count(g[s \ {Max(s)}], submissions[Max(s)]) \in Standing
      BY <3>1, <1>3
    <3> QED
      BY <3>2, <1>10, <2>1
  <2>2. {} \in T
    BY <1>9, <1>4
  <2> HIDE DEF T
  <2>3. Inductive(S, last, T)
    BY <2>1, <2>2 DEF Inductive
  <2>4. SUBSET S \subseteq T
    BY <2>3, <1>1, <1>2, SubsetInduction
  <2>5. \A s \in SUBSET S : g[s] \in Standing
    BY <2>4 DEF T
  <2>6. DOMAIN g = SUBSET S /\ g = [s \in DOMAIN g |-> g[s]]
    <3> HIDE DEF Step
    <3> QED
      BY <1>6
  <2> QED
    BY <2>5, <2>6
<1>12. \A s \in (SUBSET S) \ {{}} : g[s] = Count(g[s \ {Max(s)}], submissions[Max(s)])
  BY <1>10
<1> WITNESS g \in [SUBSET S -> Standing]
<1> QED
  BY <1>7, <1>9, <1>12

-----------------------------------------------------------------------------
(* The rule of the contest *)

\* Of some rows: the accepted ones, and the failed ones before the first of those.
AcceptedOf(rows) == {i \in rows : submissions[i].status = "accepted"}
FailedOf(rows) ==
    {i \in rows : /\ IsPenalisable(submissions[i].status)
                  /\ \A a \in AcceptedOf(rows) : i <= a}

\* What the rule says about some rows.
Icpc(st, rows) ==
    /\ st.solved <=> AcceptedOf(rows) # {}
    /\ st.attempts = Cardinality(FailedOf(rows))
    /\ st.solved => \E i \in AcceptedOf(rows) :
          /\ \A a \in AcceptedOf(rows) : i <= a
          /\ st.minute = submissions[i].minute

\* One turn keeps to the rule, when its row is the last one.
LEMMA IcpcTurn ==
    ASSUME TypeOK, NEW rows \in SUBSET DOMAIN submissions, IsFiniteSet(rows),
           NEW m \in rows, \A i \in rows : i <= m,
           NEW st \in Standing, Icpc(st, rows \ {m})
    PROVE  Icpc(Count(st, submissions[m]), rows)
<1> DEFINE rest == rows \ {m}
           s == submissions[m]
<1>1. s \in Row /\ rows \subseteq Nat /\ st.solved \in BOOLEAN
  BY RowsOfLoop DEF Standing
<1>2. \A i \in rest : i < m
  BY <1>1
<1>3. IsFiniteSet(FailedOf(rest))
  BY FS_Subset DEF FailedOf
<1>4. /\ st.solved <=> AcceptedOf(rest) # {}
      /\ st.attempts = Cardinality(FailedOf(rest))
      /\ st.solved => \E i \in AcceptedOf(rest) :
            /\ \A a \in AcceptedOf(rest) : i <= a
            /\ st.minute = submissions[i].minute
  BY DEF Icpc
<1>5. AcceptedOf(rows) = IF s.status = "accepted" THEN AcceptedOf(rest) \cup {m}
                         ELSE AcceptedOf(rest)
  BY DEF AcceptedOf
<1>6. \A a \in AcceptedOf(rest) : a \in rest
  BY DEF AcceptedOf
<1>7. CASE st.solved
  <2>1. PICK i \in AcceptedOf(rest) :
           (\A a \in AcceptedOf(rest) : i <= a) /\ st.minute = submissions[i].minute
    BY <1>4, <1>7
  <2>2. \A a \in AcceptedOf(rows) : i <= a
    BY <2>1, <1>1, <1>2, <1>5, <1>6
  <2>3. FailedOf(rows) \subseteq FailedOf(rest)
    <3>1. ~(m <= i)
      BY <1>1, <1>2, <1>6
    <3> QED
      BY <3>1, <1>5, <2>1 DEF FailedOf
  <2>4. FailedOf(rest) \subseteq FailedOf(rows)
    BY <1>1, <1>2, <1>5 DEF FailedOf
  <2>5. i \in AcceptedOf(rows)
    BY <1>5
  <2>6. Count(st, s) = st
    BY <1>1, <1>7, CountTurn
  <2>7. FailedOf(rows) = FailedOf(rest)
    BY <2>3, <2>4
  <2> HIDE DEF rest
  <2> QED
    BY <2>1, <2>2, <2>5, <2>6, <2>7, <1>4, <1>7 DEF Icpc
<1>8. CASE ~st.solved /\ s.status = "accepted"
  <2>1. AcceptedOf(rest) = {} /\ AcceptedOf(rows) = {m}
    BY <1>4, <1>5, <1>8
  <2>2. FailedOf(rows) = FailedOf(rest)
    BY <2>1, <1>1, <1>2, <1>8 DEF FailedOf, IsPenalisable
  <2>3. Count(st, s) = [st EXCEPT !.solved = TRUE, !.minute = s.minute]
    BY <1>1, <1>8, CountTurn
  <2>4. /\ Count(st, s).solved = TRUE
        /\ Count(st, s).attempts = st.attempts
        /\ Count(st, s).minute = s.minute
    BY <2>3 DEF Standing
  <2>5. m <= m
    BY <1>1
  <2> HIDE DEF rest
  <2> QED
    BY <2>1, <2>2, <2>4, <2>5, <1>4 DEF Icpc
<1>9. CASE ~st.solved /\ IsPenalisable(s.status)
  <2>1. AcceptedOf(rest) = {} /\ AcceptedOf(rows) = {}
    BY <1>4, <1>5, <1>9 DEF IsPenalisable
  <2>2. FailedOf(rows) = FailedOf(rest) \cup {m} /\ m \notin FailedOf(rest)
    BY <2>1, <1>9 DEF FailedOf
  <2>3. Cardinality(FailedOf(rows)) = Cardinality(FailedOf(rest)) + 1
    <3> HIDE DEF rest
    <3> QED
      BY <2>2, <1>3, FS_AddElement
  <2>4. Count(st, s) = [st EXCEPT !.attempts = @ + 1]
    BY <1>1, <1>9, CountTurn
  <2>5. Count(st, s).solved = st.solved /\ Count(st, s).attempts = st.attempts + 1
    BY <2>4 DEF Standing
  <2> HIDE DEF rest
  <2> QED
    BY <2>1, <2>3, <2>5, <1>4, <1>9 DEF Icpc
<1>10. CASE ~st.solved /\ s.status # "accepted" /\ ~IsPenalisable(s.status)
  <2>1. AcceptedOf(rest) = {} /\ AcceptedOf(rows) = {}
    BY <1>4, <1>5, <1>10
  <2>2. FailedOf(rows) = FailedOf(rest)
    BY <2>1, <1>10 DEF FailedOf
  <2>3. Count(st, s) = st
    BY <1>1, <1>10, CountTurn
  <2> HIDE DEF rest
  <2> QED
    BY <2>1, <2>2, <2>3, <1>4, <1>10 DEF Icpc
<1> QED
  BY <1>7, <1>8, <1>9, <1>10

\* The loop keeps to the rule, over whichever rows it goes.
LEMMA LoopIsIcpc ==
    ASSUME TypeOK, NEW S \in SUBSET DOMAIN submissions
    PROVE  /\ Loop(Count, Open, S) \in Standing
           /\ Icpc(Loop(Count, Open, S), S)
<1>1. PICK g \in [SUBSET S -> Standing] :
         /\ Loop(Count, Open, S) = g[S]
         /\ g[{}] = Open
         /\ \A s \in (SUBSET S) \ {{}} : g[s] = Count(g[s \ {Max(s)}], submissions[Max(s)])
  BY CountLoop
<1>2. IsFiniteSet(S) /\ S \subseteq Nat
  BY RowsOfLoop
<1>3. PICK last : Picks(S, last) /\ \A s \in SUBSET S : last[s] = Max(s)
  BY RowsOfLoop
<1> DEFINE Ruled == {s \in SUBSET S : Icpc(g[s], s)}
<1>4. {} \in Ruled
  <2>1. AcceptedOf({}) = {} /\ FailedOf({}) = {}
    BY DEF AcceptedOf, FailedOf
  <2>2. ~g[{}].solved /\ g[{}].attempts = 0
    BY <1>1 DEF Open
  <2>3. Icpc(g[{}], {})
    BY <2>1, <2>2, FS_EmptySet DEF Icpc
  <2> QED
    BY <2>3
<1>5. ASSUME NEW s \in SUBSET S, s # {}, s \ {last[s]} \in Ruled
      PROVE  s \in Ruled
  <2>1. last[s] = Max(s) /\ Max(s) \in s /\ \A i \in s : i <= Max(s)
    BY <1>2, <1>3, <1>5, Extremes
  <2>2. IsFiniteSet(s)
    BY <1>2, FS_Subset
  <2>3. g[s \ {Max(s)}] \in Standing /\ Icpc(g[s \ {Max(s)}], s \ {Max(s)})
    BY <2>1, <1>5
  <2>4. Icpc(Count(g[s \ {Max(s)}], submissions[Max(s)]), s)
    BY <2>1, <2>2, <2>3, IcpcTurn
  <2>5. g[s] = Count(g[s \ {Max(s)}], submissions[Max(s)])
    BY <1>1, <1>5
  <2> QED
    BY <2>4, <2>5
<1>6. SUBSET S \subseteq Ruled
  <2> HIDE DEF Ruled
  <2>1. Inductive(S, last, Ruled)
    BY <1>4, <1>5 DEF Inductive
  <2> QED
    BY <2>1, <1>2, <1>3, SubsetInduction
<1>7. Icpc(g[S], S) /\ g[S] \in Standing
  BY <1>6
<1> QED
  BY <1>1, <1>7

-----------------------------------------------------------------------------
(* Type correctness *)

\* The bounds are numbers.
LEMMA Bounds ==
    /\ MaxSubmissions \in Nat /\ MaxJudgings \in Nat /\ MaxMinutes \in Nat
    /\ Tests \in Nat /\ Tests > 0
BY StandingsAssumption

\* What the division of integers is.
LEMMA Quotient ==
    ASSUME NEW a \in Nat, NEW b \in Nat, b > 0
    PROVE  a \div b \in Nat /\ b * (a \div b) <= a /\ a < b * (a \div b) + b
OBVIOUS

\* The score is a percentage (submission.processor.ts:165-169).
LEMMA ScoreIsPercentage ==
    ASSUME NEW passed \in 0 .. Tests
    PROVE  Score(passed) \in 0 .. 100
<1> DEFINE q == (200 * passed + Tests) \div (2 * Tests)
<1>1. q \in Nat /\ (2 * Tests) * q <= 200 * passed + Tests
  BY Bounds, Quotient
<1>2. Score(passed) = q
  BY DEF Score
<1> HIDE DEF q
<1>3. (2 * Tests) * q <= 201 * Tests
  BY <1>1, Bounds
<1>4. q <= 100
  <2> SUFFICES ASSUME q >= 101 PROVE FALSE
    BY <1>1
  <2>1. Tests * q >= Tests * 101
    BY <1>1, Bounds
  <2> QED
    BY <2>1, <1>1, <1>3, Bounds
<1> QED
  BY <1>1, <1>2, <1>4

\* A new row is typed and leaves the others alone.
LEMMA SubmitStep ==
    ASSUME TypeOK, NEW u \in User, NEW p \in Problem, Submit(u, p)
    PROVE  /\ submissions' \in Seq(Row)
           /\ Len(submissions') = Len(submissions) + 1
           /\ \A i \in DOMAIN submissions : submissions'[i] = submissions[i]
           /\ submissions'[Len(submissions) + 1] =
                 [user |-> u, problem |-> p, minute |-> minute, status |-> "undecided",
                  score |-> 0, completed |-> 0, torn |-> FALSE]
<1> DEFINE new == [user |-> u, problem |-> p, minute |-> minute, status |-> "undecided",
                   score |-> 0, completed |-> 0, torn |-> FALSE]
<1>1. new \in Row
  BY Bounds DEF TypeOK, Row, Status
<1>2. submissions \in Seq(Row) /\ submissions' = Append(submissions, new)
  BY DEF Submit, TypeOK
<1> HIDE DEF new
<1>3. /\ submissions' \in Seq(Row) /\ Len(submissions') = Len(submissions) + 1
      /\ \A i \in 1 .. Len(submissions) : submissions'[i] = submissions[i]
      /\ submissions'[Len(submissions) + 1] = new
  BY <1>1, <1>2, AppendProperties
<1> QED
  BY <1>2, <1>3 DEF new

\* A further run, a verdict or an error changes one row, and of that neither whose
\* it is nor for what.
LEMMA RowStep ==
    ASSUME TypeOK, NEW i \in DOMAIN submissions, NEW new,
           submissions' = [submissions EXCEPT ![i] = new]
    PROVE  /\ new \in Row => submissions' \in Seq(Row)
           /\ Len(submissions') = Len(submissions)
           /\ DOMAIN submissions' = DOMAIN submissions
           /\ submissions'[i] = new
           /\ \A j \in DOMAIN submissions : j # i => submissions'[j] = submissions[j]
<1>1. /\ submissions \in Seq(Row) /\ submissions \in Seq(Row \cup {new})
      /\ i \in 1 .. Len(submissions) /\ new \in Row \cup {new}
  BY DEF TypeOK
<1> QED
  BY <1>1, ExceptSeq

\* What no step of the judging changes.
Rewritten(s, new) == new.user = s.user /\ new.problem = s.problem /\ new.minute = s.minute

LEMMA StoreStep ==
    ASSUME TypeOK, NEW i \in DOMAIN submissions, NEW status, NEW score, NEW torn,
           Store(i, status, score, torn)
    PROVE  /\ Len(submissions') = Len(submissions)
           /\ DOMAIN submissions' = DOMAIN submissions
           /\ \A j \in DOMAIN submissions : j # i => submissions'[j] = submissions[j]
           /\ Rewritten(submissions[i], submissions'[i])
           /\ submissions'[i].status = status
           /\ submissions'[i].score = score
           /\ submissions'[i].torn = torn
           /\ status \in Status /\ score \in 0 .. 100 /\ torn \in BOOLEAN =>
                 submissions' \in Seq(Row)
<1> DEFINE new == [submissions[i] EXCEPT !.status = status, !.score = score,
                                         !.completed = minute + 1, !.torn = torn]
<1>1. submissions' = [submissions EXCEPT ![i] = new]
  BY DEF Store
<1>2. submissions[i] \in Row
  BY DEF TypeOK
<1>3. minute + 1 \in 0 .. MaxMinutes + 1
  BY Bounds DEF TypeOK
<1>4. /\ Rewritten(submissions[i], new)
      /\ new.status = status /\ new.score = score /\ new.torn = torn
  BY <1>2 DEF Row, Rewritten
<1>5. status \in Status /\ score \in 0 .. 100 /\ torn \in BOOLEAN => new \in Row
  BY <1>2, <1>3 DEF Row
<1> HIDE DEF new
<1>6. /\ Len(submissions') = Len(submissions)
      /\ DOMAIN submissions' = DOMAIN submissions /\ submissions'[i] = new
      /\ \A j \in DOMAIN submissions : j # i => submissions'[j] = submissions[j]
      /\ new \in Row => submissions' \in Seq(Row)
  BY <1>1, RowStep
<1> QED
  BY <1>4, <1>5, <1>6

LEMMA RunAgainStep ==
    ASSUME TypeOK, NEW i \in DOMAIN submissions, RunAgain(i)
    PROVE  /\ submissions' \in Seq(Row)
           /\ Len(submissions') = Len(submissions)
           /\ DOMAIN submissions' = DOMAIN submissions
           /\ \A j \in DOMAIN submissions : j # i => submissions'[j] = submissions[j]
           /\ Rewritten(submissions[i], submissions'[i])
           /\ submissions'[i].status = "undecided"
           /\ submissions'[i].score = submissions[i].score
           /\ submissions'[i].torn = submissions[i].torn
<1> DEFINE new == [submissions[i] EXCEPT !.status = "undecided"]
<1>1. submissions' = [submissions EXCEPT ![i] = new]
  BY DEF RunAgain
<1>2. submissions[i] \in Row
  BY DEF TypeOK
<1>3. /\ Rewritten(submissions[i], new) /\ new.status = "undecided"
      /\ new.score = submissions[i].score /\ new.torn = submissions[i].torn
  BY <1>2 DEF Row, Rewritten
<1>4. new \in Row
  BY <1>2 DEF Row, Status
<1> HIDE DEF new
<1>5. /\ submissions' \in Seq(Row) /\ Len(submissions') = Len(submissions)
      /\ DOMAIN submissions' = DOMAIN submissions /\ submissions'[i] = new
      /\ \A j \in DOMAIN submissions : j # i => submissions'[j] = submissions[j]
  BY <1>1, <1>4, RowStep
<1> QED
  BY <1>3, <1>5

\* What a judging stores: a verdict with its score, or an error with the score that
\* the row has.
LEMMA JudgeStores ==
    ASSUME NEW i, NEW passed \in 0 .. Tests, NEW torn, torn \in BOOLEAN, Judge(i, passed, torn)
    PROVE  \E status \in {"accepted", "wrong"} :
              /\ Store(i, status, Score(passed), torn)
              /\ status = "accepted" <=> passed = Tests
              /\ Score(passed) \in 0 .. 100
<1>1. CASE passed = Tests
  BY <1>1, ScoreIsPercentage DEF Judge
<1>2. CASE passed # Tests
  BY <1>2, ScoreIsPercentage DEF Judge
<1> QED
  BY <1>1, <1>2

LEMMA FailureStores ==
    ASSUME TypeOK, NEW i \in DOMAIN submissions, JudgeFails(i)
    PROVE  /\ Store(i, "runtime_error", submissions[i].score, submissions[i].torn)
           /\ submissions[i].score \in 0 .. 100 /\ submissions[i].torn \in BOOLEAN
           /\ "runtime_error" \in Status
<1>1. submissions[i] \in Row
  BY DEF TypeOK
<1> QED
  BY <1>1 DEF JudgeFails, Row, Status

LEMMA InitTyped == Init => TypeOK
BY Bounds DEF Init, TypeOK

LEMMA NextTyped == TypeOK /\ [Next]_vars => TypeOK'
<1> SUFFICES ASSUME TypeOK, [Next]_vars PROVE TypeOK'
  OBVIOUS
<1>1. ASSUME NEW u \in User, NEW p \in Problem, Submit(u, p) PROVE TypeOK'
  BY <1>1, SubmitStep DEF Submit, TypeOK
<1>2. ASSUME NEW i \in DOMAIN submissions, NEW status \in Status, NEW score \in 0 .. 100,
             NEW torn, torn \in BOOLEAN, Store(i, status, score, torn)
      PROVE  TypeOK'
  <2>1. submissions' \in Seq(Row)
    BY <1>2, StoreStep
  <2>2. judgings < MaxJudgings /\ judgings' = judgings + 1 /\ minute' = minute
    BY <1>2 DEF Store
  <2> QED
    BY <2>1, <2>2, Bounds DEF TypeOK
<1>3. ASSUME NEW i \in DOMAIN submissions, JudgeFails(i) PROVE TypeOK'
  BY <1>2, <1>3, FailureStores
<1>4. ASSUME NEW i \in DOMAIN submissions, NEW passed \in 0 .. Tests, NEW torn, torn \in BOOLEAN,
             Judge(i, passed, torn)
      PROVE  TypeOK'
  BY <1>2, <1>4, JudgeStores DEF Status
<1>5. ASSUME NEW i \in DOMAIN submissions, RunAgain(i) PROVE TypeOK'
  BY <1>5, RunAgainStep DEF RunAgain, TypeOK
<1>6. ASSUME Tick PROVE TypeOK'
  BY <1>6, Bounds DEF Tick, TypeOK
<1>7. ASSUME UNCHANGED vars PROVE TypeOK'
  BY <1>7 DEF vars, TypeOK
<1> QED
  BY <1>1, <1>3, <1>4, <1>5, <1>6, <1>7 DEF Next

\* Every state is typed: a score is a percentage, kept by an error as well
\* (submission.processor.ts:165-185, 223-226).
THEOREM TypeCorrect == Spec => []TypeOK
BY InitTyped, NextTyped, PTL DEF Spec

\* The standing of a user in a problem, in any state.
LEMMA StandingTyped ==
    ASSUME TypeOK, NEW u, NEW p
    PROVE  /\ ProblemStanding(u, p) \in Standing
           /\ Icpc(ProblemStanding(u, p), Of(u, p))
           /\ AcceptedOf(Of(u, p)) = Accepted(u, p)
<1>1. Of(u, p) \in SUBSET DOMAIN submissions
  BY DEF Of
<1>2. AcceptedOf(Of(u, p)) = Accepted(u, p)
  BY DEF AcceptedOf, Of, Accepted
<1> QED
  BY <1>1, <1>2, LoopIsIcpc DEF ProblemStanding

\* One pass over the rows, in whatever state of judging, yields the rule of the
\* contest (leaderboard.service.ts:89-112).
THEOREM StandingsAreIcpc == Spec => []StandingIsIcpc
<1>1. TypeOK => StandingIsIcpc
  <2> SUFFICES ASSUME TypeOK, NEW u \in User, NEW p \in Problem
               PROVE  LET st == ProblemStanding(u, p) IN
                      /\ st.solved <=> Accepted(u, p) # {}
                      /\ st.attempts = Cardinality(
                            {i \in Counting(u, p) : IsPenalisable(submissions[i].status)})
                      /\ st.solved => \E i \in Accepted(u, p) \cap Counting(u, p) :
                                         st.minute = submissions[i].minute
    BY DEF StandingIsIcpc
  <2> DEFINE st == ProblemStanding(u, p)
  <2>1. Icpc(st, Of(u, p)) /\ AcceptedOf(Of(u, p)) = Accepted(u, p)
    BY StandingTyped
  <2>2. FailedOf(Of(u, p)) =
           {i \in Counting(u, p) : IsPenalisable(submissions[i].status)}
    BY <2>1 DEF FailedOf, Of, Counting
  <2>3. \A i \in Accepted(u, p) : (\A a \in Accepted(u, p) : i <= a) => i \in Counting(u, p)
    BY DEF Accepted, Counting
  <2> HIDE DEF st
  <2>4. /\ st.solved <=> Accepted(u, p) # {}
        /\ st.attempts = Cardinality(FailedOf(Of(u, p)))
        /\ st.solved => \E i \in Accepted(u, p) :
              /\ \A a \in Accepted(u, p) : i <= a
              /\ st.minute = submissions[i].minute
    BY <2>1 DEF Icpc
  <2>5. st.solved => \E i \in Accepted(u, p) \cap Counting(u, p) :
                        st.minute = submissions[i].minute
    BY <2>3, <2>4
  <2> QED
    BY <2>2, <2>4, <2>5 DEF st
<1> QED
  BY <1>1, TypeCorrect, PTL

-----------------------------------------------------------------------------
(* Sums *)

\* The order in which a sum takes the elements of a set: one that depends on the
\* set alone.
SomeOf(D) == [s \in SUBSET D |-> CHOOSE x \in s : TRUE]

LEMMA SomePicked ==
    ASSUME NEW D
    PROVE  Picks(D, SomeOf(D))
BY DEF Picks, SomeOf

\* g adds the values of f up, element by element.
Sums(D, f, g) ==
    LET any == SomeOf(D)
    IN  /\ g[{}] = 0
        /\ \A s \in (SUBSET D) \ {{}} : g[s] = f[any[s]] + g[s \ {any[s]}]

\* A sum over a finite set of numbers, element by element.
LEMMA SumLoop ==
    ASSUME NEW D, IsFiniteSet(D), NEW f \in [D -> Nat]
    PROVE  \E g \in [SUBSET D -> Nat] : SumFunction(f) = g[D] /\ Sums(D, f, g)
<1> DEFINE any == SomeOf(D)
<1> DEFINE Step(g, s) == IF s = {} THEN 0
                         ELSE f[CHOOSE x \in s : TRUE] + g[s \ {CHOOSE x \in s : TRUE}]
           g == CHOOSE g : g = [s \in SUBSET D |-> Step(g, s)]
<1>1. \A s \in SUBSET D : any[s] = CHOOSE x \in s : TRUE
  BY DEF SomeOf
<1>11. Picks(D, any)
  BY SomePicked
<1> HIDE DEF any
<1>2. \A s \in SUBSET D : s # {} => any[s] \in s /\ any[s] \in D
  BY <1>11 DEF Picks
<1>3. \E h : h = [s \in SUBSET D |-> Step(h, s)]
  <2> DEFINE op == [p \in D \X Nat |-> f[p[1]] + p[2]]
  <2>5. \A x \in D, v \in Nat : op[<<x, v>>] = f[x] + v
    OBVIOUS
  <2> HIDE DEF op
  <2>6. \A x \in D, v \in Nat : f[x] + v \in Nat
    OBVIOUS
  <2>1. Turns(D, Nat, op)
    BY <2>5, <2>6 DEF Turns
  <2>2. PICK h \in [SUBSET D -> Nat] : Folds(D, any, 0, op, h)
    BY <2>1, <1>11, Iterates
  <2>3. ASSUME NEW s \in SUBSET D PROVE h[s] = Step(h, s)
    <3>1. CASE s = {}
      BY <3>1, <2>2 DEF Folds
    <3>2. CASE s # {}
      <4>1. any[s] \in D /\ h[s \ {any[s]}] \in Nat
        BY <1>2, <3>2
      <4>2. h[s] = op[<<any[s], h[s \ {any[s]}]>>]
        BY <2>2, <3>2 DEF Folds
      <4>3. h[s] = f[any[s]] + h[s \ {any[s]}]
        BY <4>1, <4>2, <2>5
      <4> QED
        BY <4>3, <1>1, <3>2
    <3> QED
      BY <3>1, <3>2
  <2>4. h = [s \in SUBSET D |-> Step(h, s)]
    <3> HIDE DEF Step
    <3> QED
      BY <2>3
  <2> QED
    BY <2>4
<1>4. g = [s \in SUBSET D |-> Step(g, s)]
  BY <1>3
<1>5. SumFunction(f) = g[D]
  <2>1. DOMAIN f = D
    OBVIOUS
  <2> QED
    BY <2>1 DEF SumFunction, SumFunctionOnSet, FoldFunctionOnSet, MapThenFoldSet
<1> HIDE DEF g
<1>6. \A s \in SUBSET D : g[s] = Step(g, s)
  BY <1>4
<1>7. g[{}] = 0
  BY <1>6
<1>8. ASSUME NEW s \in SUBSET D, s # {} PROVE g[s] = f[any[s]] + g[s \ {any[s]}]
  BY <1>1, <1>6, <1>8
<1>9. g \in [SUBSET D -> Nat]
  <2> DEFINE T == {s \in SUBSET D : g[s] \in Nat}
  <2>1. ASSUME NEW s \in SUBSET D, s # {}, s \ {any[s]} \in T PROVE s \in T
    <3>1. f[any[s]] \in Nat /\ g[s \ {any[s]}] \in Nat
      BY <2>1, <1>2
    <3>2. g[s] = f[any[s]] + g[s \ {any[s]}]
      BY <1>8, <2>1
    <3>3. g[s] \in Nat
      BY <3>1, <3>2
    <3> QED
      BY <3>3
  <2>2. {} \in T
    BY <1>7
  <2> HIDE DEF T
  <2>3. Inductive(D, any, T)
    BY <2>1, <2>2 DEF Inductive
  <2>4. SUBSET D \subseteq T
    BY <2>3, <1>11, SubsetInduction
  <2>5. \A s \in SUBSET D : g[s] \in Nat
    BY <2>4 DEF T
  <2>6. DOMAIN g = SUBSET D /\ g = [s \in DOMAIN g |-> g[s]]
    <3> HIDE DEF Step
    <3> QED
      BY <1>4
  <2> QED
    BY <2>5, <2>6
<1>10. \A s \in (SUBSET D) \ {{}} : g[s] = f[any[s]] + g[s \ {any[s]}]
  BY <1>8
<1> USE DEF any
<1>12. Sums(D, f, g)
  BY <1>7, <1>10 DEF Sums
<1> QED
  BY <1>5, <1>9, <1>12

\* Sums of numbers are numbers, and grow with their summands.
LEMMA SumsGrow ==
    ASSUME NEW D, IsFiniteSet(D), NEW f \in [D -> Nat], NEW h \in [D -> Nat],
           \A x \in D : f[x] <= h[x]
    PROVE  /\ SumFunction(f) \in Nat /\ SumFunction(h) \in Nat
           /\ SumFunction(f) <= SumFunction(h)
<1>1. PICK any : Picks(D, any) /\ any = SomeOf(D)
  BY SomePicked
<1>2. PICK F \in [SUBSET D -> Nat] : SumFunction(f) = F[D] /\ Sums(D, f, F)
  BY SumLoop
<1>3. PICK H \in [SUBSET D -> Nat] : SumFunction(h) = H[D] /\ Sums(D, h, H)
  BY SumLoop
<1> DEFINE T == {s \in SUBSET D : F[s] <= H[s]}
<1>4. ASSUME NEW s \in SUBSET D, s # {}, s \ {any[s]} \in T PROVE s \in T
  <2>1. any[s] \in D
    BY <1>1, <1>4 DEF Picks
  <2>2. /\ f[any[s]] \in Nat /\ h[any[s]] \in Nat /\ f[any[s]] <= h[any[s]]
        /\ F[s \ {any[s]}] \in Nat /\ H[s \ {any[s]}] \in Nat
        /\ F[s \ {any[s]}] <= H[s \ {any[s]}]
    BY <2>1, <1>4
  <2>3. F[s] = f[any[s]] + F[s \ {any[s]}] /\ H[s] = h[any[s]] + H[s \ {any[s]}]
    BY <1>1, <1>2, <1>3, <1>4 DEF Sums
  <2> QED
    BY <2>2, <2>3
<1>5. {} \in T
  BY <1>2, <1>3 DEF Sums
<1>6. SUBSET D \subseteq T
  <2> HIDE DEF T
  <2>1. Inductive(D, any, T)
    BY <1>4, <1>5 DEF Inductive
  <2> QED
    BY <2>1, <1>1, SubsetInduction
<1> QED
  BY <1>2, <1>3, <1>6

-----------------------------------------------------------------------------
(* The live leaderboard *)

EntryType == [user: Nat, solved: Nat, penalty: Nat]

\* Users and problems with a row are finitely many.
LEMMA FinitelyMany ==
    ASSUME TypeOK, NEW u
    PROVE  /\ IsFiniteSet(Contestant) /\ Contestant \subseteq User
           /\ IsFiniteSet(Tried(u)) /\ Tried(u) \subseteq Problem
<1> DEFINE D == DOMAIN submissions
           users == [i \in D |-> submissions[i].user]
           problems == [i \in D |-> submissions[i].problem]
           tried == {submissions[i].problem : i \in D}
<1>1. /\ IsFiniteSet(D) /\ D = 1 .. Len(submissions) /\ Len(submissions) \in Nat
      /\ \A i \in D : submissions[i] \in Row
  BY FS_Interval DEF TypeOK
<1>2. Contestant = {submissions[i].user : i \in D}
  BY DEF Contestant, ToSet
<1>3. users \in Surjection(D, Contestant)
  BY <1>2 DEF Surjection
<1>4. problems \in Surjection(D, tried)
  BY DEF Surjection
<1>5. Contestant \subseteq User
  BY <1>1, <1>2 DEF Row
<1>6. Tried(u) \subseteq tried /\ Tried(u) \subseteq Problem
  BY DEF Tried, Of
<1> HIDE DEF D, users, problems, tried
<1>7. IsFiniteSet(Contestant)
  BY <1>1, <1>3, FS_Surjection
<1>8. IsFiniteSet(tried)
  BY <1>1, <1>4, FS_Surjection
<1>9. IsFiniteSet(Tried(u))
  BY <1>6, <1>8, FS_Subset
<1> QED
  BY <1>5, <1>6, <1>7, <1>9

\* The penalties of the problems that u solved.
Penalties(u) == [p \in SolvedBy(u) |-> Penalty(ProblemStanding(u, p))]

\* What an entry is made of.
LEMMA EntryTyped ==
    ASSUME TypeOK, NEW u \in User
    PROVE  /\ IsFiniteSet(SolvedBy(u))
           /\ Penalties(u) \in [SolvedBy(u) -> Nat]
           /\ Entry(u) = [user |-> u, solved |-> Cardinality(SolvedBy(u)),
                          penalty |-> SumFunction(Penalties(u))]
           /\ Entry(u) \in EntryType
<1>1. SolvedBy(u) \subseteq Tried(u)
  BY DEF SolvedBy
<1>2. IsFiniteSet(SolvedBy(u))
  BY <1>1, FinitelyMany, FS_Subset
<1>3. ASSUME NEW p PROVE Penalty(ProblemStanding(u, p)) \in Nat
  <2>1. ProblemStanding(u, p) \in Standing
    BY StandingTyped
  <2> QED
    BY <2>1 DEF Standing, Penalty
<1>4. Penalties(u) \in [SolvedBy(u) -> Nat]
  BY <1>3 DEF Penalties
<1>5. Entry(u) = [user |-> u, solved |-> Cardinality(SolvedBy(u)),
                  penalty |-> SumFunction(Penalties(u))]
  BY DEF Entry, Penalties
<1>6. SumFunction(Penalties(u)) \in Nat
  <2>1. \A p \in SolvedBy(u) : Penalties(u)[p] <= Penalties(u)[p]
    BY <1>4
  <2> QED
    BY <2>1, <1>2, <1>4, SumsGrow
<1>7. Cardinality(SolvedBy(u)) \in Nat
  BY <1>2, FS_CardinalityType
<1>8. u \in Nat
  BY StandingsAssumption
<1> QED
  BY <1>2, <1>4, <1>5, <1>6, <1>7, <1>8 DEF EntryType

\* The order of the entries is a strict order, and total where names are unique.
LEMMA BeforeIsOrder ==
    ASSUME NEW a \in EntryType, NEW b \in EntryType, NEW c \in EntryType
    PROVE  /\ ~Before(a, a)
           /\ Before(a, b) => ~Before(b, a)
           /\ Before(a, b) /\ Before(b, c) => Before(a, c)
           /\ a.user # b.user => Before(a, b) \/ Before(b, a)
BY DEF EntryType, Before

\* A board is finite and has one entry for each user.
Boardlike(board) ==
    /\ IsFiniteSet(board) /\ board \subseteq EntryType
    /\ \A a, b \in board : a.user = b.user => a = b

LEMMA BoardTyped ==
    ASSUME TypeOK
    PROVE  Boardlike(Board) /\ \A e \in Board : e = Entry(e.user) /\ e.user \in Contestant
<1> DEFINE entry == [u \in Contestant |-> Entry(u)]
<1>1. Contestant \subseteq User /\ IsFiniteSet(Contestant)
  BY FinitelyMany
<1>2. entry \in Surjection(Contestant, Board)
  BY DEF Board, Surjection
<1>3. IsFiniteSet(Board)
  <2> HIDE DEF entry
  <2> QED
    BY <1>1, <1>2, FS_Surjection
<1>4. \A u \in Contestant : Entry(u) \in EntryType /\ Entry(u).user = u
  BY <1>1, EntryTyped
<1>5. \A e \in Board : e \in EntryType /\ e = Entry(e.user) /\ e.user \in Contestant
  BY <1>4 DEF Board
<1> QED
  BY <1>3, <1>5 DEF Boardlike

\* The entries before e.
Ahead(board, e) == {f \in board : Before(f, e)}

\* Sorting by the comparator places each entry behind as many as come before it,
\* and two entries in their order (leaderboard.service.ts:145-149).
LEMMA Sorted ==
    ASSUME NEW board, Boardlike(board)
    PROVE  LET n == Cardinality(board)
               entries == [i \in 1 .. n |->
                              CHOOSE e \in board : Cardinality(Ahead(board, e)) = i - 1]
           IN  /\ n \in Nat
               /\ entries \in [1 .. n -> board]
               /\ \A i, j \in 1 .. n : i < j => Before(entries[i], entries[j])
<1> DEFINE n == Cardinality(board)
           place == [e \in board |-> Cardinality(Ahead(board, e))]
           entries == [i \in 1 .. n |->
                         CHOOSE e \in board : Cardinality(Ahead(board, e)) = i - 1]
<1>1. n \in Nat /\ IsFiniteSet(board) /\ board \subseteq EntryType
  BY FS_CardinalityType DEF Boardlike
<1>2. \A e \in board : IsFiniteSet(Ahead(board, e)) /\ Cardinality(Ahead(board, e)) \in Nat
  <2>1. \A e \in board : Ahead(board, e) \in SUBSET board
    BY DEF Ahead
  <2>2. \A e \in board : IsFiniteSet(Ahead(board, e))
    BY <1>1, <2>1, FS_Subset
  <2> QED
    BY <2>2, FS_CardinalityType
<1>3. ASSUME NEW a \in board, NEW b \in board, Before(a, b)
      PROVE  place[a] < place[b]
  <2>1. Ahead(board, a) \cup {a} \subseteq Ahead(board, b)
    BY <1>1, <1>3, BeforeIsOrder DEF Ahead
  <2>2. a \notin Ahead(board, a)
    BY <1>1, BeforeIsOrder DEF Ahead
  <2>3. Cardinality(Ahead(board, a) \cup {a}) = Cardinality(Ahead(board, a)) + 1
    BY <1>2, <2>2, FS_AddElement
  <2>4. Cardinality(Ahead(board, a) \cup {a}) <= Cardinality(Ahead(board, b))
    BY <1>2, <2>1, FS_Subset
  <2> QED
    BY <1>2, <2>3, <2>4
<1>4. place \in [board -> 0 .. n - 1]
  <2>1. ASSUME NEW e \in board PROVE place[e] \in 0 .. n - 1
    <3>1. Ahead(board, e) \in SUBSET board /\ e \notin Ahead(board, e)
      BY <1>1, BeforeIsOrder DEF Ahead
    <3>2. Cardinality(Ahead(board, e) \cup {e}) = Cardinality(Ahead(board, e)) + 1
      BY <1>2, <3>1, FS_AddElement
    <3>3. Cardinality(Ahead(board, e) \cup {e}) <= n
      BY <1>1, <3>1, FS_Subset
    <3> QED
      BY <1>1, <1>2, <3>2, <3>3
  <2> QED
    BY <2>1
<1>5. \A a, b \in board : a # b => Before(a, b) \/ Before(b, a)
  BY <1>1, BeforeIsOrder DEF Boardlike
<1>6. place \in Injection(board, 0 .. n - 1)
  <2>1. ASSUME NEW a \in board, NEW b \in board, a # b PROVE place[a] # place[b]
    <3>1. place[a] \in Nat /\ place[b] \in Nat
      BY <1>4
    <3> HIDE DEF place
    <3> QED
      BY <1>3, <1>5, <2>1, <3>1
  <2> HIDE DEF place
  <2> QED
    BY <2>1, <1>4 DEF Injection, IsInjective
<1>7. place \in Surjection(board, 0 .. n - 1)
  <2>1. IsFiniteSet(0 .. n - 1) /\ Cardinality(0 .. n - 1) = n
    BY <1>1, FS_Interval
  <2> HIDE DEF place
  <2> QED
    BY <2>1, <1>6, FS_Injection
<1>8. \A i \in 1 .. n : entries[i] \in board /\ place[entries[i]] = i - 1
  <2> SUFFICES ASSUME NEW i \in 1 .. n
               PROVE  entries[i] \in board /\ place[entries[i]] = i - 1
    OBVIOUS
  <2>1. i - 1 \in 0 .. n - 1
    BY <1>1
  <2>2. \E e \in board : place[e] = i - 1
    <3> HIDE DEF place
    <3> QED
      BY <2>1, <1>7 DEF Surjection
  <2>3. \E e \in board : Cardinality(Ahead(board, e)) = i - 1
    BY <2>2
  <2> QED
    BY <2>3
<1>9. entries \in [1 .. n -> board]
  BY <1>8
<1>10. ASSUME NEW i \in 1 .. n, NEW j \in 1 .. n, i < j
       PROVE  Before(entries[i], entries[j])
  <2>1. /\ entries[i] \in board /\ entries[j] \in board
        /\ place[entries[i]] = i - 1 /\ place[entries[j]] = j - 1
    BY <1>8
  <2> HIDE DEF place, entries
  <2>2. place[entries[i]] < place[entries[j]] /\ ~(place[entries[j]] < place[entries[i]])
    BY <2>1, <1>10
  <2> QED
    BY <2>1, <2>2, <1>3, <1>5
<1> QED
  BY <1>1, <1>9, <1>10

\* The entries with a better result than the one at i.
Leaders(entries, i) ==
    {j \in DOMAIN entries :
        \/ entries[j].solved > entries[i].solved
        \/ entries[j].solved = entries[i].solved /\ entries[j].penalty < entries[i].penalty}

\* The rank that the loop gives to the entry at i, from the ranks before it.
RankStep(entries, rank, i) ==
    IF i > 1 /\ SameResult(entries[i], entries[i - 1]) THEN rank[i - 1] ELSE i

\* Of three entries in order, the first is better than the last if the second is.
LEMMA NoTieAcross ==
    ASSUME NEW a \in EntryType, NEW b \in EntryType, NEW c \in EntryType,
           a = b \/ Before(a, b), Before(b, c), ~SameResult(c, b)
    PROVE  \/ a.solved > c.solved
           \/ a.solved = c.solved /\ a.penalty < c.penalty
<1>1. /\ a.solved \in Nat /\ b.solved \in Nat /\ c.solved \in Nat
      /\ a.penalty \in Nat /\ b.penalty \in Nat /\ c.penalty \in Nat
  BY DEF EntryType
<1>2. \/ b.solved > c.solved
      \/ b.solved = c.solved /\ b.penalty < c.penalty
  BY <1>1 DEF Before, SameResult
<1>3. a.solved > b.solved \/ (a.solved = b.solved /\ a.penalty <= b.penalty)
  BY <1>1 DEF Before
<1> QED
  BY <1>1, <1>2, <1>3

\* In a sorted list those with a better result are the ones ahead, but for ties.
LEMMA LeadersAhead ==
    ASSUME NEW n \in Nat, NEW entries \in [1 .. n -> EntryType],
           \A i, j \in 1 .. n : i < j => Before(entries[i], entries[j]),
           NEW i \in 1 .. n
    PROVE  /\ i > 1 /\ SameResult(entries[i], entries[i - 1]) =>
                 Leaders(entries, i) = Leaders(entries, i - 1)
           /\ ~(i > 1 /\ SameResult(entries[i], entries[i - 1])) =>
                 Leaders(entries, i) = 1 .. i - 1
<1>1. ASSUME i > 1, SameResult(entries[i], entries[i - 1])
      PROVE  Leaders(entries, i) = Leaders(entries, i - 1)
  BY <1>1 DEF SameResult, Leaders
<1>2. ASSUME ~(i > 1 /\ SameResult(entries[i], entries[i - 1]))
      PROVE  Leaders(entries, i) = 1 .. i - 1
  <2>1. ASSUME NEW j \in 1 .. n, j \in Leaders(entries, i) PROVE j \in 1 .. i - 1
    <3>1. ~Before(entries[i], entries[j])
      BY <2>1 DEF Leaders, Before, EntryType
    <3>2. j # i
      BY <2>1 DEF Leaders, EntryType
    <3> QED
      BY <3>1, <3>2
  <2>2. ASSUME NEW j \in 1 .. i - 1 PROVE j \in Leaders(entries, i)
    <3>1. j \in 1 .. n /\ j < i /\ i > 1 /\ i - 1 \in 1 .. n
      OBVIOUS
    <3>2. Before(entries[j], entries[i]) /\ Before(entries[i - 1], entries[i])
      BY <3>1
    <3>3. j = i - 1 \/ Before(entries[j], entries[i - 1])
      BY <3>1
    <3>4. ~SameResult(entries[i], entries[i - 1])
      BY <1>2, <3>1
    <3>5. entries[j] \in EntryType /\ entries[i] \in EntryType /\ entries[i - 1] \in EntryType
      BY <3>1
    <3>6. \/ entries[j].solved > entries[i].solved
          \/ entries[j].solved = entries[i].solved /\ entries[j].penalty < entries[i].penalty
      BY <3>2, <3>3, <3>4, <3>5, NoTieAcross
    <3> QED
      BY <3>1, <3>6 DEF Leaders
  <2>3. Leaders(entries, i) \subseteq 1 .. n
    BY DEF Leaders
  <2> QED
    BY <2>1, <2>2, <2>3
<1> QED
  BY <1>1, <1>2

\* The loop that assigns ranks, over any sorted list (leaderboard.service.ts:151-162).
LEMMA RanksOfSorted ==
    ASSUME NEW n \in Nat, NEW entries \in [1 .. n -> EntryType],
           \A i, j \in 1 .. n : i < j => Before(entries[i], entries[j])
    PROVE  \A i \in 1 .. n : Ranks(entries)[i] = 1 + Cardinality(Leaders(entries, i))
<1> DEFINE w == [i \in 1 .. n |-> 1 + Cardinality(Leaders(entries, i))]
           rank == CHOOSE rank : rank = [i \in 1 .. n |-> RankStep(entries, rank, i)]
<1>1. Len(entries) = n
  <2>1. entries \in Seq(EntryType)
    OBVIOUS
  <2>2. DOMAIN entries = 1 .. Len(entries) /\ Len(entries) \in Nat /\ DOMAIN entries = 1 .. n
    BY <2>1, LenProperties
  <2> QED
    BY <2>2
<1>2. \A i \in 1 .. n : w[i] = RankStep(entries, w, i)
  <2> SUFFICES ASSUME NEW i \in 1 .. n PROVE w[i] = RankStep(entries, w, i)
    OBVIOUS
  <2>1. CASE i > 1 /\ SameResult(entries[i], entries[i - 1])
    <3>1. i - 1 \in 1 .. n /\ Leaders(entries, i) = Leaders(entries, i - 1)
      BY <2>1, LeadersAhead
    <3> QED
      BY <3>1, <2>1 DEF RankStep
  <2>2. CASE ~(i > 1 /\ SameResult(entries[i], entries[i - 1]))
    <3>1. Leaders(entries, i) = 1 .. i - 1
      BY <2>2, LeadersAhead
    <3>2. Cardinality(1 .. i - 1) = i - 1
      BY FS_Interval
    <3>3. w[i] = i
      BY <3>1, <3>2
    <3> HIDE DEF w
    <3> QED
      BY <3>3, <2>2 DEF RankStep
  <2> QED
    BY <2>1, <2>2
<1>3. w = [i \in 1 .. n |-> RankStep(entries, w, i)]
  BY <1>2
<1>4. \E r : r = [i \in 1 .. n |-> RankStep(entries, r, i)]
  <2> HIDE DEF w
  <2> QED
    BY <1>3
<1>5. rank = [i \in 1 .. n |-> RankStep(entries, rank, i)]
  BY <1>4
<1>6. Ranks(entries) = rank
  BY <1>1 DEF Ranks, RankStep
<1> HIDE DEF rank
<1>7. \A i \in 1 .. n : rank[i] = RankStep(entries, rank, i)
  BY <1>5
<1>8. \A i \in 1 .. n : rank[i] = w[i]
  <2> DEFINE Off == {i \in 1 .. n : rank[i] # w[i]}
  <2> SUFFICES ASSUME Off # {} PROVE FALSE
    OBVIOUS
  <2>1. PICK i \in Off : \A k \in Off : i <= k
    <3>1. Off \subseteq Nat
      OBVIOUS
    <3> HIDE DEF Off
    <3> QED
      BY <3>1, Least
  <2>2. i \in 1 .. n /\ rank[i] # w[i]
    OBVIOUS
  <2>3. i > 1 => i - 1 \in 1 .. n /\ i - 1 \notin Off
    BY <2>1, <2>2
  <2>4. i > 1 => rank[i - 1] = w[i - 1]
    BY <2>3
  <2> HIDE DEF w, Off
  <2> QED
    BY <2>2, <2>4, <1>2, <1>7 DEF RankStep
<1> QED
  BY <1>6, <1>8

\* Ties share a rank and leave the next ones out, however long the board
\* (leaderboard.service.ts:151-162).
THEOREM SharedRanks == Spec => []RanksAreShared
<1>1. TypeOK => RanksAreShared
  <2> SUFFICES ASSUME TypeOK PROVE RanksAreShared
    OBVIOUS
  <2> DEFINE n == Cardinality(Board)
             entries == [i \in 1 .. n |->
                           CHOOSE e \in Board : Cardinality(Ahead(Board, e)) = i - 1]
  <2>1. Boardlike(Board)
    BY BoardTyped
  <2>2. /\ n \in Nat /\ entries \in [1 .. n -> Board]
        /\ \A i, j \in 1 .. n : i < j => Before(entries[i], entries[j])
    BY <2>1, Sorted
  <2>3. Entries = entries
    BY DEF Entries, Ahead
  <2> HIDE DEF n, entries
  <2>4. entries \in [1 .. n -> EntryType] /\ DOMAIN entries = 1 .. n
    BY <2>1, <2>2 DEF Boardlike
  <2>5. \A i \in 1 .. n : Ranks(entries)[i] = 1 + Cardinality(Leaders(entries, i))
    BY <2>2, <2>4, RanksOfSorted
  <2> QED
    BY <2>3, <2>4, <2>5 DEF RanksAreShared, Leaders
<1> QED
  BY <1>1, TypeCorrect, PTL

-----------------------------------------------------------------------------
(* The three rankings *)

\* Full points are the mark of an accepted submission, or are kept of a torn verdict.
Mark(s) ==
    /\ s.status = "accepted" => s.score = 100
    /\ s.score = 100 => s.status = "accepted" \/ Kept(s)

Marked == \A i \in DOMAIN submissions : Mark(submissions[i])

MarkedInv == TypeOK /\ Marked

\* With fewer than 200 tests only a submission that passes all of them is rounded
\* to 100 points (submission.processor.ts:165-169).
LEMMA FullScore ==
    ASSUME Tests < 200, NEW passed \in 0 .. Tests
    PROVE  Score(passed) = 100 <=> passed = Tests
<1> DEFINE q == (200 * passed + Tests) \div (2 * Tests)
<1>1. /\ q \in Nat /\ (2 * Tests) * q <= 200 * passed + Tests
      /\ 200 * passed + Tests < (2 * Tests) * q + 2 * Tests
  BY Bounds, Quotient
<1>2. Score(passed) = q
  BY DEF Score
<1> HIDE DEF q
<1>3. ASSUME passed = Tests PROVE q = 100
  <2>1. Tests * 201 < Tests * (2 * q + 2)
    BY <1>1, <1>3, Bounds
  <2>2. 201 < 2 * q + 2
    <3> SUFFICES ASSUME 2 * q + 2 <= 201 PROVE FALSE
      BY <1>1
    <3>1. Tests * (2 * q + 2) <= Tests * 201
      BY <1>1, Bounds
    <3> QED
      BY <3>1, <2>1, <1>1, Bounds
  <2>3. q <= 100
    BY ScoreIsPercentage, <1>2
  <2> QED
    BY <2>2, <2>3, <1>1
<1>4. ASSUME q = 100 PROVE passed = Tests
  <2>1. 200 * Tests <= 200 * passed + Tests
    BY <1>1, <1>4, Bounds
  <2> QED
    BY <2>1, Bounds
<1> QED
  BY <1>2, <1>3, <1>4

LEMMA InitMarked == Init => MarkedInv
<1>1. Init => Marked
  BY DEF Init, Marked
<1> QED
  BY <1>1, InitTyped DEF MarkedInv

\* A step that changes one row marks it as it should.
LEMMA RowMarked ==
    ASSUME Marked, NEW i \in DOMAIN submissions, Mark(submissions'[i]),
           DOMAIN submissions' = DOMAIN submissions,
           \A j \in DOMAIN submissions : j # i => submissions'[j] = submissions[j]
    PROVE  Marked'
<1>1. \A j \in DOMAIN submissions : Mark(submissions'[j])
  BY DEF Marked
<1> QED
  BY <1>1 DEF Marked

LEMMA NextMarked == Tests < 200 /\ MarkedInv /\ [Next]_vars => MarkedInv'
<1> SUFFICES ASSUME Tests < 200, MarkedInv, [Next]_vars PROVE MarkedInv'
  OBVIOUS
<1>1. TypeOK /\ Marked
  BY DEF MarkedInv
<1>2. TypeOK'
  BY <1>1, NextTyped
<1>3. ASSUME NEW u \in User, NEW p \in Problem, Submit(u, p) PROVE Marked'
  <2> DEFINE new == submissions'[Len(submissions) + 1]
  <2>1. /\ Len(submissions') = Len(submissions) + 1 /\ submissions' \in Seq(Row)
        /\ \A i \in DOMAIN submissions : submissions'[i] = submissions[i]
        /\ new = [user |-> u, problem |-> p, minute |-> minute, status |-> "undecided",
                  score |-> 0, completed |-> 0, torn |-> FALSE]
    BY <1>1, <1>3, SubmitStep
  <2>2. Mark(new)
    BY <2>1 DEF Mark
  <2>3. DOMAIN submissions' = DOMAIN submissions \cup {Len(submissions) + 1}
    BY <1>1, <2>1 DEF TypeOK
  <2> QED
    BY <1>1, <2>1, <2>2, <2>3 DEF Marked
<1>4. ASSUME NEW i \in DOMAIN submissions, JudgeFails(i) PROVE Marked'
  <2>1. Mark(submissions[i]) /\ NotLast(submissions[i])
    BY <1>1, <1>4 DEF Marked, JudgeFails, Store
  <2>2. /\ DOMAIN submissions' = DOMAIN submissions
        /\ \A j \in DOMAIN submissions : j # i => submissions'[j] = submissions[j]
        /\ submissions'[i].status = "runtime_error"
        /\ submissions'[i].score = submissions[i].score
        /\ submissions'[i].torn = submissions[i].torn
    BY <1>1, <1>4, FailureStores, StoreStep
  <2>3. Mark(submissions'[i])
    BY <2>1, <2>2 DEF Mark, NotLast, Kept
  <2> QED
    BY <1>1, <2>2, <2>3, RowMarked
<1>5. ASSUME NEW i \in DOMAIN submissions, NEW passed \in 0 .. Tests, NEW torn, torn \in BOOLEAN,
             Judge(i, passed, torn)
      PROVE  Marked'
  <2>1. PICK status \in {"accepted", "wrong"} :
           /\ Store(i, status, Score(passed), torn)
           /\ status = "accepted" <=> passed = Tests
           /\ Score(passed) \in 0 .. 100
    BY <1>5, JudgeStores
  <2>2. status \in Status
    BY DEF Status
  <2>3. /\ DOMAIN submissions' = DOMAIN submissions
        /\ \A j \in DOMAIN submissions : j # i => submissions'[j] = submissions[j]
        /\ submissions'[i].status = status /\ submissions'[i].score = Score(passed)
    BY <1>1, <2>1, <2>2, StoreStep
  <2>4. Mark(submissions'[i])
    BY <2>1, <2>3, FullScore DEF Mark
  <2> QED
    BY <1>1, <2>3, <2>4, RowMarked
<1>6. ASSUME NEW i \in DOMAIN submissions, RunAgain(i) PROVE Marked'
  <2>1. Mark(submissions[i]) /\ NotLast(submissions[i])
    BY <1>1, <1>6 DEF Marked, RunAgain
  <2>2. /\ DOMAIN submissions' = DOMAIN submissions
        /\ \A j \in DOMAIN submissions : j # i => submissions'[j] = submissions[j]
        /\ submissions'[i].status = "undecided"
        /\ submissions'[i].score = submissions[i].score
        /\ submissions'[i].torn = submissions[i].torn
    BY <1>1, <1>6, RunAgainStep
  <2>3. Mark(submissions'[i])
    BY <2>1, <2>2 DEF Mark, NotLast, Kept
  <2> QED
    BY <1>1, <2>2, <2>3, RowMarked
<1>7. ASSUME Tick PROVE Marked'
  BY <1>1, <1>7 DEF Tick, Marked
<1>8. ASSUME UNCHANGED vars PROVE Marked'
  BY <1>1, <1>8 DEF vars, Marked
<1>9. Marked'
  BY <1>3, <1>4, <1>5, <1>6, <1>7, <1>8 DEF Next
<1> QED
  BY <1>2, <1>9 DEF MarkedInv

\* The reduce keeps a row of the best score (standings.resolver.ts:93-97).
BestOf(best, S, rows) ==
    /\ best \in Row
    /\ \E i \in S : best = submissions[i]
    /\ \A i \in rows : submissions[i].score <= best.score

LEMMA BetterTurn ==
    ASSUME NEW best \in Row, NEW s \in Row
    PROVE  /\ Better(best, s) = best \/ Better(best, s) = s
           /\ Better(best, s) \in Row
           /\ best.score <= Better(best, s).score /\ s.score <= Better(best, s).score
BY DEF Better, Row

LEMMA BetterLoop ==
    ASSUME TypeOK, NEW S \in SUBSET DOMAIN submissions, S # {}
    PROVE  BestOf(Loop(Better, submissions[Min(S)], S), S, S)
<1> DEFINE base == submissions[Min(S)]
           Step(g, s) == IF s = {} THEN base
                         ELSE Better(g[s \ {Max(s)}], submissions[Max(s)])
           g == CHOOSE g : g = [s \in SUBSET S |-> Step(g, s)]
<1>1. IsFiniteSet(S) /\ S \subseteq Nat /\ \A i \in S : submissions[i] \in Row
  BY RowsOfLoop
<1>2. PICK last : Picks(S, last) /\ \A s \in SUBSET S : last[s] = Max(s)
  BY RowsOfLoop
<1>3. \A i \in S, v \in Row : Better(v, submissions[i]) \in Row
  BY <1>1, BetterTurn
<1>4. Min(S) \in S
  BY <1>1, Extremes
<1>5. base \in Row
  BY <1>1, <1>4
<1>6. Loop(Better, base, S) = g[S]
  BY DEF Loop, MapThenFoldSet
<1> HIDE DEF base
<1>7. \E h : h = [s \in SUBSET S |-> Step(h, s)]
  <2> DEFINE op == [p \in S \X Row |-> Better(p[2], submissions[p[1]])]
  <2>1. Turns(S, Row, op)
    BY <1>3 DEF Turns
  <2>2. PICK h \in [SUBSET S -> Row] : Folds(S, last, base, op, h)
    <3> HIDE DEF op
    <3> QED
      BY <2>1, <1>1, <1>2, <1>5, Iterates
  <2>3. ASSUME NEW s \in SUBSET S PROVE h[s] = Step(h, s)
    <3>1. CASE s = {}
      BY <3>1, <2>2 DEF Folds
    <3>2. CASE s # {}
      <4>1. Max(s) \in S /\ h[s \ {Max(s)}] \in Row
        BY <1>2, <3>2 DEF Picks
      <4>2. h[s] = op[<<Max(s), h[s \ {Max(s)}]>>]
        BY <1>2, <2>2, <3>2 DEF Folds
      <4> QED
        BY <4>1, <4>2, <3>2
    <3> QED
      BY <3>1, <3>2
  <2>4. h = [s \in SUBSET S |-> Step(h, s)]
    <3> HIDE DEF Step
    <3> QED
      BY <2>3
  <2> QED
    BY <2>4
<1>8. g = [s \in SUBSET S |-> Step(g, s)]
  BY <1>7
<1> HIDE DEF g
<1>9. \A s \in SUBSET S : g[s] = Step(g, s)
  BY <1>8
<1> DEFINE T == {s \in SUBSET S : BestOf(g[s], S, s)}
<1>10. {} \in T
  <2>1. g[{}] = base
    BY <1>9
  <2>2. \E i \in S : base = submissions[i]
    BY <1>4 DEF base
  <2> QED
    BY <2>1, <2>2, <1>5 DEF BestOf
<1>11. ASSUME NEW s \in SUBSET S, s # {}, s \ {last[s]} \in T PROVE s \in T
  <2>1. last[s] = Max(s) /\ Max(s) \in s /\ Max(s) \in S
    BY <1>2, <1>11 DEF Picks
  <2> DEFINE best == g[s \ {Max(s)}]
             row == submissions[Max(s)]
  <2>2. best \in Row /\ row \in Row /\ BestOf(best, S, s \ {Max(s)})
    BY <1>1, <1>11, <2>1 DEF BestOf
  <2>3. g[s] = Better(best, row)
    BY <1>9, <1>11
  <2>4. /\ Better(best, row) = best \/ Better(best, row) = row
        /\ Better(best, row) \in Row
        /\ best.score <= Better(best, row).score /\ row.score <= Better(best, row).score
    BY <2>2, BetterTurn
  <2>5. \E i \in S : Better(best, row) = submissions[i]
    BY <2>1, <2>2, <2>4 DEF BestOf
  <2>6. ASSUME NEW i \in s PROVE submissions[i].score <= Better(best, row).score
    <3>1. CASE i = Max(s)
      BY <2>4, <3>1
    <3>2. CASE i # Max(s)
      <4>1. submissions[i].score <= best.score
        BY <2>2, <3>2 DEF BestOf
      <4>2. /\ submissions[i].score \in Nat /\ best.score \in Nat
            /\ Better(best, row).score \in Nat
        BY <1>1, <2>2, <2>4 DEF Row
      <4> QED
        BY <4>1, <4>2, <2>4
    <3> QED
      BY <3>1, <3>2
  <2>7. BestOf(Better(best, row), S, s)
    BY <2>4, <2>5, <2>6 DEF BestOf
  <2> QED
    BY <2>3, <2>7
<1>12. SUBSET S \subseteq T
  <2> HIDE DEF T
  <2>1. Inductive(S, last, T)
    BY <1>10, <1>11 DEF Inductive
  <2> QED
    BY <2>1, <1>1, <1>2, SubsetInduction
<1>13. BestOf(g[S], S, S)
  BY <1>12
<1> QED
  BY <1>6, <1>13 DEF base

\* A problem is solved for the live leaderboard when one of its rows is accepted,
\* for GraphQL when the best of them is, which is the same unless one of them keeps
\* the points of a torn verdict.
LEMMA SameSolved ==
    ASSUME TypeOK, Marked, NEW u \in User
    PROVE  /\ GraphSolved(u) \subseteq SolvedBy(u)
           /\ \A p \in SolvedBy(u) \ GraphSolved(u) : \E i \in Of(u, p) : Kept(submissions[i])
           /\ \A p : p \in SolvedBy(u) <=> p \in Problem /\ Accepted(u, p) # {}
<1>1. ASSUME NEW p PROVE ProblemStanding(u, p).solved <=> Accepted(u, p) # {}
  BY StandingTyped DEF Icpc
<1>2. ASSUME NEW p, Accepted(u, p) # {} PROVE Of(u, p) # {}
  BY <1>2 DEF Accepted, Of
<1>3. \A p : p \in SolvedBy(u) <=> p \in Problem /\ Accepted(u, p) # {}
  BY <1>1, <1>2 DEF SolvedBy, Tried
<1>4. ASSUME NEW p, Of(u, p) # {}
      PROVE  /\ Best(u, p).status = "accepted" => Accepted(u, p) # {}
             /\ Accepted(u, p) # {} =>
                   Best(u, p).status = "accepted" \/ \E i \in Of(u, p) : Kept(submissions[i])
  <2> DEFINE best == Best(u, p)
  <2>1. Of(u, p) \in SUBSET DOMAIN submissions
    BY DEF Of
  <2>2. BestOf(best, Of(u, p), Of(u, p))
    BY <1>4, <2>1, BetterLoop DEF Best
  <2> HIDE DEF best
  <2>3. PICK i \in Of(u, p) : best = submissions[i]
    BY <2>2 DEF BestOf
  <2>4. ASSUME best.status = "accepted" PROVE i \in Accepted(u, p)
    BY <2>3, <2>4 DEF Of, Accepted
  <2>5. ASSUME NEW a \in Accepted(u, p)
        PROVE  best.status = "accepted" \/ Kept(submissions[i])
    <3>1. a \in Of(u, p) /\ submissions[a].score = 100
      BY DEF Of, Accepted, Marked, Mark
    <3>2. 100 <= best.score /\ best.score \in 0 .. 100
      BY <2>2, <3>1 DEF BestOf, Row
    <3>3. best.score = 100
      BY <3>2
    <3> QED
      BY <3>3, <2>1, <2>3 DEF Marked, Mark
  <2> QED
    BY <2>3, <2>4, <2>5 DEF best
<1>5. GraphSolved(u) \subseteq SolvedBy(u)
  BY <1>1, <1>4 DEF GraphSolved, SolvedBy, Tried
<1>6. ASSUME NEW p \in SolvedBy(u) \ GraphSolved(u)
      PROVE  \E i \in Of(u, p) : Kept(submissions[i])
  <2>1. p \in Tried(u) /\ Of(u, p) # {} /\ Accepted(u, p) # {}
    BY <1>1 DEF SolvedBy, Tried
  <2>2. Best(u, p).status # "accepted"
    BY <2>1 DEF GraphSolved
  <2> QED
    BY <1>4, <2>1, <2>2
<1> QED
  BY <1>3, <1>5, <1>6

\* Only a torn verdict can make the boards disagree on what is solved, on the order of
\* two users that solved differently many, and on whether the winner solved anything.
\* Where a problem has 200 tests or more, a submission that fails one of them may
\* be given 100 points, and they do as well (leaderboard.service.ts:94-147,
\* standings.resolver.ts:93-146, contest-finished.listener.ts:35-41,
\* submission.processor.ts:165-185, 213-226).
THEOREM BoardsDoAgree == Tests < 200 => (Spec => []BoardsAgree)
<1> SUFFICES ASSUME Tests < 200 PROVE Spec => []BoardsAgree
  OBVIOUS
<1>1. MarkedInv => BoardsAgree
  <2> SUFFICES ASSUME MarkedInv PROVE BoardsAgree
    OBVIOUS
  <2>1. TypeOK /\ Marked
    BY DEF MarkedInv
  <2>2. \A u \in User :
           /\ GraphSolved(u) \subseteq SolvedBy(u)
           /\ \A p \in SolvedBy(u) \ GraphSolved(u) : \E i \in Of(u, p) : Kept(submissions[i])
    BY <2>1, SameSolved
  <2>3. ASSUME NEW u \in Contestant,
               \A s \in ToSet(submissions) : s.user = u => ~Kept(s)
        PROVE  GraphEntry(u, Problem).solved = Entry(u).solved
    <3>1. u \in User
      BY <2>1, FinitelyMany
    <3>2. \A p : \A i \in Of(u, p) : ~Kept(submissions[i])
      BY <2>3 DEF Of, ToSet
    <3>3. GraphSolved(u) = SolvedBy(u)
      BY <2>2, <3>1, <3>2
    <3>4. Problem \cap GraphSolved(u) = SolvedBy(u)
      BY <3>3 DEF SolvedBy, Tried
    <3>5. GraphEntry(u, Problem).solved = Cardinality(SolvedBy(u))
      BY <3>4 DEF GraphEntry
    <3> QED
      BY <3>1, <3>5, <2>1, EntryTyped DEF EntryType
  <2>4. ASSUME NEW u \in Contestant, NEW v \in Contestant,
               GraphBefore(GraphEntry(u, Problem), GraphEntry(v, Problem)),
               Before(Entry(v), Entry(u)),
               \A s \in ToSet(submissions) : s.user \in {u, v} => ~Kept(s)
        PROVE  Entry(u).solved = Entry(v).solved
    <3>1. u \in User /\ v \in User
      BY <2>1, FinitelyMany
    <3>2. /\ Entry(u).solved \in Nat /\ Entry(v).solved \in Nat
          /\ GraphEntry(u, Problem).solved = Entry(u).solved
          /\ GraphEntry(v, Problem).solved = Entry(v).solved
      BY <2>1, <2>3, <2>4, <3>1, EntryTyped DEF EntryType
    <3>3. Entry(u).solved >= Entry(v).solved
      BY <2>4, <3>2 DEF GraphBefore
    <3>4. Entry(v).solved >= Entry(u).solved
      BY <2>4, <3>2 DEF Before
    <3> QED
      BY <3>2, <3>3, <3>4
  <2>5. ASSUME NEW u \in User, SolvedBy(u) # {}, NEW s \in Winners
        PROVE  s.problem \in SolvedBy(s.user) \/ Kept(s)
    <3>1. PICK p : Accepted(u, p) # {}
      BY <2>1, <2>5, SameSolved
    <3>2. PICK a \in DOMAIN submissions : submissions[a].status = "accepted"
      BY <3>1 DEF Accepted
    <3>3. submissions[a].score = 100 /\ submissions[a] \in ToSet(submissions)
      BY <2>1, <3>2 DEF Marked, Mark, ToSet
    <3>4. PICK i \in DOMAIN submissions : s = submissions[i]
      BY <2>5 DEF Winners, ToSet
    <3>5. s \in Row
      BY <2>1, <3>4 DEF TypeOK
    <3>6. s.score >= 100
      BY <2>5, <3>3, <3>5 DEF Winners, WinsOver, Row
    <3>7. s.score = 100
      BY <3>5, <3>6 DEF Row
    <3>8. s.status = "accepted" \/ Kept(s)
      BY <2>1, <3>4, <3>7 DEF Marked, Mark
    <3>9. CASE s.status = "accepted"
      <4>1. i \in Accepted(s.user, s.problem) /\ s.user \in User /\ s.problem \in Problem
        BY <3>4, <3>5, <3>9 DEF Accepted, Row
      <4> QED
        BY <4>1, <2>1, SameSolved
    <3> QED
      BY <3>8, <3>9
  <2>6. ASSUME NEW a \in {[live |-> Entry(u), graph |-> GraphEntry(u, Problem)] : u \in Contestant},
               NEW b \in {[live |-> Entry(u), graph |-> GraphEntry(u, Problem)] : u \in Contestant},
               GraphBefore(a.graph, b.graph), Before(b.live, a.live),
               \A s \in ToSet(submissions) : s.user \in {a.live.user, b.live.user} => ~Kept(s)
        PROVE  a.live.solved = b.live.solved
    <3>1. PICK u \in Contestant : a = [live |-> Entry(u), graph |-> GraphEntry(u, Problem)]
      BY <2>6
    <3>2. PICK v \in Contestant : b = [live |-> Entry(v), graph |-> GraphEntry(v, Problem)]
      BY <2>6
    <3>3. a.live.user = u /\ b.live.user = v
      BY <3>1, <3>2 DEF Entry
    <3> QED
      BY <2>4, <2>6, <3>1, <3>2, <3>3
  <2> QED
    BY <2>2, <2>5, <2>6 DEF BoardsAgree
<1> QED
  BY <1>1, InitMarked, NextMarked, PTL DEF Spec

-----------------------------------------------------------------------------
(* What a verdict does to the live leaderboard *)

Failed(u, p) == {i \in Counting(u, p) : IsPenalisable(submissions[i].status)}

\* The standing of u in p is what the rule says.
Ruled(u, p) ==
    LET st == ProblemStanding(u, p)
    IN  /\ st \in Standing
        /\ st.solved <=> Accepted(u, p) # {}
        /\ st.attempts = Cardinality(Failed(u, p))
        /\ st.solved => \E i \in Accepted(u, p) :
              /\ \A a \in Accepted(u, p) : i <= a
              /\ st.minute = submissions[i].minute

\* The entry of u is what the standings say.
Entered(u) ==
    /\ IsFiniteSet(SolvedBy(u))
    /\ SolvedBy(u) = {p \in Problem : Accepted(u, p) # {}}
    /\ Penalties(u) \in [SolvedBy(u) -> Nat]
    /\ \A p \in SolvedBy(u) : Penalties(u)[p] = Penalty(ProblemStanding(u, p))
    /\ Entry(u) = [user |-> u, solved |-> Cardinality(SolvedBy(u)),
                   penalty |-> SumFunction(Penalties(u))]
    /\ Entry(u) \in EntryType

\* All that a state says of the live leaderboard.
Shown ==
    /\ \A u \in User, p \in Problem : Ruled(u, p)
    /\ \A u \in User : Entered(u)
    /\ Contestant \subseteq User
    /\ \A e \in Board : e = Entry(e.user) /\ e.user \in Contestant

LEMMA TypedIsShown == TypeOK => Shown
<1> SUFFICES ASSUME TypeOK PROVE Shown
  OBVIOUS
<1>1. ASSUME NEW u \in User, NEW p PROVE Ruled(u, p)
  <2>1. /\ ProblemStanding(u, p) \in Standing
        /\ Icpc(ProblemStanding(u, p), Of(u, p))
        /\ AcceptedOf(Of(u, p)) = Accepted(u, p)
    BY StandingTyped
  <2>2. FailedOf(Of(u, p)) = Failed(u, p)
    BY <2>1 DEF FailedOf, Of, Failed, Counting
  <2> QED
    BY <2>1, <2>2 DEF Ruled, Icpc
<1>2. ASSUME NEW u \in User PROVE Entered(u)
  <2>1. \A p : Accepted(u, p) # {} => Of(u, p) # {}
    BY DEF Accepted, Of
  <2>2. \A p \in Problem : ProblemStanding(u, p).solved <=> Accepted(u, p) # {}
    BY <1>1 DEF Ruled
  <2>3. SolvedBy(u) = {p \in Problem : Accepted(u, p) # {}}
    BY <2>1, <2>2 DEF SolvedBy, Tried
  <2>4. \A p \in SolvedBy(u) : Penalties(u)[p] = Penalty(ProblemStanding(u, p))
    BY DEF Penalties
  <2> QED
    BY <2>3, <2>4, EntryTyped DEF Entered
<1> QED
  BY <1>1, <1>2, FinitelyMany, BoardTyped DEF Shown

\* Rows are in the order of their minutes.
Chronological ==
    /\ \A i \in DOMAIN submissions : submissions[i].minute <= minute
    /\ \A i, j \in DOMAIN submissions : i <= j => submissions[i].minute <= submissions[j].minute

ChronologicalInv == TypeOK /\ Chronological

LEMMA InitChronological == Init => ChronologicalInv
<1>1. Init => Chronological
  BY DEF Init, Chronological
<1> QED
  BY <1>1, InitTyped DEF ChronologicalInv

LEMMA NextChronological == ChronologicalInv /\ [Next]_vars => ChronologicalInv'
<1> SUFFICES ASSUME ChronologicalInv, [Next]_vars PROVE ChronologicalInv'
  OBVIOUS
<1>1. TypeOK /\ Chronological
  BY DEF ChronologicalInv
<1>2. TypeOK'
  BY <1>1, NextTyped
<1>3. /\ minute \in Nat /\ Len(submissions) \in Nat
      /\ DOMAIN submissions = 1 .. Len(submissions)
      /\ \A i \in DOMAIN submissions : submissions[i].minute \in Nat
  <2>1. \A i \in DOMAIN submissions : submissions[i] \in Row
    BY <1>1 DEF TypeOK
  <2>2. \A s \in Row : s.minute \in Nat
    BY Bounds DEF Row
  <2>3. minute \in Nat
    BY <1>1, Bounds DEF TypeOK
  <2>4. Len(submissions) \in Nat /\ DOMAIN submissions = 1 .. Len(submissions)
    BY <1>1 DEF TypeOK
  <2> QED
    BY <2>1, <2>2, <2>3, <2>4
<1>4. ASSUME NEW u \in User, NEW p \in Problem, Submit(u, p) PROVE Chronological'
  <2>1. /\ submissions' \in Seq(Row)
        /\ Len(submissions') = Len(submissions) + 1
        /\ \A i \in DOMAIN submissions : submissions'[i] = submissions[i]
        /\ submissions'[Len(submissions) + 1] =
              [user |-> u, problem |-> p, minute |-> minute, status |-> "undecided",
               score |-> 0, completed |-> 0, torn |-> FALSE]
    BY <1>1, <1>4, SubmitStep
  <2>2. submissions'[Len(submissions) + 1].minute = minute /\ minute' = minute
    BY <2>1, <1>4 DEF Submit
  <2>3. /\ DOMAIN submissions' = DOMAIN submissions \cup {Len(submissions) + 1}
        /\ \A i \in DOMAIN submissions : ~(Len(submissions) + 1 <= i)
    BY <1>3, <2>1
  <2>4. minute <= minute
    BY <1>3
  <2> QED
    BY <1>1, <2>1, <2>2, <2>3, <2>4 DEF Chronological
<1>5. ASSUME NEW i \in DOMAIN submissions, minute' = minute,
             DOMAIN submissions' = DOMAIN submissions,
             \A j \in DOMAIN submissions : j # i => submissions'[j] = submissions[j],
             Rewritten(submissions[i], submissions'[i])
      PROVE  Chronological'
  <2>1. \A j \in DOMAIN submissions : submissions'[j].minute = submissions[j].minute
    BY <1>5 DEF Rewritten
  <2> QED
    BY <1>1, <1>5, <2>1 DEF Chronological
<1>6. ASSUME NEW i \in DOMAIN submissions, JudgeFails(i) PROVE Chronological'
  <2>1. minute' = minute
    BY <1>6 DEF JudgeFails, Store
  <2> QED
    BY <1>1, <1>5, <1>6, <2>1, FailureStores, StoreStep
<1>7. ASSUME NEW i \in DOMAIN submissions, NEW passed \in 0 .. Tests, NEW torn, torn \in BOOLEAN,
             Judge(i, passed, torn)
      PROVE  Chronological'
  <2>1. PICK status \in {"accepted", "wrong"} :
           Store(i, status, Score(passed), torn) /\ Score(passed) \in 0 .. 100
    BY <1>7, JudgeStores
  <2>2. status \in Status /\ minute' = minute
    BY <2>1 DEF Status, Store
  <2> QED
    BY <1>1, <1>5, <2>1, <2>2, StoreStep
<1>11. ASSUME NEW i \in DOMAIN submissions, RunAgain(i) PROVE Chronological'
  <2>1. minute' = minute
    BY <1>11 DEF RunAgain
  <2> QED
    BY <1>1, <1>5, <1>11, <2>1, RunAgainStep
<1>8. ASSUME Tick PROVE Chronological'
  <2>1. minute' = minute + 1 /\ submissions' = submissions
    BY <1>8 DEF Tick
  <2>2. \A i \in DOMAIN submissions : submissions[i].minute <= minute + 1
    BY <1>1, <1>3 DEF Chronological
  <2> QED
    BY <1>1, <2>1, <2>2 DEF Chronological
<1>9. ASSUME UNCHANGED vars PROVE Chronological'
  BY <1>1, <1>9 DEF vars, Chronological
<1>10. Chronological'
  BY <1>4, <1>6, <1>7, <1>8, <1>9, <1>11 DEF Next
<1> QED
  BY <1>2, <1>10 DEF ChronologicalInv

\* The row of a verdict: who gets it, for what, and which row it is.
Verdict(i, u, p, status) ==
    /\ i \in DOMAIN submissions /\ u \in User /\ p \in Problem
    /\ submissions[i].user = u /\ submissions[i].problem = p
    /\ submissions[i].status # status
    /\ status \in {"accepted", "wrong", "runtime_error"}
    /\ DOMAIN submissions' = DOMAIN submissions
    /\ \A j \in DOMAIN submissions :
          /\ j # i => submissions'[j] = submissions[j]
          /\ submissions'[j].user = submissions[j].user
          /\ submissions'[j].problem = submissions[j].problem
          /\ submissions'[j].minute = submissions[j].minute
    /\ submissions'[i].status = status

\* Which rows count for whom, after a verdict.
LEMMA AcceptedAfter ==
    ASSUME NEW i, NEW u, NEW p, NEW status, Verdict(i, u, p, status)
    PROVE  /\ \A v, q : v # u \/ q # p =>
                 Accepted(v, q)' = Accepted(v, q) /\ Failed(v, q)' = Failed(v, q)
           /\ status = "accepted" => Accepted(u, p)' = Accepted(u, p) \cup {i}
           /\ status # "accepted" => Accepted(u, p)' = Accepted(u, p) \ {i}
           /\ status = "accepted" => Failed(u, p)' \subseteq Failed(u, p)
           /\ status # "accepted" => Failed(u, p) \subseteq Failed(u, p)'
<1> USE DEF Verdict
<1>2. ASSUME NEW v, NEW q, v # u \/ q # p
      PROVE  Accepted(v, q)' = Accepted(v, q) /\ Failed(v, q)' = Failed(v, q)
  <2>1. Accepted(v, q)' = Accepted(v, q)
    BY <1>2 DEF Accepted
  <2>2. Counting(v, q)' = Counting(v, q) /\ i \notin Counting(v, q)
    BY <1>2, <2>1 DEF Counting
  <2>3. \A j \in Counting(v, q) : submissions'[j].status = submissions[j].status
    BY <2>2 DEF Counting
  <2> QED
    BY <2>1, <2>2, <2>3 DEF Failed
<1>3. ASSUME status = "accepted" PROVE Accepted(u, p)' = Accepted(u, p) \cup {i}
  BY <1>3 DEF Accepted
<1>4. ASSUME status # "accepted" PROVE Accepted(u, p)' = Accepted(u, p) \ {i}
  BY <1>4 DEF Accepted
<1>5. ASSUME status = "accepted" PROVE Failed(u, p)' \subseteq Failed(u, p)
  <2>1. Counting(u, p)' \subseteq Counting(u, p)
    BY <1>3, <1>5 DEF Counting
  <2> QED
    BY <2>1, <1>5 DEF Failed, Counting, IsPenalisable
<1>6. ASSUME status # "accepted" PROVE Failed(u, p) \subseteq Failed(u, p)'
  <2>1. Counting(u, p) \subseteq Counting(u, p)'
    BY <1>4, <1>6 DEF Counting
  <2> QED
    BY <2>1, <1>6 DEF Failed, Counting, IsPenalisable
<1> QED
  BY <1>2, <1>3, <1>4, <1>5, <1>6

\* Failures are finitely many.
LEMMA FailedFinite ==
    TypeOK => \A u, p : /\ IsFiniteSet(Failed(u, p)) /\ Cardinality(Failed(u, p)) \in Nat
                        /\ Accepted(u, p) \subseteq Nat
<1> SUFFICES ASSUME TypeOK, NEW u, NEW p
             PROVE  /\ IsFiniteSet(Failed(u, p)) /\ Cardinality(Failed(u, p)) \in Nat
                    /\ Accepted(u, p) \subseteq Nat
  OBVIOUS
<1>1. Failed(u, p) \in SUBSET DOMAIN submissions
  BY DEF Failed, Counting
<1>2. IsFiniteSet(Failed(u, p))
  BY <1>1, RowsOfLoop
<1>3. Accepted(u, p) \subseteq Nat
  BY DEF Accepted, TypeOK
<1> QED
  BY <1>2, <1>3, FS_CardinalityType

\* The penalty of a problem that is solved before and after a verdict: no more if
\* another row is accepted, no less if another one has failed.
LEMMA PenaltyAfter ==
    ASSUME TypeOK, TypeOK', Chronological, NEW v \in User, NEW q \in Problem,
           Ruled(v, q), Ruled(v, q)', Accepted(v, q) # {}, Accepted(v, q)' # {},
           DOMAIN submissions' = DOMAIN submissions,
           \A j \in DOMAIN submissions : submissions'[j].minute = submissions[j].minute
    PROVE  /\ Penalty(ProblemStanding(v, q)) \in Nat /\ Penalty(ProblemStanding(v, q))' \in Nat
           /\ Accepted(v, q) \subseteq Accepted(v, q)' /\ Failed(v, q)' \subseteq Failed(v, q) =>
                 Penalty(ProblemStanding(v, q))' <= Penalty(ProblemStanding(v, q))
           /\ Accepted(v, q)' \subseteq Accepted(v, q) /\ Failed(v, q) \subseteq Failed(v, q)' =>
                 Penalty(ProblemStanding(v, q)) <= Penalty(ProblemStanding(v, q))'
<1> DEFINE st == ProblemStanding(v, q)
           now == ProblemStanding(v, q)'
<1>1. /\ st \in Standing /\ st.attempts = Cardinality(Failed(v, q))
      /\ \E i \in Accepted(v, q) :
            (\A a \in Accepted(v, q) : i <= a) /\ st.minute = submissions[i].minute
  BY DEF Ruled
<1>2. /\ now \in Standing /\ now.attempts = Cardinality(Failed(v, q)')
      /\ \E i \in Accepted(v, q)' :
            (\A a \in Accepted(v, q)' : i <= a) /\ now.minute = submissions'[i].minute
  BY DEF Ruled
<1>3. PICK i \in Accepted(v, q) :
         (\A a \in Accepted(v, q) : i <= a) /\ st.minute = submissions[i].minute
  BY <1>1
<1>4. PICK k \in Accepted(v, q)' :
         (\A a \in Accepted(v, q)' : k <= a) /\ now.minute = submissions'[k].minute
  BY <1>2
<1>5. i \in DOMAIN submissions /\ k \in DOMAIN submissions
  BY DEF Accepted
<1>6. now.minute = submissions[k].minute
  BY <1>4, <1>5
<1>7. Accepted(v, q) \subseteq Accepted(v, q)' => now.minute <= st.minute
  BY <1>3, <1>4, <1>5, <1>6 DEF Chronological
<1>8. Accepted(v, q)' \subseteq Accepted(v, q) => st.minute <= now.minute
  BY <1>3, <1>4, <1>5, <1>6 DEF Chronological
<1>9. /\ Penalty(st) = st.minute + 20 * st.attempts
      /\ Penalty(ProblemStanding(v, q))' = now.minute + 20 * now.attempts
  BY DEF Penalty
<1>10. /\ st.minute \in Nat /\ st.attempts \in Nat /\ now.minute \in Nat /\ now.attempts \in Nat
  BY <1>1, <1>2 DEF Standing
<1>11. IsFiniteSet(Failed(v, q))
  BY FailedFinite
<1>12. IsFiniteSet(Failed(v, q)')
  <2>1. Failed(v, q)' \in SUBSET DOMAIN submissions
    BY DEF Failed, Counting
  <2> QED
    BY <2>1, RowsOfLoop
<1>13. Failed(v, q)' \subseteq Failed(v, q) => now.attempts <= st.attempts
  BY <1>1, <1>2, <1>11, FS_Subset
<1>14. Failed(v, q) \subseteq Failed(v, q)' => st.attempts <= now.attempts
  BY <1>1, <1>2, <1>12, FS_Subset
<1> HIDE DEF st, now
<1>15. Accepted(v, q) \subseteq Accepted(v, q)' /\ Failed(v, q)' \subseteq Failed(v, q) =>
          now.minute + 20 * now.attempts <= st.minute + 20 * st.attempts
  BY <1>7, <1>10, <1>13
<1>16. Accepted(v, q)' \subseteq Accepted(v, q) /\ Failed(v, q) \subseteq Failed(v, q)' =>
          st.minute + 20 * st.attempts <= now.minute + 20 * now.attempts
  BY <1>8, <1>10, <1>14
<1>17. Penalty(st) \in Nat /\ Penalty(ProblemStanding(v, q))' \in Nat
  BY <1>9, <1>10
<1> QED
  BY <1>9, <1>15, <1>16, <1>17 DEF st

\* A state before and a state after a verdict.
Judged(i, u, p, status) ==
    /\ Verdict(i, u, p, status)
    /\ TypeOK /\ TypeOK' /\ Chronological /\ Shown /\ Shown'

\* What a user has solved, after a verdict.
LEMMA SolvedAfter ==
    ASSUME NEW i, NEW u, NEW p, NEW status, Judged(i, u, p, status)
    PROVE  /\ \A v \in User : v # u => SolvedBy(v)' = SolvedBy(v)
           /\ status = "accepted" => SolvedBy(u)' = SolvedBy(u) \cup {p}
           /\ status # "accepted" =>
                 SolvedBy(u)' = SolvedBy(u) \/ SolvedBy(u)' = SolvedBy(u) \ {p}
<1>1. Verdict(i, u, p, status) /\ u \in User /\ p \in Problem
  BY DEF Judged, Verdict
<1>2. /\ \A v \in User : SolvedBy(v) = {q \in Problem : Accepted(v, q) # {}}
      /\ \A v \in User : SolvedBy(v)' = {q \in Problem : Accepted(v, q)' # {}}
  BY DEF Judged, Shown, Entered
<1>3. \A v, q : v # u \/ q # p => Accepted(v, q)' = Accepted(v, q)
  BY <1>1, AcceptedAfter
<1>4. \A v \in User : v # u => SolvedBy(v)' = SolvedBy(v)
  BY <1>2, <1>3
<1>5. ASSUME status = "accepted" PROVE SolvedBy(u)' = SolvedBy(u) \cup {p}
  <2>1. Accepted(u, p)' # {}
    BY <1>1, <1>5, AcceptedAfter
  <2> QED
    BY <2>1, <1>1, <1>2, <1>3
<1>6. ASSUME status # "accepted"
      PROVE  SolvedBy(u)' = SolvedBy(u) \/ SolvedBy(u)' = SolvedBy(u) \ {p}
  <2>1. Accepted(u, p)' \subseteq Accepted(u, p)
    BY <1>1, <1>6, AcceptedAfter
  <2> QED
    BY <2>1, <1>1, <1>2, <1>3
<1> QED
  BY <1>4, <1>5, <1>6

\* The penalties behind an entry, before and after a verdict.
LEMMA PenaltiesAfter ==
    ASSUME NEW i, NEW u, NEW p, NEW status, Judged(i, u, p, status),
           NEW v \in User, NEW q \in SolvedBy(v), q \in SolvedBy(v)'
    PROVE  /\ v # u \/ q # p =>
                 Penalty(ProblemStanding(v, q))' = Penalty(ProblemStanding(v, q))
           /\ status = "accepted" =>
                 Penalty(ProblemStanding(v, q))' <= Penalty(ProblemStanding(v, q))
           /\ status # "accepted" =>
                 Penalty(ProblemStanding(v, q)) <= Penalty(ProblemStanding(v, q))'
<1>1. Verdict(i, u, p, status) /\ TypeOK /\ TypeOK' /\ Chronological
  BY DEF Judged
<1>2. /\ DOMAIN submissions' = DOMAIN submissions
      /\ \A j \in DOMAIN submissions : submissions'[j].minute = submissions[j].minute
  BY <1>1 DEF Verdict
<1>3. /\ q \in Problem /\ Accepted(v, q) # {} /\ Accepted(v, q)' # {}
      /\ Ruled(v, q) /\ Ruled(v, q)'
  BY DEF Judged, Shown, Entered
<1>4. /\ Penalty(ProblemStanding(v, q)) \in Nat /\ Penalty(ProblemStanding(v, q))' \in Nat
      /\ Accepted(v, q) \subseteq Accepted(v, q)' /\ Failed(v, q)' \subseteq Failed(v, q) =>
            Penalty(ProblemStanding(v, q))' <= Penalty(ProblemStanding(v, q))
      /\ Accepted(v, q)' \subseteq Accepted(v, q) /\ Failed(v, q) \subseteq Failed(v, q)' =>
            Penalty(ProblemStanding(v, q)) <= Penalty(ProblemStanding(v, q))'
  BY <1>1, <1>2, <1>3, PenaltyAfter
<1>5. v # u \/ q # p => Failed(v, q)' = Failed(v, q) /\ Accepted(v, q)' = Accepted(v, q)
  BY <1>1, AcceptedAfter
<1>6. status = "accepted" =>
         Failed(v, q)' \subseteq Failed(v, q) /\ Accepted(v, q) \subseteq Accepted(v, q)'
  BY <1>1, <1>5, AcceptedAfter
<1>7. status # "accepted" =>
         Failed(v, q) \subseteq Failed(v, q)' /\ Accepted(v, q)' \subseteq Accepted(v, q)
  BY <1>1, <1>5, AcceptedAfter
<1>8. v # u \/ q # p => Penalty(ProblemStanding(v, q))' = Penalty(ProblemStanding(v, q))
  BY <1>4, <1>5
<1> QED
  BY <1>4, <1>6, <1>7, <1>8

\* The others keep their entries.
LEMMA OthersStand ==
    ASSUME NEW i, NEW u, NEW p, NEW status, Judged(i, u, p, status),
           NEW v \in User, v # u
    PROVE  Entry(v)' = Entry(v)
<1>1. SolvedBy(v)' = SolvedBy(v)
  BY SolvedAfter
<1>2. Entered(v) /\ Entered(v)'
  BY DEF Judged, Shown
<1>3. \A q \in SolvedBy(v) : Penalty(ProblemStanding(v, q))' = Penalty(ProblemStanding(v, q))
  BY <1>1, PenaltiesAfter
<1>4. /\ Penalties(v) \in [SolvedBy(v) -> Nat]
      /\ \A q \in SolvedBy(v) : Penalties(v)[q] = Penalty(ProblemStanding(v, q))
  BY <1>2 DEF Entered
<1>5. /\ Penalties(v)' \in [SolvedBy(v)' -> Nat]
      /\ \A q \in SolvedBy(v)' : Penalties(v)'[q] = Penalty(ProblemStanding(v, q))'
  BY <1>2 DEF Entered
<1>6. Penalties(v)' = Penalties(v)
  BY <1>1, <1>3, <1>4, <1>5
<1>7. /\ Entry(v) = [user |-> v, solved |-> Cardinality(SolvedBy(v)),
                     penalty |-> SumFunction(Penalties(v))]
      /\ Entry(v)' = [user |-> v, solved |-> Cardinality(SolvedBy(v)'),
                      penalty |-> SumFunction(Penalties(v)')]
  BY <1>2 DEF Entered
<1> QED
  BY <1>1, <1>6, <1>7

\* An accepted verdict improves the result of its author or leaves it, another one
\* worsens it or leaves it.
LEMMA AuthorMoves ==
    ASSUME NEW i, NEW u, NEW p, NEW status, Judged(i, u, p, status)
    PROVE  /\ status = "accepted" =>
                 \/ Entry(u)'.solved > Entry(u).solved
                 \/ /\ Entry(u)'.solved = Entry(u).solved
                    /\ Entry(u)'.penalty <= Entry(u).penalty
           /\ status # "accepted" =>
                 \/ Entry(u)'.solved < Entry(u).solved
                 \/ /\ Entry(u)'.solved = Entry(u).solved
                    /\ Entry(u).penalty <= Entry(u)'.penalty
<1>1. u \in User /\ Entered(u) /\ Entered(u)'
  BY DEF Judged, Shown, Verdict
<1>2. /\ IsFiniteSet(SolvedBy(u)) /\ Cardinality(SolvedBy(u)) \in Nat
      /\ Penalties(u) \in [SolvedBy(u) -> Nat]
      /\ \A q \in SolvedBy(u) : Penalties(u)[q] = Penalty(ProblemStanding(u, q))
      /\ Entry(u).solved = Cardinality(SolvedBy(u))
      /\ Entry(u).penalty = SumFunction(Penalties(u))
  BY <1>1, FS_CardinalityType DEF Entered
<1>3. /\ Penalties(u)' \in [SolvedBy(u)' -> Nat]
      /\ \A q \in SolvedBy(u)' : Penalties(u)'[q] = Penalty(ProblemStanding(u, q))'
      /\ Entry(u)'.solved = Cardinality(SolvedBy(u)')
      /\ Entry(u)'.penalty = SumFunction(Penalties(u)')
  BY <1>1 DEF Entered
<1>4. CASE status = "accepted" /\ p \notin SolvedBy(u)
  <2>1. SolvedBy(u)' = SolvedBy(u) \cup {p}
    BY <1>4, SolvedAfter
  <2>2. Cardinality(SolvedBy(u) \cup {p}) = Cardinality(SolvedBy(u)) + 1
    BY <1>2, <1>4, FS_AddElement
  <2>3. Entry(u)'.solved > Entry(u).solved
    BY <1>2, <1>3, <2>1, <2>2
  <2> QED
    BY <2>3, <1>4
<1>5. CASE status = "accepted" /\ p \in SolvedBy(u)
  <2>1. SolvedBy(u)' = SolvedBy(u)
    BY <1>5, SolvedAfter
  <2>2. \A q \in SolvedBy(u) : Penalties(u)'[q] <= Penalties(u)[q]
    BY <1>1, <1>2, <1>3, <1>5, <2>1, PenaltiesAfter
  <2>3. SumFunction(Penalties(u)') <= SumFunction(Penalties(u))
    BY <1>2, <1>3, <2>1, <2>2, SumsGrow
  <2> QED
    BY <2>1, <2>3, <1>2, <1>3, <1>5
<1>6. CASE status # "accepted" /\ SolvedBy(u)' # SolvedBy(u)
  <2>1. SolvedBy(u)' = SolvedBy(u) \ {p} /\ p \in SolvedBy(u)
    BY <1>6, SolvedAfter
  <2>2. Cardinality(SolvedBy(u) \ {p}) = Cardinality(SolvedBy(u)) - 1
    BY <1>2, <2>1, FS_RemoveElement
  <2>3. Entry(u)'.solved < Entry(u).solved
    BY <1>2, <1>3, <2>1, <2>2
  <2> QED
    BY <2>3, <1>6
<1>7. CASE status # "accepted" /\ SolvedBy(u)' = SolvedBy(u)
  <2>1. SolvedBy(u)' = SolvedBy(u)
    BY <1>7
  <2>2. \A q \in SolvedBy(u) : Penalties(u)[q] <= Penalties(u)'[q]
    BY <1>1, <1>2, <1>3, <1>7, <2>1, PenaltiesAfter
  <2>3. SumFunction(Penalties(u)) <= SumFunction(Penalties(u)')
    BY <1>2, <1>3, <2>1, <2>2, SumsGrow
  <2> QED
    BY <2>1, <2>3, <1>2, <1>3, <1>7
<1> QED
  BY <1>4, <1>5, <1>6, <1>7

\* Every verdict of a step is one in the sense above.
LEMMA StoreIsVerdict ==
    ASSUME TypeOK, NEW i \in DOMAIN submissions,
           NEW status \in {"accepted", "wrong", "runtime_error"}, NEW score \in 0 .. 100,
           NEW torn, torn \in BOOLEAN, Store(i, status, score, torn), submissions[i].status # status
    PROVE  Verdict(i, submissions[i].user, submissions[i].problem, status)
<1>1. submissions[i] \in Row
  BY DEF TypeOK
<1>2. submissions[i].user \in User /\ submissions[i].problem \in Problem
  BY <1>1 DEF Row
<1>3. status \in Status
  BY DEF Status
<1>4. /\ DOMAIN submissions' = DOMAIN submissions
      /\ \A j \in DOMAIN submissions : j # i => submissions'[j] = submissions[j]
      /\ Rewritten(submissions[i], submissions'[i])
      /\ submissions'[i].status = status
  BY <1>3, StoreStep
<1>5. \A j \in DOMAIN submissions :
         /\ submissions'[j].user = submissions[j].user
         /\ submissions'[j].problem = submissions[j].problem
         /\ submissions'[j].minute = submissions[j].minute
  BY <1>4 DEF Rewritten
<1> QED
  BY <1>2, <1>4, <1>5 DEF Verdict

\* A place gained or lost, by the results alone.
LEMMA PlacesMove ==
    ASSUME NEW a \in EntryType, NEW b \in EntryType, NEW c \in EntryType, a.user = b.user
    PROVE  /\ Before(a, c) /\ (b.solved > a.solved \/ (b.solved = a.solved /\ b.penalty <= a.penalty))
                 => Before(b, c)
           /\ Before(b, c) /\ (b.solved < a.solved \/ (b.solved = a.solved /\ a.penalty <= b.penalty))
                 => Before(a, c)
BY DEF Before, EntryType

\* A verdict, and the two boards: what VerdictsCountTheirWay says of one row.
CountsItsWay(i) ==
    submissions'[i].status \notin {submissions[i].status, "undecided"} =>
        \A mine, other \in Board :
            /\ mine.user = submissions[i].user /\ other.user # mine.user
            /\ Before(mine, other) <=> submissions'[i].status = "accepted"
            => \A mineNow, otherNow \in Board' :
                  mineNow.user = mine.user /\ otherNow.user = other.user
                  => (Before(mineNow, otherNow) <=> submissions'[i].status = "accepted")

LEMMA VerdictCounts ==
    ASSUME NEW i, NEW u, NEW p, NEW status, Judged(i, u, p, status)
    PROVE  CountsItsWay(i)
<1>1. /\ Verdict(i, u, p, status) /\ u \in User
      /\ submissions[i].user = u /\ submissions'[i].status = status
  BY DEF Judged, Verdict
<1>2. /\ Contestant \subseteq User
      /\ \A e \in Board : e = Entry(e.user) /\ e.user \in Contestant
  BY DEF Judged, Shown
<1>3. \A e \in Board' : e = Entry(e.user)' /\ e.user \in User
  BY DEF Judged, Shown
<1>4. \A v \in User : Entry(v) \in EntryType /\ Entry(v)' \in EntryType
  BY DEF Judged, Shown, Entered
<1> SUFFICES ASSUME NEW mine \in Board, NEW other \in Board,
                    NEW mineNow \in Board', NEW otherNow \in Board',
                    mine.user = u, mineNow.user = u, otherNow.user = other.user,
                    other.user # u, Before(mine, other) <=> status = "accepted"
             PROVE  Before(mineNow, otherNow) <=> status = "accepted"
  BY <1>1 DEF CountsItsWay
<1> DEFINE v == other.user
<1>5. v \in User /\ mine = Entry(u) /\ mineNow = Entry(u)' /\ other = Entry(v)
      /\ otherNow = Entry(v)'
  BY <1>2, <1>3
<1>6. /\ mine \in EntryType /\ mineNow \in EntryType
      /\ other \in EntryType /\ otherNow \in EntryType
  BY <1>1, <1>4, <1>5
<1>7. otherNow = other
  BY <1>5, OthersStand
<1>8. /\ status = "accepted" =>
           \/ mineNow.solved > mine.solved
           \/ mineNow.solved = mine.solved /\ mineNow.penalty <= mine.penalty
      /\ status # "accepted" =>
           \/ mineNow.solved < mine.solved
           \/ mineNow.solved = mine.solved /\ mine.penalty <= mineNow.penalty
  BY <1>5, AuthorMoves
<1> QED
  BY <1>6, <1>7, <1>8, PlacesMove

\* An accepted verdict never costs its author a place on the live leaderboard, any
\* other verdict or error never gains one: the first accepted row of a problem can
\* only move to an earlier one with the former, with an earlier minute and no more
\* failures before it, and to a later one with the latter
\* (leaderboard.service.ts:89-149).
THEOREM VerdictsDoCount == Spec => VerdictsCountTheirWay
<1>1. TypeOK /\ TypeOK' /\ Chronological /\ Shown /\ Shown' /\ Next =>
         \A i \in DOMAIN submissions : CountsItsWay(i)
  <2> SUFFICES ASSUME TypeOK, TypeOK', Chronological, Shown, Shown', Next,
                      NEW i \in DOMAIN submissions,
                      submissions'[i].status \notin {submissions[i].status, "undecided"}
               PROVE  CountsItsWay(i)
    BY DEF CountsItsWay
  <2>1. ASSUME NEW j \in DOMAIN submissions,
               NEW status \in {"accepted", "wrong", "runtime_error"}, NEW score \in 0 .. 100,
               NEW torn, torn \in BOOLEAN, Store(j, status, score, torn)
        PROVE  CountsItsWay(i)
    <3>1. status \in Status
      BY DEF Status
    <3>2. i = j /\ submissions[i].status # status
      BY <2>1, <3>1, StoreStep
    <3>3. Judged(i, submissions[i].user, submissions[i].problem, status)
      BY <2>1, <3>2, StoreIsVerdict DEF Judged
    <3> QED
      BY <3>3, VerdictCounts
  <2>2. ASSUME NEW u \in User, NEW p \in Problem, Submit(u, p) PROVE FALSE
    BY <2>2, SubmitStep
  <2>3. ASSUME NEW j \in DOMAIN submissions, JudgeFails(j) PROVE CountsItsWay(i)
    BY <2>1, <2>3, FailureStores
  <2>4. ASSUME NEW j \in DOMAIN submissions, NEW passed \in 0 .. Tests, NEW torn, torn \in BOOLEAN,
               Judge(j, passed, torn)
        PROVE  CountsItsWay(i)
    BY <2>1, <2>4, JudgeStores
  <2>6. ASSUME NEW j \in DOMAIN submissions, RunAgain(j) PROVE FALSE
    BY <2>6, RunAgainStep
  <2>5. ASSUME Tick PROVE FALSE
    BY <2>5 DEF Tick
  <2> QED
    BY <2>2, <2>3, <2>4, <2>5, <2>6 DEF Next
<1>2. TypeOK /\ TypeOK' /\ Chronological /\ Shown /\ Shown' /\ [Next]_vars =>
         [\A i \in DOMAIN submissions :
            submissions'[i].status \notin {submissions[i].status, "undecided"} =>
              \A mine, other \in Board :
                  /\ mine.user = submissions[i].user /\ other.user # mine.user
                  /\ Before(mine, other) <=> submissions'[i].status = "accepted"
                  => \A mineNow, otherNow \in Board' :
                        mineNow.user = mine.user /\ otherNow.user = other.user
                        => (Before(mineNow, otherNow) <=> submissions'[i].status = "accepted")]_vars
  BY <1>1 DEF CountsItsWay
<1>3. Spec => []TypeOK
  BY TypeCorrect
<1>4. Spec => []ChronologicalInv
  BY InitChronological, NextChronological, PTL DEF Spec
<1>5. ChronologicalInv => Chronological
  BY DEF ChronologicalInv
<1> QED
  BY <1>2, <1>3, <1>4, <1>5, TypedIsShown, PTL DEF Spec, VerdictsCountTheirWay
=============================================================================
