--------------------------- MODULE AccountsProofs ---------------------------
(***************************************************************************)
(* Proofs about the users table over restarts, for any rows, names,        *)
(* requests and crashes.                                                   *)
(***************************************************************************)
EXTENDS Accounts, FiniteSetTheorems, TLAPS

\* The table has room for the seed.
LEMMA SomeRow == Row # {}
<1> SUFFICES ASSUME Row = {} PROVE FALSE
  OBVIOUS
<1>1. Cardinality(Row) = 0
  BY FS_EmptySet
<1>2. Cardinality(Name) \in Nat
  BY NamesAssumption, FS_CardinalityType
<1>3. Cardinality(Name) = 0
  BY <1>1, <1>2, NamesAssumption
<1> QED
  BY <1>3, NamesAssumption, FS_EmptySet

LEMMA InitTyped == Init => TypeOK
<1> SUFFICES ASSUME Init PROVE TypeOK
  OBVIOUS
<1>1. (CHOOSE r \in Row : TRUE) \in Row
  BY SomeRow
<1>2. request \in [Request -> RequestState]
  BY <1>1 DEF Init, RequestState
<1>3. NoUser \in User
  BY NamesAssumption DEF NoUser, User, Role
<1> QED
  BY <1>2, <1>3 DEF Init, TypeOK

LEMMA InsertTyped ==
    ASSUME TypeOK, NEW name \in Name, NEW role \in Role, Insert(name, role)
    PROVE  user' \in [Row -> User]
BY DEF TypeOK, Insert, User

LEMMA NextTyped == TypeOK /\ [Next]_vars => TypeOK'
<1> SUFFICES ASSUME TypeOK, [Next]_vars PROVE TypeOK'
  OBVIOUS
<1>1. CASE Start
  BY <1>1 DEF TypeOK, Start
<1>2. CASE Seed
  BY <1>2, NamesAssumption, InsertTyped DEF TypeOK, Seed, Role
<1>3. CASE SeedFails
  BY <1>3 DEF TypeOK, SeedFails
<1>4. CASE Crash
  <2>1. request' \in [Request -> RequestState]
    BY <1>4 DEF TypeOK, Crash, RequestState
  <2> QED
    BY <1>4, <2>1 DEF TypeOK, Crash
<1>5. ASSUME NEW name \in Name, NEW role \in Role, Create(name, role)
      PROVE  TypeOK'
  BY <1>5, InsertTyped DEF TypeOK, Create
<1>6. ASSUME NEW q \in Request, NEW r \in Row, NEW op \in {"update", "remove"}, Find(q, r, op)
      PROVE  TypeOK'
  BY <1>6 DEF TypeOK, Find, RequestState
<1>7. ASSUME NEW q \in Request, NEW name \in Name, NEW role \in Role, Update(q, name, role)
      PROVE  TypeOK'
  <2>1. request[q].row \in Row
    BY DEF TypeOK, RequestState
  <2>2. user' \in [Row -> User]
    BY <1>7, <2>1 DEF TypeOK, Update, User
  <2>3. request' \in [Request -> RequestState]
    BY <1>7 DEF TypeOK, Update, Finish, RequestState
  <2> QED
    BY <1>7, <2>2, <2>3 DEF TypeOK, Update
<1>8. ASSUME NEW q \in Request, Remove(q)
      PROVE  TypeOK'
  <2>1. request[q].row \in Row
    BY DEF TypeOK, RequestState
  <2>2. user' \in [Row -> User]
    BY <1>8, <2>1 DEF TypeOK, Remove, User
  <2>3. request' \in [Request -> RequestState]
    BY <1>8 DEF TypeOK, Remove, Finish, RequestState
  <2> QED
    BY <1>8, <2>2, <2>3 DEF TypeOK, Remove
<1>9. CASE UNCHANGED vars
  BY <1>9 DEF TypeOK, vars
<1>10. "user" \in Role
  BY DEF Role
<1> QED
  BY <1>1, <1>2, <1>3, <1>4, <1>5, <1>6, <1>7, <1>8, <1>9, <1>10
     DEF Next, Boot, Register, CreatePrivilegedUser

\* Every variable of the users table over restarts has its type, in every instance.
THEOREM TypeCorrect == Spec => []TypeOK
BY InitTyped, NextTyped, PTL DEF Spec

\* Whoever brings the application up leaves an admin in the table: the boot that
\* found one, or the seed.
LEMMA BootWithAdmin ==
    ASSUME TypeOK, [Next]_vars, boot' = "up", boot # "up"
    PROVE  \E r \in Row : user'[r].state = "live" /\ user'[r].role = "admin"
<1>1. CASE Start
  BY <1>1 DEF Start, AdminExists, Live
<1>2. CASE Seed
  <2>1. PICK r \in Row : user' = [user EXCEPT ![r] =
                            [state |-> "live", name |-> Superadmin, role |-> "admin"]]
    BY <1>2 DEF Seed, Insert
  <2>2. user'[r] = [state |-> "live", name |-> Superadmin, role |-> "admin"]
    BY <2>1 DEF TypeOK
  <2> QED
    BY <2>2
<1>3. ~SeedFails /\ ~Crash /\ ~UNCHANGED vars
  BY DEF SeedFails, Crash, vars
<1>4. \A name \in Name, role \in Role : ~Create(name, role)
  BY DEF Create
<1>5. \A q \in Request :
          /\ \A r \in Row, op \in {"update", "remove"} : ~Find(q, r, op)
          /\ \A name \in Name, role \in Role : ~Update(q, name, role)
          /\ ~Remove(q)
  BY DEF Find, Update, Remove
<1>6. "user" \in Role
  BY DEF Role
<1> QED
  BY <1>1, <1>2, <1>3, <1>4, <1>5, <1>6 DEF Next, Boot, Register, CreatePrivilegedUser

\* The application never begins to listen without an admin, whatever requests,
\* removals, demotions and crashes left in the table
\* (user.service.ts:18-33, main.ts:7-18).
THEOREM ComesUpWithAdmin == Spec => UpWithAdmin
<1>1. TypeOK /\ [Next]_vars =>
          [boot' = "up" /\ boot # "up" =>
              \E r \in Row : user'[r].state = "live" /\ user'[r].role = "admin"]_vars
  BY BootWithAdmin
<1> QED
  BY <1>1, TypeCorrect, PTL DEF Spec, UpWithAdmin
=============================================================================
