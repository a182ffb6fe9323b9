------------------------------ MODULE Accounts ------------------------------
(***************************************************************************)
(* The users table over restarts: UserService.onApplicationBootstrap seeds *)
(* a superadmin when there is no admin, before the application listens;    *)
(* while it runs, requests register, create, change and remove users.      *)
(* Rows are removed softly: no query finds them, but their names stay in   *)
(* the unique index.                                                       *)
(***************************************************************************)
EXTENDS Naturals, FiniteSets

CONSTANTS
    Row,        \* ids of the rows
    Name,       \* user names
    Superadmin, \* the name of the seeded user
    Request,    \* PATCH and DELETE /user/:id requests
    MaxCrashes  \* bound: process crashes

\* There is a free row for every free name.
ASSUME NamesAssumption ==
    /\ Superadmin \in Name
    /\ IsFiniteSet(Row) /\ IsFiniteSet(Name)
    /\ Cardinality(Row) >= Cardinality(Name)
    /\ MaxCrashes \in Nat

VARIABLES
    user,     \* the rows of the table
    boot,     \* "down", "seeding" or "up"
    request,  \* requests that found their row and have not written it
    crashes   \* crashes so far

vars == <<user, boot, request, crashes>>

Role == {"admin", "editor", "user"}
User == [state: {"none", "live", "deleted"}, name: Name, role: Role]
NoUser == [state |-> "none", name |-> Superadmin, role |-> "user"]

\* What a request is about to do, and to which row.
RequestState == [op: {"none", "update", "remove", "done"}, row: Row]

TypeOK ==
    /\ user \in [Row -> User]
    /\ boot \in {"down", "seeding", "up"}
    /\ request \in [Request -> RequestState]
    /\ crashes \in Nat

Init ==
    /\ user = [r \in Row |-> NoUser]
    /\ boot = "down"
    /\ request = [q \in Request |-> [op |-> "none", row |-> CHOOSE r \in Row : TRUE]]
    /\ crashes = 0

Live(r) == user[r].state = "live"

\* The unique index knows the soft-deleted rows, too.
Taken(name, others) ==
    \E r \in others : user[r].state # "none" /\ user[r].name = name

Insert(name, role) ==
    \E r \in Row :
        /\ user[r].state = "none"
        /\ user' = [user EXCEPT ![r] = [state |-> "live", name |-> name, role |-> role]]

-----------------------------------------------------------------------------
(* UserService.onApplicationBootstrap *)

\* A variant the checks must reject: any user will do.
AnyUserExists == \E r \in Row : Live(r)

\* A variant the checks must reject: the test is the wrong way round.
NoAdminExists == \A r \in Row : Live(r) => user[r].role # "admin"

AdminExists == \E r \in Row : Live(r) /\ user[r].role = "admin"

Start ==
    /\ boot = "down"
    /\ boot' = IF AdminExists THEN "up" ELSE "seeding"
    /\ UNCHANGED <<user, request, crashes>>

Seed ==
    /\ boot = "seeding"
    /\ Insert(Superadmin, "admin")
    /\ ~Taken(Superadmin, Row)
    /\ boot' = "up"
    /\ UNCHANGED <<request, crashes>>

\* The insert violates the index: bootstrap rejects and the process exits.
SeedFails ==
    /\ boot = "seeding"
    /\ Taken(Superadmin, Row)
    /\ boot' = "down"
    /\ UNCHANGED <<user, request, crashes>>

-----------------------------------------------------------------------------
(* The requests of AuthController and UserController *)

Create(name, role) ==
    /\ boot = "up"
    /\ ~Taken(name, Row)
    /\ Insert(name, role)
    /\ UNCHANGED <<boot, request, crashes>>

Register(name) == Create(name, "user")

\* Its body may leave the role out, whose default is user.
CreatePrivilegedUser(name, role) == Create(name, role)

Find(q, r, op) ==
    /\ boot = "up" /\ request[q].op = "none"
    /\ Live(r)
    /\ request' = [request EXCEPT ![q] = [op |-> op, row |-> r]]
    /\ UNCHANGED <<user, boot, crashes>>

Finish(q) == request' = [request EXCEPT ![q].op = "done"]

\* merge and save: the row becomes the merged entity, whose deletedAt is null;
\* a name that is taken makes the save fail.
Update(q, name, role) ==
    /\ request[q].op = "update"
    /\ LET r == request[q].row
       IN  user' = IF Taken(name, Row \ {r}) THEN user
                   ELSE [user EXCEPT ![r] = [state |-> "live", name |-> name, role |-> role]]
    /\ Finish(q)
    /\ UNCHANGED <<boot, crashes>>

Remove(q) ==
    /\ request[q].op = "remove"
    /\ user' = [user EXCEPT ![request[q].row].state = "deleted"]
    /\ Finish(q)
    /\ UNCHANGED <<boot, crashes>>

Crash ==
    /\ boot # "down" /\ crashes < MaxCrashes
    /\ crashes' = crashes + 1
    /\ boot' = "down"
    /\ request' = [q \in Request |->
                    IF request[q].op = "none" THEN request[q] ELSE [request[q] EXCEPT !.op = "done"]]
    /\ UNCHANGED user

-----------------------------------------------------------------------------
Boot == Start \/ Seed \/ SeedFails

Next ==
    \/ Boot \/ Crash
    \/ \E name \in Name : Register(name)
    \/ \E name \in Name, role \in Role : CreatePrivilegedUser(name, role)
    \/ \E q \in Request :
          \/ \E r \in Row, op \in {"update", "remove"} : Find(q, r, op)
          \/ \E name \in Name, role \in Role : Update(q, name, role)
          \/ Remove(q)

Spec == Init /\ [][Next]_vars

\* Whatever restarts the process starts it again, and a boot goes on.
FairSpec == Spec /\ WF_vars(Boot)

-----------------------------------------------------------------------------
(* Properties *)

\* The application never begins to listen without an admin, whatever requests
\* and crashes left in the table (user.service.ts:18-33, main.ts:7-18).
UpWithAdmin ==
    [][boot' = "up" /\ boot # "up" =>
          \E r \in Row : user'[r].state = "live" /\ user'[r].role = "admin"]_vars

\* The name of the seed belongs to somebody who is no admin any more.
Blocked == \E r \in Row : /\ user[r].state # "none" /\ user[r].name = Superadmin
                          /\ ~(Live(r) /\ user[r].role = "admin")

\* A boot comes up, unless the seed lost its role or was removed and its row
\* blocks the name (user.service.ts:19-32).
BootEnds == boot # "up" ~> boot = "up" \/ Blocked
=============================================================================
