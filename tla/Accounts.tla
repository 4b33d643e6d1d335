------------------------------ MODULE Accounts ------------------------------
(***************************************************************************)
(* Accounts, sessions and roles (Register, Login, Logout, AdminCreateUser, *)
(* AdminDeleteUser and AdminSetRole in dispatch, main.rs; auth.rs).        *)
(*                                                                         *)
(* A handler checks (session, role, whether registration is open) and then *)
(* hashes a password or opens a transaction; what it checked may be        *)
(* outdated when it writes.  A session token names its user.               *)
(***************************************************************************)
EXTENDS Naturals

CONSTANTS
  User,      \* account ids
  Clerk,      \* requests that may be under way at the same time
  MaxSteps   \* bound on the requests

ASSUME AccountsAssumption == MaxSteps \in Nat

VARIABLES
  role,      \* "none", "user" or "admin"
  session,   \* users with a valid session
  open,      \* allow_self_registration
  checked,   \* what each handler has checked
  managed,   \* an administrator has created, deleted or changed an account
  steps,
  overlapped \* history: two requests have been under way at the same time

accountVars == <<role, session, open, checked, managed, steps, overlapped>>

Free == [op |-> "idle"]
Users == {u \in User : role[u] # "none"}
Admins == {u \in User : role[u] = "admin"}
Underway == {h \in Clerk : checked[h] # Free}

AccountInit ==
  /\ role = [u \in User |-> "none"]
  /\ session = {}
  /\ open \in BOOLEAN
  /\ checked = [h \in Clerk |-> Free]
  /\ managed = FALSE
  /\ steps = 0
  /\ overlapped = FALSE

Take(h, j) ==
  /\ checked[h] = Free
  /\ steps < MaxSteps
  /\ steps' = steps + 1
  /\ checked' = [checked EXCEPT ![h] = j]
  /\ UNCHANGED <<role, session, open, managed>>

Release(h) == checked' = [checked EXCEPT ![h] = Free] /\ UNCHANGED <<open, steps>>

\* An error answer; nothing was written.
Refuse(h) == checked[h] # Free /\ Release(h) /\ UNCHANGED <<role, session, managed>>

\* new_uuid: an id that no account has and no request names.
NewId(u) ==
  /\ role[u] = "none"
  /\ u \notin {checked[h].user : h \in {g \in Clerk : checked[g] # Free}}

-----------------------------------------------------------------------------
(* Register: the count and the policy are read before the password is      *)
(* hashed; the role is decided by the INSERT itself.                       *)

CheckRegistration(h, u) ==
  /\ NewId(u)
  /\ Users = {} \/ open
  /\ Take(h, [op |-> "register", user |-> u, first |-> Users = {}])

RegisteredRole(h) == IF Users = {} THEN "admin" ELSE "user"

InsertRegistered(h) ==
  /\ checked[h].op = "register"
  /\ role' = [role EXCEPT ![checked[h].user] = RegisteredRole(h)]
  /\ checked' = [checked EXCEPT ![h] = [op |-> "login", user |-> checked[h].user]]
  /\ UNCHANGED <<session, open, managed, steps>>

\* Login finds the account, verifies the password, and only then opens the
\* session.
CheckLogin(h, u) ==
  /\ u \in Users
  /\ Take(h, [op |-> "login", user |-> u])

\* new_session: the foreign key refuses an account deleted meanwhile.
OpenSession(h) ==
  /\ checked[h].op = "login"
  /\ checked[h].user \in Users
  /\ session' = session \cup {checked[h].user}
  /\ Release(h)
  /\ UNCHANGED <<role, managed>>

Logout(u) ==
  /\ u \in session
  /\ steps < MaxSteps
  /\ steps' = steps + 1
  /\ session' = session \ {u}
  /\ UNCHANGED <<role, open, checked, managed>>

-----------------------------------------------------------------------------
(* Administration: require_admin, then the change.                         *)

RequireAdmin(a) == a \in session /\ role[a] = "admin"

CheckCreate(h, a, u, r) ==
  /\ RequireAdmin(a) /\ NewId(u)
  /\ Take(h, [op |-> "create", user |-> u, role |-> r])

InsertCreated(h) ==
  /\ checked[h].op = "create"
  /\ role' = [role EXCEPT ![checked[h].user] = checked[h].role]
  /\ managed' = TRUE
  /\ Release(h)
  /\ UNCHANGED session

\* Mutant: the check for the own account is missing.
MayRemoveAnyone(a, u) == TRUE

\* "administrators cannot delete (demote) their own active account"
MayRemove(a, u) == a # u

CheckDelete(h, a, u) ==
  /\ RequireAdmin(a) /\ MayRemove(a, u)
  /\ Take(h, [op |-> "delete", user |-> u])

\* The account goes with its sessions, conversations, characters and deltas.
DeleteUser(h) ==
  /\ checked[h].op = "delete"
  /\ checked[h].user \in Users
  /\ role' = [role EXCEPT ![checked[h].user] = "none"]
  /\ session' = session \ {checked[h].user}
  /\ managed' = TRUE
  /\ Release(h)

CheckSetRole(h, a, u, r) ==
  /\ RequireAdmin(a)
  /\ r = "user" => MayRemove(a, u)
  /\ Take(h, [op |-> "role", user |-> u, role |-> r])

SetRole(h) ==
  /\ checked[h].op = "role"
  /\ checked[h].user \in Users
  /\ role' = [role EXCEPT ![checked[h].user] = checked[h].role]
  /\ managed' = TRUE
  /\ Release(h)
  /\ UNCHANGED session

\* AdminSetBrokerConfig, of which only the registration policy matters here.
SetPolicy(a) ==
  /\ RequireAdmin(a)
  /\ steps < MaxSteps
  /\ steps' = steps + 1
  /\ open' = ~open
  /\ UNCHANGED <<role, session, checked, managed>>

-----------------------------------------------------------------------------
Write(h) ==
  \/ InsertRegistered(h) \/ OpenSession(h) \/ InsertCreated(h)
  \/ DeleteUser(h) \/ SetRole(h) \/ Refuse(h)

Request ==
  \/ \E h \in Clerk :
       \/ Write(h)
       \/ \E u \in User : CheckRegistration(h, u) \/ CheckLogin(h, u)
       \/ \E a, u \in User :
            \/ CheckDelete(h, a, u)
            \/ \E r \in {"user", "admin"} : CheckCreate(h, a, u, r) \/ CheckSetRole(h, a, u, r)
  \/ \E u \in User : Logout(u) \/ SetPolicy(u)

AccountNext ==
  /\ Request
  /\ overlapped' = (overlapped \/ \E g, h \in Underway' : g # h)

AccountSpec == AccountInit /\ [][AccountNext]_accountVars

-----------------------------------------------------------------------------
(* Properties.                                                             *)

AccountTypeOK ==
  /\ role \in [User -> {"none", "user", "admin"}]
  /\ session \in SUBSET User
  /\ open \in BOOLEAN
  /\ \A h \in Clerk : checked[h].op \in {"idle", "register", "login", "create", "delete", "role"}
  /\ managed \in BOOLEAN
  /\ steps \in Nat

\* Until an administrator manages accounts there is one, the first account.
FirstAccountIsAdmin ==
  ~managed /\ Users # {} => \E a \in User : Admins = {a}

\* "The first account in an empty database becomes admin; subsequent accounts
\* become users" (ARCHITECTURE.md 156), although registrations overlap while
\* their passwords are hashed; and main.rs 599 and 669 keep administrators from
\* removing or demoting themselves, so that one remains once there is an
\* account, as long as no two requests overlap.
AdminRemains ==
  /\ AccountTypeOK /\ FirstAccountIsAdmin
  /\ ~overlapped /\ Users # {} => Admins # {}

=============================================================================
