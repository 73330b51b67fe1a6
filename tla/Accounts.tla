------------------------------ MODULE Accounts ------------------------------
(***************************************************************************)
(* People sign in with a password (main.py) or with Microsoft              *)
(* (microsoft_sso.py), change or reset passwords, and are administered by  *)
(* others (admin_api.py) and by a recovery program (admin_password_reset). *)
(*                                                                         *)
(* A request reads, decides and commits without locks: it is a transaction *)
(* with the writes it decided, in flight until it is committed.  Only the  *)
(* columns that changed are written.                                       *)
(***************************************************************************)
EXTENDS Integers, FiniteSets

CONSTANTS
  Users, Admins,  \* people, and the administrators among them at the start
  Roles,          \* custom roles, which may delegate administration
  GivenRoles,     \* their definitions at the start
  Identities,     \* Microsoft identities
  Mail(_),        \* whose address an identity has
  Attempts,       \* wrong passwords before an account is locked
  None,
  MaxInFlight, MaxRequest, MaxOther   \* bounds: at a time, transactions, other steps

ASSUME AccountsAssumption ==
  /\ Admins \subseteq Users /\ Admins # {} /\ IsFiniteSet(Roles)
  /\ \A i \in Identities : Mail(i) \in Users
  /\ None \notin Roles \cup Identities
  /\ GivenRoles \in [Roles -> [active : BOOLEAN, parent : Roles \cup {None}, administers : BOOLEAN]]
  /\ Attempts \in Nat \ {0} /\ MaxInFlight \in Nat /\ MaxRequest \in Nat /\ MaxOther \in Nat

VARIABLES
  account,   \* users, with the role assignments
  sessions,  \* sessions, with the resets of the account that had begun when they were put on record
  links,     \* reset links that are neither used nor expired
  role,      \* definitions of the custom roles
  forms,     \* accounts as administrators have loaded them to edit
  approved,  \* one enabled connection approves the tenant
  inflight,  \* transactions that have read and not committed
  \* History, for the properties:
  raced,     \* users two of whose transactions overlapped, or who were recovered
  resets,    \* of each user, how many resets of the password began, and the last committed one
  removals,  \* two transactions that each remove an active administrator overlapped
  left       \* transactions and other steps left, the bounds

accountVars == <<account, sessions, links, role, forms, approved, inflight, raced, resets, removals, left>>

Links == Users \X (1 .. MaxRequest)

Account ==
  [role : {"none", "end_user", "admin"}, active : BOOLEAN, roles : SUBSET Roles,
   source : {"Local", "Entra"}, entra : Identities \cup {None},
   password : BOOLEAN,   \* it has one that can be used
   failed : 0 .. Attempts, locked : BOOLEAN,
   version : 1 .. MaxRequest + 1]

Role == [active : BOOLEAN, parent : Roles \cup {None}, administers : BOOLEAN]
Session == [user : Users, after : 0 .. MaxRequest]
Resetting == [begun : 0 .. MaxRequest, done : 0 .. MaxRequest]
Form == [user : Users, version : 1 .. MaxRequest + 1, role : {"end_user", "admin"}, active : BOOLEAN]

AccountsTypeOK ==
  /\ account \in [Users -> Account]
  /\ sessions \subseteq Session /\ links \subseteq Links
  /\ role \in [Roles -> Role]
  /\ forms \subseteq Form /\ approved \in BOOLEAN
  /\ raced \subseteq Users /\ resets \in [Users -> Resetting] /\ removals \in BOOLEAN
  /\ left \in [requests : 0 .. MaxRequest, others : 0 .. MaxOther]

NewAccount ==
  [role |-> "none", active |-> TRUE, roles |-> {}, source |-> "Local", entra |-> None,
   password |-> FALSE, failed |-> 0, locked |-> FALSE, version |-> 1]

AccountsInit ==
  /\ account = [u \in Users |-> IF u \in Admins
                                  THEN [NewAccount EXCEPT !.role = "admin", !.password = TRUE]
                                  ELSE NewAccount]
  /\ sessions = {[user |-> u, after |-> 0] : u \in Admins}
  /\ links = {} /\ forms = {} /\ inflight = {}
  /\ role = GivenRoles
  /\ approved = TRUE
  /\ raced = {} /\ resets = [u \in Users |-> [begun |-> 0, done |-> 0]] /\ removals = FALSE
  /\ left = [requests |-> MaxRequest, others |-> MaxOther]

Exists(u) == account[u].role # "none"
Other == left.others > 0 /\ left' = [left EXCEPT !.others = @ - 1]

-----------------------------------------------------------------------------
(* Transactions.                                                           *)

\* What is changed when new replaces old, and a row with what was written to it.
Changed(old, new) == [f \in {c \in DOMAIN old : new[c] # old[c]} |-> new[f]]
Written(row, writes) == [f \in DOMAIN row |-> IF f \in DOMAIN writes THEN writes[f] ELSE row[f]]

\* A transaction that makes the account of u new; a reset of the password is
\* numbered among those of u, others have 0.
Txn(u, new) ==
  [user |-> u, writes |-> Changed(account[u], new), creates |-> ~Exists(u), drops |-> {},
   opens |-> FALSE, reset |-> 0, spends |-> {}, issues |-> {}, form |-> None]

\* It deletes the sessions of u that it finds.
Dropping(t, u) == [t EXCEPT !.drops = {s \in sessions : s.user = u}]

IsAdmin(u) == account[u].role = "admin" /\ account[u].active

\* It takes role or access from an account that is an active administrator's.
Deprives(t) == \/ "role" \in DOMAIN t.writes /\ t.writes.role # "admin"
               \/ "active" \in DOMAIN t.writes /\ ~t.writes.active
Removes(t) == IsAdmin(t.user) /\ Deprives(t)

Counted(t) == [resets EXCEPT ![t.user].begun = IF t.reset = 0 THEN @ ELSE t.reset]

Begin(t) ==
  /\ Cardinality(inflight) < MaxInFlight /\ left.requests > 0
  /\ inflight' = inflight \cup {t}
  /\ raced' = raced \cup (IF \E o \in inflight : o.user = t.user THEN {t.user} ELSE {})
  /\ removals' = (removals \/ (Removes(t) /\ \E o \in inflight : Removes(o)))
  /\ resets' = Counted(t)
  /\ left' = [left EXCEPT !.requests = @ - 1]
  /\ UNCHANGED <<account, sessions, links, role, approved>>

\* A unique index has the transaction rolled back: of the address, and of the identity.
Conflicts(t) ==
  \/ t.creates /\ Exists(t.user)
  \/ "entra" \in DOMAIN t.writes /\ \E u \in Users \ {t.user} : account[u].entra = t.writes.entra

Commit(t) ==
  /\ t \in inflight
  /\ inflight' = inflight \ {t}
  /\ IF Conflicts(t)
     THEN UNCHANGED <<account, sessions, links, resets>>
     ELSE /\ account' = [account EXCEPT ![t.user] = Written(@, t.writes)]
          /\ sessions' = (sessions \ t.drops)
                          \cup (IF t.opens THEN {[user |-> t.user, after |-> resets[t.user].begun]} ELSE {})
          /\ links' = (links \ t.spends) \cup t.issues
          /\ resets' = [resets EXCEPT ![t.user].done = IF @ < t.reset THEN t.reset ELSE @]
  /\ UNCHANGED <<role, forms, approved, raced, removals, left>>

-----------------------------------------------------------------------------
(* Signing in and out.                                                     *)

Unlocked(row) == [row EXCEPT !.failed = 0, !.locked = FALSE]

MayLogIn(u) ==
  /\ Exists(u) /\ ~account[u].locked /\ account[u].active
  /\ account[u].source = "Entra" => account[u].role = "admin"

Login(u) ==
  /\ MayLogIn(u) /\ account[u].password
  /\ Begin([Txn(u, Unlocked(account[u])) EXCEPT !.opens = TRUE])
  /\ UNCHANGED forms

\* The count is kept after a lock has passed: it is not followed beyond Attempts.
LoginFails(u) ==
  /\ MayLogIn(u)
  /\ LET n == account[u].failed + 1
     IN  Begin(Txn(u, [account[u] EXCEPT !.failed = IF n < Attempts THEN n ELSE Attempts,
                                         !.locked = n >= Attempts]))
  /\ UNCHANGED forms

\* The time of a lock, of a session or of a link is over.
LockPasses(u) ==
  /\ account[u].locked
  /\ Other
  /\ account' = [account EXCEPT ![u].locked = FALSE]
  /\ UNCHANGED <<sessions, links, role, forms, approved, inflight, raced, resets, removals>>

Expire ==
  /\ Other
  /\ \/ \E s \in sessions : sessions' = sessions \ {s} /\ UNCHANGED links
     \/ \E l \in links : links' = links \ {l} /\ UNCHANGED sessions
  /\ UNCHANGED <<account, role, forms, approved, inflight, raced, resets, removals>>

\* One step: what it reads, it deletes.
Logout(s) ==
  /\ account[s.user].active
  /\ Other
  /\ sessions' = sessions \ {s}
  /\ UNCHANGED <<account, links, role, forms, approved, inflight, raced, resets, removals>>

\* What a token says that the provider signed for this sign-in; another is refused, and
\* nothing changes.
Claims(i) == [identity |-> i, email |-> Mail(i)]

\* _link_user: the account of the identity, else the one of the address, else a new one.
Found(i) == LET linked == {u \in Users : account[u].entra = Claims(i).identity}
            IN  IF linked # {} THEN CHOOSE u \in linked : TRUE ELSE Claims(i).email

MayLink(u, i) == account[u].active /\ account[u].entra \in {None, i}

MicrosoftSignIn(i) ==
  LET u == Found(i)
      linked == [Unlocked(account[u]) EXCEPT !.source = "Entra", !.entra = i,
                                             !.role = IF Exists(u) THEN @ ELSE "end_user"]
  IN  /\ approved
      /\ MayLink(u, i)
      /\ Begin([Txn(u, linked) EXCEPT !.opens = TRUE])
      /\ UNCHANGED forms

-----------------------------------------------------------------------------
(* Passwords.                                                              *)

NewPassword(row) == [row EXCEPT !.password = TRUE]

NewReset(u, new) == [Txn(u, NewPassword(new)) EXCEPT !.reset = resets[u].begun + 1]

\* Mutant of Resets: the sessions stay.
ResetsKeeping(u, new) == NewReset(u, new)

\* The password is replaced, and the sessions of the account end.
Resets(u, new) == Dropping(NewReset(u, new), u)

\* The sessions stay.
ChangePassword(s) ==
  /\ account[s.user].active /\ account[s.user].password
  /\ Begin(Txn(s.user, NewPassword(account[s.user])))
  /\ UNCHANGED forms

Voided(u) == {l \in links : l[1] = u}

\* The first link of u that nobody has or is about to have.
IsFresh(l) == l \notin links /\ \A t \in inflight : l \notin t.issues \cup t.spends
NewLink(u) == {l \in {u} \X (1 .. MaxRequest) : IsFresh(l) /\ \A n \in 1 .. l[2] - 1 : ~IsFresh(<<u, n>>)}

ForgotPassword(u) ==
  /\ Exists(u) /\ account[u].active /\ account[u].source = "Local"
  /\ \E l \in NewLink(u) : Begin([Txn(u, account[u]) EXCEPT !.spends = Voided(u), !.issues = {l}])
  /\ UNCHANGED forms

ResetPassword(l) ==
  /\ account[l[1]].active
  /\ Begin([Resets(l[1], Unlocked(account[l[1]])) EXCEPT !.spends = {l}])
  /\ UNCHANGED forms

\* reset_local_admin, on the server: also a deactivated administrator.
Recover(u) ==
  /\ account[u].role = "admin"
  /\ Cardinality(inflight) < MaxInFlight /\ left.requests > 0
  /\ LET t == Resets(u, [Unlocked(account[u]) EXCEPT !.active = TRUE])
     IN  inflight' = inflight \cup {t} /\ resets' = Counted(t)
  /\ raced' = raced \cup {u}
  /\ left' = [left EXCEPT !.requests = @ - 1]
  /\ UNCHANGED <<account, sessions, links, role, forms, approved, removals>>

-----------------------------------------------------------------------------
(* Administration.                                                         *)

\* The roles that count for u: its own, their parents and so on, as far as they are active.
ActiveRoles == {r \in Roles : role[r].active}
Parents(R) == {role[r].parent : r \in R} \cap ActiveRoles
\* No chain of parents is longer than there are roles.
Effective(R) ==
  LET visited[n \in Nat] == IF n = 0 THEN R ELSE visited[n - 1] \cup Parents(visited[n - 1])
  IN  visited[Cardinality(Roles)]

HasAdministrationAccess(u) ==
  \/ account[u].role = "admin"
  \/ \E r \in Effective(account[u].roles \cap ActiveRoles) : role[r].administers

\* get_current_session and require_roles(ADMIN).
SignedIn == {u \in {s.user : s \in sessions} : account[u].active}
Administrators == {u \in SignedIn : HasAdministrationAccess(u)}

\* Mutant of OtherAdmins: the account itself is counted too.
AllAdmins(u) == {o \in Users : IsAdmin(o)}

\* admin_count with exclude_id.
OtherAdmins(u) == {o \in Users \ {u} : IsAdmin(o)}

\* The last active administrator keeps role and access.
KeepsAdministrator(u, newRole, newActive) ==
  account[u].role = "admin" /\ OtherAdmins(u) = {} => newRole = "admin" /\ newActive

\* Mutant of Bumped: the version stays.
BumpedNot(row) == row

Bumped(row) == [row EXCEPT !.version = @ + 1]

\* Of the roles an account is given, the active ones count; at most one here.
Assignable == {{}} \cup {{r} : r \in ActiveRoles}

CreateUser(u) ==
  /\ Administrators # {}
  /\ ~Exists(u)
  /\ \E r \in {"end_user", "admin"}, R \in Assignable :
       Begin(Txn(u, [account[u] EXCEPT !.role = r, !.password = TRUE, !.roles = R]))
  /\ UNCHANGED forms

\* An administrator opens an account to edit it.
LoadForm(u) ==
  /\ Administrators # {}
  /\ Exists(u) /\ forms = {}
  /\ forms' = {[user |-> u, version |-> account[u].version, role |-> account[u].role, active |-> account[u].active]}
  /\ UNCHANGED <<account, sessions, links, role, approved, inflight, raced, resets, removals, left>>

\* update_user with the version of the form.
UpdateUser(f) ==
  LET u == f.user IN
  /\ Administrators # {}
  /\ forms' = forms \ {f}
  /\ IF f.version # account[u].version
     THEN UNCHANGED <<account, sessions, links, role, approved, inflight, raced, resets, removals, left>>
     ELSE \E r \in {"end_user", "admin"}, a \in BOOLEAN, R \in Assignable \cup {account[u].roles} :
            /\ KeepsAdministrator(u, r, a)
            /\ Begin([Txn(u, [Bumped(account[u]) EXCEPT !.role = r, !.active = a, !.roles = R]) EXCEPT !.form = f])

DeactivateUser(u) ==
  /\ Exists(u) /\ account[u].active
  /\ Administrators \ {u} # {}
  /\ KeepsAdministrator(u, account[u].role, FALSE)
  /\ Begin(Dropping(Txn(u, [Bumped(account[u]) EXCEPT !.active = FALSE]), u))
  /\ UNCHANGED forms

RevokeSessions(u) ==
  /\ Administrators # {}
  /\ \E s \in sessions : s.user = u
  /\ Begin(Dropping(Txn(u, account[u]), u))
  /\ UNCHANGED forms

ResetUserPassword(u) ==
  /\ Administrators # {}
  /\ Exists(u) /\ account[u].source = "Local"
  /\ Begin(Resets(u, Bumped(account[u])))
  /\ UNCHANGED forms

ForcePasswordChange(u) ==
  /\ Administrators # {}
  /\ Exists(u) /\ account[u].source = "Local"
  /\ Begin(Txn(u, Bumped(account[u])))
  /\ UNCHANGED forms

\* A step of administration that is done when it is decided.
AtOnce ==
  /\ Administrators # {}
  /\ left.requests > 0 /\ left' = [left EXCEPT !.requests = @ - 1]
  /\ UNCHANGED <<account, sessions, links, forms, inflight, raced, resets, removals>>

\* Custom roles are edited, archived and taken back; that the parents lead to no cycle is not looked at.
EditRole(r) ==
  /\ AtOnce
  /\ \/ \E p \in Roles \cup {None} : role' = [role EXCEPT ![r].parent = p]
     \/ role' = [role EXCEPT ![r].administers = ~@]
     \/ role' = [role EXCEPT ![r].active = ~@]
  /\ UNCHANGED approved

\* The connection of the tenant is enabled or taken out.
Approve ==
  /\ AtOnce
  /\ approved' = ~approved
  /\ UNCHANGED role

AccountsNext ==
  \/ \E t \in inflight : Commit(t)
  \/ \E u \in Users :
       \/ Login(u) \/ LoginFails(u) \/ LockPasses(u)
       \/ ForgotPassword(u) \/ Recover(u)
       \/ CreateUser(u) \/ LoadForm(u) \/ DeactivateUser(u) \/ RevokeSessions(u)
       \/ ResetUserPassword(u) \/ ForcePasswordChange(u)
  \/ \E i \in Identities : MicrosoftSignIn(i)
  \/ \E s \in sessions : Logout(s) \/ ChangePassword(s)
  \/ \E l \in links : ResetPassword(l)
  \/ \E f \in forms : UpdateUser(f)
  \/ \E r \in Roles : EditRole(r)
  \/ Expire \/ Approve

AccountsSpec == AccountsInit /\ [][AccountsNext]_accountVars

-----------------------------------------------------------------------------
(* Properties.                                                             *)

\* However accounts are edited, deactivated and recovered, and whoever administers, an
\* active administrator is left, except where two removals overlapped: each then counts
\* the other.
AdministratorRemains ==
  removals \/ \E u \in Users : IsAdmin(u)

\* A session that is on record when a reset of the password begins does not outlive it,
\* whether an administrator, a link or the recovery program resets it, and whatever the
\* account or others do at the same time.  Only a sign-in that overlaps the reset, and so
\* has read the account before the reset was committed, is left with its session.
SessionsEndWithPassword ==
  \A s \in sessions : s.after >= resets[s.user].done

\* What an administrator saves replaces the role and the access that the form showed,
\* except where something overlapped the save, or a recovery came between.
SavedOverSeen ==
  [][\A t \in inflight \ inflight' :
       t.form = None \/ t.user \in raced
         \/ (account[t.user].role = t.form.role /\ account[t.user].active = t.form.active)]_accountVars
=============================================================================
