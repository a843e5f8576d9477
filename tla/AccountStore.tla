---------------------------- MODULE AccountStore ----------------------------
(***************************************************************************)
(* Accounts and sessions of one workspace in PostgreSQL                    *)
(* (packages/identity/src/rick_identity/postgres.py and provider.py,       *)
(* apps/api/src/services/postgres_identity.py).                            *)
(*                                                                         *)
(* A transaction is a few steps: it takes locks, reads, and then writes    *)
(* and commits at once.  Administrators' transactions share an advisory    *)
(* lock; a password recovery does not take it.  A login reads the account  *)
(* in one transaction and stores its session in another.  An account is a  *)
(* row of rick_users (password, versions) joined with one of               *)
(* rick_memberships (role, status).  Sessions do not expire here, and      *)
(* hashes, permissions and the audit rows of the mutations are left out.   *)
(***************************************************************************)
EXTENDS Integers, FiniteSets

CONSTANTS
    Accounts,      \* user ids
    Admins,        \* those of the bootstrap administrators
    Slots,         \* logins at a time; a revoked session frees its slot
    Backends,      \* database connections that run transactions
    SnapshotReads, \* a statement that waits for a lock keeps what it read before
    MaxPasswords,  \* passwords an account may have had
    MaxRoleVersion \* bound of role_version

ASSUME AccountAssumption ==
    /\ Admins \subseteq Accounts /\ Admins # {}
    /\ SnapshotReads \in BOOLEAN
    /\ MaxPasswords \in Nat \ {0} /\ MaxRoleVersion \in Nat \ {0}

VARIABLES
    account,       \* the accounts
    passwords,     \* how many passwords each account has been given
    session,       \* the logins and their sessions
    recovery,      \* accounts with an unused recovery token
    txn            \* the transactions under way

accountVars == <<account, passwords, session, recovery, txn>>

-----------------------------------------------------------------------------
(* State *)

Roles == {"PLATFORM_ADMIN", "VETERINARIAN"}

(* `password` tells the passwords of an account apart.                     *)
Account == [status : {"absent", "active", "disabled"}, role : Roles, password : 0..MaxPasswords,
            password_version : 0..MaxPasswords, role_version : 0..MaxRoleVersion]
Absent == [status |-> "absent", role |-> "VETERINARIAN", password |-> 0,
           password_version |-> 0, role_version |-> 0]
Created(role) == [status |-> "active", role |-> role, password |-> 1,
                  password_version |-> 1, role_version |-> 1]

(* A login that has verified the password, or a session, with what it      *)
(* captured of its account.                                                *)
NoSession == [stage |-> "free"]
Session == [stage : {"verified", "open"}, user : Accounts, seen : Account]

AdminOps == {"create", "update", "deactivate", "reset", "grant"}
NoTxn == [pc |-> "idle", locks |-> {}]
Txn == [pc : {"begun", "waiting", "held"}, op : AdminOps \cup {"recover"}, user : Accounts,
        role : Roles, read : Account, locks : SUBSET {"admin", "user", "member", "token"}]

AccountTypeOK ==
    /\ account \in [Accounts -> Account]
    /\ passwords \in [Accounts -> 0..MaxPasswords]
    /\ session \in [Slots -> Session \cup {NoSession}]
    /\ recovery \subseteq Accounts
    /\ txn \in [Backends -> Txn \cup {NoTxn}]

AccountInit ==
    /\ account = [u \in Accounts |-> IF u \in Admins THEN Created("PLATFORM_ADMIN") ELSE Absent]
    /\ passwords = [u \in Accounts |-> account[u].password]
    /\ session = [s \in Slots |-> NoSession]
    /\ recovery = {}
    /\ txn = [b \in Backends |-> NoTxn]

-----------------------------------------------------------------------------
(* Sessions *)

Exists(u) == account[u].status # "absent"

(* login: the account, read by email, has to be active.                    *)
VerifyLogin(s, u) ==
    /\ session[s] = NoSession
    /\ account[u].status = "active"
    /\ session' = [session EXCEPT ![s] = [stage |-> "verified", user |-> u, seen |-> account[u]]]
    /\ UNCHANGED <<account, passwords, recovery, txn>>

(* Row locks on an account, of rick_users and of rick_memberships.         *)
Locked(lock, u) == \E b \in Backends : lock \in txn[b].locks /\ txn[b].user = u

(* PostgresSessionStore.create: the foreign key waits for the membership.  *)
CreateSession(s) ==
    /\ session[s].stage = "verified"
    /\ ~Locked("member", session[s].user)
    /\ session' = [session EXCEPT ![s].stage = "open"]
    /\ UNCHANGED <<account, passwords, recovery, txn>>

(* validate_session: the session, then the account as it is now.           *)
ValidSession(s) ==
    /\ session[s].stage = "open"
    /\ LET user == account[session[s].user]
           seen == session[s].seen
       IN /\ user.status = "active"
          /\ user.password_version = seen.password_version
          /\ user.role_version = seen.role_version
          /\ user.role = seen.role

(* logout and revoke_session_by_id.                                        *)
RevokeSession(s) ==
    /\ session[s].stage = "open"
    /\ session' = [session EXCEPT ![s] = NoSession]
    /\ UNCHANGED <<account, passwords, recovery, txn>>

(* revoke_user: what the sessions of u are afterwards.                     *)
Revoked(u) ==
    [s \in Slots |-> IF session[s].stage = "open" /\ session[s].user = u THEN NoSession ELSE session[s]]

RevokeUser(u) ==
    /\ \E s \in Slots : session[s].stage = "open" /\ session[s].user = u
    /\ session' = Revoked(u)
    /\ UNCHANGED <<account, passwords, recovery, txn>>

-----------------------------------------------------------------------------
(* Transactions of administrators *)

(* Mutant: the transactions of administrators overlap.                     *)
AdminLockFreeAlways == TRUE

(* pg_advisory_xact_lock("rick.identity.admin", tenant).                   *)
AdminLockFree == \A b \in Backends : "admin" \notin txn[b].locks

(* The actor's session was valid when the request arrived.                 *)
BeginAdmin(b, op, u, role) ==
    /\ txn[b] = NoTxn
    /\ op \in {"create", "update"} \/ role = "VETERINARIAN"
    /\ \E s \in Slots : ValidSession(s) /\ session[s].seen.role = "PLATFORM_ADMIN"
    /\ AdminLockFree
    /\ txn' = [txn EXCEPT ![b] = [pc |-> "begun", op |-> op, user |-> u, role |-> role,
                                  read |-> Absent, locks |-> {"admin"}]]
    /\ UNCHANGED <<account, passwords, session, recovery>>

ActiveAdmins == {u \in Accounts : account[u].status = "active" /\ account[u].role = "PLATFORM_ADMIN"}

(* _active_platform_admin and count_active_platform_admins.                *)
LastAdmin(u) == ActiveAdmins = {u}

(* The checks of a transaction on what it has read.                        *)
MayProceed(t) ==
    CASE t.op = "create"     -> ~Exists(t.user)
      [] t.op = "update"     -> Exists(t.user) /\ (t.role # account[t.user].role => ~LastAdmin(t.user))
      [] t.op = "deactivate" -> Exists(t.user) /\ ~LastAdmin(t.user)
      [] OTHER               -> Exists(t.user)

(* update and reset lock the row of rick_users before they read it; grant  *)
(* reads with a statement that goes on to wait for the membership.         *)
ReadAccount(b) ==
    LET t == txn[b] IN
    /\ t.pc = "begun"
    /\ MayProceed(t)
    /\ t.op \in {"update", "reset"} => ~Locked("user", t.user)
    /\ txn' = [txn EXCEPT ![b].read = account[t.user],
                          ![b].pc = IF t.op = "grant" THEN "waiting" ELSE "held",
                          ![b].locks = @ \cup (IF t.op \in {"update", "reset"} THEN {"user"} ELSE {})]
    /\ UNCHANGED <<account, passwords, session, recovery>>

-----------------------------------------------------------------------------
(* Password recovery *)

(* issue_password_reset *)
IssueReset(u) ==
    /\ account[u].status = "active"
    /\ recovery' = recovery \cup {u}
    /\ UNCHANGED <<account, passwords, session, txn>>

(* consume_password_reset: the token, the row of rick_users, ...           *)
BeginRecovery(b, u) ==
    /\ txn[b] = NoTxn
    /\ u \in recovery
    /\ ~Locked("token", u) /\ ~Locked("user", u)
    /\ txn' = [txn EXCEPT ![b] = [pc |-> "waiting", op |-> "recover", user |-> u, role |-> "VETERINARIAN",
                                  read |-> Absent, locks |-> {"token", "user"}]]
    /\ UNCHANGED <<account, passwords, session, recovery>>

(* ... and the membership.  The wait of a grant is inside the statement    *)
(* that has read the account: the row of rick_users stays as it was read,  *)
(* the locked membership is read again.                                    *)
LockMember(b) ==
    LET t == txn[b]
        now == account[t.user]
    IN  /\ t.pc = "waiting"
        /\ ~Locked("member", t.user)
        /\ t.op = "recover" => now.status = "active"
        /\ txn' = [txn EXCEPT ![b].pc = "held", ![b].locks = @ \cup {"member"},
                              ![b].read = IF SnapshotReads /\ t.op = "grant"
                                          THEN [t.read EXCEPT !.status = now.status, !.role = now.role]
                                          ELSE now]
        /\ UNCHANGED <<account, passwords, session, recovery>>

-----------------------------------------------------------------------------
(* Commit and rollback *)

(* Mutant: the new password keeps the version of the old one.              *)
RepasswordedSilently(read, password) == [read EXCEPT !.password = password]

Repassworded(read, password) ==
    [read EXCEPT !.password = password, !.password_version = @ + 1]

(* save of the whole record that was read, update_membership_status or     *)
(* update_password_credentials.  An update of permissions or collections   *)
(* raises role_version as a grant does.                                    *)
Written(t) ==
    LET now == account[t.user]
        next == passwords[t.user] + 1
    IN  CASE t.op = "create"     -> Created(t.role)
          [] t.op = "update"     -> IF t.role = t.read.role THEN t.read
                                    ELSE [t.read EXCEPT !.role = t.role, !.role_version = @ + 1]
          [] t.op = "deactivate" -> [now EXCEPT !.status = "disabled"]
          [] t.op = "reset"      -> Repassworded(t.read, next)
          [] t.op = "grant"      -> [t.read EXCEPT !.role_version = @ + 1]
          [] t.op = "recover"    -> Repassworded(now, next)

(* A write waits for the row locks of others.                              *)
FreeFor(b, lock) == \A c \in Backends \ {b} : ~(lock \in txn[c].locks /\ txn[c].user = txn[b].user)

Commit(b) ==
    LET t == txn[b]
        repasswords == t.op \in {"reset", "recover"}
    IN  /\ t.pc = "held"
        /\ FreeFor(b, "member")
        /\ t.op # "deactivate" => FreeFor(b, "user")
        /\ repasswords => passwords[t.user] < MaxPasswords
        /\ t.op \in {"update", "grant"} => t.read.role_version < MaxRoleVersion
        /\ account' = [account EXCEPT ![t.user] = Written(t)]
        /\ passwords' = IF t.op = "create" \/ repasswords THEN [passwords EXCEPT ![t.user] = @ + 1] ELSE passwords
        /\ session' = IF repasswords \/ t.op = "deactivate" THEN Revoked(t.user) ELSE session
        /\ recovery' = IF t.op = "recover" THEN recovery \ {t.user} ELSE recovery
        /\ txn' = [txn EXCEPT ![b] = NoTxn]

(* Refused, failed, or chosen by the database to end a deadlock.           *)
Rollback(b) ==
    /\ txn[b] # NoTxn
    /\ txn' = [txn EXCEPT ![b] = NoTxn]
    /\ UNCHANGED <<account, passwords, session, recovery>>

-----------------------------------------------------------------------------
(* The specification *)

AccountNext ==
    \/ \E s \in Slots :
          \/ \E u \in Accounts : VerifyLogin(s, u)
          \/ CreateSession(s)
          \/ RevokeSession(s)
    \/ \E u \in Accounts : RevokeUser(u) \/ IssueReset(u)
    \/ \E b \in Backends :
          \/ \E op \in AdminOps, u \in Accounts, role \in Roles : BeginAdmin(b, op, u, role)
          \/ ReadAccount(b)
          \/ \E u \in Accounts : BeginRecovery(b, u)
          \/ LockMember(b)
          \/ Commit(b)
          \/ Rollback(b)

AccountSpec == AccountInit /\ [][AccountNext]_accountVars

-----------------------------------------------------------------------------
(* Properties *)

(* Two administrators who demote or disable each other, or themselves, at  *)
(* the same time never leave the workspace without one (_admin_transaction:*)
(* "two simultaneous requests cannot both remove the last active           *)
(* administrator").                                                        *)
AdminRemains == ActiveAdmins # {}

(* A session that validates was opened with the present password, even one *)
(* whose login had verified the former password before it was changed and  *)
(* stored its session after the change had revoked all of them.            *)
SessionsKnowPassword ==
    \A s \in Slots : ValidSession(s) => session[s].seen.password = account[session[s].user].password

(* A password that was replaced does not come back: "recovery cannot be    *)
(* undone by a stale full-row snapshot" (admin_update_user).               *)
PasswordStaysReplaced ==
    [][\A u \in Accounts : account'[u].password >= account[u].password]_accountVars
=============================================================================
