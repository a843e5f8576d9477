---------------------------- MODULE AccountProofs ----------------------------
(***************************************************************************)
(* Proofs about AccountStore for any accounts, logins and connections.     *)
(*                                                                         *)
(* What an administrator's transaction has checked or read stays true      *)
(* until it commits: the advisory lock keeps other administrators out, and *)
(* the row locks keep recoveries away from the rows that are written back. *)
(* A grant may write back an old password; it raises role_version as it    *)
(* does, which is why no session outlives it.                              *)
(***************************************************************************)
EXTENDS AccountStore, TLAPS

(* The passwords of account u.                                             *)
PasswordsInv(u) ==
    /\ account[u].password <= passwords[u]
    /\ account[u].password_version <= passwords[u]
    /\ ~Exists(u) => account[u] = Absent /\ passwords[u] = 0

(* No two transactions hold the same lock.                                 *)
LocksInv ==
    \A b, c \in Backends :
       \/ b = c
       \/ ~("admin" \in txn[b].locks /\ "admin" \in txn[c].locks)
          /\ \A lock \in {"user", "member"} :
                ~(lock \in txn[b].locks /\ lock \in txn[c].locks /\ txn[b].user = txn[c].user)

(* The locks that transaction t holds.                                     *)
HoldsInv(t) ==
    /\ t.op \in AdminOps <=> "admin" \in t.locks
    /\ t.pc = "waiting" => t.op \in {"grant", "recover"}
    /\ t.op = "recover" => t.pc # "begun" /\ "user" \in t.locks
    /\ t.pc = "held" /\ t.op \in {"update", "reset"} => "user" \in t.locks
    /\ t.pc = "held" /\ t.op \in {"grant", "recover"} => "member" \in t.locks

(* What transaction t knows of account row a of its user, of which there   *)
(* have been n passwords.                                                  *)
KnowsInv(t, a, n) ==
    /\ t.read.password_version <= n /\ t.read.password <= n
    /\ (t.pc = "held" /\ t.op # "create") \/ (t.pc = "waiting" /\ t.op = "grant") => a.status # "absent"
    /\ t.pc # "begun" /\ t.op \in AdminOps =>
          /\ t.read.status = a.status /\ t.read.role = a.role /\ t.read.role_version = a.role_version
          /\ t.op = "create" => a.status = "absent"
          /\ t.op \in {"update", "reset"} => t.read = a
          /\ t.pc = "held" /\ t.op = "grant" /\ ~SnapshotReads => t.read = a

(* It does not remove the last administrator.                              *)
SparesInv(t) ==
    t.pc = "held" /\ (t.op = "deactivate" \/ (t.op = "update" /\ t.role # t.read.role)) => ~LastAdmin(t.user)

TxnInv(b) ==
    txn[b] # NoTxn =>
       /\ HoldsInv(txn[b])
       /\ KnowsInv(txn[b], account[txn[b].user], passwords[txn[b].user])
       /\ SparesInv(txn[b])

(* What login or session x saw of account row a.                           *)
SeenInv(x, a) ==
    /\ a.status # "absent"
    /\ x.seen.role_version <= a.role_version
    /\ x.seen.role_version = a.role_version =>
          /\ x.seen.password_version <= a.password_version
          /\ x.seen.password_version = a.password_version => x.seen.password = a.password

SessionInv(s) == session[s] # NoSession => SeenInv(session[s], account[session[s].user])

AccountInv ==
    /\ AccountTypeOK
    /\ AdminRemains
    /\ \A u \in Accounts : PasswordsInv(u)
    /\ LocksInv
    /\ \A b \in Backends : TxnInv(b)
    /\ \A s \in Slots : SessionInv(s)

-----------------------------------------------------------------------------
(* The values that accounts, transactions and sessions take *)

LEMMA Bounds ==
    /\ MaxPasswords \in Nat /\ MaxRoleVersion \in Nat
    /\ 0 \in 0..MaxPasswords /\ 1 \in 0..MaxPasswords
    /\ 0 \in 0..MaxRoleVersion /\ 1 \in 0..MaxRoleVersion
BY AccountAssumption

LEMMA AccountFields ==
    ASSUME NEW a \in Account
    PROVE  /\ a.status \in {"absent", "active", "disabled"} /\ a.role \in Roles
           /\ a.password \in 0..MaxPasswords /\ a.password_version \in 0..MaxPasswords
           /\ a.role_version \in 0..MaxRoleVersion
BY Zenon DEF Account

LEMMA AccountValues ==
    /\ Absent \in Account
    /\ \A role \in Roles : Created(role) \in Account
BY Bounds, Zenon DEF Account, Absent, Created, Roles

(* The forms in which an account changes, and its fields then.             *)
LEMMA AccountChanges ==
    ASSUME NEW a \in Account, NEW status \in {"absent", "active", "disabled"}, NEW role \in Roles,
           NEW p \in 0..MaxPasswords, NEW v \in 0..MaxPasswords, NEW r \in 0..MaxRoleVersion
    PROVE  /\ [a EXCEPT !.status = status] \in Account
           /\ [a EXCEPT !.status = status, !.role = role] \in Account
           /\ [a EXCEPT !.password = p, !.password_version = v] \in Account
           /\ [a EXCEPT !.role = role, !.role_version = r] \in Account
           /\ [a EXCEPT !.role_version = r] \in Account
BY Zenon DEF Account

LEMMA AccountChanged ==
    ASSUME NEW a \in Account, NEW status, NEW role, NEW p, NEW v, NEW r
    PROVE  /\ LET d == [a EXCEPT !.status = status]
              IN  /\ d.status = status /\ d.role = a.role /\ d.password = a.password
                  /\ d.password_version = a.password_version /\ d.role_version = a.role_version
           /\ LET d == [a EXCEPT !.status = status, !.role = role]
              IN  /\ d.status = status /\ d.role = role /\ d.password = a.password
                  /\ d.password_version = a.password_version /\ d.role_version = a.role_version
           /\ LET d == [a EXCEPT !.password = p, !.password_version = v]
              IN  /\ d.status = a.status /\ d.role = a.role /\ d.password = p
                  /\ d.password_version = v /\ d.role_version = a.role_version
           /\ LET d == [a EXCEPT !.role = role, !.role_version = r]
              IN  /\ d.status = a.status /\ d.role = role /\ d.password = a.password
                  /\ d.password_version = a.password_version /\ d.role_version = r
           /\ LET d == [a EXCEPT !.role_version = r]
              IN  /\ d.status = a.status /\ d.role = a.role /\ d.password = a.password
                  /\ d.password_version = a.password_version /\ d.role_version = r
BY Zenon DEF Account

Pcs == {"begun", "waiting", "held"}
Locks == SUBSET {"admin", "user", "member", "token"}

LEMMA TxnRecords ==
    ASSUME NEW pc \in Pcs, NEW op \in AdminOps \cup {"recover"}, NEW user \in Accounts,
           NEW role \in Roles, NEW read \in Account, NEW locks \in Locks
    PROVE  [pc |-> pc, op |-> op, user |-> user, role |-> role, read |-> read, locks |-> locks] \in Txn
BY Zenon DEF Txn, Pcs, Locks

LEMMA TxnFields ==
    ASSUME NEW t \in Txn
    PROVE  /\ t.pc \in Pcs /\ t.op \in AdminOps \cup {"recover"} /\ t.user \in Accounts
           /\ t.role \in Roles /\ t.read \in Account /\ t.locks \in Locks
           /\ t # NoTxn
<1>1. /\ t.pc \in Pcs /\ t.op \in AdminOps \cup {"recover"} /\ t.user \in Accounts
      /\ t.role \in Roles /\ t.read \in Account /\ t.locks \in Locks
  BY Zenon DEF Txn, Pcs, Locks
<1>2. t # NoTxn
  BY <1>1 DEF Pcs, NoTxn
<1> QED
  BY <1>1, <1>2

LEMMA TxnChanges ==
    ASSUME NEW t \in Txn, NEW pc \in Pcs, NEW read \in Account, NEW locks \in Locks
    PROVE  /\ [t EXCEPT !.read = read, !.pc = pc, !.locks = locks] \in Txn
           /\ [t EXCEPT !.pc = pc, !.locks = locks, !.read = read] \in Txn
BY Zenon DEF Txn, Pcs, Locks

LEMMA TxnChanged ==
    ASSUME NEW t \in Txn, NEW pc, NEW read, NEW locks
    PROVE  /\ LET d == [t EXCEPT !.read = read, !.pc = pc, !.locks = locks]
              IN  /\ d.pc = pc /\ d.op = t.op /\ d.user = t.user /\ d.role = t.role
                  /\ d.read = read /\ d.locks = locks
           /\ LET d == [t EXCEPT !.pc = pc, !.locks = locks, !.read = read]
              IN  /\ d.pc = pc /\ d.op = t.op /\ d.user = t.user /\ d.role = t.role
                  /\ d.read = read /\ d.locks = locks
BY Zenon DEF Txn

LEMMA SessionFields ==
    ASSUME NEW x \in Session
    PROVE  /\ x.stage \in {"verified", "open"} /\ x.user \in Accounts /\ x.seen \in Account
           /\ x # NoSession
           /\ [x EXCEPT !.stage = "open"] \in Session
           /\ [x EXCEPT !.stage = "open"].user = x.user /\ [x EXCEPT !.stage = "open"].seen = x.seen
BY DEF Session, NoSession

(* A transaction under way.                                                *)
LEMMA Under ==
    ASSUME AccountTypeOK, NEW b \in Backends, txn[b].pc # "idle" \/ txn[b].locks # {}
    PROVE  txn[b] \in Txn /\ txn[b] # NoTxn
BY TxnFields DEF AccountTypeOK, NoTxn

-----------------------------------------------------------------------------
(* Steps that leave the accounts alone *)

LEMMA TxnMoves ==
    ASSUME AccountInv, NEW b \in Backends, NEW X \in Txn \cup {NoTxn},
           txn' = [txn EXCEPT ![b] = X], UNCHANGED <<account, passwords, session, recovery>>,
           X # NoTxn => /\ HoldsInv(X)
                        /\ KnowsInv(X, account[X.user], passwords[X.user])
                        /\ SparesInv(X),
           \A c \in Backends : c # b =>
              /\ ~("admin" \in X.locks /\ "admin" \in txn[c].locks)
              /\ \A lock \in {"user", "member"} :
                    ~(lock \in X.locks /\ lock \in txn[c].locks /\ X.user = txn[c].user)
    PROVE  AccountInv'
<1>1. txn'[b] = X /\ \A c \in Backends : c # b => txn'[c] = txn[c]
  BY DEF AccountInv, AccountTypeOK
<1>2. AccountTypeOK'
  BY DEF AccountInv, AccountTypeOK
<1>3. AdminRemains' /\ \A u \in Accounts : PasswordsInv(u)'
  BY DEF AccountInv, AdminRemains, ActiveAdmins, PasswordsInv, Exists
<1>4. LocksInv'
  BY <1>1 DEF AccountInv, LocksInv
<1>5. ASSUME NEW c \in Backends PROVE TxnInv(c)'
  <2>1. CASE c = b
    BY <1>1, <2>1 DEF TxnInv, SparesInv, LastAdmin, ActiveAdmins
  <2>2. CASE c # b
    BY <1>1, <2>2 DEF AccountInv, TxnInv, SparesInv, LastAdmin, ActiveAdmins
  <2> QED
    BY <2>1, <2>2
<1>6. \A s \in Slots : SessionInv(s)'
  BY DEF AccountInv, SessionInv
<1> QED
  BY <1>2, <1>3, <1>4, <1>5, <1>6 DEF AccountInv

LEMMA SessionMoves ==
    ASSUME AccountInv, session' \in [Slots -> Session \cup {NoSession}],
           \A s \in Slots : session'[s] # NoSession => SeenInv(session'[s], account[session'[s].user]),
           recovery' \subseteq Accounts, UNCHANGED <<account, passwords, txn>>
    PROVE  AccountInv'
<1>1. AccountTypeOK'
  BY DEF AccountInv, AccountTypeOK
<1>2. AdminRemains' /\ (\A u \in Accounts : PasswordsInv(u)') /\ LocksInv'
  BY DEF AccountInv, AdminRemains, ActiveAdmins, PasswordsInv, Exists, LocksInv
<1>3. \A b \in Backends : TxnInv(b)'
  BY DEF AccountInv, TxnInv, SparesInv, LastAdmin, ActiveAdmins
<1>4. \A s \in Slots : SessionInv(s)'
  BY DEF SessionInv
<1> QED
  BY <1>1, <1>2, <1>3, <1>4 DEF AccountInv

LEMMA SessionSteps ==
    ASSUME AccountInv,
           \/ \E s \in Slots : (\E u \in Accounts : VerifyLogin(s, u)) \/ CreateSession(s) \/ RevokeSession(s)
           \/ \E u \in Accounts : RevokeUser(u) \/ IssueReset(u)
    PROVE  AccountInv'
<1>1. /\ \A s \in Slots : session[s] # NoSession => SeenInv(session[s], account[session[s].user])
      /\ session \in [Slots -> Session \cup {NoSession}] /\ recovery \subseteq Accounts
      /\ account \in [Accounts -> Account]
  BY DEF AccountInv, AccountTypeOK, SessionInv
<1>2. ASSUME NEW s \in Slots, NEW u \in Accounts, VerifyLogin(s, u) PROVE AccountInv'
  <2> DEFINE x == [stage |-> "verified", user |-> u, seen |-> account[u]]
  <2>1. x \in Session /\ x.user = u /\ x.seen = account[u]
    BY <1>1 DEF Session
  <2>2. session' = [session EXCEPT ![s] = x] /\ account[u].status = "active"
    BY <1>2 DEF VerifyLogin
  <2>3. account[u].password_version \in Int /\ account[u].role_version \in Int
    BY <1>1, AccountFields
  <2> HIDE DEF x
  <2>4. SeenInv(x, account[x.user])
    BY <2>1, <2>2, <2>3 DEF SeenInv
  <2>5. session'[s] = x /\ \A r \in Slots : r # s => session'[r] = session[r]
    BY <1>1, <2>2
  <2>6. session' \in [Slots -> Session \cup {NoSession}]
    BY <1>1, <2>1, <2>2
  <2>7. UNCHANGED <<account, passwords, txn>> /\ recovery' \subseteq Accounts
    BY <1>1, <1>2 DEF VerifyLogin
  <2> QED
    BY <1>1, <2>4, <2>5, <2>6, <2>7, SessionMoves
<1>3. ASSUME NEW s \in Slots, CreateSession(s) PROVE AccountInv'
  <2> DEFINE x == [session[s] EXCEPT !.stage = "open"]
  <2>1. session[s] \in Session
    BY <1>1, <1>3 DEF CreateSession, NoSession
  <2>2. x \in Session /\ x.user = session[s].user /\ x.seen = session[s].seen /\ session[s] # NoSession
    BY <2>1, SessionFields
  <2>3. session' = [session EXCEPT ![s] = x]
    BY <1>3 DEF CreateSession
  <2> HIDE DEF x
  <2>4. SeenInv(x, account[x.user])
    BY <1>1, <2>2 DEF SeenInv
  <2>5. session'[s] = x /\ \A r \in Slots : r # s => session'[r] = session[r]
    BY <1>1, <2>3
  <2>6. session' \in [Slots -> Session \cup {NoSession}]
    BY <1>1, <2>2, <2>3
  <2>7. UNCHANGED <<account, passwords, txn>> /\ recovery' \subseteq Accounts
    BY <1>1, <1>3 DEF CreateSession
  <2> QED
    BY <1>1, <2>4, <2>5, <2>6, <2>7, SessionMoves
<1>4. ASSUME NEW s \in Slots, RevokeSession(s) PROVE AccountInv'
  <2>1. /\ session' \in [Slots -> Session \cup {NoSession}]
        /\ \A r \in Slots : session'[r] \in {NoSession, session[r]}
    BY <1>1, <1>4 DEF RevokeSession
  <2>2. UNCHANGED <<account, passwords, txn>> /\ recovery' \subseteq Accounts
    BY <1>1, <1>4 DEF RevokeSession
  <2> QED
    BY <1>1, <2>1, <2>2, SessionMoves
<1>5. ASSUME NEW u \in Accounts, RevokeUser(u) PROVE AccountInv'
  <2>1. /\ session' \in [Slots -> Session \cup {NoSession}]
        /\ \A r \in Slots : session'[r] \in {NoSession, session[r]}
    BY <1>1, <1>5 DEF RevokeUser, Revoked
  <2>2. UNCHANGED <<account, passwords, txn>> /\ recovery' \subseteq Accounts
    BY <1>1, <1>5 DEF RevokeUser
  <2> QED
    BY <1>1, <2>1, <2>2, SessionMoves
<1>6. ASSUME NEW u \in Accounts, IssueReset(u) PROVE AccountInv'
  <2>1. UNCHANGED <<account, passwords, session, txn>> /\ recovery' \subseteq Accounts
    BY <1>1, <1>6 DEF IssueReset
  <2> QED
    BY <1>1, <2>1, SessionMoves
<1> QED
  BY <1>2, <1>3, <1>4, <1>5, <1>6

-----------------------------------------------------------------------------
(* Transactions *)

(* A transaction that has just begun knows nothing.                        *)
LEMMA BegunFits ==
    ASSUME AccountInv, NEW u \in Accounts, NEW op \in AdminOps, NEW role \in Roles
    PROVE  LET X == [pc |-> "begun", op |-> op, user |-> u, role |-> role,
                     read |-> Absent, locks |-> {"admin"}]
           IN  /\ X \in Txn /\ X.user = u /\ X.locks = {"admin"}
               /\ HoldsInv(X) /\ KnowsInv(X, account[u], passwords[u]) /\ SparesInv(X)
<1> DEFINE X == [pc |-> "begun", op |-> op, user |-> u, role |-> role,
                 read |-> Absent, locks |-> {"admin"}]
<1>1. X \in Txn
  <2>1. "begun" \in Pcs /\ op \in AdminOps \cup {"recover"} /\ {"admin"} \in Locks
    BY DEF Pcs, Locks
  <2> QED
    BY <2>1, AccountValues, TxnRecords
<1>2. X.pc = "begun" /\ X.op = op /\ X.user = u /\ X.locks = {"admin"} /\ X.read = Absent
  OBVIOUS
<1>3. Absent.password = 0 /\ Absent.password_version = 0 /\ passwords[u] \in Nat
  BY Bounds DEF Absent, AccountInv, AccountTypeOK
<1> HIDE DEF X
<1>4. HoldsInv(X) /\ SparesInv(X)
  BY <1>2 DEF HoldsInv, SparesInv, AdminOps
<1>5. KnowsInv(X, account[u], passwords[u])
  BY <1>2, <1>3 DEF KnowsInv
<1> QED
  BY <1>1, <1>2, <1>4, <1>5 DEF X

LEMMA BeginAdminKeeps ==
    ASSUME AccountInv, NEW b \in Backends, NEW op \in AdminOps, NEW u \in Accounts, NEW role \in Roles,
           BeginAdmin(b, op, u, role)
    PROVE  AccountInv'
<1> DEFINE X == [pc |-> "begun", op |-> op, user |-> u, role |-> role,
                 read |-> Absent, locks |-> {"admin"}]
<1>1. /\ X \in Txn /\ X.user = u /\ X.locks = {"admin"}
      /\ HoldsInv(X) /\ KnowsInv(X, account[u], passwords[u]) /\ SparesInv(X)
  BY BegunFits
<1>2. txn' = [txn EXCEPT ![b] = X] /\ UNCHANGED <<account, passwords, session, recovery>>
  BY DEF BeginAdmin
<1>3. \A c \in Backends : "admin" \notin txn[c].locks
  BY DEF BeginAdmin, AdminLockFree
<1> HIDE DEF X
<1> QED
  BY <1>1, <1>2, <1>3, TxnMoves

LEMMA BeginRecoveryKeeps ==
    ASSUME AccountInv, NEW b \in Backends, NEW u \in Accounts, BeginRecovery(b, u)
    PROVE  AccountInv'
<1> DEFINE X == [pc |-> "waiting", op |-> "recover", user |-> u, role |-> "VETERINARIAN",
                 read |-> Absent, locks |-> {"token", "user"}]
<1>1. X \in Txn
  <2>1. /\ "waiting" \in Pcs /\ "recover" \in AdminOps \cup {"recover"} /\ {"token", "user"} \in Locks
        /\ "VETERINARIAN" \in Roles
    BY DEF Pcs, Locks, Roles
  <2> QED
    BY <2>1, AccountValues, TxnRecords
<1>2. X.pc = "waiting" /\ X.op = "recover" /\ X.user = u /\ X.locks = {"token", "user"} /\ X.read = Absent
  OBVIOUS
<1>3. Absent.password = 0 /\ Absent.password_version = 0 /\ passwords[u] \in Nat
  BY Bounds DEF Absent, AccountInv, AccountTypeOK
<1>4. txn' = [txn EXCEPT ![b] = X] /\ UNCHANGED <<account, passwords, session, recovery>>
  BY DEF BeginRecovery
<1>5. \A c \in Backends : ~("user" \in txn[c].locks /\ txn[c].user = u)
  BY DEF BeginRecovery, Locked
<1> HIDE DEF X
<1>6. HoldsInv(X) /\ SparesInv(X)
  BY <1>2 DEF HoldsInv, SparesInv, AdminOps
<1>7. KnowsInv(X, account[u], passwords[u])
  BY <1>2, <1>3 DEF KnowsInv, AdminOps
<1>8. \A c \in Backends :
         /\ ~("admin" \in X.locks /\ "admin" \in txn[c].locks)
         /\ \A lock \in {"user", "member"} :
               ~(lock \in X.locks /\ lock \in txn[c].locks /\ X.user = txn[c].user)
  BY <1>2, <1>5
<1> QED
  BY <1>1, <1>2, <1>4, <1>6, <1>7, <1>8, TxnMoves

LEMMA ReadAccountKeeps ==
    ASSUME AccountInv, NEW b \in Backends, ReadAccount(b)
    PROVE  AccountInv'
<1> DEFINE t == txn[b]
           pc == IF t.op = "grant" THEN "waiting" ELSE "held"
           locks == t.locks \cup (IF t.op \in {"update", "reset"} THEN {"user"} ELSE {})
           X == [t EXCEPT !.read = account[t.user], !.pc = pc, !.locks = locks]
<1>1. /\ t.pc = "begun" /\ MayProceed(t) /\ (t.op \in {"update", "reset"} => ~Locked("user", t.user))
      /\ UNCHANGED <<account, passwords, session, recovery>>
  BY DEF ReadAccount
<1>2. t \in Txn /\ t # NoTxn
  BY <1>1, Under DEF AccountInv
<1>3. /\ t.op \in AdminOps \cup {"recover"} /\ t.user \in Accounts /\ t.locks \in Locks /\ t.role \in Roles
  BY <1>2, TxnFields
<1>4. HoldsInv(t) /\ t.op \in AdminOps
  BY <1>1, <1>2, <1>3 DEF AccountInv, TxnInv, HoldsInv
<1>5. account[t.user] \in Account /\ passwords[t.user] \in Nat
  BY <1>3, Bounds DEF AccountInv, AccountTypeOK
<1>6. txn' = [txn EXCEPT ![b] = X]
  BY DEF ReadAccount
<1>7. pc \in Pcs /\ locks \in Locks
  BY <1>3 DEF Pcs, Locks
<1> HIDE DEF pc, locks
<1>8. X \in Txn
  BY <1>2, <1>5, <1>7, TxnChanges
<1>9. /\ X.pc = pc /\ X.op = t.op /\ X.user = t.user /\ X.role = t.role
      /\ X.read = account[t.user] /\ X.locks = locks
  BY <1>2, TxnChanged
<1> HIDE DEF X
<1>10. HoldsInv(X)
  BY <1>1, <1>4, <1>9 DEF HoldsInv, AdminOps, pc, locks
<1>11. KnowsInv(X, account[X.user], passwords[X.user])
  <2>1. PasswordsInv(t.user)
    BY <1>3 DEF AccountInv
  <2>2. IF t.op = "create" THEN account[t.user].status = "absent" ELSE account[t.user].status # "absent"
    BY <1>1, <1>4 DEF MayProceed, Exists, AdminOps
  <2> QED
    BY <1>5, <1>9, <2>1, <2>2 DEF KnowsInv, PasswordsInv
<1>12. SparesInv(X)
  <2>1. /\ t.op = "deactivate" => ~LastAdmin(t.user)
        /\ t.op = "update" /\ t.role # account[t.user].role => ~LastAdmin(t.user)
    BY <1>1, <1>4 DEF MayProceed
  <2> QED
    BY <1>9, <2>1 DEF SparesInv
<1>13. ASSUME NEW c \in Backends, c # b
       PROVE  /\ ~("admin" \in X.locks /\ "admin" \in txn[c].locks)
              /\ \A lock \in {"user", "member"} :
                    ~(lock \in X.locks /\ lock \in txn[c].locks /\ X.user = txn[c].user)
  <2>1. /\ ~("admin" \in t.locks /\ "admin" \in txn[c].locks)
        /\ \A lock \in {"user", "member"} :
              ~(lock \in t.locks /\ lock \in txn[c].locks /\ t.user = txn[c].user)
    BY <1>13 DEF AccountInv, LocksInv
  <2>2. t.op \in {"update", "reset"} => ~("user" \in txn[c].locks /\ txn[c].user = t.user)
    BY <1>1 DEF Locked
  <2> QED
    BY <1>9, <2>1, <2>2 DEF locks
<1> QED
  BY <1>1, <1>6, <1>8, <1>10, <1>11, <1>12, <1>13, TxnMoves

LEMMA LockMemberKeeps ==
    ASSUME AccountInv, NEW b \in Backends, LockMember(b)
    PROVE  AccountInv'
<1> DEFINE t == txn[b]
           now == account[t.user]
           locks == t.locks \cup {"member"}
           read == IF SnapshotReads /\ t.op = "grant"
                   THEN [t.read EXCEPT !.status = now.status, !.role = now.role] ELSE now
           X == [t EXCEPT !.pc = "held", !.locks = locks, !.read = read]
<1>1. /\ t.pc = "waiting" /\ ~Locked("member", t.user) /\ (t.op = "recover" => now.status = "active")
      /\ UNCHANGED <<account, passwords, session, recovery>>
  BY DEF LockMember
<1>2. t \in Txn /\ t # NoTxn
  BY <1>1, Under DEF AccountInv
<1>3. /\ t.op \in AdminOps \cup {"recover"} /\ t.user \in Accounts /\ t.locks \in Locks /\ t.role \in Roles
      /\ t.read \in Account
  BY <1>2, TxnFields
<1>4. HoldsInv(t) /\ KnowsInv(t, now, passwords[t.user]) /\ t.op \in {"grant", "recover"}
  BY <1>1, <1>2 DEF AccountInv, TxnInv, HoldsInv
<1>5. now \in Account /\ passwords[t.user] \in Nat /\ PasswordsInv(t.user)
  BY <1>3, Bounds DEF AccountInv, AccountTypeOK
<1>6. txn' = [txn EXCEPT ![b] = X]
  BY DEF LockMember
<1>7. "held" \in Pcs /\ locks \in Locks
  BY <1>3 DEF Pcs, Locks
<1>8. /\ read \in Account
      /\ read.password <= passwords[t.user] /\ read.password_version <= passwords[t.user]
      /\ t.op = "grant" =>
           /\ read.status = now.status /\ read.role = now.role /\ read.role_version = now.role_version
           /\ ~SnapshotReads => read = now
  <2>1. CASE SnapshotReads /\ t.op = "grant"
    <3> DEFINE r == [t.read EXCEPT !.status = now.status, !.role = now.role]
    <3>1. read = r
      BY <2>1
    <3>2. now.status \in {"absent", "active", "disabled"} /\ now.role \in Roles
      BY <1>5, AccountFields
    <3>3. r \in Account
      BY <1>3, <3>2, Bounds, AccountChanges
    <3>4. /\ r.status = now.status /\ r.role = now.role /\ r.role_version = t.read.role_version
          /\ r.password = t.read.password /\ r.password_version = t.read.password_version
      BY <1>3, AccountChanged
    <3>5. /\ t.read.role_version = now.role_version
          /\ t.read.password <= passwords[t.user] /\ t.read.password_version <= passwords[t.user]
      BY <1>1, <1>4, <2>1 DEF KnowsInv, AdminOps
    <3> HIDE DEF r
    <3> QED
      BY <2>1, <3>1, <3>3, <3>4, <3>5
  <2>2. CASE ~(SnapshotReads /\ t.op = "grant")
    BY <1>5, <2>2 DEF PasswordsInv
  <2> QED
    BY <2>1, <2>2
<1> HIDE DEF locks, read
<1>9. X \in Txn
  BY <1>2, <1>7, <1>8, TxnChanges
<1>10. /\ X.pc = "held" /\ X.op = t.op /\ X.user = t.user /\ X.role = t.role
       /\ X.read = read /\ X.locks = locks
  BY <1>2, TxnChanged
<1> HIDE DEF X
<1>11. HoldsInv(X)
  BY <1>1, <1>4, <1>10 DEF HoldsInv, AdminOps, locks
<1>12. KnowsInv(X, account[X.user], passwords[X.user])
  <2>1. now.status # "absent"
    BY <1>1, <1>4 DEF KnowsInv
  <2> QED
    BY <1>4, <1>8, <1>10, <2>1 DEF KnowsInv, AdminOps
<1>13. SparesInv(X)
  BY <1>4, <1>10 DEF SparesInv
<1>14. ASSUME NEW c \in Backends, c # b
       PROVE  /\ ~("admin" \in X.locks /\ "admin" \in txn[c].locks)
              /\ \A lock \in {"user", "member"} :
                    ~(lock \in X.locks /\ lock \in txn[c].locks /\ X.user = txn[c].user)
  <2>1. /\ ~("admin" \in t.locks /\ "admin" \in txn[c].locks)
        /\ \A lock \in {"user", "member"} :
              ~(lock \in t.locks /\ lock \in txn[c].locks /\ t.user = txn[c].user)
    BY <1>14 DEF AccountInv, LocksInv
  <2>2. ~("member" \in txn[c].locks /\ txn[c].user = t.user)
    BY <1>1 DEF Locked
  <2> QED
    BY <1>10, <2>1, <2>2 DEF locks
<1> QED
  BY <1>1, <1>6, <1>9, <1>11, <1>12, <1>13, <1>14, TxnMoves

LEMMA RollbackKeeps ==
    ASSUME AccountInv, NEW b \in Backends, Rollback(b)
    PROVE  AccountInv'
<1>1. txn' = [txn EXCEPT ![b] = NoTxn] /\ UNCHANGED <<account, passwords, session, recovery>>
  BY DEF Rollback
<1>2. NoTxn.locks = {}
  BY DEF NoTxn
<1> QED
  BY <1>1, <1>2, TxnMoves

-----------------------------------------------------------------------------
(* Commits *)

Administers(a) == a.status = "active" /\ a.role = "PLATFORM_ADMIN"

(* Row W that transaction t writes over row a, with n passwords before and *)
(* m after.                                                                *)
WrittenFits(t, W, a, n, m) ==
    /\ W \in Account /\ m \in 0..MaxPasswords /\ n <= m
    /\ W.status # "absent" /\ W.password <= m /\ W.password_version <= m
    /\ t.op # "create" =>
          /\ a.role_version <= W.role_version
          /\ a.role_version = W.role_version =>
                /\ a.password_version <= W.password_version
                /\ a.password_version = W.password_version => a.password = W.password
    /\ t.op = "recover" =>
          W.status = a.status /\ W.role = a.role /\ W.role_version = a.role_version
    /\ Administers(a) => Administers(W) \/ ~LastAdmin(t.user)
    /\ \/ a.password <= W.password
       \/ SnapshotReads /\ t.op = "grant" /\ W.password = t.read.password

LEMMA CommitWrites ==
    ASSUME AccountInv, NEW b \in Backends, Commit(b)
    PROVE  /\ txn[b] \in Txn /\ txn[b].user \in Accounts
           /\ passwords' \in [Accounts -> 0..MaxPasswords]
           /\ \A v \in Accounts : v # txn[b].user => passwords'[v] = passwords[v]
           /\ WrittenFits(txn[b], Written(txn[b]), account[txn[b].user],
                          passwords[txn[b].user], passwords'[txn[b].user])
<1> DEFINE t == txn[b]
           a == account[t.user]
           n == passwords[t.user]
           W == Written(t)
<1>1. /\ t.pc = "held"
      /\ t.op \in {"reset", "recover"} => n < MaxPasswords
      /\ t.op \in {"update", "grant"} => t.read.role_version < MaxRoleVersion
      /\ passwords' = IF t.op = "create" \/ t.op \in {"reset", "recover"}
                      THEN [passwords EXCEPT ![t.user] = passwords[t.user] + 1] ELSE passwords
  BY DEF Commit
<1>2. t \in Txn /\ t # NoTxn
  BY <1>1, Under DEF AccountInv
<1>3. /\ t.op \in AdminOps \cup {"recover"} /\ t.user \in Accounts /\ t.role \in Roles /\ t.read \in Account
  BY <1>2, TxnFields
<1>4. HoldsInv(t) /\ KnowsInv(t, a, n) /\ SparesInv(t)
  BY <1>2 DEF AccountInv, TxnInv
<1>5. a \in Account /\ n \in 0..MaxPasswords /\ PasswordsInv(t.user) /\ passwords \in [Accounts -> 0..MaxPasswords]
  BY <1>3 DEF AccountInv, AccountTypeOK
<1>6. /\ a.password \in Nat /\ a.password_version \in Nat /\ a.role_version \in Nat
      /\ a.password <= n /\ a.password_version <= n
      /\ t.read.password \in Nat /\ t.read.password_version \in Nat /\ t.read.role_version \in 0..MaxRoleVersion
      /\ t.read.password <= n /\ t.read.password_version <= n
      /\ t.read.role \in Roles /\ a.role \in Roles
  BY <1>3, <1>4, <1>5, Bounds, AccountFields DEF PasswordsInv, KnowsInv
<1>7. t.op = "create" => a.status = "absent" /\ a = Absent /\ n = 0
  BY <1>1, <1>4, <1>5 DEF KnowsInv, PasswordsInv, Exists, AdminOps
<1>8. t.op # "create" => a.status # "absent"
  BY <1>1, <1>4 DEF KnowsInv
<1>9. /\ passwords' \in [Accounts -> 0..MaxPasswords]
      /\ \A v \in Accounts : v # t.user => passwords'[v] = passwords[v]
      /\ passwords'[t.user] = IF t.op \in {"create", "reset", "recover"} THEN n + 1 ELSE n
  <2>1. t.op \in {"create", "reset", "recover"} => n + 1 \in 0..MaxPasswords
    BY <1>1, <1>5, <1>7, Bounds
  <2> QED
    BY <1>1, <1>3, <1>5, <2>1
<1>10. CASE t.op = "create"
  <2>1. W = Created(t.role) /\ W \in Account
    BY <1>3, <1>10, AccountValues DEF Written
  <2>2. W.status = "active" /\ W.password = 1 /\ W.password_version = 1
    BY <2>1 DEF Created
  <2>3. passwords'[t.user] = 1 /\ passwords'[t.user] \in 0..MaxPasswords
    BY <1>3, <1>7, <1>9, <1>10
  <2>4. a.password = 0 /\ ~Administers(a)
    BY <1>7, <1>10 DEF Absent, Administers
  <2> HIDE DEF W
  <2>5. WrittenFits(t, W, a, n, passwords'[t.user])
    BY <1>7, <1>10, <2>1, <2>2, <2>3, <2>4 DEF WrittenFits
  <2> QED
    BY <1>2, <1>3, <1>9, <2>5 DEF W
<1>11. CASE t.op = "update"
  <2>1. t.read = a /\ passwords'[t.user] = n
    BY <1>1, <1>4, <1>9, <1>11 DEF KnowsInv, AdminOps
  <2>2. CASE t.role = t.read.role
    <3>1. W = a
      BY <1>11, <2>1, <2>2 DEF Written
    <3> HIDE DEF W
    <3>2. WrittenFits(t, W, a, n, passwords'[t.user])
      BY <1>5, <1>6, <1>8, <1>11, <2>1, <3>1, Bounds DEF WrittenFits
    <3> QED
      BY <1>2, <1>3, <1>9, <3>2 DEF W
  <2>3. CASE t.role # t.read.role
    <3> DEFINE v == t.read.role_version + 1
               X == [t.read EXCEPT !.role = t.role, !.role_version = v]
    <3>1. W = X
      BY <1>11, <2>3 DEF Written
    <3>2. v \in 0..MaxRoleVersion /\ v > a.role_version
      BY <1>1, <1>6, <1>11, <2>1, Bounds
    <3> HIDE DEF v
    <3>3. X \in Account
      BY <1>3, <3>2, Bounds, AccountChanges
    <3>4. /\ X.status = a.status /\ X.password = a.password /\ X.password_version = a.password_version
          /\ X.role_version = v
      BY <1>3, <2>1, AccountChanged
    <3>5. ~LastAdmin(t.user)
      BY <1>1, <1>4, <1>11, <2>3 DEF SparesInv
    <3> HIDE DEF X, W
    <3>6. WrittenFits(t, W, a, n, passwords'[t.user])
      BY <1>5, <1>6, <1>8, <1>11, <2>1, <3>1, <3>2, <3>3, <3>4, <3>5, Bounds DEF WrittenFits
    <3> QED
      BY <1>2, <1>3, <1>9, <3>6 DEF W
  <2> QED
    BY <2>2, <2>3
<1>12. CASE t.op = "deactivate"
  <2> DEFINE X == [a EXCEPT !.status = "disabled"]
  <2>1. W = X /\ passwords'[t.user] = n
    BY <1>9, <1>12 DEF Written
  <2>2. X \in Account
    BY <1>3, <1>5, Bounds, AccountChanges
  <2>3. /\ X.status = "disabled" /\ X.password = a.password /\ X.password_version = a.password_version
        /\ X.role_version = a.role_version
    BY <1>5, AccountChanged
  <2>4. ~LastAdmin(t.user)
    BY <1>1, <1>4, <1>12 DEF SparesInv
  <2> HIDE DEF X, W
  <2>5. WrittenFits(t, W, a, n, passwords'[t.user])
    BY <1>5, <1>6, <1>12, <2>1, <2>2, <2>3, <2>4 DEF WrittenFits
  <2> QED
    BY <1>2, <1>3, <1>9, <2>5 DEF W
<1>13. ASSUME NEW r \in Account, r.status = a.status, r.role = a.role, r.role_version = a.role_version,
              r.password_version = a.password_version, t.op \in {"reset", "recover"},
              W = Repassworded(r, n + 1)
       PROVE  WrittenFits(t, W, a, n, passwords'[t.user])
  <2> DEFINE X == [r EXCEPT !.password = n + 1, !.password_version = r.password_version + 1]
  <2>1. W = X /\ passwords'[t.user] = n + 1
    BY <1>9, <1>13 DEF Repassworded
  <2>2. n + 1 \in 0..MaxPasswords /\ r.password_version + 1 \in 0..MaxPasswords
    BY <1>1, <1>5, <1>6, <1>13, Bounds
  <2>3. X \in Account
    BY <1>3, <1>13, <2>2, Bounds, AccountChanges
  <2>4. /\ X.status = a.status /\ X.role = a.role /\ X.role_version = a.role_version
        /\ X.password = n + 1 /\ X.password_version = a.password_version + 1
    BY <1>13, AccountChanged
  <2> HIDE DEF X, W
  <2>5. a.status # "absent"
    BY <1>8, <1>13
  <2> QED
    BY <1>5, <1>6, <1>13, <2>1, <2>2, <2>3, <2>4, <2>5, Bounds DEF WrittenFits, Administers
<1>14. CASE t.op = "reset"
  <2>1. t.read = a
    BY <1>1, <1>4, <1>14 DEF KnowsInv, AdminOps
  <2>2. W = Repassworded(a, n + 1)
    BY <1>14, <2>1 DEF Written
  <2> HIDE DEF W
  <2>3. WrittenFits(t, W, a, n, passwords'[t.user])
    BY <1>5, <1>13, <1>14, <2>2
  <2> QED
    BY <1>2, <1>3, <1>9, <2>3 DEF W
<1>15. CASE t.op = "recover"
  <2>1. W = Repassworded(a, n + 1)
    BY <1>15 DEF Written
  <2> HIDE DEF W
  <2>2. WrittenFits(t, W, a, n, passwords'[t.user])
    BY <1>5, <1>13, <1>15, <2>1
  <2> QED
    BY <1>2, <1>3, <1>9, <2>2 DEF W
<1>16. CASE t.op = "grant"
  <2> DEFINE v == t.read.role_version + 1
             X == [t.read EXCEPT !.role_version = v]
  <2>1. W = X /\ passwords'[t.user] = n
    BY <1>9, <1>16 DEF Written
  <2>2. /\ t.read.status = a.status /\ t.read.role = a.role /\ t.read.role_version = a.role_version
        /\ ~SnapshotReads => t.read = a
    BY <1>1, <1>4, <1>16 DEF KnowsInv, AdminOps
  <2>3. v \in 0..MaxRoleVersion /\ v > a.role_version
    BY <1>1, <1>6, <1>16, <2>2, Bounds
  <2> HIDE DEF v
  <2>4. X \in Account
    BY <1>3, <2>3, Bounds, AccountChanges
  <2>5. /\ X.status = a.status /\ X.role = a.role /\ X.password = t.read.password
        /\ X.password_version = t.read.password_version /\ X.role_version = v
    BY <1>3, <2>2, AccountChanged
  <2> HIDE DEF X, W
  <2>6. WrittenFits(t, W, a, n, passwords'[t.user])
    BY <1>5, <1>6, <1>8, <1>16, <2>1, <2>2, <2>3, <2>4, <2>5, Bounds DEF WrittenFits, Administers
  <2> QED
    BY <1>2, <1>3, <1>9, <2>6 DEF W
<1> QED
  BY <1>3, <1>10, <1>11, <1>12, <1>14, <1>15, <1>16 DEF AdminOps

(* A commit takes no administrator away who is the last one.               *)
LEMMA CommitSpares ==
    ASSUME AccountInv, NEW b \in Backends, Commit(b)
    PROVE  /\ AdminRemains'
           /\ txn[b].op = "recover" => ActiveAdmins' = ActiveAdmins
<1> DEFINE t == txn[b]
<1>1. /\ t.user \in Accounts
      /\ WrittenFits(t, Written(t), account[t.user], passwords[t.user], passwords'[t.user])
  BY CommitWrites
<1>2. account' = [account EXCEPT ![t.user] = Written(t)]
  BY DEF Commit
<1>3. account'[t.user] = Written(t) /\ \A v \in Accounts : v # t.user => account'[v] = account[v]
  BY <1>1, <1>2 DEF AccountInv, AccountTypeOK
<1>4. \A v \in Accounts : v \in ActiveAdmins <=> Administers(account[v])
  BY DEF ActiveAdmins, Administers
<1>5. \A v \in Accounts : v \in ActiveAdmins' <=> Administers(account'[v])
  BY DEF ActiveAdmins, Administers
<1>6. t.op = "recover" => ActiveAdmins' = ActiveAdmins
  <2>1. t.op = "recover" => (Administers(Written(t)) <=> Administers(account[t.user]))
    BY <1>1 DEF WrittenFits, Administers
  <2>2. t.op = "recover" => \A v \in Accounts : v \in ActiveAdmins' <=> v \in ActiveAdmins
    BY <1>3, <1>4, <1>5, <2>1
  <2> QED
    BY <2>2 DEF ActiveAdmins
<1>7. AdminRemains'
  <2>1. PICK w \in Accounts : w \in ActiveAdmins
    BY DEF AccountInv, AdminRemains, ActiveAdmins
  <2>2. CASE w # t.user
    BY <1>3, <1>4, <1>5, <2>1, <2>2 DEF AdminRemains
  <2>3. CASE w = t.user
    <3>1. CASE Administers(Written(t))
      BY <1>1, <1>3, <1>5, <3>1 DEF AdminRemains
    <3>2. CASE ~Administers(Written(t))
      <4>1. ActiveAdmins # {t.user}
        BY <1>1, <1>4, <2>1, <2>3, <3>2 DEF WrittenFits, LastAdmin
      <4>2. PICK v \in ActiveAdmins : v # t.user
        BY <2>1, <2>3, <4>1
      <4>3. v \in Accounts
        BY <4>2 DEF ActiveAdmins
      <4> QED
        BY <1>3, <1>4, <1>5, <4>2, <4>3 DEF AdminRemains
    <3> QED
      BY <3>1, <3>2
  <2> QED
    BY <2>2, <2>3
<1> QED
  BY <1>6, <1>7

LEMMA CommitKeeps ==
    ASSUME AccountInv, NEW b \in Backends, Commit(b)
    PROVE  AccountInv'
<1> DEFINE t == txn[b]
           u == txn[b].user
           W == Written(txn[b])
<1>1. /\ t \in Txn /\ u \in Accounts
      /\ passwords' \in [Accounts -> 0..MaxPasswords]
      /\ \A v \in Accounts : v # u => passwords'[v] = passwords[v]
      /\ WrittenFits(t, W, account[u], passwords[u], passwords'[u])
  BY CommitWrites
<1>2. /\ t.pc = "held" /\ account' = [account EXCEPT ![u] = W] /\ txn' = [txn EXCEPT ![b] = NoTxn]
      /\ session' \in {session, Revoked(u)} /\ recovery' \subseteq recovery
  BY DEF Commit
<1>3. t # NoTxn /\ HoldsInv(t) /\ KnowsInv(t, account[u], passwords[u])
  BY <1>1, TxnFields DEF AccountInv, TxnInv
<1> HIDE DEF W
<1>4. account'[u] = W /\ \A v \in Accounts : v # u => account'[v] = account[v]
  BY <1>1, <1>2 DEF AccountInv, AccountTypeOK
<1>5. txn'[b] = NoTxn /\ \A c \in Backends : c # b => txn'[c] = txn[c]
  BY <1>2 DEF AccountInv, AccountTypeOK
<1>6. /\ session' \in [Slots -> Session \cup {NoSession}]
      /\ \A s \in Slots : session'[s] \in {NoSession, session[s]}
  BY <1>2 DEF AccountInv, AccountTypeOK, Revoked
<1>7. AccountTypeOK'
  <2>1. account' \in [Accounts -> Account] /\ W \in Account
    BY <1>1, <1>2 DEF WrittenFits, AccountInv, AccountTypeOK
  <2>2. txn' \in [Backends -> Txn \cup {NoTxn}] /\ recovery' \subseteq Accounts
    BY <1>2 DEF AccountInv, AccountTypeOK
  <2> QED
    BY <1>1, <1>6, <2>1, <2>2 DEF AccountTypeOK
<1>8. ASSUME NEW v \in Accounts PROVE PasswordsInv(v)'
  <2>1. CASE v = u
    BY <1>1, <1>4, <2>1 DEF WrittenFits, PasswordsInv, Exists
  <2>2. CASE v # u
    BY <1>1, <1>4, <2>2 DEF AccountInv, PasswordsInv, Exists
  <2> QED
    BY <2>1, <2>2
<1>9. LocksInv'
  <2>1. NoTxn.locks = {}
    BY DEF NoTxn
  <2> QED
    BY <1>5, <2>1 DEF AccountInv, LocksInv
<1>10. ASSUME NEW c \in Backends PROVE TxnInv(c)'
  <2>1. CASE c = b
    BY <1>5, <2>1 DEF TxnInv
  <2>2. CASE c # b /\ txn[c] # NoTxn
    <3>1. txn'[c] = txn[c] /\ txn[c] \in Txn /\ txn[c].user \in Accounts
      BY <1>5, <2>2, TxnFields DEF AccountInv, AccountTypeOK
    <3>2. /\ HoldsInv(txn[c]) /\ KnowsInv(txn[c], account[txn[c].user], passwords[txn[c].user])
          /\ SparesInv(txn[c])
      BY <2>2 DEF AccountInv, TxnInv
    <3>3. t.op \in AdminOps \cup {"recover"} /\ txn[c].op \in AdminOps \cup {"recover"} /\ txn[c].read \in Account
      BY <1>1, <3>1, TxnFields
    <3>4. t.op = "recover" \/ txn[c].op = "recover"
      BY <1>3, <2>2, <3>2, <3>3 DEF AccountInv, LocksInv, HoldsInv
    <3>5. SparesInv(txn[c])'
      <4>1. CASE t.op = "recover"
        BY <3>1, <3>2, <4>1, CommitSpares DEF SparesInv, LastAdmin
      <4>2. CASE txn[c].op = "recover"
        BY <3>1, <4>2 DEF SparesInv
      <4> QED
        BY <3>4, <4>1, <4>2
    <3>6. KnowsInv(txn[c], account'[txn[c].user], passwords'[txn[c].user])
      <4>1. CASE txn[c].user # u
        BY <1>1, <1>4, <3>1, <3>2, <4>1
      <4>2. CASE txn[c].user = u /\ txn[c].op = "recover"
        <5>1. /\ passwords[u] <= passwords'[u] /\ passwords[u] \in Nat /\ passwords'[u] \in Nat
              /\ W.status # "absent" /\ txn[c].read.password \in Nat /\ txn[c].read.password_version \in Nat
          BY <1>1, <3>3, AccountFields, Bounds DEF WrittenFits, AccountInv, AccountTypeOK
        <5> QED
          BY <1>4, <3>2, <4>2, <5>1 DEF KnowsInv, AdminOps
      <4>3. CASE txn[c].user = u /\ txn[c].op # "recover"
        <5>1. t.op = "recover" /\ "user" \in t.locks /\ "member" \in t.locks /\ account[u].status # "absent"
          BY <1>2, <1>3, <3>4, <4>3 DEF HoldsInv, KnowsInv
        <5>2. "user" \notin txn[c].locks /\ "member" \notin txn[c].locks
          BY <2>2, <4>3, <5>1 DEF AccountInv, LocksInv
        <5>3. txn[c].pc = "held" => txn[c].op \notin {"update", "reset", "grant"}
          BY <3>2, <5>2 DEF HoldsInv
        <5>4. /\ passwords[u] <= passwords'[u] /\ passwords[u] \in Nat /\ passwords'[u] \in Nat
              /\ txn[c].read.password \in Nat /\ txn[c].read.password_version \in Nat
              /\ W.status = account[u].status /\ W.role = account[u].role
              /\ W.role_version = account[u].role_version
          BY <1>1, <3>3, <5>1, AccountFields, Bounds DEF WrittenFits, AccountInv, AccountTypeOK
        <5>5. txn[c].pc \in Pcs /\ (txn[c].pc = "waiting" => txn[c].op = "grant")
          BY <3>1, <3>2, <4>3, TxnFields DEF HoldsInv
        <5> QED
          BY <1>4, <3>2, <4>3, <5>1, <5>3, <5>4, <5>5 DEF KnowsInv, Pcs
      <4> QED
        BY <4>1, <4>2, <4>3
    <3> QED
      BY <3>1, <3>2, <3>5, <3>6 DEF TxnInv, SparesInv, LastAdmin, ActiveAdmins
  <2>3. CASE c # b /\ txn[c] = NoTxn
    BY <1>5, <2>3 DEF TxnInv
  <2> QED
    BY <2>1, <2>2, <2>3
<1>11. ASSUME NEW s \in Slots PROVE SessionInv(s)'
  <2>1. CASE session'[s] = NoSession
    BY <2>1 DEF SessionInv
  <2>2. CASE session'[s] = session[s] /\ session[s] # NoSession
    <3>1. session[s] \in Session /\ session[s].user \in Accounts /\ session[s].seen \in Account
      BY <2>2, SessionFields DEF AccountInv, AccountTypeOK
    <3>2. SeenInv(session[s], account[session[s].user])
      BY <2>2 DEF AccountInv, SessionInv
    <3>3. CASE session[s].user # u
      BY <1>4, <2>2, <3>1, <3>2, <3>3 DEF SessionInv
    <3>4. CASE session[s].user = u
      <4>1. account[u].status # "absent"
        BY <3>2, <3>4 DEF SeenInv
      <4>2. t.op # "create"
        BY <1>2, <1>3, <4>1 DEF KnowsInv, AdminOps
      <4> DEFINE x == session[s].seen
                 a == account[u]
      <4>3. /\ x.role_version \in Nat /\ a.role_version \in Nat /\ W.role_version \in Nat
            /\ x.password_version \in Nat /\ a.password_version \in Nat /\ W.password_version \in Nat
        BY <1>1, <3>1, AccountFields, Bounds DEF WrittenFits, AccountInv, AccountTypeOK
      <4>4. SeenInv(session[s], W)
        BY <1>1, <3>2, <3>4, <4>2, <4>3 DEF SeenInv, WrittenFits
      <4> QED
        BY <1>4, <2>2, <3>4, <4>4 DEF SessionInv
    <3> QED
      BY <3>3, <3>4
  <2> QED
    BY <1>6, <2>1, <2>2
<1> QED
  BY <1>7, <1>8, <1>9, <1>10, <1>11, CommitSpares DEF AccountInv

-----------------------------------------------------------------------------
(* The theorems *)

LEMMA AccountsStart == AccountInit => AccountInv
<1> SUFFICES ASSUME AccountInit PROVE AccountInv
  OBVIOUS
<1>1. "PLATFORM_ADMIN" \in Roles
  BY DEF Roles
<1>2. ASSUME NEW v \in Accounts
      PROVE  /\ account[v] = (IF v \in Admins THEN Created("PLATFORM_ADMIN") ELSE Absent)
             /\ account[v] \in Account /\ passwords[v] = account[v].password
             /\ passwords[v] \in 0..MaxPasswords /\ PasswordsInv(v)
             /\ v \in Admins => account[v].status = "active" /\ account[v].role = "PLATFORM_ADMIN"
  <2>1. /\ account[v] = (IF v \in Admins THEN Created("PLATFORM_ADMIN") ELSE Absent)
        /\ passwords[v] = account[v].password
    BY DEF AccountInit
  <2>2. account[v] \in Account
    BY <1>1, <2>1, AccountValues
  <2>3. account[v].password = account[v].password_version
    BY <2>1 DEF Created, Absent
  <2>4. account[v].password \in 0..MaxPasswords
    BY <2>2, AccountFields
  <2>5. CASE v \in Admins
    BY <2>1, <2>2, <2>3, <2>4, <2>5 DEF Created, PasswordsInv, Exists
  <2>6. CASE v \notin Admins
    BY <2>1, <2>2, <2>3, <2>4, <2>6 DEF Absent, PasswordsInv, Exists
  <2> QED
    BY <2>1, <2>2, <2>4, <2>5, <2>6
<1>3. AccountTypeOK
  <2>1. account \in [Accounts -> Account] /\ passwords \in [Accounts -> 0..MaxPasswords]
    BY <1>2 DEF AccountInit
  <2> QED
    BY <2>1 DEF AccountInit, AccountTypeOK
<1>4. AdminRemains
  BY <1>2, AccountAssumption DEF AdminRemains, ActiveAdmins
<1>5. LocksInv /\ (\A b \in Backends : TxnInv(b)) /\ \A s \in Slots : SessionInv(s)
  BY DEF AccountInit, LocksInv, TxnInv, SessionInv, NoTxn
<1> QED
  BY <1>2, <1>3, <1>4, <1>5 DEF AccountInv

LEMMA AccountStep == AccountInv /\ [AccountNext]_accountVars => AccountInv'
<1> SUFFICES ASSUME AccountInv, [AccountNext]_accountVars PROVE AccountInv'
  OBVIOUS
<1>1. ASSUME NEW b \in Backends,
             \/ \E op \in AdminOps, u \in Accounts, role \in Roles : BeginAdmin(b, op, u, role)
             \/ ReadAccount(b)
             \/ \E u \in Accounts : BeginRecovery(b, u)
             \/ LockMember(b)
             \/ Commit(b)
             \/ Rollback(b)
      PROVE  AccountInv'
  BY <1>1, BeginAdminKeeps, ReadAccountKeeps, BeginRecoveryKeeps, LockMemberKeeps, CommitKeeps, RollbackKeeps
<1>2. CASE UNCHANGED accountVars
  <2>1. \A s \in Slots : session'[s] # NoSession => SeenInv(session'[s], account[session'[s].user])
    BY <1>2 DEF accountVars, AccountInv, SessionInv
  <2> QED
    BY <1>2, <2>1, SessionMoves DEF accountVars, AccountInv, AccountTypeOK
<1> QED
  BY <1>1, <1>2, SessionSteps DEF AccountNext

(* Accounts, passwords, sessions and transactions keep their types.        *)
THEOREM AccountTyping == AccountSpec => []AccountTypeOK
<1>1. AccountInv => AccountTypeOK
  BY DEF AccountInv
<1> QED
  BY <1>1, AccountsStart, AccountStep, PTL DEF AccountSpec

(* The workspace always has an active administrator, however many requests *)
(* demote and disable administrators at the same time                      *)
(* (_admin_transaction, count_active_platform_admins).                     *)
THEOREM AnAdminRemains == AccountSpec => []AdminRemains
<1>1. AccountInv => AdminRemains
  BY DEF AccountInv
<1> QED
  BY <1>1, AccountsStart, AccountStep, PTL DEF AccountSpec

(* A session that validates was opened with the present password, also     *)
(* where a grant may write back a row it has read before a recovery        *)
(* (validate_session compares role_version too).                           *)
THEOREM SessionsAreCurrent == AccountSpec => []SessionsKnowPassword
<1>1. ASSUME AccountInv PROVE SessionsKnowPassword
  <2>1. ASSUME NEW s \in Slots, ValidSession(s)
        PROVE  session[s].seen.password = account[session[s].user].password
    <3>1. session[s] # NoSession
      BY <2>1 DEF ValidSession, NoSession
    <3>2. SeenInv(session[s], account[session[s].user])
      BY <1>1, <3>1 DEF AccountInv, SessionInv
    <3> QED
      BY <2>1, <3>2 DEF ValidSession, SeenInv
  <2> QED
    BY <2>1 DEF SessionsKnowPassword
<1> QED
  BY <1>1, AccountsStart, AccountStep, PTL DEF AccountSpec

(* A replaced password comes back in one way only: a grant, which alone    *)
(* waits for a lock inside the statement that reads, writes back the       *)
(* password it had read before the replacement (admin_update_user: "a      *)
(* stale full-row snapshot").                                              *)
OnlyStaleGrantsUndo ==
    [][\A u \in Accounts : account'[u].password < account[u].password =>
          SnapshotReads /\ \E b \in Backends :
             /\ Commit(b) /\ txn[b].op = "grant" /\ txn[b].user = u
             /\ account'[u].password = txn[b].read.password]_accountVars

(* No update, reset, deactivation, recovery or login takes a replaced      *)
(* password back, whatever grants run beside them: what undoes a recovery  *)
(* is the stale row of a grant (grant_collection_in_transaction).          *)
THEOREM PasswordsStayReplaced == AccountSpec => OnlyStaleGrantsUndo
<1> DEFINE Undone(u) == SnapshotReads /\ \E b \in Backends :
                           /\ Commit(b) /\ txn[b].op = "grant" /\ txn[b].user = u
                           /\ account'[u].password = txn[b].read.password
<1>1. ASSUME AccountInv, [AccountNext]_accountVars
      PROVE  [\A u \in Accounts : account'[u].password < account[u].password => Undone(u)]_accountVars
  <2>1. \A u \in Accounts : account[u].password \in Int
    BY <1>1, AccountFields DEF AccountInv, AccountTypeOK
  <2>2. CASE UNCHANGED account
    BY <2>1, <2>2
  <2>3. ASSUME NEW b \in Backends, Commit(b), NEW u \in Accounts, account'[u].password < account[u].password
        PROVE  Undone(u)
    <3>1. /\ txn[b].user \in Accounts
          /\ WrittenFits(txn[b], Written(txn[b]), account[txn[b].user],
                         passwords[txn[b].user], passwords'[txn[b].user])
      BY <1>1, <2>3, CommitWrites
    <3>2. account'[u] = IF u = txn[b].user THEN Written(txn[b]) ELSE account[u]
      BY <1>1, <2>3, <3>1 DEF Commit, AccountInv, AccountTypeOK
    <3>3. Written(txn[b]).password \in Int
      BY <3>1, AccountFields DEF WrittenFits
    <3>4. u = txn[b].user /\ account'[u] = Written(txn[b])
      BY <2>1, <2>3, <3>2
    <3>5. ~(account[u].password <= Written(txn[b]).password)
      BY <2>1, <2>3, <3>3, <3>4
    <3>6. SnapshotReads /\ txn[b].op = "grant" /\ Written(txn[b]).password = txn[b].read.password
      BY <3>1, <3>4, <3>5 DEF WrittenFits
    <3> QED
      BY <2>3, <3>4, <3>6
  <2>4. UNCHANGED account \/ \E b \in Backends : Commit(b)
    BY <1>1 DEF AccountNext, accountVars, VerifyLogin, CreateSession, RevokeSession, RevokeUser, IssueReset,
                BeginAdmin, ReadAccount, BeginRecovery, LockMember, Rollback
  <2> HIDE DEF Undone
  <2> QED
    BY <2>2, <2>3, <2>4
<1> QED
  BY <1>1, AccountsStart, AccountStep, PTL DEF AccountSpec, OnlyStaleGrantsUndo
=============================================================================
