------------------------- MODULE UserAdministration -------------------------
(***************************************************************************)
(* The users table under concurrent requests: registration, the changes    *)
(* of role and status administrators make, and the provisioning of the     *)
(* configured accounts by every backend instance that starts               *)
(* (users.service.ts, auth.service.ts, account-bootstrap.service.ts).      *)
(*                                                                         *)
(* An address names at most one row and rows are never deleted, so an      *)
(* account stands for its address and for the id of its row; accounts are  *)
(* numbered in the order of their ids.  Names, passwords and time stamps   *)
(* decide nothing here.                                                    *)
(*                                                                         *)
(* Requests are transactions at READ COMMITTED.  A change locks the rows   *)
(* of its actor and its target FOR UPDATE one by one, in the order of      *)
(* ids; what may change the set of active administrators also takes one    *)
(* advisory lock.  All locks are held until the transaction ends.          *)
(***************************************************************************)
EXTENDS Integers, FiniteSets

CONSTANTS
  Account,      \* the accounts that exist or may be registered, in id order
  Txn,          \* requests that may be in progress at the same time
  Configured,   \* what BOOTSTRAP_ADMIN_* and BOOTSTRAP_STAFF_* configure
  InitialRow    \* the rows an account may start with, or Absent

UserRole == {"student", "staff", "admin"}

UserRow == [role : UserRole, isActive : BOOLEAN]
Absent  == [role |-> "none", isActive |-> FALSE]

\* `password` says whether one is configured.
Provisioning == [op : {"provision"}, account : Account,
                 role : {"admin", "staff"}, password : BOOLEAN]

ASSUME AccountAssumption == Account \subseteq Nat /\ IsFiniteSet(Account)
ASSUME ConfiguredAssumption == Configured \subseteq Provisioning
ASSUME InitialRowAssumption == InitialRow \subseteq UserRow \cup {Absent}

VARIABLES
  accounts,   \* the committed rows
  txn         \* the request of each transaction, its locks and how far it is

vars == <<accounts, txn>>

----------------------------------------------------------------------------
(* Requests and the phases they go through.                                *)

Registration == [op : {"register"}, account : Account]

ManageRequest ==
  {q \in [op : {"updateRole"}, actor : Account, account : Account, role : UserRole]
           \cup [op : {"updateStatus"}, actor : Account, account : Account,
                 isActive : BOOLEAN] :
     q.actor # q.account}          \* updateManagedUser refuses self-management

Request == Registration \cup ManageRequest \cup Configured

NoRequest == [op |-> "none"]

Idle == [phase |-> "idle", request |-> NoRequest, rows |-> {},
         advisory |-> FALSE, image |-> Absent]

Phase == {"idle",
          "locking",     \* SELECT ... FOR UPDATE on the actor and the target
          "queued",      \* provisioning, before the advisory lock
          "reading",     \* provisioning, before it looks for the account
          "inserting",   \* before its INSERT
          "counting",    \* the advisory lock is held, admins not counted yet
          "updating",    \* provisioning, before its UPDATE
          "written"}     \* executed but not committed

TxnState == [phase    : Phase,
             request  : Request \cup {NoRequest},
             rows     : SUBSET Account,          \* row locks held
             advisory : BOOLEAN,                 \* ACTIVE_ADMIN_ADVISORY_LOCK
             image    : UserRow \cup {Absent}]

TypeOK ==
  /\ accounts \in [Account -> UserRow \cup {Absent}]
  /\ txn \in [Txn -> TxnState]

Init ==
  /\ accounts \in [Account -> InitialRow]
  /\ txn = [t \in Txn |-> Idle]

----------------------------------------------------------------------------
Op(t)      == txn[t].request.op
AccountOf(t) == txn[t].request.account
Manages(t) == Op(t) \in {"updateRole", "updateStatus"}

IsActiveAdmin(row) == row.role = "admin" /\ row.isActive

ActiveAdmins == {a \in Account : IsActiveAdmin(accounts[a])}

Locked(a) == \E u \in Txn : a \in txn[u].rows

AdvisoryIsFree == \A u \in Txn : ~txn[u].advisory

\* Another transaction has inserted the account and has not finished.
Contested(t) ==
  \E u \in Txn \ {t} : /\ txn[u].phase = "written"
                       /\ accounts[AccountOf(u)] = Absent
                       /\ AccountOf(u) = AccountOf(t)

Move(t, phase) == txn' = [txn EXCEPT ![t].phase = phase] /\ UNCHANGED accounts

Stage(t, row) ==
  /\ txn' = [txn EXCEPT ![t].phase = "written", ![t].image = row]
  /\ UNCHANGED accounts

\* The transaction ends without a change and releases its locks.
Leave(t) == txn' = [txn EXCEPT ![t] = Idle] /\ UNCHANGED accounts

----------------------------------------------------------------------------
(* A request arrives.  Changes pass the guards, which read the actor.      *)

FirstPhase(request) ==
  IF request.op = "register" THEN "inserting"
  ELSE IF request.op = "provision"
       THEN IF request.role = "admin" THEN "queued" ELSE "reading"
       ELSE "locking"

PassesGuards(request) ==
  request.op \in {"updateRole", "updateStatus"} =>
    /\ IsActiveAdmin(accounts[request.actor])
    /\ accounts[request.account] # Absent

Receive(t) ==
  /\ txn[t].phase = "idle"
  /\ \E request \in Request :
       /\ PassesGuards(request)
       /\ txn' = [txn EXCEPT ![t] = [Idle EXCEPT !.phase = FirstPhase(request),
                                                !.request = request]]
  /\ UNCHANGED accounts

----------------------------------------------------------------------------
(* updateRole and updateStatus through updateManagedUser.                  *)

RowsOf(t) == {txn[t].request.actor, AccountOf(t)}

\* Mutant: the rows are locked in the order actor, target.
ActorFirst(t) ==
  IF txn[t].request.actor \notin txn[t].rows THEN txn[t].request.actor
  ELSE AccountOf(t)

\* ORDER BY user.id
NextRow(t) ==
  CHOOSE a \in RowsOf(t) \ txn[t].rows :
    \A c \in RowsOf(t) \ txn[t].rows : a <= c

LockRow(t) ==
  /\ txn[t].phase = "locking"
  /\ ~(RowsOf(t) \subseteq txn[t].rows)
  /\ ~Locked(NextRow(t))
  /\ txn' = [txn EXCEPT ![t].rows = @ \cup {NextRow(t)}]
  /\ UNCHANGED accounts

HasRows(t) == txn[t].phase = "locking" /\ RowsOf(t) \subseteq txn[t].rows

\* Mutant: the service relies on the guards of the controller.
GuardsSuffice(t) == Manages(t)

\* The actor is still an active administrator, now that its row is locked.
MayManage(t) == IsActiveAdmin(accounts[txn[t].request.actor])

Changed(t) ==
  LET target == accounts[AccountOf(t)]
  IN  IF Op(t) = "updateRole"
      THEN [target EXCEPT !.role = txn[t].request.role]
      ELSE [target EXCEPT !.isActive = txn[t].request.isActive]

RemovesActiveAdmin(t) ==
  IsActiveAdmin(accounts[AccountOf(t)]) /\ ~IsActiveAdmin(Changed(t))

Change(t) ==
  /\ HasRows(t)
  /\ MayManage(t)
  /\ ~RemovesActiveAdmin(t)
  /\ Stage(t, Changed(t))

GuardLastAdmin(t) ==
  /\ HasRows(t)
  /\ MayManage(t)
  /\ RemovesActiveAdmin(t)
  /\ AdvisoryIsFree
  /\ txn' = [txn EXCEPT ![t].phase = "counting", ![t].advisory = TRUE]
  /\ UNCHANGED accounts

Counting(t) == txn[t].phase = "counting" /\ Manages(t)

RemoveAdmin(t) ==
  /\ Counting(t)
  /\ Cardinality(ActiveAdmins) > 1
  /\ Stage(t, Changed(t))

RefuseChange(t) ==
  /\ \/ HasRows(t) /\ ~MayManage(t)
     \/ Counting(t) /\ Cardinality(ActiveAdmins) <= 1
  /\ Leave(t)

----------------------------------------------------------------------------
(* provisionBootstrapAccount.                                              *)

\* Mutant: instances do not exclude each other.
SkipLock(t) == txn[t].phase = "queued" /\ Move(t, "reading")

SerializeProvisioning(t) ==
  /\ txn[t].phase = "queued"
  /\ AdvisoryIsFree
  /\ txn' = [txn EXCEPT ![t].phase = "reading", ![t].advisory = TRUE]
  /\ UNCHANGED accounts

Wanted(t) == [role |-> txn[t].request.role, isActive |-> TRUE]

FindAccount(t) ==
  /\ txn[t].phase = "reading"
  /\ LET existing == accounts[AccountOf(t)]
         q        == txn[t].request
     IN  \/ existing = Absent /\ q.password /\ Move(t, "inserting")
         \/ /\ existing \notin {Absent, Wanted(t)}
            /\ q.role = "admin"
            /\ Move(t, "counting")
         \/ /\ \/ existing = Absent /\ ~q.password
               \/ existing = Wanted(t)
               \/ existing # Absent /\ q.role # "admin"
            /\ Leave(t)

CountAdmins(t) ==
  /\ txn[t].phase = "counting"
  /\ Op(t) = "provision"
  /\ IF ActiveAdmins = {} THEN Move(t, "updating") ELSE Leave(t)

\* The UPDATE waits for the row lock of the account.
Recover(t) ==
  /\ txn[t].phase = "updating"
  /\ ~Locked(AccountOf(t))
  /\ txn' = [txn EXCEPT ![t].phase = "written", ![t].image = Wanted(t),
                        ![t].rows = {AccountOf(t)}]
  /\ UNCHANGED accounts

----------------------------------------------------------------------------
(* INSERT, of a registration or of a configured account.                   *)

NewRow(t) ==
  IF Op(t) = "register" THEN [role |-> "student", isActive |-> TRUE] ELSE Wanted(t)

\* Mutant: save() of an address that exists overwrites its row.
Upsert(t) ==
  /\ txn[t].phase = "inserting"
  /\ ~Contested(t)
  /\ Stage(t, NewRow(t))

\* The unique index on the address waits for an INSERT that has not finished.
Insert(t) ==
  /\ txn[t].phase = "inserting"
  /\ accounts[AccountOf(t)] = Absent
  /\ ~Contested(t)
  /\ Stage(t, NewRow(t))

\* EmailAlreadyExistsError, or ON CONFLICT DO NOTHING.
AlreadyExists(t) ==
  /\ txn[t].phase = "inserting"
  /\ accounts[AccountOf(t)] # Absent
  /\ Leave(t)

----------------------------------------------------------------------------
Commit(t) ==
  /\ txn[t].phase = "written"
  /\ accounts' = [accounts EXCEPT ![AccountOf(t)] = txn[t].image]
  /\ txn' = [txn EXCEPT ![t] = Idle]

\* A lost connection or a crash: the database rolls back.
Abort(t) == txn[t].phase # "idle" /\ Leave(t)

Manage(t) ==
  LockRow(t) \/ Change(t) \/ GuardLastAdmin(t) \/ RemoveAdmin(t) \/ RefuseChange(t)

Provision(t) ==
  SerializeProvisioning(t) \/ FindAccount(t) \/ CountAdmins(t) \/ Recover(t)

Progress(t) ==
  Manage(t) \/ Provision(t) \/ Insert(t) \/ AlreadyExists(t) \/ Commit(t)

Next == \E t \in Txn : Receive(t) \/ Progress(t) \/ Abort(t)

Spec == Init /\ [][Next]_vars

----------------------------------------------------------------------------
(* Properties.                                                             *)

\* Once there is an active administrator there always is one, whatever
\* administrators do to each other at the same time: "At least one active
\* administrator must remain" (LastActiveAdminError).
AdminsRemain == [][ActiveAdmins # {} => ActiveAdmins' # {}]_vars

\* The role or status of an existing account changes only by the request of
\* an account that is an active administrator at that very moment, or by the
\* recovery of a system that has none: an administrator demoted after the
\* guards let the request in changes nothing.
ChangesAreMadeByAdmins ==
  [][\A a \in Account :
       /\ accounts[a] # Absent
       /\ accounts'[a] # accounts[a]
       => \E t \in Txn :
            /\ txn[t].phase = "written"
            /\ AccountOf(t) = a
            /\ Manages(t) => txn[t].request.actor \in ActiveAdmins
            /\ ~Manages(t) => ActiveAdmins = {}]_vars

\* A restart promotes an existing account only while no active administrator
\* exists, also when instances with different configurations start together
\* ("If no active admin remains, the configured admin account is restored").
RecoveryOnlyWithoutAdmins ==
  \A t \in Txn :
    txn[t].phase = "written" /\ Op(t) = "provision"
      /\ accounts[AccountOf(t)] # Absent => ActiveAdmins = {}

\* Whoever counts the active administrators to remove one finds another: the
\* locked actor.  LastActiveAdminError is a second line of defence that the
\* first never lets a request reach.
AnotherAdminRemains ==
  \A t \in Txn : Counting(t) => Cardinality(ActiveAdmins) > 1

----------------------------------------------------------------------------
(* The inductive invariant the proofs use: who holds which lock in which   *)
(* phase, and what the holder knows of the accounts while it holds it.     *)

RowsExclude == \A t, u \in Txn : t # u => txn[t].rows \cap txn[u].rows = {}

AdvisoryExcludes == \A t, u \in Txn : txn[t].advisory /\ txn[u].advisory => t = u

Inserts(t) == txn[t].phase = "written" /\ accounts[AccountOf(t)] = Absent

InsertsExclude ==
  \A t, u \in Txn : Inserts(t) /\ Inserts(u) /\ AccountOf(t) = AccountOf(u) => t = u

PhasesFit(t) ==
  /\ txn[t].phase # "idle" => txn[t].request \in Request
  /\ txn[t].phase = "locking" => Manages(t)
  /\ txn[t].phase = "inserting" => ~Manages(t)
  /\ txn[t].phase \in {"queued", "reading", "updating"} => Op(t) = "provision"
  /\ txn[t].phase \in {"queued", "updating"} => txn[t].request.role = "admin"
  /\ txn[t].phase = "counting" /\ ~Manages(t) =>
       Op(t) = "provision" /\ txn[t].request.role = "admin"
  /\ \/ txn[t].phase # "idle" /\ Manages(t)
     \/ txn[t].phase \in {"counting", "updating"}
     => accounts[AccountOf(t)] # Absent

\* Provisioning an administrator holds the advisory lock to its end.
HoldsAdvisory(t) ==
  /\ txn[t].phase \in {"counting", "updating"} => txn[t].advisory
  /\ /\ txn[t].phase \in {"reading", "inserting", "written"}
     /\ Op(t) = "provision"
     /\ txn[t].request.role = "admin"
     => txn[t].advisory

\* The change of a request that passed its checks is still authorised.
Authorised(t) ==
  /\ RowsOf(t) \subseteq txn[t].rows
  /\ txn[t].request.actor \in ActiveAdmins
  /\ accounts[AccountOf(t)] # Absent

WriteFits(t) ==
  /\ txn[t].phase \in {"counting", "written"} /\ Manages(t) => Authorised(t)
  /\ txn[t].phase = "counting" /\ Manages(t) => AccountOf(t) \in ActiveAdmins
  /\ txn[t].phase = "updating" => ActiveAdmins = {}
  /\ txn[t].phase = "written" => txn[t].image \in UserRow
  /\ txn[t].phase = "written" /\ Op(t) = "register" =>
       accounts[AccountOf(t)] = Absent /\ ~IsActiveAdmin(txn[t].image)
  /\ txn[t].phase = "written" /\ Op(t) = "provision" =>
       /\ txn[t].image = Wanted(t)
       /\ accounts[AccountOf(t)] # Absent =>
            /\ txn[t].request.role = "admin"
            /\ AccountOf(t) \in txn[t].rows
            /\ ActiveAdmins = {}

RequestFits(t) == PhasesFit(t) /\ HoldsAdvisory(t) /\ WriteFits(t)

UserInv ==
  /\ TypeOK
  /\ RowsExclude
  /\ AdvisoryExcludes
  /\ InsertsExclude
  /\ \A t \in Txn : RequestFits(t)

----------------------------------------------------------------------------
(* Liveness.                                                               *)

\* A statement that waits for a lock, or for another INSERT, is one step of
\* Progress; PostgreSQL queues the waiters, so a step that is possible again
\* and again is taken.
Fairness == \A t \in Txn : SF_vars(Progress(t))

FairSpec == Spec /\ Fairness

\* No two requests wait for each other's row locks, advisory lock or INSERT.
AccountRequestsFinish ==
  \A t \in Txn : txn[t].phase # "idle" ~> txn[t].phase = "idle"

=============================================================================
