---------------------- MODULE UserAdministrationProofs ----------------------
(***************************************************************************)
(* UserInv is inductive, and with it: there is always an active            *)
(* administrator once there is one, only administrators change accounts,   *)
(* recovery happens only without administrators, and the count of the last *)
(* administrator guard always finds another.                               *)
(***************************************************************************)
EXTENDS UserAdministration, FiniteSetTheorems, TLAPS

----------------------------------------------------------------------------
(* Facts about rows and requests.                                          *)

\* The row no account has is not a row of the table, nor an administrator.
LEMMA AbsentIsNoRow == Absent \notin UserRow /\ ~IsActiveAdmin(Absent)
  BY DEF Absent, UserRow, UserRole, IsActiveAdmin

\* What each kind of request carries.
LEMMA RequestFields ==
  ASSUME NEW q \in Request
  PROVE  /\ q.account \in Account
         /\ q.op \in {"register", "provision", "updateRole", "updateStatus"}
         /\ q.op \in {"updateRole", "updateStatus"} =>
              q.actor \in Account /\ q.actor # q.account
         /\ q.op = "updateRole" => q.role \in UserRole
         /\ q.op = "updateStatus" => q.isActive \in BOOLEAN
         /\ q.op = "provision" => q.role \in {"admin", "staff"}
  BY ConfiguredAssumption
  DEF Request, Registration, ManageRequest, Provisioning, UserRole

\* The new version of an existing row is a row.
LEMMA ChangedIsRow ==
  ASSUME NEW t \in Txn, TypeOK, txn[t].request \in Request, Manages(t),
         accounts[AccountOf(t)] # Absent
  PROVE  Changed(t) \in UserRow
  <1> DEFINE q == txn[t].request
             row == accounts[q.account]
  <1>1. /\ q.account \in Account
        /\ q.op = "updateRole" => q.role \in UserRole
        /\ q.op = "updateStatus" => q.isActive \in BOOLEAN
    BY RequestFields
  <1>2. row \in UserRow
    BY <1>1 DEF TypeOK, AccountOf
  <1>3. CASE q.op = "updateRole"
    BY <1>1, <1>2, <1>3 DEF Changed, AccountOf, Op, UserRow
  <1>4. CASE q.op = "updateStatus"
    BY <1>1, <1>2, <1>4 DEF Changed, AccountOf, Op, UserRow
  <1> QED BY <1>3, <1>4 DEF Manages, Op

----------------------------------------------------------------------------
(* A step of one transaction that changes no account.                      *)

\* Nobody else's knowledge is disturbed.
LEMMA OthersKeepTheirs ==
  ASSUME NEW u \in Txn, txn'[u] = txn[u], UNCHANGED accounts, RequestFits(u)
  PROVE  RequestFits(u)'
  BY DEF RequestFits, PhasesFit, HoldsAdvisory, WriteFits, Authorised, RowsOf,
         AccountOf, Op, Manages, ActiveAdmins, Wanted

\* It is enough to look at the transaction that moves.
LEMMA StepOfOne ==
  ASSUME UserInv, NEW t \in Txn, NEW x \in TxnState,
         txn' = [txn EXCEPT ![t] = x], UNCHANGED accounts,
         \A u \in Txn \ {t} : x.rows \cap txn[u].rows = {},
         x.advisory => \A u \in Txn \ {t} : ~txn[u].advisory,
         x.phase = "written" /\ accounts[x.request.account] = Absent =>
           \A u \in Txn \ {t} : ~(Inserts(u) /\ AccountOf(u) = x.request.account),
         RequestFits(t)'
  PROVE  UserInv'
  <1>1. /\ txn'[t] = x
        /\ \A u \in Txn \ {t} : txn'[u] = txn[u]
    BY DEF UserInv, TypeOK
  <1>2. TypeOK'
    BY DEF UserInv, TypeOK
  <1>3. RowsExclude'
    BY <1>1 DEF UserInv, RowsExclude
  <1>4. AdvisoryExcludes'
    BY <1>1 DEF UserInv, AdvisoryExcludes
  <1>5. InsertsExclude'
    BY <1>1 DEF UserInv, InsertsExclude, Inserts, AccountOf
  <1>6. \A u \in Txn : RequestFits(u)'
    BY <1>1, OthersKeepTheirs DEF UserInv
  <1> QED BY <1>2, <1>3, <1>4, <1>5, <1>6 DEF UserInv

\* A transaction that moves on within its request, keeps its locks and does
\* not insert.
LEMMA QuietStep ==
  ASSUME UserInv, NEW t \in Txn, NEW x \in TxnState,
         txn' = [txn EXCEPT ![t] = x], UNCHANGED accounts,
         x.rows \subseteq txn[t].rows,
         x.advisory => txn[t].advisory,
         ~(x.phase = "written" /\ accounts[x.request.account] = Absent),
         RequestFits(t)'
  PROVE  UserInv'
  <1>1. \A u \in Txn \ {t} : x.rows \cap txn[u].rows = {}
    BY DEF UserInv, RowsExclude
  <1>2. x.advisory => \A u \in Txn \ {t} : ~txn[u].advisory
    BY DEF UserInv, AdvisoryExcludes
  <1> QED BY <1>1, <1>2, StepOfOne

----------------------------------------------------------------------------
(* Arrival and the changes of administrators.                              *)

\* Moving to another phase keeps the record well-formed.
LEMMA MovedIsState ==
  ASSUME TypeOK, NEW t \in Txn, NEW p \in Phase, NEW rows \in SUBSET Account,
         NEW advisory \in BOOLEAN, NEW row \in UserRow \cup {Absent}
  PROVE  [txn[t] EXCEPT !.phase = p, !.rows = rows, !.advisory = advisory,
                        !.image = row] \in TxnState
  BY DEF TypeOK, TxnState

LEMMA ReceivePreserves ==
  ASSUME UserInv, NEW t \in Txn, Receive(t)
  PROVE  UserInv'
  <1>1. PICK request \in Request :
          /\ PassesGuards(request)
          /\ txn' = [txn EXCEPT ![t] = [Idle EXCEPT !.phase = FirstPhase(request),
                                                   !.request = request]]
    BY DEF Receive
  <1> DEFINE x == [Idle EXCEPT !.phase = FirstPhase(request), !.request = request]
  <1>2. request.op \in {"register", "provision", "updateRole", "updateStatus"}
    BY RequestFields
  <1>3. FirstPhase(request) \in {"inserting", "queued", "reading", "locking"}
    BY DEF FirstPhase
  <1>4. x \in TxnState
    BY <1>3 DEF Idle, TxnState, Phase
  <1>5. UNCHANGED accounts /\ txn'[t] = x
    BY <1>1 DEF Receive, UserInv, TypeOK
  <1>6. RequestFits(t)'
    <2>1. /\ txn'[t].phase = FirstPhase(request)
          /\ txn'[t].request = request
      BY <1>5 DEF Idle
    <2>2. PhasesFit(t)'
      BY <2>1, <1>1, <1>2, <1>5 DEF PhasesFit, FirstPhase, PassesGuards, Manages,
         Op, AccountOf
    <2>3. HoldsAdvisory(t)'
      BY <2>1, <1>2 DEF HoldsAdvisory, FirstPhase, Op
    <2>4. WriteFits(t)'
      BY <2>1, <1>3 DEF WriteFits
    <2> QED BY <2>2, <2>3, <2>4 DEF RequestFits
  <1>7. /\ x.rows \subseteq txn[t].rows
        /\ ~x.advisory
        /\ x.phase # "written"
    BY <1>3 DEF Idle
  <1> QED BY <1>1, <1>4, <1>5, <1>6, <1>7, QuietStep

\* A transaction that ends without a change, for whatever reason.
LEMMA LeavePreserves ==
  ASSUME UserInv, NEW t \in Txn, Leave(t)
  PROVE  UserInv'
  <1>1. Idle \in TxnState
    BY DEF Idle, TxnState, Phase
  <1>2. txn'[t] = Idle
    BY DEF Leave, UserInv, TypeOK
  <1>3. RequestFits(t)'
    BY <1>2 DEF RequestFits, PhasesFit, HoldsAdvisory, WriteFits, Idle
  <1>4. Idle.rows = {} /\ ~Idle.advisory /\ Idle.phase = "idle"
    BY DEF Idle
  <1> QED BY <1>1, <1>3, <1>4, QuietStep DEF Leave

\* The actor and the target of a change.
LEMMA RowsAreAccounts ==
  ASSUME UserInv, NEW t \in Txn, txn[t].phase # "idle", Manages(t)
  PROVE  /\ txn[t].request.actor \in Account
         /\ AccountOf(t) \in Account
         /\ txn[t].request.actor # AccountOf(t)
         /\ RowsOf(t) \subseteq Account
         /\ accounts[AccountOf(t)] # Absent
  BY RequestFields DEF UserInv, RequestFits, PhasesFit, Manages, Op, AccountOf, RowsOf

LEMMA LockRowPreserves ==
  ASSUME UserInv, NEW t \in Txn, LockRow(t)
  PROVE  UserInv'
  <1> DEFINE a == NextRow(t)
             x == [txn[t] EXCEPT !.rows = @ \cup {a}]
  <1>1. /\ txn[t] \in TxnState
        /\ txn[t].phase = "locking"
        /\ RequestFits(t)
        /\ Manages(t)
    BY DEF UserInv, TypeOK, LockRow, RequestFits, PhasesFit
  <1>2. a \in Account
    <2>1. RowsOf(t) \subseteq Account
      BY <1>1, RowsAreAccounts
    <2>2. \E c \in RowsOf(t) \ txn[t].rows : \A d \in RowsOf(t) \ txn[t].rows : c <= d
      <3>1. RowsOf(t) \subseteq Nat
        BY <2>1, AccountAssumption
      <3>2. RowsOf(t) \ txn[t].rows # {}
        BY DEF LockRow
      <3> QED BY <3>1, <3>2 DEF RowsOf
    <2> QED BY <2>1, <2>2 DEF NextRow
  <1>3. x \in TxnState
    BY <1>1, <1>2 DEF TxnState
  <1>4. txn' = [txn EXCEPT ![t] = x] /\ UNCHANGED accounts /\ txn'[t] = x
    BY DEF LockRow, UserInv, TypeOK
  <1>5. /\ x.phase = "locking" /\ x.request = txn[t].request
        /\ x.advisory = txn[t].advisory
        /\ x.rows = txn[t].rows \cup {a}
    BY <1>1 DEF TxnState
  <1>6. \A u \in Txn \ {t} : x.rows \cap txn[u].rows = {}
    BY <1>5 DEF LockRow, Locked, UserInv, RowsExclude
  <1>7. x.advisory => \A u \in Txn \ {t} : ~txn[u].advisory
    BY <1>5 DEF UserInv, AdvisoryExcludes
  <1>8. RequestFits(t)'
    BY <1>1, <1>4, <1>5 DEF RequestFits, PhasesFit, HoldsAdvisory, WriteFits,
       AccountOf, Op, Manages
  <1> QED BY <1>3, <1>4, <1>5, <1>6, <1>7, <1>8, StepOfOne

\* A request whose checks passed under its row locks is authorised.
LEMMA CheckedIsAuthorised ==
  ASSUME UserInv, NEW t \in Txn, HasRows(t), MayManage(t)
  PROVE  /\ Manages(t)
         /\ txn[t].request \in Request
         /\ AccountOf(t) \in Account
         /\ Authorised(t)
  <1>1. Manages(t) /\ txn[t].request \in Request /\ txn[t].phase # "idle"
    BY DEF HasRows, UserInv, RequestFits, PhasesFit
  <1> QED BY <1>1, RowsAreAccounts DEF HasRows, MayManage, Authorised, ActiveAdmins

\* An authorised request stages its change.
LEMMA StagedChange ==
  ASSUME UserInv, NEW t \in Txn, Manages(t), txn[t].phase # "idle",
         Authorised(t), Stage(t, Changed(t))
  PROVE  UserInv'
  <1> DEFINE x == [txn[t] EXCEPT !.phase = "written", !.image = Changed(t)]
  <1>1. /\ txn[t] \in TxnState
        /\ RequestFits(t)
        /\ txn[t].request \in Request
        /\ AccountOf(t) \in Account
    BY RowsAreAccounts DEF UserInv, TypeOK, RequestFits, PhasesFit
  <1>2. Changed(t) \in UserRow
    BY <1>1, ChangedIsRow DEF UserInv, Authorised
  <1>3. x \in TxnState
    BY <1>1, <1>2 DEF TxnState, Phase
  <1>4. txn' = [txn EXCEPT ![t] = x] /\ UNCHANGED accounts /\ txn'[t] = x
    BY DEF Stage, UserInv, TypeOK
  <1>5. /\ x.phase = "written" /\ x.request = txn[t].request
        /\ x.advisory = txn[t].advisory /\ x.rows = txn[t].rows
        /\ x.image = Changed(t)
    BY <1>1 DEF TxnState
  <1>6. RequestFits(t)'
    <2>1. PhasesFit(t)'
      BY <1>1, <1>4, <1>5 DEF PhasesFit, RequestFits, Authorised, AccountOf, Op, Manages
    <2>2. HoldsAdvisory(t)'
      BY <1>4, <1>5 DEF HoldsAdvisory, Op, Manages
    <2>3. WriteFits(t)'
      BY <1>2, <1>4, <1>5 DEF WriteFits, Authorised, RowsOf, AccountOf, ActiveAdmins,
         Op, Manages
    <2> QED BY <2>1, <2>2, <2>3 DEF RequestFits
  <1>7. ~(x.phase = "written" /\ accounts[x.request.account] = Absent)
    BY <1>5 DEF Authorised, AccountOf
  <1> QED BY <1>3, <1>4, <1>5, <1>6, <1>7, QuietStep

LEMMA ChangePreserves ==
  ASSUME UserInv, NEW t \in Txn, Change(t)
  PROVE  UserInv'
  <1>1. Manages(t) /\ Authorised(t) /\ txn[t].phase # "idle"
    BY CheckedIsAuthorised DEF Change, HasRows
  <1> QED BY <1>1, StagedChange DEF Change

LEMMA GuardLastAdminPreserves ==
  ASSUME UserInv, NEW t \in Txn, GuardLastAdmin(t)
  PROVE  UserInv'
  <1> DEFINE x == [txn[t] EXCEPT !.phase = "counting", !.advisory = TRUE]
  <1>1. /\ txn[t] \in TxnState
        /\ RequestFits(t)
        /\ Manages(t)
        /\ txn[t].request \in Request
        /\ AccountOf(t) \in Account
        /\ Authorised(t)
    BY CheckedIsAuthorised DEF GuardLastAdmin, UserInv, TypeOK
  <1>2. x \in TxnState
    BY <1>1 DEF TxnState, Phase
  <1>3. txn' = [txn EXCEPT ![t] = x] /\ UNCHANGED accounts /\ txn'[t] = x
    BY DEF GuardLastAdmin, UserInv, TypeOK
  <1>4. /\ x.phase = "counting" /\ x.request = txn[t].request
        /\ x.advisory = TRUE /\ x.rows = txn[t].rows
    BY <1>1 DEF TxnState
  <1>5. \A u \in Txn \ {t} : x.rows \cap txn[u].rows = {}
    BY <1>4 DEF UserInv, RowsExclude
  <1>6. \A u \in Txn \ {t} : ~txn[u].advisory
    BY DEF GuardLastAdmin, AdvisoryIsFree
  <1>7. RequestFits(t)'
    <2>1. PhasesFit(t)'
      BY <1>1, <1>3, <1>4 DEF PhasesFit, RequestFits, Authorised, AccountOf, Op, Manages
    <2>2. HoldsAdvisory(t)'
      BY <1>3, <1>4 DEF HoldsAdvisory, Op
    <2>3. AccountOf(t) \in ActiveAdmins
      BY <1>1 DEF GuardLastAdmin, RemovesActiveAdmin, ActiveAdmins
    <2>4. /\ ActiveAdmins' = ActiveAdmins
          /\ AccountOf(t)' = AccountOf(t)
          /\ RowsOf(t)' = RowsOf(t)
          /\ Manages(t)'
      BY <1>1, <1>3, <1>4 DEF ActiveAdmins, AccountOf, RowsOf, Op, Manages
    <2>5. Authorised(t)'
      BY <1>1, <1>3, <1>4, <2>4 DEF Authorised
    <2>6. WriteFits(t)'
      BY <2>3, <2>4, <2>5, <1>3, <1>4 DEF WriteFits
    <2> QED BY <2>1, <2>2, <2>6 DEF RequestFits
  <1> QED BY <1>2, <1>3, <1>4, <1>5, <1>6, <1>7, StepOfOne

LEMMA RemoveAdminPreserves ==
  ASSUME UserInv, NEW t \in Txn, RemoveAdmin(t)
  PROVE  UserInv'
  <1>1. Manages(t) /\ Authorised(t) /\ txn[t].phase # "idle"
    BY DEF RemoveAdmin, Counting, UserInv, RequestFits, WriteFits
  <1> QED BY <1>1, StagedChange DEF RemoveAdmin

----------------------------------------------------------------------------
(* Provisioning and INSERTs.                                               *)

LEMMA SerializeProvisioningPreserves ==
  ASSUME UserInv, NEW t \in Txn, SerializeProvisioning(t)
  PROVE  UserInv'
  <1> DEFINE x == [txn[t] EXCEPT !.phase = "reading", !.advisory = TRUE]
  <1>1. /\ txn[t] \in TxnState
        /\ RequestFits(t)
        /\ txn[t].phase = "queued"
    BY DEF SerializeProvisioning, UserInv, TypeOK
  <1>2. x \in TxnState
    BY <1>1 DEF TxnState, Phase
  <1>3. txn' = [txn EXCEPT ![t] = x] /\ UNCHANGED accounts /\ txn'[t] = x
    BY DEF SerializeProvisioning, UserInv, TypeOK
  <1>4. /\ x.phase = "reading" /\ x.request = txn[t].request
        /\ x.advisory = TRUE /\ x.rows = txn[t].rows
    BY <1>1 DEF TxnState
  <1>5. \A u \in Txn \ {t} : x.rows \cap txn[u].rows = {}
    BY <1>4 DEF UserInv, RowsExclude
  <1>6. \A u \in Txn \ {t} : ~txn[u].advisory
    BY DEF SerializeProvisioning, AdvisoryIsFree
  <1>7. RequestFits(t)'
    BY <1>1, <1>3, <1>4 DEF RequestFits, PhasesFit, HoldsAdvisory, WriteFits,
       AccountOf, Op, Manages
  <1> QED BY <1>2, <1>3, <1>4, <1>5, <1>6, <1>7, StepOfOne

\* Moving on without another lock and without writing.
LEMMA MovePreserves ==
  ASSUME UserInv, NEW t \in Txn, NEW p \in Phase, p # "written", Move(t, p),
         RequestFits(t)'
  PROVE  UserInv'
  <1> DEFINE x == [txn[t] EXCEPT !.phase = p]
  <1>1. txn[t] \in TxnState
    BY DEF UserInv, TypeOK
  <1>2. /\ x \in TxnState
        /\ x.phase = p /\ x.rows = txn[t].rows /\ x.advisory = txn[t].advisory
    BY <1>1 DEF TxnState
  <1>3. txn' = [txn EXCEPT ![t] = x] /\ UNCHANGED accounts
    BY DEF Move
  <1> QED BY <1>2, <1>3, QuietStep

\* What a transaction keeps when it only moves to another phase.
LEMMA MovedFields ==
  ASSUME UserInv, NEW t \in Txn, NEW p \in Phase, Move(t, p)
  PROVE  /\ txn'[t].phase = p
         /\ txn'[t].request = txn[t].request
         /\ txn'[t].advisory = txn[t].advisory
         /\ UNCHANGED accounts
  BY DEF Move, UserInv, TypeOK, TxnState

LEMMA FindAccountPreserves ==
  ASSUME UserInv, NEW t \in Txn, FindAccount(t)
  PROVE  UserInv'
  <1>1. txn[t].phase = "reading" /\ RequestFits(t)
    BY DEF FindAccount, UserInv
  <1>2. "inserting" \in Phase /\ "counting" \in Phase
    BY DEF Phase
  <1>3. CASE accounts[AccountOf(t)] = Absent /\ Move(t, "inserting")
    <2>1. RequestFits(t)'
      BY <1>1, <1>2, <1>3, MovedFields DEF RequestFits, PhasesFit, HoldsAdvisory,
         WriteFits, AccountOf, Op, Manages
    <2> QED BY <1>2, <1>3, <2>1, MovePreserves
  <1>4. CASE /\ accounts[AccountOf(t)] # Absent
             /\ txn[t].request.role = "admin"
             /\ Move(t, "counting")
    <2>1. RequestFits(t)'
      BY <1>1, <1>2, <1>4, MovedFields DEF RequestFits, PhasesFit, HoldsAdvisory,
         WriteFits, AccountOf, Op, Manages
    <2> QED BY <1>2, <1>4, <2>1, MovePreserves
  <1>5. CASE Leave(t)
    BY <1>5, LeavePreserves
  <1> QED BY <1>3, <1>4, <1>5 DEF FindAccount

LEMMA CountAdminsPreserves ==
  ASSUME UserInv, NEW t \in Txn, CountAdmins(t)
  PROVE  UserInv'
  <1>1. txn[t].phase = "counting" /\ Op(t) = "provision" /\ RequestFits(t)
    BY DEF CountAdmins, UserInv
  <1>2. "updating" \in Phase
    BY DEF Phase
  <1>3. CASE ActiveAdmins = {} /\ Move(t, "updating")
    <2>1. RequestFits(t)'
      BY <1>1, <1>2, <1>3, MovedFields DEF RequestFits, PhasesFit, HoldsAdvisory,
         WriteFits, AccountOf, Op, Manages, ActiveAdmins
    <2> QED BY <1>2, <1>3, <2>1, MovePreserves
  <1>4. CASE Leave(t)
    BY <1>4, LeavePreserves
  <1> QED BY <1>3, <1>4 DEF CountAdmins

LEMMA RecoverPreserves ==
  ASSUME UserInv, NEW t \in Txn, Recover(t)
  PROVE  UserInv'
  <1> DEFINE a == AccountOf(t)
             x == [txn[t] EXCEPT !.phase = "written", !.image = Wanted(t), !.rows = {a}]
  <1>1. /\ txn[t] \in TxnState
        /\ RequestFits(t)
        /\ txn[t].phase = "updating"
        /\ txn[t].request \in Request
        /\ Op(t) = "provision"
        /\ txn[t].request.role = "admin"
        /\ txn[t].advisory
        /\ ActiveAdmins = {}
        /\ accounts[a] # Absent
    BY DEF Recover, UserInv, TypeOK, RequestFits, PhasesFit, HoldsAdvisory, WriteFits
  <1>2. a \in Account
    BY <1>1, RequestFields DEF AccountOf
  <1>3. Wanted(t) \in UserRow
    BY <1>1 DEF Wanted, UserRow, UserRole
  <1>4. x \in TxnState
    BY <1>1, <1>2, <1>3 DEF TxnState, Phase
  <1>5. txn' = [txn EXCEPT ![t] = x] /\ UNCHANGED accounts /\ txn'[t] = x
    BY DEF Recover, UserInv, TypeOK
  <1>6. /\ x.phase = "written" /\ x.request = txn[t].request
        /\ x.advisory = txn[t].advisory /\ x.rows = {a} /\ x.image = Wanted(t)
    BY <1>1 DEF TxnState
  <1>7. \A u \in Txn \ {t} : x.rows \cap txn[u].rows = {}
    BY <1>6 DEF Recover, Locked
  <1>8. x.advisory => \A u \in Txn \ {t} : ~txn[u].advisory
    BY <1>1 DEF UserInv, AdvisoryExcludes
  <1>9. RequestFits(t)'
    <2>1. /\ ActiveAdmins' = {}
          /\ AccountOf(t)' = a
          /\ Wanted(t)' = Wanted(t)
          /\ Op(t)' = "provision"
          /\ ~Manages(t)'
      BY <1>1, <1>5, <1>6 DEF ActiveAdmins, AccountOf, Wanted, Op, Manages
    <2>2. PhasesFit(t)'
      BY <1>1, <1>5, <1>6, <2>1 DEF PhasesFit
    <2>3. HoldsAdvisory(t)'
      BY <1>1, <1>5, <1>6 DEF HoldsAdvisory
    <2>4. WriteFits(t)'
      BY <1>1, <1>3, <1>5, <1>6, <2>1 DEF WriteFits
    <2> QED BY <2>2, <2>3, <2>4 DEF RequestFits
  <1>10. ~(accounts[x.request.account] = Absent)
    BY <1>1, <1>6 DEF AccountOf
  <1> QED BY <1>4, <1>5, <1>7, <1>8, <1>9, <1>10, StepOfOne

LEMMA InsertPreserves ==
  ASSUME UserInv, NEW t \in Txn, Insert(t)
  PROVE  UserInv'
  <1> DEFINE x == [txn[t] EXCEPT !.phase = "written", !.image = NewRow(t)]
  <1>1. /\ txn[t] \in TxnState
        /\ RequestFits(t)
        /\ txn[t].phase = "inserting"
        /\ txn[t].request \in Request
        /\ ~Manages(t)
        /\ accounts[AccountOf(t)] = Absent
    BY DEF Insert, UserInv, TypeOK, RequestFits, PhasesFit
  <1>2. /\ Op(t) \in {"register", "provision"}
        /\ Op(t) = "provision" => txn[t].request.role \in {"admin", "staff"}
    BY <1>1, RequestFields DEF Manages, Op
  <1>3. /\ NewRow(t) \in UserRow
        /\ Op(t) = "register" => ~IsActiveAdmin(NewRow(t))
        /\ Op(t) = "provision" => NewRow(t) = Wanted(t)
    BY <1>2 DEF NewRow, Wanted, UserRow, UserRole, IsActiveAdmin
  <1>4. x \in TxnState
    BY <1>1, <1>3 DEF TxnState, Phase
  <1>5. txn' = [txn EXCEPT ![t] = x] /\ UNCHANGED accounts /\ txn'[t] = x
    BY DEF Insert, Stage, UserInv, TypeOK
  <1>6. /\ x.phase = "written" /\ x.request = txn[t].request
        /\ x.advisory = txn[t].advisory /\ x.rows = txn[t].rows
        /\ x.image = NewRow(t)
    BY <1>1 DEF TxnState
  <1>7. \A u \in Txn \ {t} : x.rows \cap txn[u].rows = {}
    BY <1>6 DEF UserInv, RowsExclude
  <1>8. x.advisory => \A u \in Txn \ {t} : ~txn[u].advisory
    BY <1>6 DEF UserInv, AdvisoryExcludes
  <1>9. \A u \in Txn \ {t} : ~(Inserts(u) /\ AccountOf(u) = x.request.account)
    BY <1>6 DEF Insert, Contested, Inserts, AccountOf
  <1>10. RequestFits(t)'
    <2>1. /\ AccountOf(t)' = AccountOf(t)
          /\ Wanted(t)' = Wanted(t)
          /\ Op(t)' = Op(t)
          /\ ~Manages(t)'
      BY <1>1, <1>5, <1>6 DEF AccountOf, Wanted, Op, Manages
    <2>2. PhasesFit(t)'
      BY <1>1, <1>5, <1>6, <2>1 DEF PhasesFit
    <2>3. HoldsAdvisory(t)'
      BY <1>1, <1>5, <1>6, <2>1 DEF RequestFits, HoldsAdvisory
    <2>4. WriteFits(t)'
      BY <1>1, <1>3, <1>5, <1>6, <2>1 DEF WriteFits
    <2> QED BY <2>2, <2>3, <2>4 DEF RequestFits
  <1> QED BY <1>4, <1>5, <1>7, <1>8, <1>9, <1>10, StepOfOne

----------------------------------------------------------------------------
(* COMMIT: the one step that changes an account.                           *)

\* An account keeps existing.
LEMMA AccountsStay ==
  ASSUME UserInv, NEW t \in Txn, Commit(t)
  PROVE  /\ txn[t].image \in UserRow
         /\ AccountOf(t) \in Account
         /\ accounts'[AccountOf(t)] = txn[t].image
         /\ \A a \in Account \ {AccountOf(t)} : accounts'[a] = accounts[a]
         /\ \A a \in Account : accounts[a] # Absent => accounts'[a] # Absent
         /\ txn'[t] = Idle
         /\ \A u \in Txn \ {t} : txn'[u] = txn[u]
  <1>1. txn[t].request \in Request /\ txn[t].image \in UserRow
    BY DEF Commit, UserInv, RequestFits, PhasesFit, WriteFits
  <1>2. AccountOf(t) \in Account
    BY <1>1, RequestFields DEF AccountOf
  <1> QED BY <1>1, <1>2, AbsentIsNoRow DEF Commit, UserInv, TypeOK

\* A row that another transaction has locked is not the one that commits,
\* unless it is an INSERT.
LEMMA LockedRowsStay ==
  ASSUME UserInv, NEW t \in Txn, Commit(t), NEW u \in Txn \ {t},
         NEW a \in txn[u].rows, accounts[a] # Absent
  PROVE  AccountOf(t) # a
  <1> SUFFICES ASSUME AccountOf(t) = a PROVE FALSE
    OBVIOUS
  <1>1. /\ txn[t].phase = "written"
        /\ RequestFits(t)
        /\ txn[t].request \in Request
        /\ txn[t].rows \cap txn[u].rows = {}
    BY DEF Commit, UserInv, RequestFits, PhasesFit, RowsExclude
  <1>2. Op(t) \in {"register", "provision"} \/ Manages(t)
    BY <1>1, RequestFields DEF Op, Manages
  <1>3. a \in txn[t].rows
    BY <1>1, <1>2 DEF RequestFits, WriteFits, Authorised, RowsOf
  <1> QED BY <1>1, <1>3

\* An administrator whose row another transaction has locked stays one.
LEMMA LockedAdminsStay ==
  ASSUME UserInv, NEW t \in Txn, Commit(t), NEW u \in Txn \ {t},
         NEW a \in txn[u].rows, a \in ActiveAdmins
  PROVE  a \in ActiveAdmins'
  <1>1. accounts[a] # Absent
    BY AbsentIsNoRow DEF ActiveAdmins
  <1>2. AccountOf(t) # a
    BY <1>1, LockedRowsStay
  <1> QED BY <1>2, AccountsStay DEF ActiveAdmins

\* Nobody but the holder of the advisory lock creates an administrator where
\* there is none.
LEMMA NoAdminAppears ==
  ASSUME UserInv, NEW t \in Txn, Commit(t), NEW u \in Txn \ {t},
         txn[u].advisory, ActiveAdmins = {}
  PROVE  ActiveAdmins' = {}
  <1>1. /\ txn[t].phase = "written"
        /\ RequestFits(t)
        /\ txn[t].request \in Request
        /\ ~txn[t].advisory
    BY DEF Commit, UserInv, RequestFits, PhasesFit, AdvisoryExcludes
  <1>2. ~Manages(t)
    BY <1>1 DEF RequestFits, WriteFits, Authorised
  <1>3. /\ Op(t) \in {"register", "provision"}
        /\ Op(t) = "provision" => txn[t].request.role = "staff"
    BY <1>1, <1>2, RequestFields DEF Op, Manages, RequestFits, HoldsAdvisory
  <1>4. ~IsActiveAdmin(txn[t].image)
    BY <1>1, <1>3 DEF RequestFits, WriteFits, Wanted, IsActiveAdmin
  <1> QED BY <1>4, AccountsStay DEF ActiveAdmins

LEMMA CommitPreserves ==
  ASSUME UserInv, NEW t \in Txn, Commit(t)
  PROVE  UserInv'
  <1>1. Idle \in TxnState
    BY DEF Idle, TxnState, Phase
  <1>2. TypeOK'
    BY <1>1, AccountsStay DEF Commit, UserInv, TypeOK
  <1>3. RowsExclude'
    BY AccountsStay DEF UserInv, RowsExclude, Idle
  <1>4. AdvisoryExcludes'
    BY AccountsStay DEF UserInv, AdvisoryExcludes, Idle
  <1>5. ASSUME NEW u \in Txn \ {t}
        PROVE  /\ txn'[u] = txn[u]
               /\ Op(u)' = Op(u) /\ AccountOf(u)' = AccountOf(u)
               /\ RowsOf(u)' = RowsOf(u) /\ Wanted(u)' = Wanted(u)
               /\ Manages(u)' = Manages(u)
    BY AccountsStay DEF Op, AccountOf, RowsOf, Wanted, Manages
  <1>6. ASSUME NEW u \in Txn \ {t}, txn[u].phase # "idle"
        PROVE  txn[u].request \in Request /\ AccountOf(u) \in Account
    BY <1>6, RequestFields DEF UserInv, RequestFits, PhasesFit, AccountOf
  <1>7. ASSUME NEW u \in Txn \ {t}, Inserts(u)
        PROVE  AccountOf(u) # AccountOf(t)
    <2> SUFFICES ASSUME AccountOf(u) = AccountOf(t) PROVE FALSE
      OBVIOUS
    <2>1. Inserts(t)
      BY <1>7 DEF Inserts, Commit
    <2> QED BY <1>7, <2>1 DEF UserInv, InsertsExclude
  <1>8. InsertsExclude'
    <2>1. ASSUME NEW u \in Txn \ {t}, Inserts(u)'
          PROVE  Inserts(u)
      BY <1>5, <1>6, <2>1, AccountsStay DEF Inserts
    <2>2. ~Inserts(t)'
      BY AccountsStay DEF Inserts, Idle
    <2> QED BY <1>5, <2>1, <2>2 DEF UserInv, InsertsExclude
  <1>9. RequestFits(t)'
    BY AccountsStay DEF RequestFits, PhasesFit, HoldsAdvisory, WriteFits, Idle
  <1>10. ASSUME NEW u \in Txn \ {t}
         PROVE  RequestFits(u)'
    <2>1. RequestFits(u)
      BY DEF UserInv
    <2>2. PhasesFit(u)'
      BY <1>5, <1>6, <2>1, AccountsStay DEF RequestFits, PhasesFit
    <2>3. HoldsAdvisory(u)'
      BY <1>5, <2>1 DEF RequestFits, HoldsAdvisory
    <2>4. ASSUME txn[u].phase \in {"counting", "written"}, Manages(u)
          PROVE  Authorised(u)'
      <3>1. Authorised(u)
        BY <2>1, <2>4 DEF RequestFits, WriteFits
      <3>2. txn[u].request.actor \in ActiveAdmins'
        BY <3>1, LockedAdminsStay DEF Authorised, RowsOf
      <3>3. accounts'[AccountOf(u)] # Absent
        BY <1>6, <2>4, <3>1, AccountsStay DEF Authorised
      <3> QED BY <1>5, <3>1, <3>2, <3>3 DEF Authorised
    <2>5. ASSUME txn[u].phase = "counting", Manages(u)
          PROVE  AccountOf(u) \in ActiveAdmins'
      BY <2>1, <2>5, LockedAdminsStay DEF RequestFits, WriteFits, Authorised, RowsOf
    <2>6. ASSUME txn[u].phase = "updating"
          PROVE  ActiveAdmins' = {}
      BY <2>1, <2>6, NoAdminAppears DEF RequestFits, WriteFits, HoldsAdvisory
    <2>7. ASSUME txn[u].phase = "written", Op(u) = "register"
          PROVE  accounts'[AccountOf(u)] = Absent /\ ~IsActiveAdmin(txn[u].image)
      <3>1. Inserts(u) /\ ~IsActiveAdmin(txn[u].image)
        BY <2>1, <2>7 DEF RequestFits, WriteFits, Inserts
      <3> QED BY <1>6, <1>7, <2>7, <3>1, AccountsStay DEF Inserts
    <2>8. ASSUME txn[u].phase = "written", Op(u) = "provision",
                 accounts'[AccountOf(u)] # Absent
          PROVE  /\ txn[u].request.role = "admin"
                 /\ AccountOf(u) \in txn[u].rows
                 /\ ActiveAdmins' = {}
      <3>1. accounts[AccountOf(u)] # Absent
        BY <1>6, <1>7, <2>8, AccountsStay DEF Inserts
      <3>2. /\ txn[u].request.role = "admin"
            /\ AccountOf(u) \in txn[u].rows
            /\ ActiveAdmins = {}
        BY <2>1, <2>8, <3>1 DEF RequestFits, WriteFits
      <3>3. txn[u].advisory
        BY <2>1, <2>8, <3>2 DEF RequestFits, HoldsAdvisory
      <3> QED BY <3>2, <3>3, NoAdminAppears
    <2>9. WriteFits(u)'
      <3>1. /\ txn[u].phase = "written" => txn[u].image \in UserRow
            /\ txn[u].phase = "written" /\ Op(u) = "provision" =>
                 txn[u].image = Wanted(u)
        BY <2>1 DEF RequestFits, WriteFits
      <3> QED BY <1>5, <2>4, <2>5, <2>6, <2>7, <2>8, <3>1 DEF WriteFits
    <2> QED BY <2>2, <2>3, <2>9 DEF RequestFits
  <1> QED BY <1>2, <1>3, <1>4, <1>8, <1>9, <1>10 DEF UserInv

----------------------------------------------------------------------------
(* The invariant and the theorems.                                         *)

LEMMA InitIsSafe ==
  ASSUME Init
  PROVE  UserInv
  <1>1. Idle \in TxnState
    BY DEF Idle, TxnState, Phase
  <1>2. TypeOK
    BY <1>1, InitialRowAssumption DEF Init, TypeOK
  <1>3. RowsExclude /\ AdvisoryExcludes /\ InsertsExclude
    BY DEF Init, RowsExclude, AdvisoryExcludes, InsertsExclude, Inserts, Idle
  <1>4. \A t \in Txn : RequestFits(t)
    BY DEF Init, RequestFits, PhasesFit, HoldsAdvisory, WriteFits, Idle
  <1> QED BY <1>2, <1>3, <1>4 DEF UserInv

LEMMA NextIsSafe ==
  ASSUME UserInv, [Next]_vars
  PROVE  UserInv'
  <1>1. CASE UNCHANGED vars
    <2>1. \A t \in Txn : RequestFits(t)'
      BY <1>1, OthersKeepTheirs DEF vars, UserInv
    <2>2. /\ TypeOK'
          /\ RowsExclude'
          /\ AdvisoryExcludes'
          /\ InsertsExclude'
      BY <1>1 DEF vars, UserInv, TypeOK, RowsExclude, AdvisoryExcludes,
         InsertsExclude, Inserts, AccountOf
    <2> QED BY <2>1, <2>2 DEF UserInv
  <1>2. ASSUME NEW t \in Txn, Receive(t)
        PROVE  UserInv'
    BY <1>2, ReceivePreserves
  <1>3. ASSUME NEW t \in Txn, Manage(t)
        PROVE  UserInv'
    BY <1>3, LockRowPreserves, ChangePreserves, GuardLastAdminPreserves,
       RemoveAdminPreserves, LeavePreserves DEF Manage, RefuseChange
  <1>4. ASSUME NEW t \in Txn, Provision(t)
        PROVE  UserInv'
    BY <1>4, SerializeProvisioningPreserves, FindAccountPreserves,
       CountAdminsPreserves, RecoverPreserves DEF Provision
  <1>5. ASSUME NEW t \in Txn, Insert(t) \/ AlreadyExists(t) \/ Commit(t)
        PROVE  UserInv'
    BY <1>5, InsertPreserves, LeavePreserves, CommitPreserves DEF AlreadyExists
  <1>6. ASSUME NEW t \in Txn, Abort(t)
        PROVE  UserInv'
    BY <1>6, LeavePreserves DEF Abort
  <1> QED BY <1>1, <1>2, <1>3, <1>4, <1>5, <1>6 DEF Next, Progress

\* The inductive invariant: row locks and the advisory lock exclude, and what
\* a request has checked stays true until it commits.
THEOREM UserInvariantHolds == Spec => []UserInv
  <1>1. Init => UserInv
    BY InitIsSafe
  <1>2. UserInv /\ [Next]_vars => UserInv'
    BY NextIsSafe
  <1> QED BY <1>1, <1>2, PTL DEF Spec

\* Every reachable state is well-typed.
THEOREM AccountsWellTyped == Spec => []TypeOK
  <1>1. UserInv => TypeOK
    BY DEF UserInv
  <1> QED BY <1>1, UserInvariantHolds, PTL

\* Only COMMIT changes an account.
LEMMA OnlyCommitWrites ==
  ASSUME Next, ~UNCHANGED accounts
  PROVE  \E t \in Txn : Commit(t)
  BY DEF Next, Receive, Progress, Manage, LockRow, Change, GuardLastAdmin,
     RemoveAdmin, RefuseChange, Provision, SerializeProvisioning, FindAccount,
     CountAdmins, Recover, Insert, AlreadyExists, Abort, Stage, Leave, Move

\* What commits is an INSERT, an authorised change, or a recovery.
LEMMA KindsOfCommit ==
  ASSUME UserInv, NEW t \in Txn, Commit(t)
  PROVE  \/ accounts[AccountOf(t)] = Absent
         \/ Manages(t) /\ Authorised(t) /\ txn[t].request.actor # AccountOf(t)
         \/ Op(t) = "provision" /\ ~Manages(t) /\ ActiveAdmins = {}
  <1>1. /\ txn[t].phase = "written"
        /\ RequestFits(t)
        /\ txn[t].request \in Request
    BY DEF Commit, UserInv, RequestFits, PhasesFit
  <1>2. Op(t) \in {"register", "provision"} \/ Manages(t)
    BY <1>1, RequestFields DEF Op, Manages
  <1>3. CASE Manages(t)
    BY <1>1, <1>3, RowsAreAccounts DEF RequestFits, WriteFits
  <1>4. CASE Op(t) \in {"register", "provision"}
    BY <1>1, <1>4 DEF RequestFits, WriteFits, Manages
  <1> QED BY <1>2, <1>3, <1>4

\* Once there is an active administrator there always is one, for any number
\* of accounts, concurrent requests and starting instances.
THEOREM AnAdminRemains == Spec => AdminsRemain
  <1>1. ASSUME UserInv, [Next]_vars, ActiveAdmins # {}
        PROVE  ActiveAdmins' # {}
    <2>1. CASE UNCHANGED accounts
      BY <1>1, <2>1 DEF ActiveAdmins
    <2>2. CASE ~UNCHANGED accounts
      <3>1. PICK t \in Txn : Commit(t)
        BY <1>1, <2>2, OnlyCommitWrites DEF vars
      <3>2. CASE accounts[AccountOf(t)] = Absent
        <4>1. PICK a \in Account : a \in ActiveAdmins
          BY <1>1 DEF ActiveAdmins
        <4>2. a # AccountOf(t)
          BY <3>2, <4>1, AbsentIsNoRow DEF ActiveAdmins
        <4>3. a \in ActiveAdmins'
          BY <1>1, <3>1, <4>1, <4>2, AccountsStay DEF ActiveAdmins
        <4> QED BY <4>3
      <3>3. CASE Authorised(t) /\ txn[t].request.actor # AccountOf(t)
        <4>1. txn[t].request.actor \in ActiveAdmins'
          BY <1>1, <3>1, <3>3, AccountsStay DEF Authorised, ActiveAdmins
        <4> QED BY <4>1
      <3> QED BY <1>1, <3>1, <3>2, <3>3, KindsOfCommit
    <2> QED BY <2>1, <2>2
  <1>2. UserInv /\ [Next]_vars => [ActiveAdmins # {} => ActiveAdmins' # {}]_vars
    BY <1>1
  <1> QED BY <1>2, UserInvariantHolds, PTL DEF Spec, AdminsRemain

\* An account changes only by the hand of an account that is an active
\* administrator at that moment, or while there is none.
THEOREM OnlyAdminsChangeAccounts == Spec => ChangesAreMadeByAdmins
  <1> DEFINE Made ==
        \A a \in Account :
          /\ accounts[a] # Absent
          /\ accounts'[a] # accounts[a]
          => \E t \in Txn :
               /\ txn[t].phase = "written"
               /\ AccountOf(t) = a
               /\ Manages(t) => txn[t].request.actor \in ActiveAdmins
               /\ ~Manages(t) => ActiveAdmins = {}
  <1>1. ASSUME UserInv, [Next]_vars, NEW a \in Account, accounts[a] # Absent,
               accounts'[a] # accounts[a]
        PROVE  \E t \in Txn :
                 /\ txn[t].phase = "written"
                 /\ AccountOf(t) = a
                 /\ Manages(t) => txn[t].request.actor \in ActiveAdmins
                 /\ ~Manages(t) => ActiveAdmins = {}
    <2>1. PICK t \in Txn : Commit(t)
      BY <1>1, OnlyCommitWrites DEF vars
    <2>2. AccountOf(t) = a
      BY <1>1, <2>1, AccountsStay
    <2>3. \/ Manages(t) /\ Authorised(t)
          \/ ~Manages(t) /\ ActiveAdmins = {}
      BY <1>1, <2>1, <2>2, KindsOfCommit
    <2> QED BY <2>1, <2>2, <2>3 DEF Authorised, Commit
  <1>2. UserInv /\ [Next]_vars => [Made]_vars
    BY <1>1
  <1> QED BY <1>2, UserInvariantHolds, PTL DEF Spec, ChangesAreMadeByAdmins

\* A restart changes an existing account only while no active administrator
\* exists.
THEOREM RecoveryIsLastResort == Spec => []RecoveryOnlyWithoutAdmins
  <1>1. UserInv => RecoveryOnlyWithoutAdmins
    BY DEF UserInv, RequestFits, WriteFits, RecoveryOnlyWithoutAdmins
  <1> QED BY <1>1, UserInvariantHolds, PTL

\* The last administrator guard always finds another administrator.
THEOREM GuardFindsAnother == Spec => []AnotherAdminRemains
  <1>1. ASSUME UserInv, NEW t \in Txn, Counting(t)
        PROVE  Cardinality(ActiveAdmins) > 1
    <2> DEFINE actor  == txn[t].request.actor
               target == AccountOf(t)
    <2>1. actor \in ActiveAdmins /\ target \in ActiveAdmins /\ actor # target
      BY <1>1, RowsAreAccounts DEF Counting, UserInv, RequestFits, WriteFits, Authorised
    <2>2. IsFiniteSet(ActiveAdmins)
      BY AccountAssumption, FS_Subset DEF ActiveAdmins
    <2>3. Cardinality({actor, target}) = 2
      <3>1. /\ Cardinality({actor}) = 1
            /\ IsFiniteSet({actor})
        BY FS_Singleton
      <3>2. Cardinality({actor} \cup {target}) = Cardinality({actor}) + 1
        BY <2>1, <3>1, FS_AddElement
      <3>3. {actor} \cup {target} = {actor, target}
        OBVIOUS
      <3> QED BY <3>1, <3>2, <3>3
    <2>4. Cardinality({actor, target}) <= Cardinality(ActiveAdmins)
      BY <2>1, <2>2, FS_Subset
    <2>5. Cardinality(ActiveAdmins) \in Nat
      BY <2>2, FS_CardinalityType
    <2> QED BY <2>3, <2>4, <2>5
  <1>2. UserInv => AnotherAdminRemains
    BY <1>1 DEF AnotherAdminRemains
  <1> QED BY <1>2, UserInvariantHolds, PTL

=============================================================================
