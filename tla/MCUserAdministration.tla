------------------------ MODULE MCUserAdministration ------------------------
(***************************************************************************)
(* Instances of UserAdministration for TLC.  Accounts 1 and 2 are each     *)
(* configured as administrator by some instance, account 2 also as staff.  *)
(***************************************************************************)
EXTENDS UserAdministration, TLC

Provide(account, role, password) ==
  [op |-> "provision", account |-> account, role |-> role, password |-> password]

AllConfigured == {Provide(1, "admin", TRUE), Provide(2, "admin", FALSE),
                  Provide(2, "staff", TRUE)}

AdminsConfigured == {Provide(1, "admin", TRUE), Provide(2, "admin", FALSE)}

Admin   == [role |-> "admin", isActive |-> TRUE]
Student == [role |-> "student", isActive |-> TRUE]

AnyRow == {Absent, Admin, Student}

Symmetry == Permutations(Txn)
=============================================================================
