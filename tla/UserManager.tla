----------------------------- MODULE UserManager -----------------------------
(***************************************************************************)
(* One administrator's tab on the user directory (admin-user-manager.tsx   *)
(* with its API client and the directory endpoint), while other            *)
(* administrators change accounts too.                                     *)
(*                                                                         *)
(* The directory is filtered by role and access and comes in pages, the    *)
(* latest account first.  A change is chosen in a row, confirmed in a      *)
(* dialog and sent; the answer updates the row, or takes it off the page   *)
(* when it no longer passes the filter.  A page that the browser's parser  *)
(* refuses is replaced by the error boundary.                              *)
(***************************************************************************)
EXTENDS Integers, Sequences, FiniteSets, SequencesExt

CONSTANTS
  User,      \* ids, in the order of the database
  Me,        \* the administrator
  Created,   \* the microsecond an account was created in
  PageSize,
  Filter,    \* bound: filters in use, [role, access] with AnyValue for none
  AnyValue,
  Roles,     \* bound: the roles accounts have here
  Elsewhere  \* bound: the accounts other administrators change

Access == {"active", "inactive"}
Row    == [role : Roles, access : Access]

Admin  == [role |-> "admin", access |-> "active"]

VARIABLES
  row,       \* the accounts
  filter, page,
  users,     \* the accounts the directory shows, in order
  seen,      \* and what it shows of them
  total,
  refused,   \* the browser refused the page, the error boundary is on display
  pending,   \* the change in the dialog
  answer,    \* of its request: none, sent, done, failed or lost
  returned   \* the row in the answer when it is done

directory == <<filter, page, users, seen, total, refused>>
dialog    == <<pending, answer, returned>>
vars      == <<row, directory, dialog>>

Change    == [user : User, field : {"role"}, value : Roles]
               \cup [user : User, field : {"access"}, value : Access]
NoChange  == [user |-> Me, field |-> "none", value |-> "none"]

\* matchesFilters; a search for names and addresses is left to the server, no
\* change of an account affects it.
Matches(a, f) == f.role \in {AnyValue, a.role} /\ f.access \in {AnyValue, a.access}

\* ORDER BY created_at DESC, id ASC.
Latest(u, v) == Created[u] > Created[v] \/ (Created[u] = Created[v] /\ u < v)

InOrder(S) ==
  CHOOSE s \in [1..Cardinality(S) -> S] :
    \A j \in 1..Cardinality(S) : \A i \in 1..(j - 1) : Latest(s[i], s[j])

Matching(f) == InOrder({u \in User : Matches(row[u], f)})

PageOf(s, p) == SubSeq(s, (p - 1) * PageSize + 1,
                       IF p * PageSize <= Len(s) THEN p * PageSize ELSE Len(s))

Pages(n) == (n + PageSize - 1) \div PageSize

LastPage(n) == IF n = 0 THEN 1 ELSE Pages(n)

TypeOK ==
  /\ row \in [User -> Row]
  /\ filter \in Filter /\ page \in Nat \ {0}
  /\ users \in Seq(User) /\ seen \in [User -> Row]
  /\ total \in 0..Cardinality(User) /\ refused \in BOOLEAN
  /\ pending \in Change \cup {NoChange}
  /\ answer \in {"none", "sent", "done", "failed", "lost"}
  /\ returned \in Row
  /\ answer # "none" => pending # NoChange

\* A date of the browser, and of the server's answer, has milliseconds.
Millisecond(u) == Created[u] \div 1000

\* The browser's check of a page (parseAdminUserPage): the number of rows that
\* belongs on it, no account twice, the latest first and then by id.
Accepted(s, n, p) ==
  /\ Len(s) = IF (p - 1) * PageSize >= n THEN 0
              ELSE IF n < p * PageSize THEN n - (p - 1) * PageSize ELSE PageSize
  /\ \A i, j \in 1..Len(s) : s[i] = s[j] => i = j
  /\ \A i \in 2..Len(s) :
       \/ Millisecond(s[i - 1]) > Millisecond(s[i])
       \/ Millisecond(s[i - 1]) = Millisecond(s[i]) /\ s[i - 1] <= s[i]

\* What is shown of the accounts in s.
OnDisplay(s, a) == [u \in User |-> IF Contains(s, u) THEN a[u] ELSE Admin]

\* The render of a page reads one snapshot of rows and total
\* (findForAdministration); a page beyond the last one redirects to it.
Rendered(f, p) ==
  LET s == Matching(f)
      q == IF p > LastPage(Len(s)) THEN LastPage(Len(s)) ELSE p
  IN /\ filter' = f /\ page' = q
     /\ refused' = ~ Accepted(PageOf(s, q), Len(s), q)
     /\ users' = IF refused' THEN <<>> ELSE PageOf(s, q)
     /\ seen' = OnDisplay(users', row)
     /\ total' = IF refused' THEN 0 ELSE Len(s)

Init ==
  /\ row \in [User -> Row] /\ row[Me] = Admin
  /\ filter \in Filter /\ page = 1
  /\ LET s == Matching(filter)
     IN /\ refused = ~ Accepted(PageOf(s, 1), Len(s), 1)
        /\ users = IF refused THEN <<>> ELSE PageOf(s, 1)
        /\ seen = OnDisplay(users, row)
        /\ total = IF refused THEN 0 ELSE Len(s)
  /\ pending = NoChange /\ answer = "none" /\ returned = Admin

\* A component that is mounted, or an error boundary.
Mounted(f, p) ==
  /\ Rendered(f, p)
  /\ pending' = NoChange /\ answer' = "none" /\ returned' = Admin
  /\ UNCHANGED row

\* Another search, or a reload: a new document.
Search(f) == Mounted(f, 1)

\* A link to another page, or "Clear filters": the component renders with new
\* props and keeps what it shows (its state starts from the first ones), unless
\* the browser refuses the page.
Follow(f, p) ==
  /\ ~ refused
  /\ f \in {filter, [role |-> AnyValue, access |-> AnyValue]}
  /\ LET s == Matching(f)
     IN /\ p \in 1..LastPage(Len(s))
        /\ \/ /\ Accepted(PageOf(s, p), Len(s), p)
              /\ filter' = f /\ page' = p
              /\ UNCHANGED <<row, users, seen, total, refused, dialog>>
           \/ ~ Accepted(PageOf(s, p), Len(s), p) /\ Mounted(f, p)

\* "Try again" on the error boundary.
TryAgain == refused /\ Mounted(filter, page)

----------------------------------------------------------------------------
(* The dialog.                                                             *)

\* beginRole and beginStatus; the row of the administrator is disabled.
Begin(c) ==
  /\ pending = NoChange
  /\ Contains(users, c.user) /\ c.user # Me
  /\ c.value # seen[c.user][c.field]
  /\ pending' = c
  /\ UNCHANGED <<row, directory, answer, returned>>

\* closeConfirmation
Close ==
  /\ pending # NoChange /\ answer = "none"
  /\ pending' = NoChange
  /\ UNCHANGED <<row, directory, answer, returned>>

\* confirmChange, again after a failure too.
Confirm ==
  /\ pending # NoChange /\ answer = "none"
  /\ answer' = "sent"
  /\ UNCHANGED <<row, directory, pending, returned>>

Apply(c) == [row EXCEPT ![c.user][c.field] = c.value]

\* updateManagedUser refuses an actor who is no administrator any more; the
\* last active administrator is then the actor, whom no one changes.
Allowed == row[Me] = Admin

\* PATCH /admin/users/:id/role and /status.
Serve ==
  /\ answer = "sent"
  /\ \/ Allowed /\ row' = Apply(pending) /\ answer' = "done" /\ returned' = row'[pending.user]
     \/ answer' = "failed" /\ UNCHANGED <<row, returned>>
  /\ UNCHANGED <<directory, pending>>

\* The request or its answer is lost.
Lose ==
  /\ answer \in {"sent", "done"}
  /\ answer' = "lost" /\ returned' = Admin
  /\ UNCHANGED <<row, directory, pending>>

\* Mutant: an account stays on the page until its access fails the filter.
StaysWhateverItsRole == filter.access \in {AnyValue, returned.access}

\* The account of the answer stays on the page.
Stays == Matches(returned, filter)

Succeed ==
  /\ answer = "done"
  /\ IF Stays
       THEN UNCHANGED <<users, total>>
       ELSE /\ users' = RemoveFirst(users, pending.user)  \* the only one
            /\ total' = IF total = 0 THEN 0 ELSE total - 1
  /\ seen' = OnDisplay(users', [seen EXCEPT ![pending.user] = returned])
  /\ pending' = NoChange /\ answer' = "none" /\ returned' = Admin
  /\ UNCHANGED <<row, filter, page, refused>>

\* The dialog says what failed, and can be confirmed again or closed.
Fail ==
  /\ answer \in {"failed", "lost"}
  /\ answer' = "none"
  /\ UNCHANGED <<row, directory, pending, returned>>

\* Other administrators; one of them is always left (UserAdministration).
OthersChange(u) ==
  /\ \E a \in Row : row' = [row EXCEPT ![u] = a]
  /\ UNCHANGED <<directory, dialog>>

Next ==
  \/ \E f \in Filter : Search(f) \/ \E p \in 1..Cardinality(User) : Follow(f, p)
  \/ TryAgain
  \/ \E c \in Change : Begin(c)
  \/ Close \/ Confirm \/ Serve \/ Lose \/ Succeed \/ Fail
  \/ \E u \in Elsewhere : OthersChange(u)

Spec == Init /\ [][Next]_vars

\* The server answers or the connection fails, and the handler goes on.
Fairness == WF_vars(Serve \/ Lose \/ Succeed \/ Fail)

FairSpec == Spec /\ Fairness

----------------------------------------------------------------------------
(* Properties.                                                             *)

\* Two neighbours on a page whose creation the browser cannot tell apart: the
\* database lists the later one first, the browser expects the smaller id.
Blurred(u, v) == Created[u] > Created[v] /\ Millisecond(u) = Millisecond(v) /\ u > v

\* The page on display is one of the search in use.  Every row passes the
\* filter, whatever is confirmed, answered late or changed by others
\* (matchesFilters).  And the browser refuses a page of a search, also one
\* beyond the last, only for two neighbours that were created within one
\* millisecond, the greater id later: rows, total and order fit otherwise
\* (parseAdminUserPage against findForAdministration).
PageFitsTheSearch ==
  /\ \A i \in 1..Len(users) : Matches(seen[users[i]], filter)
  /\ \A f \in Filter :
       LET s == Matching(f)
       IN \A p \in 1..(Cardinality(User) + 1) :
            \/ Accepted(PageOf(s, p), Len(s), p)
            \/ \E i \in 2..Len(PageOf(s, p)) : Blurred(PageOf(s, p)[i - 1], PageOf(s, p)[i])

\* The dialog of a change that was confirmed can be used again or is gone,
\* whatever becomes of the request.
ChangesEnd == answer # "none" ~> answer = "none"

----------------------------------------------------------------------------
(* What the page rests on.                                                 *)

\* No account is on the page twice.
OneRowEach == \A i, j \in 1..Len(users) : users[i] = users[j] => i = j

\* Every row passes the filter.
RowsFit == \A i \in 1..Len(users) : Matches(seen[users[i]], filter)

\* The account in the dialog is on the page.
DialogFits == pending # NoChange => Contains(users, pending.user)

DirectoryInv == TypeOK /\ OneRowEach /\ RowsFit /\ DialogFits
=============================================================================
