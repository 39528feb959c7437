--------------------------- MODULE AccountsProofs ---------------------------
(* Theorems about Accounts, for any number of administrators, customers,   *)
(* keys and requests under way at once.                                    *)
EXTENDS Accounts, TLAPS

Edits == Ops \ {"delete", "issue"}

(* At least one failed login is allowed. *)
LEMMA Limits == MaxAttempts \in Nat \ {0} /\ MaxBegun \in Nat /\ 0 \in 0..(MaxAttempts - 1)
BY ConstantsAssumption

(* Writing both the counter and the lock of a row. *)
LEMMA RowSet ==
    ASSUME NEW row \in UserRow, NEW n \in 0..(MaxAttempts - 1), NEW l \in {"none", "now", "old"}
    PROVE  /\ [row EXCEPT !.failed = n, !.lock = l] \in UserRow
           /\ [row EXCEPT !.failed = n, !.lock = l].active = row.active
           /\ [row EXCEPT !.failed = n, !.lock = l].lock = l
<1> DEFINE counted == [row EXCEPT !.failed = n]
<1>1. counted \in UserRow /\ counted.active = row.active
  BY DEF UserRow
<1>2. /\ [counted EXCEPT !.lock = l] \in UserRow
      /\ [counted EXCEPT !.lock = l].active = row.active
      /\ [counted EXCEPT !.lock = l].lock = l
  <2> HIDE DEF counted
  <2> QED
    BY <1>1 DEF UserRow
<1>3. QED
  BY <1>2

(* The requests that lift a lock. *)
Clearing == {"login", "unlock", "reset", "password"}

(* The row an edit makes of a row is a row; only a failed attempt locks,   *)
(* only these requests lift a lock, and only two change whether the        *)
(* account is active.                                                      *)
LEMMA EditedRowType ==
    ASSUME NEW op \in Edits, NEW row \in UserRow
    PROVE  /\ EditedRow(op, row) \in UserRow
           /\ \/ EditedRow(op, row).lock \in {row.lock, "now"}
              \/ op \in Clearing /\ EditedRow(op, row).lock = "none"
           /\ EditedRow(op, row).active =
                (IF op = "disable" THEN FALSE ELSE IF op = "enable" THEN TRUE ELSE row.active)
<1>1. CASE op = "failed"
  <2>1. CASE row.failed + 1 >= MaxAttempts
    <3>1. EditedRow(op, row) = [row EXCEPT !.failed = 0, !.lock = "now"]
      BY <1>1, <2>1 DEF EditedRow, FailedRow
    <3>2. /\ [row EXCEPT !.failed = 0, !.lock = "now"] \in UserRow
          /\ [row EXCEPT !.failed = 0, !.lock = "now"].active = row.active
          /\ [row EXCEPT !.failed = 0, !.lock = "now"].lock = "now"
      BY RowSet, Limits, Zenon
    <3>3. QED
      BY <1>1, <3>1, <3>2, Zenon
  <2>2. CASE ~ (row.failed + 1 >= MaxAttempts)
    BY <1>1, <2>2, Limits DEF UserRow, EditedRow, FailedRow
  <2>3. QED
    BY <2>1, <2>2
<1>2. CASE op \in Clearing
  <2>1. EditedRow(op, row) = [row EXCEPT !.failed = 0, !.lock = "none"]
    <3>1. CASE op = "login"
      BY <3>1 DEF EditedRow
    <3>2. CASE op = "unlock"
      BY <3>2 DEF EditedRow
    <3>3. CASE op = "reset"
      BY <3>3 DEF EditedRow
    <3>4. CASE op = "password"
      BY <3>4 DEF EditedRow
    <3>5. QED
      BY <1>2, <3>1, <3>2, <3>3, <3>4, Zenon DEF Clearing
  <2>2. /\ [row EXCEPT !.failed = 0, !.lock = "none"] \in UserRow
        /\ [row EXCEPT !.failed = 0, !.lock = "none"].active = row.active
        /\ [row EXCEPT !.failed = 0, !.lock = "none"].lock = "none"
    BY RowSet, Limits, Zenon
  <2>3. QED
    BY <1>2, <2>1, <2>2, Zenon DEF Clearing
<1>3. CASE op = "disable"
  BY <1>3 DEF UserRow, EditedRow
<1>4. CASE op = "enable"
  BY <1>4 DEF UserRow, EditedRow
<1>5. CASE op = "settings"
  BY <1>5 DEF UserRow, EditedRow
<1>6. QED
  BY <1>1, <1>2, <1>3, <1>4, <1>5, Zenon DEF Edits, Ops, Disabling, Clearing

(* A request that is begun has seen a row of its account. *)
LEMMA BeginType ==
    ASSUME TypeOK, NEW r \in Reqs, NEW op \in Ops, NEW u \in Users, users[u] # None,
           Begin(r, op, u)
    PROVE  TypeOK'
<1>1. users[u] \in UserRow
  BY DEF TypeOK
<1>2. [op |-> op, user |-> u, seen |-> users[u]] \in Request
  BY <1>1 DEF Request
<1>3. QED
  BY <1>2, ConstantsAssumption DEF TypeOK, Begin

(* The first state is well typed. *)
LEMMA InitType == Init => TypeOK
<1>1. NewUser \in UserRow
  BY ConstantsAssumption DEF NewUser, UserRow
<1>2. SUFFICES ASSUME Init PROVE TypeOK
  OBVIOUS
<1>3. users \in [Users -> UserRow \cup {None}]
  BY <1>1, <1>2 DEF Init
<1>4. keys \in [Keys -> KeyRow \cup {None}] /\ req \in [Reqs -> Request \cup {None}]
  BY <1>2 DEF Init
<1>5. begun \in 0..MaxBegun
  BY <1>2, Limits DEF Init
<1>6. clash \in BOOLEAN /\ tokens \subseteq Users
  BY <1>2 DEF Init
<1>7. QED
  BY <1>3, <1>4, <1>5, <1>6 DEF TypeOK

(* Types, for every step. *)
LEMMA StepType == TypeOK /\ [Next]_vars => TypeOK'
<1> SUFFICES ASSUME TypeOK, [Next]_vars PROVE TypeOK'
  OBVIOUS
<1>1. NewUser \in UserRow /\ Boot \in Users /\ Admins \subseteq Users
  BY ConstantsAssumption DEF NewUser, UserRow, Users
<1>2. ASSUME NEW r \in Reqs, Commit(r) PROVE TypeOK'
  <2>1. req[r] \in Request /\ req[r].op \in Edits
    BY <1>2 DEF Commit, TypeOK, Request, Edits
  <2>2. req[r].user \in Users /\ req[r].seen \in UserRow
    BY <2>1 DEF Request
  <2>3. EditedRow(req[r].op, req[r].seen) \in UserRow
    BY <2>1, <2>2, EditedRowType
  <2>4. users' \in [Users -> UserRow \cup {None}]
    BY <1>2, <2>2, <2>3 DEF Commit, Flush, TypeOK, UserRow
  <2>5. QED
    BY <1>2, <2>2, <2>4 DEF Commit, TypeOK
<1>3. ASSUME NEW r \in Reqs, CommitDelete(r) PROVE TypeOK'
  BY <1>3 DEF CommitDelete, Cascade, TypeOK
<1>4. ASSUME NEW r \in Reqs, NEW k \in Keys, CommitKey(r, k) PROVE TypeOK'
  <2>1. req[r].user \in Users
    BY <1>4 DEF CommitKey, TypeOK, Request
  <2>2. [owner |-> req[r].user, active |-> TRUE, issuedTo |-> Role(req[r].user)] \in KeyRow
    BY <2>1 DEF KeyRow, Role
  <2>3. QED
    BY <1>4, <2>2 DEF CommitKey, TypeOK
<1>5. ASSUME NEW r \in Reqs, NEW u \in Users, NEW right \in BOOLEAN, Login(r, u, right)
      PROVE  TypeOK'
  BY <1>5, BeginType DEF Login, Ops
<1>6. ASSUME NEW r \in Reqs, NEW u \in Users, NEW op \in {"password", "settings"},
             ChangePassword(r, u, op)
      PROVE  TypeOK'
  BY <1>6, BeginType DEF ChangePassword, Ops
<1>7. ASSUME NEW r \in Reqs, NEW u \in Users, NEW me \in Admins, AskKey(r, me, u)
      PROVE  TypeOK'
  BY <1>7, BeginType DEF AskKey, Ops
<1>8. ASSUME NEW r \in Reqs, NEW u \in Users, NEW me \in Admins,
             NEW op \in {"unlock", "reset", "disable", "enable", "delete"}, Edit(r, me, u, op)
      PROVE  TypeOK'
  BY <1>8, BeginType DEF Edit, Ops, Disabling
<1>9. ASSUME NEW u \in Users, TokenExpires(u) PROVE TypeOK'
  BY <1>9 DEF TokenExpires, TypeOK
<1>10. ASSUME NEW u \in Users, LockExpires(u) PROVE TypeOK'
  <2>1. [users[u] EXCEPT !.lock = "old"] \in UserRow
    BY <1>10 DEF LockExpires, TypeOK, UserRow
  <2>2. QED
    BY <1>10, <2>1 DEF LockExpires, TypeOK
<1>11. ASSUME NEW u \in Users, NEW me \in Admins, CreateUser(me, u) PROVE TypeOK'
  BY <1>1, <1>11 DEF CreateUser, TypeOK
<1>12. ASSUME NEW me \in Admins, NEW k \in Keys, IssueAdminKey(me, k) PROVE TypeOK'
  BY <1>12 DEF IssueAdminKey, TypeOK, KeyRow
<1>13. ASSUME NEW me \in Admins, NEW k \in Keys, SetKeyStatus(me, k) PROVE TypeOK'
  <2>1. [keys[k] EXCEPT !.active = ~ @] \in KeyRow
    BY <1>13 DEF SetKeyStatus, TypeOK, KeyRow
  <2>2. QED
    BY <1>13, <2>1 DEF SetKeyStatus, TypeOK
<1>14. ASSUME NEW me \in Admins, NEW k \in Keys, DeleteKey(me, k) PROVE TypeOK'
  BY <1>14 DEF DeleteKey, TypeOK
<1>15. CASE EnsureAdminUser
  BY <1>1, <1>15 DEF EnsureAdminUser, TypeOK
<1>16. CASE LegacyLogin
  BY <1>1, <1>16 DEF LegacyLogin, TypeOK
<1>17. CASE UNCHANGED vars
  BY <1>17 DEF vars, TypeOK
<1>18. QED
  BY <1>2, <1>3, <1>4, <1>5, <1>6, <1>7, <1>8, <1>9, <1>10, <1>11, <1>12, <1>13, <1>14, <1>15,
     <1>16, <1>17 DEF Next

(* Every state of the specification is well typed: in particular a failed  *)
(* login never counts up to MaxAttempts, because the last one locks.       *)
THEOREM TypeCorrect == Spec => []TypeOK
BY InitType, StepType, PTL DEF Spec

-----------------------------------------------------------------------------
(* What a step does to requests and to the active accounts *)

Disables(r) == req[r] # None /\ req[r].op \in Disabling

(* A request that is under way after a step was under way before it, or is *)
(* begun by it under the conditions of its handler.                        *)
LEMMA RequestStep ==
    ASSUME TypeOK, [Next]_vars, NEW r \in Reqs, req'[r] # None
    PROVE  \/ req'[r] = req[r]
           \/ \E op \in Ops, u \in Users :
                 /\ Begin(r, op, u) /\ users[u] # None
                 /\ op = "login" => users[u].lock # "now"
                 /\ op \in Disabling => \E me \in Admins : CanDisable(u, me)
<1>1. ASSUME NEW q \in Reqs, req' = [req EXCEPT ![q] = None] PROVE req'[r] = req[r]
  BY <1>1 DEF TypeOK
<1>2. ASSUME NEW q \in Reqs, NEW op \in Ops, NEW u \in Users, Begin(q, op, u)
      PROVE  req'[r] = req[r] \/ Begin(r, op, u)
  BY <1>2 DEF Begin, TypeOK
<1>3. QED
  BY <1>1, <1>2 DEF Next, vars, Commit, CommitDelete, CommitKey, Login, ChangePassword, AskKey,
     Edit, TokenExpires, LockExpires, CreateUser, IssueAdminKey, SetKeyStatus, DeleteKey,
     EnsureAdminUser, LegacyLogin, Ops, Disabling

(* What a step does to the row of an account. *)
LEMMA UserStep ==
    ASSUME TypeOK, [Next]_vars, NEW u \in Users, users[u] # None
    PROVE  \/ users'[u] = users[u]
           \/ LockExpires(u)
           \/ \E r \in Reqs : Commit(r) /\ req[r].user = u
           \/ \E r \in Reqs : CommitDelete(r) /\ req[r].user = u
<1>1. ASSUME NEW v \in Users, LockExpires(v) PROVE users'[u] = users[u] \/ LockExpires(u)
  BY <1>1 DEF LockExpires, TypeOK
<1>2. ASSUME NEW r \in Reqs, Commit(r) PROVE users'[u] = users[u] \/ req[r].user = u
  BY <1>2 DEF Commit, Flush, TypeOK
<1>3. ASSUME NEW r \in Reqs, CommitDelete(r) PROVE users'[u] = users[u] \/ req[r].user = u
  BY <1>3 DEF CommitDelete, TypeOK
<1>4. ASSUME NEW v \in Users, NEW me \in Admins, CreateUser(me, v) PROVE users'[u] = users[u]
  BY <1>4 DEF CreateUser, TypeOK
<1>5. ASSUME EnsureAdminUser PROVE users'[u] = users[u]
  BY <1>5, ConstantsAssumption DEF EnsureAdminUser, TypeOK
<1>6. QED
  BY <1>1, <1>2, <1>3, <1>4, <1>5 DEF Next, vars, CommitKey, Login, ChangePassword, AskKey,
     Edit, TokenExpires, IssueAdminKey, SetKeyStatus, DeleteKey, LegacyLogin, Begin

(* What a commit does to the row: it writes what the request has changed. *)
LEMMA CommitRow ==
    ASSUME TypeOK, NEW r \in Reqs, Commit(r), NEW u \in Users, u = req[r].user, users[u] # None
    PROVE  /\ req[r].op \in Edits /\ req'[r] = None
           /\ users'[u] \in UserRow
           /\ \/ users'[u].lock \in {users[u].lock, "now"}
              \/ req[r].op \in Clearing /\ req[r].seen.lock # "none"
           /\ users'[u].active # users[u].active =>
                 req[r].op = (IF users'[u].active THEN "enable" ELSE "disable")
<1>1. req[r] \in Request /\ req[r].op \in Edits /\ req'[r] = None
  BY DEF Commit, TypeOK, Request, Edits
<1>2. PICK seen \in UserRow : seen = req[r].seen
  BY <1>1 DEF Request
<1>3. PICK new \in UserRow : new = EditedRow(req[r].op, seen)
  BY <1>1, <1>2, EditedRowType
<1>4. users'[u] = [f \in DOMAIN users[u] |-> IF new[f] # seen[f] THEN new[f] ELSE users[u][f]]
  BY <1>2, <1>3 DEF Commit, Flush, TypeOK
<1>5. users[u] \in UserRow
  BY DEF TypeOK
<1>6. /\ users'[u] \in UserRow
      /\ users'[u].lock = (IF new.lock # seen.lock THEN new.lock ELSE users[u].lock)
      /\ users'[u].active = (IF new.active # seen.active THEN new.active ELSE users[u].active)
  BY <1>4, <1>5 DEF UserRow
<1>7. /\ new.lock \in {seen.lock, "now"} \/ (req[r].op \in Clearing /\ new.lock = "none")
      /\ new.active = (IF req[r].op = "disable" THEN FALSE
                       ELSE IF req[r].op = "enable" THEN TRUE ELSE seen.active)
  <2>1. PICK op \in Edits : op = req[r].op
    BY <1>1
  <2>2. /\ EditedRow(op, seen).lock \in {seen.lock, "now"} \/ (op \in Clearing /\ EditedRow(op, seen).lock = "none")
        /\ EditedRow(op, seen).active =
              (IF op = "disable" THEN FALSE ELSE IF op = "enable" THEN TRUE ELSE seen.active)
    BY EditedRowType, Zenon
  <2>3. new = EditedRow(op, seen)
    BY <1>3, <2>1
  <2>4. QED
    BY <2>1, <2>2, <2>3, Zenon
<1>8. \/ users'[u].lock \in {users[u].lock, "now"}
      \/ req[r].op \in Clearing /\ seen.lock # "none"
  BY <1>6, <1>7
<1>9. ASSUME users'[u].active # users[u].active
      PROVE  req[r].op = (IF users'[u].active THEN "enable" ELSE "disable")
  <2>1. new.active # seen.active /\ users'[u].active = new.active
    BY <1>6, <1>9, Zenon
  <2>2. QED
    BY <1>7, <2>1
<1>10. QED
  BY <1>1, <1>2, <1>6, <1>8, <1>9

-----------------------------------------------------------------------------
(* The inductive invariant *)

Active(a) == users[a] # None /\ users[a].active

(* As long as no two requests to disable have overlapped there is at most  *)
(* one, and it leaves an administrator.                                    *)
OneDisabler ==
    ~ clash => \A q, r \in Reqs : Disables(q) /\ Disables(r) => q = r
DisablerLeavesOne ==
    ~ clash => \A r \in Reqs : Disables(r) /\ req[r].user \in Admins =>
                  \E a \in Admins \ {req[r].user} : Active(a)

(* A login under way has seen no lock in force. *)
LoginSawNoLock == \A r \in Reqs : req[r] # None /\ req[r].op = "login" => req[r].seen.lock # "now"

(* A key has the role it was issued to, accepted or not. *)
RoleIsIssued == \A k \in Keys : keys[k] # None => KeyRole(k) = keys[k].issuedTo

IInv ==
    /\ TypeOK
    /\ AdminRemains /\ OneDisabler /\ DisablerLeavesOne
    /\ LoginSawNoLock
    /\ RoleIsIssued

(* An active account stays so, unless a request to disable or delete it is *)
(* committed.                                                              *)
LEMMA ActiveKept ==
    ASSUME TypeOK, [Next]_vars, NEW a \in Users, Active(a)
    PROVE  \/ Active(a)'
           \/ \E r \in Reqs : Disables(r) /\ req[r].user = a /\ req'[r] = None
<1>1. CASE users'[a] = users[a]
  BY <1>1 DEF Active
<1>2. CASE LockExpires(a)
  <2>1. users[a] \in UserRow
    BY DEF TypeOK, Active
  <2>2. users'[a] = [users[a] EXCEPT !.lock = "old"]
    BY <1>2 DEF LockExpires, TypeOK
  <2>3. users'[a] \in UserRow /\ users'[a].active = users[a].active
    BY <2>1, <2>2 DEF UserRow
  <2>4. QED
    BY <2>3, ConstantsAssumption DEF Active
<1>3. ASSUME NEW r \in Reqs, Commit(r), req[r].user = a
      PROVE  Active(a)' \/ (Disables(r) /\ req'[r] = None)
  <2>1. /\ users'[a] \in UserRow /\ req'[r] = None
        /\ users'[a].active # users[a].active =>
                 req[r].op = (IF users'[a].active THEN "enable" ELSE "disable")
    BY <1>3, CommitRow DEF Active
  <2>2. users'[a] # None
    BY <2>1, ConstantsAssumption
  <2>3. CASE users'[a].active = users[a].active
    BY <2>2, <2>3 DEF Active
  <2>4. CASE users'[a].active # users[a].active
    BY <1>3, <2>1, <2>2, <2>4 DEF Active, Disables, Disabling, Commit
  <2>5. QED
    BY <2>3, <2>4
<1>4. ASSUME NEW r \in Reqs, CommitDelete(r), req[r].user = a
      PROVE  Disables(r) /\ req'[r] = None
  BY <1>4 DEF CommitDelete, Disables, Disabling, TypeOK
<1>5. QED
  BY <1>1, <1>2, <1>3, <1>4, UserStep DEF Active

(* An active administrator remains, for every step: the request that may   *)
(* disable one has seen another.                                           *)
LEMMA StepAdmins ==
    ASSUME IInv, [Next]_vars
    PROVE  AdminRemains' /\ OneDisabler' /\ DisablerLeavesOne'
<1> SUFFICES ASSUME ~ clash'
             PROVE  /\ (\E a \in Admins : Active(a))'
                    /\ (\A q, r \in Reqs : Disables(q) /\ Disables(r) => q = r)'
                    /\ (\A r \in Reqs : Disables(r) /\ req[r].user \in Admins =>
                          \E a \in Admins \ {req[r].user} : Active(a))'
  BY DEF AdminRemains, OneDisabler, DisablerLeavesOne, Active
<1>1. TypeOK /\ ~ clash
  BY DEF IInv, TypeOK, Next, vars, Commit, CommitDelete, CommitKey, Login, ChangePassword, AskKey,
     Edit, TokenExpires, LockExpires, CreateUser, IssueAdminKey, SetKeyStatus, DeleteKey,
     EnsureAdminUser, LegacyLogin, Begin
<1>2. /\ \E a \in Admins : Active(a)
      /\ \A q, r \in Reqs : Disables(q) /\ Disables(r) => q = r
      /\ \A r \in Reqs : Disables(r) /\ req[r].user \in Admins =>
            \E a \in Admins \ {req[r].user} : Active(a)
  BY <1>1 DEF IInv, AdminRemains, OneDisabler, DisablerLeavesOne, Active
<1>3. Admins \subseteq Users
  BY DEF Users
<1>4. (\E a \in Admins : Active(a))'
  <2>1. PICK a \in Admins : Active(a)
    BY <1>2
  <2>2. CASE Active(a)'
    BY <2>2
  <2>3. CASE ~ Active(a)'
    <3>1. PICK r \in Reqs : Disables(r) /\ req[r].user = a /\ req'[r] = None
      BY <1>1, <1>3, <2>1, <2>3, ActiveKept
    <3>2. PICK b \in Admins \ {a} : Active(b)
      BY <1>2, <2>1, <3>1
    <3>3. CASE Active(b)'
      BY <3>3
    <3>4. CASE ~ Active(b)'
      <4>1. PICK q \in Reqs : Disables(q) /\ req[q].user = b
        BY <1>1, <1>3, <3>2, <3>4, ActiveKept
      <4>2. q = r
        BY <1>2, <3>1, <4>1
      <4>3. QED
        BY <3>1, <3>2, <4>1, <4>2
    <3>5. QED
      BY <3>3, <3>4
  <2>4. QED
    BY <2>2, <2>3
<1>5. ASSUME NEW r \in Reqs, Disables(r)'
      PROVE  \/ Disables(r) /\ req'[r] = req[r]
             \/ /\ UNCHANGED users /\ \A q \in Reqs : ~ Disables(q)
                /\ \A q \in Reqs \ {r} : req'[q] = req[q]
                /\ req'[r].user \in Admins => \E a \in Admins \ {req'[r].user} : Active(a)
  <2>1. CASE req'[r] = req[r]
    BY <1>5, <2>1 DEF Disables
  <2>2. CASE req'[r] # req[r]
    <3>1. PICK op \in Ops, u \in Users :
            /\ Begin(r, op, u)
            /\ op \in Disabling => \E me \in Admins : CanDisable(u, me)
      BY <1>1, <1>5, <2>2, RequestStep DEF Disables
    <3>2. /\ req'[r] = [op |-> op, user |-> u, seen |-> users[u]]
          /\ UNCHANGED users /\ \A q \in Reqs \ {r} : req'[q] = req[q]
      BY <1>1, <3>1 DEF Begin, TypeOK
    <3>3. op \in Disabling
      BY <1>5, <3>2 DEF Disables
    <3>4. \A q \in Reqs : ~ Disables(q)
      BY <1>1, <3>1, <3>3 DEF Begin, Disables
    <3>5. u \in Admins => \E a \in Admins \ {u} : Active(a)
      BY <3>1, <3>3 DEF CanDisable, OtherAdmins, Role, Active
    <3>6. QED
      BY <3>2, <3>4, <3>5
  <2>3. QED
    BY <2>1, <2>2
<1>6. (\A q, r \in Reqs : Disables(q) /\ Disables(r) => q = r)'
  <2>1. SUFFICES ASSUME NEW q \in Reqs, NEW r \in Reqs, Disables(q)', Disables(r)', q # r
                 PROVE  FALSE
    OBVIOUS
  <2>2. CASE Disables(q) /\ Disables(r)
    BY <1>2, <2>1, <2>2
  <2>3. CASE ~ Disables(q)
    <3>1. ~ Disables(r) /\ req'[r] = req[r]
      BY <1>5, <2>1, <2>3
    <3>2. QED
      BY <2>1, <3>1 DEF Disables
  <2>4. CASE ~ Disables(r)
    <3>1. ~ Disables(q) /\ req'[q] = req[q]
      BY <1>5, <2>1, <2>4
    <3>2. QED
      BY <2>1, <3>1 DEF Disables
  <2>5. QED
    BY <2>2, <2>3, <2>4
<1>7. (\A r \in Reqs : Disables(r) /\ req[r].user \in Admins =>
          \E a \in Admins \ {req[r].user} : Active(a))'
  <2>1. SUFFICES ASSUME NEW r \in Reqs, Disables(r)', req'[r].user \in Admins
                 PROVE  \E a \in Admins \ {req'[r].user} : Active(a)'
    OBVIOUS
  <2>2. CASE Disables(r) /\ req'[r] = req[r]
    <3>1. PICK a \in Admins \ {req[r].user} : Active(a)
      BY <1>2, <2>1, <2>2
    <3>2. CASE Active(a)'
      BY <2>2, <3>1, <3>2
    <3>3. CASE ~ Active(a)'
      <4>1. PICK q \in Reqs : Disables(q) /\ req[q].user = a
        BY <1>1, <1>3, <3>1, <3>3, ActiveKept
      <4>2. q = r
        BY <1>2, <2>2, <4>1
      <4>3. QED
        BY <3>1, <4>1, <4>2
    <3>4. QED
      BY <3>2, <3>3
  <2>3. CASE ~ (Disables(r) /\ req'[r] = req[r])
    <3>1. /\ UNCHANGED users
          /\ \E a \in Admins \ {req'[r].user} : Active(a)
      BY <1>5, <2>1, <2>3
    <3>2. QED
      BY <3>1 DEF Active
  <2>4. QED
    BY <2>2, <2>3
<1>8. QED
  BY <1>4, <1>6, <1>7

(* A login that is under way has seen no lock, for every step. *)
LEMMA StepLogin ==
    ASSUME IInv, [Next]_vars
    PROVE  LoginSawNoLock'
<1>1. SUFFICES ASSUME NEW r \in Reqs, req'[r] # None, req'[r].op = "login"
               PROVE  req'[r].seen.lock # "now"
  BY DEF LoginSawNoLock
<1>2. CASE req'[r] = req[r]
  BY <1>1, <1>2 DEF IInv, LoginSawNoLock
<1>3. ASSUME NEW op \in Ops, NEW u \in Users, Begin(r, op, u), op = "login" => users[u].lock # "now"
      PROVE  req'[r].seen.lock # "now"
  <2>1. req'[r] = [op |-> op, user |-> u, seen |-> users[u]]
    BY <1>3 DEF Begin, IInv, TypeOK
  <2>2. QED
    BY <1>1, <1>3, <2>1
<1>4. QED
  BY <1>1, <1>2, <1>3, RequestStep DEF IInv

(* A key keeps the role it was issued with, for every step. *)
LEMMA StepKeys ==
    ASSUME IInv, [Next]_vars
    PROVE  RoleIsIssued'
<1> SUFFICES ASSUME NEW k \in Keys, keys'[k] # None
             PROVE  KeyRole(k)' = keys'[k].issuedTo
  BY DEF RoleIsIssued
<1>1. CASE keys'[k] = keys[k]
  BY <1>1 DEF IInv, RoleIsIssued, KeyRole
<1>2. ASSUME NEW r \in Reqs, NEW j \in Keys, CommitKey(r, j)
      PROVE  KeyRole(k)' = keys'[k].issuedTo
  <2>1. req[r].user \in Users
    BY <1>2 DEF CommitKey, IInv, TypeOK, Request
  <2>2. \/ keys'[k] = keys[k]
        \/ keys'[k] = [owner |-> req[r].user, active |-> TRUE, issuedTo |-> Role(req[r].user)]
    BY <1>2 DEF CommitKey, IInv, TypeOK
  <2>3. QED
    BY <1>1, <2>1, <2>2, ConstantsAssumption DEF KeyRole
<1>3. ASSUME NEW me \in Admins, NEW j \in Keys, IssueAdminKey(me, j)
      PROVE  KeyRole(k)' = keys'[k].issuedTo
  <2>1. \/ keys'[k] = keys[k]
        \/ keys'[k] = [owner |-> None, active |-> TRUE, issuedTo |-> "admin"]
    BY <1>3 DEF IssueAdminKey, IInv, TypeOK
  <2>2. QED
    BY <1>1, <2>1 DEF KeyRole
<1>4. ASSUME NEW me \in Admins, NEW j \in Keys, SetKeyStatus(me, j)
      PROVE  KeyRole(k)' = keys'[k].issuedTo
  <2>1. keys'[k] = keys[k] \/ (keys[k] # None /\ keys'[k] = [keys[k] EXCEPT !.active = ~ @])
    BY <1>4 DEF SetKeyStatus, IInv, TypeOK
  <2>2. CASE keys[k] # None /\ keys'[k] = [keys[k] EXCEPT !.active = ~ @]
    <3>1. keys[k] \in KeyRow
      BY <2>2 DEF IInv, TypeOK
    <3>2. keys'[k].owner = keys[k].owner /\ keys'[k].issuedTo = keys[k].issuedTo
      BY <2>2, <3>1 DEF KeyRow
    <3>3. QED
      BY <2>2, <3>2 DEF IInv, RoleIsIssued, KeyRole
  <2>3. QED
    BY <1>1, <2>1, <2>2
<1>5. ASSUME NEW me \in Admins, NEW j \in Keys, DeleteKey(me, j) PROVE keys'[k] = keys[k]
  BY <1>5 DEF DeleteKey, IInv, TypeOK
<1>6. ASSUME NEW r \in Reqs, CommitDelete(r) PROVE keys'[k] = keys[k]
  BY <1>6 DEF CommitDelete, Cascade
<1>7. QED
  BY <1>1, <1>2, <1>3, <1>4, <1>5, <1>6 DEF Next, vars, Commit, Login, ChangePassword, AskKey,
     Edit, TokenExpires, LockExpires, CreateUser, EnsureAdminUser, LegacyLogin, Begin

(* The inductive invariant holds at the start. *)
LEMMA InitIInv == Init => IInv
<1> SUFFICES ASSUME Init PROVE IInv
  OBVIOUS
<1>1. users[Boot] = NewUser /\ Boot \in Admins /\ NewUser \in UserRow /\ NewUser.active
  BY ConstantsAssumption DEF Init, Users, NewUser, UserRow
<1>2. AdminRemains
  BY <1>1, ConstantsAssumption DEF AdminRemains
<1>3. OneDisabler /\ DisablerLeavesOne /\ LoginSawNoLock /\ RoleIsIssued
  BY DEF Init, OneDisabler, DisablerLeavesOne, LoginSawNoLock, RoleIsIssued, Disables
<1>4. QED
  BY <1>2, <1>3, InitType DEF IInv

(* The inductive invariant holds in every state. *)
LEMMA Inductive == Spec => []IInv
<1>1. IInv /\ [Next]_vars => IInv'
  BY StepType, StepAdmins, StepLogin, StepKeys DEF IInv
<1>2. QED
  BY <1>1, InitIInv, PTL DEF Spec

-----------------------------------------------------------------------------
(* The results *)

(* There is always an active administrator, however many administrators    *)
(* and requests there are, unless two requests that disable or delete      *)
(* accounts overlapped: _assert_can_disable and ensure_admin_user.         *)
THEOREM AlwaysAnAdmin == Spec => []AdminRemains
<1>1. IInv => AdminRemains
  BY DEF IInv
<1>2. QED
  BY <1>1, Inductive, PTL

(* No key is ever accepted with more rights than it was issued with: the   *)
(* ON DELETE CASCADE and the check of the owner in api_keys.resolve.       *)
THEOREM KeysKeepRole == Spec => []KeyKeepsRole
<1>1. IInv => KeyKeepsRole
  BY DEF IInv, RoleIsIssued, KeyKeepsRole, Resolves
<1>2. QED
  BY <1>1, Inductive, PTL

(* The commit of a request that read its row long ago lifts no lock that   *)
(* it did not see and changes no account's state but on purpose: what      *)
(* SQLAlchemy writes is what the handler has changed.                      *)
THEOREM StaleWrites == Spec => StaleWritesHarmless
<1> DEFINE Harmless(u) ==
      users[u] # None /\ users'[u] # None =>
        /\ users[u].lock = "now" /\ users'[u].lock = "none" =>
             \E r \in Reqs : Ends(r, u) /\ Lifts(req[r])
        /\ users[u].active # users'[u].active =>
             \E r \in Reqs : Ends(r, u) /\ req[r].op = (IF users'[u].active THEN "enable" ELSE "disable")
<1>1. ASSUME IInv, [Next]_vars, NEW u \in Users PROVE Harmless(u)
  <2>1. SUFFICES ASSUME users[u] # None, users'[u] # None PROVE Harmless(u)
    OBVIOUS
  <2>2. TypeOK /\ users[u] \in UserRow
    BY <1>1, <2>1 DEF IInv, TypeOK
  <2>3. CASE users'[u] = users[u]
    BY <2>3
  <2>4. CASE LockExpires(u)
    <3>1. users'[u] = [users[u] EXCEPT !.lock = "old"]
      BY <2>2, <2>4 DEF LockExpires, TypeOK
    <3>2. users'[u].active = users[u].active /\ users'[u].lock = "old"
      BY <2>2, <3>1 DEF UserRow
    <3>3. QED
      BY <3>2
  <2>5. ASSUME NEW r \in Reqs, Commit(r), req[r].user = u PROVE Harmless(u)
    <3>1. /\ req[r].op \in Edits /\ req'[r] = None
          /\ \/ users'[u].lock \in {users[u].lock, "now"}
             \/ req[r].op \in Clearing /\ req[r].seen.lock # "none"
          /\ users'[u].active # users[u].active =>
                 req[r].op = (IF users'[u].active THEN "enable" ELSE "disable")
      BY <2>1, <2>2, <2>5, CommitRow
    <3>2. Ends(r, u)
      BY <2>5, <3>1 DEF Ends, Commit
    <3>3. req[r].seen.lock \in {"none", "now", "old"}
      BY <2>2, <2>5 DEF Commit, TypeOK, Request, UserRow
    <3>4. req[r].op = "login" => req[r].seen.lock # "now"
      BY <1>1, <2>5 DEF IInv, LoginSawNoLock, Commit
    <3>5. users[u].lock = "now" /\ users'[u].lock = "none" => Lifts(req[r])
      BY <3>1, <3>3, <3>4 DEF Lifts, Clearing
    <3>6. QED
      BY <3>1, <3>2, <3>5
  <2>6. ASSUME NEW r \in Reqs, CommitDelete(r), req[r].user = u PROVE Harmless(u)
    BY <2>1, <2>2, <2>6 DEF CommitDelete, TypeOK
  <2>7. QED
    BY <1>1, <2>1, <2>2, <2>3, <2>4, <2>5, <2>6, UserStep
<1>2. IInv /\ [Next]_vars => [\A u \in Users : Harmless(u)]_vars
  BY <1>1
<1>3. QED
  BY <1>2, Inductive, PTL DEF Spec, StaleWritesHarmless
=============================================================================
