------------------------------ MODULE Accounts ------------------------------
(***************************************************************************)
(* Login accounts and API keys of the WAS (was/app/security.py, api_keys.py*)
(* and deps.py, routers/auth.py, users.py, api_keys.py and settings.py):   *)
(* failed logins and the lock, the administrators' edits of accounts, the  *)
(* guard that keeps the last active administrator, keys and their owners.  *)
(*                                                                         *)
(* A request reads the row and makes its checks in one step and commits in *)
(* another: requests are served by threads of several workers, sessions    *)
(* are READ COMMITTED and take no row locks, and hashing a password takes  *)
(* long.  At the commit SQLAlchemy writes the attributes that differ from  *)
(* what was read, and no others.  A request that is refused changes        *)
(* nothing and is left out.  Passwords are right or wrong, tokens valid    *)
(* until they expire; allowed addresses, notes and labels are left out.    *)
(***************************************************************************)
EXTENDS Integers, FiniteSets

CONSTANTS
    Admins,       \* usernames of administrators
    Customers,    \* usernames of customers
    Boot,         \* the bootstrap administrator's username
    Keys,         \* API keys
    Reqs,         \* requests that may be under way at once
    MaxAttempts,  \* LOGIN_MAX_ATTEMPTS
    MaxBegun,     \* bound on the requests begun
    None          \* no row, no owner, no request

Users == Admins \cup Customers

(* lock: "none" is locked_until NULL, "now" a time to come, "old" one that *)
(* has passed.                                                             *)
UserRow == [active : BOOLEAN, failed : 0..(MaxAttempts - 1), lock : {"none", "now", "old"}]
KeyRow == [owner : Users \cup {None}, active : BOOLEAN, issuedTo : {"admin", "customer"}]

Disabling == {"disable", "delete"}
Ops == {"login", "failed", "unlock", "reset", "password", "settings", "enable", "issue"}
       \cup Disabling
Request == [op : Ops, user : Users, seen : UserRow]

ASSUME ConstantsAssumption ==
    /\ IsFiniteSet(Users) /\ Boot \in Admins /\ Admins \cap Customers = {}
    /\ MaxAttempts \in Nat \ {0} /\ MaxBegun \in Nat
    /\ None \notin Users /\ None \notin UserRow /\ None \notin KeyRow /\ None \notin Request

VARIABLES
    users,   \* users[u]: the row of u, or None
    keys,    \* keys[k]: the row of API key k, or None
    tokens,  \* users who hold a token that has not expired
    req,     \* req[r]: the request under way, or None
    begun,   \* how many requests have begun
    clash    \* history: two requests to disable or delete accounts overlapped

vars == <<users, keys, tokens, req, begun, clash>>

Role(u) == IF u \in Admins THEN "admin" ELSE "customer"

NewUser == [active |-> TRUE, failed |-> 0, lock |-> "none"]

(* get_current_user and require_admin: a disabled account is refused, an   *)
(* account without a row is what its token says.                           *)
MayAdminister(me) ==
    /\ me \in tokens /\ Role(me) = "admin"
    /\ users[me] # None => users[me].active

OtherAdmins(u) == {a \in Admins \ {u} : users[a] # None /\ users[a].active}

(* Mutant: the administrators are counted with the one to be disabled. *)
CanDisableSelfCounted(u, me) ==
    /\ u # me
    /\ Role(u) = "admin" => \E a \in Admins : users[a] # None /\ users[a].active

(* _assert_can_disable *)
CanDisable(u, me) ==
    /\ u # me
    /\ Role(u) = "admin" => OtherAdmins(u) # {}

Begin(r, op, u) ==
    /\ req[r] = None /\ begun < MaxBegun
    /\ begun' = begun + 1
    /\ req' = [req EXCEPT ![r] = [op |-> op, user |-> u, seen |-> users[u]]]
    /\ clash' = (clash \/ (op \in Disabling
                           /\ \E q \in Reqs : req[q] # None /\ req[q].op \in Disabling))
    /\ UNCHANGED <<users, keys, tokens>>

-----------------------------------------------------------------------------
(* What a request does first: read the row and check *)

(* POST /auth/login: not locked, not disabled; the password is then        *)
(* verified, which takes its time.                                         *)
Login(r, u, right) ==
    /\ users[u] # None
    /\ users[u].lock # "now" /\ users[u].active
    /\ Begin(r, IF right THEN "login" ELSE "failed", u)

(* An administrator's PUT, POST unlock or DELETE of account u. *)
Edit(r, me, u, op) ==
    /\ MayAdminister(me)
    /\ users[u] # None
    /\ op \in Disabling => CanDisable(u, me)
    /\ Begin(r, op, u)

(* POST /auth/password by the account itself, which clears the failures,   *)
(* or POST /settings/password by an administrator, which does not.         *)
ChangePassword(r, u, op) ==
    /\ u \in tokens /\ users[u] # None /\ users[u].active
    /\ op = "settings" => Role(u) = "admin"
    /\ Begin(r, op, u)

-----------------------------------------------------------------------------
(* The commit *)

(* Mutant: the last attempt counts like the others. *)
FailedRowNoLock(row) == [row EXCEPT !.failed = @ + 1]

(* register_failed_login *)
FailedRow(row) ==
    IF row.failed + 1 >= MaxAttempts
    THEN [row EXCEPT !.failed = 0, !.lock = "now"]
    ELSE [row EXCEPT !.failed = @ + 1]

(* What the handler makes of the row it read.  clear_failed_login,         *)
(* unlock_user and a password set by an administrator do the same here.    *)
EditedRow(op, row) ==
    CASE op = "failed" -> FailedRow(row)
      [] op \in {"login", "unlock", "reset", "password"} -> [row EXCEPT !.failed = 0, !.lock = "none"]
      [] op = "disable" -> [row EXCEPT !.active = FALSE]
      [] op = "enable" -> [row EXCEPT !.active = TRUE]
      [] op = "settings" -> row

(* Mutant: the whole row is written, as it was read and edited. *)
FlushWhole(u, seen, new) == users' = [users EXCEPT ![u] = IF @ = None THEN None ELSE new]

(* The UPDATE sets the attributes that were changed; on a row that is gone *)
(* the request fails.                                                      *)
Flush(u, seen, new) ==
    users' = [users EXCEPT ![u] =
        IF @ = None THEN None
        ELSE [f \in DOMAIN @ |-> IF new[f] # seen[f] THEN new[f] ELSE @[f]]]

Commit(r) ==
    LET q == req[r] IN
    /\ q # None /\ q.op \notin {"delete", "issue"}
    /\ Flush(q.user, q.seen, EditedRow(q.op, q.seen))
    /\ tokens' = IF q.op = "login" /\ users[q.user] # None THEN tokens \cup {q.user} ELSE tokens
    /\ req' = [req EXCEPT ![r] = None]
    /\ UNCHANGED <<keys, begun, clash>>

(* Mutant: ON DELETE SET NULL. *)
CascadeToNull(u) ==
    keys' = [k \in Keys |-> IF keys[k] # None /\ keys[k].owner = u
                            THEN [keys[k] EXCEPT !.owner = None] ELSE keys[k]]

(* ON DELETE CASCADE: the keys go with their owner. *)
Cascade(u) ==
    keys' = [k \in Keys |-> IF keys[k] # None /\ keys[k].owner = u THEN None ELSE keys[k]]

CommitDelete(r) ==
    /\ req[r] # None /\ req[r].op = "delete"
    /\ users' = [users EXCEPT ![req[r].user] = None]
    /\ Cascade(req[r].user)
    /\ req' = [req EXCEPT ![r] = None]
    /\ UNCHANGED <<tokens, begun, clash>>

-----------------------------------------------------------------------------
(* Accounts and tokens that come and go *)

(* POST /users: the unique username makes check and insert one. *)
CreateUser(me, u) ==
    /\ MayAdminister(me) /\ users[u] = None
    /\ users' = [users EXCEPT ![u] = NewUser]
    /\ UNCHANGED <<keys, tokens, req, begun, clash>>

(* ensure_admin_user, when a worker starts: with no administrator's row,   *)
(* active or not, the bootstrap administrator gets one.                    *)
EnsureAdminUser ==
    /\ \A a \in Admins : users[a] = None
    /\ users' = [users EXCEPT ![Boot] = NewUser]
    /\ UNCHANGED <<keys, tokens, req, begun, clash>>

(* Login of the bootstrap administrator while it has no row. *)
LegacyLogin ==
    /\ users[Boot] = None
    /\ tokens' = tokens \cup {Boot}
    /\ UNCHANGED <<users, keys, req, begun, clash>>

TokenExpires(u) ==
    /\ u \in tokens
    /\ tokens' = tokens \ {u}
    /\ UNCHANGED <<users, keys, req, begun, clash>>

LockExpires(u) ==
    /\ users[u] # None /\ users[u].lock = "now"
    /\ users' = [users EXCEPT ![u].lock = "old"]
    /\ UNCHANGED <<keys, tokens, req, begun, clash>>

-----------------------------------------------------------------------------
(* API keys; an owner of None makes an administrator's key *)

(* How many more keys may be asked for: Keys bounds them. *)
KeysLeft == Cardinality({k \in Keys : keys[k] = None})
            - Cardinality({r \in Reqs : req[r] # None /\ req[r].op = "issue"})

(* POST /api-keys: the owner is looked up ... *)
AskKey(r, me, u) ==
    /\ MayAdminister(me) /\ users[u] # None /\ KeysLeft > 0
    /\ Begin(r, "issue", u)

(* ... and the row inserted, which the foreign key refuses when the owner  *)
(* is gone.                                                                *)
CommitKey(r, k) ==
    /\ req[r] # None /\ req[r].op = "issue"
    /\ keys[k] = None
    /\ keys' = IF users[req[r].user] = None THEN keys
               ELSE [keys EXCEPT ![k] = [owner |-> req[r].user, active |-> TRUE,
                                         issuedTo |-> Role(req[r].user)]]
    /\ req' = [req EXCEPT ![r] = None]
    /\ UNCHANGED <<users, tokens, begun, clash>>

IssueAdminKey(me, k) ==
    /\ MayAdminister(me) /\ keys[k] = None /\ KeysLeft > 0
    /\ keys' = [keys EXCEPT ![k] = [owner |-> None, active |-> TRUE, issuedTo |-> "admin"]]
    /\ UNCHANGED <<users, tokens, req, begun, clash>>

SetKeyStatus(me, k) ==
    /\ MayAdminister(me) /\ keys[k] # None
    /\ keys' = [keys EXCEPT ![k].active = ~ @]
    /\ UNCHANGED <<users, tokens, req, begun, clash>>

DeleteKey(me, k) ==
    /\ MayAdminister(me) /\ keys[k] # None
    /\ keys' = [keys EXCEPT ![k] = None]
    /\ UNCHANGED <<users, tokens, req, begun, clash>>

(* resolve: whether the key is accepted, and as whom. *)
Resolves(k) ==
    /\ keys[k] # None /\ keys[k].active
    /\ keys[k].owner # None => users[keys[k].owner] # None /\ users[keys[k].owner].active

KeyRole(k) == IF keys[k].owner = None THEN "admin" ELSE Role(keys[k].owner)

-----------------------------------------------------------------------------
(* After the first start: the bootstrap administrator has its row. *)
Init ==
    /\ users = [u \in Users |-> IF u = Boot THEN NewUser ELSE None]
    /\ keys = [k \in Keys |-> None]
    /\ tokens = {}
    /\ req = [r \in Reqs |-> None]
    /\ begun = 0 /\ clash = FALSE

Next ==
    \/ \E r \in Reqs : Commit(r) \/ CommitDelete(r) \/ \E k \in Keys : CommitKey(r, k)
    \/ \E r \in Reqs, u \in Users :
        \/ \E right \in BOOLEAN : Login(r, u, right)
        \/ \E op \in {"password", "settings"} : ChangePassword(r, u, op)
        \/ \E me \in Admins : \/ AskKey(r, me, u)
                              \/ \E op \in {"unlock", "reset", "disable", "enable", "delete"} :
                                    Edit(r, me, u, op)
    \/ \E u \in Users : TokenExpires(u) \/ LockExpires(u) \/ \E me \in Admins : CreateUser(me, u)
    \/ \E me \in Admins, k \in Keys : IssueAdminKey(me, k) \/ SetKeyStatus(me, k) \/ DeleteKey(me, k)
    \/ EnsureAdminUser \/ LegacyLogin

Spec == Init /\ [][Next]_vars

-----------------------------------------------------------------------------
(* Properties *)

TypeOK ==
    /\ users \in [Users -> UserRow \cup {None}]
    /\ keys \in [Keys -> KeyRow \cup {None}]
    /\ tokens \subseteq Users
    /\ req \in [Reqs -> Request \cup {None}]
    /\ begun \in 0..MaxBegun /\ clash \in BOOLEAN

(* There is always an active administrator, through any sequence of        *)
(* creations, disablings and deletions by administrators and through       *)
(* deleted administrators who still hold a token - unless two such         *)
(* requests overlapped.                                                    *)
AdminRemains == ~ clash => \E a \in Admins : users[a] # None /\ users[a].active

(* Request r, which is about account u, commits in this step. *)
Ends(r, u) == req[r] # None /\ req'[r] = None /\ req[r].user = u

Lifts(q) == q.op \in {"unlock", "reset", "password"} \/ (q.op = "login" /\ q.seen.lock = "old")

(* What a request read some time ago does no harm when it commits: a lock  *)
(* in force is lifted by an unlock, a new password or a login that had     *)
(* read an earlier, expired lock, never by a login that read no lock, and  *)
(* an account is disabled or enabled by requests to do so alone.           *)
StaleWritesHarmless ==
    [][\A u \in Users : users[u] # None /\ users'[u] # None =>
        /\ users[u].lock = "now" /\ users'[u].lock = "none" =>
             \E r \in Reqs : Ends(r, u) /\ Lifts(req[r])
        /\ users[u].active # users'[u].active =>
             \E r \in Reqs : Ends(r, u) /\ req[r].op = (IF users'[u].active THEN "enable" ELSE "disable")]_vars

(* A key is accepted with the rights of the role it was issued to as long  *)
(* as it lives, whatever becomes of its owner meanwhile: no customer's key *)
(* ends up as one without an owner, which is an administrator's.           *)
KeyKeepsRole == \A k \in Keys : Resolves(k) => KeyRole(k) = keys[k].issuedTo
=============================================================================
