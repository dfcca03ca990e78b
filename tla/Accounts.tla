------------------------------ MODULE Accounts ------------------------------
(***************************************************************************)
(* User accounts, their passwords and avatars, and the branches they       *)
(* belong to (accounts/services/user_service.py, branch_service.py and the *)
(* password operations of auth_service.py), and the accounts that lead     *)
(* conversions open (crm_leads/services/lead_service.py).                  *)
(*                                                                         *)
(* A request loads the row it works on - get_object(), or the user of the  *)
(* access token -, runs the queries that may refuse it, and writes.  No    *)
(* row is locked before it is written.  Some operations save the columns   *)
(* they change, others the whole row as it was loaded.  The audit entry is *)
(* written last, in the same transaction.  Files are not part of any       *)
(* transaction.  A request of an actor without the right to it leaves no   *)
(* trace; a super administrator may make every request below.              *)
(***************************************************************************)
EXTENDS Naturals, FiniteSets

CONSTANTS
  Workers,
  Users,
  Branches,
  Emails,
  Passwords,
  Codes,       \* branch codes
  MaxFiles,    \* bound on the avatars ever stored
  Scenarios,   \* where the system may start: the rows there are, the operations asked for
  None

Files == 1..MaxFiles

UserRow ==
  [branch: Branches \cup {None}, email: Emails, password: Passwords, stale_hash: BOOLEAN,
   is_active: BOOLEAN, is_deleted: BOOLEAN, photo: Files \cup {None}]

BranchRow == [code: Codes, is_deleted: BOOLEAN]

Columns == {"branch", "email", "password", "is_active"}

ASSUME ScenarioAssumption ==
  /\ MaxFiles \in Nat \ {0}
  /\ None \notin Users \cup Branches \cup Files \cup UserRow \cup BranchRow
  /\ Users \cap Branches = {}
  /\ \A sc \in Scenarios :
       /\ sc.user \in [Users -> UserRow \cup {None}]
       /\ sc.branch \in [Branches -> BranchRow \cup {None}]
       /\ sc.columns \subseteq Columns
       /\ \A u, v \in Users :
            u # v /\ sc.user[u] # None /\ sc.user[v] # None =>
              /\ sc.user[u].email # sc.user[v].email
              /\ sc.user[u].photo # sc.user[v].photo \/ sc.user[u].photo = None
       /\ \A u \in Users : sc.user[u] # None => sc.user[u].photo \in {None, 1}

VARIABLES
  workload,  \* the operations asked for, and the columns edits name
  user,      \* the table of users, None where there is no row
  branch,    \* the table of branches
  files,     \* the stored avatars
  stored,    \* how many avatars have ever been stored
  pc,        \* where each worker is in its request
  job,       \* its request and the row it holds in memory
  missed,    \* history: the rows committed by others since a worker loaded its row
  unseen,    \* history: those committed since its queries
  unmet,     \* history: the pairs of rows of which one was written without seeing the other
  chosen,    \* history: the password last set for each user
  reverted,  \* history: the users whose password a request wrote back as it had loaded it
  torn       \* history: the users whose avatar has changed and whose row has not, or was
             \* written back as a request had loaded it

tables == <<user, branch>>
storage == <<files, stored>>
history == <<missed, unseen, unmet, chosen, reverted, torn>>
vars == <<workload, user, branch, files, stored, pc, job, missed, unseen, unmet, chosen,
          reverted, torn>>

NoJob == [op |-> None]

\* User.objects.filter(is_deleted=False), Branch.objects.filter(is_deleted=False)
LiveUsers == {u \in Users : user[u] # None /\ ~user[u].is_deleted}
LiveBranches == {b \in Branches : branch[b] # None /\ ~branch[b].is_deleted}

\* The users an access token is honoured for.
SignedIn == {u \in Users : user[u] # None /\ user[u].is_active}

\* member_count
Members(b) == {u \in LiveUsers : user[u].branch = b /\ user[u].is_active}

\* email__iexact over every row, the deleted ones included, but the one being edited.
EmailFree(e, u) == \A v \in Users \ {u} : user[v] # None => user[v].email # e

\* _assert_code_available: retired branches keep their code.
CodeFree(c, b) == \A x \in Branches \ {b} : branch[x] # None => branch[x].code # c

-----------------------------------------------------------------------------
Init ==
  /\ \E sc \in Scenarios :
       /\ workload = [operations |-> sc.asked, columns |-> sc.columns]
       /\ user = sc.user
       /\ branch = sc.branch
       /\ chosen = [u \in Users |-> IF sc.user[u] = None THEN None ELSE sc.user[u].password]
       /\ files = {sc.user[u].photo : u \in {x \in Users : sc.user[x] # None}} \ {None}
  /\ stored = 1
  /\ pc = [w \in Workers |-> "idle"]
  /\ job = [w \in Workers |-> NoJob]
  /\ missed = [w \in Workers |-> {}]
  /\ unseen = [w \in Workers |-> {}]
  /\ unmet = {} /\ reverted = {} /\ torn = {}

-----------------------------------------------------------------------------
(* Loading.                                                                 *)

Load(w, j) ==
  /\ pc[w] = "idle"
  /\ j.op \in workload.operations
  /\ pc' = [pc EXCEPT ![w] = "loaded"]
  /\ job' = [job EXCEPT ![w] = j]
  /\ UNCHANGED <<workload, tables, storage, history>>

Asked(column, values) == IF column \in workload.columns THEN values ELSE {}

\* The row as an edit of one column would save it.
Edited(row) ==
  {[row EXCEPT !.email = e] : e \in Asked("email", Emails)}
    \cup {[row EXCEPT !.branch = b] : b \in Asked("branch", Branches)}
    \cup {[row EXCEPT !.is_active = a] : a \in Asked("is_active", BOOLEAN)}
    \cup {[row EXCEPT !.password = p, !.stale_hash = FALSE] : p \in Asked("password", Passwords)}

LoadUpdateUser(w) ==
  \E u \in LiveUsers : \E new \in Edited(user[u]) :
    Load(w, [op |-> "update_user", user |-> u, seen |-> user[u], new |-> new])

LoadDeleteUser(w) ==
  \E u \in LiveUsers : Load(w, [op |-> "soft_delete_user", user |-> u])

\* update_profile: the own e-mail address, with or without a new avatar.
LoadUpdateProfile(w) ==
  \E u \in SignedIn, e \in Emails, photo \in BOOLEAN :
    Load(w, [op |-> "update_profile", user |-> u, seen |-> user[u],
             new |-> [user[u] EXCEPT !.email = e], photo |-> photo])

LoadPhoto(w) ==
  \E u \in SignedIn :
    \/ Load(w, [op |-> "set_profile_photo", user |-> u, seen |-> user[u]])
    \/ /\ user[u].photo # None
       /\ Load(w, [op |-> "remove_profile_photo", user |-> u, seen |-> user[u]])

\* change_password compares the old password with the row the token was checked against.
LoadChangePassword(w) ==
  \E u \in SignedIn : \E p \in Passwords \ {user[u].password} :
    Load(w, [op |-> "change_password", user |-> u, password |-> p])

\* reset_password needs the code that was sent, not the old password.
LoadResetPassword(w) ==
  \E u \in LiveUsers, p \in Passwords :
    Load(w, [op |-> "reset_password", user |-> u, password |-> p])

\* _authenticate with the right password on a hash of an old hasher: active or not, the
\* account is upgraded.
LoadLogin(w) ==
  \E u \in LiveUsers :
    /\ user[u].stale_hash
    /\ Load(w, [op |-> "login", user |-> u, password |-> user[u].password])

LoadBranch(w) ==
  \E b \in LiveBranches :
    \/ Load(w, [op |-> "soft_delete_branch", branch |-> b])
    \/ \E c \in Codes :
         Load(w, [op |-> "update_branch", branch |-> b, seen |-> branch[b],
                  new |-> [branch[b] EXCEPT !.code = c]])

Loads(w) ==
  \/ LoadUpdateUser(w) \/ LoadDeleteUser(w) \/ LoadUpdateProfile(w) \/ LoadPhoto(w)
  \/ LoadChangePassword(w) \/ LoadResetPassword(w) \/ LoadLogin(w) \/ LoadBranch(w)

-----------------------------------------------------------------------------
(* The queries that may refuse a request.                                   *)

Queried(w, j) ==
  /\ pc' = [pc EXCEPT ![w] = "checked"]
  /\ job' = [job EXCEPT ![w] = j]
  /\ unseen' = [unseen EXCEPT ![w] = {}]
  /\ UNCHANGED <<workload, tables, storage, missed, unmet, chosen, reverted, torn>>

\* create_user, create_branch: nothing is loaded before the queries.  A branch is any row,
\* a retired one included.
CheckCreateUser(w) ==
  \E e \in Emails, b \in Branches, p \in Passwords :
    /\ pc[w] = "idle"
    /\ "create_user" \in workload.operations
    /\ branch[b] # None
    /\ EmailFree(e, None)
    /\ Queried(w, [op |-> "create_user",
                   new |-> [branch |-> b, email |-> e, password |-> p, stale_hash |-> FALSE,
                            is_active |-> TRUE, is_deleted |-> FALSE, photo |-> None]])

CheckCreateBranch(w) ==
  \E c \in Codes :
    /\ pc[w] = "idle"
    /\ "create_branch" \in workload.operations
    /\ CodeFree(c, None)
    /\ Queried(w, [op |-> "create_branch", new |-> [code |-> c, is_deleted |-> FALSE]])

\* Fault: a branch with members is renamed.
PassesRename(j) ==
  /\ j.op \in {"update_user", "update_profile"} /\ j.new.email # j.seen.email =>
       EmailFree(j.new.email, j.user)
  /\ j.op = "soft_delete_branch" => Members(j.branch) = {}
  /\ j.op = "update_branch" => CodeFree(j.new.code, j.branch)

\* Fault: a profile may take any address.
ProfileEmailUnchecked(j) ==
  /\ j.op = "update_user" /\ j.new.email # j.seen.email => EmailFree(j.new.email, j.user)
  /\ j.op = "soft_delete_branch" => Members(j.branch) = {}
  /\ j.op = "update_branch" /\ j.new.code # j.seen.code =>
       Members(j.branch) = {} /\ CodeFree(j.new.code, j.branch)

\* What the serializer and the service ask of the tables.
Passes(j) ==
  /\ j.op \in {"update_user", "update_profile"} /\ j.new.email # j.seen.email =>
       EmailFree(j.new.email, j.user)
  /\ j.op = "soft_delete_branch" => Members(j.branch) = {}
  /\ j.op = "update_branch" /\ j.new.code # j.seen.code =>
       Members(j.branch) = {} /\ CodeFree(j.new.code, j.branch)

Check(w) ==
  /\ pc[w] = "loaded"
  /\ Passes(job[w])
  /\ Queried(w, job[w])

\* The request leaves nothing behind in the tables.
End(w) ==
  /\ pc' = [pc EXCEPT ![w] = "idle"]
  /\ job' = [job EXCEPT ![w] = NoJob]
  /\ missed' = [missed EXCEPT ![w] = {}]
  /\ unseen' = [unseen EXCEPT ![w] = {}]
  /\ UNCHANGED <<workload, tables, storage, unmet, chosen, reverted, torn>>

Refuse(w) == pc[w] = "loaded" /\ ~Passes(job[w]) /\ End(w)

\* The worker dies, or record_audit fails and swallows the error: the transaction is rolled
\* back - silently, in the second case - and the files are as they are.
RollBack(w) == pc[w] # "idle" /\ End(w)

-----------------------------------------------------------------------------
(* The writes.                                                              *)

Writing(w, op) == pc[w] = "checked" /\ job[w].op = op

\* A row that another transaction has written and not committed.
Locked(u) == \E v \in Workers : pc[v] = "swapped" /\ job[v].user = u

\* The rows are written by a request that has not seen those overlooked; who is under way
\* missed them.
Publish(w, rows, overlooked) ==
  /\ pc' = [pc EXCEPT ![w] = "idle"]
  /\ job' = [job EXCEPT ![w] = NoJob]
  /\ missed' = [v \in Workers |->
                  IF v # w /\ pc[v] # "idle" THEN missed[v] \cup rows ELSE {}]
  /\ unseen' = [v \in Workers |->
                  IF v # w /\ pc[v] \in {"checked", "swapped"} THEN unseen[v] \cup rows ELSE {}]
  /\ unmet' = unmet \cup {{r, m} : r \in rows \cap Users, m \in (overlooked \cap Users) \ rows}
  /\ UNCHANGED workload

Commit(w, rows) == Publish(w, rows, missed[w])

\* A write of u's row sets its password ...
PasswordSet(u) ==
  /\ chosen' = [chosen EXCEPT ![u] = user'[u].password]
  /\ reverted' = reverted \ {u}

\* ... or writes it back as the request loaded it.
PasswordKept(w, u) ==
  /\ reverted' = IF u \in missed[w] /\ user'[u].password # user[u].password
                  THEN reverted \cup {u}
                  ELSE reverted
  /\ UNCHANGED chosen

\* The name of the avatar is written back as the request loaded it.
PhotoKept(w, u) ==
  torn' = IF u \in missed[w] /\ user'[u].photo # user[u].photo THEN torn \cup {u} ELSE torn

CreateUser(w) ==
  /\ Writing(w, "create_user")
  /\ \E u \in Users :
       /\ user[u] = None
       /\ user' = [user EXCEPT ![u] = job[w].new]
       /\ PasswordSet(u)
       /\ Commit(w, {u})
  /\ UNCHANGED <<branch, storage, torn>>

\* Who has this address.
Holders(e) == {v \in Users : user[v] # None /\ user[v].email = e}

\* convert_lead_to_student opens an account with the address and in the branch of the lead
\* and a password of its own, in the transaction of the conversion.  It looks nothing up:
\* whoever has the address already is overlooked.
ConvertLead(w) ==
  \E u \in Users, e \in Emails, b \in Branches, p \in Passwords :
    /\ pc[w] = "idle"
    /\ "convert_lead" \in workload.operations
    /\ branch[b] # None /\ user[u] = None
    /\ user' = [user EXCEPT ![u] =
                  [branch |-> b, email |-> e, password |-> p, stale_hash |-> FALSE,
                   is_active |-> TRUE, is_deleted |-> FALSE, photo |-> None]]
    /\ PasswordSet(u)
    /\ Publish(w, {u}, Holders(e))
    /\ UNCHANGED <<branch, storage, torn>>

\* user.save(): every column.
UpdateUser(w) ==
  LET j == job[w] IN
  /\ Writing(w, "update_user")
  /\ ~Locked(j.user)
  /\ user' = [user EXCEPT ![j.user] = j.new]
  /\ IF j.new.password # j.seen.password THEN PasswordSet(j.user) ELSE PasswordKept(w, j.user)
  /\ PhotoKept(w, j.user)
  /\ Commit(w, {j.user})
  /\ UNCHANGED <<branch, storage>>

DeleteUser(w) ==
  LET u == job[w].user IN
  /\ Writing(w, "soft_delete_user")
  /\ ~Locked(u)
  /\ user' = [user EXCEPT ![u].is_deleted = TRUE, ![u].is_active = FALSE]
  /\ Commit(w, {u})
  /\ UNCHANGED <<branch, storage, chosen, reverted, torn>>

\* user.save(), when there is no avatar in the request.
UpdateProfile(w) ==
  LET j == job[w] IN
  /\ Writing(w, "update_profile") /\ ~j.photo
  /\ ~Locked(j.user)
  /\ user' = [user EXCEPT ![j.user] = j.new]
  /\ PasswordKept(w, j.user)
  /\ PhotoKept(w, j.user)
  /\ Commit(w, {j.user})
  /\ UNCHANGED <<branch, storage>>

UploadsPhoto(j) == j.op = "set_profile_photo" \/ (j.op = "update_profile" /\ j.photo)

\* The new file is stored, the row written, the superseded file deleted: all before the commit.
SwapPhoto(w) ==
  LET j == job[w] IN
  /\ pc[w] = "checked"
  /\ UploadsPhoto(j)
  /\ ~Locked(j.user)
  /\ stored < MaxFiles
  /\ stored' = stored + 1
  /\ files' = (files \ {j.seen.photo}) \cup {stored + 1}
  /\ pc' = [pc EXCEPT ![w] = "swapped"]
  /\ job' = [job EXCEPT ![w] = [op |-> j.op, user |-> j.user, photo |-> stored + 1,
               new |-> IF j.op = "update_profile" THEN j.new ELSE None]]
  /\ torn' = torn \cup {j.user}
  /\ UNCHANGED <<workload, tables, missed, unseen, unmet, chosen, reverted>>

RemovePhoto(w) ==
  LET j == job[w] IN
  /\ Writing(w, "remove_profile_photo")
  /\ ~Locked(j.user)
  /\ files' = files \ {j.seen.photo}
  /\ pc' = [pc EXCEPT ![w] = "swapped"]
  /\ job' = [job EXCEPT ![w] = [op |-> j.op, user |-> j.user, photo |-> None, new |-> None]]
  /\ torn' = torn \cup {j.user}
  /\ UNCHANGED <<workload, tables, stored, missed, unseen, unmet, chosen, reverted>>

\* Fault: the old name is kept when it is cleared.
CommitPhotoName(w) ==
  LET j == job[w]
      row == IF j.new = None THEN user[j.user] ELSE j.new
  IN
  /\ pc[w] = "swapped"
  /\ user' = [user EXCEPT ![j.user] = [row EXCEPT !.photo = IF j.photo = None THEN @ ELSE j.photo]]
  /\ IF j.new = None THEN UNCHANGED <<chosen, reverted>> ELSE PasswordKept(w, j.user)
  /\ torn' = torn \ {j.user}
  /\ Commit(w, {j.user})
  /\ UNCHANGED <<branch, storage>>

\* The avatar alone, or with the whole row of update_profile.
CommitPhoto(w) ==
  LET j == job[w]
      row == IF j.new = None THEN user[j.user] ELSE j.new
  IN
  /\ pc[w] = "swapped"
  /\ user' = [user EXCEPT ![j.user] = [row EXCEPT !.photo = j.photo]]
  /\ IF j.new = None THEN UNCHANGED <<chosen, reverted>> ELSE PasswordKept(w, j.user)
  /\ torn' = torn \ {j.user}
  /\ Commit(w, {j.user})
  /\ UNCHANGED <<branch, storage>>

\* Fault: the stamp is saved and the hash is not.
StampPassword(w) ==
  LET u == job[w].user IN
  /\ pc[w] = "checked" /\ job[w].op \in {"change_password", "reset_password"}
  /\ ~Locked(u)
  /\ chosen' = [chosen EXCEPT ![u] = job[w].password]
  /\ reverted' = reverted \ {u}
  /\ Commit(w, {u})
  /\ UNCHANGED <<tables, storage, torn>>

\* mark_password_changed: save(update_fields=["password", "password_changed_at"]).
SetPassword(w) ==
  LET u == job[w].user IN
  /\ pc[w] = "checked" /\ job[w].op \in {"change_password", "reset_password"}
  /\ ~Locked(u)
  /\ user' = [user EXCEPT ![u].password = job[w].password, ![u].stale_hash = FALSE]
  /\ PasswordSet(u)
  /\ Commit(w, {u})
  /\ UNCHANGED <<branch, storage, torn>>

\* _upgrade_stale_hash: the password typed in at the login is hashed anew and saved.
UpgradeHash(w) ==
  LET u == job[w].user IN
  /\ Writing(w, "login")
  /\ ~Locked(u)
  /\ user' = [user EXCEPT ![u].password = job[w].password, ![u].stale_hash = FALSE]
  /\ PasswordKept(w, u)
  /\ Commit(w, {u})
  /\ UNCHANGED <<branch, storage, torn>>

\* The unique column decides between two requests that both found the code free.
CreateBranch(w) ==
  LET j == job[w] IN
  /\ Writing(w, "create_branch")
  /\ CodeFree(j.new.code, None)
  /\ \E b \in Branches :
       /\ branch[b] = None
       /\ branch' = [branch EXCEPT ![b] = j.new]
       /\ Commit(w, {b})
  /\ UNCHANGED <<user, storage, chosen, reverted, torn>>

\* branch.save(): every column, is_deleted included.
UpdateBranch(w) ==
  LET j == job[w] IN
  /\ Writing(w, "update_branch")
  /\ CodeFree(j.new.code, j.branch)
  /\ branch' = [branch EXCEPT ![j.branch] = j.new]
  /\ Commit(w, {j.branch})
  /\ UNCHANGED <<user, storage, chosen, reverted, torn>>

DeleteBranch(w) ==
  LET b == job[w].branch IN
  /\ Writing(w, "soft_delete_branch")
  /\ branch' = [branch EXCEPT ![b].is_deleted = TRUE]
  /\ Commit(w, {b})
  /\ UNCHANGED <<user, storage, chosen, reverted, torn>>

\* IntegrityError.
CodeTaken(w) ==
  LET j == job[w] IN
  /\ \/ Writing(w, "create_branch") /\ ~CodeFree(j.new.code, None)
     \/ Writing(w, "update_branch") /\ ~CodeFree(j.new.code, j.branch)
  /\ End(w)

Writes(w) ==
  \/ CreateUser(w) \/ ConvertLead(w) \/ UpdateUser(w) \/ DeleteUser(w) \/ UpdateProfile(w)
  \/ SwapPhoto(w) \/ RemovePhoto(w) \/ CommitPhoto(w)
  \/ SetPassword(w) \/ UpgradeHash(w)
  \/ CreateBranch(w) \/ UpdateBranch(w) \/ DeleteBranch(w) \/ CodeTaken(w)

Next ==
  \E w \in Workers :
    \/ Loads(w) \/ CheckCreateUser(w) \/ CheckCreateBranch(w) \/ Check(w)
    \/ Refuse(w) \/ RollBack(w) \/ Writes(w)

Spec == Init /\ [][Next]_vars

-----------------------------------------------------------------------------
\* Types of the tables, the storage and the history.
TypeOK ==
  /\ user \in [Users -> UserRow \cup {None}]
  /\ branch \in [Branches -> BranchRow \cup {None}]
  /\ stored \in 0..MaxFiles /\ files \subseteq 1..stored
  /\ pc \in [Workers -> {"idle", "loaded", "checked", "swapped"}]
  /\ missed \in [Workers -> SUBSET (Users \cup Branches)]
  /\ \A w \in Workers : unseen[w] \subseteq missed[w]
  /\ chosen \in [Users -> Passwords \cup {None}]
  /\ reverted \cup torn \subseteq Users

\* user_service.py:317 "so a failure never leaves the user without an avatar": an avatar a
\* row names is stored, unless a request for that user is, or broke off, between the files
\* and the commit, or a save wrote back the name it had loaded.
AvatarIsStored ==
  \A u \in Users :
    user[u] # None /\ user[u].photo # None /\ u \notin torn => user[u].photo \in files

\* The password that was last set for an account is the one that signs it in, unless a
\* request that had loaded the row before wrote the old one back.
PasswordHolds ==
  \A u \in Users : user[u] # None /\ u \notin reverted => user[u].password = chosen[u]

\* "A user with this email already exists": two rows have one address only if one of them
\* was written by a request that had not seen the other - one that overlapped its write, or
\* the conversion of a lead, which looks no address up.  There is no constraint.
DuplicateEmailWasUnseen ==
  \A u, v \in Users :
    u # v /\ user[u] # None /\ user[v] # None /\ user[u].email = user[v].email
      => {u, v} \in unmet

\* Rows of their types, and the addresses of accounts as unique as the look-ups keep them.
AccountsIntegrity == TypeOK /\ DuplicateEmailWasUnseen

\* A branch is removed, or its code changes, while its members are those who came after the
\* count; an old code comes back with the row of an edit that had missed the renaming.
LeavingIsCounted ==
  \A b \in Branches : branch[b] # None =>
    /\ branch'[b].is_deleted /\ ~branch[b].is_deleted =>
         \E w \in Workers : pc'[w] # pc[w] /\ Members(b) \subseteq unseen[w]
    /\ branch'[b].code # branch[b].code =>
         \E w \in Workers :
           pc'[w] # pc[w] /\ (b \in missed[w] \/ Members(b) \subseteq unseen[w])

\* branch_service.py:6 "a branch cannot be removed while it still holds active records",
\* and its code does not change under them.
BranchLeftEmpty == [][LeavingIsCounted]_vars

=============================================================================
