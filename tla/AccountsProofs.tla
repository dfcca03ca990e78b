---------------------------- MODULE AccountsProofs ----------------------------
(***************************************************************************)
(* Proofs about Accounts, for any number of workers, users, branches,      *)
(* addresses, passwords and avatars.                                       *)
(***************************************************************************)
EXTENDS Accounts, TLAPS

RowEdits == {"update_user", "update_profile"}
PhotoEdits == {"set_profile_photo", "remove_profile_photo"}
PasswordEdits == {"change_password", "reset_password", "login"}
UserEdits == RowEdits \cup PhotoEdits \cup PasswordEdits \cup {"soft_delete_user"}
BranchEdits == {"soft_delete_branch", "update_branch"}
Loadable == UserEdits \cup BranchEdits
Creations == {"create_user", "create_branch"}
Swaps == PhotoEdits \cup {"update_profile"}

\* The whole user row a request is going to write, if it writes one.
WritesRow(phase, j) ==
  \/ phase # "swapped" /\ j.op \in RowEdits
  \/ phase = "swapped" /\ j.new # None

\* A request before its writes, on the tables U and B.
Fits(j, U, B) ==
  /\ j.op \in UserEdits => j.user \in Users /\ U[j.user] # None
  /\ j.op \in RowEdits \cup PhotoEdits => j.seen \in UserRow
  /\ j.op \in RowEdits => j.new \in UserRow /\ j.new.photo = j.seen.photo
  /\ j.op = "update_profile" => j.photo \in BOOLEAN /\ j.new.password = j.seen.password
  /\ j.op \in PasswordEdits => j.password \in Passwords
  /\ j.op \in BranchEdits => j.branch \in Branches /\ B[j.branch] # None
  /\ j.op = "update_branch" => j.seen \in BranchRow /\ j.new \in BranchRow /\ ~j.new.is_deleted
  /\ j.op = "create_user" => j.new \in UserRow /\ j.new.photo = None
  /\ j.op = "create_branch" => j.new \in BranchRow

\* A request between its files and its commit.
SwapFits(j, U) ==
  /\ j.user \in Users /\ U[j.user] # None
  /\ j.new \in UserRow \cup {None} /\ j.photo \in Files \cup {None}

Placed(phase, j, U, B) ==
  /\ phase = "loaded" => j.op \in Loadable
  /\ phase = "checked" => j.op \in Loadable \cup Creations
  /\ phase = "swapped" => j.op \in Swaps
  /\ phase # "swapped" => Fits(j, U, B)
  /\ phase = "swapped" => SwapFits(j, U)

\* The row a request has loaded is the row on record, unless it has missed a write of it.
RowStands(phase, j, unread, U, B) ==
  /\ phase # "swapped" /\ j.op \in RowEdits \cup PhotoEdits /\ j.user \notin unread =>
       U[j.user] = j.seen
  /\ phase # "swapped" /\ j.op = "login" /\ j.user \notin unread =>
       U[j.user].password = j.password
  /\ phase = "swapped" /\ j.new # None /\ j.user \notin unread =>
       U[j.user].password = j.new.password
  /\ phase # "swapped" /\ j.op = "update_branch" /\ j.branch \notin unread =>
       B[j.branch] = j.seen

\* Who else has this address has it since, or shared it with u before.
Address(e, u, unread, U, R) ==
  \A v \in Users \ {u} : U[v] # None /\ U[v].email = e => v \in unread \/ {u, v} \in R

AddressStands(phase, j, unread, U, R) ==
  /\ phase = "loaded" /\ j.op \in RowEdits => Address(j.seen.email, j.user, unread, U, R)
  /\ phase \in {"checked", "swapped"} /\ WritesRow(phase, j) =>
       Address(j.new.email, j.user, unread, U, R)
  /\ phase = "checked" /\ j.op = "create_user" =>
       \A v \in Users : U[v] # None /\ U[v].email = j.new.email => v \in unread

\* The members of a branch came after the count.
Counted(b, uncounted, U) ==
  \A u \in Users :
    U[u] # None /\ ~U[u].is_deleted /\ U[u].branch = b /\ U[u].is_active => u \in uncounted

CountStands(phase, j, uncounted, U) ==
  phase = "checked" =>
    /\ j.op = "soft_delete_branch" => Counted(j.branch, uncounted, U)
    /\ j.op = "update_branch" /\ j.new.code # j.seen.code => Counted(j.branch, uncounted, U)

Stands(phase, j, unread, uncounted, U, B, R) ==
  /\ Placed(phase, j, U, B)
  /\ RowStands(phase, j, unread, U, B)
  /\ AddressStands(phase, j, unread, U, R)
  /\ CountStands(phase, j, uncounted, U)

RequestsStand ==
  \A w \in Workers : pc[w] # "idle" =>
    Stands(pc[w], job[w], missed[w], unseen[w], user, branch, unmet)

Shapes ==
  /\ pc \in [Workers -> {"idle", "loaded", "checked", "swapped"}]
  /\ job = [w \in Workers |-> job[w]]
  /\ missed = [w \in Workers |-> missed[w]]
  /\ unseen = [w \in Workers |-> unseen[w]]

\* One swap for a user at a time, and its file is stored.
SwapsApart ==
  \A v, w \in Workers : v # w /\ pc[v] = "swapped" /\ pc[w] = "swapped" => job[v].user # job[w].user
SwapsStored ==
  \A w \in Workers : pc[w] = "swapped" /\ job[w].photo # None => job[w].photo \in files

\* A file has been of one user ever since it was stored.
Of(f, u, owner, n) == f = None \/ (f \in 1..n /\ owner[f] = u)

HeldBy(phase, j, owner, n) ==
  /\ phase # "swapped" /\ j.op \in RowEdits \cup PhotoEdits => Of(j.seen.photo, j.user, owner, n)
  /\ phase = "swapped" => Of(j.photo, j.user, owner, n)

OwnedBy(owner) ==
  /\ \A u \in Users : user[u] # None => Of(user[u].photo, u, owner, stored)
  /\ \A w \in Workers : pc[w] # "idle" => HeldBy(pc[w], job[w], owner, stored)

FilesOwned == \E owner \in [Files -> Users \cup {None}] : OwnedBy(owner)

IInv ==
  /\ TypeOK /\ Shapes /\ RequestsStand
  /\ SwapsApart /\ SwapsStored /\ FilesOwned
  /\ AvatarIsStored /\ PasswordHolds /\ DuplicateEmailWasUnseen

-----------------------------------------------------------------------------
(* What a step leaves of the requests under way.                            *)

\* After a step that has written these rows, a request under way is one that was, and has missed
\* them.
Written(rows) ==
  \A v \in Workers : pc'[v] # "idle" =>
    /\ pc'[v] = pc[v] /\ job'[v] = job[v] /\ missed'[v] = missed[v] \cup rows
    /\ pc[v] # "loaded" => unseen'[v] = unseen[v] \cup rows

\* Two tables agree on the rows outside "rows", and no row is taken away.
Agree(ids, rows, T, T2) ==
  \A x \in ids : /\ x \notin rows => T2[x] = T[x]
                 /\ T[x] # None => T2[x] # None

LEMMA StandsKept ==
  ASSUME NEW phase \in {"loaded", "checked", "swapped"}, NEW j, NEW rows,
         NEW unread, NEW uncounted, NEW U, NEW B, NEW R,
         NEW unread2, NEW uncounted2, NEW U2, NEW B2, NEW R2,
         Stands(phase, j, unread, uncounted, U, B, R),
         unread2 = unread \cup rows, phase # "loaded" => uncounted2 = uncounted \cup rows,
         Agree(Users, rows, U, U2), Agree(Branches, rows, B, B2), R \subseteq R2
  PROVE  Stands(phase, j, unread2, uncounted2, U2, B2, R2)
<1>1. Placed(phase, j, U2, B2)
  BY DEF Stands, Placed, Fits, SwapFits, Agree
<1>2. RowStands(phase, j, unread2, U2, B2)
  BY DEF Stands, RowStands, Placed, Fits, SwapFits, Agree, UserEdits, BranchEdits, Loadable,
         RowEdits, PhotoEdits, PasswordEdits
<1>3. ASSUME NEW e, NEW u, Address(e, u, unread, U, R)
      PROVE  Address(e, u, unread2, U2, R2)
  BY <1>3 DEF Address, Agree
<1>4. AddressStands(phase, j, unread2, U2, R2)
  <2>1. AddressStands(phase, j, unread, U, R)  BY DEF Stands
  <2>2. ASSUME phase = "checked", j.op = "create_user", NEW v \in Users, U2[v] # None,
               U2[v].email = j.new.email
        PROVE  v \in unread2
    BY <2>1, <2>2 DEF AddressStands, Agree
  <2>3. QED  BY <1>3, <2>1, <2>2 DEF AddressStands
<1>5. CountStands(phase, j, uncounted2, U2)
  BY DEF Stands, CountStands, Counted, Agree
<1>6. QED  BY <1>1, <1>2, <1>4, <1>5 DEF Stands

LEMMA PublishWrites ==
  ASSUME Shapes, NEW w \in Workers, NEW rows, NEW overlooked, Publish(w, rows, overlooked)
  PROVE  Shapes' /\ Written(rows) /\ unmet \subseteq unmet' /\ pc'[w] = "idle"
<1>1. Shapes'  BY DEF Publish, Shapes
<1>2. Written(rows)  BY DEF Publish, Shapes, Written
<1>3. unmet \subseteq unmet' /\ pc'[w] = "idle"  BY DEF Publish, Shapes
<1>4. QED  BY <1>1, <1>2, <1>3

LEMMA CommitWrites ==
  ASSUME Shapes, NEW w \in Workers, NEW rows, Commit(w, rows)
  PROVE  Shapes' /\ Written(rows) /\ unmet \subseteq unmet' /\ pc'[w] = "idle"
BY PublishWrites DEF Commit

LEMMA EndWrites ==
  ASSUME Shapes, NEW w \in Workers, NEW rows, rows = {}, End(w)
  PROVE  Shapes' /\ Written(rows)
<1>1. Shapes'  BY DEF End, Shapes
<1>2. Written(rows)  BY DEF End, Shapes, Written
<1>3. QED  BY <1>1, <1>2

\* Who writes a row goes down as one who has not met those it overlooked.
LEMMA PublishRecords ==
  ASSUME NEW w \in Workers, NEW u \in Users, NEW v \in Users, u # v, NEW overlooked,
         v \in overlooked, NEW rows, rows = {u}, Publish(w, rows, overlooked)
  PROVE  {u, v} \in unmet'
<1>1. u \in rows \cap Users /\ v \in (overlooked \cap Users) \ rows  OBVIOUS
<1>2. {u, v} \in {{r, m} : r \in rows \cap Users, m \in (overlooked \cap Users) \ rows}
  BY <1>1
<1>3. QED  BY <1>2 DEF Publish

LEMMA RequestsKept ==
  ASSUME Shapes, Shapes', RequestsStand, NEW rows, Written(rows), unmet \subseteq unmet',
         Agree(Users, rows, user, user'), Agree(Branches, rows, branch, branch')
  PROVE  RequestsStand'
<1> SUFFICES ASSUME NEW v \in Workers, pc'[v] # "idle"
             PROVE  Stands(pc'[v], job'[v], missed'[v], unseen'[v], user', branch', unmet')
  BY DEF RequestsStand
<1>1. /\ pc'[v] = pc[v] /\ job'[v] = job[v] /\ missed'[v] = missed[v] \cup rows
      /\ pc[v] # "loaded" => unseen'[v] = unseen[v] \cup rows
  BY DEF Written
<1>2. pc[v] \in {"loaded", "checked", "swapped"}  BY <1>1 DEF Shapes
<1>3. Stands(pc[v], job[v], missed[v], unseen[v], user, branch, unmet)
  BY <1>1 DEF RequestsStand
<1>4. Stands(pc[v], job[v], missed'[v], unseen'[v], user', branch', unmet')
  BY <1>1, <1>2, <1>3, StandsKept
<1>5. QED  BY <1>1, <1>4

LEMMA SwapsKept ==
  ASSUME SwapsApart, SwapsStored, NEW rows, Written(rows), files' = files
  PROVE  SwapsApart' /\ SwapsStored'
BY DEF SwapsApart, SwapsStored, Written

LEMMA OwnersKept ==
  ASSUME NEW owner, OwnedBy(owner), NEW rows, Written(rows), stored' = stored,
         \A u \in Users : user'[u] # None => Of(user'[u].photo, u, owner, stored)
  PROVE  OwnedBy(owner)'
BY DEF OwnedBy, Written

LEMMA PublishTypes ==
  ASSUME TypeOK, NEW w \in Workers, NEW rows \in SUBSET (Users \cup Branches), NEW overlooked,
         Publish(w, rows, overlooked)
  PROVE  /\ missed' \in [Workers -> SUBSET (Users \cup Branches)]
         /\ \A v \in Workers : unseen'[v] \subseteq missed'[v]
<1>1. missed' \in [Workers -> SUBSET (Users \cup Branches)]  BY DEF TypeOK, Publish
<1>2. \A v \in Workers : unseen'[v] \subseteq missed'[v]  BY DEF TypeOK, Publish
<1>3. QED  BY <1>1, <1>2

-----------------------------------------------------------------------------
(* Commits.                                                                 *)

\* A save of u's row keeps the invariant if what it writes of the password, of the avatar and of
\* the address is as good as what is on record.
LEMMA UserPublished ==
  ASSUME IInv, NEW w \in Workers, NEW u \in Users, NEW row \in UserRow, NEW rows, rows = {u},
         user' = [user EXCEPT ![u] = row], UNCHANGED <<branch, storage>>,
         NEW overlooked, Publish(w, rows, overlooked),
         chosen' \in [Users -> Passwords \cup {None}], reverted' \cup torn' \subseteq Users,
         u \notin reverted' => row.password = chosen'[u],
         row.photo # None /\ u \notin torn' => row.photo \in files,
         \A v \in Users \ {u} :
           chosen'[v] = chosen[v] /\ (v \in reverted => v \in reverted') /\ (v \in torn => v \in torn'),
         \A owner \in [Files -> Users \cup {None}] : OwnedBy(owner) => Of(row.photo, u, owner, stored),
         \A v \in Users \ {u} :
           user[v] # None /\ user[v].email = row.email => v \in overlooked \/ {u, v} \in unmet
  PROVE  IInv'
<1>1. /\ Shapes' /\ Written(rows) /\ unmet \subseteq unmet'
      /\ files' = files /\ stored' = stored /\ branch' = branch
  BY PublishWrites DEF IInv, storage
<1>2. user \in [Users -> UserRow \cup {None}] /\ row # None
  BY ScenarioAssumption DEF IInv, TypeOK
<1>3. user'[u] = row /\ \A v \in Users : v # u => user'[v] = user[v]  BY <1>2
<1>4. TypeOK'
  <2>1. user' \in [Users -> UserRow \cup {None}]  BY <1>2
  <2>2. rows \in SUBSET (Users \cup Branches)  OBVIOUS
  <2>3. /\ missed' \in [Workers -> SUBSET (Users \cup Branches)]
        /\ \A v \in Workers : unseen'[v] \subseteq missed'[v]
    BY <2>2, PublishTypes DEF IInv
  <2>4. QED  BY <1>1, <2>1, <2>3 DEF IInv, TypeOK, Shapes
<1>5. RequestsStand'
  <2>1. Agree(Users, rows, user, user')  BY <1>2, <1>3 DEF Agree
  <2>2. Agree(Branches, rows, branch, branch')  BY <1>1 DEF Agree
  <2>3. QED  BY <1>1, <2>1, <2>2, RequestsKept DEF IInv
<1>6. SwapsApart' /\ SwapsStored'  BY <1>1, SwapsKept DEF IInv
<1>7. FilesOwned'
  <2>1. PICK owner \in [Files -> Users \cup {None}] : OwnedBy(owner)  BY DEF IInv, FilesOwned
  <2>2. \A v \in Users : user'[v] # None => Of(user'[v].photo, v, owner, stored)
    BY <1>3, <2>1 DEF OwnedBy
  <2>3. OwnedBy(owner)'  BY <1>1, <2>1, <2>2, OwnersKept
  <2>4. QED  BY <2>1, <2>3 DEF FilesOwned
<1>8. AvatarIsStored'  BY <1>1, <1>3 DEF IInv, AvatarIsStored
<1>9. PasswordHolds'  BY <1>3 DEF IInv, PasswordHolds
<1>10. DuplicateEmailWasUnseen'
  <2>1. ASSUME NEW v \in Users, v # u, user[v] # None, user[v].email = row.email
        PROVE  {u, v} \in unmet' /\ {v, u} \in unmet'
    <3>1. v \in overlooked \/ {u, v} \in unmet  BY <2>1
    <3>2. {u, v} \in unmet'  BY <1>1, <2>1, <3>1, PublishRecords
    <3>3. {v, u} = {u, v}  OBVIOUS
    <3>4. QED  BY <3>2, <3>3
  <2>2. ASSUME NEW x \in Users, NEW y \in Users, x # y, x # u, y # u,
               user[x] # None, user[y] # None, user[x].email = user[y].email
        PROVE  {x, y} \in unmet'
    BY <1>1, <2>2 DEF IInv, DuplicateEmailWasUnseen
  <2>3. QED  BY <1>3, <2>1, <2>2 DEF DuplicateEmailWasUnseen
<1>11. QED  BY <1>1, <1>4, <1>5, <1>6, <1>7, <1>8, <1>9, <1>10 DEF IInv

LEMMA UserSaved ==
  ASSUME IInv, NEW w \in Workers, NEW u \in Users, NEW row \in UserRow, NEW rows, rows = {u},
         user' = [user EXCEPT ![u] = row], UNCHANGED <<branch, storage>>, Commit(w, rows),
         chosen' \in [Users -> Passwords \cup {None}], reverted' \cup torn' \subseteq Users,
         u \notin reverted' => row.password = chosen'[u],
         row.photo # None /\ u \notin torn' => row.photo \in files,
         \A v \in Users \ {u} :
           chosen'[v] = chosen[v] /\ (v \in reverted => v \in reverted') /\ (v \in torn => v \in torn'),
         \A owner \in [Files -> Users \cup {None}] : OwnedBy(owner) => Of(row.photo, u, owner, stored),
         \A v \in Users \ {u} :
           user[v] # None /\ user[v].email = row.email => v \in missed[w] \/ {u, v} \in unmet
  PROVE  IInv'
<1>1. PICK overlooked : overlooked = missed[w]  OBVIOUS
<1>2. Publish(w, rows, overlooked)  BY <1>1 DEF Commit
<1>3. QED  BY <1>1, <1>2, UserPublished

\* A save of a branch touches no user.
LEMMA BranchSaved ==
  ASSUME IInv, NEW w \in Workers, NEW b \in Branches, NEW row \in BranchRow, NEW rows, rows = {b},
         branch' = [branch EXCEPT ![b] = row],
         UNCHANGED <<user, storage, chosen, reverted, torn>>, Commit(w, rows)
  PROVE  IInv'
<1>1. /\ Shapes' /\ Written(rows) /\ unmet \subseteq unmet' /\ user' = user
      /\ files' = files /\ stored' = stored /\ chosen' = chosen /\ reverted' = reverted /\ torn' = torn
  BY CommitWrites DEF IInv, storage
<1>2. branch \in [Branches -> BranchRow \cup {None}] /\ row # None
  BY ScenarioAssumption DEF IInv, TypeOK
<1>3. TypeOK'
  <2>1. branch' \in [Branches -> BranchRow \cup {None}]  BY <1>2
  <2>2. rows \in SUBSET (Users \cup Branches)  OBVIOUS
  <2>3. /\ missed' \in [Workers -> SUBSET (Users \cup Branches)]
        /\ \A v \in Workers : unseen'[v] \subseteq missed'[v]
    BY <2>2, PublishTypes DEF IInv, Commit
  <2>4. QED  BY <1>1, <2>1, <2>3 DEF IInv, TypeOK, Shapes
<1>4. RequestsStand'
  <2>1. Agree(Users, rows, user, user')  BY <1>1 DEF Agree
  <2>2. Agree(Branches, rows, branch, branch')  BY <1>2 DEF Agree
  <2>3. QED  BY <1>1, <2>1, <2>2, RequestsKept DEF IInv
<1>5. SwapsApart' /\ SwapsStored'  BY <1>1, SwapsKept DEF IInv
<1>6. FilesOwned'
  <2>1. PICK owner \in [Files -> Users \cup {None}] : OwnedBy(owner)  BY DEF IInv, FilesOwned
  <2>2. \A v \in Users : user'[v] # None => Of(user'[v].photo, v, owner, stored)
    BY <1>1, <2>1 DEF OwnedBy
  <2>3. OwnedBy(owner)'  BY <1>1, <2>1, <2>2, OwnersKept
  <2>4. QED  BY <2>1, <2>3 DEF FilesOwned
<1>7. AvatarIsStored' /\ PasswordHolds'  BY <1>1 DEF IInv, AvatarIsStored, PasswordHolds
<1>8. DuplicateEmailWasUnseen'  BY <1>1 DEF IInv, DuplicateEmailWasUnseen
<1>9. QED  BY <1>1, <1>3, <1>4, <1>5, <1>6, <1>7, <1>8 DEF IInv

LEMMA EndKeeps ==
  ASSUME IInv, NEW w \in Workers, End(w)
  PROVE  IInv'
<1>1. PICK rows : rows = {}  OBVIOUS
<1>2. /\ Shapes' /\ Written(rows) /\ unmet' = unmet /\ user' = user /\ branch' = branch
      /\ files' = files /\ stored' = stored /\ chosen' = chosen /\ reverted' = reverted /\ torn' = torn
  BY <1>1, EndWrites DEF IInv, End, storage, tables
<1>3. TypeOK'  BY <1>2 DEF IInv, TypeOK, End, Shapes
<1>4. RequestsStand'
  <2>1. Agree(Users, rows, user, user') /\ Agree(Branches, rows, branch, branch')
    BY <1>2 DEF Agree
  <2>2. QED  BY <1>2, <2>1, RequestsKept DEF IInv
<1>5. SwapsApart' /\ SwapsStored'  BY <1>2, SwapsKept DEF IInv
<1>6. FilesOwned'
  <2>1. PICK owner \in [Files -> Users \cup {None}] : OwnedBy(owner)  BY DEF IInv, FilesOwned
  <2>2. \A v \in Users : user'[v] # None => Of(user'[v].photo, v, owner, stored)
    BY <1>2, <2>1 DEF OwnedBy
  <2>3. OwnedBy(owner)'  BY <1>2, <2>1, <2>2, OwnersKept
  <2>4. QED  BY <2>1, <2>3 DEF FilesOwned
<1>7. AvatarIsStored' /\ PasswordHolds'  BY <1>2 DEF IInv, AvatarIsStored, PasswordHolds
<1>8. DuplicateEmailWasUnseen'  BY <1>2 DEF IInv, DuplicateEmailWasUnseen
<1>9. QED  BY <1>2, <1>3, <1>4, <1>5, <1>6, <1>7, <1>8 DEF IInv

-----------------------------------------------------------------------------
(* Loads and queries.                                                       *)

\* A request comes in, or has passed its queries, and stands on the tables as they are.
LEMMA Entered ==
  ASSUME IInv, NEW w \in Workers, NEW phase \in {"loaded", "checked"}, NEW j,
         pc' = [pc EXCEPT ![w] = phase], job' = [job EXCEPT ![w] = j],
         UNCHANGED <<tables, storage, missed, unmet, chosen, reverted, torn>>,
         NEW counted \in SUBSET missed[w], unseen' = [unseen EXCEPT ![w] = counted],
         Stands(phase, j, missed[w], counted, user, branch, unmet),
         \A owner \in [Files -> Users \cup {None}] : OwnedBy(owner) => HeldBy(phase, j, owner, stored)
  PROVE  IInv'
<1>1. /\ user' = user /\ branch' = branch /\ files' = files /\ stored' = stored /\ missed' = missed
      /\ unmet' = unmet /\ chosen' = chosen /\ reverted' = reverted /\ torn' = torn
  BY DEF tables, storage
<1>2. Shapes'  BY DEF IInv, Shapes
<1>3. pc'[w] = phase /\ job'[w] = j /\ unseen'[w] = counted
  BY DEF IInv, Shapes
<1>4. \A v \in Workers : v # w => pc'[v] = pc[v] /\ job'[v] = job[v] /\ unseen'[v] = unseen[v]
  BY DEF IInv, Shapes
<1>5. TypeOK'
  <2>1. \A v \in Workers : unseen'[v] \subseteq missed'[v]
    BY <1>1, <1>3, <1>4 DEF IInv, TypeOK
  <2>2. QED  BY <1>1, <1>2, <2>1 DEF IInv, TypeOK, Shapes
<1>6. RequestsStand'
  <2> SUFFICES ASSUME NEW v \in Workers, pc'[v] # "idle"
               PROVE  Stands(pc'[v], job'[v], missed[v], unseen'[v], user, branch, unmet)
    BY <1>1 DEF RequestsStand
  <2>1. CASE v = w  BY <1>3, <2>1
  <2>2. CASE v # w  BY <1>4, <2>2 DEF IInv, RequestsStand
  <2>3. QED  BY <2>1, <2>2
<1>7. SwapsApart'
  <2> SUFFICES ASSUME NEW x \in Workers, NEW y \in Workers, x # y,
                      pc'[x] = "swapped", pc'[y] = "swapped"
               PROVE  job'[x].user # job'[y].user
    BY DEF SwapsApart
  <2>1. x # w /\ y # w  BY <1>3
  <2>2. QED  BY <1>4, <2>1 DEF IInv, SwapsApart
<1>8. SwapsStored'
  <2> SUFFICES ASSUME NEW x \in Workers, pc'[x] = "swapped", job'[x].photo # None
               PROVE  job'[x].photo \in files
    BY <1>1 DEF SwapsStored
  <2>1. x # w  BY <1>3
  <2>2. QED  BY <1>4, <2>1 DEF IInv, SwapsStored
<1>9. FilesOwned'
  <2>1. PICK owner \in [Files -> Users \cup {None}] : OwnedBy(owner)  BY DEF IInv, FilesOwned
  <2>2. HeldBy(phase, j, owner, stored)  BY <2>1
  <2>3. ASSUME NEW v \in Workers, pc'[v] # "idle"
        PROVE  HeldBy(pc'[v], job'[v], owner, stored)
    <3>1. CASE v = w  BY <1>3, <2>2, <3>1
    <3>2. CASE v # w  BY <1>4, <2>1, <2>3, <3>2 DEF OwnedBy
    <3>3. QED  BY <3>1, <3>2
  <2>4. OwnedBy(owner)'  BY <1>1, <2>1, <2>3 DEF OwnedBy
  <2>5. QED  BY <2>1, <2>4 DEF FilesOwned
<1>10. AvatarIsStored' /\ PasswordHolds'  BY <1>1 DEF IInv, AvatarIsStored, PasswordHolds
<1>11. DuplicateEmailWasUnseen'  BY <1>1 DEF IInv, DuplicateEmailWasUnseen
<1>12. QED  BY <1>2, <1>5, <1>6, <1>7, <1>8, <1>9, <1>10, <1>11 DEF IInv

LEMMA LoadEntered ==
  ASSUME IInv, NEW w \in Workers, NEW j, Load(w, j), j.op \in Loadable, Fits(j, user, branch),
         j.op \in RowEdits \cup PhotoEdits => j.seen = user[j.user],
         j.op = "login" => j.password = user[j.user].password,
         j.op = "update_branch" => j.seen = branch[j.branch]
  PROVE  IInv'
<1>1. PICK counted : counted = unseen[w]  OBVIOUS
<1>2. /\ pc' = [pc EXCEPT ![w] = "loaded"] /\ job' = [job EXCEPT ![w] = j]
      /\ UNCHANGED <<tables, storage, missed, unmet, chosen, reverted, torn>>
      /\ unseen' = [unseen EXCEPT ![w] = counted] /\ counted \in SUBSET missed[w]
  BY <1>1 DEF Load, history, IInv, Shapes, TypeOK
<1>3. RowStands("loaded", j, missed[w], user, branch)
  BY DEF RowStands
<1>4. AddressStands("loaded", j, missed[w], user, unmet)
  <2> SUFFICES ASSUME j.op \in RowEdits, NEW v \in Users \ {j.user}, user[v] # None,
                      user[v].email = j.seen.email
               PROVE  {j.user, v} \in unmet
    BY DEF AddressStands, Address
  <2>1. j.user \in Users /\ user[j.user] # None /\ j.seen = user[j.user]
    BY DEF Fits, UserEdits
  <2>2. QED  BY <2>1 DEF IInv, DuplicateEmailWasUnseen
<1>5. Stands("loaded", j, missed[w], counted, user, branch, unmet)
  BY <1>3, <1>4 DEF Stands, Placed, CountStands
<1>6. ASSUME NEW owner \in [Files -> Users \cup {None}], OwnedBy(owner)
      PROVE  HeldBy("loaded", j, owner, stored)
  BY <1>6 DEF HeldBy, OwnedBy, Fits, UserEdits
<1>7. QED  BY <1>2, <1>5, <1>6, Entered

LEMMA UpdateUserLoaded ==
  ASSUME IInv, NEW w \in Workers, LoadUpdateUser(w)
  PROVE  IInv'
<1>1. PICK u \in LiveUsers : \E new \in Edited(user[u]) :
        Load(w, [op |-> "update_user", user |-> u, seen |-> user[u], new |-> new])
  BY DEF LoadUpdateUser
<1>2. PICK new \in Edited(user[u]) :
        Load(w, [op |-> "update_user", user |-> u, seen |-> user[u], new |-> new])
  BY <1>1
<1>3. PICK j : j = [op |-> "update_user", user |-> u, seen |-> user[u], new |-> new]  OBVIOUS
<1>4. u \in Users /\ user[u] # None /\ user[u] \in UserRow  BY DEF LiveUsers, IInv, TypeOK
<1>5. new \in UserRow /\ new.photo = user[u].photo
  <2>1. CASE \E e \in Emails : new = [user[u] EXCEPT !.email = e]  BY <1>4, <2>1 DEF UserRow
  <2>2. CASE \E b \in Branches : new = [user[u] EXCEPT !.branch = b]  BY <1>4, <2>2 DEF UserRow
  <2>3. CASE \E a \in BOOLEAN : new = [user[u] EXCEPT !.is_active = a]  BY <1>4, <2>3 DEF UserRow
  <2>4. CASE \E p \in Passwords : new = [user[u] EXCEPT !.password = p, !.stale_hash = FALSE]
    BY <1>4, <2>4 DEF UserRow
  <2>5. QED  BY <2>1, <2>2, <2>3, <2>4 DEF Edited, Asked
<1>6. Fits(j, user, branch) /\ j.op \in Loadable
  BY <1>3, <1>4, <1>5 DEF Fits, Loadable, UserEdits, RowEdits, PhotoEdits, PasswordEdits, BranchEdits
<1>7. QED  BY <1>2, <1>3, <1>6, LoadEntered

LEMMA UpdateProfileLoaded ==
  ASSUME IInv, NEW w \in Workers, LoadUpdateProfile(w)
  PROVE  IInv'
<1>1. PICK u \in SignedIn, e \in Emails, photo \in BOOLEAN :
        Load(w, [op |-> "update_profile", user |-> u, seen |-> user[u],
                 new |-> [user[u] EXCEPT !.email = e], photo |-> photo])
  BY DEF LoadUpdateProfile
<1>2. PICK new : new = [user[u] EXCEPT !.email = e]  OBVIOUS
<1>3. PICK j : j = [op |-> "update_profile", user |-> u, seen |-> user[u], new |-> new,
                    photo |-> photo]  OBVIOUS
<1>4. u \in Users /\ user[u] # None /\ user[u] \in UserRow  BY DEF SignedIn, IInv, TypeOK
<1>5. new \in UserRow /\ new.photo = user[u].photo /\ new.password = user[u].password
  BY <1>2, <1>4 DEF UserRow
<1>6. Fits(j, user, branch) /\ j.op \in Loadable
  BY <1>3, <1>4, <1>5 DEF Fits, Loadable, UserEdits, RowEdits, PhotoEdits, PasswordEdits, BranchEdits
<1>7. QED  BY <1>1, <1>2, <1>3, <1>6, LoadEntered

LEMMA PhotoLoaded ==
  ASSUME IInv, NEW w \in Workers, LoadPhoto(w)
  PROVE  IInv'
<1>1. PICK u \in SignedIn : \E op \in PhotoEdits :
        Load(w, [op |-> op, user |-> u, seen |-> user[u]])
  BY DEF LoadPhoto, PhotoEdits
<1>2. PICK op \in PhotoEdits : Load(w, [op |-> op, user |-> u, seen |-> user[u]])  BY <1>1
<1>3. PICK j : j = [op |-> op, user |-> u, seen |-> user[u]]  OBVIOUS
<1>4. u \in Users /\ user[u] # None /\ user[u] \in UserRow  BY DEF SignedIn, IInv, TypeOK
<1>5. Fits(j, user, branch) /\ j.op \in Loadable
  BY <1>3, <1>4 DEF Fits, Loadable, UserEdits, RowEdits, PhotoEdits, PasswordEdits, BranchEdits
<1>6. j.op \notin {"login", "update_branch"}  BY <1>3 DEF PhotoEdits
<1>7. QED  BY <1>2, <1>3, <1>5, <1>6, LoadEntered

LEMMA PasswordLoaded ==
  ASSUME IInv, NEW w \in Workers,
         LoadChangePassword(w) \/ LoadResetPassword(w) \/ LoadLogin(w)
  PROVE  IInv'
<1>1. PICK u \in Users : \E op \in PasswordEdits, p \in Passwords :
        /\ user[u] # None
        /\ op = "login" => p = user[u].password
        /\ Load(w, [op |-> op, user |-> u, password |-> p])
  <2>1. \A u \in Users : user[u] # None => user[u].password \in Passwords
    BY DEF IInv, TypeOK, UserRow
  <2>2. CASE LoadChangePassword(w)  BY <2>2 DEF LoadChangePassword, SignedIn, PasswordEdits
  <2>3. CASE LoadResetPassword(w)  BY <2>3 DEF LoadResetPassword, LiveUsers, PasswordEdits
  <2>4. CASE LoadLogin(w)  BY <2>1, <2>4 DEF LoadLogin, LiveUsers, PasswordEdits
  <2>5. QED  BY <2>2, <2>3, <2>4
<1>2. PICK op \in PasswordEdits, p \in Passwords :
        /\ user[u] # None
        /\ op = "login" => p = user[u].password
        /\ Load(w, [op |-> op, user |-> u, password |-> p])
  BY <1>1
<1>3. PICK j : j = [op |-> op, user |-> u, password |-> p]  OBVIOUS
<1>4. Fits(j, user, branch) /\ j.op \in Loadable
  BY <1>2, <1>3 DEF Fits, Loadable, UserEdits, RowEdits, PhotoEdits, PasswordEdits, BranchEdits
<1>5. j.op \notin RowEdits \cup PhotoEdits \cup {"update_branch"}
  BY <1>3 DEF RowEdits, PhotoEdits, PasswordEdits
<1>6. QED  BY <1>2, <1>3, <1>4, <1>5, LoadEntered

LEMMA DeleteUserLoaded ==
  ASSUME IInv, NEW w \in Workers, LoadDeleteUser(w)
  PROVE  IInv'
<1>1. PICK u \in LiveUsers : Load(w, [op |-> "soft_delete_user", user |-> u])
  BY DEF LoadDeleteUser
<1>2. PICK j : j = [op |-> "soft_delete_user", user |-> u]  OBVIOUS
<1>3. Fits(j, user, branch) /\ j.op \in Loadable
  BY <1>2 DEF Fits, Loadable, UserEdits, RowEdits, PhotoEdits, PasswordEdits, BranchEdits, LiveUsers
<1>4. j.op \notin RowEdits \cup PhotoEdits \cup {"login", "update_branch"}
  BY <1>2 DEF RowEdits, PhotoEdits
<1>5. QED  BY <1>1, <1>2, <1>3, <1>4, LoadEntered

LEMMA BranchLoaded ==
  ASSUME IInv, NEW w \in Workers, LoadBranch(w)
  PROVE  IInv'
<1>1. PICK b \in LiveBranches :
        \/ Load(w, [op |-> "soft_delete_branch", branch |-> b])
        \/ \E c \in Codes :
             Load(w, [op |-> "update_branch", branch |-> b, seen |-> branch[b],
                      new |-> [branch[b] EXCEPT !.code = c]])
  BY DEF LoadBranch
<1>2. /\ b \in Branches /\ branch[b] # None /\ branch[b] \in BranchRow /\ ~branch[b].is_deleted
  BY DEF LiveBranches, IInv, TypeOK
<1>3. CASE Load(w, [op |-> "soft_delete_branch", branch |-> b])
  <2>1. PICK j : j = [op |-> "soft_delete_branch", branch |-> b]  OBVIOUS
  <2>2. Fits(j, user, branch) /\ j.op \in Loadable
    BY <1>2, <2>1 DEF Fits, Loadable, UserEdits, RowEdits, PhotoEdits, PasswordEdits, BranchEdits
  <2>3. j.op \notin RowEdits \cup PhotoEdits \cup {"login", "update_branch"}
    BY <2>1 DEF RowEdits, PhotoEdits
  <2>4. QED  BY <1>3, <2>1, <2>2, <2>3, LoadEntered
<1>4. CASE \E c \in Codes :
             Load(w, [op |-> "update_branch", branch |-> b, seen |-> branch[b],
                      new |-> [branch[b] EXCEPT !.code = c]])
  <2>1. PICK c \in Codes : Load(w, [op |-> "update_branch", branch |-> b, seen |-> branch[b],
                                    new |-> [branch[b] EXCEPT !.code = c]])
    BY <1>4
  <2>2. PICK new : new = [branch[b] EXCEPT !.code = c]  OBVIOUS
  <2>3. new \in BranchRow /\ ~new.is_deleted  BY <1>2, <2>2 DEF BranchRow
  <2>4. PICK j : j = [op |-> "update_branch", branch |-> b, seen |-> branch[b], new |-> new]  OBVIOUS
  <2>5. Fits(j, user, branch) /\ j.op \in Loadable
    BY <1>2, <2>3, <2>4 DEF Fits, Loadable, UserEdits, RowEdits, PhotoEdits, PasswordEdits, BranchEdits
  <2>6. j.op \notin RowEdits \cup PhotoEdits \cup {"login"}
    BY <2>4 DEF RowEdits, PhotoEdits
  <2>7. QED  BY <2>1, <2>2, <2>4, <2>5, <2>6, LoadEntered
<1>5. QED  BY <1>1, <1>3, <1>4

LEMMA CheckKeeps ==
  ASSUME IInv, NEW w \in Workers, Check(w)
  PROVE  IInv'
<1>1. pc[w] = "loaded" /\ Passes(job[w]) /\ Queried(w, job[w])  BY DEF Check
<1>2. PICK j : j = job[w]  OBVIOUS
<1>3. PICK counted : counted = {}  OBVIOUS
<1>4. /\ pc' = [pc EXCEPT ![w] = "checked"] /\ job' = [job EXCEPT ![w] = j]
      /\ UNCHANGED <<tables, storage, missed, unmet, chosen, reverted, torn>>
      /\ unseen' = [unseen EXCEPT ![w] = counted] /\ counted \in SUBSET missed[w]
  BY <1>1, <1>2, <1>3 DEF Queried
<1>5. Stands("loaded", j, missed[w], unseen[w], user, branch, unmet)
  BY <1>1, <1>2 DEF IInv, RequestsStand
<1>6. Passes(j)  BY <1>1, <1>2
<1>7. j.op \in Loadable /\ Fits(j, user, branch)  BY <1>5 DEF Stands, Placed
<1>8. RowStands("checked", j, missed[w], user, branch)
  BY <1>5, <1>7 DEF Stands, RowStands
<1>9. AddressStands("checked", j, missed[w], user, unmet)
  <2>1. j.op # "create_user"
    BY <1>7 DEF Loadable, UserEdits, BranchEdits, RowEdits, PhotoEdits, PasswordEdits
  <2>2. ASSUME j.op \in RowEdits
        PROVE  Address(j.new.email, j.user, missed[w], user, unmet)
    <3>1. CASE j.new.email = j.seen.email
      BY <1>5, <2>2, <3>1 DEF Stands, AddressStands
    <3>2. CASE j.new.email # j.seen.email
      <4>1. EmailFree(j.new.email, j.user)  BY <1>6, <2>2, <3>2 DEF Passes, RowEdits
      <4>2. QED  BY <4>1 DEF EmailFree, Address
    <3>3. QED  BY <3>1, <3>2
  <2>3. QED  BY <2>1, <2>2 DEF AddressStands, WritesRow
<1>10. CountStands("checked", j, counted, user)
  <2>1. ASSUME NEW b, Members(b) = {}
        PROVE  Counted(b, counted, user)
    BY <2>1 DEF Members, LiveUsers, Counted
  <2>2. QED  BY <1>6, <2>1 DEF Passes, CountStands
<1>11. Stands("checked", j, missed[w], counted, user, branch, unmet)
  BY <1>7, <1>8, <1>9, <1>10 DEF Stands, Placed
<1>12. ASSUME NEW owner \in [Files -> Users \cup {None}], OwnedBy(owner)
       PROVE  HeldBy("checked", j, owner, stored)
  BY <1>1, <1>2, <1>12 DEF OwnedBy, HeldBy
<1>13. QED  BY <1>4, <1>11, <1>12, Entered

LEMMA CreateUserChecked ==
  ASSUME IInv, NEW w \in Workers, CheckCreateUser(w)
  PROVE  IInv'
<1>1. PICK e \in Emails, b \in Branches, p \in Passwords :
        /\ EmailFree(e, None)
        /\ Queried(w, [op |-> "create_user",
                   new |-> [branch |-> b, email |-> e, password |-> p, stale_hash |-> FALSE,
                            is_active |-> TRUE, is_deleted |-> FALSE, photo |-> None]])
  BY DEF CheckCreateUser
<1>2. PICK new : new = [branch |-> b, email |-> e, password |-> p, stale_hash |-> FALSE,
                        is_active |-> TRUE, is_deleted |-> FALSE, photo |-> None]  OBVIOUS
<1>3. new \in UserRow /\ new.photo = None /\ new.email = e  BY <1>2 DEF UserRow
<1>4. PICK j : j = [op |-> "create_user", new |-> new]  OBVIOUS
<1>5. PICK counted : counted = {}  OBVIOUS
<1>6. /\ pc' = [pc EXCEPT ![w] = "checked"] /\ job' = [job EXCEPT ![w] = j]
      /\ UNCHANGED <<tables, storage, missed, unmet, chosen, reverted, torn>>
      /\ unseen' = [unseen EXCEPT ![w] = counted] /\ counted \in SUBSET missed[w]
  BY <1>1, <1>2, <1>4, <1>5 DEF Queried
<1>7. j.op = "create_user" /\ j.new = new  BY <1>4
<1>8. Placed("checked", j, user, branch)
  BY <1>3, <1>7 DEF Placed, Fits, Creations, UserEdits, BranchEdits, RowEdits, PhotoEdits, PasswordEdits
<1>9. RowStands("checked", j, missed[w], user, branch)
  BY <1>7 DEF RowStands, RowEdits, PhotoEdits
<1>10. AddressStands("checked", j, missed[w], user, unmet)
  <2>1. \A v \in Users : user[v] # None => user[v].email # e
    BY <1>1, ScenarioAssumption DEF EmailFree
  <2>2. QED  BY <1>3, <1>7, <2>1 DEF AddressStands, WritesRow, RowEdits
<1>11. CountStands("checked", j, counted, user)  BY <1>7 DEF CountStands
<1>12. Stands("checked", j, missed[w], counted, user, branch, unmet)
  BY <1>8, <1>9, <1>10, <1>11 DEF Stands
<1>13. \A owner \in [Files -> Users \cup {None}] : HeldBy("checked", j, owner, stored)
  BY <1>7 DEF HeldBy, RowEdits, PhotoEdits
<1>14. QED  BY <1>6, <1>12, <1>13, Entered

LEMMA CreateBranchChecked ==
  ASSUME IInv, NEW w \in Workers, CheckCreateBranch(w)
  PROVE  IInv'
<1>1. PICK c \in Codes : Queried(w, [op |-> "create_branch", new |-> [code |-> c, is_deleted |-> FALSE]])
  BY DEF CheckCreateBranch
<1>2. PICK new : new = [code |-> c, is_deleted |-> FALSE]  OBVIOUS
<1>3. new \in BranchRow  BY <1>2 DEF BranchRow
<1>4. PICK j : j = [op |-> "create_branch", new |-> new]  OBVIOUS
<1>5. PICK counted : counted = {}  OBVIOUS
<1>6. /\ pc' = [pc EXCEPT ![w] = "checked"] /\ job' = [job EXCEPT ![w] = j]
      /\ UNCHANGED <<tables, storage, missed, unmet, chosen, reverted, torn>>
      /\ unseen' = [unseen EXCEPT ![w] = counted] /\ counted \in SUBSET missed[w]
  BY <1>1, <1>2, <1>4, <1>5 DEF Queried
<1>7. j.op = "create_branch" /\ j.new = new  BY <1>4
<1>8. Placed("checked", j, user, branch)
  BY <1>3, <1>7 DEF Placed, Fits, Creations, UserEdits, BranchEdits, RowEdits, PhotoEdits, PasswordEdits
<1>9. RowStands("checked", j, missed[w], user, branch)
  BY <1>7 DEF RowStands, RowEdits, PhotoEdits
<1>10. AddressStands("checked", j, missed[w], user, unmet)
  BY <1>7 DEF AddressStands, WritesRow, RowEdits
<1>11. CountStands("checked", j, counted, user)  BY <1>7 DEF CountStands
<1>12. Stands("checked", j, missed[w], counted, user, branch, unmet)
  BY <1>8, <1>9, <1>10, <1>11 DEF Stands
<1>13. \A owner \in [Files -> Users \cup {None}] : HeldBy("checked", j, owner, stored)
  BY <1>7 DEF HeldBy, RowEdits, PhotoEdits
<1>14. QED  BY <1>6, <1>12, <1>13, Entered

-----------------------------------------------------------------------------
(* Files and writes.                                                        *)

\* An exchange of files touches those of one user, who has no other under way.
LEMMA Swapped ==
  ASSUME IInv, NEW w \in Workers, pc[w] = "checked", job[w].op \in Swaps,
         NEW u, u = job[w].user, ~Locked(u),
         NEW j, j.op = job[w].op, j.user = u, j.new \in UserRow \cup {None},
         j.new # None => j.op = "update_profile" /\ j.new = job[w].new,
         j.photo \in Files \cup {None}, j.photo # None => j.photo \in files' /\ j.photo = stored + 1,
         files \ {job[w].seen.photo} \subseteq files', files' \subseteq 1..stored',
         stored' = IF j.photo = None THEN stored ELSE stored + 1, stored' \in 0..MaxFiles,
         pc' = [pc EXCEPT ![w] = "swapped"], job' = [job EXCEPT ![w] = j],
         torn' = torn \cup {u},
         UNCHANGED <<tables, missed, unseen, unmet, chosen, reverted>>
  PROVE  IInv'
<1>1. /\ user' = user /\ branch' = branch /\ missed' = missed /\ unseen' = unseen
      /\ unmet' = unmet /\ chosen' = chosen /\ reverted' = reverted
  BY DEF tables
<1>2. /\ Stands("checked", job[w], missed[w], unseen[w], user, branch, unmet)
      /\ stored \in Nat
  BY DEF IInv, RequestsStand, TypeOK
<1>3. u \in Users /\ user[u] # None
  BY <1>2 DEF Stands, Placed, Fits, Swaps, PhotoEdits, UserEdits, RowEdits
<1>4. Shapes' /\ pc'[w] = "swapped" /\ job'[w] = j  BY DEF IInv, Shapes
<1>5. \A v \in Workers : v # w => pc'[v] = pc[v] /\ job'[v] = job[v]  BY DEF IInv, Shapes
<1>6. TypeOK'  BY <1>1, <1>3, <1>4 DEF IInv, TypeOK, Shapes
<1>7. Stands("swapped", j, missed[w], unseen[w], user, branch, unmet)
  <2>1. Placed("swapped", j, user, branch)  BY <1>3 DEF Placed, SwapFits
  <2>2. ASSUME j.new # None
        PROVE  /\ u \notin missed[w] => user[u].password = j.new.password
               /\ Address(j.new.email, u, missed[w], user, unmet)
    <3>1. job[w].op = "update_profile" /\ j.new = job[w].new  BY <2>2
    <3>2. /\ job[w].new.password = job[w].seen.password
          /\ u \notin missed[w] => user[u] = job[w].seen
          /\ Address(job[w].new.email, u, missed[w], user, unmet)
      BY <1>2, <3>1 DEF Stands, Placed, Fits, RowStands, AddressStands, WritesRow, RowEdits
    <3>3. QED  BY <3>1, <3>2
  <2>3. RowStands("swapped", j, missed[w], user, branch)  BY <2>2 DEF RowStands
  <2>4. AddressStands("swapped", j, missed[w], user, unmet)
    BY <2>2 DEF AddressStands, WritesRow
  <2>5. CountStands("swapped", j, unseen[w], user)  BY DEF CountStands
  <2>6. QED  BY <2>1, <2>3, <2>4, <2>5 DEF Stands
<1>8. RequestsStand'
  <2> SUFFICES ASSUME NEW v \in Workers, pc'[v] # "idle"
               PROVE  Stands(pc'[v], job'[v], missed[v], unseen[v], user, branch, unmet)
    BY <1>1 DEF RequestsStand
  <2>1. CASE v = w  BY <1>4, <1>7, <2>1
  <2>2. CASE v # w  BY <1>5, <2>2 DEF IInv, RequestsStand
  <2>3. QED  BY <2>1, <2>2
<1>9. \A v \in Workers : pc[v] = "swapped" => job[v].user # u  BY DEF Locked
<1>10. SwapsApart'
  <2> SUFFICES ASSUME NEW x \in Workers, NEW y \in Workers, x # y,
                      pc'[x] = "swapped", pc'[y] = "swapped"
               PROVE  job'[x].user # job'[y].user
    BY DEF SwapsApart
  <2>1. CASE x = w  BY <1>4, <1>5, <1>9, <2>1
  <2>2. CASE y = w  BY <1>4, <1>5, <1>9, <2>2
  <2>3. CASE x # w /\ y # w  BY <1>5, <2>3 DEF IInv, SwapsApart
  <2>4. QED  BY <2>1, <2>2, <2>3
<1>11. PICK owner \in [Files -> Users \cup {None}] : OwnedBy(owner)  BY DEF IInv, FilesOwned
<1>12. Of(job[w].seen.photo, u, owner, stored)
  <2>1. HeldBy("checked", job[w], owner, stored)  BY <1>11 DEF OwnedBy
  <2>2. QED  BY <2>1 DEF HeldBy, Swaps, RowEdits
<1>13. SwapsStored'
  <2> SUFFICES ASSUME NEW x \in Workers, pc'[x] = "swapped", job'[x].photo # None
               PROVE  job'[x].photo \in files'
    BY DEF SwapsStored
  <2>1. CASE x = w  BY <1>4, <2>1
  <2>2. CASE x # w
    <3>1. pc[x] = "swapped" /\ job'[x] = job[x] /\ job[x].user # u  BY <1>5, <1>9, <2>2
    <3>2. HeldBy("swapped", job[x], owner, stored)  BY <1>11, <3>1 DEF OwnedBy
    <3>3. job[x].photo # job[w].seen.photo  BY <1>12, <3>1, <3>2 DEF HeldBy, Of
    <3>4. job[x].photo \in files  BY <3>1 DEF IInv, SwapsStored
    <3>5. QED  BY <3>1, <3>3, <3>4
  <2>3. QED  BY <2>1, <2>2
<1>14. AvatarIsStored'
  <2> SUFFICES ASSUME NEW v \in Users, user[v] # None, user[v].photo # None, v \notin torn'
               PROVE  user[v].photo \in files'
    BY <1>1 DEF AvatarIsStored
  <2>1. v \notin torn /\ v # u  OBVIOUS
  <2>2. user[v].photo \in files  BY <2>1 DEF IInv, AvatarIsStored
  <2>3. Of(user[v].photo, v, owner, stored)  BY <1>11 DEF OwnedBy
  <2>4. user[v].photo # job[w].seen.photo  BY <1>12, <2>1, <2>3 DEF Of
  <2>5. QED  BY <2>2, <2>4
<1>15. FilesOwned'
  <2>1. PICK given : given = IF j.photo = None THEN owner ELSE [owner EXCEPT ![stored + 1] = u]
    OBVIOUS
  <2>2. given \in [Files -> Users \cup {None}]  BY <1>3, <2>1
  <2>3. ASSUME NEW f, NEW v, Of(f, v, owner, stored)
        PROVE  Of(f, v, given, stored')
    BY <1>2, <2>1, <2>3 DEF Of, Files
  <2>4. Of(j.photo, u, given, stored')  BY <1>2, <2>1 DEF Of, Files
  <2>5. ASSUME NEW v \in Workers, pc'[v] # "idle"
        PROVE  HeldBy(pc'[v], job'[v], given, stored')
    <3>1. CASE v = w  BY <1>4, <2>4, <3>1 DEF HeldBy
    <3>2. CASE v # w
      <4>1. HeldBy(pc[v], job[v], owner, stored)  BY <1>5, <1>11, <2>5, <3>2 DEF OwnedBy
      <4>2. QED  BY <1>5, <2>3, <3>2, <4>1 DEF HeldBy
    <3>3. QED  BY <3>1, <3>2
  <2>6. \A v \in Users : user[v] # None => Of(user[v].photo, v, given, stored')
    BY <1>11, <2>3 DEF OwnedBy
  <2>7. OwnedBy(given)'  BY <1>1, <2>5, <2>6 DEF OwnedBy
  <2>8. QED  BY <2>2, <2>7 DEF FilesOwned
<1>16. PasswordHolds' /\ DuplicateEmailWasUnseen'
  BY <1>1 DEF IInv, PasswordHolds, DuplicateEmailWasUnseen
<1>17. QED  BY <1>4, <1>6, <1>8, <1>10, <1>13, <1>14, <1>15, <1>16 DEF IInv

LEMMA SwapPhotoKeeps ==
  ASSUME IInv, NEW w \in Workers, SwapPhoto(w)
  PROVE  IInv'
<1>1. /\ pc[w] = "checked" /\ UploadsPhoto(job[w]) /\ ~Locked(job[w].user) /\ stored < MaxFiles
      /\ stored' = stored + 1 /\ files' = (files \ {job[w].seen.photo}) \cup {stored + 1}
      /\ pc' = [pc EXCEPT ![w] = "swapped"]
      /\ job' = [job EXCEPT ![w] = [op |-> job[w].op, user |-> job[w].user, photo |-> stored + 1,
               new |-> IF job[w].op = "update_profile" THEN job[w].new ELSE None]]
      /\ torn' = torn \cup {job[w].user}
      /\ UNCHANGED <<tables, missed, unseen, unmet, chosen, reverted>>
  BY DEF SwapPhoto
<1>2. PICK u : u = job[w].user  OBVIOUS
<1>3. PICK j : j = [op |-> job[w].op, user |-> u, photo |-> stored + 1,
                    new |-> IF job[w].op = "update_profile" THEN job[w].new ELSE None]
  OBVIOUS
<1>4. job[w].op \in Swaps /\ (job[w].op = "update_profile" => job[w].new \in UserRow)
  <2>1. Stands("checked", job[w], missed[w], unseen[w], user, branch, unmet)
    BY <1>1 DEF IInv, RequestsStand
  <2>2. QED  BY <1>1, <2>1 DEF UploadsPhoto, Swaps, PhotoEdits, RowEdits, Stands, Placed, Fits
<1>5. /\ stored \in Nat /\ files \subseteq 1..stored /\ stored + 1 \in Files /\ stored + 1 # None
      /\ stored' \in 0..MaxFiles
  BY <1>1, ScenarioAssumption DEF IInv, TypeOK, Files
<1>6. files' \subseteq 1..stored'  BY <1>1, <1>5
<1>7. /\ j.op = job[w].op /\ j.user = u /\ j.photo = stored + 1
      /\ j.new = IF job[w].op = "update_profile" THEN job[w].new ELSE None
      /\ job' = [job EXCEPT ![w] = j]
  BY <1>1, <1>2, <1>3
<1>8. /\ j.new \in UserRow \cup {None}
      /\ j.new # None => j.op = "update_profile" /\ j.new = job[w].new
  BY <1>4, <1>7
<1>9. /\ j.photo \in Files \cup {None} /\ (j.photo # None => j.photo \in files' /\ j.photo = stored + 1)
      /\ stored' = IF j.photo = None THEN stored ELSE stored + 1
      /\ files \ {job[w].seen.photo} \subseteq files'
  BY <1>1, <1>5, <1>7
<1>10. ~Locked(u) /\ torn' = torn \cup {u}  BY <1>1, <1>2
<1>11. QED  BY <1>1, <1>2, <1>4, <1>5, <1>6, <1>7, <1>8, <1>9, <1>10, Swapped

LEMMA RemovePhotoKeeps ==
  ASSUME IInv, NEW w \in Workers, RemovePhoto(w)
  PROVE  IInv'
<1>1. /\ pc[w] = "checked" /\ job[w].op = "remove_profile_photo" /\ ~Locked(job[w].user)
      /\ stored' = stored /\ files' = files \ {job[w].seen.photo}
      /\ pc' = [pc EXCEPT ![w] = "swapped"]
      /\ job' = [job EXCEPT ![w] = [op |-> job[w].op, user |-> job[w].user, photo |-> None,
                                    new |-> None]]
      /\ torn' = torn \cup {job[w].user}
      /\ UNCHANGED <<tables, missed, unseen, unmet, chosen, reverted>>
  BY DEF RemovePhoto, Writing
<1>2. PICK u : u = job[w].user  OBVIOUS
<1>3. PICK j : j = [op |-> job[w].op, user |-> u, photo |-> None, new |-> None]  OBVIOUS
<1>4. job[w].op \in Swaps  BY <1>1 DEF Swaps, PhotoEdits
<1>5. stored' \in 0..MaxFiles /\ files' \subseteq 1..stored'  BY <1>1 DEF IInv, TypeOK
<1>6. /\ j.op = job[w].op /\ j.user = u /\ j.photo = None /\ j.new = None
      /\ job' = [job EXCEPT ![w] = j]
  BY <1>1, <1>2, <1>3
<1>7. /\ j.new \in UserRow \cup {None}
      /\ j.new # None => j.op = "update_profile" /\ j.new = job[w].new
  BY <1>6
<1>8. /\ j.photo \in Files \cup {None} /\ (j.photo # None => j.photo \in files' /\ j.photo = stored + 1)
      /\ stored' = IF j.photo = None THEN stored ELSE stored + 1
      /\ files \ {job[w].seen.photo} \subseteq files'
  BY <1>1, <1>6
<1>9. ~Locked(u) /\ torn' = torn \cup {u}  BY <1>1, <1>2
<1>10. QED  BY <1>1, <1>2, <1>4, <1>5, <1>6, <1>7, <1>8, <1>9, Swapped

\* What a save that keeps the password does to it.
LEMMA PasswordIsKept ==
  ASSUME IInv, NEW w \in Workers, NEW u \in Users, user[u] # None, NEW row,
         user'[u] = row, PasswordKept(w, u),
         u \notin missed[w] => row.password = user[u].password
  PROVE  /\ chosen' \in [Users -> Passwords \cup {None}] /\ reverted' \subseteq Users
         /\ u \notin reverted' => row.password = chosen'[u]
         /\ \A v \in Users \ {u} : chosen'[v] = chosen[v] /\ (v \in reverted => v \in reverted')
<1>1. chosen' = chosen /\ reverted \subseteq reverted' /\ reverted' \subseteq reverted \cup {u}
  BY DEF PasswordKept
<1>2. ASSUME u \notin reverted'
      PROVE  row.password = chosen'[u]
  <2>1. u \notin reverted /\ row.password = user[u].password  BY <1>1, <1>2 DEF PasswordKept
  <2>2. QED  BY <1>1, <2>1 DEF IInv, PasswordHolds
<1>3. QED  BY <1>1, <1>2 DEF IInv, TypeOK

LEMMA PasswordIsSet ==
  ASSUME IInv, NEW u \in Users, NEW row \in UserRow, user'[u] = row, PasswordSet(u)
  PROVE  /\ chosen' \in [Users -> Passwords \cup {None}] /\ reverted' \subseteq Users
         /\ u \notin reverted' => row.password = chosen'[u]
         /\ \A v \in Users \ {u} : chosen'[v] = chosen[v] /\ (v \in reverted => v \in reverted')
<1>1. row.password \in Passwords  BY DEF UserRow
<1>2. chosen' = [chosen EXCEPT ![u] = row.password] /\ reverted' = reverted \ {u}
  BY DEF PasswordSet
<1>3. QED  BY <1>1, <1>2 DEF IInv, TypeOK

\* What a save of a row does to its avatar.
LEMMA PhotoIsKept ==
  ASSUME IInv, NEW w \in Workers, NEW u \in Users, user[u] # None, NEW row,
         user'[u] = row, PhotoKept(w, u),
         u \notin missed[w] => row.photo = user[u].photo
  PROVE  /\ torn' \subseteq Users
         /\ row.photo # None /\ u \notin torn' => row.photo \in files
         /\ \A v \in Users \ {u} : v \in torn => v \in torn'
<1>1. torn \subseteq torn' /\ torn' \subseteq torn \cup {u}  BY DEF PhotoKept
<1>2. ASSUME row.photo # None, u \notin torn'
      PROVE  row.photo \in files
  <2>1. u \notin torn /\ row.photo = user[u].photo  BY <1>1, <1>2 DEF PhotoKept
  <2>2. QED  BY <1>2, <2>1 DEF IInv, AvatarIsStored
<1>3. QED  BY <1>1, <1>2 DEF IInv, TypeOK

\* An edit that keeps the address keeps whom it is shared with.
LEMMA EmailIsKept ==
  ASSUME IInv, NEW w \in Workers, NEW u \in Users, user[u] # None, NEW row,
         row.email = user[u].email
  PROVE  \A v \in Users \ {u} :
           user[v] # None /\ user[v].email = row.email => v \in missed[w] \/ {u, v} \in unmet
BY DEF IInv, DuplicateEmailWasUnseen

LEMMA CreateUserKeeps ==
  ASSUME IInv, NEW w \in Workers, CreateUser(w)
  PROVE  IInv'
<1>1. PICK u \in Users :
        /\ user[u] = None /\ user' = [user EXCEPT ![u] = job[w].new]
        /\ PasswordSet(u) /\ Commit(w, {u})
  BY DEF CreateUser
<1>2. PICK rows : rows = {u}  OBVIOUS
<1>3. PICK row : row = job[w].new  OBVIOUS
<1>4. /\ pc[w] = "checked" /\ job[w].op = "create_user" /\ torn' = torn
      /\ UNCHANGED <<branch, storage>> /\ Commit(w, rows) /\ user' = [user EXCEPT ![u] = row]
  BY <1>1, <1>2, <1>3 DEF CreateUser, Writing
<1>5. Stands("checked", job[w], missed[w], unseen[w], user, branch, unmet)
  BY <1>4 DEF IInv, RequestsStand
<1>6. row \in UserRow /\ row.photo = None  BY <1>3, <1>4, <1>5 DEF Stands, Placed, Fits
<1>7. user'[u] = row  BY <1>4 DEF IInv, TypeOK
<1>8. /\ chosen' \in [Users -> Passwords \cup {None}] /\ reverted' \subseteq Users
      /\ u \notin reverted' => row.password = chosen'[u]
      /\ \A v \in Users \ {u} : chosen'[v] = chosen[v] /\ (v \in reverted => v \in reverted')
  BY <1>1, <1>6, <1>7, PasswordIsSet
<1>9. torn' \subseteq Users /\ \A v \in Users \ {u} : v \in torn => v \in torn'
  BY <1>4 DEF IInv, TypeOK
<1>10. \A v \in Users \ {u} :
         user[v] # None /\ user[v].email = row.email => v \in missed[w] \/ {u, v} \in unmet
  BY <1>3, <1>4, <1>5 DEF Stands, AddressStands
<1>11. \A owner \in [Files -> Users \cup {None}] : OwnedBy(owner) => Of(row.photo, u, owner, stored)
  BY <1>6 DEF Of
<1>12. reverted' \cup torn' \subseteq Users
       /\ \A v \in Users \ {u} :
            chosen'[v] = chosen[v] /\ (v \in reverted => v \in reverted') /\ (v \in torn => v \in torn')
       /\ (row.photo # None /\ u \notin torn' => row.photo \in files)
  BY <1>6, <1>8, <1>9
<1>13. QED  BY <1>2, <1>4, <1>6, <1>8, <1>10, <1>11, <1>12, UserSaved

\* A conversion's account: what it overlooks is every row that has its address.
LEMMA ConvertLeadKeeps ==
  ASSUME IInv, NEW w \in Workers, ConvertLead(w)
  PROVE  IInv'
<1>1. PICK u \in Users, e \in Emails, b \in Branches, p \in Passwords :
        /\ branch[b] # None /\ user[u] = None
        /\ user' = [user EXCEPT ![u] =
                      [branch |-> b, email |-> e, password |-> p, stale_hash |-> FALSE,
                       is_active |-> TRUE, is_deleted |-> FALSE, photo |-> None]]
        /\ PasswordSet(u) /\ Publish(w, {u}, Holders(e))
  BY DEF ConvertLead
<1>2. PICK rows : rows = {u}  OBVIOUS
<1>3. PICK row : row = [branch |-> b, email |-> e, password |-> p, stale_hash |-> FALSE,
                        is_active |-> TRUE, is_deleted |-> FALSE, photo |-> None]
  OBVIOUS
<1>4. PICK overlooked : overlooked = Holders(e)  OBVIOUS
<1>5. /\ UNCHANGED <<branch, storage>> /\ torn' = torn
      /\ Publish(w, rows, overlooked) /\ user' = [user EXCEPT ![u] = row]
  BY <1>1, <1>2, <1>3, <1>4 DEF ConvertLead
<1>6. row \in UserRow /\ row.photo = None /\ row.email = e  BY <1>3 DEF UserRow
<1>7. user'[u] = row  BY <1>5 DEF IInv, TypeOK
<1>8. /\ chosen' \in [Users -> Passwords \cup {None}] /\ reverted' \subseteq Users
      /\ u \notin reverted' => row.password = chosen'[u]
      /\ \A v \in Users \ {u} : chosen'[v] = chosen[v] /\ (v \in reverted => v \in reverted')
  BY <1>1, <1>6, <1>7, PasswordIsSet
<1>9. torn' \subseteq Users /\ \A v \in Users \ {u} : v \in torn => v \in torn'
  BY <1>5 DEF IInv, TypeOK
<1>10. \A v \in Users \ {u} :
         user[v] # None /\ user[v].email = row.email => v \in overlooked \/ {u, v} \in unmet
  BY <1>4, <1>6 DEF Holders
<1>11. \A owner \in [Files -> Users \cup {None}] : OwnedBy(owner) => Of(row.photo, u, owner, stored)
  BY <1>6 DEF Of
<1>12. reverted' \cup torn' \subseteq Users
       /\ \A v \in Users \ {u} :
            chosen'[v] = chosen[v] /\ (v \in reverted => v \in reverted') /\ (v \in torn => v \in torn')
       /\ (row.photo # None /\ u \notin torn' => row.photo \in files)
  BY <1>6, <1>8, <1>9
<1>13. QED  BY <1>2, <1>5, <1>6, <1>8, <1>10, <1>11, <1>12, UserPublished

\* user.save() of update_user and of update_profile without an avatar.
LEMMA RowSaved ==
  ASSUME IInv, NEW w \in Workers, pc[w] = "checked", job[w].op \in RowEdits,
         user' = [user EXCEPT ![job[w].user] = job[w].new],
         PasswordKept(w, job[w].user)
           \/ (PasswordSet(job[w].user) /\ job[w].op = "update_user"),
         job[w].new.password # job[w].seen.password => PasswordSet(job[w].user),
         PhotoKept(w, job[w].user), Commit(w, {job[w].user}), UNCHANGED <<branch, storage>>
  PROVE  IInv'
<1>1. PICK u : u = job[w].user  OBVIOUS
<1>2. PICK row : row = job[w].new  OBVIOUS
<1>3. PICK rows : rows = {u}  OBVIOUS
<1>4. /\ user' = [user EXCEPT ![u] = row] /\ PhotoKept(w, u) /\ Commit(w, rows)
      /\ PasswordKept(w, u) \/ PasswordSet(u)
      /\ row.password # job[w].seen.password => PasswordSet(u)
  BY <1>1, <1>2, <1>3
<1>5. Stands("checked", job[w], missed[w], unseen[w], user, branch, unmet)
  BY DEF IInv, RequestsStand
<1>6. /\ u \in Users /\ user[u] # None /\ row \in UserRow /\ row.photo = job[w].seen.photo
      /\ u \notin missed[w] => user[u] = job[w].seen
      /\ Address(row.email, u, missed[w], user, unmet)
  BY <1>1, <1>2, <1>5 DEF Stands, Placed, Fits, RowStands, AddressStands, WritesRow, UserEdits
<1>7. user'[u] = row  BY <1>4, <1>6 DEF IInv, TypeOK
<1>8. /\ chosen' \in [Users -> Passwords \cup {None}] /\ reverted' \subseteq Users
      /\ u \notin reverted' => row.password = chosen'[u]
      /\ \A v \in Users \ {u} : chosen'[v] = chosen[v] /\ (v \in reverted => v \in reverted')
  <2>1. CASE PasswordSet(u)  BY <1>6, <1>7, <2>1, PasswordIsSet
  <2>2. CASE ~PasswordSet(u)
    <3>1. PasswordKept(w, u) /\ (u \notin missed[w] => row.password = user[u].password)
      BY <1>4, <1>6, <2>2
    <3>2. QED  BY <1>6, <1>7, <3>1, PasswordIsKept
  <2>3. QED  BY <2>1, <2>2
<1>9. u \notin missed[w] => row.photo = user[u].photo  BY <1>6
<1>10. /\ torn' \subseteq Users
       /\ row.photo # None /\ u \notin torn' => row.photo \in files
       /\ \A v \in Users \ {u} : v \in torn => v \in torn'
  BY <1>4, <1>6, <1>7, <1>9, PhotoIsKept
<1>11. \A v \in Users \ {u} :
         user[v] # None /\ user[v].email = row.email => v \in missed[w] \/ {u, v} \in unmet
  BY <1>6 DEF Address
<1>12. ASSUME NEW owner \in [Files -> Users \cup {None}], OwnedBy(owner)
       PROVE  Of(row.photo, u, owner, stored)
  BY <1>1, <1>6, <1>12 DEF OwnedBy, HeldBy
<1>13. /\ reverted' \cup torn' \subseteq Users
       /\ \A v \in Users \ {u} :
            chosen'[v] = chosen[v] /\ (v \in reverted => v \in reverted') /\ (v \in torn => v \in torn')
  BY <1>8, <1>10
<1>14. QED  BY <1>3, <1>4, <1>6, <1>8, <1>10, <1>11, <1>12, <1>13, UserSaved

LEMMA UpdateUserKeeps ==
  ASSUME IInv, NEW w \in Workers, UpdateUser(w)
  PROVE  IInv'
<1>1. /\ pc[w] = "checked" /\ job[w].op = "update_user"
      /\ user' = [user EXCEPT ![job[w].user] = job[w].new]
      /\ IF job[w].new.password # job[w].seen.password THEN PasswordSet(job[w].user)
         ELSE PasswordKept(w, job[w].user)
      /\ PhotoKept(w, job[w].user) /\ Commit(w, {job[w].user}) /\ UNCHANGED <<branch, storage>>
  BY DEF UpdateUser, Writing
<1>2. job[w].op \in RowEdits  BY <1>1 DEF RowEdits
<1>3. QED  BY <1>1, <1>2, RowSaved

LEMMA UpdateProfileKeeps ==
  ASSUME IInv, NEW w \in Workers, UpdateProfile(w)
  PROVE  IInv'
<1>1. /\ pc[w] = "checked" /\ job[w].op = "update_profile"
      /\ user' = [user EXCEPT ![job[w].user] = job[w].new] /\ PasswordKept(w, job[w].user)
      /\ PhotoKept(w, job[w].user) /\ Commit(w, {job[w].user}) /\ UNCHANGED <<branch, storage>>
  BY DEF UpdateProfile, Writing
<1>2. Stands("checked", job[w], missed[w], unseen[w], user, branch, unmet)
  BY <1>1 DEF IInv, RequestsStand
<1>3. job[w].op \in RowEdits /\ job[w].new.password = job[w].seen.password
  BY <1>1, <1>2 DEF RowEdits, Stands, Placed, Fits
<1>4. QED  BY <1>1, <1>3, RowSaved

\* A save of some columns, the address and the avatar not among them.
LEMMA ColumnsSaved ==
  ASSUME IInv, NEW w \in Workers, NEW u \in Users, user[u] # None, NEW row \in UserRow,
         NEW rows, rows = {u}, user' = [user EXCEPT ![u] = row],
         row.email = user[u].email, row.photo = user[u].photo,
         UNCHANGED <<branch, storage, torn>>, Commit(w, rows),
         chosen' \in [Users -> Passwords \cup {None}], reverted' \subseteq Users,
         u \notin reverted' => row.password = chosen'[u],
         \A v \in Users \ {u} : chosen'[v] = chosen[v] /\ (v \in reverted => v \in reverted')
  PROVE  IInv'
<1>1. \A v \in Users \ {u} :
        user[v] # None /\ user[v].email = row.email => v \in missed[w] \/ {u, v} \in unmet
  BY EmailIsKept
<1>2. \A owner \in [Files -> Users \cup {None}] : OwnedBy(owner) => Of(row.photo, u, owner, stored)
  BY DEF OwnedBy
<1>3. /\ reverted' \cup torn' \subseteq Users
      /\ row.photo # None /\ u \notin torn' => row.photo \in files
      /\ \A v \in Users \ {u} :
           chosen'[v] = chosen[v] /\ (v \in reverted => v \in reverted') /\ (v \in torn => v \in torn')
  BY DEF IInv, TypeOK, AvatarIsStored
<1>4. UNCHANGED <<branch, storage>>  OBVIOUS
<1>5. QED  BY <1>1, <1>2, <1>3, <1>4, UserSaved

LEMMA DeleteUserKeeps ==
  ASSUME IInv, NEW w \in Workers, DeleteUser(w)
  PROVE  IInv'
<1>1. /\ pc[w] = "checked" /\ job[w].op = "soft_delete_user"
      /\ user' = [user EXCEPT ![job[w].user].is_deleted = TRUE, ![job[w].user].is_active = FALSE]
      /\ Commit(w, {job[w].user}) /\ UNCHANGED <<branch, storage, chosen, reverted, torn>>
  BY DEF DeleteUser, Writing
<1>2. PICK u : u = job[w].user  OBVIOUS
<1>3. PICK rows : rows = {u}  OBVIOUS
<1>4. Stands("checked", job[w], missed[w], unseen[w], user, branch, unmet)
  BY <1>1 DEF IInv, RequestsStand
<1>5. u \in Users /\ user[u] # None /\ user[u] \in UserRow
  BY <1>1, <1>2, <1>4 DEF Stands, Placed, Fits, UserEdits, IInv, TypeOK
<1>6. PICK row : row = [user[u] EXCEPT !.is_deleted = TRUE, !.is_active = FALSE]  OBVIOUS
<1>7. /\ row \in UserRow /\ row.email = user[u].email /\ row.photo = user[u].photo
      /\ row.password = user[u].password
  BY <1>5, <1>6 DEF UserRow
<1>8. user' = [user EXCEPT ![u] = row]  BY <1>1, <1>2, <1>5, <1>6 DEF IInv, TypeOK
<1>9. /\ chosen' \in [Users -> Passwords \cup {None}] /\ reverted' \subseteq Users
      /\ u \notin reverted' => row.password = chosen'[u]
      /\ \A v \in Users \ {u} : chosen'[v] = chosen[v] /\ (v \in reverted => v \in reverted')
  BY <1>1, <1>5, <1>7 DEF IInv, TypeOK, PasswordHolds
<1>10. Commit(w, rows) /\ UNCHANGED <<branch, storage, torn>>  BY <1>1, <1>2, <1>3
<1>11. QED  BY <1>3, <1>5, <1>7, <1>8, <1>9, <1>10, ColumnsSaved

\* The password columns, set by a request for it or hashed anew by a login.
LEMMA PasswordSaved ==
  ASSUME IInv, NEW w \in Workers, pc[w] = "checked", job[w].op \in PasswordEdits,
         user' = [user EXCEPT ![job[w].user].password = job[w].password,
                              ![job[w].user].stale_hash = FALSE],
         IF job[w].op = "login" THEN PasswordKept(w, job[w].user) ELSE PasswordSet(job[w].user),
         Commit(w, {job[w].user}), UNCHANGED <<branch, storage, torn>>
  PROVE  IInv'
<1>1. PICK u : u = job[w].user  OBVIOUS
<1>2. PICK rows : rows = {u}  OBVIOUS
<1>3. Stands("checked", job[w], missed[w], unseen[w], user, branch, unmet)
  BY DEF IInv, RequestsStand
<1>4. /\ u \in Users /\ user[u] # None /\ user[u] \in UserRow /\ job[w].password \in Passwords
      /\ job[w].op = "login" /\ u \notin missed[w] => user[u].password = job[w].password
  BY <1>1, <1>3 DEF Stands, Placed, Fits, RowStands, UserEdits, IInv, TypeOK
<1>5. PICK row : row = [user[u] EXCEPT !.password = job[w].password, !.stale_hash = FALSE]  OBVIOUS
<1>6. /\ row \in UserRow /\ row.email = user[u].email /\ row.photo = user[u].photo
      /\ row.password = job[w].password
  BY <1>4, <1>5 DEF UserRow
<1>7. user' = [user EXCEPT ![u] = row]  BY <1>1, <1>4, <1>5 DEF IInv, TypeOK
<1>8. user'[u] = row  BY <1>4, <1>7 DEF IInv, TypeOK
<1>9. /\ chosen' \in [Users -> Passwords \cup {None}] /\ reverted' \subseteq Users
      /\ u \notin reverted' => row.password = chosen'[u]
      /\ \A v \in Users \ {u} : chosen'[v] = chosen[v] /\ (v \in reverted => v \in reverted')
  <2>1. CASE job[w].op = "login"
    <3>1. PasswordKept(w, u) /\ (u \notin missed[w] => row.password = user[u].password)
      BY <1>1, <1>4, <1>6, <2>1
    <3>2. QED  BY <1>4, <1>8, <3>1, PasswordIsKept
  <2>2. CASE job[w].op # "login"
    <3>1. PasswordSet(u)  BY <1>1, <2>2
    <3>2. QED  BY <1>4, <1>6, <1>8, <3>1, PasswordIsSet
  <2>3. QED  BY <2>1, <2>2
<1>10. Commit(w, rows)  BY <1>1, <1>2
<1>11. QED  BY <1>2, <1>4, <1>6, <1>7, <1>9, <1>10, ColumnsSaved

LEMMA SetPasswordKeeps ==
  ASSUME IInv, NEW w \in Workers, SetPassword(w) \/ UpgradeHash(w)
  PROVE  IInv'
<1>1. CASE SetPassword(w)
  <2>1. job[w].op \in PasswordEdits /\ job[w].op # "login"
    BY <1>1 DEF SetPassword, PasswordEdits
  <2>2. QED  BY <1>1, <2>1, PasswordSaved DEF SetPassword
<1>2. CASE UpgradeHash(w)
  <2>1. pc[w] = "checked" /\ job[w].op \in PasswordEdits /\ job[w].op = "login"
    BY <1>2 DEF UpgradeHash, Writing, PasswordEdits
  <2>2. QED  BY <1>2, <2>1, PasswordSaved DEF UpgradeHash
<1>3. QED  BY <1>1, <1>2

LEMMA CommitPhotoKeeps ==
  ASSUME IInv, NEW w \in Workers, CommitPhoto(w)
  PROVE  IInv'
<1>1. PICK u : u = job[w].user  OBVIOUS
<1>2. PICK base : base = IF job[w].new = None THEN user[u] ELSE job[w].new  OBVIOUS
<1>3. PICK row : row = [base EXCEPT !.photo = job[w].photo]  OBVIOUS
<1>4. PICK rows : rows = {u}  OBVIOUS
<1>5. /\ pc[w] = "swapped" /\ user' = [user EXCEPT ![u] = row]
      /\ IF job[w].new = None THEN UNCHANGED <<chosen, reverted>> ELSE PasswordKept(w, u)
      /\ torn' = torn \ {u} /\ Commit(w, rows) /\ UNCHANGED <<branch, storage>>
  BY <1>1, <1>2, <1>3, <1>4 DEF CommitPhoto
<1>6. Stands("swapped", job[w], missed[w], unseen[w], user, branch, unmet)
  BY <1>5 DEF IInv, RequestsStand
<1>7. /\ u \in Users /\ user[u] # None /\ user[u] \in UserRow
      /\ job[w].new \in UserRow \cup {None} /\ job[w].photo \in Files \cup {None}
      /\ job[w].new # None /\ u \notin missed[w] => user[u].password = job[w].new.password
      /\ job[w].new # None => Address(job[w].new.email, u, missed[w], user, unmet)
  BY <1>1, <1>6 DEF Stands, Placed, SwapFits, RowStands, AddressStands, WritesRow, IInv, TypeOK
<1>8. base \in UserRow  BY <1>2, <1>7
<1>9. /\ row \in UserRow /\ row.photo = job[w].photo
      /\ row.email = base.email /\ row.password = base.password
  BY <1>3, <1>7, <1>8 DEF UserRow
<1>10. user'[u] = row  BY <1>5, <1>7 DEF IInv, TypeOK
<1>11. /\ chosen' \in [Users -> Passwords \cup {None}] /\ reverted' \subseteq Users
       /\ u \notin reverted' => row.password = chosen'[u]
       /\ \A v \in Users \ {u} : chosen'[v] = chosen[v] /\ (v \in reverted => v \in reverted')
  <2>1. CASE job[w].new = None
    BY <1>2, <1>5, <1>7, <1>9, <2>1 DEF IInv, TypeOK, PasswordHolds
  <2>2. CASE job[w].new # None
    <3>1. PasswordKept(w, u) /\ (u \notin missed[w] => row.password = user[u].password)
      BY <1>2, <1>5, <1>7, <1>9, <2>2
    <3>2. QED  BY <1>7, <1>10, <3>1, PasswordIsKept
  <2>3. QED  BY <2>1, <2>2
<1>12. \A v \in Users \ {u} :
         user[v] # None /\ user[v].email = row.email => v \in missed[w] \/ {u, v} \in unmet
  <2>1. CASE job[w].new = None
    <3>1. row.email = user[u].email  BY <1>2, <1>9, <2>1
    <3>2. QED  BY <1>7, <3>1, EmailIsKept
  <2>2. CASE job[w].new # None  BY <1>2, <1>7, <1>9, <2>2 DEF Address
  <2>3. QED  BY <2>1, <2>2
<1>13. /\ reverted' \cup torn' \subseteq Users
       /\ row.photo # None /\ u \notin torn' => row.photo \in files
       /\ \A v \in Users \ {u} :
            chosen'[v] = chosen[v] /\ (v \in reverted => v \in reverted') /\ (v \in torn => v \in torn')
  BY <1>5, <1>9, <1>11 DEF IInv, TypeOK, SwapsStored
<1>14. ASSUME NEW owner \in [Files -> Users \cup {None}], OwnedBy(owner)
       PROVE  Of(row.photo, u, owner, stored)
  BY <1>1, <1>5, <1>9, <1>14 DEF OwnedBy, HeldBy
<1>15. QED  BY <1>4, <1>5, <1>7, <1>9, <1>11, <1>12, <1>13, <1>14, UserSaved

LEMMA BranchWritesKeep ==
  ASSUME IInv, NEW w \in Workers, CreateBranch(w) \/ UpdateBranch(w) \/ DeleteBranch(w)
  PROVE  IInv'
<1>1. pc[w] = "checked" /\ UNCHANGED <<user, storage, chosen, reverted, torn>>
  BY DEF CreateBranch, UpdateBranch, DeleteBranch, Writing
<1>2. Stands("checked", job[w], missed[w], unseen[w], user, branch, unmet)
  BY <1>1 DEF IInv, RequestsStand
<1>3. PICK b \in Branches, row \in BranchRow :
        branch' = [branch EXCEPT ![b] = row] /\ Commit(w, {b})
  <2>1. CASE CreateBranch(w)
    <3>1. job[w].new \in BranchRow
      BY <1>2, <2>1 DEF CreateBranch, Writing, Stands, Placed, Fits
    <3>2. QED  BY <2>1, <3>1 DEF CreateBranch
  <2>2. CASE UpdateBranch(w)
    <3>1. job[w].new \in BranchRow /\ job[w].branch \in Branches
      BY <1>2, <2>2 DEF UpdateBranch, Writing, Stands, Placed, Fits, BranchEdits
    <3>2. QED  BY <2>2, <3>1 DEF UpdateBranch
  <2>3. CASE DeleteBranch(w)
    <3>1. PICK b : b = job[w].branch  OBVIOUS
    <3>2. b \in Branches /\ branch[b] # None /\ branch[b] \in BranchRow
      BY <1>2, <2>3, <3>1 DEF DeleteBranch, Writing, Stands, Placed, Fits, BranchEdits, IInv, TypeOK
    <3>3. PICK row : row = [branch[b] EXCEPT !.is_deleted = TRUE]  OBVIOUS
    <3>4. row \in BranchRow  BY <3>2, <3>3 DEF BranchRow
    <3>5. branch' = [branch EXCEPT ![b] = row] /\ Commit(w, {b})
      BY <2>3, <3>1, <3>2, <3>3 DEF DeleteBranch, IInv, TypeOK
    <3>6. QED  BY <3>2, <3>4, <3>5
  <2>4. QED  BY <2>1, <2>2, <2>3
<1>4. PICK rows : rows = {b}  OBVIOUS
<1>5. Commit(w, rows)  BY <1>3, <1>4
<1>6. QED  BY <1>1, <1>3, <1>4, <1>5, BranchSaved

-----------------------------------------------------------------------------
(* The theorems.                                                            *)

LEMMA InitHolds ==
  ASSUME Init
  PROVE  IInv
<1>1. PICK sc \in Scenarios :
        /\ user = sc.user /\ branch = sc.branch
        /\ chosen = [u \in Users |-> IF sc.user[u] = None THEN None ELSE sc.user[u].password]
        /\ files = {sc.user[u].photo : u \in {x \in Users : sc.user[x] # None}} \ {None}
  BY DEF Init
<1>2. /\ user \in [Users -> UserRow \cup {None}] /\ branch \in [Branches -> BranchRow \cup {None}]
      /\ \A u, v \in Users : u # v /\ user[u] # None /\ user[v] # None =>
           /\ user[u].email # user[v].email
           /\ user[u].photo # user[v].photo \/ user[u].photo = None
      /\ \A u \in Users : user[u] # None => user[u].photo \in {None, 1}
  BY <1>1, ScenarioAssumption
<1>3. /\ stored = 1 /\ pc = [w \in Workers |-> "idle"] /\ job = [w \in Workers |-> NoJob]
      /\ missed = [w \in Workers |-> {}] /\ unseen = [w \in Workers |-> {}]
      /\ unmet = {} /\ reverted = {} /\ torn = {}
  BY DEF Init
<1>4. \A w \in Workers : pc[w] = "idle"  BY <1>3
<1>5. TypeOK
  <2>1. \A u \in Users : user[u] # None => user[u].password \in Passwords  BY <1>2 DEF UserRow
  <2>2. chosen \in [Users -> Passwords \cup {None}]  BY <1>1, <2>1
  <2>3. files \subseteq 1..stored  BY <1>1, <1>2, <1>3
  <2>4. stored \in 0..MaxFiles  BY <1>3, ScenarioAssumption
  <2>5. QED  BY <1>2, <1>3, <2>2, <2>3, <2>4 DEF TypeOK
<1>6. Shapes  BY <1>3 DEF Shapes
<1>7. RequestsStand /\ SwapsApart /\ SwapsStored
  BY <1>4 DEF RequestsStand, SwapsApart, SwapsStored
<1>8. FilesOwned
  <2>1. \E owner \in [Files -> Users \cup {None}] :
          \A u \in Users : user[u] # None => user[u].photo = None \/ owner[1] = u
    <3>1. CASE \E u \in Users : user[u] # None /\ user[u].photo # None
      <4>1. PICK u \in Users : user[u] # None /\ user[u].photo # None  BY <3>1
      <4>2. PICK owner : owner = [f \in Files |-> u]  OBVIOUS
      <4>3. owner \in [Files -> Users \cup {None}]  BY <4>2
      <4>4. 1 \in Files  BY ScenarioAssumption DEF Files
      <4>5. \A v \in Users : user[v] # None => user[v].photo = None \/ owner[1] = v
        BY <1>2, <4>1, <4>2, <4>4
      <4>6. QED  BY <4>3, <4>5
    <3>2. CASE ~\E u \in Users : user[u] # None /\ user[u].photo # None
      <4>1. [f \in Files |-> None] \in [Files -> Users \cup {None}]  OBVIOUS
      <4>2. QED  BY <3>2, <4>1
    <3>3. QED  BY <3>1, <3>2
  <2>2. PICK owner \in [Files -> Users \cup {None}] :
          \A u \in Users : user[u] # None => user[u].photo = None \/ owner[1] = u
    BY <2>1
  <2>3. OwnedBy(owner)  BY <1>2, <1>3, <1>4, <2>2 DEF OwnedBy, Of
  <2>4. QED  BY <2>3 DEF FilesOwned
<1>9. AvatarIsStored  BY <1>1 DEF AvatarIsStored
<1>10. PasswordHolds  BY <1>1 DEF PasswordHolds
<1>11. DuplicateEmailWasUnseen  BY <1>2 DEF DuplicateEmailWasUnseen
<1>12. QED  BY <1>5, <1>6, <1>7, <1>8, <1>9, <1>10, <1>11 DEF IInv

LEMMA StutterKeeps ==
  ASSUME IInv, UNCHANGED vars
  PROVE  IInv'
<1>1. /\ user' = user /\ branch' = branch /\ files' = files /\ stored' = stored /\ pc' = pc
      /\ job' = job /\ missed' = missed /\ unseen' = unseen /\ unmet' = unmet /\ chosen' = chosen
      /\ reverted' = reverted /\ torn' = torn
  BY DEF vars
<1>2. TypeOK' /\ Shapes'  BY <1>1 DEF IInv, TypeOK, Shapes
<1>3. RequestsStand' /\ SwapsApart' /\ SwapsStored'
  BY <1>1 DEF IInv, RequestsStand, SwapsApart, SwapsStored
<1>4. FilesOwned'  BY <1>1 DEF IInv, FilesOwned, OwnedBy
<1>5. AvatarIsStored' /\ PasswordHolds' /\ DuplicateEmailWasUnseen'
  BY <1>1 DEF IInv, AvatarIsStored, PasswordHolds, DuplicateEmailWasUnseen
<1>6. QED  BY <1>2, <1>3, <1>4, <1>5 DEF IInv

LEMMA StepKeeps ==
  ASSUME IInv, [Next]_vars
  PROVE  IInv'
<1>1. CASE UNCHANGED vars  BY <1>1, StutterKeeps
<1>2. ASSUME NEW w \in Workers, Loads(w)
      PROVE  IInv'
  BY <1>2, UpdateUserLoaded, DeleteUserLoaded, UpdateProfileLoaded, PhotoLoaded, PasswordLoaded,
     BranchLoaded DEF Loads
<1>3. ASSUME NEW w \in Workers, CheckCreateUser(w) \/ CheckCreateBranch(w) \/ Check(w)
      PROVE  IInv'
  BY <1>3, CreateUserChecked, CreateBranchChecked, CheckKeeps
<1>4. ASSUME NEW w \in Workers, Refuse(w) \/ RollBack(w) \/ CodeTaken(w)
      PROVE  IInv'
  BY <1>4, EndKeeps DEF Refuse, RollBack, CodeTaken
<1>5. ASSUME NEW w \in Workers, Writes(w)
      PROVE  IInv'
  BY <1>4, <1>5, CreateUserKeeps, ConvertLeadKeeps, UpdateUserKeeps, DeleteUserKeeps, UpdateProfileKeeps,
     SwapPhotoKeeps, RemovePhotoKeeps, CommitPhotoKeeps, SetPasswordKeeps, BranchWritesKeep
     DEF Writes
<1>6. QED  BY <1>1, <1>2, <1>3, <1>4, <1>5 DEF Next

\* What the account and branch services keep between any two of their steps: a request writes
\* back what is on record, or has missed a write of it.
THEOREM Invariance == Spec => []IInv
<1>1. Init => IInv  BY InitHolds
<1>2. IInv /\ [Next]_vars => IInv'  BY StepKeeps
<1>3. QED  BY <1>1, <1>2, PTL DEF Spec

\* Two rows come to one address only through two requests that overlapped or through the
\* conversion of a lead, which looks no address up (lead_service.py:48): everywhere else the
\* look-up before the save (user_service.py) keeps them apart.
THEOREM AccountsAreSound == Spec => []AccountsIntegrity
<1>1. IInv => AccountsIntegrity  BY DEF IInv, AccountsIntegrity
<1>2. QED  BY <1>1, Invariance, PTL

\* However resets, changes, logins and edits of an account interleave, the password last set is
\* the one on record, unless a request wrote back the one it had loaded before.
THEOREM PasswordsHold == Spec => []PasswordHolds
<1>1. IInv => PasswordHolds  BY DEF IInv
<1>2. QED  BY <1>1, Invariance, PTL

\* No request deletes the avatar of another user, and a row names a stored one, but while it is
\* being replaced or after a save of a stale row.
THEOREM AvatarsAreStored == Spec => []AvatarIsStored
<1>1. IInv => AvatarIsStored  BY DEF IInv
<1>2. QED  BY <1>1, Invariance, PTL

LEMMA BranchesLeft ==
  ASSUME IInv, NEW w \in Workers, CreateBranch(w) \/ UpdateBranch(w) \/ DeleteBranch(w)
  PROVE  LeavingIsCounted
<1>1. pc[w] = "checked" /\ pc'[w] # pc[w]
  BY DEF CreateBranch, UpdateBranch, DeleteBranch, Writing, Commit, Publish, IInv, Shapes
<1>2. Stands("checked", job[w], missed[w], unseen[w], user, branch, unmet)
  BY <1>1 DEF IInv, RequestsStand
<1>3. branch \in [Branches -> BranchRow \cup {None}]  BY DEF IInv, TypeOK
<1>4. ASSUME NEW b, Counted(b, unseen[w], user)
      PROVE  Members(b) \subseteq unseen[w]
  BY <1>4 DEF Counted, Members, LiveUsers
<1> SUFFICES ASSUME NEW b \in Branches, branch[b] # None
             PROVE  /\ branch'[b].is_deleted /\ ~branch[b].is_deleted => Members(b) \subseteq unseen[w]
                    /\ branch'[b].code # branch[b].code =>
                         b \in missed[w] \/ Members(b) \subseteq unseen[w]
  BY <1>1 DEF LeavingIsCounted
<1>5. branch[b] \in BranchRow  BY <1>3
<1>6. CASE CreateBranch(w)
  <2>1. PICK x \in Branches : branch[x] = None /\ branch' = [branch EXCEPT ![x] = job[w].new]
    BY <1>6 DEF CreateBranch
  <2>2. branch'[b] = branch[b]  BY <1>3, <2>1
  <2>3. QED  BY <2>2
<1>7. CASE UpdateBranch(w)
  <2>1. job[w].op = "update_branch" /\ branch' = [branch EXCEPT ![job[w].branch] = job[w].new]
    BY <1>7 DEF UpdateBranch, Writing
  <2>2. CASE b # job[w].branch  BY <1>3, <2>1, <2>2
  <2>3. CASE b = job[w].branch
    <3>1. branch'[b] = job[w].new  BY <1>3, <2>1, <2>3
    <3>2. ~job[w].new.is_deleted  BY <1>2, <2>1 DEF Stands, Placed, Fits
    <3>3. b \notin missed[w] => branch[b] = job[w].seen
      BY <1>2, <2>1, <2>3 DEF Stands, RowStands
    <3>4. job[w].new.code # job[w].seen.code => Counted(b, unseen[w], user)
      BY <1>2, <2>1, <2>3 DEF Stands, CountStands
    <3>5. QED  BY <1>4, <3>1, <3>2, <3>3, <3>4
  <2>4. QED  BY <2>2, <2>3
<1>8. CASE DeleteBranch(w)
  <2>1. /\ job[w].op = "soft_delete_branch"
        /\ branch' = [branch EXCEPT ![job[w].branch].is_deleted = TRUE]
    BY <1>8 DEF DeleteBranch, Writing
  <2>2. CASE b # job[w].branch  BY <1>3, <2>1, <2>2
  <2>3. CASE b = job[w].branch
    <3>1. Counted(b, unseen[w], user)  BY <1>2, <2>1, <2>3 DEF Stands, CountStands
    <3>2. QED  BY <1>4, <3>1
  <2>4. QED  BY <2>2, <2>3
<1>9. QED  BY <1>6, <1>7, <1>8

\* A branch is removed or renamed only by who has counted no member: those there are came after
\* the count, or the edit had missed another of the same branch (branch_service.py:6).
THEOREM BranchesAreLeftEmpty == Spec => BranchLeftEmpty
<1>1. IInv /\ [Next]_vars => [LeavingIsCounted]_vars
  <2> SUFFICES ASSUME IInv, Next PROVE LeavingIsCounted  OBVIOUS
  <2>1. CASE branch' = branch  BY <2>1 DEF LeavingIsCounted
  <2>2. CASE \E w \in Workers : CreateBranch(w) \/ UpdateBranch(w) \/ DeleteBranch(w)
    BY <2>2, BranchesLeft
  <2>3. ASSUME NEW w \in Workers, Loads(w)
        PROVE  branch' = branch
    BY <2>3 DEF Loads, LoadUpdateUser, LoadDeleteUser, LoadUpdateProfile, LoadPhoto,
                LoadChangePassword, LoadResetPassword, LoadLogin, LoadBranch, Load, tables
  <2>4. ASSUME NEW w \in Workers, CheckCreateUser(w) \/ CheckCreateBranch(w) \/ Check(w)
        PROVE  branch' = branch
    BY <2>4 DEF CheckCreateUser, CheckCreateBranch, Check, Queried, tables
  <2>5. ASSUME NEW w \in Workers, Refuse(w) \/ RollBack(w) \/ CodeTaken(w)
        PROVE  branch' = branch
    BY <2>5 DEF Refuse, RollBack, CodeTaken, End, tables
  <2>6. ASSUME NEW w \in Workers,
               \/ CreateUser(w) \/ ConvertLead(w) \/ UpdateUser(w) \/ DeleteUser(w) \/ UpdateProfile(w)
               \/ SwapPhoto(w) \/ RemovePhoto(w) \/ CommitPhoto(w)
               \/ SetPassword(w) \/ UpgradeHash(w)
        PROVE  branch' = branch
    BY <2>6 DEF CreateUser, ConvertLead, UpdateUser, DeleteUser, UpdateProfile, SwapPhoto, RemovePhoto,
                CommitPhoto, SetPassword, UpgradeHash, tables
  <2>7. QED  BY <2>1, <2>2, <2>3, <2>4, <2>5, <2>6 DEF Next, Writes
<1>2. QED  BY <1>1, Invariance, PTL DEF Spec, BranchLeftEmpty

=============================================================================
