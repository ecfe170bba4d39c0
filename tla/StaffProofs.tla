---------------------------- MODULE StaffProofs ----------------------------
(***************************************************************************)
(* The keys and references of the staff tables, and that the seed converges *)
(* whichever requests overlap: for any number of requests served at a time. *)
(***************************************************************************)
EXTENDS Staff, TLAPS

LEMMA Marks ==
  /\ None \notin UserIds /\ None \notin RoleIds /\ None \notin LinkIds
  /\ None \notin Emails /\ None \notin Names /\ None \notin Statuses
  /\ \A n \in Names : n # "NEVER" /\ n # "GONE"
  /\ \A s \in Statuses : s # "NEVER" /\ s # "GONE"
  /\ "ACTIVE" \in Statuses /\ "DISABLED" \in Statuses
  BY StaffAssumption DEF StaffAssumption, Absent

LEMMA SeedConstants ==
  /\ Len(SeedRoles) \in Nat /\ DOMAIN SeedRoles = 1 .. Len(SeedRoles)
  /\ \A k \in DOMAIN SeedRoles : SeedRoles[k] \in Names
  /\ Len(SeedUsers) \in Nat /\ DOMAIN SeedUsers = 1 .. Len(SeedUsers)
  /\ \A k \in DOMAIN SeedUsers : SeedUsers[k][1] \in Emails /\ SeedUsers[k][2] \in Names
  /\ LastStatement \in Nat /\ Finished = LastStatement + 1
<1>1. SeedRoles \in Seq(Names)
  BY StaffAssumption DEF StaffAssumption
<1>2. SeedUsers \in Seq(Emails \X {SeedRoles[k] : k \in DOMAIN SeedRoles})
  BY StaffAssumption DEF StaffAssumption
<1>3. /\ Len(SeedRoles) \in Nat /\ DOMAIN SeedRoles = 1 .. Len(SeedRoles)
      /\ \A k \in DOMAIN SeedRoles : SeedRoles[k] \in Names
  BY <1>1
<1>4. /\ Len(SeedUsers) \in Nat /\ DOMAIN SeedUsers = 1 .. Len(SeedUsers)
      /\ \A k \in DOMAIN SeedUsers : SeedUsers[k] \in Emails \X {SeedRoles[j] : j \in DOMAIN SeedRoles}
  BY <1>2
<1>5. \A k \in DOMAIN SeedUsers : SeedUsers[k][1] \in Emails /\ SeedUsers[k][2] \in Names
  BY <1>3, <1>4
<1> QED
  BY <1>3, <1>4, <1>5 DEF LastStatement, Finished

(* The three statements of a user follow one another.                        *)
LEMMA Statements ==
  ASSUME NEW x \in Nat
  PROVE  /\ x % 3 \in 0 .. 2 /\ x \div 3 \in Nat
         /\ UserStatements[1 + (x % 3)] = "lookup" <=> x % 3 = 0
         /\ UserStatements[1 + (x % 3)] = "user" <=> x % 3 = 1
         /\ UserStatements[1 + (x % 3)] = "assign" <=> x % 3 = 2
         /\ x % 3 # 2 => (x + 1) % 3 = (x % 3) + 1 /\ (x + 1) \div 3 = x \div 3
         /\ x % 3 = 2 => (x + 1) % 3 = 0 /\ x + 1 = 3 * (x \div 3 + 1)
         /\ x % 3 = 0 => x = 3 * (x \div 3)
         /\ x % 3 = 1 => x = 3 * (x \div 3) + 1
<1>1. x % 3 \in {0, 1, 2} /\ x \div 3 \in Nat
  OBVIOUS
<1>2. /\ UserStatements[1] = "lookup" /\ UserStatements[2] = "user" /\ UserStatements[3] = "assign"
  BY DEF UserStatements
<1>3. x % 3 = 0 => (x + 1) % 3 = 1 /\ (x + 1) \div 3 = x \div 3 /\ x = 3 * (x \div 3)
  OBVIOUS
<1>4. x % 3 = 1 => (x + 1) % 3 = 2 /\ (x + 1) \div 3 = x \div 3 /\ x = 3 * (x \div 3) + 1
  OBVIOUS
<1>5. x % 3 = 2 => (x + 1) % 3 = 0 /\ x + 1 = 3 * (x \div 3 + 1)
  OBVIOUS
<1> QED
  BY <1>1, <1>2, <1>3, <1>4, <1>5

TablesFit ==
  /\ users \in [UserIds -> [email : Emails \cup {None}, status : Statuses \cup Absent,
                            roles : SUBSET RoleIds]]
  /\ roles \in [RoleIds -> Names \cup Absent]
  /\ links \in [LinkIds -> [user : UserIds \cup {None}, status : {"NEVER", "UNUSED", "USED", "GONE"}]]
  /\ documents \in [DocumentIds -> [status : {"NONE", "PENDING", "APPROVED"},
                                    requestedBy : UserIds \cup {None},
                                    approvedBy : UserIds \cup {None}]]

UserFits(u) ==
  /\ users[u].roles # {} => Present(u) /\ \A r \in users[u].roles : RoleExists(r)
  /\ ~Present(u) => users[u].email = None

EmailsUnique ==
  \A u, x \in UserIds : users[u].email \in Emails /\ users[u].email = users[x].email => u = x

NamesUnique ==
  \A r, x \in RoleIds : roles[r] \in Names /\ roles[r] = roles[x] => r = x

LinksFit == \A l \in LinkIds : links[l].user # None => Present(links[l].user)

DocumentsFit ==
  \A d \in DocumentIds :
    /\ documents[d].status = "NONE" <=> documents[d].requestedBy = None
    /\ documents[d].status # "NONE" => Present(documents[d].requestedBy)

TokensFit == tokens \subseteq Tokens

CallsFit ==
  /\ call \in [Workers -> {call[w] : w \in Workers}]
  /\ \A w \in Workers : CallFits(call[w])

LEMMA Parts ==
  StaffIndInv <=> /\ TablesFit /\ (\A u \in UserIds : UserFits(u)) /\ EmailsUnique /\ NamesUnique
                  /\ LinksFit /\ DocumentsFit /\ TokensFit /\ CallsFit /\ SeedFits
<1>1. StaffIndInv => /\ TablesFit /\ (\A u \in UserIds : UserFits(u)) /\ LinksFit /\ DocumentsFit
                     /\ TokensFit /\ CallsFit /\ SeedFits
  BY DEF StaffIndInv, StaffInv, RowsFit, TablesFit, UserFits, LinksFit, DocumentsFit, TokensFit,
         CallsFit
<1>2. StaffIndInv => EmailsUnique /\ NamesUnique
  BY DEF StaffIndInv, StaffInv, EmailsUnique, NamesUnique, UserOf, RolesNamed
<1>3. EmailsUnique /\ NamesUnique =>
        /\ \A email \in Emails : \A u, x \in UserOf(email) : u = x
        /\ \A n \in Names : \A r, x \in RolesNamed(n) : r = x
  BY DEF EmailsUnique, NamesUnique, UserOf, RolesNamed
<1>4. TablesFit /\ (\A u \in UserIds : UserFits(u)) /\ LinksFit /\ DocumentsFit /\ CallsFit => RowsFit
  BY DEF RowsFit, TablesFit, UserFits, LinksFit, DocumentsFit, CallsFit
<1>5. TablesFit /\ (\A u \in UserIds : UserFits(u)) /\ EmailsUnique /\ NamesUnique /\ LinksFit
        /\ DocumentsFit /\ TokensFit
      => StaffInv
  <2> SUFFICES ASSUME TablesFit, \A u \in UserIds : UserFits(u), EmailsUnique, NamesUnique,
                      LinksFit, DocumentsFit, TokensFit
               PROVE  StaffInv
    OBVIOUS
  <2>1. \A u \in UserIds : users[u].roles # {} => Present(u) /\ \A r \in users[u].roles : RoleExists(r)
    BY DEF UserFits
  <2>2. \A d \in DocumentIds : documents[d].status # "NONE" => Present(documents[d].requestedBy)
    BY DEF DocumentsFit
  <2>3. \A l \in LinkIds : links[l].user # None => Present(links[l].user)
    BY DEF LinksFit
  <2>4. /\ users \in [UserIds -> [email : Emails \cup {None}, status : Statuses \cup Absent,
                                  roles : SUBSET RoleIds]]
        /\ roles \in [RoleIds -> Names \cup Absent]
    BY DEF TablesFit
  <2>5. tokens \subseteq Tokens
    BY DEF TokensFit
  <2> QED
    BY <1>3, <2>1, <2>2, <2>3, <2>4, <2>5 DEF StaffInv
<1> QED
  BY <1>1, <1>2, <1>4, <1>5 DEF StaffIndInv

LEMMA InitInd == Init => StaffIndInv
<1> SUFFICES ASSUME Init PROVE StaffIndInv
  OBVIOUS
<1> USE DEF Init
<1>1. TablesFit
  BY DEF TablesFit, NoUser, Absent
<1>2. \A u \in UserIds : UserFits(u)
  BY DEF UserFits, NoUser
<1>3. EmailsUnique /\ NamesUnique
  BY Marks DEF EmailsUnique, NamesUnique, NoUser
<1>4. LinksFit /\ DocumentsFit /\ TokensFit
  BY DEF LinksFit, DocumentsFit, TokensFit
<1>5. CallsFit
  BY DEF CallsFit, CallFits
<1>6. SeedFits
  <2>1. seed = NoSeed /\ ~SeedAt("user") /\ ~SeedAt("assign")
    BY SeedConstants DEF SeedAt, UserStatement, NoSeed
  <2> QED
    BY <2>1, SeedConstants DEF SeedFits, NoSeed
<1> QED
  BY <1>1, <1>2, <1>3, <1>4, <1>5, <1>6, Parts
-----------------------------------------------------------------------------
LEMMA CallsKept ==
  ASSUME CallsFit, \A u \in UserIds : Referenced(u) => Referenced(u)',
         \/ UNCHANGED call
         \/ \E w \in Workers : \E c : CallFits(c) /\ call' = [call EXCEPT ![w] = c]
  PROVE  CallsFit'
<1>1. ASSUME NEW c, CallFits(c) PROVE CallFits(c)'
  BY <1>1 DEF CallFits
<1>2. CASE UNCHANGED call
  BY <1>1, <1>2 DEF CallsFit, CallFits
<1>3. ASSUME NEW w \in Workers, NEW c, CallFits(c), call' = [call EXCEPT ![w] = c]
      PROVE  CallsFit'
  <2>1. call' \in [Workers -> {call'[x] : x \in Workers}]
    BY <1>3 DEF CallsFit
  <2>2. ASSUME NEW x \in Workers PROVE CallFits(call[x])'
    <3>1. PICK d : d = call'[x]
      OBVIOUS
    <3>2. CallFits(d)
      BY <1>3, <3>1 DEF CallsFit
    <3>3. CallFits(d)'
      BY <1>1, <3>2
    <3> QED
      BY <3>1, <3>3 DEF CallFits
  <2> QED
    BY <2>1, <2>2 DEF CallsFit
<1> QED
  BY <1>2, <1>3

LEMMA EndFits ==
  ASSUME NEW w \in Workers, End(w)
  PROVE  \E x \in Workers : \E c : CallFits(c) /\ call' = [call EXCEPT ![x] = c]
  BY DEF End, Go, CallFits

(* A request that writes takes from a running seed what it relied on.        *)
LEMMA Disturbed == SeedFits /\ Disturb => SeedFits'
<1> SUFFICES ASSUME SeedFits, Disturb PROVE SeedFits'
  OBVIOUS
<1>1. /\ seed'.at = seed.at /\ seed'.role = seed.role /\ seed'.user = seed.user
      /\ seed'.quiet = FALSE
      /\ seed' \in [at : 0 .. Finished, role : RoleIds \cup {None}, user : UserIds \cup {None},
                    quiet : BOOLEAN]
  BY DEF SeedFits, Disturb
<1>2. \A s : SeedAt(s)' <=> SeedAt(s)
  BY <1>1 DEF SeedAt, UserStatement
<1> QED
  BY <1>1, <1>2 DEF SeedFits

LEMMA SeedSame ==
  ASSUME SeedFits, UNCHANGED <<users, roles, seed>>
  PROVE  SeedFits'
<1>1. \A u : NamesOf(u)' = NamesOf(u)
  BY DEF NamesOf
<1>2. /\ \A n : RolesNamed(n)' = RolesNamed(n)
      /\ \A e : UserOf(e)' = UserOf(e)
  BY DEF RolesNamed, UserOf
<1>3. SeedUser' = SeedUser /\ \A s : SeedAt(s)' <=> SeedAt(s)
  BY DEF SeedAt, UserStatement, SeedUser
<1> QED
  BY <1>1, <1>2, <1>3 DEF SeedFits

(* A step that only moves a request leaves the rest alone.                   *)
LEMMA CallMoves ==
  ASSUME StaffIndInv, UNCHANGED <<tables, seed>>, TokensFit',
         \/ UNCHANGED call
         \/ \E w \in Workers : \E c : CallFits(c) /\ call' = [call EXCEPT ![w] = c]
  PROVE  StaffIndInv'
<1> USE DEF tables
<1>1. TablesFit' /\ (\A u \in UserIds : UserFits(u))' /\ EmailsUnique' /\ NamesUnique'
  BY Parts DEF TablesFit, UserFits, EmailsUnique, NamesUnique, Present, RoleExists
<1>2. LinksFit' /\ DocumentsFit'
  BY Parts DEF LinksFit, DocumentsFit, Present
<1>3. CallsFit'
  BY Parts, CallsKept DEF Referenced
<1>4. SeedFits'
  BY Parts, SeedSame
<1> QED
  BY <1>1, <1>2, <1>3, <1>4, Parts, PTL

LEMMA MovesKeepInv ==
  ASSUME StaffIndInv, NEW w \in Workers,
         \/ \E u \in UserIds : Login(w, u)
         \/ \E t \in tokens : Expire(t)
         \/ \E l \in LinkIds : StartResetPassword(w, l)
         \/ \E t \in tokens, ids \in SUBSET RoleIds, email \in Emails : StartCreateUser(w, t, ids, email)
         \/ \E t \in tokens, ids \in SUBSET RoleIds, u \in UserIds, status \in Statuses \cup {None},
               email \in Emails \cup {None} : StartUpdateUser(w, t, u, ids, status, email)
         \/ \E t \in tokens, u \in UserIds : StartDeleteUser(w, t, u)
         \/ MayGrant(w) \/ DeleteUserRefused(w)
         \/ \E t \in tokens, r \in RoleIds : StartRemoveRole(w, t, r)
         \/ Refused(w) \/ Abort(w)
  PROVE  StaffIndInv'
<1> USE DEF Undisturbed, Go
<1>1. TokensFit /\ CallFits(call[w])
  BY Parts DEF CallsFit
<1>0. \A t \in tokens : t \in Tokens
  BY <1>1 DEF TokensFit
<1>2. ASSUME NEW c, CallFits(c), call' = [call EXCEPT ![w] = c], Undisturbed PROVE StaffIndInv'
  BY <1>1, <1>2, CallMoves DEF TokensFit
<1>3. ASSUME NEW u \in UserIds, Login(w, u) PROVE StaffIndInv'
  <2>1. NamesOf(u) \subseteq Names
    BY Parts DEF UserFits, TablesFit, NamesOf, RoleExists
  <2>2. TokensFit'
    BY <1>1, <1>3, <2>1 DEF Login, TokensFit, Tokens
  <2> QED
    BY <1>3, <2>2, CallMoves DEF Login
<1>4. ASSUME NEW t \in tokens, Expire(t) PROVE StaffIndInv'
  BY <1>1, <1>4, CallMoves DEF Expire, TokensFit
<1>5. ASSUME NEW l \in LinkIds, StartResetPassword(w, l) PROVE StaffIndInv'
  BY <1>2, <1>5 DEF StartResetPassword, CallFits
<1>6. ASSUME NEW t \in tokens, NEW ids \in SUBSET RoleIds, NEW email \in Emails,
             StartCreateUser(w, t, ids, email)
      PROVE  StaffIndInv'
  BY <1>0, <1>2, <1>6 DEF StartCreateUser, CallFits
<1>7. ASSUME NEW t \in tokens, NEW ids \in SUBSET RoleIds, NEW u \in UserIds,
             NEW status \in Statuses \cup {None}, NEW email \in Emails \cup {None},
             StartUpdateUser(w, t, u, ids, status, email)
      PROVE  StaffIndInv'
  BY <1>0, <1>2, <1>7 DEF StartUpdateUser, CallFits
<1>8. ASSUME NEW t \in tokens, NEW u \in UserIds, StartDeleteUser(w, t, u) PROVE StaffIndInv'
  BY <1>0, <1>2, <1>8 DEF StartDeleteUser, CallFits
<1>9. ASSUME MayGrant(w) PROVE StaffIndInv'
  <2>1. CallFits(NoCall) /\ CallFits([call[w] EXCEPT !.step = "update"])
    BY <1>1, <1>9 DEF CallFits, MayGrant, At, NoCall
  <2> QED
    BY <1>2, <1>9, <2>1 DEF MayGrant, End
<1>10. ASSUME DeleteUserRefused(w) PROVE StaffIndInv'
  <2>1. CallFits([call[w] EXCEPT !.step = "disable"])
    BY <1>1, <1>10 DEF CallFits, DeleteUserRefused, At, NoCall
  <2> QED
    BY <1>2, <1>10, <2>1 DEF DeleteUserRefused
<1>11. ASSUME NEW t \in tokens, NEW r \in RoleIds, StartRemoveRole(w, t, r) PROVE StaffIndInv'
  BY <1>0, <1>2, <1>11 DEF StartRemoveRole, CallFits
<1>12. ASSUME Refused(w) \/ Abort(w) PROVE StaffIndInv'
  <2>1. CallFits(NoCall)
    BY DEF CallFits
  <2> QED
    BY <1>2, <1>12, <2>1 DEF Refused, Abort, End
<1> QED
  BY <1>3, <1>4, <1>5, <1>6, <1>7, <1>8, <1>9, <1>10, <1>11, <1>12

LEMMA Written ==
  ASSUME StaffIndInv, Disturb, UNCHANGED tokens,
         UNCHANGED call \/ \E w \in Workers : End(w),
         \A u \in UserIds : Referenced(u) => Referenced(u)',
         TablesFit', (\A u \in UserIds : UserFits(u))', EmailsUnique', NamesUnique',
         LinksFit', DocumentsFit'
  PROVE  StaffIndInv'
<1>1. CallsFit'
  BY Parts, CallsKept, EndFits
<1>2. SeedFits'
  BY Parts, Disturbed
<1>3. TokensFit'
  BY Parts DEF TokensFit
<1> QED
  BY <1>1, <1>2, <1>3, Parts, PTL

LEMMA UsersSame ==
  ASSUME StaffIndInv, UNCHANGED <<users, roles>>
  PROVE  (\A u \in UserIds : UserFits(u))' /\ EmailsUnique' /\ NamesUnique'
  BY Parts DEF UserFits, EmailsUnique, NamesUnique, Present, RoleExists

LEMMA LinkWritesKeepInv ==
  ASSUME StaffIndInv, NEW w \in Workers,
         \/ \E u \in UserIds, l \in LinkIds : ForgotPassword(w, u, l)
         \/ ResetPassword(w)
  PROVE  StaffIndInv'
<1>1. ASSUME UNCHANGED <<users, roles, documents>>, links' \in [LinkIds -> [user : UserIds \cup {None},
               status : {"NEVER", "UNUSED", "USED", "GONE"}]],
             \A l \in LinkIds : links'[l].user \in {None, links[l].user} \/ Present(links'[l].user)
      PROVE  /\ TablesFit' /\ LinksFit' /\ DocumentsFit'
             /\ \A u \in UserIds : Referenced(u) => Referenced(u)'
  BY <1>1, Parts DEF TablesFit, LinksFit, DocumentsFit, Present, Referenced
<1>2. ASSUME NEW u \in UserIds, NEW l \in LinkIds, ForgotPassword(w, u, l) PROVE StaffIndInv'
  <2>1. /\ links' \in [LinkIds -> [user : UserIds \cup {None},
                                   status : {"NEVER", "UNUSED", "USED", "GONE"}]]
        /\ \A m \in LinkIds : links'[m].user \in {None, links[m].user} \/ Present(links'[m].user)
    BY <1>2, Parts DEF ForgotPassword, TablesFit
  <2> QED
    BY <1>1, <1>2, <2>1, UsersSame, Written DEF ForgotPassword
<1>3. ASSUME ResetPassword(w) PROVE StaffIndInv'
  <2>1. call[w].link \in LinkIds
    BY <1>3, Parts DEF CallsFit, CallFits, ResetPassword, At, NoCall
  <2>2. /\ links' \in [LinkIds -> [user : UserIds \cup {None},
                                   status : {"NEVER", "UNUSED", "USED", "GONE"}]]
        /\ \A m \in LinkIds : links'[m].user \in {None, links[m].user} \/ Present(links'[m].user)
    BY <1>3, <2>1, Parts DEF ResetPassword, TablesFit
  <2> QED
    BY <1>1, <1>3, <2>2, UsersSame, Written DEF ResetPassword
<1> QED
  BY <1>2, <1>3

LEMMA DocumentWritesKeepInv ==
  ASSUME StaffIndInv, NEW w \in Workers, NEW t \in tokens, NEW d \in DocumentIds,
         FileDocument(w, t, d) \/ ApproveDocument(w, t, d)
  PROVE  StaffIndInv'
<1>1. t.sub \in UserIds /\ t.sub # None
  BY Parts, Marks DEF TokensFit, Tokens
<1>2. CASE FileDocument(w, t, d)
  <2>1. documents' = [documents EXCEPT ![d] =
                        [status |-> "PENDING", requestedBy |-> t.sub, approvedBy |-> None]]
        /\ documents[d].status = "NONE" /\ Present(t.sub)
        /\ UNCHANGED <<users, roles, links, tokens, call>> /\ Disturb
    BY <1>2 DEF FileDocument
  <2>2. TablesFit' /\ LinksFit' /\ DocumentsFit'
    BY <1>1, <2>1, Parts DEF TablesFit, LinksFit, DocumentsFit, Present
  <2>3. \A u \in UserIds : Referenced(u) => Referenced(u)'
    <3>1. documents[d].requestedBy = None
      BY <2>1, Parts DEF DocumentsFit
    <3> QED
      BY <2>1, <3>1, Parts, Marks DEF TablesFit, Referenced
  <2> QED
    BY <2>1, <2>2, <2>3, UsersSame, Written
<1>3. CASE ApproveDocument(w, t, d)
  <2>1. documents' = [documents EXCEPT ![d].status = "APPROVED", ![d].approvedBy = t.sub]
        /\ documents[d].status = "PENDING"
        /\ UNCHANGED <<users, roles, links, tokens, call>> /\ Disturb
    BY <1>3 DEF ApproveDocument
  <2>2. TablesFit' /\ LinksFit' /\ DocumentsFit'
    BY <1>1, <2>1, Parts DEF TablesFit, LinksFit, DocumentsFit, Present
  <2>3. \A u \in UserIds : Referenced(u) => Referenced(u)'
    BY <2>1, Parts DEF TablesFit, Referenced
  <2> QED
    BY <2>1, <2>2, <2>3, UsersSame, Written
<1> QED
  BY <1>2, <1>3

(* A user row is written: others' rows, and what names the user, stay good.   *)
LEMMA UserWritten ==
  ASSUME StaffIndInv, UNCHANGED <<roles, links, documents>>,
         NEW u \in UserIds, NEW row,
         row \in [email : Emails \cup {None}, status : Statuses, roles : SUBSET RoleIds],
         users' = [users EXCEPT ![u] = row],
         \A r \in row.roles : RoleExists(r),
         row.email = None \/ Free(row.email, u)
  PROVE  /\ TablesFit' /\ (\A x \in UserIds : UserFits(x))' /\ EmailsUnique' /\ NamesUnique'
         /\ LinksFit' /\ DocumentsFit'
         /\ \A x \in UserIds : Referenced(x) => Referenced(x)'
<1>1. TablesFit
  BY Parts
<1>2. /\ users'[u] = row /\ row.status \notin Absent
      /\ \A x \in UserIds : x # u => users'[x] = users[x]
  BY <1>1, Marks DEF TablesFit, Absent
<1>3. TablesFit'
  BY <1>1 DEF TablesFit
<1>4. \A x : Present(x) /\ x \in UserIds => Present(x)'
  BY <1>2 DEF Present
<1>5. (\A x \in UserIds : UserFits(x))'
  BY <1>2, Parts DEF UserFits, Present, RoleExists
<1>6. EmailsUnique'
  <2> SUFFICES ASSUME NEW x \in UserIds, NEW y \in UserIds, users'[x].email \in Emails,
                      users'[x].email = users'[y].email
               PROVE  x = y
    BY DEF EmailsUnique
  <2>1. CASE x = u /\ y # u
    <3>1. users[y].email = row.email /\ row.email # None
      BY <1>2, <2>1, Marks
    <3> QED
      BY <2>1, <3>1 DEF Free, UserOf
  <2>2. CASE x # u /\ y = u
    <3>1. users[x].email = row.email /\ row.email # None
      BY <1>2, <2>2, Marks
    <3> QED
      BY <2>2, <3>1 DEF Free, UserOf
  <2>3. CASE x # u /\ y # u
    BY <1>2, <2>3, Parts DEF EmailsUnique
  <2> QED
    BY <2>1, <2>2, <2>3
<1>7. NamesUnique'
  BY Parts DEF NamesUnique
<1>8. LinksFit' /\ DocumentsFit'
  <2>1. (\A l \in LinkIds : links[l].user \in UserIds \cup {None})
        /\ \A d \in DocumentIds : documents[d].requestedBy \in UserIds \cup {None}
    BY <1>1 DEF TablesFit
  <2>2. \A d \in DocumentIds : documents[d].status # "NONE" => documents[d].requestedBy \in UserIds
    BY <2>1, Parts DEF DocumentsFit
  <2> QED
    BY <1>4, <2>1, <2>2, Parts DEF LinksFit, DocumentsFit
<1> QED
  BY <1>3, <1>5, <1>6, <1>7, <1>8 DEF Referenced

LEMMA UserWritesKeepInv ==
  ASSUME StaffIndInv, NEW w \in Workers,
         \/ \E u \in UserIds : CreateUser(w, u)
         \/ UpdateUser(w) \/ DisableUser(w)
  PROVE  StaffIndInv'
<1>1. CallFits(call[w]) /\ TablesFit
  BY Parts DEF CallsFit
<1>2. ASSUME NEW u \in UserIds, CreateUser(w, u) PROVE StaffIndInv'
  <2> DEFINE c == call[w]
             row == [email |-> c.email, status |-> "ACTIVE", roles |-> c.ids]
  <2>1. c.step = "create" /\ c.email \in Emails /\ c.ids \in SUBSET RoleIds
    BY <1>1, <1>2 DEF CallFits, CreateUser, At, NoCall
  <2>2. /\ Free(c.email, None) /\ (\A r \in c.ids : RoleExists(r))
        /\ users' = [users EXCEPT ![u] = row]
    BY <1>2, <2>1 DEF CreateUser, Accepted, Inserts
  <2>3. row \in [email : Emails \cup {None}, status : Statuses, roles : SUBSET RoleIds]
        /\ row.roles = c.ids /\ row.email = c.email
    BY <2>1, Marks
  <2>4. Free(c.email, u)
    BY <2>1, <2>2, Marks DEF Free, UserOf
  <2>5. Disturb /\ End(w) /\ UNCHANGED <<roles, links, documents, tokens>>
    BY <1>2 DEF CreateUser
  <2> HIDE DEF c, row
  <2> QED
    BY <2>2, <2>3, <2>4, <2>5, UserWritten, Written
<1>3. ASSUME UpdateUser(w) PROVE StaffIndInv'
  <2> DEFINE c == call[w]
             u == c.user
             row == [roles  |-> IF c.ids = {} THEN users[u].roles ELSE c.ids,
                     status |-> IF c.status = None THEN users[u].status ELSE c.status,
                     email  |-> IF c.email = None THEN users[u].email ELSE c.email]
  <2>1. /\ c.step = "update" /\ u \in UserIds /\ c.ids \in SUBSET RoleIds
        /\ c.status \in Statuses \cup {None} /\ c.email \in Emails \cup {None}
    BY <1>1, <1>3 DEF CallFits, UpdateUser, At, NoCall
  <2>2. /\ Present(u) /\ Free(c.email, u) /\ (\A r \in c.ids : RoleExists(r))
        /\ users' = [users EXCEPT ![u] = row]
    BY <1>3, <2>1 DEF UpdateUser, Accepted
  <2>3. users[u] \in [email : Emails \cup {None}, status : Statuses, roles : SUBSET RoleIds]
    BY <1>1, <2>1, <2>2 DEF TablesFit, Present
  <2>4. row \in [email : Emails \cup {None}, status : Statuses, roles : SUBSET RoleIds]
    BY <2>1, <2>3
  <2>5. \A r \in row.roles : RoleExists(r)
    BY <2>1, <2>2, Parts DEF UserFits
  <2>6. row.email = None \/ Free(row.email, u)
    <3>1. CASE c.email = None
      <4>1. row.email = users[u].email
        BY <3>1
      <4>2. users[u].email \in Emails => UserOf(users[u].email) \subseteq {u}
        BY <2>1, Parts DEF EmailsUnique, UserOf
      <4> QED
        BY <2>3, <4>1, <4>2 DEF Free
    <3>2. CASE c.email # None
      BY <2>2, <3>2
    <3> QED
      BY <3>1, <3>2
  <2>7. Disturb /\ End(w) /\ UNCHANGED <<roles, links, documents, tokens>>
    BY <1>3 DEF UpdateUser
  <2> HIDE DEF c, u, row
  <2> QED
    BY <2>1, <2>2, <2>4, <2>5, <2>6, <2>7, UserWritten, Written
<1>4. ASSUME DisableUser(w) PROVE StaffIndInv'
  <2> DEFINE u == call[w].user
             row == [users[u] EXCEPT !.status = "DISABLED"]
  <2>1. u \in UserIds /\ Referenced(u)
    BY <1>1, <1>4 DEF CallFits, DisableUser, At, NoCall
  <2>2. Present(u)
    BY <2>1, Parts, Marks DEF Referenced, DocumentsFit
  <2>3. users[u] \in [email : Emails \cup {None}, status : Statuses, roles : SUBSET RoleIds]
    BY <1>1, <2>1, <2>2 DEF TablesFit, Present
  <2>4. /\ row \in [email : Emails \cup {None}, status : Statuses, roles : SUBSET RoleIds]
        /\ row.roles = users[u].roles /\ row.email = users[u].email
    BY <2>3, Marks
  <2>5. \A r \in row.roles : RoleExists(r)
    BY <2>1, <2>4, Parts DEF UserFits
  <2>6. row.email = None \/ Free(row.email, u)
    BY <2>1, <2>3, <2>4, Parts DEF EmailsUnique, UserOf, Free
  <2>7. /\ Disturb /\ End(w) /\ UNCHANGED <<roles, links, documents, tokens>>
        /\ users' = [users EXCEPT ![u] = row]
    BY <1>4 DEF DisableUser
  <2> HIDE DEF u, row
  <2> QED
    BY <2>1, <2>4, <2>5, <2>6, <2>7, UserWritten, Written
<1> QED
  BY <1>2, <1>3, <1>4

(* A user who is gone leaves no link, no approval and no assignment; the      *)
(* documents the user requested kept the user.                               *)
LEMMA DeleteKeepsInv ==
  ASSUME StaffIndInv, NEW w \in Workers, DeleteUser(w)
  PROVE  StaffIndInv'
<1> DEFINE u == call[w].user
           gone == [NoUser EXCEPT !.status = "GONE"]
<1>1. u \in UserIds
  <2>1. CallFits(call[w])
    BY Parts DEF CallsFit
  <2> QED
    BY <2>1 DEF CallFits, DeleteUser, At, NoCall
<1>2. /\ Present(u) /\ ~Referenced(u) /\ users' = [users EXCEPT ![u] = gone]
      /\ links' = [l \in LinkIds |-> IF links[l].user = u THEN [user |-> None, status |-> "GONE"]
                                                           ELSE links[l]]
      /\ documents' = [d \in DocumentIds |->
                         IF documents[d].approvedBy = u THEN [documents[d] EXCEPT !.approvedBy = None]
                                                        ELSE documents[d]]
      /\ End(w) /\ Disturb /\ UNCHANGED <<roles, tokens>>
  BY DEF DeleteUser, Accepted, At
<1>3. gone = [email |-> None, status |-> "GONE", roles |-> {}]
  BY DEF NoUser
<1>4. TablesFit
  BY Parts
<1> HIDE DEF u, gone
<1>5. TablesFit'
  BY <1>1, <1>2, <1>3, <1>4 DEF TablesFit, Absent
<1>6. /\ users'[u] = gone
      /\ \A x \in UserIds : x # u => users'[x] = users[x]
      /\ \A d \in DocumentIds : /\ documents'[d].requestedBy = documents[d].requestedBy
                                /\ documents'[d].status = documents[d].status
  BY <1>1, <1>2, <1>4 DEF TablesFit
<1>7. (\A x \in UserIds : UserFits(x))' /\ NamesUnique'
  BY <1>2, <1>3, <1>6, Parts DEF UserFits, NamesUnique, Present, RoleExists
<1>8. EmailsUnique'
  BY <1>1, <1>3, <1>6, Parts, Marks DEF EmailsUnique
<1>9. LinksFit'
  <2>1. \A l \in LinkIds : links'[l].user # None => /\ links[l].user # u /\ links[l].user \in UserIds
                                                     /\ links'[l].user = links[l].user
    BY <1>2, <1>4 DEF TablesFit
  <2> QED
    BY <1>6, <2>1, Parts DEF LinksFit, Present
<1>10. DocumentsFit'
  <2>1. \A d \in DocumentIds : documents[d].requestedBy # u
                                 /\ documents[d].requestedBy \in UserIds \cup {None}
    BY <1>2, <1>4 DEF TablesFit, Referenced
  <2> QED
    BY <1>6, <2>1, Parts DEF DocumentsFit, Present
<1>11. \A x \in UserIds : Referenced(x) => Referenced(x)'
  BY <1>6 DEF Referenced
<1> QED
  BY <1>2, <1>5, <1>7, <1>8, <1>9, <1>10, <1>11, Written

LEMMA RoleWritten ==
  ASSUME StaffIndInv, UNCHANGED <<users, links, documents>>,
         NEW r \in RoleIds, NEW n \in Names, RolesNamed(n) \subseteq {r},
         roles' = [roles EXCEPT ![r] = n]
  PROVE  /\ TablesFit' /\ (\A x \in UserIds : UserFits(x))' /\ EmailsUnique' /\ NamesUnique'
         /\ LinksFit' /\ DocumentsFit'
         /\ \A x \in UserIds : Referenced(x) => Referenced(x)'
<1>1. TablesFit
  BY Parts
<1>2. TablesFit'
  BY <1>1 DEF TablesFit
<1>3. roles'[r] = n /\ \A x \in RoleIds : x # r => roles'[x] = roles[x]
  BY <1>1 DEF TablesFit
<1>4. \A x \in RoleIds : RoleExists(x) => RoleExists(x)'
  BY <1>3, Marks DEF RoleExists, Absent
<1>5. (\A x \in UserIds : UserFits(x))' /\ EmailsUnique'
  BY <1>1, <1>4, Parts DEF TablesFit, UserFits, EmailsUnique, Present
<1>6. NamesUnique'
  BY <1>3, Parts DEF NamesUnique, RolesNamed
<1>7. LinksFit' /\ DocumentsFit' /\ \A x \in UserIds : Referenced(x) => Referenced(x)'
  BY Parts DEF LinksFit, DocumentsFit, Present, Referenced
<1> QED
  BY <1>2, <1>5, <1>6, <1>7

LEMMA RoleWritesKeepInv ==
  ASSUME StaffIndInv, NEW w \in Workers,
         \/ \E t \in tokens, r \in RoleIds, n \in Names : CreateRole(w, t, r, n) \/ RenameRole(w, t, r, n)
         \/ RemoveRole(w)
  PROVE  StaffIndInv'
<1>1. TablesFit /\ CallFits(call[w])
  BY Parts DEF CallsFit
<1>3. ASSUME NEW t \in tokens, NEW r \in RoleIds, NEW n \in Names,
             CreateRole(w, t, r, n) \/ RenameRole(w, t, r, n)
      PROVE  StaffIndInv'
  BY <1>3, RoleWritten, Written DEF CreateRole, RenameRole
<1>4. ASSUME RemoveRole(w) PROVE StaffIndInv'
  <2> DEFINE r == call[w].role
  <2>1. r \in RoleIds
    BY <1>1, <1>4 DEF CallFits, RemoveRole, At, NoCall
  <2>2. /\ roles' = [roles EXCEPT ![r] = "GONE"]
        /\ users' = [u \in UserIds |-> [users[u] EXCEPT !.roles = users[u].roles \ {r}]]
        /\ End(w) /\ Disturb /\ UNCHANGED <<links, documents, tokens>>
    BY <1>4 DEF RemoveRole
  <2> HIDE DEF r
  <2>3. /\ \A u \in UserIds : /\ users'[u].email = users[u].email
                              /\ users'[u].status = users[u].status
                              /\ users'[u].roles = users[u].roles \ {r}
        /\ \A x \in RoleIds : roles'[x] = IF x = r THEN "GONE" ELSE roles[x]
    BY <1>1, <2>1, <2>2 DEF TablesFit
  <2>4. TablesFit'
    <3> DEFINE Row == [email : Emails \cup {None}, status : Statuses \cup Absent,
                       roles : SUBSET RoleIds]
    <3>1. \A u \in UserIds : users[u] \in Row
      BY <1>1 DEF TablesFit
    <3>2. \A u \in UserIds : [users[u] EXCEPT !.roles = users[u].roles \ {r}] \in Row
      BY <3>1
    <3> HIDE DEF Row
    <3>3. users' \in [UserIds -> Row]
      BY <2>2, <3>2
    <3>4. roles' \in [RoleIds -> Names \cup Absent]
      BY <1>1, <2>1, <2>2 DEF TablesFit, Absent
    <3> QED
      BY <1>1, <2>2, <3>3, <3>4 DEF TablesFit, Row
  <2>5. (\A x \in UserIds : UserFits(x))'
    <3> SUFFICES ASSUME NEW x \in UserIds PROVE UserFits(x)'
      OBVIOUS
    <3>1. UserFits(x) /\ users[x].roles \subseteq RoleIds
      BY <1>1, Parts DEF TablesFit
    <3> QED
      BY <2>3, <3>1 DEF UserFits, Present, RoleExists
  <2>6. EmailsUnique'
    BY <2>3, Parts DEF EmailsUnique
  <2>7. NamesUnique'
    BY <2>3, Parts, Marks DEF NamesUnique
  <2>8. LinksFit' /\ DocumentsFit' /\ \A x \in UserIds : Referenced(x) => Referenced(x)'
    <3>1. /\ \A l \in LinkIds : links[l].user \in UserIds \cup {None}
          /\ \A d \in DocumentIds : documents[d].requestedBy \in UserIds \cup {None}
      BY <1>1 DEF TablesFit
    <3> QED
      BY <2>2, <2>3, <3>1, Parts DEF LinksFit, DocumentsFit, Present, Referenced
  <2> QED
    BY <2>2, <2>4, <2>5, <2>6, <2>7, <2>8, Written
<1> QED
  BY <1>3, <1>4
-----------------------------------------------------------------------------
(* The user of a seeding call has the role of it.                            *)
Done(k) == \E u \in UserOf(SeedUsers[k][1]) : SeedUsers[k][2] \in NamesOf(u)

(* SeedAt and SeedUser, of any place in a run of the seed.                   *)
StatementAt(n, s) ==
  /\ n - Len(SeedRoles) - 1 >= 0 /\ n <= LastStatement
  /\ UserStatements[1 + ((n - Len(SeedRoles) - 1) % 3)] = s

UserAt(n) == SeedUsers[1 + ((n - Len(SeedRoles) - 1) \div 3)]

LEMMA AtPlace ==
  /\ \A s : SeedAt(s) <=> StatementAt(seed.at, s)
  /\ \A s : SeedAt(s)' <=> StatementAt(seed'.at, s)
  /\ SeedUser = UserAt(seed.at) /\ SeedUser' = UserAt(seed'.at)
  BY DEF SeedAt, StatementAt, UserStatement, SeedUser, UserAt

LEMMA SeedPlaces ==
  ASSUME NEW n \in 0 .. Finished, NEW x, x = n - Len(SeedRoles) - 1
  PROVE  /\ x \in Int /\ n = Len(SeedRoles) + 1 + x
         /\ x >= 0 => x % 3 \in 0 .. 2 /\ x \div 3 \in Nat
         /\ StatementAt(n, "lookup") <=> x >= 0 /\ n <= LastStatement /\ x % 3 = 0
         /\ StatementAt(n, "user") <=> x >= 0 /\ n <= LastStatement /\ x % 3 = 1
         /\ StatementAt(n, "assign") <=> x >= 0 /\ n <= LastStatement /\ x % 3 = 2
         /\ x >= 0 /\ n <= LastStatement =>
              /\ 1 + x \div 3 \in DOMAIN SeedUsers
              /\ UserAt(n) = SeedUsers[1 + x \div 3]
<1>1. n \in Nat /\ x \in Int /\ n = Len(SeedRoles) + 1 + x
  BY SeedConstants
<1>2. x >= 0 => x % 3 \in 0 .. 2 /\ x \div 3 \in Nat
  BY <1>1, Statements
<1>3. /\ StatementAt(n, "lookup") <=> x >= 0 /\ n <= LastStatement /\ x % 3 = 0
      /\ StatementAt(n, "user") <=> x >= 0 /\ n <= LastStatement /\ x % 3 = 1
      /\ StatementAt(n, "assign") <=> x >= 0 /\ n <= LastStatement /\ x % 3 = 2
  <2>1. \A s : StatementAt(n, s) <=> x >= 0 /\ n <= LastStatement /\ UserStatements[1 + (x % 3)] = s
    BY DEF StatementAt
  <2>2. x >= 0 => /\ UserStatements[1 + (x % 3)] = "lookup" <=> x % 3 = 0
                  /\ UserStatements[1 + (x % 3)] = "user" <=> x % 3 = 1
                  /\ UserStatements[1 + (x % 3)] = "assign" <=> x % 3 = 2
    BY <1>1, Statements
  <2> QED
    BY <2>1, <2>2
<1>4. ASSUME x >= 0, n <= LastStatement
      PROVE  1 + x \div 3 \in DOMAIN SeedUsers /\ UserAt(n) = SeedUsers[1 + x \div 3]
  <2>1. x < 3 * Len(SeedUsers)
    BY <1>1, <1>4, SeedConstants DEF LastStatement
  <2>2. x \div 3 < Len(SeedUsers)
    BY <1>1, <1>4, <2>1, SeedConstants
  <2> QED
    BY <1>2, <1>4, <2>2, SeedConstants DEF UserAt
<1> QED
  BY <1>1, <1>2, <1>3, <1>4

(* One step further: the next statement of the same user, or the next user,  *)
(* the one before being done.                                                *)
LEMMA NextPlace ==
  ASSUME NEW n \in 0 .. LastStatement
  PROVE  /\ n + 1 \in 0 .. Finished
         /\ StatementAt(n, "lookup") => /\ StatementAt(n + 1, "user") /\ UserAt(n + 1) = UserAt(n)
                                        /\ ~StatementAt(n + 1, "assign")
         /\ StatementAt(n, "user") => /\ StatementAt(n + 1, "assign") /\ UserAt(n + 1) = UserAt(n)
                                      /\ ~StatementAt(n + 1, "user")
         /\ n <= Len(SeedRoles) \/ StatementAt(n, "assign") =>
              ~StatementAt(n + 1, "user") /\ ~StatementAt(n + 1, "assign")
         /\ StatementAt(n, "assign") =>
              \E j \in DOMAIN SeedUsers :
                /\ UserAt(n) = SeedUsers[j]
                /\ \A k \in DOMAIN SeedUsers :
                     Len(SeedRoles) + 3 * k < n + 1 => k = j \/ Len(SeedRoles) + 3 * k < n
         /\ ~StatementAt(n, "assign") =>
              \A k \in DOMAIN SeedUsers :
                Len(SeedRoles) + 3 * k < n + 1 => Len(SeedRoles) + 3 * k < n
<1> DEFINE x == n - Len(SeedRoles) - 1
           q == x \div 3
           m == x % 3
           q1 == (x + 1) \div 3
           m1 == (x + 1) % 3
           L == Len(SeedRoles)
           U == Len(SeedUsers)
<1>1. /\ n \in 0 .. Finished /\ n + 1 \in 0 .. Finished
      /\ L \in Nat /\ U \in Nat /\ LastStatement = L + 3 * U /\ DOMAIN SeedUsers = 1 .. U
      /\ Finished = LastStatement + 1
  BY SeedConstants DEF LastStatement
<1>2. x \in Int /\ n = L + 1 + x /\ x + 1 = (n + 1) - Len(SeedRoles) - 1
  BY <1>1
<1>3. x >= 0 => /\ q \in Nat
                /\ \/ m = 0 /\ x = 3 * q /\ m1 = 1 /\ q1 = q
                   \/ m = 1 /\ x = 3 * q + 1 /\ m1 = 2 /\ q1 = q
                   \/ m = 2 /\ x + 1 = 3 * (q + 1) /\ m1 = 0
  BY <1>2, Statements
<1>4. /\ StatementAt(n, "lookup") <=> x >= 0 /\ n <= LastStatement /\ m = 0
      /\ StatementAt(n, "user") <=> x >= 0 /\ n <= LastStatement /\ m = 1
      /\ StatementAt(n, "assign") <=> x >= 0 /\ n <= LastStatement /\ m = 2
      /\ x >= 0 /\ n <= LastStatement => 1 + q \in DOMAIN SeedUsers /\ UserAt(n) = SeedUsers[1 + q]
  BY <1>1, <1>2, SeedPlaces
<1>5. /\ StatementAt(n + 1, "user") <=> x + 1 >= 0 /\ n + 1 <= LastStatement /\ m1 = 1
      /\ StatementAt(n + 1, "assign") <=> x + 1 >= 0 /\ n + 1 <= LastStatement /\ m1 = 2
      /\ x + 1 >= 0 /\ n + 1 <= LastStatement => UserAt(n + 1) = SeedUsers[1 + q1]
  BY <1>1, <1>2, SeedPlaces
<1>6. x + 1 = 0 => m1 = 0
  OBVIOUS
<1> HIDE DEF x, q, m, q1, m1, L, U
<1>7. StatementAt(n, "lookup") => /\ StatementAt(n + 1, "user") /\ UserAt(n + 1) = UserAt(n)
                                  /\ ~StatementAt(n + 1, "assign")
  BY <1>1, <1>2, <1>3, <1>4, <1>5
<1>8. StatementAt(n, "user") => /\ StatementAt(n + 1, "assign") /\ UserAt(n + 1) = UserAt(n)
                                /\ ~StatementAt(n + 1, "user")
  BY <1>1, <1>2, <1>3, <1>4, <1>5
<1>9. n <= Len(SeedRoles) \/ StatementAt(n, "assign") =>
        ~StatementAt(n + 1, "user") /\ ~StatementAt(n + 1, "assign")
  BY <1>1, <1>2, <1>3, <1>4, <1>5, <1>6 DEF L
<1>10. ASSUME StatementAt(n, "assign")
       PROVE  /\ 1 + q \in DOMAIN SeedUsers /\ UserAt(n) = SeedUsers[1 + q]
              /\ \A k \in DOMAIN SeedUsers : L + 3 * k < n + 1 => k = 1 + q \/ L + 3 * k < n
  BY <1>1, <1>2, <1>3, <1>4, <1>10
<1>11. ~StatementAt(n, "assign") => \A k \in DOMAIN SeedUsers : L + 3 * k < n + 1 => L + 3 * k < n
  BY <1>1, <1>2, <1>3, <1>4
<1> QED
  BY <1>1, <1>7, <1>8, <1>9, <1>10, <1>11 DEF L

(* SeedFits, of any state of the seeding process.                            *)
SeedIs(s) ==
  /\ s \in [at : 0 .. Finished, role : RoleIds \cup {None}, user : UserIds \cup {None},
            quiet : BOOLEAN]
  /\ StatementAt(s.at, "user") \/ StatementAt(s.at, "assign") =>
       /\ s.role \in RoleIds
       /\ s.quiet => s.role \in RolesNamed(UserAt(s.at)[2])
  /\ StatementAt(s.at, "assign") =>
       /\ s.user \in UserIds
       /\ s.quiet => s.user \in UserOf(UserAt(s.at)[1])
  /\ s.quiet => \A k \in DOMAIN SeedUsers : Len(SeedRoles) + 3 * k < s.at => Done(k)

LEMMA SeedParts ==
  /\ SeedFits <=> SeedIs(seed)
  /\ \A s : s = seed' => (SeedFits' <=> SeedIs(s)')
  BY AtPlace DEF SeedFits, SeedIs, Done

(* What the seed has found and done stays, while only the seed writes.       *)
LEMMA SeedWrites ==
  ASSUME StaffIndInv, UNCHANGED <<links, documents, tokens, call>>,
         TablesFit', (\A u \in UserIds : UserFits(u))', EmailsUnique', NamesUnique',
         LinksFit', DocumentsFit', SeedFits'
  PROVE  StaffIndInv'
<1>1. CallsFit'
  BY Parts, CallsKept DEF Referenced
<1>2. TokensFit'
  BY Parts DEF TokensFit
<1>3. SeedFits' /\ (\A u \in UserIds : UserFits(u))'
  OBVIOUS
<1> QED
  BY <1>1, <1>2, <1>3, Parts, PTL

(* Where nothing is done yet, and no statement of a user is next.            *)
LEMMA SeedStarts ==
  ASSUME NEW s, s \in [at : 0 .. Finished, role : RoleIds \cup {None}, user : UserIds \cup {None},
                       quiet : BOOLEAN],
         s.at <= Len(SeedRoles) + 1
  PROVE  SeedIs(s)'
<1> DEFINE x == s.at - Len(SeedRoles) - 1
<1>1. s.at \in 0 .. Finished /\ x <= 0 /\ x \in Int
  BY SeedConstants
<1>2. ~StatementAt(s.at, "user") /\ ~StatementAt(s.at, "assign")
  BY <1>1, SeedPlaces
<1>3. \A k \in DOMAIN SeedUsers : ~(Len(SeedRoles) + 3 * k < s.at)
  BY <1>1, SeedConstants
<1> QED
  BY <1>2, <1>3 DEF SeedIs

LEMMA UserStatementsDiffer ==
  ASSUME NEW n
  PROVE  StatementAt(n, "lookup") \/ StatementAt(n, "user") => ~StatementAt(n, "assign")
  BY DEF StatementAt

LEMMA PlaceInList ==
  ASSUME NEW n \in 0 .. LastStatement, NEW s, StatementAt(n, s)
  PROVE  \E j \in DOMAIN SeedUsers : UserAt(n) = SeedUsers[j]
<1> DEFINE x == n - Len(SeedRoles) - 1
<1>1. n \in 0 .. Finished /\ x >= 0 /\ n <= LastStatement
  BY SeedConstants DEF StatementAt
<1> QED
  BY <1>1, SeedPlaces

(* A row of a user that the seed writes keeps the email and the roles.       *)
LEMMA DoneStays ==
  ASSUME TablesFit, UNCHANGED roles, NEW u \in UserIds, NEW row,
         users' = [users EXCEPT ![u] = row],
         users[u].email \in {None, row.email}, users[u].roles \subseteq row.roles
  PROVE  /\ \A e \in Emails : UserOf(e) \subseteq UserOf(e)'
         /\ \A n : RolesNamed(n)' = RolesNamed(n)
         /\ \A k \in DOMAIN SeedUsers : Done(k) => Done(k)'
<1>1. users'[u] = row /\ \A x \in UserIds : x # u => users'[x] = users[x]
  BY DEF TablesFit
<1>2. \A e \in Emails : UserOf(e) \subseteq UserOf(e)'
  BY <1>1, Marks DEF UserOf
<1>3. \A x \in UserIds : users[x].roles \subseteq users'[x].roles
  BY <1>1
<1>4. \A x \in UserIds : NamesOf(x) \subseteq NamesOf(x)'
  BY <1>3 DEF NamesOf
<1>5. ASSUME NEW k \in DOMAIN SeedUsers, Done(k) PROVE Done(k)'
  <2>1. SeedUsers[k][1] \in Emails
    BY SeedConstants
  <2>2. PICK x \in UserOf(SeedUsers[k][1]) : SeedUsers[k][2] \in NamesOf(x)
    BY <1>5 DEF Done
  <2>3. x \in UserIds /\ x \in UserOf(SeedUsers[k][1])' /\ SeedUsers[k][2] \in NamesOf(x)'
    BY <1>2, <1>4, <2>1, <2>2 DEF UserOf
  <2> QED
    BY <2>3 DEF Done
<1> QED
  BY <1>2, <1>5 DEF RolesNamed

LEMMA LookUpKeepsInv == ASSUME StaffIndInv, LookUpRole PROVE SeedFits' /\ UNCHANGED <<tables, tokens, call>>
<1>1. SeedIs(seed)
  BY Parts, SeedParts
<1>2. seed.at \in 0 .. LastStatement /\ StatementAt(seed.at, "lookup")
  BY <1>1, AtPlace, SeedConstants DEF LookUpRole, SeedIs, StatementAt
<1>3. PICK r \in RoleIds : /\ r \in RolesNamed(UserAt(seed.at)[2])
                            /\ seed' = [seed EXCEPT !.at = seed.at + 1, !.role = r]
  BY AtPlace DEF LookUpRole, RolesNamed
<1>4. PICK s : s = seed'
  OBVIOUS
<1>5. /\ s.at = seed.at + 1 /\ s.role = r /\ s.quiet = seed.quiet
      /\ s \in [at : 0 .. Finished, role : RoleIds \cup {None}, user : UserIds \cup {None},
                quiet : BOOLEAN]
  BY <1>1, <1>2, <1>3, <1>4, NextPlace DEF SeedIs
<1>6. /\ StatementAt(s.at, "user") /\ ~StatementAt(s.at, "assign") /\ UserAt(s.at) = UserAt(seed.at)
      /\ \A k \in DOMAIN SeedUsers :
           Len(SeedRoles) + 3 * k < s.at => Len(SeedRoles) + 3 * k < seed.at
  <2>1. ~StatementAt(seed.at, "assign")
    BY <1>2, UserStatementsDiffer
  <2> QED
    BY <1>2, <1>5, <2>1, NextPlace
<1>7. UNCHANGED <<tables, tokens, call>>
  BY DEF LookUpRole
<1>8. /\ \A n : RolesNamed(n)' = RolesNamed(n)
      /\ \A k : Done(k)' <=> Done(k)
  BY <1>7 DEF tables, RolesNamed, Done, UserOf, NamesOf
<1>9. SeedIs(s)'
  BY <1>1, <1>3, <1>5, <1>6, <1>8 DEF SeedIs
<1> QED
  BY <1>4, <1>7, <1>9, SeedParts

LEMMA UserUpserted ==
  ASSUME StaffIndInv, UpsertUser
  PROVE  \/ SeedFits' /\ UNCHANGED <<tables, tokens, call>>
         \/ StaffIndInv'
<1>1. SeedIs(seed) /\ TablesFit
  BY Parts, SeedParts
<1>2. seed.at \in 0 .. LastStatement /\ StatementAt(seed.at, "user")
  <2>1. StatementAt(seed.at, "user")
    BY AtPlace DEF UpsertUser
  <2> QED
    BY <1>1, <2>1, SeedConstants DEF SeedIs, StatementAt
<1>3. PICK s : s = seed'
  OBVIOUS
<1>0. PICK email : email = UserAt(seed.at)[1]
  OBVIOUS
<1>4. email \in Emails
  BY <1>0, <1>2, PlaceInList, SeedConstants
<1>5. ASSUME NEW u \in UserIds, seed' = [seed EXCEPT !.at = seed.at + 1, !.user = u],
             (u \in UserOf(email))', \A n : RolesNamed(n)' = RolesNamed(n),
             \A k \in DOMAIN SeedUsers : Done(k) => Done(k)'
      PROVE  SeedFits'
  <2>1. /\ s.at = seed.at + 1 /\ s.role = seed.role /\ s.user = u /\ s.quiet = seed.quiet
        /\ s \in [at : 0 .. Finished, role : RoleIds \cup {None}, user : UserIds \cup {None},
                  quiet : BOOLEAN]
    BY <1>1, <1>2, <1>3, <1>5, NextPlace DEF SeedIs
  <2>2. ~StatementAt(seed.at, "assign")
    BY <1>2, UserStatementsDiffer
  <2>3. /\ StatementAt(s.at, "assign") /\ ~StatementAt(s.at, "user")
        /\ UserAt(s.at) = UserAt(seed.at)
        /\ \A k \in DOMAIN SeedUsers :
             Len(SeedRoles) + 3 * k < s.at => Len(SeedRoles) + 3 * k < seed.at
    BY <1>2, <2>1, <2>2, NextPlace
  <2>4. SeedIs(s)'
    BY <1>0, <1>1, <1>2, <1>5, <2>1, <2>3 DEF SeedIs
  <2> QED
    BY <1>3, <2>4, SeedParts
<1>6. ASSUME NEW u \in UserOf(email), seed' = [seed EXCEPT !.at = seed.at + 1, !.user = u],
             UNCHANGED <<tables, tokens, call>>
      PROVE  SeedFits'
  <2>1. u \in UserIds /\ (u \in UserOf(email))'
    BY <1>6 DEF UserOf, tables
  <2>2. /\ \A n : RolesNamed(n)' = RolesNamed(n)
        /\ \A k : Done(k)' <=> Done(k)
    BY <1>6 DEF tables, RolesNamed, Done, UserOf, NamesOf
  <2> QED
    BY <1>5, <1>6, <2>1, <2>2
<1>7. ASSUME NEW u \in UserIds, UserOf(email) = {}, Inserts(u, email, {}),
             seed' = [seed EXCEPT !.at = seed.at + 1, !.user = u],
             UNCHANGED <<roles, links, documents, tokens, call>>
      PROVE  StaffIndInv'
  <2> DEFINE row == [email |-> email, status |-> "ACTIVE", roles |-> {}]
  <2>1. /\ users[u].email = None /\ users[u].roles = {} /\ users' = [users EXCEPT ![u] = row]
    BY <1>7 DEF Inserts, NoUser
  <2>2. /\ row \in [email : Emails \cup {None}, status : Statuses, roles : SUBSET RoleIds]
        /\ row.email = email /\ row.roles = {} /\ Free(email, u)
    BY <1>4, <1>7, Marks DEF Free
  <2> HIDE DEF row
  <2>3. /\ TablesFit' /\ (\A x \in UserIds : UserFits(x))' /\ EmailsUnique' /\ NamesUnique'
        /\ LinksFit' /\ DocumentsFit'
    BY <1>7, <2>1, <2>2, UserWritten
  <2>4. /\ \A n : RolesNamed(n)' = RolesNamed(n)
        /\ \A k \in DOMAIN SeedUsers : Done(k) => Done(k)'
    BY <1>1, <1>7, <2>1, <2>2, DoneStays
  <2>5. (u \in UserOf(email))'
    BY <1>1, <2>1, <2>2 DEF UserOf, TablesFit
  <2>6. SeedFits'
    BY <1>5, <1>7, <2>4, <2>5
  <2> QED
    BY <1>7, <2>3, <2>6, SeedWrites
<1> QED
  BY <1>0, <1>6, <1>7, AtPlace DEF UpsertUser, tables

LEMMA AssignmentKeepsInv == ASSUME StaffIndInv, UpsertAssignment PROVE StaffIndInv'
<1>1. SeedIs(seed) /\ TablesFit
  BY Parts, SeedParts
<1>2. seed.at \in 0 .. LastStatement /\ StatementAt(seed.at, "assign")
  <2>1. StatementAt(seed.at, "assign")
    BY AtPlace DEF UpsertAssignment
  <2> QED
    BY <1>1, <2>1, SeedConstants DEF SeedIs, StatementAt
<1>3. PICK u, r : u = seed.user /\ r = seed.role
  OBVIOUS
<1>4. PICK row : row = [users[u] EXCEPT !.roles = users[u].roles \cup {r}]
  OBVIOUS
<1>5. /\ u \in UserIds /\ r \in RoleIds /\ Present(u) /\ RoleExists(r)
      /\ users' = [users EXCEPT ![u] = row]
      /\ UNCHANGED <<roles, links, documents, tokens, call>>
  BY <1>1, <1>2, <1>3, <1>4 DEF UpsertAssignment, SeedIs
<1>6. users[u] \in [email : Emails \cup {None}, status : Statuses, roles : SUBSET RoleIds]
  BY <1>1, <1>5 DEF TablesFit, Present
<1>7. /\ row \in [email : Emails \cup {None}, status : Statuses, roles : SUBSET RoleIds]
      /\ row.email = users[u].email /\ row.roles = users[u].roles \cup {r}
  BY <1>4, <1>5, <1>6
<1>8. \A x \in row.roles : RoleExists(x)
  BY <1>5, <1>7, Parts DEF UserFits
<1>9. row.email = None \/ Free(row.email, u)
  BY <1>5, <1>6, <1>7, Parts DEF EmailsUnique, UserOf, Free
<1>10. /\ TablesFit' /\ (\A x \in UserIds : UserFits(x))' /\ EmailsUnique' /\ NamesUnique'
       /\ LinksFit' /\ DocumentsFit'
  BY <1>5, <1>7, <1>8, <1>9, UserWritten
<1>11. /\ \A e \in Emails : UserOf(e) \subseteq UserOf(e)'
       /\ \A n : RolesNamed(n)' = RolesNamed(n)
       /\ \A k \in DOMAIN SeedUsers : Done(k) => Done(k)'
  BY <1>1, <1>5, <1>7, DoneStays
<1>12. PICK s : s = seed'
  OBVIOUS
<1>13. s = [at |-> seed.at + 1, role |-> None, user |-> None, quiet |-> seed.quiet]
  BY <1>12 DEF UpsertAssignment, NoSeed
<1>14. PICK j \in DOMAIN SeedUsers :
         /\ UserAt(seed.at) = SeedUsers[j]
         /\ \A k \in DOMAIN SeedUsers :
              Len(SeedRoles) + 3 * k < seed.at + 1 => k = j \/ Len(SeedRoles) + 3 * k < seed.at
  BY <1>2, NextPlace
<1>15. seed.quiet => Done(j)'
  <2>1. SUFFICES ASSUME seed.quiet PROVE Done(j)'
    OBVIOUS
  <2>2. u \in UserOf(SeedUsers[j][1]) /\ r \in RolesNamed(SeedUsers[j][2])
    BY <1>1, <1>2, <1>3, <1>14, <2>1 DEF SeedIs
  <2>3. (u \in UserOf(SeedUsers[j][1]))'
    BY <1>11, <1>14, <2>2, SeedConstants
  <2>4. r \in users'[u].roles /\ roles'[r] = SeedUsers[j][2]
    BY <1>1, <1>5, <1>7, <2>2 DEF TablesFit, RolesNamed
  <2> QED
    BY <2>3, <2>4 DEF Done, NamesOf
<1>16. SeedIs(s)'
  <2>1. ~StatementAt(s.at, "user") /\ ~StatementAt(s.at, "assign") /\ s.at \in 0 .. Finished
    BY <1>2, <1>13, NextPlace
  <2>2. s \in [at : 0 .. Finished, role : RoleIds \cup {None}, user : UserIds \cup {None},
              quiet : BOOLEAN]
    BY <1>1, <1>13, <2>1 DEF SeedIs
  <2>3. s.quiet => \A k \in DOMAIN SeedUsers : Len(SeedRoles) + 3 * k < s.at => Done(k)'
    BY <1>1, <1>11, <1>13, <1>14, <1>15 DEF SeedIs
  <2> QED
    BY <2>1, <2>2, <2>3 DEF SeedIs
<1>17. SeedFits'
  BY <1>12, <1>16, SeedParts
<1> QED
  BY <1>5, <1>10, <1>17, SeedWrites

LEMMA SeedingKeepsInv == ASSUME StaffIndInv, Seeding PROVE StaffIndInv'
<1>1. SeedIs(seed) /\ TablesFit
  BY Parts, SeedParts
<1>2. PICK s : s = seed'
  OBVIOUS
<1>3. ASSUME UNCHANGED <<tables, tokens, call>>, SeedIs(s)' PROVE StaffIndInv'
  <2>1. /\ TablesFit' /\ (\A x \in UserIds : UserFits(x))' /\ EmailsUnique' /\ NamesUnique'
        /\ LinksFit' /\ DocumentsFit'
    BY <1>3, Parts, UsersSame DEF TablesFit, LinksFit, DocumentsFit, Present, tables
  <2> QED
    BY <1>2, <1>3, <2>1, SeedParts, SeedWrites DEF tables
<1>4. seed.at \in 0 .. Finished /\ seed.at \in Nat
  BY <1>1, SeedConstants DEF SeedIs
<1>5. CASE StartSeed
  <2>1. s = [at |-> 1, role |-> None, user |-> None, quiet |-> TRUE]
    BY <1>2, <1>5 DEF StartSeed, NoSeed
  <2>2. SeedIs(s)'
    <3>1. /\ 1 \in 0 .. Finished /\ 1 <= Len(SeedRoles) + 1
      BY SeedConstants
    <3>2. s \in [at : 0 .. Finished, role : RoleIds \cup {None}, user : UserIds \cup {None},
                quiet : BOOLEAN]
      BY <2>1, <3>1
    <3> QED
      BY <2>1, <3>1, <3>2, SeedStarts
  <2> QED
    BY <1>3, <1>5, <2>2 DEF StartSeed
<1>6. CASE SeedDies
  <2>1. s = [at |-> 0, role |-> None, user |-> None, quiet |-> TRUE]
    BY <1>2, <1>6 DEF SeedDies, NoSeed
  <2>2. SeedIs(s)'
    <3>1. /\ 0 \in 0 .. Finished /\ 0 <= Len(SeedRoles) + 1
      BY SeedConstants
    <3>2. s \in [at : 0 .. Finished, role : RoleIds \cup {None}, user : UserIds \cup {None},
                quiet : BOOLEAN]
      BY <2>1, <3>1
    <3> QED
      BY <2>1, <3>1, <3>2, SeedStarts
  <2> QED
    BY <1>3, <1>6, <2>2 DEF SeedDies
<1>7. CASE UpsertRole
  <2>1. seed.at \in DOMAIN SeedRoles /\ seed'.at = seed.at + 1
        /\ SeedRoles[seed.at] \in Names
        /\ UNCHANGED <<users, links, documents, tokens, call>>
    BY <1>1, <1>7, SeedConstants DEF UpsertRole, SeedIs
  <2>2. SeedIs(s)'
    <3>1. s \in [at : 0 .. Finished, role : RoleIds \cup {None}, user : UserIds \cup {None},
                quiet : BOOLEAN]
      <4>1. seed.at + 1 \in 0 .. Finished
        BY <2>1, SeedConstants DEF LastStatement
      <4> QED
        BY <1>1, <1>2, <1>7, <4>1 DEF UpsertRole, SeedIs
    <3>2. s.at <= Len(SeedRoles) + 1
      BY <1>2, <2>1, SeedConstants
    <3> QED
      BY <3>1, <3>2, SeedStarts
  <2>3. CASE UNCHANGED roles
    BY <1>3, <2>1, <2>2, <2>3 DEF tables
  <2>4. ASSUME NEW r \in RoleIds, RolesNamed(SeedRoles[seed.at]) = {},
               roles' = [roles EXCEPT ![r] = SeedRoles[seed.at]]
        PROVE  StaffIndInv'
    <3> DEFINE n == SeedRoles[seed.at]
    <3>1. n \in Names /\ RolesNamed(n) \subseteq {r} /\ roles' = [roles EXCEPT ![r] = n]
      BY <2>1, <2>4
    <3> HIDE DEF n
    <3>2. /\ TablesFit' /\ (\A u \in UserIds : UserFits(u))' /\ EmailsUnique' /\ NamesUnique'
          /\ LinksFit' /\ DocumentsFit'
      BY <2>1, <3>1, RoleWritten
    <3>3. SeedFits'
      BY <1>2, <2>2, SeedParts
    <3> QED
      BY <2>1, <3>2, <3>3, SeedWrites
  <2> QED
    BY <1>7, <2>3, <2>4 DEF UpsertRole
<1>8. CASE LookUpRole
  <2>1. SeedFits' /\ UNCHANGED <<tables, tokens, call>>
    BY <1>8, LookUpKeepsInv
  <2> QED
    BY <1>2, <1>3, <2>1, SeedParts
<1>9. CASE UpsertUser
  <2>1. (SeedFits' /\ UNCHANGED <<tables, tokens, call>>) \/ StaffIndInv'
    BY <1>9, UserUpserted
  <2> QED
    BY <1>2, <1>3, <2>1, SeedParts
<1>10. CASE UpsertAssignment
  BY <1>10, AssignmentKeepsInv
<1> QED
  BY <1>5, <1>6, <1>7, <1>8, <1>9, <1>10 DEF Seeding
-----------------------------------------------------------------------------
LEMMA StepKeepsInv == ASSUME StaffIndInv, [Next]_vars PROVE StaffIndInv'
<1>1. ASSUME NEW w \in Workers, Authenticating(w) PROVE StaffIndInv'
  BY <1>1, MovesKeepInv, LinkWritesKeepInv DEF Authenticating
<1>2. ASSUME NEW w \in Workers, ManagingUsers(w) PROVE StaffIndInv'
  BY <1>2, MovesKeepInv, UserWritesKeepInv, DeleteKeepsInv DEF ManagingUsers
<1>3. ASSUME NEW w \in Workers, ManagingRoles(w) PROVE StaffIndInv'
  BY <1>3, MovesKeepInv, RoleWritesKeepInv DEF ManagingRoles
<1>4. ASSUME NEW w \in Workers, Working(w) PROVE StaffIndInv'
  BY <1>4, DocumentWritesKeepInv DEF Working
<1>5. ASSUME NEW w \in Workers, Refused(w) \/ Abort(w) PROVE StaffIndInv'
  BY <1>5, MovesKeepInv
<1>6. ASSUME NEW t \in tokens, Expire(t) PROVE StaffIndInv'
  <2>1. TokensFit'
    BY <1>6, Parts DEF Expire, TokensFit
  <2> QED
    BY <1>6, <2>1, CallMoves DEF Expire
<1>7. CASE Seeding
  BY <1>7, SeedingKeepsInv
<1>8. CASE UNCHANGED vars
  BY <1>8, CallMoves, Parts DEF vars, TokensFit
<1> QED
  BY <1>1, <1>2, <1>3, <1>4, <1>5, <1>6, <1>7, <1>8 DEF Next

LEMMA IndInvHolds == Spec => []StaffIndInv
<1>1. StaffIndInv /\ [Next]_vars => StaffIndInv'
  BY StepKeepsInv
<1> QED
  BY InitInd, <1>1, PTL DEF Spec

(* However many requests overlap, and whenever the seed runs or dies: no two  *)
(* users have one email, no two roles one name, and what an assignment, a     *)
(* link or a document refers to is there (users.service.ts, roles.service.ts, *)
(* auth.service.ts, schema.prisma).                                          *)
THEOREM StaffInvHolds == Spec => []StaffInv
<1>1. StaffIndInv => StaffInv
  BY DEF StaffIndInv
<1> QED
  BY <1>1, IndInvHolds, PTL

(* A finished run of the seed that no request came in between leaves each of *)
(* its users with the role, whatever the runs before it, killed anywhere, and *)
(* the requests before it have left behind (seed.ts).                        *)
THEOREM SeedConverged == Spec => []SeedConverges
<1>1. StaffIndInv => SeedConverges
  <2> SUFFICES ASSUME StaffIndInv, seed.at = Finished, seed.quiet, NEW k \in DOMAIN SeedUsers
               PROVE  Done(k)
    BY DEF SeedConverges, Done
  <2>1. Len(SeedRoles) + 3 * k < Finished
    BY SeedConstants DEF LastStatement
  <2> QED
    BY <2>1, Parts, SeedParts DEF SeedIs
<1> QED
  BY <1>1, IndInvHolds, PTL
-----------------------------------------------------------------------------
(* One request at a time, and the seed between them.                         *)
RolesKept ==
  \A u \in UserIds : users[u].roles # {} /\ users'[u].status # "GONE" => users'[u].roles # {}

RulesKept ==
  users' # users /\ seed'.at = seed.at
    => \E w \in Workers : call'[w] # call[w] /\ ChangesAsAllowed(call[w])

Kept == ServedAlone' /\ RolesKept /\ RulesKept

LEMMA CurrentStays ==
  ASSUME UNCHANGED <<users, roles>>, NEW c, CallIsCurrent(c)
  PROVE  CallIsCurrent(c)'
  BY DEF CallIsCurrent, EverThere, HoldsSuperAdmin, MayEdit, Holders, IsSuperAdmin

LEMMA IdleIsCurrent == CallIsCurrent(NoCall) /\ CallIsCurrent(NoCall)'
  BY DEF CallIsCurrent, NoCall

(* The only request goes on, or is answered.                                 *)
LEMMA OnlyCall ==
  ASSUME StaffIndInv, OneAtATime, NEW w \in Workers, NEW c, Go(w, c), CallIsCurrent(c)',
         \A t \in tokens' : EverThere(t.sub)'
  PROVE  ServedAlone'
<1>1. \A x \in Workers : call'[x] = c
  BY Parts DEF OneAtATime, Go, CallsFit
<1> QED
  BY <1>1 DEF ServedAlone

(* No request goes on, and nothing it relies on is written.                  *)
LEMMA CallsStay ==
  ASSUME ServedAlone, UNCHANGED <<users, roles, call>>, \A t \in tokens' : EverThere(t.sub)
  PROVE  Kept
<1>1. \A t \in tokens' : EverThere(t.sub)'
  BY DEF EverThere
<1>2. ASSUME NEW w \in Workers PROVE CallIsCurrent(call[w])'
  <2>1. PICK c : c = call[w]
    OBVIOUS
  <2>2. CallIsCurrent(c)'
    BY <2>1, CurrentStays DEF ServedAlone
  <2> QED
    BY <2>1, <2>2
<1> QED
  BY <1>1, <1>2 DEF Kept, ServedAlone, RolesKept, RulesKept

(* A request moves on and writes nothing of users and roles.                 *)
LEMMA MovesOn ==
  ASSUME StaffIndInv, OneAtATime, ServedAlone, UNCHANGED <<users, roles, tokens>>,
         NEW w \in Workers, NEW c, CallIsCurrent(c), Go(w, c)
  PROVE  Kept
<1>1. \A t \in tokens' : EverThere(t.sub)'
  BY DEF ServedAlone, EverThere
<1>2. ServedAlone'
  BY <1>1, CurrentStays, OnlyCall
<1> QED
  BY <1>2 DEF Kept, RolesKept, RulesKept

LEMMA MovesKept ==
  ASSUME StaffIndInv, OneAtATime, ServedAlone, NEW w \in Workers,
         \/ \E u \in UserIds : Login(w, u)
         \/ \E u \in UserIds, l \in LinkIds : ForgotPassword(w, u, l)
         \/ \E l \in LinkIds : StartResetPassword(w, l)
         \/ ResetPassword(w)
         \/ \E t \in tokens, ids \in SUBSET RoleIds, email \in Emails : StartCreateUser(w, t, ids, email)
         \/ \E t \in tokens, ids \in SUBSET RoleIds, u \in UserIds, status \in Statuses \cup {None},
               email \in Emails \cup {None} : StartUpdateUser(w, t, u, ids, status, email)
         \/ \E t \in tokens, u \in UserIds : StartDeleteUser(w, t, u)
         \/ MayGrant(w) \/ DeleteUserRefused(w)
         \/ \E t \in tokens, r \in RoleIds : StartRemoveRole(w, t, r)
         \/ \E t \in tokens, d \in DocumentIds : FileDocument(w, t, d) \/ ApproveDocument(w, t, d)
         \/ Refused(w) \/ Abort(w)
  PROVE  Kept
<1> USE DEF Undisturbed, tables
<1>1. CallIsCurrent(call[w]) /\ CallFits(call[w])
  BY Parts DEF ServedAlone, CallsFit
<1>2. ASSUME NEW c, CallIsCurrent(c), Go(w, c), UNCHANGED <<users, roles, tokens>> PROVE Kept
  BY <1>2, MovesOn
<1>3. ASSUME UNCHANGED <<users, roles, call>>, \A t \in tokens' : EverThere(t.sub) PROVE Kept
  BY <1>3, CallsStay
<1>4. ASSUME NEW u \in UserIds, Login(w, u) PROVE Kept
  <2>1. EverThere(u)
    BY <1>4 DEF Login, EverThere
  <2>2. \A t \in tokens' : EverThere(t.sub)
    BY <1>4, <2>1 DEF Login, ServedAlone
  <2> QED
    BY <1>3, <1>4, <2>2 DEF Login
<1>6. ASSUME \E u \in UserIds, l \in LinkIds : ForgotPassword(w, u, l) PROVE Kept
  BY <1>3, <1>6 DEF ForgotPassword, ServedAlone
<1>7. ASSUME \E l \in LinkIds : StartResetPassword(w, l) PROVE Kept
  BY <1>2, <1>7 DEF StartResetPassword, CallIsCurrent
<1>8. ASSUME ResetPassword(w) \/ Refused(w) \/ Abort(w) PROVE Kept
  BY <1>2, <1>8, IdleIsCurrent DEF ResetPassword, Refused, Abort, End
<1>9. ASSUME NEW t \in tokens, NEW ids \in SUBSET RoleIds, NEW email \in Emails,
             StartCreateUser(w, t, ids, email)
      PROVE  Kept
  BY <1>2, <1>9 DEF StartCreateUser, CallIsCurrent, ServedAlone
<1>10. ASSUME NEW t \in tokens, NEW ids \in SUBSET RoleIds, NEW u \in UserIds,
              NEW status \in Statuses \cup {None}, NEW email \in Emails \cup {None},
              StartUpdateUser(w, t, u, ids, status, email)
       PROVE  Kept
  <2>1. ids = {} => ~HoldsSuperAdmin(ids)
    BY DEF HoldsSuperAdmin
  <2> QED
    BY <1>2, <1>10, <2>1 DEF StartUpdateUser, CallIsCurrent
<1>11. ASSUME NEW t \in tokens, NEW u \in UserIds, StartDeleteUser(w, t, u) PROVE Kept
  BY <1>2, <1>11 DEF StartDeleteUser, CallIsCurrent
<1>12. ASSUME MayGrant(w) PROVE Kept
  <2>1. ~HoldsSuperAdmin(call[w].ids) => CallIsCurrent([call[w] EXCEPT !.step = "update"])
    BY <1>1, <1>12 DEF CallIsCurrent, CallFits, MayGrant, At, NoCall
  <2> QED
    BY <1>2, <1>12, <2>1, IdleIsCurrent DEF MayGrant, End
<1>13. ASSUME DeleteUserRefused(w) PROVE Kept
  <2>1. CallIsCurrent([call[w] EXCEPT !.step = "disable"])
    BY <1>1, <1>13 DEF CallIsCurrent, CallFits, DeleteUserRefused, At, NoCall
  <2> QED
    BY <1>2, <1>13, <2>1 DEF DeleteUserRefused
<1>14. ASSUME \E t \in tokens, r \in RoleIds : StartRemoveRole(w, t, r) PROVE Kept
  BY <1>2, <1>14 DEF StartRemoveRole, MayRemove, CallIsCurrent
<1>15. ASSUME NEW t \in tokens, NEW d \in DocumentIds, FileDocument(w, t, d) \/ ApproveDocument(w, t, d)
       PROVE  Kept
  BY <1>3, <1>15 DEF FileDocument, ApproveDocument, ServedAlone
<1> QED
  BY <1>4, <1>6, <1>7, <1>8, <1>9, <1>10, <1>11, <1>12, <1>13, <1>14, <1>15

(* A request that writes a user or a role ends: nothing is left to rely on.  *)
LEMMA WriteKept ==
  ASSUME StaffIndInv, OneAtATime, ServedAlone, NEW w \in Workers, End(w), ~Idle(w), UNCHANGED tokens,
         \A u \in UserIds : EverThere(u) => EverThere(u)',
         RolesKept, ChangesAsAllowed(call[w])
  PROVE  Kept
<1>1. \A t \in tokens : t.sub \in UserIds
  BY Parts DEF TokensFit, Tokens
<1>2. ServedAlone'
  BY <1>1, IdleIsCurrent, OnlyCall DEF End, ServedAlone
<1>3. call'[w] # call[w]
  BY Parts DEF End, Go, Idle, CallsFit
<1> QED
  BY <1>2, <1>3 DEF Kept, RulesKept

LEMMA CreateKept ==
  ASSUME StaffIndInv, OneAtATime, ServedAlone, NEW w \in Workers, NEW u \in UserIds, CreateUser(w, u)
  PROVE  Kept
<1> DEFINE c == call[w]
<1>1. c.step = "create" /\ ~Idle(w) /\ End(w) /\ UNCHANGED <<roles, tokens>>
  BY DEF CreateUser, At, Idle, NoCall
<1>2. c.ids # {} /\ EverThere(c.actor.sub) /\ (IsSuperAdmin(c.actor) \/ ~HoldsSuperAdmin(c.ids))
  BY <1>1 DEF ServedAlone, CallIsCurrent
<1>3. /\ users[u] = [email |-> None, status |-> "NEVER", roles |-> {}]
      /\ users'[u].status = "ACTIVE" /\ users'[u].roles = c.ids
      /\ \A x \in UserIds : x # u => users'[x] = users[x]
  BY Parts DEF CreateUser, Inserts, NoUser, TablesFit
<1> HIDE DEF c
<1>4. \A x \in UserIds : EverThere(x) => EverThere(x)'
  BY <1>3 DEF EverThere
<1>5. RolesKept
  BY <1>3 DEF RolesKept
<1>6. ChangesAsAllowed(c)
  BY <1>2, <1>3 DEF ChangesAsAllowed, Changed, HoldsSuperAdmin, EverThere
<1> QED
  BY <1>1, <1>4, <1>5, <1>6, WriteKept DEF c

LEMMA UpdateKept ==
  ASSUME StaffIndInv, OneAtATime, ServedAlone, NEW w \in Workers, UpdateUser(w)
  PROVE  Kept
<1> DEFINE c == call[w]
           u == c.user
<1>1. c.step = "update" /\ ~Idle(w) /\ End(w) /\ UNCHANGED <<roles, tokens>>
  BY DEF UpdateUser, At, Idle, NoCall
<1>2. u \in UserIds /\ c.status \in Statuses \cup {None}
  BY <1>1, Parts DEF CallsFit, CallFits, NoCall
<1>3. MayEdit(c.actor, u, c.ids, c.status) /\ (IsSuperAdmin(c.actor) \/ ~HoldsSuperAdmin(c.ids))
  BY <1>1 DEF ServedAlone, CallIsCurrent
<1>4. /\ Present(u)
      /\ users'[u].roles = IF c.ids = {} THEN users[u].roles ELSE c.ids
      /\ users'[u].status = IF c.status = None THEN users[u].status ELSE c.status
      /\ \A x \in UserIds : x # u => users'[x] = users[x]
  BY <1>1, <1>2, Parts DEF UpdateUser, Accepted, TablesFit
<1> HIDE DEF c, u
<1>5. \A x \in UserIds : EverThere(x) => EverThere(x)'
  BY <1>2, <1>4, Marks DEF EverThere, Present, Absent
<1>6. RolesKept
  BY <1>4 DEF RolesKept
<1>7. ChangesAsAllowed(c)
  BY <1>2, <1>3, <1>4 DEF ChangesAsAllowed, Changed, MayEdit
<1> QED
  BY <1>1, <1>5, <1>6, <1>7, WriteKept DEF c

LEMMA DeleteKept ==
  ASSUME StaffIndInv, OneAtATime, ServedAlone, NEW w \in Workers, DeleteUser(w) \/ DisableUser(w)
  PROVE  Kept
<1> DEFINE c == call[w]
           u == c.user
<1>1. c.step \in {"delete", "disable"} /\ ~Idle(w) /\ End(w) /\ UNCHANGED <<roles, tokens>>
  BY DEF DeleteUser, DisableUser, At, Idle, NoCall
<1>2. u \in UserIds
  BY <1>1, Parts DEF CallsFit, CallFits, NoCall
<1>3. u # c.actor.sub /\ (HoldsSuperAdmin(users[u].roles) => IsSuperAdmin(c.actor))
  BY <1>1 DEF ServedAlone, CallIsCurrent
<1>4. /\ \/ users'[u].status = "GONE" /\ users'[u].roles = {}
         \/ users'[u].status = "DISABLED" /\ users'[u].roles = users[u].roles
      /\ \A x \in UserIds : x # u => users'[x] = users[x]
  BY <1>2, Parts DEF DeleteUser, DisableUser, NoUser, TablesFit
<1> HIDE DEF c, u
<1>5. \A x \in UserIds : EverThere(x) => EverThere(x)'
  BY <1>4 DEF EverThere
<1>6. RolesKept
  BY <1>4 DEF RolesKept
<1>7. ChangesAsAllowed(c)
  BY <1>3, <1>4 DEF ChangesAsAllowed, Changed, HoldsSuperAdmin
<1> QED
  BY <1>1, <1>5, <1>6, <1>7, WriteKept DEF c

LEMMA RolesWritesKept ==
  ASSUME StaffIndInv, OneAtATime, ServedAlone, NEW w \in Workers,
         \/ \E t \in tokens, r \in RoleIds, n \in Names : CreateRole(w, t, r, n) \/ RenameRole(w, t, r, n)
         \/ RemoveRole(w)
  PROVE  Kept
<1>1. ASSUME NEW t \in tokens, NEW r \in RoleIds, NEW n \in Names,
             CreateRole(w, t, r, n) \/ RenameRole(w, t, r, n)
      PROVE  Kept
  <2>1. Idle(w) /\ UNCHANGED <<users, tokens, call>>
    BY <1>1 DEF CreateRole, RenameRole
  <2>2. \A x \in Workers : call'[x] = NoCall
    BY <2>1 DEF Idle, OneAtATime
  <2>3. ServedAlone'
    BY <2>1, <2>2, IdleIsCurrent DEF ServedAlone, EverThere
  <2> QED
    BY <2>1, <2>3 DEF Kept, RolesKept, RulesKept
<1>2. ASSUME RemoveRole(w) PROVE Kept
  <2> DEFINE r == call[w].role
  <2>1. call[w].step = "remove" /\ ~Idle(w) /\ End(w) /\ UNCHANGED tokens
    BY <1>2 DEF RemoveRole, At, Idle, NoCall
  <2>2. Holders(r) = {} /\ IsSuperAdmin(call[w].actor)
    BY <2>1 DEF ServedAlone, CallIsCurrent
  <2>3. \A u \in UserIds : /\ users'[u].status = users[u].status
                           /\ users'[u].roles = users[u].roles \ {r}
    BY <1>2, Parts DEF RemoveRole, TablesFit
  <2>4. RolesKept
    BY <2>2, <2>3 DEF RolesKept, Holders
  <2>5. ChangesAsAllowed(call[w])
    BY <2>2 DEF ChangesAsAllowed
  <2>6. \A u \in UserIds : EverThere(u) => EverThere(u)'
    BY <2>3 DEF EverThere
  <2> QED
    BY <2>1, <2>4, <2>5, <2>6, WriteKept
<1> QED
  BY <1>1, <1>2

LEMMA SeedingKept ==
  ASSUME StaffIndInv, OneAtATime, ServedAlone, SeedBetweenRequests, Seeding
  PROVE  Kept
<1>1. CASE StartSeed \/ LookUpRole \/ SeedDies
  BY <1>1, CallsStay DEF ServedAlone, StartSeed, LookUpRole, SeedDies, tables
<1>2. CASE UpsertRole \/ UpsertUser \/ UpsertAssignment
  <2>1. seed'.at # seed.at /\ UNCHANGED <<tokens, call>>
    <3>1. seed \in [at : 0 .. Finished, role : RoleIds \cup {None}, user : UserIds \cup {None},
                    quiet : BOOLEAN]
      BY Parts DEF SeedFits
    <3>2. seed.at + 1 # seed.at
      BY <3>1, SeedConstants
    <3> QED
      BY <1>2, <3>1, <3>2 DEF UpsertRole, UpsertUser, UpsertAssignment, NoSeed
  <2>2. \A w \in Workers : call'[w] = NoCall
    BY <2>1 DEF SeedBetweenRequests, Idle
  <2>3. \A u \in UserIds : /\ users[u].roles \subseteq users'[u].roles
                           /\ EverThere(u) => EverThere(u)'
    <3>1. CASE UpsertRole
      BY <3>1 DEF UpsertRole, EverThere
    <3>2. CASE UpsertUser
      <4> DEFINE Same(u) == users'[u] = users[u]
                 New(u)  == users[u] = NoUser /\ users'[u].status = "ACTIVE"
      <4>1. ASSUME NEW u \in UserIds, Inserts(u, SeedUser[1], {})
            PROVE  \A x \in UserIds : Same(x) \/ New(x)
        BY <4>1, Parts DEF Inserts, TablesFit
      <4>2. \A x \in UserIds : Same(x) \/ New(x)
        BY <3>2, <4>1 DEF UpsertUser
      <4> QED
        BY <4>2 DEF EverThere, NoUser
    <3>3. CASE UpsertAssignment
      BY <3>3, Parts DEF UpsertAssignment, TablesFit, EverThere
    <3> QED
      BY <1>2, <3>1, <3>2, <3>3
  <2>4. \A t \in tokens : t.sub \in UserIds
    BY Parts DEF TokensFit, Tokens
  <2>5. ServedAlone'
    BY <2>1, <2>2, <2>3, <2>4, IdleIsCurrent DEF ServedAlone
  <2> QED
    BY <2>1, <2>3, <2>5 DEF Kept, RolesKept, RulesKept
<1> QED
  BY <1>1, <1>2 DEF Seeding

LEMMA StepKept ==
  ASSUME StaffIndInv, OneAtATime, ServedAlone, SeedBetweenRequests, [Next]_vars
  PROVE  Kept
<1>1. ASSUME NEW w \in Workers, Authenticating(w) PROVE Kept
  BY <1>1, MovesKept DEF Authenticating
<1>2. ASSUME NEW w \in Workers, ManagingUsers(w) PROVE Kept
  BY <1>2, MovesKept, CreateKept, UpdateKept, DeleteKept DEF ManagingUsers
<1>3. ASSUME NEW w \in Workers, ManagingRoles(w) PROVE Kept
  BY <1>3, MovesKept, RolesWritesKept DEF ManagingRoles
<1>4. ASSUME NEW w \in Workers, Working(w) \/ Refused(w) \/ Abort(w) PROVE Kept
  BY <1>4, MovesKept DEF Working
<1>5. ASSUME NEW t \in tokens, Expire(t) PROVE Kept
  BY <1>5, CallsStay DEF Expire, ServedAlone, tables
<1>6. CASE Seeding
  BY <1>6, SeedingKept
<1>7. CASE UNCHANGED vars
  BY <1>7, CallsStay DEF vars, tables, ServedAlone
<1> QED
  BY <1>1, <1>2, <1>3, <1>4, <1>5, <1>6, <1>7 DEF Next

LEMMA InitAlone == Init => ServedAlone
  BY IdleIsCurrent DEF Init, ServedAlone

LEMMA AloneHolds == Spec /\ OneAtATime /\ [][SeedBetweenRequests]_vars => []ServedAlone
<1>1. OneAtATime /\ StaffIndInv /\ ServedAlone /\ [Next]_vars /\ [SeedBetweenRequests]_vars
        => ServedAlone' /\ OneAtATime'
  <2>1. UNCHANGED vars => SeedBetweenRequests
    BY DEF vars, SeedBetweenRequests
  <2> QED
    BY <2>1, StepKept DEF Kept, OneAtATime
<1> QED
  BY <1>1, InitAlone, IndInvHolds, PTL DEF Spec

(* A staff user who is not deleted is never left without a role: an edit     *)
(* replaces roles by at least one, and a role is removed only while nobody   *)
(* holds it (users.service.ts, roles.service.ts).  Requests that overlap     *)
(* break it: the holders are counted in a statement before the deletion.     *)
THEOREM LastRoleStays == Spec /\ OneAtATime /\ [][SeedBetweenRequests]_vars => HoldersKeepARole
<1>1. OneAtATime /\ StaffIndInv /\ ServedAlone /\ [Next]_vars /\ [SeedBetweenRequests]_vars
        => RolesKept /\ OneAtATime'
  <2>1. UNCHANGED vars => SeedBetweenRequests
    BY DEF vars, SeedBetweenRequests
  <2> QED
    BY <2>1, StepKept DEF Kept, OneAtATime
<1>2. Spec /\ OneAtATime /\ [][SeedBetweenRequests]_vars => [][RolesKept]_vars
  BY <1>1, AloneHolds, IndInvHolds, PTL DEF Spec
<1> QED
  BY <1>2 DEF HoldersKeepARole, RolesKept

(* Only a Super Admin makes or changes a Super Admin or reactivates a user,  *)
(* and nobody else changes the own roles, whatever claims are in use: the    *)
(* handler looks at the rows before it writes (users.service.ts).            *)
THEOREM RulesAreKept == Spec /\ OneAtATime /\ [][SeedBetweenRequests]_vars => SuperAdminRulesKept
<1>1. OneAtATime /\ StaffIndInv /\ ServedAlone /\ [Next]_vars /\ [SeedBetweenRequests]_vars
        => RulesKept /\ OneAtATime'
  <2>1. UNCHANGED vars => SeedBetweenRequests
    BY DEF vars, SeedBetweenRequests
  <2> QED
    BY <2>1, StepKept DEF Kept, OneAtATime
<1>2. Spec /\ OneAtATime /\ [][SeedBetweenRequests]_vars => [][RulesKept]_vars
  BY <1>1, AloneHolds, IndInvHolds, PTL DEF Spec
<1> QED
  BY <1>2 DEF SuperAdminRulesKept, RulesKept
=============================================================================
