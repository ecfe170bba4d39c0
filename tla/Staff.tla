------------------------------- MODULE Staff -------------------------------
(***************************************************************************)
(* Staff identities and User Categories: UsersService, RolesService, the   *)
(* logins and reset links of AuthService, and prisma/seed.ts, which is run *)
(* again on an installation that is in use.  A request carries the claims  *)
(* of a token, signed when its holder logged in and never looked up again. *)
(***************************************************************************)
EXTENDS Integers, Sequences, FiniteSets

(* What a column of a row says that is not there, any more or yet: no name.  *)
Absent == {"NEVER", "GONE"}

CONSTANTS Workers,
          UserIds, RoleIds, LinkIds, DocumentIds,  \* bounds on the rows
          Emails, Names,
          Statuses,      \* those of user_status that are used
          SeedRoles,     \* ROLES, in the order they are seeded
          SeedUsers,     \* the calls of seedUserWithRole, <<email, role>>
          MaxTokens,     \* a bound on the tokens that have not expired
          None

ASSUME StaffAssumption ==
  /\ SeedRoles \in Seq(Names)
  /\ SeedUsers \in Seq(Emails \X {SeedRoles[k] : k \in DOMAIN SeedRoles})
  /\ {"SUPER_ADMIN", "ADMIN"} \subseteq Names
  /\ MaxTokens \in Nat
  /\ {"ACTIVE", "DISABLED"} \subseteq Statuses
  /\ Statuses \subseteq {"ACTIVE", "SUSPENDED", "DISABLED"}
  /\ None \notin UserIds \cup RoleIds \cup LinkIds \cup Emails \cup Names \cup Statuses
  /\ Names \cap Absent = {}

VARIABLES users, roles, links, documents,  \* the tables
          tokens,                          \* JWTs that have not expired
          call,                            \* what each worker's handler will do next
          seed                             \* the seeding process

tables == <<users, roles, links, documents>>
vars   == <<tables, tokens, call, seed>>

(* Ids are random: one that was used is not used again.                      *)
NoUser == [email |-> None, status |-> "NEVER", roles |-> {}]
NoCall == [step |-> "idle"]

Present(u)    == users[u].status \notin Absent
RoleExists(r) == roles[r] \notin Absent
UserOf(email) == {u \in UserIds : users[u].email = email}
RolesNamed(n) == {r \in RoleIds : roles[r] = n}
Holders(r)    == {u \in UserIds : r \in users[u].roles}
NamesOf(u)    == {roles[r] : r \in users[u].roles}

(* isStaff; holdsSuperAdmin.                                                 *)
IsStaff(u)              == \E n \in NamesOf(u) : n # "INVESTOR"
HoldsSuperAdmin(ids)    == \E r \in ids : roles[r] = "SUPER_ADMIN"
-----------------------------------------------------------------------------
(* Requests.  The guards of the controllers look at the claims alone.        *)
IsAdmin(t)      == t.claims \cap {"ADMIN", "SUPER_ADMIN"} # {}
IsSuperAdmin(t) == "SUPER_ADMIN" \in t.claims

Idle(w)     == call[w] = NoCall
At(w, step) == call[w].step = step
Go(w, c)    == call' = [call EXCEPT ![w] = c]
End(w)      == Go(w, NoCall)

Undisturbed == UNCHANGED <<tables, tokens, seed>>

(* Whether the database takes a handler's write: by now the row it names may *)
(* be gone, a role of the list be deleted, the email be taken.               *)
Free(email, u) == email # None => UserOf(email) \subseteq {u}

Accepted(c) ==
  CASE c.step = "reset"  -> links[c.link].status # "GONE"
    [] c.step = "create" -> Free(c.email, None) /\ \A r \in c.ids : RoleExists(r)
    [] c.step = "update" -> /\ Present(c.user)
                            /\ Free(c.email, c.user) /\ \A r \in c.ids : RoleExists(r)
    [] c.step = "delete" -> Present(c.user)
    [] c.step = "remove" -> RoleExists(c.role)
    [] OTHER             -> TRUE

(* A request that writes comes between the steps of a run of the seed.       *)
Disturb == seed' = [seed EXCEPT !.quiet = FALSE]

-----------------------------------------------------------------------------
(* login: reads the user with the roles, compares the password and signs.    *)
Login(w, u) ==
  /\ Idle(w)
  /\ users[u].status = "ACTIVE"
  /\ Cardinality(tokens) < MaxTokens
  /\ tokens' = tokens \cup {[sub |-> u, claims |-> NamesOf(u)]}
  /\ UNCHANGED <<tables, call, seed>>

Expire(t) ==
  /\ tokens' = tokens \ {t}
  /\ UNCHANGED <<tables, call, seed>>

(* forgotPassword; resetPassword, whose hash is awaited between the check    *)
(* and the transaction.                                                      *)
ForgotPassword(w, u, l) ==
  /\ Idle(w)
  /\ Present(u)
  /\ links[l].status = "NEVER"
  /\ links' = [links EXCEPT ![l] = [user |-> u, status |-> "UNUSED"]]
  /\ Disturb
  /\ UNCHANGED <<users, roles, documents, tokens, call>>

StartResetPassword(w, l) ==
  /\ Idle(w)
  /\ links[l].status = "UNUSED"
  /\ Go(w, [step |-> "reset", link |-> l])
  /\ Undisturbed

ResetPassword(w) ==
  /\ At(w, "reset")
  /\ Accepted(call[w])
  /\ links' = [links EXCEPT ![call[w].link].status = "USED"]
  /\ End(w)
  /\ Disturb
  /\ UNCHANGED <<users, roles, documents, tokens>>

-----------------------------------------------------------------------------
(* createStaffUser.                                                          *)
StartCreateUser(w, t, ids, email) ==
  /\ Idle(w)
  /\ IsAdmin(t)
  /\ ids # {}
  /\ IsSuperAdmin(t) \/ ~HoldsSuperAdmin(ids)
  /\ Go(w, [step |-> "create", actor |-> t, ids |-> ids, email |-> email])
  /\ Undisturbed

Inserts(u, email, ids) ==
  /\ users[u] = NoUser
  /\ users' = [users EXCEPT ![u] = [email |-> email, status |-> "ACTIVE", roles |-> ids]]

CreateUser(w, u) ==
  LET c == call[w] IN
  /\ At(w, "create")
  /\ Accepted(c)
  /\ Inserts(u, c.email, c.ids)
  /\ End(w)
  /\ Disturb
  /\ UNCHANGED <<roles, links, documents, tokens>>

-----------------------------------------------------------------------------
(* updateStaffUser.  {} and None stand for what the request leaves out.      *)
(* Mutant: without the rule for those who hold SUPER_ADMIN already.          *)
MayEditAnyone(t, u, ids, status) ==
  /\ ~(ids # {} /\ t.sub = u /\ ~IsSuperAdmin(t))
  /\ ~(status = "ACTIVE" /\ users[u].status # "ACTIVE" /\ ~IsSuperAdmin(t))

MayEdit(t, u, ids, status) ==
  /\ ~(HoldsSuperAdmin(users[u].roles) /\ ~IsSuperAdmin(t))
  /\ ~(ids # {} /\ t.sub = u /\ ~IsSuperAdmin(t))
  /\ ~(status = "ACTIVE" /\ users[u].status # "ACTIVE" /\ ~IsSuperAdmin(t))

StartUpdateUser(w, t, u, ids, status, email) ==
  /\ Idle(w)
  /\ IsAdmin(t)
  /\ IsStaff(u)
  /\ MayEdit(t, u, ids, status)
  /\ Go(w, [step |-> IF ids = {} \/ IsSuperAdmin(t) THEN "update" ELSE "mayGrant",
            actor |-> t, user |-> u, ids |-> ids, status |-> status, email |-> email])
  /\ Undisturbed

MayGrant(w) ==
  /\ At(w, "mayGrant")
  /\ IF HoldsSuperAdmin(call[w].ids) THEN End(w)
                                     ELSE Go(w, [call[w] EXCEPT !.step = "update"])
  /\ Undisturbed

UpdateUser(w) ==
  LET c == call[w]
      u == users[c.user]
  IN
  /\ At(w, "update")
  /\ Accepted(c)
  /\ users' = [users EXCEPT ![c.user] =
                 [roles  |-> IF c.ids = {} THEN u.roles ELSE c.ids,
                  status |-> IF c.status = None THEN u.status ELSE c.status,
                  email  |-> IF c.email = None THEN u.email ELSE c.email]]
  /\ End(w)
  /\ Disturb
  /\ UNCHANGED <<roles, links, documents, tokens>>

-----------------------------------------------------------------------------
(* deleteStaffUser: a delete, and when a foreign key refuses it an update.   *)
(* requested_by is ON DELETE RESTRICT, approved_by ON DELETE SET NULL; the   *)
(* user's roles and links go with the user.                                  *)
StartDeleteUser(w, t, u) ==
  /\ Idle(w)
  /\ IsAdmin(t)
  /\ t.sub # u
  /\ IsStaff(u)
  /\ HoldsSuperAdmin(users[u].roles) => IsSuperAdmin(t)
  /\ Go(w, [step |-> "delete", actor |-> t, user |-> u])
  /\ Undisturbed

(* Mutant: no foreign key refuses.                                           *)
NeverReferenced(u) == FALSE

Referenced(u) == \E d \in DocumentIds : documents[d].requestedBy = u

DeleteUser(w) ==
  LET u == call[w].user IN
  /\ At(w, "delete")
  /\ Accepted(call[w])
  /\ ~Referenced(u)
  /\ users' = [users EXCEPT ![u] = [NoUser EXCEPT !.status = "GONE"]]
  /\ links' = [l \in LinkIds |-> IF links[l].user = u THEN [user |-> None, status |-> "GONE"]
                                                      ELSE links[l]]
  /\ documents' = [d \in DocumentIds |->
                     IF documents[d].approvedBy = u THEN [documents[d] EXCEPT !.approvedBy = None]
                                                    ELSE documents[d]]
  /\ End(w)
  /\ Disturb
  /\ UNCHANGED <<roles, tokens>>

DeleteUserRefused(w) ==
  /\ At(w, "delete")
  /\ Referenced(call[w].user)
  /\ Go(w, [call[w] EXCEPT !.step = "disable"])
  /\ Undisturbed

DisableUser(w) ==
  /\ At(w, "disable")
  /\ users' = [users EXCEPT ![call[w].user].status = "DISABLED"]
  /\ End(w)
  /\ Disturb
  /\ UNCHANGED <<roles, links, documents, tokens>>

-----------------------------------------------------------------------------
(* RolesService: create, update (a rename), remove.                          *)
CreateRole(w, t, r, name) ==
  /\ Idle(w)
  /\ IsSuperAdmin(t)
  /\ RolesNamed(name) = {}
  /\ roles[r] = "NEVER"
  /\ roles' = [roles EXCEPT ![r] = name]
  /\ Disturb
  /\ UNCHANGED <<users, links, documents, tokens, call>>

RenameRole(w, t, r, name) ==
  /\ Idle(w)
  /\ IsSuperAdmin(t)
  /\ RoleExists(r)
  /\ RolesNamed(name) \subseteq {r}
  /\ roles' = [roles EXCEPT ![r] = name]
  /\ Disturb
  /\ UNCHANGED <<users, links, documents, tokens, call>>

(* Mutant: the holders are not counted.                                      *)
MayRemoveAny(r) == RoleExists(r)

MayRemove(r) == RoleExists(r) /\ Holders(r) = {}

StartRemoveRole(w, t, r) ==
  /\ Idle(w)
  /\ IsSuperAdmin(t)
  /\ MayRemove(r)
  /\ Go(w, [step |-> "remove", actor |-> t, role |-> r])
  /\ Undisturbed

(* A delete by id takes the assignments of the role with it.                 *)
RemoveRole(w) ==
  LET r == call[w].role IN
  /\ At(w, "remove")
  /\ Accepted(call[w])
  /\ roles' = [roles EXCEPT ![r] = "GONE"]
  /\ users' = [u \in UserIds |-> [users[u] EXCEPT !.roles = @ \ {r}]]
  /\ End(w)
  /\ Disturb
  /\ UNCHANGED <<links, documents, tokens>>

-----------------------------------------------------------------------------
(* What staff leave behind: a withdrawal is requested by one user and        *)
(* approved by another, who has to exist when the columns are written.       *)
FileDocument(w, t, d) ==
  /\ Idle(w)
  /\ t.claims \cap {"INVESTOR", "ADMIN"} # {}
  /\ Present(t.sub)
  /\ documents[d].status = "NONE"
  /\ documents' = [documents EXCEPT ![d] =
                     [status |-> "PENDING", requestedBy |-> t.sub, approvedBy |-> None]]
  /\ Disturb
  /\ UNCHANGED <<users, roles, links, tokens, call>>

ApproveDocument(w, t, d) ==
  /\ Idle(w)
  /\ t.claims \cap {"APPROVER", "ADMIN", "SUPER_ADMIN"} # {}
  /\ Present(t.sub)
  /\ documents[d].status = "PENDING"
  /\ documents[d].requestedBy # t.sub
  /\ documents' = [documents EXCEPT ![d].status = "APPROVED", ![d].approvedBy = t.sub]
  /\ Disturb
  /\ UNCHANGED <<users, roles, links, tokens, call>>

(* A write that is refused makes the handler throw.                          *)
Refused(w) ==
  /\ ~Accepted(call[w])
  /\ End(w)
  /\ Undisturbed

Abort(w) ==
  /\ ~Idle(w)
  /\ End(w)
  /\ Undisturbed
-----------------------------------------------------------------------------
(* The seed: seedRoles, then three statements for each of the users.  It is  *)
(* at statement 0 when it has not been started or has died.                  *)
UserStatements == <<"lookup", "user", "assign">>

LastStatement == Len(SeedRoles) + 3 * Len(SeedUsers)
Finished      == LastStatement + 1
NoSeed        == [at |-> 0, role |-> None, user |-> None, quiet |-> TRUE]

UserStatement == seed.at - Len(SeedRoles) - 1

SeedAt(statement) ==
  /\ UserStatement >= 0 /\ seed.at <= LastStatement
  /\ UserStatements[1 + (UserStatement % 3)] = statement

SeedUser == SeedUsers[1 + (UserStatement \div 3)]

StartSeed ==
  /\ seed.at \in {0, Finished}
  /\ seed' = [NoSeed EXCEPT !.at = 1]
  /\ UNCHANGED <<tables, tokens, call>>

UpsertRole ==
  /\ seed.at \in DOMAIN SeedRoles
  /\ \/ /\ RolesNamed(SeedRoles[seed.at]) # {}
        /\ UNCHANGED roles
     \/ /\ RolesNamed(SeedRoles[seed.at]) = {}
        /\ \E r \in RoleIds :
             /\ roles[r] = "NEVER"
             /\ roles' = [roles EXCEPT ![r] = SeedRoles[seed.at]]
  /\ seed' = [seed EXCEPT !.at = @ + 1]
  /\ UNCHANGED <<users, links, documents, tokens, call>>

LookUpRole ==
  /\ SeedAt("lookup")
  /\ \E r \in RolesNamed(SeedUser[2]) : seed' = [seed EXCEPT !.at = @ + 1, !.role = r]
  /\ UNCHANGED <<tables, tokens, call>>

(* Mutant: a user who is there already has a role already.                   *)
InsertUserOnly ==
  /\ SeedAt("user")
  /\ \/ /\ UserOf(SeedUser[1]) # {}
        /\ seed' = [seed EXCEPT !.at = @ + 2]
        /\ UNCHANGED users
     \/ /\ UserOf(SeedUser[1]) = {}
        /\ \E u \in UserIds :
             /\ Inserts(u, SeedUser[1], {})
             /\ seed' = [seed EXCEPT !.at = @ + 1, !.user = u]
  /\ UNCHANGED <<roles, links, documents, tokens, call>>

UpsertUser ==
  /\ SeedAt("user")
  /\ \/ \E u \in UserOf(SeedUser[1]) :
          /\ seed' = [seed EXCEPT !.at = @ + 1, !.user = u]
          /\ UNCHANGED users
     \/ /\ UserOf(SeedUser[1]) = {}
        /\ \E u \in UserIds :
             /\ Inserts(u, SeedUser[1], {})
             /\ seed' = [seed EXCEPT !.at = @ + 1, !.user = u]
  /\ UNCHANGED <<roles, links, documents, tokens, call>>

UpsertAssignment ==
  /\ SeedAt("assign")
  /\ Present(seed.user) /\ RoleExists(seed.role)
  /\ users' = [users EXCEPT ![seed.user].roles = @ \cup {seed.role}]
  /\ seed'  = [NoSeed EXCEPT !.at = seed.at + 1, !.quiet = seed.quiet]
  /\ UNCHANGED <<roles, links, documents, tokens, call>>

(* It throws when a role or a user it goes on with is gone (main exits), and *)
(* may be killed between any two statements.                                 *)
SeedDies ==
  /\ seed.at \in 1 .. LastStatement
  /\ seed' = NoSeed
  /\ UNCHANGED <<tables, tokens, call>>
-----------------------------------------------------------------------------
Init ==
  /\ users     = [u \in UserIds |-> NoUser]
  /\ roles     = [r \in RoleIds |-> "NEVER"]
  /\ links     = [l \in LinkIds |-> [user |-> None, status |-> "NEVER"]]
  /\ documents = [d \in DocumentIds |->
                    [status |-> "NONE", requestedBy |-> None, approvedBy |-> None]]
  /\ tokens = {}
  /\ call   = [w \in Workers |-> NoCall]
  /\ seed   = NoSeed

Authenticating(w) ==
  \/ \E u \in UserIds : Login(w, u)
  \/ \E u \in UserIds, l \in LinkIds : ForgotPassword(w, u, l)
  \/ \E l \in LinkIds : StartResetPassword(w, l)
  \/ ResetPassword(w)

ManagingUsers(w) ==
  \/ \E t \in tokens, ids \in SUBSET RoleIds :
       \/ \E email \in Emails : StartCreateUser(w, t, ids, email)
       \/ \E u \in UserIds, status \in Statuses \cup {None}, email \in Emails \cup {None} :
            StartUpdateUser(w, t, u, ids, status, email)
  \/ \E t \in tokens, u \in UserIds : StartDeleteUser(w, t, u)
  \/ \E u \in UserIds : CreateUser(w, u)
  \/ MayGrant(w) \/ UpdateUser(w)
  \/ DeleteUser(w) \/ DeleteUserRefused(w) \/ DisableUser(w)

ManagingRoles(w) ==
  \/ \E t \in tokens, r \in RoleIds, n \in Names : CreateRole(w, t, r, n) \/ RenameRole(w, t, r, n)
  \/ \E t \in tokens, r \in RoleIds : StartRemoveRole(w, t, r)
  \/ RemoveRole(w)

Working(w) ==
  \E t \in tokens, d \in DocumentIds : FileDocument(w, t, d) \/ ApproveDocument(w, t, d)

Seeding ==
  StartSeed \/ UpsertRole \/ LookUpRole \/ UpsertUser \/ UpsertAssignment \/ SeedDies

Next ==
  \/ \E w \in Workers : Authenticating(w) \/ ManagingUsers(w) \/ ManagingRoles(w)
                        \/ Working(w) \/ Refused(w) \/ Abort(w)
  \/ \E t \in tokens : Expire(t)
  \/ Seeding

Spec == Init /\ [][Next]_vars
-----------------------------------------------------------------------------
Tokens == [sub : UserIds, claims : SUBSET Names]

(* Types, and the keys: one user per email, one role per name, no            *)
(* assignment, link or document of a row that is not there.                  *)
StaffInv ==
  /\ users \in [UserIds -> [email : Emails \cup {None}, status : Statuses \cup Absent,
                            roles : SUBSET RoleIds]]
  /\ roles \in [RoleIds -> Names \cup Absent]
  /\ \A email \in Emails : \A u, x \in UserOf(email) : u = x
  /\ \A n \in Names : \A r, x \in RolesNamed(n) : r = x
  /\ \A u \in UserIds : users[u].roles # {} => Present(u) /\ \A r \in users[u].roles : RoleExists(r)
  /\ \A l \in LinkIds : links[l].user # None => Present(links[l].user)
  /\ \A d \in DocumentIds : documents[d].status # "NONE" => Present(documents[d].requestedBy)
  /\ tokens \subseteq Tokens

(* A staff user never loses the last role: without one they are no longer    *)
(* staff, and neither an edit nor a deletion would find them.                *)
HoldersKeepARole ==
  [][\A u \in UserIds : users[u].roles # {} /\ users'[u].status # "GONE"
                          => users'[u].roles # {}]_vars

(* Only a Super Admin changes a Super Admin, makes one, or reactivates a     *)
(* user; an Admin does not change the own roles.  (The seed does as told.)   *)
Changed(u) == users'[u] # users[u]

ChangesAsAllowed(c) ==
  \/ IsSuperAdmin(c.actor)
  \/ \A u \in UserIds : Changed(u) =>
       /\ ~HoldsSuperAdmin(users[u].roles)
       /\ ~HoldsSuperAdmin(users'[u].roles)
       /\ users[u].status \in {"SUSPENDED", "DISABLED"} => users'[u].status # "ACTIVE"
       /\ u = c.actor.sub => users'[u].roles = users[u].roles

SuperAdminRulesKept ==
  [][users' # users /\ seed'.at = seed.at
       => \E w \in Workers : call'[w] # call[w] /\ ChangesAsAllowed(call[w])]_vars

(* However often it was killed before, a run of the seed that no request      *)
(* came in between leaves each of its users with the role.                   *)
SeedConverges ==
  seed.at = Finished /\ seed.quiet =>
    \A k \in DOMAIN SeedUsers :
      \E u \in UserOf(SeedUsers[k][1]) : SeedUsers[k][2] \in NamesOf(u)
-----------------------------------------------------------------------------
(* What the steps rely on.  A request goes on with the rows it found, there  *)
(* or gone; one that disables a user was refused the deletion.               *)
CallFits(c) ==
  \/ c = NoCall
  \/ c \in [step : {"reset"}, link : LinkIds]
  \/ c \in [step : {"create"}, actor : Tokens, ids : (SUBSET RoleIds) \ {{}}, email : Emails]
  \/ c \in [step : {"update", "mayGrant"}, actor : Tokens, user : UserIds, ids : SUBSET RoleIds,
            status : Statuses \cup {None}, email : Emails \cup {None}]
  \/ /\ c \in [step : {"delete", "disable"}, actor : Tokens, user : UserIds]
     /\ c.step = "disable" => Referenced(c.user)
  \/ c \in [step : {"remove"}, actor : Tokens, role : RoleIds]

RowsFit ==
  /\ \A u \in UserIds : ~Present(u) => users[u].email = None
  /\ links \in [LinkIds -> [user : UserIds \cup {None}, status : {"NEVER", "UNUSED", "USED", "GONE"}]]
  /\ documents \in [DocumentIds -> [status : {"NONE", "PENDING", "APPROVED"},
                                    requestedBy : UserIds \cup {None},
                                    approvedBy : UserIds \cup {None}]]
  /\ \A d \in DocumentIds : documents[d].status = "NONE" <=> documents[d].requestedBy = None
  /\ call \in [Workers -> {call[w] : w \in Workers}]
  /\ \A w \in Workers : CallFits(call[w])

(* The seed goes on with the role and the user it found; while no request    *)
(* comes in between, they are those it looked up, and the users it is done   *)
(* with have their roles.                                                    *)
SeedFits ==
  /\ seed \in [at : 0 .. Finished, role : RoleIds \cup {None}, user : UserIds \cup {None},
               quiet : BOOLEAN]
  /\ SeedAt("user") \/ SeedAt("assign") =>
       /\ seed.role \in RoleIds
       /\ seed.quiet => seed.role \in RolesNamed(SeedUser[2])
  /\ SeedAt("assign") =>
       /\ seed.user \in UserIds
       /\ seed.quiet => seed.user \in UserOf(SeedUser[1])
  /\ seed.quiet =>
       \A k \in DOMAIN SeedUsers :
         Len(SeedRoles) + 3 * k < seed.at =>
           \E u \in UserOf(SeedUsers[k][1]) : SeedUsers[k][2] \in NamesOf(u)

StaffIndInv == StaffInv /\ RowsFit /\ SeedFits

(* With one request served at a time, and a seed that works between them,    *)
(* what a request has checked is still so when it writes.                    *)
OneAtATime == \A w, x \in Workers : w = x

SeedBetweenRequests == seed'.at # seed.at => \A w \in Workers : Idle(w)

EverThere(u) == users[u].status # "NEVER"

CallIsCurrent(c) ==
  /\ c.step = "create" => /\ c.ids # {} /\ EverThere(c.actor.sub)
                          /\ IsSuperAdmin(c.actor) \/ ~HoldsSuperAdmin(c.ids)
  /\ c.step \in {"mayGrant", "update"} => MayEdit(c.actor, c.user, c.ids, c.status)
  /\ c.step = "update" => IsSuperAdmin(c.actor) \/ ~HoldsSuperAdmin(c.ids)
  /\ c.step \in {"delete", "disable"} =>
       /\ c.user # c.actor.sub
       /\ HoldsSuperAdmin(users[c.user].roles) => IsSuperAdmin(c.actor)
  /\ c.step = "remove" => Holders(c.role) = {} /\ IsSuperAdmin(c.actor)

ServedAlone ==
  /\ \A t \in tokens : EverThere(t.sub)
  /\ \A w \in Workers : CallIsCurrent(call[w])
=============================================================================
