------------------------------ MODULE Accounts ------------------------------
(***************************************************************************)
(* The accounts of shortr: the tables users, sessions and oidc_identities  *)
(* (internal/store/users.go, sessions.go, oidc.go) and the handlers that   *)
(* change them (internal/server/auth.go, mfa.go, oidc.go, api_me.go,       *)
(* api_admin.go).                                                          *)
(*                                                                         *)
(* A handler reads a row, decides, and lets UpdateUser write the whole row *)
(* back, so handlers can undo each other's changes; the checks that an     *)
(* administrator or a way to sign in remains are statements of their own.  *)
(* Of a row the model keeps role, status, role_locked and the password,    *)
(* each password ever set being a number; 0 is no password.  Codes of the  *)
(* second factor are in SecondFactor.                                      *)
(***************************************************************************)
EXTENDS Integers, FiniteSets

CONSTANTS
  Users,      \* accounts, each with its email address
  Subjects,   \* subjects of the identity provider
  Handlers,   \* requests handled at the same time
  Sessions,   \* bound: ids of sessions
  Nobody,
  MaxPw,      \* bound: passwords ever set
  MaxOps      \* bound: requests of several steps

ASSUME AccountsAssumption ==
  /\ Nobody \notin Users \cup Sessions \cup Subjects
  /\ MaxPw \in Nat \ {0} /\ MaxOps \in Nat

VARIABLES
  users,     \* the rows of users
  sessions,  \* the rows of sessions
  identity,  \* the rows of oidc_identities: whom each subject signs in
  job,       \* what each handler is doing
  setupMu,   \* the lock of handleSetup
  pws,       \* passwords set so far
  ops,       \* requests so far
  founders,  \* ghost: accounts made by setup
  edited,    \* ghost: the last role an administrator gave each account
  slips      \* ghost: what has gone out of step so far

tables == <<users, sessions, identity>>
ghosts == <<founders, edited, slips>>
vars == <<tables, job, setupMu, pws, ops, ghosts>>

-----------------------------------------------------------------------------
Row == [is : {"unused", "present", "deleted"}, admin : BOOLEAN, active : BOOLEAN,
        locked : BOOLEAN, pw : 0..MaxPw]
Unused  == [is |-> "unused", admin |-> FALSE, active |-> FALSE, locked |-> FALSE, pw |-> 0]
Account(admin, locked, pw) ==
  [is |-> "present", admin |-> admin, active |-> TRUE, locked |-> locked, pw |-> pw]

\* `by` (ghost) is the password the account had when the session's owner was
\* verified.
Session   == [user : Users \cup {Nobody}, by : 0..MaxPw]
NoSession == [user |-> Nobody, by |-> 0]

Ops   == {"none", "setup", "register", "invite", "login", "sso", "profile",
          "password", "reset", "edit", "delete", "unlink"}
Steps == {"idle", "create", "identity", "rehash", "second", "sync", "write",
          "count", "revoke", "open"}

\* `read` is the row as it was read, `draft` as it will be written, `sid` the
\* session of the request, `sub` the subject it is about; `others` (ghost)
\* whether an administrator, or another identity, was there to remain.
Job   == [op : Ops, at : Steps, user : Users \cup {Nobody}, read : Row, draft : Row,
          by : 0..MaxPw, sid : Sessions \cup {Nobody}, sub : Subjects \cup {Nobody},
          others : BOOLEAN]
NoJob == [op |-> "none", at |-> "idle", user |-> Nobody, read |-> Unused,
          draft |-> Unused, by |-> 0, sid |-> Nobody, sub |-> Nobody, others |-> FALSE]

Present(u)    == users[u].is = "present"
Active(u)     == Present(u) /\ users[u].active
Admins        == {u \in Users : Active(u) /\ users[u].admin}
Identities(u) == {sub \in Subjects : identity[sub] = u}
RoleName(r)   == IF r.admin THEN "admin" ELSE "user"

\* Types, and the foreign keys of sessions and identities.
TypeOK ==
  /\ users \in [Users -> Row]
  /\ sessions \in [Sessions -> Session]
  /\ \A s \in Sessions : sessions[s] = NoSession \/ Present(sessions[s].user)
  /\ identity \in [Subjects -> Users \cup {Nobody}]
  /\ \A sub \in Subjects : identity[sub] = Nobody \/ Present(identity[sub])
  /\ job \in [Handlers -> Job]
  /\ setupMu \in BOOLEAN
  /\ pws \in 0..MaxPw /\ ops \in 0..MaxOps
  /\ founders \in SUBSET Users
  /\ edited \in [Users -> {"never", "admin", "user"}]
  /\ slips \in SUBSET {"write", "count", "sync", "session", "unlink", "identity"}

\* A fresh database, or one with a signed-in administrator made by setup and
\* another one made by group membership.
Fresh ==
  /\ users = [u \in Users |-> Unused]
  /\ sessions = [s \in Sessions |-> NoSession]
  /\ identity = [sub \in Subjects |-> Nobody]
  /\ pws = 0 /\ founders = {}

Settled ==
  \E a, b \in Users, s \in Sessions, sub \in Subjects :
    /\ a # b
    /\ users = [u \in Users |-> CASE u = a -> Account(TRUE, TRUE, 1)
                                  [] u = b -> Account(TRUE, FALSE, 0)
                                  [] OTHER -> Unused]
    /\ sessions = [x \in Sessions |-> IF x = s THEN [user |-> a, by |-> 1] ELSE NoSession]
    /\ identity = [x \in Subjects |-> IF x = sub THEN b ELSE Nobody]
    /\ pws = 1 /\ founders = {a}

Init ==
  /\ Fresh \/ Settled
  /\ job = [h \in Handlers |-> NoJob]
  /\ setupMu = FALSE /\ ops = 0
  /\ edited = [u \in Users |-> "never"]
  /\ slips = {}

-----------------------------------------------------------------------------
(* Requests.  One is taken up, goes through its steps, and is done.        *)

At(h, at)   == job[h].at = at
Goto(h, at) == job' = [job EXCEPT ![h].at = at]
Done(h)     == job' = [job EXCEPT ![h] = NoJob]

\* A request about the row of u, which it will write as `draft`.
About(op, u, draft) ==
  [NoJob EXCEPT !.op = op, !.user = u, !.read = users[u], !.draft = draft,
                !.by = users[u].pw]

Take(h, at, j) ==
  /\ job[h] = NoJob
  /\ ops < MaxOps
  /\ ops' = ops + 1
  /\ job' = [job EXCEPT ![h] = [j EXCEPT !.at = at]]
  /\ UNCHANGED <<tables, ghosts>>

\* The same, with a password that was not there before.
TakeNewPw(h, at, op, u, row) ==
  /\ pws < MaxPw
  /\ pws' = pws + 1
  /\ Take(h, at, About(op, u, [row EXCEPT !.pw = pws + 1]))

\* UpdateUser: the whole row, unless the account is gone.
Store(u, row) ==
  users' = IF Present(u) THEN [users EXCEPT ![u] = row] ELSE users

\* Other requests changed the row since it was read.
Stale(j) == IF Present(j.user) /\ users[j.user] # j.read THEN {"write"} ELSE {}

\* The last administrator goes, though there was another one to be counted.
Outcounted(j, row) ==
  IF j.others /\ Admins = {j.user} /\ ~(row.is = "present" /\ row.admin /\ row.active)
  THEN {"count"} ELSE {}

Slip(what) == slips' = slips \cup what

-----------------------------------------------------------------------------
(* New accounts.                                                           *)

\* handleSetup does not wait for its lock.
Setup_NoLock(h) ==
  \E u \in Users :
    /\ \A x \in Users : ~Present(x)
    /\ users[u].is = "unused"
    /\ TakeNewPw(h, "create", "setup", u, Account(TRUE, TRUE, 0))
    /\ setupMu' = TRUE

\* handleSetup waits for its lock and counts the users.
Setup(h) ==
  \E u \in Users :
    /\ ~setupMu
    /\ \A x \in Users : ~Present(x)
    /\ users[u].is = "unused"
    /\ TakeNewPw(h, "create", "setup", u, Account(TRUE, TRUE, 0))
    /\ setupMu' = TRUE

\* handleRegister finds the address free.
Register(h) ==
  \E u \in Users :
    /\ users[u].is = "unused"
    /\ TakeNewPw(h, "create", "register", u, Account(FALSE, FALSE, 0))
    /\ UNCHANGED setupMu

\* handleAdminCreateUser
Invite(h) ==
  \E u \in Users, admin \in BOOLEAN :
    /\ Admins # {}
    /\ users[u].is = "unused"
    /\ TakeNewPw(h, "create", "invite", u, Account(admin, FALSE, 0))
    /\ UNCHANGED setupMu

\* CreateUser.  What follows depends on the request.
Create(h) ==
  LET j == job[h] IN
  /\ At(h, "create")
  /\ users[j.user].is = "unused"
  /\ users' = [users EXCEPT ![j.user] = j.draft]
  /\ founders' = founders \cup (IF j.op = "setup" THEN {j.user} ELSE {})
  /\ job' = [job EXCEPT ![h] =
       IF j.op = "invite" THEN NoJob
       ELSE [j EXCEPT !.at = IF j.op = "sso" THEN "identity" ELSE "open",
                      !.read = j.draft, !.by = j.draft.pw]]
  /\ UNCHANGED <<sessions, identity, setupMu, pws, ops, edited, slips>>

\* CreateUser fails, because the address was taken meanwhile or otherwise.
CreateFails(h) ==
  /\ At(h, "create")
  /\ Done(h)
  /\ setupMu' = (setupMu /\ job[h].op # "setup")
  /\ UNCHANGED <<tables, pws, ops, ghosts>>

-----------------------------------------------------------------------------
(* Sign-in.                                                                *)

\* handleLogin with the password of the row it reads; the hash may have to be
\* renewed, and a second step may be asked for.
Login(h) ==
  \E u \in Users, at \in {"rehash", "second", "write"} :
    /\ Active(u) /\ users[u].pw # 0
    /\ Take(h, at, About("login", u, users[u]))
    /\ UNCHANGED <<setupMu, pws>>

\* The row is written back with the new hash; an error is ignored.
Rehash(h) ==
  /\ At(h, "rehash")
  /\ \/ Store(job[h].user, job[h].draft) /\ Slip(Stale(job[h]))
     \/ UNCHANGED <<users, slips>>
  /\ \E at \in {"second", "write"} : Goto(h, at)
  /\ UNCHANGED <<sessions, identity, setupMu, pws, ops, founders, edited>>

\* handleLoginMFA reads the row again and accepts a code.
SecondStep(h) ==
  LET u == job[h].user IN
  /\ At(h, "second")
  /\ job' = [job EXCEPT ![h] =
       IF Active(u) THEN [@ EXCEPT !.at = "write", !.read = users[u], !.draft = users[u]]
                    ELSE NoJob]
  /\ UNCHANGED <<tables, setupMu, pws, ops, ghosts>>

\* The role follows the groups even if it is locked.
Synced_Always(r, group) == [r EXCEPT !.admin = group]

\* The role follows the groups unless an administrator has set it.
Synced(r, group) == IF r.locked THEN r ELSE [r EXCEPT !.admin = group]

AfterIdentity(r, d) == IF d = r THEN "write" ELSE "sync"

\* finishOIDCLogin: the linked account, or the one with the same verified
\* address, to be linked now, or a new one.
SignOn(h) ==
  \E sub \in Subjects, u \in Users, group \in BOOLEAN :
    LET d == Synced(users[u], group)
        j == [About("sso", u, d) EXCEPT !.sub = sub] IN
    /\ \/ /\ identity[sub] = u /\ Active(u)
          /\ Take(h, AfterIdentity(users[u], d), j)
       \/ /\ identity[sub] = Nobody /\ Present(u)
          /\ Take(h, "identity", j)
       \/ /\ identity[sub] = Nobody /\ users[u].is = "unused"
          /\ Take(h, "create", [j EXCEPT !.draft = Account(group, FALSE, 0)])
    /\ UNCHANGED <<setupMu, pws>>

\* CreateOIDCIdentity; a disabled account gets no further.
AddIdentity(h) ==
  LET j == job[h] IN
  /\ At(h, "identity")
  /\ Present(j.user) /\ identity[j.sub] = Nobody
  /\ identity' = [identity EXCEPT ![j.sub] = j.user]
  /\ IF j.read.active THEN Goto(h, AfterIdentity(j.read, j.draft)) ELSE Done(h)
  /\ UNCHANGED <<users, sessions, setupMu, pws, ops, ghosts>>

\* It fails, because the subject is linked by now or otherwise; a new account
\* stays behind without.
AddIdentityFails(h) ==
  /\ At(h, "identity")
  /\ Done(h)
  /\ Slip(IF Present(job[h].user) THEN {"identity"} ELSE {})
  /\ UNCHANGED <<tables, setupMu, pws, ops, founders, edited>>

\* The changed role is stored, without a look at who else is administrator.
Sync(h) ==
  LET j == job[h] IN
  /\ At(h, "sync")
  /\ \/ /\ Store(j.user, j.draft)
        /\ Slip(Stale(j) \cup (IF j.read.admin THEN {"sync"} ELSE {}))
     \/ UNCHANGED <<users, slips>>
  /\ job' = [job EXCEPT ![h].at = "write"]
  /\ UNCHANGED <<sessions, identity, setupMu, pws, ops, founders, edited>>

\* last_login_at is stored with the rest of the row; an error is ignored.
WriteBack(h) ==
  LET j == job[h] IN
  /\ At(h, "write") /\ j.op \in {"login", "sso"}
  /\ \/ /\ Store(j.user, j.draft)
        /\ Slip((IF users[j.user] # j.draft THEN Stale(j) ELSE {})
                  \cup (IF j.op = "sso" /\ j.read.admin /\ ~j.draft.admin THEN {"sync"} ELSE {}))
     \/ UNCHANGED <<users, slips>>
  /\ Goto(h, "open")
  /\ UNCHANGED <<sessions, identity, setupMu, pws, ops, founders, edited>>

\* It is too late for a session: the account has another password by now, or
\* is disabled, or its sessions have been deleted because it is going to be.
TooLate(j) ==
  \/ ~users[j.user].active \/ users[j.user].pw # j.by
  \/ \E h \in Handlers : /\ job[h].user = j.user /\ job[h].op = "edit" /\ At(h, "write")
                         /\ ~job[h].draft.active

\* startSession; there is no session without an account.
Open(h) ==
  LET j == job[h] IN
  /\ At(h, "open")
  /\ \/ \E s \in Sessions :
          /\ Present(j.user) /\ sessions[s] = NoSession
          /\ sessions' = [sessions EXCEPT ![s] = [user |-> j.user, by |-> j.by]]
          /\ Slip(IF TooLate(j) THEN {"session"} ELSE {})
     \/ UNCHANGED <<sessions, slips>>
  /\ Done(h)
  /\ setupMu' = (setupMu /\ j.op # "setup")
  /\ UNCHANGED <<users, identity, pws, ops, founders, edited>>

-----------------------------------------------------------------------------
(* Changes.  Own changes come with a session; others from an administrator, *)
(* by session or API key.                                                  *)

Owns(s) == sessions[s] # NoSession /\ Active(sessions[s].user)

\* handlePatchMe, also by API key: columns that the model leaves out.
Profile(h) ==
  \E u \in Users :
    /\ Active(u)
    /\ Take(h, "write", About("profile", u, users[u]))
    /\ UNCHANGED <<setupMu, pws>>

\* handlePutPassword
PutPassword(h) ==
  \E s \in Sessions :
    LET u == sessions[s].user IN
    /\ Owns(s) /\ pws < MaxPw /\ pws' = pws + 1
    /\ Take(h, "write", [About("password", u, [users[u] EXCEPT !.pw = pws + 1])
                           EXCEPT !.sid = s])
    /\ UNCHANGED setupMu

\* handleAdminResetPassword
ResetPassword(h) ==
  \E u \in Users :
    /\ Admins # {} /\ Present(u)
    /\ TakeNewPw(h, "write", "reset", u, users[u])
    /\ UNCHANGED setupMu

\* handleAdminPatchUser: role and status.  Whoever is administrator, or is
\* made one, and is to lose that must not be the last one.
EditUser(h) ==
  \E u \in Users, admin, active \in BOOLEAN :
    LET r == users[u]
        disables == r.active /\ ~active IN
    /\ Admins # {} /\ Present(u)
    /\ Take(h, IF (r.admin /\ ~admin) \/ (disables /\ admin) THEN "count"
               ELSE IF disables THEN "revoke" ELSE "write",
            About("edit", u, [r EXCEPT !.admin = admin, !.active = active,
                                       !.locked = @ \/ admin # r.admin]))
    /\ UNCHANGED <<setupMu, pws>>

\* handleAdminDeleteUser, and handleDeleteMe with a session.
DeleteUser(h) ==
  \E u \in Users :
    /\ Present(u)
    /\ Admins # {} \/ \E s \in Sessions : Owns(s) /\ sessions[s].user = u
    /\ Take(h, IF users[u].admin THEN "count" ELSE "write", About("delete", u, users[u]))
    /\ UNCHANGED <<setupMu, pws>>

\* handleDeleteMyIdentity
Unlink(h) ==
  \E s \in Sessions, sub \in Subjects :
    LET u == sessions[s].user IN
    /\ Owns(s) /\ identity[sub] = u
    /\ Take(h, "count", [About("unlink", u, users[u]) EXCEPT !.sid = s, !.sub = sub])
    /\ UNCHANGED <<setupMu, pws>>

\* Nothing is counted.
Suffices_Always(j) == TRUE

\* CountAdmins, without the account itself; CountOIDCIdentitiesForUser, which
\* does not matter to an account with a password.
Suffices(j) ==
  IF j.op = "unlink" THEN Cardinality(Identities(j.user)) > 1 \/ j.read.pw # 0
                     ELSE Admins \ {j.user} # {}

Count(h) ==
  LET j == job[h]
      next == IF j.op = "edit" /\ j.read.active /\ ~j.draft.active THEN "revoke" ELSE "write"
  IN
  /\ At(h, "count")
  /\ job' = [job EXCEPT ![h] =
       IF ~Suffices(j) THEN NoJob
       ELSE [j EXCEPT !.at = next,
                      !.others = IF j.op = "unlink" THEN Identities(j.user) # {j.sub}
                                                    ELSE Admins \ {j.user} # {}]]
  /\ UNCHANGED <<tables, setupMu, pws, ops, ghosts>>

\* The sessions of an account that is to be disabled stay.
Revoke_Nothing(h) ==
  /\ At(h, "revoke") /\ job[h].op = "edit"
  /\ Goto(h, "write")
  /\ UNCHANGED <<tables, setupMu, pws, ops, ghosts>>

\* The sessions of an account that is to be disabled are deleted first.
Revoke(h) ==
  /\ At(h, "revoke") /\ job[h].op = "edit"
  /\ sessions' = [s \in Sessions |-> IF sessions[s].user = job[h].user
                                     THEN NoSession ELSE sessions[s]]
  /\ Goto(h, "write")
  /\ UNCHANGED <<users, identity, setupMu, pws, ops, ghosts>>

\* The last step of handlePatchMe and handleAdminPatchUser.
WriteRow(h) ==
  LET j == job[h] IN
  /\ At(h, "write") /\ j.op \in {"profile", "edit"}
  /\ Store(j.user, j.draft)
  /\ Slip(Stale(j) \cup Outcounted(j, j.draft))
  /\ edited' = IF j.op = "edit" /\ j.draft.admin # j.read.admin /\ Present(j.user)
               THEN [edited EXCEPT ![j.user] = RoleName(j.draft)] ELSE edited
  /\ Done(h)
  /\ UNCHANGED <<sessions, identity, setupMu, pws, ops, founders>>

\* A new password is stored (the session of the request counts as verified) ...
WritePassword(h) ==
  LET j == job[h] IN
  /\ At(h, "write") /\ j.op \in {"password", "reset"}
  /\ Store(j.user, j.draft)
  /\ sessions' = [s \in Sessions |->
       IF s = j.sid /\ sessions[s].user = j.user
       THEN [sessions[s] EXCEPT !.by = j.draft.pw] ELSE sessions[s]]
  /\ Slip(Stale(j))
  /\ Goto(h, "revoke")
  /\ UNCHANGED <<identity, setupMu, pws, ops, founders, edited>>

\* ... and all sessions stay.
RevokeOthers_None(h) ==
  /\ At(h, "revoke") /\ job[h].op \in {"password", "reset"}
  /\ Done(h)
  /\ UNCHANGED <<tables, setupMu, pws, ops, ghosts>>

\* ... and all sessions but the one of the request are deleted.
RevokeOthers(h) ==
  LET j == job[h] IN
  /\ At(h, "revoke") /\ j.op \in {"password", "reset"}
  /\ sessions' = [s \in Sessions |->
       IF sessions[s].user = j.user /\ s # j.sid THEN NoSession ELSE sessions[s]]
  /\ Done(h)
  /\ UNCHANGED <<users, identity, setupMu, pws, ops, ghosts>>

\* Sessions that cannot be deleted are left, and nobody is told.
RevokeFails(h) ==
  /\ At(h, "revoke")
  /\ IF job[h].op = "edit" THEN Goto(h, "write") ELSE Done(h)
  /\ Slip({"session"})
  /\ UNCHANGED <<tables, setupMu, pws, ops, founders, edited>>

\* DeleteUser, and the rows that refer to the account with it.
Erase(u) ==
  /\ users' = [users EXCEPT ![u] = [Unused EXCEPT !.is = "deleted"]]
  /\ sessions' = [s \in Sessions |->
       IF sessions[s].user = u THEN NoSession ELSE sessions[s]]
  /\ identity' = [sub \in Subjects |->
       IF identity[sub] = u THEN Nobody ELSE identity[sub]]

DeleteRow(h) ==
  LET j == job[h] IN
  /\ At(h, "write") /\ j.op = "delete"
  /\ Erase(j.user)
  /\ Slip(Stale(j) \cup Outcounted(j, Unused))
  /\ edited' = [edited EXCEPT ![j.user] = "never"]
  /\ Done(h)
  /\ UNCHANGED <<setupMu, pws, ops, founders>>

\* DeleteOIDCIdentity, of the row that was read.
DeleteIdentity(h) ==
  LET j == job[h] IN
  /\ At(h, "write") /\ j.op = "unlink"
  /\ identity' = IF identity[j.sub] = j.user
                 THEN [identity EXCEPT ![j.sub] = Nobody] ELSE identity
  /\ Slip(IF j.others /\ Identities(j.user) = {j.sub} THEN {"unlink"} ELSE {})
  /\ Done(h)
  /\ UNCHANGED <<users, sessions, setupMu, pws, ops, founders, edited>>

\* The last statement of a change fails; then nothing has happened, or only
\* the sessions are gone.
WriteFails(h) ==
  /\ At(h, "write") /\ job[h].op \notin {"login", "sso"}
  /\ Done(h)
  /\ UNCHANGED <<tables, setupMu, pws, ops, ghosts>>

-----------------------------------------------------------------------------
(* Requests of one statement.                                              *)

\* handleLogout, handleDeleteMySession, DeleteExpiredSessions
EndSession ==
  /\ \E s \in Sessions :
       /\ sessions[s] # NoSession
       /\ sessions' = [sessions EXCEPT ![s] = NoSession]
  /\ UNCHANGED <<users, identity, job, setupMu, pws, ops, ghosts>>

\* handleAdminDeleteUserSessions, handleAdminResetMFA
EndSessions ==
  /\ Admins # {}
  /\ \E u \in Users :
       sessions' = [s \in Sessions |-> IF sessions[s].user = u THEN NoSession ELSE sessions[s]]
  /\ UNCHANGED <<users, identity, job, setupMu, pws, ops, ghosts>>

\* finishOIDCLink, for the account that asked for it before.
Link ==
  /\ \E sub \in Subjects, u \in Users :
       /\ identity[sub] = Nobody /\ Present(u)
       /\ identity' = [identity EXCEPT ![sub] = u]
  /\ UNCHANGED <<users, sessions, job, setupMu, pws, ops, ghosts>>

\* handleAdminDeleteUserIdentity, which counts nothing.
AdminUnlink ==
  /\ Admins # {}
  /\ \E sub \in Subjects :
       /\ identity[sub] # Nobody
       /\ identity' = [identity EXCEPT ![sub] = Nobody]
  /\ Slip({"unlink"})
  /\ UNCHANGED <<users, sessions, job, setupMu, pws, ops, founders, edited>>

Request(h) ==
  \/ Setup(h) \/ Register(h) \/ Invite(h) \/ Create(h) \/ CreateFails(h)
  \/ Login(h) \/ Rehash(h) \/ SecondStep(h)
  \/ SignOn(h) \/ AddIdentity(h) \/ AddIdentityFails(h) \/ Sync(h) \/ WriteBack(h) \/ Open(h)
  \/ Profile(h) \/ PutPassword(h) \/ ResetPassword(h) \/ EditUser(h) \/ DeleteUser(h)
  \/ Unlink(h) \/ Count(h) \/ Revoke(h) \/ WriteRow(h) \/ WritePassword(h)
  \/ RevokeOthers(h) \/ RevokeFails(h) \/ DeleteRow(h) \/ DeleteIdentity(h) \/ WriteFails(h)

Next ==
  \/ \E h \in Handlers : Request(h)
  \/ EndSession \/ EndSessions \/ Link \/ AdminUnlink

Spec == Init /\ [][Next]_vars

-----------------------------------------------------------------------------
(* Properties.                                                             *)

InStep(what) == slips \cap what = {}

\* Once there is an active administrator there always is one (ErrLastAdmin:
\* "cannot remove the last remaining admin"), unless a row was written back
\* that had changed since it was read, two removals counted each other's
\* account, or the groups of the identity provider took the role away.
AdminRemains ==
  [][Admins # {} => Admins' # {} \/ ~InStep({"write", "count", "sync"})']_vars

\* At most one of the existing accounts was made by setup ("two concurrent
\* requests can't both see an empty users table and each create an admin").
SetupOnce == \A u, v \in founders : Present(u) /\ Present(v) => u = v

\* A session outlives a change of its account's password only if it made the
\* change (handlePutPassword, handleAdminResetPassword), unless a stale row
\* brought an old password back or a sign-in had verified it before, or the sessions could not be deleted.
PasswordChangeSignsOut ==
  InStep({"write", "session"}) =>
    \A s \in Sessions :
      sessions[s] = NoSession \/ sessions[s].by = users[sessions[s].user].pw
        \/ \E h \in Handlers : job[h].user = sessions[s].user /\ At(h, "revoke")

\* A disabled account has no session that would work again when it is enabled
\* (handleAdminPatchUser), with the same exceptions.
DisableSignsOut ==
  InStep({"write", "session"}) =>
    \A s \in Sessions : sessions[s] = NoSession \/ Active(sessions[s].user)

\* Every account has a password or an identity to sign in with, unless an
\* administrator removed it, two requests unlinked the last two, the creation
\* stopped half way, or a stale row took the password back
\* (handleDeleteMyIdentity, finishOIDCLogin).
CanSignIn ==
  InStep({"write", "unlink", "identity"}) =>
    \A u \in Users :
      Present(u) => \/ users[u].pw # 0 \/ Identities(u) # {}
                    \/ \E h \in Handlers : job[h].user = u /\ At(h, "identity")

\* The role an administrator has set stays ("an explicit admin edit always
\* wins over OIDC group sync"), unless a stale row was written over it.
AdminEditWins ==
  InStep({"write"}) =>
    \A u \in Users : edited[u] # "never" => RoleName(users[u]) = edited[u]

=============================================================================
