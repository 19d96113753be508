--------------------------- MODULE AccountsProofs ---------------------------
(***************************************************************************)
(* Proofs about Accounts for any number of accounts, subjects, requests    *)
(* and sessions, of passwords ever set and of requests of several steps.   *)
(***************************************************************************)
EXTENDS Accounts, FiniteSetTheorems, TLAPS

-----------------------------------------------------------------------------
(* Requests in progress.                                                   *)

\* The row as it will be written differs from the row as it was read only in
\* what the request is about.
Drafted(j) ==
  /\ j.op \in {"login", "profile", "delete", "unlink"} => j.draft = j.read
  /\ j.op = "sso" /\ j.at # "create" =>
       /\ j.draft.active = j.read.active /\ j.draft.pw = j.read.pw
       /\ j.draft.locked = j.read.locked
       /\ j.read.locked => j.draft.admin = j.read.admin
  /\ j.op \in {"password", "reset"} =>
       /\ j.draft.admin = j.read.admin /\ j.draft.active = j.read.active
       /\ j.draft.locked = j.read.locked /\ j.draft.pw # 0
  /\ j.op = "edit" =>
       /\ j.draft.pw = j.read.pw
       /\ j.read.locked \/ j.draft.admin # j.read.admin => j.draft.locked
  /\ j.at = "create" /\ j.op # "sso" => j.draft.pw # 0

\* Before somebody loses the role, or an identity, it was counted that he may.
Counted(j) ==
  /\ j.op = "edit" /\ j.at \in {"revoke", "write"} /\ j.read.admin /\ j.read.active =>
       j.others \/ (j.draft.admin /\ j.draft.active)
  /\ j.op = "delete" /\ j.at = "write" /\ j.read.admin => j.others
  /\ j.op = "unlink" /\ j.at = "write" => j.others \/ j.read.pw # 0

\* Which requests have which steps.
Staged(j) ==
  /\ j.at = "create" => j.op \in {"setup", "register", "invite", "sso"}
  /\ j.at \in {"rehash", "second"} => j.op = "login"
  /\ j.at \in {"identity", "sync"} => j.op = "sso"
  /\ j.at = "count" => j.op \in {"edit", "delete", "unlink"}

Fit(j) ==
  j = NoJob \/ /\ j.user \in Users /\ j.draft.is = "present" /\ j.at # "idle"
               /\ Drafted(j) /\ Counted(j) /\ Staged(j)

\* Only a request that is about to create its account does not have one yet;
\* single sign-on is about a subject.
JobsInv ==
  \A h \in Handlers :
    /\ Fit(job[h])
    /\ job[h].op = "sso" => job[h].sub \in Subjects
    /\ job[h].at \notin {"idle", "create"} => users[job[h].user].is # "unused"

\* Every session is somebody's.
OwnersInv == \A s \in Sessions : sessions[s] = NoSession \/ sessions[s].user \in Users

TypeInv == TypeOK /\ JobsInv /\ OwnersInv

LEMMA RowIs ==
  /\ Unused \in Row /\ [Unused EXCEPT !.is = "deleted"] \in Row
  /\ \A admin, locked \in BOOLEAN, pw \in 0..MaxPw :
       Account(admin, locked, pw) \in Row /\ Account(admin, locked, pw).is = "present"
<1>1. 0 \in 0..MaxPw
  BY AccountsAssumption
<1>2. Unused \in Row /\ [Unused EXCEPT !.is = "deleted"] \in Row
  BY <1>1 DEF Row, Unused
<1>3. ASSUME NEW admin \in BOOLEAN, NEW locked \in BOOLEAN, NEW pw \in 0..MaxPw
      PROVE  Account(admin, locked, pw) \in Row /\ Account(admin, locked, pw).is = "present"
  BY DEF Row, Account
<1> QED
  BY <1>2, <1>3

LEMMA NoJobIs ==
  /\ NoJob \in Job /\ Fit(NoJob)
  /\ NoJob.at = "idle" /\ NoJob.op = "none" /\ NoJob.user = Nobody
  BY RowIs, AccountsAssumption DEF NoJob, Job, Ops, Steps, Fit

\* A request about the row of u, as it is now.
Asks(j, op, u, draft) ==
  /\ j \in Job /\ j.op = op /\ j.user = u /\ j.draft = draft
  /\ j.read = users[u] /\ j.by = users[u].pw /\ ~j.others

LEMMA AboutAsks ==
  ASSUME TypeOK, NEW op \in Ops, NEW u \in Users, NEW draft \in Row
  PROVE  Asks(About(op, u, draft), op, u, draft)
<1>1. users[u] \in Row /\ users[u].pw \in 0..MaxPw
  BY DEF TypeOK, Row
<1> QED
  BY <1>1, NoJobIs DEF Asks, About, NoJob, Job

LEMMA MoreAsks ==
  ASSUME NEW j, NEW op, NEW u, NEW draft, Asks(j, op, u, draft)
  PROVE  /\ \A sid \in Sessions : Asks([j EXCEPT !.sid = sid], op, u, draft)
         /\ \A sub \in Subjects : Asks([j EXCEPT !.sub = sub], op, u, draft)
         /\ \A sid \in Sessions, sub \in Subjects :
              Asks([j EXCEPT !.sid = sid, !.sub = sub], op, u, draft)
         /\ \A d \in Row : Asks([j EXCEPT !.draft = d], op, u, d)
  BY DEF Asks, Job

\* What is true of a request when it has been taken up.
Begun(x) ==
  /\ x \in Job /\ Fit(x) /\ x.at # "idle" /\ x.op # "none"
  /\ x.op = "sso" => x.sub \in Subjects
  /\ x.read = users[x.user] /\ x.by = users[x.user].pw
  /\ x.at # "create" => Present(x.user)
  /\ x.op = "edit" /\ x.at = "write" => ~x.read.active \/ x.draft.active
  /\ IF x.op = "setup"
     THEN ~setupMu /\ setupMu' = TRUE /\ x.at = "create" /\ \A y \in Users : ~Present(y)
     ELSE setupMu' = setupMu

Starts(h) ==
  /\ job[h] = NoJob
  /\ \E x \in Job : Begun(x) /\ job' = [job EXCEPT ![h] = x]
  /\ UNCHANGED <<tables, ghosts>>
  /\ ops' \in 0..MaxOps /\ pws' \in 0..MaxPw

LEMMA TakeStarts ==
  ASSUME TypeOK, NEW h \in Handlers, NEW op \in Ops \ {"none", "setup"},
         NEW at \in Steps \ {"idle"}, NEW u \in Users, NEW draft \in Row,
         NEW j, Asks(j, op, u, draft), Take(h, at, j),
         \A x \in Job : x.op = op /\ x.at = at /\ x.user = u /\ x.read = users[u]
                          /\ x.draft = draft => Fit(x),
         at # "create" => Present(u), op = "sso" => j.sub \in Subjects,
         op = "edit" /\ at = "write" => ~users[u].active \/ draft.active,
         setupMu' = setupMu, pws' \in 0..MaxPw
  PROVE  Starts(h)
<1>1. PICK x : x = [j EXCEPT !.at = at]
  OBVIOUS
<1>2. /\ x \in Job /\ x.op = op /\ x.at = at /\ x.user = u /\ x.read = users[u]
      /\ x.draft = draft /\ x.by = users[u].pw /\ x.sub = j.sub
  BY <1>1 DEF Asks, Job
<1>3. job' = [job EXCEPT ![h] = x] /\ Fit(x)
  BY <1>1, <1>2 DEF Take
<1>4. Begun(x)
  BY <1>2, <1>3 DEF Begun
<1>5. ops' \in 0..MaxOps
  BY AccountsAssumption DEF Take, TypeOK
<1> QED
  BY <1>2, <1>3, <1>4, <1>5 DEF Starts, Take

LEMMA NewPwStarts ==
  ASSUME TypeOK, NEW h \in Handlers, NEW u \in Users, NEW row \in Row,
         row.is = "present",
         NEW op \in {"register", "invite", "reset"}, NEW at \in {"create", "write"},
         at = "write" => op = "reset" /\ row = users[u],
         at = "create" => op # "reset",
         TakeNewPw(h, at, op, u, row), setupMu' = setupMu
  PROVE  Starts(h)
<1>1. PICK d : d = [row EXCEPT !.pw = pws + 1]
  OBVIOUS
<1>2. pws + 1 \in 0..MaxPw /\ pws + 1 # 0 /\ pws' = pws + 1
  BY AccountsAssumption DEF TypeOK, TakeNewPw
<1>3. /\ d \in Row /\ d.is = "present" /\ d.pw = pws + 1
      /\ d.admin = row.admin /\ d.active = row.active /\ d.locked = row.locked
  BY <1>1, <1>2 DEF Row
<1>4. Take(h, at, About(op, u, d)) /\ pws' \in 0..MaxPw
  BY <1>1, <1>2 DEF TakeNewPw
<1>5. op \in Ops \ {"none", "setup"} /\ at \in Steps \ {"idle"} /\ op # "edit"
  BY DEF Ops, Steps
<1>6. Asks(About(op, u, d), op, u, d)
  BY <1>3, <1>5, AboutAsks
<1>7. ASSUME NEW x \in Job, x.op = op, x.at = at, x.user = u, x.read = users[u],
             x.draft = d
      PROVE  Fit(x)
  BY <1>2, <1>3, <1>7 DEF Fit, Drafted, Counted, Staged
<1>8. at # "create" => Present(u)
  BY DEF Present
<1> QED
  BY <1>3, <1>4, <1>5, <1>6, <1>7, <1>8, TakeStarts

LEMMA SetupStarts ==
  ASSUME TypeOK, NEW h \in Handlers, Setup(h)
  PROVE  Starts(h)
<1>1. PICK u \in Users :
        /\ ~setupMu /\ setupMu' = TRUE
        /\ \A x \in Users : ~Present(x)
        /\ TakeNewPw(h, "create", "setup", u, Account(TRUE, TRUE, 0))
  BY DEF Setup
<1>2. pws + 1 \in 0..MaxPw /\ pws + 1 # 0 /\ pws' = pws + 1
  BY <1>1, AccountsAssumption DEF TypeOK, TakeNewPw
<1>3. PICK d : d = [Account(TRUE, TRUE, 0) EXCEPT !.pw = pws + 1]
  OBVIOUS
<1>4. d \in Row /\ d.is = "present" /\ d.pw # 0
  BY <1>2, <1>3 DEF Account, Row
<1>5. Asks(About("setup", u, d), "setup", u, d)
  BY <1>4, AboutAsks DEF Ops
<1>6. Take(h, "create", About("setup", u, d))
  BY <1>1, <1>3 DEF TakeNewPw
<1>7. PICK x : x = [About("setup", u, d) EXCEPT !.at = "create"]
  OBVIOUS
<1>8. /\ x \in Job /\ x.op = "setup" /\ x.at = "create" /\ x.user = u /\ x.read = users[u]
      /\ x.draft = d /\ x.by = users[u].pw
  BY <1>5, <1>7 DEF Asks, Job, Steps
<1>9. Fit(x)
  BY <1>4, <1>8 DEF Fit, Drafted, Counted, Staged
<1>10. Begun(x)
  BY <1>1, <1>8, <1>9 DEF Begun
<1>11. ops' \in 0..MaxOps /\ job[h] = NoJob /\ job' = [job EXCEPT ![h] = x]
       /\ UNCHANGED <<tables, ghosts>>
  BY <1>6, <1>7, AccountsAssumption DEF Take, TypeOK
<1> QED
  BY <1>2, <1>8, <1>10, <1>11 DEF Starts

LEMMA RequestsStart ==
  ASSUME TypeInv, NEW h \in Handlers,
         \/ Setup(h) \/ Register(h) \/ Invite(h) \/ Login(h) \/ SignOn(h) \/ Profile(h)
         \/ PutPassword(h) \/ ResetPassword(h) \/ EditUser(h) \/ DeleteUser(h) \/ Unlink(h)
  PROVE  Starts(h)
<1>1. TypeOK
  BY DEF TypeInv
<1>2. \A u \in Users : users[u] \in Row
  BY <1>1 DEF TypeOK
<1>3. CASE Register(h)
  <2>1. PICK u \in Users : TakeNewPw(h, "create", "register", u, Account(FALSE, FALSE, 0))
    BY <1>3 DEF Register
  <2>2. 0 \in 0..MaxPw /\ setupMu' = setupMu
    BY <1>3, AccountsAssumption DEF Register
  <2> QED
    BY <1>1, <2>1, <2>2, RowIs, NewPwStarts
<1>4. CASE Invite(h)
  <2>1. PICK u \in Users, admin \in BOOLEAN :
          TakeNewPw(h, "create", "invite", u, Account(admin, FALSE, 0))
    BY <1>4 DEF Invite
  <2>2. 0 \in 0..MaxPw /\ setupMu' = setupMu
    BY <1>4, AccountsAssumption DEF Invite
  <2> QED
    BY <1>1, <2>1, <2>2, RowIs, NewPwStarts
<1>5. CASE ResetPassword(h)
  <2>1. PICK u \in Users : Present(u) /\ TakeNewPw(h, "write", "reset", u, users[u])
    BY <1>5 DEF ResetPassword
  <2>2. setupMu' = setupMu
    BY <1>5 DEF ResetPassword
  <2> QED
    BY <1>1, <1>2, <2>1, <2>2, NewPwStarts DEF Present
<1>6. CASE Login(h)
  <2>1. PICK u \in Users, at \in {"rehash", "second", "write"} :
          Active(u) /\ Take(h, at, About("login", u, users[u]))
    BY <1>6 DEF Login
  <2>2. setupMu' = setupMu /\ pws' \in 0..MaxPw
    BY <1>6 DEF Login, TypeInv, TypeOK
  <2>3. Present(u) /\ users[u].is = "present"
    BY <2>1 DEF Active, Present
  <2>4. Asks(About("login", u, users[u]), "login", u, users[u])
    BY <1>1, <1>2, AboutAsks DEF Ops
  <2>5. ASSUME NEW x \in Job, x.op = "login", x.at = at, x.user = u, x.read = users[u],
               x.draft = users[u]
        PROVE  Fit(x)
    BY <2>3, <2>5 DEF Fit, Drafted, Counted, Staged
  <2> QED
    BY <1>1, <1>2, <2>1, <2>2, <2>3, <2>4, <2>5, TakeStarts DEF Ops, Steps
<1>7. CASE Profile(h)
  <2>1. PICK u \in Users : Active(u) /\ Take(h, "write", About("profile", u, users[u]))
    BY <1>7 DEF Profile
  <2>2. setupMu' = setupMu /\ pws' \in 0..MaxPw
    BY <1>7 DEF Profile, TypeInv, TypeOK
  <2>3. Present(u) /\ users[u].is = "present"
    BY <2>1 DEF Active, Present
  <2>4. Asks(About("profile", u, users[u]), "profile", u, users[u])
    BY <1>1, <1>2, AboutAsks DEF Ops
  <2>5. ASSUME NEW x \in Job, x.op = "profile", x.at = "write", x.user = u,
               x.read = users[u], x.draft = users[u]
        PROVE  Fit(x)
    BY <2>3, <2>5 DEF Fit, Drafted, Counted, Staged
  <2> QED
    BY <1>1, <1>2, <2>1, <2>2, <2>3, <2>4, <2>5, TakeStarts DEF Ops, Steps
<1>8. CASE DeleteUser(h)
  <2>1. PICK u \in Users :
          /\ Present(u)
          /\ Take(h, IF users[u].admin THEN "count" ELSE "write",
                  About("delete", u, users[u]))
    BY <1>8 DEF DeleteUser
  <2>2. setupMu' = setupMu /\ pws' \in 0..MaxPw
    BY <1>8 DEF DeleteUser, TypeInv, TypeOK
  <2>3. PICK at \in {"count", "write"} :
          at = (IF users[u].admin THEN "count" ELSE "write")
    OBVIOUS
  <2>4. Asks(About("delete", u, users[u]), "delete", u, users[u])
    BY <1>1, <1>2, AboutAsks DEF Ops
  <2>5. ASSUME NEW x \in Job, x.op = "delete", x.at = at, x.user = u,
               x.read = users[u], x.draft = users[u]
        PROVE  Fit(x)
    BY <2>1, <2>3, <2>5 DEF Fit, Drafted, Counted, Staged, Present
  <2>6. Take(h, at, About("delete", u, users[u]))
    BY <2>1, <2>3
  <2> QED
    BY <1>1, <1>2, <2>1, <2>2, <2>4, <2>5, <2>6, TakeStarts DEF Ops, Steps
<1>9. CASE EditUser(h)
  <2>1. PICK u \in Users, admin, active \in BOOLEAN :
          LET r == users[u]
              disables == r.active /\ ~active IN
          /\ Admins # {} /\ Present(u)
          /\ Take(h, IF (r.admin /\ ~admin) \/ (disables /\ admin) THEN "count"
                     ELSE IF disables THEN "revoke" ELSE "write",
                  About("edit", u, [r EXCEPT !.admin = admin, !.active = active,
                                             !.locked = @ \/ admin # r.admin]))
          /\ UNCHANGED <<setupMu, pws>>
    BY <1>9 DEF EditUser
  <2>2. setupMu' = setupMu /\ pws' \in 0..MaxPw
    BY <1>9 DEF EditUser, TypeInv, TypeOK
  <2>3. PICK at \in {"count", "revoke", "write"} :
          at = (IF (users[u].admin /\ ~admin) \/ (users[u].active /\ ~active /\ admin)
                THEN "count" ELSE IF users[u].active /\ ~active THEN "revoke" ELSE "write")
    OBVIOUS
  <2>4. PICK d : d = [users[u] EXCEPT !.admin = admin, !.active = active,
                                      !.locked = @ \/ admin # users[u].admin]
    OBVIOUS
  <2>5. /\ users[u] \in Row /\ users[u].locked \in BOOLEAN /\ users[u].admin \in BOOLEAN
        /\ users[u].active \in BOOLEAN
    BY <1>2 DEF Row
  <2>6. /\ d \in Row /\ d.is = "present" /\ d.admin = admin /\ d.active = active
        /\ d.pw = users[u].pw
        /\ users[u].locked \/ d.admin # users[u].admin => d.locked
    BY <2>1, <2>4, <2>5 DEF Row, Present
  <2>7. Take(h, at, About("edit", u, d))
    BY <2>1, <2>3, <2>4
  <2>8. Asks(About("edit", u, d), "edit", u, d)
    BY <1>1, <2>6, AboutAsks DEF Ops
  <2>9. at \in {"revoke", "write"} /\ users[u].admin /\ users[u].active =>
          d.admin /\ d.active
    BY <2>3, <2>6
  <2>10. ASSUME NEW x \in Job, x.op = "edit", x.at = at, x.user = u, x.read = users[u],
                x.draft = d
         PROVE  Fit(x)
    BY <2>6, <2>9, <2>10 DEF Fit, Drafted, Counted, Staged
  <2>11. at = "write" => ~users[u].active \/ d.active
    BY <2>3, <2>6
  <2> QED
    BY <1>1, <2>1, <2>2, <2>6, <2>7, <2>8, <2>10, <2>11, TakeStarts DEF Ops, Steps
<1>10. CASE PutPassword(h)
  <2>1. PICK s \in Sessions :
          /\ Owns(s) /\ pws < MaxPw /\ pws' = pws + 1
          /\ Take(h, "write", [About("password", sessions[s].user,
                                     [users[sessions[s].user] EXCEPT !.pw = pws + 1])
                                 EXCEPT !.sid = s])
    BY <1>10 DEF PutPassword
  <2>2. PICK u \in Users : u = sessions[s].user /\ Present(u)
    BY <2>1 DEF TypeInv, OwnersInv, Owns, Active
  <2>3. pws + 1 \in 0..MaxPw /\ pws + 1 # 0 /\ pws' \in 0..MaxPw /\ setupMu' = setupMu
    BY <1>1, <1>10, <2>1, AccountsAssumption DEF TypeOK, PutPassword
  <2>4. PICK d : d = [users[u] EXCEPT !.pw = pws + 1]
    OBVIOUS
  <2>5. /\ d \in Row /\ d.is = "present" /\ d.pw # 0 /\ d.admin = users[u].admin
        /\ d.active = users[u].active /\ d.locked = users[u].locked
    BY <1>2, <2>2, <2>3, <2>4 DEF Row, Present
  <2>6. Take(h, "write", [About("password", u, d) EXCEPT !.sid = s])
    BY <2>1, <2>2, <2>4
  <2>7. Asks([About("password", u, d) EXCEPT !.sid = s], "password", u, d)
    BY <1>1, <2>5, AboutAsks, MoreAsks DEF Ops
  <2>8. ASSUME NEW x \in Job, x.op = "password", x.at = "write", x.user = u,
               x.read = users[u], x.draft = d
        PROVE  Fit(x)
    BY <2>5, <2>8 DEF Fit, Drafted, Counted, Staged
  <2> QED
    BY <1>1, <2>2, <2>3, <2>5, <2>6, <2>7, <2>8, TakeStarts DEF Ops, Steps
<1>11. CASE Unlink(h)
  <2>1. PICK s \in Sessions, sub \in Subjects :
          /\ Owns(s)
          /\ Take(h, "count", [About("unlink", sessions[s].user, users[sessions[s].user])
                                 EXCEPT !.sid = s, !.sub = sub])
    BY <1>11 DEF Unlink
  <2>2. PICK u \in Users : u = sessions[s].user /\ Present(u)
    BY <2>1 DEF TypeInv, OwnersInv, Owns, Active
  <2>3. setupMu' = setupMu /\ pws' \in 0..MaxPw
    BY <1>1, <1>11 DEF Unlink, TypeOK
  <2>4. Take(h, "count", [About("unlink", u, users[u]) EXCEPT !.sid = s, !.sub = sub])
    BY <2>1, <2>2
  <2>5. Asks([About("unlink", u, users[u]) EXCEPT !.sid = s, !.sub = sub],
             "unlink", u, users[u])
    BY <1>1, <1>2, AboutAsks, MoreAsks DEF Ops
  <2>6. ASSUME NEW x \in Job, x.op = "unlink", x.at = "count", x.user = u,
               x.read = users[u], x.draft = users[u]
        PROVE  Fit(x)
    BY <2>2, <2>6 DEF Fit, Drafted, Counted, Staged, Present
  <2> QED
    BY <1>1, <1>2, <2>2, <2>3, <2>4, <2>5, <2>6, TakeStarts DEF Ops, Steps
<1>12. CASE SignOn(h)
  <2>1. PICK sub \in Subjects, u \in Users, group \in BOOLEAN :
          LET d == Synced(users[u], group)
              j == [About("sso", u, d) EXCEPT !.sub = sub] IN
          \/ Active(u) /\ Take(h, AfterIdentity(users[u], d), j)
          \/ Present(u) /\ Take(h, "identity", j)
          \/ Take(h, "create", [j EXCEPT !.draft = Account(group, FALSE, 0)])
    BY <1>12 DEF SignOn
  <2>2. setupMu' = setupMu /\ pws' \in 0..MaxPw
    BY <1>1, <1>12 DEF SignOn, TypeOK
  <2>3. PICK d : d = Synced(users[u], group)
    OBVIOUS
  <2>4. /\ d \in Row /\ d.is = users[u].is /\ d.active = users[u].active
        /\ d.pw = users[u].pw /\ d.locked = users[u].locked
        /\ users[u].locked => d.admin = users[u].admin
    BY <1>2, <2>3 DEF Synced, Row
  <2>5. PICK j : j = [About("sso", u, d) EXCEPT !.sub = sub]
    OBVIOUS
  <2>6. Asks(j, "sso", u, d)
    BY <1>1, <2>4, <2>5, AboutAsks, MoreAsks DEF Ops
  <2>7. j.sub = sub
    <3>1. Asks(About("sso", u, d), "sso", u, d)
      BY <1>1, <2>4, AboutAsks DEF Ops
    <3> QED
      BY <2>5, <3>1 DEF Asks, Job
  <2>8. ASSUME NEW at \in {"write", "sync", "identity"}, Present(u), Take(h, at, j)
        PROVE  Starts(h)
    <3>1. ASSUME NEW x \in Job, x.op = "sso", x.at = at, x.user = u, x.read = users[u],
                 x.draft = d
          PROVE  Fit(x)
      BY <2>4, <2>8, <3>1 DEF Fit, Drafted, Counted, Staged, Present
    <3> QED
      BY <1>1, <2>2, <2>4, <2>6, <2>7, <2>8, <3>1, TakeStarts DEF Ops, Steps
  <2>9. ASSUME Take(h, "create", [j EXCEPT !.draft = Account(group, FALSE, 0)])
        PROVE  Starts(h)
    <3>1. PICK a : a = Account(group, FALSE, 0) /\ a \in Row /\ a.is = "present"
      <4>1. 0 \in 0..MaxPw
        BY AccountsAssumption
      <4> QED
        BY <4>1, RowIs
    <3>2. PICK k : k = [j EXCEPT !.draft = a] /\ Asks(k, "sso", u, a)
      BY <2>6, <3>1, MoreAsks
    <3>3. PICK at \in {"create"} : Take(h, at, k)
      BY <2>9, <3>1, <3>2
    <3>4. ASSUME NEW x \in Job, x.op = "sso", x.at = at, x.user = u, x.read = users[u],
                 x.draft = a
          PROVE  Fit(x)
      BY <3>1, <3>4 DEF Fit, Drafted, Counted, Staged
    <3>5. (at # "create" => Present(u)) /\ at \in Steps \ {"idle"}
      BY DEF Steps
    <3>6. "sso" \in Ops \ {"none", "setup"}
      BY DEF Ops
    <3>7. a \in Row /\ Asks(k, "sso", u, a)
      BY <3>1, <3>2
    <3>8. \A x \in Job : x.op = "sso" /\ x.at = at /\ x.user = u /\ x.read = users[u]
                          /\ x.draft = a => Fit(x)
      BY <3>4
    <3>9. k.sub \in Subjects
      BY <2>6, <2>7, <3>1, <3>2 DEF Asks, Job
    <3> HIDE <3>1, <3>2
    <3> QED
      BY <1>1, <2>2, <3>3, <3>5, <3>6, <3>7, <3>8, <3>9, TakeStarts
  <2>10. AfterIdentity(users[u], d) \in {"write", "sync"} /\ (Active(u) => Present(u))
    BY DEF AfterIdentity, Active
  <2>11. \/ Active(u) /\ Take(h, AfterIdentity(users[u], d), j)
         \/ Present(u) /\ Take(h, "identity", j)
         \/ Take(h, "create", [j EXCEPT !.draft = Account(group, FALSE, 0)])
    BY <2>1, <2>3, <2>5
  <2>12. PICK at \in {"write", "sync"} : at = AfterIdentity(users[u], d)
    BY <2>10
  <2>13. ASSUME Active(u), Take(h, AfterIdentity(users[u], d), j) PROVE Starts(h)
    <3>1. Take(h, at, j)
      BY <2>12, <2>13
    <3> QED
      BY <2>8, <2>10, <2>13, <3>1
  <2> QED
    BY <2>8, <2>9, <2>11, <2>13
<1>13. CASE Setup(h)
  BY <1>1, <1>13, SetupStarts
<1> QED
  BY <1>3, <1>4, <1>5, <1>6, <1>7, <1>8, <1>9, <1>10, <1>11, <1>12, <1>13

-----------------------------------------------------------------------------
(* What a request does to itself as it goes on.                            *)

\* It remains the same request about the same account, and what it has read
\* and will write remains too, except when it creates the account or reads the
\* row again.
Follows(j, x) ==
  /\ x \in Job /\ Fit(x)
  /\ x.op = j.op /\ x.user = j.user /\ x.sid = j.sid /\ x.sub = j.sub
  /\ x.at \notin {"idle", "create"}
  /\ (x.read = j.read /\ x.draft = j.draft) \/ j.op = "login" \/ j.at = "create"
  /\ j.at = "create" => users'[j.user].is # "unused"
  /\ x.at = "identity" => j.at = "create"
  /\ x.op = "edit" /\ x.at = "write" /\ j.read.active /\ ~j.draft.active => j.at = "revoke"

GoesOn(h) ==
  /\ job[h].at # "idle"
  /\ \E x \in Job : /\ job' = [job EXCEPT ![h] = x]
                    /\ x = NoJob \/ Follows(job[h], x)

LEMMA DoneGoesOn ==
  ASSUME NEW h \in Handlers, job[h].at # "idle", Done(h)
  PROVE  GoesOn(h)
  BY NoJobIs DEF GoesOn, Done

LEMMA GotoGoesOn ==
  ASSUME TypeInv, NEW h \in Handlers, NEW at \in {"second", "sync", "write", "open", "revoke"},
         job[h].at \notin {"idle", "create"},
         \/ job[h].op \in {"login", "sso", "password", "reset"}
         \/ job[h].op = "edit" /\ job[h].at = "revoke" /\ at = "write",
         at = "second" => job[h].op = "login", at = "sync" => job[h].op = "sso",
         Goto(h, at)
  PROVE  GoesOn(h)
<1>1. job[h] \in Job /\ Fit(job[h]) /\ job[h] # NoJob
  BY NoJobIs DEF TypeInv, TypeOK, JobsInv
<1>2. PICK j : j = job[h]
  OBVIOUS
<1>3. PICK x : x = [j EXCEPT !.at = at]
  OBVIOUS
<1>4. at \in Steps
  BY DEF Steps
<1>5. /\ x \in Job /\ x.at = at /\ x.op = j.op /\ x.user = j.user /\ x.sid = j.sid
      /\ x.sub = j.sub /\ x.read = j.read /\ x.draft = j.draft /\ x.others = j.others
  BY <1>1, <1>2, <1>3, <1>4 DEF Job
<1>6. Fit(x)
  BY <1>1, <1>2, <1>5 DEF Fit, Drafted, Counted, Staged
<1>7. job' = [job EXCEPT ![h] = x]
  BY <1>2, <1>3 DEF Goto
<1> QED
  BY <1>2, <1>5, <1>6, <1>7 DEF GoesOn, Follows

LEMMA CreateGoesOn ==
  ASSUME TypeInv, NEW h \in Handlers, Create(h)
  PROVE  GoesOn(h)
<1>1. job[h] \in Job /\ Fit(job[h]) /\ job[h] # NoJob /\ users \in [Users -> Row]
  BY NoJobIs DEF TypeInv, TypeOK, JobsInv, Create, At
<1>2. CASE job[h].op = "invite"
  BY <1>2, DoneGoesOn DEF Create, Done, At
<1>3. CASE job[h].op # "invite"
  <2>1. PICK j : j = job[h]
    OBVIOUS
  <2>2. PICK at \in {"identity", "open"} :
          at = (IF j.op = "sso" THEN "identity" ELSE "open")
    OBVIOUS
  <2>3. PICK x : x = [j EXCEPT !.at = at, !.read = j.draft, !.by = j.draft.pw]
    OBVIOUS
  <2>4. /\ x \in Job /\ x.at = at
        /\ x.op = j.op /\ x.user = j.user /\ x.sid = j.sid /\ x.sub = j.sub
        /\ x.read = j.draft /\ x.draft = j.draft /\ x.others = j.others
    <3>1. at \in Steps
      BY DEF Steps
    <3>2. j.draft \in Row /\ j.draft.pw \in 0..MaxPw
      BY <1>1, <2>1 DEF Job, Row
    <3> QED
      BY <1>1, <2>1, <2>3, <3>1, <3>2 DEF Job
  <2>5. j.op \in {"setup", "register", "sso"} /\ j.at = "create"
        /\ j.user \in Users /\ j.draft.is = "present"
    BY <1>1, <1>3, <2>1 DEF Create, At, Fit, Staged
  <2>6. Fit(x)
    BY <1>1, <2>1, <2>2, <2>4, <2>5 DEF Fit, Drafted, Counted, Staged
  <2>7. job' = [job EXCEPT ![h] = x]
    BY <1>3, <2>1, <2>2, <2>3 DEF Create
  <2>8. users'[j.user].is # "unused"
    BY <1>1, <2>1, <2>5 DEF Create
  <2> QED
    BY <2>1, <2>2, <2>4, <2>5, <2>6, <2>7, <2>8 DEF GoesOn, Follows
<1> QED
  BY <1>2, <1>3

LEMMA SecondStepGoesOn ==
  ASSUME TypeInv, NEW h \in Handlers, SecondStep(h)
  PROVE  GoesOn(h)
<1>1. job[h] \in Job /\ Fit(job[h]) /\ job[h] # NoJob /\ users \in [Users -> Row]
  BY NoJobIs DEF TypeInv, TypeOK, JobsInv, SecondStep, At
<1>2. PICK j : j = job[h]
  OBVIOUS
<1>3. CASE ~Active(j.user)
  BY <1>2, <1>3, DoneGoesOn DEF SecondStep, Done, At
<1>4. CASE Active(j.user)
  <2>1. j.op = "login" /\ j.at = "second" /\ j.user \in Users
    BY <1>1, <1>2 DEF SecondStep, At, Fit, Staged
  <2>2. PICK r \in Row : r = users[j.user] /\ r.is = "present"
    BY <1>1, <1>4, <2>1 DEF Active, Present
  <2>3. PICK x : x = [j EXCEPT !.at = "write", !.read = r, !.draft = r]
    OBVIOUS
  <2>4. /\ x \in Job /\ x.at = "write" /\ x.op = j.op /\ x.user = j.user /\ x.sid = j.sid
        /\ x.sub = j.sub /\ x.read = r /\ x.draft = r
    BY <1>1, <1>2, <2>3 DEF Job, Steps
  <2>5. Fit(x)
    BY <2>1, <2>2, <2>4 DEF Fit, Drafted, Counted, Staged
  <2>6. job' = [job EXCEPT ![h] = x]
    BY <1>2, <1>4, <2>2, <2>3 DEF SecondStep, Active
  <2> QED
    BY <1>2, <2>1, <2>4, <2>5, <2>6 DEF GoesOn, Follows
<1> QED
  BY <1>3, <1>4

LEMMA IdentitiesAre ==
  ASSUME TypeOK, NEW u, NEW sub \in Subjects, Identities(u) = {sub}
  PROVE  ~(Cardinality(Identities(u)) > 1)
<1>1. Cardinality({sub}) = 1
  BY FS_Singleton
<1> QED
  BY <1>1

LEMMA CountGoesOn ==
  ASSUME TypeInv, NEW h \in Handlers, Count(h)
  PROVE  GoesOn(h)
<1>1. job[h] \in Job /\ Fit(job[h]) /\ job[h] # NoJob /\ TypeOK
  BY NoJobIs DEF TypeInv, TypeOK, JobsInv, Count, At
<1>2. PICK j : j = job[h]
  OBVIOUS
<1>3. CASE ~Suffices(j)
  BY <1>2, <1>3, DoneGoesOn DEF Count, Done, At
<1>4. CASE Suffices(j)
  <2>1. j.op \in {"edit", "delete", "unlink"} /\ j.at = "count"
    BY <1>1, <1>2 DEF Count, At, Fit, Staged
  <2>2. PICK next \in {"revoke", "write"} :
          next = (IF j.op = "edit" /\ j.read.active /\ ~j.draft.active
                  THEN "revoke" ELSE "write")
    OBVIOUS
  <2>3. PICK others \in BOOLEAN :
          others = (IF j.op = "unlink" THEN Identities(j.user) # {j.sub}
                                       ELSE Admins \ {j.user} # {})
    OBVIOUS
  <2>4. PICK x : x = [j EXCEPT !.at = next, !.others = others]
    OBVIOUS
  <2>5. /\ x \in Job /\ x.at = next /\ x.op = j.op /\ x.user = j.user /\ x.sid = j.sid
        /\ x.sub = j.sub /\ x.read = j.read /\ x.draft = j.draft /\ x.others = others
    <3>1. next \in Steps
      BY DEF Steps
    <3> QED
      BY <1>1, <1>2, <2>4, <3>1 DEF Job
  <2>6. job' = [job EXCEPT ![h] = x]
    BY <1>2, <1>4, <2>2, <2>3, <2>4 DEF Count
  <2>7. j.op # "unlink" => others
    BY <1>4, <2>3 DEF Suffices
  <2>8. j.op = "unlink" => others \/ j.read.pw # 0
    <3>1. j.sub \in Subjects \/ Identities(j.user) # {j.sub}
      BY DEF Identities
    <3> QED
      BY <1>1, <1>4, <2>3, <3>1, IdentitiesAre DEF Suffices
  <2>9. Fit(x)
    BY <1>1, <1>2, <2>1, <2>2, <2>5, <2>7, <2>8 DEF Fit, Drafted, Counted, Staged
  <2> QED
    BY <1>2, <2>1, <2>2, <2>5, <2>6, <2>9 DEF GoesOn, Follows
<1> QED
  BY <1>3, <1>4

LEMMA RequestsGoOn ==
  ASSUME TypeInv, NEW h \in Handlers, Request(h), ~Starts(h)
  PROVE  GoesOn(h)
<1>1. Fit(job[h]) /\ (job[h].at # "idle" => job[h] # NoJob)
  BY NoJobIs DEF TypeInv, JobsInv
<1>2. CASE CreateFails(h) \/ AddIdentityFails(h) \/ Open(h) \/ WriteRow(h)
           \/ RevokeOthers(h) \/ DeleteRow(h) \/ DeleteIdentity(h) \/ WriteFails(h)
  <2>1. Done(h) /\ job[h].at # "idle"
    BY <1>2 DEF CreateFails, AddIdentityFails, Open, WriteRow, RevokeOthers, DeleteRow,
                DeleteIdentity, WriteFails, At
  <2> QED
    BY <2>1, DoneGoesOn
<1>3. CASE Rehash(h)
  <2>1. PICK at \in {"second", "write"} : Goto(h, at)
    BY <1>3 DEF Rehash
  <2>2. job[h].at = "rehash" /\ job[h].op = "login"
    BY <1>1, <1>3 DEF Rehash, At, Fit, Staged
  <2> QED
    BY <2>1, <2>2, GotoGoesOn
<1>4. CASE AddIdentity(h)
  <2>1. job[h].at = "identity" /\ job[h].op = "sso"
    BY <1>1, <1>4 DEF AddIdentity, At, Fit, Staged
  <2>2. AfterIdentity(job[h].read, job[h].draft) \in {"sync", "write"}
    BY DEF AfterIdentity
  <2>3. CASE job[h].read.active
    BY <1>4, <2>1, <2>2, <2>3, GotoGoesOn DEF AddIdentity
  <2>4. CASE ~job[h].read.active
    BY <1>4, <2>1, <2>4, DoneGoesOn DEF AddIdentity
  <2> QED
    BY <2>3, <2>4
<1>5. CASE Sync(h)
  <2>1. job[h].at = "sync" /\ job[h].op = "sso" /\ Goto(h, "write")
    BY <1>1, <1>5 DEF Sync, At, Fit, Staged, Goto
  <2> QED
    BY <2>1, GotoGoesOn
<1>6. CASE WriteBack(h)
  <2>1. job[h].at = "write" /\ job[h].op \in {"login", "sso"} /\ Goto(h, "open")
    BY <1>6 DEF WriteBack, At
  <2> QED
    BY <2>1, GotoGoesOn
<1>7. CASE Revoke(h)
  <2>1. job[h].at = "revoke" /\ job[h].op = "edit" /\ Goto(h, "write")
    BY <1>7 DEF Revoke, At
  <2> QED
    BY <2>1, GotoGoesOn
<1>8. CASE WritePassword(h)
  <2>1. job[h].at = "write" /\ job[h].op \in {"password", "reset"} /\ Goto(h, "revoke")
    BY <1>8 DEF WritePassword, At
  <2> QED
    BY <2>1, GotoGoesOn
<1>9. CASE RevokeFails(h)
  <2>1. job[h].at = "revoke"
    BY <1>9 DEF RevokeFails, At
  <2>2. CASE job[h].op = "edit"
    BY <1>9, <2>1, <2>2, GotoGoesOn DEF RevokeFails
  <2>3. CASE job[h].op # "edit"
    BY <1>9, <2>1, <2>3, DoneGoesOn DEF RevokeFails
  <2> QED
    BY <2>2, <2>3
<1> QED
  BY <1>2, <1>3, <1>4, <1>5, <1>6, <1>7, <1>8, <1>9, CreateGoesOn, SecondStepGoesOn,
     CountGoesOn, RequestsStart DEF Request

-----------------------------------------------------------------------------
(* What a request does to the rows of users.                               *)

\* It leaves them alone; or makes an account; or writes back a row, which had
\* not changed since it was read unless that is a slip; or deletes one.
Creates(h) ==
  /\ job[h].at = "create" /\ users[job[h].user].is = "unused"
  /\ users' = [users EXCEPT ![job[h].user] = job[h].draft]

Writes(h) ==
  /\ Present(job[h].user)
  /\ job[h].at \in {"rehash", "sync", "write"}
  /\ job[h].op \in {"login", "sso", "profile", "edit", "password", "reset"}
  /\ users' = [users EXCEPT ![job[h].user] = job[h].draft]
  /\ "write" \in slips' \/ users[job[h].user] = job[h].read

Deletes(h) ==
  /\ job[h].at = "write" /\ job[h].op = "delete"
  /\ users' = [users EXCEPT ![job[h].user] = [Unused EXCEPT !.is = "deleted"]]

RowsMove(h) ==
  job[h].at # "idle" /\ (Creates(h) \/ Writes(h) \/ Deletes(h))

LEMMA StoreWrites ==
  ASSUME TypeInv, NEW h \in Handlers, Store(job[h].user, job[h].draft),
         job[h].at \in {"rehash", "sync", "write"},
         job[h].op \in {"login", "sso", "profile", "edit", "password", "reset"},
         users[job[h].user] # job[h].draft =>
           Stale(job[h]) = {} \/ "write" \in slips'
  PROVE  users' = users \/ RowsMove(h)
<1>1. users \in [Users -> Row] /\ job[h].user \in Users
  BY NoJobIs DEF TypeInv, TypeOK, JobsInv, Fit
<1>2. CASE ~Present(job[h].user)
  BY <1>2 DEF Store
<1>3. CASE Present(job[h].user) /\ users[job[h].user] = job[h].draft
  <2>1. users' = [users EXCEPT ![job[h].user] = users[job[h].user]]
    BY <1>3 DEF Store
  <2> QED
    BY <1>1, <2>1
<1>4. CASE Present(job[h].user) /\ users[job[h].user] # job[h].draft
  <2>1. "write" \in slips' \/ users[job[h].user] = job[h].read
    BY <1>4 DEF Stale
  <2>2. users' = [users EXCEPT ![job[h].user] = job[h].draft]
    BY <1>4 DEF Store
  <2>3. job[h].at # "idle"
    OBVIOUS
  <2> QED
    BY <1>4, <2>1, <2>2, <2>3 DEF RowsMove, Writes
<1> QED
  BY <1>2, <1>3, <1>4

LEMMA RowSteps ==
  ASSUME TypeInv, NEW h \in Handlers, Request(h)
  PROVE  users' = users \/ RowsMove(h)
<1>1. Fit(job[h]) /\ (job[h].at # "idle" => job[h] # NoJob)
  BY NoJobIs DEF TypeInv, JobsInv
<1>2. CASE Starts(h)
  BY <1>2 DEF Starts, tables
<1>3. CASE Create(h)
  BY <1>3 DEF Create, At, RowsMove, Creates
<1>4. CASE Rehash(h)
  <2>1. job[h].at = "rehash" /\ job[h].op = "login"
    BY <1>1, <1>4 DEF Rehash, At, Fit, Staged
  <2>2. CASE Store(job[h].user, job[h].draft) /\ Slip(Stale(job[h]))
    <3>1. Stale(job[h]) = {} \/ "write" \in slips'
      BY <2>2 DEF Slip, Stale
    <3> QED
      BY <2>1, <2>2, <3>1, StoreWrites
  <2> QED
    BY <1>4, <2>2 DEF Rehash
<1>5. CASE Sync(h)
  <2>1. job[h].at = "sync" /\ job[h].op = "sso"
    BY <1>1, <1>5 DEF Sync, At, Fit, Staged
  <2>2. CASE Store(job[h].user, job[h].draft)
             /\ Slip(Stale(job[h]) \cup (IF job[h].read.admin THEN {"sync"} ELSE {}))
    <3>1. Stale(job[h]) = {} \/ "write" \in slips'
      BY <2>2 DEF Slip, Stale
    <3> QED
      BY <2>1, <2>2, <3>1, StoreWrites
  <2> QED
    BY <1>5, <2>2 DEF Sync
<1>6. CASE WriteBack(h)
  <2>1. job[h].at = "write" /\ job[h].op \in {"login", "sso"}
    BY <1>6 DEF WriteBack, At
  <2>2. ASSUME Store(job[h].user, job[h].draft), ~(users' = users)
        PROVE  RowsMove(h)
    <3>1. users[job[h].user] # job[h].draft => Stale(job[h]) = {} \/ "write" \in slips'
      BY <1>6, <2>2 DEF WriteBack, Slip, Stale
    <3> QED
      BY <2>1, <2>2, <3>1, StoreWrites
  <2> QED
    BY <1>6, <2>2 DEF WriteBack
<1>7. CASE WriteRow(h) \/ WritePassword(h)
  <2>1. job[h].at = "write" /\ job[h].op \in {"profile", "edit", "password", "reset"}
    BY <1>7 DEF WriteRow, WritePassword, At
  <2>2. Store(job[h].user, job[h].draft)
    BY <1>7 DEF WriteRow, WritePassword
  <2>3. Stale(job[h]) = {} \/ "write" \in slips'
    BY <1>7 DEF WriteRow, WritePassword, Slip, Stale
  <2> QED
    BY <2>1, <2>2, <2>3, StoreWrites
<1>8. CASE DeleteRow(h)
  BY <1>8 DEF DeleteRow, Erase, At, RowsMove, Deletes
<1>9. CASE \/ CreateFails(h) \/ SecondStep(h) \/ AddIdentity(h) \/ AddIdentityFails(h)
           \/ Open(h) \/ Count(h) \/ Revoke(h) \/ RevokeOthers(h) \/ RevokeFails(h)
           \/ DeleteIdentity(h) \/ WriteFails(h)
  BY <1>9 DEF CreateFails, SecondStep, AddIdentity, AddIdentityFails, Open, Count, Revoke,
              RevokeOthers, RevokeFails, DeleteIdentity, WriteFails, tables
<1> QED
  BY <1>2, <1>3, <1>4, <1>5, <1>6, <1>7, <1>8, <1>9, RequestsStart DEF Request

\* What is deleted or in use stays so.
RowsKept ==
  \A u \in Users : /\ users[u].is # "unused" => users'[u].is # "unused"
                   /\ users[u].is = "deleted" => users'[u].is = "deleted"
                   /\ users'[u].is = "present" /\ ~Present(u) =>
                        users[u].is = "unused"

LEMMA MovedRows ==
  ASSUME TypeInv, NEW h \in Handlers, RowsMove(h)
  PROVE  users' \in [Users -> Row] /\ RowsKept
<1>1. /\ users \in [Users -> Row] /\ job[h] \in Job /\ job[h].user \in Users
      /\ job[h].draft.is = "present"
      /\ job[h].at # "create" => users[job[h].user].is # "unused"
  BY NoJobIs DEF TypeInv, TypeOK, JobsInv, Fit, RowsMove
<1>2. job[h].draft \in Row
  BY <1>1 DEF Job
<1>3. PICK gone \in Row : gone = [Unused EXCEPT !.is = "deleted"] /\ gone.is = "deleted"
  BY RowIs DEF Unused
<1>4. CASE Creates(h) \/ Writes(h)
  <2>1. users' = [users EXCEPT ![job[h].user] = job[h].draft]
    BY <1>4 DEF Creates, Writes
  <2>2. users[job[h].user].is \in {"unused", "present"}
    BY <1>4 DEF Creates, Writes, Present
  <2> QED
    BY <1>1, <1>2, <2>1, <2>2 DEF RowsKept, Present
<1>5. CASE Deletes(h)
  <2>1. users' = [users EXCEPT ![job[h].user] = gone] /\ job[h].at # "create"
    BY <1>3, <1>5 DEF Deletes
  <2> QED
    BY <1>1, <1>3, <2>1 DEF RowsKept, Present
<1> QED
  BY <1>4, <1>5 DEF RowsMove

LEMMA RowsNext ==
  ASSUME TypeInv, [Next]_vars
  PROVE  users' \in [Users -> Row] /\ RowsKept
<1>1. \A u \in Users : users[u].is \in {"unused", "present", "deleted"}
  BY DEF TypeInv, TypeOK, Row
<1>2. CASE users' = users
  BY <1>1, <1>2 DEF TypeInv, TypeOK, RowsKept, Present
<1>3. ASSUME NEW h \in Handlers, Request(h)
      PROVE  users' = users \/ RowsMove(h)
  BY <1>3, RowSteps
<1>4. CASE EndSession \/ EndSessions \/ Link \/ AdminUnlink \/ UNCHANGED vars
  BY <1>2, <1>4 DEF EndSession, EndSessions, Link, AdminUnlink, vars, tables
<1> QED
  BY <1>2, <1>3, <1>4, MovedRows DEF Next

-----------------------------------------------------------------------------
(* What a step does to a session.                                          *)

Stays(s) == sessions'[s] = sessions[s] \/ sessions'[s] = NoSession

\* A sign-in opens it, too late only if that is a slip.
Opens(h, s) ==
  /\ job[h].at = "open" /\ Present(job[h].user)
  /\ sessions[s] = NoSession
  /\ sessions'[s] = [user |-> job[h].user, by |-> job[h].by]
  /\ "session" \in slips' \/ ~TooLate(job[h])
  /\ users' = users

\* It came with the new password of its owner.
Verifies(h, s) ==
  /\ job[h].at = "write" /\ job[h].op \in {"password", "reset"}
  /\ s = job[h].sid /\ sessions[s].user = job[h].user
  /\ sessions'[s] = [sessions[s] EXCEPT !.by = job[h].draft.pw]

SessionMoves(h, s) == Stays(s) \/ Opens(h, s) \/ Verifies(h, s)

LEMMA NoSessionIs ==
  /\ NoSession \in Session /\ NoSession.user = Nobody /\ Nobody \notin Users
  /\ \A u \in Users, pw \in 0..MaxPw :
       /\ [user |-> u, by |-> pw] \in Session
       /\ [user |-> u, by |-> pw].user = u /\ [user |-> u, by |-> pw].by = pw
  BY AccountsAssumption DEF NoSession, Session

LEMMA SessionSteps ==
  ASSUME TypeInv, NEW h \in Handlers, Request(h), NEW s \in Sessions
  PROVE  /\ SessionMoves(h, s)
         /\ sessions' \in [Sessions -> Session]
         /\ RowsMove(h) /\ Deletes(h) => sessions'[s].user # job[h].user
<1>1. /\ sessions \in [Sessions -> Session] /\ job[h] \in Job /\ Fit(job[h])
      /\ users \in [Users -> Row]
  BY DEF TypeInv, TypeOK, JobsInv
<1>2. job[h].at # "idle" => job[h].user \in Users
  BY <1>1, NoJobIs DEF Fit
<1>3. \A x \in Sessions : sessions[x] \in Session
  BY <1>1
<1>4. CASE sessions' = sessions /\ ~DeleteRow(h)
  <2>1. ASSUME RowsMove(h), Deletes(h) PROVE sessions'[s].user # job[h].user
    <3>1. job[h].at = "write" /\ job[h].op = "delete" /\ job[h].user \in Users
      BY <1>2, <2>1 DEF RowsMove, Deletes
    <3>2. users' = [users EXCEPT ![job[h].user] = [Unused EXCEPT !.is = "deleted"]]
      BY <2>1 DEF Deletes
    <3>3. ~Starts(h)
      BY <3>1, NoJobIs DEF Starts
    <3>4. users' = users
      BY <1>4, <3>1, <3>3, RequestsStart
         DEF Request, Create, CreateFails, Rehash, SecondStep, AddIdentity, AddIdentityFails,
             Sync, WriteBack, Open, Count, Revoke, WriteRow, WritePassword, RevokeOthers,
             RevokeFails, DeleteIdentity, WriteFails, At, tables
    <3>5. users[job[h].user].is = "deleted"
      <4>1. [Unused EXCEPT !.is = "deleted"].is = "deleted"
        BY DEF Unused
      <4> QED
        BY <1>1, <3>1, <3>2, <3>4, <4>1
    <3>6. sessions[s] = NoSession \/ Present(sessions[s].user)
      BY DEF TypeInv, TypeOK
    <3> QED
      BY <1>4, <3>1, <3>5, <3>6, NoSessionIs DEF Present
  <2> QED
    BY <1>1, <1>4, <2>1 DEF SessionMoves, Stays
<1>5. CASE Open(h)
  <2>1. CASE sessions' = sessions
    BY <1>4, <1>5, <2>1 DEF Open, DeleteRow, At
  <2>2. ASSUME NEW x \in Sessions,
               Present(job[h].user), sessions[x] = NoSession,
               sessions' = [sessions EXCEPT ![x] = [user |-> job[h].user, by |-> job[h].by]],
               Slip(IF TooLate(job[h]) THEN {"session"} ELSE {})
        PROVE  SessionMoves(h, s) /\ sessions' \in [Sessions -> Session]
    <3>1. job[h].at = "open" /\ job[h].user \in Users /\ job[h].by \in 0..MaxPw /\ users' = users
      BY <1>1, <1>2, <1>5 DEF Open, At, Job
    <3>2. PICK new \in Session : new = [user |-> job[h].user, by |-> job[h].by]
      BY <3>1, NoSessionIs
    <3>3. "session" \in slips' \/ ~TooLate(job[h])
      BY <2>2 DEF Slip
    <3>4. CASE s = x
      BY <1>1, <2>2, <3>1, <3>2, <3>3, <3>4 DEF SessionMoves, Opens
    <3>5. CASE s # x
      BY <1>1, <2>2, <3>2, <3>5 DEF SessionMoves, Stays
    <3>6. sessions' \in [Sessions -> Session]
      BY <1>1, <2>2, <3>2
    <3> QED
      BY <3>4, <3>5, <3>6
  <2>3. ~Deletes(h)
    BY <1>5 DEF Open, Deletes, At
  <2> QED
    BY <1>5, <2>1, <2>2, <2>3 DEF Open
<1>6. CASE Revoke(h) \/ RevokeOthers(h)
  <2>1. PICK gone \in SUBSET Sessions :
          sessions' = [x \in Sessions |-> IF x \in gone THEN NoSession ELSE sessions[x]]
    <3>1. CASE Revoke(h)
      <4>1. sessions' = [x \in Sessions |->
              IF x \in {y \in Sessions : sessions[y].user = job[h].user}
              THEN NoSession ELSE sessions[x]]
        BY <3>1 DEF Revoke
      <4> QED
        BY <4>1
    <3>2. CASE RevokeOthers(h)
      <4>1. sessions' = [x \in Sessions |->
              IF x \in {y \in Sessions : sessions[y].user = job[h].user /\ y # job[h].sid}
              THEN NoSession ELSE sessions[x]]
        BY <3>2 DEF RevokeOthers
      <4> QED
        BY <4>1
    <3> QED
      BY <1>6, <3>1, <3>2
  <2>2. ~Deletes(h)
    BY <1>6 DEF Revoke, RevokeOthers, Deletes, At
  <2> QED
    BY <1>3, <2>1, <2>2, NoSessionIs DEF SessionMoves, Stays
<1>7. CASE DeleteRow(h)
  <2>1. sessions' = [x \in Sessions |->
          IF sessions[x].user = job[h].user THEN NoSession ELSE sessions[x]]
        /\ job[h].user \in Users
    BY <1>2, <1>7 DEF DeleteRow, Erase, At
  <2> QED
    BY <1>3, <2>1, NoSessionIs DEF SessionMoves, Stays
<1>8. CASE WritePassword(h)
  <2>1. /\ job[h].at = "write" /\ job[h].op \in {"password", "reset"}
        /\ sessions' = [x \in Sessions |->
             IF x = job[h].sid /\ sessions[x].user = job[h].user
             THEN [sessions[x] EXCEPT !.by = job[h].draft.pw] ELSE sessions[x]]
    BY <1>8 DEF WritePassword, At
  <2>2. job[h].draft.pw \in 0..MaxPw
    BY <1>1 DEF Job, Row
  <2>3. ASSUME NEW x \in Sessions
        PROVE  [sessions[x] EXCEPT !.by = job[h].draft.pw] \in Session
    BY <1>3, <2>2 DEF Session
  <2>4. ~Deletes(h)
    BY <2>1 DEF Deletes
  <2>5. sessions' \in [Sessions -> Session]
    BY <1>3, <2>1, <2>3
  <2>6. SessionMoves(h, s)
    BY <2>1 DEF SessionMoves, Stays, Verifies
  <2> QED
    BY <2>4, <2>5, <2>6
<1>9. CASE \/ Starts(h) \/ Create(h) \/ CreateFails(h) \/ Rehash(h) \/ SecondStep(h)
           \/ AddIdentity(h) \/ AddIdentityFails(h) \/ Sync(h) \/ WriteBack(h) \/ Count(h)
           \/ WriteRow(h) \/ RevokeFails(h) \/ DeleteIdentity(h) \/ WriteFails(h)
  <2>1. sessions' = sessions
    BY <1>9 DEF Starts, Create, CreateFails, Rehash, SecondStep, AddIdentity,
                AddIdentityFails, Sync, WriteBack, Count, WriteRow, RevokeFails,
                DeleteIdentity, WriteFails, tables
  <2> QED
    BY <1>4, <1>7, <2>1
<1> QED
  BY <1>5, <1>6, <1>7, <1>8, <1>9, RequestsStart DEF Request

-----------------------------------------------------------------------------
(* Types.                                                                  *)

LEMMA SessionsNext ==
  ASSUME TypeInv, [Next]_vars
  PROVE  /\ sessions' \in [Sessions -> Session]
         /\ OwnersInv'
         /\ \A s \in Sessions : \/ sessions'[s] = NoSession
                                \/ users'[sessions'[s].user].is = "present"
<1>1. /\ sessions \in [Sessions -> Session] /\ users \in [Users -> Row]
      /\ \A s \in Sessions :
           \/ sessions[s] = NoSession
           \/ sessions[s].user \in Users /\ Present(sessions[s].user)
  BY DEF TypeInv, TypeOK, OwnersInv
<1>2. ASSUME NEW h \in Handlers, Request(h), NEW s \in Sessions
      PROVE  \/ sessions'[s] = NoSession
             \/ sessions'[s].user \in Users /\ users'[sessions'[s].user].is = "present"
  <2>1. /\ SessionMoves(h, s) /\ (RowsMove(h) /\ Deletes(h) => sessions'[s].user # job[h].user)
        /\ sessions[s] \in Session /\ job[h] \in Job
    BY <1>1, <1>2, SessionSteps DEF TypeInv, TypeOK
  <2>2. job[h].at # "idle" => job[h].user \in Users /\ job[h].draft.is = "present"
    BY NoJobIs DEF TypeInv, JobsInv, Fit
  <2>3. CASE Opens(h, s)
    <3>1. sessions'[s].user = job[h].user /\ job[h].at = "open" /\ users' = users
      BY <2>3 DEF Opens
    <3> QED
      BY <2>2, <2>3, <3>1 DEF Opens, Present
  <2>4. ASSUME sessions'[s].user = sessions[s].user, sessions[s] # NoSession
        PROVE  sessions'[s].user \in Users /\ users'[sessions'[s].user].is = "present"
    <3>1. sessions[s].user \in Users /\ users[sessions[s].user].is = "present"
      BY <1>1, <2>4 DEF Present
    <3>2. CASE users' = users
      BY <2>4, <3>1, <3>2
    <3>3. CASE RowsMove(h) /\ (Creates(h) \/ Writes(h))
      <4>1. users' = [users EXCEPT ![job[h].user] = job[h].draft]
            /\ job[h].draft.is = "present"
        BY <2>2, <3>3 DEF RowsMove, Creates, Writes
      <4> QED
        BY <1>1, <2>4, <3>1, <4>1
    <3>4. CASE RowsMove(h) /\ Deletes(h)
      <4>1. users' = [users EXCEPT ![job[h].user] = [Unused EXCEPT !.is = "deleted"]]
        BY <3>4 DEF Deletes
      <4> QED
        BY <1>1, <2>1, <2>4, <3>1, <3>4, <4>1
    <3> QED
      BY <1>2, <3>2, <3>3, <3>4, RowSteps DEF RowsMove
  <2>5. CASE Verifies(h, s)
    <3>1. sessions'[s].user = sessions[s].user /\ job[h].at = "write"
          /\ sessions[s].user = job[h].user
      BY <2>1, <2>5 DEF Verifies, Session
    <3>2. sessions[s] # NoSession
      BY <2>2, <3>1, NoSessionIs
    <3> QED
      BY <2>4, <3>1, <3>2
  <2> QED
    BY <2>1, <2>3, <2>4, <2>5 DEF SessionMoves, Stays
<1>3. ASSUME NEW h \in Handlers, Request(h)
      PROVE  sessions' \in [Sessions -> Session]
  <2>1. CASE Sessions = {}
    <3>1. sessions' = sessions \/ sessions' \in [Sessions -> Session]
      BY <1>3, <2>1, RequestsStart, <1>1
         DEF Request, Starts, Create, CreateFails, Rehash, SecondStep, AddIdentity,
             AddIdentityFails, Sync, WriteBack, Open, Count, Revoke, WriteRow, WritePassword,
             RevokeOthers, RevokeFails, DeleteRow, Erase, DeleteIdentity, WriteFails, tables
    <3> QED
      BY <1>1, <3>1
  <2>2. CASE Sessions # {}
    BY <1>3, <2>2, SessionSteps
  <2> QED
    BY <2>1, <2>2
<1>4. CASE EndSession
  BY <1>1, <1>4, NoSessionIs DEF EndSession, OwnersInv, Present
<1>5. CASE EndSessions
  <2>1. PICK u \in Users :
          sessions' = [s \in Sessions |-> IF sessions[s].user = u THEN NoSession
                                                                  ELSE sessions[s]]
    BY <1>5 DEF EndSessions
  <2>2. \A s \in Sessions : sessions'[s] = NoSession \/ sessions'[s] = sessions[s]
    BY <2>1
  <2>3. sessions' \in [Sessions -> Session]
    BY <1>1, <2>1, NoSessionIs
  <2> QED
    BY <1>1, <1>5, <2>2, <2>3 DEF EndSessions, OwnersInv, Present
<1>6. CASE Link \/ AdminUnlink \/ UNCHANGED vars
  <2>1. sessions' = sessions /\ users' = users
    BY <1>6 DEF Link, AdminUnlink, vars, tables
  <2> QED
    BY <1>1, <2>1 DEF OwnersInv, Present
<1> QED
  BY <1>2, <1>3, <1>4, <1>5, <1>6 DEF Next, OwnersInv, Present

\* What a step does to the identity of a subject.
IdentityMoves(h, sub) ==
  \/ identity'[sub] = identity[sub]
  \/ identity'[sub] = Nobody
  \/ /\ job[h].at = "identity" /\ identity[sub] = Nobody
     /\ identity'[sub] = job[h].user /\ Present(job[h].user) /\ users' = users

LEMMA IdentitySteps ==
  ASSUME TypeInv, NEW h \in Handlers, Request(h)
  PROVE  /\ identity' \in [Subjects -> Users \cup {Nobody}]
         /\ \A sub \in Subjects : IdentityMoves(h, sub)
         /\ Deletes(h) => users' = users \/ \A sub \in Subjects : identity'[sub] # job[h].user
<1>1. identity \in [Subjects -> Users \cup {Nobody}] /\ job[h] \in Job /\ Fit(job[h])
  BY DEF TypeInv, TypeOK, JobsInv
<1>2. job[h].at # "idle" => job[h].user \in Users
  BY <1>1, NoJobIs DEF Fit
<1>3. CASE AddIdentity(h)
  <2>1. /\ job[h].at = "identity" /\ Present(job[h].user) /\ users' = users
        /\ identity[job[h].sub] = Nobody
        /\ identity' = [identity EXCEPT ![job[h].sub] = job[h].user]
    BY <1>3 DEF AddIdentity, At
  <2> QED
    BY <1>1, <1>2, <2>1 DEF IdentityMoves
<1>4. CASE DeleteRow(h)
  <2>1. /\ job[h].user \in Users
        /\ identity' = [sub \in Subjects |->
                          IF identity[sub] = job[h].user THEN Nobody ELSE identity[sub]]
    BY <1>2, <1>4 DEF DeleteRow, Erase, At
  <2> QED
    BY <1>1, <2>1, AccountsAssumption DEF IdentityMoves
<1>5. CASE DeleteIdentity(h)
  <2>1. /\ job[h].op = "unlink"
        /\ identity' = IF identity[job[h].sub] = job[h].user
                       THEN [identity EXCEPT ![job[h].sub] = Nobody] ELSE identity
    BY <1>5 DEF DeleteIdentity
  <2> QED
    BY <1>1, <2>1 DEF IdentityMoves, Deletes
<1>6. CASE \/ Starts(h) \/ Create(h) \/ CreateFails(h) \/ Rehash(h) \/ SecondStep(h)
           \/ AddIdentityFails(h) \/ Sync(h) \/ WriteBack(h) \/ Open(h) \/ Count(h)
           \/ Revoke(h) \/ WriteRow(h) \/ WritePassword(h) \/ RevokeOthers(h)
           \/ RevokeFails(h) \/ WriteFails(h)
  <2>1. identity' = identity
    BY <1>6 DEF Starts, Create, CreateFails, Rehash, SecondStep, AddIdentityFails, Sync,
                WriteBack, Open, Count, Revoke, WriteRow, WritePassword, RevokeOthers,
                RevokeFails, WriteFails, tables
  <2>2. Deletes(h) => users' = users
    BY <1>6, NoJobIs
       DEF Deletes, Starts, Create, CreateFails, Rehash, SecondStep, AddIdentityFails, Sync,
           WriteBack, Open, Count, Revoke, WriteRow, WritePassword, RevokeOthers,
           RevokeFails, WriteFails, At, tables
  <2> QED
    BY <1>1, <2>1, <2>2 DEF IdentityMoves
<1> QED
  BY <1>3, <1>4, <1>5, <1>6, RequestsStart DEF Request

LEMMA IdentityNext ==
  ASSUME TypeInv, [Next]_vars
  PROVE  /\ identity' \in [Subjects -> Users \cup {Nobody}]
         /\ \A sub \in Subjects : \/ identity'[sub] = Nobody
                                  \/ users'[identity'[sub]].is = "present"
<1>1. /\ identity \in [Subjects -> Users \cup {Nobody}] /\ users \in [Users -> Row]
      /\ \A sub \in Subjects : identity[sub] = Nobody \/ Present(identity[sub])
  BY DEF TypeInv, TypeOK
<1>2. ASSUME NEW h \in Handlers, Request(h), NEW sub \in Subjects
      PROVE  identity'[sub] = Nobody \/ users'[identity'[sub]].is = "present"
  <2>1. /\ IdentityMoves(h, sub)
        /\ Deletes(h) => users' = users \/ identity'[sub] # job[h].user
    BY <1>2, IdentitySteps
  <2>2. job[h].at # "idle" => job[h].user \in Users /\ job[h].draft.is = "present"
    BY NoJobIs DEF TypeInv, JobsInv, Fit
  <2>3. CASE identity'[sub] = identity[sub] /\ identity[sub] # Nobody
    <3>1. identity[sub] \in Users /\ users[identity[sub]].is = "present"
      BY <1>1, <2>3 DEF Present
    <3>2. CASE users' = users
      BY <2>3, <3>1, <3>2
    <3>3. CASE RowsMove(h) /\ (Creates(h) \/ Writes(h))
      <4>1. users' = [users EXCEPT ![job[h].user] = job[h].draft]
            /\ job[h].draft.is = "present"
        BY <2>2, <3>3 DEF RowsMove, Creates, Writes
      <4> QED
        BY <1>1, <2>3, <3>1, <4>1
    <3>4. CASE Deletes(h) /\ ~(users' = users)
      <4>1. users' = [users EXCEPT ![job[h].user] = [Unused EXCEPT !.is = "deleted"]]
        BY <3>4 DEF Deletes
      <4> QED
        BY <1>1, <2>1, <2>3, <3>1, <3>4, <4>1
    <3> QED
      BY <1>2, <3>2, <3>3, <3>4, RowSteps DEF RowsMove
  <2> QED
    BY <2>1, <2>3 DEF IdentityMoves, Present
<1>3. CASE Link \/ AdminUnlink
  BY <1>1, <1>3 DEF Link, AdminUnlink, Present
<1>4. CASE EndSession \/ EndSessions \/ UNCHANGED vars
  BY <1>1, <1>4 DEF EndSession, EndSessions, vars, tables, Present
<1> QED
  BY <1>2, <1>3, <1>4, IdentitySteps DEF Next, Present

LEMMA JobsNext ==
  ASSUME TypeInv, [Next]_vars
  PROVE  job' \in [Handlers -> Job] /\ JobsInv'
<1>1. job \in [Handlers -> Job] /\ RowsKept /\ users \in [Users -> Row]
  BY RowsNext DEF TypeInv, TypeOK
<1>2. \A k \in Handlers :
        /\ Fit(job[k]) /\ (job[k].op = "sso" => job[k].sub \in Subjects)
        /\ job[k].at \notin {"idle", "create"} =>
             job[k].user \in Users /\ users'[job[k].user].is # "unused"
  BY <1>1, NoJobIs DEF TypeInv, JobsInv, Fit, RowsKept
<1>3. CASE job' = job
  BY <1>1, <1>2, <1>3 DEF JobsInv
<1>4. ASSUME NEW h \in Handlers, NEW x \in Job, job' = [job EXCEPT ![h] = x], Fit(x),
             x.at \notin {"idle", "create"} => users'[x.user].is # "unused",
             x.op = "sso" => x.sub \in Subjects
      PROVE  job' \in [Handlers -> Job] /\ JobsInv'
  BY <1>1, <1>2, <1>4 DEF JobsInv
<1>5. ASSUME NEW h \in Handlers, Starts(h)
      PROVE  job' \in [Handlers -> Job] /\ JobsInv'
  <2>1. PICK x \in Job : Begun(x) /\ job' = [job EXCEPT ![h] = x]
    BY <1>5 DEF Starts
  <2>2. users' = users
    BY <1>5 DEF Starts, tables
  <2>3. x.at \notin {"idle", "create"} => users'[x.user].is # "unused"
    BY <2>1, <2>2 DEF Begun, Present
  <2> QED
    BY <1>4, <2>1, <2>3 DEF Begun
<1>6. ASSUME NEW h \in Handlers, GoesOn(h)
      PROVE  job' \in [Handlers -> Job] /\ JobsInv'
  <2>1. PICK x \in Job : /\ job' = [job EXCEPT ![h] = x]
                         /\ x = NoJob \/ Follows(job[h], x)
    BY <1>6 DEF GoesOn
  <2>2. CASE x = NoJob
    BY <1>4, <2>1, <2>2, NoJobIs
  <2>3. CASE Follows(job[h], x)
    <3>1. users'[x.user].is # "unused"
      BY <1>2, <1>6, <2>3 DEF Follows, GoesOn
    <3> QED
      BY <1>2, <1>4, <2>1, <2>3, <3>1 DEF Follows
  <2> QED
    BY <2>1, <2>2, <2>3
<1>7. CASE EndSession \/ EndSessions \/ Link \/ AdminUnlink \/ UNCHANGED vars
  BY <1>3, <1>7 DEF EndSession, EndSessions, Link, AdminUnlink, vars
<1> QED
  BY <1>5, <1>6, <1>7, RequestsGoOn DEF Next

\* Slips are remembered.
LEMMA RestNext ==
  ASSUME TypeInv, [Next]_vars
  PROVE  /\ setupMu' \in BOOLEAN /\ pws' \in 0..MaxPw /\ ops' \in 0..MaxOps
         /\ founders' \in SUBSET Users
         /\ edited' \in [Users -> {"never", "admin", "user"}]
         /\ slips' \in SUBSET {"write", "count", "sync", "session", "unlink", "identity"}
         /\ slips \subseteq slips'
<1>1. /\ setupMu \in BOOLEAN /\ pws \in 0..MaxPw /\ ops \in 0..MaxOps
      /\ founders \in SUBSET Users
      /\ edited \in [Users -> {"never", "admin", "user"}]
      /\ slips \in SUBSET {"write", "count", "sync", "session", "unlink", "identity"}
      /\ \A h \in Handlers : job[h].at # "idle" => job[h].user \in Users
  BY NoJobIs DEF TypeInv, TypeOK, JobsInv, Fit
<1>2. ASSUME NEW h \in Handlers, Starts(h)
      PROVE  /\ setupMu' \in BOOLEAN /\ pws' \in 0..MaxPw /\ ops' \in 0..MaxOps
             /\ UNCHANGED ghosts
  BY <1>1, <1>2 DEF Starts, Begun
<1>3. ASSUME NEW h \in Handlers, Request(h), ~Starts(h)
      PROVE  UNCHANGED <<pws, ops>> /\ setupMu' \in BOOLEAN
  <2>1. CASE CreateFails(h) \/ Open(h)
    BY <2>1 DEF CreateFails, Open
  <2>2. CASE \/ Create(h) \/ Rehash(h) \/ SecondStep(h) \/ AddIdentity(h)
             \/ AddIdentityFails(h) \/ Sync(h) \/ WriteBack(h) \/ Count(h)
    BY <1>1, <2>2 DEF Create, Rehash, SecondStep, AddIdentity, AddIdentityFails, Sync,
                      WriteBack, Count
  <2>3. CASE \/ Revoke(h) \/ WriteRow(h) \/ WritePassword(h) \/ RevokeOthers(h)
             \/ RevokeFails(h) \/ DeleteRow(h) \/ DeleteIdentity(h) \/ WriteFails(h)
    BY <1>1, <2>3 DEF Revoke, WriteRow, WritePassword, RevokeOthers, RevokeFails, DeleteRow,
                      DeleteIdentity, WriteFails
  <2> QED
    BY <1>3, <2>1, <2>2, <2>3, RequestsStart DEF Request
<1>4. ASSUME NEW h \in Handlers, Request(h), ~Starts(h)
      PROVE  founders' \in SUBSET Users
  <2>1. CASE Create(h)
    <3>1. founders' = founders \cup (IF job[h].op = "setup" THEN {job[h].user} ELSE {})
          /\ job[h].user \in Users
      BY <1>1, <2>1 DEF Create, At
    <3> QED
      BY <1>1, <3>1
  <2>2. CASE ~Create(h)
    BY <1>1, <1>4, <2>2, RequestsStart
       DEF Request, CreateFails, Rehash, SecondStep, AddIdentity, AddIdentityFails, Sync,
           WriteBack, Open, Count, Revoke, WriteRow, WritePassword, RevokeOthers,
           RevokeFails, DeleteRow, DeleteIdentity, WriteFails, ghosts
  <2> QED
    BY <2>1, <2>2
<1>5. ASSUME NEW h \in Handlers, Request(h), ~Starts(h)
      PROVE  edited' \in [Users -> {"never", "admin", "user"}]
  <2>1. CASE WriteRow(h)
    <3>1. RoleName(job[h].draft) \in {"never", "admin", "user"}
      BY DEF RoleName
    <3> QED
      BY <1>1, <2>1, <3>1 DEF WriteRow, At
  <2>2. CASE DeleteRow(h)
    BY <1>1, <2>2 DEF DeleteRow, At
  <2>3. CASE ~WriteRow(h) /\ ~DeleteRow(h)
    <3>1. edited' = edited
      BY <1>5, <2>3, RequestsStart
         DEF Request, Create, CreateFails, Rehash, SecondStep, AddIdentity, AddIdentityFails,
             Sync, WriteBack, Open, Count, Revoke, WritePassword, RevokeOthers, RevokeFails,
             DeleteIdentity, WriteFails, ghosts
    <3> QED
      BY <1>1, <3>1
  <2> QED
    BY <2>1, <2>2, <2>3
<1>6. ASSUME NEW what \in SUBSET {"write", "count", "sync", "session", "unlink", "identity"},
             Slip(what)
      PROVE  /\ slips' \in SUBSET {"write", "count", "sync", "session", "unlink", "identity"}
             /\ slips \subseteq slips'
  BY <1>1, <1>6 DEF Slip
<1>7. ASSUME NEW h \in Handlers, Request(h), ~Starts(h)
      PROVE  /\ slips' \in SUBSET {"write", "count", "sync", "session", "unlink", "identity"}
             /\ slips \subseteq slips'
  <2>1. \/ slips' = slips
        \/ \E what \in SUBSET {"write", "count", "sync", "session", "unlink", "identity"} :
             Slip(what)
    <3>1. /\ Stale(job[h]) \subseteq {"write"}
          /\ \A row : Outcounted(job[h], row) \subseteq {"count"}
      BY DEF Stale, Outcounted
    <3>2. CASE Rehash(h) \/ WritePassword(h)
      BY <3>1, <3>2 DEF Rehash, WritePassword
    <3>3. CASE Sync(h) \/ WriteBack(h)
      BY <3>1, <3>3 DEF Sync, WriteBack
    <3>4. CASE WriteRow(h) \/ DeleteRow(h)
      BY <3>1, <3>4 DEF WriteRow, DeleteRow
    <3>5. CASE AddIdentityFails(h) \/ Open(h) \/ RevokeFails(h) \/ DeleteIdentity(h)
      BY <3>5 DEF AddIdentityFails, Open, RevokeFails, DeleteIdentity
    <3>6. CASE \/ Create(h) \/ CreateFails(h) \/ SecondStep(h) \/ AddIdentity(h) \/ Count(h)
               \/ Revoke(h) \/ RevokeOthers(h) \/ WriteFails(h)
      BY <3>6 DEF Create, CreateFails, SecondStep, AddIdentity, Count, Revoke,
                  RevokeOthers, WriteFails, ghosts
    <3> QED
      BY <1>7, <3>2, <3>3, <3>4, <3>5, <3>6, RequestsStart DEF Request
  <2> QED
    BY <1>1, <1>6, <2>1
<1>8. CASE EndSession \/ EndSessions \/ Link \/ AdminUnlink \/ UNCHANGED vars
  <2>1. UNCHANGED <<setupMu, pws, ops, founders, edited>>
    BY <1>8 DEF EndSession, EndSessions, Link, AdminUnlink, vars, ghosts
  <2>2. slips' = slips \/ Slip({"unlink"})
    BY <1>8 DEF EndSession, EndSessions, Link, AdminUnlink, vars, ghosts
  <2> QED
    BY <1>1, <1>6, <2>1, <2>2
<1>9. ASSUME NEW h \in Handlers, Request(h), Starts(h)
      PROVE  /\ setupMu' \in BOOLEAN /\ pws' \in 0..MaxPw /\ ops' \in 0..MaxOps
             /\ UNCHANGED ghosts
  BY <1>2, <1>9
<1> QED
  BY <1>1, <1>3, <1>4, <1>5, <1>7, <1>8, <1>9 DEF Next, ghosts

LEMMA TypesInit == Init => TypeInv
<1> SUFFICES ASSUME Init PROVE TypeInv
  OBVIOUS
<1>1. job = [h \in Handlers |-> NoJob] /\ JobsInv /\ job \in [Handlers -> Job]
  BY NoJobIs DEF Init, JobsInv
<1>2. /\ setupMu \in BOOLEAN /\ pws \in 0..MaxPw /\ ops \in 0..MaxOps
      /\ founders \in SUBSET Users
      /\ edited \in [Users -> {"never", "admin", "user"}]
      /\ slips \in SUBSET {"write", "count", "sync", "session", "unlink", "identity"}
  <2>1. 0 \in 0..MaxPw /\ 1 \in 0..MaxPw /\ 0 \in 0..MaxOps
    BY AccountsAssumption
  <2>2. pws \in 0..MaxPw /\ founders \in SUBSET Users
    BY <2>1 DEF Init, Fresh, Settled
  <2> QED
    BY <2>1, <2>2 DEF Init
<1>3. /\ users \in [Users -> Row] /\ sessions \in [Sessions -> Session]
      /\ identity \in [Subjects -> Users \cup {Nobody}]
      /\ \A s \in Sessions : \/ sessions[s] = NoSession
                             \/ sessions[s].user \in Users /\ Present(sessions[s].user)
      /\ \A sub \in Subjects : identity[sub] = Nobody \/ Present(identity[sub])
  <2>1. CASE Fresh
    BY <2>1, RowIs, NoSessionIs DEF Fresh
  <2>2. CASE Settled
    <3>1. /\ users = [u \in Users |-> users[u]]
          /\ sessions = [s \in Sessions |-> sessions[s]]
          /\ identity = [sub \in Subjects |-> identity[sub]]
      BY <2>2 DEF Settled
    <3>2. \A u \in Users :
            users[u] \in {Account(TRUE, TRUE, 1), Account(TRUE, FALSE, 0), Unused}
      BY <2>2 DEF Settled
    <3>3. PICK a \in Users :
            /\ users[a] = Account(TRUE, TRUE, 1)
            /\ \A x \in Sessions : sessions[x] \in {[user |-> a, by |-> 1], NoSession}
      BY <2>2 DEF Settled
    <3>4. PICK b \in Users :
            /\ users[b] = Account(TRUE, FALSE, 0)
            /\ \A x \in Subjects : identity[x] \in {b, Nobody}
      BY <2>2 DEF Settled
    <3>5. 0 \in 0..MaxPw /\ 1 \in 0..MaxPw
      BY AccountsAssumption
    <3>6. /\ Account(TRUE, TRUE, 1) \in Row /\ Account(TRUE, FALSE, 0) \in Row
          /\ Account(TRUE, TRUE, 1).is = "present"
          /\ Account(TRUE, FALSE, 0).is = "present" /\ Unused \in Row
      BY <3>5, RowIs
    <3>7. users \in [Users -> Row]
      BY <3>1, <3>2, <3>6
    <3>8. Present(a) /\ Present(b)
      BY <3>3, <3>4, <3>6 DEF Present
    <3>9. [user |-> a, by |-> 1] \in Session /\ [user |-> a, by |-> 1].user = a
      BY <3>5, NoSessionIs
    <3>10. /\ sessions \in [Sessions -> Session]
           /\ \A s \in Sessions : \/ sessions[s] = NoSession
                                  \/ sessions[s].user \in Users /\ Present(sessions[s].user)
      BY <3>1, <3>3, <3>8, <3>9, NoSessionIs
    <3>11. /\ identity \in [Subjects -> Users \cup {Nobody}]
           /\ \A sub \in Subjects : identity[sub] = Nobody \/ Present(identity[sub])
      BY <3>1, <3>4, <3>8
    <3> QED
      BY <3>7, <3>10, <3>11
  <2> QED
    BY <2>1, <2>2 DEF Init
<1> QED
  BY <1>1, <1>2, <1>3 DEF TypeInv, TypeOK, OwnersInv

LEMMA TypesNext ==
  ASSUME TypeInv, [Next]_vars
  PROVE  TypeInv'
  BY RowsNext, SessionsNext, IdentityNext, JobsNext, RestNext
     DEF TypeInv, TypeOK, Present

\* Types are kept, sessions and identities are of accounts that exist
\* (the foreign keys, with what DeleteUser deletes), and a request has the
\* steps, and writes of a row what, its handler lets it.
LEMMA TypesHold == Spec => []TypeInv
<1>1. TypeInv /\ [Next]_vars => TypeInv'
  BY TypesNext
<1> QED
  BY TypesInit, <1>1, PTL DEF Spec

THEOREM AccountsTypeCorrect == Spec => []TypeOK
<1>1. TypeInv => TypeOK
  BY DEF TypeInv
<1> QED
  BY TypesHold, <1>1, PTL

-----------------------------------------------------------------------------
(* Setup.                                                                  *)

SetsUp(h) == job[h].op = "setup"

\* The lock is held by the one request that sets up; until it has created its
\* account, the accounts made by earlier ones are gone.
SetupInv ==
  /\ \A h \in Handlers : SetsUp(h) => setupMu
  /\ \A h, k \in Handlers : SetsUp(h) /\ SetsUp(k) => h = k
  /\ \A u \in founders : users[u].is # "unused"
  /\ \A h \in Handlers :
       SetsUp(h) /\ At(h, "create") => \A u \in founders : ~Present(u)
  /\ SetupOnce

LEMMA SetupInit == Init => SetupInv
<1> SUFFICES ASSUME Init PROVE SetupInv
  OBVIOUS
<1>1. \A h \in Handlers : ~SetsUp(h)
  BY NoJobIs DEF Init, SetsUp
<1>2. CASE Fresh
  BY <1>1, <1>2 DEF Fresh, SetupInv, SetupOnce
<1>3. CASE Settled
  <2>1. PICK a \in Users : founders = {a} /\ users[a] = Account(TRUE, TRUE, 1)
    BY <1>3 DEF Settled
  <2>2. users[a].is = "present"
    BY <2>1 DEF Account
  <2> QED
    BY <1>1, <2>1, <2>2 DEF SetupInv, SetupOnce
<1> QED
  BY <1>2, <1>3 DEF Init

\* Only CreateUser makes a founder, and only the request that sets up lets go
\* of the lock, when it is done.
LEMMA SetupMoves ==
  ASSUME TypeInv, NEW h \in Handlers, Request(h), ~Starts(h)
  PROVE  /\ \/ founders' = founders
            \/ /\ job[h].op = "setup" /\ job[h].at = "create"
               /\ founders' = founders \cup {job[h].user}
               /\ users'[job[h].user].is # "unused"
         /\ \/ setupMu' = setupMu
            \/ job[h].op = "setup" /\ job' = [job EXCEPT ![h] = NoJob]
<1>1. setupMu \in BOOLEAN /\ users \in [Users -> Row] /\ Fit(job[h])
      /\ (job[h].at # "idle" => job[h] # NoJob)
  BY NoJobIs DEF TypeInv, TypeOK, JobsInv
<1>2. CASE Create(h)
  <2>1. job[h].at = "create" /\ job[h].user \in Users /\ job[h].draft.is = "present"
    BY <1>1, <1>2 DEF Create, At, Fit
  <2>2. setupMu' = setupMu /\ users' = [users EXCEPT ![job[h].user] = job[h].draft]
        /\ founders' = founders \cup (IF job[h].op = "setup" THEN {job[h].user} ELSE {})
    BY <1>2 DEF Create
  <2> QED
    BY <1>1, <2>1, <2>2
<1>3. CASE CreateFails(h) \/ Open(h)
  <2>1. /\ setupMu' = (setupMu /\ job[h].op # "setup")
        /\ job' = [job EXCEPT ![h] = NoJob] /\ founders' = founders
    BY <1>3 DEF CreateFails, Open, Done, ghosts
  <2> QED
    BY <1>1, <2>1
<1>4. CASE \/ Rehash(h) \/ SecondStep(h) \/ AddIdentity(h) \/ AddIdentityFails(h) \/ Sync(h)
           \/ WriteBack(h) \/ Count(h) \/ Revoke(h) \/ WriteRow(h) \/ WritePassword(h)
           \/ RevokeOthers(h) \/ RevokeFails(h) \/ DeleteRow(h) \/ DeleteIdentity(h)
           \/ WriteFails(h)
  BY <1>4 DEF Rehash, SecondStep, AddIdentity, AddIdentityFails, Sync, WriteBack, Count,
              Revoke, WriteRow, WritePassword, RevokeOthers, RevokeFails, DeleteRow,
              DeleteIdentity, WriteFails, ghosts
<1> QED
  BY <1>2, <1>3, <1>4, RequestsStart DEF Request

LEMMA SetupKeeps ==
  ASSUME TypeInv, SetupInv, [Next]_vars
  PROVE  SetupInv'
<1>1. /\ users' \in [Users -> Row] /\ RowsKept /\ founders \in SUBSET Users
      /\ job \in [Handlers -> Job] /\ job' \in [Handlers -> Job]
  BY RowsNext, JobsNext DEF TypeInv, TypeOK
<1>2. \A u \in founders : users'[u].is # "unused" /\ (users'[u].is = "present" => Present(u))
  BY <1>1 DEF SetupInv, RowsKept
<1>3. ASSUME NEW h \in Handlers, Starts(h)
      PROVE  SetupInv'
  <2>1. PICK x \in Job : Begun(x) /\ job' = [job EXCEPT ![h] = x]
    BY <1>3 DEF Starts
  <2>2. users' = users /\ founders' = founders
    BY <1>3 DEF Starts, tables, ghosts
  <2>3. \A k \in Handlers : k # h => job'[k] = job[k]
    BY <1>1, <2>1
  <2>4. job'[h] = x
    BY <1>1, <2>1
  <2>5. CASE x.op = "setup"
    <3>1. ~setupMu /\ setupMu' = TRUE /\ \A y \in Users : ~Present(y)
      BY <2>1, <2>5 DEF Begun
    <3>2. \A k \in Handlers : ~SetsUp(k)
      BY <3>1 DEF SetupInv
    <3> QED
      BY <1>1, <2>2, <2>3, <3>1, <3>2
         DEF SetupInv, SetupOnce, SetsUp, At, Present
  <2>6. CASE x.op # "setup"
    <3>1. setupMu' = setupMu
      BY <2>1, <2>6 DEF Begun
    <3> QED
      BY <1>1, <2>2, <2>3, <2>4, <2>6, <3>1
         DEF SetupInv, SetupOnce, SetsUp, At, Present
  <2> QED
    BY <2>5, <2>6
<1>4. ASSUME NEW h \in Handlers, Request(h), ~Starts(h)
      PROVE  SetupInv'
  <2>1. PICK x \in Job : /\ job' = [job EXCEPT ![h] = x]
                         /\ x = NoJob \/ Follows(job[h], x)
    BY <1>4, RequestsGoOn DEF GoesOn
  <2>2. \A k \in Handlers : k # h => job'[k] = job[k]
    BY <1>1, <2>1
  <2>3. /\ job'[h] = x /\ x.op \in {"none", job[h].op} /\ x.at # "create"
        /\ job[h].op = "setup" \/ x.op # "setup"
    BY <1>1, <2>1, NoJobIs DEF Follows
  <2>4. \A k \in Handlers : SetsUp(k)' => SetsUp(k)
    BY <2>2, <2>3 DEF SetsUp
  <2>5. \A k \in Handlers : SetsUp(k)' => setupMu'
    <3>1. CASE setupMu' = setupMu
      BY <2>4, <3>1 DEF SetupInv
    <3>2. CASE SetsUp(h) /\ x = NoJob
      BY <2>2, <2>3, <3>2, NoJobIs DEF SetupInv, SetsUp
    <3> QED
      BY <1>1, <1>4, <2>1, <2>3, <3>1, <3>2, SetupMoves DEF SetsUp
  <2>6. CASE founders' = founders
    <3>1. \A k \in Handlers :
            SetsUp(k)' /\ At(k, "create")' => \A u \in founders' : ~Present(u)'
      <4>1. ASSUME NEW k \in Handlers, SetsUp(k)', At(k, "create")', NEW u \in founders'
            PROVE  ~Present(u)'
        <5>1. k # h /\ job'[k] = job[k]
          BY <2>2, <2>3, <4>1 DEF At
        <5>2. ~Present(u)
          BY <2>6, <4>1, <5>1 DEF SetupInv, SetsUp, At
        <5> QED
          BY <1>2, <2>6, <5>2 DEF Present
      <4> QED
        BY <4>1
    <3>2. SetupOnce'
      BY <1>2, <2>6 DEF SetupInv, SetupOnce, Present
    <3> QED
      BY <1>2, <2>4, <2>5, <2>6, <3>1, <3>2 DEF SetupInv
  <2>7. CASE /\ job[h].op = "setup" /\ job[h].at = "create"
             /\ founders' = founders \cup {job[h].user}
             /\ users'[job[h].user].is # "unused"
    <3>1. \A k \in Handlers : k # h => ~SetsUp(k)'
      BY <2>4, <2>7 DEF SetupInv, SetsUp
    <3>2. \A u \in founders : users'[u].is # "present"
      BY <1>2, <2>7 DEF SetupInv, SetsUp, At
    <3>3. SetupOnce'
      BY <2>7, <3>2 DEF SetupOnce, Present
    <3>4. \A k \in Handlers : ~(SetsUp(k)' /\ At(k, "create")')
      BY <2>3, <3>1 DEF At
    <3>5. \A u \in founders' : users'[u].is # "unused"
      BY <1>2, <2>7
    <3>6. \A k, l \in Handlers : SetsUp(k)' /\ SetsUp(l)' => k = l
      BY <3>1
    <3> QED
      BY <2>5, <3>3, <3>4, <3>5, <3>6 DEF SetupInv
  <2> QED
    BY <1>4, <2>6, <2>7, SetupMoves
<1>5. CASE EndSession \/ EndSessions \/ Link \/ AdminUnlink \/ UNCHANGED vars
  <2>1. UNCHANGED <<users, job, setupMu, founders>>
    BY <1>5 DEF EndSession, EndSessions, Link, AdminUnlink, vars, tables, ghosts
  <2> QED
    BY <2>1 DEF SetupInv, SetupOnce, SetsUp, At, Present
<1> QED
  BY <1>3, <1>4, <1>5 DEF Next

\* At most one of the accounts that exist was made by setup: its lock is held
\* from before the users are counted until the account is there.
THEOREM OneFounder == Spec => []SetupOnce
<1>1. TypeInv /\ SetupInv /\ [Next]_vars => SetupInv'
  BY SetupKeeps
<1>2. SetupInv => SetupOnce
  BY DEF SetupInv
<1> QED
  BY TypesHold, SetupInit, <1>1, <1>2, PTL DEF Spec

-----------------------------------------------------------------------------
(* An administrator's edit.                                                *)

\* The role an administrator has set is locked.
EditedInv ==
  \A u \in Users :
    edited[u] # "never" =>
      /\ Present(u)
      /\ "write" \notin slips => users[u].locked /\ RoleName(users[u]) = edited[u]

LEMMA EditedInit == Init => EditedInv
  BY DEF Init, EditedInv

\* Only the handlers of an administrator change the row of an edit, or delete
\* one.
LEMMA OtherRows ==
  ASSUME TypeInv, NEW h \in Handlers, Request(h), ~WriteRow(h), ~DeleteRow(h)
  PROVE  \/ users' = users
         \/ RowsMove(h) /\ job[h].op \notin {"edit", "delete", "profile"}
<1>1. Fit(job[h]) /\ (job[h].at # "idle" => job[h] # NoJob)
  BY NoJobIs DEF TypeInv, JobsInv
<1>2. ASSUME job[h].op \in {"edit", "delete", "profile"}
      PROVE  users' = users
  BY <1>1, <1>2, RequestsStart
     DEF Request, Starts, Create, CreateFails, Rehash, SecondStep, AddIdentity,
         AddIdentityFails, Sync, WriteBack, Open, Count, Revoke, WritePassword, RevokeOthers,
         RevokeFails, DeleteIdentity, WriteFails, At, Fit, Staged, tables
<1> QED
  BY <1>2, RowSteps

LEMMA EditedKeeps ==
  ASSUME TypeInv, EditedInv, [Next]_vars
  PROVE  EditedInv'
<1>1. /\ users \in [Users -> Row] /\ slips \subseteq slips'
      /\ edited \in [Users -> {"never", "admin", "user"}]
  BY RestNext DEF TypeInv, TypeOK
<1>3. ASSUME NEW h \in Handlers, WriteRow(h), NEW u \in Users, edited'[u] # "never"
      PROVE  /\ users'[u].is = "present"
             /\ "write" \notin slips' => users'[u].locked /\ RoleName(users'[u]) = edited'[u]
  <2>1. PICK j \in Job : j = job[h]
    BY DEF TypeInv, TypeOK
  <2>2. /\ j.op \in {"profile", "edit"} /\ j.user \in Users /\ j.draft.is = "present"
        /\ Drafted(j) /\ j.draft \in Row /\ j.read \in Row
    BY <1>3, <2>1, NoJobIs DEF WriteRow, At, TypeInv, JobsInv, Fit, Job
  <2>3. /\ users' = IF Present(j.user) THEN [users EXCEPT ![j.user] = j.draft] ELSE users
        /\ edited' = IF j.op = "edit" /\ j.draft.admin # j.read.admin /\ Present(j.user)
                     THEN [edited EXCEPT ![j.user] = RoleName(j.draft)] ELSE edited
    BY <1>3, <2>1 DEF WriteRow, Store
  <2>4. CASE u # j.user \/ ~Present(j.user)
    <3>1. users'[u] = users[u] /\ edited'[u] = edited[u]
      BY <1>1, <2>2, <2>3, <2>4
    <3> QED
      BY <1>1, <1>3, <3>1 DEF EditedInv, Present
  <2>5. CASE u = j.user /\ Present(j.user)
    <3>1. users'[u] = j.draft
      BY <1>1, <1>3, <2>3, <2>5
    <3>2. "write" \notin slips' => users[u] = j.read
      BY <1>3, <2>1, <2>5 DEF WriteRow, Slip, Stale
    <3>3. CASE j.op = "edit" /\ j.draft.admin # j.read.admin
      <4>1. edited'[u] = RoleName(j.draft)
        BY <1>1, <2>3, <2>5, <3>3
      <4> QED
        BY <2>2, <3>1, <3>3, <4>1 DEF Drafted
    <3>4. CASE ~(j.op = "edit" /\ j.draft.admin # j.read.admin)
      <4>1. edited'[u] = edited[u]
        BY <2>3, <3>4
      <4>2. j.draft.admin = j.read.admin /\ (j.read.locked => j.draft.locked)
        BY <2>2, <3>4 DEF Drafted
      <4>3. RoleName(j.draft) = RoleName(j.read)
        BY <4>2 DEF RoleName
      <4>4. "write" \notin slips' => users[u].locked /\ RoleName(users[u]) = edited[u]
        BY <1>1, <1>3, <4>1 DEF EditedInv
      <4> QED
        BY <2>2, <3>1, <3>2, <4>1, <4>2, <4>3, <4>4
    <3> QED
      BY <3>3, <3>4
  <2> QED
    BY <2>4, <2>5
<1>4. ASSUME NEW h \in Handlers, DeleteRow(h), NEW u \in Users, edited'[u] # "never"
      PROVE  /\ users'[u].is = "present"
             /\ "write" \notin slips' => users'[u].locked /\ RoleName(users'[u]) = edited'[u]
  <2>1. /\ users' = [users EXCEPT ![job[h].user] = [Unused EXCEPT !.is = "deleted"]]
        /\ edited' = [edited EXCEPT ![job[h].user] = "never"]
    BY <1>4 DEF DeleteRow, Erase
  <2>2. users'[u] = users[u] /\ edited'[u] = edited[u]
    BY <1>1, <1>4, <2>1
  <2> QED
    BY <1>1, <1>4, <2>2 DEF EditedInv, Present
<1>5. ASSUME NEW h \in Handlers, Request(h), ~WriteRow(h), ~DeleteRow(h),
             NEW u \in Users, edited'[u] # "never"
      PROVE  /\ users'[u].is = "present"
             /\ "write" \notin slips' => users'[u].locked /\ RoleName(users'[u]) = edited'[u]
  <2>1. edited' = edited
    BY <1>5, RequestsStart
       DEF Request, Starts, Create, CreateFails, Rehash, SecondStep, AddIdentity,
           AddIdentityFails, Sync, WriteBack, Open, Count, Revoke, WritePassword,
           RevokeOthers, RevokeFails, DeleteIdentity, WriteFails, ghosts
  <2>2. /\ users[u].is = "present"
        /\ "write" \notin slips' => users[u].locked /\ RoleName(users[u]) = edited[u]
    BY <1>1, <1>5, <2>1 DEF EditedInv, Present
  <2>3. CASE users'[u] = users[u]
    BY <2>1, <2>2, <2>3
  <2>4. CASE users'[u] # users[u]
    <3>1. RowsMove(h) /\ job[h].op \notin {"edit", "delete", "profile"}
      BY <1>5, <2>4, OtherRows
    <3>2. PICK j \in Job : j = job[h] /\ Fit(j) /\ j # NoJob
      BY <3>1, NoJobIs DEF TypeInv, TypeOK, JobsInv, RowsMove
    <3>3. u = j.user /\ Writes(h)
      BY <1>1, <1>5, <2>2, <2>4, <3>1, <3>2 DEF RowsMove, Creates, Writes, Deletes
    <3>4. users'[u] = j.draft /\ j.draft.is = "present"
      BY <1>1, <1>5, <3>2, <3>3 DEF Writes, Fit
    <3>5. "write" \notin slips' => users[u] = j.read
      BY <3>2, <3>3 DEF Writes
    <3>6. j.read.locked => j.draft.admin = j.read.admin /\ j.draft.locked
      BY <3>1, <3>2, <3>3 DEF Writes, Fit, Drafted
    <3>7. j.read.locked => RoleName(j.draft) = RoleName(j.read)
      BY <3>6 DEF RoleName
    <3> QED
      BY <2>1, <2>2, <3>4, <3>5, <3>6, <3>7
  <2> QED
    BY <2>3, <2>4
<1>6. CASE EndSession \/ EndSessions \/ Link \/ AdminUnlink \/ UNCHANGED vars
  <2>1. UNCHANGED <<users, edited>>
    BY <1>6 DEF EndSession, EndSessions, Link, AdminUnlink, vars, tables, ghosts
  <2> QED
    BY <1>1, <2>1 DEF EditedInv, Present
<1>7. ASSUME NEW h \in Handlers, Request(h) PROVE EditedInv'
  BY <1>3, <1>4, <1>5, <1>7 DEF EditedInv, Present
<1> QED
  BY <1>6, <1>7 DEF Next

\* The role an administrator has set stays, unless a stale row was written over
\* it: the edit locks the role, and group sync leaves a locked one alone.
THEOREM EditsWin == Spec => []AdminEditWins
<1>1. TypeInv /\ EditedInv /\ [Next]_vars => EditedInv'
  BY EditedKeeps
<1>2. EditedInv => AdminEditWins
  BY DEF EditedInv, AdminEditWins, InStep
<1> QED
  BY TypesHold, EditedInit, <1>1, <1>2, PTL DEF Spec

-----------------------------------------------------------------------------
(* Sessions.                                                               *)

Clean == "write" \notin slips /\ "session" \notin slips

\* The sessions of an account that is going to be disabled have been deleted.
DisabledInv ==
  Clean =>
    \A h \in Handlers :
      job[h].op = "edit" /\ At(h, "write") /\ job[h].read.active /\ ~job[h].draft.active
        => \A s \in Sessions : sessions[s].user # job[h].user

LEMMA DisabledInit == Init => DisabledInv /\ DisableSignsOut
<1> SUFFICES ASSUME Init PROVE DisabledInv /\ DisableSignsOut
  OBVIOUS
<1>1. DisabledInv
  BY NoJobIs DEF Init, DisabledInv
<1>2. CASE Fresh
  <2>1. \A s \in Sessions : sessions[s] = NoSession
    BY <1>2 DEF Fresh
  <2> QED
    BY <1>1, <2>1 DEF DisableSignsOut
<1>3. CASE Settled
  <2>1. PICK a \in Users :
          /\ users[a] = Account(TRUE, TRUE, 1)
          /\ \A x \in Sessions : sessions[x] \in {[user |-> a, by |-> 1], NoSession}
    BY <1>3 DEF Settled
  <2>2. users[a].is = "present" /\ users[a].active
    BY <2>1 DEF Account
  <2>3. [user |-> a, by |-> 1].user = a
    OBVIOUS
  <2>4. Active(a)
    BY <2>2 DEF Active, Present
  <2>5. \A x \in Sessions : sessions[x] = NoSession \/ sessions[x].user = a
    BY <2>1, <2>3
  <2> QED
    BY <1>1, <2>4, <2>5 DEF DisableSignsOut
<1> QED
  BY <1>1, <1>2, <1>3 DEF Init

\* The requests of one statement only delete sessions.
LEMMA OtherSessions ==
  ASSUME TypeInv, EndSession \/ EndSessions \/ Link \/ AdminUnlink \/ UNCHANGED vars
  PROVE  /\ \A s \in Sessions : sessions'[s] = sessions[s] \/ sessions'[s] = NoSession
         /\ users' = users /\ job' = job /\ slips \subseteq slips'
<1>1. users' = users /\ job' = job /\ slips \subseteq slips'
  BY DEF EndSession, EndSessions, Link, AdminUnlink, Slip, vars, tables, ghosts
<1>2. CASE EndSession
  BY <1>1, <1>2 DEF EndSession, TypeInv, TypeOK
<1>3. CASE EndSessions
  <2>1. PICK u \in Users :
          sessions' = [s \in Sessions |-> IF sessions[s].user = u THEN NoSession
                                                                  ELSE sessions[s]]
    BY <1>3 DEF EndSessions
  <2> QED
    BY <1>1, <2>1
<1>4. CASE Link \/ AdminUnlink \/ UNCHANGED vars
  BY <1>1, <1>4 DEF Link, AdminUnlink, vars, tables
<1> QED
  BY <1>2, <1>3, <1>4

LEMMA AtRevoke ==
  ASSUME NEW h \in Handlers, Request(h), TypeInv, job[h].at = "revoke"
  PROVE  Revoke(h) \/ RevokeOthers(h) \/ RevokeFails(h)
  BY RequestsStart, NoJobIs
     DEF Request, Starts, Create, CreateFails, Rehash, SecondStep, AddIdentity,
         AddIdentityFails, Sync, WriteBack, Open, Count, WriteRow, WritePassword, DeleteRow,
         DeleteIdentity, WriteFails, At

\* Of a session that was there before the step, and is still.
LEMMA SessionsBefore ==
  ASSUME TypeInv, NEW h \in Handlers, Request(h), NEW s \in Sessions,
         sessions'[s] # NoSession, ~Opens(h, s)
  PROVE  /\ sessions[s] # NoSession /\ sessions'[s].user = sessions[s].user
         /\ sessions[s].user \in Users /\ Present(sessions[s].user)
         /\ sessions'[s] = sessions[s] \/ Verifies(h, s)
         /\ RowsMove(h) /\ Deletes(h) => sessions[s].user # job[h].user
<1>1. sessions[s] \in Session /\ SessionMoves(h, s)
      /\ (RowsMove(h) /\ Deletes(h) => sessions'[s].user # job[h].user)
  BY SessionSteps DEF TypeInv, TypeOK
<1>2. sessions'[s] = sessions[s] \/ Verifies(h, s)
  BY <1>1 DEF SessionMoves, Stays
<1>3. CASE Verifies(h, s)
  <2>1. job[h].user \in Users
    BY <1>3, NoJobIs DEF Verifies, TypeInv, JobsInv, Fit
  <2>2. sessions'[s].user = sessions[s].user /\ sessions[s].user = job[h].user
    BY <1>1, <1>3 DEF Verifies, Session
  <2>3. sessions[s] # NoSession
    BY <2>1, <2>2, NoSessionIs
  <2> QED
    BY <1>1, <1>2, <2>1, <2>2, <2>3 DEF TypeInv, TypeOK
<1> QED
  BY <1>1, <1>2, <1>3 DEF TypeInv, TypeOK, OwnersInv

\* A row that is in use, and changes other than by being deleted.
LEMMA RowsBefore ==
  ASSUME TypeInv, NEW h \in Handlers, Request(h), NEW u \in Users, Present(u),
         users'[u] # users[u], ~(RowsMove(h) /\ Deletes(h) /\ u = job[h].user)
  PROVE  /\ u = job[h].user /\ Writes(h) /\ users'[u] = job[h].draft
         /\ Drafted(job[h]) /\ Counted(job[h]) /\ Staged(job[h])
         /\ job[h] \in Job /\ job[h] # NoJob
         /\ "write" \in slips' \/ users[u] = job[h].read
<1>1. users \in [Users -> Row] /\ job[h] \in Job /\ Fit(job[h]) /\ RowsMove(h)
  BY RowSteps DEF TypeInv, TypeOK, JobsInv
<1>2. job[h] # NoJob
  BY <1>1, NoJobIs DEF RowsMove
<1>3. u = job[h].user /\ Writes(h)
  BY <1>1 DEF RowsMove, Creates, Writes, Deletes, Present
<1> QED
  BY <1>1, <1>2, <1>3 DEF Writes, Fit

LEMMA DisabledKeeps ==
  ASSUME TypeInv, DisabledInv, [Next]_vars
  PROVE  DisabledInv'
<1>1. /\ sessions \in [Sessions -> Session] /\ (Clean' => Clean)
      /\ job \in [Handlers -> Job] /\ job' \in [Handlers -> Job] /\ JobsInv'
  BY RestNext, JobsNext DEF TypeInv, TypeOK, Clean
<1>2. ASSUME NEW h \in Handlers, Request(h), Clean', NEW k \in Handlers, NEW s \in Sessions,
             job'[k].op = "edit", job'[k].at = "write",
             job'[k].read.active, ~job'[k].draft.active
      PROVE  sessions'[s].user # job'[k].user
  <2>1. job'[k].user \in Users
    BY <1>1, <1>2, NoJobIs DEF JobsInv, Fit
  <2>2. ASSUME job'[k] = job[k], NEW x \in Sessions
        PROVE  sessions[x].user # job'[k].user
    <3>1. Clean /\ job[k].op = "edit" /\ job[k].at = "write"
          /\ job[k].read.active /\ ~job[k].draft.active
      BY <1>1, <1>2, <2>2 DEF Clean
    <3> QED
      BY <2>2, <3>1 DEF DisabledInv, At
  <2>3. CASE Starts(h)
    <3>1. PICK x \in Job : Begun(x) /\ job' = [job EXCEPT ![h] = x]
      BY <2>3 DEF Starts
    <3>2. k # h /\ sessions' = sessions
      BY <1>1, <1>2, <2>3, <3>1 DEF Begun, Starts, tables
    <3> QED
      BY <1>1, <1>2, <2>2, <3>1, <3>2
  <2>4. CASE ~Starts(h) /\ k = h
    <3>1. PICK x \in Job : /\ job' = [job EXCEPT ![h] = x]
                           /\ x = NoJob \/ Follows(job[h], x)
      BY <1>2, <2>4, RequestsGoOn DEF GoesOn
    <3>2. job'[k] = x /\ x.op = "edit" /\ x.at = "write"
      BY <1>1, <1>2, <2>4, <3>1
    <3>3. Follows(job[h], x) /\ job[h].op = "edit"
      BY <3>1, <3>2, NoJobIs DEF Follows
    <3>4. job[h].at # "create"
      BY <3>3, NoJobIs DEF TypeInv, JobsInv, Fit, Staged
    <3>5. job[h].at = "revoke" /\ x.user = job[h].user
      BY <1>2, <3>2, <3>3, <3>4 DEF Follows
    <3>6. ~RevokeFails(h) /\ ~RevokeOthers(h)
      BY <1>2, <3>3 DEF RevokeFails, RevokeOthers, Slip, Clean
    <3>7. sessions' = [y \in Sessions |-> IF sessions[y].user = job[h].user
                                          THEN NoSession ELSE sessions[y]]
      BY <1>2, <3>5, <3>6, AtRevoke DEF Revoke
    <3> QED
      BY <1>2, <2>1, <3>2, <3>5, <3>7, NoSessionIs
  <2>5. CASE ~Starts(h) /\ k # h
    <3>1. job'[k] = job[k]
      BY <1>1, <1>2, <2>5, RequestsGoOn DEF GoesOn
    <3>2. CASE Opens(h, s)
      <4>1. ~TooLate(job[h]) /\ sessions'[s].user = job[h].user
        BY <1>2, <3>2 DEF Opens, Clean
      <4> QED
        BY <1>2, <3>1, <4>1 DEF TooLate, At
    <3>3. CASE sessions'[s] = NoSession
      BY <2>1, <3>3, NoSessionIs
    <3>4. CASE ~Opens(h, s) /\ sessions'[s] # NoSession
      <4>1. sessions'[s].user = sessions[s].user
        BY <1>2, <3>4, SessionsBefore
      <4> QED
        BY <1>2, <2>2, <3>1, <4>1
    <3> QED
      BY <3>2, <3>3, <3>4
  <2> QED
    BY <2>3, <2>4, <2>5
<1>3. CASE EndSession \/ EndSessions \/ Link \/ AdminUnlink \/ UNCHANGED vars
  <2>1. job' = job /\ \A s \in Sessions : sessions'[s] = sessions[s] \/ sessions'[s] = NoSession
    BY <1>3, OtherSessions
  <2>3. \A k \in Handlers : job[k].at # "idle" => job[k].user \in Users
    BY NoJobIs DEF TypeInv, JobsInv, Fit
  <2> QED
    <3>1. ASSUME Clean', NEW k \in Handlers, NEW s \in Sessions,
                 job[k].op = "edit", job[k].at = "write", job[k].read.active,
                 ~job[k].draft.active
          PROVE  sessions'[s].user # job[k].user
      <4>1. sessions[s].user # job[k].user /\ job[k].user # Nobody
        BY <1>1, <2>3, <3>1, NoSessionIs DEF DisabledInv, At, Clean
      <4> QED
        BY <2>1, <4>1, NoSessionIs
    <3> QED
      BY <2>1, <3>1 DEF DisabledInv, At
<1>4. ASSUME NEW h \in Handlers, Request(h) PROVE DisabledInv'
  BY <1>2, <1>4 DEF DisabledInv, At
<1> QED
  BY <1>3, <1>4 DEF Next

LEMMA DisableKeeps ==
  ASSUME TypeInv, DisabledInv, DisableSignsOut, [Next]_vars
  PROVE  DisableSignsOut'
<1>1. /\ sessions \in [Sessions -> Session] /\ users \in [Users -> Row]
      /\ Clean' => Clean
      /\ InStep({"write", "session"})' => Clean'
  BY RestNext DEF TypeInv, TypeOK, Clean, InStep
<1>2. ASSUME Clean, NEW s \in Sessions, sessions[s] # NoSession
      PROVE  sessions[s].user \in Users /\ Active(sessions[s].user)
  BY <1>2 DEF DisableSignsOut, InStep, Clean, TypeInv, OwnersInv
<1>3. ASSUME NEW h \in Handlers, Request(h), Clean', NEW s \in Sessions,
             sessions'[s] # NoSession
      PROVE  users'[sessions'[s].user].is = "present" /\ users'[sessions'[s].user].active
  <2>1. CASE Opens(h, s)
    BY <1>3, <2>1 DEF Opens, TooLate, Clean, Present
  <2>2. CASE ~Opens(h, s)
    <3>1. PICK u \in Users : /\ u = sessions[s].user /\ u = sessions'[s].user
                             /\ Present(u) /\ users[u].active
                             /\ RowsMove(h) /\ Deletes(h) => u # job[h].user
      BY <1>1, <1>2, <1>3, <2>2, SessionsBefore DEF Active
    <3>2. CASE users'[u] = users[u]
      BY <3>1, <3>2 DEF Present
    <3>3. CASE users'[u] # users[u]
      <4>1. /\ u = job[h].user /\ Writes(h) /\ users'[u] = job[h].draft
            /\ Drafted(job[h]) /\ Staged(job[h]) /\ users[u] = job[h].read
        BY <1>3, <3>1, <3>3, RowsBefore DEF Clean
      <4>2. job[h].draft.is = "present"
        BY <4>1, NoJobIs DEF Writes, TypeInv, JobsInv, Fit
      <4>3. CASE job[h].op # "edit"
        BY <3>1, <4>1, <4>2, <4>3 DEF Writes, Drafted
      <4>4. CASE job[h].op = "edit"
        <5>1. job[h].at = "write"
          BY <4>1, <4>4 DEF Writes, Staged
        <5> QED
          BY <1>1, <1>3, <3>1, <4>1, <4>2, <4>4, <5>1 DEF DisabledInv, At
      <4> QED
        BY <4>3, <4>4
    <3> QED
      BY <3>2, <3>3
  <2> QED
    BY <2>1, <2>2
<1>4. CASE EndSession \/ EndSessions \/ Link \/ AdminUnlink \/ UNCHANGED vars
  <2>1. /\ \A s \in Sessions : sessions'[s] = sessions[s] \/ sessions'[s] = NoSession
        /\ users' = users
    BY <1>4, OtherSessions
  <2> QED
    BY <1>1, <1>2, <2>1 DEF DisableSignsOut, Active, Present
<1>5. ASSUME NEW h \in Handlers, Request(h) PROVE DisableSignsOut'
  BY <1>1, <1>3, <1>5 DEF DisableSignsOut, Active, Present
<1> QED
  BY <1>4, <1>5 DEF Next

\* A disabled account has no session, unless a row was stale, a sign-in or a
\* deletion of sessions went wrong: none is left when the row is written, and
\* none comes in between.
THEOREM DisabledAreSignedOut == Spec => []DisableSignsOut
<1>1. TypeInv /\ DisabledInv /\ DisableSignsOut /\ [Next]_vars
        => DisabledInv' /\ DisableSignsOut'
  BY DisabledKeeps, DisableKeeps
<1> QED
  BY TypesHold, DisabledInit, <1>1, PTL DEF Spec

\* A session that was verified with an earlier password is going to be deleted
\* by a request that did not come with it.
OutdatedInv ==
  Clean =>
    \A s \in Sessions :
      \/ sessions[s] = NoSession \/ sessions[s].by = users[sessions[s].user].pw
      \/ \E h \in Handlers : /\ job[h].user = sessions[s].user /\ At(h, "revoke")
                             /\ job[h].sid # s

LEMMA OutdatedInit == Init => OutdatedInv
<1> SUFFICES ASSUME Init PROVE OutdatedInv
  OBVIOUS
<1>1. CASE Fresh
  <2>1. \A s \in Sessions : sessions[s] = NoSession
    BY <1>1 DEF Fresh
  <2> QED
    BY <2>1 DEF OutdatedInv
<1>2. CASE Settled
  <2>1. PICK a \in Users :
          /\ users[a] = Account(TRUE, TRUE, 1)
          /\ \A x \in Sessions : sessions[x] \in {[user |-> a, by |-> 1], NoSession}
    BY <1>2 DEF Settled
  <2>2. users[a].pw = 1
    BY <2>1 DEF Account
  <2>3. [user |-> a, by |-> 1].user = a /\ [user |-> a, by |-> 1].by = 1
    OBVIOUS
  <2>4. \A x \in Sessions : sessions[x] = NoSession \/ sessions[x].by = users[sessions[x].user].pw
    BY <2>1, <2>2, <2>3
  <2> QED
    BY <2>4 DEF OutdatedInv
<1> QED
  BY <1>1, <1>2 DEF Init

LEMMA PasswordWriters ==
  ASSUME TypeInv, NEW h \in Handlers, Request(h), job[h].op \in {"password", "reset"},
         ~(users' = users)
  PROVE  WritePassword(h)
<1>1. Fit(job[h]) /\ job[h] # NoJob /\ Staged(job[h])
  BY NoJobIs DEF TypeInv, JobsInv, Fit
<1> QED
  BY <1>1, RequestsStart, NoJobIs
     DEF Request, Starts, Create, CreateFails, Rehash, SecondStep, AddIdentity,
         AddIdentityFails, Sync, WriteBack, Open, Count, Revoke, WriteRow, RevokeOthers,
         RevokeFails, DeleteRow, DeleteIdentity, WriteFails, At, Staged, tables

LEMMA OutdatedKeeps ==
  ASSUME TypeInv, OutdatedInv, [Next]_vars
  PROVE  OutdatedInv'
<1>1. /\ sessions \in [Sessions -> Session] /\ (Clean' => Clean)
      /\ job \in [Handlers -> Job] /\ job' \in [Handlers -> Job]
      /\ users \in [Users -> Row]
  BY RestNext, JobsNext DEF TypeInv, TypeOK, Clean
<1>2. ASSUME Clean, NEW s \in Sessions, sessions[s] # NoSession
      PROVE  \/ sessions[s].by = users[sessions[s].user].pw
             \/ \E k \in Handlers : /\ job[k].user = sessions[s].user /\ job[k].at = "revoke"
                                    /\ job[k].sid # s
  BY <1>2 DEF OutdatedInv, At
<1>3. ASSUME NEW h \in Handlers, WritePassword(h), NEW s \in Sessions,
             sessions'[s] # NoSession, sessions[s].user = job[h].user
      PROVE  \/ sessions'[s].by = users'[sessions'[s].user].pw
             \/ \E k \in Handlers : /\ job'[k].user = sessions'[s].user
                                    /\ job'[k].at = "revoke" /\ job'[k].sid # s
  <2>1. PICK j \in Job : j = job[h]
    BY <1>1
  <2>2. /\ j.user \in Users /\ Present(j.user) /\ sessions[s] \in Session
    <3>1. j.user \in Users
      BY <1>3, <2>1, NoJobIs DEF WritePassword, At, TypeInv, JobsInv, Fit
    <3> QED
      BY <1>1, <1>3, <2>1, <3>1, NoSessionIs DEF TypeInv, TypeOK
  <2>3. users'[j.user] = j.draft
    BY <1>1, <1>3, <2>1, <2>2 DEF WritePassword, Store
  <2>4. sessions'[s] = IF s = j.sid THEN [sessions[s] EXCEPT !.by = j.draft.pw]
                                    ELSE sessions[s]
    BY <1>3, <2>1 DEF WritePassword
  <2>5. CASE s = j.sid
    <3>1. sessions'[s].by = j.draft.pw /\ sessions'[s].user = j.user
      BY <1>3, <2>1, <2>2, <2>4, <2>5 DEF Session
    <3> QED
      BY <2>3, <3>1
  <2>6. CASE s # j.sid
    <3>1. job'[h].user = j.user /\ job'[h].at = "revoke" /\ job'[h].sid = j.sid
      <4>1. PICK x : x = [j EXCEPT !.at = "revoke"]
        OBVIOUS
      <4>2. job'[h] = x
        BY <1>1, <1>3, <2>1, <4>1 DEF WritePassword, Goto
      <4> QED
        BY <4>1, <4>2 DEF Job
    <3> QED
      BY <1>3, <2>1, <2>4, <2>6, <3>1
  <2> QED
    BY <2>5, <2>6
<1>4. ASSUME NEW h \in Handlers, Request(h), Clean', NEW s \in Sessions,
             sessions'[s] # NoSession
      PROVE  \/ sessions'[s].by = users'[sessions'[s].user].pw
             \/ \E k \in Handlers : /\ job'[k].user = sessions'[s].user
                                    /\ job'[k].at = "revoke" /\ job'[k].sid # s
  <2>1. CASE Opens(h, s)
    <3>1. ~TooLate(job[h]) /\ users' = users
      BY <1>4, <2>1 DEF Opens, Clean
    <3>2. sessions'[s].user = job[h].user /\ sessions'[s].by = job[h].by
      BY <2>1 DEF Opens
    <3> QED
      BY <3>1, <3>2 DEF TooLate
  <2>2. CASE ~Opens(h, s)
    <3>1. /\ sessions[s] # NoSession /\ sessions'[s].user = sessions[s].user
          /\ sessions'[s] = sessions[s] \/ Verifies(h, s)
          /\ RowsMove(h) /\ Deletes(h) => sessions[s].user # job[h].user
      BY <1>4, <2>2, SessionsBefore
    <3>2. PICK u \in Users : u = sessions[s].user /\ Present(u)
      BY <1>4, <2>2, SessionsBefore
    <3>3. CASE WritePassword(h) /\ u = job[h].user
      <4>1. WritePassword(h) /\ sessions[s].user = job[h].user
        BY <3>2, <3>3
      <4> QED
        BY <1>3, <1>4, <4>1
    <3>4. CASE ~(WritePassword(h) /\ u = job[h].user)
      <4>1. sessions'[s] = sessions[s]
        <5>1. CASE Verifies(h, s)
          <6>1. /\ job[h].at = "write" /\ job[h].op \in {"password", "reset"}
                /\ u = job[h].user
            BY <3>2, <5>1 DEF Verifies
          <6>2. ~WritePassword(h)
            BY <3>4, <6>1
          <6>3. sessions' = sessions
            BY <1>4, <6>1, <6>2, RequestsStart, NoJobIs
               DEF Request, Starts, Create, CreateFails, Rehash, SecondStep, AddIdentity,
                   AddIdentityFails, Sync, WriteBack, Open, Count, Revoke, WriteRow,
                   RevokeOthers, RevokeFails, DeleteRow, DeleteIdentity, WriteFails, At, tables
          <6> QED
            BY <6>3
        <5> QED
          BY <3>1, <5>1
      <4>2. CASE sessions[s].by = users[u].pw
        <5>1. users'[u].pw = users[u].pw
          <6>1. CASE users'[u] = users[u]
            BY <6>1
          <6>2. CASE users'[u] # users[u]
            <7>1. /\ u = job[h].user /\ Writes(h) /\ users'[u] = job[h].draft
                  /\ Drafted(job[h]) /\ users[u] = job[h].read
              BY <1>4, <3>1, <3>2, <6>2, RowsBefore DEF Clean
            <7>2. job[h].op \notin {"password", "reset"}
              BY <1>4, <3>4, <6>2, <7>1, PasswordWriters
            <7> QED
              BY <7>1, <7>2 DEF Writes, Drafted
          <6> QED
            BY <6>1, <6>2
        <5> QED
          BY <3>2, <4>1, <4>2, <5>1
      <4>3. ASSUME NEW k \in Handlers, job[k].user = u, job[k].at = "revoke", job[k].sid # s
            PROVE  job'[k].user = u /\ job'[k].at = "revoke" /\ job'[k].sid # s
        <5>1. CASE k # h
          <6>1. job'[k] = job[k]
            BY <1>1, <1>4, <5>1, RequestsGoOn DEF GoesOn, Starts
          <6> QED
            BY <4>3, <6>1
        <5>2. CASE k = h
          <6>1. ~RevokeFails(h)
            BY <1>4 DEF RevokeFails, Slip, Clean
          <6>2. Revoke(h) \/ RevokeOthers(h)
            BY <1>4, <4>3, <5>2, <6>1, AtRevoke
          <6>3. sessions'[s] = NoSession
            BY <3>2, <4>3, <5>2, <6>2 DEF Revoke, RevokeOthers
          <6> QED
            BY <1>4, <6>3
        <5> QED
          BY <5>1, <5>2
      <4> QED
        BY <1>1, <1>2, <1>4, <3>1, <3>2, <4>1, <4>2, <4>3
    <3> QED
      BY <3>3, <3>4
  <2> QED
    BY <2>1, <2>2
<1>5. CASE EndSession \/ EndSessions \/ Link \/ AdminUnlink \/ UNCHANGED vars
  <2>1. /\ \A s \in Sessions : sessions'[s] = sessions[s] \/ sessions'[s] = NoSession
        /\ users' = users /\ job' = job
    BY <1>5, OtherSessions
  <2> QED
    BY <1>1, <1>2, <2>1 DEF OutdatedInv, At
<1>6. ASSUME NEW h \in Handlers, Request(h) PROVE OutdatedInv'
  BY <1>4, <1>6 DEF OutdatedInv, At
<1> QED
  BY <1>5, <1>6 DEF Next

\* After a change of the password only the session that made the change is
\* left, unless a row was stale, a sign-in or a deletion of sessions went wrong.
THEOREM PasswordChangesSignOut == Spec => []PasswordChangeSignsOut
<1>1. TypeInv /\ OutdatedInv /\ [Next]_vars => OutdatedInv'
  BY OutdatedKeeps
<1>2. OutdatedInv => PasswordChangeSignsOut
  BY DEF OutdatedInv, PasswordChangeSignsOut, InStep, Clean
<1> QED
  BY TypesHold, OutdatedInit, <1>1, <1>2, PTL DEF Spec

-----------------------------------------------------------------------------
(* Administrators.                                                         *)

LEMMA AdminStays ==
  ASSUME TypeInv, NEW h \in Handlers, Request(h), NEW a \in Admins,
         "write" \notin slips', "count" \notin slips', "sync" \notin slips'
  PROVE  \E b \in Users : users'[b].is = "present" /\ users'[b].active /\ users'[b].admin
<1>1. /\ a \in Users /\ Present(a) /\ users[a].active /\ users[a].admin
      /\ users \in [Users -> Row]
  BY DEF Admins, Active, TypeInv, TypeOK
<1>2. CASE users'[a] = users[a]
  BY <1>1, <1>2 DEF Present
<1>3. ASSUME ~(Admins = {job[h].user}), a = job[h].user
      PROVE  \E b \in Users : users'[b].is = "present" /\ users'[b].active /\ users'[b].admin
  <2>1. PICK b \in Admins : b # a
    BY <1>3
  <2>2. b \in Users /\ users[b].is = "present" /\ users[b].active /\ users[b].admin
    BY <2>1 DEF Admins, Active, Present
  <2>3. users'[b] = users[b]
    BY <1>1, <1>3, <2>1, <2>2, RowSteps DEF RowsMove, Creates, Writes, Deletes
  <2> QED
    BY <2>2, <2>3
<1>4. CASE RowsMove(h) /\ Deletes(h) /\ a = job[h].user /\ users'[a] # users[a]
  <2>1. job[h].op = "delete" /\ job[h].at = "write" /\ Fit(job[h]) /\ job[h] # NoJob
    BY <1>4, NoJobIs DEF Deletes, TypeInv, JobsInv
  <2>2. DeleteRow(h)
    BY <1>4, <2>1, OtherRows DEF WriteRow
  <2>3. users[a] = job[h].read
    BY <1>1, <1>4, <2>2 DEF DeleteRow, Slip, Stale
  <2>4. job[h].others
    BY <1>1, <2>1, <2>3 DEF Fit, Counted
  <2>5. ~(Admins = {job[h].user})
    <3>1. ~(Unused.is = "present")
      BY DEF Unused
    <3>2. "count" \notin Outcounted(job[h], Unused)
      BY <2>2 DEF DeleteRow, Slip
    <3> QED
      BY <2>4, <3>1, <3>2 DEF Outcounted
  <2> QED
    BY <1>3, <1>4, <2>5
<1>5. CASE ~(RowsMove(h) /\ Deletes(h) /\ a = job[h].user) /\ users'[a] # users[a]
  <2>1. PICK j \in Job : j = job[h]
    BY DEF TypeInv, TypeOK
  <2>2. /\ a = j.user /\ Writes(h) /\ users'[a] = j.draft /\ users[a] = j.read
        /\ Drafted(j) /\ Counted(j) /\ Staged(j) /\ j # NoJob
    BY <1>1, <1>5, <2>1, RowsBefore
  <2>3. /\ j.at \in {"rehash", "sync", "write"} /\ j.draft.is = "present"
        /\ j.op \in {"login", "sso", "profile", "edit", "password", "reset"}
        /\ j.read.active /\ j.read.admin
    BY <1>1, <2>1, <2>2 DEF Writes, TypeInv, JobsInv, Fit
  <2>4. CASE j.op \in {"login", "profile", "password", "reset"}
    BY <1>1, <2>2, <2>3, <2>4 DEF Drafted
  <2>5. CASE j.op = "sso"
    <3>1. j.at \in {"sync", "write"} /\ j.draft.active
      BY <2>2, <2>3, <2>5 DEF Staged, Drafted
    <3>2. Sync(h) \/ WriteBack(h)
      BY <1>5, <2>1, <2>5, <3>1, RequestsStart, NoJobIs
         DEF Request, Starts, Create, CreateFails, Rehash, SecondStep, AddIdentity,
             AddIdentityFails, Open, Count, Revoke, WriteRow, WritePassword, RevokeOthers,
             RevokeFails, DeleteRow, DeleteIdentity, WriteFails, At, tables
    <3>3. ~Sync(h)
      BY <1>5, <2>1, <2>3 DEF Sync, Slip
    <3>4. CASE WriteBack(h)
      BY <1>1, <1>5, <2>1, <2>2, <2>3, <2>5, <3>1, <3>4 DEF WriteBack, Slip
    <3> QED
      BY <3>2, <3>3, <3>4
  <2>6. CASE j.op = "edit"
    <3>1. j.at = "write"
      BY <2>2, <2>3, <2>6 DEF Staged
    <3>2. WriteRow(h)
      BY <1>5, <2>1, <2>6, OtherRows DEF DeleteRow
    <3>3. CASE j.draft.admin /\ j.draft.active
      BY <1>1, <2>2, <2>3, <3>3
    <3>4. CASE ~(j.draft.admin /\ j.draft.active)
      <4>1. j.others
        BY <2>2, <2>3, <2>6, <3>1, <3>4 DEF Counted
      <4>2. "count" \notin Outcounted(j, j.draft)
        BY <2>1, <3>2 DEF WriteRow, Slip
      <4>3. ~(Admins = {j.user})
        BY <3>4, <4>1, <4>2 DEF Outcounted
      <4> QED
        BY <1>3, <2>1, <2>2, <4>3
    <3> QED
      BY <3>3, <3>4
  <2> QED
    BY <2>3, <2>4, <2>5, <2>6
<1> QED
  BY <1>2, <1>4, <1>5

\* The last active administrator does not go, unless a stale row was written,
\* two removals counted each other's account, or the groups took the role away.
THEOREM AnAdminRemains == Spec => AdminRemains
<1>1. TypeInv /\ [Next]_vars =>
        [Admins # {} => Admins' # {} \/ ~InStep({"write", "count", "sync"})']_vars
  <2> SUFFICES ASSUME TypeInv, Next, NEW a \in Admins,
                      InStep({"write", "count", "sync"})'
               PROVE  Admins' # {}
    OBVIOUS
  <2>1. "write" \notin slips' /\ "count" \notin slips' /\ "sync" \notin slips'
    BY DEF InStep
  <2>2. CASE \E h \in Handlers : Request(h)
    <3>1. PICK b \in Users : users'[b].is = "present" /\ users'[b].active /\ users'[b].admin
      BY <2>1, <2>2, AdminStays
    <3> QED
      BY <3>1 DEF Admins, Active, Present
  <2>3. CASE EndSession \/ EndSessions \/ Link \/ AdminUnlink
    <3>1. users' = users
      BY <2>3, OtherSessions
    <3> QED
      BY <3>1 DEF Admins, Active, Present
  <2> QED
    BY <2>2, <2>3 DEF Next
<1> QED
  BY TypesHold, <1>1, PTL DEF Spec, AdminRemains

-----------------------------------------------------------------------------
(* Ways to sign in.                                                        *)

\* The password that allowed an identity to go is still there.
PasswordInv ==
  "write" \notin slips =>
    \A h \in Handlers :
      job[h].op = "unlink" /\ Present(job[h].user) /\ job[h].read.pw # 0 =>
        users[job[h].user].pw # 0

LEMMA SignInInit == Init => PasswordInv /\ CanSignIn
<1> SUFFICES ASSUME Init PROVE PasswordInv /\ CanSignIn
  OBVIOUS
<1>1. PasswordInv
  BY NoJobIs DEF Init, PasswordInv
<1>2. CASE Fresh
  <2>1. \A u \in Users : ~Present(u)
    BY <1>2 DEF Fresh, Present, Unused
  <2> QED
    BY <1>1, <2>1 DEF CanSignIn
<1>3. CASE Settled
  <2>1. PICK a \in Users, b \in Users :
          /\ users[a] = Account(TRUE, TRUE, 1)
          /\ \A u \in Users : u = a \/ u = b \/ users[u] = Unused
          /\ \E sub \in Subjects : identity[sub] = b
    BY <1>3 DEF Settled
  <2>2. users[a].pw # 0 /\ Identities(b) # {}
    BY <2>1 DEF Account, Identities
  <2>3. \A u \in Users : Present(u) => u = a \/ u = b
    BY <2>1 DEF Present, Unused
  <2> QED
    BY <1>1, <2>2, <2>3 DEF CanSignIn
<1> QED
  BY <1>1, <1>2, <1>3 DEF Init

\* No request writes a row without the password that it had read.
LEMMA PasswordStays ==
  ASSUME TypeInv, NEW h \in Handlers, Request(h), NEW u \in Users, "write" \notin slips',
         Present(u), users[u].pw # 0, users'[u].is = "present"
  PROVE  users'[u].pw # 0
<1>1. CASE users'[u] = users[u]
  BY <1>1
<1>2. CASE users'[u] # users[u]
  <2>1. users \in [Users -> Row]
    BY DEF TypeInv, TypeOK
  <2>2. ~(RowsMove(h) /\ Deletes(h) /\ u = job[h].user)
    BY <2>1 DEF Deletes, Unused
  <2>3. /\ users'[u] = job[h].draft /\ Drafted(job[h]) /\ users[u] = job[h].read
        /\ Writes(h) /\ Staged(job[h])
    BY <1>2, <2>2, RowsBefore
  <2> QED
    BY <2>3 DEF Drafted, Writes
<1> QED
  BY <1>1, <1>2

LEMMA PasswordKeeps ==
  ASSUME TypeInv, PasswordInv, [Next]_vars
  PROVE  PasswordInv'
<1>1. /\ slips \subseteq slips' /\ RowsKept
      /\ job \in [Handlers -> Job] /\ job' \in [Handlers -> Job]
  BY RestNext, JobsNext, RowsNext DEF TypeInv, TypeOK
<1>2. ASSUME NEW h \in Handlers, Request(h), "write" \notin slips', NEW k \in Handlers,
             job[k].op = "unlink", job[k].read.pw # 0,
             users'[job[k].user].is = "present"
      PROVE  users'[job[k].user].pw # 0
  <2>1. /\ job[k].user \in Users /\ users[job[k].user].is # "unused"
    BY <1>2, NoJobIs DEF TypeInv, JobsInv, Fit, Staged
  <2>2. Present(job[k].user)
    BY <1>1, <1>2, <2>1 DEF RowsKept
  <2>3. users[job[k].user].pw # 0
    BY <1>1, <1>2, <2>2 DEF PasswordInv
  <2> QED
    BY <1>2, <2>1, <2>2, <2>3, PasswordStays
<1>3. ASSUME NEW h \in Handlers, Request(h), "write" \notin slips', NEW k \in Handlers,
             job'[k].op = "unlink", job'[k].read.pw # 0,
             users'[job'[k].user].is = "present"
      PROVE  users'[job'[k].user].pw # 0
  <2>1. CASE job'[k] = job[k]
    BY <1>2, <1>3, <2>1
  <2>2. CASE Starts(h) /\ job'[k] # job[k]
    <3>1. PICK x \in Job : Begun(x) /\ job' = [job EXCEPT ![h] = x] /\ users' = users
      BY <2>2 DEF Starts, tables
    <3>2. job'[k] = x
      BY <1>1, <2>2, <3>1
    <3> QED
      BY <1>3, <3>1, <3>2 DEF Begun
  <2>3. CASE ~Starts(h) /\ job'[k] # job[k]
    <3>1. PICK x \in Job : /\ job' = [job EXCEPT ![h] = x]
                           /\ x = NoJob \/ Follows(job[h], x)
      BY <1>3, <2>3, RequestsGoOn DEF GoesOn
    <3>2. k = h /\ job'[k] = x
      BY <1>1, <2>3, <3>1
    <3>3. Follows(job[h], x)
      BY <1>3, <3>1, <3>2, NoJobIs
    <3>4. job[h].op = "unlink" /\ job[h].at # "create"
      BY <1>3, <3>2, <3>3, NoJobIs DEF Follows, TypeInv, JobsInv, Fit, Staged
    <3>5. x.read = job[h].read /\ x.user = job[h].user
      BY <3>3, <3>4 DEF Follows
    <3> QED
      BY <1>2, <1>3, <3>2, <3>4, <3>5
  <2> QED
    BY <2>1, <2>2, <2>3
<1>4. CASE EndSession \/ EndSessions \/ Link \/ AdminUnlink \/ UNCHANGED vars
  BY <1>1, <1>4, OtherSessions DEF PasswordInv, Present
<1>5. ASSUME NEW h \in Handlers, Request(h) PROVE PasswordInv'
  BY <1>3, <1>5 DEF PasswordInv, Present
<1> QED
  BY <1>4, <1>5 DEF Next

Unbroken == "write" \notin slips /\ "unlink" \notin slips /\ "identity" \notin slips

\* A way to sign in that an account had is kept, or another one is.
LEMMA WayStays ==
  ASSUME TypeInv, PasswordInv, NEW h \in Handlers, Request(h), Unbroken, Unbroken',
         NEW u \in Users, Present(u), users'[u].is = "present",
         \/ users[u].pw # 0
         \/ \E sub \in Subjects : identity[sub] = u
         \/ \E k \in Handlers : job[k].user = u /\ job[k].at = "identity"
  PROVE  \/ users'[u].pw # 0
         \/ \E sub \in Subjects : identity'[sub] = u
         \/ \E k \in Handlers : job'[k].user = u /\ job'[k].at = "identity"
<1>1. /\ job \in [Handlers -> Job] /\ users \in [Users -> Row]
      /\ identity \in [Subjects -> Users \cup {Nobody}]
  BY DEF TypeInv, TypeOK
<1>2. CASE users[u].pw # 0
  BY <1>2, PasswordStays DEF Unbroken
<1>3. ASSUME NEW sub \in Subjects, identity[sub] = u, identity'[sub] # u
      PROVE  users'[u].pw # 0 \/ \E x \in Subjects : identity'[x] = u
  <2>1. ~AddIdentity(h)
    BY <1>1, <1>3, AccountsAssumption DEF AddIdentity
  <2>2. ~DeleteRow(h)
    <3>1. ASSUME DeleteRow(h) PROVE FALSE
      <4>1. u = job[h].user
        BY <1>3, <3>1 DEF DeleteRow, Erase
      <4>2. users' = [users EXCEPT ![u] = [Unused EXCEPT !.is = "deleted"]]
        BY <3>1, <4>1 DEF DeleteRow, Erase
      <4> QED
        BY <1>1, <4>2 DEF Unused
    <3> QED
      BY <3>1
  <2>3. DeleteIdentity(h)
    BY <1>3, <2>1, <2>2, RequestsStart
       DEF Request, Starts, Create, CreateFails, Rehash, SecondStep, AddIdentityFails, Sync,
           WriteBack, Open, Count, Revoke, WriteRow, WritePassword, RevokeOthers,
           RevokeFails, WriteFails, tables
  <2>4. /\ job[h].at = "write" /\ job[h].op = "unlink" /\ users' = users
        /\ identity' = IF identity[job[h].sub] = job[h].user
                       THEN [identity EXCEPT ![job[h].sub] = Nobody] ELSE identity
    BY <2>3 DEF DeleteIdentity, At
  <2>5. sub = job[h].sub /\ u = job[h].user
    BY <1>1, <1>3, <2>4
  <2>6. CASE Identities(u) = {sub}
    <3>1. ~job[h].others
      BY <2>3, <2>5, <2>6 DEF DeleteIdentity, Slip, Unbroken
    <3>2. job[h].read.pw # 0
      BY <2>4, <3>1, NoJobIs DEF TypeInv, JobsInv, Fit, Counted
    <3>3. users[u].pw # 0
      BY <2>4, <2>5, <3>2 DEF PasswordInv, Unbroken
    <3> QED
      BY <2>4, <3>3
  <2>7. CASE Identities(u) # {sub}
    <3>1. PICK x \in Subjects : x # sub /\ identity[x] = u
      BY <1>3, <2>7 DEF Identities
    <3>2. identity'[x] = u
      BY <1>1, <2>4, <2>5, <3>1
    <3> QED
      BY <3>2
  <2> QED
    BY <2>6, <2>7
<1>4. ASSUME NEW k \in Handlers, job[k].user = u, job[k].at = "identity"
      PROVE  \/ \E x \in Subjects : identity'[x] = u
             \/ job'[k].user = u /\ job'[k].at = "identity"
  <2>1. CASE k # h
    <3>1. job'[k] = job[k]
      BY <1>1, <2>1, RequestsGoOn DEF GoesOn, Starts
    <3> QED
      BY <1>4, <3>1
  <2>2. CASE k = h
    <3>1. AddIdentity(h) \/ AddIdentityFails(h)
      BY <1>4, <2>2, RequestsStart, NoJobIs
         DEF Request, Starts, Create, CreateFails, Rehash, SecondStep, Sync, WriteBack, Open,
             Count, Revoke, WriteRow, WritePassword, RevokeOthers, RevokeFails, DeleteRow,
             DeleteIdentity, WriteFails, At
    <3>2. ~AddIdentityFails(h)
      BY <1>4, <2>2 DEF AddIdentityFails, Slip, Unbroken
    <3>3. /\ identity[job[h].sub] = Nobody
          /\ identity' = [identity EXCEPT ![job[h].sub] = u]
      BY <1>4, <2>2, <3>1, <3>2 DEF AddIdentity
    <3>4. job[h].sub \in Subjects
      BY <1>4, <2>2, NoJobIs DEF TypeInv, JobsInv, Fit, Staged
    <3> QED
      BY <1>1, <3>3, <3>4
  <2> QED
    BY <2>1, <2>2
<1> QED
  BY <1>2, <1>3, <1>4

\* An account that is made has one.
LEMMA WayComes ==
  ASSUME TypeInv, NEW h \in Handlers, Request(h),
         NEW u \in Users, ~Present(u), users'[u].is = "present"
  PROVE  \/ users'[u].pw # 0
         \/ job'[h].user = u /\ job'[h].at = "identity"
<1>1. /\ job \in [Handlers -> Job] /\ users \in [Users -> Row] /\ Fit(job[h])
      /\ (job[h].at # "idle" => job[h] # NoJob)
  BY NoJobIs DEF TypeInv, TypeOK, JobsInv
<1>2. RowsMove(h)
  BY RowSteps DEF Present
<1>3. u = job[h].user /\ Creates(h)
  BY <1>1, <1>2 DEF RowsMove, Creates, Writes, Deletes, Unused, Present
<1>4. job[h].at = "create" /\ users'[u] = job[h].draft
      /\ (job[h].op # "sso" => job[h].draft.pw # 0)
  BY <1>1, <1>3 DEF Creates, Fit, Drafted
<1>5. CASE job[h].op = "sso"
  <2>1. Create(h)
    BY <1>4, <1>5, RequestsStart, NoJobIs
       DEF Request, Starts, CreateFails, Rehash, SecondStep, AddIdentity, AddIdentityFails,
           Sync, WriteBack, Open, Count, Revoke, WriteRow, WritePassword, RevokeOthers,
           RevokeFails, DeleteRow, DeleteIdentity, WriteFails, At, Present, tables
  <2>2. PICK j \in Job : j = job[h]
    BY <1>1
  <2>3. PICK x : x = [j EXCEPT !.at = "identity", !.read = j.draft, !.by = j.draft.pw]
    OBVIOUS
  <2>4. job'[h] = x
    BY <1>1, <1>5, <2>1, <2>2, <2>3 DEF Create
  <2>5. x.user = j.user /\ x.at = "identity"
    BY <2>2, <2>3 DEF Job
  <2> QED
    BY <1>3, <2>2, <2>4, <2>5
<1> QED
  BY <1>4, <1>5

LEMMA SignInKeeps ==
  ASSUME TypeInv, PasswordInv, CanSignIn, [Next]_vars
  PROVE  CanSignIn'
<1>1. /\ users' \in [Users -> Row] /\ (Unbroken' => Unbroken)
      /\ InStep({"write", "unlink", "identity"})' => Unbroken'
  BY RestNext, RowsNext DEF Unbroken, InStep
<1>2. ASSUME Unbroken, NEW u \in Users, Present(u)
      PROVE  \/ users[u].pw # 0
             \/ \E sub \in Subjects : identity[sub] = u
             \/ \E k \in Handlers : job[k].user = u /\ job[k].at = "identity"
  BY <1>2 DEF CanSignIn, InStep, Unbroken, Identities, At
<1>3. ASSUME Unbroken', NEW u \in Users, users'[u].is = "present", NEW h \in Handlers,
             Request(h)
      PROVE  \/ users'[u].pw # 0
             \/ \E sub \in Subjects : identity'[sub] = u
             \/ \E k \in Handlers : job'[k].user = u /\ job'[k].at = "identity"
  <2>1. CASE Present(u)
    BY <1>1, <1>2, <1>3, <2>1, WayStays
  <2>2. CASE ~Present(u)
    BY <1>3, <2>2, WayComes
  <2> QED
    BY <2>1, <2>2
<1>4. ASSUME Unbroken', NEW u \in Users, users'[u].is = "present",
             EndSession \/ EndSessions \/ Link \/ AdminUnlink \/ UNCHANGED vars
      PROVE  \/ users'[u].pw # 0
             \/ \E sub \in Subjects : identity'[sub] = u
             \/ \E k \in Handlers : job'[k].user = u /\ job'[k].at = "identity"
  <2>1. users' = users /\ job' = job
    BY <1>4, OtherSessions
  <2>2. ~AdminUnlink
    BY <1>4 DEF AdminUnlink, Slip, Unbroken
  <2>3. \A sub \in Subjects : identity[sub] # Nobody => identity'[sub] = identity[sub]
    BY <1>4, <2>2
       DEF EndSession, EndSessions, Link, vars, tables, TypeInv, TypeOK
  <2>4. u # Nobody
    BY AccountsAssumption
  <2> QED
    BY <1>1, <1>2, <1>4, <2>1, <2>3, <2>4 DEF Present
<1>5. ASSUME Unbroken', NEW u \in Users, users'[u].is = "present"
      PROVE  \/ users'[u].pw # 0
             \/ \E sub \in Subjects : identity'[sub] = u
             \/ \E k \in Handlers : job'[k].user = u /\ job'[k].at = "identity"
  BY <1>3, <1>4, <1>5 DEF Next
<1> QED
  BY <1>1, <1>5 DEF CanSignIn, Identities, At, Present

\* Every account has a password or an identity to sign in with, unless an
\* administrator took the identity, two requests unlinked the last two, the
\* creation stopped half way, or a stale row took the password back.
THEOREM AccountsCanSignIn == Spec => []CanSignIn
<1>1. TypeInv /\ PasswordInv /\ CanSignIn /\ [Next]_vars => PasswordInv' /\ CanSignIn'
  BY PasswordKeeps, SignInKeeps
<1> QED
  BY TypesHold, SignInInit, <1>1, PTL DEF Spec

=============================================================================
