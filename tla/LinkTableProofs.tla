-------------------------- MODULE LinkTableProofs --------------------------
(***************************************************************************)
(* Proofs about LinkTable for any number of links, users, keys, codes,     *)
(* concurrent requests and requests in all.                                *)
(***************************************************************************)
EXTENDS LinkTable, FiniteSetTheorems, TLAPS

-----------------------------------------------------------------------------
(* Type correctness.                                                       *)

\* What a handler knows at each step, and whose answers are kept.
Creating == {"alias", "count", "insert", "save"}
OnLink   == {"save", "sent", "rename", "update", "purge"}

JobInv ==
  /\ \A h \in Handlers :
       /\ job[h].at \in Creating => job[h].user \in Users
       /\ job[h].at = "save" => job[h].key \in Keys
       /\ job[h].at \in OnLink => job[h].link \in Ids
  /\ \A k \in Keys : keys[k] # NoAnswer => keys[k].user \in Users

TypeInv == TypeOK /\ JobInv

LEMMA RowTypes ==
  /\ Unused \in Row /\ Purged \in Row
  /\ \A u \in Users \cup {None}, c \in Codes : Added(u, c) \in Row
<1>1. Unused \in Row
  BY TableAssumption DEF Unused, Row
<1>2. Purged \in Row
  BY <1>1 DEF Purged, Row
<1>3. ASSUME NEW u \in Users \cup {None}, NEW c \in Codes PROVE Added(u, c) \in Row
  BY <1>1 DEF Added, Row
<1> QED
  BY <1>1, <1>2, <1>3

\* A row as Delete and Restore write it.
LEMMA RowEdit ==
  ASSUME NEW r \in Row, NEW is \in {"live", "trash"}, NEW n \in Nat
  PROVE  [r EXCEPT !.is = is, !.old = FALSE, !.at = n] \in Row
<1>1. [r EXCEPT !.is = is] \in Row
  BY DEF Row
<1>2. [r EXCEPT !.is = is, !.old = FALSE] \in Row
  BY <1>1 DEF Row
<1> QED
  BY <1>2 DEF Row

\* A row in the trash, as one of the initial states has it.
LEMMA TrashRow ==
  ASSUME NEW u \in Users, NEW c \in Codes, NEW old \in BOOLEAN
  PROVE  [Added(u, c) EXCEPT !.is = "trash", !.old = old] \in Row
<1>1. Added(u, c) \in Row
  BY RowTypes
<1>2. \A r \in Row : [r EXCEPT !.is = "trash"] \in Row
  BY DEF Row
<1>3. \A r \in Row : [r EXCEPT !.old = old] \in Row
  BY DEF Row
<1>4. \A r \in Row : [[r EXCEPT !.is = "trash"] EXCEPT !.old = old] \in Row
  BY <1>2, <1>3
<1> QED
  BY <1>1, <1>4

LEMMA JobTypes == NoJob \in Job
BY TableAssumption, RowTypes DEF NoJob, Job, Steps

\* A job as Send makes it.
LEMMA SentJob ==
  ASSUME NEW i \in Ids, NEW c \in Codes \cup {None}, NEW n \in 0..MaxOps, NEW t \in {-1} \cup Nat
  PROVE  [NoJob EXCEPT !.at = "sent", !.link = i, !.code = c, !.text = n, !.tag = t] \in Job
<1>1. \A j \in Job : [j EXCEPT !.at = "sent"] \in Job
  BY DEF Job, Steps
<1>2. \A j \in Job : [j EXCEPT !.link = i] \in Job
  BY DEF Job
<1>3. \A j \in Job : [j EXCEPT !.code = c] \in Job
  BY DEF Job
<1>4. \A j \in Job : [j EXCEPT !.text = n] \in Job
  BY DEF Job
<1>5. \A j \in Job : [j EXCEPT !.tag = t] \in Job
  BY DEF Job
<1> DEFINE j1 == [NoJob EXCEPT !.at = "sent"]
           j2 == [j1 EXCEPT !.link = i]
           j3 == [j2 EXCEPT !.code = c]
           j4 == [j3 EXCEPT !.text = n]
           j5 == [j4 EXCEPT !.tag = t]
<1>6. j1 \in Job
  BY <1>1, JobTypes
<1>7. j2 \in Job
  BY <1>2, <1>6
<1>8. j3 \in Job
  BY <1>3, <1>7
<1>9. j4 \in Job
  BY <1>4, <1>8
<1>10. j5 \in Job
  BY <1>5, <1>9
<1> QED
  BY <1>10

LEMMA ContentType ==
  ASSUME NEW r \in Row
  PROVE  Content(r) \in [code : Codes \cup {None}, text : 0..MaxOps]
BY DEF Content, Row

\* The versions of links keep their types in a step that does not touch them ...
LEMMA TagsStay ==
  ASSUME TagTypes, UNCHANGED tags
  PROVE  TagTypes'
BY DEF TagTypes, tags

\* ... and in one that gives a link a version.
LEMMA StampTypes ==
  ASSUME TypeInv, NEW i \in Ids, NEW v \in Stamps(i), Stamped(i, v)
  PROVE  /\ v \in Nat
         /\ versions' \in [Ids -> Nat \ {0}] /\ coincided' \in SUBSET Ids
<1>1. versions \in [Ids -> Nat \ {0}] /\ coincided \in SUBSET Ids
  BY DEF TypeInv, TypeOK, TagTypes
<1>2. v \in Nat /\ versions[i] + 1 \in Nat \ {0}
  BY <1>1 DEF Stamps
<1>3. versions' \in {versions, [versions EXCEPT ![i] = versions[i] + 1]}
  BY <1>1 DEF Stamped
<1> QED
  BY <1>1, <1>2, <1>3 DEF Stamped

LEMMA TypeInit == Init => TypeInv
<1> SUFFICES ASSUME Init PROVE TypeInv
  OBVIOUS
<1>1. links \in [Ids -> Row] /\ \A i, j \in Ids : Present(i) /\ Present(j) => i = j
  <2>1. PICK i \in Ids, u \in Users, c \in Codes, old \in BOOLEAN :
          links \in {[x \in Ids |-> Unused],
                     [x \in Ids |-> IF x = i THEN [Added(u, c) EXCEPT !.is = "trash", !.old = old]
                                             ELSE Unused]}
    BY DEF Init
  <2>2. [Added(u, c) EXCEPT !.is = "trash", !.old = old] \in Row
    BY TrashRow
  <2>3. \A x \in Ids : links[x] \in Row /\ (x # i => links[x] = Unused)
    BY <2>1, <2>2, RowTypes
  <2>4. links \in [Ids -> Row]
    BY <2>1, <2>3
  <2>5. \A x \in Ids : x # i => ~Present(x)
    BY <2>3 DEF Present, Unused
  <2> QED
    BY <2>4, <2>5
<1>2. \A i \in Ids : Present(i) => ~Taken(links[i].code, i)
  BY <1>1 DEF Taken
<1>3. keys \in [Keys -> Answer] /\ job \in [Handlers -> Job]
  BY JobTypes DEF Init, Answer, NoAnswer
<1>4. \A i \in Ids : links[i] \in Row
  BY <1>1
<1>5. latest \in [Ids -> [code : Codes \cup {None}, text : 0..MaxOps]]
  BY <1>4, ContentType DEF Init
<1>6. ops \in 0..MaxOps
  BY TableAssumption DEF Init
<1>7. JobInv
  BY DEF Init, JobInv, NoJob, Creating, OnLink
<1>8. TagTypes
  BY DEF Init, TagTypes
<1> QED
  BY <1>1, <1>2, <1>3, <1>5, <1>6, <1>7, <1>8 DEF Init, TypeOK, TypeInv

\* A step that leaves the table of links alone.
LEMMA TypeOfRest ==
  ASSUME TypeOK, UNCHANGED links,
         keys' \in [Keys -> Answer], job' \in [Handlers -> Job],
         doomed' \in SUBSET Ids, ops' \in 0..MaxOps, made' = made,
         slipped' \in SUBSET (Users \X Keys),
         UNCHANGED <<revived, latest, overlapped, tags, handled>>,
         early' \in SUBSET Ids
  PROVE  TypeOK'
BY TagsStay DEF TypeOK, Present, Taken

\* A step that writes one row, whose code is free if the row is in the index.
LEMMA TypeOfRow ==
  ASSUME TypeOK, NEW i \in Ids, NEW r \in Row,
         links' = [links EXCEPT ![i] = r],
         r.is \in {"live", "trash"} => ~Taken(r.code, i)
  PROVE  /\ links' \in [Ids -> Row]
         /\ \A x \in Ids : Present(x)' => ~Taken(links[x].code, x)'
<1>1. \A x \in Ids : links'[x] = IF x = i THEN r ELSE links[x]
  BY DEF TypeOK
<1>2. links' \in [Ids -> Row]
  BY DEF TypeOK
<1> QED
  BY <1>1, <1>2 DEF TypeOK, Taken, Present

\* A handler that takes its next step, or is done.
LEMMA TypeGoto ==
  ASSUME TypeInv, NEW h \in Handlers,
         UNCHANGED <<links, keys, doomed, ops, ghosts>>,
         Done(h) \/ \E at \in {"count", "insert", "update"} :
                      /\ Goto(h, at)
                      /\ at \in Creating => job[h].at \in Creating
                      /\ at \in OnLink => job[h].at \in OnLink
  PROVE  TypeInv'
<1>1. job' \in [Handlers -> Job]
  BY JobTypes DEF TypeInv, TypeOK, Done, Goto, Job, Steps
<1>2. TypeOK'
  BY <1>1, TypeOfRest DEF TypeInv, TypeOK, ghosts
<1>3. \A x \in Handlers \ {h} : job'[x] = job[x]
  BY DEF TypeInv, TypeOK, Done, Goto
<1>4. \/ job'[h] = NoJob
      \/ /\ job'[h].user = job[h].user /\ job'[h].link = job[h].link
         /\ job'[h].at # "save"
         /\ job'[h].at \in Creating => job[h].at \in Creating
         /\ job'[h].at \in OnLink => job[h].at \in OnLink
  BY DEF TypeInv, TypeOK, Job, Done, Goto
<1>5. JobInv'
  BY <1>3, <1>4 DEF TypeInv, JobInv, NoJob, Creating, OnLink
<1> QED
  BY <1>2, <1>5 DEF TypeInv

LEMMA TypeBegin ==
  ASSUME TypeInv, NEW h \in Handlers, Begin(h)
  PROVE  TypeInv'
<1> USE DEF TypeInv
<1>1. PICK u \in Users, k \in Keys \cup {None}, c \in Codes \cup {None} :
        /\ Take(h)
        /\ job' = [job EXCEPT ![h] = [NoJob EXCEPT
               !.at = IF c = None THEN "count" ELSE "alias",
               !.user = u, !.key = k, !.code = c]]
        /\ slipped' \in {slipped, IF k = None THEN slipped ELSE slipped \cup {<<u, k>>}}
        /\ UNCHANGED <<links, keys, doomed, made, revived, latest, overlapped, tags,
                       handled, early>>
  BY DEF Begin
<1>2. job' \in [Handlers -> Job]
  BY <1>1, JobTypes DEF TypeOK, Job, Steps
<1>3. slipped' \in SUBSET (Users \X Keys)
  BY <1>1 DEF TypeOK
<1>4. ops' \in 0..MaxOps
  BY <1>1, TableAssumption DEF Take, TypeOK
<1>5. TypeOK'
  BY <1>1, <1>2, <1>3, <1>4, TypeOfRest DEF TypeOK
<1>6. \A x \in Handlers \ {h} : job'[x] = job[x]
  BY <1>1 DEF TypeOK
<1>7. job'[h].user \in Users /\ job'[h].at \notin OnLink
  BY <1>1 DEF TypeOK, NoJob, OnLink
<1>8. JobInv'
  BY <1>1, <1>6, <1>7 DEF JobInv, OnLink
<1> QED
  BY <1>5, <1>8

LEMMA TypeOfMade ==
  ASSUME NEW S, NEW f \in [S -> SUBSET Ids], NEW p, NEW i \in Ids
  PROVE  [f EXCEPT ![p] = f[p] \cup {i}] \in [S -> SUBSET Ids]
OBVIOUS

LEMMA TypeInsert ==
  ASSUME TypeInv, NEW h \in Handlers, Insert(h)
  PROVE  TypeInv'
<1> USE DEF TypeInv
<1> DEFINE j == job[h]
<1>0. j \in Job /\ j.user \in Users /\ j.at = "insert"
  BY DEF TypeOK, JobInv, Insert, Creating
<1>1. PICK i \in Ids, c \in Codes :
        /\ links[i] = Unused
        /\ Unique(c, i)
        /\ links' = [links EXCEPT ![i] = Added(j.user, c)]
        /\ latest' = [latest EXCEPT ![i] = Content(Added(j.user, c))]
        /\ IF j.key = None
           THEN Done(h) /\ UNCHANGED made
           ELSE /\ job' = [job EXCEPT ![h] = [j EXCEPT !.at = "save", !.link = i]]
                /\ made' = [made EXCEPT ![<<j.user, j.key>>] = @ \cup {i}]
  BY DEF Insert
<1>2. Added(j.user, c) \in Row
  BY <1>0, RowTypes
<1>3. Added(j.user, c).code = c
  BY DEF Added, Unused
<1>4. ~Taken(c, i)
  BY <1>1 DEF Unique
<1>5. latest' \in [Ids -> [code : Codes \cup {None}, text : 0..MaxOps]]
  BY <1>1, <1>2, ContentType DEF TypeOK
<1>6. [j EXCEPT !.at = "save", !.link = i] \in Job
  BY <1>0 DEF Job, Steps
<1>7. \/ job' = [job EXCEPT ![h] = NoJob]
      \/ /\ job' = [job EXCEPT ![h] = [j EXCEPT !.at = "save", !.link = i]]
         /\ j.key # None
  BY <1>1 DEF Done
<1>8. job' \in [Handlers -> Job]
  BY <1>6, <1>7, JobTypes DEF TypeOK
<1>9. \/ made' = made
      \/ made' = [made EXCEPT ![<<j.user, j.key>>] = made[<<j.user, j.key>>] \cup {i}]
  BY <1>1
<1>10. made' \in [Users \X Keys -> SUBSET Ids]
  <2> DEFINE p == <<j.user, j.key>>
             S == Users \X Keys
  <2>1. made' = made \/ made' = [made EXCEPT ![p] = made[p] \cup {i}]
    BY <1>9
  <2>2. made \in [S -> SUBSET Ids]
    BY DEF TypeOK
  <2> HIDE DEF p, S
  <2>3. made' \in [S -> SUBSET Ids]
    BY <2>1, <2>2, TypeOfMade
  <2> QED
    BY <2>3 DEF S
<1>11. UNCHANGED <<keys, doomed, ops, slipped, revived, overlapped, tags, handled, early>>
  BY DEF Insert
<1>12. \A x \in Handlers \ {h} : job'[x] = job[x]
  BY <1>7 DEF TypeOK
<1>13. \/ job'[h] = NoJob
       \/ /\ job'[h].at = "save" /\ job'[h].user = j.user
          /\ job'[h].key = j.key /\ j.key \in Keys /\ job'[h].link = i
  <2>1. CASE job' = [job EXCEPT ![h] = NoJob]
    BY <2>1 DEF TypeOK
  <2>2. CASE job' = [job EXCEPT ![h] = [j EXCEPT !.at = "save", !.link = i]] /\ j.key # None
    <3>1. job'[h] = [j EXCEPT !.at = "save", !.link = i]
      BY <2>2 DEF TypeOK
    <3>2. j \in Job
      BY DEF TypeOK
    <3> HIDE DEF j
    <3>3. j.key \in Keys
      BY <2>2, <3>2 DEF Job
    <3> QED
      BY <3>1, <3>2, <3>3 DEF Job
  <2> QED
    BY <1>7, <2>1, <2>2
<1> HIDE DEF j
<1>14. JobInv'
  BY <1>0, <1>11, <1>12, <1>13 DEF JobInv, NoJob, Creating, OnLink
<1>15. /\ links' \in [Ids -> Row]
       /\ \A x \in Ids : Present(x)' => ~Taken(links[x].code, x)'
  BY <1>1, <1>2, <1>3, <1>4, TypeOfRow
<1>16. TypeOK'
  BY <1>5, <1>8, <1>10, <1>11, <1>15, TagsStay DEF TypeOK
<1> QED
  BY <1>14, <1>16

LEMMA TypeSave ==
  ASSUME TypeInv, NEW h \in Handlers, Save(h)
  PROVE  TypeInv'
<1> USE DEF TypeInv
<1> DEFINE j == job[h]
<1>0. j \in Job /\ j.user \in Users /\ j.key \in Keys /\ j.link \in Ids
  BY DEF TypeOK, JobInv, Save, Creating, OnLink
<1>1. job' = [job EXCEPT ![h] = NoJob]
  BY DEF Save, Done
<1>2. job' \in [Handlers -> Job] /\ \A x \in Handlers : job'[x] \in {NoJob, job[x]}
  BY <1>1, JobTypes DEF TypeOK
<1>3. \/ keys' = keys
      \/ keys' = [keys EXCEPT ![j.key] = [user |-> j.user, link |-> j.link]]
  BY DEF Save
<1>4. keys' \in [Keys -> Answer]
      /\ \A k \in Keys : keys'[k] = keys[k] \/ keys'[k].user \in Users
  BY <1>0, <1>3 DEF TypeOK, Answer
<1>5. slipped' \in SUBSET (Users \X Keys)
  BY <1>0 DEF Save, TypeOK
<1>6. UNCHANGED <<links, doomed, ops, made, revived, latest, overlapped, tags, handled, early>>
  BY DEF Save
<1> HIDE DEF j
<1>7. TypeOK'
  BY <1>2, <1>4, <1>5, <1>6, TypeOfRest DEF TypeOK
<1>8. JobInv'
  BY <1>2, <1>4 DEF JobInv, NoJob, Creating, OnLink
<1> QED
  BY <1>7, <1>8

LEMMA TypePrune ==
  ASSUME TypeInv, Prune
  PROVE  TypeInv'
<1> USE DEF TypeInv
<1>1. PICK k \in Keys :
        /\ keys[k] # NoAnswer
        /\ keys' = [keys EXCEPT ![k] = NoAnswer]
        /\ slipped' = slipped \cup {<<keys[k].user, k>>}
        /\ UNCHANGED <<links, job, doomed, ops, made, revived, latest, overlapped, tags,
                       handled, early>>
  BY DEF Prune
<1>2. NoAnswer \in Answer
  BY DEF NoAnswer, Answer
<1>3. keys' \in [Keys -> Answer] /\ \A x \in Keys : keys'[x] \in {keys[x], NoAnswer}
  BY <1>1, <1>2 DEF TypeOK
<1>4. keys[k].user \in Users
  BY <1>1 DEF JobInv
<1>5. slipped' \in SUBSET (Users \X Keys)
  BY <1>1, <1>4 DEF TypeOK
<1>6. TypeOK'
  BY <1>1, <1>3, <1>5, TypeOfRest DEF TypeOK
<1>7. JobInv'
  BY <1>1, <1>3 DEF JobInv
<1> QED
  BY <1>6, <1>7

LEMMA TypeSend ==
  ASSUME TypeInv, NEW h \in Handlers, Send(h) \/ AskPurge(h)
  PROVE  TypeInv'
<1> USE DEF TypeInv
<1>1. PICK r \in Job :
        /\ r.at \in {"sent", "purge"} /\ r.link \in Ids
        /\ Take(h)
        /\ job' = [job EXCEPT ![h] = r]
        /\ UNCHANGED <<links, keys, doomed, ghosts>>
  <2>1. CASE Send(h)
    <3>1. PICK i \in Ids, c \in Codes \cup {None}, conditional \in BOOLEAN :
            /\ Take(h)
            /\ job' = [job EXCEPT ![h] = [NoJob EXCEPT
                         !.at = "sent", !.link = i, !.code = c,
                         !.text = IF c = None THEN ops + 1 ELSE 0,
                         !.tag = IF conditional THEN links[i].at ELSE -1]]
            /\ UNCHANGED <<links, keys, doomed, ghosts>>
      BY <2>1 DEF Send
    <3>2. (IF c = None THEN ops + 1 ELSE 0) \in 0..MaxOps
      BY <3>1, TableAssumption DEF Take, TypeOK
    <3>3. (IF conditional THEN links[i].at ELSE -1) \in {-1} \cup Nat
      BY DEF TypeOK, Row
    <3>4. [NoJob EXCEPT !.at = "sent", !.link = i, !.code = c,
                        !.text = IF c = None THEN ops + 1 ELSE 0,
                        !.tag = IF conditional THEN links[i].at ELSE -1] \in Job
      BY <3>2, <3>3, SentJob
    <3> QED
      BY <3>1, <3>4 DEF NoJob
  <2>2. CASE AskPurge(h)
    <3>1. PICK i \in Ids :
            /\ Take(h)
            /\ job' = [job EXCEPT ![h] = [NoJob EXCEPT !.at = "purge", !.link = i]]
            /\ UNCHANGED <<links, keys, doomed, ghosts>>
      BY <2>2 DEF AskPurge
    <3>2. [NoJob EXCEPT !.at = "purge", !.link = i] \in Job
      BY JobTypes DEF Job, Steps
    <3> QED
      BY <3>1, <3>2 DEF NoJob
  <2> QED
    BY <2>1, <2>2
<1>2. job' \in [Handlers -> Job]
  BY <1>1 DEF TypeOK
<1>3. ops' \in 0..MaxOps
  BY <1>1, TableAssumption DEF Take, TypeOK
<1>4. TypeOK'
  BY <1>1, <1>2, <1>3, TypeOfRest DEF TypeOK, ghosts
<1>5. \A x \in Handlers \ {h} : job'[x] = job[x]
  BY <1>1 DEF TypeOK
<1>6. job'[h] = r
  BY <1>1 DEF TypeOK
<1>7. JobInv'
  BY <1>1, <1>5, <1>6 DEF JobInv, Creating, OnLink
<1> QED
  BY <1>4, <1>7

LEMMA TypeRead ==
  ASSUME TypeInv, NEW h \in Handlers, Read(h)
  PROVE  TypeInv'
<1> USE DEF TypeInv
<1> DEFINE j == job[h]
<1> DEFINE r == [j EXCEPT !.read = links[j.link],
                          !.at = IF j.code \in {None, links[j.link].code}
                                 THEN "update" ELSE "rename"]
<1>1. j \in Job /\ j.link \in Ids /\ links[j.link] \in Row
  BY DEF TypeOK, JobInv, Read, OnLink
<1>2. r \in Job /\ r.at \in {"update", "rename"} /\ r.link = j.link
  BY <1>1 DEF Job, Steps
<1>3. job' = [job EXCEPT ![h] = r] \/ job' = [job EXCEPT ![h] = NoJob]
  BY DEF Read, Done
<1>4. UNCHANGED <<links, keys, doomed, ops, ghosts>>
  BY DEF Read
<1> HIDE DEF r, j
<1>5. job' \in [Handlers -> Job]
  BY <1>2, <1>3, JobTypes DEF TypeOK
<1>6. TypeOK'
  BY <1>4, <1>5, TypeOfRest DEF TypeOK, ghosts
<1>7. job'[h] \in {r, NoJob} /\ \A x \in Handlers \ {h} : job'[x] = job[x]
  BY <1>3 DEF TypeOK
<1>8. JobInv'
  BY <1>1, <1>2, <1>4, <1>7 DEF JobInv, NoJob, Creating, OnLink
<1> QED
  BY <1>6, <1>8

\* What Write does: a row with a version, or nothing.
LEMMA Written ==
  ASSUME TypeInv, NEW i \in Ids, NEW w \in Row, Write(i, w)
  PROVE  /\ \E v \in Nat : links' \in {links, [links EXCEPT ![i] =
               [links[i] EXCEPT !.code = w.code, !.text = w.text, !.at = v]]}
         /\ versions' \in [Ids -> Nat \ {0}] /\ coincided' \in SUBSET Ids
         /\ \A x \in Ids : /\ links'[x].is = links[x].is /\ links'[x].owner = links[x].owner
                           /\ links'[x].old = links[x].old
                           /\ x # i => links'[x] = links[x]
         /\ ~Present(i) => UNCHANGED <<links, versions, coincided>>
         /\ Present(i) => /\ Content(links'[i]) = Content(w)
                          /\ \E v \in Stamps(i) : Stamped(i, v) /\ links'[i].at = v
<1>1. CASE ~Present(i)
  BY <1>1 DEF Write, TypeInv, TypeOK, TagTypes
<1>2. CASE Present(i)
  <2>1. PICK v \in Stamps(i) :
          /\ Stamped(i, v)
          /\ links' = [links EXCEPT ![i].code = w.code, ![i].text = w.text, ![i].at = v]
    BY <1>2 DEF Write
  <2>2. links' = [links EXCEPT ![i] =
                    [links[i] EXCEPT !.code = w.code, !.text = w.text, !.at = v]]
    BY <2>1 DEF TypeInv, TypeOK
  <2>3. links[i] \in Row
    BY DEF TypeInv, TypeOK
  <2>4. /\ links'[i].at = v /\ links'[i].code = w.code /\ links'[i].text = w.text
        /\ links'[i].is = links[i].is /\ links'[i].owner = links[i].owner
        /\ links'[i].old = links[i].old
    BY <2>2, <2>3 DEF Row, TypeInv, TypeOK
  <2>5. \A x \in Ids \ {i} : links'[x] = links[x]
    BY <2>2 DEF TypeInv, TypeOK
  <2> QED
    BY <1>2, <2>1, <2>2, <2>4, <2>5, StampTypes DEF Content
<1> QED
  BY <1>1, <1>2

LEMMA UpdateWrites ==
  ASSUME TypeInv, NEW h \in Handlers, Update(h)
  PROVE  /\ job[h].link \in Ids /\ Edited(job[h].read, job[h]) \in Row
         /\ Write(job[h].link, Edited(job[h].read, job[h]))
         /\ \A x \in Ids : /\ links'[x].is = links[x].is /\ links'[x].owner = links[x].owner
                           /\ links'[x].old = links[x].old
                           /\ x # job[h].link => links'[x] = links[x]
<1> DEFINE i == job[h].link
           w == Edited(job[h].read, job[h])
<1>1. job[h] \in Job /\ i \in Ids
  BY DEF TypeInv, TypeOK, JobInv, Update, OnLink
<1>2. w \in Row
  BY <1>1 DEF Edited, Job, Row
<1>3. Write(i, w)
  BY DEF Update
<1> HIDE DEF i, w
<1>4. \A x \in Ids : /\ links'[x].is = links[x].is /\ links'[x].owner = links[x].owner
                     /\ links'[x].old = links[x].old
                     /\ x # i => links'[x] = links[x]
  BY <1>1, <1>2, <1>3, Written
<1> QED
  BY <1>1, <1>2, <1>3, <1>4 DEF i, w

LEMMA TypeUpdate ==
  ASSUME TypeInv, NEW h \in Handlers, Update(h)
  PROVE  TypeInv'
<1> USE DEF TypeInv
<1> DEFINE j == job[h]
           i == j.link
           w == Edited(j.read, j)
           r(v) == [links[i] EXCEPT !.code = w.code, !.text = w.text, !.at = v]
<1>1. j \in Job /\ i \in Ids /\ links[i] \in Row /\ latest[i] \in [code : Codes \cup {None}, text : 0..MaxOps]
  BY DEF TypeOK, JobInv, Update, OnLink
<1>2. w \in Row
  BY <1>1 DEF Edited, Job, Row
<1>3. /\ \E v \in Nat : links' \in {links, [links EXCEPT ![i] = r(v)]}
      /\ versions' \in [Ids -> Nat \ {0}] /\ coincided' \in SUBSET Ids
  BY UpdateWrites, Written
<1>4. ~Taken(w.code, i)
  BY DEF Update, Unique
<1>5. Asked(latest[i], j) \in [code : Codes \cup {None}, text : 0..MaxOps]
  BY <1>1 DEF Asked, Job
<1>6. latest' = [latest EXCEPT ![i] = Asked(latest[i], j)]
  BY DEF Update
<1>7. /\ overlapped' \in {overlapped, overlapped \cup {i}}
      /\ twice' \in {twice, twice \cup {i}}
      /\ claimed' \in {claimed, IF j.tag = -1 THEN claimed ELSE claimed \cup {<<i, j.tag>>}}
  BY DEF Update
<1>8. job' = [job EXCEPT ![h] = NoJob]
  BY DEF Update, Done
<1>9. UNCHANGED <<keys, doomed, ops, made, slipped, revived, handled, early>>
  BY DEF Update
<1> HIDE DEF w
<1>20. /\ w.code \in Codes \cup {None} /\ w.text \in 0..MaxOps
       /\ j.tag = -1 \/ j.tag \in Nat
  BY <1>1, <1>2 DEF Row, Job
<1>10. \A v \in Nat : r(v) \in Row /\ r(v).code = w.code
  BY <1>1, <1>20 DEF Row
<1> HIDE DEF r, i, j
<1>11. /\ links' \in [Ids -> Row]
       /\ \A x \in Ids : Present(x)' => ~Taken(links[x].code, x)'
  <2>1. CASE links' = links
    BY <2>1 DEF TypeOK, Present, Taken
  <2>2. ASSUME NEW v \in Nat, links' = [links EXCEPT ![i] = r(v)]
        PROVE  /\ links' \in [Ids -> Row]
               /\ \A x \in Ids : Present(x)' => ~Taken(links[x].code, x)'
    BY <2>2, <1>1, <1>4, <1>10, TypeOfRow
  <2> QED
    BY <1>3, <2>1, <2>2
<1>12. job' \in [Handlers -> Job] /\ \A x \in Handlers : job'[x] \in {NoJob, job[x]}
  BY <1>8, JobTypes DEF TypeOK
<1>13. latest' \in [Ids -> [code : Codes \cup {None}, text : 0..MaxOps]]
  BY <1>5, <1>6 DEF TypeOK
<1>14. overlapped' \in SUBSET Ids /\ TagTypes'
  BY <1>1, <1>3, <1>7, <1>20 DEF TypeOK, TagTypes
<1>15. TypeOK'
  BY <1>9, <1>11, <1>12, <1>13, <1>14 DEF TypeOK
<1>16. JobInv'
  BY <1>9, <1>12 DEF JobInv, NoJob, Creating, OnLink
<1> QED
  BY <1>15, <1>16

\* A step that writes one row, or removes it, and ghosts of it.
LEMMA TypeDeletion ==
  ASSUME TypeInv, NEW i \in Ids, NEW r \in Row,
         links' \in {links, [links EXCEPT ![i] = r]},
         r.is \in {"live", "trash"} => Present(i) /\ r.code = links[i].code,
         job' \in [Handlers -> Job], \A x \in Handlers : job'[x] \in {NoJob, job[x]},
         doomed' \in SUBSET Ids, ops' \in 0..MaxOps,
         revived' \in SUBSET Ids, handled' \in SUBSET Ids, early' \in SUBSET Ids,
         UNCHANGED <<keys, made, slipped, latest, overlapped>>, TagTypes'
  PROVE  TypeInv'
<1> USE DEF TypeInv
<1>1. /\ links' \in [Ids -> Row]
      /\ \A x \in Ids : Present(x)' => ~Taken(links[x].code, x)'
  <2>1. CASE links' = links
    BY <2>1 DEF TypeOK, Present, Taken
  <2>2. CASE links' = [links EXCEPT ![i] = r]
    <3>1. r.is \in {"live", "trash"} => ~Taken(r.code, i)
      BY DEF TypeOK
    <3> QED
      BY <2>2, <3>1, TypeOfRow
  <2> QED
    BY <2>1, <2>2
<1>2. TypeOK'
  BY <1>1 DEF TypeOK
<1>3. JobInv'
  BY DEF JobInv, NoJob, Creating, OnLink
<1> QED
  BY <1>2, <1>3

LEMMA TypeRows ==
  ASSUME TypeInv, NEW i \in Ids, Delete(i) \/ Restore(i) \/ AdminPurge(i) \/ Age(i)
  PROVE  TypeInv'
<1> USE DEF TypeInv
<1>0. links[i] \in Row
  BY DEF TypeOK
<1>5. ASSUME Delete(i) \/ Restore(i)
      PROVE  /\ Present(i) /\ ops' \in 0..MaxOps /\ TagTypes'
             /\ \E v \in Nat, is \in {"live", "trash"} :
                  links' = [links EXCEPT ![i] =
                              [links[i] EXCEPT !.is = is, !.old = FALSE, !.at = v]]
             /\ revived' \in SUBSET Ids /\ handled' \in SUBSET Ids
             /\ UNCHANGED <<keys, job, doomed, made, slipped, latest, overlapped, early>>
  <2>1. PICK v \in Stamps(i), is \in {"live", "trash"} :
          /\ Stamped(i, v)
          /\ links' = [links EXCEPT ![i].is = is, ![i].old = FALSE, ![i].at = v]
    BY <1>5 DEF Delete, Restore
  <2>2. v \in Nat /\ versions' \in [Ids -> Nat \ {0}] /\ coincided' \in SUBSET Ids
    BY <2>1, StampTypes
  <2>3. UNCHANGED <<claimed, twice>>
    BY <1>5 DEF Delete, Restore
  <2>4. TagTypes'
    BY <2>2, <2>3 DEF TypeOK, TagTypes
  <2>5. links' = [links EXCEPT ![i] = [links[i] EXCEPT !.is = is, !.old = FALSE, !.at = v]]
    BY <2>1 DEF TypeOK
  <2>6. Present(i) /\ ops' \in 0..MaxOps
    BY <1>5, TableAssumption DEF Delete, Restore, TypeOK
  <2>7. /\ revived' \in SUBSET Ids /\ handled' \in SUBSET Ids
        /\ UNCHANGED <<keys, job, doomed, made, slipped, latest, overlapped, early>>
    BY <1>5 DEF Delete, Restore, TypeOK
  <2> QED
    BY <2>2, <2>4, <2>5, <2>6, <2>7
<1>1. CASE Delete(i) \/ Restore(i)
  <2>1. PICK v \in Nat, is \in {"live", "trash"} :
          links' = [links EXCEPT ![i] = [links[i] EXCEPT !.is = is, !.old = FALSE, !.at = v]]
    BY <1>1, <1>5
  <2> DEFINE r == [links[i] EXCEPT !.is = is, !.old = FALSE, !.at = v]
  <2>2. r \in Row
    BY <1>0, RowEdit
  <2>3. r.code = links[i].code
    BY <1>0 DEF Row
  <2>4. links' = [links EXCEPT ![i] = r]
    BY <2>1
  <2>5. /\ job' \in [Handlers -> Job] /\ doomed' \in SUBSET Ids /\ early' \in SUBSET Ids
        /\ \A x \in Handlers : job'[x] \in {NoJob, job[x]}
    BY <1>1, <1>5 DEF TypeOK
  <2> HIDE DEF r
  <2> QED
    BY <1>1, <1>5, <2>2, <2>3, <2>4, <2>5, TypeDeletion
<1>3. CASE AdminPurge(i)
  <2>1. ops' \in 0..MaxOps
    BY <1>3, TableAssumption DEF AdminPurge, TypeOK
  <2>2. Purged.is = "purged"
    BY DEF Purged, Unused
  <2> QED
    BY <1>3, <2>1, <2>2, RowTypes, TagsStay, TypeDeletion DEF AdminPurge, Remove, TypeOK
<1>4. CASE Age(i)
  <2> DEFINE r == [links[i] EXCEPT !.old = TRUE]
  <2>1. r \in Row /\ r.code = links[i].code
    BY <1>0 DEF Row
  <2>2. links' = [links EXCEPT ![i] = r]
    BY <1>4 DEF Age
  <2>3. Present(i)
    BY <1>4 DEF Age, Present
  <2> HIDE DEF r
  <2> QED
    BY <1>4, <2>1, <2>2, <2>3, TagsStay, TypeDeletion DEF Age, ghosts, TypeOK
<1> QED
  BY <1>1, <1>3, <1>4

LEMMA TypePurges ==
  ASSUME TypeInv, (\E h \in Handlers : Purge(h)) \/ JobSelects \/ JobPurges \/ JobFails
  PROVE  TypeInv'
<1> USE DEF TypeInv
<1>1. Purged.is = "purged"
  BY DEF Purged, Unused
<1>2. ASSUME NEW h \in Handlers, Purge(h) PROVE TypeInv'
  <2>1. job[h].link \in Ids
    BY <1>2 DEF Purge, JobInv, OnLink
  <2>2. job' \in [Handlers -> Job] /\ \A x \in Handlers : job'[x] \in {NoJob, job[x]}
    BY <1>2, JobTypes DEF Purge, Done, TypeOK
  <2>3. links' \in {links, [links EXCEPT ![job[h].link] = Purged]}
    BY <1>2 DEF Purge, Remove
  <2>4. revived' \in SUBSET Ids /\ early' \in SUBSET Ids
    BY <1>2, <2>1 DEF Purge, Remove, TypeOK
  <2>5. UNCHANGED <<keys, doomed, ops, made, slipped, latest, overlapped, tags, handled>>
    BY <1>2 DEF Purge
  <2> QED
    BY <1>1, <2>1, <2>2, <2>3, <2>4, <2>5, RowTypes, TagsStay, TypeDeletion DEF TypeOK
<1>3. CASE JobSelects \/ JobFails
  <2>1. /\ doomed' \in SUBSET Ids
        /\ UNCHANGED <<links, keys, job, ops, ghosts>>
    BY <1>3 DEF JobSelects, JobFails
  <2>2. TypeOK'
    BY <2>1, TypeOfRest DEF TypeOK, ghosts
  <2>3. JobInv'
    BY <2>1 DEF JobInv
  <2> QED
    BY <2>2, <2>3
<1>4. CASE JobPurges
  <2>1. PICK i \in doomed :
          /\ Remove(i)
          /\ doomed' = doomed \ {i}
          /\ early' = early \cup (IF Present(i) /\ ~links[i].old THEN {i} ELSE {})
    BY <1>4 DEF JobPurges
  <2>2. i \in Ids
    BY DEF TypeOK
  <2>3. UNCHANGED <<keys, job, ops, made, slipped, latest, overlapped, tags, handled>>
    BY <1>4 DEF JobPurges
  <2>4. links' \in {links, [links EXCEPT ![i] = Purged]}
    BY <2>1 DEF Remove
  <2>5. revived' \in SUBSET Ids /\ early' \in SUBSET Ids /\ doomed' \in SUBSET Ids
    BY <2>1, <2>2 DEF Remove, TypeOK
  <2> QED
    BY <1>1, <2>2, <2>3, <2>4, <2>5, RowTypes, TagsStay, TypeDeletion DEF TypeOK
<1> QED
  BY <1>2, <1>3, <1>4

LEMMA TypeCrash ==
  ASSUME TypeInv, Crash
  PROVE  TypeInv'
<1> USE DEF TypeInv
<1>1. job' = [h \in Handlers |-> NoJob] /\ doomed' = {}
  BY DEF Crash
<1>2. slipped' \in SUBSET (Users \X Keys)
  BY DEF Crash, TypeOK
<1>3. UNCHANGED <<links, keys, ops, made, revived, latest, overlapped, tags, handled, early>>
  BY DEF Crash
<1>4. TypeOK'
  BY <1>1, <1>2, <1>3, JobTypes, TypeOfRest DEF TypeOK
<1>5. JobInv'
  BY <1>1, <1>3 DEF JobInv, NoJob, Creating, OnLink
<1> QED
  BY <1>4, <1>5

LEMMA TypeNext == TypeInv /\ [Next]_vars => TypeInv'
<1> SUFFICES ASSUME TypeInv, [Next]_vars PROVE TypeInv'
  OBVIOUS
<1>1. ASSUME NEW h \in Handlers, Request(h) PROVE TypeInv'
  <2>1. CASE CheckAlias(h) \/ CheckLimit(h) \/ CheckRename(h) \/ CreateFails(h) \/ UpdateFails(h)
    <3>1. UNCHANGED <<links, keys, doomed, ops, ghosts>>
      BY <2>1 DEF CheckAlias, CheckLimit, CheckRename, CreateFails, UpdateFails
    <3>2. Done(h) \/ \E at \in {"count", "insert", "update"} :
                       /\ Goto(h, at)
                       /\ at \in Creating => job[h].at \in Creating
                       /\ at \in OnLink => job[h].at \in OnLink
      BY <2>1 DEF CheckAlias, CheckLimit, CheckRename, CreateFails, UpdateFails, Creating, OnLink
    <3> QED
      BY <3>1, <3>2, TypeGoto
  <2> QED
    BY <1>1, <2>1, TypeBegin, TypeInsert, TypeSave, TypeSend, TypeRead, TypeUpdate, TypePurges
    DEF Request
<1>2. CASE UNCHANGED vars
  BY <1>2, TagsStay DEF vars, ghosts, TypeInv, TypeOK, JobInv, Present, Taken
<1> QED
  BY <1>1, <1>2, TypeRows, TypePrune, TypePurges, TypeCrash DEF Next

\* The table keeps its types, and no two links, those in the trash included,
\* have the same code.
THEOREM TableTypeCorrect == Spec => []TypeOK
<1>1. Spec => []TypeInv
  BY TypeInit, TypeNext, PTL DEF Spec
<1> QED
  BY <1>1, PTL DEF TypeInv

-----------------------------------------------------------------------------
(* What a step does to the jobs and the rows.                              *)

\* A handler that ends, or takes its next step with what it knows.
Ends(h)  == job'[h] = NoJob
Moves(h) == /\ job'[h].user = job[h].user /\ job'[h].key = job[h].key
            /\ job'[h].link = job[h].link /\ job'[h].read = job[h].read
            /\ job'[h].tag = job[h].tag

LEMMA OtherJobs ==
  ASSUME TypeInv, NEW h \in Handlers, Request(h)
  PROVE  \A x \in Handlers \ {h} : job'[x] = job[x]
<1>1. ASSUME Done(h) \/ \E at : Goto(h, at) PROVE \A x \in Handlers \ {h} : job'[x] = job[x]
  BY <1>1 DEF TypeInv, TypeOK, Done, Goto
<1>2. ASSUME NEW r, job' = [job EXCEPT ![h] = r] PROVE \A x \in Handlers \ {h} : job'[x] = job[x]
  BY <1>2 DEF TypeInv, TypeOK
<1>3. CASE Begin(h) \/ Send(h) \/ AskPurge(h)
  BY <1>2, <1>3 DEF Begin, Send, AskPurge
<1>4. CASE CheckAlias(h) \/ CheckLimit(h) \/ CheckRename(h)
  BY <1>1, <1>4 DEF CheckAlias, CheckLimit, CheckRename
<1>5. CASE Insert(h) \/ Read(h)
  BY <1>1, <1>2, <1>5 DEF Insert, Read
<1>6. CASE CreateFails(h) \/ UpdateFails(h) \/ Save(h) \/ Update(h) \/ Purge(h)
  BY <1>1, <1>6 DEF CreateFails, UpdateFails, Save, Update, Purge
<1> QED
  BY <1>3, <1>4, <1>5, <1>6 DEF Request

\* A handler that is taken up, and one that is done.
LEMMA OwnJob ==
  ASSUME TypeInv, NEW h \in Handlers
  PROVE  /\ \A r : job' = [job EXCEPT ![h] = r] => job'[h] = r
         /\ Done(h) => job'[h] = NoJob
         /\ Begin(h) => job'[h].at \in {"alias", "count"}
         /\ Send(h) => job'[h].at = "sent" /\ job'[h].link \in Ids /\ Present(job'[h].link)
         /\ AskPurge(h) => job'[h].at = "purge" /\ job'[h].link \in Ids
                           /\ links[job'[h].link].is = "trash"
         /\ Insert(h) => job'[h].at \in {"idle", "save"}
<1>1. \A r : job' = [job EXCEPT ![h] = r] => job'[h] = r
  BY DEF TypeInv, TypeOK
<1>2. Done(h) => job'[h] = NoJob
  BY <1>1 DEF Done
<1>3. Begin(h) => job'[h].at \in {"alias", "count"}
  <2>1. SUFFICES ASSUME Begin(h) PROVE job'[h].at \in {"alias", "count"}
    OBVIOUS
  <2>2. PICK u \in Users, k \in Keys \cup {None}, c \in Codes \cup {None} :
          job' = [job EXCEPT ![h] = [NoJob EXCEPT
                    !.at = IF c = None THEN "count" ELSE "alias",
                    !.user = u, !.key = k, !.code = c]]
    BY <2>1 DEF Begin
  <2>3. job'[h].at = IF c = None THEN "count" ELSE "alias"
    BY <2>2 DEF NoJob, TypeInv, TypeOK
  <2> QED
    BY <2>3
<1>4. Send(h) => job'[h].at = "sent" /\ job'[h].link \in Ids /\ Present(job'[h].link)
  <2>1. SUFFICES ASSUME Send(h)
                 PROVE  job'[h].at = "sent" /\ job'[h].link \in Ids /\ Present(job'[h].link)
    OBVIOUS
  <2>2. PICK i \in Ids, c \in Codes \cup {None}, conditional \in BOOLEAN :
          /\ Present(i)
          /\ job' = [job EXCEPT ![h] = [NoJob EXCEPT
                       !.at = "sent", !.link = i, !.code = c,
                       !.text = IF c = None THEN ops + 1 ELSE 0,
                       !.tag = IF conditional THEN links[i].at ELSE -1]]
    BY <2>1 DEF Send
  <2>3. job'[h].at = "sent" /\ job'[h].link = i
    BY <2>2 DEF NoJob, TypeInv, TypeOK
  <2> QED
    BY <2>2, <2>3
<1>5. AskPurge(h) => job'[h].at = "purge" /\ job'[h].link \in Ids
                     /\ links[job'[h].link].is = "trash"
  BY <1>1 DEF AskPurge, NoJob, Purgeable
<1>6. Insert(h) => job'[h].at \in {"idle", "save"}
  <2>1. SUFFICES ASSUME Insert(h) PROVE job'[h].at \in {"idle", "save"}
    OBVIOUS
  <2>2. PICK i \in Ids :
          Done(h) \/ job' = [job EXCEPT ![h] = [job[h] EXCEPT !.at = "save", !.link = i]]
    BY <2>1 DEF Insert
  <2>3. [job[h] EXCEPT !.at = "save", !.link = i].at = "save" /\ NoJob.at = "idle"
    BY DEF TypeInv, TypeOK, Job, NoJob
  <2> QED
    BY <1>1, <1>2, <2>2, <2>3
<1> QED
  BY <1>1, <1>2, <1>3, <1>4, <1>5, <1>6

\* The checks and the failures: nothing but the job changes.
LEMMA SmallSteps ==
  ASSUME TypeInv, NEW h \in Handlers,
         CheckAlias(h) \/ CheckLimit(h) \/ CheckRename(h) \/ CreateFails(h) \/ UpdateFails(h)
  PROVE  /\ UNCHANGED <<links, keys, doomed, ops, ghosts>>
         /\ \/ Ends(h) /\ job[h].at \in {"alias", "count", "insert", "rename", "update"}
            \/ Moves(h) /\ job[h].at = "alias" /\ job'[h].at = "count"
            \/ Moves(h) /\ job[h].at = "rename" /\ job'[h].at = "update"
            \/ /\ Moves(h) /\ job[h].at = "count" /\ job'[h].at = "insert"
               /\ Below(job[h].user)
<1>1. UNCHANGED <<links, keys, doomed, ops, ghosts>>
  BY DEF CheckAlias, CheckLimit, CheckRename, CreateFails, UpdateFails
<1>2. Done(h) => Ends(h)
  BY DEF TypeInv, TypeOK, Done, Ends
<1>3. \A at : Goto(h, at) => Moves(h) /\ job'[h].at = at
  BY DEF TypeInv, TypeOK, Job, Goto, Moves
<1> QED
  BY <1>1, <1>2, <1>3 DEF CheckAlias, CheckLimit, CheckRename, CreateFails, UpdateFails

\* What becomes of a row that no creation fills and no edit writes.
Kept(i) ==
  \/ links'[i] = links[i]
  \/ links'[i] = Purged /\ Present(i)
  \/ /\ Present(i) /\ Present(i)'
     /\ links'[i].owner = links[i].owner /\ Content(links'[i]) = Content(links[i])

LEMMA RowsKept ==
  ASSUME TypeInv,
         \/ UNCHANGED links
         \/ \E i \in Ids : Delete(i) \/ Restore(i) \/ Remove(i) \/ AdminPurge(i) \/ Age(i)
  PROVE  \A i \in Ids : Kept(i)
<1>1. CASE UNCHANGED links
  BY <1>1 DEF Kept
<1>2. ASSUME NEW i \in Ids, Delete(i) \/ Restore(i) \/ Age(i) PROVE \A x \in Ids : Kept(x)
  <2>1. links[i] \in Row /\ Present(i)
    BY <1>2 DEF Delete, Restore, Age, Present, TypeInv, TypeOK
  <2>2. \A x \in Ids \ {i} : links'[x] = links[x]
    BY <1>2 DEF Delete, Restore, Age, TypeInv, TypeOK
  <2>3. /\ links'[i].is \in {"live", "trash"} /\ links'[i].owner = links[i].owner
        /\ links'[i].code = links[i].code /\ links'[i].text = links[i].text
    <3>1. CASE Delete(i) \/ Restore(i)
      <4>1. PICK v \in Stamps(i), is \in {"live", "trash"} :
              links' = [links EXCEPT ![i].is = is, ![i].old = FALSE, ![i].at = v]
        BY <3>1 DEF Delete, Restore
      <4> QED
        BY <2>1, <4>1 DEF TypeInv, TypeOK, Row
    <3>2. CASE Age(i)
      BY <2>1, <3>2 DEF Age, TypeInv, TypeOK, Row
    <3> QED
      BY <1>2, <3>1, <3>2
  <2> QED
    BY <2>1, <2>2, <2>3 DEF Kept, Present, Content
<1>3. ASSUME NEW i \in Ids, Remove(i) \/ AdminPurge(i) PROVE \A x \in Ids : Kept(x)
  BY <1>3 DEF Remove, AdminPurge, Kept, TypeInv, TypeOK
<1> QED
  BY <1>1, <1>2, <1>3

\* The steps of the handlers and the job that keep rows, creations and edits apart.
LEMMA KeptByMost ==
  ASSUME TypeInv, Next, ~\E h \in Handlers : Insert(h) \/ Update(h)
  PROVE  /\ \A i \in Ids : Kept(i)
         /\ UNCHANGED <<made, latest, overlapped>>
<1>1. ASSUME NEW h \in Handlers, Request(h)
      PROVE  /\ UNCHANGED links \/ (job[h].link \in Ids /\ Remove(job[h].link))
             /\ UNCHANGED <<made, latest, overlapped>>
  <2>1. CASE Purge(h)
    BY <2>1 DEF Purge, TypeInv, JobInv, OnLink
  <2>2. CASE Begin(h) \/ Save(h) \/ Send(h) \/ Read(h) \/ AskPurge(h)
    BY <2>2 DEF Begin, Save, Send, Read, AskPurge, ghosts
  <2> QED
    BY <1>1, <2>1, <2>2, SmallSteps DEF Request, ghosts
<1>2. CASE \E i \in Ids : Delete(i) \/ Restore(i) \/ AdminPurge(i) \/ Age(i)
  BY <1>2, RowsKept DEF Delete, Restore, AdminPurge, Age, ghosts
<1>3. CASE JobPurges
  <2>1. \E i \in Ids : Remove(i)
    BY <1>3 DEF JobPurges, TypeInv, TypeOK
  <2> QED
    BY <1>3, <2>1, RowsKept DEF JobPurges
<1>4. CASE Prune \/ JobSelects \/ JobFails \/ Crash
  BY <1>4, RowsKept DEF Prune, JobSelects, JobFails, Crash, ghosts
<1> QED
  BY <1>1, <1>2, <1>3, <1>4, RowsKept DEF Next

-----------------------------------------------------------------------------
(* Edits.                                                                  *)

Editing == {"rename", "update"}

\* A handler that looks at its link gives up or remembers the row.
LEMMA ReadJob ==
  ASSUME TypeInv, NEW h \in Handlers, Read(h)
  PROVE  /\ job[h].at = "sent"
         /\ \/ Ends(h)
            \/ /\ job'[h].at \in Editing
               /\ job'[h].link = job[h].link /\ job'[h].read = links[job[h].link]
<1>1. job[h] \in Job
  BY DEF TypeInv, TypeOK
<1>2. job[h].at = "sent"
  BY DEF Read
<1>3. CASE Done(h)
  BY <1>2, <1>3, OwnJob DEF Ends
<1>4. CASE ~Done(h)
  <2>1. PICK next \in Editing :
          job' = [job EXCEPT ![h] = [job[h] EXCEPT !.read = links[job[h].link], !.at = next]]
    BY <1>4 DEF Read, Editing
  <2>2. job'[h] = [job[h] EXCEPT !.read = links[job[h].link], !.at = next]
    BY <2>1, OwnJob
  <2>3. job'[h].at = next /\ job'[h].link = job[h].link /\ job'[h].read = links[job[h].link]
    BY <1>1, <2>2 DEF Job
  <2> QED
    BY <1>2, <2>3
<1> QED
  BY <1>3, <1>4

\* A row that a handler has read is as the handler read it, until the handler
\* writes it or another edit makes them overlap; nobody edits an unused row.
EditInv ==
  /\ \A i \in Ids \ overlapped : Present(i) =>
       /\ Content(links[i]) = latest[i]
       /\ \A h \in Handlers : job[h].at \in Editing /\ job[h].link = i =>
            Content(job[h].read) = Content(links[i])
  /\ \A h \in Handlers : job[h].at \in Editing \cup {"sent"} => links[job[h].link].is # "unused"

LEMMA EditFrame ==
  ASSUME TypeInv, EditInv, \A i \in Ids : Kept(i), UNCHANGED <<latest, overlapped>>,
         \A h \in Handlers : job'[h].at \in Editing \cup {"sent"} =>
           /\ job'[h].link \in Ids
           /\ \/ /\ job[h].at \in Editing \cup {"sent"} /\ job'[h].link = job[h].link
              \/ Present(job'[h].link)
           /\ job'[h].at \in Editing =>
                \/ /\ job[h].at \in Editing /\ job'[h].link = job[h].link
                   /\ job'[h].read = job[h].read
                \/ job'[h].read = links[job'[h].link]
  PROVE  EditInv'
<1>1. \A i \in Ids : /\ Present(i)' => Present(i) /\ Content(links'[i]) = Content(links[i])
                     /\ links[i].is # "unused" => links'[i].is # "unused"
  BY DEF Kept, Present, Purged, Unused
<1>2. \A h \in Handlers : job'[h].at \in Editing \cup {"sent"} => links'[job'[h].link].is # "unused"
  BY <1>1 DEF EditInv, Present
<1>3. ASSUME NEW i \in Ids \ overlapped, Present(i)'
      PROVE  /\ Content(links'[i]) = latest'[i]
             /\ \A h \in Handlers : job'[h].at \in Editing /\ job'[h].link = i =>
                  Content(job'[h].read) = Content(links'[i])
  BY <1>1, <1>3 DEF EditInv
<1> QED
  BY <1>2, <1>3 DEF EditInv, Present

LEMMA EditNext ==
  ASSUME TypeInv, EditInv, [Next]_vars
  PROVE  EditInv'
<1>1. ASSUME NEW h \in Handlers, Insert(h) PROVE EditInv'
  <2>0. \A x \in Handlers \ {h} : job'[x] = job[x]
    BY <1>1, OtherJobs DEF Request
  <2>1. job'[h].at \notin Editing \cup {"sent"}
    BY <1>1, OwnJob DEF Editing
  <2>2. PICK i \in Ids, c \in Codes :
          /\ links[i] = Unused
          /\ links' = [links EXCEPT ![i] = Added(job[h].user, c)]
          /\ latest' = [latest EXCEPT ![i] = Content(Added(job[h].user, c))]
    BY <1>1 DEF Insert
  <2>3. Unused.is = "unused" /\ Added(job[h].user, c).is = "live"
    BY DEF Unused, Added
  <2>4. /\ links'[i].is = "live" /\ Content(links'[i]) = latest'[i]
        /\ \A x \in Ids \ {i} : links'[x] = links[x] /\ latest'[x] = latest[x]
    BY <2>2, <2>3 DEF TypeInv, TypeOK
  <2>5. overlapped' = overlapped
    BY <1>1 DEF Insert
  <2>6. \A x \in Handlers : job[x].at \in Editing \cup {"sent"} => job[x].link \in Ids \ {i}
    BY <2>2, <2>3 DEF EditInv, TypeInv, JobInv, OnLink, Editing
  <2> QED
    BY <2>0, <2>1, <2>4, <2>5, <2>6 DEF EditInv, Present
<1>2. ASSUME NEW h \in Handlers, Update(h) PROVE EditInv'
  <2> DEFINE j == job[h]
             i == j.link
  <2>0. \A x \in Handlers \ {h} : job'[x] = job[x]
    BY <1>2, OtherJobs DEF Request
  <2>1. job'[h] = NoJob
    BY <1>2 DEF Update, Done, TypeInv, TypeOK
  <2>2. i \in Ids /\ j.at = "update" /\ j \in Job /\ links[i] \in Row
    BY <1>2 DEF Update, TypeInv, TypeOK, JobInv, OnLink
  <2>3. /\ latest' = [latest EXCEPT ![i] = Asked(latest[i], j)]
        /\ overlapped' = overlapped \cup (IF Overlaps(h) THEN {i} ELSE {})
    BY <1>2 DEF Update
  <2>4. \A x \in Ids : /\ links'[x].is = links[x].is
                       /\ x # i => links'[x] = links[x]
    BY <1>2, UpdateWrites
  <2>5. Present(i) => Content(links'[i]) = Content(Edited(j.read, j))
    BY <1>2, UpdateWrites, Written
  <2>6. Content(Edited(j.read, j)) = Asked(Content(j.read), j)
    BY <2>2 DEF Job, Row, Content, Edited, Asked
  <2>7. i \notin overlapped /\ Present(i) => Content(links'[i]) = latest'[i]
    <3>1. SUFFICES ASSUME i \notin overlapped, Present(i) PROVE Content(links'[i]) = latest'[i]
      OBVIOUS
    <3>2. Content(j.read) = latest[i]
      BY <2>2, <3>1 DEF EditInv, Editing
    <3>3. latest'[i] = Asked(latest[i], j)
      BY <2>2, <2>3 DEF TypeInv, TypeOK
    <3> QED
      BY <2>5, <2>6, <3>1, <3>2, <3>3
  <2>8. \A x \in Ids \ {i} : latest'[x] = latest[x]
    BY <2>3 DEF TypeInv, TypeOK
  <2>9. \A x \in Handlers : job'[x].at \in Editing \cup {"sent"} => x # h
    BY <2>1 DEF NoJob, Editing
  <2>10. \A x \in Handlers \ {h} : job[x].at \in Editing /\ job[x].link = i => i \in overlapped'
    BY <2>3 DEF Overlaps, Editing
  <2>11. overlapped \subseteq overlapped'
    BY <2>3
  <2>12. \A x \in Handlers : job'[x].at \in Editing \cup {"sent"} => links'[job'[x].link].is # "unused"
    BY <2>0, <2>4, <2>9 DEF EditInv, TypeInv, JobInv, OnLink, Editing
  <2>13. ASSUME NEW x \in Ids \ overlapped', Present(x)'
         PROVE  /\ Content(links'[x]) = latest'[x]
                /\ \A y \in Handlers : job'[y].at \in Editing /\ job'[y].link = x =>
                     Content(job'[y].read) = Content(links'[x])
    <3>1. Present(x) /\ x \notin overlapped
      BY <2>4, <2>11, <2>13 DEF Present
    <3>2. CASE x = i
      BY <2>0, <2>7, <2>9, <2>10, <3>1, <3>2
    <3>3. CASE x # i
      BY <2>0, <2>4, <2>8, <2>9, <3>1, <3>3 DEF EditInv
    <3> QED
      BY <3>2, <3>3
  <2> QED
    BY <2>12, <2>13 DEF EditInv, Present
<1>3. ASSUME Next, ~\E h \in Handlers : Insert(h) \/ Update(h) PROVE EditInv'
  <2>1. (\A i \in Ids : Kept(i)) /\ UNCHANGED <<latest, overlapped>>
    BY <1>3, KeptByMost
  <2>2. \A h \in Handlers : job[h].at \in Editing \cup {"sent"} => job[h].link \in Ids
    BY DEF TypeInv, JobInv, OnLink, Editing
  <2>3. ASSUME NEW h \in Handlers, Send(h)
        PROVE  job'[h].at = "sent" /\ job'[h].link \in Ids /\ Present(job'[h].link)
    BY <2>3, OwnJob
  <2>4. ASSUME NEW h \in Handlers, Read(h)
        PROVE  \/ Ends(h)
               \/ /\ job[h].at = "sent" /\ job'[h].at \in Editing
                  /\ job'[h].link = job[h].link /\ job'[h].read = links[job[h].link]
    BY <2>4, ReadJob
  <2>5. ASSUME NEW h \in Handlers, Begin(h) \/ Save(h) \/ AskPurge(h) \/ Purge(h)
        PROVE  job'[h].at \notin Editing \cup {"sent"}
    BY <2>5, OwnJob DEF Save, Purge, NoJob, Editing
  <2>6. NoJob.at \notin Editing \cup {"sent"}
    BY DEF NoJob, Editing
  <2>7. ASSUME NEW h \in Handlers, Request(h) PROVE EditInv'
    <3>1. \A x \in Handlers \ {h} : job'[x] = job[x]
      BY <2>7, OtherJobs
    <3>2. \/ job'[h].at \notin Editing \cup {"sent"}
          \/ job'[h].at = "sent" /\ job'[h].link \in Ids /\ Present(job'[h].link)
          \/ /\ job[h].at = "sent" /\ job'[h].at \in Editing
             /\ job'[h].link = job[h].link /\ job'[h].read = links[job[h].link]
          \/ Moves(h) /\ job[h].at \in Editing
      BY <1>3, <2>3, <2>4, <2>5, <2>6, <2>7, SmallSteps DEF Request, Ends, Editing
    <3> QED
      BY <2>1, <2>2, <3>1, <3>2, EditFrame DEF Moves, Editing
  <2>8. CASE \A h \in Handlers : job'[h] \in {job[h], NoJob}
    BY <2>1, <2>2, <2>6, <2>8, EditFrame
  <2>9. ASSUME ~\E h \in Handlers : Request(h) PROVE \A h \in Handlers : job'[h] \in {job[h], NoJob}
    BY <1>3, <2>9 DEF Next, Delete, Restore, AdminPurge, Age, Prune, JobSelects, JobPurges,
                     JobFails, Crash
  <2> QED
    BY <2>7, <2>8, <2>9
<1>4. CASE UNCHANGED vars
  BY <1>4 DEF vars, ghosts, EditInv, Present
<1> QED
  BY <1>1, <1>2, <1>3, <1>4

\* A link is what its last edits asked for, whatever was deleted and restored
\* meanwhile, unless two edits overlapped (UpdateLink writes all columns of a row
\* the handler has read before).
THEOREM EditsAreKept == Spec => []EditsSurvive
<1>1. Init => EditInv
  BY DEF Init, EditInv, NoJob, Editing
<1>2. Spec => []TypeInv
  BY TypeInit, TypeNext, PTL DEF Spec
<1>3. TypeInv /\ EditInv /\ [Next]_vars => EditInv'
  BY EditNext
<1>4. EditInv => EditsSurvive
  BY DEF EditInv, EditsSurvive
<1> QED
  BY <1>1, <1>2, <1>3, <1>4, PTL DEF Spec

-----------------------------------------------------------------------------
(* Conditional edits.                                                      *)

\* Of a link without a coincidence the version is the last one, and later than
\* those that conditional edits replaced.  An edit that has tested its condition
\* is conditional on a version the link has had; if it was replaced since, the
\* edits overlapped.
VersionInv ==
  /\ twice \subseteq overlapped \cup coincided
  /\ \A i \in Ids \ coincided : links[i].is # "purged" =>
       /\ links[i].at + 1 = versions[i]
       /\ \A v \in Nat : <<i, v>> \in claimed => v < links[i].at
  /\ \A h \in Handlers : job[h].at \in Editing /\ job[h].tag # -1
                         /\ job[h].link \notin coincided =>
       /\ links[job[h].link].is # "purged" => job[h].tag < versions[job[h].link]
       /\ <<job[h].link, job[h].tag>> \in claimed => job[h].link \in overlapped

\* A row that keeps its version, or goes; and one that gets a version.
Steady(i) ==
  /\ versions'[i] = versions[i]
  /\ links'[i].is # "purged" => links[i].is # "purged" /\ links'[i].at = links[i].at
Versioned(i) ==
  /\ links[i].is # "purged"
  /\ i \notin coincided' => links'[i].at = versions[i] /\ versions'[i] = versions[i] + 1

LEMMA GetsVersion ==
  ASSUME TypeInv, NEW i \in Ids, NEW v \in Stamps(i), Stamped(i, v),
         Present(i), links'[i].at = v
  PROVE  /\ Versioned(i) /\ coincided \subseteq coincided'
         /\ \A x \in Ids \ {i} : versions'[x] = versions[x]
<1>1. versions \in [Ids -> Nat \ {0}]
  BY DEF TypeInv, TypeOK, TagTypes
<1>2. links[i].is # "purged"
  BY DEF Present
<1>3. i \notin coincided' => v = versions[i]
  BY DEF Stamped
<1>4. v = versions[i] => versions'[i] = versions[i] + 1
  BY <1>1 DEF Stamped
<1>5. coincided \subseteq coincided' /\ \A x \in Ids \ {i} : versions'[x] = versions[x]
  BY <1>1 DEF Stamped
<1> QED
  BY <1>2, <1>3, <1>4, <1>5 DEF Versioned

\* Steps that replace no version on a condition.
LEMMA VersionFrame ==
  ASSUME TypeInv, VersionInv, UNCHANGED <<overlapped, claimed, twice>>,
         coincided \subseteq coincided',
         \A i \in Ids : Steady(i) \/ Versioned(i),
         \A h \in Handlers :
           \/ job'[h].at \notin Editing
           \/ job[h].at \in Editing /\ Moves(h)
           \/ /\ job'[h].link \in Ids /\ Present(job'[h].link) /\ Steady(job'[h].link)
              /\ job'[h].tag \in {-1, links[job'[h].link].at}
  PROVE  VersionInv'
<1>1. /\ links \in [Ids -> Row] /\ versions \in [Ids -> Nat \ {0}]
      /\ claimed \subseteq Ids \X Nat
  BY DEF TypeInv, TypeOK, TagTypes
<1>2. twice' \subseteq overlapped' \cup coincided'
  BY DEF VersionInv
<1>3. ASSUME NEW i \in Ids \ coincided', links'[i].is # "purged"
      PROVE  /\ links'[i].at + 1 = versions'[i]
             /\ versions[i] <= versions'[i]
             /\ \A v \in Nat : <<i, v>> \in claimed' => v < links'[i].at
  <2>1. links[i].is # "purged" /\ i \notin coincided
    BY <1>3 DEF Steady, Versioned
  <2>2. /\ links[i].at + 1 = versions[i] /\ links[i].at \in Nat
        /\ \A v \in Nat : <<i, v>> \in claimed => v < links[i].at
    BY <1>1, <2>1 DEF VersionInv, Row
  <2>3. CASE Steady(i)
    BY <1>1, <1>3, <2>2, <2>3 DEF Steady
  <2>4. CASE Versioned(i)
    <3>1. links'[i].at = versions[i] /\ versions'[i] = versions[i] + 1
      BY <1>3, <2>4 DEF Versioned
    <3> QED
      BY <1>1, <2>2, <3>1
  <2> QED
    BY <2>3, <2>4
<1>4. ASSUME NEW h \in Handlers, job'[h].at \in Editing, job'[h].tag # -1,
             job'[h].link \notin coincided'
      PROVE  /\ links'[job'[h].link].is # "purged" => job'[h].tag < versions'[job'[h].link]
             /\ <<job'[h].link, job'[h].tag>> \in claimed' => job'[h].link \in overlapped'
  <2>1. CASE job[h].at \in Editing /\ Moves(h)
    <3> DEFINE i == job[h].link
    <3>1. i \in Ids /\ job[h] \in Job
      BY <2>1 DEF TypeInv, TypeOK, JobInv, Editing, OnLink
    <3>2. job'[h].link = i /\ job'[h].tag = job[h].tag
      BY <2>1 DEF Moves
    <3>3. i \notin coincided
      BY <1>4, <3>2
    <3>4. /\ links[i].is # "purged" => job[h].tag < versions[i]
          /\ <<i, job[h].tag>> \in claimed => i \in overlapped
      BY <1>4, <2>1, <3>2, <3>3 DEF VersionInv
    <3>5. ASSUME links'[i].is # "purged" PROVE job[h].tag < versions'[i]
      <4>1. links[i].is # "purged"
        BY <3>1, <3>5 DEF Steady, Versioned
      <4>2. versions[i] <= versions'[i]
        BY <1>3, <1>4, <3>1, <3>2, <3>5
      <4>3. links'[i].at + 1 = versions'[i]
        BY <1>3, <1>4, <3>1, <3>2, <3>5
      <4>4. versions'[i] \in Nat
        BY <1>1, <1>4, <3>1, <3>2, <3>5 DEF Steady, Versioned
      <4>5. job[h].tag \in Nat
        BY <1>4, <3>1, <3>2 DEF Job
      <4> QED
        BY <1>1, <3>1, <3>4, <4>1, <4>2, <4>4, <4>5
    <3> QED
      BY <3>2, <3>4, <3>5
  <2>2. CASE /\ job'[h].link \in Ids /\ Present(job'[h].link) /\ Steady(job'[h].link)
             /\ job'[h].tag \in {-1, links[job'[h].link].at}
    <3> DEFINE i == job'[h].link
    <3>1. i \in Ids \ coincided /\ links[i].is # "purged" /\ job'[h].tag = links[i].at
      BY <1>4, <2>2 DEF Present
    <3>2. /\ links[i].at + 1 = versions[i] /\ links[i].at \in Nat
          /\ \A v \in Nat : <<i, v>> \in claimed => v < links[i].at
      BY <1>1, <3>1 DEF VersionInv, Row
    <3>3. versions'[i] = versions[i]
      BY <2>2 DEF Steady
    <3>4. job'[h].tag < versions'[i] /\ <<i, job'[h].tag>> \notin claimed
      BY <1>1, <3>1, <3>2, <3>3
    <3> QED
      BY <3>4
  <2> QED
    BY <1>4, <2>1, <2>2
<1> QED
  BY <1>2, <1>3, <1>4 DEF VersionInv

\* The edit itself.
LEMMA VersionUpdate ==
  ASSUME TypeInv, VersionInv, NEW h \in Handlers, Update(h)
  PROVE  VersionInv'
<1> DEFINE i == job[h].link
           t == job[h].tag
<1>1. /\ links \in [Ids -> Row] /\ versions \in [Ids -> Nat \ {0}]
      /\ claimed \subseteq Ids \X Nat
  BY DEF TypeInv, TypeOK, TagTypes
<1>2. /\ i \in Ids /\ job[h] \in Job /\ job[h].at = "update"
      /\ t = -1 \/ t \in Nat
  BY DEF Update, TypeInv, TypeOK, JobInv, OnLink, Job
<1>3. /\ \A x \in Handlers : x # h => job'[x] = job[x]
      /\ job'[h] = NoJob /\ NoJob.at \notin Editing
  BY OtherJobs, OwnJob DEF Request, Update, NoJob, Editing
<1>4. overlapped \subseteq overlapped'
      /\ \A x \in Handlers \ {h} : job[x].at \in Editing /\ job[x].link = i => i \in overlapped'
  BY DEF Update, Overlaps, Editing
<1>5. Edited(job[h].read, job[h]) \in Row /\ Write(i, Edited(job[h].read, job[h]))
  BY UpdateWrites
<1>7. \A x \in Ids : links'[x].is = links[x].is /\ (x # i => links'[x] = links[x])
  BY UpdateWrites
<1>8. CASE ~Present(i)
  <2>1. UNCHANGED <<links, versions, coincided>>
    BY <1>2, <1>5, <1>8, Written
  <2>2. UNCHANGED <<claimed, twice>>
    BY <1>8 DEF Update
  <2> QED
    BY <1>3, <1>4, <2>1, <2>2 DEF VersionInv
<1>9. CASE Present(i)
  <2>1. /\ Versioned(i) /\ coincided \subseteq coincided'
        /\ \A x \in Ids \ {i} : versions'[x] = versions[x]
    BY <1>2, <1>5, <1>9, Written, GetsVersion
  <2>2. claimed' \subseteq claimed \cup (IF t = -1 THEN {} ELSE {<<i, t>>})
    BY DEF Update
  <2>3. twice' \subseteq twice \cup (IF t # -1 /\ <<i, t>> \in claimed THEN {i} ELSE {})
    BY DEF Update
  <2>4. t # -1 /\ i \notin coincided =>
          t < versions[i] /\ (<<i, t>> \in claimed => i \in overlapped)
    BY <1>2, <1>9 DEF VersionInv, Editing, Present
  <2>5. twice' \subseteq overlapped' \cup coincided'
    BY <1>4, <2>1, <2>3, <2>4 DEF VersionInv
  <2>6. ASSUME NEW x \in Ids \ coincided', links'[x].is # "purged"
        PROVE  /\ links'[x].at + 1 = versions'[x]
               /\ versions[x] <= versions'[x]
               /\ \A v \in Nat : <<x, v>> \in claimed' => v < links'[x].at
    <3>1. links[x].is # "purged" /\ x \notin coincided
      BY <1>7, <2>1, <2>6
    <3>2. /\ links[x].at + 1 = versions[x] /\ links[x].at \in Nat
          /\ \A v \in Nat : <<x, v>> \in claimed => v < links[x].at
      BY <1>1, <3>1 DEF VersionInv, Row
    <3>3. CASE x = i
      <4>1. links'[x].at = versions[x] /\ versions'[x] = versions[x] + 1
        BY <2>1, <2>6, <3>3 DEF Versioned
      <4>2. ASSUME NEW v \in Nat, <<x, v>> \in claimed' PROVE v < versions[x]
        <5>1. <<x, v>> \in claimed \/ (t # -1 /\ v = t)
          BY <2>2, <4>2
        <5> QED
          BY <1>1, <2>4, <3>1, <3>2, <3>3, <5>1
      <4> QED
        BY <1>1, <4>1, <4>2
    <3>4. CASE x # i
      <4>1. links'[x] = links[x] /\ versions'[x] = versions[x]
        BY <1>7, <2>1, <3>4
      <4>2. \A v \in Nat : <<x, v>> \in claimed' => <<x, v>> \in claimed
        BY <2>2, <3>4
      <4> QED
        BY <1>1, <3>2, <4>1, <4>2
    <3> QED
      BY <3>3, <3>4
  <2>7. ASSUME NEW x \in Handlers, job'[x].at \in Editing, job'[x].tag # -1,
               job'[x].link \notin coincided'
        PROVE  /\ links'[job'[x].link].is # "purged" =>
                    job'[x].tag < versions'[job'[x].link]
               /\ <<job'[x].link, job'[x].tag>> \in claimed' => job'[x].link \in overlapped'
    <3> DEFINE k == job[x].link
               u == job[x].tag
    <3>1. x # h /\ job'[x] = job[x]
      BY <1>3, <2>7
    <3>2. k \in Ids /\ k \notin coincided /\ u \in Nat
      BY <2>1, <2>7, <3>1 DEF TypeInv, TypeOK, JobInv, OnLink, Editing, Job
    <3>3. /\ links[k].is # "purged" => u < versions[k]
          /\ <<k, u>> \in claimed => k \in overlapped
      BY <2>7, <3>1, <3>2 DEF VersionInv
    <3>4. links'[k].is # "purged" => versions[k] <= versions'[k] /\ versions'[k] = links'[k].at + 1
      BY <2>6, <2>7, <3>1, <3>2
    <3>5. versions[k] \in Nat /\ (versions'[k] = versions[k] \/ versions'[k] = versions[k] + 1)
      BY <1>1, <2>1, <2>7, <3>1, <3>2 DEF Versioned
    <3>6. links'[k].is # "purged" => u < versions'[k]
      BY <1>7, <3>2, <3>3, <3>5
    <3>7. <<k, u>> \in claimed' => <<k, u>> \in claimed \/ k = i
      BY <2>2
    <3>8. k = i => k \in overlapped'
      BY <1>4, <2>7, <3>1
    <3> QED
      BY <1>4, <3>1, <3>3, <3>6, <3>7, <3>8
  <2> QED
    BY <2>5, <2>6, <2>7 DEF VersionInv
<1> QED
  BY <1>8, <1>9

LEMMA VersionNext ==
  ASSUME TypeInv, VersionInv, [Next]_vars
  PROVE  VersionInv'
<1>0. NoJob.at \notin Editing
  BY DEF NoJob, Editing
<1>1. ASSUME NEW h \in Handlers, Request(h), ~Update(h) PROVE VersionInv'
  <2>1. \A x \in Handlers : x # h => job'[x] = job[x]
    BY <1>1, OtherJobs
  <2>2. UNCHANGED <<overlapped, tags>>
    BY <1>1, SmallSteps DEF Request, Begin, Insert, Save, Send, Read, AskPurge, Purge, ghosts
  <2>3. \A i \in Ids : Steady(i)
    <3>1. CASE Insert(h)
      <4>1. \A i \in Ids : \/ links'[i] = links[i]
                           \/ links[i] = Unused /\ links'[i].at = 0
        BY <3>1 DEF Insert, Added, Unused, TypeInv, TypeOK
      <4> QED
        BY <2>2, <4>1 DEF tags, Steady, Unused
    <3>2. CASE Purge(h)
      <4>1. \A i \in Ids : links'[i] \in {links[i], Purged}
        BY <3>2 DEF Purge, Remove, TypeInv, TypeOK
      <4>2. Purged.is = "purged"
        BY DEF Purged, Unused
      <4> QED
        BY <2>2, <4>1, <4>2 DEF tags, Steady
    <3>3. CASE ~Insert(h) /\ ~Purge(h)
      <4>1. UNCHANGED links
        BY <1>1, <3>3, SmallSteps DEF Request, Begin, Save, Send, Read, AskPurge
      <4> QED
        BY <2>2, <4>1 DEF tags, Steady
    <3> QED
      BY <3>1, <3>2, <3>3
  <2>4. ASSUME Read(h)
        PROVE  \/ Ends(h)
               \/ /\ job'[h].link \in Ids /\ Present(job'[h].link)
                  /\ job'[h].tag \in {-1, links[job'[h].link].at}
    <3>1. CASE Done(h)
      BY <3>1, OwnJob DEF Ends
    <3>2. CASE ~Done(h)
      <4> DEFINE r == [job[h] EXCEPT
                         !.read = links[job[h].link],
                         !.at = IF job[h].code \in {None, links[job[h].link].code}
                                THEN "update" ELSE "rename"]
      <4>1. /\ Present(job[h].link) /\ Matches(job[h].tag, links[job[h].link])
            /\ job' = [job EXCEPT ![h] = r]
        BY <2>4, <3>2 DEF Read
      <4>2. r.tag = job[h].tag /\ r.link = job[h].link /\ job[h].link \in Ids
        BY <2>4 DEF Read, TypeInv, TypeOK, JobInv, OnLink, Job
      <4> HIDE DEF r
      <4> QED
        BY <4>1, <4>2, OwnJob DEF Matches
    <3> QED
      BY <3>1, <3>2
  <2>5. ASSUME ~Read(h)
        PROVE  \/ job'[h].at \notin Editing
               \/ job[h].at \in Editing /\ Moves(h)
    BY <1>0, <1>1, <2>5, OwnJob, SmallSteps DEF Request, Save, Purge, Ends, Editing
  <2>6. \A x \in Handlers :
          \/ job'[x].at \notin Editing
          \/ job[x].at \in Editing /\ Moves(x)
          \/ /\ job'[x].link \in Ids /\ Present(job'[x].link)
             /\ job'[x].tag \in {-1, links[job'[x].link].at}
    BY <1>0, <2>1, <2>4, <2>5 DEF Ends, Moves
  <2> QED
    BY <2>2, <2>3, <2>6, VersionFrame DEF tags
<1>2. ASSUME Next, ~\E h \in Handlers : Request(h) PROVE VersionInv'
  <2>1. /\ \A h \in Handlers : job'[h] \in {job[h], NoJob}
        /\ UNCHANGED <<overlapped, claimed, twice>>
    BY <1>2 DEF Next, Delete, Restore, AdminPurge, Age, Prune, JobSelects, JobPurges,
                JobFails, Crash, ghosts, tags
  <2>2. coincided \subseteq coincided' /\ \A i \in Ids : Steady(i) \/ Versioned(i)
    <3>1. ASSUME NEW i \in Ids, Delete(i) \/ Restore(i)
          PROVE  coincided \subseteq coincided' /\ \A x \in Ids : Steady(x) \/ Versioned(x)
      <4>1. PICK v \in Stamps(i), is \in {"live", "trash"} :
              /\ Stamped(i, v)
              /\ links' = [links EXCEPT ![i].is = is, ![i].old = FALSE, ![i].at = v]
        BY <3>1 DEF Delete, Restore
      <4>2. Present(i)
        BY <3>1 DEF Delete, Restore
      <4>3. links[i] \in Row /\ \A x \in Ids \ {i} : links'[x] = links[x]
        BY <4>1 DEF TypeInv, TypeOK
      <4>4. links'[i].at = v
        BY <4>1, <4>3 DEF Row, TypeInv, TypeOK
      <4> QED
        BY <4>1, <4>2, <4>3, <4>4, GetsVersion DEF Steady
    <3>2. ASSUME ~\E i \in Ids : Delete(i) \/ Restore(i)
          PROVE  coincided = coincided' /\ \A x \in Ids : Steady(x)
      <4>1. UNCHANGED tags
        BY <1>2, <3>2 DEF Next, AdminPurge, Age, Prune, JobSelects, JobPurges, JobFails,
                          Crash, ghosts
      <4>2. \A x \in Ids : \/ links'[x].is = "purged"
                           \/ links[x].is # "purged" /\ links'[x].at = links[x].at
                           \/ links'[x] = links[x]
        <5>1. ASSUME NEW i \in Ids, Age(i)
              PROVE  \A x \in Ids : \/ links'[x] = links[x]
                                    \/ links[x].is # "purged" /\ links'[x].at = links[x].at
          BY <5>1 DEF Age, TypeInv, TypeOK, Row
        <5>2. ASSUME NEW i \in Ids, Remove(i)
              PROVE  \A x \in Ids : links'[x].is = "purged" \/ links'[x] = links[x]
          BY <5>2 DEF Remove, Purged, Unused, TypeInv, TypeOK
        <5>3. CASE UNCHANGED links
          BY <5>3
        <5>4. doomed \subseteq Ids
          BY DEF TypeInv, TypeOK
        <5> QED
          BY <1>2, <3>2, <5>1, <5>2, <5>3, <5>4 DEF Next, AdminPurge, Prune, JobSelects,
             JobPurges, JobFails, Crash
      <4> QED
        BY <4>1, <4>2 DEF tags, Steady
    <3> QED
      BY <3>1, <3>2
  <2> QED
    BY <1>0, <2>1, <2>2, VersionFrame DEF Moves
<1>3. CASE UNCHANGED vars
  BY <1>3 DEF vars, ghosts, tags, VersionInv
<1> QED
  BY <1>1, <1>2, <1>3, VersionUpdate

\* Of several edits conditional on one version of a link, one is applied at most
\* (handlePatchLink tests If-Match before an update that tests nothing), unless
\* they overlapped or the link got a version it had had before.
THEOREM VersionsAreReplacedOnce == Spec => []VersionReplacedOnce
<1>1. Init => VersionInv
  <2> SUFFICES ASSUME Init PROVE VersionInv
    OBVIOUS
  <2>1. \A i \in Ids : links[i].at = 0 /\ versions[i] = 1
    <3>1. PICK k \in Ids, u \in Users, c \in Codes, old \in BOOLEAN :
            links \in {[x \in Ids |-> Unused],
                       [x \in Ids |-> IF x = k
                                      THEN [Added(u, c) EXCEPT !.is = "trash", !.old = old]
                                      ELSE Unused]}
      BY DEF Init
    <3>2. Unused.at = 0 /\ [Added(u, c) EXCEPT !.is = "trash", !.old = old].at = 0
      BY DEF Unused, Added
    <3>3. \A i \in Ids : links[i] \in {Unused, [Added(u, c) EXCEPT !.is = "trash", !.old = old]}
      BY <3>1
    <3> QED
      BY <3>2, <3>3 DEF Init
  <2> QED
    BY <2>1 DEF Init, VersionInv, NoJob, Editing
<1>2. Spec => []TypeInv
  BY TypeInit, TypeNext, PTL DEF Spec
<1>3. TypeInv /\ VersionInv /\ [Next]_vars => VersionInv'
  BY VersionNext
<1>4. VersionInv => VersionReplacedOnce
  BY DEF VersionInv, VersionReplacedOnce
<1> QED
  BY <1>1, <1>2, <1>3, <1>4, PTL DEF Spec

-----------------------------------------------------------------------------
(* Purges.                                                                 *)

\* What is about to be purged is in the trash, for the job for 30 days, or is
\* purged already, or was handled since it was selected.
TrashInv ==
  /\ early \subseteq handled
  /\ \A i \in doomed \ handled :
       links[i].is = "purged" \/ (links[i].is = "trash" /\ links[i].old)
  /\ \A h \in Handlers : job[h].at = "purge" /\ job[h].link \notin handled =>
       links[job[h].link].is \in {"purged", "trash"}

\* A row in the trash stays there, and old, unless it is purged.
Stays(i) ==
  /\ links[i].is = "purged" => links'[i].is = "purged"
  /\ links[i].is = "trash" => \/ links'[i].is = "purged"
                              \/ links'[i].is = "trash" /\ (links[i].old => links'[i].old)

LEMMA TrashFrame ==
  ASSUME TypeInv, TrashInv, early' \subseteq handled', handled \subseteq handled',
         \A i \in Ids \ handled' : Condemned(i) => Stays(i),
         \A i \in doomed' \ doomed : links'[i].is = "trash" /\ links'[i].old,
         \A h \in Handlers : job'[h].at = "purge" =>
           job'[h] = job[h] \/ links'[job'[h].link].is = "trash"
  PROVE  TrashInv'
<1>1. ASSUME NEW i \in doomed' \ handled'
      PROVE  links'[i].is = "purged" \/ (links'[i].is = "trash" /\ links'[i].old)
  <2>1. i \in doomed => Condemned(i) /\ i \in Ids
    BY DEF Condemned, TypeInv, TypeOK
  <2> QED
    BY <2>1 DEF TrashInv, Stays
<1>2. ASSUME NEW h \in Handlers, job'[h].at = "purge", job'[h].link \notin handled'
      PROVE  links'[job'[h].link].is \in {"purged", "trash"}
  <2>1. CASE job'[h] = job[h]
    <3>1. Condemned(job[h].link) /\ job[h].link \in Ids
      BY <1>2, <2>1 DEF Condemned, TypeInv, JobInv, OnLink
    <3> QED
      BY <1>2, <2>1, <3>1 DEF TrashInv, Stays
  <2> QED
    BY <1>2, <2>1
<1> QED
  BY <1>1, <1>2 DEF TrashInv

\* The steps that leave what is condemned alone.
LEMMA TrashAlone ==
  ASSUME TypeInv, TrashInv, UNCHANGED <<handled, early>>, doomed' \subseteq doomed,
         \A i \in Ids : Stays(i),
         \A h \in Handlers : job'[h].at = "purge" => job'[h] = job[h]
  PROVE  TrashInv'
BY TrashFrame DEF TrashInv

LEMMA TrashRequest ==
  ASSUME TypeInv, TrashInv, NEW h \in Handlers, Request(h)
  PROVE  TrashInv'
<1>0. \A x \in Handlers : x # h => job'[x] = job[x]
  BY OtherJobs
<1>1. \A i \in Ids : links'[i] = links[i] => Stays(i)
  BY DEF Stays
<1>2. CASE AskPurge(h)
  <2>1. UNCHANGED <<links, keys, doomed, ghosts>>
    BY <1>2 DEF AskPurge
  <2>2. job'[h].link \in Ids /\ links[job'[h].link].is = "trash"
    BY <1>2, OwnJob
  <2> QED
    BY <1>0, <1>1, <2>1, <2>2, TrashFrame DEF ghosts, TrashInv
<1>3. CASE Purge(h)
  <2> DEFINE i == job[h].link
  <2>1. i \in Ids /\ job[h].at = "purge"
    BY <1>3 DEF Purge, TypeInv, JobInv, OnLink
  <2>2. UNCHANGED <<doomed, handled>>
    BY <1>3 DEF Purge
  <2>3. early' \subseteq handled
    BY <1>3, <2>1 DEF Purge, TrashInv
  <2>4. Purged.is = "purged" /\ NoJob.at # "purge"
    BY DEF Purged, Unused, NoJob
  <2>5. \A x \in Ids : Stays(x)
    BY <1>3, <2>1, <2>4 DEF Purge, Remove, Stays, TypeInv, TypeOK
  <2>6. job'[h] = NoJob
    BY <1>3, OwnJob DEF Purge
  <2> QED
    BY <1>0, <2>2, <2>3, <2>4, <2>5, <2>6, TrashFrame
<1>4. CASE Insert(h)
  <2>1. UNCHANGED <<doomed, handled, early>>
    BY <1>4 DEF Insert
  <2>2. \A x \in Ids : Stays(x)
    BY <1>4 DEF Insert, Stays, TypeInv, TypeOK, Unused
  <2>3. job'[h].at # "purge"
    BY <1>4, OwnJob
  <2> QED
    BY <1>0, <2>1, <2>2, <2>3, TrashAlone
<1>5. CASE Update(h)
  <2>1. UNCHANGED <<doomed, handled, early>>
    BY <1>5 DEF Update
  <2>2. \A x \in Ids : links'[x].is = links[x].is /\ links'[x].old = links[x].old
    BY <1>5, UpdateWrites
  <2>3. job'[h] = NoJob /\ NoJob.at # "purge"
    BY <1>5, OwnJob DEF Update, NoJob
  <2> QED
    BY <1>0, <2>1, <2>2, <2>3, TrashAlone DEF Stays
<1>6. CASE \/ CheckAlias(h) \/ CheckLimit(h) \/ CheckRename(h) \/ CreateFails(h) \/ UpdateFails(h)
           \/ Begin(h) \/ Save(h) \/ Send(h) \/ Read(h)
  <2>1. UNCHANGED <<links, doomed, handled, early>>
    BY <1>6, SmallSteps DEF Begin, Save, Send, Read, ghosts
  <2>2. ASSUME Read(h) PROVE job'[h].at # "purge"
    <3>1. Ends(h) \/ job'[h].at \in Editing
      BY <2>2, ReadJob
    <3> QED
      BY <3>1 DEF Ends, NoJob, Editing
  <2>3. job'[h].at # "purge"
    BY <1>6, <2>2, OwnJob, SmallSteps DEF Save, Ends, NoJob
  <2> QED
    BY <1>0, <1>1, <2>1, <2>3, TrashAlone
<1> QED
  BY <1>2, <1>3, <1>4, <1>5, <1>6 DEF Request

LEMMA TrashNext ==
  ASSUME TypeInv, TrashInv, [Next]_vars
  PROVE  TrashInv'
<1>1. ASSUME NEW i \in Ids, Delete(i) \/ Restore(i)
      PROVE  TrashInv'
  <2>1. UNCHANGED <<job, doomed, early>> /\ handled \subseteq handled'
        /\ (Condemned(i) => i \in handled')
    BY <1>1 DEF Delete, Restore
  <2>2. \A x \in Ids \ {i} : links'[x] = links[x]
    BY <1>1 DEF Delete, Restore, TypeInv, TypeOK
  <2> QED
    BY <2>1, <2>2, TrashFrame DEF Stays, TrashInv
<1>2. ASSUME NEW i \in Ids, Age(i) \/ AdminPurge(i)
      PROVE  TrashInv'
  <2>1. UNCHANGED <<job, doomed, early, handled>>
    BY <1>2 DEF Age, AdminPurge, ghosts
  <2>2. \A x \in Ids : Stays(x)
    BY <1>2 DEF Age, AdminPurge, Remove, Stays, Purged, Unused, TypeInv, TypeOK, Row
  <2> QED
    BY <2>1, <2>2, TrashAlone
<1>3. CASE JobSelects
  BY <1>3, TrashFrame DEF JobSelects, Due, Stays, TrashInv, ghosts
<1>4. CASE JobPurges
  <2>1. PICK i \in doomed :
          /\ Remove(i)
          /\ doomed' = doomed \ {i}
          /\ early' = early \cup (IF Present(i) /\ ~links[i].old THEN {i} ELSE {})
    BY <1>4 DEF JobPurges
  <2>2. UNCHANGED <<job, handled>>
    BY <1>4 DEF JobPurges
  <2>3. early' \subseteq handled
    BY <2>1 DEF TrashInv, Present
  <2>4. \A x \in Ids : Stays(x)
    BY <2>1 DEF Remove, Stays, Purged, Unused, TypeInv, TypeOK
  <2> QED
    BY <2>1, <2>2, <2>3, <2>4, TrashFrame
<1>5. CASE Prune \/ JobFails \/ Crash
  BY <1>5, TrashAlone DEF Prune, JobFails, Crash, Stays, NoJob, ghosts
<1>6. CASE UNCHANGED vars
  BY <1>6, TrashAlone DEF vars, ghosts, Stays
<1> QED
  BY <1>1, <1>2, <1>3, <1>4, <1>5, <1>6, TrashRequest DEF Next

\* Purges take nothing out of use: what they remove was in the trash, by the job
\* for 30 days, unless it was restored or deleted again after they had looked.
THEOREM PurgesTakeTrash == Spec => []OnlyTrashIsPurged
<1>1. Init => TrashInv
  BY DEF Init, TrashInv, NoJob
<1>2. Spec => []TypeInv
  BY TypeInit, TypeNext, PTL DEF Spec
<1>3. TypeInv /\ TrashInv /\ [Next]_vars => TrashInv'
  BY TrashNext
<1>4. TrashInv => OnlyTrashIsPurged
  BY DEF TrashInv, OnlyTrashIsPurged
<1> QED
  BY <1>1, <1>2, <1>3, <1>4, PTL DEF Spec

-----------------------------------------------------------------------------
(* Idempotency keys.                                                       *)

Uses(h, u, k) == job[h].at \in Creating /\ job[h].user = u /\ job[h].key = k

\* Unless a key slipped: its user has made one link with it at most, the answer
\* is kept or about to be saved, and while a creation is on its way to make a
\* link it is the only one and nothing has been made.
KeyInv ==
  \A u \in Users, k \in Keys : <<u, k>> \notin slipped =>
    /\ \A x, y \in made[<<u, k>>] : x = y
    /\ made[<<u, k>>] # {} =>
         \/ keys[k].user = u
         \/ \E h \in Handlers : Uses(h, u, k) /\ job[h].at = "save"
    /\ \A h1, h2 \in Handlers : Uses(h1, u, k) /\ Uses(h2, u, k) => h1 = h2
    /\ \A h \in Handlers : Uses(h, u, k) /\ job[h].at # "save" => made[<<u, k>>] = {}

\* Steps after which a user's requests with the key are where they were, or
\* nearer their end, and its answer is still kept.
LEMMA KeyFrame ==
  ASSUME TypeInv, KeyInv, slipped \subseteq slipped', made' = made,
         \A u \in Users, k \in Keys : <<u, k>> \notin slipped' =>
           /\ keys[k].user = u => keys'[k].user = u
           /\ \A h \in Handlers : Uses(h, u, k) /\ job[h].at = "save" =>
                \/ Uses(h, u, k)' /\ job'[h].at = "save"
                \/ keys'[k].user = u
           /\ \A h \in Handlers : Uses(h, u, k)' =>
                Uses(h, u, k) /\ (job'[h].at # "save" => job[h].at # "save")
  PROVE  KeyInv'
<1> SUFFICES ASSUME NEW u \in Users, NEW k \in Keys, <<u, k>> \notin slipped'
             PROVE  /\ \A x, y \in made[<<u, k>>]' : x = y
                    /\ made[<<u, k>>]' # {} =>
                         \/ keys'[k].user = u
                         \/ \E h \in Handlers : Uses(h, u, k)' /\ job'[h].at = "save"
                    /\ \A h1, h2 \in Handlers : Uses(h1, u, k)' /\ Uses(h2, u, k)' => h1 = h2
                    /\ \A h \in Handlers : Uses(h, u, k)' /\ job'[h].at # "save" =>
                         made[<<u, k>>]' = {}
  BY DEF KeyInv, Uses
<1>1. <<u, k>> \notin slipped
  OBVIOUS
<1>2. /\ \A x, y \in made[<<u, k>>] : x = y
      /\ made[<<u, k>>] # {} =>
           \/ keys[k].user = u
           \/ \E h \in Handlers : Uses(h, u, k) /\ job[h].at = "save"
      /\ \A h1, h2 \in Handlers : Uses(h1, u, k) /\ Uses(h2, u, k) => h1 = h2
      /\ \A h \in Handlers : Uses(h, u, k) /\ job[h].at # "save" => made[<<u, k>>] = {}
  BY <1>1 DEF KeyInv
<1> QED
  BY <1>2

LEMMA KeyBegin ==
  ASSUME TypeInv, KeyInv, NEW h \in Handlers, Begin(h)
  PROVE  KeyInv'
<1>0. \A x \in Handlers : x # h => job'[x] = job[x]
  BY OtherJobs DEF Request
<1>1. PICK v \in Users, l \in Keys \cup {None}, c \in Codes \cup {None} :
        /\ Take(h)
        /\ job' = [job EXCEPT ![h] = [NoJob EXCEPT
               !.at = IF c = None THEN "count" ELSE "alias",
               !.user = v, !.key = l, !.code = c]]
        /\ slipped \subseteq slipped'
        /\ l # None /\ (Unsaved(v, l) \/ Replayed(v, l)) => <<v, l>> \in slipped'
        /\ UNCHANGED <<keys, made>>
  BY DEF Begin
<1>2. job'[h].user = v /\ job'[h].key = l /\ job'[h].at \in {"alias", "count"}
  BY <1>1 DEF NoJob, TypeInv, TypeOK
<1>3. job[h].at \notin Creating
  BY <1>1 DEF Take, NoJob, Creating
<1> SUFFICES ASSUME NEW u \in Users, NEW k \in Keys, <<u, k>> \notin slipped'
             PROVE  /\ \A x, y \in made[<<u, k>>]' : x = y
                    /\ made[<<u, k>>]' # {} =>
                         \/ keys'[k].user = u
                         \/ \E x \in Handlers : Uses(x, u, k)' /\ job'[x].at = "save"
                    /\ \A h1, h2 \in Handlers : Uses(h1, u, k)' /\ Uses(h2, u, k)' => h1 = h2
                    /\ \A x \in Handlers : Uses(x, u, k)' /\ job'[x].at # "save" =>
                         made[<<u, k>>]' = {}
  BY DEF KeyInv, Uses
<1>4. <<u, k>> \notin slipped
  BY <1>1
<1>5. /\ \A x, y \in made[<<u, k>>] : x = y
      /\ made[<<u, k>>] # {} =>
           \/ keys[k].user = u
           \/ \E x \in Handlers : Uses(x, u, k) /\ job[x].at = "save"
      /\ \A h1, h2 \in Handlers : Uses(h1, u, k) /\ Uses(h2, u, k) => h1 = h2
      /\ \A x \in Handlers : Uses(x, u, k) /\ job[x].at # "save" => made[<<u, k>>] = {}
  BY <1>4 DEF KeyInv
<1>6. \A x \in Handlers : x # h => (Uses(x, u, k)' <=> Uses(x, u, k))
  BY <1>0 DEF Uses
<1>7. \A x \in Handlers : Uses(x, u, k) => x # h
  BY <1>3 DEF Uses
<1>8. CASE u = v /\ k = l
  <2>1. ~Unsaved(u, k) /\ keys[k].user # u
    BY <1>1, <1>8, TableAssumption DEF Replayed
  <2>2. \A x \in Handlers : ~Uses(x, u, k)
    BY <2>1 DEF Unsaved, Uses
  <2>3. made[<<u, k>>] = {}
    BY <1>5, <2>1, <2>2
  <2> QED
    BY <1>1, <1>6, <2>2, <2>3
<1>9. CASE ~(u = v /\ k = l)
  <2>1. ~Uses(h, u, k)'
    BY <1>2, <1>9 DEF Uses
  <2> QED
    BY <1>0, <1>1, <1>5, <1>6, <1>7, <2>1
<1> QED
  BY <1>8, <1>9

LEMMA KeyInsert ==
  ASSUME TypeInv, KeyInv, NEW h \in Handlers, Insert(h)
  PROVE  KeyInv'
<1> DEFINE v == job[h].user
           l == job[h].key
<1>0. \A x \in Handlers : x # h => job'[x] = job[x]
  BY OtherJobs DEF Request
<1>1. UNCHANGED <<keys, slipped>> /\ job[h].at = "insert"
  BY DEF Insert
<1>2. PICK i \in Ids :
        \/ l = None /\ Done(h) /\ UNCHANGED made
        \/ /\ l # None
           /\ job' = [job EXCEPT ![h] = [job[h] EXCEPT !.at = "save", !.link = i]]
           /\ made' = [made EXCEPT ![<<v, l>>] = made[<<v, l>>] \cup {i}]
  BY DEF Insert
<1> SUFFICES ASSUME NEW u \in Users, NEW k \in Keys, <<u, k>> \notin slipped'
             PROVE  /\ \A x, y \in made[<<u, k>>]' : x = y
                    /\ made[<<u, k>>]' # {} =>
                         \/ keys'[k].user = u
                         \/ \E x \in Handlers : Uses(x, u, k)' /\ job'[x].at = "save"
                    /\ \A h1, h2 \in Handlers : Uses(h1, u, k)' /\ Uses(h2, u, k)' => h1 = h2
                    /\ \A x \in Handlers : Uses(x, u, k)' /\ job'[x].at # "save" =>
                         made[<<u, k>>]' = {}
  BY DEF KeyInv, Uses
<1>3. /\ \A x, y \in made[<<u, k>>] : x = y
      /\ made[<<u, k>>] # {} =>
           \/ keys[k].user = u
           \/ \E x \in Handlers : Uses(x, u, k) /\ job[x].at = "save"
      /\ \A h1, h2 \in Handlers : Uses(h1, u, k) /\ Uses(h2, u, k) => h1 = h2
      /\ \A x \in Handlers : Uses(x, u, k) /\ job[x].at # "save" => made[<<u, k>>] = {}
  BY <1>1 DEF KeyInv
<1>4. \A x \in Handlers : x # h => (Uses(x, u, k)' <=> Uses(x, u, k))
  BY <1>0 DEF Uses
<1>5. CASE l = None
  <2>1. made' = made /\ job'[h] = NoJob
    BY <1>2, <1>5, OwnJob
  <2>2. ~Uses(h, u, k) /\ ~Uses(h, u, k)'
    BY <1>5, <2>1, TableAssumption DEF Uses, NoJob, Creating
  <2> QED
    BY <1>0, <1>1, <1>3, <1>4, <2>1, <2>2
<1>6. CASE l # None
  <2>1. job'[h].at = "save" /\ job'[h].user = v /\ job'[h].key = l
    <3>1. job'[h] = [job[h] EXCEPT !.at = "save", !.link = i]
      BY <1>2, <1>6, OwnJob
    <3>2. job[h] \in Job
      BY DEF TypeInv, TypeOK
    <3> QED
      BY <3>1, <3>2 DEF Job
  <2>2. Uses(h, u, k)' <=> Uses(h, u, k)
    BY <1>1, <2>1 DEF Uses, Creating
  <2>3. CASE u = v /\ k = l
    <3>1. Uses(h, u, k)
      BY <1>1, <2>3 DEF Uses, Creating
    <3>2. made[<<u, k>>] = {}
      BY <1>1, <1>3, <3>1
    <3>3. <<u, k>> \in Users \X Keys
      OBVIOUS
    <3>4. made'[<<u, k>>] = {i}
      BY <1>2, <1>6, <2>3, <3>2, <3>3 DEF TypeInv, TypeOK
    <3>5. \A x \in Handlers : Uses(x, u, k)' => x = h
      BY <1>3, <1>4, <3>1
    <3> QED
      BY <2>1, <2>2, <3>1, <3>4, <3>5
  <2>4. CASE ~(u = v /\ k = l)
    <3>1. made'[<<u, k>>] = made[<<u, k>>]
      BY <1>2, <1>6, <2>4 DEF TypeInv, TypeOK
    <3>2. ~Uses(h, u, k)
      BY <2>4 DEF Uses
    <3> QED
      BY <1>0, <1>1, <1>3, <1>4, <2>2, <3>1, <3>2
  <2> QED
    BY <2>3, <2>4
<1> QED
  BY <1>5, <1>6

LEMMA KeyNext ==
  ASSUME TypeInv, KeyInv, [Next]_vars
  PROVE  KeyInv'
<1>1. NoJob.at \notin Creating
  BY DEF NoJob, Creating
<1>2. ASSUME NEW h \in Handlers, Save(h) PROVE KeyInv'
  <2> DEFINE v == job[h].user
             l == job[h].key
  <2>0. \A x \in Handlers : x # h => job'[x] = job[x]
    BY <1>2, OtherJobs DEF Request
  <2>1. l \in Keys /\ v \in Users
    BY <1>2 DEF Save, TypeInv, JobInv, Creating
  <2>2. \A k \in Keys, u \in Users : keys[k].user = u => keys'[k] = keys[k]
    BY <1>2, TableAssumption DEF Save, NoAnswer, TypeInv, TypeOK
  <2>3. keys'[l].user = v \/ <<v, l>> \in slipped'
    BY <1>2 DEF Save
  <2>4. slipped \subseteq slipped' /\ made' = made
    BY <1>2 DEF Save
  <2>5. job'[h] = NoJob
    BY <1>2, OwnJob DEF Save
  <2>6. \A x \in Handlers, u \in Users, k \in Keys : Uses(x, u, k)' => x # h /\ Uses(x, u, k)
    BY <1>1, <2>0, <2>5 DEF Uses
  <2>7. \A u \in Users, k \in Keys : Uses(h, u, k) => u = v /\ k = l
    BY DEF Uses
  <2>8. \A x \in Handlers, u \in Users, k \in Keys :
          <<u, k>> \notin slipped' /\ Uses(x, u, k) /\ job[x].at = "save" =>
            \/ Uses(x, u, k)' /\ job'[x].at = "save"
            \/ keys'[k].user = u
    BY <2>0, <2>3, <2>7 DEF Uses
  <2> QED
    BY <2>0, <2>2, <2>4, <2>6, <2>8, KeyFrame
<1>3. ASSUME NEW h \in Handlers, Request(h), ~Begin(h), ~Insert(h), ~Save(h) PROVE KeyInv'
  <2>0. \A x \in Handlers : x # h => job'[x] = job[x]
    BY <1>3, OtherJobs
  <2>1. UNCHANGED <<keys, made, slipped>>
    BY <1>3, SmallSteps DEF Request, Send, Read, Update, AskPurge, Purge, ghosts
  <2>2. ASSUME Read(h) PROVE job[h].at = "sent" /\ job'[h].at \notin Creating
    <3>1. Ends(h) \/ job'[h].at \in Editing
      BY <2>2, ReadJob
    <3> QED
      BY <2>2, <3>1 DEF Read, Ends, NoJob, Editing, Creating
  <2>3. /\ job[h].at # "save" /\ job'[h].at # "save"
        /\ job'[h].at \in Creating => Moves(h) /\ job[h].at \in Creating
    <3>1. CASE Send(h) \/ AskPurge(h)
      <4>1. job[h] = NoJob
        BY <3>1 DEF Send, AskPurge, Take
      <4>2. job'[h].at \in {"sent", "purge"}
        BY <3>1, OwnJob
      <4> QED
        BY <4>1, <4>2 DEF NoJob, Creating
    <3>2. CASE Update(h) \/ Purge(h)
      <4>1. job'[h] = NoJob /\ job[h].at \in {"update", "purge"}
        BY <3>2, OwnJob DEF Update, Purge
      <4> QED
        BY <4>1 DEF NoJob, Creating
    <3>3. CASE CheckAlias(h) \/ CheckLimit(h) \/ CheckRename(h) \/ CreateFails(h) \/ UpdateFails(h)
      BY <3>3, SmallSteps DEF Ends, NoJob, Creating
    <3> QED
      BY <1>3, <2>2, <3>1, <3>2, <3>3 DEF Request, Creating
  <2>4. \A u \in Users, k \in Keys : Uses(h, u, k)' => Uses(h, u, k)
    BY <2>3 DEF Uses, Moves
  <2>5. \A x \in Handlers, u \in Users, k \in Keys : x # h => (Uses(x, u, k)' <=> Uses(x, u, k))
    BY <2>0 DEF Uses
  <2> QED
    BY <2>0, <2>1, <2>3, <2>4, <2>5, KeyFrame
<1>4. CASE Prune
  <2>1. PICK l \in Keys :
          /\ keys' = [keys EXCEPT ![l] = NoAnswer]
          /\ slipped' = slipped \cup {<<keys[l].user, l>>}
          /\ UNCHANGED <<job, made>>
    BY <1>4 DEF Prune
  <2>2. \A u \in Users, k \in Keys : <<u, k>> \notin slipped' =>
          (keys[k].user = u => keys'[k].user = u)
    BY <2>1 DEF TypeInv, TypeOK
  <2> QED
    BY <2>1, <2>2, KeyFrame DEF Uses
<1>5. CASE Crash
  <2>1. UNCHANGED <<keys, made>> /\ slipped \subseteq slipped'
    BY <1>5 DEF Crash
  <2>2. \A h \in Handlers : job'[h] = NoJob
    BY <1>5 DEF Crash
  <2>3. ASSUME NEW h \in Handlers, NEW u \in Users, NEW k \in Keys,
               Uses(h, u, k), job[h].at = "save"
        PROVE  <<u, k>> \in slipped'
    BY <1>5, <2>3 DEF Crash, Uses
  <2>4. \A h \in Handlers, u \in Users, k \in Keys : ~Uses(h, u, k)'
    BY <1>1, <2>2 DEF Uses
  <2> QED
    BY <2>1, <2>3, <2>4, KeyFrame
<1>6. ASSUME Next, ~\E h \in Handlers : Request(h), ~Prune, ~Crash PROVE KeyInv'
  <2>1. UNCHANGED <<job, keys, made, slipped>>
    BY <1>6 DEF Next, Delete, Restore, AdminPurge, Age, JobSelects, JobPurges, JobFails, ghosts
  <2> QED
    BY <2>1, KeyFrame DEF Uses
<1>7. CASE UNCHANGED vars
  <2>1. UNCHANGED <<job, keys, made, slipped>>
    BY <1>7 DEF vars, ghosts
  <2> QED
    BY <2>1, KeyFrame DEF Uses
<1> QED
  BY <1>2, <1>3, <1>4, <1>5, <1>6, <1>7, KeyBegin, KeyInsert

LEMMA AtMostOne ==
  ASSUME NEW S, \A x, y \in S : x = y
  PROVE  ~(Cardinality(S) > 1)
<1>1. CASE S = {}
  BY <1>1, FS_EmptySet
<1>2. CASE S # {}
  <2>1. PICK x \in S : S = {x}
    BY <1>2
  <2>2. Cardinality({x}) = 1
    BY FS_Singleton
  <2> QED
    BY <2>1, <2>2
<1> QED
  BY <1>1, <1>2

\* A key makes a user one link at most, unless the requests overlapped, the
\* answer was lost, not found because the lookup failed, or displaced by another
\* user's, or a day has passed.
THEOREM KeysMakeOneLink == Spec => []KeyMakesOneLink
<1>1. Init => KeyInv
  BY DEF Init, KeyInv, Uses, NoJob, Creating
<1>2. Spec => []TypeInv
  BY TypeInit, TypeNext, PTL DEF Spec
<1>3. TypeInv /\ KeyInv /\ [Next]_vars => KeyInv'
  BY KeyNext
<1>4. KeyInv => KeyMakesOneLink
  <2>1. SUFFICES ASSUME KeyInv, NEW u \in Users, NEW k \in Keys, <<u, k>> \notin slipped
                 PROVE  ~(Cardinality(made[<<u, k>>]) > 1)
    BY DEF KeyMakesOneLink
  <2>2. \A x, y \in made[<<u, k>>] : x = y
    BY <2>1 DEF KeyInv
  <2> QED
    BY <2>2, AtMostOne
<1> QED
  BY <1>1, <1>2, <1>3, <1>4, PTL DEF Spec

-----------------------------------------------------------------------------
(* The limit of links per user.                                            *)

\* Links made and not restored, and creations that have counted them.
Own(u)     == Live(u) \ revived
Counted(u) == {h \in Handlers : job[h].at = "insert" /\ job[h].user = u}

LimitInv ==
  \A u \in Users : Cardinality(Own(u)) + Cardinality(Counted(u)) <= Limit + Cardinality(Handlers) - 1

LEMMA Sizes ==
  ASSUME NEW u
  PROVE  /\ IsFiniteSet(Own(u)) /\ IsFiniteSet(Counted(u)) /\ IsFiniteSet(Live(u))
         /\ Cardinality(Own(u)) \in Nat /\ Cardinality(Counted(u)) \in Nat
         /\ Cardinality(Live(u)) \in Nat /\ Cardinality(Handlers) \in Nat
         /\ Cardinality(Own(u)) <= Cardinality(Live(u))
         /\ Cardinality(Counted(u)) <= Cardinality(Handlers)
<1>1. Own(u) \subseteq Live(u) /\ Live(u) \subseteq Ids /\ Counted(u) \subseteq Handlers
  BY DEF Own, Live, Counted
<1>2. IsFiniteSet(Own(u)) /\ IsFiniteSet(Counted(u)) /\ IsFiniteSet(Live(u))
  BY <1>1, TableAssumption, FS_Subset
<1> QED
  BY <1>1, <1>2, TableAssumption, FS_CardinalityType, FS_Subset

LEMMA SizesNext ==
  ASSUME NEW u
  PROVE  /\ IsFiniteSet(Own(u)') /\ IsFiniteSet(Counted(u)')
         /\ Cardinality(Own(u)') \in Nat /\ Cardinality(Counted(u)') \in Nat
         /\ Cardinality(Counted(u)') <= Cardinality(Handlers)
<1>1. Own(u)' \subseteq Ids /\ Counted(u)' \subseteq Handlers
  BY DEF Own, Live, Counted
<1>2. IsFiniteSet(Own(u)') /\ IsFiniteSet(Counted(u)')
  BY <1>1, TableAssumption, FS_Subset
<1> QED
  BY <1>1, <1>2, TableAssumption, FS_CardinalityType, FS_Subset

LEMMA Shrinks ==
  ASSUME NEW u \in Users, LimitInv, Own(u)' \subseteq Own(u), Counted(u)' \subseteq Counted(u)
  PROVE  Cardinality(Own(u)') + Cardinality(Counted(u)') <= Limit + Cardinality(Handlers) - 1
<1>1. /\ Cardinality(Own(u)') <= Cardinality(Own(u))
      /\ Cardinality(Counted(u)') <= Cardinality(Counted(u))
  BY Sizes, FS_Subset
<1>2. Cardinality(Own(u)) + Cardinality(Counted(u)) <= Limit + Cardinality(Handlers) - 1
  BY DEF LimitInv
<1> QED
  BY <1>1, <1>2, Sizes, SizesNext, TableAssumption

LEMMA LimitCheck ==
  ASSUME TypeInv, LimitInv, NEW h \in Handlers, CheckLimit(h)
  PROVE  LimitInv'
<1>1. UNCHANGED <<links, revived>>
  BY DEF CheckLimit, ghosts
<1>2. \A u : Own(u)' = Own(u)
  BY <1>1 DEF Own, Live
<1>3. \A x \in Handlers : x # h => job'[x] = job[x]
  BY OtherJobs DEF Request
<1>4. \/ job'[h].at # "insert"
      \/ job'[h].user = job[h].user /\ Below(job[h].user)
  BY SmallSteps DEF Ends, NoJob, Moves
<1> SUFFICES ASSUME NEW u \in Users
             PROVE  Cardinality(Own(u)') + Cardinality(Counted(u)')
                      <= Limit + Cardinality(Handlers) - 1
  BY DEF LimitInv
<1>5. CASE Below(u)
  BY <1>2, <1>5, Sizes, SizesNext, TableAssumption DEF Below
<1>6. CASE ~Below(u)
  <2>1. Counted(u)' \subseteq Counted(u)
    BY <1>3, <1>4, <1>6 DEF Counted
  <2> QED
    BY <1>2, <2>1, Shrinks
<1> QED
  BY <1>5, <1>6

LEMMA LimitInsert ==
  ASSUME TypeInv, LimitInv, NEW h \in Handlers, Insert(h)
  PROVE  LimitInv'
<1>1. revived' = revived /\ job[h].at = "insert"
  BY DEF Insert
<1>2. \A x \in Handlers : x # h => job'[x] = job[x]
  BY OtherJobs DEF Request
<1>3. job'[h].at # "insert"
  BY OwnJob
<1>4. PICK i \in Ids, c \in Codes : links' = [links EXCEPT ![i] = Added(job[h].user, c)]
  BY DEF Insert
<1>5. /\ links'[i].owner = job[h].user
      /\ \A x \in Ids \ {i} : links'[x] = links[x]
  BY <1>4 DEF TypeInv, TypeOK, Added, Unused
<1> SUFFICES ASSUME NEW u \in Users
             PROVE  Cardinality(Own(u)') + Cardinality(Counted(u)')
                      <= Limit + Cardinality(Handlers) - 1
  BY DEF LimitInv
<1>6. Counted(u)' = Counted(u) \ {h}
  BY <1>2, <1>3 DEF Counted
<1>7. CASE u = job[h].user
  <2>1. h \in Counted(u)
    BY <1>1, <1>7 DEF Counted
  <2>2. Cardinality(Counted(u)') = Cardinality(Counted(u)) - 1
    BY <1>6, <2>1, Sizes, FS_RemoveElement
  <2>3. Own(u)' \subseteq Own(u) \cup {i}
    BY <1>1, <1>5 DEF Own, Live
  <2>4. /\ IsFiniteSet(Own(u) \cup {i})
        /\ Cardinality(Own(u) \cup {i}) \in Nat
        /\ Cardinality(Own(u) \cup {i}) <= Cardinality(Own(u)) + 1
    <3>1. IsFiniteSet(Own(u))
      BY Sizes
    <3>2. /\ IsFiniteSet(Own(u) \cup {i})
          /\ Cardinality(Own(u) \cup {i})
               = IF i \in Own(u) THEN Cardinality(Own(u)) ELSE Cardinality(Own(u)) + 1
      BY <3>1, FS_AddElement
    <3> QED
      BY <3>2, Sizes
  <2>5. Cardinality(Own(u)') <= Cardinality(Own(u)) + 1
    BY <2>3, <2>4, Sizes, SizesNext, FS_Subset
  <2>6. Cardinality(Own(u)) + Cardinality(Counted(u)) <= Limit + Cardinality(Handlers) - 1
    BY DEF LimitInv
  <2> QED
    BY <2>2, <2>5, <2>6, Sizes, SizesNext, TableAssumption
<1>8. CASE u # job[h].user
  <2>1. Own(u)' \subseteq Own(u)
    BY <1>1, <1>5, <1>8 DEF Own, Live
  <2> QED
    BY <1>6, <2>1, Shrinks
<1> QED
  BY <1>7, <1>8

\* All other steps take from the links a user has made, and from the creations
\* that have counted them.
LEMMA LimitRest ==
  ASSUME TypeInv, LimitInv,
         \A i \in Ids : links'[i].is = "live" =>
           /\ links'[i].owner = links[i].owner
           /\ links[i].is = "live" \/ i \in revived',
         \A i \in Ids : i \in revived /\ links'[i].is = "live" => i \in revived',
         \A h \in Handlers : job'[h].at = "insert" => job'[h] = job[h]
  PROVE  LimitInv'
<1> SUFFICES ASSUME NEW u \in Users
             PROVE  Cardinality(Own(u)') + Cardinality(Counted(u)')
                      <= Limit + Cardinality(Handlers) - 1
  BY DEF LimitInv
<1>1. Own(u)' \subseteq Own(u)
  BY DEF Own, Live
<1>2. Counted(u)' \subseteq Counted(u)
  BY DEF Counted
<1> QED
  BY <1>1, <1>2, Shrinks

LEMMA LimitNext ==
  ASSUME TypeInv, LimitInv, [Next]_vars
  PROVE  LimitInv'
<1>1. ASSUME NEW h \in Handlers, Request(h), ~CheckLimit(h), ~Insert(h)
      PROVE  /\ \A x \in Handlers : job'[x].at = "insert" => job'[x] = job[x]
             /\ ~Purge(h) => revived' = revived
  <2>1. \A x \in Handlers : x # h => job'[x] = job[x]
    BY <1>1, OtherJobs
  <2>2. ASSUME Read(h) PROVE Ends(h) \/ job'[h].at \in Editing
    BY <2>2, ReadJob
  <2>3. CASE CheckAlias(h)
    BY <2>3, SmallSteps, <2>1 DEF CheckAlias, Ends, NoJob, ghosts
  <2>4. CASE CheckRename(h) \/ CreateFails(h) \/ UpdateFails(h)
    BY <2>4, <2>1, SmallSteps, OwnJob
       DEF CheckRename, CreateFails, UpdateFails, Ends, NoJob, ghosts
  <2>5. CASE Begin(h) \/ Send(h) \/ Read(h) \/ AskPurge(h)
    <3>1. job'[h].at # "insert"
      BY <2>2, <2>5, OwnJob DEF Ends, NoJob, Editing
    <3>2. revived' = revived
      BY <2>5 DEF Begin, Send, Read, AskPurge, ghosts
    <3> QED
      BY <2>1, <3>1, <3>2
  <2>6. CASE Save(h) \/ Update(h) \/ Purge(h)
    BY <2>1, <2>6, OwnJob DEF Save, Update, Purge, NoJob
  <2> QED
    BY <1>1, <2>3, <2>4, <2>5, <2>6 DEF Request
<1>2. ASSUME NEW h \in Handlers, Update(h) PROVE LimitInv'
  <2>1. \A i \in Ids : links'[i].is = links[i].is /\ links'[i].owner = links[i].owner
    BY <1>2, UpdateWrites
  <2>2. revived' = revived /\ job'[h] = NoJob /\ \A x \in Handlers : x # h => job'[x] = job[x]
    BY <1>2, OwnJob, OtherJobs DEF Update, Request
  <2> QED
    BY <2>1, <2>2, LimitRest DEF NoJob
<1>3. ASSUME NEW h \in Handlers, Request(h), ~CheckLimit(h), ~Insert(h), ~Update(h), ~Purge(h)
      PROVE  LimitInv'
  <2>1. UNCHANGED <<links, revived>>
    BY <1>3, SmallSteps DEF Request, Begin, Save, Send, Read, AskPurge, ghosts
  <2> QED
    BY <1>1, <1>3, <2>1, LimitRest
<1>4. ASSUME NEW i \in Ids, Remove(i) \/ Delete(i),
             \A h \in Handlers : job'[h].at = "insert" => job'[h] = job[h]
      PROVE  LimitInv'
  <2>1. \A x \in Ids \ {i} : links'[x] = links[x] /\ (x \in revived => x \in revived')
    BY <1>4 DEF Remove, Delete, TypeInv, TypeOK
  <2>2. links'[i].is # "live"
    BY <1>4 DEF Remove, Delete, TypeInv, TypeOK, Purged, Unused, Present, Row
  <2> QED
    BY <1>4, <2>1, <2>2, LimitRest
<1>5. ASSUME NEW i \in Ids, Restore(i) PROVE LimitInv'
  <2>1. \A x \in Ids \ {i} : links'[x] = links[x]
    BY <1>5 DEF Restore, TypeInv, TypeOK
  <2>2. links'[i].owner = links[i].owner
    BY <1>5 DEF Restore, TypeInv, TypeOK, Row
  <2>3. /\ revived \subseteq revived' /\ job' = job
        /\ links[i].is = "live" \/ i \in revived'
    BY <1>5 DEF Restore, Present
  <2> QED
    BY <2>1, <2>2, <2>3, LimitRest
<1>6. ASSUME NEW i \in Ids, Age(i) PROVE LimitInv'
  <2>1. \A x \in Ids : links'[x].is = links[x].is /\ links'[x].owner = links[x].owner
    BY <1>6 DEF Age, TypeInv, TypeOK, Row
  <2> QED
    BY <1>6, <2>1, LimitRest DEF Age, ghosts
<1>7. ASSUME NEW h \in Handlers, Purge(h) PROVE LimitInv'
  <2>1. \A x \in Handlers : job'[x].at = "insert" => job'[x] = job[x]
    BY <1>1, <1>7 DEF Request, CheckLimit, Insert, Purge
  <2>2. job[h].link \in Ids
    BY <1>7 DEF Purge, TypeInv, JobInv, OnLink
  <2>3. Remove(job[h].link) \/ UNCHANGED <<links, revived>>
    BY <1>7 DEF Purge
  <2> QED
    BY <1>4, <2>1, <2>2, <2>3, LimitRest
<1>8. CASE JobPurges
  <2>1. \E i \in Ids : Remove(i) /\ job' = job
    BY <1>8 DEF JobPurges, TypeInv, TypeOK
  <2> QED
    BY <1>4, <2>1
<1>9. CASE Prune \/ JobSelects \/ JobFails \/ Crash \/ UNCHANGED vars
  <2>1. UNCHANGED <<links, revived>>
    BY <1>9 DEF Prune, JobSelects, JobFails, Crash, ghosts, vars
  <2>2. \A h \in Handlers : job'[h] \in {job[h], NoJob}
    BY <1>9 DEF Prune, JobSelects, JobFails, Crash, vars
  <2> QED
    BY <2>1, <2>2, LimitRest DEF NoJob
<1>10. ASSUME NEW i \in Ids, AdminPurge(i) \/ Delete(i) PROVE LimitInv'
  <2>1. job' = job
    BY <1>10 DEF AdminPurge, Delete
  <2> QED
    BY <1>4, <1>10, <2>1 DEF AdminPurge
<1> QED
  BY <1>2, <1>3, <1>5, <1>6, <1>7, <1>8, <1>9, <1>10, LimitCheck, LimitInsert DEF Next

\* A user has at most one link too many for each creation beyond the first that
\* runs at the same time, restored links not counted.
THEOREM LimitIsNearlyKept == Spec => []LimitExceededOnlyByOverlap
<1>1. Init => LimitInv
  <2>1. SUFFICES ASSUME Init, NEW u \in Users
                 PROVE  Cardinality(Own(u)) + Cardinality(Counted(u))
                          <= Limit + Cardinality(Handlers) - 1
    BY DEF LimitInv
  <2>2. \A x \in Ids : links[x].is # "live"
    <3>1. PICK i \in Ids, v \in Users, c \in Codes, old \in BOOLEAN :
            links \in {[x \in Ids |-> Unused],
                      [x \in Ids |-> IF x = i
                                     THEN [Added(v, c) EXCEPT !.is = "trash", !.old = old]
                                     ELSE Unused]}
      BY <2>1 DEF Init
    <3>2. Unused.is = "unused" /\ [Added(v, c) EXCEPT !.is = "trash", !.old = old].is = "trash"
      BY DEF Unused, Added
    <3> QED
      BY <3>1, <3>2
  <2>3. Own(u) = {} /\ Counted(u) = {}
    BY <2>1, <2>2 DEF Init, Own, Live, Counted, NoJob
  <2> QED
    BY <2>3, FS_EmptySet, Sizes, TableAssumption
<1>2. Spec => []TypeInv
  BY TypeInit, TypeNext, PTL DEF Spec
<1>3. TypeInv /\ LimitInv /\ [Next]_vars => LimitInv'
  BY LimitNext
<1>4. LimitInv => LimitExceededOnlyByOverlap
  <2>1. SUFFICES ASSUME LimitInv, NEW u \in Users
                 PROVE  Cardinality(Live(u) \ revived) <= Limit + Cardinality(Handlers) - 1
    BY DEF LimitExceededOnlyByOverlap
  <2>2. Cardinality(Own(u)) + Cardinality(Counted(u)) <= Limit + Cardinality(Handlers) - 1
    BY <2>1 DEF LimitInv
  <2>3. Cardinality(Own(u)) <= Limit + Cardinality(Handlers) - 1
    BY <2>2, Sizes, TableAssumption
  <2> QED
    BY <2>3 DEF Own
<1> QED
  BY <1>1, <1>2, <1>3, <1>4, PTL DEF Spec

=============================================================================
