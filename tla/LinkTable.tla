----------------------------- MODULE LinkTable -----------------------------
(***************************************************************************)
(* The table of links (internal/store/links.go), the table of idempotency  *)
(* keys (internal/store/idempotency.go), and the handlers that create,     *)
(* edit, delete, restore and purge links (internal/server/api_links.go,    *)
(* internal/link/service.go).                                              *)
(*                                                                         *)
(* A creation looks its key up, checks, counts and inserts in statements   *)
(* of their own, and saves its answer after that; an edit writes back      *)
(* every column of a row it read.  Of a row the model keeps owner, code,   *)
(* one other column, the time of its last change and whether it is in the  *)
(* trash; a code stands for all its spellings.  What visitors see of the   *)
(* table is in LinkCache.                                                  *)
(***************************************************************************)
EXTENDS Integers, FiniteSets

CONSTANTS
  Ids,       \* bound: links ever created
  Codes,
  Users,
  Keys,      \* values of Idempotency-Key
  Handlers,  \* requests handled at the same time
  None,
  Limit,     \* links a user may have
  MaxOps     \* bound: requests

ASSUME TableAssumption ==
  /\ None \notin Ids \cup Codes \cup Users \cup Keys
  /\ Limit \in Nat \ {0} /\ MaxOps \in Nat
  /\ IsFiniteSet(Ids) /\ IsFiniteSet(Handlers)

VARIABLES
  links,      \* the table of links
  keys,       \* the table of idempotency keys: user and link of the answer
  job,        \* what each handler is doing
  doomed,     \* ids the purge job has selected
  ops,        \* requests so far
  made,       \* ghost: the links each user has made with each key
  slipped,    \* ghost: keys whose answer was not there for a later request
  revived,    \* ghost: links that are live because they were restored
  latest,     \* ghost: what the last edits asked each link to be
  overlapped, \* ghost: links edited while another edit had read them
  versions,   \* ghost: how many versions each link has had
  coincided,  \* ghost: links that got a version they have had before
  claimed,    \* ghost: the versions of links that conditional edits replaced
  twice,      \* ghost: links of which two conditional edits replaced one version
  handled,    \* ghost: links restored or deleted again while about to be purged
  early       \* ghost: links purged that were not in the trash, or not long enough

tags   == <<versions, coincided, claimed, twice>>
ghosts == <<made, slipped, revived, latest, overlapped, tags, handled, early>>
vars == <<links, keys, job, doomed, ops, ghosts>>

-----------------------------------------------------------------------------
\* `old`: in the trash for more than 30 days; `at`: the time of the last change
\* in milliseconds, the versions of a link numbered as they first appear.
Row == [is : {"unused", "live", "trash", "purged"}, owner : Users \cup {None},
        code : Codes \cup {None}, text : 0..MaxOps, at : Nat, old : BOOLEAN]
Unused == [is |-> "unused", owner |-> None, code |-> None, text |-> 0, at |-> 0, old |-> FALSE]
Purged == [Unused EXCEPT !.is = "purged"]
Added(u, c) == [Unused EXCEPT !.is = "live", !.owner = u, !.code = c]

Answer   == [user : Users \cup {None}, link : Ids \cup {None}]
NoAnswer == [user |-> None, link |-> None]

\* `tag` is the version an edit is conditional on, or -1; `read` the row the
\* handler read.
Steps == {"idle", "alias", "count", "insert", "save", "sent", "rename", "update", "purge"}
Job   == [at : Steps, user : Users \cup {None}, key : Keys \cup {None},
          code : Codes \cup {None}, link : Ids \cup {None}, text : 0..MaxOps,
          tag : {-1} \cup Nat, read : Row]
NoJob == [at |-> "idle", user |-> None, key |-> None, code |-> None, link |-> None,
          text |-> 0, tag |-> -1, read |-> Unused]

Present(i)  == links[i].is \in {"live", "trash"}
Live(u)     == {i \in Ids : links[i].is = "live" /\ links[i].owner = u}
Taken(c, i) == \E j \in Ids \ {i} : Present(j) /\ links[j].code = c
Content(r)  == [code |-> r.code, text |-> r.text]

TagTypes ==
  /\ versions \in [Ids -> Nat \ {0}] /\ claimed \in SUBSET (Ids \X Nat)
  /\ coincided \in SUBSET Ids /\ twice \in SUBSET Ids

\* Types, and the unique index on codes, links in the trash included.
TypeOK ==
  /\ links \in [Ids -> Row]
  /\ \A i \in Ids : Present(i) => ~Taken(links[i].code, i)
  /\ keys \in [Keys -> Answer]
  /\ job \in [Handlers -> Job]
  /\ doomed \in SUBSET Ids
  /\ ops \in 0..MaxOps
  /\ made \in [Users \X Keys -> SUBSET Ids]
  /\ slipped \in SUBSET (Users \X Keys)
  /\ revived \in SUBSET Ids
  /\ latest \in [Ids -> [code : Codes \cup {None}, text : 0..MaxOps]]
  /\ overlapped \in SUBSET Ids /\ TagTypes
  /\ handled \in SUBSET Ids /\ early \in SUBSET Ids

\* An empty table, or a link in the trash, fresh or due.
Init ==
  /\ \E i \in Ids, u \in Users, c \in Codes, old \in BOOLEAN :
       links \in {[x \in Ids |-> Unused],
                  [x \in Ids |-> IF x = i
                                 THEN [Added(u, c) EXCEPT !.is = "trash", !.old = old]
                                 ELSE Unused]}
  /\ keys = [k \in Keys |-> NoAnswer]
  /\ job = [h \in Handlers |-> NoJob]
  /\ doomed = {} /\ ops = 0
  /\ made = [uk \in Users \X Keys |-> {}]
  /\ latest = [i \in Ids |-> Content(links[i])]
  /\ versions = [i \in Ids |-> 1]
  /\ slipped = {} /\ revived = {} /\ overlapped = {}
  /\ coincided = {} /\ claimed = {} /\ twice = {}
  /\ handled = {} /\ early = {}

-----------------------------------------------------------------------------
(* Creation: handleCreateLink, and with no key the items of handleBulkLinks *)
(* and other callers of Create.                                             *)

Goto(h, at) == job' = [job EXCEPT ![h].at = at]
Done(h)     == job' = [job EXCEPT ![h] = NoJob]

\* Bound: requests.
Take(h) == job[h] = NoJob /\ ops < MaxOps /\ ops' = ops + 1

\* A creation with this key has not saved its answer yet.
Unsaved(u, k) == \E h \in Handlers : job[h].key = k /\ job[h].user = u

\* Nobody's answer is found.
Replayed_Never(u, k) == FALSE

\* GetIdempotentResponse finds the answer to give again.
Replayed(u, k) == k # None /\ keys[k].user = u

\* A creation is taken up, for an alias or for a generated code: there is no
\* answer to give again, or looking for it failed, which is ignored.
Begin(h) ==
  \E u \in Users, k \in Keys \cup {None}, c \in Codes \cup {None}, failed \in BOOLEAN :
    /\ Take(h)
    /\ failed \/ ~Replayed(u, k)
    /\ job' = [job EXCEPT ![h] = [NoJob EXCEPT
                 !.at = IF c = None THEN "count" ELSE "alias",
                 !.user = u, !.key = k, !.code = c]]
    /\ slipped' = slipped \cup
         (IF k # None /\ (Unsaved(u, k) \/ (failed /\ Replayed(u, k)))
          THEN {<<u, k>>} ELSE {})
    /\ UNCHANGED <<links, keys, doomed, made, revived, latest, overlapped, tags,
                   handled, early>>

\* CodeExists
CheckAlias(h) ==
  /\ job[h].at = "alias"
  /\ IF Taken(job[h].code, None) THEN Done(h) ELSE Goto(h, "count")
  /\ UNCHANGED <<links, keys, doomed, ops, ghosts>>

\* The limit is one too high.
Below_OffByOne(u) == Cardinality(Live(u)) <= Limit

\* CountLinksForUser against linkLimitFor.
Below(u) == Cardinality(Live(u)) < Limit

CheckLimit(h) ==
  /\ job[h].at = "count"
  /\ IF Below(job[h].user) THEN Goto(h, "insert") ELSE Done(h)
  /\ UNCHANGED <<links, keys, doomed, ops, ghosts>>

\* The unique index: nobody else has the code.
Unique(c, i) == ~Taken(c, i)

\* CreateLink: the alias, or a generated code that happens to be free.
Insert(h) ==
  LET j == job[h] IN
  /\ j.at = "insert"
  /\ \E i \in Ids, c \in Codes :
       /\ links[i] = Unused
       /\ j.code \in {c, None} /\ Unique(c, i)
       /\ links' = [links EXCEPT ![i] = Added(j.user, c)]
       /\ latest' = [latest EXCEPT ![i] = Content(Added(j.user, c))]
       /\ IF j.key = None
          THEN Done(h) /\ UNCHANGED made
          ELSE /\ job' = [job EXCEPT ![h] = [j EXCEPT !.at = "save", !.link = i]]
               /\ made' = [made EXCEPT ![<<j.user, j.key>>] = @ \cup {i}]
  /\ UNCHANGED <<keys, doomed, ops, slipped, revived, overlapped, tags, handled, early>>

\* A code is taken, five generated ones are, or a statement fails.
CreateFails(h) ==
  /\ job[h].at \in {"alias", "count", "insert"}
  /\ Done(h)
  /\ UNCHANGED <<links, keys, doomed, ops, ghosts>>

\* SaveIdempotentResponse, after the answer was sent: the first answer stays,
\* whosever it is; errors, of a client that has gone away too, are ignored.
Save(h) ==
  LET j == job[h] IN
  /\ j.at = "save"
  /\ \/ /\ keys' = IF keys[j.key] = NoAnswer
                   THEN [keys EXCEPT ![j.key] = [user |-> j.user, link |-> j.link]] ELSE keys
        /\ slipped' = slipped \cup (IF keys'[j.key].user # j.user
                                    THEN {<<j.user, j.key>>} ELSE {})
     \/ /\ slipped' = slipped \cup {<<j.user, j.key>>}
        /\ UNCHANGED keys
  /\ Done(h)
  /\ UNCHANGED <<links, doomed, ops, made, revived, latest, overlapped, tags, handled, early>>

\* PruneIdempotencyKeys: answers are kept for a day.
Prune ==
  /\ \E k \in Keys :
       /\ keys[k] # NoAnswer
       /\ keys' = [keys EXCEPT ![k] = NoAnswer]
       /\ slipped' = slipped \cup {<<keys[k].user, k>>}
  /\ UNCHANGED <<links, job, doomed, ops, made, revived, latest, overlapped, tags,
                 handled, early>>

-----------------------------------------------------------------------------
(* Edits: handlePatchLink and the items of handleBulkLinks.                 *)

\* A client asks for a new code or another change, on condition that the link
\* is as it has seen it, or on none.
Send(h) ==
  \E i \in Ids, c \in Codes \cup {None}, conditional \in BOOLEAN :
    /\ Take(h)
    /\ Present(i)
    /\ job' = [job EXCEPT ![h] = [NoJob EXCEPT
                 !.at = "sent", !.link = i, !.code = c,
                 !.text = IF c = None THEN ops + 1 ELSE 0,
                 !.tag = IF conditional THEN links[i].at ELSE -1]]
    /\ UNCHANGED <<links, keys, doomed, ghosts>>

\* The condition is not looked at.
Matches_Always(tag, r) == TRUE

\* If-Match against weakETag.
Matches(tag, r) == tag \in {-1, r.at}

\* getOwnedLink, the condition.
Read(h) ==
  LET j == job[h] IN
  /\ j.at = "sent"
  /\ IF Present(j.link) /\ Matches(j.tag, links[j.link])
     THEN job' = [job EXCEPT ![h] = [j EXCEPT
                    !.read = links[j.link],
                    !.at = IF j.code \in {None, links[j.link].code} THEN "update" ELSE "rename"]]
     ELSE Done(h)
  /\ UNCHANGED <<links, keys, doomed, ops, ghosts>>

\* CodeExists, for a code that changes.
CheckRename(h) ==
  /\ job[h].at = "rename"
  /\ IF Taken(job[h].code, None) THEN Done(h) ELSE Goto(h, "update")
  /\ UNCHANGED <<links, keys, doomed, ops, ghosts>>

\* What the request leaves out is emptied.
Edited_Whole(r, j) ==
  IF j.code = None THEN [r EXCEPT !.text = j.text] ELSE [r EXCEPT !.code = j.code, !.text = 0]

\* Only what the request names is changed.
Edited(r, j) ==
  IF j.code = None THEN [r EXCEPT !.text = j.text] ELSE [r EXCEPT !.code = j.code]

\* (ghost) What the link is to be now.
Asked(c, j) == IF j.code = None THEN [c EXCEPT !.text = j.text] ELSE [c EXCEPT !.code = j.code]

\* Other edits of the link have read it and not written it.
Overlaps(h) ==
  \E x \in Handlers \ {h} : job[x].link = job[h].link /\ job[x].at \in {"rename", "update"}

\* A new version, or one the link has had in the same millisecond: statements
\* write a time that was read before them.
Stamps(i) == 0..versions[i]

\* (ghost) The link gets the version.
Stamped(i, at) ==
  /\ versions' = [versions EXCEPT ![i] = IF at = @ THEN @ + 1 ELSE @]
  /\ coincided' = coincided \cup (IF at = versions[i] THEN {} ELSE {i})

\* UpdateLink writes all columns but deleted_at.
Write(i, r) ==
  IF Present(i)
  THEN \E at \in Stamps(i) :
         /\ Stamped(i, at)
         /\ links' = [links EXCEPT ![i].code = r.code, ![i].text = r.text, ![i].at = at]
  ELSE UNCHANGED <<links, versions, coincided>>

Update(h) ==
  LET j == job[h]
      i == j.link IN
  /\ j.at = "update"
  /\ Unique(Edited(j.read, j).code, i)
  /\ Write(i, Edited(j.read, j))
  /\ latest' = [latest EXCEPT ![i] = Asked(@, j)]
  /\ overlapped' = overlapped \cup (IF Overlaps(h) THEN {i} ELSE {})
  /\ IF j.tag = -1 \/ ~Present(i) THEN UNCHANGED <<claimed, twice>>
     ELSE /\ claimed' = claimed \cup {<<i, j.tag>>}
          /\ twice' = twice \cup (IF <<i, j.tag>> \in claimed THEN {i} ELSE {})
  /\ Done(h)
  /\ UNCHANGED <<keys, doomed, ops, made, slipped, revived, handled, early>>

\* The code is taken by now, or a statement fails.
UpdateFails(h) ==
  /\ job[h].at \in {"rename", "update"}
  /\ Done(h)
  /\ UNCHANGED <<links, keys, doomed, ops, ghosts>>

-----------------------------------------------------------------------------
(* Deletion.                                                                *)

\* The purge of the link is under way.
Condemned(i) == i \in doomed \/ \E h \in Handlers : job[h].at = "purge" /\ job[h].link = i

\* SoftDeleteLink, of a link in the trash too.
Delete(i) ==
  /\ Present(i) /\ ops < MaxOps /\ ops' = ops + 1
  /\ \E at \in Stamps(i) :
       /\ Stamped(i, at)
       /\ links' = [links EXCEPT ![i].is = "trash", ![i].old = FALSE, ![i].at = at]
  /\ revived' = revived \ {i}
  /\ handled' = handled \cup (IF Condemned(i) THEN {i} ELSE {})
  /\ UNCHANGED <<keys, job, doomed, made, slipped, latest, overlapped, claimed,
                 twice, early>>

\* RestoreLink, with no look at the limit; handleRestoreLink asks for a link in
\* the trash that is not old, handleBulkLinks for nothing.
Restore(i) ==
  /\ Present(i) /\ ops < MaxOps /\ ops' = ops + 1
  /\ \E at \in Stamps(i) :
       /\ Stamped(i, at)
       /\ links' = [links EXCEPT ![i].is = "live", ![i].old = FALSE, ![i].at = at]
  /\ revived' = IF links[i].is = "trash" THEN revived \cup {i} ELSE revived
  /\ handled' = handled \cup (IF Condemned(i) THEN {i} ELSE {})
  /\ UNCHANGED <<keys, job, doomed, made, slipped, latest, overlapped, claimed,
                 twice, early>>

\* PurgeLink
Remove(i) ==
  /\ links' = IF Present(i) THEN [links EXCEPT ![i] = Purged] ELSE links
  /\ revived' = revived \ {i}

\* Any link may be purged from the list.
Purgeable_Any(i) == Present(i)

\* "permanent, so only for links already in Trash"
Purgeable(i) == links[i].is = "trash"

\* handleBulkLinks reads the link ...
AskPurge(h) ==
  \E i \in Ids :
    /\ Take(h)
    /\ Purgeable(i)
    /\ job' = [job EXCEPT ![h] = [NoJob EXCEPT !.at = "purge", !.link = i]]
    /\ UNCHANGED <<links, keys, doomed, ghosts>>

\* ... and purges it, or fails.
Purge(h) ==
  LET i == job[h].link IN
  /\ job[h].at = "purge"
  /\ \/ /\ Remove(i)
        /\ early' = early \cup (IF links[i].is = "live" THEN {i} ELSE {})
     \/ UNCHANGED <<links, revived, early>>
  /\ Done(h)
  /\ UNCHANGED <<keys, doomed, ops, made, slipped, latest, overlapped, tags, handled>>

\* handleAdminPurgeLink: an administrator may purge any link.
AdminPurge(i) ==
  /\ Present(i) /\ ops < MaxOps /\ ops' = ops + 1
  /\ Remove(i)
  /\ UNCHANGED <<keys, job, doomed, made, slipped, latest, overlapped, tags, handled, early>>

\* The job forgets how long a link has to be in the trash.
Due_AnyTrash(i) == links[i].is = "trash"

\* PurgeSoftDeletedBefore selects what has been in the trash for long enough ...
Due(i) == links[i].is = "trash" /\ links[i].old

JobSelects ==
  /\ doomed = {}
  /\ doomed' = {i \in Ids : Due(i)}
  /\ doomed' # {}
  /\ UNCHANGED <<links, keys, job, ops, ghosts>>

\* ... and purges one after the other ...
JobPurges ==
  /\ \E i \in doomed :
       /\ Remove(i)
       /\ doomed' = doomed \ {i}
       /\ early' = early \cup (IF Present(i) /\ ~links[i].old THEN {i} ELSE {})
  /\ UNCHANGED <<keys, job, ops, made, slipped, latest, overlapped, tags, handled>>

\* ... until one fails.
JobFails ==
  /\ doomed # {}
  /\ doomed' = {}
  /\ UNCHANGED <<links, keys, job, ops, ghosts>>

-----------------------------------------------------------------------------
\* Thirty days pass.
Age(i) ==
  /\ links[i].is = "trash" /\ ~links[i].old
  /\ links' = [links EXCEPT ![i].old = TRUE]
  /\ UNCHANGED <<keys, job, doomed, ops, ghosts>>

\* The process ends and starts again.
Crash ==
  /\ job' = [h \in Handlers |-> NoJob]
  /\ doomed' = {}
  /\ slipped' = slipped \cup
       {uk \in Users \X Keys : \E h \in Handlers :
          job[h].at = "save" /\ <<job[h].user, job[h].key>> = uk}
  /\ UNCHANGED <<links, keys, ops, made, revived, latest, overlapped, tags, handled, early>>

Request(h) ==
  \/ Begin(h) \/ CheckAlias(h) \/ CheckLimit(h) \/ Insert(h) \/ CreateFails(h) \/ Save(h)
  \/ Send(h) \/ Read(h) \/ CheckRename(h) \/ Update(h) \/ UpdateFails(h)
  \/ AskPurge(h) \/ Purge(h)

Next ==
  \/ \E h \in Handlers : Request(h)
  \/ \E i \in Ids : Delete(i) \/ Restore(i) \/ AdminPurge(i) \/ Age(i)
  \/ Prune \/ JobSelects \/ JobPurges \/ JobFails \/ Crash

Spec == Init /\ [][Next]_vars

-----------------------------------------------------------------------------
(* Properties.                                                             *)

\* A user's links exceed the limit by the creations that overlapped at most,
\* restored links not counted: Create counts before it inserts, and Restore
\* does not count.
LimitExceededOnlyByOverlap ==
  \A u \in Users : Cardinality(Live(u) \ revived) <= Limit + Cardinality(Handlers) - 1

\* A user makes one link with a key ("returns the original result instead of
\* creating a duplicate"), unless a retry overlapped the first request, the
\* answer was not saved after the link had been created, looking it up failed
\* (handleCreateLink ignores that), another user has an answer under the same
\* key, or a day has passed.
KeyMakesOneLink ==
  \A uk \in Users \X Keys : Cardinality(made[uk]) > 1 => uk \in slipped

\* A link is what its last edits asked for (Update writes all columns of a row
\* it has read, Delete and Restore only their own), unless two edits overlapped.
EditsSurvive ==
  \A i \in Ids : Present(i) /\ i \notin overlapped => Content(links[i]) = latest[i]

\* Of the edits that are conditional on one version of a link, one replaces it
\* at most (handlePatchLink: "If-Match"), unless one had tested the condition
\* and not written yet when another wrote, or the link got the same updated_at
\* again, by a change in the same millisecond.
VersionReplacedOnce == twice \subseteq overlapped \cup coincided

\* What is purged has been in the trash, by the job for 30 days, unless it was
\* restored or deleted again while the purge was under way.
OnlyTrashIsPurged == early \subseteq handled

=============================================================================
