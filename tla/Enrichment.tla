----------------------------- MODULE Enrichment -----------------------------
(***************************************************************************)
(* Where the location of a click comes from: the lookup of an address at   *)
(* the service the administrator has configured, with its cache and its    *)
(* pause after a failure (internal/click/iplookup.go), used by the click   *)
(* writer for new clicks (enrich in internal/click/writer.go) and by the   *)
(* job that fills in what is missing (internal/click/backfill.go).         *)
(*                                                                         *)
(* Both goroutines share one ipLookup; its lock is not held during the     *)
(* request.  Time is counted in ticks, the lifetimes of answers, of the    *)
(* pause and of the settings read are numbers of ticks.  Clicks are        *)
(* numbered as they are inserted, which ClickWriter is about.  Addresses   *)
(* are stored in full, none is in the GeoIP file, and the URL of the       *)
(* service stays the same while it is switched off and on.                 *)
(***************************************************************************)
EXTENDS Integers, FiniteSets, FiniteSetsExt

CONSTANTS
  Addresses,   \* where clicks come from
  Locatable,   \* those the service can place
  BatchSize,   \* rows the job reads in one run
  CacheSize,   \* answers kept before the cache is thrown away
  AnswerTTL, FailTTL, DownTTL, SettingsTTL,   \* lifetimes, in ticks
  MaxClicks,   \* bound: clicks
  MaxFaults    \* bound: times something does not work

ASSUME EnrichmentAssumption ==
  /\ Locatable \subseteq Addresses
  /\ {BatchSize, CacheSize, AnswerTTL, FailTTL, DownTTL, SettingsTTL}
       \subseteq Nat \ {0}
  /\ MaxClicks \in Nat /\ MaxFaults \in Nat

VARIABLES
  address,     \* the address of each click
  place,       \* its row: none, missing or located, or out of the window
  clicks,      \* clicks inserted so far
  answers,     \* the cache of the lookup
  down,        \* ticks left of the pause after a failure
  allowed,     \* is the service switched on, as last read
  readAgo,     \* ticks since that reading
  asking,      \* the request each goroutine has at the service
  jobAt,       \* where the job is
  todo,        \* rows of its batch still to be looked at
  cursor,      \* backfillCursor
  switch,      \* the setting in the table
  serviceUp,   \* does the service answer?
  faults,      \* how often something did not work
  offFor       \* ghost: ticks since the service was switched off

clickVars  == <<address, place, clicks>>
lookupVars == <<answers, down>>
policyVars == <<allowed, readAgo>>
jobVars    == <<jobAt, todo, cursor>>
worldVars  == <<switch, serviceUp, offFor>>
enrichmentVars ==
  <<clickVars, lookupVars, policyVars, asking, jobVars, worldVars, faults>>

-----------------------------------------------------------------------------
Ids      == 1..MaxClicks
Threads  == {"writer", "backfill"}
NoAnswer == [kept |-> FALSE, known |-> FALSE, left |-> 0]
Answer   == [kept : BOOLEAN, known : BOOLEAN,
             left : 0..AnswerTTL \cup 0..FailTTL]

\* One tick is longer than a request may take.
Idle       == [on |-> FALSE, had |-> FALSE, ticked |-> FALSE]
MaxReadAgo == SettingsTTL + 1
MaxOffFor  == SettingsTTL + 3

EnrichmentTypeOK ==
  /\ address \in [Ids -> Addresses]
  /\ place \in [Ids -> {"none", "missing", "located", "old"}]
  /\ clicks \in 0..MaxClicks
  /\ answers \in [Addresses -> Answer]
  /\ Cardinality({a \in Addresses : answers[a].kept}) <= CacheSize
  /\ down \in 0..DownTTL
  /\ allowed \in BOOLEAN /\ readAgo \in 0..MaxReadAgo
  /\ asking \in [Threads -> [on : BOOLEAN, had : BOOLEAN, ticked : BOOLEAN]]
  /\ jobAt \in {"idle", "rows", "lookup", "store"}
  /\ todo \in SUBSET Ids
  /\ cursor \in 0..MaxClicks
  /\ switch \in BOOLEAN /\ serviceUp \in BOOLEAN
  /\ faults \in 0..MaxFaults
  /\ offFor \in 0..MaxOffFor

\* The process has just started, on the clicks of earlier ones.
EnrichmentInit ==
  /\ address \in [Ids -> Addresses]
  /\ clicks \in 0..MaxClicks
  /\ place = [i \in Ids |-> IF i <= clicks THEN "missing" ELSE "none"]
  /\ answers = [a \in Addresses |-> NoAnswer] /\ down = 0
  /\ allowed = FALSE /\ readAgo = MaxReadAgo
  /\ asking = [t \in Threads |-> Idle]
  /\ jobAt = "idle" /\ todo = {} /\ cursor = 0
  /\ switch = TRUE /\ serviceUp = TRUE
  /\ faults = 0 /\ offFor = 0

-----------------------------------------------------------------------------
(* The lookup.                                                             *)

Fault == faults < MaxFaults /\ faults' = faults + 1

\* A mutant: each use prolongs the reading.
Refresh_Sliding ==
  \/ /\ readAgo <= SettingsTTL
     /\ readAgo' = 0
     /\ UNCHANGED <<allowed, faults>>
  \/ /\ readAgo > SettingsTTL
     /\ readAgo' = 0
     /\ \/ allowed' = switch /\ UNCHANGED faults
        \/ allowed' = FALSE /\ Fault

\* The settings are read again when the last reading is too old; one that
\* fails counts as "off".
Refresh ==
  \/ /\ readAgo <= SettingsTTL
     /\ UNCHANGED <<policyVars, faults>>
  \/ /\ readAgo > SettingsTTL
     /\ readAgo' = 0
     /\ \/ allowed' = switch /\ UNCHANGED faults
        \/ allowed' = FALSE /\ Fault

\* available, after Refresh.
Available == allowed' /\ down = 0

\* Lookup needs no request: there is a fresh answer, or the service is off or
\* paused and the last answer, if any, has to do.
Answered(a) == answers[a].left > 0 \/ ~Available

Ask(t, a) ==
  asking' = [asking EXCEPT ![t] = [on |-> TRUE, had |-> answers[a].known,
                                   ticked |-> FALSE]]

\* What a request that came back leaves in the cache, which is thrown away
\* when it is full.
Keep(a, known, left) ==
  LET others == IF Cardinality({b \in Addresses : answers[b].kept}) >= CacheSize
                  THEN [b \in Addresses |-> NoAnswer] ELSE answers
  IN answers' = [others EXCEPT ![a] = [kept |-> TRUE, known |-> known,
                                       left |-> left]]

\* The request of t for address a ends with the location, if it is known: the
\* service answers, or it fails and the answer from before is used again.
Responds(t, a, known) ==
  /\ asking[t].on
  /\ \/ /\ serviceUp
        /\ known = (a \in Locatable)
        /\ Keep(a, known, AnswerTTL)
        /\ UNCHANGED down
     \/ /\ ~serviceUp
        /\ known = asking[t].had
        /\ Keep(a, known, FailTTL)
        /\ down' = DownTTL
  /\ asking' = [asking EXCEPT ![t] = Idle]

-----------------------------------------------------------------------------
(* The click writer: enrich, and the row it leads to.                      *)

Insert(known) ==
  /\ clicks' = clicks + 1
  /\ place' = [place EXCEPT ![clicks + 1] = IF known THEN "located"
                                                      ELSE "missing"]
  /\ UNCHANGED address

Enrich ==
  /\ clicks < MaxClicks /\ ~asking["writer"].on
  /\ Refresh
  /\ LET a == address[clicks + 1] IN
     \/ Answered(a) /\ Insert(answers[a].known) /\ UNCHANGED asking
     \/ ~Answered(a) /\ Ask("writer", a) /\ UNCHANGED clickVars
  /\ UNCHANGED <<lookupVars, jobVars, worldVars>>

EnrichAnswered ==
  /\ clicks < MaxClicks
  /\ \E known \in BOOLEAN :
       Responds("writer", address[clicks + 1], known) /\ Insert(known)
  /\ UNCHANGED <<policyVars, jobVars, worldVars, faults>>

-----------------------------------------------------------------------------
(* The job: BackfillGeo.                                                   *)

\* ClicksMissingGeo: the newest rows below the cursor.
Missing(below) ==
  {i \in Ids : place[i] = "missing" /\ (below = 0 \/ i < below)}
Batch(rows) ==
  {i \in rows : Cardinality({j \in rows : j > i}) < BatchSize}

\* A mutant: the cursor stays at the oldest row.
StartRun_Onward ==
  /\ jobAt = "idle"
  /\ Refresh
  /\ IF Available
       THEN LET rows == Batch(Missing(cursor)) IN
            /\ todo' = rows
            /\ jobAt' = IF rows = {} THEN "idle" ELSE "rows"
       ELSE UNCHANGED <<todo, jobAt>>
  /\ UNCHANGED <<clickVars, lookupVars, asking, cursor, worldVars>>

\* Without rows the next run starts from the newest.
StartRun ==
  /\ jobAt = "idle"
  /\ Refresh
  /\ IF Available
       THEN LET rows == Batch(Missing(cursor)) IN
            /\ todo' = rows
            /\ jobAt' = IF rows = {} THEN "idle" ELSE "rows"
            /\ cursor' = IF rows = {} THEN 0 ELSE cursor
       ELSE UNCHANGED jobVars
  /\ UNCHANGED <<clickVars, lookupVars, asking, worldVars>>

\* Look at the next row, if the service is there and time is left.
NextRow ==
  /\ jobAt = "rows" /\ todo # {}
  /\ \/ /\ Refresh
        /\ IF Available
             THEN cursor' = Max(todo) /\ jobAt' = "lookup" /\ UNCHANGED todo
             ELSE jobAt' = "idle" /\ todo' = {} /\ UNCHANGED cursor
     \/ /\ Fault
        /\ jobAt' = "idle" /\ todo' = {}
        /\ UNCHANGED <<cursor, policyVars>>
  /\ UNCHANGED <<clickVars, lookupVars, asking, worldVars>>

EndRun ==
  /\ jobAt = "rows" /\ todo = {}
  /\ jobAt' = "idle"
  /\ UNCHANGED <<clickVars, lookupVars, policyVars, asking, todo, cursor,
                 worldVars, faults>>

\* What the job does with the result of Lookup.
Got(known) ==
  /\ jobAt' = IF known THEN "store" ELSE "rows"
  /\ todo' = todo \ {cursor}
  /\ UNCHANGED cursor

BackfillLookup ==
  /\ jobAt = "lookup" /\ ~asking["backfill"].on
  /\ Refresh
  /\ LET a == address[cursor] IN
     \/ Answered(a) /\ Got(answers[a].known) /\ UNCHANGED asking
     \/ ~Answered(a) /\ Ask("backfill", a) /\ UNCHANGED jobVars
  /\ UNCHANGED <<clickVars, lookupVars, worldVars>>

BackfillAnswered ==
  /\ jobAt = "lookup"
  /\ \E known \in BOOLEAN :
       Responds("backfill", address[cursor], known) /\ Got(known)
  /\ UNCHANGED <<clickVars, policyVars, worldVars, faults>>

\* SetClickGeo: an UPDATE of that row, wherever it is by now; an error ends
\* the run, with the cursor behind the row.
SetClickGeo ==
  /\ jobAt = "store"
  /\ \/ /\ place' = [place EXCEPT ![cursor] = IF @ = "missing" THEN "located"
                                                              ELSE @]
        /\ jobAt' = "rows"
        /\ UNCHANGED <<todo, faults>>
     \/ /\ Fault
        /\ jobAt' = "idle" /\ todo' = {}
        /\ UNCHANGED place
  /\ UNCHANGED <<address, clicks, lookupVars, policyVars, asking, cursor,
                 worldVars>>

-----------------------------------------------------------------------------
(* The world.                                                              *)

\* A click gets too old for the job, or is deleted by click retention.
Outlive(i) ==
  /\ place[i] \in {"missing", "located"}
  /\ place' = [place EXCEPT ![i] = "old"]
  /\ UNCHANGED <<address, clicks, lookupVars, policyVars, asking, jobVars,
                 worldVars, faults>>

Toggle ==
  /\ Fault
  /\ \/ switch' = ~switch /\ offFor' = 0 /\ UNCHANGED serviceUp
     \/ serviceUp' = ~serviceUp /\ UNCHANGED <<switch, offFor>>
  /\ UNCHANGED <<clickVars, lookupVars, policyVars, asking, jobVars>>

\* Time passes; a request does not last two ticks.
Elapse ==
  /\ \A t \in Threads : ~asking[t].ticked
  /\ asking' = [t \in Threads |-> [asking[t] EXCEPT !.ticked = asking[t].on]]
  /\ answers' = [a \in Addresses |->
                   [answers[a] EXCEPT !.left = IF @ > 0 THEN @ - 1 ELSE 0]]
  /\ down' = IF down > 0 THEN down - 1 ELSE 0
  /\ readAgo' = IF readAgo < MaxReadAgo THEN readAgo + 1 ELSE readAgo
  /\ offFor' = IF ~switch /\ offFor < MaxOffFor THEN offFor + 1 ELSE offFor
  /\ UNCHANGED <<clickVars, allowed, jobVars, switch, serviceUp, faults>>

BackfillStep ==
  \/ StartRun \/ NextRow \/ EndRun
  \/ BackfillLookup \/ BackfillAnswered \/ SetClickGeo

EnrichmentNext ==
  \/ Enrich \/ EnrichAnswered
  \/ BackfillStep
  \/ \E i \in Ids : Outlive(i)
  \/ Toggle \/ Elapse

EnrichmentSpec == EnrichmentInit /\ [][EnrichmentNext]_enrichmentVars

\* The timer starts the job again and again, a request ends by its timeout at
\* the latest, time passes; nothing is assumed of visitors.
FairEnrichmentSpec ==
  /\ EnrichmentSpec
  /\ WF_enrichmentVars(BackfillStep)
  /\ WF_enrichmentVars(EnrichAnswered)
  /\ WF_enrichmentVars(Elapse)

-----------------------------------------------------------------------------
\* Once the administrator has switched the service off, no address of a
\* visitor is at the service later than a reading of the settings and a
\* request last, although the setting is not read for each click
\* (ipSettingsTTL in Lookup and available).
SwitchIsHonoured ==
  \A t \in Threads : asking[t].on => offFor <= SettingsTTL + 1

\* If the service is switched on and answers from some time on, every click
\* that was recorded without a location the service knows gets it, or is too
\* old: neither the cursor, nor the pause, nor a cached failure hides a row
\* from the job for good (BackfillGeo).
BackfillFinishes ==
  <>[](switch /\ serviceUp)
    => \A i \in Ids : (place[i] = "missing" /\ address[i] \in Locatable)
                        ~> place[i] # "missing"

=============================================================================
