--------------------------- MODULE ServerProofs ----------------------------
(***************************************************************************)
(* Proofs about components of the server that share no state: Settings,    *)
(* for any number of settings, of values and of saves that are in progress *)
(* at the same time; Credentials, for any accounts, keys and requests;     *)
(* Enrichment and Buckets, for any addresses, keys and lifetimes.          *)
(***************************************************************************)
EXTENDS Settings, Credentials, Enrichment, Buckets, FiniteSetTheorems,
        WellFoundedInduction, TLAPS

-----------------------------------------------------------------------------
(* Settings: type correctness.                                             *)

LEMMA EffectiveType ==
  ASSUME NEW stored PROVE Effective(stored) \in Snapshot
BY DEF Effective, Snapshot

LEMMA DefaultsType == Defaults \in Snapshot
BY DEF Defaults, Snapshot

LEMMA NothingType == Nothing \in Request /\ DOMAIN Nothing = {}
<1>1. Nothing \in [{} -> Stored] /\ DOMAIN Nothing = {}
  BY DEF Nothing
<1> QED
  BY <1>1 DEF Request

\* A request, or what is left of it.
LEMMA RequestType ==
  ASSUME NEW request \in Request
  PROVE  /\ DOMAIN request \subseteq Keys
         /\ \A k \in DOMAIN request : request[k] \in Stored
         /\ \A k : [j \in DOMAIN request \ {k} |-> request[j]] \in Request
<1>1. PICK K \in SUBSET Keys : request \in [K -> Stored]
  BY DEF Request
<1>2. \A k : [j \in K \ {k} |-> request[j]] \in [K \ {k} -> Stored]
  BY <1>1
<1> QED
  BY <1>1, <1>2 DEF Request

LEMMA ReturnsTypes ==
  ASSUME SettingsTypeOK, NEW s \in Saves, Returns(s)
  PROVE  /\ saveAt' \in [Saves -> {"idle", "write", "links", "writer"}]
         /\ unwritten' \in [Saves -> Request]
         /\ merged' \in [Saves -> Snapshot]
         /\ alone' \in [Saves -> BOOLEAN]
BY NothingType, DefaultsType DEF SettingsTypeOK, Returns

LEMMA SettingsTypesInit == SettingsInit => SettingsTypeOK
BY NothingType, DefaultsType DEF SettingsInit, SettingsTypeOK

LEMMA CopyTypes ==
  ASSUME SettingsTypeOK, NEW s \in Saves, NEW h \in Holders
  PROVE  [copies EXCEPT ![h] = merged[s]] \in [Holders -> Snapshot]
BY DEF SettingsTypeOK

LEMMA SettingsTypesNext ==
  ASSUME SettingsTypeOK, [SettingsNext]_settingsVars
  PROVE  SettingsTypeOK'
<1>1. CASE UNCHANGED settingsVars
  BY <1>1 DEF SettingsTypeOK, settingsVars, requestVars
<1>2. ASSUME NEW readable \in BOOLEAN, Reload(readable) PROVE SettingsTypeOK'
  <2>1. copies' \in [Holders -> Snapshot]
    BY <1>2, EffectiveType, DefaultsType DEF Reload
  <2> QED
    BY <1>2, <2>1 DEF SettingsTypeOK, Reload, requestVars
<1>3. CASE Halt
  BY <1>3, NothingType, DefaultsType DEF SettingsTypeOK, Halt
<1>4. ASSUME NEW s \in Saves, NEW request \in Request, BeginSave(s, request)
      PROVE  SettingsTypeOK'
  <2>1. merged' \in [Saves -> Snapshot]
    BY <1>4, EffectiveType DEF SettingsTypeOK, BeginSave
  <2>2. unwritten' \in [Saves -> Request] /\ alone' \in [Saves -> BOOLEAN]
    BY <1>4 DEF SettingsTypeOK, BeginSave
  <2> QED
    BY <1>4, <2>1, <2>2 DEF SettingsTypeOK, BeginSave
<1>5. ASSUME NEW s \in Saves, NEW k \in Keys, SaveKey(s, k) PROVE SettingsTypeOK'
  <2>1. unwritten[s] \in Request /\ k \in DOMAIN unwritten[s]
    BY <1>5 DEF SettingsTypeOK, SaveKey
  <2>2. settings' \in [Keys -> Stored] /\ unwritten' \in [Saves -> Request]
    BY <1>5, <2>1, RequestType DEF SettingsTypeOK, SaveKey
  <2> QED
    BY <1>5, <2>2 DEF SettingsTypeOK, SaveKey
<1>6. ASSUME NEW s \in Saves, NEW k \in Keys, SaveFails(s, k) PROVE SettingsTypeOK'
  <2>1. unwritten[s] \in Request /\ k \in DOMAIN unwritten[s]
    BY <1>6 DEF SettingsTypeOK, SaveFails
  <2>2. settings' \in [Keys -> Stored] /\ drift' \in BOOLEAN
    BY <1>6, <2>1, RequestType DEF SettingsTypeOK, SaveFails
  <2>3. Returns(s) /\ UNCHANGED <<copies, serving>>
    BY <1>6 DEF SaveFails
  <2> QED
    BY <2>2, <2>3, ReturnsTypes DEF SettingsTypeOK
<1>7. ASSUME NEW s \in Saves, ApplyLive(s) PROVE SettingsTypeOK'
  BY <1>7, CopyTypes DEF SettingsTypeOK, ApplyLive, Holders
<1>8. ASSUME NEW s \in Saves, ApplyLinks(s) PROVE SettingsTypeOK'
  BY <1>8, CopyTypes DEF SettingsTypeOK, ApplyLinks, Holders
<1>9. ASSUME NEW s \in Saves, ApplyWriter(s) PROVE SettingsTypeOK'
  <2>1. copies' \in [Holders -> Snapshot] /\ drift' \in BOOLEAN
    BY <1>9, CopyTypes DEF SettingsTypeOK, ApplyWriter, Holders
  <2>2. Returns(s) /\ UNCHANGED <<settings, serving>>
    BY <1>9 DEF ApplyWriter
  <2> QED
    BY <2>1, <2>2, ReturnsTypes DEF SettingsTypeOK
<1> QED
  BY <1>1, <1>2, <1>3, <1>4, <1>5, <1>6, <1>7, <1>8, <1>9 DEF SettingsNext

\* All variables of Settings keep their types.
THEOREM SettingsTypeCorrect == SettingsSpec => []SettingsTypeOK
<1>1. SettingsInit => SettingsTypeOK
  BY SettingsTypesInit
<1>2. SettingsTypeOK /\ [SettingsNext]_settingsVars => SettingsTypeOK'
  BY SettingsTypesNext
<1> QED
  BY <1>1, <1>2, PTL DEF SettingsSpec

-----------------------------------------------------------------------------
(* A save that has been alone so far, or any while nothing was written,    *)
(* is going to put into the copies what the table has, or will have when   *)
(* its keys are written.                                                   *)

Resting(s) == saveAt[s] = "idle"

\* What the table is going to be.
Planned(s) ==
  IF saveAt[s] = "write" THEN Overlay(settings, unwritten[s]) ELSE settings

AloneInv ==
  \A s \in Saves : alone[s] => ~Resting(s) /\ \A t \in Saves : t # s => Resting(t)

ServingInv == \A s \in Saves : ~Resting(s) => serving

MergedInv ==
  \A s \in Saves :
    alone[s] \/ (~drift /\ ~Resting(s)) => merged[s] = Effective(Planned(s))

HalfApplied ==
  \A s \in Saves : alone[s] =>
    /\ saveAt[s] \in {"links", "writer"} => copies["live"] = merged[s]
    /\ saveAt[s] = "writer" => copies["links"] = merged[s]

UpToDate == serving /\ ~drift => \A h \in Holders : copies[h] = Effective(settings)

CopiesInv ==
  SettingsTypeOK /\ AloneInv /\ ServingInv /\ MergedInv /\ HalfApplied /\ UpToDate

LEMMA CopiesInit == SettingsInit => CopiesInv
BY SettingsTypesInit
   DEF SettingsInit, CopiesInv, AloneInv, ServingInv, MergedInv, HalfApplied, UpToDate, Resting

\* Nothing left to write: the table is what was planned.
LEMMA NothingLeft ==
  ASSUME SettingsTypeOK, NEW s \in Saves, DOMAIN unwritten[s] = {}
  PROVE  Effective(Overlay(settings, unwritten[s])) = Effective(settings)
BY DEF Effective, Overlay

\* Writing a key changes nothing about the plan.
LEMMA WriteKeepsPlan ==
  ASSUME SettingsTypeOK, NEW s \in Saves, NEW k \in Keys, SaveKey(s, k)
  PROVE  Overlay(settings', unwritten'[s]) = Overlay(settings, unwritten[s])
<1>1. /\ k \in DOMAIN unwritten[s]
      /\ settings' = [settings EXCEPT ![k] = unwritten[s][k]]
      /\ unwritten'[s] = [j \in DOMAIN unwritten[s] \ {k} |-> unwritten[s][j]]
  BY DEF SaveKey, SettingsTypeOK
<1>2. \A j \in Keys : settings'[j] = IF j = k THEN unwritten[s][k] ELSE settings[j]
  BY <1>1 DEF SettingsTypeOK
<1> QED
  BY <1>1, <1>2 DEF Overlay

\* A handler that returns leaves the plans of the others alone.
LEMMA ReturnKeeps ==
  ASSUME CopiesInv, NEW s \in Saves, Returns(s), UNCHANGED serving,
         UNCHANGED settings \/ drift', ~drift' => ~drift, ~Resting(s)
  PROVE  AloneInv' /\ ServingInv' /\ MergedInv'
<1>1. \A t \in Saves :
        /\ Resting(t)' <=> Resting(t) \/ t = s
        /\ alone'[t] <=> alone[t] /\ t # s
        /\ t # s => /\ saveAt'[t] = saveAt[t] /\ merged'[t] = merged[t]
                    /\ unwritten'[t] = unwritten[t]
  BY DEF Returns, CopiesInv, SettingsTypeOK, Resting
<1>2. \A t \in Saves : ~alone'[t]
  BY <1>1 DEF CopiesInv, AloneInv
<1>3. AloneInv' /\ ServingInv'
  BY <1>1, <1>2 DEF CopiesInv, AloneInv, ServingInv
<1>4. MergedInv'
  BY <1>1, <1>2 DEF CopiesInv, MergedInv, Planned
<1> QED
  BY <1>3, <1>4

LEMMA ReloadKeeps ==
  ASSUME CopiesInv, NEW readable \in BOOLEAN, Reload(readable)
  PROVE  AloneInv' /\ ServingInv' /\ MergedInv' /\ HalfApplied' /\ UpToDate'
<1>1. \A s \in Saves : Resting(s) /\ ~alone[s]
  BY DEF CopiesInv, AloneInv, ServingInv, Reload
<1>2. \A s \in Saves : Resting(s)' /\ ~alone'[s]
  BY <1>1 DEF Reload, requestVars, Resting
<1>3. UpToDate'
  BY DEF Reload, UpToDate
<1> QED
  BY <1>2, <1>3 DEF AloneInv, ServingInv, MergedInv, HalfApplied

LEMMA BeginKeepsCopies ==
  ASSUME CopiesInv, NEW s \in Saves, NEW request \in Request, BeginSave(s, request)
  PROVE  AloneInv' /\ ServingInv' /\ MergedInv' /\ HalfApplied' /\ UpToDate'
<1>1. /\ serving /\ serving' /\ UNCHANGED <<settings, copies, drift>>
  BY DEF BeginSave
<1>2. \A t \in Saves :
        /\ saveAt'[t] = IF t = s THEN "write" ELSE saveAt[t]
        /\ unwritten'[t] = IF t = s THEN request ELSE unwritten[t]
        /\ merged'[t] = IF t = s THEN Effective(Overlay(settings, request)) ELSE merged[t]
        /\ alone'[t] <=> t = s /\ Active = {}
  BY DEF BeginSave, CopiesInv, SettingsTypeOK
<1>3. AloneInv' /\ ServingInv'
  BY <1>1, <1>2 DEF AloneInv, ServingInv, Resting, Active
<1>4. MergedInv'
  <2> SUFFICES ASSUME NEW t \in Saves, alone'[t] \/ (~drift' /\ ~Resting(t)')
               PROVE  merged'[t] = Effective(Planned(t)')
    BY <1>1 DEF MergedInv, Effective
  <2>1. CASE t = s
    BY <1>1, <1>2, <2>1 DEF Planned
  <2>2. CASE t # s
    <3>1. merged[t] = Effective(Planned(t))
      BY <1>1, <1>2, <2>2 DEF CopiesInv, MergedInv, Resting
    <3> QED
      BY <1>1, <1>2, <2>2, <3>1 DEF Planned
  <2> QED
    BY <2>1, <2>2
<1>5. HalfApplied'
  BY <1>2 DEF HalfApplied
<1>6. UpToDate'
  BY <1>1 DEF CopiesInv, UpToDate
<1> QED
  BY <1>3, <1>4, <1>5, <1>6

LEMMA WriteKeeps ==
  ASSUME CopiesInv, NEW s \in Saves, NEW k \in Keys, SaveKey(s, k)
  PROVE  AloneInv' /\ ServingInv' /\ MergedInv' /\ HalfApplied' /\ UpToDate'
<1>1. /\ drift' /\ saveAt[s] = "write"
      /\ UNCHANGED <<copies, serving, saveAt, merged, alone>>
  BY DEF SaveKey
<1>2. \A t \in Saves : alone[t] => t = s
  BY <1>1 DEF CopiesInv, AloneInv, Resting
<1>3. Overlay(settings', unwritten'[s]) = Overlay(settings, unwritten[s])
  BY WriteKeepsPlan DEF CopiesInv
<1>4. MergedInv'
  BY <1>1, <1>2, <1>3 DEF CopiesInv, MergedInv, Planned
<1>5. AloneInv' /\ ServingInv' /\ HalfApplied' /\ UpToDate'
  BY <1>1 DEF CopiesInv, AloneInv, ServingInv, HalfApplied, UpToDate, Resting
<1> QED
  BY <1>4, <1>5

LEMMA FailKeeps ==
  ASSUME CopiesInv, NEW s \in Saves, NEW k \in Keys, SaveFails(s, k)
  PROVE  AloneInv' /\ ServingInv' /\ MergedInv' /\ HalfApplied' /\ UpToDate'
<1>1. /\ Returns(s) /\ ~Resting(s) /\ UNCHANGED <<copies, serving>>
      /\ UNCHANGED <<settings, drift>> \/ drift'
  BY DEF SaveFails, Resting
<1>2. AloneInv' /\ ServingInv' /\ MergedInv'
  BY <1>1, ReturnKeeps
<1>3. \A t \in Saves : ~alone'[t]
  BY <1>1 DEF CopiesInv, AloneInv, Returns, SettingsTypeOK
<1>4. HalfApplied' /\ UpToDate'
  BY <1>1, <1>3 DEF CopiesInv, HalfApplied, UpToDate
<1> QED
  BY <1>2, <1>4

\* The first two copies: the table stays, and so does what is planned.
LEMMA ApplyKeepsPlans ==
  ASSUME CopiesInv, NEW s \in Saves, ApplyLive(s) \/ ApplyLinks(s)
  PROVE  /\ AloneInv' /\ ServingInv' /\ MergedInv'
         /\ alone[s] \/ ~drift => merged[s] = Effective(settings)
<1>1. /\ UNCHANGED <<settings, serving, unwritten, merged, alone, drift>>
      /\ (saveAt[s] = "write" /\ DOMAIN unwritten[s] = {}) \/ saveAt[s] = "links"
      /\ \E at \in {"links", "writer"} : saveAt' = [saveAt EXCEPT ![s] = at]
  BY DEF ApplyLive, ApplyLinks
<1>2. \A t \in Saves :
        /\ Resting(t)' <=> Resting(t)
        /\ t # s => saveAt'[t] = saveAt[t]
        /\ t = s => saveAt'[t] # "write" /\ ~Resting(t)
  BY <1>1 DEF CopiesInv, SettingsTypeOK, Resting
<1>3. AloneInv' /\ ServingInv'
  BY <1>1, <1>2 DEF CopiesInv, AloneInv, ServingInv
<1>4. alone[s] \/ ~drift => merged[s] = Effective(settings)
  <2>1. Effective(Planned(s)) = Effective(settings)
    BY <1>1, NothingLeft DEF CopiesInv, Planned
  <2> QED
    BY <1>2, <2>1 DEF CopiesInv, MergedInv
<1>5. MergedInv'
  <2> SUFFICES ASSUME NEW t \in Saves, alone[t] \/ (~drift /\ ~Resting(t))
               PROVE  merged[t] = Effective(Planned(t)')
    BY <1>1, <1>2 DEF MergedInv, Effective
  <2>1. CASE t = s
    BY <1>1, <1>2, <1>4, <2>1 DEF Planned
  <2>2. CASE t # s
    BY <1>1, <1>2, <2>2 DEF CopiesInv, MergedInv, Planned
  <2> QED
    BY <2>1, <2>2
<1> QED
  BY <1>3, <1>4, <1>5

LEMMA ApplyKeepsCopies ==
  ASSUME CopiesInv, NEW s \in Saves, ApplyLive(s) \/ ApplyLinks(s)
  PROVE  HalfApplied' /\ UpToDate'
<1>1. UNCHANGED <<settings, serving, merged, alone, drift>>
  BY DEF ApplyLive, ApplyLinks
<1>2. \A t \in Saves : alone[t] => t = s
  BY DEF CopiesInv, AloneInv, Resting, ApplyLive, ApplyLinks
<1>3. alone[s] \/ ~drift => merged[s] = Effective(settings)
  BY ApplyKeepsPlans
<1>4. CASE ApplyLive(s)
  <2>1. \A h \in Holders : copies'[h] = IF h = "live" THEN merged[s] ELSE copies[h]
    BY <1>4 DEF ApplyLive, CopiesInv, SettingsTypeOK
  <2>2. copies'["live"] = merged[s] /\ saveAt'[s] = "links"
    BY <1>4, <2>1 DEF ApplyLive, CopiesInv, SettingsTypeOK, Holders
  <2>3. HalfApplied'
    BY <1>1, <1>2, <2>2 DEF HalfApplied
  <2>4. UpToDate'
    BY <1>1, <1>3, <2>1 DEF CopiesInv, UpToDate
  <2> QED
    BY <2>3, <2>4
<1>5. CASE ApplyLinks(s)
  <2>1. \A h \in Holders : copies'[h] = IF h = "links" THEN merged[s] ELSE copies[h]
    BY <1>5 DEF ApplyLinks, CopiesInv, SettingsTypeOK
  <2>2. copies'["links"] = merged[s] /\ copies'["live"] = copies["live"] /\ saveAt[s] = "links"
    BY <1>5, <2>1 DEF ApplyLinks, CopiesInv, SettingsTypeOK, Holders
  <2>3. HalfApplied'
    BY <1>1, <1>2, <2>2 DEF CopiesInv, HalfApplied
  <2>4. UpToDate'
    BY <1>1, <1>3, <2>1 DEF CopiesInv, UpToDate
  <2> QED
    BY <2>3, <2>4
<1> QED
  BY <1>4, <1>5

LEMMA WriterKeeps ==
  ASSUME CopiesInv, NEW s \in Saves, ApplyWriter(s)
  PROVE  AloneInv' /\ ServingInv' /\ MergedInv' /\ HalfApplied' /\ UpToDate'
<1>1. /\ saveAt[s] = "writer" /\ Returns(s) /\ drift' = ~alone[s]
      /\ UNCHANGED <<settings, serving>>
      /\ copies' = [copies EXCEPT !["writer"] = merged[s]]
  BY DEF ApplyWriter
<1>2. \A t \in Saves : ~alone'[t]
  BY <1>1 DEF CopiesInv, AloneInv, Returns, SettingsTypeOK, Resting
<1>3. alone[s] \in BOOLEAN
  BY DEF CopiesInv, SettingsTypeOK
<1>4. HalfApplied'
  BY <1>2 DEF HalfApplied
<1>5. CASE alone[s]
  <2>1. \A t \in Saves : Resting(t)'
    BY <1>1, <1>5 DEF CopiesInv, AloneInv, Returns, SettingsTypeOK, Resting
  <2>2. AloneInv' /\ ServingInv' /\ MergedInv'
    BY <1>2, <2>1 DEF AloneInv, ServingInv, MergedInv
  <2>3. /\ merged[s] = Effective(settings)
        /\ copies["live"] = merged[s] /\ copies["links"] = merged[s]
    BY <1>1, <1>5 DEF CopiesInv, MergedInv, HalfApplied, Planned
  <2>4. \A h \in Holders : copies'[h] = merged[s]
    BY <1>1, <2>3 DEF CopiesInv, SettingsTypeOK, Holders
  <2> QED
    BY <1>1, <1>4, <2>2, <2>3, <2>4 DEF UpToDate
<1>6. CASE ~alone[s]
  <2>1. drift'
    BY <1>1, <1>6
  <2>2. AloneInv' /\ ServingInv' /\ MergedInv'
    BY <1>1, <2>1, ReturnKeeps DEF Resting
  <2> QED
    BY <1>4, <2>1, <2>2 DEF UpToDate
<1> QED
  BY <1>3, <1>5, <1>6

LEMMA CopiesNext == CopiesInv /\ [SettingsNext]_settingsVars => CopiesInv'
<1> SUFFICES ASSUME CopiesInv, [SettingsNext]_settingsVars
             PROVE  AloneInv' /\ ServingInv' /\ MergedInv' /\ HalfApplied' /\ UpToDate'
  BY SettingsTypesNext DEF CopiesInv
<1>1. CASE UNCHANGED settingsVars
  BY <1>1 DEF settingsVars, requestVars, CopiesInv, AloneInv, ServingInv, MergedInv,
              HalfApplied, UpToDate, Resting, Planned
<1>2. CASE Halt
  <2>1. \A s \in Saves : Resting(s)' /\ ~alone'[s]
    BY <1>2 DEF Halt, Resting
  <2>2. ~serving'
    BY <1>2 DEF Halt
  <2> QED
    BY <2>1, <2>2 DEF AloneInv, ServingInv, MergedInv, HalfApplied, UpToDate
<1>3. ASSUME NEW s \in Saves, ApplyLive(s) \/ ApplyLinks(s)
      PROVE  AloneInv' /\ ServingInv' /\ MergedInv' /\ HalfApplied' /\ UpToDate'
  BY <1>3, ApplyKeepsPlans, ApplyKeepsCopies
<1> QED
  BY <1>1, <1>2, <1>3, ReloadKeeps, BeginKeepsCopies, WriteKeeps, FailKeeps, WriterKeeps
  DEF SettingsNext

\* Unless a save failed half way, saves overlapped or the table could not be
\* read at the start, the copies of a server without saves in progress are
\* what the table says.
THEOREM CopiesAreTheTable == SettingsSpec => []CopiesMatchTable
<1>1. SettingsInit => CopiesInv
  BY CopiesInit
<1>2. CopiesInv /\ [SettingsNext]_settingsVars => CopiesInv'
  BY CopiesNext
<1>3. CopiesInv => CopiesMatchTable
  BY DEF CopiesInv, UpToDate, CopiesMatchTable
<1> QED
  BY <1>1, <1>2, <1>3, PTL DEF SettingsSpec

-----------------------------------------------------------------------------
(* Enrichment: type correctness.                                           *)

LEMMA SmallestOf ==
  ASSUME NEW T \in SUBSET Nat, T # {}
  PROVE  \E x \in T : \A y \in T : x <= y
<1> DEFINE R == OpToRel(<, Nat)
<1>1. IsWellFoundedOn(R, Nat)
  BY NatLessThanWellFounded
<1>2. \A x, y \in Nat : <<y, x>> \in R <=> y < x
  BY DEF OpToRel
<1> HIDE DEF R
<1>3. PICK x \in T : \A y \in T : ~ (<<y, x>> \in R)
  BY <1>1, WFMin
<1>4. \A y \in T : x \in Nat /\ y \in Nat /\ ~(y < x)
  BY <1>2, <1>3
<1> HIDE DEF R
<1>5. \A y \in T : x <= y
  BY <1>4
<1> QED
  BY <1>5

\* The job takes one of its rows.
LEMMA HighestOf ==
  ASSUME NEW T \in SUBSET Ids, T # {}
  PROVE  Max(T) \in T
<1> DEFINE U == {MaxClicks - x : x \in T}
<1>1. MaxClicks \in Nat /\ T \subseteq 1..MaxClicks
  BY EnrichmentAssumption DEF Ids
<1>2. \A x \in T : x \in Nat /\ MaxClicks - x \in Nat
  BY <1>1
<1>3. U \in SUBSET Nat /\ U # {}
  BY <1>2
<1>4. PICK u \in U : \A v \in U : u <= v
  BY <1>3, SmallestOf
<1>5. PICK x \in T : u = MaxClicks - x
  BY <1>4
<1>6. \A y \in T : u <= MaxClicks - y
  BY <1>4
<1>7. \A y \in T : x >= y
  BY <1>1, <1>2, <1>5, <1>6
<1> QED
  BY <1>7 DEF Max

LEMMA Lifetimes ==
  /\ SettingsTTL \in Nat /\ SettingsTTL >= 1
  /\ AnswerTTL \in Nat /\ FailTTL \in Nat /\ DownTTL \in Nat
  /\ CacheSize \in Nat /\ CacheSize >= 1
BY EnrichmentAssumption

KeptAnswers == {a \in Addresses : answers[a].kept}

\* The cache stays finite, and the job asks about a row.
EnrichmentTypes ==
  /\ EnrichmentTypeOK
  /\ IsFiniteSet(KeptAnswers)
  /\ jobAt = "lookup" => cursor \in Ids

LEMMA EnrichmentTypesInit == EnrichmentInit => EnrichmentTypes
<1> SUFFICES ASSUME EnrichmentInit PROVE EnrichmentTypes
  OBVIOUS
<1>1. KeptAnswers = {}
  BY DEF EnrichmentInit, KeptAnswers, NoAnswer
<1>2. IsFiniteSet(KeptAnswers) /\ Cardinality(KeptAnswers) = 0
  BY <1>1, FS_EmptySet
<1>3. answers \in [Addresses -> Answer]
  BY EnrichmentAssumption DEF EnrichmentInit, NoAnswer, Answer
<1>4. asking \in [Threads -> [on : BOOLEAN, had : BOOLEAN, ticked : BOOLEAN]]
  BY DEF EnrichmentInit, Idle
<1>5. place \in [Ids -> {"none", "missing", "located", "old"}]
  BY DEF EnrichmentInit
<1>6. /\ down \in 0..DownTTL /\ faults \in 0..MaxFaults
      /\ readAgo \in 0..MaxReadAgo /\ offFor \in 0..MaxOffFor
      /\ cursor \in 0..MaxClicks
  BY EnrichmentAssumption DEF EnrichmentInit, MaxReadAgo, MaxOffFor
<1>7. Cardinality({a \in Addresses : answers[a].kept}) <= CacheSize
  BY <1>2, Lifetimes DEF KeptAnswers
<1> QED
  BY <1>2, <1>3, <1>4, <1>5, <1>6, <1>7
  DEF EnrichmentTypes, EnrichmentTypeOK, EnrichmentInit

LEMMA FaultTypes ==
  ASSUME EnrichmentTypeOK, Fault PROVE faults' \in 0..MaxFaults
BY EnrichmentAssumption DEF EnrichmentTypeOK, Fault

\* What is known of the settings has been read within their lifetime.
LEMMA RefreshTypes ==
  ASSUME EnrichmentTypeOK, Refresh
  PROVE  /\ allowed' \in BOOLEAN
         /\ readAgo' \in 0..SettingsTTL /\ readAgo' \in 0..MaxReadAgo
         /\ faults' \in 0..MaxFaults
<1>1. CASE readAgo <= SettingsTTL
  BY <1>1, Lifetimes DEF EnrichmentTypeOK, Refresh, policyVars, MaxReadAgo
<1>2. CASE readAgo > SettingsTTL
  <2>1. ~(readAgo <= SettingsTTL)
    BY <1>2, Lifetimes DEF EnrichmentTypeOK, MaxReadAgo
  <2>2. readAgo' = 0 /\ (allowed' = switch \/ allowed' = FALSE)
    BY <2>1, Zenon DEF Refresh
  <2>3. readAgo' = 0 /\ allowed' \in BOOLEAN
    BY <2>2 DEF EnrichmentTypeOK
  <2>4. faults' \in 0..MaxFaults
    BY <1>2, FaultTypes, Lifetimes DEF EnrichmentTypeOK, Refresh, MaxReadAgo
  <2> QED
    BY <2>3, <2>4, Lifetimes DEF MaxReadAgo
<1>3. readAgo \in Nat /\ SettingsTTL \in Nat
  BY Lifetimes DEF EnrichmentTypeOK, MaxReadAgo
<1> QED
  BY <1>1, <1>2, <1>3

LEMMA AskTypes ==
  ASSUME EnrichmentTypeOK, NEW t \in Threads, NEW a \in Addresses, Ask(t, a)
  PROVE  asking' \in [Threads -> [on : BOOLEAN, had : BOOLEAN, ticked : BOOLEAN]]
BY DEF EnrichmentTypeOK, Ask, Answer

\* A full cache is thrown away, so it never grows beyond its size.
LEMMA KeepTypes ==
  ASSUME EnrichmentTypes, NEW a \in Addresses, NEW known \in BOOLEAN,
         NEW left \in 0..AnswerTTL \cup 0..FailTTL, Keep(a, known, left)
  PROVE  /\ answers' \in [Addresses -> Answer]
         /\ IsFiniteSet(KeptAnswers') /\ Cardinality(KeptAnswers') <= CacheSize
<1> DEFINE new == [kept |-> TRUE, known |-> known, left |-> left]
           full == Cardinality(KeptAnswers) >= CacheSize
<1>1. new \in Answer /\ NoAnswer \in Answer
  BY EnrichmentAssumption DEF Answer, NoAnswer
<1>2. /\ IsFiniteSet(KeptAnswers) /\ Cardinality(KeptAnswers) \in Nat
      /\ Cardinality(KeptAnswers) <= CacheSize
      /\ CacheSize \in Nat \ {0} /\ answers \in [Addresses -> Answer]
  BY EnrichmentAssumption, FS_CardinalityType
  DEF EnrichmentTypes, EnrichmentTypeOK, KeptAnswers
<1>3. CASE full
  <2>1. answers' = [[b \in Addresses |-> NoAnswer] EXCEPT ![a] = new]
    BY <1>3 DEF Keep, KeptAnswers
  <2>2. KeptAnswers' = {a} /\ answers' \in [Addresses -> Answer]
    BY <2>1, <1>1 DEF KeptAnswers, NoAnswer
  <2>3. IsFiniteSet({a}) /\ Cardinality({a}) = 1
    BY FS_Singleton
  <2>4. 1 <= CacheSize
    BY <1>2
  <2> QED
    BY <2>2, <2>3, <2>4
<1>4. CASE ~full
  <2>1. answers' = [answers EXCEPT ![a] = new]
    BY <1>4 DEF Keep, KeptAnswers
  <2>2. KeptAnswers' = KeptAnswers \cup {a} /\ answers' \in [Addresses -> Answer]
    BY <2>1, <1>1, <1>2 DEF KeptAnswers
  <2>3. /\ IsFiniteSet(KeptAnswers \cup {a})
        /\ Cardinality(KeptAnswers \cup {a}) =
             IF a \in KeptAnswers THEN Cardinality(KeptAnswers)
             ELSE Cardinality(KeptAnswers) + 1
    BY <1>2, FS_AddElement
  <2>4. Cardinality(KeptAnswers) + 1 <= CacheSize
    BY <1>2, <1>4
  <2>5. Cardinality(KeptAnswers \cup {a}) <= CacheSize
    BY <2>3, <2>4, <1>2
  <2> QED
    BY <2>2, <2>3, <2>5
<1> QED
  BY <1>3, <1>4

LEMMA RespondsTypes ==
  ASSUME EnrichmentTypes, NEW t \in Threads, NEW a \in Addresses,
         NEW known \in BOOLEAN, Responds(t, a, known)
  PROVE  /\ answers' \in [Addresses -> Answer]
         /\ IsFiniteSet(KeptAnswers') /\ Cardinality(KeptAnswers') <= CacheSize
         /\ down' \in 0..DownTTL
         /\ asking' \in [Threads -> [on : BOOLEAN, had : BOOLEAN, ticked : BOOLEAN]]
<1>1. /\ AnswerTTL \in 0..AnswerTTL \cup 0..FailTTL
      /\ FailTTL \in 0..AnswerTTL \cup 0..FailTTL
      /\ DownTTL \in 0..DownTTL
  BY EnrichmentAssumption
<1>2. Keep(a, known, AnswerTTL) \/ Keep(a, known, FailTTL)
  BY DEF Responds
<1>3. /\ answers' \in [Addresses -> Answer]
      /\ IsFiniteSet(KeptAnswers') /\ Cardinality(KeptAnswers') <= CacheSize
  BY <1>1, <1>2, KeepTypes
<1>4. down' \in 0..DownTTL
  BY <1>1 DEF Responds, EnrichmentTypes, EnrichmentTypeOK
<1>5. asking' \in [Threads -> [on : BOOLEAN, had : BOOLEAN, ticked : BOOLEAN]]
  BY DEF Responds, EnrichmentTypes, EnrichmentTypeOK, Idle
<1> QED
  BY <1>3, <1>4, <1>5

\* A click comes with the location that was found.
LEMMA InsertTypes ==
  ASSUME EnrichmentTypeOK, clicks < MaxClicks, NEW known \in BOOLEAN, Insert(known)
  PROVE  /\ address' \in [Ids -> Addresses] /\ clicks' \in 0..MaxClicks
         /\ place' \in [Ids -> {"none", "missing", "located", "old"}]
BY EnrichmentAssumption DEF EnrichmentTypeOK, Insert, Ids

LEMMA EnrichTypes ==
  ASSUME EnrichmentTypes, Enrich \/ EnrichAnswered PROVE EnrichmentTypes'
<1>1. clicks < MaxClicks /\ clicks + 1 \in Ids /\ address[clicks + 1] \in Addresses
  BY EnrichmentAssumption
  DEF EnrichmentTypes, EnrichmentTypeOK, Enrich, EnrichAnswered, Ids
<1> DEFINE a == address[clicks + 1]
<1>2. a \in Addresses /\ answers[a].known \in BOOLEAN
  BY <1>1 DEF EnrichmentTypes, EnrichmentTypeOK, Answer
<1>3. "writer" \in Threads
  BY DEF Threads
<1>4. CASE Enrich
  <2>1. /\ allowed' \in BOOLEAN /\ readAgo' \in 0..MaxReadAgo
        /\ faults' \in 0..MaxFaults
    BY <1>4, RefreshTypes DEF Enrich, EnrichmentTypes
  <2>2. /\ address' \in [Ids -> Addresses] /\ clicks' \in 0..MaxClicks
        /\ place' \in [Ids -> {"none", "missing", "located", "old"}]
        /\ asking' \in [Threads -> [on : BOOLEAN, had : BOOLEAN, ticked : BOOLEAN]]
    <3>1. CASE Insert(answers[a].known) /\ UNCHANGED asking
      BY <3>1, <1>1, <1>2, InsertTypes DEF EnrichmentTypes, EnrichmentTypeOK
    <3>2. CASE Ask("writer", a) /\ UNCHANGED clickVars
      BY <3>2, <1>2, <1>3, AskTypes DEF EnrichmentTypes, EnrichmentTypeOK, clickVars
    <3> QED
      BY <1>4, <3>1, <3>2 DEF Enrich
  <2>3. UNCHANGED <<lookupVars, jobVars, worldVars>>
    BY <1>4 DEF Enrich
  <2> QED
    BY <2>1, <2>2, <2>3
    DEF EnrichmentTypes, EnrichmentTypeOK, KeptAnswers, lookupVars, jobVars, worldVars
<1>5. CASE EnrichAnswered
  <2>1. PICK known \in BOOLEAN : Responds("writer", a, known) /\ Insert(known)
    BY <1>5 DEF EnrichAnswered
  <2>2. /\ address' \in [Ids -> Addresses] /\ clicks' \in 0..MaxClicks
        /\ place' \in [Ids -> {"none", "missing", "located", "old"}]
    BY <2>1, <1>1, InsertTypes DEF EnrichmentTypes
  <2>3. /\ answers' \in [Addresses -> Answer]
        /\ IsFiniteSet(KeptAnswers') /\ Cardinality(KeptAnswers') <= CacheSize
        /\ down' \in 0..DownTTL
        /\ asking' \in [Threads -> [on : BOOLEAN, had : BOOLEAN, ticked : BOOLEAN]]
    BY <2>1, <1>2, <1>3, RespondsTypes
  <2>4. UNCHANGED <<policyVars, jobVars, worldVars, faults>>
    BY <1>5 DEF EnrichAnswered
  <2> QED
    BY <2>2, <2>3, <2>4
    DEF EnrichmentTypes, EnrichmentTypeOK, KeptAnswers, policyVars, jobVars, worldVars
<1> QED
  BY <1>4, <1>5

\* The steps of the job that ask nothing.
LEMMA RunTypes ==
  ASSUME EnrichmentTypes, StartRun \/ NextRow \/ EndRun \/ SetClickGeo
  PROVE  EnrichmentTypes'
<1>1. ASSUME Refresh
      PROVE  /\ allowed' \in BOOLEAN /\ readAgo' \in 0..MaxReadAgo
             /\ faults' \in 0..MaxFaults
  BY <1>1, RefreshTypes DEF EnrichmentTypes
<1>2. CASE StartRun
  <2>1. /\ todo' \in SUBSET Ids /\ jobAt' \in {"idle", "rows"}
        /\ cursor' \in 0..MaxClicks
    <3>1. Batch(Missing(cursor)) \in SUBSET Ids /\ 0 \in 0..MaxClicks
      BY EnrichmentAssumption DEF Batch, Missing
    <3>2. /\ todo \in SUBSET Ids /\ cursor \in 0..MaxClicks /\ jobAt = "idle"
      BY <1>2 DEF StartRun, EnrichmentTypes, EnrichmentTypeOK
    <3>3. CASE Available
      BY <1>2, <3>1, <3>2, <3>3 DEF StartRun
    <3>4. CASE ~Available
      BY <1>2, <3>2, <3>4 DEF StartRun, jobVars
    <3> QED
      BY <3>3, <3>4
  <2>2. Refresh /\ UNCHANGED <<clickVars, lookupVars, asking, worldVars>>
    BY <1>2 DEF StartRun
  <2> QED
    BY <1>1, <2>1, <2>2
    DEF EnrichmentTypes, EnrichmentTypeOK, KeptAnswers, clickVars, lookupVars, worldVars
<1>3. CASE NextRow
  <2>1. UNCHANGED <<clickVars, lookupVars, asking, worldVars>> /\ todo # {}
    BY <1>3 DEF NextRow
  <2>2. todo \in SUBSET Ids /\ Max(todo) \in Ids /\ Max(todo) \in 0..MaxClicks
    <3>1. todo \in SUBSET Ids
      BY DEF EnrichmentTypes, EnrichmentTypeOK
    <3>2. Max(todo) \in todo
      BY <2>1, <3>1, HighestOf
    <3>3. \A i \in Ids : i \in 0..MaxClicks
      BY EnrichmentAssumption DEF Ids
    <3> QED
      BY <3>1, <3>2, <3>3
  <2>3. /\ allowed' \in BOOLEAN /\ readAgo' \in 0..MaxReadAgo
        /\ faults' \in 0..MaxFaults
    BY <1>1, <1>3, FaultTypes DEF NextRow, EnrichmentTypes, EnrichmentTypeOK, policyVars
  <2>4. /\ todo' \in SUBSET Ids /\ jobAt' \in {"idle", "lookup"}
        /\ cursor' \in 0..MaxClicks /\ (jobAt' = "lookup" => cursor' \in Ids)
    BY <1>3, <2>2 DEF NextRow, EnrichmentTypes, EnrichmentTypeOK
  <2> QED
    BY <2>1, <2>3, <2>4
    DEF EnrichmentTypes, EnrichmentTypeOK, KeptAnswers, clickVars, lookupVars, worldVars
<1>4. CASE EndRun
  BY <1>4
  DEF EndRun, EnrichmentTypes, EnrichmentTypeOK, KeptAnswers, clickVars, lookupVars,
      policyVars, worldVars
<1>5. CASE SetClickGeo
  <2>1. /\ place' \in [Ids -> {"none", "missing", "located", "old"}]
        /\ todo' \in SUBSET Ids /\ jobAt' \in {"idle", "rows"}
        /\ faults' \in 0..MaxFaults
    BY <1>5, FaultTypes DEF SetClickGeo, EnrichmentTypes, EnrichmentTypeOK
  <2>2. UNCHANGED <<address, clicks, lookupVars, policyVars, asking, cursor, worldVars>>
    BY <1>5 DEF SetClickGeo
  <2> QED
    BY <2>1, <2>2
    DEF EnrichmentTypes, EnrichmentTypeOK, KeptAnswers, lookupVars, policyVars, worldVars
<1> QED
  BY <1>2, <1>3, <1>4, <1>5

LEMMA BackfillLookupTypes ==
  ASSUME EnrichmentTypes, BackfillLookup \/ BackfillAnswered PROVE EnrichmentTypes'
<1> DEFINE a == address[cursor]
<1>1. /\ jobAt = "lookup" /\ a \in Addresses /\ answers[a].known \in BOOLEAN
      /\ todo \in SUBSET Ids
  BY DEF EnrichmentTypes, EnrichmentTypeOK, Answer, BackfillLookup, BackfillAnswered
<1>2. "backfill" \in Threads
  BY DEF Threads
<1>3. ASSUME NEW known, Got(known)
      PROVE  /\ jobAt' \in {"store", "rows"} /\ todo' \in SUBSET Ids
             /\ cursor' = cursor
  BY <1>1, <1>3 DEF Got
<1>4. CASE BackfillLookup
  <2>1. /\ allowed' \in BOOLEAN /\ readAgo' \in 0..MaxReadAgo
        /\ faults' \in 0..MaxFaults
    BY <1>4, RefreshTypes DEF BackfillLookup, EnrichmentTypes
  <2>2. /\ jobAt' \in {"lookup", "store", "rows"} /\ todo' \in SUBSET Ids
        /\ cursor' = cursor
        /\ asking' \in [Threads -> [on : BOOLEAN, had : BOOLEAN, ticked : BOOLEAN]]
    <3>1. CASE Got(answers[a].known) /\ UNCHANGED asking
      BY <3>1, <1>3 DEF EnrichmentTypes, EnrichmentTypeOK
    <3>2. CASE Ask("backfill", a) /\ UNCHANGED jobVars
      BY <3>2, <1>1, <1>2, AskTypes DEF EnrichmentTypes, jobVars
    <3> QED
      BY <1>4, <3>1, <3>2 DEF BackfillLookup
  <2>3. UNCHANGED <<clickVars, lookupVars, worldVars>>
    BY <1>4 DEF BackfillLookup
  <2> QED
    BY <1>1, <2>1, <2>2, <2>3
    DEF EnrichmentTypes, EnrichmentTypeOK, KeptAnswers, clickVars, lookupVars, worldVars
<1>5. CASE BackfillAnswered
  <2>1. PICK known \in BOOLEAN : Responds("backfill", a, known) /\ Got(known)
    BY <1>5 DEF BackfillAnswered
  <2>2. /\ answers' \in [Addresses -> Answer]
        /\ IsFiniteSet(KeptAnswers') /\ Cardinality(KeptAnswers') <= CacheSize
        /\ down' \in 0..DownTTL
        /\ asking' \in [Threads -> [on : BOOLEAN, had : BOOLEAN, ticked : BOOLEAN]]
    BY <2>1, <1>1, <1>2, RespondsTypes
  <2>3. UNCHANGED <<clickVars, policyVars, worldVars, faults>>
    BY <1>5 DEF BackfillAnswered
  <2> QED
    BY <1>3, <2>1, <2>2, <2>3
    DEF EnrichmentTypes, EnrichmentTypeOK, KeptAnswers, clickVars, policyVars, worldVars
<1> QED
  BY <1>4, <1>5

LEMMA ElapseTypes ==
  ASSUME EnrichmentTypes, Elapse PROVE EnrichmentTypes'
<1>1. answers' \in [Addresses -> Answer]
  <2> SUFFICES ASSUME NEW b \in Addresses PROVE answers'[b] \in Answer
    BY DEF Elapse
  <2>1. /\ answers[b].left \in 0..AnswerTTL \cup 0..FailTTL
        /\ answers[b] \in Answer
    BY DEF EnrichmentTypes, EnrichmentTypeOK, Answer
  <2>2. (IF answers[b].left > 0 THEN answers[b].left - 1 ELSE 0)
          \in 0..AnswerTTL \cup 0..FailTTL
    BY <2>1, Lifetimes
  <2> QED
    BY <2>1, <2>2 DEF Elapse, Answer
<1>2. KeptAnswers' = KeptAnswers
  BY DEF KeptAnswers, Elapse, EnrichmentTypes, EnrichmentTypeOK, Answer
<1>3. asking' \in [Threads -> [on : BOOLEAN, had : BOOLEAN, ticked : BOOLEAN]]
  BY DEF Elapse, EnrichmentTypes, EnrichmentTypeOK
<1>4. /\ down' \in 0..DownTTL /\ readAgo' \in 0..MaxReadAgo
      /\ offFor' \in 0..MaxOffFor
  BY Lifetimes DEF Elapse, EnrichmentTypes, EnrichmentTypeOK, MaxReadAgo, MaxOffFor
<1>5. UNCHANGED <<clickVars, allowed, jobVars, switch, serviceUp, faults>>
  BY DEF Elapse
<1> QED
  BY <1>1, <1>2, <1>3, <1>4, <1>5
  DEF EnrichmentTypes, EnrichmentTypeOK, KeptAnswers, clickVars, jobVars

LEMMA WorldTypes ==
  ASSUME EnrichmentTypes, Toggle \/ \E i \in Ids : Outlive(i)
  PROVE  EnrichmentTypes'
<1>1. CASE Toggle
  <2>1. /\ switch' \in BOOLEAN /\ serviceUp' \in BOOLEAN /\ faults' \in 0..MaxFaults
        /\ offFor' \in 0..MaxOffFor
    <3>1. EnrichmentTypeOK /\ Fault
      BY <1>1 DEF Toggle, EnrichmentTypes
    <3>2. 0 \in 0..MaxOffFor
      BY Lifetimes DEF MaxOffFor
    <3>3. \/ switch' = ~switch /\ offFor' = 0 /\ serviceUp' = serviceUp
          \/ serviceUp' = ~serviceUp /\ switch' = switch /\ offFor' = offFor
      BY <1>1 DEF Toggle
    <3>4. faults' \in 0..MaxFaults
      BY <3>1, FaultTypes
    <3> QED
      BY <3>1, <3>2, <3>3, <3>4 DEF EnrichmentTypeOK
  <2>2. UNCHANGED <<clickVars, lookupVars, policyVars, asking, jobVars>>
    BY <1>1 DEF Toggle
  <2> QED
    BY <2>1, <2>2
    DEF EnrichmentTypes, EnrichmentTypeOK, KeptAnswers, clickVars, lookupVars,
        policyVars, jobVars
<1>2. ASSUME NEW i \in Ids, Outlive(i) PROVE EnrichmentTypes'
  BY <1>2
  DEF Outlive, EnrichmentTypes, EnrichmentTypeOK, KeptAnswers, lookupVars,
      policyVars, jobVars, worldVars
<1> QED
  BY <1>1, <1>2

LEMMA EnrichmentTypesNext ==
  ASSUME EnrichmentTypes, [EnrichmentNext]_enrichmentVars PROVE EnrichmentTypes'
<1>1. CASE UNCHANGED enrichmentVars
  BY <1>1
  DEF EnrichmentTypes, EnrichmentTypeOK, KeptAnswers, enrichmentVars, clickVars,
      lookupVars, policyVars, jobVars, worldVars
<1> QED
  BY <1>1, EnrichTypes, RunTypes, BackfillLookupTypes, ElapseTypes, WorldTypes
  DEF EnrichmentNext, BackfillStep

\* Clicks, answers, settings and requests keep their types; the cache of
\* answers never outgrows its size (store in iplookup.go).
THEOREM EnrichmentTypeCorrect == EnrichmentSpec => []EnrichmentTypeOK
<1>1. EnrichmentTypes => EnrichmentTypeOK
  BY DEF EnrichmentTypes
<1> QED
  BY <1>1, EnrichmentTypesInit, EnrichmentTypesNext, PTL DEF EnrichmentSpec

-----------------------------------------------------------------------------
(* The switch of the service is honoured: what was read of it is at most as *)
(* much out of date as the reading is old, and a request lasts a tick.     *)

SwitchIsRead ==
  /\ switch => offFor = 0
  /\ allowed /\ readAgo <= SettingsTTL => offFor <= readAgo

RequestsAreShort ==
  \A t \in Threads :
    asking[t].on => offFor <= SettingsTTL + (IF asking[t].ticked THEN 1 ELSE 0)

SwitchInv == SwitchIsRead /\ RequestsAreShort

LEMMA SwitchInit == EnrichmentInit => SwitchInv
BY Lifetimes
DEF EnrichmentInit, SwitchInv, SwitchIsRead, RequestsAreShort, Idle, MaxReadAgo

\* A reading is the setting of the moment, or counts as "off".
LEMMA RefreshKeeps ==
  ASSUME EnrichmentTypes, SwitchIsRead, Refresh, UNCHANGED worldVars
  PROVE  SwitchIsRead' /\ readAgo' <= SettingsTTL
<1>1. switch' = switch /\ offFor' = offFor
  BY DEF worldVars
<1>2. readAgo \in Nat /\ SettingsTTL \in Nat /\ offFor \in Nat
  BY Lifetimes DEF EnrichmentTypes, EnrichmentTypeOK, MaxReadAgo, MaxOffFor
<1>3. CASE readAgo <= SettingsTTL
  BY <1>1, <1>2, <1>3 DEF Refresh, policyVars, SwitchIsRead
<1>4. CASE ~(readAgo <= SettingsTTL)
  <2>1. readAgo' = 0 /\ (allowed' = switch \/ allowed' = FALSE)
    BY <1>4, Zenon DEF Refresh
  <2>2. allowed' => offFor = 0
    BY <2>1 DEF SwitchIsRead
  <2> QED
    BY <1>1, <1>2, <2>1, <2>2 DEF SwitchIsRead
<1> QED
  BY <1>3, <1>4

\* A request starts only after a reading that allows it.
LEMMA AskKeeps ==
  ASSUME EnrichmentTypes, SwitchInv, NEW t \in Threads, NEW a, Refresh,
         ~Answered(a), Ask(t, a), UNCHANGED worldVars
  PROVE  SwitchInv'
<1>1. SwitchIsRead' /\ readAgo' <= SettingsTTL /\ allowed'
  BY RefreshKeeps DEF SwitchInv, Answered, Available
<1>2. offFor' <= readAgo' /\ offFor' = offFor
  BY <1>1 DEF SwitchIsRead, worldVars
<1>3. /\ offFor \in Nat /\ SettingsTTL \in Nat /\ readAgo' \in Nat
      /\ asking \in [Threads -> [on : BOOLEAN, had : BOOLEAN, ticked : BOOLEAN]]
  BY Lifetimes, RefreshTypes DEF EnrichmentTypes, EnrichmentTypeOK, MaxOffFor
<1>4. offFor' <= SettingsTTL
  BY <1>1, <1>2, <1>3
<1>5. ASSUME NEW r \in Threads, asking'[r].on
      PROVE  offFor' <= SettingsTTL + (IF asking'[r].ticked THEN 1 ELSE 0)
  BY <1>2, <1>3, <1>4
<1> QED
  BY <1>1, <1>5 DEF SwitchInv, RequestsAreShort

LEMMA RespondsKeeps ==
  ASSUME EnrichmentTypes, SwitchInv, NEW t \in Threads, NEW a, NEW known,
         Responds(t, a, known), UNCHANGED <<policyVars, worldVars>>
  PROVE  SwitchInv'
<1>1. \A r \in Threads : asking'[r].on => asking'[r] = asking[r]
  BY DEF Responds, Idle, EnrichmentTypes, EnrichmentTypeOK
<1>2. UNCHANGED <<switch, offFor, allowed, readAgo>>
  BY DEF policyVars, worldVars
<1> QED
  BY <1>1, <1>2 DEF SwitchInv, SwitchIsRead, RequestsAreShort

\* A step that reads the setting at most and leaves the requests alone.
LEMMA QuietKeeps ==
  ASSUME EnrichmentTypes, SwitchInv, UNCHANGED <<asking, worldVars>>,
         Refresh \/ UNCHANGED policyVars
  PROVE  SwitchInv'
<1>1. SwitchIsRead'
  BY RefreshKeeps DEF SwitchInv, SwitchIsRead, policyVars, worldVars
<1>2. RequestsAreShort'
  BY DEF SwitchInv, RequestsAreShort, worldVars
<1> QED
  BY <1>1, <1>2 DEF SwitchInv

LEMMA ElapseKeeps ==
  ASSUME EnrichmentTypes, SwitchInv, Elapse PROVE SwitchInv'
<1>1. /\ offFor \in Nat /\ SettingsTTL \in Nat /\ readAgo \in 0..MaxReadAgo
      /\ MaxReadAgo = SettingsTTL + 1
  BY Lifetimes DEF EnrichmentTypes, EnrichmentTypeOK, MaxReadAgo, MaxOffFor
<1>2. offFor' = offFor \/ (~switch /\ offFor' = offFor + 1)
  BY DEF Elapse
<1>3. SwitchIsRead'
  <2>1. switch' = switch /\ allowed' = allowed
    BY DEF Elapse
  <2>2. readAgo' <= SettingsTTL => readAgo' = readAgo + 1 /\ readAgo <= SettingsTTL
    BY <1>1 DEF Elapse
  <2> QED
    BY <1>1, <1>2, <2>1, <2>2 DEF SwitchInv, SwitchIsRead
<1>4. RequestsAreShort'
  <2> SUFFICES ASSUME NEW t \in Threads, asking'[t].on
               PROVE  offFor' <= SettingsTTL + (IF asking'[t].ticked THEN 1 ELSE 0)
    BY DEF RequestsAreShort
  <2>1. asking[t].on /\ ~asking[t].ticked /\ asking'[t].ticked
    BY DEF Elapse, EnrichmentTypes, EnrichmentTypeOK
  <2>2. offFor <= SettingsTTL
    BY <1>1, <2>1 DEF SwitchInv, RequestsAreShort
  <2> QED
    BY <1>1, <1>2, <2>1, <2>2
<1> QED
  BY <1>3, <1>4 DEF SwitchInv

LEMMA SwitchNext ==
  ASSUME EnrichmentTypes, SwitchInv, [EnrichmentNext]_enrichmentVars
  PROVE  SwitchInv'
<1>1. CASE UNCHANGED enrichmentVars
  BY <1>1, QuietKeeps DEF enrichmentVars
<1>2. "writer" \in Threads /\ "backfill" \in Threads
  BY DEF Threads
<1>3. CASE Enrich
  <2> DEFINE a == address[clicks + 1]
  <2>1. Refresh /\ UNCHANGED worldVars
    BY <1>3 DEF Enrich
  <2>2. CASE UNCHANGED asking
    BY <2>1, <2>2, QuietKeeps
  <2>3. CASE ~Answered(a) /\ Ask("writer", a)
    BY <1>2, <2>1, <2>3, AskKeeps
  <2> QED
    BY <1>3, <2>2, <2>3 DEF Enrich
<1>4. CASE EnrichAnswered
  BY <1>2, <1>4, RespondsKeeps DEF EnrichAnswered
<1>5. CASE BackfillLookup
  <2> DEFINE a == address[cursor]
  <2>1. Refresh /\ UNCHANGED worldVars
    BY <1>5 DEF BackfillLookup
  <2>2. CASE UNCHANGED asking
    BY <2>1, <2>2, QuietKeeps
  <2>3. CASE ~Answered(a) /\ Ask("backfill", a)
    BY <1>2, <2>1, <2>3, AskKeeps
  <2> QED
    BY <1>5, <2>2, <2>3 DEF BackfillLookup
<1>6. CASE BackfillAnswered
  BY <1>2, <1>6, RespondsKeeps DEF BackfillAnswered
<1>7. CASE StartRun \/ NextRow \/ EndRun \/ SetClickGeo \/ \E i \in Ids : Outlive(i)
  BY <1>7, QuietKeeps DEF StartRun, NextRow, EndRun, SetClickGeo, Outlive
<1>8. CASE Toggle
  <2>1. UNCHANGED <<allowed, readAgo, asking>>
    BY <1>8 DEF Toggle, policyVars
  <2>2. (switch' = switch /\ offFor' = offFor) \/ offFor' = 0
    BY <1>8 DEF Toggle
  <2>3. readAgo \in Nat /\ SettingsTTL \in Nat
    BY Lifetimes DEF EnrichmentTypes, EnrichmentTypeOK, MaxReadAgo
  <2> QED
    BY <2>1, <2>2, <2>3 DEF SwitchInv, SwitchIsRead, RequestsAreShort
<1>9. CASE Elapse
  BY <1>9, ElapseKeeps
<1> QED
  BY <1>1, <1>3, <1>4, <1>5, <1>6, <1>7, <1>8, <1>9
  DEF EnrichmentNext, BackfillStep

\* Once the service is switched off, no request of a visitor's address is at
\* the service later than a reading of the settings and a request last
\* (available in iplookup.go).
THEOREM SwitchOffIsHonoured == EnrichmentSpec => []SwitchIsHonoured
<1>1. EnrichmentTypes /\ SwitchInv => SwitchIsHonoured
  <2>1. EnrichmentTypes => SettingsTTL \in Nat /\ offFor \in Nat
    BY Lifetimes DEF EnrichmentTypes, EnrichmentTypeOK, MaxOffFor
  <2> QED
    BY <2>1 DEF SwitchInv, RequestsAreShort, SwitchIsHonoured
<1> QED
  BY <1>1, EnrichmentTypesInit, EnrichmentTypesNext, SwitchInit, SwitchNext, PTL
  DEF EnrichmentSpec

-----------------------------------------------------------------------------
(* Credentials: type correctness, and where keys and owners come from.     *)

\* A key that can be used belongs to an account, and is not over.
KeysInv ==
  \A k \in ApiKeys :
    /\ apiKeys[k].is = "live" => apiKeys[k].owner \in Owners
    /\ k \in over => apiKeys[k].is \in {"revoked", "gone"} \/ apiKeys[k].expired

CallersInv ==
  \A c \in Callers :
    /\ calls[c].at # "idle" => calls[c].owner \in Owners
    /\ calls[c].at = "revoke" => calls[c].about \in ApiKeys

CredentialsTypes == CredentialsTypeOK /\ KeysInv /\ CallersInv

LEMMA NoCallType == NoCall \in Call /\ Unmade \in KeyRow /\ Nobodys \in Account
BY DEF NoCall, Call, Unmade, KeyRow, Scopes, Nobodys, Account

LEMMA CredentialsTypesInit == CredentialsInit => CredentialsTypes
<1> SUFFICES ASSUME CredentialsInit PROVE CredentialsTypes
  OBVIOUS
<1>1. CredentialsTypeOK
  BY NoCallType DEF CredentialsInit, CredentialsTypeOK, Account
<1>2. KeysInv
  BY DEF CredentialsInit, KeysInv, Unmade
<1>3. CallersInv
  BY DEF CredentialsInit, CallersInv, NoCall
<1> QED
  BY <1>1, <1>2, <1>3 DEF CredentialsTypes

LEMMA ObserveTypes ==
  ASSUME CredentialsTypeOK, Observe
  PROVE  standing' \in [Callers -> SUBSET {"key", "active", "admin"}]
BY DEF CredentialsTypeOK, Observe, Facts

\* Steps of a request that change no key and no account.
CallStep(c) ==
  \/ ReadOwner(c) \/ CallEnds(c)
  \/ \E u \in Owners : CallWithSession(c, u)
  \/ \E to \in {"links", "admin", "keys"} : PassWrapper(c, to)
  \/ \E k \in ApiKeys : CallWithKey(c, k) \/ FindAPIKey(c, k)

\* What the request of c knows after such a step.
LEMMA CallStepTypes ==
  ASSUME CredentialsTypes, NEW c \in Callers, CallStep(c)
  PROVE  /\ calls' = [calls EXCEPT ![c] = calls'[c]] /\ calls'[c] \in Call
         /\ calls'[c].at # "idle" => calls'[c].owner \in Owners
         /\ calls'[c].at = "revoke" => calls'[c].about \in ApiKeys
         /\ UNCHANGED <<apiKeys, accounts, over>>
<1>1. /\ calls \in [Callers -> Call] /\ calls[c] \in Call
      /\ apiKeys \in [ApiKeys -> KeyRow] /\ accounts \in [Owners -> Account]
      /\ calls[c].at # "idle" => calls[c].owner \in Owners
  BY DEF CredentialsTypes, CredentialsTypeOK, CallersInv
<1>2. CASE ReadOwner(c)
  <2>1. accounts[calls[c].owner] \in Account
    BY <1>1, <1>2 DEF ReadOwner
  <2> QED
    BY <1>1, <1>2, <2>1, NoCallType DEF ReadOwner, Respond, Call, NoCall
<1>3. CASE CallEnds(c)
  BY <1>1, <1>3, NoCallType DEF CallEnds, Respond, NoCall
<1>4. ASSUME NEW u \in Owners, CallWithSession(c, u)
      PROVE  /\ calls'[c].at = "owner" /\ calls'[c].owner = u /\ calls'[c] \in Call
             /\ calls' = [calls EXCEPT ![c] = calls'[c]]
  BY <1>1, <1>4, NoCallType DEF CallWithSession, Call, NoCall
<1>5. ASSUME NEW to \in {"links", "admin", "keys"}, PassWrapper(c, to)
      PROVE  /\ calls'[c].at = to /\ calls'[c].owner = calls[c].owner
             /\ calls[c].at = "enter" /\ calls'[c] \in Call
             /\ calls' = [calls EXCEPT ![c] = calls'[c]]
  BY <1>1, <1>5, NoCallType DEF PassWrapper, Call
<1>6. ASSUME NEW k \in ApiKeys, CallWithKey(c, k)
      PROVE  /\ calls'[c].at = "owner" /\ calls'[c].owner \in Owners
             /\ calls'[c] \in Call /\ calls' = [calls EXCEPT ![c] = calls'[c]]
  <2>1. apiKeys[k] \in KeyRow /\ apiKeys[k].owner \in Owners
    BY <1>1, <1>6 DEF CallWithKey, CredentialsTypes, KeysInv
  <2> QED
    BY <1>1, <1>6, <2>1, NoCallType DEF CallWithKey, Call, NoCall
<1>7. ASSUME NEW k \in ApiKeys, FindAPIKey(c, k)
      PROVE  /\ calls'[c].at = "revoke" /\ calls'[c].owner = calls[c].owner
             /\ calls'[c].about = k /\ calls[c].at = "keys"
             /\ calls'[c] \in Call /\ calls' = [calls EXCEPT ![c] = calls'[c]]
  BY <1>1, <1>7 DEF FindAPIKey, Call
<1>8. UNCHANGED <<apiKeys, accounts, over>>
  BY DEF CallStep, ReadOwner, CallEnds, CallWithSession, PassWrapper, CallWithKey,
         FindAPIKey
<1> QED
  BY <1>1, <1>2, <1>3, <1>4, <1>5, <1>6, <1>7, <1>8 DEF CallStep

LEMMA TouchTypes ==
  ASSUME CredentialsTypes, NEW c \in Callers, TouchAPIKey(c)
  PROVE  /\ calls' = [calls EXCEPT ![c].at = "enter"]
         /\ apiKeys' \in [ApiKeys -> KeyRow]
         /\ \A k \in ApiKeys : /\ apiKeys'[k].is = apiKeys[k].is
                               /\ apiKeys'[k].owner = apiKeys[k].owner
                               /\ apiKeys'[k].expired = apiKeys[k].expired
         /\ UNCHANGED <<accounts, over>>
<1>1. apiKeys \in [ApiKeys -> KeyRow]
  BY DEF CredentialsTypes, CredentialsTypeOK
<1>2. ASSUME NEW b, apiKeys' = [apiKeys EXCEPT ![b].used = TRUE]
      PROVE  /\ apiKeys' \in [ApiKeys -> KeyRow]
             /\ \A k \in ApiKeys : /\ apiKeys'[k].is = apiKeys[k].is
                                   /\ apiKeys'[k].owner = apiKeys[k].owner
                                   /\ apiKeys'[k].expired = apiKeys[k].expired
  BY <1>1, <1>2 DEF KeyRow
<1>3. CASE apiKeys' = [apiKeys EXCEPT ![calls[c].by].used = TRUE]
  <2>1. PICK b : b = calls[c].by
    OBVIOUS
  <2>2. apiKeys' = [apiKeys EXCEPT ![b].used = TRUE]
    BY <1>3, <2>1
  <2> QED
    BY <1>2, <2>2 DEF TouchAPIKey
<1>4. CASE UNCHANGED apiKeys
  BY <1>1, <1>4 DEF TouchAPIKey
<1> QED
  BY <1>3, <1>4 DEF TouchAPIKey, NoteUse

\* Only who is let in can make a key, and only his own.
LEMMA CreateTypes ==
  ASSUME CredentialsTypes, NEW c \in Callers, NEW k \in ApiKeys, NEW scope \in Scopes,
         CreateAPIKey(c, k, scope)
  PROVE  /\ apiKeys' \in [ApiKeys -> KeyRow] /\ KeysInv'
         /\ calls' = [calls EXCEPT ![c] = NoCall]
         /\ UNCHANGED <<accounts, over>>
<1>1. calls[c].owner \in Owners
  BY DEF CreateAPIKey, CredentialsTypes, CallersInv
<1>2. apiKeys \in [ApiKeys -> KeyRow] /\ apiKeys[k] = Unmade /\ over' = over
  BY DEF CreateAPIKey, CredentialsTypes, CredentialsTypeOK
<1>3. apiKeys' = [apiKeys EXCEPT ![k] =
                    [@ EXCEPT !.is = "live", !.scope = scope, !.owner = calls[c].owner]]
  BY DEF CreateAPIKey
<1>4. k \notin over
  BY <1>2 DEF CredentialsTypes, KeysInv, Unmade
<1>5. apiKeys' \in [ApiKeys -> KeyRow]
  BY <1>1, <1>2, <1>3 DEF KeyRow
<1>6. apiKeys'[k].owner = calls[c].owner
  BY <1>2, <1>3, NoCallType DEF KeyRow
<1>7. KeysInv'
  BY <1>1, <1>2, <1>3, <1>4, <1>6 DEF CredentialsTypes, KeysInv
<1> QED
  BY <1>5, <1>7 DEF CreateAPIKey, Respond

LEMMA RevokeTypes ==
  ASSUME CredentialsTypes, NEW c \in Callers, RevokeAPIKey(c)
  PROVE  /\ apiKeys' \in [ApiKeys -> KeyRow] /\ KeysInv' /\ over' \in SUBSET ApiKeys
         /\ calls' = [calls EXCEPT ![c] = NoCall] /\ over \subseteq over'
         /\ UNCHANGED accounts
<1> DEFINE k == calls[c].about
<1>1. k \in ApiKeys /\ apiKeys \in [ApiKeys -> KeyRow] /\ over \in SUBSET ApiKeys
  BY DEF RevokeAPIKey, CredentialsTypes, CredentialsTypeOK, CallersInv
<1>2. over' = over \cup {k}
  BY DEF RevokeAPIKey
<1>3. CASE apiKeys[k].is = "gone"
  BY <1>1, <1>2, <1>3 DEF RevokeAPIKey, Respond, CredentialsTypes, KeysInv
<1>4. CASE apiKeys[k].is # "gone"
  <2>1. apiKeys' = [apiKeys EXCEPT ![k].is = "revoked"]
    BY <1>4 DEF RevokeAPIKey
  <2>2. apiKeys' \in [ApiKeys -> KeyRow]
    BY <1>1, <2>1 DEF KeyRow
  <2>3. KeysInv'
    BY <1>1, <1>2, <2>1 DEF CredentialsTypes, KeysInv, KeyRow
  <2> QED
    BY <1>1, <1>2, <2>2, <2>3 DEF RevokeAPIKey, Respond
<1> QED
  BY <1>3, <1>4

\* What happens to keys and accounts by themselves.
LEMMA TableTypes ==
  ASSUME CredentialsTypes,
         \/ \E k \in ApiKeys : Expire(k)
         \/ \E u \in Owners : EditAccount(u) \/ DeleteAccount(u)
  PROVE  /\ apiKeys' \in [ApiKeys -> KeyRow] /\ KeysInv' /\ over' \in SUBSET ApiKeys
         /\ accounts' \in [Owners -> Account] /\ over \subseteq over'
         /\ UNCHANGED calls
<1>1. /\ apiKeys \in [ApiKeys -> KeyRow] /\ over \in SUBSET ApiKeys
      /\ accounts \in [Owners -> Account] /\ KeysInv
  BY DEF CredentialsTypes, CredentialsTypeOK
<1>2. ASSUME NEW k \in ApiKeys, Expire(k)
      PROVE  /\ apiKeys' \in [ApiKeys -> KeyRow] /\ KeysInv' /\ over' \in SUBSET ApiKeys
             /\ accounts' \in [Owners -> Account] /\ over \subseteq over'
             /\ UNCHANGED calls
  BY <1>1, <1>2 DEF Expire, KeysInv, KeyRow
<1>3. ASSUME NEW u \in Owners, EditAccount(u)
      PROVE  /\ accounts' \in [Owners -> Account] /\ UNCHANGED <<apiKeys, over, calls>>
  BY <1>1, <1>3 DEF EditAccount, Account
<1>4. ASSUME NEW u \in Owners, DeleteAccount(u)
      PROVE  /\ apiKeys' \in [ApiKeys -> KeyRow] /\ KeysInv' /\ over' \in SUBSET ApiKeys
             /\ accounts' \in [Owners -> Account] /\ over \subseteq over'
             /\ UNCHANGED calls
  <2>1. apiKeys' = [k \in ApiKeys |-> IF apiKeys[k].owner = u
                                      THEN [apiKeys[k] EXCEPT !.is = "gone"]
                                      ELSE apiKeys[k]]
    BY <1>4 DEF DeleteAccount
  <2>2. over' = over \cup {k \in ApiKeys : apiKeys[k].owner = u}
    BY <1>4 DEF DeleteAccount
  <2>3. apiKeys' \in [ApiKeys -> KeyRow]
    BY <1>1, <2>1 DEF KeyRow
  <2>4. KeysInv'
    BY <1>1, <2>1, <2>2 DEF KeysInv, KeyRow
  <2>5. accounts' \in [Owners -> Account] /\ UNCHANGED calls
    BY <1>1, <1>4, NoCallType DEF DeleteAccount
  <2> QED
    BY <1>1, <2>2, <2>3, <2>4, <2>5
<1> QED
  BY <1>1, <1>2, <1>3, <1>4 DEF KeysInv

LEMMA CredentialsTypesNext ==
  ASSUME CredentialsTypes, [CredentialsNext]_credentialsVars
  PROVE  CredentialsTypes'
<1>1. CASE UNCHANGED credentialsVars
  BY <1>1 DEF CredentialsTypes, CredentialsTypeOK, KeysInv, CallersInv, credentialsVars
<1>2. CASE CredentialsNext
  <2>1. standing' \in [Callers -> SUBSET {"key", "active", "admin"}]
    BY <1>2, ObserveTypes DEF CredentialsNext, CredentialsTypes
  <2>2. /\ calls \in [Callers -> Call] /\ apiKeys \in [ApiKeys -> KeyRow]
        /\ accounts \in [Owners -> Account] /\ over \in SUBSET ApiKeys
        /\ KeysInv /\ CallersInv
    BY DEF CredentialsTypes, CredentialsTypeOK
  <2>3. ASSUME NEW c \in Callers, CallStep(c) PROVE CredentialsTypes'
    <3>1. /\ calls' = [calls EXCEPT ![c] = calls'[c]] /\ calls'[c] \in Call
          /\ calls'[c].at # "idle" => calls'[c].owner \in Owners
          /\ calls'[c].at = "revoke" => calls'[c].about \in ApiKeys
          /\ UNCHANGED <<apiKeys, accounts, over>>
      BY <2>3, CallStepTypes
    <3>2. calls' \in [Callers -> Call] /\ CallersInv'
      BY <2>2, <3>1 DEF CallersInv
    <3> QED
      BY <2>1, <2>2, <3>1, <3>2 DEF CredentialsTypes, CredentialsTypeOK, KeysInv
  <2>4. ASSUME NEW c \in Callers, TouchAPIKey(c) PROVE CredentialsTypes'
    <3>1. calls' \in [Callers -> Call] /\ CallersInv'
      BY <2>2, <2>4, TouchTypes DEF CallersInv, Call, TouchAPIKey
    <3>2. KeysInv'
      BY <2>2, <2>4, TouchTypes DEF KeysInv
    <3> QED
      BY <2>1, <2>2, <2>4, <3>1, <3>2, TouchTypes DEF CredentialsTypes, CredentialsTypeOK
  <2>5. ASSUME NEW c \in Callers, calls' = [calls EXCEPT ![c] = NoCall]
        PROVE  calls' \in [Callers -> Call] /\ CallersInv'
    BY <2>2, <2>5, NoCallType DEF CallersInv, NoCall
  <2>6. ASSUME NEW c \in Callers, NEW k \in ApiKeys, NEW scope \in Scopes,
               CreateAPIKey(c, k, scope)
        PROVE  CredentialsTypes'
    BY <2>1, <2>2, <2>5, <2>6, CreateTypes DEF CredentialsTypes, CredentialsTypeOK
  <2>7. ASSUME NEW c \in Callers, RevokeAPIKey(c) PROVE CredentialsTypes'
    BY <2>1, <2>2, <2>5, <2>7, RevokeTypes DEF CredentialsTypes, CredentialsTypeOK
  <2>8. ASSUME \/ \E k \in ApiKeys : Expire(k)
               \/ \E u \in Owners : EditAccount(u) \/ DeleteAccount(u)
        PROVE  CredentialsTypes'
    BY <2>1, <2>2, <2>8, TableTypes
    DEF CredentialsTypes, CredentialsTypeOK, CallersInv
  <2> QED
    BY <1>2, <2>3, <2>4, <2>6, <2>7, <2>8
    DEF CredentialsNext, CredentialsStep, CallStep
<1> QED
  BY <1>1, <1>2

\* Keys, accounts and what requests know of them keep their types
\* (internal/store/apikeys.go, resolveIdentity).
THEOREM CredentialsTypeCorrect == CredentialsSpec => []CredentialsTypeOK
<1>1. CredentialsTypes => CredentialsTypeOK
  BY DEF CredentialsTypes
<1> QED
  BY <1>1, CredentialsTypesInit, CredentialsTypesNext, PTL DEF CredentialsSpec

-----------------------------------------------------------------------------
(* What a request has read was true when it read it.                       *)

\* The standing of the request of c covers what it goes by.
CallAuthority(c) ==
  /\ calls[c].at # "idle" => "key" \in standing[c]
  /\ calls[c].at \notin {"idle", "owner"} =>
       /\ "active" \in standing[c]
       /\ calls[c].user.admin => "admin" \in standing[c]
  /\ calls[c].at = "admin" => calls[c].user.admin

AuthorityInv == \A c \in Callers : CallAuthority(c)

\* What is true after a step of a request in progress is noted.
LEMMA ObserveNotes ==
  ASSUME CredentialsTypes', Observe, NEW c \in Callers, calls'[c].at # "idle"
  PROVE  /\ standing[c] \subseteq standing'[c]
         /\ calls'[c].by \notin over' => "key" \in standing'[c]
         /\ accounts'[calls'[c].owner].is = "active" => "active" \in standing'[c]
         /\ accounts'[calls'[c].owner].admin => "admin" \in standing'[c]
BY DEF Observe, Facts

\* Whose request does nothing, or forgets nothing it has read.
LEMMA StandingKeeps ==
  ASSUME CredentialsTypes', Observe, NEW c \in Callers, CallAuthority(c),
         calls'[c].at # "idle" => calls[c].at # "idle" /\ calls'[c].user = calls[c].user,
         calls[c].at = "owner" => calls'[c].at \in {"owner", "idle"},
         calls'[c].at = "admin" => calls[c].at = "admin" \/ calls[c].user.admin
  PROVE  CallAuthority(c)'
<1>1. CASE calls'[c].at = "idle"
  BY <1>1 DEF CallAuthority
<1>2. CASE calls'[c].at # "idle"
  <2>1. standing[c] \subseteq standing'[c]
    BY <1>2, ObserveNotes
  <2> QED
    BY <1>2, <2>1 DEF CallAuthority
<1> QED
  BY <1>1, <1>2

LEMMA AuthorityInit == CredentialsInit => AuthorityInv
BY DEF CredentialsInit, AuthorityInv, CallAuthority, NoCall

\* The steps of the request itself.
LEMMA CallKeeps ==
  ASSUME CredentialsTypes, CredentialsTypes', AuthorityInv, Observe,
         NEW c \in Callers, CallStep(c) \/ TouchAPIKey(c)
  PROVE  CallAuthority(c)'
<1>1. /\ calls \in [Callers -> Call] /\ CallAuthority(c)
      /\ over' \in SUBSET ApiKeys
  BY DEF CredentialsTypes, CredentialsTypeOK, AuthorityInv
<1>2. CASE ReadOwner(c)
  <2>1. CASE accounts[calls[c].owner].is = "active"
    <3>1. /\ calls'[c].user = accounts[calls[c].owner]
          /\ calls'[c].at \in {"enter", "touch"}
          /\ calls'[c].owner = calls[c].owner /\ accounts' = accounts
      BY <1>1, <1>2, <2>1 DEF ReadOwner, Call
    <3>2. /\ standing[c] \subseteq standing'[c] /\ "active" \in standing'[c]
          /\ accounts[calls[c].owner].admin => "admin" \in standing'[c]
      BY <2>1, <3>1, ObserveNotes
    <3> QED
      BY <1>1, <1>2, <3>1, <3>2 DEF CallAuthority, ReadOwner
  <2>2. CASE accounts[calls[c].owner].is # "active"
    BY <1>1, <1>2, <2>2 DEF ReadOwner, Respond, CallAuthority, NoCall
  <2> QED
    BY <2>1, <2>2
<1>3. CASE CallEnds(c)
  BY <1>1, <1>3 DEF CallEnds, Respond, CallAuthority, NoCall
<1>4. ASSUME NEW u \in Owners, CallWithSession(c, u) PROVE CallAuthority(c)'
  <2>1. calls'[c].at = "owner" /\ calls'[c].by = Session
    BY <1>1, <1>4 DEF CallWithSession, NoCall
  <2>2. calls'[c].by \notin over'
    BY <1>1, <2>1, CredentialsAssumption
  <2> QED
    BY <2>1, <2>2, ObserveNotes DEF CallAuthority
<1>5. ASSUME NEW k \in ApiKeys, CallWithKey(c, k) PROVE CallAuthority(c)'
  <2>1. calls'[c].at = "owner" /\ calls'[c].by = k /\ over' = over
    BY <1>1, <1>5 DEF CallWithKey, NoCall
  <2>2. k \notin over
    BY <1>5 DEF CallWithKey, CredentialsTypes, KeysInv
  <2> QED
    BY <2>1, <2>2, ObserveNotes DEF CallAuthority
<1>6. ASSUME NEW to \in {"links", "admin", "keys"}, PassWrapper(c, to)
      PROVE  CallAuthority(c)'
  <2>1. /\ calls[c].at = "enter" /\ calls'[c].at = to /\ calls'[c].user = calls[c].user
        /\ to = "admin" => calls[c].user.admin
    BY <1>1, <1>6 DEF PassWrapper, Admits, Call
  <2> QED
    BY <1>1, <2>1, StandingKeeps
<1>7. ASSUME NEW k \in ApiKeys, FindAPIKey(c, k) PROVE CallAuthority(c)'
  <2>1. calls[c].at = "keys" /\ calls'[c].at = "revoke" /\ calls'[c].user = calls[c].user
    BY <1>1, <1>7 DEF FindAPIKey, Call
  <2> QED
    BY <1>1, <2>1, StandingKeeps
<1>8. CASE TouchAPIKey(c)
  <2>1. calls[c].at = "touch" /\ calls'[c].at = "enter" /\ calls'[c].user = calls[c].user
    BY <1>1, <1>8 DEF TouchAPIKey, Call
  <2> QED
    BY <1>1, <2>1, StandingKeeps
<1> QED
  BY <1>2, <1>3, <1>4, <1>5, <1>6, <1>7, <1>8 DEF CallStep

LEMMA AuthorityNext ==
  ASSUME CredentialsTypes, CredentialsTypes', AuthorityInv,
         [CredentialsNext]_credentialsVars
  PROVE  AuthorityInv'
<1>1. CASE UNCHANGED credentialsVars
  BY <1>1 DEF AuthorityInv, CallAuthority, credentialsVars
<1>2. CASE CredentialsNext
  <2>1. Observe /\ calls \in [Callers -> Call]
    BY <1>2 DEF CredentialsNext, CredentialsTypes, CredentialsTypeOK
  <2>2. ASSUME NEW d \in Callers, calls'[d] = calls[d] PROVE CallAuthority(d)'
    BY <2>1, <2>2, StandingKeeps DEF AuthorityInv
  <2>3. ASSUME NEW c \in Callers, CallStep(c) \/ TouchAPIKey(c) PROVE AuthorityInv'
    <3>1. \A d \in Callers \ {c} : calls'[d] = calls[d]
      BY <2>1, <2>3, CallStepTypes, TouchTypes
    <3> QED
      BY <2>1, <2>2, <2>3, <3>1, CallKeeps DEF AuthorityInv
  <2>4. ASSUME NEW c \in Callers, calls' = [calls EXCEPT ![c] = NoCall]
        PROVE  AuthorityInv'
    <3>1. CallAuthority(c)'
      BY <2>1, <2>4 DEF CallAuthority, NoCall
    <3> QED
      BY <2>1, <2>2, <2>4, <3>1 DEF AuthorityInv
  <2>5. ASSUME NEW c \in Callers, RevokeAPIKey(c) PROVE AuthorityInv'
    BY <2>4, <2>5, RevokeTypes
  <2>6. ASSUME NEW c \in Callers, NEW k \in ApiKeys, NEW scope \in Scopes,
               CreateAPIKey(c, k, scope)
        PROVE  AuthorityInv'
    BY <2>4, <2>6, CreateTypes
  <2>7. ASSUME \/ \E k \in ApiKeys : Expire(k)
               \/ \E u \in Owners : EditAccount(u) \/ DeleteAccount(u)
        PROVE  AuthorityInv'
    BY <2>2, <2>7, TableTypes DEF AuthorityInv
  <2> QED
    BY <1>2, <2>3, <2>5, <2>6, <2>7 DEF CredentialsNext, CredentialsStep, CallStep
<1> QED
  BY <1>1, <1>2

\* Whoever gets past a wrapper has a key or session that was good, and an
\* owner who was active, and an administrator where one is asked for, at some
\* moment since the request began (resolveIdentity, requireAdmin).
THEOREM AuthorityIsNeverOld == CredentialsSpec => []AuthorityIsCurrent
<1>1. AuthorityInv => AuthorityIsCurrent
  BY DEF AuthorityInv, CallAuthority, AuthorityIsCurrent
<1> QED
  BY <1>1, CredentialsTypesInit, CredentialsTypesNext, AuthorityInit, AuthorityNext, PTL
  DEF CredentialsSpec

-----------------------------------------------------------------------------
(* Buckets: type correctness.                                              *)

LEMMA BucketNumbers ==
  /\ Cost \in Nat /\ Cost >= 1 /\ Full \in Nat /\ Full >= Cost
  /\ MaxKeys \in Nat /\ Sample \in Nat /\ Sample >= 1 /\ Sample <= MaxKeys
  /\ IdleFor \in Nat /\ Forever \in Nat /\ Forever >= IdleFor /\ Forever >= Full
BY BucketsAssumption

LEMMA TokensRange ==
  ASSUME NEW b \in Bucket PROVE Tokens(b) \in 0..Full
BY BucketNumbers DEF Tokens, Bucket

LEMMA NoBucketType == NoBucket \in Bucket /\ ~NoBucket.kept /\ Tokens(NoBucket) = Full
BY BucketNumbers DEF NoBucket, Bucket, Tokens

LEMMA KeptIsFinite ==
  IsFiniteSet(Kept) /\ Cardinality(Kept) \in Nat /\ Kept \subseteq Clients
BY BucketsAssumption, FS_Subset, FS_CardinalityType DEF Kept

LEMMA TenthRange == Sample \div 10 \in Nat
BY BucketNumbers

\* What goes to make room: buckets that are kept, at least one of them; if they
\* are not all full again, a tenth of Sample buckets, all of them short.
LEMMA VictimsAre ==
  ASSUME BucketsTypeOK, NEW met \in kSubset(Sample, Kept), NEW gone \in Victims(met)
  PROVE  /\ gone \subseteq Kept /\ gone # {}
         /\ \/ \A j \in gone : Tokens(buckets[j]) = Full
            \/ /\ Cardinality(gone) = (Sample \div 10) + 1
               /\ \A j \in met : Tokens(buckets[j]) # Full
<1>1. met \subseteq Kept /\ Cardinality(met) = Sample
  BY DEF kSubset
<1>2. CASE Refilled(met) # {}
  BY <1>1, <1>2 DEF Victims, Refilled
<1>3. CASE Refilled(met) = {}
  <2>1. gone \subseteq met /\ Cardinality(gone) = Cardinality(met) \div 10 + 1
    BY <1>3 DEF Victims
  <2>2. Cardinality(gone) = (Sample \div 10) + 1
    BY <1>1, <2>1
  <2>3. gone # {}
    <3>1. Cardinality({}) = 0
      BY FS_EmptySet
    <3>2. Cardinality(gone) # 0
      BY <2>2, TenthRange
    <3> QED
      BY <3>1, <3>2
  <2>4. \A j \in met : Tokens(buckets[j]) # Full
    BY <1>3 DEF Refilled
  <2> QED
    BY <1>1, <2>1, <2>2, <2>3, <2>4
<1> QED
  BY <1>2, <1>3

\* Room is made for one more.
LEMMA RoomIsMade ==
  ASSUME BucketsTypeOK, NEW k \in Clients, NEW gone \in MakeRoom(k)
  PROVE  /\ gone \subseteq Kept \ {k}
         /\ Cardinality((Kept \ gone) \cup {k}) <= MaxKeys
<1>1. /\ IsFiniteSet(Kept) /\ Cardinality(Kept) \in Nat
      /\ Cardinality(Kept) <= MaxKeys /\ MaxKeys \in Nat
  BY KeptIsFinite, BucketNumbers DEF BucketsTypeOK
<1>2. k \in Kept <=> buckets[k].kept
  BY DEF Kept
<1>3. CASE k \in Kept
  <2>1. gone = {}
    BY <1>2, <1>3 DEF MakeRoom
  <2>2. (Kept \ gone) \cup {k} = Kept
    BY <1>3, <2>1
  <2> QED
    BY <1>1, <2>1, <2>2
<1>4. CASE k \notin Kept /\ Cardinality(Kept) < MaxKeys
  <2>1. gone = {}
    BY <1>4 DEF MakeRoom
  <2>2. (Kept \ gone) \cup {k} = Kept \cup {k}
    BY <2>1
  <2>3. Cardinality(Kept \cup {k}) = Cardinality(Kept) + 1
    BY <1>1, <1>4, FS_AddElement
  <2> QED
    BY <1>1, <1>4, <2>1, <2>2, <2>3
<1>5. CASE k \notin Kept /\ ~(Cardinality(Kept) < MaxKeys)
  <2>1. PICK met \in kSubset(Sample, Kept) : gone \in Victims(met)
    BY <1>2, <1>5 DEF MakeRoom
  <2>2. gone \subseteq Kept /\ gone # {}
    BY <2>1, VictimsAre
  <2>3. PICK j \in gone : TRUE
    BY <2>2
  <2>4. /\ IsFiniteSet(Kept \ {j})
        /\ Cardinality(Kept \ {j}) = Cardinality(Kept) - 1
    BY <1>1, <2>2, <2>3, FS_RemoveElement
  <2>5. /\ IsFiniteSet(Kept \ gone) /\ Cardinality(Kept \ gone) \in Nat
        /\ Cardinality(Kept \ gone) <= Cardinality(Kept \ {j})
    <3>1. (Kept \ gone) \in SUBSET (Kept \ {j})
      BY <2>3
    <3> QED
      BY <2>4, <3>1, FS_Subset, FS_CardinalityType
  <2>6. Cardinality((Kept \ gone) \cup {k}) <= Cardinality(Kept \ gone) + 1
    <3>1. Cardinality((Kept \ gone) \cup {k}) =
            IF k \in Kept \ gone THEN Cardinality(Kept \ gone)
            ELSE Cardinality(Kept \ gone) + 1
      BY <2>5, FS_AddElement
    <3> QED
      BY <3>1, <2>5
  <2>7. Cardinality((Kept \ gone) \cup {k}) <= MaxKeys
    <3>1. Cardinality((Kept \ gone) \cup {k}) \in Nat
      BY <2>5, FS_AddElement, FS_CardinalityType
    <3> QED
      BY <1>1, <2>4, <2>5, <2>6, <3>1
  <2> QED
    BY <1>5, <2>2, <2>7
<1> QED
  BY <1>3, <1>4, <1>5

\* Buckets that go leave the table smaller.
LEMMA WithoutTypes ==
  ASSUME BucketsTypeOK, NEW gone, buckets' = Without(gone)
  PROVE  /\ buckets' \in [Clients -> Bucket]
         /\ \A k \in Clients : buckets'[k].kept \/ buckets'[k] = NoBucket
         /\ Cardinality(Kept') <= MaxKeys
<1>1. buckets' = [k \in Clients |-> IF k \in gone THEN NoBucket ELSE buckets[k]]
  BY DEF Without
<1>2. Kept' \in SUBSET Kept
  BY <1>1, NoBucketType DEF Kept
<1>3. /\ Cardinality(Kept') \in Nat /\ Cardinality(Kept) \in Nat
      /\ Cardinality(Kept') <= Cardinality(Kept) /\ Cardinality(Kept) <= MaxKeys
  BY <1>2, KeptIsFinite, FS_Subset, FS_CardinalityType DEF BucketsTypeOK
<1>4. Cardinality(Kept') <= MaxKeys
  BY <1>3, BucketNumbers
<1>5. /\ buckets' \in [Clients -> Bucket]
      /\ \A k \in Clients : buckets'[k].kept \/ buckets'[k] = NoBucket
  BY <1>1, NoBucketType DEF BucketsTypeOK
<1> QED
  BY <1>4, <1>5

\* Allow, taken apart.
LEMMA AllowIs ==
  ASSUME BucketsTypeOK, NEW k \in Clients, NEW gone \in MakeRoom(k),
         buckets' = [Without(gone) EXCEPT
                       ![k] = [kept |-> TRUE, idle |-> 0,
                               tokens |-> IF Tokens(buckets[k]) >= Cost
                                          THEN Tokens(buckets[k]) - Cost
                                          ELSE Tokens(buckets[k])]]
  PROVE  /\ buckets' \in [Clients -> Bucket]
         /\ buckets'[k].kept
         /\ Tokens(buckets'[k]) = IF Tokens(buckets[k]) >= Cost
                                  THEN Tokens(buckets[k]) - Cost
                                  ELSE Tokens(buckets[k])
         /\ \A j \in Clients \ {k} :
              buckets'[j] = IF j \in gone THEN NoBucket ELSE buckets[j]
<1> DEFINE has == Tokens(buckets[k])
           left == IF has >= Cost THEN has - Cost ELSE has
           new == [kept |-> TRUE, idle |-> 0, tokens |-> left]
<1>1. has \in 0..Full /\ buckets \in [Clients -> Bucket]
  BY TokensRange DEF BucketsTypeOK
<1>2. left \in 0..Full
  BY <1>1, BucketNumbers
<1> HIDE DEF left
<1>3. new \in Bucket /\ new.kept /\ Tokens(new) = left
  BY <1>2, BucketNumbers DEF Bucket, Tokens
<1>4. buckets' = [Without(gone) EXCEPT ![k] = new]
  BY DEF left
<1>5. /\ buckets'[k] = new
      /\ \A j \in Clients \ {k} :
           buckets'[j] = IF j \in gone THEN NoBucket ELSE buckets[j]
  BY <1>4 DEF Without
<1>6. buckets' \in [Clients -> Bucket]
  BY <1>1, <1>3, <1>4, NoBucketType DEF Without
<1> QED
  BY <1>3, <1>5, <1>6 DEF left

LEMMA BucketsTypesNext ==
  ASSUME BucketsTypeOK, [BucketsNext]_bucketsVars PROVE BucketsTypeOK'
<1>1. CASE UNCHANGED bucketsVars
  BY <1>1 DEF BucketsTypeOK, Kept, bucketsVars
<1>2. ASSUME NEW k \in Clients, Allow(k) PROVE BucketsTypeOK'
  <2>1. PICK gone \in MakeRoom(k) :
          /\ buckets' = [Without(gone) EXCEPT
                           ![k] = [kept |-> TRUE, idle |-> 0,
                                   tokens |-> IF Tokens(buckets[k]) >= Cost
                                              THEN Tokens(buckets[k]) - Cost
                                              ELSE Tokens(buckets[k])]]
          /\ reply' = [to |-> k, ok |-> Tokens(buckets[k]) >= Cost]
    BY <1>2 DEF Allow
  <2>2. /\ buckets' \in [Clients -> Bucket] /\ buckets'[k].kept
        /\ \A j \in Clients \ {k} :
             buckets'[j] = IF j \in gone THEN NoBucket ELSE buckets[j]
    BY <2>1, AllowIs
  <2>3. Kept' = (Kept \ gone) \cup {k}
    BY <2>2, NoBucketType DEF Kept
  <2>4. Cardinality(Kept') <= MaxKeys
    BY <2>3, RoomIsMade
  <2>5. \A j \in Clients : buckets'[j].kept \/ buckets'[j] = NoBucket
    BY <2>2 DEF BucketsTypeOK
  <2> QED
    BY <2>1, <2>2, <2>4, <2>5 DEF BucketsTypeOK
<1>3. ASSUME NEW k \in Clients, Peek(k) PROVE BucketsTypeOK'
  BY <1>3 DEF Peek, BucketsTypeOK, Kept
<1>4. ASSUME NEW gone, buckets' = Without(gone), UNCHANGED reply PROVE BucketsTypeOK'
  BY <1>4, WithoutTypes DEF BucketsTypeOK
<1>5. CASE Tick
  <2>1. \A k \in Clients : /\ Older(buckets[k]) \in Bucket
                           /\ Older(buckets[k]).kept <=> buckets[k].kept
                           /\ ~buckets[k].kept => Older(buckets[k]) = buckets[k]
    BY BucketNumbers DEF BucketsTypeOK, Older, Bucket
  <2>2. \A k \in Clients : buckets'[k] = Older(buckets[k])
    BY <1>5 DEF Tick
  <2>3. buckets' \in [Clients -> Bucket]
    BY <1>5, <2>1 DEF Tick
  <2>4. Kept' = Kept
    BY <2>1, <2>2 DEF Kept
  <2>5. \A k \in Clients : buckets'[k].kept \/ buckets'[k] = NoBucket
    BY <2>1, <2>2 DEF BucketsTypeOK
  <2> QED
    BY <1>5, <2>3, <2>4, <2>5 DEF Tick, BucketsTypeOK
<1> QED
  BY <1>1, <1>2, <1>3, <1>4, <1>5 DEF BucketsNext, Reset, Collect

LEMMA BucketsTypesInit == BucketsInit => BucketsTypeOK
<1> SUFFICES ASSUME BucketsInit PROVE BucketsTypeOK
  OBVIOUS
<1>1. Kept = {}
  BY NoBucketType DEF BucketsInit, Kept
<1>2. Cardinality(Kept) <= MaxKeys
  BY <1>1, FS_EmptySet, BucketNumbers
<1> QED
  BY <1>2, NoBucketType DEF BucketsInit, BucketsTypeOK

\* The table of buckets never outgrows its size, whatever is evicted to make
\* room (evictOldestLocked, GC).
THEOREM BucketsTypeCorrect == BucketsSpec => []BucketsTypeOK
BY BucketsTypesInit, BucketsTypesNext, PTL DEF BucketsSpec

-----------------------------------------------------------------------------
(* The limiter answers as if every key had a bucket of its own.            *)

\* What TokenBuckets sees of the buckets.
Silence(b) == IF Tokens(b) < Full THEN b.idle ELSE 0
Level      == [k \in Clients |-> Tokens(buckets[k])]
Idling     == [k \in Clients |-> Silence(buckets[k])]

\* A request of k is one that may make the limiter forget those which went and
\* were short.
LEMMA AllowTakes ==
  ASSUME BucketsTypeOK, NEW k \in Clients, Allow(k) PROVE TB!Take(k)
<1>1. PICK gone \in MakeRoom(k) :
        /\ buckets' = [Without(gone) EXCEPT
                         ![k] = [kept |-> TRUE, idle |-> 0,
                                 tokens |-> IF Tokens(buckets[k]) >= Cost
                                            THEN Tokens(buckets[k]) - Cost
                                            ELSE Tokens(buckets[k])]]
        /\ reply' = [to |-> k, ok |-> Tokens(buckets[k]) >= Cost]
  BY DEF Allow
<1>2. /\ gone \subseteq Clients \ {k}
  BY RoomIsMade, KeptIsFinite
<1>3. /\ Tokens(buckets'[k]) = IF Tokens(buckets[k]) >= Cost
                               THEN Tokens(buckets[k]) - Cost
                               ELSE Tokens(buckets[k])
      /\ \A j \in Clients \ {k} :
           buckets'[j] = IF j \in gone THEN NoBucket ELSE buckets[j]
  BY <1>1, AllowIs
<1>4. \A j \in Clients \ {k} :
        /\ Tokens(buckets'[j]) = IF j \in gone THEN Full ELSE Tokens(buckets[j])
        /\ Silence(buckets'[j]) = IF j \in gone THEN 0 ELSE Silence(buckets[j])
  BY <1>3, NoBucketType, BucketNumbers DEF Silence
<1>5. \E F \in SUBSET (Clients \ {k}) :
        /\ TB!Forgettable(F)
        /\ F \subseteq gone /\ \A j \in gone : j \in F \/ Tokens(buckets[j]) = Full
  <2>1. CASE \A j \in gone : Tokens(buckets[j]) = Full
    <3>1. TB!Forgettable({})
      BY DEF TB!Forgettable
    <3> QED
      BY <2>1, <3>1
  <2>2. CASE ~ \A j \in gone : Tokens(buckets[j]) = Full
    <3>1. PICK met \in kSubset(Sample, Kept) : gone \in Victims(met)
      BY <2>2 DEF MakeRoom
    <3>2. /\ Cardinality(gone) = (Sample \div 10) + 1
          /\ \A j \in met : Tokens(buckets[j]) # Full
      BY <2>2, <3>1, VictimsAre
    <3> DEFINE short == {j \in Clients : Tokens(buckets[j]) < Full}
    <3>3. met \in SUBSET short /\ Cardinality(met) = Sample
      <4>1. met \subseteq Clients /\ Cardinality(met) = Sample
        BY <3>1, KeptIsFinite DEF kSubset
      <4>2. \A j \in Clients : Tokens(buckets[j]) \in 0..Full
        BY TokensRange DEF BucketsTypeOK
      <4> QED
        BY <3>2, <4>1, <4>2, BucketNumbers
    <3>4. IsFiniteSet(short)
      BY BucketsAssumption, FS_Subset
    <3>5. Cardinality(short) >= Sample
      BY <3>3, <3>4, FS_Subset, FS_CardinalityType, BucketNumbers
    <3>6. Cardinality(gone) <= (Sample \div 10) + 1
      BY <3>2, TenthRange
    <3>7. TB!Forgettable(gone)
      <4>1. \A S : TB!Cardinality(S) = Cardinality(S)
        BY DEF TB!Cardinality, Cardinality
      <4>2. {j \in Clients : [i \in Clients |-> Tokens(buckets[i])][j] < Full} = short
        OBVIOUS
      <4> HIDE DEF short
      <4> QED
        BY <3>5, <3>6, <4>1, <4>2 DEF TB!Forgettable
    <3> QED
      BY <1>2, <3>7
  <2> QED
    BY <2>1, <2>2
<1>6. PICK F \in SUBSET (Clients \ {k}) :
        /\ TB!Forgettable(F)
        /\ F \subseteq gone /\ \A j \in gone : j \in F \/ Tokens(buckets[j]) = Full
  BY <1>5
<1>7. Level' = [j \in Clients |->
                  IF j = k THEN IF Level[k] >= Cost THEN Level[k] - Cost ELSE Level[k]
                  ELSE IF j \in F THEN Full ELSE Level[j]]
  <2> SUFFICES ASSUME NEW j \in Clients
               PROVE  Tokens(buckets'[j]) =
                        IF j = k THEN IF Tokens(buckets[k]) >= Cost
                                      THEN Tokens(buckets[k]) - Cost
                                      ELSE Tokens(buckets[k])
                        ELSE IF j \in F THEN Full ELSE Tokens(buckets[j])
    BY DEF Level
  <2>1. CASE j = k
    BY <1>3, <2>1
  <2>2. CASE j # k
    BY <1>4, <1>6, <2>2
  <2> QED
    BY <2>1, <2>2
<1>8. reply' = [to |-> k, ok |-> Level[k] >= Cost]
  BY <1>1 DEF Level
<1>9. Idling' = [j \in Clients |-> IF j \in F \cup {k} THEN 0 ELSE Idling[j]]
  <2>1. Silence(buckets'[k]) = 0
    <3>1. buckets'[k].idle = 0
      BY <1>1, <1>2 DEF BucketsTypeOK, Without
    <3> QED
      BY <3>1 DEF Silence
  <2>2. ASSUME NEW j \in Clients \ {k}
        PROVE  Silence(buckets'[j]) = IF j \in F THEN 0 ELSE Silence(buckets[j])
    <3>1. CASE j \in gone \ F
      <4>1. Silence(buckets[j]) = 0
        BY <1>6, <3>1, BucketNumbers DEF Silence
      <4> QED
        BY <1>4, <3>1, <4>1
    <3>2. CASE j \in F \/ j \notin gone
      BY <1>4, <1>6, <3>2
    <3> QED
      BY <3>1, <3>2
  <2> QED
    BY <2>1, <2>2 DEF Idling
<1> QED
  BY <1>6, <1>7, <1>8, <1>9 DEF TB!Take, Level, Idling, Silence

LEMMA StepRefines ==
  ASSUME BucketsTypeOK, [BucketsNext]_bucketsVars
  PROVE  [TB!Next]_<<Level, Idling, reply>>
<1>0. /\ buckets \in [Clients -> Bucket]
      /\ \A k \in Clients : Tokens(buckets[k]) \in 0..Full
  BY TokensRange DEF BucketsTypeOK
<1>1. CASE UNCHANGED bucketsVars
  BY <1>1 DEF bucketsVars, Level, Idling
<1>2. ASSUME NEW k \in Clients, Allow(k) PROVE TB!Next
  BY <1>2, AllowTakes DEF TB!Next
<1>3. ASSUME NEW k \in Clients, Peek(k) PROVE TB!Next
  <2>1. TB!Look(k)
    BY <1>3 DEF Peek, TB!Look
  <2> QED
    BY <2>1 DEF TB!Next
<1>4. ASSUME NEW gone \in SUBSET Clients, NEW F \in SUBSET gone,
             buckets' = Without(gone), UNCHANGED reply,
             \A k \in gone \ F : Tokens(buckets[k]) = Full
      PROVE  TB!Forgotten(F)
  <2>1. \A k \in Clients :
          buckets'[k] = IF k \in gone THEN NoBucket ELSE buckets[k]
    BY <1>4 DEF Without
  <2>2. \A k \in Clients :
          /\ Tokens(buckets'[k]) = IF k \in F THEN Full ELSE Tokens(buckets[k])
          /\ Silence(buckets'[k]) = IF k \in F THEN 0 ELSE Silence(buckets[k])
    BY <1>4, <2>1, NoBucketType, BucketNumbers DEF Silence
  <2> QED
    BY <1>4, <2>2 DEF TB!Forgotten, Silence
<1>7. ASSUME NEW k \in Clients, Reset(k) PROVE TB!Next
  <2>1. TB!Forgotten({k})
    BY <1>4, <1>7 DEF Reset
  <2> QED
    BY <2>1 DEF TB!Next, TB!Forgive
<1>5. CASE Collect
  <2>1. PICK gone : gone = {k \in Kept : buckets[k].idle >= IdleFor}
    OBVIOUS
  <2>2. PICK F : F = {k \in gone : Tokens(buckets[k]) # Full}
    OBVIOUS
  <2>3. /\ gone \in SUBSET Clients /\ F \in SUBSET gone
        /\ \A k \in gone \ F : Tokens(buckets[k]) = Full
    BY <2>1, <2>2 DEF Kept
  <2>4. buckets' = Without(gone) /\ UNCHANGED reply
    BY <1>5, <2>1 DEF Collect
  <2>5. TB!Forgotten(F)
    BY <1>4, <2>3, <2>4
  <2>6. \A k \in F : Idling[k] >= IdleFor /\ k \in Clients
    <3> SUFFICES ASSUME NEW k \in F PROVE Idling[k] >= IdleFor /\ k \in Clients
      OBVIOUS
    <3>1. k \in Clients /\ buckets[k].idle >= IdleFor /\ Tokens(buckets[k]) # Full
      BY <2>1, <2>2 DEF Kept
    <3>2. Tokens(buckets[k]) < Full
      BY <1>0, <3>1, BucketNumbers
    <3> QED
      BY <3>1, <3>2 DEF Idling, Silence
  <2>7. TB!Lapse
    BY <2>5, <2>6 DEF TB!Lapse, Idling, Silence
  <2> QED
    BY <2>7 DEF TB!Next
<1>6. CASE Tick
  <2>1. ASSUME NEW k \in Clients
        PROVE  /\ Tokens(Older(buckets[k])) =
                    IF Tokens(buckets[k]) < Full THEN Tokens(buckets[k]) + 1 ELSE Full
               /\ Silence(Older(buckets[k])) =
                    IF Tokens(Older(buckets[k])) < Full THEN Silence(buckets[k]) + 1 ELSE 0
    <3>1. buckets[k] \in Bucket /\ (buckets[k].kept \/ buckets[k] = NoBucket)
      BY DEF BucketsTypeOK
    <3>2. CASE buckets[k].kept /\ buckets[k].idle < Forever
      <4>1. /\ Older(buckets[k]).idle = buckets[k].idle + 1
            /\ Older(buckets[k]).tokens = buckets[k].tokens
        BY <3>1, <3>2 DEF Older, Bucket
      <4> QED
        BY <3>1, <4>1, BucketNumbers DEF Tokens, Silence, Bucket
    <3>3. CASE buckets[k].kept /\ ~(buckets[k].idle < Forever)
      <4>1. Older(buckets[k]) = buckets[k] /\ buckets[k].idle >= Full
        BY <3>1, <3>3, BucketNumbers DEF Older, Bucket
      <4> QED
        BY <3>1, <4>1, BucketNumbers DEF Tokens, Silence, Bucket
    <3>4. CASE ~buckets[k].kept
      BY <3>1, <3>4, NoBucketType, BucketNumbers DEF Older, Silence
    <3> QED
      BY <3>2, <3>3, <3>4
  <2>2. Level' = [k \in Clients |-> IF Level[k] < Full THEN Level[k] + 1 ELSE Full]
    BY <1>6, <2>1 DEF Tick, Level
  <2>3. Idling' = [k \in Clients |-> IF Level'[k] < Full THEN Idling[k] + 1 ELSE 0]
    BY <1>6, <2>1 DEF Tick, Level, Idling
  <2>4. TB!Refill
    BY <1>6, <2>2, <2>3 DEF Tick, TB!Refill, Level, Idling, Silence
  <2> QED
    BY <2>4 DEF TB!Next
<1> QED
  BY <1>1, <1>2, <1>3, <1>5, <1>6, <1>7 DEF BucketsNext

\* With a bounded table, eviction and collection, every key is answered as if
\* it had a bucket, and a key that is short is forgotten only while Sample
\* keys are, a tenth of them at a time, or when it has not asked for IdleFor,
\* whatever the interval of the rate (Allow, evictOldestLocked, GC).
THEOREM LimiterImplementsTokenBuckets == BucketsSpec => ImplementsTokenBuckets
<1>1. BucketsInit => TB!Init
  BY NoBucketType, BucketNumbers DEF BucketsInit, TB!Init
<1>2. BucketsTypeOK /\ [BucketsNext]_bucketsVars
        => [TB!Next]_<<[k \in Clients |-> Tokens(buckets[k])],
                       [k \in Clients |-> IF Tokens(buckets[k]) < Full
                                         THEN buckets[k].idle ELSE 0], reply>>
  BY StepRefines DEF Level, Idling, Silence
<1> QED
  BY <1>1, <1>2, BucketsTypeCorrect, PTL DEF BucketsSpec, ImplementsTokenBuckets, TB!Spec

=============================================================================
