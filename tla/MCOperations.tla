---------------------------- MODULE MCOperations ----------------------------
(***************************************************************************)
(* Seven components that share no state with each other, each checked on an  *)
(* instance of its own in one run: the initial state decides which of them *)
(* takes the steps, the others stay in one of their initial states.        *)
(***************************************************************************)
EXTENDS Settings, Enrichment, Buckets, Startup, Backups, Pages,
        Credentials

VARIABLE part

\* Every default is Default; the server OldServer is one migration behind.
CONSTANTS Default, OldServer
MCEnv == [k \in Keys |-> Default]
MCRelease ==
  [p \in Processes |->
     IF p = OldServer THEN MaxMigrations - 1 ELSE MaxMigrations]

vars == <<part, settingsVars, enrichmentVars, bucketsVars, startupVars,
          backupsVars, pagesVars, credentialsVars>>

Parts == {"settings", "enrichment", "buckets", "startup", "backups", "pages",
          "credentials"}

Init ==
  /\ part \in Parts
  /\ SettingsInit /\ (part # "settings" => settings = [k \in Keys |-> NoValue])
  /\ EnrichmentInit
  /\ part # "enrichment" =>
       /\ clicks = 0
       /\ \A i, j \in Ids : address[i] = address[j] /\ address[i] \in Locatable
  /\ BucketsInit
  /\ StartupInit /\ (part # "startup" => driver = "sqlite" /\ recorded = {})
  /\ BackupsInit
  /\ CredentialsInit
  /\ PagesInit
  /\ part # "pages" =>
       listed = {} /\ order = "ASC" /\ \A r \in Rows : value[r] = 1

\* A step of one part.
Of(p, rest) == part = p /\ UNCHANGED <<part, rest>>

InSettings == Of("settings", <<enrichmentVars, bucketsVars, startupVars,
                               backupsVars, pagesVars, credentialsVars>>)
InEnrichment == Of("enrichment", <<settingsVars, bucketsVars, startupVars,
                                   backupsVars, pagesVars, credentialsVars>>)
InBuckets == Of("buckets", <<settingsVars, enrichmentVars, startupVars,
                             backupsVars, pagesVars, credentialsVars>>)
InStartup == Of("startup", <<settingsVars, enrichmentVars, bucketsVars,
                             backupsVars, pagesVars, credentialsVars>>)
InBackups == Of("backups", <<settingsVars, enrichmentVars, bucketsVars,
                             startupVars, pagesVars, credentialsVars>>)
InPages == Of("pages", <<settingsVars, enrichmentVars, bucketsVars,
                         startupVars, backupsVars, credentialsVars>>)
InCredentials == Of("credentials", <<settingsVars, enrichmentVars, bucketsVars,
                                     startupVars, backupsVars, pagesVars>>)

Next ==
  \/ InSettings /\ SettingsNext
  \/ InEnrichment /\ EnrichmentNext
  \/ InBuckets /\ BucketsNext
  \/ InStartup /\ StartupNext
  \/ InBackups /\ BackupsNext
  \/ InPages /\ PagesNext
  \/ InCredentials /\ CredentialsNext

\* The fairness of FairEnrichmentSpec and FairStartupSpec, asked of the part
\* that takes the steps only.
Spec ==
  /\ Init /\ [][Next]_vars
  /\ WF_vars(InEnrichment /\ BackfillStep)
  /\ WF_vars(InEnrichment /\ EnrichAnswered)
  /\ WF_vars(InEnrichment /\ Elapse)
  /\ \A p \in Processes :
       /\ WF_vars(InStartup /\ Opening(p))
       /\ WF_vars(InStartup /\ Recycle(p))

\* Where the processes take the steps, they start in the end.
ProcessesStart == part = "startup" => StartsInTheEnd

=============================================================================
