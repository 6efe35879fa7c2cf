------------------------------- MODULE MCContent -------------------------------
(***************************************************************************)
(* What the users of an organization share, for TLC, one component per     *)
(* behaviour: "scope" says which, and the others stay as they are.         *)
(* "Budget" bounds the requests of each.                                   *)
(***************************************************************************)
EXTENDS MediaVersions, Comments, News, Settings, Webhooks, Invoices, Searches, TLC

VARIABLE scope

Budget == [versions |-> 0, comments |-> 4, news |-> 4, tags |-> 4, flags |-> 3,
           settings |-> 3, hooks |-> 4, invoices |-> 3, searches |-> 4]

ContentInit ==
    /\ VersionInit /\ CommentsInit /\ NewsInit /\ TagsInit /\ FeatureFlagsInit
    /\ SettingsInit /\ WebhooksInit /\ InvoicesInit /\ SearchesInit /\ RequestsInit
    /\ scope \in DOMAIN Budget
    /\ scope = "flags" \/ flags = <<>>

Within(s) == UNCHANGED scope /\ begun' <= Budget[s]

ContentNext ==
    \/ /\ scope = "versions"
       /\ VersionNext
       /\ stored' <= 2 \/ versionFaults' = 0    \* a third upload or an error
       /\ UNCHANGED <<commentVars, newsVars, tagVars, flagVars, settingsVars,
                      webhookVars, invoiceVars, searchVars, requestVars, scope>>
    \/ /\ scope = "comments"
       /\ CommentsNext
       /\ Within("comments")
       /\ UNCHANGED <<versionVars, newsVars, tagVars, flagVars, settingsVars,
                      webhookVars, invoiceVars, searchVars>>
    \/ /\ scope = "news"
       /\ NewsNext
       /\ Within("news")
       /\ UNCHANGED <<versionVars, commentVars, tagVars, flagVars, settingsVars,
                      webhookVars, invoiceVars, searchVars>>
    \/ /\ scope = "tags"
       /\ TagsNext
       /\ Within("tags")
       /\ UNCHANGED <<versionVars, commentVars, newsVars, flagVars, settingsVars,
                      webhookVars, invoiceVars, searchVars>>
    \/ /\ scope = "flags"
       /\ FeatureFlagsNext
       /\ Within("flags")
       /\ UNCHANGED <<versionVars, commentVars, newsVars, tagVars, settingsVars,
                      webhookVars, invoiceVars, searchVars>>
    \/ /\ scope = "settings"
       /\ SettingsNext
       /\ Within("settings")
       /\ UNCHANGED <<versionVars, commentVars, newsVars, tagVars, flagVars,
                      webhookVars, invoiceVars, searchVars>>
    \/ /\ scope = "hooks"
       /\ WebhooksNext
       /\ Within("hooks")
       /\ UNCHANGED <<versionVars, commentVars, newsVars, tagVars, flagVars,
                      settingsVars, invoiceVars, searchVars>>
    \/ /\ scope = "invoices"
       /\ InvoicesNext
       /\ Within("invoices")
       /\ UNCHANGED <<versionVars, commentVars, newsVars, tagVars, flagVars,
                      settingsVars, webhookVars, searchVars>>
    \/ /\ scope = "searches"
       /\ SearchesNext
       /\ Within("searches")
       /\ docs' = <<>> \/ (saved' = <<>> /\ req' = req)   \* of one table at a time,
       /\ docs' # <<>> \/ browsing' = browsing            \* a search when there is a row,
       /\ browsing'.size > 0                              \* and 0 is as good as too many
       /\ UNCHANGED <<versionVars, commentVars, newsVars, tagVars, flagVars,
                      settingsVars, webhookVars, invoiceVars>>

contentVars == <<versionVars, commentVars, newsVars, tagVars, flagVars, settingsVars,
                 webhookVars, invoiceVars, searchVars, requestVars, scope>>

ContentSpec == ContentInit /\ [][ContentNext]_contentVars

\* The cfg gives Requests and Slots the same elements, and Entities, Slugs, Names,
\* Tagged, Urls and Searchers, so that one permutation of them serves all.
Symmetry == Permutations(Requests) \cup Permutations(Entities)

-----------------------------------------------------------------------------

\* What users write stands: the promises of MediaVersions, Comments, News,
\* Invoices and Searches, and the types.
ContentHolds ==
    /\ scope = "versions" => VersionTypeOK /\ VersionsAreServed
    /\ scope = "comments" => CommentsTypeOK /\ CommentsHold
    /\ scope = "news" => NewsTypeOK /\ NewsHold
    /\ scope = "tags" => TagsTypeOK /\ TagsHold
    /\ scope = "invoices" => InvoicesTypeOK /\ InvoicesHold
    /\ scope = "searches" => SearchesTypeOK /\ SearchesHold

\* What administrators set takes effect as they set it: the promises of
\* Settings and Webhooks.
SwitchesHold ==
    /\ scope = "flags" => FeatureFlagsTypeOK /\ FlagsHold
    /\ scope = "settings" => SettingsTypeOK /\ SettingsHold
    /\ scope = "hooks" => WebhooksTypeOK /\ WebhooksHold

=============================================================================
