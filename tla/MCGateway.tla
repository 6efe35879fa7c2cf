------------------------------- MODULE MCGateway -------------------------------
(***************************************************************************)
(* The connections of the hub, the rate limits, the files of exports and   *)
(* imports, what users are told of events and what is counted of them, for *)
(* TLC, one component per behaviour: "scope" says which, and the others    *)
(* stay as they are.  "Budget" bounds the requests of each.                *)
(***************************************************************************)
EXTENDS WebSocketHub, RateLimits, Formats, Notifications, Analytics, TLC

VARIABLE scope

Budget == [hub |-> 0, limits |-> 5, files |-> 0, notes |-> 3, feed |-> 3, metrics |-> 0,
           dashboard |-> 2]

GatewayInit ==
    /\ HubInit /\ RateLimitsInit /\ FormatsInit
    /\ NotificationsInit /\ ActivitiesInit /\ AnalyticsInit
    /\ RequestsInit
    /\ scope \in DOMAIN Budget

Within(s) == scope = s /\ UNCHANGED scope /\ begun' <= Budget[s]

GatewayNext ==
    \/ /\ scope = "hub"
       /\ HubNext
       /\ sent' + hubFaults' + Cardinality(lost') <= 1   \* a message, an error or a lost call
       /\ UNCHANGED <<limitVars, formatVars, noteVars, activityVars, analyticsVars,
                      requestVars, scope>>
    \/ /\ scope = "limits"
       /\ RateLimitsNext
       /\ begun' <= 4 \/ faults' = 0        \* a fifth request or an error
       /\ Within("limits")
       /\ UNCHANGED <<hubVars, formatVars, noteVars, activityVars, analyticsVars>>
    \/ /\ scope = "files"
       /\ FormatsNext
       /\ Len(catalog') <= 2 \/ ~edited'     \* a third entity, or an edit
       /\ UNCHANGED <<hubVars, limitVars, noteVars, activityVars, analyticsVars,
                      requestVars, scope>>
    \/ /\ scope = "notes"
       /\ NotificationsNext
       /\ begun' <= 2 \/ faults' = 0        \* a third request or an error
       /\ Within("notes")
       /\ UNCHANGED <<hubVars, limitVars, formatVars, activityVars, analyticsVars>>
    \/ /\ scope = "feed"
       /\ ActivitiesNext
       /\ begun' <= 2 \/ (faults' = 0 /\ Len(heard') <= 1)  \* a third request, or an error
       /\ Within("feed")                                   \* and a second event
       /\ UNCHANGED <<hubVars, limitVars, formatVars, noteVars, analyticsVars>>
    \/ /\ scope = "metrics"
       /\ MetricsNext
       /\ Within("metrics")
       /\ UNCHANGED <<hubVars, limitVars, formatVars, noteVars, activityVars>>
    \/ /\ scope = "dashboard"
       /\ PreferencesNext
       /\ Within("dashboard")
       /\ UNCHANGED <<hubVars, limitVars, formatVars, noteVars, activityVars>>

GatewaySpec ==
    GatewayInit
    /\ [][GatewayNext]_<<hubVars, limitVars, formatVars, noteVars, activityVars,
                         analyticsVars, requestVars, scope>>

\* The cfg gives Clients, Slots, Recipients, Readers and Cyclers the same elements, so
\* that one permutation of them serves all.
Symmetry == Permutations(Clients)

\* What comes in is checked: LimitsHold of RateLimits, no window lets more calls pass
\* than its limit, but for those that overlapped; and FormatsHold of Formats, the files
\* of exports are accepted and read back, and what is accepted can be decoded.
TrafficIsChecked ==
    /\ scope = "hub" => HubTypeOK
    /\ scope = "limits" => RateLimitsTypeOK
    /\ scope = "files" => FormatsTypeOK /\ FormatsHold
    /\ LimitsHold

\* Users are told what concerns them, once and as they wish, and no day is counted
\* twice: the types and the promises of Notifications and Analytics.
UsersAreTold ==
    /\ scope = "notes" => NotificationsTypeOK /\ NotesHold
    /\ scope = "feed" => ActivitiesTypeOK /\ ActivitiesHold
    /\ scope \in {"metrics", "dashboard"} => AnalyticsTypeOK /\ DaysAreCountedOnce
=============================================================================
