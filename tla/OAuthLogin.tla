------------------------------ MODULE OAuthLogin ------------------------------
(***************************************************************************)
(* Log-in through other providers: internal/service/oauth_login.go,        *)
(* oauth_state.go and oauth_provider.go with their handlers and            *)
(* repositories.                                                           *)
(*                                                                         *)
(* A flow begins with a state entry in Redis under a random nonce; the     *)
(* provider sends the browser back with a code; the callback reads and     *)
(* deletes the entry, redeems the code, and either logs a user in, creates *)
(* him, or links the identity to the user who began the flow.  A user who  *)
(* unlinks a provider must keep another way to log in.                     *)
(*                                                                         *)
(* An identity is a name at a provider.  The uniqueness of identities and  *)
(* of a user's link to a provider is what migrations/000028 states.        *)
(***************************************************************************)
EXTENDS Requests

CONSTANTS
    Providers,
    Names,              \* people as the providers know them
    OAuthUsers,
    NoOne,
    MaxCodes            \* bound on the authorizations at the providers

ASSUME NoOneAssumption == NoOne \notin OAuthUsers \cup Providers /\ MaxCodes \in Nat

VARIABLES
    provider,   \* the row of each provider
    flow,       \* what the nonce of each flow stands for
    states,     \* Redis: the flows whose entry is there
    codes,      \* the providers: codes not yet redeemed
    issued,     \* the providers: how many codes they gave out
    account,    \* the row of each identity: its user, and its id
    user,       \* whether a user is there, and with a password of his own
    finished,   \* history: callbacks that completed each flow, and for whom
    shared,     \* history: flows whose entry two callbacks may have read
    excused     \* history: users of overlapping unlinks or of a broken creation

oauthVars == <<provider, flow, states, codes, issued, account, user, finished, shared, excused>>

Flows == 1..MaxRequests
NoFlow == [provider |-> NoOne, user |-> NoOne]
Flow == [provider : Providers, user : OAuthUsers \cup {NoOne}]      \* NoOne: to log in
Code == [flow : Flows, name : Names, number : 1..MaxCodes]
NoAccount == [user |-> NoOne, id |-> 0]
Account == [user : OAuthUsers, id : 0..MaxRequests]

OAuthRequest ==
    [pc : {"initiate"}, id : Flows, provider : Providers, user : OAuthUsers \cup {NoOne}]
    \cup [pc : {"getstate", "delstate", "exchange"}, id : Flows, provider : Providers,
          flow : Flows, code : Code]
    \cup [pc : {"profile", "login", "createuser", "link", "createaccount"}, id : Flows, provider : Providers,
          flow : Flows, name : Names, user : OAuthUsers \cup {NoOne}]
    \cup [pc : {"unlinkfind"}, provider : Providers, user : OAuthUsers]
    \cup [pc : {"unlinkcount"}, provider : Providers, user : OAuthUsers, name : Names, found : Account]
    \cup [pc : {"unlink"}, provider : Providers, name : Names, found : Account]
    \cup [pc : {"updateprovider", "saveprovider"}, provider : Providers,
          row : {"absent", "enabled", "disabled"}]

OAuthTypeOK ==
    /\ provider \in [Providers -> {"absent", "enabled", "disabled"}]
    /\ flow \in [Flows -> Flow \cup {NoFlow}]
    /\ states \subseteq Flows
    /\ codes \subseteq Code
    /\ issued \in 0..MaxCodes
    /\ account \in [Providers \X Names -> Account \cup {NoAccount}]
    /\ user \in [OAuthUsers -> {"absent", "oauth", "password"}]
    /\ finished \in [Flows -> SUBSET [name : Names, user : OAuthUsers, by : Flows]]
    /\ shared \subseteq Flows
    /\ excused \subseteq OAuthUsers
    /\ RequestsAre(OAuthRequest)

Linked(u, p) == {x \in Names : account[<<p, x>>].user = u}

\* FindByUserID, whatever has become of the providers.
ListLinkedAccounts(u) == {i \in Providers \X Names : account[i].user = u}

CountAuthMethods(u) ==
    Cardinality(ListLinkedAccounts(u))
      + (IF user[u] = "password" THEN 1 ELSE 0)

\* Users have registered and linked identities before.
OAuthInit ==
    /\ provider = [p \in Providers |-> "enabled"]
    /\ flow = [n \in Flows |-> NoFlow]
    /\ states = {} /\ codes = {} /\ issued = 0
    /\ user \in [OAuthUsers -> {"absent", "oauth", "password"}]
    /\ account \in [Providers \X Names -> {NoAccount} \cup [user : OAuthUsers, id : {0}]]
    /\ \A u \in OAuthUsers :
        /\ \A p \in Providers : Cardinality(Linked(u, p)) <= 1
        /\ (user[u] = "absent") = (CountAuthMethods(u) = 0)
    /\ finished = [n \in Flows |-> {}]
    /\ shared = {} /\ excused = {}

-----------------------------------------------------------------------------
(* Beginning a flow *)

HandleInitiateLogin(r, p) ==
    /\ Begin(r, [pc |-> "initiate", id |-> begun + 1, provider |-> p, user |-> NoOne])
    /\ UNCHANGED oauthVars

HandleInitiateLink(r, p, u) ==
    /\ user[u] # "absent"
    /\ Begin(r, [pc |-> "initiate", id |-> begun + 1, provider |-> p, user |-> u])
    /\ UNCHANGED oauthVars

FindByName(p) == provider[p]
Enabled(p) == FindByName(p) = "enabled"

\* The entry and the verifier, under a fresh nonce.
CreateState(q) ==
    /\ flow' = [flow EXCEPT ![q.id] = [provider |-> q.provider, user |-> q.user]]
    /\ states' = states \cup {q.id}

\* The address has the nonce and the challenge.
InitiateLogin(r) ==
    LET q == req[r]
    IN  /\ At(r, "initiate")
        /\ IF Enabled(q.provider)
           THEN CreateState(q) ELSE UNCHANGED <<flow, states>>
        /\ Finish(r)
        /\ UNCHANGED <<provider, codes, issued, account, user, finished, shared, excused>>

\* Somebody agrees at the provider; the code is bound to the challenge.
Authorize(n, x) ==
    /\ flow[n] # NoFlow
    /\ issued < MaxCodes
    /\ issued' = issued + 1
    /\ codes' = codes \cup {[flow |-> n, name |-> x, number |-> issued + 1]}
    /\ UNCHANGED <<provider, flow, states, account, user, finished, shared, excused, requestVars>>

\* state_ttl has passed.
StateExpires(n) ==
    /\ n \in states
    /\ states' = states \ {n}
    /\ UNCHANGED <<provider, flow, codes, issued, account, user, finished, shared, excused, requestVars>>

-----------------------------------------------------------------------------
(* The callback *)

HandleCallback(r, p, n, c) ==
    /\ Begin(r, [pc |-> "getstate", id |-> begun + 1, provider |-> p, flow |-> n, code |-> c])
    /\ UNCHANGED oauthVars

\* ValidateState reads the entry ...
GetState(r) ==
    LET n == req[r].flow
        early == {s \in Others(r) : At(s, "delstate") /\ req[s].flow = n}
    IN  /\ At(r, "getstate")
        /\ IF n \in states
           THEN /\ Goto(r, "delstate")
                /\ shared' = IF early = {} THEN shared ELSE shared \cup {n}
           ELSE Finish(r) /\ UNCHANGED shared
        /\ UNCHANGED <<provider, flow, states, codes, issued, account, user, finished, excused>>

\* The provider is the one the flow was begun for, and enabled.
ProviderMatches(p, n) == flow[n].provider = p /\ Enabled(p)

AfterState(q) == IF ProviderMatches(q.provider, q.flow) THEN [q EXCEPT !.pc = "exchange"] ELSE Idle

\* Mutant of Consumed: the entry is left to expire.
ConsumedLater(n) == states

Consumed(n) == states \ {n}

\* ... and deletes it ...
DelState(r) ==
    /\ At(r, "delstate")
    /\ states' = Consumed(req[r].flow)
    /\ Become(r, AfterState(req[r]))
    /\ UNCHANGED <<provider, flow, codes, issued, account, user, finished, shared, excused>>

\* ... or goes on without that.
DelStateFails(r) ==
    /\ At(r, "delstate")
    /\ shared' = shared \cup {req[r].flow}
    /\ Stumble(r, AfterState(req[r]))
    /\ UNCHANGED <<provider, flow, states, codes, issued, account, user, finished, excused>>

\* The provider redeems a code once, at its own endpoint, for whoever shows
\* the verifier that belongs to the challenge.
Redeems(p, c, n) == c \in codes /\ flow[c.flow].provider = p /\ c.flow = n

ExchangeCode(r) ==
    LET q == req[r]
    IN  /\ At(r, "exchange")
        /\ IF Redeems(q.provider, q.code, q.flow)
           THEN /\ codes' = codes \ {q.code}
                /\ Become(r, [pc |-> "profile", id |-> q.id, provider |-> q.provider,
                              flow |-> q.flow, name |-> q.code.name, user |-> flow[q.flow].user])
           ELSE Finish(r) /\ UNCHANGED codes
        /\ UNCHANGED <<provider, flow, states, issued, account, user, finished, shared, excused>>

\* With the token, whose identity it is; what the flow was begun for.
FetchUserProfile(r) ==
    /\ At(r, "profile")
    /\ Goto(r, IF req[r].user = NoOne THEN "login" ELSE "link")
    /\ UNCHANGED oauthVars

Identity(q) == <<q.provider, q.name>>

Completes(q, u) ==
    finished' = [finished EXCEPT ![q.flow] = @ \cup {[name |-> q.name, user |-> u, by |-> q.id]}]

\* A known identity: tokens for its user.  Otherwise an address that the
\* provider has not verified, or that another user has, is refused.
HandleLoginIntent(r) ==
    LET q == req[r]
        known == account[Identity(q)].user
    IN  /\ At(r, "login")
        /\ \/ known # NoOne /\ Completes(q, known) /\ Finish(r)
           \/ known = NoOne /\ UNCHANGED finished /\ (Goto(r, "createuser") \/ Finish(r))
        /\ UNCHANGED <<provider, flow, states, codes, issued, account, user, shared, excused>>

\* With a password hash that matches nothing.
AutoCreateUser(r, u) ==
    /\ At(r, "createuser")
    /\ user[u] = "absent"
    /\ user' = [user EXCEPT ![u] = "oauth"]
    /\ Become(r, [req[r] EXCEPT !.pc = "createaccount", !.user = u])
    /\ UNCHANGED <<provider, flow, states, codes, issued, account, finished, shared, excused>>

\* The user is there, the identity is not another user's, and he has none
\* of this provider.
HandleLinkIntent(r) ==
    LET q == req[r]
    IN  /\ At(r, "link")
        /\ IF account[Identity(q)].user \in {NoOne, q.user} /\ Linked(q.user, q.provider) = {}
           THEN Goto(r, "createaccount") ELSE Finish(r)
        /\ UNCHANGED oauthVars

\* Both indexes admit the row, or the request ends with an error; a user
\* that was created for it stays.
CreateAccount(r) ==
    LET q == req[r]
    IN  /\ At(r, "createaccount")
        /\ IF account[Identity(q)] = NoAccount /\ Linked(q.user, q.provider) = {}
           THEN /\ account' = [account EXCEPT ![Identity(q)] = [user |-> q.user, id |-> q.id]]
                /\ Completes(q, q.user)
                /\ UNCHANGED excused
           ELSE /\ excused' = excused \cup {q.user}
                /\ UNCHANGED <<account, finished>>
        /\ Finish(r)
        /\ UNCHANGED <<provider, flow, states, codes, issued, user, shared>>

-----------------------------------------------------------------------------
(* Unlinking *)

Unlinking(r, u) ==
    \/ (At(r, "unlinkfind") \/ At(r, "unlinkcount")) /\ req[r].user = u
    \/ At(r, "unlink") /\ req[r].found.user = u

HandleUnlink(r, p, u) ==
    /\ user[u] # "absent"
    /\ Begin(r, [pc |-> "unlinkfind", provider |-> p, user |-> u])
    /\ excused' = IF \E s \in Others(r) : Unlinking(s, u) THEN excused \cup {u} ELSE excused
    /\ UNCHANGED <<provider, flow, states, codes, issued, account, user, finished, shared>>

\* The provider, though it may be disabled, and the user's account of it.
FindLink(r) ==
    LET q == req[r]
    IN  /\ At(r, "unlinkfind")
        /\ \/ /\ FindByName(q.provider) = "absent" \/ Linked(q.user, q.provider) = {}
              /\ Finish(r)
           \/ /\ FindByName(q.provider) # "absent"
              /\ \E x \in Linked(q.user, q.provider) :
                    Become(r, [pc |-> "unlinkcount", provider |-> q.provider, user |-> q.user,
                               name |-> x, found |-> account[<<q.provider, x>>]])
        /\ UNCHANGED oauthVars

\* Mutant of MayUnlink: at least one method, before the removal.
MayUnlinkLast(u) == CountAuthMethods(u) >= 1

MayUnlink(u) == CountAuthMethods(u) > 1

CountMethods(r) ==
    LET q == req[r]
    IN  /\ At(r, "unlinkcount")
        /\ IF MayUnlink(q.user)
           THEN Become(r, [pc |-> "unlink", provider |-> q.provider, name |-> q.name,
                           found |-> q.found])
           ELSE Finish(r)
        /\ UNCHANGED oauthVars

\* By the id of the account that was found.
UnlinkAccount(r) ==
    /\ At(r, "unlink")
    /\ account' = IF account[Identity(req[r])] = req[r].found
                  THEN [account EXCEPT ![Identity(req[r])] = NoAccount] ELSE account
    /\ Finish(r)
    /\ UNCHANGED <<provider, flow, states, codes, issued, user, finished, shared, excused>>

-----------------------------------------------------------------------------
(* Providers *)

HandleUpdateProvider(r, p) ==
    /\ Begin(r, [pc |-> "updateprovider", provider |-> p, row |-> provider[p]])
    /\ UNCHANGED oauthVars

\* FindByID, and the fields of the request: it may switch the provider.
UpdateProvider(r) ==
    LET p == req[r].provider
    IN  /\ At(r, "updateprovider")
        /\ IF provider[p] = "absent" THEN Finish(r)
           ELSE \E row \in {"enabled", "disabled"} :
                    Become(r, [req[r] EXCEPT !.pc = "saveprovider", !.row = row])
        /\ UNCHANGED oauthVars

\* Save writes the row as it was read, one deleted since then included.
SaveProvider(r) ==
    /\ At(r, "saveprovider")
    /\ provider' = [provider EXCEPT ![req[r].provider] = req[r].row]
    /\ Finish(r)
    /\ UNCHANGED <<flow, states, codes, issued, account, user, finished, shared, excused>>

CreateProvider(p) ==
    /\ provider[p] = "absent"
    /\ provider' = [provider EXCEPT ![p] = "enabled"]

HandleCreateProvider(p) ==
    /\ CreateProvider(p)
    /\ Serve
    /\ UNCHANGED <<flow, states, codes, issued, account, user, finished, shared, excused>>

\* Not one of the system.
DeleteProvider(p) ==
    /\ provider[p] # "absent"
    /\ provider' = [provider EXCEPT ![p] = "absent"]

HandleDeleteProvider(p) ==
    /\ DeleteProvider(p)
    /\ Serve
    /\ UNCHANGED <<flow, states, codes, issued, account, user, finished, shared, excused>>

-----------------------------------------------------------------------------

\* A callback that breaks off after creating a user leaves him behind.
AbortOAuth(r) ==
    /\ Abort(r)
    /\ excused' = IF At(r, "createaccount") THEN excused \cup {req[r].user} ELSE excused
    /\ UNCHANGED <<provider, flow, states, codes, issued, account, user, finished, shared>>

OAuthNext ==
    \/ \E r \in Slots :
        \/ \E p \in Providers :
            \/ HandleInitiateLogin(r, p) \/ HandleUpdateProvider(r, p)
            \/ \E u \in OAuthUsers : HandleInitiateLink(r, p, u) \/ HandleUnlink(r, p, u)
            \/ \E n \in Flows, c \in codes : flow[n] # NoFlow /\ HandleCallback(r, p, n, c)
        \/ InitiateLogin(r)
        \/ GetState(r) \/ DelState(r) \/ DelStateFails(r) \/ ExchangeCode(r) \/ FetchUserProfile(r)
        \/ HandleLoginIntent(r) \/ HandleLinkIntent(r) \/ CreateAccount(r)
        \/ \E u \in OAuthUsers : AutoCreateUser(r, u)
        \/ FindLink(r) \/ CountMethods(r) \/ UnlinkAccount(r)
        \/ UpdateProvider(r) \/ SaveProvider(r)
        \/ AbortOAuth(r)
    \/ \E n \in Flows : StateExpires(n) \/ \E x \in Names : Authorize(n, x)
    \/ \E p \in Providers : HandleCreateProvider(p) \/ HandleDeleteProvider(p)

-----------------------------------------------------------------------------
(* Properties *)

\* A flow is completed once, unless two callbacks have read its entry or
\* its deletion failed (service/oauth_state.go:143-161), and a flow begun to
\* link is completed for the user who began it: codes and nonces of flows in
\* progress may be mixed up.
FlowsStayApart ==
    \A n \in Flows :
        /\ n \in shared \/ Cardinality(finished[n]) <= 1
        /\ flow[n].user # NoOne => \A f \in finished[n] : f.user = flow[n].user

\* A user keeps a way to log in, a password or an identity in his list, whatever
\* is linked and unlinked meanwhile (http/handler/oauth_account.go:98),
\* but for two unlinkings of his at a time and a creation that broke off.
AMethodRemains ==
    \A u \in OAuthUsers :
        \/ user[u] = "absent" \/ u \in excused
        \/ user[u] = "password" \/ ListLinkedAccounts(u) # {}
        \/ \E r \in Slots : At(r, "createaccount") /\ req[r].user = u

\* Logging in by a provider keeps flows and methods apart: FlowsStayApart and
\* AMethodRemains.
ProvidersLoginSafely == FlowsStayApart /\ AMethodRemains

\* Why: while the entry of a flow is there nobody has got past it, and one callback
\* at a time has it in hand, unless two have read it or a deletion failed, ...
Reading(n) == {r \in Slots : At(r, "delstate") /\ req[r].flow = n}
Past(n) ==
    {r \in Slots :
        /\ req[r].pc \in {"exchange", "profile", "login", "createuser", "link", "createaccount"}
        /\ req[r].flow = n}

FlowIsTakenOnce(n) ==
    n \notin shared =>
        /\ \A r, s \in Reading(n) \cup Past(n) : r = s
        /\ n \in states => Past(n) = {}
        /\ n \in states \/ Reading(n) \cup Past(n) # {} => finished[n] = {}
        /\ \A f, g \in finished[n] : f = g

\* ... a flow that is in use has begun, under a nonce of its own, ...
FlowsHaveBegun ==
    /\ \A n \in Flows :
        /\ n > begun => flow[n] = NoFlow
        /\ n \in states \/ Reading(n) \cup Past(n) # {} \/ finished[n] # {} => flow[n] # NoFlow
    /\ \A r \in Slots :
        /\ At(r, "getstate") => flow[req[r].flow] # NoFlow
        /\ At(r, "initiate") =>
            /\ req[r].id <= begun /\ flow[req[r].id] = NoFlow
            /\ \A s \in Others(r) : At(s, "initiate") => req[s].id # req[r].id

\* ... what a callback goes on for is what the flow was begun for, ...
CallbacksKeepTheirUser ==
    \A r \in Slots :
        /\ At(r, "profile") => req[r].user = flow[req[r].flow].user
        /\ At(r, "link") => req[r].user = flow[req[r].flow].user /\ req[r].user # NoOne
        /\ At(r, "login") \/ At(r, "createuser") => flow[req[r].flow].user = NoOne
        /\ At(r, "createaccount") =>
            req[r].user # NoOne /\ flow[req[r].flow].user \in {NoOne, req[r].user}

\* ... and who unlinks an identity, alone, has been found to have another method.
AnotherMethod(u, i) == user[u] = "password" \/ ListLinkedAccounts(u) \ {i} # {}

UnlinkersAreChecked ==
    /\ \A r \in Slots : At(r, "unlinkcount") => req[r].found.user = req[r].user
    /\ \A u \in OAuthUsers : u \notin excused =>
        \A r \in Slots : Unlinking(r, u) =>
            /\ \A s \in Others(r) : ~Unlinking(s, u)
            /\ At(r, "unlink") => AnotherMethod(u, Identity(req[r]))

OAuthInv ==
    /\ OAuthTypeOK
    /\ \A n \in Flows : FlowIsTakenOnce(n)
    /\ FlowsHaveBegun
    /\ CallbacksKeepTheirUser
    /\ UnlinkersAreChecked
    /\ FlowsStayApart
    /\ AMethodRemains

OAuthSpec == OAuthInit /\ RequestsInit /\ [][OAuthNext]_<<oauthVars, requestVars>>
=============================================================================
