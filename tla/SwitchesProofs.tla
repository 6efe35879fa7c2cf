---------------------------- MODULE SwitchesProofs ----------------------------
(***************************************************************************)
(* Proofs about what administrators and members set, one section per       *)
(* component: settings, feature flags and webhooks.  Each has an inductive *)
(* invariant that gives its promises for any number of requests, rows and  *)
(* errors, and what the run content checks of the three is put together    *)
(* from them.  ContentProofs goes on with what they write.                 *)
(***************************************************************************)
EXTENDS MCContent, FiniteSetTheorems, SequenceTheorems, TLAPS

-----------------------------------------------------------------------------
(* Rows, events and sets *)

\* A row is written, ...
LEMMA RowOfASequence ==
    ASSUME NEW S, NEW s \in Seq(S), NEW n \in DOMAIN s, NEW e \in S
    PROVE  LET t == [s EXCEPT ![n] = e]
           IN  /\ t \in Seq(S) /\ Len(t) = Len(s) /\ DOMAIN t = DOMAIN s
               /\ t[n] = e /\ \A m \in DOMAIN s : m # n => t[m] = s[m]
<1>1. DOMAIN s = 1..Len(s)
  OBVIOUS
<1>2. [s EXCEPT ![n] = e] \in Seq(S) /\ Len([s EXCEPT ![n] = e]) = Len(s)
  BY <1>1, ExceptSeq
<1> QED BY <1>1, <1>2

\* ... and a row is added.
LEMMA LongerSequence ==
    ASSUME NEW S, NEW s \in Seq(S), NEW e \in S
    PROVE  LET t == Append(s, e)
               new == Len(s) + 1
           IN  /\ t \in Seq(S) /\ Len(t) = new /\ DOMAIN t = DOMAIN s \cup {new}
               /\ new \notin DOMAIN s /\ t[new] = e
               /\ \A m \in DOMAIN s : t[m] = s[m]
<1>1. Append(s, e) \in Seq(S) /\ Len(Append(s, e)) = Len(s) + 1 /\ Len(s) \in Nat
  OBVIOUS
<1>2. DOMAIN s = 1..Len(s) /\ DOMAIN Append(s, e) = 1..(Len(s) + 1)
  BY <1>1
<1>3. Append(s, e)[Len(s) + 1] = e /\ \A m \in 1..Len(s) : Append(s, e)[m] = s[m]
  OBVIOUS
<1> QED BY <1>1, <1>2, <1>3

\* One event more is owed, or one less.
LEMMA AccountsOfEvents ==
    ASSUME NEW done \in Nat, NEW due \in Nat, NEW owing, NEW r,
           NEW f \in Nat, NEW g \in {f, f + 1}, Accounted(done, due, owing, f)
    PROVE  /\ r \notin owing \/ g = f + 1 => Accounted(done, due, owing \ {r}, g)
           /\ r \in owing => Accounted(done + 1, due, owing \ {r}, g)
           /\ r \notin owing => Accounted(done, due + 1, owing \cup {r}, g)
<1>1. /\ IsFiniteSet(owing) /\ Cardinality(owing) \in Nat
      /\ IsFiniteSet(owing \ {r}) /\ IsFiniteSet(owing \cup {r})
      /\ r \in owing => Cardinality(owing \ {r}) = Cardinality(owing) - 1
      /\ r \notin owing => /\ Cardinality(owing \cup {r}) = Cardinality(owing) + 1
                           /\ Cardinality(owing \ {r}) = Cardinality(owing)
  <2>1. r \notin owing => owing \ {r} = owing
    OBVIOUS
  <2> QED BY <2>1, FS_CardinalityType, FS_AddElement, FS_RemoveElement DEF Accounted
<1> QED BY <1>1 DEF Accounted

\* A set whose members are equal has at most one.
LEMMA OneAtMost ==
    ASSUME NEW S, \A v, w \in S : v = w
    PROVE  Cardinality(S) <= 1
<1>1. CASE S = {}
  BY <1>1, FS_EmptySet
<1>2. CASE S # {}
  <2>1. PICK w \in S : TRUE
    BY <1>2
  <2>2. S = {w}
    BY <2>1
  <2>3. Cardinality({w}) = 1
    BY FS_Singleton
  <2> QED BY <2>2, <2>3
<1> QED BY <1>1, <1>2

\* A set has one member more or less.
LEMMA OneMoreOrLess ==
    ASSUME NEW S, IsFiniteSet(S), NEW x
    PROVE  /\ Cardinality(S) \in Nat /\ IsFiniteSet(S \cup {x}) /\ IsFiniteSet(S \ {x})
           /\ Cardinality(S \cup {x}) = IF x \in S THEN Cardinality(S) ELSE Cardinality(S) + 1
           /\ Cardinality(S \ {x}) = IF x \in S THEN Cardinality(S) - 1 ELSE Cardinality(S)
<1>1. x \notin S => S \ {x} = S
  OBVIOUS
<1>2. x \in S => S \cup {x} = S
  OBVIOUS
<1> QED BY <1>1, <1>2, FS_CardinalityType, FS_AddElement, FS_RemoveElement

-----------------------------------------------------------------------------
(* Settings *)

\* Merging two objects gives one with the keys of both.
LEMMA OverIsTyped ==
    ASSUME NEW a \in Objects, NEW b \in Objects
    PROVE  /\ Over(a, b) \in Objects
           /\ DOMAIN Over(a, b) = DOMAIN a \cup DOMAIN b
           /\ \A k \in DOMAIN b : Over(a, b)[k] = b[k]
           /\ \A k \in DOMAIN a \ DOMAIN b : Over(a, b)[k] = a[k]
<1>1. DOMAIN a \subseteq Keys /\ DOMAIN b \subseteq Keys
      /\ (\A k \in DOMAIN a : a[k] \in Value) /\ \A k \in DOMAIN b : b[k] \in Value
  BY DEF Objects
<1>2. PICK K : K = DOMAIN a \cup DOMAIN b
  OBVIOUS
<1>3. PICK f : f = Over(a, b)
  OBVIOUS
<1>4. f = [k \in K |-> IF k \in DOMAIN b THEN b[k] ELSE a[k]]
  BY <1>2, <1>3 DEF Over
<1>5. f \in [K -> Value] /\ K \in SUBSET Keys
  BY <1>1, <1>2, <1>4
<1>6. f \in Objects
  BY <1>5 DEF Objects
<1> QED BY <1>2, <1>3, <1>4, <1>6

\* The same as one fact.
IsMerge(f, a, b) ==
    /\ DOMAIN f = DOMAIN a \cup DOMAIN b
    /\ \A k \in DOMAIN b : f[k] = b[k]
    /\ \A k \in DOMAIN a \ DOMAIN b : f[k] = a[k]

\* Over gives such an object.
LEMMA MergedObject ==
    ASSUME NEW a \in Objects, NEW b \in Objects
    PROVE  IsMerge(Over(a, b), a, b)
BY OverIsTyped DEF IsMerge

\* The object before the first update.
LEMMA NoKeysIsTyped == NoKeys \in Objects /\ \A o \in Owners : IsOwn(NoKeys, o)
<1>1. NoKeys \in [{} -> Value] /\ DOMAIN NoKeys = {}
  BY DEF NoKeys
<1> QED BY <1>1 DEF Objects, IsOwn

\* An owner's keys over an owner's keys are his.
LEMMA OverIsOwn ==
    ASSUME NEW a \in Objects, NEW b \in Objects, NEW o, IsOwn(a, o), IsOwn(b, o)
    PROVE  IsOwn(Over(a, b), o)
<1>1. PICK f : f = Over(a, b)
  OBVIOUS
<1>2. IsMerge(f, a, b)
  BY <1>1, MergedObject
<1>3. IsOwn(f, o)
  BY <1>2 DEF IsOwn, IsMerge
<1> QED BY <1>1, <1>3

\* The fields of a request, and what it becomes.
LEMMA SettingsRequestsAreTyped ==
    /\ Idle \notin SettingsRequest /\ Idle.pc = "idle"
    /\ \A q \in SettingsRequest :
        /\ q.pc \in {"readsettings", "upsert"} /\ q.owner \in Owners
        /\ q.updates \in Objects /\ q.object \in Objects
        /\ \A object \in Objects :
            LET s == [q EXCEPT !.pc = "upsert", !.object = object]
            IN  /\ s \in SettingsRequest /\ s.pc = "upsert" /\ s.owner = q.owner
                /\ s.updates = q.updates /\ s.object = object
    /\ \A o \in Owners, updates \in Objects :
        [pc |-> "readsettings", owner |-> o, updates |-> updates, object |-> NoKeys]
            \in SettingsRequest
<1>1. Idle \notin SettingsRequest /\ Idle.pc = "idle"
  BY DEF Idle, SettingsRequest
<1>2. ASSUME NEW q \in SettingsRequest
      PROVE  /\ q.pc \in {"readsettings", "upsert"} /\ q.owner \in Owners
             /\ q.updates \in Objects /\ q.object \in Objects
  BY DEF SettingsRequest
<1>3. ASSUME NEW q \in SettingsRequest, NEW object \in Objects
      PROVE  LET s == [q EXCEPT !.pc = "upsert", !.object = object]
             IN  /\ s \in SettingsRequest /\ s.pc = "upsert" /\ s.owner = q.owner
                 /\ s.updates = q.updates /\ s.object = object
  BY DEF SettingsRequest
<1>4. ASSUME NEW o \in Owners, NEW updates \in Objects
      PROVE  [pc |-> "readsettings", owner |-> o, updates |-> updates, object |-> NoKeys]
                \in SettingsRequest
  BY NoKeysIsTyped DEF SettingsRequest
<1> QED BY <1>1, <1>2, <1>3, <1>4

\* Request r becomes q, which is none or knows what it may.
SettingsGoOn(r, q) ==
    /\ q \in SettingsRequest \cup {Idle}
    /\ req' = [req EXCEPT ![r] = q]
    /\ begun' \in 0..MaxRequests /\ faults' \in 0..MaxFaults
    /\ MergedIsCurrent(q)
    /\ UNCHANGED settingsVars

\* Every step but that of the write is of this form.
LEMMA SettingsSteps ==
    ASSUME SettingsInv, SettingsNext
    PROVE  \E r \in Slots : UpsertSettings(r) \/ \E q : SettingsGoOn(r, q)
<1> USE DEF SettingsInv
<1>1. /\ begun \in 0..MaxRequests /\ MaxRequests \in Nat /\ faults \in 0..MaxFaults
      /\ MaxFaults \in Nat
  BY RequestBoundsAssumption DEF SettingsTypeOK, RequestsAre
<1>2. PICK r \in Slots :
        \/ \E u \in Members, K \in SUBSET Keys \ {{}} : HandleUpdateUserSettings(r, u, K)
        \/ \E K \in SUBSET Keys \ {{}} : HandleUpdateSystemSettings(r, K)
        \/ UpdateUserSettings(r) \/ UpdateSystemSettings(r) \/ UpsertSettings(r)
        \/ Abort(r) /\ UNCHANGED settingsVars
  BY DEF SettingsNext
<1>3. req[r] \in SettingsRequest \cup {Idle} /\ MergedIsCurrent(req[r])
  BY DEF SettingsTypeOK, RequestsAre
<1>4. MergedIsCurrent(Idle)
  BY SettingsRequestsAreTyped DEF MergedIsCurrent
<1>5. ASSUME NEW o \in Owners, NEW K \in SUBSET Keys,
             K \subseteq IF o = "system" THEN SystemKeys ELSE UserKeys,
             Begin(r, SettingsCall(o, K)), UNCHANGED settingsVars
      PROVE  \E q : SettingsGoOn(r, q)
  <2>1. PICK updates : updates = [k \in K |-> begun + 1]
    OBVIOUS
  <2>2. begun + 1 \in Value /\ begun + 1 # 0 /\ begun' \in 0..MaxRequests /\ faults' = faults
    BY <1>1, <1>5 DEF Begin, Value
  <2>3. updates \in Objects /\ IsOwn(updates, o)
    BY <1>5, <2>1, <2>2 DEF Objects, IsOwn
  <2>4. PICK q : q = [pc |-> "readsettings", owner |-> o, updates |-> updates,
                      object |-> NoKeys]
    OBVIOUS
  <2>5. q \in SettingsRequest
    BY <2>3, <2>4, SettingsRequestsAreTyped
  <2>6. MergedIsCurrent(q)
    BY <2>3, <2>4 DEF MergedIsCurrent
  <2>7. req' = [req EXCEPT ![r] = q]
    BY <1>5, <2>1, <2>4 DEF Begin, SettingsCall
  <2> QED BY <1>1, <1>5, <2>2, <2>5, <2>6, <2>7 DEF SettingsGoOn
<1>6. ASSUME NEW u \in Members, NEW K \in SUBSET Keys, HandleUpdateUserSettings(r, u, K)
      PROVE  \E q : SettingsGoOn(r, q)
  BY <1>5, <1>6, MembersAssumption DEF HandleUpdateUserSettings, UserKeysOnly, Owners
<1>7. ASSUME NEW K \in SUBSET Keys, HandleUpdateSystemSettings(r, K)
      PROVE  \E q : SettingsGoOn(r, q)
  BY <1>5, <1>7 DEF HandleUpdateSystemSettings, SystemKeysOnly, Owners
<1>8. ASSUME UpdateUserSettings(r) \/ UpdateSystemSettings(r) PROVE \E q : SettingsGoOn(r, q)
  <2>1. req[r] \in SettingsRequest /\ At(r, "readsettings")
    BY <1>3, <1>8, SettingsRequestsAreTyped
    DEF UpdateUserSettings, UpdateSystemSettings, At
  <2>2. PICK o : o = req[r].owner
    OBVIOUS
  <2>3. o \in Owners /\ IsOwn(req[r].updates, o) /\ IsOwn(kept[o], o)
        /\ req[r].updates \in Objects /\ kept[o] \in Objects
    BY <1>3, <2>1, <2>2, SettingsRequestsAreTyped
    DEF At, MergedIsCurrent, KeptIsOwn, SettingsTypeOK
  <2>4. PICK object : object = Over(kept[o], req[r].updates)
    OBVIOUS
  <2>5. object \in Objects /\ IsOwn(object, o)
    BY <2>3, <2>4, OverIsTyped, OverIsOwn
  <2>6. PICK q : q = [req[r] EXCEPT !.pc = "upsert", !.object = object]
    OBVIOUS
  <2>7. /\ q \in SettingsRequest /\ q.pc = "upsert" /\ q.owner = o
        /\ q.updates = req[r].updates /\ q.object = object
    BY <2>1, <2>2, <2>5, <2>6, SettingsRequestsAreTyped
  <2>8. req' = [req EXCEPT ![r] = q] /\ UNCHANGED <<begun, faults, settingsVars>>
    BY <1>8, <2>2, <2>4, <2>6
    DEF UpdateUserSettings, UpdateSystemSettings, Become, Merged, FindByUserIDAndOrgID,
        FindByOrgID
  <2>9. MergedIsCurrent(q)
    BY <2>3, <2>4, <2>5, <2>7 DEF MergedIsCurrent
  <2> QED BY <1>1, <2>7, <2>8, <2>9 DEF SettingsGoOn
<1>9. ASSUME Abort(r), UNCHANGED settingsVars PROVE \E q : SettingsGoOn(r, q)
  <2>1. req' = [req EXCEPT ![r] = Idle] /\ begun' = begun /\ faults' \in 0..MaxFaults
    BY <1>1, <1>9 DEF Abort, Stumble
  <2> QED BY <1>1, <1>4, <1>9, <2>1 DEF SettingsGoOn
<1> QED BY <1>2, <1>6, <1>7, <1>8, <1>9

\* The write: the row is what the request holds, and others that hold one are known.
LEMMA SettingsAreUpserted ==
    ASSUME SettingsInv, NEW r \in Slots, UpsertSettings(r)
    PROVE  SettingsInv'
<1> USE DEF SettingsInv
<1>1. req[r] \in SettingsRequest /\ req[r].pc = "upsert" /\ MergedIsCurrent(req[r])
  BY SettingsRequestsAreTyped DEF UpsertSettings, At, SettingsTypeOK, RequestsAre
<1>2. PICK o, object, updates :
        o = req[r].owner /\ object = req[r].object /\ updates = req[r].updates
  OBVIOUS
<1>3. o \in Owners /\ object \in Objects /\ updates \in Objects /\ IsOwn(object, o)
      /\ (o \notin merged => object = Over(kept[o], updates))
  BY <1>1, <1>2, SettingsRequestsAreTyped DEF MergedIsCurrent
<1>4. /\ req' = [req EXCEPT ![r] = Idle] /\ UNCHANGED <<begun, faults>>
      /\ kept' = [kept EXCEPT ![o] = object]
      /\ sent' = [sent EXCEPT ![o] = Over(@, updates)]
  BY <1>2 DEF UpsertSettings, Upsert, Finish, Become
<1>5. /\ merged \subseteq merged' /\ merged' \subseteq merged \cup {o}
      /\ o \notin merged' => \A s \in Slots \ {r} : ~(req[s].pc = "upsert" /\ req[s].owner = o)
  BY <1>2 DEF UpsertSettings, Others, At
<1>6. kept \in [Owners -> Objects] /\ sent \in [Owners -> Objects] /\ merged \subseteq Owners
      /\ req \in [Slots -> SettingsRequest \cup {Idle}]
  BY DEF SettingsTypeOK, RequestsAre
<1>7. SettingsTypeOK'
  <2>1. Over(sent[o], updates) \in Objects
    BY <1>3, <1>6, OverIsTyped
  <2>2. kept' \in [Owners -> Objects] /\ sent' \in [Owners -> Objects]
    BY <1>3, <1>4, <1>6, <2>1
  <2>3. RequestsAre(SettingsRequest)'
    BY <1>4, <1>6 DEF SettingsTypeOK, RequestsAre
  <2> QED BY <1>3, <1>5, <1>6, <2>2, <2>3 DEF SettingsTypeOK
<1>8. KeptIsOwn'
  BY <1>3, <1>4, <1>6 DEF KeptIsOwn
<1>9. SentIsKept'
  <2> SUFFICES ASSUME NEW a \in Owners \ merged' PROVE kept'[a] = sent'[a]
    BY DEF SentIsKept
  <2>1. kept[a] = sent[a] /\ a \notin merged
    BY <1>5 DEF SentIsKept
  <2>2. CASE a = o
    BY <1>3, <1>4, <1>6, <2>1, <2>2
  <2>3. CASE a # o
    BY <1>4, <1>6, <2>1, <2>3
  <2> QED BY <2>2, <2>3
<1>10. ASSUME NEW s \in Slots PROVE MergedIsCurrent(req[s])'
  <2>1. CASE s = r
    <3>1. req'[s] = Idle
      BY <1>4, <1>6, <2>1
    <3> QED BY <3>1, SettingsRequestsAreTyped DEF MergedIsCurrent
  <2>2. CASE s # r
    <3>1. req'[s] = req[s] /\ MergedIsCurrent(req[s])
      BY <1>4, <1>6, <2>2
    <3>2. ASSUME req[s].pc = "upsert", req[s].owner \notin merged'
          PROVE  req[s].owner \notin merged /\ kept'[req[s].owner] = kept[req[s].owner]
      BY <1>4, <1>5, <1>6, <2>2, <3>2
    <3> QED BY <3>1, <3>2 DEF MergedIsCurrent
  <2> QED BY <2>1, <2>2
<1> QED BY <1>7, <1>8, <1>9, <1>10

\* Every step keeps the invariant.
LEMMA SettingsInvSteps ==
    SettingsInv /\ [SettingsNext]_<<settingsVars, requestVars>> => SettingsInv'
<1>1. ASSUME SettingsInv, NEW r \in Slots, NEW q, SettingsGoOn(r, q) PROVE SettingsInv'
  <2>1. req \in [Slots -> SettingsRequest \cup {Idle}]
    BY <1>1 DEF SettingsInv, SettingsTypeOK, RequestsAre
  <2>2. /\ req' \in [Slots -> SettingsRequest \cup {Idle}]
        /\ req'[r] = q /\ \A s \in Slots \ {r} : req'[s] = req[s]
    BY <1>1, <2>1 DEF SettingsGoOn
  <2>3. SettingsTypeOK'
    BY <1>1, <2>2 DEF SettingsGoOn, SettingsInv, SettingsTypeOK, RequestsAre, settingsVars
  <2>4. KeptIsOwn' /\ SentIsKept'
    BY <1>1 DEF SettingsGoOn, SettingsInv, KeptIsOwn, SentIsKept, settingsVars
  <2>5. ASSUME NEW s \in Slots PROVE MergedIsCurrent(req[s])'
    <3>1. MergedIsCurrent(req'[s])
      BY <1>1, <2>2 DEF SettingsGoOn, SettingsInv
    <3> QED BY <1>1, <3>1 DEF SettingsGoOn, MergedIsCurrent, settingsVars
  <2> QED BY <2>3, <2>4, <2>5 DEF SettingsInv
<1>2. ASSUME SettingsInv, UNCHANGED <<settingsVars, requestVars>> PROVE SettingsInv'
  BY <1>2
  DEF SettingsInv, SettingsTypeOK, RequestsAre, KeptIsOwn, SentIsKept, MergedIsCurrent,
      settingsVars, requestVars
<1> QED BY <1>1, <1>2, SettingsSteps, SettingsAreUpserted

\* There is no row yet.
LEMMA SettingsStart == SettingsInit /\ RequestsInit => SettingsInv
<1> SUFFICES ASSUME SettingsInit, RequestsInit PROVE SettingsInv
  OBVIOUS
<1>1. SettingsTypeOK
  BY NoKeysIsTyped, RequestBoundsAssumption
  DEF SettingsInit, RequestsInit, SettingsTypeOK, RequestsAre
<1>2. KeptIsOwn /\ SentIsKept
  BY NoKeysIsTyped DEF SettingsInit, KeptIsOwn, SentIsKept
<1>3. \A r \in Slots : MergedIsCurrent(req[r])
  BY SettingsRequestsAreTyped DEF RequestsInit, MergedIsCurrent
<1> QED BY <1>1, <1>2, <1>3 DEF SettingsInv

\* What is shown follows from what is stored.
LEMMA SettingsAreShown == SettingsInv => SettingsHold
<1> SUFFICES ASSUME SettingsInv PROVE SettingsHold
  OBVIOUS
<1>1. /\ "system" \in Owners /\ Members \subseteq Owners
      /\ \A u \in Members : u # "system"
  BY MembersAssumption DEF Owners
<1>2. \A o \in Owners : kept[o] \in Objects /\ IsOwn(kept[o], o)
      /\ (o \notin merged => kept[o] = sent[o])
  BY DEF SettingsInv, SettingsTypeOK, KeptIsOwn, SentIsKept
<1>3. UpdatesStand
  BY <1>1, <1>2 DEF UpdatesStand, GetUserSettings, FindByUserIDAndOrgID, GetSystemSettings,
                    FindByOrgID
<1>4. PICK system : system = GetSystemSettings
  OBVIOUS
<1>5. /\ system \in Objects /\ DOMAIN system \subseteq SystemKeys \cup FixedKeys
      /\ FindByOrgID = NoKeys => /\ DOMAIN system = SystemKeys \cup FixedKeys
                                 /\ \A k \in DOMAIN system : system[k] = 0
      /\ FindByOrgID # NoKeys => \A k \in DOMAIN system : system[k] # 0
  <2>1. CASE FindByOrgID = NoKeys
    <3>1. system = [k \in SystemKeys \cup FixedKeys |-> 0]
      BY <1>4, <2>1 DEF GetSystemSettings, DefaultSystemSettings
    <3>2. 0 \in Value /\ SystemKeys \cup FixedKeys \in SUBSET Keys
      BY RequestBoundsAssumption DEF Value, Keys
    <3>3. system \in Objects
      BY <3>1, <3>2 DEF Objects
    <3> QED BY <2>1, <3>1, <3>3
  <2>2. CASE FindByOrgID # NoKeys
    <3>1. system = kept["system"]
      BY <1>4, <2>2 DEF GetSystemSettings, FindByOrgID
    <3> QED BY <1>1, <1>2, <2>2, <3>1 DEF IsOwn
  <2> QED BY <2>1, <2>2
<1>6. ASSUME NEW u \in Members
      PROVE  LET shown == GetEffectiveSettings(u)
             IN  /\ DOMAIN shown = DOMAIN system \cup DOMAIN kept[u]
                 /\ DOMAIN kept[u] \subseteq UserKeys
                 /\ \A k \in DOMAIN kept[u] : shown[k] = kept[u][k]
                 /\ \A k \in DOMAIN system \ DOMAIN kept[u] : shown[k] = system[k]
  <2>1. kept[u] \in Objects /\ DOMAIN kept[u] \subseteq UserKeys
    BY <1>1, <1>2 DEF IsOwn
  <2>2. GetEffectiveSettings(u) = Over(system, kept[u])
    BY <1>4 DEF GetEffectiveSettings, FindByUserIDAndOrgID
  <2>3. PICK shown : shown = Over(system, kept[u])
    OBVIOUS
  <2>4. IsMerge(shown, system, kept[u])
    BY <1>5, <2>1, <2>3, MergedObject
  <2> QED BY <2>1, <2>2, <2>3, <2>4 DEF IsMerge
<1>7. UsersSetTheirOwn
  <2> SUFFICES ASSUME NEW u \in Members, NEW k \in DOMAIN GetEffectiveSettings(u)
      PROVE  LET value == GetEffectiveSettings(u)[k]
             IN  IF k \in UserKeys THEN value = GetUserSettings(u)[k]
                 ELSE k \in DOMAIN GetSystemSettings /\ value = GetSystemSettings[k]
    BY DEF UsersSetTheirOwn
  <2>1. k \in UserKeys => k \notin DOMAIN system
    BY <1>5, KeysAssumption
  <2> QED BY <1>4, <1>6, <2>1 DEF GetUserSettings, FindByUserIDAndOrgID
<1>8. DefaultsUntilFirstUpdate
  <2> SUFFICES ASSUME NEW u \in Members, NEW k \in SystemKeys \cup FixedKeys
      PROVE  k \in DOMAIN GetEffectiveSettings(u) /\ GetEffectiveSettings(u)[k] = 0
                <=> FindByOrgID = NoKeys
    BY DEF DefaultsUntilFirstUpdate
  <2>1. k \notin DOMAIN kept[u]
    BY <1>6, KeysAssumption
  <2> QED BY <1>5, <1>6, <2>1
<1> QED BY <1>3, <1>7, <1>8 DEF SettingsHold

\* SettingsHold: what was acknowledged is shown until another update of its key, unless two
\* updates of a row overlapped; users set their own keys; the defaults are in effect until the
\* first update: service/settings.go, for any users, keys and requests.
THEOREM SettingsAlwaysHold == SettingsSpec => []SettingsHold
BY SettingsStart, SettingsInvSteps, SettingsAreShown, PTL DEF SettingsSpec

-----------------------------------------------------------------------------
(* Feature flags *)

\* One field of a row is set, ...
LEMMA WithIsTyped ==
    ASSUME NEW row \in Flag, NEW q, q.row \in Flag,
           q.field \in {"enabled", "rollout", "conditions"}
    PROVE  /\ With(row, q) \in Flag
           /\ With(row, q).deleted = row.deleted /\ With(row, q).system = row.system
<1>1. CASE q.field = "enabled"
  <2>1. With(row, q) = [row EXCEPT !.enabled = q.row.enabled]
    BY <1>1 DEF With
  <2> QED BY <2>1 DEF Flag
<1>2. CASE q.field = "rollout"
  <2>1. With(row, q) = [row EXCEPT !.rollout = q.row.rollout]
    BY <1>2 DEF With
  <2> QED BY <2>1 DEF Flag
<1>3. CASE q.field = "conditions"
  <2>1. With(row, q) = [row EXCEPT !.conditions = q.row.conditions]
    BY <1>3 DEF With
  <2> QED BY <2>1 DEF Flag
<1> QED BY <1>1, <1>2, <1>3

\* ... it is deleted, ...
LEMMA FlagsAreTyped ==
    ASSUME NEW row \in Flag
    PROVE  /\ row.system \in BOOLEAN /\ row.deleted \in BOOLEAN
           /\ LET x == [row EXCEPT !.deleted = TRUE]
              IN  x \in Flag /\ x.deleted /\ x.system = row.system
BY DEF Flag

\* ... or created: what is stored is what is given for what was asked.
LEMMA CreatedAreTyped ==
    ASSUME NEW asked \in Flag, NEW row, NEW want,
           row = [asked EXCEPT !.rollout = IF @ = 0 THEN Full ELSE @],
           want = [asked EXCEPT !.rollout = IF @ = 0 THEN Unnamed ELSE @]
    PROVE  /\ row \in Flag /\ row.deleted = asked.deleted /\ row.system = asked.system
           /\ want \in AskedFlag /\ row = Given(want)
<1>1. Full \in Nat /\ Full \in 0..Full
  BY FullAssumption
<1>2. asked.rollout \in 0..Full /\ asked.rollout # Unnamed
  BY <1>1 DEF Flag, Unnamed
<1>3. CASE asked.rollout = 0
  <2>1. /\ row = [asked EXCEPT !.rollout = Full]
        /\ want = [asked EXCEPT !.rollout = Unnamed]
    BY <1>3
  <2>2. Given(want) = [want EXCEPT !.rollout = Full]
    BY <2>1 DEF Given, Flag
  <2> QED BY <1>1, <2>1, <2>2 DEF Flag, AskedFlag
<1>4. CASE asked.rollout # 0
  <2>1. row = asked /\ want = asked
    BY <1>4 DEF Flag
  <2>2. Given(want) = want
    BY <1>2, <2>1 DEF Given, Flag
  <2> QED BY <1>2, <2>1, <2>2 DEF Flag, AskedFlag
<1> QED BY <1>3, <1>4

\* What is given for what was asked follows each change of it: of a field, ...
LEMMA GivenIsSet ==
    ASSUME NEW want \in AskedFlag, NEW q, q.row \in Flag,
           q.field \in {"enabled", "rollout", "conditions"}
    PROVE  With(want, q) \in AskedFlag /\ Given(With(want, q)) = With(Given(want), q)
<1>1. Full \in Nat /\ q.row.rollout \in 0..Full /\ q.row.rollout # Unnamed
  BY FullAssumption DEF Flag, Unnamed
<1>2. CASE q.field = "enabled"
  <2>1. \A x : With(x, q) = [x EXCEPT !.enabled = q.row.enabled]
    BY <1>2 DEF With
  <2> QED BY <2>1 DEF AskedFlag, Flag, Given
<1>3. CASE q.field = "rollout"
  <2>1. \A x : With(x, q) = [x EXCEPT !.rollout = q.row.rollout]
    BY <1>3 DEF With
  <2> QED BY <1>1, <2>1 DEF AskedFlag, Flag, Given
<1>4. CASE q.field = "conditions"
  <2>1. \A x : With(x, q) = [x EXCEPT !.conditions = q.row.conditions]
    BY <1>4 DEF With
  <2> QED BY <2>1 DEF AskedFlag, Flag, Given
<1> QED BY <1>2, <1>3, <1>4

\* ... and of the mark of deletion.
LEMMA GivenIsDropped ==
    ASSUME NEW want \in AskedFlag, NEW x, x = [want EXCEPT !.deleted = TRUE]
    PROVE  x \in AskedFlag /\ Given(x) = [Given(want) EXCEPT !.deleted = TRUE]
BY DEF AskedFlag, Given

\* The row of the system, and what requests bring.
LEMMA SystemFlagIsTyped ==
    /\ SystemFlag \in Flag /\ SystemFlag.system /\ ~SystemFlag.deleted
    /\ \A e \in BOOLEAN : [SystemFlag EXCEPT !.enabled = e] \in Flag
    /\ \A n \in 0..Full : [SystemFlag EXCEPT !.rollout = n] \in Flag
    /\ \A c \in TriedConditions : [SystemFlag EXCEPT !.conditions = c] \in Flag
    /\ \A e \in BOOLEAN, n \in 0..Full, c \in TriedConditions :
        [enabled |-> e, rollout |-> n, conditions |-> c, system |-> FALSE, deleted |-> FALSE]
            \in Flag
<1>1. Full \in 0..Full /\ NoConditions \in TriedConditions
  BY FullAssumption DEF TriedConditions
<1>2. SystemFlag \in Flag /\ SystemFlag.system /\ ~SystemFlag.deleted
  BY <1>1 DEF SystemFlag, Flag
<1>3. ASSUME NEW e \in BOOLEAN PROVE [SystemFlag EXCEPT !.enabled = e] \in Flag
  BY <1>2 DEF Flag
<1>4. ASSUME NEW n \in 0..Full PROVE [SystemFlag EXCEPT !.rollout = n] \in Flag
  BY <1>2 DEF Flag
<1>5. ASSUME NEW c \in TriedConditions PROVE [SystemFlag EXCEPT !.conditions = c] \in Flag
  BY <1>2 DEF Flag
<1>6. ASSUME NEW e \in BOOLEAN, NEW n \in 0..Full, NEW c \in TriedConditions
      PROVE  [enabled |-> e, rollout |-> n, conditions |-> c, system |-> FALSE,
              deleted |-> FALSE] \in Flag
  BY DEF Flag
<1> QED BY <1>2, <1>3, <1>4, <1>5, <1>6

\* The fields of a request, and what it becomes.
LEMMA FlagRequestsAreTyped ==
    /\ Idle \notin FlagRequest /\ Idle.pc = "idle"
    /\ \A q \in FlagRequest :
        /\ q.pc \in {"key", "insertflag", "findflag", "saveflag", "dropflag", "softflag"}
        /\ q.id \in 0..MaxFlags /\ q.field \in {"none", "enabled", "rollout", "conditions"}
        /\ q.row \in Flag /\ q.copy \in Seq(Flag)
        /\ \A label \in {"insertflag", "softflag"} :
            LET x == [q EXCEPT !.pc = label]
            IN  /\ x \in FlagRequest /\ x.pc = label /\ x.row = q.row /\ x.id = q.id
        /\ \A row \in Flag :
            LET x == [q EXCEPT !.pc = "saveflag", !.copy = <<row>>]
            IN  /\ x \in FlagRequest /\ x.pc = "saveflag" /\ x.copy = <<row>> /\ x.id = q.id
                /\ x.field = q.field
    /\ \A row \in Flag : [pc |-> "key", id |-> 0, field |-> "none", copy |-> <<>>,
                          row |-> row] \in FlagRequest
    /\ \A label \in {"findflag", "dropflag"}, f \in 0..MaxFlags, row \in Flag,
          field \in {"none", "enabled", "rollout", "conditions"} :
        FlagCall(label, f, field, row) \in FlagRequest
<1>1. Idle \notin FlagRequest /\ Idle.pc = "idle"
  BY DEF Idle, FlagRequest
<1>2. ASSUME NEW q \in FlagRequest
      PROVE  /\ q.pc \in {"key", "insertflag", "findflag", "saveflag", "dropflag", "softflag"}
             /\ q.id \in 0..MaxFlags /\ q.field \in {"none", "enabled", "rollout", "conditions"}
             /\ q.row \in Flag /\ q.copy \in Seq(Flag)
  BY DEF FlagRequest
<1>3. ASSUME NEW q \in FlagRequest, NEW label \in {"insertflag", "softflag"}
      PROVE  LET x == [q EXCEPT !.pc = label]
             IN  /\ x \in FlagRequest /\ x.pc = label /\ x.row = q.row /\ x.id = q.id
  BY DEF FlagRequest
<1>4. ASSUME NEW q \in FlagRequest, NEW row \in Flag
      PROVE  LET x == [q EXCEPT !.pc = "saveflag", !.copy = <<row>>]
             IN  /\ x \in FlagRequest /\ x.pc = "saveflag" /\ x.copy = <<row>> /\ x.id = q.id
                 /\ x.field = q.field
  <2>1. <<row>> \in Seq(Flag)
    OBVIOUS
  <2> QED BY <2>1 DEF FlagRequest
<1>5. <<>> \in Seq(Flag) /\ 0 \in 0..MaxFlags
  BY MaxFlagsAssumption
<1>6. ASSUME NEW row \in Flag
      PROVE  [pc |-> "key", id |-> 0, field |-> "none", copy |-> <<>>, row |-> row]
                \in FlagRequest
  BY <1>5 DEF FlagRequest
<1>7. ASSUME NEW label \in {"findflag", "dropflag"}, NEW f \in 0..MaxFlags, NEW row \in Flag,
             NEW field \in {"none", "enabled", "rollout", "conditions"}
      PROVE  FlagCall(label, f, field, row) \in FlagRequest
  BY <1>5 DEF FlagRequest, FlagCall
<1> QED BY <1>1, <1>2, <1>3, <1>4, <1>6, <1>7

\* The request at its next statement, ...
LEMMA FlagGotoIsTyped ==
    ASSUME NEW q \in FlagRequest, NEW label \in {"insertflag", "softflag"}, NEW x,
           x = [q EXCEPT !.pc = label]
    PROVE  /\ x \in FlagRequest /\ x.pc = label /\ x.row = q.row /\ x.id = q.id
BY DEF FlagRequest

\* ... and once it holds the row it found.
LEMMA FoundIsTyped ==
    ASSUME NEW q \in FlagRequest, NEW row \in Flag, NEW x,
           x = [q EXCEPT !.pc = "saveflag", !.copy = <<row>>]
    PROVE  /\ x \in FlagRequest /\ x.pc = "saveflag" /\ x.copy = <<row>> /\ x.id = q.id
           /\ x.field = q.field
<1>1. <<row>> \in Seq(Flag)
  OBVIOUS
<1> QED BY <1>1 DEF FlagRequest

\* Request r becomes q and changes no row, ...
FlagsGoOn(r, q) == KnowsItsFlag(q) /\ UNCHANGED flagVars

\* ... or it ends with a new row, which is live, ...
FlagAdded(row, want) ==
    /\ row \in Flag /\ ~row.deleted /\ ~row.system
    /\ want \in AskedFlag /\ row = Given(want)
    /\ Flag_FindByKey = {} /\ Len(flags) < MaxFlags
    /\ flags' = Append(flags, row) /\ wanted' = Append(wanted, want) /\ stale' = stale

\* ... or it writes one: what is given for what is wanted of it, unless it is stale.
FlagWritten(r, f, row, want) ==
    /\ f \in DOMAIN flags /\ row \in Flag /\ want \in AskedFlag
    /\ row.system = flags[f].system /\ (row.system => ~row.deleted)
    /\ row.deleted \/ Flag_FindByKey \subseteq {f}
    /\ f \notin stale => row = Given(want)
    /\ flags' = [flags EXCEPT ![f] = row] /\ wanted' = [wanted EXCEPT ![f] = want]
    /\ Stale(r, f)

FlagStep(r, q) ==
    /\ q \in FlagRequest \cup {Idle} /\ req' = [req EXCEPT ![r] = q]
    /\ begun' \in 0..MaxRequests /\ faults' \in 0..MaxFaults
    /\ \/ FlagsGoOn(r, q)
       \/ q = Idle /\ \E row, want : FlagAdded(row, want)
       \/ q = Idle /\ \E f, row, want : FlagWritten(r, f, row, want)

\* What the invariant says of the request in a slot and of the rows.
LEMMA FlagsInSlot ==
    ASSUME FeatureFlagsInv, NEW r \in Slots, ~At(r, "idle")
    PROVE  req[r] \in FlagRequest /\ KnowsItsFlag(req[r])
<1>1. req[r] \in FlagRequest \cup {Idle} /\ KnowsItsFlag(req[r])
  BY DEF FeatureFlagsInv, FeatureFlagsTypeOK, RequestsAre
<1> QED BY <1>1 DEF At, Idle

\* A handler begins.
LEMMA FlagBegins ==
    ASSUME FeatureFlagsInv, NEW r \in Slots, NEW q \in FlagRequest, Begin(r, q),
           KnowsItsFlag(q), UNCHANGED flagVars
    PROVE  FlagStep(r, q)
<1>1. begun' \in 0..MaxRequests /\ faults' \in 0..MaxFaults /\ req' = [req EXCEPT ![r] = q]
  BY RequestBoundsAssumption DEF Begin, FeatureFlagsInv, FeatureFlagsTypeOK, RequestsAre
<1> QED BY <1>1 DEF FlagStep, FlagsGoOn

\* The steps of Create, Update and Delete are of this form.
LEMMA FlagSteps ==
    ASSUME FeatureFlagsInv, FeatureFlagsNext
    PROVE  \E r \in Slots : \E q : FlagStep(r, q)
<1>1. /\ begun \in 0..MaxRequests /\ faults \in 0..MaxFaults
      /\ MaxRequests \in Nat /\ MaxFaults \in Nat
  BY RequestBoundsAssumption DEF FeatureFlagsInv, FeatureFlagsTypeOK, RequestsAre
<1>2. /\ flags \in Seq(Flag) /\ wanted \in Seq(AskedFlag) /\ Len(flags) <= MaxFlags
      /\ Len(wanted) = Len(flags) /\ DOMAIN wanted = DOMAIN flags
      /\ DOMAIN flags \subseteq 0..MaxFlags
      /\ \A f \in DOMAIN flags : flags[f] \in Flag /\ wanted[f] \in AskedFlag
  <2>1. /\ flags \in Seq(Flag) /\ wanted \in Seq(AskedFlag) /\ Len(flags) <= MaxFlags
        /\ Len(wanted) = Len(flags) /\ MaxFlags \in Nat
    BY MaxFlagsAssumption DEF FeatureFlagsInv, FeatureFlagsTypeOK
  <2> QED BY <2>1
<1>3. PICK r \in Slots :
        \/ FlagHandlers(r)
        \/ CreateFlag(r) \/ InsertFlag(r)
        \/ UpdateFlag(r) \/ SaveFlag(r)
        \/ DeleteFlag(r) \/ SoftDeleteFlag(r)
        \/ Abort(r) /\ UNCHANGED flagVars
  BY DEF FeatureFlagsNext
<1>4. KnowsItsFlag(Idle)
  BY FlagRequestsAreTyped DEF KnowsItsFlag
<1>5. ASSUME FlagHandlers(r) PROVE \E q : FlagStep(r, q)
  <2>1. ASSUME NEW e \in BOOLEAN, NEW n \in 0..Full, NEW c \in TriedConditions,
               HandleCreateFlag(r, e, n, c)
        PROVE  \E q : FlagStep(r, q)
    <3>1. PICK row : row = [enabled |-> e, rollout |-> n, conditions |-> c, system |-> FALSE,
                            deleted |-> FALSE]
      OBVIOUS
    <3>2. row \in Flag /\ ~row.system /\ ~row.deleted
      BY <3>1, SystemFlagIsTyped
    <3>3. PICK q : q = [pc |-> "key", id |-> 0, field |-> "none", copy |-> <<>>, row |-> row]
      OBVIOUS
    <3>4. q \in FlagRequest /\ KnowsItsFlag(q)
      BY <3>2, <3>3, FlagRequestsAreTyped DEF KnowsItsFlag
    <3>5. Begin(r, q) /\ UNCHANGED flagVars
      BY <2>1, <3>1, <3>3 DEF HandleCreateFlag
    <3> QED BY <3>4, <3>5, FlagBegins
  <2>2. ASSUME NEW f \in DOMAIN flags, NEW row \in Flag,
               NEW field \in {"none", "enabled", "rollout", "conditions"},
               NEW label \in {"findflag", "dropflag"}, label = "findflag" => field # "none",
               Begin(r, FlagCall(label, f, field, row)), UNCHANGED flagVars
        PROVE  \E q : FlagStep(r, q)
    <3>1. PICK q : q = FlagCall(label, f, field, row)
      OBVIOUS
    <3>2. q.pc = label /\ q.id = f /\ q.field = field
      BY <3>1 DEF FlagCall
    <3>3. q \in FlagRequest
      BY <1>2, <3>1, FlagRequestsAreTyped
    <3>4. KnowsItsFlag(q)
      BY <2>2, <3>2 DEF KnowsItsFlag
    <3> QED BY <2>2, <3>1, <3>3, <3>4, FlagBegins
  <2>3. ASSUME NEW f \in DOMAIN flags, HandleDeleteFlag(r, f) PROVE \E q : FlagStep(r, q)
    BY <2>2, <2>3, SystemFlagIsTyped DEF HandleDeleteFlag
  <2>4. ASSUME NEW f \in DOMAIN flags, NEW row \in Flag,
               NEW field \in {"enabled", "rollout", "conditions"},
               HandleUpdateFlag(r, f, field, row)
        PROVE  \E q : FlagStep(r, q)
    BY <2>2, <2>4 DEF HandleUpdateFlag
  <2>5. ASSUME NEW f \in DOMAIN flags, NEW e \in BOOLEAN,
               HandleUpdateFlag(r, f, "enabled", [SystemFlag EXCEPT !.enabled = e])
        PROVE  \E q : FlagStep(r, q)
    BY <2>4, <2>5, SystemFlagIsTyped
  <2>6. ASSUME NEW f \in DOMAIN flags, NEW n \in 0..Full,
               HandleUpdateFlag(r, f, "rollout", [SystemFlag EXCEPT !.rollout = n])
        PROVE  \E q : FlagStep(r, q)
    BY <2>4, <2>6, SystemFlagIsTyped
  <2>7. ASSUME NEW f \in DOMAIN flags, NEW c \in TriedConditions,
               HandleUpdateFlag(r, f, "conditions", [SystemFlag EXCEPT !.conditions = c])
        PROVE  \E q : FlagStep(r, q)
    BY <2>4, <2>7, SystemFlagIsTyped
  <2> QED BY <1>5, <2>1, <2>3, <2>5, <2>6, <2>7 DEF FlagHandlers
<1>6. ASSUME NEW q \in FlagRequest \cup {Idle}, Become(r, q), KnowsItsFlag(q),
             UNCHANGED flagVars
      PROVE  FlagStep(r, q)
  BY <1>1, <1>6 DEF FlagStep, FlagsGoOn, Become
<1>7. ASSUME CreateFlag(r) PROVE \E q : FlagStep(r, q)
  <2>1. At(r, "key") /\ UNCHANGED flagVars
    BY <1>7 DEF CreateFlag
  <2>2. CASE Finish(r)
    BY <1>4, <1>6, <2>1, <2>2 DEF Finish
  <2>3. CASE Goto(r, "insertflag")
    <3>1. req[r] \in FlagRequest /\ KnowsItsFlag(req[r])
      BY <2>1, FlagsInSlot DEF At
    <3>2. PICK q : q = [req[r] EXCEPT !.pc = "insertflag"]
      OBVIOUS
    <3>3. q \in FlagRequest /\ q.pc = "insertflag" /\ q.row = req[r].row
      BY <3>1, <3>2, FlagGotoIsTyped
    <3>4. KnowsItsFlag(q)
      BY <2>1, <3>1, <3>3 DEF KnowsItsFlag, At
    <3> QED BY <1>6, <2>1, <2>3, <3>2, <3>3, <3>4 DEF Goto
  <2> QED BY <1>7, <2>2, <2>3 DEF CreateFlag
<1>8. ASSUME InsertFlag(r) PROVE \E q : FlagStep(r, q)
  <2>1. /\ At(r, "insertflag") /\ Len(flags) < MaxFlags /\ Finish(r) /\ stale' = stale
    BY <1>8 DEF InsertFlag
  <2>2. CASE Flag_FindByKey = {}
    <3>1. req[r].row \in Flag /\ ~req[r].row.system /\ ~req[r].row.deleted
      BY <2>1, FlagsInSlot, FlagRequestsAreTyped DEF At, KnowsItsFlag
    <3>2. PICK row, want :
            /\ row = [req[r].row EXCEPT !.rollout = IF @ = 0 THEN Full ELSE @]
            /\ want = [req[r].row EXCEPT !.rollout = IF @ = 0 THEN Unnamed ELSE @]
      OBVIOUS
    <3>3. row \in Flag /\ ~row.system /\ ~row.deleted /\ want \in AskedFlag /\ row = Given(want)
      BY <3>1, <3>2, CreatedAreTyped
    <3>4. flags' = Append(flags, row) /\ wanted' = Append(wanted, want)
      BY <1>8, <2>2, <3>2 DEF InsertFlag, Flag_Create
    <3>5. FlagAdded(row, want)
      BY <2>1, <2>2, <3>3, <3>4 DEF FlagAdded
    <3> QED BY <1>1, <2>1, <3>5 DEF FlagStep, Finish, Become
  <2>3. CASE Flag_FindByKey # {}
    <3>1. UNCHANGED flagVars
      BY <1>8, <2>3 DEF InsertFlag, flagVars
    <3> QED BY <1>4, <1>6, <2>1, <3>1 DEF Finish
  <2> QED BY <2>2, <2>3
<1>9. ASSUME UpdateFlag(r) PROVE \E q : FlagStep(r, q)
  <2>1. At(r, "findflag") /\ UNCHANGED flagVars
    BY <1>9 DEF UpdateFlag
  <2>2. CASE Finish(r)
    BY <1>4, <1>6, <2>1, <2>2 DEF Finish
  <2>3. CASE ~Finish(r)
    <3>1. req[r] \in FlagRequest /\ req[r].id \in DOMAIN flags /\ req[r].field # "none"
      BY <2>1, FlagsInSlot DEF At, KnowsItsFlag
    <3>2. PICK f : f = req[r].id
      OBVIOUS
    <3>3. PICK row : row = flags[f]
      OBVIOUS
    <3>4. row \in Flag /\ ~row.deleted
      BY <1>2, <1>9, <2>3, <3>1, <3>2, <3>3 DEF UpdateFlag, Flag_FindByID
    <3>5. PICK p \in FlagRequest : p = req[r]
      BY <3>1
    <3>6. PICK q : q = [p EXCEPT !.pc = "saveflag", !.copy = <<row>>]
      OBVIOUS
    <3>7. /\ q \in FlagRequest /\ q.pc = "saveflag" /\ q.copy = <<row>> /\ q.id = f
          /\ q.field = req[r].field
      <4>1. /\ q \in FlagRequest /\ q.pc = "saveflag" /\ q.copy = <<row>> /\ q.id = p.id
            /\ q.field = p.field
        BY <3>4, <3>6, FoundIsTyped
      <4> QED BY <3>5, <3>2, <4>1
    <3>8. q.copy # <<>> /\ q.copy[1] = row
      BY <3>7
    <3>9. KnowsItsFlag(q)
      BY <3>1, <3>2, <3>3, <3>4, <3>7, <3>8 DEF KnowsItsFlag
    <3>10. Become(r, q)
      BY <1>9, <2>3, <3>5, <3>2, <3>3, <3>6 DEF UpdateFlag
    <3> QED BY <1>6, <2>1, <3>7, <3>9, <3>10
  <2> QED BY <2>2, <2>3
<1>10. ASSUME SaveFlag(r) PROVE \E q : FlagStep(r, q)
  <2>1. At(r, "saveflag") /\ Finish(r)
    BY <1>10 DEF SaveFlag
  <2>2. CASE Flag_FindByKey \subseteq {req[r].id}
    <3>1. PICK q : q = req[r]
      OBVIOUS
    <3>2. PICK f : f = q.id
      OBVIOUS
    <3>3. /\ q \in FlagRequest /\ f \in DOMAIN flags /\ q.field # "none"
          /\ q.copy # <<>> /\ ~q.copy[1].deleted /\ q.copy[1].system = flags[f].system
          /\ f \notin stale => q.copy[1] = flags[f]
      BY <2>1, <3>1, <3>2, FlagsInSlot DEF At, KnowsItsFlag
    <3>4. /\ q.field \in {"enabled", "rollout", "conditions"} /\ q.row \in Flag
          /\ q.copy \in Seq(Flag)
      BY <3>3, FlagRequestsAreTyped
    <3>5. q.copy[1] \in Flag
      BY <3>3, <3>4
    <3>6. PICK row, want : row = With(q.copy[1], q) /\ want = With(wanted[f], q)
      OBVIOUS
    <3>7. row \in Flag /\ ~row.deleted /\ row.system = flags[f].system
      BY <3>3, <3>4, <3>5, <3>6, WithIsTyped
    <3>8. want \in AskedFlag /\ Given(want) = With(Given(wanted[f]), q)
      BY <1>2, <3>3, <3>4, <3>6, GivenIsSet
    <3>9. f \notin stale => row = Given(want)
      BY <3>3, <3>6, <3>8 DEF FeatureFlagsInv, WantedIsStored
    <3>10. /\ flags' = [flags EXCEPT ![f] = row] /\ Stale(r, f)
           /\ wanted' = [wanted EXCEPT ![f] = want]
      BY <1>10, <2>2, <3>1, <3>2, <3>6 DEF SaveFlag, Flag_Save, With
    <3>11. FlagWritten(r, f, row, want)
      BY <2>2, <3>1, <3>2, <3>3, <3>7, <3>8, <3>9, <3>10 DEF FlagWritten
    <3> QED BY <1>1, <2>1, <3>11 DEF FlagStep, Finish, Become
  <2>3. CASE ~(Flag_FindByKey \subseteq {req[r].id})
    <3>1. UNCHANGED flagVars
      BY <1>10, <2>3 DEF SaveFlag
    <3> QED BY <1>4, <1>6, <2>1, <3>1 DEF Finish
  <2> QED BY <2>2, <2>3
<1>11. ASSUME DeleteFlag(r) PROVE \E q : FlagStep(r, q)
  <2>1. At(r, "dropflag") /\ UNCHANGED flagVars
    BY <1>11 DEF DeleteFlag
  <2>2. CASE Finish(r)
    BY <1>4, <1>6, <2>1, <2>2 DEF Finish
  <2>3. CASE ~Finish(r)
    <3>1. req[r] \in FlagRequest /\ req[r].id \in DOMAIN flags
      BY <2>1, FlagsInSlot DEF At, KnowsItsFlag
    <3>2. ~flags[req[r].id].system /\ Goto(r, "softflag")
      BY <1>11, <2>3 DEF DeleteFlag, Deletable
    <3>3. PICK q : q = [req[r] EXCEPT !.pc = "softflag"]
      OBVIOUS
    <3>4. q \in FlagRequest /\ q.pc = "softflag" /\ q.id = req[r].id
      BY <3>1, <3>3, FlagGotoIsTyped
    <3>5. KnowsItsFlag(q)
      BY <3>1, <3>2, <3>4 DEF KnowsItsFlag
    <3> QED BY <1>6, <2>1, <3>2, <3>3, <3>4, <3>5 DEF Goto
  <2> QED BY <2>2, <2>3
<1>12. ASSUME SoftDeleteFlag(r) PROVE \E q : FlagStep(r, q)
  <2>1. At(r, "softflag") /\ Finish(r)
    BY <1>12 DEF SoftDeleteFlag
  <2>2. PICK f : f = req[r].id
    OBVIOUS
  <2>3. f \in DOMAIN flags /\ ~flags[f].system
    BY <2>1, <2>2, FlagsInSlot DEF At, KnowsItsFlag
  <2>4. CASE ~flags[f].deleted
    <3>1. PICK row, want : /\ row = [flags[f] EXCEPT !.deleted = TRUE]
                           /\ want = [wanted[f] EXCEPT !.deleted = TRUE]
      OBVIOUS
    <3>2. want \in AskedFlag /\ Given(want) = [Given(wanted[f]) EXCEPT !.deleted = TRUE]
      BY <1>2, <2>3, <3>1, GivenIsDropped
    <3>3. row \in Flag /\ row.deleted /\ row.system = flags[f].system /\ want \in AskedFlag
      BY <1>2, <2>3, <3>1, <3>2, FlagsAreTyped
    <3>4. f \notin stale => row = Given(want)
      BY <2>3, <3>1, <3>2 DEF FeatureFlagsInv, WantedIsStored
    <3>5. /\ flags' = [flags EXCEPT ![f] = row] /\ Stale(r, f)
          /\ wanted' = [wanted EXCEPT ![f] = want]
      BY <1>12, <2>2, <2>4, <3>1 DEF SoftDeleteFlag, Flag_Save
    <3>6. FlagWritten(r, f, row, want)
      BY <2>3, <3>3, <3>4, <3>5 DEF FlagWritten
    <3> QED BY <1>1, <2>1, <3>6 DEF FlagStep, Finish, Become
  <2>5. CASE flags[f].deleted
    <3>1. UNCHANGED flagVars
      BY <1>12, <2>2, <2>5 DEF SoftDeleteFlag
    <3> QED BY <1>4, <1>6, <2>1, <3>1 DEF Finish
  <2> QED BY <2>4, <2>5
<1>13. ASSUME Abort(r), UNCHANGED flagVars PROVE FlagStep(r, Idle)
  <2>1. req' = [req EXCEPT ![r] = Idle] /\ begun' = begun /\ faults' \in 0..MaxFaults
    BY <1>1, <1>13 DEF Abort, Stumble
  <2> QED BY <1>1, <1>4, <1>13, <2>1 DEF FlagStep, FlagsGoOn
<1> QED BY <1>3, <1>5, <1>7, <1>8, <1>9, <1>10, <1>11, <1>12, <1>13

\* Such a step keeps the invariant: the rows ...
FlagRowsAreSound ==
    /\ flags \in Seq(Flag) /\ Len(flags) <= MaxFlags
    /\ wanted \in Seq(AskedFlag) /\ Len(wanted) = Len(flags)
    /\ stale \subseteq DOMAIN flags
    /\ OneFlagIsLive
    /\ WantedIsStored

\* They stay sound with every step of a request.
LEMMA FlagRowsAfter ==
    ASSUME FeatureFlagsInv, NEW r \in Slots, NEW q, FlagStep(r, q)
    PROVE  FlagRowsAreSound'
<1>1. FlagRowsAreSound
  BY DEF FeatureFlagsInv, FeatureFlagsTypeOK, FlagRowsAreSound
<1>2. /\ MaxFlags \in Nat /\ Len(flags) \in Nat /\ DOMAIN flags = 1..Len(flags)
      /\ DOMAIN wanted = DOMAIN flags
  BY <1>1, MaxFlagsAssumption DEF FlagRowsAreSound
<1>3. CASE FlagsGoOn(r, q)
  BY <1>1, <1>3
  DEF FlagsGoOn, FlagRowsAreSound, OneFlagIsLive, WantedIsStored, Flag_FindByID, flagVars
<1>4. ASSUME NEW row, NEW want, FlagAdded(row, want) PROVE FlagRowsAreSound'
  <2>1. PICK new : new = Len(flags) + 1
    OBVIOUS
  <2>2. /\ flags' \in Seq(Flag) /\ Len(flags') = new /\ DOMAIN flags' = DOMAIN flags \cup {new}
        /\ new \notin DOMAIN flags /\ flags'[new] = row
        /\ \A m \in DOMAIN flags : flags'[m] = flags[m]
    BY <1>1, <1>4, <2>1, LongerSequence DEF FlagAdded, FlagRowsAreSound
  <2>3. /\ wanted' \in Seq(AskedFlag) /\ Len(wanted') = new /\ wanted'[new] = want
        /\ \A m \in DOMAIN flags : wanted'[m] = wanted[m]
    BY <1>1, <1>2, <1>4, <2>1, LongerSequence DEF FlagAdded, FlagRowsAreSound
  <2>4. \A m \in DOMAIN flags : flags[m].deleted
    BY <1>4 DEF FlagAdded, Flag_FindByKey, Flag_FindByID
  <2>5. OneFlagIsLive'
    BY <1>1, <1>4, <2>2, <2>4 DEF FlagAdded, FlagRowsAreSound, OneFlagIsLive, Flag_FindByID
  <2>6. WantedIsStored'
    BY <1>1, <1>4, <2>2, <2>3 DEF FlagAdded, FlagRowsAreSound, WantedIsStored
  <2>7. Len(flags') <= MaxFlags /\ stale' \subseteq DOMAIN flags'
    BY <1>1, <1>2, <1>4, <2>1, <2>2 DEF FlagAdded, FlagRowsAreSound
  <2> QED BY <2>2, <2>3, <2>5, <2>6, <2>7 DEF FlagRowsAreSound
<1>5. ASSUME NEW f, NEW row, NEW want, FlagWritten(r, f, row, want) PROVE FlagRowsAreSound'
  <2>1. /\ flags' \in Seq(Flag) /\ Len(flags') = Len(flags) /\ DOMAIN flags' = DOMAIN flags
        /\ flags'[f] = row /\ \A m \in DOMAIN flags : m # f => flags'[m] = flags[m]
    BY <1>1, <1>5, RowOfASequence DEF FlagWritten, FlagRowsAreSound
  <2>2. /\ wanted' \in Seq(AskedFlag) /\ Len(wanted') = Len(wanted)
        /\ wanted'[f] = want /\ \A m \in DOMAIN flags : m # f => wanted'[m] = wanted[m]
    BY <1>1, <1>2, <1>5, RowOfASequence DEF FlagWritten, FlagRowsAreSound
  <2>3. stale \subseteq stale' /\ stale' \subseteq stale \cup {f} /\ f \in DOMAIN flags
    BY <1>5 DEF FlagWritten, Stale
  <2>4. ASSUME NEW g \in DOMAIN flags, NEW h \in DOMAIN flags,
               ~flags'[g].deleted, ~flags'[h].deleted
        PROVE  g = h
    <3>1. CASE row.deleted
      BY <1>1, <2>1, <2>4, <3>1 DEF FlagRowsAreSound, OneFlagIsLive, Flag_FindByID
    <3>2. CASE ~row.deleted
      BY <1>5, <2>1, <2>4, <3>2 DEF FlagWritten, Flag_FindByKey, Flag_FindByID
    <3> QED BY <3>1, <3>2
  <2>5. \A g \in DOMAIN flags : flags'[g].system => ~flags'[g].deleted
    BY <1>1, <1>5, <2>1 DEF FlagWritten, FlagRowsAreSound, OneFlagIsLive
  <2>6. OneFlagIsLive'
    BY <2>1, <2>4, <2>5 DEF OneFlagIsLive, Flag_FindByID
  <2>7. WantedIsStored'
    BY <1>1, <1>5, <2>1, <2>2, <2>3 DEF FlagWritten, FlagRowsAreSound, WantedIsStored
  <2> QED BY <1>1, <2>1, <2>2, <2>3, <2>6, <2>7 DEF FlagRowsAreSound
<1> QED BY <1>3, <1>4, <1>5 DEF FlagStep

\* ... and what the requests know of them.
LEMMA FlagsAreKnown ==
    ASSUME FeatureFlagsInv, NEW r \in Slots, NEW q, FlagStep(r, q), NEW s \in Slots
    PROVE  req'[s] \in FlagRequest \cup {Idle} /\ KnowsItsFlag(req[s])'
<1>1. /\ req \in [Slots -> FlagRequest \cup {Idle}] /\ KnowsItsFlag(req[s])
      /\ flags \in Seq(Flag) /\ Len(flags) \in Nat
  BY DEF FeatureFlagsInv, FeatureFlagsTypeOK, RequestsAre
<1>2. /\ req'[s] \in FlagRequest \cup {Idle}
      /\ s = r => req'[s] = q
      /\ s # r => req'[s] = req[s]
  BY <1>1 DEF FlagStep
<1>3. PICK x : x = req'[s]
  OBVIOUS
<1>4. CASE FlagsGoOn(r, q)
  <2>1. KnowsItsFlag(x)
    BY <1>1, <1>2, <1>3, <1>4 DEF FlagsGoOn
  <2>2. KnowsItsFlag(x)'
    BY <1>4, <2>1 DEF FlagsGoOn, KnowsItsFlag, flagVars
  <2> QED BY <1>2, <1>3, <2>2 DEF KnowsItsFlag
<1>5. CASE q = Idle /\ s = r
  <2>1. req'[s].pc = "idle"
    BY <1>2, <1>5, FlagRequestsAreTyped
  <2> QED BY <1>2, <2>1 DEF KnowsItsFlag
<1>6. ASSUME s # r, NEW row, NEW want, FlagAdded(row, want) PROVE KnowsItsFlag(req[s])'
  <2>1. /\ DOMAIN flags \subseteq DOMAIN flags'
        /\ \A m \in DOMAIN flags : flags'[m] = flags[m]
        /\ stale' = stale
    BY <1>1, <1>6, LongerSequence DEF FlagAdded
  <2> QED BY <1>1, <1>2, <1>6, <2>1 DEF KnowsItsFlag
<1>7. ASSUME s # r, NEW f, NEW row, NEW want, FlagWritten(r, f, row, want)
      PROVE  KnowsItsFlag(req[s])'
  <2>1. /\ DOMAIN flags' = DOMAIN flags /\ flags'[f] = row
        /\ row.system = flags[f].system
        /\ \A m \in DOMAIN flags : m # f => flags'[m] = flags[m]
    BY <1>1, <1>7, RowOfASequence DEF FlagWritten
  <2>2. stale \subseteq stale'
    BY <1>7 DEF FlagWritten, Stale
  <2>3. req[s].pc = "saveflag" /\ req[s].id = f /\ req[s].copy # <<>> => f \in stale'
    BY <1>7 DEF FlagWritten, Stale, Others, At
  <2>4. \A m \in DOMAIN flags : flags'[m].system = flags[m].system
    BY <2>1
  <2> QED BY <1>1, <1>2, <1>7, <2>1, <2>2, <2>3, <2>4 DEF KnowsItsFlag
<1> QED BY <1>2, <1>4, <1>5, <1>6, <1>7 DEF FlagStep

\* Every step keeps the invariant.
LEMMA FlagInvSteps ==
    FeatureFlagsInv /\ [FeatureFlagsNext]_<<flagVars, requestVars>> => FeatureFlagsInv'
<1>1. ASSUME FeatureFlagsInv, FeatureFlagsNext PROVE FeatureFlagsInv'
  <2>1. PICK r, q : r \in Slots /\ FlagStep(r, q)
    BY <1>1, FlagSteps
  <2>2. FlagRowsAreSound'
    BY <1>1, <2>1, FlagRowsAfter
  <2>3. \A s \in Slots : req'[s] \in FlagRequest \cup {Idle} /\ KnowsItsFlag(req[s])'
    BY <1>1, <2>1, FlagsAreKnown
  <2>4. req' \in [Slots -> FlagRequest \cup {Idle}]
    <3>1. DOMAIN req = Slots /\ req = [s \in Slots |-> req[s]]
      BY <1>1 DEF FeatureFlagsInv, FeatureFlagsTypeOK, RequestsAre
    <3>2. req' = [s \in Slots |-> req'[s]]
      BY <2>1, <3>1 DEF FlagStep
    <3> QED BY <2>3, <3>2
  <2>5. FeatureFlagsTypeOK'
    BY <2>1, <2>2, <2>4 DEF FlagRowsAreSound, FeatureFlagsTypeOK, RequestsAre, FlagStep
  <2> QED BY <2>2, <2>3, <2>5 DEF FlagRowsAreSound, FeatureFlagsInv
<1>2. ASSUME FeatureFlagsInv, UNCHANGED <<flagVars, requestVars>> PROVE FeatureFlagsInv'
  BY <1>2
  DEF FeatureFlagsInv, FeatureFlagsTypeOK, RequestsAre, OneFlagIsLive, WantedIsStored,
      KnowsItsFlag, Flag_FindByID, flagVars, requestVars
<1> QED BY <1>1, <1>2

\* The table is empty, or has the row of the system.
LEMMA FlagsStart == FeatureFlagsInit /\ RequestsInit => FeatureFlagsInv
<1> SUFFICES ASSUME FeatureFlagsInit, RequestsInit PROVE FeatureFlagsInv
  OBVIOUS
<1>1. /\ flags \in Seq(Flag) /\ Len(flags) <= MaxFlags /\ wanted = flags /\ stale = {}
      /\ \A f, g \in DOMAIN flags : f = g
      /\ \A f \in DOMAIN flags : ~flags[f].deleted /\ flags[f] = Given(flags[f])
      /\ flags \in Seq(AskedFlag)
  <2>1. CASE flags = <<>>
    BY <2>1, MaxFlagsAssumption DEF FeatureFlagsInit
  <2>2. CASE flags = <<SystemFlag>>
    <3>1. SystemFlag \in Flag /\ ~SystemFlag.deleted
      BY SystemFlagIsTyped
    <3>2. SystemFlag \in AskedFlag /\ SystemFlag = Given(SystemFlag)
      <4>1. SystemFlag.rollout = Full /\ Full # Unnamed
        BY FullAssumption DEF SystemFlag, Unnamed
      <4> QED BY <3>1, <4>1 DEF Flag, AskedFlag, Given
    <3>3. /\ flags \in Seq(Flag) /\ flags \in Seq(AskedFlag) /\ Len(flags) = 1
          /\ DOMAIN flags = {1} /\ flags[1] = SystemFlag
      BY <2>2, <3>1, <3>2
    <3> QED BY <3>1, <3>2, <3>3, MaxFlagsAssumption DEF FeatureFlagsInit
  <2> QED BY <2>1, <2>2 DEF FeatureFlagsInit
<1>2. FeatureFlagsTypeOK
  BY <1>1, RequestBoundsAssumption DEF RequestsInit, FeatureFlagsTypeOK, RequestsAre
<1>3. OneFlagIsLive /\ WantedIsStored
  BY <1>1 DEF OneFlagIsLive, WantedIsStored
<1>4. \A r \in Slots : KnowsItsFlag(req[r])
  BY FlagRequestsAreTyped DEF RequestsInit, KnowsItsFlag
<1> QED BY <1>2, <1>3, <1>4 DEF FeatureFlagsInv

\* What users get follows from the rows.
LEMMA FlagsAreShown == FeatureFlagsInv => FlagsHold
<1> SUFFICES ASSUME FeatureFlagsInv PROVE FlagsHold
  OBVIOUS
<1>1. /\ \A f, g \in Flag_FindByKey : f = g
      /\ \A f \in DOMAIN flags : flags[f].system => Flag_FindByID(f)
      /\ \A f \in DOMAIN flags \ stale : flags[f] = Given(wanted[f])
      /\ wanted \in Seq(AskedFlag) /\ DOMAIN wanted = DOMAIN flags
      /\ Full \in Nat
      /\ \A f \in DOMAIN flags : flags[f].rollout \in 0..Full
  <2>1. /\ flags \in Seq(Flag) /\ wanted \in Seq(AskedFlag)
        /\ DOMAIN wanted = DOMAIN flags
    BY DEF FeatureFlagsInv, FeatureFlagsTypeOK
  <2>2. \A x \in Flag : x.rollout \in 0..Full
    BY DEF Flag
  <2>3. \A f \in DOMAIN flags : flags[f] \in Flag
    BY <2>1
  <2>4. Full \in Nat
    BY FullAssumption
  <2> QED BY <2>1, <2>2, <2>3, <2>4
      DEF FeatureFlagsInv, OneFlagIsLive, WantedIsStored, Flag_FindByKey, Flag_FindByID
<1>2. Cardinality(ShownFlags) <= 1
  <2>1. \A v, w \in ShownFlags : v = w
    BY <1>1 DEF ShownFlags, Flag_FindAll
  <2> QED BY <2>1, OneAtMost
<1>3. \A f \in DOMAIN flags : Flag_GetByID(f) \subseteq Flag_GetByKey
  BY DEF Flag_GetByID, Flag_GetByKey, Flag_FindByKey
<1>4. ASSUME NEW u \in Users
      PROVE  /\ IsEnabled(u) <=> \E row \in Flag_GetByKey : EvaluateFlag(row, u, NoGroup)
             /\ IsEnabled(u) <=> IsEnabledWithReason(u, NoGroup)
  BY DEF IsEnabled, IsEnabledWithReason, Flag_GetByKey
<1>5. ASSUME NEW u \in Users, NEW g \in Groups \cup {NoGroup}
      PROVE  IsEnabledWithReason(u, g) <=> \E f \in Flag_FindAll : EvaluateAll(u, g)[f]
  BY DEF IsEnabledWithReason, EvaluateAll, Flag_FindAll
<1>7. FlagsAnswerAlike
  BY <1>1, <1>2, <1>3, <1>4, <1>5 DEF FlagsAnswerAlike
<1>8. ASSUME NEW f \in DOMAIN flags \ stale, wanted[f].rollout = 0, NEW u \in Users
      PROVE  ~IsEnabled(u) \/ flags[f].deleted
  <2>1. wanted[f] \in AskedFlag /\ flags[f] = Given(wanted[f])
    BY <1>1
  <2>2. flags[f].rollout = 0
    BY <1>8, <2>1 DEF Given, AskedFlag, Unnamed
  <2> QED BY <1>1, <1>8, <2>2 DEF IsEnabled, EvaluateFlag, Flag_FindByKey, Flag_FindByID
<1>9. ASSUME NEW f \in DOMAIN flags, NEW u \in Users, NEW v \in Users, u < v,
             flags[f].conditions = NoConditions, EvaluateFlag(flags[f], v, NoGroup)
      PROVE  EvaluateFlag(flags[f], u, NoGroup)
  <2>1. flags[f].rollout \in 0..Full /\ u \in Int /\ v \in Int /\ Full \in Int
    BY <1>1 DEF Users
  <2>2. InRollout(flags[f], v) => InRollout(flags[f], u)
    BY <1>9, <2>1 DEF InRollout
  <2> QED BY <1>9, <2>2 DEF EvaluateFlag, EvaluateConditions
<1>10. OperatorsGetWhatTheyAsk
  BY <1>1, <1>8, <1>9 DEF OperatorsGetWhatTheyAsk
<1> QED BY <1>7, <1>10 DEF FlagsHold

\* FlagsHold: one flag at most answers for a key, however it is asked; a system flag stays; an
\* operator gets what he asked for, unless two requests about the flag overlapped:
\* service/feature_flag.go, for any users, organizations and requests.
THEOREM FlagsAlwaysHold == FeatureFlagsSpec => []FlagsHold
BY FlagsStart, FlagInvSteps, FlagsAreShown, PTL DEF FeatureFlagsSpec

-----------------------------------------------------------------------------
(* Webhooks *)

\* A row, ...
LEMMA HookIsTyped ==
    ASSUME NEW row \in Webhook
    PROVE  /\ row.org \in Scopes /\ row.url \in Urls /\ row.secret \in Secret
           /\ row.event \in HookEvents /\ row.active \in BOOLEAN /\ row.deleted \in BOOLEAN
           /\ LET x == [row EXCEPT !.deleted = TRUE]
              IN  /\ x \in Webhook /\ x.deleted /\ x.org = row.org
                  /\ x.url = row.url /\ x.secret = row.secret
BY DEF Webhook

\* ... a field of which is set.
SetHook(row, field, value, secret) ==
    [[row EXCEPT ![field] = value] EXCEPT !.secret = secret]

\* It is a row again, and nothing else of it changes.
LEMMA SetHookIsTyped ==
    ASSUME NEW row \in Webhook, NEW field, NEW value, IsValueOf(field, value),
           NEW secret \in Secret
    PROVE  LET x == SetHook(row, field, value, secret)
           IN  /\ x \in Webhook /\ x.org = row.org /\ x.deleted = row.deleted
               /\ x.secret = secret /\ x.url = IF field = "url" THEN value ELSE row.url
<1> DEFINE x == SetHook(row, field, value, secret)
<1>1. CASE field = "url" /\ value \in Urls
  <2>1. x = [[row EXCEPT !.url = value] EXCEPT !.secret = secret]
    BY <1>1 DEF SetHook
  <2> QED BY <1>1, <2>1 DEF Webhook
<1>2. CASE field = "event" /\ value \in HookEvents
  <2>1. x = [[row EXCEPT !.event = value] EXCEPT !.secret = secret]
    BY <1>2 DEF SetHook
  <2> QED BY <1>2, <2>1 DEF Webhook
<1>3. CASE field = "active" /\ value \in BOOLEAN
  <2>1. x = [[row EXCEPT !.active = value] EXCEPT !.secret = secret]
    BY <1>3 DEF SetHook
  <2> QED BY <1>3, <2>1 DEF Webhook
<1> QED BY <1>1, <1>2, <1>3 DEF IsValueOf

\* What a delivery is made of.
LEMMA SendingIsTyped ==
    ASSUME NEW s \in Sending
    PROVE  /\ s.replays \in Nat /\ s.answered \in Nat /\ s.astray \in Nat
           /\ s.hook \in 1..MaxHooks /\ s.event \in HookEvents /\ s.org \in Scopes
           /\ s.then \in Webhook
BY DEF Sending

\* What a delivery becomes: done, or to be delivered again, ...
LEMMA ReplayedIsTyped ==
    ASSUME NEW s \in Sending
    PROVE  /\ LET x == [s EXCEPT !.queued = FALSE]
              IN  /\ x \in Sending /\ x.hook = s.hook /\ x.event = s.event /\ x.org = s.org
                  /\ x.then = s.then /\ x.replays = s.replays
                  /\ x.answered = s.answered /\ x.astray = s.astray
           /\ LET x == [s EXCEPT !.queued = TRUE, !.replays = @ + 1]
              IN  /\ x \in Sending /\ x.hook = s.hook /\ x.event = s.event /\ x.org = s.org
                  /\ x.then = s.then /\ x.replays = s.replays + 1
                  /\ x.answered = s.answered /\ x.astray = s.astray
<1>1. s.replays \in Nat /\ s.replays + 1 \in Nat
  BY DEF Sending
<1>2. PICK n \in Nat : n = s.replays + 1
  BY <1>1
<1>3. LET x == [s EXCEPT !.queued = TRUE, !.replays = n]
      IN  /\ x \in Sending /\ x.hook = s.hook /\ x.event = s.event /\ x.org = s.org
          /\ x.then = s.then /\ x.replays = n
          /\ x.answered = s.answered /\ x.astray = s.astray
  BY DEF Sending
<1>4. [s EXCEPT !.queued = TRUE, !.replays = @ + 1] = [s EXCEPT !.queued = TRUE, !.replays = n]
  BY <1>2 DEF Sending
<1>5. LET x == [s EXCEPT !.queued = FALSE]
      IN  /\ x \in Sending /\ x.hook = s.hook /\ x.event = s.event /\ x.org = s.org
          /\ x.then = s.then /\ x.replays = s.replays
          /\ x.answered = s.answered /\ x.astray = s.astray
  BY DEF Sending
<1> QED BY <1>2, <1>3, <1>4, <1>5

\* ... and the replay is answered.
LEMMA AnsweredIsTyped ==
    ASSUME NEW s \in Sending
    PROVE  /\ LET x == [s EXCEPT !.answered = @ + 1]
              IN  /\ x \in Sending /\ x.hook = s.hook /\ x.event = s.event /\ x.org = s.org
                  /\ x.then = s.then /\ x.replays = s.replays
                  /\ x.answered = s.answered + 1 /\ x.astray = s.astray
           /\ LET x == [s EXCEPT !.astray = @ + 1]
              IN  /\ x \in Sending /\ x.hook = s.hook /\ x.event = s.event /\ x.org = s.org
                  /\ x.then = s.then /\ x.replays = s.replays
                  /\ x.answered = s.answered /\ x.astray = s.astray + 1
BY DEF Sending

\* What a request is made of.
LEMMA HookRequestIsTyped ==
    /\ Idle \notin WebhookRequest /\ Idle.pc = "idle"
    /\ \A q \in WebhookRequest :
        /\ q.pc \in {"create", "owner", "update", "save", "dropowner", "drop", "path", "replay",
                     "reset", "answer", "find", "deliver"}
        /\ q.org \in Scopes /\ q.id \in 0..MaxHooks /\ q.stamp \in Secret
        /\ q.field \in {"url", "event", "active"} /\ q.sending \in 0..MaxSent
        /\ q.copy \in Seq(Webhook) /\ q.todo \subseteq (1..MaxHooks) \X Webhook
BY DEF Idle, WebhookRequest

\* What a request becomes: at another statement, ...
LEMMA HookGotoIsTyped ==
    ASSUME NEW q \in WebhookRequest, NEW x,
           NEW label \in {"update", "drop", "replay", "reset", "answer"},
           x = [q EXCEPT !.pc = label]
    PROVE  /\ x \in WebhookRequest /\ x.pc = label /\ x.org = q.org /\ x.id = q.id
           /\ x.field = q.field /\ x.value = q.value /\ x.sending = q.sending
BY DEF WebhookRequest

\* ... with the row it read, ...
ReadHook(q, row) == [q EXCEPT !.pc = "save", !.copy = <<row>>]

\* It stays a request about the same row.
LEMMA HookReadIsTyped ==
    ASSUME NEW q \in WebhookRequest, NEW row \in Webhook
    PROVE  LET x == ReadHook(q, row)
           IN  /\ x \in WebhookRequest /\ x.pc = "save" /\ x.id = q.id /\ x.field = q.field
               /\ x.value = q.value /\ x.copy = <<row>>
<1>1. <<row>> \in Seq(Webhook)
  OBVIOUS
<1> QED BY <1>1 DEF WebhookRequest, ReadHook

\* ... or with the deliveries it has to write.
Delivering(q, todo) == [q EXCEPT !.pc = "deliver", !.todo = todo]

\* It stays a request of the same organization.
LEMMA HookTodoIsTyped ==
    ASSUME NEW q \in WebhookRequest, NEW todo \in SUBSET ((1..MaxHooks) \X Webhook)
    PROVE  /\ LET x == Delivering(q, todo)
              IN  /\ x \in WebhookRequest /\ x.pc = "deliver" /\ x.org = q.org
                  /\ x.value = q.value /\ x.todo = todo
           /\ q.pc = "deliver" => [q EXCEPT !.todo = todo] = Delivering(q, todo)
BY DEF WebhookRequest, Delivering

\* A handler begins with such a request.
LEMMA HookCallIsTyped ==
    ASSUME begun + 1 \in Secret, NEW label \in {"create", "owner", "dropowner", "find", "path"},
           NEW o \in Scopes, NEW h \in 0..MaxHooks, NEW field \in {"url", "event", "active"},
           NEW value \in Urls \cup HookEvents \cup BOOLEAN, NEW d \in 0..MaxSent, NEW x,
           x = HookCall(label, o, h, field, value, d)
    PROVE  /\ x \in WebhookRequest /\ x.pc = label /\ x.id = h /\ x.field = field
           /\ x.value = value /\ x.sending = d
<1>1. <<>> \in Seq(Webhook)
  OBVIOUS
<1> QED BY <1>1 DEF WebhookRequest, HookCall

-----------------------------------------------------------------------------

\* Request r becomes q: it changes no row, and owes no response or has failed; ...
HooksGoOn(r, q) ==
    /\ UNCHANGED webhookVars /\ KnowsItsHook(q)
    /\ faults' = faults + 1 \/ ~At(r, "answer")
    /\ q.pc # "answer"

\* ... it ends with a new webhook, ...
HookAdded(row) ==
    /\ row \in Webhook /\ ~row.deleted /\ UrlIsFree(0, row) /\ Len(hooks) < MaxHooks
    /\ hooks' = Append(hooks, row) /\ agreed' = Append(agreed, row)
    /\ made' = made \cup {<<Len(hooks) + 1, row.url, row.secret>>}
    /\ UNCHANGED <<sendings, tangled>>

\* ... or with one that it has written; ...
HookWritten(r, h, row, want) ==
    /\ h \in Hooks /\ row \in Webhook /\ want \in Webhook
    /\ UrlIsFree(h, row) /\ row.org = hooks[h].org
    /\ h \in tangled \/ want = row
    /\ hooks' = [hooks EXCEPT ![h] = row] /\ agreed' = [agreed EXCEPT ![h] = want]
    /\ made \subseteq made' /\ made' \subseteq Hooks \X Urls \X Secret
    /\ <<h, row.url, row.secret>> \in made'
    /\ Tangle(r, h) /\ sendings' = sendings

\* ... it writes a delivery, ...
SendingAdded(row) ==
    /\ row \in Sending /\ WasWanted(row.hook, row.then, row.event, row.org)
    /\ row.replays = 0 /\ row.answered = 0 /\ row.astray = 0
    /\ Len(sendings) < MaxSent /\ sendings' = Append(sendings, row)
    /\ UNCHANGED <<hooks, made, agreed, tangled>>

\* ... or one is written again.
SendingWritten(d, row) ==
    /\ d \in DOMAIN sendings /\ row \in Sending
    /\ row.hook = sendings[d].hook /\ row.then = sendings[d].then
    /\ row.event = sendings[d].event /\ row.org = sendings[d].org
    /\ sendings' = [sendings EXCEPT ![d] = row]
    /\ UNCHANGED <<hooks, made, agreed, tangled>>

\* To be replayed, by a request that has to answer now, ...
Replays(q, d, row) ==
    /\ SendingWritten(d, row) /\ KnowsItsHook(q) /\ q.pc = "answer" /\ q.sending = d
    /\ row.replays = sendings[d].replays + 1
    /\ row.answered = sendings[d].answered /\ row.astray = sendings[d].astray

\* ... which it does.
Answers(r, d, row) ==
    /\ SendingWritten(d, row) /\ At(r, "answer") /\ req[r].sending = d
    /\ row.replays = sendings[d].replays
    /\ row.answered + row.astray = sendings[d].answered + sendings[d].astray + 1

HookStep(r, q) ==
    /\ q \in WebhookRequest \cup {Idle} /\ req' = [req EXCEPT ![r] = q]
    /\ begun' \in 0..MaxRequests
    /\ faults' \in 0..MaxFaults /\ faults' \in {faults, faults + 1}
    /\ \/ HooksGoOn(r, q)
       \/ q = Idle /\ ~At(r, "answer") /\ \E row : HookAdded(row)
       \/ q = Idle /\ ~At(r, "answer") /\ \E h, row, want : HookWritten(r, h, row, want)
       \/ /\ q.pc # "answer" /\ ~At(r, "answer") /\ KnowsItsHook(q)
          /\ \E row : SendingAdded(row)
       \/ ~At(r, "answer") /\ \E d, row : Replays(q, d, row)
       \/ q = Idle /\ \E d, row : Answers(r, d, row)

\* Or a delivery was done, and no request moves.
SendingIsDone ==
    /\ UNCHANGED requestVars
    /\ \E d, row : /\ SendingWritten(d, row) /\ row.replays = sendings[d].replays
                   /\ row.answered = sendings[d].answered /\ row.astray = sendings[d].astray

\* What the invariant says of the tables, ...
LEMMA HookTables ==
    ASSUME WebhooksInv
    PROVE  /\ begun \in 0..MaxRequests /\ faults \in 0..MaxFaults
           /\ MaxRequests \in Nat /\ MaxFaults \in Nat /\ MaxHooks \in Nat /\ MaxSent \in Nat
           /\ req \in [Slots -> WebhookRequest \cup {Idle}]
           /\ hooks \in Seq(Webhook) /\ agreed \in Seq(Webhook) /\ Len(agreed) = Len(hooks)
           /\ Hooks = 1..Len(hooks) /\ DOMAIN agreed = Hooks /\ Hooks \subseteq 0..MaxHooks
           /\ \A h \in Hooks : hooks[h] \in Webhook /\ agreed[h] \in Webhook
           /\ sendings \in Seq(Sending) /\ DOMAIN sendings \subseteq 0..MaxSent
           /\ \A d \in DOMAIN sendings : sendings[d] \in Sending
<1>1. /\ begun \in 0..MaxRequests /\ faults \in 0..MaxFaults
      /\ MaxRequests \in Nat /\ MaxFaults \in Nat /\ MaxHooks \in Nat /\ MaxSent \in Nat
      /\ req \in [Slots -> WebhookRequest \cup {Idle}]
      /\ hooks \in Seq(Webhook) /\ agreed \in Seq(Webhook) /\ Len(agreed) = Len(hooks)
      /\ Len(hooks) <= MaxHooks /\ sendings \in Seq(Sending) /\ Len(sendings) <= MaxSent
  BY RequestBoundsAssumption, HooksAssumption DEF WebhooksInv, WebhooksTypeOK, RequestsAre
<1>2. Hooks = 1..Len(hooks) /\ DOMAIN agreed = Hooks /\ Hooks \subseteq 0..MaxHooks
  BY <1>1 DEF Hooks
<1>3. DOMAIN sendings \subseteq 0..MaxSent /\ \A d \in DOMAIN sendings : sendings[d] \in Sending
  BY <1>1
<1>4. \A h \in Hooks : hooks[h] \in Webhook /\ agreed[h] \in Webhook
  BY <1>1, <1>2
<1> QED BY <1>1, <1>2, <1>3, <1>4

\* ... and of the request in a slot.
LEMMA HookInSlot ==
    ASSUME WebhooksInv, NEW r \in Slots, ~At(r, "idle")
    PROVE  \E q \in WebhookRequest : q = req[r] /\ KnowsItsHook(q)
<1>1. req[r] \in WebhookRequest \cup {Idle} /\ KnowsItsHook(req[r])
  BY DEF WebhooksInv, WebhooksTypeOK, RequestsAre
<1> QED BY <1>1 DEF At, Idle

\* A request goes on without a row.
LEMMA HookGoesOn ==
    ASSUME WebhooksInv, NEW r \in Slots, NEW q \in WebhookRequest \cup {Idle}, Become(r, q),
           KnowsItsHook(q), UNCHANGED webhookVars, ~At(r, "answer"), q.pc # "answer"
    PROVE  HookStep(r, q)
BY HookTables DEF HookStep, HooksGoOn, Become

\* A request that has ended knows nothing.
LEMMA IdleKnowsNoHook == KnowsItsHook(Idle) /\ Idle.pc = "idle"
BY DEF KnowsItsHook, Idle

\* It ends, ...
LEMMA HookEnds ==
    ASSUME WebhooksInv, NEW r \in Slots, Finish(r), UNCHANGED webhookVars, ~At(r, "answer")
    PROVE  \E q : HookStep(r, q)
BY HookGoesOn, IdleKnowsNoHook DEF Finish

\* ... or goes on to a statement that asks for nothing but what it knows.
LEMMA HookGoesTo ==
    ASSUME WebhooksInv, NEW r \in Slots, NEW label \in {"update", "drop", "replay", "reset"},
           (At(r, "owner") /\ label = "update") \/ (At(r, "dropowner") /\ label = "drop") \/
           (At(r, "path") /\ label = "replay") \/ (At(r, "replay") /\ label = "reset"),
           Goto(r, label), UNCHANGED webhookVars
    PROVE  \E q : HookStep(r, q)
<1>1. PICK p \in WebhookRequest : p = req[r] /\ KnowsItsHook(p)
  BY HookInSlot DEF At
<1>2. PICK q : q = [p EXCEPT !.pc = label]
  OBVIOUS
<1>3. /\ q \in WebhookRequest /\ q.pc = label /\ q.id = p.id /\ q.sending = p.sending
      /\ q.field = p.field /\ q.value = p.value
  BY <1>2, HookGotoIsTyped
<1>4. KnowsItsHook(q)
  BY <1>1, <1>3 DEF KnowsItsHook, At
<1>5. Become(r, q)
  BY <1>1, <1>2 DEF Goto
<1> QED BY <1>3, <1>4, <1>5, HookGoesOn DEF At

\* The steps of Create, Update and SoftDelete are of this form, ...
LEMMA HandlersBeginHooks ==
    ASSUME WebhooksInv, NEW r \in Slots, WebhookHandlers(r)
    PROVE  \E q : HookStep(r, q)
<1>1. ASSUME NEW o \in Scopes, NEW label \in {"create", "owner", "dropowner", "find", "path"},
             NEW h \in 0..MaxHooks, NEW field, NEW value, IsValueOf(field, value),
             NEW d \in 0..MaxSent,
             label = "create" => field = "url", label = "find" => field = "event",
             label \notin {"create", "find"} => h \in Hooks,
             label = "path" => d \in DOMAIN sendings,
             Begin(r, HookCall(label, o, h, field, value, d)), UNCHANGED webhookVars
      PROVE  \E q : HookStep(r, q)
  <2>1. PICK q : q = HookCall(label, o, h, field, value, d)
    OBVIOUS
  <2>2. /\ begun + 1 \in Secret /\ begun' = begun + 1 /\ faults' = faults /\ At(r, "idle")
        /\ req' = [req EXCEPT ![r] = q] /\ faults \in 0..MaxFaults
    BY <1>1, <2>1, HookTables DEF Begin, Secret
  <2>3. /\ field \in {"url", "event", "active"} /\ value \in Urls \cup HookEvents \cup BOOLEAN
    BY <1>1 DEF IsValueOf
  <2>4. /\ q \in WebhookRequest /\ q.pc = label /\ q.id = h /\ q.field = field
        /\ q.value = value /\ q.sending = d
    BY <2>1, <2>2, <2>3, HookCallIsTyped
  <2>5. KnowsItsHook(q)
    BY <1>1, <2>4 DEF KnowsItsHook, IsValueOf
  <2> QED BY <1>1, <2>2, <2>4, <2>5 DEF HookStep, HooksGoOn, Secret, At
<1>2. 0 \in 0..MaxHooks /\ 0 \in 0..MaxSent /\ Hooks \subseteq 0..MaxHooks
      /\ DOMAIN sendings \subseteq 0..MaxSent
  BY HookTables
<1>3. IsValueOf("active", FALSE) /\ IsValueOf("active", TRUE)
  BY DEF IsValueOf
<1>4. PICK o \in Scopes :
        \/ \E u \in Urls : HandleCreateWebhook(r, o, u)
        \/ \E e \in HookEvents : HandleEvent(r, e, o)
        \/ \E h \in Hooks :
            \/ \E u \in Urls : HandleUpdateWebhook(r, o, h, "url", u)
            \/ \E e \in HookEvents : HandleUpdateWebhook(r, o, h, "event", e)
            \/ \E b \in BOOLEAN : HandleUpdateWebhook(r, o, h, "active", b)
            \/ HandleDeleteWebhook(r, o, h)
            \/ \E d \in DOMAIN sendings : HandleReplay(r, o, h, d)
  BY DEF WebhookHandlers
<1>5. ASSUME NEW u \in Urls, HandleCreateWebhook(r, o, u) PROVE \E q : HookStep(r, q)
  <2>1. IsValueOf("url", u)
    BY DEF IsValueOf
  <2> QED BY <1>1, <1>2, <1>5, <2>1 DEF HandleCreateWebhook
<1>6. ASSUME NEW e \in HookEvents, HandleEvent(r, e, o) PROVE \E q : HookStep(r, q)
  <2>1. IsValueOf("event", e)
    BY DEF IsValueOf
  <2> QED BY <1>1, <1>2, <1>6, <2>1 DEF HandleEvent
<1>7. ASSUME NEW h \in Hooks, NEW field, NEW value, IsValueOf(field, value),
             HandleUpdateWebhook(r, o, h, field, value)
      PROVE  \E q : HookStep(r, q)
  BY <1>1, <1>2, <1>7 DEF HandleUpdateWebhook
<1>8. ASSUME NEW h \in Hooks, HandleDeleteWebhook(r, o, h) PROVE \E q : HookStep(r, q)
  BY <1>1, <1>2, <1>3, <1>8 DEF HandleDeleteWebhook
<1>9. ASSUME NEW h \in Hooks, NEW d \in DOMAIN sendings, HandleReplay(r, o, h, d)
      PROVE  \E q : HookStep(r, q)
  BY <1>1, <1>2, <1>3, <1>9 DEF HandleReplay
<1>10. ASSUME NEW h \in Hooks, NEW u \in Urls, HandleUpdateWebhook(r, o, h, "url", u)
       PROVE  \E q : HookStep(r, q)
  BY <1>7, <1>10 DEF IsValueOf
<1>11. ASSUME NEW h \in Hooks, NEW e \in HookEvents, HandleUpdateWebhook(r, o, h, "event", e)
       PROVE  \E q : HookStep(r, q)
  BY <1>7, <1>11 DEF IsValueOf
<1>12. ASSUME NEW h \in Hooks, NEW b \in BOOLEAN, HandleUpdateWebhook(r, o, h, "active", b)
       PROVE  \E q : HookStep(r, q)
  <2>1. CASE b
    <3>1. HandleUpdateWebhook(r, o, h, "active", TRUE)
      BY <1>12, <2>1
    <3> QED BY <1>3, <1>7, <3>1
  <2>2. CASE ~b
    <3>1. HandleUpdateWebhook(r, o, h, "active", FALSE)
      BY <1>12, <2>2
    <3> QED BY <1>3, <1>7, <3>1
  <2> QED BY <2>1, <2>2
<1> QED BY <1>4, <1>5, <1>6, <1>8, <1>9, <1>10, <1>11, <1>12

\* A webhook is inserted, ...
LEMMA CreatesHook ==
    ASSUME WebhooksInv, NEW r \in Slots, CreateWebhook(r)
    PROVE  \E q : HookStep(r, q)
<1>1. PICK q \in WebhookRequest : q = req[r] /\ KnowsItsHook(q) /\ q.pc = "create"
  BY HookInSlot DEF CreateWebhook, At
<1>2. PICK e, row :
        /\ e \in HookEvents
        /\ row = [org |-> q.org, url |-> q.value, secret |-> q.stamp, event |-> e,
                  active |-> TRUE, deleted |-> FALSE]
        /\ IF UrlIsFree(0, row)
           THEN /\ hooks' = Append(hooks, row)
                /\ agreed' = Append(agreed, row)
                /\ made' = made \cup {<<Len(hooks) + 1, row.url, row.secret>>}
           ELSE UNCHANGED <<hooks, agreed, made>>
  BY <1>1 DEF CreateWebhook
<1>3. row \in Webhook /\ ~row.deleted
  BY <1>1, <1>2, HookRequestIsTyped DEF KnowsItsHook, Webhook
<1>4. Finish(r) /\ UNCHANGED <<sendings, tangled>> /\ ~At(r, "answer") /\ Len(hooks) < MaxHooks
  BY <1>1 DEF CreateWebhook, At
<1>5. CASE UrlIsFree(0, row)
  <2>1. HookAdded(row)
    BY <1>2, <1>3, <1>4, <1>5 DEF HookAdded
  <2> QED BY <1>4, <2>1, HookTables DEF HookStep, Finish, Become
<1>6. CASE ~UrlIsFree(0, row)
  <2>1. UNCHANGED webhookVars
    BY <1>2, <1>4, <1>6 DEF webhookVars
  <2> QED BY <1>4, <2>1, HookEnds
<1> QED BY <1>5, <1>6

\* ... its fields are read, ...
LEMMA ReadsHook ==
    ASSUME WebhooksInv, NEW r \in Slots, UpdateWebhook(r)
    PROVE  \E q : HookStep(r, q)
<1>1. PICK p \in WebhookRequest : p = req[r] /\ KnowsItsHook(p) /\ p.pc = "update"
  BY HookInSlot DEF UpdateWebhook, At
<1>2. UNCHANGED webhookVars /\ ~At(r, "answer")
  BY <1>1 DEF UpdateWebhook, At
<1>3. CASE ~Webhook_FindByID(p.id)
  <2>1. Finish(r)
    BY <1>1, <1>3 DEF UpdateWebhook
  <2> QED BY <1>2, <2>1, HookEnds
<1>4. CASE Webhook_FindByID(p.id)
  <2>1. PICK row : row = hooks[p.id]
    OBVIOUS
  <2>2. p.id \in Hooks /\ ~row.deleted /\ row \in Webhook
    BY <1>4, <2>1, HookTables DEF Webhook_FindByID
  <2>3. PICK q : q = ReadHook(p, row)
    OBVIOUS
  <2>4. /\ q \in WebhookRequest /\ q.pc = "save" /\ q.id = p.id /\ q.field = p.field
        /\ q.value = p.value /\ q.copy # <<>> /\ q.copy[1] = row
    <3>1. /\ q \in WebhookRequest /\ q.pc = "save" /\ q.id = p.id /\ q.field = p.field
          /\ q.value = p.value /\ q.copy = <<row>>
      BY <2>2, <2>3, HookReadIsTyped
    <3> QED BY <3>1
  <2>5. <<p.id, row.url, row.secret>> \in made
    BY <2>1, <2>2 DEF WebhooksInv, HooksAreSound
  <2>6. KnowsItsHook(q)
    BY <1>1, <2>1, <2>2, <2>4, <2>5 DEF KnowsItsHook
  <2>7. Become(r, q)
    BY <1>1, <1>4, <2>1, <2>3 DEF UpdateWebhook, ReadHook
  <2> QED BY <1>2, <2>4, <2>6, <2>7, HookGoesOn
<1> QED BY <1>3, <1>4

\* ... and saved, ...
LEMMA SavesHook ==
    ASSUME WebhooksInv, NEW r \in Slots, SaveWebhook(r)
    PROVE  \E q : HookStep(r, q)
<1>1. PICK p \in WebhookRequest : p = req[r] /\ KnowsItsHook(p) /\ p.pc = "save"
  BY HookInSlot DEF SaveWebhook, At
<1>2. PICK h, copy : h = p.id /\ copy = p.copy[1]
  OBVIOUS
<1>3. /\ h \in Hooks /\ copy \in Webhook /\ ~copy.deleted /\ copy.org = hooks[h].org
      /\ <<h, copy.url, copy.secret>> \in made
      /\ h \in tangled \/ copy = hooks[h]
      /\ IsValueOf(p.field, p.value) /\ p.stamp \in Secret
  <2>1. p.copy \in Seq(Webhook) /\ p.copy # <<>> /\ p.stamp \in Secret
    BY <1>1, HookRequestIsTyped DEF KnowsItsHook
  <2>2. p.copy[1] \in Webhook
    BY <2>1
  <2> QED BY <1>1, <1>2, <2>1, <2>2 DEF KnowsItsHook
<1>4. PICK secret : secret = NewSecret(copy, p)
  OBVIOUS
<1>5. secret \in Secret
  BY <1>3, <1>4, HookIsTyped DEF NewSecret
<1>6. PICK row, want : /\ row = SetHook(copy, p.field, p.value, secret)
                       /\ want = SetHook(agreed[h], p.field, p.value, secret)
  OBVIOUS
<1>7. /\ row \in Webhook /\ row.org = copy.org /\ row.deleted = copy.deleted
      /\ row.secret = secret /\ row.url = IF p.field = "url" THEN p.value ELSE copy.url
  BY <1>3, <1>5, <1>6, SetHookIsTyped
<1>8. want \in Webhook
  <2>1. agreed[h] \in Webhook
    BY <1>3, HookTables
  <2> QED BY <1>3, <1>5, <1>6, <2>1, SetHookIsTyped
<1>9. h \in tangled \/ want = row
  BY <1>3, <1>6 DEF WebhooksInv, HooksAreSound
<1>10. Finish(r) /\ sendings' = sendings /\ ~At(r, "answer")
  BY <1>1 DEF SaveWebhook, At
<1>11. CASE UrlIsFree(h, row)
  <2>1. /\ hooks' = [hooks EXCEPT ![h] = row]
        /\ agreed' = [agreed EXCEPT ![h] =
                        [[@ EXCEPT ![p.field] = p.value] EXCEPT !.secret = row.secret]]
        /\ made' = IF p.field = "url" /\ p.value # copy.url
                   THEN made \cup {<<h, p.value, p.stamp>>} ELSE made
        /\ Tangle(r, h)
    BY <1>1, <1>2, <1>4, <1>6, <1>11 DEF SaveWebhook, SetHook
  <2>2. agreed' = [agreed EXCEPT ![h] = want]
    BY <1>6, <1>7, <2>1, HookTables DEF SetHook
  <2>3. /\ made \subseteq made' /\ <<h, row.url, row.secret>> \in made'
        /\ made' \subseteq Hooks \X Urls \X Secret
    <3>1. made \subseteq Hooks \X Urls \X Secret
      BY DEF WebhooksInv, WebhooksTypeOK
    <3>2. CASE p.field = "url" /\ p.value # copy.url
      <4>1. row.url = p.value /\ row.secret = p.stamp /\ made' = made \cup {<<h, p.value, p.stamp>>}
        BY <1>4, <1>7, <2>1, <3>2 DEF NewSecret
      <4>2. p.value \in Urls
        BY <1>3, <3>2 DEF IsValueOf
      <4> QED BY <1>3, <3>1, <4>1, <4>2
    <3>3. CASE ~(p.field = "url" /\ p.value # copy.url)
      <4>1. row.url = copy.url
        BY <1>7, <3>3
      <4>2. row.secret = copy.secret
        BY <1>4, <1>7, <3>3 DEF NewSecret
      <4>3. made' = made
        BY <2>1, <3>3
      <4> QED BY <1>3, <3>1, <4>1, <4>2, <4>3
    <3> QED BY <3>2, <3>3
  <2>5. HookWritten(r, h, row, want)
    BY <1>3, <1>7, <1>8, <1>9, <1>10, <1>11, <2>1, <2>2, <2>3 DEF HookWritten
  <2> QED BY <1>10, <2>5, HookTables DEF HookStep, Finish, Become
<1>12. CASE ~UrlIsFree(h, row)
  <2>1. UNCHANGED webhookVars
    BY <1>1, <1>2, <1>4, <1>6, <1>12 DEF SaveWebhook, SetHook, webhookVars
  <2> QED BY <1>10, <2>1, HookEnds
<1> QED BY <1>11, <1>12

\* ... and it is deleted.
LEMMA DropsHook ==
    ASSUME WebhooksInv, NEW r \in Slots, SoftDeleteWebhook(r)
    PROVE  \E q : HookStep(r, q)
<1>1. PICK p \in WebhookRequest : p = req[r] /\ KnowsItsHook(p) /\ p.pc = "drop"
  BY HookInSlot DEF SoftDeleteWebhook, At
<1>2. PICK h \in Hooks : h = p.id
  BY <1>1 DEF KnowsItsHook
<1>3. Finish(r) /\ UNCHANGED <<sendings, made>> /\ ~At(r, "answer")
  BY <1>1 DEF SoftDeleteWebhook, At
<1>4. CASE ~hooks[h].deleted
  <2>1. PICK row, want : /\ row = [hooks[h] EXCEPT !.deleted = TRUE]
                         /\ want = [agreed[h] EXCEPT !.deleted = TRUE]
    OBVIOUS
  <2>2. /\ row \in Webhook /\ row.deleted /\ row.org = hooks[h].org
        /\ row.url = hooks[h].url /\ row.secret = hooks[h].secret
    BY <2>1, HookTables, HookIsTyped
  <2>3. want \in Webhook
    BY <2>1, HookTables, HookIsTyped
  <2>4. h \in tangled \/ want = row
    BY <2>1 DEF WebhooksInv, HooksAreSound
  <2>5. /\ hooks' = [hooks EXCEPT ![h] = row] /\ agreed' = [agreed EXCEPT ![h] = want]
        /\ Tangle(r, h)
    BY <1>1, <1>2, <1>4, <2>1 DEF SoftDeleteWebhook
  <2>6. made' = made /\ <<h, row.url, row.secret>> \in made
        /\ made \subseteq Hooks \X Urls \X Secret
    BY <1>3, <2>2 DEF WebhooksInv, WebhooksTypeOK, HooksAreSound
  <2>7. HookWritten(r, h, row, want)
    BY <1>3, <2>2, <2>3, <2>4, <2>5, <2>6 DEF HookWritten, UrlIsFree
  <2> QED BY <1>3, <2>7, HookTables DEF HookStep, Finish, Become
<1>5. CASE hooks[h].deleted
  <2>1. UNCHANGED webhookVars
    BY <1>1, <1>2, <1>3, <1>5 DEF SoftDeleteWebhook, webhookVars
  <2> QED BY <1>3, <2>1, HookEnds
<1> QED BY <1>4, <1>5

\* The steps of DispatchEvent are of this form, ...
LEMMA FindsHooks ==
    ASSUME WebhooksInv, NEW r \in Slots, DispatchEvent(r)
    PROVE  \E q : HookStep(r, q)
<1>1. PICK p \in WebhookRequest : p = req[r] /\ KnowsItsHook(p) /\ p.pc = "find"
  BY HookInSlot DEF DispatchEvent, At
<1>2. PICK found : found = {h \in FindForEventDispatch(p.org) : Wanted(h, p.value)}
  OBVIOUS
<1>3. PICK todo : todo = {<<h, agreed[h]>> : h \in found}
  OBVIOUS
<1>4. UNCHANGED webhookVars /\ ~At(r, "answer")
  BY <1>1 DEF DispatchEvent, At
<1>5. CASE found = {}
  <2>1. Finish(r)
    BY <1>1, <1>2, <1>5 DEF DispatchEvent
  <2> QED BY <1>4, <2>1, HookEnds
<1>6. CASE found # {}
  <2>1. ASSUME NEW h \in found
        PROVE  h \in 1..MaxHooks /\ agreed[h] \in Webhook /\ WasWanted(h, agreed[h], p.value, p.org)
    <3>1. /\ h \in Hooks /\ hooks[h].org \in {"global", p.org}
          /\ hooks[h].active /\ ~hooks[h].deleted /\ hooks[h].event = p.value
      BY <1>2 DEF FindForEventDispatch, Wanted, IsActive, IsSubscribedTo
    <3>2. h \in tangled \/ agreed[h] = hooks[h]
      BY <3>1 DEF WebhooksInv, HooksAreSound
    <3>3. h \in 1..MaxHooks /\ agreed[h] \in Webhook
      BY <3>1, HookTables
    <3> QED BY <3>1, <3>2, <3>3 DEF WasWanted
  <2>2. todo \in SUBSET ((1..MaxHooks) \X Webhook)
    BY <1>3, <2>1
  <2>3. PICK q : q = Delivering(p, todo)
    OBVIOUS
  <2>4. /\ q \in WebhookRequest /\ q.pc = "deliver" /\ q.org = p.org /\ q.value = p.value
        /\ q.todo = todo
    BY <2>2, <2>3, HookTodoIsTyped
  <2>5. \A x \in q.todo : WasWanted(x[1], x[2], q.value, q.org)
    BY <1>3, <2>1, <2>4
  <2>6. KnowsItsHook(q)
    BY <1>1, <2>4, <2>5 DEF KnowsItsHook
  <2>7. Become(r, q)
    BY <1>1, <1>2, <1>3, <1>6, <2>3 DEF DispatchEvent, Delivering
  <2> QED BY <1>4, <2>4, <2>6, <2>7, HookGoesOn
<1> QED BY <1>5, <1>6

\* ... also where a delivery is written ...
LEMMA WritesSending ==
    ASSUME WebhooksInv, NEW r \in Slots, DispatchDelivery(r)
    PROVE  \E q : HookStep(r, q)
<1>1. PICK p \in WebhookRequest : p = req[r] /\ KnowsItsHook(p) /\ p.pc = "deliver"
  BY HookInSlot DEF DispatchDelivery, At
<1>2. PICK next, left, rest, row :
        /\ next \in p.todo
        /\ left = p.todo \ {next}
        /\ rest = IF left = {} THEN Idle ELSE [p EXCEPT !.todo = left]
        /\ row = [hook |-> next[1], event |-> p.value, org |-> p.org, then |-> next[2],
                  queued |-> TRUE, replays |-> 0, answered |-> 0, astray |-> 0]
        /\ \/ /\ Len(sendings) < MaxSent
              /\ sendings' = Append(sendings, row)
              /\ Become(r, rest)
           \/ UNCHANGED sendings /\ Stumble(r, rest)
  BY <1>1 DEF DispatchDelivery
<1>3. UNCHANGED <<hooks, made, agreed, tangled>> /\ ~At(r, "answer")
  BY <1>1 DEF DispatchDelivery, At
<1>4. /\ p.todo \subseteq (1..MaxHooks) \X Webhook /\ p.org \in Scopes /\ p.value \in HookEvents
      /\ \A x \in p.todo : WasWanted(x[1], x[2], p.value, p.org)
  BY <1>1, HookRequestIsTyped DEF KnowsItsHook
<1>5. rest \in WebhookRequest \cup {Idle} /\ KnowsItsHook(rest) /\ rest.pc # "answer"
  <2>1. CASE left = {}
    BY <1>2, <2>1, IdleKnowsNoHook
  <2>2. CASE left # {}
    <3>1. left \in SUBSET ((1..MaxHooks) \X Webhook) /\ rest = Delivering(p, left)
      BY <1>1, <1>2, <1>4, <2>2, HookTodoIsTyped
    <3>2. /\ rest \in WebhookRequest /\ rest.pc = "deliver" /\ rest.org = p.org
          /\ rest.value = p.value /\ rest.todo = left
      BY <1>1, <3>1, HookTodoIsTyped
    <3>3. KnowsItsHook(rest)
      BY <1>2, <1>4, <3>2 DEF KnowsItsHook
    <3> QED BY <3>2, <3>3
  <2> QED BY <2>1, <2>2
<1>6. CASE /\ Len(sendings) < MaxSent
           /\ sendings' = Append(sendings, row)
           /\ Become(r, rest)
  <2>1. next[1] \in 1..MaxHooks /\ next[2] \in Webhook
    BY <1>2, <1>4
  <2>2. /\ row \in Sending /\ row.hook = next[1] /\ row.then = next[2] /\ row.event = p.value
        /\ row.org = p.org /\ row.replays = 0 /\ row.answered = 0 /\ row.astray = 0
    BY <1>2, <1>4, <2>1 DEF Sending
  <2>3. WasWanted(row.hook, row.then, row.event, row.org)
    BY <1>2, <1>4, <2>2
  <2>4. SendingAdded(row)
    BY <1>3, <1>6, <2>2, <2>3 DEF SendingAdded
  <2> QED BY <1>3, <1>5, <1>6, <2>4, HookTables DEF HookStep, Become
<1>7. CASE UNCHANGED sendings /\ Stumble(r, rest)
  <2>1. UNCHANGED webhookVars
    BY <1>3, <1>7 DEF webhookVars
  <2>2. /\ req' = [req EXCEPT ![r] = rest] /\ begun' \in 0..MaxRequests
        /\ faults' = faults + 1 /\ faults' \in 0..MaxFaults /\ faults' \in {faults, faults + 1}
    BY <1>7, HookTables DEF Stumble
  <2>3. HooksGoOn(r, rest)
    BY <1>5, <2>1, <2>2 DEF HooksGoOn
  <2> QED BY <1>5, <2>2, <2>3 DEF HookStep
<1> QED BY <1>2, <1>6, <1>7

\* ... and is done; those of ReplayDelivery ...
LEMMA DoesSending ==
    ASSUME WebhooksInv, NEW d \in DOMAIN sendings, SendingDone(d)
    PROVE  SendingIsDone
<1>1. PICK s \in Sending : s = sendings[d]
  BY HookTables
<1>2. PICK row : row = [s EXCEPT !.queued = FALSE]
  OBVIOUS
<1>3. /\ row \in Sending /\ row.hook = s.hook /\ row.event = s.event /\ row.org = s.org
      /\ row.then = s.then /\ row.replays = s.replays
      /\ row.answered = s.answered /\ row.astray = s.astray
  BY <1>2, ReplayedIsTyped
<1>4. sendings' = [sendings EXCEPT ![d] = row]
  BY <1>1, <1>2 DEF SendingDone
<1>5. SendingWritten(d, row)
  BY <1>1, <1>3, <1>4 DEF SendingWritten, SendingDone
<1> QED BY <1>1, <1>3, <1>5 DEF SendingIsDone, SendingDone

\* ... which puts a delivery back ...
LEMMA ResetsSending ==
    ASSUME WebhooksInv, NEW r \in Slots, ReplayReset(r)
    PROVE  \E q : HookStep(r, q)
<1>1. PICK p \in WebhookRequest : p = req[r] /\ KnowsItsHook(p) /\ p.pc = "reset"
  BY HookInSlot DEF ReplayReset, At
<1>2. PICK d \in DOMAIN sendings : d = p.sending
  BY <1>1 DEF KnowsItsHook
<1>3. PICK s \in Sending : s = sendings[d]
  BY HookTables
<1>4. PICK row : row = [s EXCEPT !.queued = TRUE, !.replays = @ + 1]
  OBVIOUS
<1>5. /\ row \in Sending /\ row.hook = s.hook /\ row.event = s.event /\ row.org = s.org
      /\ row.then = s.then /\ row.replays = s.replays + 1
      /\ row.answered = s.answered /\ row.astray = s.astray
  BY <1>4, ReplayedIsTyped
<1>6. sendings' = [sendings EXCEPT ![d] = row]
  BY <1>1, <1>2, <1>3, <1>4 DEF ReplayReset
<1>7. SendingWritten(d, row)
  BY <1>1, <1>3, <1>5, <1>6 DEF SendingWritten, ReplayReset
<1>8. PICK q : q = [p EXCEPT !.pc = "answer"]
  OBVIOUS
<1>9. /\ q \in WebhookRequest /\ q.pc = "answer" /\ q.id = p.id /\ q.sending = d
  BY <1>2, <1>8, HookGotoIsTyped
<1>10. KnowsItsHook(q)
  BY <1>1, <1>9 DEF KnowsItsHook
<1>11. Replays(q, d, row)
  BY <1>3, <1>5, <1>7, <1>9, <1>10 DEF Replays
<1>12. Become(r, q) /\ ~At(r, "answer")
  BY <1>1, <1>8 DEF ReplayReset, Goto, At
<1> QED BY <1>9, <1>11, <1>12, HookTables DEF HookStep, Become

\* ... and answers.
LEMMA AnswersReplay ==
    ASSUME WebhooksInv, NEW r \in Slots, ReplayAnswer(r)
    PROVE  \E q : HookStep(r, q)
<1>1. PICK p \in WebhookRequest : p = req[r] /\ KnowsItsHook(p) /\ p.pc = "answer"
  BY HookInSlot DEF ReplayAnswer, At
<1>2. PICK d \in DOMAIN sendings : d = p.sending
  BY <1>1 DEF KnowsItsHook
<1>3. PICK s \in Sending : s = sendings[d]
  BY HookTables
<1>4. PICK row : row = IF BelongsTo(d, p.id) THEN [s EXCEPT !.answered = @ + 1]
                                             ELSE [s EXCEPT !.astray = @ + 1]
  OBVIOUS
<1>5. /\ row \in Sending /\ row.hook = s.hook /\ row.event = s.event /\ row.org = s.org
      /\ row.then = s.then /\ row.replays = s.replays
      /\ row.answered + row.astray = s.answered + s.astray + 1
  <2>1. CASE BelongsTo(d, p.id)
    <3>1. row = [s EXCEPT !.answered = @ + 1]
      BY <1>4, <2>1
    <3>2. /\ s.answered \in Nat /\ s.astray \in Nat
      BY SendingIsTyped
    <3>3. /\ row \in Sending /\ row.hook = s.hook /\ row.event = s.event /\ row.org = s.org
          /\ row.then = s.then /\ row.replays = s.replays
          /\ row.answered = s.answered + 1 /\ row.astray = s.astray
      BY <3>1, AnsweredIsTyped
    <3>4. row.answered + row.astray = s.answered + s.astray + 1
      BY <3>2, <3>3
    <3> QED BY <3>3, <3>4
  <2>2. CASE ~BelongsTo(d, p.id)
    <3>1. row = [s EXCEPT !.astray = @ + 1]
      BY <1>4, <2>2
    <3>2. /\ s.answered \in Nat /\ s.astray \in Nat
      BY SendingIsTyped
    <3>3. /\ row \in Sending /\ row.hook = s.hook /\ row.event = s.event /\ row.org = s.org
          /\ row.then = s.then /\ row.replays = s.replays
          /\ row.answered = s.answered /\ row.astray = s.astray + 1
      BY <3>1, AnsweredIsTyped
    <3>4. row.answered + row.astray = s.answered + s.astray + 1
      BY <3>2, <3>3
    <3> QED BY <3>3, <3>4
  <2> QED BY <2>1, <2>2
<1>6. sendings' = [sendings EXCEPT ![d] = row]
  BY <1>1, <1>2, <1>3, <1>4 DEF ReplayAnswer
<1>7. SendingWritten(d, row)
  BY <1>1, <1>3, <1>5, <1>6 DEF SendingWritten, ReplayAnswer
<1>8. Answers(r, d, row)
  BY <1>1, <1>2, <1>3, <1>5, <1>7 DEF Answers, At
<1> QED BY <1>8, HookTables DEF HookStep, Become, Finish, ReplayAnswer

\* All steps are.
LEMMA HookSteps ==
    ASSUME WebhooksInv, WebhooksNext
    PROVE  SendingIsDone \/ \E r \in Slots : \E q : HookStep(r, q)
<1>1. ASSUME NEW d \in DOMAIN sendings, SendingDone(d) PROVE SendingIsDone
  BY <1>1, DoesSending
<1>2. ASSUME NEW r \in Slots, OwnerOfWebhook(r) PROVE \E q : HookStep(r, q)
  BY <1>2, HookEnds, HookGoesTo DEF OwnerOfWebhook, At
<1>3. ASSUME NEW r \in Slots, OwnerBeforeDelete(r) PROVE \E q : HookStep(r, q)
  BY <1>3, HookEnds, HookGoesTo DEF OwnerBeforeDelete, At
<1>4. ASSUME NEW r \in Slots, ReplayOwner(r) PROVE \E q : HookStep(r, q)
  BY <1>4, HookEnds, HookGoesTo DEF ReplayOwner, At
<1>5. ASSUME NEW r \in Slots, ReplayDelivery(r) PROVE \E q : HookStep(r, q)
  BY <1>5, HookEnds, HookGoesTo DEF ReplayDelivery, At
<1>6. ASSUME NEW r \in Slots, Abort(r), UNCHANGED webhookVars PROVE HookStep(r, Idle)
  BY <1>6, HookTables, IdleKnowsNoHook DEF Abort, Stumble, HookStep, HooksGoOn
<1>7. ASSUME NEW r \in Slots,
             \/ WebhookHandlers(r)
             \/ CreateWebhook(r)
             \/ OwnerOfWebhook(r) \/ UpdateWebhook(r) \/ SaveWebhook(r)
             \/ OwnerBeforeDelete(r) \/ SoftDeleteWebhook(r)
             \/ DispatchEvent(r) \/ DispatchDelivery(r)
             \/ ReplayOwner(r) \/ ReplayDelivery(r) \/ ReplayReset(r) \/ ReplayAnswer(r)
             \/ Abort(r) /\ UNCHANGED webhookVars
      PROVE  \E q : HookStep(r, q)
  BY <1>2, <1>3, <1>4, <1>5, <1>6, <1>7, HandlersBeginHooks, CreatesHook, ReadsHook, SavesHook,
     DropsHook, FindsHooks, WritesSending, ResetsSending, AnswersReplay
<1> QED BY <1>1, <1>7 DEF WebhooksNext

-----------------------------------------------------------------------------

\* The tables only grow.
HooksGrow ==
    /\ \A h \in Hooks : h \in DOMAIN hooks' /\ hooks'[h].org = hooks[h].org
    /\ tangled \subseteq tangled' /\ made \subseteq made'
    /\ DOMAIN sendings \subseteq DOMAIN sendings'

\* What was wanted stays so, ...
LEMMA WantedStays ==
    ASSUME HooksGrow, NEW h, NEW row, NEW e, NEW o, WasWanted(h, row, e, o)
    PROVE  WasWanted(h, row, e, o)'
BY DEF HooksGrow, WasWanted, Hooks

\* ... and a request that knows a webhook goes on to know it.
LEMMA KnowledgeStays ==
    ASSUME HooksGrow, NEW q, KnowsItsHook(q),
           q.pc = "save" => q.id \in tangled' \/ hooks'[q.id] = hooks[q.id]
    PROVE  KnowsItsHook(q)'
<1>1. q.pc = "deliver" => \A x \in q.todo : WasWanted(x[1], x[2], q.value, q.org)'
  BY WantedStays DEF KnowsItsHook
<1>2. q.pc = "save" =>
        /\ q.copy # <<>> /\ ~q.copy[1].deleted /\ q.copy[1].org = hooks'[q.id].org
        /\ <<q.id, q.copy[1].url, q.copy[1].secret>> \in made'
        /\ q.id \in tangled' \/ q.copy[1] = hooks'[q.id]
  BY DEF KnowsItsHook, HooksGrow
<1>3. /\ q.pc = "create" => q.value \in Urls
      /\ q.pc \in {"find", "deliver"} => q.value \in HookEvents
      /\ q.pc \notin {"idle", "create", "find", "deliver"} => q.id \in DOMAIN hooks'
      /\ q.pc \in {"owner", "update", "save"} => IsValueOf(q.field, q.value)
      /\ q.pc \in {"path", "replay", "reset", "answer"} => q.sending \in DOMAIN sendings'
  BY DEF KnowsItsHook, HooksGrow
<1> QED BY <1>1, <1>2, <1>3 DEF KnowsItsHook, Hooks, IsValueOf

\* The webhooks after a step of either form, ...
LEMMA HooksAfter ==
    ASSUME WebhooksInv,
           SendingIsDone \/ \E r \in Slots : \E q : HookStep(r, q)
    PROVE  /\ hooks' \in Seq(Webhook) /\ Len(hooks') <= MaxHooks
           /\ made' \subseteq (DOMAIN hooks') \X Urls \X Secret
           /\ agreed' \in Seq(Webhook) /\ Len(agreed') = Len(hooks')
           /\ tangled' \subseteq DOMAIN hooks'
           /\ HooksAreSound' /\ HooksGrow
<1>1. /\ hooks \in Seq(Webhook) /\ Len(hooks) <= MaxHooks /\ Len(hooks) \in Nat
      /\ made \subseteq Hooks \X Urls \X Secret
      /\ agreed \in Seq(Webhook) /\ Len(agreed) = Len(hooks)
      /\ tangled \subseteq Hooks /\ HooksAreSound /\ sendings \in Seq(Sending)
      /\ DOMAIN agreed = Hooks
  BY HookTables DEF WebhooksInv, WebhooksTypeOK
<1>2. CASE UNCHANGED <<hooks, made, agreed, tangled>> /\ DOMAIN sendings \subseteq DOMAIN sendings'
  <2>1. /\ hooks' = hooks /\ made' = made /\ agreed' = agreed /\ tangled' = tangled
        /\ DOMAIN hooks' = Hooks
    BY <1>2 DEF Hooks
  <2>2. HooksAreSound'
    BY <1>1, <2>1 DEF HooksAreSound, Hooks
  <2>3. HooksGrow
    BY <1>2, <2>1 DEF HooksGrow
  <2>4. made' \subseteq (DOMAIN hooks') \X Urls \X Secret
    BY <1>1, <2>1
  <2> QED BY <1>1, <2>1, <2>2, <2>3, <2>4
<1>3. ASSUME NEW d, NEW row, SendingWritten(d, row) PROVE DOMAIN sendings' = DOMAIN sendings
  BY <1>3 DEF SendingWritten
<1>4. ASSUME NEW row, SendingAdded(row) PROVE DOMAIN sendings \subseteq DOMAIN sendings'
  BY <1>1, <1>4, LongerSequence DEF SendingAdded
<1>5. ASSUME NEW row, HookAdded(row)
      PROVE  /\ hooks' \in Seq(Webhook) /\ Len(hooks') <= MaxHooks
             /\ made' \subseteq (DOMAIN hooks') \X Urls \X Secret
             /\ agreed' \in Seq(Webhook) /\ Len(agreed') = Len(hooks')
             /\ tangled' \subseteq DOMAIN hooks'
             /\ HooksAreSound' /\ HooksGrow
  <2>1. PICK new : new = Len(hooks) + 1
    OBVIOUS
  <2>2. /\ hooks' \in Seq(Webhook) /\ Len(hooks') = new /\ DOMAIN hooks' = Hooks \cup {new}
        /\ new \notin Hooks /\ hooks'[new] = row /\ \A h \in Hooks : hooks'[h] = hooks[h]
    BY <1>1, <1>5, <2>1, LongerSequence DEF HookAdded, Hooks
  <2>3. /\ agreed' \in Seq(Webhook) /\ Len(agreed') = new /\ agreed'[new] = row
        /\ \A h \in Hooks : agreed'[h] = agreed[h]
    BY <1>1, <1>5, <2>1, LongerSequence DEF HookAdded
  <2>4. made' = made \cup {<<new, row.url, row.secret>>} /\ tangled' = tangled
    BY <1>5, <2>1 DEF HookAdded
  <2>5. row.url \in Urls /\ row.secret \in Secret
    BY <1>5, HookIsTyped DEF HookAdded
  <2>6. \A g \in Hooks : \/ hooks[g].org # row.org \/ hooks[g].url # row.url
                         \/ row.org = "global" \/ hooks[g].deleted
    <3>1. Hooks = 1..Len(hooks) /\ Len(hooks) \in Nat
      BY <1>1, HookTables
    <3>2. \A g \in Hooks : g # 0
      BY <3>1
    <3> QED BY <1>5, <3>2 DEF HookAdded, UrlIsFree, Webhook_FindByOrgID
  <2>7. ASSUME NEW h \in DOMAIN hooks'
        PROVE  /\ <<h, hooks'[h].url, hooks'[h].secret>> \in made'
               /\ h \in tangled' \/ agreed'[h] = hooks'[h]
    BY <1>1, <2>2, <2>3, <2>4, <2>7 DEF HooksAreSound
  <2>8. ASSUME NEW g \in DOMAIN hooks', NEW h \in DOMAIN hooks',
               hooks'[g].org = hooks'[h].org, hooks'[g].url = hooks'[h].url
        PROVE  \/ g = h \/ hooks'[g].org = "global" \/ hooks'[g].deleted \/ hooks'[h].deleted
    <3>1. CASE g \in Hooks /\ h \in Hooks
      BY <1>1, <2>2, <2>8, <3>1 DEF HooksAreSound
    <3>2. CASE g = new \/ h = new
      BY <2>2, <2>6, <2>8, <3>2
    <3> QED BY <2>2, <3>1, <3>2
  <2>9. HooksAreSound'
    BY <2>7, <2>8 DEF HooksAreSound, Hooks
  <2>10. Len(hooks') <= MaxHooks
    BY <1>1, <1>5, <2>1, <2>2, HooksAssumption DEF HookAdded
  <2>11. made' \subseteq (DOMAIN hooks') \X Urls \X Secret
    <3>1. <<new, row.url, row.secret>> \in (DOMAIN hooks') \X Urls \X Secret
      BY <2>2, <2>5
    <3>2. \A x \in made : x \in (DOMAIN hooks') \X Urls \X Secret
      BY <1>1, <2>2
    <3> QED BY <2>4, <3>1, <3>2
  <2>12. HooksGrow
    BY <1>5, <2>2, <2>4 DEF HooksGrow, HookAdded
  <2> QED BY <1>1, <2>2, <2>3, <2>4, <2>9, <2>10, <2>11, <2>12
<1>6. ASSUME NEW r, NEW h, NEW row, NEW want, HookWritten(r, h, row, want)
      PROVE  /\ hooks' \in Seq(Webhook) /\ Len(hooks') <= MaxHooks
             /\ made' \subseteq (DOMAIN hooks') \X Urls \X Secret
             /\ agreed' \in Seq(Webhook) /\ Len(agreed') = Len(hooks')
             /\ tangled' \subseteq DOMAIN hooks'
             /\ HooksAreSound' /\ HooksGrow
  <2>1. /\ hooks' \in Seq(Webhook) /\ Len(hooks') = Len(hooks) /\ DOMAIN hooks' = Hooks
        /\ hooks'[h] = row /\ \A g \in Hooks : g # h => hooks'[g] = hooks[g]
    BY <1>1, <1>6, RowOfASequence DEF HookWritten, Hooks
  <2>2. /\ agreed' \in Seq(Webhook) /\ Len(agreed') = Len(agreed)
        /\ agreed'[h] = want /\ \A g \in Hooks : g # h => agreed'[g] = agreed[g]
    BY <1>1, <1>6, RowOfASequence DEF HookWritten
  <2>3. h \in Hooks /\ tangled \subseteq tangled' /\ tangled' \subseteq tangled \cup {h}
    BY <1>6 DEF HookWritten, Tangle
  <2>4. \A g \in Hooks \ {h} : \/ hooks[g].org # row.org \/ hooks[g].url # row.url
                               \/ row.org = "global" \/ hooks[g].deleted \/ row.deleted
    BY <1>6 DEF HookWritten, UrlIsFree, Webhook_FindByOrgID
  <2>5. made \subseteq made' /\ made' \subseteq Hooks \X Urls \X Secret
        /\ <<h, row.url, row.secret>> \in made'
    BY <1>6 DEF HookWritten
  <2>6. h \in tangled' \/ want = row
    BY <1>6, <2>3 DEF HookWritten
  <2>7. ASSUME NEW g \in Hooks
        PROVE  /\ <<g, hooks'[g].url, hooks'[g].secret>> \in made'
               /\ g \in tangled' \/ agreed'[g] = hooks'[g]
    <3>1. CASE g = h
      BY <2>1, <2>2, <2>5, <2>6, <3>1
    <3>2. CASE g # h
      BY <1>1, <2>1, <2>2, <2>3, <2>5, <3>2 DEF HooksAreSound
    <3> QED BY <3>1, <3>2
  <2>8. ASSUME NEW f \in Hooks, NEW g \in Hooks,
               hooks'[f].org = hooks'[g].org, hooks'[f].url = hooks'[g].url
        PROVE  \/ f = g \/ hooks'[f].org = "global" \/ hooks'[f].deleted \/ hooks'[g].deleted
    <3>1. CASE f # h /\ g # h
      BY <1>1, <2>1, <2>8, <3>1 DEF HooksAreSound
    <3>2. CASE f = h \/ g = h
      BY <2>1, <2>4, <2>8, <3>2
    <3> QED BY <3>1, <3>2
  <2>9. HooksAreSound'
    BY <2>1, <2>7, <2>8 DEF HooksAreSound, Hooks
  <2>10. HooksGrow
    BY <1>6, <2>1, <2>3, <2>5 DEF HooksGrow, HookWritten
  <2>11. Len(hooks') <= MaxHooks /\ Len(agreed') = Len(hooks') /\ tangled' \subseteq DOMAIN hooks'
    BY <1>1, <2>1, <2>2, <2>3
  <2>12. made' \subseteq (DOMAIN hooks') \X Urls \X Secret
    BY <2>1, <2>5
  <2> QED BY <2>1, <2>2, <2>9, <2>10, <2>11, <2>12
<1>7. CASE SendingIsDone
  BY <1>2, <1>3, <1>7 DEF SendingIsDone, SendingWritten
<1>8. ASSUME NEW r \in Slots, NEW q, HookStep(r, q)
      PROVE  \/ UNCHANGED <<hooks, made, agreed, tangled>>
                /\ DOMAIN sendings \subseteq DOMAIN sendings'
             \/ \E row : HookAdded(row)
             \/ \E h, row, want : HookWritten(r, h, row, want)
  <2>1. CASE HooksGoOn(r, q)
    BY <2>1 DEF HooksGoOn, webhookVars
  <2>2. CASE \E row : SendingAdded(row)
    BY <1>4, <2>2 DEF SendingAdded
  <2>3. CASE \E d, row : SendingWritten(d, row)
    BY <1>3, <2>3 DEF SendingWritten
  <2> QED BY <1>8, <2>1, <2>2, <2>3 DEF HookStep, Replays, Answers
<1> QED BY <1>2, <1>5, <1>6, <1>7, <1>8

\* ... the deliveries, ...
LEMMA SendingsAfter ==
    ASSUME WebhooksInv, HooksGrow,
           SendingIsDone \/ \E r \in Slots : \E q : HookStep(r, q)
    PROVE  /\ sendings' \in Seq(Sending) /\ Len(sendings') <= MaxSent
           /\ SendingsAreWanted'
<1>1. /\ sendings \in Seq(Sending) /\ Len(sendings) <= MaxSent /\ Len(sendings) \in Nat
      /\ SendingsAreWanted
  BY DEF WebhooksInv, WebhooksTypeOK
<1>2. CASE sendings' = sendings
  <2>1. ASSUME NEW d \in DOMAIN sendings
        PROVE  WasWanted(sendings[d].hook, sendings[d].then, sendings[d].event, sendings[d].org)'
    <3>1. PICK s : s = sendings[d]
      OBVIOUS
    <3>2. WasWanted(s.hook, s.then, s.event, s.org)
      BY <1>1, <3>1 DEF SendingsAreWanted
    <3>3. WasWanted(s.hook, s.then, s.event, s.org)'
      BY <3>2, WantedStays
    <3> QED BY <1>2, <3>1, <3>3
  <2> QED BY <1>1, <1>2, <2>1 DEF SendingsAreWanted
<1>3. ASSUME NEW d, NEW row, SendingWritten(d, row)
      PROVE  /\ sendings' \in Seq(Sending) /\ Len(sendings') <= MaxSent
             /\ SendingsAreWanted'
  <2>1. /\ sendings' \in Seq(Sending) /\ Len(sendings') = Len(sendings)
        /\ DOMAIN sendings' = DOMAIN sendings /\ sendings'[d] = row
        /\ \A c \in DOMAIN sendings : c # d => sendings'[c] = sendings[c]
    BY <1>1, <1>3, RowOfASequence DEF SendingWritten
  <2>2. ASSUME NEW c \in DOMAIN sendings
        PROVE  WasWanted(sendings[c].hook, sendings[c].then, sendings[c].event, sendings[c].org)'
    <3>1. PICK s : s = sendings'[c]
      OBVIOUS
    <3>2. /\ s.hook = sendings[c].hook /\ s.then = sendings[c].then
          /\ s.event = sendings[c].event /\ s.org = sendings[c].org
      BY <1>3, <2>1, <3>1 DEF SendingWritten
    <3>3. WasWanted(s.hook, s.then, s.event, s.org)
      BY <1>1, <3>2 DEF SendingsAreWanted
    <3>4. WasWanted(s.hook, s.then, s.event, s.org)'
      BY <3>3, WantedStays
    <3> QED BY <3>1, <3>4
  <2> QED BY <1>1, <2>1, <2>2 DEF SendingsAreWanted
<1>4. ASSUME NEW row, SendingAdded(row)
      PROVE  /\ sendings' \in Seq(Sending) /\ Len(sendings') <= MaxSent
             /\ SendingsAreWanted'
  <2>1. PICK new : new = Len(sendings) + 1
    OBVIOUS
  <2>2. /\ sendings' \in Seq(Sending) /\ Len(sendings') = new
        /\ DOMAIN sendings' = DOMAIN sendings \cup {new} /\ sendings'[new] = row
        /\ \A c \in DOMAIN sendings : sendings'[c] = sendings[c]
    BY <1>1, <1>4, <2>1, LongerSequence DEF SendingAdded
  <2>3. ASSUME NEW c \in DOMAIN sendings'
        PROVE  WasWanted(sendings[c].hook, sendings[c].then, sendings[c].event, sendings[c].org)'
    <3>1. PICK s : s = sendings'[c]
      OBVIOUS
    <3>2. WasWanted(s.hook, s.then, s.event, s.org)
      BY <1>1, <1>4, <2>2, <3>1 DEF SendingsAreWanted, SendingAdded
    <3>3. WasWanted(s.hook, s.then, s.event, s.org)'
      BY <3>2, WantedStays
    <3> QED BY <3>1, <3>3
  <2>4. Len(sendings') <= MaxSent
    BY <1>1, <1>4, <2>1, <2>2, HooksAssumption DEF SendingAdded
  <2> QED BY <2>2, <2>3, <2>4 DEF SendingsAreWanted
<1>5. CASE SendingIsDone
  BY <1>3, <1>5 DEF SendingIsDone
<1>6. ASSUME NEW r \in Slots, NEW q, HookStep(r, q)
      PROVE  \/ sendings' = sendings
             \/ \E row : SendingAdded(row)
             \/ \E d, row : SendingWritten(d, row)
  BY <1>6
  DEF HookStep, HooksGoOn, HookAdded, HookWritten, Replays, Answers, webhookVars
<1> QED BY <1>2, <1>3, <1>4, <1>5, <1>6

\* ... and what the requests know of both.
LEMMA HooksAreKnown ==
    ASSUME WebhooksInv, HooksGrow, NEW r \in Slots, NEW q, HookStep(r, q), NEW s \in Slots
    PROVE  KnowsItsHook(req[s])'
<1>1. /\ s = r => req'[s] = q
      /\ s # r => req'[s] = req[s]
      /\ KnowsItsHook(req[s])
  BY HookTables DEF HookStep, WebhooksInv
<1>2. PICK x : x = req'[s]
  OBVIOUS
<1>3. CASE s = r
  <2>1. CASE q = Idle
    <3>1. x.pc = "idle"
      BY <1>1, <1>2, <1>3, <2>1, IdleKnowsNoHook
    <3> QED BY <1>2, <3>1 DEF KnowsItsHook
  <2>2. CASE q # Idle
    <3>1. KnowsItsHook(x)
      BY <1>1, <1>2, <1>3, <2>2 DEF HookStep, HooksGoOn, Replays
    <3>2. hooks' = hooks
      BY <2>2 DEF HookStep, HooksGoOn, Replays, SendingAdded, SendingWritten, webhookVars
    <3>3. KnowsItsHook(x)'
      BY <3>1, <3>2, KnowledgeStays
    <3> QED BY <1>2, <3>3
  <2> QED BY <2>1, <2>2
<1>4. CASE s # r
  <2>1. KnowsItsHook(x) /\ x = req[s]
    BY <1>1, <1>2, <1>4
  <2>2. x.pc = "save" => x.id \in tangled' \/ hooks'[x.id] = hooks[x.id]
    <3>1. CASE UNCHANGED hooks
      BY <3>1
    <3>2. ASSUME NEW row, HookAdded(row), x.pc = "save" PROVE hooks'[x.id] = hooks[x.id]
      <4>1. x.id \in Hooks
        BY <2>1, <3>2 DEF KnowsItsHook
      <4> QED BY <3>2, <4>1, HookTables, LongerSequence DEF HookAdded, Hooks
    <3>3. ASSUME NEW h, NEW row, NEW want, HookWritten(r, h, row, want), x.pc = "save"
          PROVE  x.id \in tangled' \/ hooks'[x.id] = hooks[x.id]
      <4>1. x.id \in Hooks /\ x.copy # <<>>
        BY <2>1, <3>3 DEF KnowsItsHook
      <4>2. CASE x.id = h
        <5>1. s \in Others(r) /\ ~At(s, "idle")
          BY <1>4, <2>1, <3>3 DEF Others, At
        <5> QED BY <2>1, <3>3, <4>1, <4>2, <5>1 DEF HookWritten, Tangle
      <4>3. CASE x.id # h
        BY <3>3, <4>1, <4>3 DEF HookWritten, Hooks
      <4> QED BY <4>2, <4>3
    <3> QED BY <3>1, <3>2, <3>3
        DEF HookStep, HooksGoOn, Replays, Answers, SendingAdded, SendingWritten, webhookVars
  <2>3. KnowsItsHook(x)'
    BY <2>1, <2>2, KnowledgeStays
  <2> QED BY <1>2, <2>3
<1> QED BY <1>3, <1>4

\* Who has to answer after the request in slot r has become q.
LEMMA AnsweringAfter ==
    ASSUME NEW r \in Slots, NEW q, DOMAIN req = Slots, req' = [req EXCEPT ![r] = q], NEW d
    PROVE  /\ q.pc = "answer" /\ q.sending = d => Answering(d)' = Answering(d) \cup {r}
           /\ q.pc # "answer" \/ q.sending # d => Answering(d)' = Answering(d) \ {r}
<1>1. /\ req'[r] = q /\ DOMAIN req' = Slots
      /\ \A s \in Slots : s # r => req'[s] = req[s]
  OBVIOUS
<1> QED BY <1>1 DEF Answering, At

\* The replays of each delivery stay accounted for.
LEMMA RepliesAfter ==
    ASSUME WebhooksInv, NEW r \in Slots, NEW q, HookStep(r, q)
    PROVE  RepliesAreOwed'
<1>1. /\ sendings \in Seq(Sending) /\ faults \in Nat /\ RepliesAreOwed /\ DOMAIN req = Slots
      /\ faults' \in {faults, faults + 1} /\ req' = [req EXCEPT ![r] = q]
  BY HookTables DEF HookStep, WebhooksInv
<1>2. ASSUME NEW d \in DOMAIN sendings
      PROVE  /\ sendings[d].answered + sendings[d].astray \in Nat /\ sendings[d].replays \in Nat
             /\ Accounted(sendings[d].answered + sendings[d].astray, sendings[d].replays,
                          Answering(d), faults)
  <2>1. PICK s \in Sending : s = sendings[d]
    BY HookTables
  <2>2. s.answered \in Nat /\ s.astray \in Nat /\ s.replays \in Nat
    BY SendingIsTyped
  <2> QED BY <1>1, <2>1, <2>2 DEF RepliesAreOwed
<1>3. ASSUME NEW d \in DOMAIN sendings,
             sendings'[d].answered + sendings'[d].astray
                = sendings[d].answered + sendings[d].astray,
             sendings'[d].replays = sendings[d].replays,
             faults' = faults + 1 \/ r \notin Answering(d),
             q.pc # "answer" \/ q.sending # d
      PROVE  Accounted(sendings[d].answered + sendings[d].astray, sendings[d].replays,
                       Answering(d), faults)'
  <2>1. Answering(d)' = Answering(d) \ {r}
    BY <1>1, <1>3, AnsweringAfter
  <2>2. Accounted(sendings[d].answered + sendings[d].astray, sendings[d].replays,
                  Answering(d) \ {r}, faults')
    BY <1>1, <1>2, <1>3, AccountsOfEvents
  <2> QED BY <1>3, <2>1, <2>2
<1>4. CASE HooksGoOn(r, q)
  <2>1. sendings' = sendings /\ q.pc # "answer"
    BY <1>4 DEF HooksGoOn, webhookVars
  <2>2. \A d : faults' = faults + 1 \/ r \notin Answering(d)
    BY <1>4 DEF HooksGoOn, Answering
  <2> QED BY <1>3, <2>1, <2>2 DEF RepliesAreOwed
<1>5. ASSUME q = Idle, ~At(r, "answer"), sendings' = sendings PROVE RepliesAreOwed'
  <2>1. q.pc # "answer" /\ \A d : r \notin Answering(d)
    BY <1>5, IdleKnowsNoHook DEF Answering
  <2> QED BY <1>3, <1>5, <2>1 DEF RepliesAreOwed
<1>6. ASSUME q.pc # "answer", ~At(r, "answer"), NEW row, SendingAdded(row)
      PROVE  RepliesAreOwed'
  <2>1. PICK new : new = Len(sendings) + 1
    OBVIOUS
  <2>2. /\ DOMAIN sendings' = DOMAIN sendings \cup {new} /\ new \notin DOMAIN sendings
        /\ sendings'[new] = row /\ \A d \in DOMAIN sendings : sendings'[d] = sendings[d]
    BY <1>1, <1>6, <2>1, LongerSequence DEF SendingAdded
  <2>3. \A d : r \notin Answering(d)
    BY <1>6 DEF Answering
  <2>4. Answering(new) = {}
    BY <2>2 DEF Answering, At, WebhooksInv, KnowsItsHook
  <2>5. Answering(new)' = {}
    <3>1. Answering(new)' = Answering(new) \ {r}
      BY <1>1, <1>6, AnsweringAfter
    <3> QED BY <2>4, <3>1
  <2>6. Accounted(0, 0, {}, faults')
    BY FS_EmptySet DEF Accounted
  <2>7. /\ sendings'[new].answered + sendings'[new].astray = 0 /\ sendings'[new].replays = 0
    BY <1>6, <2>2 DEF SendingAdded
  <2>8. Accounted(sendings[new].answered + sendings[new].astray, sendings[new].replays,
                  Answering(new), faults)'
    BY <2>5, <2>6, <2>7
  <2>9. ASSUME NEW d \in DOMAIN sendings
        PROVE  Accounted(sendings[d].answered + sendings[d].astray, sendings[d].replays,
                         Answering(d), faults)'
    BY <1>3, <1>6, <2>2, <2>3
  <2> QED BY <2>2, <2>8, <2>9 DEF RepliesAreOwed
<1>7. ASSUME NEW d, NEW row, SendingWritten(d, row)
      PROVE  /\ d \in DOMAIN sendings /\ DOMAIN sendings' = DOMAIN sendings /\ sendings'[d] = row
             /\ \A c \in DOMAIN sendings : c # d => sendings'[c] = sendings[c]
  BY <1>1, <1>7, RowOfASequence DEF SendingWritten
<1>8. ASSUME ~At(r, "answer"), NEW d, NEW row, Replays(q, d, row) PROVE RepliesAreOwed'
  <2>1. /\ d \in DOMAIN sendings /\ DOMAIN sendings' = DOMAIN sendings /\ sendings'[d] = row
        /\ \A c \in DOMAIN sendings : c # d => sendings'[c] = sendings[c]
        /\ q.pc = "answer" /\ q.sending = d /\ row.replays = sendings[d].replays + 1
        /\ row.answered = sendings[d].answered /\ row.astray = sendings[d].astray
    BY <1>7, <1>8 DEF Replays
  <2>2. \A c : r \notin Answering(c)
    BY <1>8 DEF Answering
  <2>3. Answering(d)' = Answering(d) \cup {r}
    BY <1>1, <2>1, AnsweringAfter
  <2>4. Accounted(sendings[d].answered + sendings[d].astray, sendings[d].replays + 1,
                  Answering(d) \cup {r}, faults')
    <3>1. PICK done, due, owing :
            /\ done \in Nat /\ due \in Nat
            /\ done = sendings[d].answered + sendings[d].astray /\ due = sendings[d].replays
            /\ owing = Answering(d)
      BY <1>2, <2>1
    <3>2. Accounted(done, due, owing, faults) /\ r \notin owing
      BY <1>2, <2>1, <2>2, <3>1
    <3>3. PICK f, g : f = faults /\ g = faults'
      OBVIOUS
    <3>4. f \in Nat /\ g \in {f, f + 1} /\ Accounted(done, due, owing, f)
      BY <1>1, <3>2, <3>3
    <3>5. Accounted(done, due + 1, owing \cup {r}, g)
      BY <3>1, <3>2, <3>4, AccountsOfEvents
    <3> QED BY <3>1, <3>3, <3>5
  <2>5. Accounted(sendings[d].answered + sendings[d].astray, sendings[d].replays,
                  Answering(d), faults)'
    BY <2>1, <2>3, <2>4
  <2>6. ASSUME NEW c \in DOMAIN sendings, c # d
        PROVE  Accounted(sendings[c].answered + sendings[c].astray, sendings[c].replays,
                         Answering(c), faults)'
    BY <1>3, <2>1, <2>2, <2>6
  <2> QED BY <2>1, <2>5, <2>6 DEF RepliesAreOwed
<1>9. ASSUME q = Idle, NEW d, NEW row, Answers(r, d, row) PROVE RepliesAreOwed'
  <2>1. /\ d \in DOMAIN sendings /\ DOMAIN sendings' = DOMAIN sendings /\ sendings'[d] = row
        /\ \A c \in DOMAIN sendings : c # d => sendings'[c] = sendings[c]
        /\ At(r, "answer") /\ req[r].sending = d /\ row.replays = sendings[d].replays
        /\ row.answered + row.astray = sendings[d].answered + sendings[d].astray + 1
    BY <1>7, <1>9 DEF Answers
  <2>2. r \in Answering(d) /\ \A c : c # d => r \notin Answering(c)
    BY <2>1 DEF Answering
  <2>3. q.pc # "answer"
    BY <1>9, IdleKnowsNoHook
  <2>4. Answering(d)' = Answering(d) \ {r}
    BY <1>1, <2>3, AnsweringAfter
  <2>5. Accounted(sendings[d].answered + sendings[d].astray + 1, sendings[d].replays,
                  Answering(d) \ {r}, faults')
    <3>1. PICK done, due, owing :
            /\ done \in Nat /\ due \in Nat
            /\ done = sendings[d].answered + sendings[d].astray /\ due = sendings[d].replays
            /\ owing = Answering(d)
      BY <1>2, <2>1
    <3>2. Accounted(done, due, owing, faults) /\ r \in owing
      BY <1>2, <2>1, <2>2, <3>1
    <3>3. PICK f, g : f = faults /\ g = faults'
      OBVIOUS
    <3>4. f \in Nat /\ g \in {f, f + 1} /\ Accounted(done, due, owing, f)
      BY <1>1, <3>2, <3>3
    <3>5. done \in Nat /\ due \in Nat /\ r \in owing
      BY <3>1, <3>2
    <3>6. Accounted(done + 1, due, owing \ {r}, g)
      BY <3>4, <3>5, AccountsOfEvents
    <3> QED BY <3>1, <3>3, <3>6
  <2>6. Accounted(sendings[d].answered + sendings[d].astray, sendings[d].replays,
                  Answering(d), faults)'
    BY <2>1, <2>4, <2>5
  <2>7. ASSUME NEW c \in DOMAIN sendings, c # d
        PROVE  Accounted(sendings[c].answered + sendings[c].astray, sendings[c].replays,
                         Answering(c), faults)'
    BY <1>3, <2>1, <2>2, <2>3, <2>7
  <2> QED BY <2>1, <2>6, <2>7 DEF RepliesAreOwed
<1>10. /\ \A row : HookAdded(row) => sendings' = sendings
       /\ \A h, row, want : HookWritten(r, h, row, want) => sendings' = sendings
  BY DEF HookAdded, HookWritten
<1> QED BY <1>4, <1>5, <1>6, <1>8, <1>9, <1>10 DEF HookStep

\* Also where a delivery was done.
LEMMA RepliesWait ==
    ASSUME WebhooksInv, SendingIsDone
    PROVE  RepliesAreOwed'
<1>1. PICK d, row : /\ SendingWritten(d, row) /\ row.replays = sendings[d].replays
                    /\ row.answered = sendings[d].answered /\ row.astray = sendings[d].astray
  BY DEF SendingIsDone
<1>2. req' = req /\ faults' = faults /\ RepliesAreOwed
  BY DEF SendingIsDone, requestVars, WebhooksInv
<1>3. /\ DOMAIN sendings' = DOMAIN sendings /\ sendings'[d] = row
      /\ \A c \in DOMAIN sendings : c # d => sendings'[c] = sendings[c]
  BY <1>1, HookTables, RowOfASequence DEF SendingWritten
<1>4. \A c \in DOMAIN sendings :
        /\ sendings'[c].answered = sendings[c].answered /\ sendings'[c].astray = sendings[c].astray
        /\ sendings'[c].replays = sendings[c].replays /\ Answering(c)' = Answering(c)
  BY <1>1, <1>2, <1>3 DEF Answering, At
<1> QED BY <1>2, <1>3, <1>4 DEF RepliesAreOwed

\* Every step keeps the invariant.
LEMMA HookInvSteps ==
    WebhooksInv /\ [WebhooksNext]_<<webhookVars, requestVars>> => WebhooksInv'
<1>1. ASSUME WebhooksInv, SendingIsDone PROVE WebhooksInv'
  <2>1. /\ req' = req /\ begun' = begun /\ faults' = faults
    BY <1>1 DEF SendingIsDone, requestVars
  <2>2. /\ hooks' \in Seq(Webhook) /\ Len(hooks') <= MaxHooks
        /\ made' \subseteq (DOMAIN hooks') \X Urls \X Secret
        /\ agreed' \in Seq(Webhook) /\ Len(agreed') = Len(hooks')
        /\ tangled' \subseteq DOMAIN hooks' /\ HooksAreSound' /\ HooksGrow
    BY <1>1, HooksAfter
  <2>3. sendings' \in Seq(Sending) /\ Len(sendings') <= MaxSent /\ SendingsAreWanted'
    BY <1>1, <2>2, SendingsAfter
  <2>4. WebhooksTypeOK'
    BY <1>1, <2>1, <2>2, <2>3, HookTables DEF WebhooksTypeOK, RequestsAre, Hooks
  <2>5. ASSUME NEW r \in Slots PROVE KnowsItsHook(req[r])'
    <3>1. PICK x : x = req[r]
      OBVIOUS
    <3>2. KnowsItsHook(x) /\ hooks' = hooks
      BY <1>1, <3>1 DEF WebhooksInv, SendingIsDone, SendingWritten
    <3>3. KnowsItsHook(x)'
      BY <2>2, <3>2, KnowledgeStays
    <3> QED BY <2>1, <3>1, <3>3
  <2>6. RepliesAreOwed'
    BY <1>1, RepliesWait
  <2> QED BY <2>2, <2>3, <2>4, <2>5, <2>6 DEF WebhooksInv
<1>2. ASSUME WebhooksInv, NEW r \in Slots, NEW q, HookStep(r, q) PROVE WebhooksInv'
  <2>1. /\ hooks' \in Seq(Webhook) /\ Len(hooks') <= MaxHooks
        /\ made' \subseteq (DOMAIN hooks') \X Urls \X Secret
        /\ agreed' \in Seq(Webhook) /\ Len(agreed') = Len(hooks')
        /\ tangled' \subseteq DOMAIN hooks' /\ HooksAreSound' /\ HooksGrow
    BY <1>2, HooksAfter
  <2>2. sendings' \in Seq(Sending) /\ Len(sendings') <= MaxSent /\ SendingsAreWanted'
    BY <1>2, <2>1, SendingsAfter
  <2>3. \A s \in Slots : KnowsItsHook(req[s])'
    BY <1>2, <2>1, HooksAreKnown
  <2>4. /\ req' \in [Slots -> WebhookRequest \cup {Idle}]
        /\ begun' \in 0..MaxRequests /\ faults' \in 0..MaxFaults
    BY <1>2, HookTables DEF HookStep
  <2>5. WebhooksTypeOK'
    BY <2>1, <2>2, <2>4 DEF WebhooksTypeOK, RequestsAre, Hooks
  <2>6. RepliesAreOwed'
    BY <1>2, RepliesAfter
  <2> QED BY <2>1, <2>2, <2>3, <2>5, <2>6 DEF WebhooksInv
<1>3. ASSUME WebhooksInv, UNCHANGED <<webhookVars, requestVars>> PROVE WebhooksInv'
  <2>1. /\ hooks' = hooks /\ sendings' = sendings /\ made' = made /\ agreed' = agreed
        /\ tangled' = tangled /\ req' = req /\ begun' = begun /\ faults' = faults
    BY <1>3 DEF webhookVars, requestVars
  <2>2. WebhooksTypeOK' /\ HooksAreSound' /\ SendingsAreWanted' /\ RepliesAreOwed'
    BY <1>3, <2>1
    DEF WebhooksInv, WebhooksTypeOK, HooksAreSound, SendingsAreWanted, RepliesAreOwed,
        WasWanted, Answering, At, RequestsAre, Hooks
  <2>3. \A r \in Slots : KnowsItsHook(req[r])'
    BY <1>3, <2>1 DEF WebhooksInv, KnowsItsHook, WasWanted, Hooks, IsValueOf
  <2> QED BY <2>2, <2>3 DEF WebhooksInv
<1> QED BY <1>1, <1>2, <1>3, HookSteps

\* Both tables are empty at first.
LEMMA HooksStart == WebhooksInit /\ RequestsInit => WebhooksInv
<1> SUFFICES ASSUME WebhooksInit, RequestsInit PROVE WebhooksInv
  OBVIOUS
<1>1. Hooks = {} /\ DOMAIN sendings = {} /\ Len(<<>>) = 0 /\ \A S : <<>> \in Seq(S)
  BY DEF WebhooksInit, Hooks
<1>2. WebhooksTypeOK
  BY <1>1, RequestBoundsAssumption, HooksAssumption
  DEF WebhooksInit, RequestsInit, WebhooksTypeOK, RequestsAre
<1>3. \A r \in Slots : KnowsItsHook(req[r])
  BY IdleKnowsNoHook DEF RequestsInit
<1> QED BY <1>1, <1>2, <1>3 DEF WebhooksInv, HooksAreSound, SendingsAreWanted, RepliesAreOwed

\* What clients are shown follows from the rows.
LEMMA HooksAreShown == WebhooksInv => WebhooksHold
<1> SUFFICES ASSUME WebhooksInv PROVE WebhooksHold
  OBVIOUS
<1>1. SecretsFitUrls
  BY HooksAssumption
  DEF SecretsFitUrls, WebhooksInv, HooksAreSound, ListWebhooks, Webhook_FindByOrgID
<1>2. EventsGoWhereWanted
  <2> SUFFICES ASSUME NEW d \in DOMAIN sendings
               PROVE  /\ \/ hooks[sendings[d].hook].deleted
                         \/ /\ d \in ListDeliveries(sendings[d].org, sendings[d].hook)
                            /\ GetDelivery(sendings[d].org, sendings[d].hook, d)
                      /\ sendings[d].hook \notin tangled =>
                          /\ sendings[d].then.active /\ ~sendings[d].then.deleted
                          /\ sendings[d].then.event = sendings[d].event
    BY DEF EventsGoWhereWanted
  <2>1. WasWanted(sendings[d].hook, sendings[d].then, sendings[d].event, sendings[d].org)
    BY DEF WebhooksInv, SendingsAreWanted
  <2> QED BY <2>1
      DEF WasWanted, ListDeliveries, GetDelivery, GetWebhook, Webhook_FindByID, IsOwner, BelongsTo
<1>3. ReplaysAreAnswered
  <2> SUFFICES ASSUME NEW d \in DOMAIN sendings
               PROVE  /\ sendings[d].answered + sendings[d].astray <= sendings[d].replays
                      /\ Quiet /\ faults = 0 =>
                            sendings[d].answered + sendings[d].astray = sendings[d].replays
    BY DEF ReplaysAreAnswered
  <2>1. PICK done, due : /\ done = sendings[d].answered + sendings[d].astray
                         /\ due = sendings[d].replays
    OBVIOUS
  <2>2. done \in Nat /\ due \in Nat
    <3>1. PICK s \in Sending : s = sendings[d]
      BY HookTables
    <3>2. s.answered \in Nat /\ s.astray \in Nat /\ s.replays \in Nat
      BY SendingIsTyped
    <3> QED BY <2>1, <3>1, <3>2
  <2>3. Accounted(done, due, Answering(d), faults)
    BY <2>1 DEF WebhooksInv, RepliesAreOwed
  <2>4. Cardinality(Answering(d)) \in Nat
    BY <2>3, FS_CardinalityType DEF Accounted
  <2>5. done <= due
    BY <2>2, <2>3, <2>4 DEF Accounted
  <2>6. ASSUME Quiet, faults = 0 PROVE done = due
    <3>1. Answering(d) = {}
      BY <2>6 DEF Quiet, Answering, At, Idle
    <3> QED BY <2>2, <2>3, <2>6, <3>1, FS_EmptySet DEF Accounted
  <2> QED BY <2>1, <2>5, <2>6
<1> QED BY <1>1, <1>2, <1>3 DEF WebhooksHold

\* WebhooksHold: the secret that signs for a URL was generated for it, an event goes to those who
\* asked for it, a replay is answered once: service/webhook.go and handler/webhook.go, for any
\* organizations, webhooks, requests and failures.
THEOREM WebhooksAlwaysHold == WebhooksSpec => []WebhooksHold
BY HooksStart, HookInvSteps, HooksAreShown, PTL DEF WebhooksSpec

-----------------------------------------------------------------------------
(* Behind one API *)

\* Of the component in scope, the inductive invariant.
SwitchesInv ==
    /\ scope = "flags" => FeatureFlagsInv
    /\ scope = "settings" => SettingsInv
    /\ scope = "hooks" => WebhooksInv

\* SwitchesHold: flags, settings and webhooks do what administrators set them to: service/
\* feature_flag.go, service/user_settings.go, service/webhook.go, behind one API, for any
\* members, organizations, requests and failures.
THEOREM SwitchesAlwaysHold == ContentSpec => []SwitchesHold
<1>1. ContentInit => SwitchesInv
  BY FlagsStart, SettingsStart, HooksStart DEF ContentInit, SwitchesInv
<1>2. SwitchesInv /\ [ContentNext]_contentVars => SwitchesInv'
  <2> SUFFICES ASSUME SwitchesInv, [ContentNext]_contentVars PROVE SwitchesInv'
    OBVIOUS
  <2>1. scope' = scope
    BY DEF ContentNext, Within, contentVars
  <2>2. ASSUME scope = "flags" PROVE FeatureFlagsInv'
    <3>1. [FeatureFlagsNext]_<<flagVars, requestVars>>
      BY <2>2 DEF ContentNext, contentVars
    <3> QED BY <2>2, <3>1, FlagInvSteps DEF SwitchesInv
  <2>3. ASSUME scope = "settings" PROVE SettingsInv'
    <3>1. [SettingsNext]_<<settingsVars, requestVars>>
      BY <2>3 DEF ContentNext, contentVars
    <3> QED BY <2>3, <3>1, SettingsInvSteps DEF SwitchesInv
  <2>4. ASSUME scope = "hooks" PROVE WebhooksInv'
    <3>1. [WebhooksNext]_<<webhookVars, requestVars>>
      BY <2>4 DEF ContentNext, contentVars
    <3> QED BY <2>4, <3>1, HookInvSteps DEF SwitchesInv
  <2> QED BY <2>1, <2>2, <2>3, <2>4 DEF SwitchesInv
<1>3. SwitchesInv => SwitchesHold
  BY FlagsAreShown, SettingsAreShown, HooksAreShown
  DEF SwitchesInv, SwitchesHold, FeatureFlagsInv, SettingsInv, WebhooksInv
<1> QED BY <1>1, <1>2, <1>3, PTL DEF ContentSpec

=============================================================================
