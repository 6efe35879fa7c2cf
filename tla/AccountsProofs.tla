---------------------------- MODULE AccountsProofs ----------------------------
(***************************************************************************)
(* Proofs about the components that keep users, what they may do, their    *)
(* keys and how they log in by other providers, for any users, roles,      *)
(* permissions, keys and providers and any number of requests at a time.   *)
(* And about organizations: the roles in the memory of the enforcers       *)
(* follow the members of the table.                                        *)
(***************************************************************************)
EXTENDS TwoFactor, AccessControl, UsersAndKeys, OAuthLogin, Organizations,
        FiniteSetTheorems, TLAPS

-----------------------------------------------------------------------------
(* The row of a user: types *)

\* What an operation sets in its copy of the row are values of the columns.
LEMMA UserRowsAreTyped ==
    ASSUME NEW row \in UserRow
    PROVE  /\ \A n \in 0..MaxPasswords : [row EXCEPT !.pwd = n] \in UserRow
           /\ \A n \in 0..MaxSecrets :
                [row EXCEPT !.status = "pending", !.secret = n] \in UserRow
           /\ [row EXCEPT !.status = "disabled", !.secret = 0] \in UserRow
           /\ [row EXCEPT !.status = "enabled"] \in UserRow
           /\ [row EXCEPT !.gone = TRUE] \in UserRow
<1>1. ASSUME NEW n \in 0..MaxPasswords PROVE [row EXCEPT !.pwd = n] \in UserRow
  BY DEF UserRow
<1>2. ASSUME NEW n \in 0..MaxSecrets
      PROVE  [row EXCEPT !.status = "pending", !.secret = n] \in UserRow
  BY DEF UserRow
<1>3. [row EXCEPT !.status = "disabled", !.secret = 0] \in UserRow
  <2>1. 0 \in 0..MaxSecrets
    BY TwoFactorBoundsAssumption
  <2> QED BY <2>1 DEF UserRow
<1>4. [row EXCEPT !.status = "enabled"] \in UserRow
  BY DEF UserRow
<1>5. [row EXCEPT !.gone = TRUE] \in UserRow
  BY DEF UserRow
<1> QED BY <1>1, <1>2, <1>3, <1>4, <1>5

\* A request keeps its form over a change of its statement, its count or its mark.
LEMMA TwoFactorRequestsAreTyped ==
    ASSUME NEW q \in TwoFactorRequest
    PROVE  /\ q.row \in UserRow
           /\ [q EXCEPT !.stale = TRUE] \in TwoFactorRequest
           /\ \A label \in CodeLabels : [q EXCEPT !.pc = label] \in TwoFactorRequest
           /\ [q EXCEPT !.pc = "codes", !.left = Codes] \in TwoFactorRequest
           /\ q.left \in 1..Codes => [q EXCEPT !.left = @ - 1] \in TwoFactorRequest
<1>1. q.row \in UserRow /\ [q EXCEPT !.stale = TRUE] \in TwoFactorRequest
  BY DEF TwoFactorRequest
<1>2. ASSUME NEW label \in CodeLabels PROVE [q EXCEPT !.pc = label] \in TwoFactorRequest
  BY DEF TwoFactorRequest
<1>3. [q EXCEPT !.pc = "codes", !.left = Codes] \in TwoFactorRequest
  <2>1. Codes \in 0..Codes /\ "codes" \in CodeLabels
    BY CodesAssumption DEF CodeLabels
  <2> QED BY <2>1 DEF TwoFactorRequest
<1>4. ASSUME q.left \in 1..Codes PROVE [q EXCEPT !.left = @ - 1] \in TwoFactorRequest
  <2>1. q.left - 1 \in 0..Codes
    BY <1>4, CodesAssumption
  <2>2. [q EXCEPT !.left = q.left - 1] \in TwoFactorRequest
    BY <2>1 DEF TwoFactorRequest
  <2> QED BY <2>2
<1> QED BY <1>1, <1>2, <1>3, <1>4

\* A request that has a copy of the row, or writes codes, has the form.
LEMMA InProgress ==
    ASSUME TwoFactorTypeOK, NEW r \in Slots, req[r].pc \in SaveLabels \cup CodeLabels
    PROVE  req[r] \in TwoFactorRequest /\ req[r].row \in UserRow
<1>1. req[r] \in TwoFactorRequest \cup {Idle} /\ req[r] # Idle
  BY DEF TwoFactorTypeOK, RequestsAre, Idle, SaveLabels, CodeLabels
<1> QED BY <1>1, TwoFactorRequestsAreTyped

\* A save that is typed keeps the requests typed.
LEMMA SaveIsTyped ==
    ASSUME TwoFactorTypeOK, NEW r \in Slots, NEW row \in UserRow,
           NEW next \in TwoFactorRequest \cup {Idle}, Save(r, row, next)
    PROVE  /\ userRow' \in UserRow /\ clobbered' \in BOOLEAN
           /\ req' \in [Slots -> TwoFactorRequest \cup {Idle}]
           /\ UNCHANGED <<begun, faults>>
<1>1. ASSUME NEW q \in Slots, HasRow(q)
      PROVE  [req[q] EXCEPT !.stale = TRUE] \in TwoFactorRequest
  BY <1>1, InProgress, TwoFactorRequestsAreTyped DEF HasRow
<1> QED BY <1>1 DEF Save, AfterWrite, TwoFactorTypeOK, RequestsAre, TwoFactorRequest

\* Each step keeps the types.
LEMMA TwoFactorTypes ==
    ASSUME TwoFactorInv, [TwoFactorNext]_<<twoFactorVars, requestVars>>
    PROVE  TwoFactorTypeOK'
<1>0. /\ TwoFactorTypeOK /\ userRow \in UserRow
      /\ req \in [Slots -> TwoFactorRequest \cup {Idle}]
      /\ \A q \in Slots : HasRow(q) \/ WritesCodes(q) =>
           req[q] \in TwoFactorRequest /\ req[q].row \in UserRow
  BY InProgress DEF TwoFactorInv, TwoFactorTypeOK, RequestsAre, HasRow, WritesCodes
<1> USE DEF TwoFactorTypeOK, RequestsAre, twoFactorVars, requestVars, At
<1>1. CASE UNCHANGED <<twoFactorVars, requestVars>>
  BY <1>0, <1>1
<1>2. ASSUME NEW r \in Slots, NEW label \in SaveLabels, Load(r, label),
             UNCHANGED <<userRow, unused, passwords, secrets, removed, clobbered>>,
             verified' \in SUBSET (1..MaxSecrets)
      PROVE  TwoFactorTypeOK'
  <2>1. Copy(label, userRow) \in TwoFactorRequest
    BY <1>0, CodesAssumption DEF Copy, TwoFactorRequest
  <2> QED BY <1>0, <1>2, <2>1, RequestBoundsAssumption DEF Load, Begin
<1>3. ASSUME NEW r \in Slots, ResetLoad(r) \/ HandleInitiateSetup(r) \/ UpdateUser(r)
      PROVE  TwoFactorTypeOK'
  BY <1>0, <1>2, <1>3 DEF ResetLoad, HandleInitiateSetup, UpdateUser, SaveLabels
<1>4. ASSUME NEW r \in Slots, NEW code \in 1..secrets,
             HandleVerifyAndEnable(r, code) \/ HandleDisable(r, code)
               \/ HandleRegenerateCodes(r, code)
      PROVE  TwoFactorTypeOK'
  <2>1. code \in 1..MaxSecrets
    BY <1>0, TwoFactorBoundsAssumption
  <2>2. verified' \in SUBSET (1..MaxSecrets)
    BY <1>0, <1>4, <2>1 DEF HandleVerifyAndEnable, HandleDisable, HandleRegenerateCodes
  <2> QED
    BY <1>0, <1>2, <1>4, <2>2
    DEF HandleVerifyAndEnable, HandleDisable, HandleRegenerateCodes, SaveLabels
<1>5. ASSUME NEW r \in Slots, ResetSave(r) PROVE TwoFactorTypeOK'
  <2>1. req[r].row \in UserRow /\ passwords + 1 \in 0..MaxPasswords
    BY <1>0, <1>5, TwoFactorBoundsAssumption DEF ResetSave, HasRow, SaveLabels
  <2>2. [req[r].row EXCEPT !.pwd = passwords + 1] \in UserRow
    BY <2>1, UserRowsAreTyped
  <2> QED BY <1>0, <1>5, <2>1, <2>2, SaveIsTyped DEF ResetSave
<1>6. ASSUME NEW r \in Slots, SetupSave(r) PROVE TwoFactorTypeOK'
  <2>1. req[r].row \in UserRow /\ secrets + 1 \in 0..MaxSecrets
    BY <1>0, <1>6, TwoFactorBoundsAssumption DEF SetupSave, HasRow, SaveLabels
  <2>2. [req[r].row EXCEPT !.status = "pending", !.secret = secrets + 1] \in UserRow
    BY <2>1, UserRowsAreTyped
  <2> QED BY <1>0, <1>6, <2>1, <2>2, SaveIsTyped DEF SetupSave
<1>7. ASSUME NEW r \in Slots, EnableSave(r) PROVE TwoFactorTypeOK'
  <2>1. req[r] \in TwoFactorRequest /\ req[r].row \in UserRow
    BY <1>0, <1>7 DEF EnableSave, HasRow, SaveLabels
  <2>2. /\ [req[r].row EXCEPT !.status = "enabled"] \in UserRow
        /\ [req[r] EXCEPT !.pc = "enablecodes"] \in TwoFactorRequest
    BY <2>1, UserRowsAreTyped, TwoFactorRequestsAreTyped DEF CodeLabels
  <2> QED BY <1>0, <1>7, <2>2, SaveIsTyped DEF EnableSave
<1>8. ASSUME NEW r \in Slots, DisableSave(r) PROVE TwoFactorTypeOK'
  <2>1. req[r] \in TwoFactorRequest /\ req[r].row \in UserRow
    BY <1>0, <1>8 DEF DisableSave, HasRow, SaveLabels
  <2>2. /\ [req[r].row EXCEPT !.status = "disabled", !.secret = 0] \in UserRow
        /\ [req[r] EXCEPT !.pc = "disablecodes"] \in TwoFactorRequest
    BY <2>1, UserRowsAreTyped, TwoFactorRequestsAreTyped DEF CodeLabels
  <2> QED BY <1>0, <1>8, <2>2, SaveIsTyped DEF DisableSave
<1>9. ASSUME NEW r \in Slots, UpdateUserSave(r) PROVE TwoFactorTypeOK'
  <2>1. req[r].row \in UserRow
    BY <1>0, <1>9 DEF UpdateUserSave, HasRow, SaveLabels
  <2> QED BY <1>0, <1>9, <2>1, SaveIsTyped DEF UpdateUserSave
<1>10. ASSUME NEW r \in Slots, DisableCodes(r) PROVE TwoFactorTypeOK'
  BY <1>0, <1>10 DEF DisableCodes, WriteCodes, Finish, Become
<1>11. ASSUME NEW r \in Slots, ReplaceCodes(r) PROVE TwoFactorTypeOK'
  <2>1. [req[r] EXCEPT !.pc = "codes", !.left = Codes] \in TwoFactorRequest
    BY <1>0, <1>11, TwoFactorRequestsAreTyped
    DEF ReplaceCodes, HasRow, WritesCodes, SaveLabels, CodeLabels
  <2> QED BY <1>0, <1>11, <2>1 DEF ReplaceCodes, WriteCodes, Become
<1>12. ASSUME NEW r \in Slots, CreateCode(r) PROVE TwoFactorTypeOK'
  <2>0. req[r].left \in 1..Codes
    <3>1. req[r].left \in 0..Codes
      BY <1>0, <1>12 DEF CreateCode, WritesCodes, CodeLabels, TwoFactorRequest
    <3> QED BY <1>12, <3>1, CodesAssumption DEF CreateCode, TwoFactorInv, CodesAreCounted
  <2>1. [req[r] EXCEPT !.left = @ - 1] \in TwoFactorRequest
    BY <1>0, <1>12, <2>0, TwoFactorRequestsAreTyped DEF CreateCode, WritesCodes, CodeLabels
  <2> QED BY <1>0, <1>12, <2>1 DEF CreateCode, WriteCodes, Finish, Become
<1>13. ASSUME NEW r \in Slots, SoftDeleteUser(r) PROVE TwoFactorTypeOK'
  <2>1. ASSUME NEW q \in Slots, HasRow(q)
        PROVE  [req[q] EXCEPT !.stale = TRUE] \in TwoFactorRequest
    BY <1>0, <2>1, TwoFactorRequestsAreTyped
  <2>2. [userRow EXCEPT !.gone = TRUE] \in UserRow
    BY <1>0, UserRowsAreTyped
  <2> QED BY <1>0, <1>13, <2>1, <2>2, RequestBoundsAssumption DEF SoftDeleteUser
<1>14. ASSUME NEW r \in Slots, Abort(r), UNCHANGED twoFactorVars PROVE TwoFactorTypeOK'
  BY <1>0, <1>14, RequestBoundsAssumption DEF Abort, Stumble
<1> QED
  BY <1>1, <1>3, <1>4, <1>5, <1>6, <1>7, <1>8, <1>9, <1>10, <1>11, <1>12, <1>13, <1>14
  DEF TwoFactorNext


-----------------------------------------------------------------------------
(* The row of a user: secret, password, codes *)

\* Status and secret are saved from one reading, and a code was checked against the
\* secret that is enabled.
LEMMA SecretsHold ==
    ASSUME TwoFactorInv, [TwoFactorNext]_<<twoFactorVars, requestVars>>
    PROVE  SecretHolds'
<1> USE CodesAssumption, TwoFactorBoundsAssumption, RequestBoundsAssumption
<1> USE DEF TwoFactorInv, TwoFactorTypeOK, RequestsAre, TwoFactorRequest, UserRow, Idle, At, HasRow,
            WritesCodes, Others, SaveLabels, CodeLabels, twoFactorVars, requestVars,
            SecretHolds, SecretFits, CopyIsSound
<1>1. CASE UNCHANGED <<twoFactorVars, requestVars>>
  BY <1>1
<1>2. ASSUME NEW r \in Slots, ResetLoad(r) \/ HandleInitiateSetup(r) \/ UpdateUser(r)
      PROVE  SecretHolds'
  BY <1>2 DEF ResetLoad, HandleInitiateSetup, UpdateUser, MaySetUp, Load, Begin, Copy
<1>3. ASSUME NEW r \in Slots, ResetSave(r) PROVE SecretHolds'
  BY <1>3 DEF ResetSave, Save, AfterWrite
<1>4. ASSUME NEW r \in Slots, SetupSave(r) PROVE SecretHolds'
  BY <1>4 DEF SetupSave, Save, AfterWrite
<1>5. ASSUME NEW r \in Slots, NEW code \in 1..secrets, HandleVerifyAndEnable(r, code)
      PROVE  SecretHolds'
  BY <1>5 DEF HandleVerifyAndEnable, MayEnable, CodeFits, Load, Begin, Copy
<1>6. ASSUME NEW r \in Slots, NEW code \in 1..secrets,
             HandleDisable(r, code) \/ HandleRegenerateCodes(r, code)
      PROVE  SecretHolds'
  BY <1>6 DEF HandleDisable, HandleRegenerateCodes, MayDisable, MayRegenerate, CodeFits,
      Load, Begin, Copy
<1>7. ASSUME NEW r \in Slots, EnableSave(r) PROVE SecretHolds'
  BY <1>7 DEF EnableSave, Save, AfterWrite
<1>8. ASSUME NEW r \in Slots, DisableSave(r) PROVE SecretHolds'
  BY <1>8 DEF DisableSave, Save, AfterWrite
<1>9. ASSUME NEW r \in Slots, UpdateUserSave(r) PROVE SecretHolds'
  BY <1>9 DEF UpdateUserSave, Save, AfterWrite
<1>10. ASSUME NEW r \in Slots, DisableCodes(r) PROVE SecretHolds'
  BY <1>10 DEF DisableCodes, WriteCodes, Finish, Become
<1>11. ASSUME NEW r \in Slots, ReplaceCodes(r) PROVE SecretHolds'
  BY <1>11 DEF ReplaceCodes, WriteCodes, Become
<1>12. ASSUME NEW r \in Slots, CreateCode(r) PROVE SecretHolds'
  BY <1>12 DEF CreateCode, WriteCodes, Finish, Become
<1>13. ASSUME NEW r \in Slots, SoftDeleteUser(r) PROVE SecretHolds'
  BY <1>13 DEF SoftDeleteUser
<1>14. ASSUME NEW r \in Slots, Abort(r), UNCHANGED twoFactorVars PROVE SecretHolds'
  BY <1>14 DEF Abort, Stumble
<1> QED
  BY <1>1, <1>2, <1>3, <1>4, <1>5, <1>6, <1>7,
     <1>8, <1>9, <1>10, <1>11, <1>12, <1>13, <1>14
  DEF TwoFactorNext

\* Whoever saves has the last password and deletion in his copy, or notices that he
\* had not seen them.
LEMMA PasswordsHold ==
    ASSUME TwoFactorInv, [TwoFactorNext]_<<twoFactorVars, requestVars>>
    PROVE  LastPasswordStands'
<1> USE CodesAssumption, TwoFactorBoundsAssumption, RequestBoundsAssumption
<1> USE DEF TwoFactorInv, TwoFactorTypeOK, RequestsAre, TwoFactorRequest, UserRow, Idle, At, HasRow,
            WritesCodes, Others, SaveLabels, CodeLabels, twoFactorVars, requestVars,
            LastPasswordStands, CopyIsSound
<1>1. CASE UNCHANGED <<twoFactorVars, requestVars>>
  BY <1>1
<1>2. ASSUME NEW r \in Slots, ResetLoad(r) \/ HandleInitiateSetup(r) \/ UpdateUser(r)
      PROVE  LastPasswordStands'
  BY <1>2 DEF ResetLoad, HandleInitiateSetup, UpdateUser, MaySetUp, Load, Begin, Copy
<1>3. ASSUME NEW r \in Slots, ResetSave(r) PROVE LastPasswordStands'
  BY <1>3 DEF ResetSave, Save, AfterWrite
<1>4. ASSUME NEW r \in Slots, SetupSave(r) PROVE LastPasswordStands'
  BY <1>4 DEF SetupSave, Save, AfterWrite
<1>5. ASSUME NEW r \in Slots, NEW code \in 1..secrets, HandleVerifyAndEnable(r, code)
      PROVE  LastPasswordStands'
  BY <1>5 DEF HandleVerifyAndEnable, MayEnable, CodeFits, Load, Begin, Copy
<1>6. ASSUME NEW r \in Slots, NEW code \in 1..secrets,
             HandleDisable(r, code) \/ HandleRegenerateCodes(r, code)
      PROVE  LastPasswordStands'
  BY <1>6 DEF HandleDisable, HandleRegenerateCodes, MayDisable, MayRegenerate, CodeFits,
      Load, Begin, Copy
<1>7. ASSUME NEW r \in Slots, EnableSave(r) PROVE LastPasswordStands'
  BY <1>7 DEF EnableSave, Save, AfterWrite
<1>8. ASSUME NEW r \in Slots, DisableSave(r) PROVE LastPasswordStands'
  BY <1>8 DEF DisableSave, Save, AfterWrite
<1>9. ASSUME NEW r \in Slots, UpdateUserSave(r) PROVE LastPasswordStands'
  BY <1>9 DEF UpdateUserSave, Save, AfterWrite
<1>10. ASSUME NEW r \in Slots, DisableCodes(r) PROVE LastPasswordStands'
  BY <1>10 DEF DisableCodes, WriteCodes, Finish, Become
<1>11. ASSUME NEW r \in Slots, ReplaceCodes(r) PROVE LastPasswordStands'
  BY <1>11 DEF ReplaceCodes, WriteCodes, Become
<1>12. ASSUME NEW r \in Slots, CreateCode(r) PROVE LastPasswordStands'
  BY <1>12 DEF CreateCode, WriteCodes, Finish, Become
<1>13. ASSUME NEW r \in Slots, SoftDeleteUser(r) PROVE LastPasswordStands'
  BY <1>13 DEF SoftDeleteUser
<1>14. ASSUME NEW r \in Slots, Abort(r), UNCHANGED twoFactorVars PROVE LastPasswordStands'
  BY <1>14 DEF Abort, Stumble
<1> QED
  BY <1>1, <1>2, <1>3, <1>4, <1>5, <1>6, <1>7,
     <1>8, <1>9, <1>10, <1>11, <1>12, <1>13, <1>14
  DEF TwoFactorNext

\* What is saved makes every other copy stale, and a request keeps the status it was
\* begun for.
LEMMA CopiesHold ==
    ASSUME TwoFactorInv, [TwoFactorNext]_<<twoFactorVars, requestVars>>, NEW q \in Slots
    PROVE  CopyIsSound(q)'
<1> USE CodesAssumption, TwoFactorBoundsAssumption, RequestBoundsAssumption
<1> USE DEF TwoFactorInv, TwoFactorTypeOK, RequestsAre, TwoFactorRequest, UserRow, Idle, At, HasRow,
            WritesCodes, Others, SaveLabels, CodeLabels, twoFactorVars, requestVars,
            SecretHolds, SecretFits, CopyIsSound
<1>1. CASE UNCHANGED <<twoFactorVars, requestVars>>
  BY <1>1
<1>2. ASSUME NEW r \in Slots, ResetLoad(r) \/ HandleInitiateSetup(r) \/ UpdateUser(r)
      PROVE  CopyIsSound(q)'
  BY <1>2 DEF ResetLoad, HandleInitiateSetup, UpdateUser, MaySetUp, Load, Begin, Copy
<1>3. ASSUME NEW r \in Slots, ResetSave(r) PROVE CopyIsSound(q)'
  BY <1>3 DEF ResetSave, Save, AfterWrite
<1>4. ASSUME NEW r \in Slots, SetupSave(r) PROVE CopyIsSound(q)'
  BY <1>4 DEF SetupSave, Save, AfterWrite
<1>5. ASSUME NEW r \in Slots, NEW code \in 1..secrets, HandleVerifyAndEnable(r, code)
      PROVE  CopyIsSound(q)'
  BY <1>5 DEF HandleVerifyAndEnable, MayEnable, CodeFits, Load, Begin, Copy
<1>6. ASSUME NEW r \in Slots, NEW code \in 1..secrets,
             HandleDisable(r, code) \/ HandleRegenerateCodes(r, code)
      PROVE  CopyIsSound(q)'
  BY <1>6 DEF HandleDisable, HandleRegenerateCodes, MayDisable, MayRegenerate, CodeFits,
      Load, Begin, Copy
<1>7. ASSUME NEW r \in Slots, EnableSave(r) PROVE CopyIsSound(q)'
  BY <1>7 DEF EnableSave, Save, AfterWrite
<1>8. ASSUME NEW r \in Slots, DisableSave(r) PROVE CopyIsSound(q)'
  BY <1>8 DEF DisableSave, Save, AfterWrite
<1>9. ASSUME NEW r \in Slots, UpdateUserSave(r) PROVE CopyIsSound(q)'
  BY <1>9 DEF UpdateUserSave, Save, AfterWrite
<1>10. ASSUME NEW r \in Slots, DisableCodes(r) PROVE CopyIsSound(q)'
  BY <1>10 DEF DisableCodes, WriteCodes, Finish, Become
<1>11. ASSUME NEW r \in Slots, ReplaceCodes(r) PROVE CopyIsSound(q)'
  BY <1>11 DEF ReplaceCodes, WriteCodes, Become
<1>12. ASSUME NEW r \in Slots, CreateCode(r) PROVE CopyIsSound(q)'
  BY <1>12 DEF CreateCode, WriteCodes, Finish, Become
<1>13. ASSUME NEW r \in Slots, SoftDeleteUser(r) PROVE CopyIsSound(q)'
  BY <1>13 DEF SoftDeleteUser
<1>14. ASSUME NEW r \in Slots, Abort(r), UNCHANGED twoFactorVars PROVE CopyIsSound(q)'
  BY <1>14 DEF Abort, Stumble
<1> QED
  BY <1>1, <1>2, <1>3, <1>4, <1>5, <1>6, <1>7,
     <1>8, <1>9, <1>10, <1>11, <1>12, <1>13, <1>14
  DEF TwoFactorNext

\* The codes are written by one request that is alone at it, or two notice each other.
LEMMA CodesHold ==
    ASSUME TwoFactorInv, [TwoFactorNext]_<<twoFactorVars, requestVars>>
    PROVE  CodesAreCounted'
<1> USE CodesAssumption, TwoFactorBoundsAssumption, RequestBoundsAssumption
<1> USE DEF TwoFactorInv, TwoFactorTypeOK, RequestsAre, TwoFactorRequest, UserRow, Idle, At, HasRow,
            WritesCodes, Others, SaveLabels, CodeLabels, twoFactorVars, requestVars,
            CopyIsSound, CodesAreCounted, AloneAtCodes
<1>1. CASE UNCHANGED <<twoFactorVars, requestVars>>
  BY <1>1
<1>2. ASSUME NEW r \in Slots, ResetLoad(r) \/ HandleInitiateSetup(r) \/ UpdateUser(r)
      PROVE  CodesAreCounted'
  BY <1>2 DEF ResetLoad, HandleInitiateSetup, UpdateUser, MaySetUp, Load, Begin, Copy
<1>3. ASSUME NEW r \in Slots, ResetSave(r) PROVE CodesAreCounted'
  BY <1>3 DEF ResetSave, Save, AfterWrite
<1>4. ASSUME NEW r \in Slots, SetupSave(r) PROVE CodesAreCounted'
  BY <1>4 DEF SetupSave, Save, AfterWrite
<1>5. ASSUME NEW r \in Slots, NEW code \in 1..secrets, HandleVerifyAndEnable(r, code)
      PROVE  CodesAreCounted'
  BY <1>5 DEF HandleVerifyAndEnable, MayEnable, CodeFits, Load, Begin, Copy
<1>6. ASSUME NEW r \in Slots, NEW code \in 1..secrets,
             HandleDisable(r, code) \/ HandleRegenerateCodes(r, code)
      PROVE  CodesAreCounted'
  BY <1>6 DEF HandleDisable, HandleRegenerateCodes, MayDisable, MayRegenerate, CodeFits,
      Load, Begin, Copy
<1>7. ASSUME NEW r \in Slots, EnableSave(r) PROVE CodesAreCounted'
  BY <1>7 DEF EnableSave, Save, AfterWrite
<1>8. ASSUME NEW r \in Slots, DisableSave(r) PROVE CodesAreCounted'
  BY <1>8 DEF DisableSave, Save, AfterWrite
<1>9. ASSUME NEW r \in Slots, UpdateUserSave(r) PROVE CodesAreCounted'
  BY <1>9 DEF UpdateUserSave, Save, AfterWrite
<1>10. ASSUME NEW r \in Slots, DisableCodes(r) PROVE CodesAreCounted'
  BY <1>10 DEF DisableCodes, WriteCodes, Finish, Become
<1>11. ASSUME NEW r \in Slots, ReplaceCodes(r) PROVE CodesAreCounted'
  BY <1>11 DEF ReplaceCodes, WriteCodes, Become
<1>12. ASSUME NEW r \in Slots, CreateCode(r) PROVE CodesAreCounted'
  <2>1. /\ At(r, "codes") /\ req[r].left \in Nat /\ req[r].left >= 1
        /\ unused \in Nat /\ Codes \in Nat
    BY <1>12 DEF CreateCode, CodesAreCounted
  <2>2. /\ unused' = unused + 1 /\ UNCHANGED <<userRow, faults>>
        /\ clobbered' = (clobbered \/ req[r].stale \/ \E q \in Others(r) : WritesCodes(q))
    BY <1>12 DEF CreateCode, WriteCodes, Finish, Become
  <2>3. CASE req[r].left = 1
    <3>1. req' = [req EXCEPT ![r] = Idle]
      BY <1>12, <2>3 DEF CreateCode, Finish, Become
    <3> QED BY <2>1, <2>2, <2>3, <3>1 DEF CodesAreCounted, AloneAtCodes
  <2>4. CASE req[r].left # 1
    <3>1. req' = [req EXCEPT ![r] = [req[r] EXCEPT !.left = req[r].left - 1]]
      BY <1>12, <2>4 DEF CreateCode, Become
    <3> QED BY SMTT(20), <2>1, <2>2, <2>4, <3>1 DEF CodesAreCounted, AloneAtCodes
  <2> QED BY <2>3, <2>4
<1>13. ASSUME NEW r \in Slots, SoftDeleteUser(r) PROVE CodesAreCounted'
  BY <1>13 DEF SoftDeleteUser
<1>14. ASSUME NEW r \in Slots, Abort(r), UNCHANGED twoFactorVars PROVE CodesAreCounted'
  BY <1>14 DEF Abort, Stumble
<1> QED
  BY <1>1, <1>2, <1>3, <1>4, <1>5, <1>6, <1>7,
     <1>8, <1>9, <1>10, <1>11, <1>12, <1>13, <1>14
  DEF TwoFactorNext

\* The row of a new user satisfies the invariant, ...
LEMMA TwoFactorInvInit ==
    ASSUME TwoFactorInit
    PROVE  TwoFactorInv
<1>1. NewUser \in UserRow
  BY TwoFactorBoundsAssumption DEF NewUser, UserRow
<1>2. TwoFactorTypeOK
  <2>1. RequestsAre(TwoFactorRequest)
    BY RequestBoundsAssumption DEF TwoFactorInit, RequestsInit, RequestsAre
  <2>2. passwords \in 0..MaxPasswords /\ secrets \in 0..MaxSecrets /\ unused \in Nat
    BY TwoFactorBoundsAssumption DEF TwoFactorInit
  <2>3. verified \in SUBSET (1..MaxSecrets) /\ removed \in BOOLEAN /\ clobbered \in BOOLEAN
    BY DEF TwoFactorInit
  <2> QED BY <1>1, <2>1, <2>2, <2>3 DEF TwoFactorInit, TwoFactorTypeOK
<1>3. \A r \in Slots : ~HasRow(r) /\ ~WritesCodes(r)
  BY DEF TwoFactorInit, RequestsInit, HasRow, WritesCodes, Idle, SaveLabels, CodeLabels
<1>4. CodesAreCounted
  BY <1>3 DEF CodesAreCounted, AloneAtCodes, WritesCodes, CodeLabels, At, TwoFactorInit, NewUser
<1> QED
  BY <1>2, <1>3, <1>4
  DEF TwoFactorInv, TwoFactorInit, NewUser, SecretHolds, SecretFits, LastPasswordStands, CopyIsSound

\* ... and every step of a request keeps it.
LEMMA TwoFactorInvStep ==
    ASSUME TwoFactorInv, [TwoFactorNext]_<<twoFactorVars, requestVars>>
    PROVE  TwoFactorInv'
<1>1. TwoFactorTypeOK' /\ SecretHolds' /\ LastPasswordStands' /\ CodesAreCounted'
  BY TwoFactorTypes, SecretsHold, PasswordsHold, CodesHold
<1>2. ASSUME NEW q \in Slots PROVE CopyIsSound(q)'
  BY CopiesHold
<1> QED BY <1>1, <1>2 DEF TwoFactorInv

\* However setups, resets, deletions and regenerations overlap and fail: two-factor is
\* enabled only with a secret whose code was shown, and password, deletion and recovery
\* codes stand unless a request wrote over what it had not seen.
THEOREM UserRowAlwaysHolds == TwoFactorSpec => []UserRowHolds
<1>1. TwoFactorInit => TwoFactorInv
  BY TwoFactorInvInit
<1>2. TwoFactorInv /\ [TwoFactorNext]_<<twoFactorVars, requestVars>> => TwoFactorInv'
  BY TwoFactorInvStep
<1>3. TwoFactorInv => UserRowHolds
  <2> SUFFICES ASSUME TwoFactorInv PROVE UserRowHolds
    OBVIOUS
  <2>1. EnabledSecretIsVerified
    BY DEF TwoFactorInv, SecretHolds, EnabledSecretIsVerified, GetStatus, MayEnable, CodeFits
  <2>2. CodesMatchStatus
    BY DEF TwoFactorInv, CodesAreCounted, CodesMatchStatus
  <2> QED BY <2>1, <2>2 DEF TwoFactorInv, UserRowHolds
<1> QED BY <1>1, <1>2, <1>3, PTL DEF TwoFactorSpec

-----------------------------------------------------------------------------
(* Roles and permissions of a user: types *)

\* The forms of a request for permissions, over a change of what it has read.
LEMMA AccessRequestsAreTyped ==
    ASSUME NEW q \in AccessRequest
    PROVE  /\ q.pc = "saverole" => q.role \in Roles /\ q.copy \subseteq Permissions
           /\ q.pc \in {"createrole", "updaterole", "deleterole", "attachpermission", "attach"}
                => q.role \in Roles
           /\ q.pc = "attachpermission" => [q EXCEPT !.pc = "attach"] \in AccessRequest
           /\ q.pc \in {"attachpermission", "attach"} => q.perm \in Permissions
           /\ q.pc \in {"upsert", "write"}
                => /\ q.perm \in Permissions /\ q.effect \in {"allow", "deny"}
                   /\ \A b \in BOOLEAN :
                        [q EXCEPT !.pc = "write", !.found = b] \in AccessRequest
           /\ q.pc = "overrides"
                => /\ q.allowed \subseteq Permissions /\ q.ever \subseteq Permissions
                   /\ q.changes \in 0..2
                   /\ \A s \in SUBSET Permissions, n \in 0..2 :
                        [q EXCEPT !.ever = s, !.changes = n] \in AccessRequest
<1>1. CASE q \in [pc : {"createrole", "updaterole", "deleterole"}, role : Roles]
  BY <1>1
<1>2. CASE q \in [pc : {"saverole"}, role : Roles, copy : SUBSET Permissions]
  BY <1>2
<1>3. CASE q \in [pc : {"attachpermission", "attach"}, role : Roles, perm : Permissions]
  <2>1. [q EXCEPT !.pc = "attach"]
          \in [pc : {"attachpermission", "attach"}, role : Roles, perm : Permissions]
    BY <1>3
  <2> QED BY <1>3, <2>1 DEF AccessRequest
<1>4. CASE q \in [pc : {"upsert", "write"}, perm : Permissions, effect : {"allow", "deny"},
                  found : BOOLEAN]
  <2>1. ASSUME NEW b \in BOOLEAN
        PROVE  [q EXCEPT !.pc = "write", !.found = b]
                 \in [pc : {"upsert", "write"}, perm : Permissions,
                      effect : {"allow", "deny"}, found : BOOLEAN]
    BY <1>4
  <2> QED BY <1>4, <2>1 DEF AccessRequest
<1>5. CASE q \in [pc : {"effective", "overrides"}, allowed : SUBSET Permissions,
                  ever : SUBSET Permissions, changes : 0..2]
  <2>1. ASSUME NEW s \in SUBSET Permissions, NEW n \in 0..2
        PROVE  [q EXCEPT !.ever = s, !.changes = n]
                 \in [pc : {"effective", "overrides"}, allowed : SUBSET Permissions,
                      ever : SUBSET Permissions, changes : 0..2]
    BY <1>5
  <2> QED BY <1>5, <2>1 DEF AccessRequest
<1> QED BY <1>1, <1>2, <1>3, <1>4, <1>5 DEF AccessRequest

\* What the readers witness of a write: one more set of permissions they could have
\* been told, one more change.
LEMMA WitnessedReaders ==
    ASSUME NEW table \in [Slots -> AccessRequest \cup {Idle}]
    PROVE  /\ Witnessed(table) \in [Slots -> AccessRequest \cup {Idle}]
           /\ \A r \in Slots :
                /\ Witnessed(table)[r].pc = table[r].pc
                /\ table[r].pc # "overrides" => Witnessed(table)[r] = table[r]
                /\ table[r].pc = "overrides"
                     => /\ Witnessed(table)[r].allowed = table[r].allowed
                        /\ Witnessed(table)[r].ever = table[r].ever \cup Effective'
                        /\ Witnessed(table)[r].changes
                             = IF table[r].changes = 2 THEN 2 ELSE table[r].changes + 1
                        /\ table[r].changes \in 0..2
<1> DEFINE next(r) == IF table[r].changes = 2 THEN 2 ELSE table[r].changes + 1
<1>1. Effective' \subseteq Permissions
  BY DEF Effective
<1>2. ASSUME NEW r \in Slots, table[r].pc = "overrides"
      PROVE  /\ table[r] \in AccessRequest
             /\ table[r].changes \in 0..2
             /\ table[r].ever \cup Effective' \in SUBSET Permissions
  <2>1. table[r] \in AccessRequest
    BY <1>2 DEF Idle
  <2> QED BY <1>1, <1>2, <2>1, AccessRequestsAreTyped
<1>3. ASSUME NEW r \in Slots, table[r].pc = "overrides"
      PROVE  next(r) \in 0..2
  BY <1>2, <1>3
<1>4. ASSUME NEW r \in Slots, table[r].pc = "overrides"
      PROVE  [table[r] EXCEPT !.ever = table[r].ever \cup Effective', !.changes = next(r)]
                \in AccessRequest
  BY <1>2, <1>3, <1>4, AccessRequestsAreTyped
<1>5. ASSUME NEW r \in Slots, table[r].pc = "overrides"
      PROVE  table[r] \in [pc : {"effective", "overrides"}, allowed : SUBSET Permissions,
                           ever : SUBSET Permissions, changes : 0..2]
  BY <1>2, <1>5 DEF AccessRequest
<1>6. Witnessed(table) =
        [r \in Slots |->
          IF table[r].pc # "overrides" THEN table[r]
          ELSE [table[r] EXCEPT !.ever = table[r].ever \cup Effective', !.changes = next(r)]]
  BY DEF Witnessed
<1> HIDE DEF next
<1>7. Witnessed(table) \in [Slots -> AccessRequest \cup {Idle}]
  BY <1>4, <1>6
<1>8. ASSUME NEW r \in Slots, table[r].pc = "overrides"
      PROVE  /\ Witnessed(table)[r].pc = "overrides"
             /\ Witnessed(table)[r].allowed = table[r].allowed
             /\ Witnessed(table)[r].ever = table[r].ever \cup Effective'
             /\ Witnessed(table)[r].changes = next(r)
  <2>1. Witnessed(table)[r]
          = [table[r] EXCEPT !.ever = table[r].ever \cup Effective', !.changes = next(r)]
    BY <1>6, <1>8
  <2> QED BY <1>5, <1>8, <2>1
<1>9. ASSUME NEW r \in Slots, table[r].pc # "overrides"
      PROVE  Witnessed(table)[r] = table[r]
  BY <1>6, <1>9
<1> QED BY <1>2, <1>7, <1>8, <1>9 DEF next

\* Every step of a request keeps the types.
LEMMA AccessTypes ==
    ASSUME AccessControlTypeOK, [AccessControlNext]_<<accessVars, requestVars>>
    PROVE  AccessControlTypeOK'
<1>0. ASSUME NEW r \in Slots, req[r].pc # "idle" PROVE req[r] \in AccessRequest
  BY <1>0 DEF AccessControlTypeOK, RequestsAre, Idle
<1>1. CASE UNCHANGED <<accessVars, requestVars>>
  BY <1>1 DEF AccessControlTypeOK, RequestsAre, accessVars, requestVars
<1>2. ASSUME NEW r \in Slots, AccessControlHandlers(r) PROVE AccessControlTypeOK'
  <2>1. \E q \in AccessRequest : Begin(r, q) /\ UNCHANGED accessVars
    <3>1. ASSUME NEW x \in Roles, NEW p \in Permissions
          PROVE  [pc |-> "attachpermission", role |-> x, perm |-> p] \in AccessRequest
      BY DEF AccessRequest
    <3>2. ASSUME NEW p \in Permissions, NEW e \in {"allow", "deny"}
          PROVE  [pc |-> "upsert", perm |-> p, effect |-> e, found |-> FALSE] \in AccessRequest
      BY DEF AccessRequest
    <3>3. ASSUME NEW x \in Roles, NEW label \in {"createrole", "updaterole", "deleterole"}
          PROVE  [pc |-> label, role |-> x] \in AccessRequest
      BY DEF AccessRequest
    <3>4. [pc |-> "effective", allowed |-> {}, ever |-> {}, changes |-> 0] \in AccessRequest
      BY DEF AccessRequest
    <3> QED
      BY <1>2, <3>1, <3>2, <3>3, <3>4
      DEF AccessControlHandlers, HandleCreateRole, HandleUpdateRole, HandleDeleteRole,
          HandleAttachPermission, HandleGrantPermission, HandleEffectivePermissions
  <2> QED
    BY <2>1, RequestBoundsAssumption
    DEF Begin, AccessControlTypeOK, RequestsAre, accessVars
<1>3. ASSUME NEW r \in Slots, NEW q \in AccessRequest \cup {Idle}, Become(r, q),
             UNCHANGED accessVars
      PROVE  AccessControlTypeOK'
  BY <1>3 DEF Become, AccessControlTypeOK, RequestsAre, accessVars
<1>4. ASSUME NEW r \in Slots, UpdateRole(r) PROVE AccessControlTypeOK'
  <2>1. req[r].role \in Roles
    BY <1>0, <1>4, AccessRequestsAreTyped DEF UpdateRole, At
  <2>2. [pc |-> "saverole", role |-> req[r].role,
         copy |-> {p \in Permissions : <<req[r].role, p>> \in attached}] \in AccessRequest
    BY <2>1 DEF AccessRequest
  <2> QED BY <1>3, <1>4, <2>2 DEF UpdateRole, Finish
<1>5. ASSUME NEW r \in Slots, AttachPermission(r) PROVE AccessControlTypeOK'
  <2>1. [req[r] EXCEPT !.pc = "attach"] \in AccessRequest
    BY <1>0, <1>5, AccessRequestsAreTyped DEF AttachPermission, At
  <2> QED BY <1>3, <1>5, <2>1 DEF AttachPermission, Goto, Finish
<1>6. ASSUME NEW r \in Slots, Upsert(r) PROVE AccessControlTypeOK'
  <2>1. [req[r] EXCEPT !.pc = "write", !.found = direct[req[r].perm] # "none"] \in AccessRequest
    BY <1>0, <1>6, AccessRequestsAreTyped DEF Upsert, At
  <2> QED BY <1>3, <1>6, <2>1 DEF Upsert
<1>7. ASSUME NEW r \in Slots, EffectiveRoles(r) \/ EffectiveOverrides(r)
      PROVE  AccessControlTypeOK'
  <2>1. [pc |-> "overrides", allowed |-> RolePermissions, ever |-> Effective, changes |-> 0]
          \in AccessRequest
    BY DEF AccessRequest, RolePermissions, Effective
  <2> QED BY <1>3, <1>7, <2>1 DEF EffectiveRoles, EffectiveOverrides, Finish
<1>8. ASSUME NEW r \in Slots, Abort(r), UNCHANGED accessVars PROVE AccessControlTypeOK'
  BY <1>8, RequestBoundsAssumption
  DEF Abort, Stumble, AccessControlTypeOK, RequestsAre, accessVars
<1>9. ASSUME NEW r \in Slots, Write(r, Idle),
             /\ role' \in [Roles -> RoleRow]
             /\ attached' \in SUBSET (Roles \X Permissions)
             /\ assigned' \in SUBSET Roles
             /\ direct' \in [Permissions -> Effect] /\ told' \in [Permissions -> Effect]
             /\ mixed' \in SUBSET Permissions
      PROVE  AccessControlTypeOK'
  <2>1. [req EXCEPT ![r] = Idle] \in [Slots -> AccessRequest \cup {Idle}]
    BY DEF AccessControlTypeOK, RequestsAre
  <2> QED BY <1>9, <2>1, WitnessedReaders DEF Write, AccessControlTypeOK, RequestsAre
<1>10. ASSUME NEW r \in Slots,
              CreateRole(r) \/ SaveRole(r) \/ DeleteRole(r) \/ Attach(r) \/ UpsertWrite(r)
       PROVE  AccessControlTypeOK'
  <2>1. /\ Write(r, Idle) /\ req[r] \in AccessRequest
        /\ req[r].pc \in {"createrole", "saverole", "deleterole", "attach", "write"}
    BY <1>0, <1>10 DEF CreateRole, SaveRole, DeleteRole, Attach, UpsertWrite, At
  <2>2. CASE CreateRole(r) \/ SaveRole(r) \/ DeleteRole(r) \/ Attach(r)
    <3>1. /\ req[r].role \in Roles
          /\ req[r].pc = "saverole" => req[r].copy \subseteq Permissions
          /\ req[r].pc = "attach" => req[r].perm \in Permissions
      BY <2>1, <2>2, AccessRequestsAreTyped DEF CreateRole, SaveRole, DeleteRole, Attach, At
    <3>2. role' \in [Roles -> RoleRow] /\ attached' \in SUBSET (Roles \X Permissions)
      BY <2>2, <3>1
      DEF CreateRole, SaveRole, DeleteRole, Attach, At, AccessControlTypeOK, RoleRow
    <3>3. UNCHANGED <<assigned, direct, told, mixed>>
      BY <2>2 DEF CreateRole, SaveRole, DeleteRole, Attach
    <3> QED BY <1>9, <2>1, <3>2, <3>3 DEF AccessControlTypeOK
  <2>3. CASE UpsertWrite(r)
    <3>1. req[r].perm \in Permissions /\ req[r].effect \in Effect
      BY <2>1, <2>3, AccessRequestsAreTyped DEF UpsertWrite, At, Effect
    <3>2. /\ direct' \in [Permissions -> Effect] /\ told' \in [Permissions -> Effect]
          /\ mixed' \in SUBSET Permissions
      BY <2>3, <3>1 DEF UpsertWrite, Written, AccessControlTypeOK
    <3> QED BY <1>9, <2>1, <2>3, <3>2 DEF UpsertWrite, AccessControlTypeOK
  <2> QED BY <1>10, <2>2, <2>3
<1>11. ASSUME NEW x \in Roles, NEW p \in Permissions, OneStatement(x, p)
       PROVE  AccessControlTypeOK'
  <2>1. req' \in [Slots -> AccessRequest \cup {Idle}]
    BY <1>11, WitnessedReaders DEF OneStatement, AccessControlTypeOK, RequestsAre
  <2>2. begun' \in 0..MaxRequests /\ faults' \in 0..MaxFaults
    BY <1>11, RequestBoundsAssumption DEF OneStatement, AccessControlTypeOK, RequestsAre
  <2> QED
    BY <1>11, <2>1, <2>2
    DEF OneStatement, DetachPermission, AssignRole, RemoveRole, RemovePermission,
        AccessControlTypeOK, RequestsAre, Effect
<1> QED
  BY <1>1, <1>2, <1>4, <1>5, <1>6, <1>7, <1>8, <1>10, <1>11 DEF AccessControlNext

-----------------------------------------------------------------------------
(* What the readers are told *)

\* A request that reads the effective permissions may say what it has put together
\* unless they changed twice, and has the permissions of the roles while none changed.
ReaderIsRight(r) ==
    At(r, "overrides")
        => /\ req[r].changes = 0 => req[r].allowed = RolePermissions
           /\ req[r].changes <= 1 => Override(req[r].allowed) \subseteq req[r].ever

\* A write changes the permissions of the roles or the direct ones, never both.
LEMMA OneKindChanges ==
    ASSUME NEW r \in Slots, AccessControlTypeOK,
           ReaderIsRight(r),
           NEW table \in [Slots -> AccessRequest \cup {Idle}],
           table[r] = req[r], req' = Witnessed(table),
           UNCHANGED direct \/ UNCHANGED <<role, attached, assigned>>
    PROVE  ReaderIsRight(r)'
<1> SUFFICES ASSUME At(r, "overrides")', req'[r].changes <= 1
             PROVE  /\ req'[r].changes # 0
                    /\ Override(req[r].allowed)' \subseteq req'[r].ever
  BY DEF ReaderIsRight, At
<1>1. /\ At(r, "overrides") /\ req'[r].allowed = req[r].allowed
      /\ req'[r].ever = req[r].ever \cup Effective'
      /\ req[r].changes = 0 /\ req'[r].changes = 1
  BY WitnessedReaders DEF At
<1>2. CASE UNCHANGED direct
  BY <1>1, <1>2 DEF ReaderIsRight, Override
<1>3. CASE UNCHANGED <<role, attached, assigned>>
  <2>1. req[r].allowed = RolePermissions'
    BY <1>1, <1>3 DEF ReaderIsRight, RolePermissions, GetUserRoles
  <2>2. Override(RolePermissions)' \subseteq Effective'
    BY DEF Override, Effective, Denies
  <2> QED BY <1>1, <2>1, <2>2 DEF Override
<1> QED BY <1>1, <1>2, <1>3

\* Each step keeps what the readers say right.
LEMMA ReadersStayRight ==
    ASSUME AccessControlTypeOK, \A r \in Slots : ReaderIsRight(r),
           [AccessControlNext]_<<accessVars, requestVars>>, NEW s \in Slots
    PROVE  ReaderIsRight(s)'
<1>0. req \in [Slots -> AccessRequest \cup {Idle}] /\ ReaderIsRight(s)
  BY DEF AccessControlTypeOK, RequestsAre
<1>1. ASSUME UNCHANGED accessVars, req'[s] = req[s] \/ ~At(s, "overrides")'
      PROVE  ReaderIsRight(s)'
  BY <1>0, <1>1
  DEF ReaderIsRight, At, Override, RolePermissions, GetUserRoles, accessVars
<1>2. ASSUME UNCHANGED direct \/ UNCHANGED <<role, attached, assigned>>,
             NEW table \in [Slots -> AccessRequest \cup {Idle}], req' = Witnessed(table),
             table[s] = req[s] \/ table[s] = Idle
      PROVE  ReaderIsRight(s)'
  <2>1. CASE table[s] = req[s]
    BY <1>0, <1>2, <2>1, OneKindChanges
  <2>2. CASE table[s] = Idle
    <3>1. ~At(s, "overrides")'
      BY <1>2, <2>2, WitnessedReaders DEF At, Idle
    <3> QED BY <3>1 DEF ReaderIsRight, At
  <2> QED BY <1>2, <2>1, <2>2
<1>3. CASE UNCHANGED <<accessVars, requestVars>>
  BY <1>1, <1>3 DEF requestVars
<1>4. ASSUME NEW r \in Slots, AccessControlHandlers(r) PROVE ReaderIsRight(s)'
  BY <1>0, <1>1, <1>4
  DEF AccessControlHandlers, HandleCreateRole, HandleUpdateRole, HandleDeleteRole,
      HandleAttachPermission, HandleGrantPermission, HandleEffectivePermissions, Begin, At
<1>5. ASSUME NEW r \in Slots, UpdateRole(r) \/ AttachPermission(r) \/ EffectiveOverrides(r)
      PROVE  ReaderIsRight(s)'
  <2>1. /\ UNCHANGED accessVars
        /\ \E q : Become(r, q) /\ q.pc # "overrides"
    <3>1. CASE UpdateRole(r)
      BY <3>1 DEF UpdateRole, Finish, Idle
    <3>2. CASE AttachPermission(r)
      <4>1. req[r] \in AccessRequest
        BY <1>0, <3>2 DEF AttachPermission, At, Idle
      <4>2. [req[r] EXCEPT !.pc = "attach"].pc # "overrides"
        BY <3>2, <4>1 DEF AttachPermission, At, AccessRequest
      <4> QED BY <3>2, <4>2 DEF AttachPermission, Goto, Finish, Idle
    <3>3. CASE EffectiveOverrides(r)
      BY <3>3 DEF EffectiveOverrides, Finish, Idle
    <3> QED BY <1>5, <3>1, <3>2, <3>3
  <2> QED BY <1>0, <1>1, <2>1 DEF Become, At
<1>6. ASSUME NEW r \in Slots, Upsert(r) PROVE ReaderIsRight(s)'
  <2>1. req[r] \in AccessRequest
    BY <1>0, <1>6 DEF Upsert, At, Idle
  <2>2. [req[r] EXCEPT !.pc = "write", !.found = direct[req[r].perm] # "none"].pc # "overrides"
    BY <1>6, <2>1 DEF Upsert, At, AccessRequest
  <2> QED BY <1>0, <1>1, <1>6, <2>2 DEF Upsert, Become, At
<1>7. ASSUME NEW r \in Slots, EffectiveRoles(r) PROVE ReaderIsRight(s)'
  <2>1. CASE r = s
    <3>1. /\ req'[s].allowed = RolePermissions' /\ req'[s].ever = Effective'
      BY <1>0, <1>7, <2>1
      DEF EffectiveRoles, Become, accessVars, RolePermissions, GetUserRoles, Effective, Denies
    <3> QED BY <3>1 DEF ReaderIsRight, Override, Effective, Denies
  <2>2. CASE r # s
    BY <1>0, <1>1, <1>7, <2>2 DEF EffectiveRoles, Become
  <2> QED BY <2>1, <2>2
<1>8. ASSUME NEW r \in Slots, Abort(r), UNCHANGED accessVars PROVE ReaderIsRight(s)'
  BY <1>0, <1>1, <1>8 DEF Abort, Stumble, At, Idle
<1>9. ASSUME NEW r \in Slots,
             CreateRole(r) \/ SaveRole(r) \/ DeleteRole(r) \/ Attach(r) \/ UpsertWrite(r)
      PROVE  ReaderIsRight(s)'
  <2>1. /\ req' = Witnessed([req EXCEPT ![r] = Idle])
        /\ UNCHANGED direct \/ UNCHANGED <<role, attached, assigned>>
    BY <1>9 DEF CreateRole, SaveRole, DeleteRole, Attach, UpsertWrite, Write
  <2> QED BY <1>0, <1>2, <2>1
<1>10. ASSUME NEW x \in Roles, NEW p \in Permissions, OneStatement(x, p)
       PROVE  ReaderIsRight(s)'
  <2>1. UNCHANGED direct \/ UNCHANGED <<role, attached, assigned>>
    BY <1>10 DEF OneStatement, DetachPermission, AssignRole, RemoveRole, RemovePermission
  <2> QED BY <1>0, <1>2, <1>10, <2>1 DEF OneStatement
<1> QED
  BY <1>3, <1>4, <1>5, <1>6, <1>7, <1>8, <1>9, <1>10 DEF AccessControlNext

-----------------------------------------------------------------------------
(* What the writers leave *)

\* Each step keeps the direct permissions as they were last told, those apart that two
\* requests wrote at once.
LEMMA DecisionsStand ==
    ASSUME AccessControlTypeOK, LastDecisionStands, WritersHaveSeen,
           [AccessControlNext]_<<accessVars, requestVars>>
    PROVE  LastDecisionStands' /\ WritersHaveSeen'
<1>0. /\ req \in [Slots -> AccessRequest \cup {Idle}]
      /\ direct \in [Permissions -> Effect] /\ told \in [Permissions -> Effect]
      /\ \A r \in Slots : req[r].pc # "idle" => req[r] \in AccessRequest
  BY DEF AccessControlTypeOK, RequestsAre, Idle
<1>1. ASSUME UNCHANGED <<direct, told, mixed>>,
             \A s \in Slots : At(s, "write")' => req'[s] = req[s]
      PROVE  LastDecisionStands' /\ WritersHaveSeen'
  BY <1>1 DEF LastDecisionStands, WritersHaveSeen, At
<1>2. CASE UNCHANGED <<accessVars, requestVars>>
  BY <1>1, <1>2 DEF accessVars, requestVars
<1>3. ASSUME NEW r \in Slots, AccessControlHandlers(r)
      PROVE  LastDecisionStands' /\ WritersHaveSeen'
  BY <1>0, <1>1, <1>3
  DEF AccessControlHandlers, HandleCreateRole, HandleUpdateRole, HandleDeleteRole,
      HandleAttachPermission, HandleGrantPermission, HandleEffectivePermissions, Begin, At,
      accessVars
<1>4. ASSUME NEW r \in Slots, NEW q, Become(r, q), q.pc # "write", UNCHANGED accessVars
      PROVE  LastDecisionStands' /\ WritersHaveSeen'
  BY <1>0, <1>1, <1>4 DEF Become, At, accessVars
<1>5. ASSUME NEW r \in Slots,
             UpdateRole(r) \/ EffectiveRoles(r) \/ EffectiveOverrides(r)
      PROVE  LastDecisionStands' /\ WritersHaveSeen'
  BY <1>4, <1>5 DEF UpdateRole, EffectiveRoles, EffectiveOverrides, Finish, Idle
<1>6. ASSUME NEW r \in Slots, AttachPermission(r)
      PROVE  LastDecisionStands' /\ WritersHaveSeen'
  <2>1. [req[r] EXCEPT !.pc = "attach"].pc # "write"
    BY <1>0, <1>6 DEF AttachPermission, At, AccessRequest
  <2> QED BY <1>4, <1>6, <2>1 DEF AttachPermission, Goto, Finish, Idle
<1>7. ASSUME NEW r \in Slots, Upsert(r)
      PROVE  LastDecisionStands' /\ WritersHaveSeen'
  <2>1. /\ req[r] \in AccessRequest /\ req[r].pc = "upsert"
        /\ UNCHANGED <<direct, told, mixed>>
    BY <1>0, <1>7 DEF Upsert, At, accessVars
  <2>2. req'[r].perm = req[r].perm /\ req'[r].found = (direct[req[r].perm] # "none")
    BY <1>0, <1>7, <2>1 DEF Upsert, Become, AccessRequest
  <2>3. \A s \in Slots : s # r => req'[s] = req[s]
    BY <1>0, <1>7 DEF Upsert, Become
  <2> QED BY ZenonT(40), <2>1, <2>2, <2>3 DEF LastDecisionStands, WritersHaveSeen, At
<1>8. ASSUME NEW r \in Slots, Abort(r), UNCHANGED accessVars
      PROVE  LastDecisionStands' /\ WritersHaveSeen'
  BY <1>0, <1>1, <1>8 DEF Abort, Stumble, At, Idle, accessVars
<1>9. ASSUME NEW table \in [Slots -> AccessRequest \cup {Idle}], req' = Witnessed(table),
             NEW s \in Slots, At(s, "write")'
      PROVE  req'[s] = table[s] /\ table[s].pc = "write"
  BY <1>9, WitnessedReaders DEF At
<1>10. ASSUME NEW r \in Slots, Write(r, Idle)
       PROVE  \A s \in Slots : At(s, "write")' => s # r /\ req'[s] = req[s] /\ At(s, "write")
  <2> DEFINE table == [req EXCEPT ![r] = Idle]
  <2>1. /\ table \in [Slots -> AccessRequest \cup {Idle}] /\ req' = Witnessed(table)
        /\ \A s \in Slots : table[s] = IF s = r THEN Idle ELSE req[s]
    BY <1>0, <1>10 DEF Write
  <2> HIDE DEF table
  <2> QED BY <1>9, <2>1 DEF At, Idle
<1>11. ASSUME NEW r \in Slots, CreateRole(r) \/ SaveRole(r) \/ DeleteRole(r) \/ Attach(r)
       PROVE  LastDecisionStands' /\ WritersHaveSeen'
  BY <1>1, <1>10, <1>11 DEF CreateRole, SaveRole, DeleteRole, Attach
<1>12. ASSUME NEW r \in Slots, UpsertWrite(r)
       PROVE  LastDecisionStands' /\ WritersHaveSeen'
  <2>1. /\ Write(r, Idle) /\ At(r, "write")
        /\ direct' = [direct EXCEPT ![req[r].perm] = Written(req[r])]
        /\ told' = [told EXCEPT ![req[r].perm] = req[r].effect]
        /\ mixed \subseteq mixed'
        /\ req[r].perm \notin mixed'
             => \A s \in Others(r) : ~(At(s, "write") /\ req[s].perm = req[r].perm)
    BY <1>12 DEF UpsertWrite
  <2>2. req[r].perm \notin mixed' => Written(req[r]) = req[r].effect
    BY <2>1 DEF WritersHaveSeen, Written
  <2>3. req[r].perm \in Permissions
    BY <1>0, <2>1, AccessRequestsAreTyped DEF At
  <2>4. LastDecisionStands'
    BY <1>0, <2>1, <2>2, <2>3 DEF LastDecisionStands
  <2>5. ASSUME NEW s \in Slots, At(s, "write")', req'[s].perm \notin mixed'
        PROVE  req'[s].found <=> direct'[req'[s].perm] # "none"
    <3>1. s # r /\ req'[s] = req[s] /\ At(s, "write")
      BY <1>10, <2>1, <2>5
    <3>2. req[s].perm \in Permissions /\ req[s].perm # req[r].perm
      BY <1>0, <2>1, <2>5, <3>1, AccessRequestsAreTyped DEF At, Others
    <3> QED BY <1>0, <2>1, <2>5, <3>1, <3>2 DEF WritersHaveSeen
  <2> QED BY <2>4, <2>5 DEF WritersHaveSeen, At
<1>13. ASSUME NEW x \in Roles, NEW p \in Permissions, OneStatement(x, p)
       PROVE  LastDecisionStands' /\ WritersHaveSeen'
  <2>1. \A s \in Slots : At(s, "write")' => req'[s] = req[s] /\ At(s, "write")
    BY <1>0, <1>9, <1>13 DEF OneStatement, At
  <2>2. CASE DetachPermission(x, p) \/ AssignRole(x) \/ RemoveRole(x)
    BY <1>1, <2>1, <2>2 DEF DetachPermission, AssignRole, RemoveRole
  <2>3. CASE RemovePermission(p)
    <3>1. /\ direct' = [direct EXCEPT ![p] = "none"] /\ told' = [told EXCEPT ![p] = "none"]
          /\ mixed \subseteq mixed'
          /\ p \notin mixed' => \A s \in Slots : ~(At(s, "write") /\ req[s].perm = p)
      BY <2>3 DEF RemovePermission
    <3>2. LastDecisionStands'
      BY <1>0, <3>1 DEF LastDecisionStands
    <3>3. ASSUME NEW s \in Slots, At(s, "write")', req'[s].perm \notin mixed'
          PROVE  req'[s].found <=> direct'[req'[s].perm] # "none"
      <4>1. req'[s] = req[s] /\ At(s, "write") /\ req[s].perm \in Permissions
        BY <1>0, <2>1, <3>3, AccessRequestsAreTyped DEF At
      <4> QED BY <1>0, <3>1, <3>3, <4>1 DEF WritersHaveSeen
    <3> QED BY <3>2, <3>3 DEF WritersHaveSeen, At
  <2> QED BY <1>13, <2>2, <2>3 DEF OneStatement
<1> QED
  BY <1>2, <1>3, <1>5, <1>6, <1>7, <1>8, <1>11, <1>12, <1>13 DEF AccessControlNext

\* However grants, denials, detachments and deletions overlap: a user is told of no
\* permission that he had at no moment while he was told, two changes in between apart,
\* and a direct permission is what was said last of it, unless two requests wrote at once.
THEOREM DecisionsAlwaysHold == AccessControlSpec => []DecisionsHold
<1>1. DecisionsInv
        <=> /\ AccessControlTypeOK
            /\ \A r \in Slots : ReaderIsRight(r)
            /\ LastDecisionStands /\ WritersHaveSeen
  BY DEF DecisionsInv, DecisionsHold, ReaderIsRight, ReportedWasEffective, ReadersAreUpToDate
<1>2. AccessControlInit /\ RequestsInit => DecisionsInv
  <2> SUFFICES ASSUME AccessControlInit, RequestsInit PROVE DecisionsInv
    OBVIOUS
  <2>1. RequestsAre(AccessRequest)
    BY RequestBoundsAssumption DEF RequestsInit, RequestsAre
  <2>2. AccessControlTypeOK
    BY <2>1, SystemRolesAssumption
    DEF AccessControlInit, AccessControlTypeOK, RoleRow, Effect
  <2>3. \A r \in Slots : ~At(r, "overrides") /\ ~At(r, "write")
    BY DEF RequestsInit, At, Idle
  <2> QED
    BY <2>2, <2>3
    DEF DecisionsInv, DecisionsHold, ReportedWasEffective, ReadersAreUpToDate, WritersHaveSeen,
        LastDecisionStands, AccessControlInit
<1>3. DecisionsInv /\ [AccessControlNext]_<<accessVars, requestVars>> => DecisionsInv'
  <2> SUFFICES ASSUME DecisionsInv, [AccessControlNext]_<<accessVars, requestVars>>
               PROVE  DecisionsInv'
    OBVIOUS
  <2>1. AccessControlTypeOK'
    BY <1>1, AccessTypes
  <2>2. \A s \in Slots : ReaderIsRight(s)'
    BY <1>1, ReadersStayRight
  <2>3. LastDecisionStands' /\ WritersHaveSeen'
    BY <1>1, DecisionsStand
  <2>4. DecisionsInv'
          <=> /\ AccessControlTypeOK'
              /\ \A r \in Slots : ReaderIsRight(r)'
              /\ LastDecisionStands' /\ WritersHaveSeen'
    BY DEF DecisionsInv, DecisionsHold, ReaderIsRight, ReportedWasEffective, ReadersAreUpToDate
  <2> QED BY <2>1, <2>2, <2>3, <2>4
<1>4. DecisionsInv => DecisionsHold
  BY DEF DecisionsInv
<1> QED BY <1>2, <1>3, <1>4, PTL DEF AccessControlSpec

-----------------------------------------------------------------------------
(* Log-in through other providers: types *)

\* A set whose members are equal has at most one.
LEMMA OneMember ==
    ASSUME NEW S, \A v, w \in S : v = w
    PROVE  Cardinality(S) <= 1
<1>1. CASE S = {}
  BY <1>1, FS_EmptySet
<1>2. CASE S # {}
  <2>1. PICK w \in S : TRUE
    BY <1>2
  <2>2. S = {w}
    BY <2>1
  <2>3. Cardinality({w}) = 1
    BY FS_Singleton
  <2> QED BY <2>2, <2>3
<1> QED BY <1>1, <1>2

\* What a request carries at each of its statements, ...
LEMMA OAuthFields ==
    ASSUME NEW q \in OAuthRequest \cup {Idle}
    PROVE  /\ q.pc # "idle" <=> q \in OAuthRequest
           /\ q.pc = "initiate" =>
                q.id \in Flows /\ q.provider \in Providers /\ q.user \in OAuthUsers \cup {NoOne}
           /\ q.pc \in {"getstate", "delstate", "exchange"} =>
                /\ q.id \in Flows /\ q.provider \in Providers /\ q.flow \in Flows
                /\ q.code \in Code
           /\ q.pc \in {"profile", "login", "createuser", "link", "createaccount"} =>
                /\ q.id \in Flows /\ q.provider \in Providers /\ q.flow \in Flows
                /\ q.name \in Names /\ q.user \in OAuthUsers \cup {NoOne}
           /\ q.pc \in {"unlinkfind", "unlinkcount"} =>
                q.provider \in Providers /\ q.user \in OAuthUsers
           /\ q.pc \in {"unlinkcount", "unlink"} =>
                q.provider \in Providers /\ q.name \in Names /\ q.found \in Account
           /\ q.pc \in {"updateprovider", "saveprovider"} =>
                q.provider \in Providers /\ q.row \in {"absent", "enabled", "disabled"}
BY DEF OAuthRequest, Idle

\* ... what it goes on with, ...
LEMMA OAuthGoesOn ==
    ASSUME NEW q \in OAuthRequest
    PROVE  /\ q.pc \in {"getstate", "delstate", "exchange"} =>
                \A l \in {"delstate", "exchange"} : [q EXCEPT !.pc = l] \in OAuthRequest
           /\ q.pc \in {"profile", "login", "createuser", "link", "createaccount"} =>
                /\ \A l \in {"login", "createuser", "link", "createaccount"} :
                    [q EXCEPT !.pc = l] \in OAuthRequest
                /\ \A u \in OAuthUsers :
                    [q EXCEPT !.pc = "createaccount", !.user = u] \in OAuthRequest
           /\ q.pc = "updateprovider" => \A row \in {"enabled", "disabled"} :
                    [q EXCEPT !.pc = "saveprovider", !.row = row] \in OAuthRequest
<1>1. ASSUME q.pc \in {"getstate", "delstate", "exchange"}, NEW l \in {"delstate", "exchange"}
      PROVE  [q EXCEPT !.pc = l] \in OAuthRequest
  BY <1>1 DEF OAuthRequest
<1>2. ASSUME q.pc \in {"profile", "login", "createuser", "link", "createaccount"}
      PROVE  /\ \A l \in {"login", "createuser", "link", "createaccount"} :
                    [q EXCEPT !.pc = l] \in OAuthRequest
             /\ \A u \in OAuthUsers :
                    [q EXCEPT !.pc = "createaccount", !.user = u] \in OAuthRequest
  <2> DEFINE Callback ==
        [pc : {"profile", "login", "createuser", "link", "createaccount"}, id : Flows,
         provider : Providers, flow : Flows, name : Names, user : OAuthUsers \cup {NoOne}]
  <2>1. q \in Callback
    BY <1>2 DEF OAuthRequest
  <2>2. ASSUME NEW l \in {"login", "createuser", "link", "createaccount"}
        PROVE  [q EXCEPT !.pc = l] \in Callback
    BY <2>1
  <2>3. ASSUME NEW u \in OAuthUsers
        PROVE  [q EXCEPT !.pc = "createaccount", !.user = u] \in Callback
    BY <2>1
  <2>4. Callback \subseteq OAuthRequest
    BY DEF OAuthRequest
  <2> QED BY <2>2, <2>3, <2>4
<1>3. ASSUME q.pc = "updateprovider", NEW row \in {"enabled", "disabled"}
      PROVE  [q EXCEPT !.pc = "saveprovider", !.row = row] \in OAuthRequest
  BY <1>3 DEF OAuthRequest
<1> QED BY <1>1, <1>2, <1>3

\* ... and what it begins with.
LEMMA OAuthBegins ==
    /\ \A i \in Flows, p \in Providers, u \in OAuthUsers \cup {NoOne} :
        [pc |-> "initiate", id |-> i, provider |-> p, user |-> u] \in OAuthRequest
    /\ \A i, n \in Flows, p \in Providers, c \in Code :
        [pc |-> "getstate", id |-> i, provider |-> p, flow |-> n, code |-> c] \in OAuthRequest
    /\ \A i, n \in Flows, p \in Providers, x \in Names, u \in OAuthUsers \cup {NoOne} :
        [pc |-> "profile", id |-> i, provider |-> p, flow |-> n, name |-> x, user |-> u]
            \in OAuthRequest
    /\ \A p \in Providers, u \in OAuthUsers :
        [pc |-> "unlinkfind", provider |-> p, user |-> u] \in OAuthRequest
    /\ \A p \in Providers, u \in OAuthUsers, x \in Names, a \in Account :
        /\ [pc |-> "unlinkcount", provider |-> p, user |-> u, name |-> x, found |-> a]
            \in OAuthRequest
        /\ [pc |-> "unlink", provider |-> p, name |-> x, found |-> a] \in OAuthRequest
    /\ \A p \in Providers, row \in {"absent", "enabled", "disabled"} :
        [pc |-> "updateprovider", provider |-> p, row |-> row] \in OAuthRequest
BY DEF OAuthRequest

\* The statements keep the types of the rows and of the requests.
LEMMA OAuthTypes ==
    ASSUME OAuthTypeOK, CallbacksKeepTheirUser, OAuthNext
    PROVE  OAuthTypeOK'
<1> DEFINE Typed == RequestsAre(OAuthRequest)'
<1>1. /\ provider \in [Providers -> {"absent", "enabled", "disabled"}]
      /\ flow \in [Flows -> Flow \cup {NoFlow}]
      /\ states \subseteq Flows /\ codes \subseteq Code /\ issued \in 0..MaxCodes
      /\ account \in [Providers \X Names -> Account \cup {NoAccount}]
      /\ user \in [OAuthUsers -> {"absent", "oauth", "password"}]
      /\ finished \in [Flows -> SUBSET [name : Names, user : OAuthUsers, by : Flows]]
      /\ shared \subseteq Flows /\ excused \subseteq OAuthUsers
      /\ req \in [Slots -> OAuthRequest \cup {Idle}]
      /\ begun \in 0..MaxRequests /\ faults \in 0..MaxFaults
      /\ MaxRequests \in Nat /\ MaxFaults \in Nat /\ MaxCodes \in Nat
  BY RequestBoundsAssumption, NoOneAssumption DEF OAuthTypeOK, RequestsAre
<1>2. ASSUME NEW r \in Slots, NEW q \in OAuthRequest, Begin(r, q) PROVE Typed
  BY <1>1, <1>2 DEF Begin, RequestsAre
<1>3. ASSUME NEW r \in Slots, NEW q \in OAuthRequest \cup {Idle}, Become(r, q) \/ Stumble(r, q)
      PROVE  Typed
  BY <1>1, <1>3 DEF Become, Stumble, RequestsAre
<1>4. ASSUME NEW r \in Slots, Finish(r) \/ Abort(r) PROVE Typed
  BY <1>3, <1>4 DEF Finish, Abort
<1>5. ASSUME Serve \/ UNCHANGED requestVars PROVE Typed
  BY <1>1, <1>5 DEF Serve, requestVars, RequestsAre
<1>6. ASSUME UNCHANGED oauthVars, Typed PROVE OAuthTypeOK'
  BY <1>1, <1>6 DEF oauthVars, OAuthTypeOK
<1>7. ASSUME begun < MaxRequests PROVE begun + 1 \in Flows
  BY <1>1, <1>7 DEF Flows
<1> HIDE DEF Typed
<1>8. ASSUME NEW r \in Slots, NEW p \in Providers,
             HandleInitiateLogin(r, p) \/ \E u \in OAuthUsers : HandleInitiateLink(r, p, u)
      PROVE  OAuthTypeOK'
  <2>1. UNCHANGED oauthVars
    BY <1>8 DEF HandleInitiateLogin, HandleInitiateLink
  <2>2. PICK u \in OAuthUsers \cup {NoOne} :
            Begin(r, [pc |-> "initiate", id |-> begun + 1, provider |-> p, user |-> u])
    BY <1>8 DEF HandleInitiateLogin, HandleInitiateLink
  <2>3. begun + 1 \in Flows
    BY <1>7, <2>2 DEF Begin
  <2> QED BY <1>2, <1>6, <2>1, <2>2, <2>3, OAuthBegins
<1>9. ASSUME NEW r \in Slots, NEW p \in Providers, NEW n \in Flows, NEW c \in codes,
             HandleCallback(r, p, n, c)
      PROVE  OAuthTypeOK'
  <2>1. begun + 1 \in Flows /\ c \in Code
    BY <1>1, <1>7, <1>9 DEF HandleCallback, Begin
  <2> QED BY <1>2, <1>6, <1>9, <2>1, OAuthBegins DEF HandleCallback
<1>10. ASSUME NEW r \in Slots, NEW p \in Providers, HandleUpdateProvider(r, p)
      PROVE  OAuthTypeOK'
  BY <1>1, <1>2, <1>6, <1>10, OAuthBegins DEF HandleUpdateProvider
<1>11. ASSUME NEW r \in Slots, NEW p \in Providers, NEW u \in OAuthUsers, HandleUnlink(r, p, u)
      PROVE  OAuthTypeOK'
  <2>1. Typed
    BY <1>2, <1>11, OAuthBegins DEF HandleUnlink
  <2>2. excused' \subseteq OAuthUsers
        /\ UNCHANGED <<provider, flow, states, codes, issued, account, user, finished, shared>>
    BY <1>1, <1>11 DEF HandleUnlink
  <2> QED BY <1>1, <2>1, <2>2 DEF OAuthTypeOK, Typed
<1>12. ASSUME NEW r \in Slots, InitiateLogin(r) PROVE OAuthTypeOK'
  <2>1. req[r].id \in Flows /\ req[r].provider \in Providers
        /\ req[r].user \in OAuthUsers \cup {NoOne}
    BY <1>1, <1>12, OAuthFields DEF InitiateLogin, At
  <2>2. [provider |-> req[r].provider, user |-> req[r].user] \in Flow
    BY <2>1 DEF Flow
  <2>3. flow' \in [Flows -> Flow \cup {NoFlow}] /\ states' \subseteq Flows
    BY <1>1, <1>12, <2>1, <2>2 DEF InitiateLogin, CreateState
  <2>4. Typed
    BY <1>4, <1>12 DEF InitiateLogin
  <2> QED BY <1>1, <1>12, <2>3, <2>4 DEF InitiateLogin, OAuthTypeOK, Typed
<1>13. ASSUME NEW r \in Slots, GetState(r) PROVE OAuthTypeOK'
  <2>1. req[r] \in OAuthRequest /\ req[r].flow \in Flows
        /\ [req[r] EXCEPT !.pc = "delstate"] \in OAuthRequest
    BY <1>1, <1>13, OAuthFields, OAuthGoesOn DEF GetState, At
  <2>2. Typed
    BY <1>3, <1>4, <1>13, <2>1 DEF GetState, Goto
  <2>3. shared' \subseteq Flows
    BY <1>1, <1>13, <2>1 DEF GetState
  <2> QED BY <1>1, <1>13, <2>2, <2>3 DEF GetState, OAuthTypeOK, Typed
<1>14. ASSUME NEW r \in Slots, DelState(r) \/ DelStateFails(r) PROVE OAuthTypeOK'
  <2>1. /\ req[r] \in OAuthRequest /\ req[r].flow \in Flows
        /\ [req[r] EXCEPT !.pc = "exchange"] \in OAuthRequest
    BY <1>1, <1>14, OAuthFields, OAuthGoesOn DEF DelState, DelStateFails, At
  <2>2. AfterState(req[r]) \in OAuthRequest \cup {Idle}
    BY <2>1 DEF AfterState
  <2>3. Typed
    BY <1>3, <1>14, <2>2 DEF DelState, DelStateFails
  <2>4. states' \subseteq Flows /\ shared' \subseteq Flows
    BY <1>1, <1>14, <2>1 DEF DelState, DelStateFails, Consumed
  <2> QED BY <1>1, <1>14, <2>3, <2>4 DEF DelState, DelStateFails, OAuthTypeOK, Typed
<1>15. ASSUME NEW r \in Slots, ExchangeCode(r) PROVE OAuthTypeOK'
  <2> DEFINE q == req[r]
  <2>1. q.id \in Flows /\ q.provider \in Providers /\ q.flow \in Flows /\ q.code \in Code
    BY <1>1, <1>15, OAuthFields DEF ExchangeCode, At
  <2>2. q.code.name \in Names
    BY <2>1 DEF Code
  <2>3. CASE Redeems(q.provider, q.code, q.flow)
    <3>1. q.code \in codes /\ flow[q.code.flow].provider = q.provider /\ q.code.flow = q.flow
      BY <2>3 DEF Redeems
    <3>2. flow[q.flow] \in Flow \cup {NoFlow}
      BY <1>1, <2>1
    <3>3. flow[q.flow].user \in OAuthUsers \cup {NoOne}
      BY <3>2 DEF Flow, NoFlow
    <3>4. Typed
      BY <1>3, <1>15, <2>1, <2>2, <2>3, <3>3, OAuthBegins DEF ExchangeCode
    <3>5. codes' \subseteq Code
      BY <1>1, <1>15, <2>3 DEF ExchangeCode
    <3> QED BY <1>1, <1>15, <3>4, <3>5 DEF ExchangeCode, OAuthTypeOK, Typed
  <2>4. CASE ~Redeems(q.provider, q.code, q.flow)
    BY <1>4, <1>6, <1>15, <2>4 DEF ExchangeCode, oauthVars
  <2> QED BY <2>3, <2>4
<1>16. ASSUME NEW r \in Slots, FetchUserProfile(r) \/ HandleLinkIntent(r) PROVE OAuthTypeOK'
  <2>1. /\ req[r] \in OAuthRequest
        /\ \A l \in {"login", "link", "createaccount"} : [req[r] EXCEPT !.pc = l] \in OAuthRequest
    BY <1>1, <1>16, OAuthFields, OAuthGoesOn DEF FetchUserProfile, HandleLinkIntent, At
  <2>2. Typed
    BY <1>3, <1>4, <1>16, <2>1 DEF FetchUserProfile, HandleLinkIntent, Goto
  <2> QED BY <1>6, <1>16, <2>2 DEF FetchUserProfile, HandleLinkIntent
<1>17. ASSUME NEW r \in Slots, NEW u \in OAuthUsers, req[r] \in OAuthRequest,
              req[r].pc \in {"login", "createaccount"}, Completes(req[r], u)
      PROVE  finished' \in [Flows -> SUBSET [name : Names, user : OAuthUsers, by : Flows]]
  <2>1. req[r].flow \in Flows /\ req[r].name \in Names /\ req[r].id \in Flows
    BY <1>17, OAuthFields
  <2>2. [name |-> req[r].name, user |-> u, by |-> req[r].id]
            \in [name : Names, user : OAuthUsers, by : Flows]
    BY <2>1
  <2> QED BY <1>1, <1>17, <2>1, <2>2 DEF Completes
<1>18. ASSUME NEW r \in Slots, HandleLoginIntent(r) PROVE OAuthTypeOK'
  <2> DEFINE q == req[r]
             known == account[Identity(q)].user
  <2>1. /\ q \in OAuthRequest /\ q.pc = "login" /\ Identity(q) \in Providers \X Names
        /\ [q EXCEPT !.pc = "createuser"] \in OAuthRequest
    BY <1>1, <1>18, OAuthFields, OAuthGoesOn DEF HandleLoginIntent, At, Identity
  <2>2. known \in OAuthUsers \cup {NoOne}
    BY <1>1, <2>1 DEF Account, NoAccount
  <2>3. Typed
    BY <1>3, <1>4, <1>18, <2>1 DEF HandleLoginIntent, Goto
  <2>4. finished' \in [Flows -> SUBSET [name : Names, user : OAuthUsers, by : Flows]]
    BY <1>1, <1>17, <1>18, <2>1, <2>2 DEF HandleLoginIntent
  <2> QED BY <1>1, <1>18, <2>3, <2>4 DEF HandleLoginIntent, OAuthTypeOK, Typed
<1>19. ASSUME NEW r \in Slots, NEW u \in OAuthUsers, AutoCreateUser(r, u) PROVE OAuthTypeOK'
  <2>1. [req[r] EXCEPT !.pc = "createaccount", !.user = u] \in OAuthRequest
    BY <1>1, <1>19, OAuthFields, OAuthGoesOn DEF AutoCreateUser, At
  <2>2. Typed
    BY <1>3, <1>19, <2>1 DEF AutoCreateUser
  <2>3. user' \in [OAuthUsers -> {"absent", "oauth", "password"}]
    BY <1>1, <1>19 DEF AutoCreateUser
  <2> QED BY <1>1, <1>19, <2>2, <2>3 DEF AutoCreateUser, OAuthTypeOK, Typed
<1>20. ASSUME NEW r \in Slots, CreateAccount(r), req[r].user \in OAuthUsers PROVE OAuthTypeOK'
  <2> DEFINE q == req[r]
  <2>1. /\ q \in OAuthRequest /\ q.pc = "createaccount" /\ Identity(q) \in Providers \X Names
        /\ q.id \in Flows
    BY <1>1, <1>20, OAuthFields DEF CreateAccount, At, Identity
  <2>2. [user |-> q.user, id |-> q.id] \in Account
    BY <1>1, <1>20, <2>1 DEF Account, Flows
  <2>3. /\ account' \in [Providers \X Names -> Account \cup {NoAccount}]
        /\ excused' \subseteq OAuthUsers
    BY <1>1, <1>20, <2>1, <2>2 DEF CreateAccount
  <2>4. finished' \in [Flows -> SUBSET [name : Names, user : OAuthUsers, by : Flows]]
    BY <1>1, <1>17, <1>20, <2>1 DEF CreateAccount
  <2>5. Typed
    BY <1>4, <1>20 DEF CreateAccount
  <2> QED BY <1>1, <1>20, <2>3, <2>4, <2>5 DEF CreateAccount, OAuthTypeOK, Typed
<1>21. ASSUME NEW r \in Slots, FindLink(r) PROVE OAuthTypeOK'
  <2>1. req[r].provider \in Providers /\ req[r].user \in OAuthUsers
    BY <1>1, <1>21, OAuthFields DEF FindLink, At
  <2>2. ASSUME NEW x \in Linked(req[r].user, req[r].provider)
        PROVE  x \in Names /\ account[<<req[r].provider, x>>] \in Account
    BY <1>1, <2>1, <2>2, NoOneAssumption DEF Linked, NoAccount
  <2>3. Typed
    BY <1>3, <1>4, <1>21, <2>1, <2>2, OAuthBegins DEF FindLink
  <2> QED BY <1>6, <1>21, <2>3 DEF FindLink
<1>22. ASSUME NEW r \in Slots, CountMethods(r) PROVE OAuthTypeOK'
  <2>1. req[r].provider \in Providers /\ req[r].user \in OAuthUsers
        /\ req[r].name \in Names /\ req[r].found \in Account
    BY <1>1, <1>22, OAuthFields DEF CountMethods, At
  <2>2. Typed
    BY <1>3, <1>4, <1>22, <2>1, OAuthBegins DEF CountMethods
  <2> QED BY <1>6, <1>22, <2>2 DEF CountMethods
<1>23. ASSUME NEW r \in Slots, UnlinkAccount(r) PROVE OAuthTypeOK'
  <2>1. account' \in [Providers \X Names -> Account \cup {NoAccount}]
    BY <1>1, <1>23 DEF UnlinkAccount
  <2>2. Typed
    BY <1>4, <1>23 DEF UnlinkAccount
  <2> QED BY <1>1, <1>23, <2>1, <2>2 DEF UnlinkAccount, OAuthTypeOK, Typed
<1>24. ASSUME NEW r \in Slots, UpdateProvider(r) PROVE OAuthTypeOK'
  <2>1. \A row \in {"enabled", "disabled"} :
            [req[r] EXCEPT !.pc = "saveprovider", !.row = row] \in OAuthRequest
    BY <1>1, <1>24, OAuthFields, OAuthGoesOn DEF UpdateProvider, At
  <2>2. Typed
    BY <1>3, <1>4, <1>24, <2>1 DEF UpdateProvider
  <2> QED BY <1>6, <1>24, <2>2 DEF UpdateProvider
<1>25. ASSUME NEW r \in Slots, SaveProvider(r) PROVE OAuthTypeOK'
  <2>1. req[r].row \in {"absent", "enabled", "disabled"} /\ req[r].provider \in Providers
    BY <1>1, <1>25, OAuthFields DEF SaveProvider, At
  <2>2. provider' \in [Providers -> {"absent", "enabled", "disabled"}]
    BY <1>1, <1>25, <2>1 DEF SaveProvider
  <2>3. Typed
    BY <1>4, <1>25 DEF SaveProvider
  <2> QED BY <1>1, <1>25, <2>2, <2>3 DEF SaveProvider, OAuthTypeOK, Typed
<1>26. ASSUME NEW r \in Slots, AbortOAuth(r),
              At(r, "createaccount") => req[r].user \in OAuthUsers
      PROVE  OAuthTypeOK'
  <2>1. Typed
    BY <1>4, <1>26 DEF AbortOAuth
  <2>2. excused' \subseteq OAuthUsers
    BY <1>1, <1>26 DEF AbortOAuth
  <2> QED BY <1>1, <1>26, <2>1, <2>2 DEF AbortOAuth, OAuthTypeOK, Typed
<1>27. ASSUME NEW n \in Flows, NEW x \in Names, Authorize(n, x) PROVE OAuthTypeOK'
  <2>1. issued' \in 0..MaxCodes /\ issued + 1 \in 1..MaxCodes
    BY <1>1, <1>27 DEF Authorize
  <2>2. codes' \subseteq Code
    BY <1>1, <1>27, <2>1 DEF Authorize, Code
  <2>3. Typed
    BY <1>5, <1>27 DEF Authorize
  <2> QED BY <1>1, <1>27, <2>1, <2>2, <2>3 DEF Authorize, OAuthTypeOK, Typed
<1>28. ASSUME NEW n \in Flows, StateExpires(n) PROVE OAuthTypeOK'
  <2>1. Typed
    BY <1>5, <1>28 DEF StateExpires
  <2> QED BY <1>1, <1>28, <2>1 DEF StateExpires, OAuthTypeOK, Typed
<1>29. ASSUME NEW p \in Providers, HandleCreateProvider(p) \/ HandleDeleteProvider(p)
      PROVE  OAuthTypeOK'
  <2>1. Typed
    BY <1>5, <1>29 DEF HandleCreateProvider, HandleDeleteProvider
  <2>2. provider' \in [Providers -> {"absent", "enabled", "disabled"}]
    BY <1>1, <1>29
    DEF HandleCreateProvider, HandleDeleteProvider, CreateProvider, DeleteProvider
  <2> QED
    BY <1>1, <1>29, <2>1, <2>2
    DEF HandleCreateProvider, HandleDeleteProvider, OAuthTypeOK, Typed
<1>30. \A r \in Slots : At(r, "createaccount") => req[r].user \in OAuthUsers
  BY <1>1, OAuthFields DEF CallbacksKeepTheirUser, At
<1>31. ASSUME NEW r \in Slots, CreateAccount(r) \/ AbortOAuth(r) PROVE OAuthTypeOK'
  BY <1>20, <1>26, <1>30, <1>31 DEF CreateAccount
<1> QED
  BY <1>8, <1>9, <1>10, <1>11, <1>12, <1>13, <1>14, <1>15, <1>16, <1>18, <1>19, <1>21, <1>22,
     <1>23, <1>24, <1>25, <1>27, <1>28, <1>29, <1>31
  DEF OAuthNext

-----------------------------------------------------------------------------
(* Log-in through other providers: flows *)

\* A step in which no request gets hold of a flow keeps what is said of flows.
LEMMA QuietFlows ==
    ASSUME \A n \in Flows : FlowIsTakenOnce(n), FlowsHaveBegun,
           flow' = flow, finished' = finished, states' \subseteq states, shared \subseteq shared',
           begun \in Nat, begun' \in Nat, begun <= begun',
           \A s \in Slots : \A n \in Flows :
                (s \in Past(n)' => s \in Past(n)) /\ (s \in Reading(n)' => s \in Reading(n)),
           \A s \in Slots : At(s, "getstate")' => flow[req'[s].flow] # NoFlow,
           \A s \in Slots : At(s, "initiate")' => At(s, "initiate") /\ req'[s].id = req[s].id,
           \A s \in Slots : At(s, "initiate") => req[s].id \in Flows
    PROVE  (\A n \in Flows : FlowIsTakenOnce(n)') /\ FlowsHaveBegun'
<1>1. ASSUME NEW n \in Flows
      PROVE  Past(n)' \subseteq Past(n) /\ Reading(n)' \subseteq Reading(n)
  <2>1. Past(n)' \subseteq Slots /\ Reading(n)' \subseteq Slots
    BY DEF Past, Reading
  <2> QED BY <2>1
<1>2. ASSUME NEW n \in Flows PROVE FlowIsTakenOnce(n)'
  <2>1. FlowIsTakenOnce(n) /\ Past(n)' \subseteq Past(n) /\ Reading(n)' \subseteq Reading(n)
    BY <1>1
  <2> QED BY <2>1 DEF FlowIsTakenOnce
<1>3. FlowsHaveBegun'
  <2>1. ASSUME NEW n \in Flows, n > begun' PROVE flow'[n] = NoFlow
    BY <2>1 DEF FlowsHaveBegun, Flows
  <2>2. ASSUME NEW n \in Flows,
               n \in states' \/ Reading(n)' \cup Past(n)' # {} \/ finished'[n] # {}
        PROVE  flow'[n] # NoFlow
    BY <1>1, <2>2 DEF FlowsHaveBegun
  <2>3. ASSUME NEW r \in Slots, At(r, "initiate")'
        PROVE  /\ req'[r].id <= begun' /\ flow'[req'[r].id] = NoFlow
               /\ \A s \in Others(r) : At(s, "initiate")' => req'[s].id # req'[r].id
    BY <2>3 DEF FlowsHaveBegun, Others, Flows
  <2> QED BY <2>1, <2>2, <2>3 DEF FlowsHaveBegun, At, Others
<1> QED BY <1>2, <1>3

\* A step of one request leaves the others where they are.
LEMMA OneRequestMoves ==
    ASSUME OAuthTypeOK, NEW r \in Slots,
           \/ \E p \in Providers :
                \/ HandleInitiateLogin(r, p) \/ HandleUpdateProvider(r, p)
                \/ \E u \in OAuthUsers : HandleInitiateLink(r, p, u) \/ HandleUnlink(r, p, u)
                \/ \E n \in Flows, c \in codes : HandleCallback(r, p, n, c)
           \/ InitiateLogin(r)
           \/ GetState(r) \/ DelState(r) \/ DelStateFails(r) \/ ExchangeCode(r)
           \/ FetchUserProfile(r) \/ HandleLoginIntent(r) \/ HandleLinkIntent(r)
           \/ CreateAccount(r) \/ \E u \in OAuthUsers : AutoCreateUser(r, u)
           \/ FindLink(r) \/ CountMethods(r) \/ UnlinkAccount(r)
           \/ UpdateProvider(r) \/ SaveProvider(r) \/ AbortOAuth(r)
    PROVE  \A s \in Others(r) : req'[s] = req[s]
<1>1. ASSUME NEW q, Begin(r, q) \/ Become(r, q) \/ Stumble(r, q)
      PROVE  \A s \in Others(r) : req'[s] = req[s]
  BY <1>1 DEF OAuthTypeOK, RequestsAre, Begin, Become, Stumble, Others
<1>2. \E q : Begin(r, q) \/ Become(r, q) \/ Stumble(r, q)
  BY DEF HandleInitiateLogin, HandleUpdateProvider, HandleInitiateLink, HandleUnlink,
     HandleCallback, InitiateLogin, GetState, DelState, DelStateFails, ExchangeCode,
     FetchUserProfile, HandleLoginIntent, HandleLinkIntent, CreateAccount, AutoCreateUser,
     FindLink, CountMethods, UnlinkAccount, UpdateProvider, SaveProvider, AbortOAuth, Abort,
     Finish, Goto
<1> QED BY <1>1, <1>2

\* The steps of a request that get hold of no flow: where it may come to, and with what.
LEMMA RequestWithoutFlow ==
    ASSUME OAuthTypeOK, NEW r \in Slots,
           \/ \E p \in Providers :
                \/ HandleUpdateProvider(r, p)
                \/ \E u \in OAuthUsers : HandleUnlink(r, p, u)
           \/ ExchangeCode(r) \/ FetchUserProfile(r) \/ HandleLinkIntent(r)
           \/ \E u \in OAuthUsers : AutoCreateUser(r, u)
           \/ HandleLoginIntent(r) /\ UNCHANGED finished
           \/ CreateAccount(r) /\ UNCHANGED finished
           \/ FindLink(r) \/ CountMethods(r) \/ UnlinkAccount(r)
           \/ UpdateProvider(r) \/ SaveProvider(r) \/ AbortOAuth(r)
    PROVE  /\ UNCHANGED <<flow, finished, states, shared>>
           /\ begun \in Nat /\ begun' \in Nat /\ begun <= begun'
           /\ req'[r].pc \notin {"getstate", "initiate", "delstate"}
           /\ \A n \in Flows : r \in Past(n)' => r \in Past(n)
<1> DEFINE Beyond == {"exchange", "profile", "login", "createuser", "link", "createaccount"}
<1>1. /\ req \in [Slots -> OAuthRequest \cup {Idle}] /\ begun \in Nat
      /\ req[r].pc \notin {"idle"} => req[r] \in OAuthRequest
  BY OAuthFields, RequestBoundsAssumption DEF OAuthTypeOK, RequestsAre, Idle
<1>2. UNCHANGED <<flow, finished, states, shared>> /\ begun' \in Nat /\ begun <= begun'
  <2>1. UNCHANGED <<flow, finished, states, shared>>
    BY DEF HandleUpdateProvider, HandleUnlink, ExchangeCode, FetchUserProfile, HandleLinkIntent,
       AutoCreateUser, HandleLoginIntent, CreateAccount, FindLink, CountMethods, UnlinkAccount,
       UpdateProvider, SaveProvider, AbortOAuth, oauthVars
  <2>2. \E q : Begin(r, q) \/ Become(r, q) \/ Stumble(r, q)
    BY DEF HandleUpdateProvider, HandleUnlink, ExchangeCode, FetchUserProfile, HandleLinkIntent,
       AutoCreateUser, HandleLoginIntent, CreateAccount, FindLink, CountMethods, UnlinkAccount,
       UpdateProvider, SaveProvider, AbortOAuth, Abort, Goto, Finish
  <2>3. begun' \in {begun, begun + 1}
    BY <2>2 DEF Begin, Become, Stumble
  <2> QED BY <1>1, <2>1, <2>3
<1>3. CASE \/ \E p \in Providers :
                \/ HandleUpdateProvider(r, p)
                \/ \E u \in OAuthUsers : HandleUnlink(r, p, u)
           \/ HandleLoginIntent(r) /\ UNCHANGED finished /\ Finish(r)
           \/ CreateAccount(r) \/ UnlinkAccount(r)
           \/ SaveProvider(r) \/ AbortOAuth(r)
  <2>1. req'[r].pc \in {"idle", "updateprovider", "unlinkfind"}
    BY <1>1, <1>3
    DEF HandleUpdateProvider, HandleUnlink, CreateAccount, UnlinkAccount, SaveProvider,
        AbortOAuth, Abort, Begin, Become, Finish, Stumble, Idle
  <2> QED BY <1>1, <1>2, <2>1 DEF Past
<1>4. CASE FindLink(r) \/ CountMethods(r) \/ UpdateProvider(r)
  <2>1. CASE FindLink(r) \/ CountMethods(r)
    <3>1. \E q : q.pc \in {"idle", "unlinkcount", "unlink"} /\ Become(r, q)
      <4>1. CASE Finish(r)
        BY <4>1 DEF Finish, Idle
      <4>2. CASE FindLink(r) /\ ~Finish(r)
        <5>1. PICK x : Become(r, [pc |-> "unlinkcount", provider |-> req[r].provider,
                                  user |-> req[r].user, name |-> x,
                                  found |-> account[<<req[r].provider, x>>]])
          BY <4>2 DEF FindLink
        <5> QED BY <5>1
      <4>3. CASE CountMethods(r) /\ ~Finish(r)
        BY <4>3 DEF CountMethods
      <4> QED BY <2>1, <4>1, <4>2, <4>3
    <3>2. req'[r].pc \in {"idle", "unlinkcount", "unlink"}
      BY <1>1, <3>1 DEF Become
    <3> QED BY <1>1, <1>2, <3>2 DEF Past
  <2>2. CASE UpdateProvider(r)
    <3>1. \A row \in {"enabled", "disabled"} :
            [req[r] EXCEPT !.pc = "saveprovider", !.row = row].pc = "saveprovider"
      BY <1>1, <2>2 DEF UpdateProvider, At, OAuthRequest
    <3>2. \E q : q.pc \in {"idle", "saveprovider"} /\ Become(r, q)
      <4>1. CASE Finish(r)
        BY <4>1 DEF Finish, Idle
      <4>2. CASE ~Finish(r)
        <5>1. PICK row \in {"enabled", "disabled"} :
                Become(r, [req[r] EXCEPT !.pc = "saveprovider", !.row = row])
          BY <2>2, <4>2 DEF UpdateProvider
        <5> DEFINE q == [req[r] EXCEPT !.pc = "saveprovider", !.row = row]
        <5>2. q.pc = "saveprovider" /\ Become(r, q)
          BY <3>1, <5>1
        <5> HIDE DEF q
        <5> QED BY <5>2
      <4> QED BY <4>1, <4>2
    <3>3. req'[r].pc \in {"idle", "saveprovider"}
      BY <1>1, <3>2 DEF Become
    <3> QED BY <1>1, <1>2, <3>3 DEF Past
  <2> QED BY <1>4, <2>1, <2>2
<1>5. CASE \/ ExchangeCode(r) \/ FetchUserProfile(r) \/ HandleLinkIntent(r)
           \/ \E u \in OAuthUsers : AutoCreateUser(r, u)
           \/ HandleLoginIntent(r) /\ UNCHANGED finished
  <2>1. req[r].pc \in Beyond /\ req[r] \in OAuthRequest
    BY <1>1, <1>5
    DEF ExchangeCode, FetchUserProfile, HandleLinkIntent, AutoCreateUser, HandleLoginIntent, At
  <2>2. req'[r].pc = "idle" \/ (req'[r].pc \in Beyond /\ req'[r].flow = req[r].flow)
    <3>1. CASE ExchangeCode(r)
      BY <1>1, <3>1 DEF ExchangeCode, Become, Finish, Idle
    <3>2. CASE FetchUserProfile(r) \/ HandleLinkIntent(r) \/ HandleLoginIntent(r)
      <4>1. Finish(r) \/ \E l \in {"login", "link", "createuser", "createaccount"} : Goto(r, l)
        BY <3>2, NoOneAssumption DEF FetchUserProfile, HandleLinkIntent, HandleLoginIntent
      <4>2. \A l \in {"login", "link", "createuser", "createaccount"} :
                [req[r] EXCEPT !.pc = l].pc = l /\ [req[r] EXCEPT !.pc = l].flow = req[r].flow
        BY <2>1 DEF OAuthRequest
      <4>3. CASE Finish(r)
        BY <1>1, <4>3 DEF Become, Finish, Idle
      <4>4. ASSUME NEW l \in {"login", "link", "createuser", "createaccount"}, Goto(r, l)
            PROVE  req'[r].pc \in Beyond /\ req'[r].flow = req[r].flow
        <5>1. req'[r] = [req[r] EXCEPT !.pc = l]
          BY <1>1, <4>4 DEF Goto, Become
        <5> QED BY <4>2, <5>1
      <4> QED BY <4>1, <4>3, <4>4
    <3>3. ASSUME NEW u \in OAuthUsers, AutoCreateUser(r, u)
          PROVE  req'[r].pc \in Beyond /\ req'[r].flow = req[r].flow
      <4>1. /\ [req[r] EXCEPT !.pc = "createaccount", !.user = u].pc = "createaccount"
            /\ [req[r] EXCEPT !.pc = "createaccount", !.user = u].flow = req[r].flow
        BY <2>1, <3>3 DEF OAuthRequest, AutoCreateUser, At
      <4> QED BY <1>1, <3>3, <4>1 DEF AutoCreateUser, Become
    <3> QED BY <1>5, <3>1, <3>2, <3>3
  <2> QED BY <1>1, <1>2, <2>1, <2>2 DEF Past
<1> QED BY <1>3, <1>4, <1>5

\* Nobody else has a flow in hand whose entry nobody has shared.
LEMMA HasFlowAlone ==
    ASSUME NEW n \in Flows, FlowIsTakenOnce(n), n \notin shared, NEW r \in Slots,
           r \in Reading(n) \cup Past(n)
    PROVE  Reading(n) \cup Past(n) = {r} /\ finished[n] = {}
BY DEF FlowIsTakenOnce

\* A flow is completed once unless its entry is shared, and is used after it was begun.
LEMMA FlowSteps ==
    ASSUME OAuthInv, OAuthNext
    PROVE  (\A n \in Flows : FlowIsTakenOnce(n)') /\ FlowsHaveBegun'
<1> DEFINE Goal == (\A n \in Flows : FlowIsTakenOnce(n)') /\ FlowsHaveBegun'
           Callback(q) == q.pc \in {"exchange", "profile", "login", "createuser", "link",
                                    "createaccount"}
<1>1. /\ OAuthTypeOK /\ FlowsHaveBegun /\ \A n \in Flows : FlowIsTakenOnce(n)
      /\ req \in [Slots -> OAuthRequest \cup {Idle}]
      /\ flow \in [Flows -> Flow \cup {NoFlow}]
      /\ finished \in [Flows -> SUBSET [name : Names, user : OAuthUsers, by : Flows]]
      /\ begun \in Nat /\ begun <= MaxRequests /\ MaxRequests \in Nat
      /\ \A s \in Slots : At(s, "initiate") => req[s].id \in Flows
      /\ \A s \in Slots : req[s].pc \in {"getstate", "delstate"} \/ Callback(req[s])
            => req[s] \in OAuthRequest /\ req[s].flow \in Flows
  <2>1. /\ OAuthTypeOK /\ FlowsHaveBegun /\ \A n \in Flows : FlowIsTakenOnce(n)
        /\ req \in [Slots -> OAuthRequest \cup {Idle}]
        /\ flow \in [Flows -> Flow \cup {NoFlow}]
        /\ finished \in [Flows -> SUBSET [name : Names, user : OAuthUsers, by : Flows]]
        /\ begun \in 0..MaxRequests /\ MaxRequests \in Nat
    BY RequestBoundsAssumption DEF OAuthInv, OAuthTypeOK, RequestsAre
  <2>2. \A s \in Slots : At(s, "initiate") => req[s].id \in Flows
    BY <2>1, OAuthFields DEF At
  <2>3. \A s \in Slots : req[s].pc \in {"getstate", "delstate"} \/ Callback(req[s])
            => req[s] \in OAuthRequest /\ req[s].flow \in Flows
    BY <2>1, OAuthFields
  <2> QED BY <2>1, <2>2, <2>3
<1> HIDE DEF Goal
<1>2. ASSUME UNCHANGED <<flow, finished>>, states' \subseteq states, shared \subseteq shared',
             begun' \in Nat, begun <= begun', NEW r \in Slots,
             \A s \in Others(r) : req'[s] = req[s],
             req'[r].pc # "initiate",
             req'[r].pc = "getstate" => flow[req'[r].flow] # NoFlow,
             \A n \in Flows :
                (r \in Past(n)' => r \in Past(n)) /\ (r \in Reading(n)' => r \in Reading(n))
      PROVE  Goal
  <2>1. \A s \in Others(r) : \A n \in Flows :
            (s \in Past(n)' => s \in Past(n)) /\ (s \in Reading(n)' => s \in Reading(n))
    BY <1>2 DEF Past, Reading, At
  <2>2. \A s \in Slots : \A n \in Flows :
            (s \in Past(n)' => s \in Past(n)) /\ (s \in Reading(n)' => s \in Reading(n))
    BY <1>2, <2>1 DEF Others
  <2>3. \A s \in Slots : At(s, "getstate")' => flow[req'[s].flow] # NoFlow
    BY <1>1, <1>2 DEF FlowsHaveBegun, At, Others
  <2>4. \A s \in Slots : At(s, "initiate")' => At(s, "initiate") /\ req'[s].id = req[s].id
    BY <1>2 DEF At, Others
  <2> QED BY <1>1, <1>2, <2>2, <2>3, <2>4, QuietFlows DEF Goal
<1>3. ASSUME NEW r \in Slots,
             \/ \E p \in Providers :
                \/ HandleUpdateProvider(r, p)
                \/ \E u \in OAuthUsers : HandleUnlink(r, p, u)
             \/ ExchangeCode(r) \/ FetchUserProfile(r) \/ HandleLinkIntent(r)
             \/ \E u \in OAuthUsers : AutoCreateUser(r, u)
             \/ HandleLoginIntent(r) /\ UNCHANGED finished
             \/ CreateAccount(r) /\ UNCHANGED finished
             \/ FindLink(r) \/ CountMethods(r) \/ UnlinkAccount(r)
             \/ UpdateProvider(r) \/ SaveProvider(r) \/ AbortOAuth(r)
      PROVE  Goal
  <2>1. \A s \in Others(r) : req'[s] = req[s]
    BY <1>1, <1>3, OneRequestMoves
  <2>2. /\ UNCHANGED <<flow, finished, states, shared>>
        /\ begun' \in Nat /\ begun <= begun'
        /\ req'[r].pc \notin {"getstate", "initiate", "delstate"}
        /\ \A n \in Flows : r \in Past(n)' => r \in Past(n)
    BY <1>1, <1>3, RequestWithoutFlow
  <2>3. \A n \in Flows : r \notin Reading(n)'
    BY <2>2 DEF Reading, At
  <2> QED BY <1>2, <2>1, <2>2, <2>3
<1>4. ASSUME UNCHANGED <<flow, finished, req>>, states' \subseteq states, UNCHANGED shared,
             begun' \in Nat, begun <= begun'
      PROVE  Goal
  <2>1. \A s \in Slots : \A n \in Flows :
            (s \in Past(n)' => s \in Past(n)) /\ (s \in Reading(n)' => s \in Reading(n))
    BY <1>4 DEF Past, Reading, At
  <2>2. \A s \in Slots : At(s, "getstate")' => flow[req'[s].flow] # NoFlow
    BY <1>1, <1>4 DEF FlowsHaveBegun, At
  <2>3. \A s \in Slots : At(s, "initiate")' => At(s, "initiate") /\ req'[s].id = req[s].id
    BY <1>4 DEF At
  <2> QED BY <1>1, <1>4, <2>1, <2>2, <2>3, QuietFlows DEF Goal
<1>5. ASSUME (\E n \in Flows : StateExpires(n) \/ \E x \in Names : Authorize(n, x))
             \/ \E p \in Providers : HandleCreateProvider(p) \/ HandleDeleteProvider(p)
      PROVE  Goal
  <2>1. UNCHANGED <<flow, finished, req, shared>> /\ states' \subseteq states
    BY <1>5
    DEF StateExpires, Authorize, HandleCreateProvider, HandleDeleteProvider, Serve, requestVars
  <2>2. begun' \in {begun, begun + 1}
    BY <1>5
    DEF StateExpires, Authorize, HandleCreateProvider, HandleDeleteProvider, Serve, requestVars
  <2> QED BY <1>1, <1>4, <2>1, <2>2
<1>6. ASSUME NEW r \in Slots, NEW p \in Providers, NEW n \in Flows, NEW c \in codes,
             flow[n] # NoFlow, HandleCallback(r, p, n, c)
      PROVE  Goal
  <2>1. \A s \in Others(r) : req'[s] = req[s]
    BY <1>1, <1>6, OneRequestMoves
  <2>2. /\ UNCHANGED <<flow, finished, states, shared>> /\ begun' = begun + 1
        /\ req'[r].pc = "getstate" /\ req'[r].flow = n
    BY <1>1, <1>6 DEF HandleCallback, Begin, oauthVars
  <2>3. \A m \in Flows : r \notin Past(m)' /\ r \notin Reading(m)'
    BY <2>2 DEF Past, Reading, At
  <2> QED BY <1>1, <1>2, <1>6, <2>1, <2>2, <2>3
<1>7. ASSUME NEW r \in Slots, NEW p \in Providers, NEW u \in OAuthUsers \cup {NoOne},
             Begin(r, [pc |-> "initiate", id |-> begun + 1, provider |-> p, user |-> u]),
             UNCHANGED oauthVars
      PROVE  Goal
  <2>1. /\ begun' = begun + 1 /\ begun < MaxRequests /\ req[r].pc = "idle"
        /\ req'[r].pc = "initiate" /\ req'[r].id = begun + 1
        /\ \A s \in Others(r) : req'[s] = req[s]
        /\ UNCHANGED <<flow, finished, states, shared>>
    BY <1>1, <1>7 DEF Begin, At, Others, oauthVars
  <2>2. \A n \in Flows : Past(n)' = Past(n) /\ Reading(n)' = Reading(n)
    BY <2>1 DEF Past, Reading, At, Others
  <2>3. \A n \in Flows : FlowIsTakenOnce(n)'
    BY <1>1, <2>1, <2>2 DEF FlowIsTakenOnce
  <2>4. \A n \in Flows :
            /\ n > begun' => flow'[n] = NoFlow
            /\ n \in states' \/ Reading(n)' \cup Past(n)' # {} \/ finished'[n] # {}
                => flow'[n] # NoFlow
    BY <1>1, <2>1, <2>2 DEF FlowsHaveBegun, Flows
  <2>5. \A s \in Slots : At(s, "getstate")' => flow'[req'[s].flow] # NoFlow
    BY <1>1, <2>1 DEF FlowsHaveBegun, At, Others
  <2>6. \A s \in Others(r) : At(s, "initiate")' =>
            /\ At(s, "initiate") /\ req'[s].id = req[s].id /\ req[s].id <= begun
            /\ flow'[req'[s].id] = NoFlow
            /\ \A t \in Others(s) \ {r} : At(t, "initiate")' => req'[t].id # req'[s].id
    BY <1>1, <2>1 DEF FlowsHaveBegun, At, Others
  <2>7. begun + 1 \in Flows /\ flow'[begun + 1] = NoFlow
    BY <1>1, <2>1 DEF FlowsHaveBegun, Flows
  <2>8. ASSUME NEW s \in Slots, At(s, "initiate")'
        PROVE  /\ req'[s].id <= begun' /\ flow'[req'[s].id] = NoFlow
               /\ \A t \in Others(s) : At(t, "initiate")' => req'[t].id # req'[s].id
    <3>1. \A t \in Others(r) : At(t, "initiate")' =>
                req'[t].id \in Flows /\ req'[t].id <= begun
      BY <1>1, <2>6 DEF Others
    <3>2. CASE s = r
      BY <1>1, <2>1, <2>7, <3>1, <3>2 DEF Flows
    <3>3. CASE s # r
      <4>1. /\ s \in Others(r) /\ req'[s].id \in Nat /\ req'[s].id <= begun
        BY <2>8, <3>1, <3>3 DEF Others, Flows
      <4>2. \A t \in Others(s) : At(t, "initiate")' => req'[t].id # req'[s].id
        BY <1>1, <2>1, <2>6, <2>8, <4>1 DEF Others
      <4> QED BY <1>1, <2>1, <2>6, <2>8, <4>1, <4>2
    <3> QED BY <3>2, <3>3
  <2> QED BY <2>3, <2>4, <2>5, <2>8 DEF FlowsHaveBegun, Goal, At, Others
<1>8. ASSUME NEW r \in Slots, InitiateLogin(r) PROVE Goal
  <2> DEFINE i == req[r].id
  <2>1. /\ At(r, "initiate") /\ i \in Flows /\ i <= begun /\ flow[i] = NoFlow
        /\ req' = [req EXCEPT ![r] = Idle]
        /\ UNCHANGED <<finished, shared, begun>>
        /\ req[r].provider \in Providers
    BY <1>1, <1>8, OAuthFields DEF InitiateLogin, Finish, Become, FlowsHaveBegun, At
  <2>2. \A s \in Others(r) : req'[s] = req[s]
    BY <1>1, <1>8, OneRequestMoves
  <2>3. req'[r].pc = "idle"
    BY <1>1, <2>1 DEF Idle
  <2>4. \A n \in Flows : Past(n)' = Past(n) /\ Reading(n)' = Reading(n)
    BY <2>1, <2>2, <2>3 DEF Past, Reading, At, Others
  <2>5. CASE UNCHANGED <<flow, states>>
    BY <1>1, <1>2, <2>1, <2>2, <2>3, <2>4, <2>5
  <2>6. CASE CreateState(req[r])
    <3>1. /\ states' = states \cup {i} /\ flow'[i] # NoFlow
          /\ \A n \in Flows \ {i} : flow'[n] = flow[n]
      <4>1. flow'[i] = [provider |-> req[r].provider, user |-> req[r].user]
            /\ states' = states \cup {i} /\ \A n \in Flows \ {i} : flow'[n] = flow[n]
        BY <1>1, <2>1, <2>6 DEF CreateState
      <4>2. req[r].provider # NoOne
        BY <2>1, NoOneAssumption
      <4> QED BY <4>1, <4>2 DEF NoFlow
    <3>2. Past(i) = {} /\ Reading(i) = {} /\ finished[i] = {}
      BY <1>1, <2>1 DEF FlowsHaveBegun
    <3>3. \A n \in Flows : FlowIsTakenOnce(n)'
      BY <1>1, <2>1, <2>4, <3>1, <3>2 DEF FlowIsTakenOnce
    <3>4. \A n \in Flows :
            /\ n > begun' => flow'[n] = NoFlow
            /\ n \in states' \/ Reading(n)' \cup Past(n)' # {} \/ finished'[n] # {}
                => flow'[n] # NoFlow
      BY <1>1, <2>1, <2>4, <3>1 DEF FlowsHaveBegun, Flows
    <3>5. \A s \in Slots : At(s, "getstate")' => flow'[req'[s].flow] # NoFlow
      BY <1>1, <2>1, <2>2, <2>3, <3>1 DEF FlowsHaveBegun, At, Others
    <3>6. \A s \in Slots : At(s, "initiate")' =>
            /\ req'[s].id <= begun' /\ flow'[req'[s].id] = NoFlow
            /\ \A t \in Others(s) : At(t, "initiate")' => req'[t].id # req'[s].id
      <4>1. \A s \in Slots : At(s, "initiate")' =>
                s \in Others(r) /\ At(s, "initiate") /\ req'[s].id = req[s].id
        BY <2>2, <2>3 DEF At, Others
      <4>2. \A s \in Others(r) : At(s, "initiate") =>
                /\ req[s].id \in Flows /\ req[s].id # i /\ req[s].id <= begun
                /\ flow[req[s].id] = NoFlow
                /\ \A t \in Others(s) : At(t, "initiate") => req[t].id # req[s].id
        BY <1>1, <2>1 DEF FlowsHaveBegun, Others
      <4> QED BY <2>1, <3>1, <4>1, <4>2 DEF Others
    <3> QED BY <3>3, <3>4, <3>5, <3>6 DEF FlowsHaveBegun, Goal, At, Others
  <2> QED BY <1>8, <2>5, <2>6 DEF InitiateLogin
<1>9. ASSUME NEW r \in Slots, UNCHANGED <<flow, begun>>, \A s \in Others(r) : req'[s] = req[s],
             req'[r].pc \notin {"getstate", "initiate"}, NEW n \in Flows,
             \A m \in Flows \ {n} :
                /\ m \in states' => m \in states
                /\ m \in shared => m \in shared'
                /\ r \notin Past(m)' /\ r \notin Reading(m)' /\ finished'[m] = finished[m],
             FlowIsTakenOnce(n)', flow[n] # NoFlow
      PROVE  Goal
  <2>1. ASSUME NEW m \in Flows \ {n} PROVE FlowIsTakenOnce(m)' /\
            Past(m)' \subseteq Past(m) /\ Reading(m)' \subseteq Reading(m)
    <3>1. Past(m)' \subseteq Past(m) /\ Reading(m)' \subseteq Reading(m)
      BY <1>9, <2>1 DEF Past, Reading, At, Others
    <3> QED BY <1>1, <1>9, <3>1 DEF FlowIsTakenOnce
  <2>2. \A m \in Flows : m > begun' => flow'[m] = NoFlow
    BY <1>1, <1>9 DEF FlowsHaveBegun
  <2>3. \A m \in Flows :
            m \in states' \/ Reading(m)' \cup Past(m)' # {} \/ finished'[m] # {} =>
                flow'[m] # NoFlow
    BY <1>1, <1>9, <2>1 DEF FlowsHaveBegun
  <2>4. \A s \in Slots : At(s, "getstate")' => flow'[req'[s].flow] # NoFlow
    BY <1>1, <1>9 DEF FlowsHaveBegun, At, Others
  <2>5. \A s \in Slots : At(s, "initiate")' =>
            /\ req'[s].id <= begun' /\ flow'[req'[s].id] = NoFlow
            /\ \A t \in Others(s) : At(t, "initiate")' => req'[t].id # req'[s].id
    BY <1>1, <1>9 DEF FlowsHaveBegun, At, Others
  <2> QED BY <1>9, <2>1, <2>2, <2>3, <2>4, <2>5 DEF FlowsHaveBegun, Goal, At, Others
<1>10. ASSUME NEW r \in Slots, GetState(r), NEW n, n = req[r].flow PROVE Goal
  <2>1. /\ At(r, "getstate") /\ n \in Flows /\ flow[n] # NoFlow /\ req[r] \in OAuthRequest
        /\ UNCHANGED <<flow, finished, states, begun>>
        /\ \A s \in Others(r) : req'[s] = req[s]
    <3>1. /\ At(r, "getstate") /\ UNCHANGED <<flow, finished, states, begun>>
      BY <1>10 DEF GetState, Goto, Finish, Become
    <3>2. n \in Flows /\ flow[n] # NoFlow /\ req[r] \in OAuthRequest
      BY <1>10, <1>1, <3>1 DEF FlowsHaveBegun, At
    <3> QED BY <1>1, <1>10, <3>1, <3>2, OneRequestMoves
  <2>2. CASE n \notin states
    <3>1. UNCHANGED shared /\ req'[r].pc = "idle"
      BY <1>1, <1>10, <2>2 DEF GetState, Finish, Become, Idle
    <3>2. \A m \in Flows : r \notin Past(m)' /\ r \notin Reading(m)'
      BY <1>10, <3>1 DEF Past, Reading, At
    <3> QED BY <1>10, <1>1, <1>2, <2>1, <3>1, <3>2
  <2>3. CASE n \in states
    <3> DEFINE early == {s \in Others(r) : At(s, "delstate") /\ req[s].flow = n}
    <3>1. req'[r].pc = "delstate" /\ req'[r].flow = n
      <4>1. [req[r] EXCEPT !.pc = "delstate"].pc = "delstate"
            /\ [req[r] EXCEPT !.pc = "delstate"].flow = n
        BY <1>10, <2>1 DEF OAuthRequest, At
      <4> QED BY <1>1, <1>10, <2>3, <4>1 DEF GetState, Goto, Become
    <3>2. shared' = IF early = {} THEN shared ELSE shared \cup {n}
      BY <1>10, <2>3 DEF GetState
    <3>3. \A m \in Flows : r \notin Past(m)' /\ (m # n => r \notin Reading(m)')
      BY <1>10, <3>1 DEF Past, Reading, At
    <3>4. ASSUME n \notin shared' PROVE FlowIsTakenOnce(n)'
      <4>1. n \notin shared /\ early = {}
        BY <1>10, <3>2, <3>4
      <4>2. Past(n) = {} /\ finished[n] = {}
        BY <1>10, <1>1, <2>1, <2>3, <4>1 DEF FlowIsTakenOnce
      <4>3. Past(n)' = {}
        BY <1>10, <2>1, <3>3, <4>2 DEF Past, Others
      <4>4. Reading(n)' \subseteq {r}
        BY <1>10, <2>1, <4>1 DEF Reading, At, Others
      <4> QED BY <1>10, <2>1, <4>2, <4>3, <4>4 DEF FlowIsTakenOnce
    <3>5. FlowIsTakenOnce(n)'
      <4>1. CASE n \in shared'
        BY <1>10, <4>1 DEF FlowIsTakenOnce
      <4> QED BY <1>10, <3>4, <4>1
    <3> QED BY <1>10, <1>9, <2>1, <3>1, <3>2, <3>3, <3>5
  <2> QED BY <1>10, <2>2, <2>3
<1>11. ASSUME NEW r \in Slots, DelState(r) \/ DelStateFails(r), NEW n, n = req[r].flow
       PROVE  Goal
  <2>1. /\ At(r, "delstate") /\ n \in Flows /\ req[r] \in OAuthRequest
        /\ UNCHANGED <<flow, finished, begun>> /\ states' \subseteq states
        /\ shared \subseteq shared' /\ shared' \subseteq shared \cup {n}
        /\ n \notin states' \/ n \in shared'
        /\ \A s \in Others(r) : req'[s] = req[s]
    <3>1. At(r, "delstate") /\ UNCHANGED <<flow, finished, begun>>
      BY <1>11 DEF DelState, DelStateFails, Become, Stumble
    <3>2. /\ states' \subseteq states /\ shared \subseteq shared'
          /\ shared' \subseteq shared \cup {n} /\ (n \notin states' \/ n \in shared')
      BY <1>11 DEF DelState, DelStateFails, Consumed
    <3>3. n \in Flows /\ req[r] \in OAuthRequest
      BY <1>11, <1>1, <3>1 DEF At
    <3> QED BY <1>1, <1>11, <3>1, <3>2, <3>3, OneRequestMoves
  <2>2. r \in Reading(n) /\ flow[n] # NoFlow
    BY <1>11, <1>1, <2>1 DEF Reading, FlowsHaveBegun
  <2>3. req'[r].pc = "idle" \/ (req'[r].pc = "exchange" /\ req'[r].flow = n)
    <3>1. [req[r] EXCEPT !.pc = "exchange"].pc = "exchange"
          /\ [req[r] EXCEPT !.pc = "exchange"].flow = n
      BY <1>11, <2>1 DEF OAuthRequest, At
    <3>2. req'[r] = AfterState(req[r])
      BY <1>1, <1>11 DEF DelState, DelStateFails, Become, Stumble
    <3>3. CASE ProviderMatches(req[r].provider, req[r].flow)
      BY <1>11, <3>1, <3>2, <3>3 DEF AfterState
    <3>4. CASE ~ProviderMatches(req[r].provider, req[r].flow)
      BY <1>11, <3>2, <3>4 DEF AfterState, Idle
    <3> QED BY <1>11, <3>3, <3>4
  <2>4. \A m \in Flows : r \notin Reading(m)' /\ (m # n => r \notin Past(m)')
    BY <1>11, <2>3 DEF Reading, Past, At
  <2>5. ASSUME n \notin shared' PROVE FlowIsTakenOnce(n)'
    <3>1. n \notin shared /\ n \notin states'
      BY <1>11, <2>1, <2>5
    <3>2. Reading(n) \cup Past(n) = {r} /\ finished[n] = {}
      BY <1>11, <1>1, <2>1, <2>2, <3>1, HasFlowAlone
    <3>3. Reading(n)' \cup Past(n)' \subseteq {r}
      BY <1>11, <2>1, <3>2 DEF Reading, Past, At, Others
    <3> QED BY <1>11, <2>1, <3>1, <3>2, <3>3 DEF FlowIsTakenOnce
  <2>6. FlowIsTakenOnce(n)'
    <3>1. CASE n \in shared'
      BY <1>11, <3>1 DEF FlowIsTakenOnce
    <3> QED BY <1>11, <2>5, <3>1
  <2> QED BY <1>11, <1>9, <2>1, <2>2, <2>3, <2>4, <2>6
<1>12. ASSUME NEW r \in Slots, NEW u, Completes(req[r], u), Finish(r), Callback(req[r]),
              UNCHANGED <<flow, states, shared>>, NEW n, n = req[r].flow
       PROVE  Goal
  <2> DEFINE f == [name |-> req[r].name, user |-> u, by |-> req[r].id]
  <2>1. n \in Flows /\ r \in Past(n) /\ flow[n] # NoFlow
    <3>1. n \in Flows /\ r \in Past(n)
      BY <1>1, <1>12 DEF Past
    <3> QED BY <1>12, <1>1, <3>1 DEF FlowsHaveBegun
  <2>2. /\ req'[r].pc = "idle" /\ UNCHANGED begun
        /\ \A s \in Others(r) : req'[s] = req[s]
    BY <1>1, <1>12 DEF Finish, Become, Idle, Others
  <2>3. finished'[n] = finished[n] \cup {f} /\ \A m \in Flows \ {n} : finished'[m] = finished[m]
    BY <1>1, <1>12, <2>1 DEF Completes
  <2>4. \A m \in Flows : r \notin Reading(m)' /\ r \notin Past(m)'
    BY <1>12, <2>2 DEF Reading, Past, At
  <2>5. ASSUME n \notin shared' PROVE FlowIsTakenOnce(n)'
    <3>1. Reading(n) \cup Past(n) = {r} /\ finished[n] = {} /\ n \notin states
      BY <1>1, <1>12, <2>1, <2>5, HasFlowAlone DEF FlowIsTakenOnce
    <3>2. Reading(n)' \cup Past(n)' = {}
      BY <1>12, <2>2, <2>4, <3>1 DEF Reading, Past, At, Others
    <3>3. finished'[n] = {f}
      BY <1>12, <2>3, <3>1
    <3> QED BY <1>12, <3>1, <3>2, <3>3 DEF FlowIsTakenOnce
  <2>6. FlowIsTakenOnce(n)'
    <3>1. CASE n \in shared'
      BY <1>12, <3>1 DEF FlowIsTakenOnce
    <3> QED BY <1>12, <2>5, <3>1
  <2> QED BY <1>9, <1>12, <2>1, <2>2, <2>3, <2>4, <2>6
<1>13. ASSUME NEW r \in Slots, HandleLoginIntent(r) \/ CreateAccount(r) PROVE Goal
  <2>1. CASE UNCHANGED finished
    BY <1>3, <1>13, <2>1
  <2>2. CASE \E u : Completes(req[r], u) /\ Finish(r)
    BY <1>12, <1>13, <2>2 DEF HandleLoginIntent, CreateAccount, At
  <2> QED BY <1>13, <2>1, <2>2 DEF HandleLoginIntent, CreateAccount
<1>14. ASSUME NEW r \in Slots, NEW p \in Providers,
              HandleInitiateLogin(r, p) \/ \E u \in OAuthUsers : HandleInitiateLink(r, p, u)
       PROVE  Goal
  BY <1>7, <1>14 DEF HandleInitiateLogin, HandleInitiateLink
<1>15. Goal
  <2>1. ASSUME NEW r \in Slots, NEW p \in Providers,
               \/ HandleInitiateLogin(r, p) \/ HandleUpdateProvider(r, p)
               \/ \E u \in OAuthUsers : HandleInitiateLink(r, p, u) \/ HandleUnlink(r, p, u)
               \/ \E n \in Flows, c \in codes : flow[n] # NoFlow /\ HandleCallback(r, p, n, c)
        PROVE  Goal
    <3>1. CASE \E n \in Flows, c \in codes : flow[n] # NoFlow /\ HandleCallback(r, p, n, c)
      BY <1>6, <3>1
    <3> QED BY <1>3, <1>14, <2>1, <3>1
  <2> QED
    BY <1>3, <1>5, <1>8, <1>10, <1>11, <1>13, <2>1 DEF OAuthInv, OAuthNext
<1> QED BY <1>15 DEF Goal

\* What a callback goes on for is what its flow was begun for, and so is who completes it.
LEMMA CallbackSteps ==
    ASSUME OAuthInv, OAuthNext
    PROVE  /\ CallbacksKeepTheirUser'
           /\ \A n \in Flows : flow'[n].user # NoOne =>
                \A f \in finished'[n] : f.user = flow'[n].user
<1> DEFINE Kept(q) ==
        /\ q.pc = "profile" => q.user = flow'[q.flow].user
        /\ q.pc = "link" => q.user = flow'[q.flow].user /\ q.user # NoOne
        /\ q.pc = "login" \/ q.pc = "createuser" => flow'[q.flow].user = NoOne
        /\ q.pc = "createaccount" => q.user # NoOne /\ flow'[q.flow].user \in {NoOne, q.user}
           Beyond == {"profile", "login", "createuser", "link", "createaccount"}
<1>1. /\ OAuthTypeOK /\ CallbacksKeepTheirUser /\ FlowsHaveBegun
      /\ req \in [Slots -> OAuthRequest \cup {Idle}]
      /\ flow \in [Flows -> Flow \cup {NoFlow}]
      /\ finished \in [Flows -> SUBSET [name : Names, user : OAuthUsers, by : Flows]]
      /\ \A n \in Flows : flow[n].user # NoOne => \A f \in finished[n] : f.user = flow[n].user
      /\ NoFlow.user = NoOne
  BY DEF OAuthInv, OAuthTypeOK, RequestsAre, FlowsStayApart, NoFlow
<1>2. \A s \in Slots : req[s].pc \in Beyond \cup {"exchange"} =>
        req[s] \in OAuthRequest /\ req[s].flow \in Flows /\ flow[req[s].flow] # NoFlow
  <2>1. \A s \in Slots : req[s].pc \in Beyond \cup {"exchange"} =>
            req[s] \in OAuthRequest /\ req[s].flow \in Flows
    BY <1>1, OAuthFields
  <2>2. \A s \in Slots : req[s].pc \in Beyond \cup {"exchange"} => s \in Past(req[s].flow)
    BY DEF Past
  <2> QED BY <1>1, <2>1, <2>2 DEF FlowsHaveBegun
<1>3. ASSUME \A n \in Flows : flow[n] # NoFlow => flow'[n] = flow[n],
             NEW s \in Slots, req'[s] = req[s]
      PROVE  Kept(req'[s])
  BY <1>1, <1>2, <1>3 DEF CallbacksKeepTheirUser, At
<1>4. ASSUME \A s \in Slots : Kept(req'[s]) PROVE CallbacksKeepTheirUser'
  BY <1>4 DEF CallbacksKeepTheirUser, At
<1> HIDE DEF Kept
<1>5. ASSUME NEW r \in Slots, UNCHANGED flow, \A s \in Others(r) : req'[s] = req[s],
             Kept(req'[r])
      PROVE  CallbacksKeepTheirUser'
  BY <1>3, <1>4, <1>5 DEF Others
<1>6. ASSUME NEW r \in Slots, \A s \in Others(r) : req'[s] = req[s], UNCHANGED <<flow, finished>>,
             req'[r].pc \notin Beyond
      PROVE  /\ CallbacksKeepTheirUser'
             /\ \A n \in Flows : flow'[n].user # NoOne =>
                    \A f \in finished'[n] : f.user = flow'[n].user
  BY <1>1, <1>5, <1>6 DEF Kept
<1>7. CASE \/ \E n \in Flows : StateExpires(n) \/ \E x \in Names : Authorize(n, x)
           \/ \E p \in Providers : HandleCreateProvider(p) \/ HandleDeleteProvider(p)
  <2>1. UNCHANGED <<flow, finished, req>>
    BY <1>7
    DEF StateExpires, Authorize, HandleCreateProvider, HandleDeleteProvider, Serve, requestVars
  <2> QED BY <1>1, <1>3, <1>4, <2>1
<1>8. ASSUME NEW r \in Slots, NEW p \in Providers,
             \/ HandleInitiateLogin(r, p) \/ HandleUpdateProvider(r, p)
             \/ \E u \in OAuthUsers : HandleInitiateLink(r, p, u) \/ HandleUnlink(r, p, u)
             \/ \E n \in Flows, c \in codes : flow[n] # NoFlow /\ HandleCallback(r, p, n, c)
      PROVE  /\ UNCHANGED <<flow, finished>> /\ req'[r].pc \notin Beyond
             /\ \A s \in Others(r) : req'[s] = req[s]
  <2>1. UNCHANGED <<flow, finished>> /\ \A s \in Others(r) : req'[s] = req[s]
    BY <1>1, <1>8, OneRequestMoves
    DEF HandleInitiateLogin, HandleUpdateProvider, HandleInitiateLink, HandleUnlink,
        HandleCallback, oauthVars
  <2>2. \E q : Begin(r, q) /\ q.pc \in {"initiate", "updateprovider", "unlinkfind", "getstate"}
    <3>1. CASE HandleInitiateLogin(r, p) \/ \E u \in OAuthUsers : HandleInitiateLink(r, p, u)
      <4>1. PICK u : Begin(r, [pc |-> "initiate", id |-> begun + 1, provider |-> p, user |-> u])
        BY <3>1 DEF HandleInitiateLogin, HandleInitiateLink
      <4> QED BY <4>1
    <3>2. CASE HandleUpdateProvider(r, p)
      BY <3>2 DEF HandleUpdateProvider
    <3>3. ASSUME NEW u \in OAuthUsers, HandleUnlink(r, p, u)
          PROVE  \E q : Begin(r, q) /\ q.pc = "unlinkfind"
      BY <3>3 DEF HandleUnlink
    <3>4. ASSUME NEW n \in Flows, NEW c \in codes, HandleCallback(r, p, n, c)
          PROVE  \E q : Begin(r, q) /\ q.pc = "getstate"
      BY <3>4 DEF HandleCallback
    <3> QED BY <1>8, <3>1, <3>2, <3>3, <3>4
  <2>3. req'[r].pc \notin Beyond
    BY <1>1, <2>2 DEF Begin
  <2> QED BY <2>1, <2>3
<1>9. ASSUME NEW r \in Slots,
             \/ GetState(r) \/ DelState(r) \/ DelStateFails(r)
             \/ FindLink(r) \/ CountMethods(r) \/ UnlinkAccount(r)
             \/ UpdateProvider(r) \/ SaveProvider(r) \/ AbortOAuth(r)
      PROVE  /\ UNCHANGED <<flow, finished>> /\ req'[r].pc \notin Beyond
             /\ \A s \in Others(r) : req'[s] = req[s]
  <2>1. UNCHANGED <<flow, finished>> /\ \A s \in Others(r) : req'[s] = req[s]
    BY <1>1, <1>9, OneRequestMoves
    DEF GetState, DelState, DelStateFails, FindLink, CountMethods, UnlinkAccount,
        UpdateProvider, SaveProvider, AbortOAuth, oauthVars
  <2>2. CASE GetState(r) \/ DelState(r) \/ DelStateFails(r)
    <3>1. /\ [req[r] EXCEPT !.pc = "delstate"].pc = "delstate"
          /\ [req[r] EXCEPT !.pc = "exchange"].pc = "exchange"
      <4>1. req[r] \in OAuthRequest
        BY <1>1, <2>2, OAuthFields DEF GetState, DelState, DelStateFails, At
      <4> QED BY <2>2, <4>1 DEF OAuthRequest, GetState, DelState, DelStateFails, At
    <3>2. \/ req'[r] = Idle
          \/ req'[r] = [req[r] EXCEPT !.pc = "delstate"]
          \/ req'[r] = [req[r] EXCEPT !.pc = "exchange"]
      BY <1>1, <2>2
      DEF GetState, DelState, DelStateFails, AfterState, Goto, Finish, Become, Stumble
    <3>3. req'[r].pc \in {"idle", "delstate", "exchange"}
      <4>1. CASE req'[r] = Idle
        BY <4>1 DEF Idle
      <4>2. CASE req'[r] = [req[r] EXCEPT !.pc = "delstate"]
        BY <3>1, <4>2
      <4>3. CASE req'[r] = [req[r] EXCEPT !.pc = "exchange"]
        BY <3>1, <4>3
      <4> QED BY <3>2, <4>1, <4>2, <4>3
    <3> QED BY <2>1, <3>3
  <2>3. CASE UnlinkAccount(r) \/ SaveProvider(r) \/ AbortOAuth(r)
    <3>1. req'[r] = Idle
      BY <1>1, <2>3 DEF UnlinkAccount, SaveProvider, AbortOAuth, Abort, Finish, Become, Stumble
    <3> QED BY <2>1, <3>1 DEF Idle
  <2>4. CASE FindLink(r) \/ CountMethods(r) \/ UpdateProvider(r)
    <3>1. ASSUME NEW q, Become(r, q), q.pc \notin Beyond PROVE req'[r].pc \notin Beyond
      BY <1>1, <3>1 DEF Become
    <3>2. ASSUME Finish(r) PROVE req'[r].pc \notin Beyond
      BY <3>1, <3>2 DEF Finish, Idle
    <3>3. CASE FindLink(r)
      <4>1. \/ Finish(r)
            \/ \E x \in Names :
                Become(r, [pc |-> "unlinkcount", provider |-> req[r].provider,
                           user |-> req[r].user, name |-> x,
                           found |-> account[<<req[r].provider, x>>]])
        BY <3>3 DEF FindLink, Linked
      <4> QED BY <2>1, <3>1, <3>2, <4>1
    <3>4. CASE CountMethods(r)
      <4>1. \/ Finish(r)
            \/ Become(r, [pc |-> "unlink", provider |-> req[r].provider, name |-> req[r].name,
                          found |-> req[r].found])
        BY <3>4 DEF CountMethods
      <4> QED BY <2>1, <3>1, <3>2, <4>1
    <3>5. CASE UpdateProvider(r)
      <4>1. req[r] \in OAuthRequest /\ req[r].pc = "updateprovider"
        BY <1>1, <3>5, OAuthFields DEF UpdateProvider, At
      <4>2. \A row \in {"enabled", "disabled"} :
                [req[r] EXCEPT !.pc = "saveprovider", !.row = row].pc = "saveprovider"
        BY <4>1 DEF OAuthRequest
      <4>3. \/ Finish(r)
            \/ \E row \in {"enabled", "disabled"} :
                Become(r, [req[r] EXCEPT !.pc = "saveprovider", !.row = row])
        BY <3>5 DEF UpdateProvider
      <4> QED BY <2>1, <3>1, <3>2, <4>2, <4>3
    <3> QED BY <2>4, <3>3, <3>4, <3>5
  <2> QED BY <1>9, <2>2, <2>3, <2>4
<1>10. ASSUME NEW r \in Slots, InitiateLogin(r)
       PROVE  /\ CallbacksKeepTheirUser'
              /\ \A n \in Flows : flow'[n].user # NoOne =>
                    \A f \in finished'[n] : f.user = flow'[n].user
  <2> DEFINE i == req[r].id
  <2>1. /\ req'[r] = Idle /\ \A s \in Others(r) : req'[s] = req[s]
        /\ UNCHANGED finished /\ flow[i] = NoFlow /\ finished[i] = {} /\ i \in Flows
    <3>1. At(r, "initiate") /\ req'[r] = Idle /\ UNCHANGED finished
      BY <1>1, <1>10 DEF InitiateLogin, Finish, Become
    <3>2. flow[i] = NoFlow /\ i \in Flows
      BY <1>1, <3>1, OAuthFields DEF FlowsHaveBegun, At
    <3>3. finished[i] = {}
      BY <1>1, <3>2 DEF FlowsHaveBegun
    <3> QED BY <1>1, <1>10, <3>1, <3>2, <3>3, OneRequestMoves
  <2>2. \A n \in Flows \ {i} : flow'[n] = flow[n]
    BY <1>1, <1>10, <2>1 DEF InitiateLogin, CreateState
  <2>3. \A s \in Slots : Kept(req'[s])
    <3>1. Kept(req'[r])
      BY <2>1 DEF Kept, Idle
    <3>2. \A n \in Flows : flow[n] # NoFlow => flow'[n] = flow[n]
      BY <2>1, <2>2
    <3> QED BY <1>3, <2>1, <3>1, <3>2 DEF Others
  <2> QED BY <1>1, <1>4, <2>1, <2>2, <2>3
<1>11. ASSUME NEW r \in Slots, ExchangeCode(r) \/ FetchUserProfile(r) \/ HandleLinkIntent(r)
       PROVE  CallbacksKeepTheirUser' /\ UNCHANGED <<flow, finished>>
  <2>1. UNCHANGED <<flow, finished>> /\ \A s \in Others(r) : req'[s] = req[s]
    BY <1>1, <1>11, OneRequestMoves DEF ExchangeCode, FetchUserProfile, HandleLinkIntent, oauthVars
  <2>2. CASE req'[r] = Idle
    BY <1>5, <2>1, <2>2 DEF Kept, Idle
  <2>3. CASE ExchangeCode(r) /\ req'[r] # Idle
    <3>1. req'[r] = [pc |-> "profile", id |-> req[r].id, provider |-> req[r].provider,
                     flow |-> req[r].flow, name |-> req[r].code.name,
                     user |-> flow[req[r].flow].user]
      BY <1>1, <2>3 DEF ExchangeCode, Become, Finish
    <3>2. req'[r].pc = "profile" /\ req'[r].user = flow'[req'[r].flow].user
      BY <2>1, <3>1
    <3> QED BY <1>5, <2>1, <3>2 DEF Kept
  <2>4. CASE FetchUserProfile(r)
    <3> DEFINE l == IF req[r].user = NoOne THEN "login" ELSE "link"
    <3>1. /\ req[r].pc = "profile" /\ req'[r] = [req[r] EXCEPT !.pc = l]
          /\ req[r].user = flow[req[r].flow].user
      BY <1>1, <2>4 DEF FetchUserProfile, Goto, Become, CallbacksKeepTheirUser, At
    <3>2. req'[r].pc = l /\ req'[r].flow = req[r].flow /\ req'[r].user = req[r].user
      BY <1>2, <3>1 DEF OAuthRequest
    <3> QED BY <1>5, <2>1, <3>1, <3>2 DEF Kept
  <2>5. CASE HandleLinkIntent(r) /\ req'[r] # Idle
    <3>1. /\ req[r].pc = "link" /\ req'[r] = [req[r] EXCEPT !.pc = "createaccount"]
          /\ req[r].user = flow[req[r].flow].user /\ req[r].user # NoOne
      BY <1>1, <2>5 DEF HandleLinkIntent, Goto, Become, Finish, CallbacksKeepTheirUser, At
    <3>2. req'[r].pc = "createaccount" /\ req'[r].flow = req[r].flow /\ req'[r].user = req[r].user
      BY <1>2, <3>1 DEF OAuthRequest
    <3> QED BY <1>5, <2>1, <3>1, <3>2 DEF Kept
  <2> QED BY <1>11, <2>1, <2>2, <2>3, <2>4, <2>5
<1>12. ASSUME NEW r \in Slots, NEW u \in OAuthUsers, AutoCreateUser(r, u)
       PROVE  CallbacksKeepTheirUser' /\ UNCHANGED <<flow, finished>>
  <2>1. UNCHANGED <<flow, finished>> /\ \A s \in Others(r) : req'[s] = req[s]
    BY <1>1, <1>12, OneRequestMoves DEF AutoCreateUser
  <2>2. /\ req[r].pc = "createuser" /\ flow[req[r].flow].user = NoOne
        /\ req'[r] = [req[r] EXCEPT !.pc = "createaccount", !.user = u]
    BY <1>1, <1>12 DEF AutoCreateUser, Become, CallbacksKeepTheirUser, At
  <2>3. req'[r].pc = "createaccount" /\ req'[r].flow = req[r].flow /\ req'[r].user = u
    BY <1>2, <2>2 DEF OAuthRequest
  <2> QED BY <1>5, <2>1, <2>2, <2>3, NoOneAssumption DEF Kept
<1>13. ASSUME NEW r \in Slots, HandleLoginIntent(r) \/ CreateAccount(r)
       PROVE  /\ CallbacksKeepTheirUser'
              /\ \A n \in Flows : flow'[n].user # NoOne =>
                    \A f \in finished'[n] : f.user = flow'[n].user
  <2> DEFINE q == req[r]
  <2>1. UNCHANGED flow /\ \A s \in Others(r) : req'[s] = req[s]
    BY <1>1, <1>13, OneRequestMoves DEF HandleLoginIntent, CreateAccount
  <2>2. /\ q.pc \in {"login", "createaccount"} /\ q.flow \in Flows
        /\ q.pc = "login" => flow[q.flow].user = NoOne
        /\ q.pc = "createaccount" => flow[q.flow].user \in {NoOne, q.user}
    BY <1>1, <1>2, <1>13 DEF HandleLoginIntent, CreateAccount, CallbacksKeepTheirUser, At
  <2>3. CASE req'[r] = Idle
    <3>1. CallbacksKeepTheirUser'
      BY <1>5, <2>1, <2>3 DEF Kept, Idle
    <3>2. CASE UNCHANGED finished
      BY <1>1, <2>1, <3>1, <3>2
    <3>3. ASSUME NEW u, Completes(q, u), q.pc = "createaccount" => u = q.user
          PROVE  \A n \in Flows : flow[n].user # NoOne =>
                    \A f \in finished'[n] : f.user = flow[n].user
      BY <1>1, <2>2, <3>3 DEF Completes
    <3>4. \/ UNCHANGED finished
          \/ \E u : Completes(q, u) /\ (q.pc = "createaccount" => u = q.user)
      BY <1>13 DEF HandleLoginIntent, CreateAccount, At
    <3> QED BY <2>1, <3>1, <3>2, <3>3, <3>4
  <2>4. CASE req'[r] # Idle
    <3>1. UNCHANGED finished /\ q.pc = "login" /\ req'[r] = [q EXCEPT !.pc = "createuser"]
      BY <1>1, <1>13, <2>4 DEF HandleLoginIntent, CreateAccount, Finish, Goto, Become, At
    <3>2. req'[r].pc = "createuser" /\ req'[r].flow = q.flow
      BY <1>2, <3>1 DEF OAuthRequest
    <3>3. CallbacksKeepTheirUser'
      BY <1>5, <2>1, <2>2, <3>1, <3>2 DEF Kept
    <3> QED BY <1>1, <2>1, <3>1, <3>3
  <2> QED BY <2>3, <2>4
<1>14. ASSUME NEW r \in Slots,
              \/ ExchangeCode(r) \/ FetchUserProfile(r) \/ HandleLinkIntent(r)
              \/ \E u \in OAuthUsers : AutoCreateUser(r, u)
       PROVE  /\ CallbacksKeepTheirUser'
              /\ \A n \in Flows : flow'[n].user # NoOne =>
                    \A f \in finished'[n] : f.user = flow'[n].user
  BY <1>1, <1>11, <1>12, <1>14
<1> QED
  BY <1>6, <1>7, <1>8, <1>9, <1>10, <1>13, <1>14 DEF OAuthInv, OAuthNext

-----------------------------------------------------------------------------
(* Log-in through other providers: ways to log in *)

\* Who has more than one method, and no password, has one beside any identity.
LEMMA MoreThanOneMethod ==
    ASSUME NEW u, MayUnlink(u), NEW i PROVE AnotherMethod(u, i)
<1> SUFFICES ASSUME user[u] # "password", ListLinkedAccounts(u) \subseteq {i} PROVE FALSE
  BY DEF AnotherMethod
<1>1. ListLinkedAccounts(u) = {} \/ ListLinkedAccounts(u) = {i}
  OBVIOUS
<1>2. Cardinality(ListLinkedAccounts(u)) \in {0, 1}
  BY <1>1, FS_EmptySet, FS_Singleton
<1> QED BY <1>2 DEF MayUnlink, CountAuthMethods

\* A step that begins no unlinking and moves none, and takes no identity from anybody,
\* keeps what is said of methods.
LEMMA QuietMethods ==
    ASSUME UnlinkersAreChecked, AMethodRemains, excused \subseteq excused',
           \A u \in OAuthUsers :
                /\ ListLinkedAccounts(u) \subseteq ListLinkedAccounts(u)'
                /\ \/ user'[u] = user[u]
                   \/ /\ user[u] = "absent"
                      /\ \E s \in Slots : At(s, "createaccount")' /\ req'[s].user = u,
           \A s \in Slots :
                \/ req'[s] = req[s]
                \/ /\ req'[s].pc \notin {"unlinkfind", "unlinkcount", "unlink"}
                   /\ At(s, "createaccount") => \A u \in OAuthUsers :
                        req[s].user = u => u \in excused' \/ ListLinkedAccounts(u)' # {}
    PROVE  UnlinkersAreChecked' /\ AMethodRemains'
<1>1. ASSUME NEW s \in Slots, NEW u
      PROVE  /\ Unlinking(s, u)' => Unlinking(s, u) /\ req'[s] = req[s]
             /\ At(s, "unlinkcount")' => req'[s] = req[s]
  BY DEF Unlinking, At
<1>2. UnlinkersAreChecked'
  <2>1. ASSUME NEW r \in Slots, At(r, "unlinkcount")' PROVE req'[r].found.user = req'[r].user
    BY <1>1, <2>1 DEF UnlinkersAreChecked, At
  <2>2. ASSUME NEW u \in OAuthUsers, u \notin excused', NEW r \in Slots, Unlinking(r, u)'
        PROVE  \A s \in Others(r) : ~Unlinking(s, u)'
    BY <1>1, <2>2 DEF UnlinkersAreChecked, Others
  <2>3. ASSUME NEW u \in OAuthUsers, u \notin excused', NEW r \in Slots, Unlinking(r, u)',
               At(r, "unlink")'
        PROVE  user'[u] = "password" \/ ListLinkedAccounts(u)' \ {Identity(req'[r])} # {}
    <3>1. Unlinking(r, u) /\ req'[r] = req[r] /\ At(r, "unlink") /\ u \notin excused
      BY <1>1, <2>3 DEF At
    <3>2. AnotherMethod(u, Identity(req[r]))
      BY <3>1 DEF UnlinkersAreChecked
    <3> QED BY <3>1, <3>2 DEF AnotherMethod
  <2> QED BY <2>1, <2>2, <2>3 DEF UnlinkersAreChecked, AnotherMethod, Identity, Others
<1>3. ASSUME NEW u \in OAuthUsers
      PROVE  \/ user'[u] = "absent" \/ u \in excused'
             \/ user'[u] = "password" \/ ListLinkedAccounts(u)' # {}
             \/ \E r \in Slots : At(r, "createaccount")' /\ req'[r].user = u
  <2>1. CASE user'[u] # user[u]
    BY <2>1
  <2>2. CASE user'[u] = user[u]
    <3>1. CASE \E r \in Slots : At(r, "createaccount") /\ req[r].user = u
      <4>1. PICK r \in Slots : At(r, "createaccount") /\ req[r].user = u
        BY <3>1
      <4> QED BY <4>1 DEF At
    <3>2. CASE \/ user[u] = "absent" \/ u \in excused
               \/ user[u] = "password" \/ ListLinkedAccounts(u) # {}
      BY <2>2, <3>2
    <3> QED BY <3>1, <3>2 DEF AMethodRemains
  <2> QED BY <2>1, <2>2
<1> QED BY <1>2, <1>3 DEF AMethodRemains

\* Whoever unlinks keeps another method, and so does everybody else.
LEMMA UnlinkSteps ==
    ASSUME OAuthInv, NEW r \in Slots,
           \/ \E p \in Providers, u \in OAuthUsers : HandleUnlink(r, p, u)
           \/ FindLink(r) \/ CountMethods(r) \/ UnlinkAccount(r)
    PROVE  UnlinkersAreChecked' /\ AMethodRemains'
<1>1. /\ OAuthTypeOK /\ UnlinkersAreChecked /\ AMethodRemains
      /\ req \in [Slots -> OAuthRequest \cup {Idle}]
      /\ account \in [Providers \X Names -> Account \cup {NoAccount}]
  BY DEF OAuthInv, OAuthTypeOK, RequestsAre
<1>2. \A s \in Others(r) : req'[s] = req[s]
  BY <1>1, OneRequestMoves
<1>3. ASSUME UNCHANGED <<account, user>> PROVE \A u : ListLinkedAccounts(u)' = ListLinkedAccounts(u)
  BY <1>3 DEF ListLinkedAccounts
\* The request ends.
<1>4. ASSUME UNCHANGED <<account, user, excused>>, req'[r] = Idle, ~At(r, "createaccount")
      PROVE  UnlinkersAreChecked' /\ AMethodRemains'
  <2>1. \A s \in Slots :
            \/ req'[s] = req[s]
            \/ req'[s].pc \notin {"unlinkfind", "unlinkcount", "unlink"} /\ ~At(s, "createaccount")
    BY <1>2, <1>4 DEF Others, Idle
  <2> QED BY <1>1, <1>3, <1>4, <2>1, QuietMethods
\* It goes on unlinking for the same user, and a removal is checked.
<1>5. ASSUME UNCHANGED <<account, user, excused>>, ~At(r, "createaccount"),
             \A u \in OAuthUsers : Unlinking(r, u)' => Unlinking(r, u),
             At(r, "unlinkcount")' => req'[r].found.user = req'[r].user,
             At(r, "unlink")' => \A i : AnotherMethod(req'[r].found.user, i)
      PROVE  UnlinkersAreChecked' /\ AMethodRemains'
  <2>1. ASSUME NEW u \in OAuthUsers, NEW s \in Slots PROVE Unlinking(s, u)' => Unlinking(s, u)
    BY <1>2, <1>5 DEF Others, Unlinking, At
  <2>2. \A s \in Slots : At(s, "unlinkcount")' => req'[s].found.user = req'[s].user
    BY <1>1, <1>2, <1>5 DEF UnlinkersAreChecked, Others, At
  <2>3. ASSUME NEW u \in OAuthUsers, u \notin excused', NEW t \in Slots, Unlinking(t, u)'
        PROVE  \A s \in Others(t) : ~Unlinking(s, u)'
    BY <1>1, <1>5, <2>1, <2>3 DEF UnlinkersAreChecked, Others
  <2>4. ASSUME NEW u \in OAuthUsers, u \notin excused', NEW t \in Slots, Unlinking(t, u)',
               At(t, "unlink")'
        PROVE  user'[u] = "password" \/ ListLinkedAccounts(u)' \ {Identity(req'[t])} # {}
    <3>1. CASE t = r
      <4>1. req'[r].found.user = u
        BY <2>4, <3>1 DEF Unlinking, At
      <4>2. AnotherMethod(u, Identity(req'[t]))
        BY <1>5, <2>4, <3>1, <4>1
      <4> QED BY <1>3, <1>5, <4>2 DEF AnotherMethod
    <3>2. CASE t # r
      <4>1. req'[t] = req[t] /\ Unlinking(t, u) /\ At(t, "unlink") /\ u \notin excused
        BY <1>2, <1>5, <2>1, <2>4, <3>2 DEF Others, At
      <4>2. AnotherMethod(u, Identity(req[t]))
        BY <1>1, <4>1 DEF UnlinkersAreChecked
      <4> QED BY <1>3, <1>5, <4>1, <4>2 DEF AnotherMethod
    <3> QED BY <3>1, <3>2
  <2>5. UnlinkersAreChecked'
    BY <2>2, <2>3, <2>4 DEF UnlinkersAreChecked, AnotherMethod, Identity, Others
  <2>6. ASSUME NEW s \in Slots, At(s, "createaccount") PROVE req'[s] = req[s]
    BY <1>2, <1>5, <2>6 DEF Others
  <2>7. AMethodRemains'
    BY <1>1, <1>3, <1>5, <2>6 DEF AMethodRemains, At
  <2> QED BY <2>5, <2>7
<1>6. ASSUME NEW p \in Providers, NEW u \in OAuthUsers, HandleUnlink(r, p, u)
      PROVE  UnlinkersAreChecked' /\ AMethodRemains'
  <2>1. /\ At(r, "idle") /\ req'[r].pc = "unlinkfind" /\ req'[r].user = u
        /\ UNCHANGED <<account, user>> /\ excused \subseteq excused'
        /\ (\E s \in Others(r) : Unlinking(s, u)) => u \in excused'
    BY <1>1, <1>6 DEF HandleUnlink, Begin
  <2>2. ASSUME NEW v, NEW s \in Slots, Unlinking(s, v)'
        PROVE  (s = r /\ v = u) \/ (s # r /\ Unlinking(s, v) /\ req'[s] = req[s])
    BY <1>2, <2>1, <2>2 DEF Others, Unlinking, At
  <2>3. \A s \in Slots : At(s, "unlinkcount")' => req'[s].found.user = req'[s].user
    BY <1>1, <1>2, <2>1 DEF UnlinkersAreChecked, Others, At
  <2>4. ASSUME NEW v \in OAuthUsers, v \notin excused', NEW t \in Slots, Unlinking(t, v)'
        PROVE  \A s \in Others(t) : ~Unlinking(s, v)'
    <3>1. v \notin excused
      BY <2>1, <2>4
    <3> QED BY <1>1, <2>1, <2>2, <2>4, <3>1 DEF UnlinkersAreChecked, Others
  <2>5. ASSUME NEW v \in OAuthUsers, v \notin excused', NEW t \in Slots, Unlinking(t, v)',
               At(t, "unlink")'
        PROVE  user'[v] = "password" \/ ListLinkedAccounts(v)' \ {Identity(req'[t])} # {}
    <3>1. t # r /\ Unlinking(t, v) /\ req'[t] = req[t] /\ At(t, "unlink") /\ v \notin excused
      BY <2>1, <2>2, <2>5 DEF At
    <3>2. AnotherMethod(v, Identity(req[t]))
      BY <1>1, <3>1 DEF UnlinkersAreChecked
    <3> QED BY <1>3, <2>1, <3>1, <3>2 DEF AnotherMethod
  <2>6. UnlinkersAreChecked'
    BY <2>3, <2>4, <2>5 DEF UnlinkersAreChecked, AnotherMethod, Identity, Others
  <2>7. ASSUME NEW s \in Slots, At(s, "createaccount") PROVE req'[s] = req[s]
    BY <1>2, <2>1, <2>7 DEF Others, At
  <2>8. AMethodRemains'
    BY <1>1, <1>3, <2>1, <2>7 DEF AMethodRemains, At
  <2> QED BY <2>6, <2>8
<1>7. CASE FindLink(r)
  <2>1. At(r, "unlinkfind") /\ UNCHANGED <<account, user, excused>>
    BY <1>7 DEF FindLink, oauthVars
  <2>2. CASE Finish(r)
    BY <1>1, <1>4, <2>1, <2>2 DEF Finish, Become, At
  <2>3. ASSUME NEW x \in Linked(req[r].user, req[r].provider),
               Become(r, [pc |-> "unlinkcount", provider |-> req[r].provider,
                          user |-> req[r].user, name |-> x,
                          found |-> account[<<req[r].provider, x>>]])
        PROVE  UnlinkersAreChecked' /\ AMethodRemains'
    <3>1. /\ req'[r].pc = "unlinkcount" /\ req'[r].user = req[r].user
          /\ req'[r].found.user = req[r].user
      BY <1>1, <2>3 DEF Become, Linked
    <3> QED BY <1>5, <2>1, <3>1 DEF Unlinking, At
  <2> QED BY <1>7, <2>2, <2>3 DEF FindLink
<1>8. CASE CountMethods(r)
  <2>1. /\ At(r, "unlinkcount") /\ UNCHANGED <<account, user, excused>>
        /\ req[r].found.user = req[r].user
    BY <1>1, <1>8 DEF CountMethods, oauthVars, UnlinkersAreChecked
  <2>2. CASE ~MayUnlink(req[r].user)
    BY <1>1, <1>4, <1>8, <2>1, <2>2 DEF CountMethods, Finish, Become, At
  <2>3. CASE MayUnlink(req[r].user)
    <3>1. req'[r].pc = "unlink" /\ req'[r].found = req[r].found
      BY <1>1, <1>8, <2>3 DEF CountMethods, Become
    <3>2. \A i : AnotherMethod(req[r].user, i)
      BY <2>3, MoreThanOneMethod
    <3> QED BY <1>5, <2>1, <3>1, <3>2 DEF Unlinking, At
  <2> QED BY <2>2, <2>3
<1>9. CASE UnlinkAccount(r)
  <2> DEFINE i == Identity(req[r])
             w == req[r].found.user
  <2>1. /\ At(r, "unlink") /\ req'[r] = Idle /\ UNCHANGED <<user, excused>>
        /\ w \in OAuthUsers /\ i \in Providers \X Names
    BY <1>1, <1>9, OAuthFields DEF UnlinkAccount, Finish, Become, At, Identity, Account
  <2>2. CASE account[i] # req[r].found
    BY <1>4, <1>9, <2>1, <2>2 DEF UnlinkAccount, At
  <2>3. CASE account[i] = req[r].found
    <3>1. account' = [account EXCEPT ![i] = NoAccount]
      BY <1>9, <2>3 DEF UnlinkAccount
    <3>2. ASSUME NEW v PROVE ListLinkedAccounts(v) \ {i} \subseteq ListLinkedAccounts(v)'
      BY <1>1, <3>1 DEF ListLinkedAccounts
    <3>3. ASSUME NEW v \in OAuthUsers, v # w
          PROVE  ListLinkedAccounts(v) \subseteq ListLinkedAccounts(v)'
      BY <1>1, <2>3, <3>1, <3>3 DEF ListLinkedAccounts
    <3>4. ASSUME NEW v, NEW s \in Slots, Unlinking(s, v)'
          PROVE  s # r /\ Unlinking(s, v) /\ req'[s] = req[s]
      BY <1>2, <2>1, <3>4 DEF Others, Unlinking, At, Idle
    <3>5. Unlinking(r, w)
      BY <2>1 DEF Unlinking
    <3>6. ASSUME NEW v \in OAuthUsers, v \notin excused, NEW s \in Slots, Unlinking(s, v)'
          PROVE  v # w
      BY <1>1, <3>4, <3>5, <3>6 DEF UnlinkersAreChecked, Others
    <3>7. \A s \in Slots : At(s, "unlinkcount")' => req'[s].found.user = req'[s].user
      BY <1>1, <1>2, <2>1 DEF UnlinkersAreChecked, Others, At, Idle
    <3>8. ASSUME NEW v \in OAuthUsers, v \notin excused', NEW t \in Slots, Unlinking(t, v)'
          PROVE  \A s \in Others(t) : ~Unlinking(s, v)'
      BY <1>1, <2>1, <3>4, <3>8 DEF UnlinkersAreChecked, Others
    <3>9. ASSUME NEW v \in OAuthUsers, v \notin excused', NEW t \in Slots, Unlinking(t, v)',
                 At(t, "unlink")'
          PROVE  user'[v] = "password" \/ ListLinkedAccounts(v)' \ {Identity(req'[t])} # {}
      <4>1. v # w /\ Unlinking(t, v) /\ req'[t] = req[t] /\ At(t, "unlink") /\ v \notin excused
        BY <2>1, <3>4, <3>6, <3>9 DEF At
      <4>2. AnotherMethod(v, Identity(req[t]))
        BY <1>1, <4>1 DEF UnlinkersAreChecked
      <4> QED BY <2>1, <3>3, <4>1, <4>2 DEF AnotherMethod
    <3>10. UnlinkersAreChecked'
      BY <3>7, <3>8, <3>9 DEF UnlinkersAreChecked, AnotherMethod, Identity, Others
    <3>11. ASSUME NEW v \in OAuthUsers
           PROVE  \/ user'[v] = "absent" \/ v \in excused'
                  \/ user'[v] = "password" \/ ListLinkedAccounts(v)' # {}
                  \/ \E s \in Slots : At(s, "createaccount")' /\ req'[s].user = v
      <4>1. ASSUME NEW s \in Slots, At(s, "createaccount") PROVE req'[s] = req[s]
        BY <1>2, <2>1, <4>1 DEF Others, At
      <4>2. CASE v # w
        BY <1>1, <2>1, <3>3, <4>1, <4>2 DEF AMethodRemains, At
      <4>3. CASE v = w /\ v \notin excused
        <5>1. AnotherMethod(w, i)
          BY <1>1, <2>1, <3>5, <4>3 DEF UnlinkersAreChecked
        <5> QED BY <2>1, <3>2, <4>3, <5>1 DEF AnotherMethod
      <4> QED BY <2>1, <4>2, <4>3
    <3> QED BY <3>10, <3>11 DEF AMethodRemains
  <2> QED BY <2>2, <2>3
<1> QED BY <1>6, <1>7, <1>8, <1>9

\* The other steps take no identity away, and who is left behind by a creation is excused.
LEMMA MethodSteps ==
    ASSUME OAuthInv, OAuthNext
    PROVE  UnlinkersAreChecked' /\ AMethodRemains'
<1>1. /\ OAuthTypeOK /\ UnlinkersAreChecked /\ AMethodRemains /\ CallbacksKeepTheirUser
      /\ req \in [Slots -> OAuthRequest \cup {Idle}]
      /\ account \in [Providers \X Names -> Account \cup {NoAccount}]
      /\ user \in [OAuthUsers -> {"absent", "oauth", "password"}]
      /\ excused \subseteq OAuthUsers
  BY DEF OAuthInv, OAuthTypeOK, RequestsAre
<1> DEFINE Stays(s) ==
        \/ req'[s] = req[s]
        \/ /\ req'[s].pc \notin {"unlinkfind", "unlinkcount", "unlink"}
           /\ At(s, "createaccount") => \A u \in OAuthUsers :
                req[s].user = u => u \in excused' \/ ListLinkedAccounts(u)' # {}
<1>2. ASSUME UNCHANGED <<account, user>>, excused \subseteq excused', \A s \in Slots : Stays(s)
      PROVE  UnlinkersAreChecked' /\ AMethodRemains'
  <2>1. \A u : ListLinkedAccounts(u)' = ListLinkedAccounts(u)
    BY <1>2 DEF ListLinkedAccounts
  <2> QED BY <1>1, <1>2, <2>1, QuietMethods
<1>3. ASSUME NEW r \in Slots, \A s \in Others(r) : req'[s] = req[s], Stays(r)
      PROVE  \A s \in Slots : Stays(s)
  BY <1>3 DEF Others
<1> HIDE DEF Stays
<1>4. CASE \/ \E n \in Flows : StateExpires(n) \/ \E x \in Names : Authorize(n, x)
           \/ \E p \in Providers : HandleCreateProvider(p) \/ HandleDeleteProvider(p)
  <2>1. UNCHANGED <<account, user, excused, req>>
    BY <1>4
    DEF StateExpires, Authorize, HandleCreateProvider, HandleDeleteProvider, Serve, requestVars
  <2> QED BY <1>2, <2>1 DEF Stays
<1>5. ASSUME NEW r \in Slots, NEW p \in Providers,
             \/ HandleInitiateLogin(r, p) \/ HandleUpdateProvider(r, p)
             \/ \E u \in OAuthUsers : HandleInitiateLink(r, p, u)
             \/ \E n \in Flows, c \in codes : HandleCallback(r, p, n, c)
      PROVE  UnlinkersAreChecked' /\ AMethodRemains'
  <2>1. UNCHANGED <<account, user, excused>> /\ \A s \in Others(r) : req'[s] = req[s]
    BY <1>1, <1>5, OneRequestMoves
    DEF HandleInitiateLogin, HandleUpdateProvider, HandleInitiateLink, HandleCallback, oauthVars
  <2>2. \E q : Begin(r, q) /\ q.pc \in {"initiate", "updateprovider", "getstate"}
    <3>1. CASE HandleInitiateLogin(r, p) \/ \E u \in OAuthUsers : HandleInitiateLink(r, p, u)
      <4>1. PICK u : Begin(r, [pc |-> "initiate", id |-> begun + 1, provider |-> p, user |-> u])
        BY <3>1 DEF HandleInitiateLogin, HandleInitiateLink
      <4> QED BY <4>1
    <3>2. CASE HandleUpdateProvider(r, p)
      BY <3>2 DEF HandleUpdateProvider
    <3>3. ASSUME NEW n \in Flows, NEW c \in codes, HandleCallback(r, p, n, c)
          PROVE  \E q : Begin(r, q) /\ q.pc = "getstate"
      BY <3>3 DEF HandleCallback
    <3> QED BY <1>5, <3>1, <3>2, <3>3
  <2>3. Stays(r)
    BY <1>1, <2>2 DEF Stays, Begin, At
  <2> QED BY <1>2, <1>3, <2>1, <2>3
<1>6. ASSUME NEW r \in Slots,
             \/ InitiateLogin(r) \/ GetState(r) \/ DelState(r) \/ DelStateFails(r)
             \/ ExchangeCode(r) \/ FetchUserProfile(r) \/ HandleLoginIntent(r)
             \/ HandleLinkIntent(r) \/ UpdateProvider(r) \/ SaveProvider(r)
      PROVE  UnlinkersAreChecked' /\ AMethodRemains'
  <2>1. /\ UNCHANGED <<account, user, excused>> /\ \A s \in Others(r) : req'[s] = req[s]
        /\ ~At(r, "createaccount")
    BY <1>1, <1>6, OneRequestMoves
    DEF InitiateLogin, GetState, DelState, DelStateFails, ExchangeCode, FetchUserProfile,
        HandleLoginIntent, HandleLinkIntent, UpdateProvider, SaveProvider, oauthVars, At
  <2>2. /\ req[r] \in OAuthRequest
        /\ req[r].pc \notin {"unlinkfind", "unlinkcount", "unlink"}
    BY <1>1, <1>6, OAuthFields
    DEF InitiateLogin, GetState, DelState, DelStateFails, ExchangeCode, FetchUserProfile,
        HandleLoginIntent, HandleLinkIntent, UpdateProvider, SaveProvider, At
  <2>3. ASSUME NEW q, Become(r, q) \/ Stumble(r, q),
               q.pc \notin {"unlinkfind", "unlinkcount", "unlink"}
        PROVE  Stays(r)
    BY <1>1, <2>1, <2>3 DEF Become, Stumble, Stays
  <2>4. ASSUME Finish(r) PROVE Stays(r)
    BY <2>3, <2>4 DEF Finish, Idle
  <2>5. ASSUME NEW l \in {"delstate", "exchange", "login", "createuser", "link", "createaccount"}
        PROVE  [req[r] EXCEPT !.pc = l].pc = l
    BY <2>2 DEF OAuthRequest
  <2>6. ASSUME NEW l \in {"delstate", "login", "createuser", "link", "createaccount"},
               Goto(r, l)
        PROVE  Stays(r)
    BY <2>3, <2>5, <2>6 DEF Goto
  <2> SUFFICES Stays(r)
    BY <1>2, <1>3, <2>1
  <2>7. CASE InitiateLogin(r) \/ SaveProvider(r)
    BY <2>4, <2>7 DEF InitiateLogin, SaveProvider
  <2>8. CASE GetState(r) \/ FetchUserProfile(r) \/ HandleLoginIntent(r) \/ HandleLinkIntent(r)
    <3>1. \/ Finish(r)
          \/ \E l \in {"delstate", "login", "createuser", "link", "createaccount"} : Goto(r, l)
      BY <2>8 DEF GetState, FetchUserProfile, HandleLoginIntent, HandleLinkIntent
    <3> QED BY <2>4, <2>6, <3>1
  <2>9. CASE DelState(r) \/ DelStateFails(r)
    <3>1. [req[r] EXCEPT !.pc = "exchange"].pc = "exchange" /\ Idle.pc = "idle"
      BY <2>5 DEF Idle
    <3>2. AfterState(req[r]).pc \in {"idle", "exchange"}
      BY <3>1 DEF AfterState
    <3> QED BY <2>3, <2>9, <3>2 DEF DelState, DelStateFails
  <2>10. CASE ExchangeCode(r)
    BY <2>3, <2>4, <2>10 DEF ExchangeCode
  <2>11. CASE UpdateProvider(r)
    <3>1. \A row \in {"enabled", "disabled"} :
            [req[r] EXCEPT !.pc = "saveprovider", !.row = row].pc = "saveprovider"
      BY <2>2 DEF OAuthRequest
    <3> QED BY <2>3, <2>4, <2>11, <3>1 DEF UpdateProvider
  <2> QED BY <1>6, <2>7, <2>8, <2>9, <2>10, <2>11
<1>7. ASSUME NEW r \in Slots, AbortOAuth(r)
      PROVE  UnlinkersAreChecked' /\ AMethodRemains'
  <2>1. /\ UNCHANGED <<account, user>> /\ excused \subseteq excused' /\ req'[r] = Idle
        /\ \A s \in Others(r) : req'[s] = req[s]
        /\ At(r, "createaccount") => req[r].user \in excused'
    BY <1>1, <1>7, OneRequestMoves DEF AbortOAuth, Abort, Stumble
  <2>2. Stays(r)
    BY <2>1 DEF Stays, Idle
  <2> QED BY <1>2, <1>3, <2>1, <2>2
<1>8. ASSUME NEW r \in Slots, NEW u \in OAuthUsers, AutoCreateUser(r, u)
      PROVE  UnlinkersAreChecked' /\ AMethodRemains'
  <2>1. /\ UNCHANGED <<account, excused>> /\ \A s \in Others(r) : req'[s] = req[s]
        /\ At(r, "createuser") /\ user[u] = "absent"
        /\ req'[r] = [req[r] EXCEPT !.pc = "createaccount", !.user = u]
    BY <1>1, <1>8, OneRequestMoves DEF AutoCreateUser, Become
  <2>2. req'[r].pc = "createaccount" /\ req'[r].user = u
    <3>1. req[r] \in OAuthRequest
      BY <1>1, <2>1, OAuthFields DEF At
    <3> QED BY <2>1, <3>1 DEF OAuthRequest, At
  <2>3. \A v \in OAuthUsers : v # u => user'[v] = user[v]
    BY <1>1, <1>8 DEF AutoCreateUser
  <2>4. \A v : ListLinkedAccounts(v)' = ListLinkedAccounts(v)
    BY <2>1 DEF ListLinkedAccounts
  <2>5. Stays(r)
    BY <2>1, <2>2 DEF Stays, At
  <2>6. \A v \in OAuthUsers :
            \/ user'[v] = user[v]
            \/ /\ user[v] = "absent"
               /\ \E s \in Slots : At(s, "createaccount")' /\ req'[s].user = v
    BY <2>1, <2>2, <2>3 DEF At
  <2>7. \A s \in Slots : Stays(s)
    BY <1>3, <2>1, <2>5
  <2> QED BY <1>1, <2>1, <2>4, <2>6, <2>7, QuietMethods DEF Stays
<1>9. ASSUME NEW r \in Slots, CreateAccount(r)
      PROVE  UnlinkersAreChecked' /\ AMethodRemains'
  <2> DEFINE q == req[r]
  <2>1. /\ UNCHANGED user /\ \A s \in Others(r) : req'[s] = req[s]
        /\ req'[r] = Idle /\ excused \subseteq excused'
    BY <1>1, <1>9, OneRequestMoves DEF CreateAccount, Finish, Become
  <2>2. Identity(q) \in Providers \X Names
    BY <1>1, <1>9, OAuthFields DEF CreateAccount, At, Identity
  <2>3. ASSUME NEW v \in OAuthUsers
        PROVE  ListLinkedAccounts(v) \subseteq ListLinkedAccounts(v)'
    BY <1>1, <1>9, <2>2, NoOneAssumption DEF CreateAccount, ListLinkedAccounts, NoAccount
  <2>4. ASSUME NEW v \in OAuthUsers, q.user = v
        PROVE  v \in excused' \/ ListLinkedAccounts(v)' # {}
    <3>1. CASE account' = [account EXCEPT ![Identity(q)] = [user |-> q.user, id |-> q.id]]
      <4>1. Identity(q) \in ListLinkedAccounts(v)'
        BY <1>1, <2>2, <2>4, <3>1 DEF ListLinkedAccounts
      <4> QED BY <4>1
    <3>2. \/ q.user \in excused'
          \/ account' = [account EXCEPT ![Identity(q)] = [user |-> q.user, id |-> q.id]]
      BY <1>9 DEF CreateAccount
    <3> QED BY <2>4, <3>1, <3>2
  <2>5. Stays(r)
    BY <2>1, <2>4 DEF Stays, Idle
  <2>6. \A s \in Slots : Stays(s)
    BY <1>3, <2>1, <2>5
  <2> QED BY <1>1, <2>1, <2>3, <2>6, QuietMethods DEF Stays
<1>10. ASSUME NEW r \in Slots,
              \/ \E p \in Providers, u \in OAuthUsers : HandleUnlink(r, p, u)
              \/ FindLink(r) \/ CountMethods(r) \/ UnlinkAccount(r)
       PROVE  UnlinkersAreChecked' /\ AMethodRemains'
  BY <1>10, UnlinkSteps
<1> QED BY <1>4, <1>5, <1>6, <1>7, <1>8, <1>9, <1>10 DEF OAuthNext

\* Initially nothing is in progress, and who is there has a method.
LEMMA OAuthInvHoldsInitially == OAuthInit /\ RequestsInit => OAuthInv
<1> SUFFICES ASSUME OAuthInit, RequestsInit PROVE OAuthInv
  OBVIOUS
<1>1. /\ req = [r \in Slots |-> Idle] /\ begun = 0 /\ faults = 0
      /\ \A r \in Slots : req[r].pc = "idle"
      /\ \A n \in Flows : n > 0
      /\ MaxRequests \in Nat /\ MaxFaults \in Nat /\ MaxCodes \in Nat
  BY RequestBoundsAssumption, NoOneAssumption DEF RequestsInit, Idle, Flows
<1>2. OAuthTypeOK
  <2>1. [user : OAuthUsers, id : {0}] \subseteq Account
    BY <1>1 DEF Account
  <2>2. account \in [Providers \X Names -> Account \cup {NoAccount}]
    BY <2>1 DEF OAuthInit
  <2>3. RequestsAre(OAuthRequest)
    BY <1>1 DEF RequestsAre
  <2> QED BY <1>1, <2>2, <2>3 DEF OAuthTypeOK, OAuthInit
<1>3. (\A n \in Flows : Reading(n) = {} /\ Past(n) = {} /\ finished[n] = {} /\ flow[n] = NoFlow)
      /\ states = {} /\ NoFlow.user = NoOne
  BY <1>1 DEF OAuthInit, Reading, Past, At, NoFlow
<1>4. \A n \in Flows : FlowIsTakenOnce(n)
  BY <1>3 DEF FlowIsTakenOnce
<1>5. FlowsHaveBegun /\ CallbacksKeepTheirUser /\ UnlinkersAreChecked
  BY <1>1, <1>3 DEF FlowsHaveBegun, CallbacksKeepTheirUser, UnlinkersAreChecked, Unlinking, At
<1>6. FlowsStayApart
  <2>1. \A n \in Flows : Cardinality(finished[n]) <= 1
    BY <1>3, FS_EmptySet
  <2> QED BY <1>3, <2>1 DEF FlowsStayApart
<1>7. AMethodRemains
  <2>1. ASSUME NEW u \in OAuthUsers, user[u] # "absent", user[u] # "password"
        PROVE  ListLinkedAccounts(u) # {}
    <3>1. CountAuthMethods(u) # 0
      BY <2>1 DEF OAuthInit
    <3>2. CASE ListLinkedAccounts(u) = {}
      BY <2>1, <3>1, <3>2, FS_EmptySet DEF CountAuthMethods
    <3> QED BY <3>2
  <2> QED BY <2>1 DEF AMethodRemains
<1> QED BY <1>2, <1>4, <1>5, <1>6, <1>7 DEF OAuthInv

\* Every step keeps it.
LEMMA OAuthInvIsKept ==
    OAuthInv /\ [OAuthNext]_<<oauthVars, requestVars>> => OAuthInv'
<1>1. ASSUME OAuthInv, OAuthNext PROVE OAuthInv'
  <2>1. OAuthTypeOK'
    BY <1>1, OAuthTypes DEF OAuthInv
  <2>2. (\A n \in Flows : FlowIsTakenOnce(n)') /\ FlowsHaveBegun'
    BY <1>1, FlowSteps
  <2>3. /\ CallbacksKeepTheirUser'
        /\ \A n \in Flows : flow'[n].user # NoOne =>
            \A f \in finished'[n] : f.user = flow'[n].user
    BY <1>1, CallbackSteps
  <2>4. FlowsStayApart'
    <3>1. ASSUME NEW n \in Flows PROVE n \in shared' \/ Cardinality(finished'[n]) <= 1
      BY <2>2, OneMember DEF FlowIsTakenOnce
    <3> QED BY <2>3, <3>1 DEF FlowsStayApart
  <2>5. UnlinkersAreChecked' /\ AMethodRemains'
    BY <1>1, MethodSteps
  <2> QED BY <2>1, <2>2, <2>3, <2>4, <2>5 DEF OAuthInv
<1>2. ASSUME OAuthInv, UNCHANGED <<oauthVars, requestVars>> PROVE OAuthInv'
  <2>1. OAuthTypeOK'
    BY <1>2 DEF OAuthInv, OAuthTypeOK, RequestsAre, oauthVars, requestVars
  <2>2. (\A n \in Flows : FlowIsTakenOnce(n)') /\ FlowsHaveBegun'
    <3>1. \A n \in Flows : Reading(n)' = Reading(n) /\ Past(n)' = Past(n)
      BY <1>2 DEF Reading, Past, At, requestVars
    <3>2. \A n \in Flows : FlowIsTakenOnce(n)'
      BY <1>2, <3>1 DEF OAuthInv, FlowIsTakenOnce, oauthVars
    <3> QED BY <1>2, <3>1, <3>2 DEF OAuthInv, FlowsHaveBegun, At, oauthVars, requestVars
  <2>3. CallbacksKeepTheirUser' /\ FlowsStayApart'
    BY <1>2 DEF OAuthInv, CallbacksKeepTheirUser, FlowsStayApart, At, oauthVars, requestVars
  <2>4. UnlinkersAreChecked' /\ AMethodRemains'
    BY <1>2, QuietMethods
    DEF OAuthInv, ListLinkedAccounts, oauthVars, requestVars
  <2> QED BY <2>1, <2>2, <2>3, <2>4 DEF OAuthInv
<1> QED BY <1>1, <1>2

\* ProvidersLoginSafely: unless two callbacks have read its entry, a flow is completed once,
\* for the user who began it, and unless he unlinks twice at a time, a user keeps a way to log
\* in: service/oauth_state.go ValidateState, service/oauth_login.go UnlinkAccount.
THEOREM ProvidersAlwaysLoginSafely == OAuthSpec => []ProvidersLoginSafely
<1>1. OAuthInit /\ RequestsInit => OAuthInv
  BY OAuthInvHoldsInitially
<1>2. OAuthInv /\ [OAuthNext]_<<oauthVars, requestVars>> => OAuthInv'
  BY OAuthInvIsKept
<1>3. OAuthInv => ProvidersLoginSafely
  BY DEF OAuthInv, ProvidersLoginSafely
<1> QED BY <1>1, <1>2, <1>3, PTL DEF OAuthSpec

-----------------------------------------------------------------------------
(* Users and their keys *)

\* What a request carries, and what it goes on with.
LEMMA KeyRequestsAreTyped ==
    ASSUME NEW q \in KeyRequest \cup {Idle}
    PROVE  /\ q.pc \notin {"idle", "revokefind", "revokekey"} => q.user \in KeyUsers
           /\ q.pc \in {"revokefind", "revokekey"} => q.key \in Keys /\ q.user \in KeyUsers
           /\ q.pc = "findemail" =>
                /\ [q EXCEPT !.pc = "insertuser"] \in KeyRequest
                /\ [q EXCEPT !.pc = "insertuser"].pc = "insertuser"
           /\ q.pc = "createkey" =>
                /\ [q EXCEPT !.pc = "insertkey"] \in KeyRequest
                /\ [q EXCEPT !.pc = "insertkey"].pc = "insertkey"
                /\ [q EXCEPT !.pc = "insertkey"].user = q.user
           /\ q.pc = "revokefind" =>
                /\ [q EXCEPT !.pc = "revokekey"] \in KeyRequest
                /\ [q EXCEPT !.pc = "revokekey"].pc = "revokekey"
<1>1. Idle.pc = "idle" /\ Idle \in KeyRequest \cup {Idle}
  BY DEF Idle
<1>2. CASE q \in [pc : {"findemail", "insertuser"}, user : KeyUsers, self : BOOLEAN]
  BY <1>2 DEF KeyRequest
<1>3. CASE q \in [pc : {"createkey", "insertkey"}, user : KeyUsers]
  BY <1>3 DEF KeyRequest
<1>4. CASE q \in [pc : {"revokefind", "revokekey"}, key : Keys, user : KeyUsers]
  BY <1>4 DEF KeyRequest
<1>5. CASE q = Idle
  BY <1>1, <1>5
<1> QED
  BY <1>2, <1>3, <1>4, <1>5 DEF KeyRequest

\* What becomes of the row of a key.
LEMMA KeyRowsAreTyped ==
    ASSUME NEW row \in KeyRow
    PROVE  /\ \A u \in KeyUsers, n \in 0..MaxRequests :
                LET x == [row EXCEPT !.owner = u, !.salt = n]
                IN  x \in KeyRow /\ x.owner = u /\ x.salt = n /\ x.revokedAt = row.revokedAt
           /\ \A n \in 0..MaxRequests :
                LET x == [row EXCEPT !.revokedAt = n]
                IN  x \in KeyRow /\ x.owner = row.owner /\ x.salt = row.salt /\ x.revokedAt = n
           /\ LET x == [row EXCEPT !.expired = TRUE]
              IN  x \in KeyRow /\ x.owner = row.owner /\ x.salt = row.salt
                  /\ x.revokedAt = row.revokedAt
<1>1. ASSUME NEW u \in KeyUsers, NEW n \in 0..MaxRequests
      PROVE  LET x == [row EXCEPT !.owner = u, !.salt = n]
             IN  x \in KeyRow /\ x.owner = u /\ x.salt = n /\ x.revokedAt = row.revokedAt
  BY DEF KeyRow
<1>2. ASSUME NEW n \in 0..MaxRequests
      PROVE  LET x == [row EXCEPT !.revokedAt = n]
             IN  x \in KeyRow /\ x.owner = row.owner /\ x.salt = row.salt /\ x.revokedAt = n
  BY DEF KeyRow
<1>3. LET x == [row EXCEPT !.expired = TRUE]
      IN  x \in KeyRow /\ x.owner = row.owner /\ x.salt = row.salt
          /\ x.revokedAt = row.revokedAt
  BY DEF KeyRow
<1> QED
  BY <1>1, <1>2, <1>3

\* What a step does to the keys: one is inserted for a user that was created, revoked for the
\* first time, or expires.
KeyInserted(k, u) ==
    /\ key[k] = NoKey /\ u \in KeyUsers /\ address[u] # "absent"
    /\ key' = [key EXCEPT ![k].owner = u, ![k].salt = begun]
    /\ revoked' = revoked
KeyRevoked(k) ==
    /\ ~IsRevoked(k)
    /\ key' = [key EXCEPT ![k].revokedAt = begun]
    /\ revoked' = [revoked EXCEPT ![k] = @ + 1]
KeyAged(k) ==
    /\ key' = [key EXCEPT ![k].expired = TRUE]
    /\ revoked' = revoked

\* What it does to the users: one is created, deleted, or a goroutine ends.
UserCreated(u) ==
    /\ address[u] = "absent"
    /\ address' = [address EXCEPT ![u] = "live"]
    /\ created' = [created EXCEPT ![u] = @ + 1]
    /\ Register(u) \/ UNCHANGED <<registered, goroutines>>
    /\ UNCHANGED <<given, faults>>
UserDeleted(u) ==
    /\ address[u] = "live"
    /\ address' = [address EXCEPT ![u] = "deleted"]
    /\ UNCHANGED <<created, registered, goroutines, given, faults>>
WorkEnds(x) ==
    /\ x \in goroutines
    /\ goroutines' = goroutines \ {x}
    /\ given' = given \cup {x} \/ (faults \in Nat /\ faults' = faults + 1 /\ given' = given)
    /\ UNCHANGED <<address, created, registered>>

\* What requests do: one begins, goes on, or ends.
KeyRequestsGoOn ==
    /\ begun' \in {begun, begun + 1} /\ begun' \in 0..MaxRequests
    /\ faults' \in {faults, faults + 1} /\ faults' \in 0..MaxFaults
    /\ \/ req' = req
       \/ \E r \in Slots, q \in KeyRequest \cup {Idle} :
            /\ req' = [req EXCEPT ![r] = q]
            /\ At(r, "idle") => begun' = begun + 1
            /\ q.pc = "insertkey" => address[q.user] # "absent" /\ address' = address

\* The users and the keys a step may leave alone.
KeyUsersStay == UNCHANGED userVars
KeysStay == UNCHANGED apiKeyVars

\* A step: its requests, and what it does to the users or to the keys.
KeyStep ==
    /\ KeyRequestsGoOn
    /\ \/ UNCHANGED keyVars
       \/ KeyUsersStay /\ begun >= 1 /\ begun' = begun
            /\ \E k \in Keys : (\E u \in KeyUsers : KeyInserted(k, u)) \/ KeyRevoked(k)
       \/ KeyUsersStay /\ \E k \in Keys : KeyAged(k)
       \/ KeysStay /\ begun' >= 1 /\ \E u \in KeyUsers : UserCreated(u) \/ UserDeleted(u)
       \/ KeysStay /\ \E x \in goroutines : WorkEnds(x)


\* Every step of the handlers, the goroutines and time is one of these.
LEMMA KeySteps ==
    ASSUME UsersAndKeysInv, UsersAndKeysNext
    PROVE  KeyStep
<1>0. /\ \A r \in Slots : req[r] \in KeyRequest \cup {Idle}
      /\ begun \in 0..MaxRequests /\ faults \in 0..MaxFaults
      /\ MaxRequests \in Nat /\ MaxFaults \in Nat
      /\ Idle \in KeyRequest \cup {Idle} /\ Idle.pc = "idle"
  BY RequestBoundsAssumption DEF UsersAndKeysInv, UsersAndKeysTypeOK, RequestsAre, Idle
<1>1. ASSUME NEW r \in Slots, ~At(r, "idle") PROVE begun >= 1
  BY <1>1 DEF UsersAndKeysInv, SaltsAreOld
<1>2. ASSUME NEW r \in Slots, NEW q \in KeyRequest \cup {Idle}, Become(r, q), ~At(r, "idle"),
             q.pc = "insertkey" => address[q.user] # "absent" /\ address' = address
      PROVE  KeyRequestsGoOn
  BY <1>2, <1>0 DEF Become, KeyRequestsGoOn
<1>3. ASSUME NEW r \in Slots, NEW q \in KeyRequest, Begin(r, q), q.pc # "insertkey"
      PROVE  KeyRequestsGoOn
  <2>1. /\ begun' \in {begun, begun + 1} /\ begun' \in 0..MaxRequests /\ faults' = faults
        /\ begun' = begun + 1 /\ req' = [req EXCEPT ![r] = q]
    BY <1>3, <1>0 DEF Begin
  <2> QED BY <1>3, <1>0, <2>1 DEF KeyRequestsGoOn
<1>4. ASSUME NEW r \in Slots, NEW u \in KeyUsers, HandleRegister(r, u) PROVE KeyStep
  <2>1. LET q == [pc |-> "findemail", user |-> u, self |-> TRUE]
        IN  q \in KeyRequest /\ q.pc = "findemail"
    BY DEF KeyRequest
  <2> QED BY <1>3, <1>4, <2>1 DEF HandleRegister, KeyStep
<1>5. ASSUME NEW r \in Slots, NEW u \in KeyUsers, HandleCreateUser(r, u) PROVE KeyStep
  <2>1. LET q == [pc |-> "findemail", user |-> u, self |-> FALSE]
        IN  q \in KeyRequest /\ q.pc = "findemail"
    BY DEF KeyRequest
  <2> QED BY <1>3, <1>5, <2>1 DEF HandleCreateUser, KeyStep
<1>6. ASSUME NEW r \in Slots, NEW u \in KeyUsers, HandleCreateKey(r, u) PROVE KeyStep
  <2>1. LET q == [pc |-> "createkey", user |-> u] IN q \in KeyRequest /\ q.pc = "createkey"
    BY DEF KeyRequest
  <2> QED BY <1>3, <1>6, <2>1 DEF HandleCreateKey, KeyStep
<1>7. ASSUME NEW r \in Slots, NEW u \in KeyUsers, NEW k \in Keys, HandleRevokeKey(r, u, k)
      PROVE  KeyStep
  <2>1. LET q == [pc |-> "revokefind", key |-> k, user |-> u]
        IN  q \in KeyRequest /\ q.pc = "revokefind"
    BY DEF KeyRequest
  <2> QED BY <1>3, <1>7, <2>1 DEF HandleRevokeKey, KeyStep
<1>8. ASSUME NEW r \in Slots, FindEmail(r) PROVE KeyStep
  <2>1. ~At(r, "idle") /\ UNCHANGED keyVars
    BY <1>8 DEF FindEmail, At
  <2>2. PICK q \in {[req[r] EXCEPT !.pc = "insertuser"], Idle} : Become(r, q)
    BY <1>8 DEF FindEmail, Goto, Finish
  <2>3. q \in KeyRequest \cup {Idle} /\ q.pc # "insertkey"
    BY <1>0, <1>8, <2>2, KeyRequestsAreTyped DEF FindEmail, At
  <2> QED BY <1>2, <2>1, <2>2, <2>3 DEF KeyStep
<1>9. ASSUME NEW r \in Slots, CreateKey(r) PROVE KeyStep
  <2>1. ~At(r, "idle") /\ UNCHANGED keyVars /\ address' = address
    BY <1>9 DEF CreateKey, At, keyVars, userVars
  <2>2. CASE Finish(r)
    BY <1>0, <1>2, <2>1, <2>2 DEF KeyStep, Finish
  <2>3. CASE IsRegistered(req[r].user) /\ Goto(r, "insertkey")
    <3>1. LET q == [req[r] EXCEPT !.pc = "insertkey"]
          IN  q \in KeyRequest /\ address[q.user] # "absent"
      BY <1>0, <1>9, <2>3, KeyRequestsAreTyped DEF CreateKey, At, IsRegistered
    <3> QED BY <1>2, <2>1, <2>3, <3>1 DEF KeyStep, Goto
  <2> QED BY <1>9, <2>2, <2>3 DEF CreateKey
<1>10. ASSUME NEW r \in Slots, RevokeFind(r) PROVE KeyStep
  <2>1. ~At(r, "idle") /\ UNCHANGED keyVars
    BY <1>10 DEF RevokeFind, At
  <2>2. PICK q \in {[req[r] EXCEPT !.pc = "revokekey"], Idle} : Become(r, q)
    BY <1>10 DEF RevokeFind, Goto, Finish
  <2>3. q \in KeyRequest \cup {Idle} /\ q.pc # "insertkey"
    BY <1>0, <1>10, <2>2, KeyRequestsAreTyped DEF RevokeFind, At
  <2> QED BY <1>2, <2>1, <2>2, <2>3 DEF KeyStep
<1>11. ASSUME NEW r \in Slots, InsertUser(r) PROVE KeyStep
  <2>1. /\ ~At(r, "idle") /\ req[r].user \in KeyUsers /\ Become(r, Idle)
        /\ begun' = begun /\ faults' = faults /\ begun >= 1
    BY <1>0, <1>1, <1>11, KeyRequestsAreTyped DEF InsertUser, At, Finish, Become
  <2>2. KeyRequestsGoOn
    BY <1>0, <1>2, <2>1
  <2>3. KeysStay /\ given' = given
    BY <1>11 DEF InsertUser, KeysStay
  <2>4. CASE AddressIsFree(req[r].user)
    <3>1. UserCreated(req[r].user)
      BY <1>11, <2>1, <2>3, <2>4 DEF InsertUser, UserCreated, AddressIsFree
    <3> QED BY <2>1, <2>2, <2>3, <3>1 DEF KeyStep
  <2>5. CASE ~AddressIsFree(req[r].user)
    BY <1>11, <2>2, <2>3, <2>5 DEF InsertUser, KeyStep, keyVars, userVars, KeysStay
  <2> QED BY <2>4, <2>5
<1>12. ASSUME NEW r \in Slots, InsertKey(r) PROVE KeyStep
  <2>1. /\ ~At(r, "idle") /\ req[r].user \in KeyUsers /\ Become(r, Idle)
        /\ begun' = begun /\ begun >= 1
        /\ address[req[r].user] # "absent"
    BY <1>0, <1>1, <1>12, KeyRequestsAreTyped
    DEF InsertKey, At, Finish, Become, UsersAndKeysInv, OwnersExist
  <2>2. KeyRequestsGoOn
    BY <1>0, <1>2, <2>1
  <2>3. KeyUsersStay /\ \E k \in Keys : KeyInserted(k, req[r].user)
    BY <1>12, <2>1 DEF InsertKey, KeyUsersStay, KeyInserted
  <2> QED BY <2>1, <2>2, <2>3 DEF KeyStep
<1>13. ASSUME NEW r \in Slots, RevokeKey(r) PROVE KeyStep
  <2>1. /\ ~At(r, "idle") /\ req[r].key \in Keys /\ Become(r, Idle)
        /\ begun' = begun /\ begun >= 1
    BY <1>0, <1>1, <1>13, KeyRequestsAreTyped DEF RevokeKey, At, Finish, Become
  <2>2. KeyRequestsGoOn
    BY <1>0, <1>2, <2>1
  <2>3. KeyUsersStay
    BY <1>13 DEF RevokeKey, KeyUsersStay
  <2>4. CASE Revocable(req[r].key)
    <3>1. KeyRevoked(req[r].key)
      BY <1>13, <2>4 DEF RevokeKey, KeyRevoked, Revocable
    <3> QED BY <2>1, <2>2, <2>3, <3>1 DEF KeyStep
  <2>5. CASE ~Revocable(req[r].key)
    BY <1>13, <2>2, <2>3, <2>5 DEF RevokeKey, KeyStep, keyVars, KeyUsersStay
  <2> QED BY <2>4, <2>5
<1>14. ASSUME NEW r \in Slots, Abort(r), UNCHANGED keyVars PROVE KeyStep
  <2>1. KeyRequestsGoOn
    <3>1. /\ faults' \in {faults, faults + 1} /\ faults' \in 0..MaxFaults /\ begun' = begun
          /\ req' = [req EXCEPT ![r] = Idle] /\ ~At(r, "idle")
      BY <1>0, <1>14 DEF Abort, Stumble
    <3> QED BY <1>0, <3>1 DEF KeyRequestsGoOn
  <2> QED BY <1>14, <2>1 DEF KeyStep
<1>15. ASSUME NEW u \in KeyUsers, DeleteUser(u) PROVE KeyStep
  <2>1. KeyRequestsGoOn /\ begun' >= 1
    BY <1>0, <1>15 DEF DeleteUser, Serve, KeyRequestsGoOn
  <2>2. KeysStay /\ UserDeleted(u)
    BY <1>15 DEF DeleteUser, IsRegistered, Serve, KeysStay, UserDeleted
  <2> QED BY <2>1, <2>2 DEF KeyStep
<1>16. ASSUME NEW x \in goroutines, GoroutineEnds(x) PROVE KeyStep
  <2>1. KeyRequestsGoOn
    BY <1>0, <1>16 DEF GoroutineEnds, requestVars, KeyRequestsGoOn
  <2>2. KeysStay /\ WorkEnds(x)
    BY <1>0, <1>16 DEF GoroutineEnds, requestVars, KeysStay, WorkEnds
  <2> QED BY <2>1, <2>2 DEF KeyStep
<1>17. ASSUME NEW k \in Keys, KeyExpires(k) PROVE KeyStep
  <2>1. KeyRequestsGoOn
    BY <1>0, <1>17 DEF KeyExpires, requestVars, KeyRequestsGoOn
  <2>2. KeyUsersStay /\ KeyAged(k)
    BY <1>17 DEF KeyExpires, KeyUsersStay, KeyAged
  <2> QED BY <2>1, <2>2 DEF KeyStep
<1> QED
  BY <1>4, <1>5, <1>6, <1>7, <1>8, <1>9, <1>10, <1>11, <1>12, <1>13, <1>14, <1>15, <1>16, <1>17
  DEF UsersAndKeysNext


\* Each part of UsersAndKeysInv in turn.
LEMMA NextKeyTypes ==
    ASSUME UsersAndKeysInv, KeyStep
    PROVE  UsersAndKeysTypeOK'
<1>0. UsersAndKeysTypeOK /\ MaxRequests \in Nat
  BY RequestBoundsAssumption DEF UsersAndKeysInv
<1>1. RequestsAre(KeyRequest)'
  BY <1>0 DEF KeyStep, KeyRequestsGoOn, UsersAndKeysTypeOK, RequestsAre
<1>2. begun \in 0..MaxRequests /\ begun' \in 0..MaxRequests
  BY <1>0, <1>1 DEF UsersAndKeysTypeOK, RequestsAre
<1>3. CASE UNCHANGED keyVars
  BY <1>0, <1>1, <1>3 DEF UsersAndKeysTypeOK, keyVars, userVars, apiKeyVars
<1>4. ASSUME KeyUsersStay, NEW k \in Keys, NEW u \in KeyUsers, KeyInserted(k, u)
      PROVE  UsersAndKeysTypeOK'
  <2>1. key[k] \in KeyRow /\ key' = [key EXCEPT ![k] = [key[k] EXCEPT !.owner = u, !.salt = begun]]
    BY <1>0, <1>4 DEF KeyInserted, UsersAndKeysTypeOK
  <2>2. key' \in [Keys -> KeyRow]
    BY <1>0, <1>2, <1>4, <2>1, KeyRowsAreTyped DEF UsersAndKeysTypeOK
  <2> QED BY <1>0, <1>1, <1>4, <2>2 DEF UsersAndKeysTypeOK, KeyInserted, KeyUsersStay, userVars
<1>5. ASSUME KeyUsersStay, begun >= 1, NEW k \in Keys, KeyRevoked(k)
      PROVE  UsersAndKeysTypeOK'
  <2>1. key[k] \in KeyRow /\ key' = [key EXCEPT ![k] = [key[k] EXCEPT !.revokedAt = begun]]
    BY <1>0, <1>5 DEF KeyRevoked, UsersAndKeysTypeOK
  <2>2. key' \in [Keys -> KeyRow]
    BY <1>0, <1>2, <1>5, <2>1, KeyRowsAreTyped DEF UsersAndKeysTypeOK
  <2>3. revoked[k] = 0
    BY <1>5 DEF UsersAndKeysInv, RevokedOnce, KeyRevoked
  <2>4. revoked' \in [Keys -> 0..MaxRequests]
    BY <1>0, <1>2, <1>5, <2>3 DEF UsersAndKeysTypeOK, KeyRevoked
  <2> QED BY <1>0, <1>1, <1>5, <2>2, <2>4 DEF UsersAndKeysTypeOK, KeyUsersStay, userVars
<1>6. ASSUME KeyUsersStay, NEW k \in Keys, KeyAged(k) PROVE UsersAndKeysTypeOK'
  <2>1. key[k] \in KeyRow /\ key' = [key EXCEPT ![k] = [key[k] EXCEPT !.expired = TRUE]]
    BY <1>0, <1>6 DEF KeyAged, UsersAndKeysTypeOK
  <2>2. key' \in [Keys -> KeyRow]
    BY <1>0, <1>6, <2>1, KeyRowsAreTyped DEF UsersAndKeysTypeOK
  <2> QED BY <1>0, <1>1, <1>6, <2>2 DEF UsersAndKeysTypeOK, KeyAged, KeyUsersStay, userVars
<1>7. ASSUME KeysStay, begun' >= 1, NEW u \in KeyUsers, UserCreated(u)
      PROVE  UsersAndKeysTypeOK'
  <2>1. created[u] = 0
    BY <1>7 DEF UsersAndKeysInv, OneUserPerAddress, UserCreated
  <2>2. created' \in [KeyUsers -> 0..MaxRequests]
    BY <1>0, <1>2, <1>7, <2>1 DEF UsersAndKeysTypeOK, UserCreated
  <2>3. registered' \subseteq KeyUsers /\ goroutines' \subseteq (KeyUsers \X Welcomes)
    BY <1>0, <1>7 DEF UsersAndKeysTypeOK, UserCreated, Register
  <2> QED BY <1>0, <1>1, <1>7, <2>2, <2>3
    DEF UsersAndKeysTypeOK, UserCreated, KeysStay, apiKeyVars
<1>8. ASSUME KeysStay, NEW u \in KeyUsers, UserDeleted(u) PROVE UsersAndKeysTypeOK'
  BY <1>0, <1>1, <1>8 DEF UsersAndKeysTypeOK, UserDeleted, KeysStay, apiKeyVars
<1>9. ASSUME KeysStay, NEW x \in goroutines, WorkEnds(x) PROVE UsersAndKeysTypeOK'
  BY <1>0, <1>1, <1>9 DEF UsersAndKeysTypeOK, WorkEnds, KeysStay, apiKeyVars
<1> QED
  BY <1>3, <1>4, <1>5, <1>6, <1>7, <1>8, <1>9 DEF KeyStep

\* A user is created when he is absent, and his row is never absent again.
LEMMA NextOneUser ==
    ASSUME UsersAndKeysInv, KeyStep
    PROVE  OneUserPerAddress'
<1>0. UsersAndKeysTypeOK /\ OneUserPerAddress /\ faults \in Nat /\ faults' \in {faults, faults + 1}
  BY DEF UsersAndKeysInv, KeyStep, KeyRequestsGoOn, UsersAndKeysTypeOK, RequestsAre
<1>1. faults' = 0 => faults = 0
  BY <1>0
<1>2. UsersAndKeysTypeOK'
  BY NextKeyTypes
<1>3. \A u \in KeyUsers :
        (u \in HandleListUsers)' = (HandleGetUserByID(u) /\ HandleGetCurrentUser(u))'
  BY <1>2 DEF HandleListUsers, HandleGetUserByID, HandleGetCurrentUser, IsRegistered,
              UsersAndKeysTypeOK
<1>4. CASE UNCHANGED userVars
  BY <1>0, <1>1, <1>3, <1>4 DEF userVars, OneUserPerAddress
<1>5. ASSUME NEW u \in KeyUsers, UserCreated(u) PROVE OneUserPerAddress'
  <2>1. \A v \in KeyUsers : created'[v] = IF address'[v] = "absent" THEN 0 ELSE 1
    BY <1>0, <1>5 DEF UserCreated, OneUserPerAddress, UsersAndKeysTypeOK
  <2>2. faults' = faults /\ given' = given
    BY <1>5 DEF UserCreated
  <2>3. CASE Register(u)
    BY <1>0, <1>3, <2>1, <2>2, <2>3 DEF Register, OneUserPerAddress, UsersAndKeysTypeOK
  <2>4. CASE UNCHANGED <<registered, goroutines>>
    BY <1>0, <1>3, <2>1, <2>2, <2>4 DEF OneUserPerAddress
  <2> QED BY <1>5, <2>3, <2>4 DEF UserCreated
<1>6. ASSUME NEW u \in KeyUsers, UserDeleted(u) PROVE OneUserPerAddress'
  <2>1. \A v \in KeyUsers : created'[v] = IF address'[v] = "absent" THEN 0 ELSE 1
    BY <1>0, <1>6 DEF UserDeleted, OneUserPerAddress, UsersAndKeysTypeOK
  <2> QED BY <1>0, <1>3, <1>6, <2>1 DEF UserDeleted, OneUserPerAddress
<1>7. ASSUME NEW x \in goroutines, WorkEnds(x) PROVE OneUserPerAddress'
  <2>1. given' \cup goroutines' \subseteq given \cup goroutines
    BY <1>7 DEF WorkEnds
  <2>2. faults' = 0 => given \cup goroutines \subseteq given' \cup goroutines'
    BY <1>0, <1>7 DEF WorkEnds
  <2>3. UNCHANGED <<address, created, registered>>
    BY <1>7 DEF WorkEnds
  <2> QED BY <1>0, <1>1, <1>3, <2>1, <2>2, <2>3 DEF OneUserPerAddress
<1> QED
  BY <1>4, <1>5, <1>6, <1>7 DEF KeyStep, KeyUsersStay, keyVars

\* What a step leaves of the row of a key.
LEMMA KeyRowSteps ==
    ASSUME key \in [Keys -> KeyRow], KeyStep, NEW k \in Keys
    PROVE  /\ key'[k].salt = key[k].salt \/ key'[k].salt = begun
           /\ \/ key'[k].owner = key[k].owner
              \/ key'[k].owner \in KeyUsers /\ address[key'[k].owner] # "absent"
<1>1. CASE key' = key
  BY <1>1
<1>2. ASSUME NEW l \in Keys, NEW u \in KeyUsers, KeyInserted(l, u)
      PROVE  \/ key'[k] = key[k]
             \/ key'[k].salt = begun /\ key'[k].owner = u /\ address[u] # "absent"
  BY <1>2 DEF KeyInserted, KeyRow
<1>3. ASSUME NEW l \in Keys, KeyRevoked(l)
      PROVE  key'[k].salt = key[k].salt /\ key'[k].owner = key[k].owner
  BY <1>3 DEF KeyRevoked, KeyRow
<1>4. ASSUME NEW l \in Keys, KeyAged(l)
      PROVE  key'[k].salt = key[k].salt /\ key'[k].owner = key[k].owner
  BY <1>4 DEF KeyAged, KeyRow
<1>5. \/ key' = key
      \/ \E l \in Keys : (\E u \in KeyUsers : KeyInserted(l, u)) \/ KeyRevoked(l) \/ KeyAged(l)
  BY DEF KeyStep, KeysStay, keyVars, apiKeyVars
<1> QED BY <1>1, <1>2, <1>3, <1>4, <1>5

\* An owner was found registered by a statement of his request, and rows are never removed.
LEMMA NextOwners ==
    ASSUME UsersAndKeysInv, KeyStep
    PROVE  OwnersExist'
<1>0. UsersAndKeysTypeOK /\ OwnersExist /\ NoUser \notin KeyUsers
  BY NoUserAssumption DEF UsersAndKeysInv
<1>1. \A u \in KeyUsers : address[u] # "absent" => address'[u] # "absent"
  BY <1>0 DEF KeyStep, KeyUsersStay, userVars, keyVars, UserCreated, UserDeleted, WorkEnds,
              UsersAndKeysTypeOK
<1>2. \A r \in Slots : At(r, "insertkey")' => address'[req'[r].user] # "absent"
  <2> SUFFICES ASSUME NEW s \in Slots, req'[s].pc = "insertkey"
               PROVE  address'[req'[s].user] # "absent"
    BY DEF At
  <2>1. CASE req'[s] = req[s]
    <3>1. req[s].pc = "insertkey" /\ req[s] \in KeyRequest \cup {Idle}
      BY <1>0, <2>1 DEF UsersAndKeysTypeOK, RequestsAre
    <3>2. req[s].user \in KeyUsers /\ address[req[s].user] # "absent"
      BY <1>0, <3>1, KeyRequestsAreTyped DEF OwnersExist, At
    <3> QED BY <1>1, <2>1, <3>2
  <2>2. CASE req'[s] # req[s]
    BY <1>0, <2>2 DEF KeyStep, KeyRequestsGoOn, UsersAndKeysTypeOK, RequestsAre
  <2> QED BY <2>1, <2>2
<1>3. ASSUME NEW k \in Keys, key'[k].owner # NoUser PROVE address'[key'[k].owner] # "absent"
  <2>1. key[k] \in KeyRow /\ key \in [Keys -> KeyRow]
    BY <1>0 DEF UsersAndKeysTypeOK
  <2>2. \/ key'[k].owner = key[k].owner
        \/ key'[k].owner \in KeyUsers /\ address[key'[k].owner] # "absent"
    BY <2>1, KeyRowSteps
  <2>3. key[k].owner \in KeyUsers \cup {NoUser}
    BY <2>1 DEF KeyRow
  <2> QED BY <1>0, <1>1, <1>3, <2>2, <2>3 DEF OwnersExist
<1> QED BY <1>2, <1>3 DEF OwnersExist

\* A salt is drawn when a request that has begun is handled, and the count never falls.
LEMMA NextSalts ==
    ASSUME UsersAndKeysInv, KeyStep
    PROVE  SaltsAreOld'
<1>0. /\ SaltsAreOld /\ begun \in Nat /\ begun' \in {begun, begun + 1} /\ key \in [Keys -> KeyRow]
      /\ req \in [Slots -> KeyRequest \cup {Idle}]
  BY DEF UsersAndKeysInv, KeyStep, KeyRequestsGoOn, UsersAndKeysTypeOK, RequestsAre
<1>1. ASSUME NEW k \in Keys PROVE key'[k].salt <= begun'
  <2>1. key[k].salt \in Nat /\ key[k].salt <= begun
    BY <1>0 DEF KeyRow, SaltsAreOld
  <2>2. key'[k].salt = key[k].salt \/ key'[k].salt = begun
    BY <1>0, KeyRowSteps
  <2> QED BY <1>0, <2>1, <2>2
<1>2. ASSUME NEW s \in Slots, ~At(s, "idle")' PROVE begun' >= 1
  <2>1. CASE ~At(s, "idle")
    BY <1>0, <2>1 DEF SaltsAreOld
  <2>2. CASE At(s, "idle")
    <3>1. req'[s] # req[s]
      BY <1>2, <2>2 DEF At
    <3>2. begun' = begun + 1
      BY <1>0, <2>2, <3>1 DEF KeyStep, KeyRequestsGoOn
    <3> QED BY <1>0, <3>2
  <2> QED BY <2>1, <2>2
<1> QED BY <1>1, <1>2 DEF SaltsAreOld

\* RevokedOnce but for what is shown, ...
LEMMA NextRevoked ==
    ASSUME UsersAndKeysInv, KeyStep, NEW k \in Keys
    PROVE  revoked'[k] = IF key'[k].revokedAt # 0 THEN 1 ELSE 0
<1>0. /\ key \in [Keys -> KeyRow] /\ revoked \in [Keys -> 0..MaxRequests] /\ begun \in Nat
      /\ revoked[k] = IF key[k].revokedAt # 0 THEN 1 ELSE 0
  BY DEF UsersAndKeysInv, UsersAndKeysTypeOK, RequestsAre, RevokedOnce, IsRevoked
<1>1. CASE UNCHANGED apiKeyVars
  BY <1>0, <1>1 DEF apiKeyVars
<1>2. ASSUME NEW l \in Keys, NEW u \in KeyUsers, KeyInserted(l, u)
      PROVE  key'[k].revokedAt = key[k].revokedAt /\ revoked' = revoked
  BY <1>0, <1>2 DEF KeyInserted, KeyRow
<1>3. ASSUME NEW l \in Keys, KeyAged(l)
      PROVE  key'[k].revokedAt = key[k].revokedAt /\ revoked' = revoked
  BY <1>0, <1>3 DEF KeyAged, KeyRow
<1>4. ASSUME NEW l \in Keys, KeyRevoked(l), begun >= 1
      PROVE  revoked'[k] = IF key'[k].revokedAt # 0 THEN 1 ELSE 0
  <2>1. CASE l = k
    <3>1. revoked[k] = 0
      BY <1>0, <1>4, <2>1 DEF KeyRevoked, IsRevoked
    <3>2. revoked'[k] = 1 /\ key'[k].revokedAt = begun
      BY <1>0, <1>4, <2>1, <3>1 DEF KeyRevoked, KeyRow
    <3> QED BY <1>4, <3>2, <1>0
  <2>2. CASE l # k
    BY <1>0, <1>4, <2>2 DEF KeyRevoked
  <2> QED BY <2>1, <2>2
<1> QED
  BY <1>0, <1>1, <1>2, <1>3, <1>4 DEF KeyStep, KeysStay, keyVars

\* ... which follows from it.
RevocationsCount == \A k \in Keys : revoked[k] = IF IsRevoked(k) THEN 1 ELSE 0

\* What its owner is shown of a key follows from its row.
LEMMA KeysAreShown ==
    OneUserPerAddress /\ OwnersExist /\ RevocationsCount => RevokedOnce
<1> SUFFICES ASSUME OneUserPerAddress, OwnersExist, RevocationsCount,
                    NEW k \in Keys, NEW u \in KeyUsers, NEW s \in HandleGetKey(u, k)
             PROVE  /\ created[u] = 1
                    /\ s.isActive => revoked[k] = 0
                    /\ {v \in KeyUsers : k \in DOMAIN HandleListKeys(v)} = {u}
  BY DEF RevokedOnce, RevocationsCount
<1>1. key[k].owner = u /\ s = Shown(k)
  BY DEF HandleGetKey, GetKey, IsOwnedBy
<1>2. created[u] = 1
  <2>1. address[u] # "absent"
    BY <1>1, NoUserAssumption DEF OwnersExist
  <2> QED BY <2>1 DEF OneUserPerAddress
<1>3. s.isActive => revoked[k] = 0
  BY <1>1 DEF Shown, IsActive, RevocationsCount
<1>4. \A v \in KeyUsers : k \in DOMAIN HandleListKeys(v) <=> v = u
  BY <1>1 DEF HandleListKeys, FindByUserID
<1> QED BY <1>2, <1>3, <1>4

\* A salt that is drawn now differs from each that is stored.
LEMMA KeysAreNotFound == UsersAndKeysInv => NoKeyIsFound
<1> SUFFICES ASSUME UsersAndKeysInv, NEW k \in Keys PROVE APIKeyAuth(k) = {}
  BY DEF NoKeyIsFound
<1>1. \A x \in Keys : key[x].salt \in Nat /\ key[x].salt <= begun /\ begun \in Nat
  BY DEF UsersAndKeysInv, UsersAndKeysTypeOK, RequestsAre, SaltsAreOld, KeyRow
<1>2. \A x \in Keys : key[x].salt # begun + 1
  BY <1>1
<1>3. FindByKeyHashWithUser(HashKey(k, begun + 1)) = {}
  BY <1>2 DEF FindByKeyHashWithUser, HashKey
<1> QED BY <1>3 DEF APIKeyAuth, Validate

\* What the theorems on this module rest on: the invariant is inductive.
LEMMA UsersAndKeysAlways == UsersAndKeysSpec => []UsersAndKeysInv
<1>1. UsersAndKeysInit /\ RequestsInit => UsersAndKeysInv
  <2> SUFFICES ASSUME UsersAndKeysInit, RequestsInit PROVE UsersAndKeysInv
    OBVIOUS
  <2>1. 0 \in 0..MaxRequests /\ 0 \in 0..MaxFaults /\ NoKey \in KeyRow /\ NoKey.owner = NoUser
        /\ NoKey.salt = 0 /\ NoKey.revokedAt = 0 /\ Idle.pc = "idle"
    BY RequestBoundsAssumption DEF NoKey, KeyRow, Idle
  <2>2. UsersAndKeysTypeOK
    BY <2>1 DEF UsersAndKeysInit, RequestsInit, UsersAndKeysTypeOK, RequestsAre
  <2>3. OneUserPerAddress
    BY DEF UsersAndKeysInit, OneUserPerAddress, HandleListUsers, HandleGetUserByID,
           HandleGetCurrentUser, IsRegistered
  <2>4. OwnersExist
    BY <2>1 DEF UsersAndKeysInit, RequestsInit, OwnersExist, At
  <2>5. SaltsAreOld
    BY <2>1 DEF UsersAndKeysInit, RequestsInit, SaltsAreOld, At
  <2>6. RevocationsCount
    BY <2>1 DEF UsersAndKeysInit, IsRevoked, RevocationsCount
  <2> QED BY <2>2, <2>3, <2>4, <2>5, <2>6, KeysAreShown DEF UsersAndKeysInv
<1>2. UsersAndKeysInv /\ [UsersAndKeysNext]_<<keyVars, requestVars>> => UsersAndKeysInv'
  <2> SUFFICES ASSUME UsersAndKeysInv, [UsersAndKeysNext]_<<keyVars, requestVars>>
               PROVE  UsersAndKeysInv'
    OBVIOUS
  <2>1. CASE UsersAndKeysNext
    <3>1. KeyStep
      BY <2>1, KeySteps
    <3>2. UsersAndKeysTypeOK' /\ OneUserPerAddress' /\ OwnersExist' /\ SaltsAreOld'
      BY <3>1, NextKeyTypes, NextOneUser, NextOwners, NextSalts
    <3>3. RevocationsCount'
      BY <3>1, NextRevoked DEF IsRevoked, RevocationsCount
    <3>4. RevokedOnce'
      BY <3>2, <3>3, KeysAreShown, PTL
    <3> QED BY <3>2, <3>4 DEF UsersAndKeysInv
  <2>2. CASE UNCHANGED <<keyVars, requestVars>>
    BY <2>2
    DEF UsersAndKeysInv, UsersAndKeysTypeOK, OneUserPerAddress, RevokedOnce, OwnersExist,
        SaltsAreOld, RequestsAre, keyVars, userVars, apiKeyVars, requestVars, HandleListUsers,
        HandleGetUserByID, HandleGetCurrentUser, IsRegistered, IsRevoked, HandleGetKey, GetKey,
        IsOwnedBy, Shown, IsActive, HandleListKeys, FindByUserID, At
  <2> QED BY <2>1, <2>2
<1> QED
  BY <1>1, <1>2, PTL DEF UsersAndKeysSpec

\* An address has one user, for good, and he alone is greeted; a key is revoked once, and its
\* owner alone is shown it: for any users, keys and requests (service/auth.go Register,
\* service/api_key.go Revoke, repository/api_key.go).
THEOREM KeysAlwaysHold == UsersAndKeysSpec => []KeysHold
<1>1. UsersAndKeysInv => KeysHold
  BY DEF UsersAndKeysInv, KeysHold
<1> QED BY <1>1, UsersAndKeysAlways, PTL

\* The defect that the violation of KeyAuthenticates shows for one key, in full: for any users,
\* keys and requests no call with a key is made as anybody (service/api_key.go Validate, with a
\* salt of its own for each hash; repository/api_key.go FindByKeyHashWithUser).
THEOREM KeysNeverAuthenticate == UsersAndKeysSpec => []NoKeyIsFound
BY UsersAndKeysAlways, KeysAreNotFound, PTL

-----------------------------------------------------------------------------
(* The members of an organization: types *)

\* The actions of the roles: all may view first, and the owner may then manage.
LEMMA ActionsOfRoles ==
    /\ \A office \in Role :
        /\ Len(Actions(office)) \in 1..4
        /\ Actions(office)[1] = "view"
        /\ \A n \in 1..Len(Actions(office)) :
            Actions(office)[n] \in {"view", "manage", "invite", "remove"}
    /\ Len(Actions("owner")) = 4
    /\ Actions("owner")[2] = "manage"
<1>1. Actions("owner") = <<"view", "manage", "invite", "remove">>
  BY DEF Actions
<1>2. Actions("admin") = <<"view", "manage", "invite">>
  BY DEF Actions
<1>3. Actions("member") = <<"view">>
  BY DEF Actions
<1> QED BY <1>1, <1>2, <1>3 DEF Role

\* What a request carries, over a change of its statement or of what it has read.
LEMMA OrgRequestsAreTyped ==
    ASSUME NEW q \in OrgRequest
    PROVE  /\ q.at \in Instances /\ q.user \in Users /\ q.target \in Users
           /\ q.role \in Role \cup {"none"} /\ q.copy \in [Users -> Role \cup {"none"}]
           /\ q.added \in 0..4
           /\ \A label \in {"owner", "grant", "policies", "save", "drop", "insert", "revoke"} :
                [q EXCEPT !.pc = label] \in OrgRequest
           /\ \A n \in 0..4 : [q EXCEPT !.added = n] \in OrgRequest
           /\ \A copy \in [Users -> Role \cup {"none"}] :
                [q EXCEPT !.pc = "slug", !.copy = copy] \in OrgRequest
           /\ \A office \in Role \cup {"none"} :
                [q EXCEPT !.pc = "unrow", !.role = office] \in OrgRequest
<1>1. /\ q.at \in Instances /\ q.user \in Users /\ q.target \in Users
      /\ q.role \in Role \cup {"none"} /\ q.copy \in [Users -> Role \cup {"none"}]
      /\ q.added \in 0..4
  BY DEF OrgRequest
<1>2. ASSUME NEW label \in {"owner", "grant", "policies", "save", "drop", "insert", "revoke"}
      PROVE  [q EXCEPT !.pc = label] \in OrgRequest
  BY DEF OrgRequest
<1>3. ASSUME NEW n \in 0..4 PROVE [q EXCEPT !.added = n] \in OrgRequest
  BY DEF OrgRequest
<1>4. ASSUME NEW copy \in [Users -> Role \cup {"none"}]
      PROVE  [q EXCEPT !.pc = "slug", !.copy = copy] \in OrgRequest
  BY DEF OrgRequest
<1>5. ASSUME NEW office \in Role \cup {"none"}
      PROVE  [q EXCEPT !.pc = "unrow", !.role = office] \in OrgRequest
  BY DEF OrgRequest
<1> QED BY <1>1, <1>2, <1>3, <1>4, <1>5

\* A request in progress has the form.
LEMMA OrgInProgress ==
    ASSUME OrganizationsTypeOK, NEW r \in Slots, req[r].pc # "idle"
    PROVE  req[r] \in OrgRequest
  BY DEF OrganizationsTypeOK, RequestsAre, Idle

\* Every step keeps the types.
LEMMA OrganizationTypes ==
    ASSUME OrganizationsTypeOK, RequestsCarry, FoundedFirst,
           [OrganizationsNext]_<<orgVars, requestVars>>
    PROVE  OrganizationsTypeOK'
<1> DEFINE Slotted == [Slots -> OrgRequest \cup {Idle}]
<1>0. /\ req \in Slotted
      /\ \A r \in Slots : req[r].pc # "idle" => req[r] \in OrgRequest
  BY OrgInProgress DEF OrganizationsTypeOK, RequestsAre
<1>1. CASE UNCHANGED <<orgVars, requestVars>>
  BY <1>1
  DEF OrganizationsTypeOK, RequestsAre, orgVars, orgRows, orgPolicies, requestVars
<1>2. ASSUME NEW r \in Slots, OrganizationHandlers(r) PROVE OrganizationsTypeOK'
  <2>1. \E q \in OrgRequest : Begin(r, q) /\ UNCHANGED orgVars
    <3>1. ASSUME NEW i \in Instances, NEW u \in Users, NEW t \in Users,
                 NEW office \in Role \cup {"none"},
                 NEW label \in {"create", "update", "delete", "invite", "expel"}
          PROVE  Asked(label, i, u, t, office) \in OrgRequest
      BY DEF Asked, OrgRequest, NoMembers
    <3>2. "owner" \in Role
      BY DEF Role
    <3> QED
      BY <1>2, <3>1, <3>2
      DEF OrganizationHandlers, HandleCreate, HandleUpdate, HandleDelete, HandleRemoveMember,
          HandleAddMember
  <2> QED
    BY <2>1, RequestBoundsAssumption
    DEF Begin, OrganizationsTypeOK, RequestsAre, orgVars, orgRows, orgPolicies
<1>3. ASSUME NEW r \in Slots, NEW q \in OrgRequest \cup {Idle},
             Become(r, q) \/ Stumble(r, q)
      PROVE  RequestsAre(OrgRequest)'
  BY <1>0, <1>3, RequestBoundsAssumption
  DEF Become, Stumble, OrganizationsTypeOK, RequestsAre
<1>4. ASSUME NEW r \in Slots, Goto(r, "owner") \/ Goto(r, "grant") \/ Goto(r, "save")
                 \/ Goto(r, "drop") \/ Goto(r, "insert") \/ Goto(r, "revoke") \/ Finish(r),
             ~At(r, "idle")
      PROVE  RequestsAre(OrgRequest)'
  BY <1>0, <1>3, <1>4, OrgRequestsAreTyped DEF Goto, Finish, At
<1>5. ASSUME NEW r \in Slots, CreateOrganization(r) PROVE OrganizationsTypeOK'
  <2>1. RequestsAre(OrgRequest)' /\ req[r].user \in Users
    BY <1>0, <1>4, <1>5, OrgRequestsAreTyped DEF CreateOrganization, At
  <2> QED
    BY <1>5, <2>1
    DEF CreateOrganization, InsertOrganization, OrganizationsTypeOK, orgPolicies
<1>6. ASSUME NEW r \in Slots, CreateOwner(r) PROVE OrganizationsTypeOK'
  <2>1. RequestsAre(OrgRequest)' /\ req[r].user \in Users /\ "owner" \in Role
    BY <1>0, <1>4, <1>6, OrgRequestsAreTyped DEF CreateOwner, At, Role
  <2> QED
    BY <1>6, <2>1
    DEF CreateOwner, InsertMember, OrganizationsTypeOK, orgPolicies
<1>7. ASSUME NEW i \in Instances, NEW u \in Users, NEW office \in Role,
             \/ AddRoleForUser(i, u, office)
             \/ RemoveRoleForUser(i, u, office)
             \/ \E act \in {"view", "manage", "invite", "remove"} : AddPolicy(i, office, act)
             \/ UNCHANGED orgPolicies
      PROVE  /\ stored' \in Policies /\ memory' \in [Instances -> Policies]
             /\ writers' \subseteq Instances
  BY <1>7
  DEF AddRoleForUser, RemoveRoleForUser, AddPolicy, orgPolicies, OrganizationsTypeOK, Policies
<1>8. ASSUME NEW r \in Slots, GrantRole(r) PROVE OrganizationsTypeOK'
  <2>1. /\ [req[r] EXCEPT !.pc = "policies"] \in OrgRequest
        /\ req[r].at \in Instances /\ req[r].target \in Users /\ req[r].role \in Role
    BY <1>0, <1>8, OrgRequestsAreTyped DEF GrantRole, At, RequestsCarry
  <2>2. RequestsAre(OrgRequest)'
    BY <1>3, <1>8, <2>1 DEF GrantRole
  <2> QED
    BY <1>7, <1>8, <2>1, <2>2 DEF GrantRole, OrganizationsTypeOK, orgRows
<1>9. ASSUME NEW r \in Slots, GrantPolicies(r) PROVE OrganizationsTypeOK'
  <2>1. /\ req[r] \in OrgRequest /\ req[r].at \in Instances /\ req[r].role \in Role
        /\ req[r].added \in 0..4 /\ req[r].added < Len(Actions(req[r].role))
    BY <1>0, <1>9, OrgRequestsAreTyped DEF GrantPolicies, At, RequestsCarry
  <2>2. /\ req[r].added + 1 \in 1..Len(Actions(req[r].role)) /\ req[r].added + 1 \in 0..4
    <3>1. PICK n, len : n = req[r].added /\ len = Len(Actions(req[r].role))
      OBVIOUS
    <3>2. n \in 0..4 /\ n < len /\ len \in 1..4
      BY <2>1, <3>1, ActionsOfRoles
    <3>3. n + 1 \in 1..len /\ n + 1 \in 0..4
      BY <3>2
    <3> QED BY <3>1, <3>3
  <2>3. Actions(req[r].role)[req[r].added + 1] \in {"view", "manage", "invite", "remove"}
    BY <2>1, <2>2, ActionsOfRoles
  <2>4. [req[r] EXCEPT !.added = req[r].added + 1] \in OrgRequest
    BY <2>1, <2>2, OrgRequestsAreTyped
  <2>5. RequestsAre(OrgRequest)'
    BY <1>3, <1>9, <2>4 DEF GrantPolicies
  <2>6. stored' \in Policies /\ memory' \in [Instances -> Policies] /\ writers' \subseteq Instances
    <3>1. req[r].target \in Users
      BY <2>1, OrgRequestsAreTyped
    <3> QED BY <1>7, <1>9, <2>1, <2>3, <3>1 DEF GrantPolicies
  <2> QED
    BY <1>9, <2>5, <2>6 DEF GrantPolicies, OrganizationsTypeOK, orgRows
<1>10. ASSUME NEW r \in Slots, UpdateOrganization(r) PROVE OrganizationsTypeOK'
  <2>1. [req[r] EXCEPT !.pc = "slug", !.copy = members] \in OrgRequest
    BY <1>0, <1>10, OrgRequestsAreTyped DEF UpdateOrganization, At, OrganizationsTypeOK
  <2>2. RequestsAre(OrgRequest)'
    BY <1>3, <1>10, <2>1 DEF UpdateOrganization, Finish
  <2> QED
    BY <1>10, <2>2 DEF UpdateOrganization, OrganizationsTypeOK, orgVars, orgRows, orgPolicies
<1>11. ASSUME NEW r \in Slots, CheckSlug(r) \/ DeleteOrganization(r) \/ AddMember(r)
       PROVE  OrganizationsTypeOK'
  <2>1. RequestsAre(OrgRequest)'
    BY <1>4, <1>11 DEF CheckSlug, DeleteOrganization, AddMember, At
  <2> QED
    BY <1>11, <2>1
    DEF CheckSlug, DeleteOrganization, AddMember, OrganizationsTypeOK, orgVars, orgRows,
        orgPolicies
<1>12. ASSUME NEW r \in Slots, UpdateSave(r) PROVE OrganizationsTypeOK'
  <2>1. RequestsAre(OrgRequest)' /\ req[r].copy \in [Users -> Role \cup {"none"}]
    BY <1>0, <1>4, <1>12, OrgRequestsAreTyped DEF UpdateSave, At
  <2>2. crossed' \in BOOLEAN
    BY <1>12 DEF UpdateSave
  <2> QED
    BY <1>12, <2>1, <2>2
    DEF UpdateSave, SaveOrganization, OrganizationsTypeOK, orgPolicies
<1>13. ASSUME NEW r \in Slots, DeleteRow(r) PROVE OrganizationsTypeOK'
  <2>1. RequestsAre(OrgRequest)'
    BY <1>4, <1>13 DEF DeleteRow, At
  <2> QED
    BY <1>13, <2>1 DEF DeleteRow, SoftDelete, OrganizationsTypeOK, orgPolicies
<1>14. ASSUME NEW r \in Slots, AddMemberRow(r) \/ RemoveMemberRow(r)
       PROVE  OrganizationsTypeOK'
  <2>1. RequestsAre(OrgRequest)' /\ req[r].target \in Users /\ req[r].role \in Role \cup {"none"}
    BY <1>0, <1>4, <1>14, OrgRequestsAreTyped DEF AddMemberRow, RemoveMemberRow, At
  <2>2. crossed' \in BOOLEAN
    BY <1>14 DEF AddMemberRow, RemoveMemberRow, Cross
  <2> QED
    BY <1>14, <2>1, <2>2
    DEF AddMemberRow, RemoveMemberRow, InsertMember, DeleteMember, OrganizationsTypeOK,
        orgPolicies
<1>15. ASSUME NEW r \in Slots, RemoveMember(r) PROVE OrganizationsTypeOK'
  <2>1. [req[r] EXCEPT !.pc = "unrow", !.role = members[req[r].target]] \in OrgRequest
    BY <1>0, <1>15, OrgRequestsAreTyped DEF RemoveMember, At, OrganizationsTypeOK
  <2>2. RequestsAre(OrgRequest)'
    BY <1>3, <1>15, <2>1 DEF RemoveMember, Finish
  <2> QED
    BY <1>15, <2>2 DEF RemoveMember, OrganizationsTypeOK, orgVars, orgRows, orgPolicies
<1>16. ASSUME NEW r \in Slots, RevokeRole(r) PROVE OrganizationsTypeOK'
  <2>1. /\ req[r].at \in Instances /\ req[r].target \in Users /\ req[r].role \in Role
    BY <1>0, <1>16, OrgRequestsAreTyped DEF RevokeRole, At, RequestsCarry
  <2>2. RequestsAre(OrgRequest)'
    BY <1>3, <1>16, <2>1 DEF RevokeRole, Finish
  <2> QED
    BY <1>7, <1>16, <2>1, <2>2 DEF RevokeRole, OrganizationsTypeOK, orgRows
<1>17. ASSUME NEW r \in Slots, Abort(r), UNCHANGED orgVars PROVE OrganizationsTypeOK'
  BY <1>3, <1>17 DEF Abort, OrganizationsTypeOK, orgVars, orgRows, orgPolicies
<1>18. ASSUME NEW i \in Instances, LoadPolicy(i) PROVE OrganizationsTypeOK'
  BY <1>18 DEF LoadPolicy, OrganizationsTypeOK, RequestsAre, orgRows, requestVars
<1> QED
  BY <1>1, <1>2, <1>5, <1>6, <1>8, <1>9, <1>10, <1>11, <1>12, <1>13, <1>14, <1>15, <1>16, <1>17,
     <1>18
  DEF OrganizationsNext, OrganizationSteps

-----------------------------------------------------------------------------
(* What a request carries, and what there is before the organization is founded *)

\* What one request carries, where boss is the owner.
Carries(q, boss) ==
    /\ q.pc \in {"create", "owner"} => q.target = q.user /\ q.role = "owner"
    /\ q.pc \in {"create", "owner", "invite", "insert", "grant"} => q.added = 0
    /\ q.pc \in {"invite", "insert", "grant", "policies"} => q.role \in Role
    /\ q.pc = "policies" => q.added < Len(Actions(q.role))
    /\ q.pc \in {"unrow", "revoke"} => q.role \in Role /\ q.target # boss

\* The owner changes only when the organization is created.
LEMMA OwnerIsKept ==
    ASSUME FoundedFirst, [OrganizationsNext]_<<orgVars, requestVars>>
    PROVE  \/ UNCHANGED owner
           \/ /\ org = "none" /\ members = NoMembers /\ writers = {}
              /\ \A r \in Slots :
                    req[r].pc \in {"idle", "create", "update", "delete", "invite", "expel"}
<1>1. org = "none" =>
        /\ members = NoMembers /\ writers = {}
        /\ \A r \in Slots :
            req[r].pc \in {"idle", "create", "update", "delete", "invite", "expel"}
  BY DEF FoundedFirst, Founded, At
<1>2. UNCHANGED owner \/ \E r \in Slots : CreateOrganization(r) /\ org = "none"
  BY DEF OrganizationsNext, OrganizationSteps, OrganizationHandlers, HandleCreate, HandleUpdate,
         HandleDelete, HandleRemoveMember, HandleAddMember, CreateOrganization, CreateOwner,
         GrantRole, GrantPolicies, UpdateOrganization, CheckSlug, UpdateSave, DeleteOrganization,
         DeleteRow, AddMember, AddMemberRow, RemoveMember, RemoveMemberRow, RevokeRole,
         LoadPolicy, orgVars, orgRows
<1> QED BY <1>1, <1>2

\* Each step keeps what the requests carry.
LEMMA RequestsGoOnCarrying ==
    ASSUME OrganizationsTypeOK, RequestsCarry, FoundedFirst,
           [OrganizationsNext]_<<orgVars, requestVars>>
    PROVE  RequestsCarry'
<1>0. /\ req \in [Slots -> OrgRequest \cup {Idle}]
      /\ \A r \in Slots : req[r].pc # "idle" => req[r] \in OrgRequest
      /\ \A r \in Slots : Carries(req[r], owner)
  BY OrgInProgress DEF OrganizationsTypeOK, RequestsAre, RequestsCarry, Carries
<1>1. ASSUME NEW s \in Slots, req'[s] = req[s] PROVE Carries(req'[s], owner')
  BY <1>0, <1>1, OwnerIsKept DEF Carries
<1>2. ASSUME NEW r \in Slots, NEW q, Become(r, q) \/ Stumble(r, q) \/ Begin(r, q),
             Carries(q, owner')
      PROVE  RequestsCarry'
  <2>1. ASSUME NEW s \in Slots PROVE Carries(req'[s], owner')
    BY <1>0, <1>1, <1>2 DEF Become, Stumble, Begin, Carries
  <2> QED BY <2>1 DEF RequestsCarry, Carries
<1>3. Carries(Idle, owner')
  BY DEF Carries, Idle
<1>4. CASE UNCHANGED <<orgVars, requestVars>>
  BY <1>0, <1>4 DEF RequestsCarry, Carries, orgVars, orgRows, requestVars
<1>5. ASSUME NEW r \in Slots, OrganizationHandlers(r) PROVE RequestsCarry'
  <2>1. ASSUME NEW i, NEW u, NEW t, NEW office
        PROVE  /\ Carries(Asked("create", i, u, u, "owner"), owner')
               /\ Carries(Asked("update", i, u, u, "none"), owner')
               /\ Carries(Asked("delete", i, u, u, "none"), owner')
               /\ Carries(Asked("expel", i, u, t, "none"), owner')
               /\ office \in Role => Carries(Asked("invite", i, u, t, office), owner')
    BY DEF Carries, Asked
  <2>2. \E q : Begin(r, q) /\ Carries(q, owner')
    BY <1>5, <2>1
    DEF OrganizationHandlers, HandleCreate, HandleUpdate, HandleDelete, HandleRemoveMember,
        HandleAddMember
  <2> QED BY <1>2, <2>2
<1>6. ASSUME NEW r \in Slots, CreateOrganization(r) \/ CreateOwner(r) \/ AddMember(r)
      PROVE  RequestsCarry'
  <2>1. ASSUME NEW label \in {"owner", "grant", "insert"},
               req[r].pc \in {"create", "owner", "invite"},
               label # "insert" => req[r].pc # "invite",
               label = "owner" => req[r].pc = "create"
        PROVE  Carries([req[r] EXCEPT !.pc = label], owner')
    <3>1. req[r] \in OrgRequest /\ Carries(req[r], owner)
      BY <1>0, <2>1
    <3> QED BY <2>1, <3>1 DEF Carries, OrgRequest, Role
  <2> QED
    BY <1>2, <1>3, <1>6, <2>1
    DEF CreateOrganization, CreateOwner, AddMember, Goto, Finish, At
<1>7. ASSUME NEW r \in Slots, GrantRole(r) PROVE RequestsCarry'
  <2>1. req[r] \in OrgRequest /\ Carries(req[r], owner) /\ req[r].pc = "grant"
    BY <1>0, <1>7 DEF GrantRole, At
  <2>2. 0 < Len(Actions(req[r].role))
    BY <2>1, ActionsOfRoles DEF Carries
  <2>3. Carries([req[r] EXCEPT !.pc = "policies"], owner')
    BY <2>1, <2>2 DEF Carries, OrgRequest
  <2> QED BY <1>2, <1>7, <2>3 DEF GrantRole
<1>8. ASSUME NEW r \in Slots, GrantPolicies(r) PROVE RequestsCarry'
  <2>1. req[r] \in OrgRequest /\ Carries(req[r], owner) /\ req[r].pc = "policies"
    BY <1>0, <1>8 DEF GrantPolicies, At
  <2>2. /\ req[r].added + 1 <= Len(Actions(req[r].role))
        /\ Len(Actions(req[r].role)) \in 1..4
    <3>1. req[r].role \in Role /\ req[r].added < Len(Actions(req[r].role))
      BY <2>1 DEF Carries
    <3>2. Len(Actions(req[r].role)) \in 1..4
      BY <3>1, ActionsOfRoles
    <3>3. req[r].added \in 0..4
      BY <2>1, OrgRequestsAreTyped
    <3> QED BY <3>1, <3>2, <3>3
  <2>3. req[r].added + 1 # Len(Actions(req[r].role))
          => Carries([req[r] EXCEPT !.added = req[r].added + 1], owner')
    BY <2>1, <2>2 DEF Carries, OrgRequest
  <2> QED BY <1>2, <1>3, <1>8, <2>3 DEF GrantPolicies
<1>9. ASSUME NEW r \in Slots, UpdateOrganization(r) \/ CheckSlug(r) \/ DeleteOrganization(r)
      PROVE  RequestsCarry'
  <2>1. req[r] \in OrgRequest
    BY <1>0, <1>9 DEF UpdateOrganization, CheckSlug, DeleteOrganization, At
  <2>2. /\ Carries([req[r] EXCEPT !.pc = "slug", !.copy = members], owner')
        /\ Carries([req[r] EXCEPT !.pc = "save"], owner')
        /\ Carries([req[r] EXCEPT !.pc = "drop"], owner')
    BY <2>1 DEF Carries, OrgRequest
  <2> QED
    BY <1>2, <1>3, <1>9, <2>2
    DEF UpdateOrganization, CheckSlug, DeleteOrganization, Goto, Finish
<1>10. ASSUME NEW r \in Slots, UpdateSave(r) \/ DeleteRow(r) PROVE RequestsCarry'
  BY <1>2, <1>3, <1>10 DEF UpdateSave, DeleteRow, Finish
<1>11. ASSUME NEW r \in Slots, AddMemberRow(r) PROVE RequestsCarry'
  <2>1. req[r] \in OrgRequest /\ Carries(req[r], owner) /\ req[r].pc = "insert"
    BY <1>0, <1>11 DEF AddMemberRow, At
  <2>2. Carries([req[r] EXCEPT !.pc = "grant"], owner')
    BY <2>1 DEF Carries, OrgRequest
  <2> QED BY <1>2, <1>3, <1>11, <2>2 DEF AddMemberRow, Goto, Finish
<1>12. ASSUME NEW r \in Slots, RemoveMember(r) PROVE RequestsCarry'
  <2>1. req[r] \in OrgRequest /\ req[r].target \in Users /\ UNCHANGED owner
    BY <1>0, <1>12, OrgRequestsAreTyped DEF RemoveMember, At, orgVars, orgRows
  <2>2. Removable(req[r].target)
          => members[req[r].target] \in Role /\ req[r].target # owner
    BY <2>1 DEF Removable, IsMember, OrganizationsTypeOK
  <2>3. Removable(req[r].target)
          => Carries([req[r] EXCEPT !.pc = "unrow", !.role = members[req[r].target]], owner')
    BY <2>1, <2>2 DEF Carries, OrgRequest
  <2> QED BY <1>2, <1>3, <1>12, <2>3 DEF RemoveMember, Finish
<1>13. ASSUME NEW r \in Slots, RemoveMemberRow(r) PROVE RequestsCarry'
  <2>1. req[r] \in OrgRequest /\ Carries(req[r], owner) /\ req[r].pc = "unrow" /\ UNCHANGED owner
    BY <1>0, <1>13 DEF RemoveMemberRow, At
  <2>2. Carries([req[r] EXCEPT !.pc = "revoke"], owner')
    BY <2>1 DEF Carries, OrgRequest
  <2> QED BY <1>2, <1>3, <1>13, <2>2 DEF RemoveMemberRow, Goto, Finish
<1>14. ASSUME NEW r \in Slots, RevokeRole(r) PROVE RequestsCarry'
  BY <1>2, <1>3, <1>14 DEF RevokeRole, Finish
<1>15. ASSUME NEW r \in Slots, Abort(r), UNCHANGED orgVars PROVE RequestsCarry'
  BY <1>2, <1>3, <1>15 DEF Abort
<1>16. ASSUME NEW i \in Instances, LoadPolicy(i) PROVE RequestsCarry'
  BY <1>0, <1>16 DEF LoadPolicy, RequestsCarry, Carries, orgRows, requestVars
<1> QED
  BY <1>4, <1>5, <1>6, <1>7, <1>8, <1>9, <1>10, <1>11, <1>12, <1>13, <1>14, <1>15, <1>16
  DEF OrganizationsNext, OrganizationSteps

\* Nobody may do anything before the organization is founded, and each step keeps it so.
LEMMA NothingBeforeFounding ==
    ASSUME OrganizationsTypeOK, RequestsCarry, FoundedFirst, MemoryIsStored,
           [OrganizationsNext]_<<orgVars, requestVars>>
    PROVE  FoundedFirst'
<1> DEFINE Early == {"idle", "create", "owner", "update", "delete", "invite", "expel"}
<1>0. /\ req \in [Slots -> OrgRequest \cup {Idle}]
      /\ \A r \in Slots : req[r].pc # "idle" => req[r] \in OrgRequest
  BY OrgInProgress DEF OrganizationsTypeOK, RequestsAre
<1>1. ASSUME ~Founded, NEW i \in Instances, NEW u, NEW act PROVE ~Enforce(i, u, act)
  BY <1>1 DEF FoundedFirst, MemoryIsStored, Enforce
<1>2. ASSUME UNCHANGED <<org, owner>>, NEW r \in Slots,
             \A s \in Others(r) : req'[s] = req[s],
             At(r, "owner")' => At(r, "owner") /\ req'[r] = req[r],
             At(r, "owner") /\ ~At(r, "owner")' => \A s \in Slots : ~At(s, "owner")',
             ~Founded /\ ~Founded' => UNCHANGED <<members, writers>> /\ req'[r].pc \in Early
      PROVE  FoundedFirst'
  BY <1>2 DEF FoundedFirst, Founded, At, Others
<1>3. CASE UNCHANGED <<orgVars, requestVars>>
  BY <1>3 DEF FoundedFirst, Founded, At, Others, orgVars, orgRows, orgPolicies, requestVars
<1>4. ASSUME NEW r \in Slots, OrganizationHandlers(r) PROVE FoundedFirst'
  <2>1. \A label, i, u, t, office : Asked(label, i, u, t, office).pc = label
    BY DEF Asked
  <2>2. \E q : Begin(r, q) /\ UNCHANGED orgVars /\ q.pc \in Early \ {"owner"}
    BY <1>4, <2>1
    DEF OrganizationHandlers, HandleCreate, HandleUpdate, HandleDelete, HandleRemoveMember,
        HandleAddMember
  <2> QED
    BY <1>0, <1>2, <2>2 DEF Begin, At, Others, orgVars, orgRows, orgPolicies
<1>5. ASSUME NEW r \in Slots, CreateOrganization(r) PROVE FoundedFirst'
  <2>1. CASE org = "none"
    <3>1. /\ org' = "live" /\ owner' = req[r].user /\ req[r].user \in Users
          /\ req'[r].pc = "owner" /\ req'[r].user = req[r].user
          /\ \A s \in Others(r) : req'[s] = req[s]
          /\ UNCHANGED <<members, writers>>
      <4>1. req[r] \in OrgRequest
        BY <1>0, <1>5 DEF CreateOrganization, At
      <4> QED
        BY <1>0, <1>5, <2>1, <4>1
        DEF CreateOrganization, InsertOrganization, Goto, Become, Others, orgPolicies, OrgRequest
    <3>2. /\ \A s \in Slots : ~At(s, "owner")
          /\ ~Founded
      BY <2>1 DEF FoundedFirst, Founded
    <3> QED BY <3>1, <3>2 DEF FoundedFirst, Founded, At, Others
  <2>2. CASE org # "none"
    <3>1. /\ UNCHANGED <<org, owner, members, writers>> /\ req'[r] = Idle
          /\ \A s \in Others(r) : req'[s] = req[s]
          /\ ~At(r, "owner")
      BY <1>0, <1>5, <2>2 DEF CreateOrganization, Finish, Become, Others, At, orgPolicies
    <3> QED BY <1>2, <3>1 DEF At, Idle
  <2> QED BY <2>1, <2>2
<1>6. ASSUME NEW r \in Slots, CreateOwner(r) PROVE FoundedFirst'
  <2>1. /\ \A s \in Others(r) : req'[s] = req[s]
        /\ UNCHANGED <<org, owner>> /\ ~At(r, "owner")' /\ At(r, "owner")
    <3>1. req[r] \in OrgRequest
      BY <1>0, <1>6 DEF CreateOwner, At
    <3> QED
      BY <1>0, <1>6, <3>1 DEF CreateOwner, Goto, Become, Others, At, OrgRequest
  <2>2. \A s \in Slots : ~At(s, "owner")'
    BY <2>1 DEF FoundedFirst, At, Others
  <2>3. Founded'
    BY <2>1, <2>2 DEF Founded, FoundedFirst
  <2> QED BY <1>2, <2>1, <2>2, <2>3
<1>7. ASSUME NEW r \in Slots, NEW q, Become(r, q) \/ Stumble(r, q), UNCHANGED <<org, owner>>,
             q.pc # "owner", ~At(r, "owner"),
             Founded \/ (UNCHANGED <<members, writers>> /\ q.pc \in Early)
      PROVE  FoundedFirst'
  <2>1. req'[r] = q /\ \A s \in Others(r) : req'[s] = req[s]
    BY <1>0, <1>7 DEF Become, Stumble, Others
  <2> QED BY <1>2, <1>7, <2>1 DEF At
<1>8. ASSUME NEW r \in Slots, req[r].pc \notin Early PROVE Founded
  BY <1>8 DEF FoundedFirst
<1>9. ASSUME NEW r \in Slots, GrantRole(r) \/ GrantPolicies(r) \/ CheckSlug(r)
             \/ UpdateSave(r) \/ DeleteRow(r) \/ AddMemberRow(r) \/ RemoveMemberRow(r)
             \/ RevokeRole(r)
      PROVE  FoundedFirst'
  <2>1. Founded /\ req[r] \in OrgRequest /\ ~At(r, "owner")
    BY <1>0, <1>8, <1>9
    DEF GrantRole, GrantPolicies, CheckSlug, UpdateSave, DeleteRow, AddMemberRow,
        RemoveMemberRow, RevokeRole, At
  <2>2. org # "none"
    BY <2>1 DEF Founded
  <2>3. org' # "none" /\ UNCHANGED owner
    BY <1>9, <2>2
    DEF GrantRole, GrantPolicies, CheckSlug, UpdateSave, DeleteRow, AddMemberRow,
        RemoveMemberRow, RevokeRole, SaveOrganization, SoftDelete, orgVars, orgRows
  <2>4. \A s \in Slots : ~At(s, "owner")'
    <3>1. \E q : (Become(r, q) \/ Stumble(r, q)) /\ q.pc # "owner"
      <4>1. \A label \in {"policies", "save", "grant", "revoke"} :
                [req[r] EXCEPT !.pc = label].pc # "owner"
        BY <2>1 DEF OrgRequest
      <4>2. GrantPolicies(r) => [req[r] EXCEPT !.added = req[r].added + 1].pc # "owner"
        BY <2>1 DEF OrgRequest, GrantPolicies, At
      <4> QED
        BY <1>9, <4>1, <4>2
        DEF GrantRole, GrantPolicies, CheckSlug, UpdateSave, DeleteRow, AddMemberRow,
            RemoveMemberRow, RevokeRole, Goto, Finish, Idle
    <3> QED BY <1>0, <2>1, <3>1 DEF Become, Stumble, Founded, At
  <2> QED BY <2>3, <2>4, <2>1 DEF FoundedFirst, Founded, At
<1>10. ASSUME NEW r \in Slots, UpdateOrganization(r) \/ DeleteOrganization(r) \/ AddMember(r)
                \/ RemoveMember(r)
       PROVE  FoundedFirst'
  <2>1. req[r] \in OrgRequest /\ req[r].at \in Instances /\ UNCHANGED orgVars /\ ~At(r, "owner")
    BY <1>0, <1>10, OrgRequestsAreTyped
    DEF UpdateOrganization, DeleteOrganization, AddMember, RemoveMember, At
  <2>2. \/ Become(r, Idle)
        \/ Founded /\ \E q : Become(r, q) /\ q.pc # "owner"
    <3>1. /\ [req[r] EXCEPT !.pc = "slug", !.copy = members].pc # "owner"
          /\ [req[r] EXCEPT !.pc = "drop"].pc # "owner"
          /\ [req[r] EXCEPT !.pc = "insert"].pc # "owner"
          /\ [req[r] EXCEPT !.pc = "unrow", !.role = members[req[r].target]].pc # "owner"
      BY <2>1 DEF OrgRequest
    <3>2. Become(r, Idle) \/ \E u, act : Enforce(req[r].at, u, act)
      BY <1>10
      DEF UpdateOrganization, DeleteOrganization, AddMember, RemoveMember, Finish
    <3>3. CASE Founded
      BY <1>10, <3>1, <3>3
      DEF UpdateOrganization, DeleteOrganization, AddMember, RemoveMember, Goto, Finish
    <3>4. CASE ~Founded
      BY <1>1, <2>1, <3>2, <3>4
    <3> QED BY <3>3, <3>4
  <2>3. CASE Become(r, Idle)
    BY <1>7, <2>1, <2>3 DEF orgVars, orgRows, orgPolicies, Idle
  <2>4. ASSUME Founded, NEW q, Become(r, q), q.pc # "owner" PROVE FoundedFirst'
    <3>1. UNCHANGED <<org, owner>>
      BY <2>1 DEF orgVars, orgRows
    <3>2. req'[r] = q /\ \A s \in Others(r) : req'[s] = req[s]
      BY <1>0, <2>4 DEF Become, Others
    <3>3. ~At(r, "owner")'
      BY <2>4, <3>2 DEF At
    <3> QED BY <1>2, <2>1, <2>4, <3>1, <3>2, <3>3
  <2> QED BY <2>2, <2>3, <2>4
<1>11. ASSUME NEW r \in Slots, Abort(r), UNCHANGED orgVars PROVE FoundedFirst'
  <2>1. /\ UNCHANGED <<org, owner, members, writers>> /\ req'[r] = Idle
        /\ \A s \in Others(r) : req'[s] = req[s]
    BY <1>0, <1>11 DEF Abort, Stumble, Others, orgVars, orgRows, orgPolicies
  <2> QED BY <2>1 DEF FoundedFirst, Founded, At, Others, Idle
<1>12. ASSUME NEW i \in Instances, LoadPolicy(i) PROVE FoundedFirst'
  BY <1>12 DEF LoadPolicy, FoundedFirst, Founded, At, Others, orgRows, requestVars
<1> QED
  BY <1>3, <1>4, <1>5, <1>6, <1>9, <1>10, <1>11, <1>12 DEF OrganizationsNext, OrganizationSteps

-----------------------------------------------------------------------------
(* What is in memory is stored *)

\* The enforcer writes what it has in memory, and takes back no role of the owner.
LEMMA EnforcerStores ==
    ASSUME OrganizationsTypeOK, MemoryIsStored, UNCHANGED owner,
           NEW i \in Instances, NEW u \in Users, NEW office \in Role,
           \/ AddRoleForUser(i, u, office)
           \/ \E act : AddPolicy(i, office, act)
           \/ RemoveRoleForUser(i, u, office) /\ u # owner
    PROVE  MemoryIsStored'
<1>1. IsFiniteSet(writers') /\ writers' # {}
  <2>1. writers' = writers \cup {i}
    BY DEF AddRoleForUser, AddPolicy, RemoveRoleForUser
  <2>2. IsFiniteSet(writers \cup {i})
    BY FS_AddElement DEF MemoryIsStored
  <2> QED BY <2>1, <2>2
<1>2. stored \in Policies /\ memory \in [Instances -> Policies]
  BY DEF OrganizationsTypeOK
<1>3. ASSUME NEW j \in Instances
      PROVE  /\ memory'[j].p \subseteq stored'.p
             /\ <<owner, "owner">> \in memory'[j].g => <<owner, "owner">> \in stored'.g
  <2>1. /\ memory[j].p \subseteq stored.p
        /\ <<owner, "owner">> \in memory[j].g => <<owner, "owner">> \in stored.g
    BY DEF MemoryIsStored
  <2>2. CASE AddRoleForUser(i, u, office)
    BY <1>2, <2>1, <2>2 DEF AddRoleForUser, Policies
  <2>3. CASE \E act : AddPolicy(i, office, act)
    BY <1>2, <2>1, <2>3 DEF AddPolicy, Policies
  <2>4. CASE RemoveRoleForUser(i, u, office) /\ u # owner
    BY <1>2, <2>1, <2>4 DEF RemoveRoleForUser, Policies
  <2> QED BY <2>2, <2>3, <2>4
<1> QED BY <1>1, <1>3 DEF MemoryIsStored

\* The statements that leave the policies alone.
LEMMA PoliciesStay ==
    ASSUME [OrganizationsNext]_<<orgVars, requestVars>>
    PROVE  \/ UNCHANGED orgPolicies
           \/ \E i \in Instances : LoadPolicy(i)
           \/ \E r \in Slots : GrantRole(r) \/ GrantPolicies(r) \/ RevokeRole(r)
  BY ZenonT(40)
     DEF OrganizationsNext, OrganizationSteps, OrganizationHandlers, HandleCreate, HandleUpdate,
         HandleDelete, HandleRemoveMember, HandleAddMember, CreateOrganization, CreateOwner,
         UpdateOrganization, CheckSlug, UpdateSave, DeleteOrganization,
         DeleteRow, AddMember, AddMemberRow, RemoveMember, RemoveMemberRow,
         orgVars, orgRows, orgPolicies

\* Each step keeps what is in memory stored.
LEMMA MemoryStaysStored ==
    ASSUME OrganizationsTypeOK, RequestsCarry, FoundedFirst, MemoryIsStored,
           [OrganizationsNext]_<<orgVars, requestVars>>
    PROVE  MemoryIsStored'
<1>1. CASE UNCHANGED orgPolicies
  <2>1. CASE UNCHANGED owner
    BY <1>1, <2>1 DEF MemoryIsStored, orgPolicies
  <2>2. CASE writers = {}
    BY <1>1, <2>2 DEF MemoryIsStored, orgPolicies
  <2> QED BY <2>1, <2>2, OwnerIsKept
<1>2. ASSUME NEW i \in Instances, LoadPolicy(i) PROVE MemoryIsStored'
  <2>1. /\ UNCHANGED <<owner, stored, writers>>
        /\ memory' = [memory EXCEPT ![i] = stored]
    BY <1>2 DEF LoadPolicy, orgRows
  <2>2. writers = {} => stored.g = {} /\ stored.p = {}
    BY DEF MemoryIsStored, NoPolicies
  <2> QED BY <2>1, <2>2 DEF MemoryIsStored, OrganizationsTypeOK
<1>3. ASSUME NEW r \in Slots, GrantRole(r) \/ GrantPolicies(r) \/ RevokeRole(r)
      PROVE  MemoryIsStored'
  <2>1. /\ req[r].at \in Instances /\ req[r].target \in Users /\ req[r].role \in Role
        /\ UNCHANGED owner
        /\ RevokeRole(r) => req[r].target # owner
    <3>1. req[r] \in OrgRequest
      BY <1>3, OrgInProgress DEF GrantRole, GrantPolicies, RevokeRole, At
    <3> QED
      BY <1>3, <3>1, OrgRequestsAreTyped
      DEF GrantRole, GrantPolicies, RevokeRole, At, RequestsCarry, orgRows
  <2>2. CASE UNCHANGED orgPolicies
    BY <2>1, <2>2 DEF MemoryIsStored, orgPolicies
  <2>3. CASE ~UNCHANGED orgPolicies
    <3>1. \/ AddRoleForUser(req[r].at, req[r].target, req[r].role)
          \/ \E act : AddPolicy(req[r].at, req[r].role, act)
          \/ RemoveRoleForUser(req[r].at, req[r].target, req[r].role)
               /\ req[r].target # owner
      BY <1>3, <2>1, <2>3 DEF GrantRole, GrantPolicies, RevokeRole
    <3> QED BY <2>1, <3>1, EnforcerStores
  <2> QED BY <2>2, <2>3
<1> QED BY <1>1, <1>2, <1>3, PoliciesStay

-----------------------------------------------------------------------------
(* The owner gets his role *)

\* A request that is not the one that moves stays as it is.
LEMMA OneOrganizationMoves ==
    ASSUME OrganizationsTypeOK, [OrganizationsNext]_<<orgVars, requestVars>>,
           NEW r \in Slots, req'[r] # req[r]
    PROVE  OrganizationSteps(r)
<1>1. req \in [Slots -> OrgRequest \cup {Idle}]
  BY DEF OrganizationsTypeOK, RequestsAre
<1>2. ASSUME NEW s \in Slots, OrganizationSteps(s), s # r PROVE FALSE
  BY <1>1, <1>2
  DEF OrganizationSteps, OrganizationHandlers, HandleCreate, HandleUpdate, HandleDelete,
      HandleRemoveMember, HandleAddMember, CreateOrganization, CreateOwner, GrantRole,
      GrantPolicies, UpdateOrganization, CheckSlug, UpdateSave, DeleteOrganization,
      DeleteRow, AddMember, AddMemberRow, RemoveMember, RemoveMemberRow, RevokeRole,
      Abort, Stumble, Begin, Become, Goto, Finish
<1>3. \/ UNCHANGED req
      \/ \E s \in Slots : OrganizationSteps(s)
  BY DEF OrganizationsNext, LoadPolicy, requestVars
<1> QED BY <1>2, <1>3

\* A statement that fails is counted for good.
LEMMA FaultsAreCounted ==
    ASSUME OrganizationsTypeOK, [OrganizationsNext]_<<orgVars, requestVars>>, faults' = 0
    PROVE  faults = 0
<1>1. faults \in Nat
  BY RequestBoundsAssumption DEF OrganizationsTypeOK, RequestsAre
<1>2. ASSUME NEW r \in Slots, OrganizationSteps(r)
      PROVE  UNCHANGED faults \/ faults' = faults + 1
  <2>1. CASE OrganizationHandlers(r)
    BY <2>1
    DEF OrganizationHandlers, HandleCreate, HandleUpdate, HandleDelete, HandleRemoveMember,
        HandleAddMember, Begin
  <2>2. CASE GrantRole(r) \/ GrantPolicies(r) \/ RevokeRole(r) \/ Abort(r)
    BY <2>2 DEF GrantRole, GrantPolicies, RevokeRole, Abort, Stumble, Become, Finish
  <2>3. CASE CreateOrganization(r) \/ CreateOwner(r) \/ UpdateOrganization(r) \/ CheckSlug(r)
               \/ UpdateSave(r)
    BY <2>3
    DEF CreateOrganization, CreateOwner, UpdateOrganization, CheckSlug, UpdateSave, Goto,
        Finish, Become
  <2>4. CASE DeleteOrganization(r) \/ DeleteRow(r) \/ AddMember(r) \/ AddMemberRow(r)
               \/ RemoveMember(r) \/ RemoveMemberRow(r)
    BY <2>4
    DEF DeleteOrganization, DeleteRow, AddMember, AddMemberRow, RemoveMember, RemoveMemberRow,
        Goto, Finish, Become
  <2> QED BY <1>2, <2>1, <2>2, <2>3, <2>4 DEF OrganizationSteps
<1>3. \/ UNCHANGED faults
      \/ \E r \in Slots : OrganizationSteps(r)
  BY DEF OrganizationsNext, LoadPolicy, requestVars
<1> QED BY <1>1, <1>2, <1>3

\* What a request does is what comes next.
LEMMA NextStatement ==
    ASSUME NEW r \in Slots, OrganizationSteps(r), faults = 0, faults' = 0
    PROVE  /\ req[r].pc = "owner" => CreateOwner(r)
           /\ req[r].pc = "grant" => GrantRole(r)
           /\ req[r].pc = "policies" => GrantPolicies(r)
           /\ req[r].pc = "unrow" => RemoveMemberRow(r)
           /\ req[r].pc = "revoke" => RevokeRole(r)
<1>1. ASSUME OrganizationHandlers(r) PROVE req[r].pc = "idle"
  BY <1>1
  DEF OrganizationHandlers, HandleCreate, HandleUpdate, HandleDelete, HandleRemoveMember,
      HandleAddMember, Begin, At
<1>2. ~Abort(r)
  BY DEF Abort, Stumble
<1>3. /\ CreateOrganization(r) => req[r].pc = "create"
      /\ CreateOwner(r) => req[r].pc = "owner"
      /\ GrantRole(r) => req[r].pc = "grant"
      /\ GrantPolicies(r) => req[r].pc = "policies"
      /\ UpdateOrganization(r) => req[r].pc = "update"
      /\ CheckSlug(r) => req[r].pc = "slug"
      /\ UpdateSave(r) => req[r].pc = "save"
  BY DEF CreateOrganization, CreateOwner, GrantRole, GrantPolicies, UpdateOrganization,
         CheckSlug, UpdateSave, At
<1>4. /\ DeleteOrganization(r) => req[r].pc = "delete"
      /\ DeleteRow(r) => req[r].pc = "drop"
      /\ AddMember(r) => req[r].pc = "invite"
      /\ AddMemberRow(r) => req[r].pc = "insert"
      /\ RemoveMember(r) => req[r].pc = "expel"
      /\ RemoveMemberRow(r) => req[r].pc = "unrow"
      /\ RevokeRole(r) => req[r].pc = "revoke"
  BY DEF DeleteOrganization, DeleteRow, AddMember, AddMemberRow, RemoveMember,
         RemoveMemberRow, RevokeRole, At
<1> QED BY <1>1, <1>2, <1>3, <1>4 DEF OrganizationSteps

\* No step takes the role of the owner, or what it may do, from the memory of an instance.
LEMMA OwnerRoleIsKept ==
    ASSUME OrganizationsTypeOK, RequestsCarry, MemoryIsStored, UNCHANGED owner,
           [OrganizationsNext]_<<orgVars, requestVars>>, NEW i \in Instances
    PROVE  /\ <<owner, "owner">> \in memory[i].g => <<owner, "owner">> \in memory'[i].g
           /\ <<"owner", "manage">> \in memory[i].p => <<"owner", "manage">> \in memory'[i].p
<1>0. stored \in Policies /\ memory \in [Instances -> Policies]
  BY DEF OrganizationsTypeOK
<1>1. CASE UNCHANGED orgPolicies
  BY <1>1 DEF orgPolicies
<1>2. ASSUME NEW j \in Instances, LoadPolicy(j)
      PROVE  /\ <<owner, "owner">> \in memory[i].g => <<owner, "owner">> \in memory'[i].g
             /\ <<"owner", "manage">> \in memory[i].p => <<"owner", "manage">> \in memory'[i].p
  BY <1>0, <1>2 DEF LoadPolicy, MemoryIsStored
<1>3. ASSUME NEW r \in Slots, GrantRole(r) \/ GrantPolicies(r) \/ RevokeRole(r)
      PROVE  /\ <<owner, "owner">> \in memory[i].g => <<owner, "owner">> \in memory'[i].g
             /\ <<"owner", "manage">> \in memory[i].p => <<"owner", "manage">> \in memory'[i].p
  <2>1. /\ req[r].at \in Instances
        /\ RevokeRole(r) => req[r].target # owner
    <3>1. req[r] \in OrgRequest
      BY <1>3, OrgInProgress DEF GrantRole, GrantPolicies, RevokeRole, At
    <3> QED
      BY <1>3, <3>1, OrgRequestsAreTyped
      DEF GrantRole, GrantPolicies, RevokeRole, At, RequestsCarry
  <2>2. CASE GrantRole(r)
    BY <1>0, <2>1, <2>2 DEF GrantRole, AddRoleForUser, orgPolicies, Policies
  <2>3. CASE GrantPolicies(r)
    BY <1>0, <2>1, <2>3 DEF GrantPolicies, AddPolicy, orgPolicies, Policies
  <2>4. CASE RevokeRole(r)
    BY <1>0, <2>1, <2>4 DEF RevokeRole, RemoveRoleForUser, orgPolicies, Policies
  <2> QED BY <1>3, <2>2, <2>3, <2>4
<1> QED BY <1>1, <1>2, <1>3, PoliciesStay

\* Nothing but the deletion of another row touches the members that are there.
LEMMA OwnerStaysMember ==
    ASSUME OrganizationsTypeOK, RequestsCarry, FoundedFirst, Founded,
           members[owner] = "owner", [OrganizationsNext]_<<orgVars, requestVars>>
    PROVE  UNCHANGED owner /\ members'[owner] = "owner"
<1>1. UNCHANGED owner /\ owner \in Users
  BY OwnerIsKept DEF Founded, FoundedFirst
<1>2. members \in [Users -> Role \cup {"none"}]
  BY DEF OrganizationsTypeOK
<1>3. \/ UNCHANGED members
      \/ \E r \in Slots : UpdateSave(r) \/ AddMemberRow(r) \/ RemoveMemberRow(r)
  BY DEF Founded, OrganizationsNext, OrganizationSteps, OrganizationHandlers, HandleCreate,
         HandleUpdate, HandleDelete, HandleRemoveMember, HandleAddMember,
         CreateOrganization, CreateOwner, GrantRole, GrantPolicies, UpdateOrganization,
         CheckSlug, DeleteOrganization, DeleteRow, AddMember, RemoveMember, RevokeRole,
         LoadPolicy, orgVars, orgRows
<1>4. ASSUME NEW r \in Slots, RemoveMemberRow(r) PROVE members'[owner] = "owner"
  <2>1. req[r].target # owner
    BY <1>4 DEF RemoveMemberRow, RequestsCarry, At
  <2> QED BY <1>1, <1>2, <1>4, <2>1 DEF RemoveMemberRow, DeleteMember
<1>5. ASSUME NEW r \in Slots, UpdateSave(r) \/ AddMemberRow(r) PROVE members'[owner] = "owner"
  BY <1>1, <1>2, <1>5 DEF UpdateSave, SaveOrganization, AddMemberRow, InsertMember, IsMember
<1> QED BY <1>1, <1>3, <1>4, <1>5

\* The request that founded the organization gets on.
LEMMA FounderGetsOn ==
    ASSUME OrganizationsTypeOK, RequestsCarry, MemoryIsStored, OwnerGetsOn, UNCHANGED owner,
           [OrganizationsNext]_<<orgVars, requestVars>>, faults' = 0
    PROVE  OwnerGetsOn'
<1>0. /\ req \in [Slots -> OrgRequest \cup {Idle}]
      /\ \A r \in Slots : req[r].pc # "idle" => req[r] \in OrgRequest
      /\ stored \in Policies /\ memory \in [Instances -> Policies]
      /\ faults = 0
  BY OrgInProgress, FaultsAreCounted DEF OrganizationsTypeOK, RequestsAre
<1>1. ASSUME NEW i \in Instances,
             <<owner, "owner">> \in memory[i].g, <<"owner", "manage">> \in memory[i].p
      PROVE  OwnerGetsOn'
  BY <1>1, OwnerRoleIsKept DEF OwnerGetsOn
<1>2. ASSUME NEW r \in Slots, FounderAt(r, "grant") PROVE OwnerGetsOn'
  <2>1. CASE req'[r] = req[r]
    BY <1>2, <2>1 DEF OwnerGetsOn, FounderAt, At
  <2>2. CASE req'[r] # req[r]
    <3>1. GrantRole(r)
      BY <1>0, <1>2, <2>2, OneOrganizationMoves, NextStatement DEF FounderAt, At
    <3>2. req[r] \in OrgRequest /\ req[r].at \in Instances
      BY <1>0, <1>2, OrgRequestsAreTyped DEF FounderAt, At
    <3>3. /\ AddRoleForUser(req[r].at, owner, "owner")
          /\ req' = [req EXCEPT ![r] = [req[r] EXCEPT !.pc = "policies"]]
      BY <1>0, <1>2, <3>1 DEF GrantRole, Stumble, Become, FounderAt
    <3>4. <<owner, "owner">> \in memory'[req[r].at].g
      BY <1>0, <3>2, <3>3 DEF AddRoleForUser, Policies
    <3>5. /\ req'[r].pc = "policies" /\ req'[r].target = owner /\ req'[r].role = "owner"
          /\ req'[r].added = req[r].added /\ req'[r].at = req[r].at
      BY <1>0, <1>2, <3>2, <3>3 DEF OrgRequest, FounderAt
    <3> QED BY <1>2, <3>4, <3>5 DEF OwnerGetsOn, FounderAt, At
  <2> QED BY <2>1, <2>2
<1>3. ASSUME NEW r \in Slots, FounderAt(r, "policies"), <<owner, "owner">> \in memory[req[r].at].g
      PROVE  OwnerGetsOn'
  <2>0. req[r] \in OrgRequest /\ req[r].at \in Instances /\ req[r].added \in 0..4
    BY <1>0, <1>3, OrgRequestsAreTyped DEF FounderAt, At
  <2>1. <<owner, "owner">> \in memory'[req[r].at].g
    BY <1>3, <2>0, OwnerRoleIsKept
  <2>2. CASE req'[r] = req[r]
    BY <1>3, <2>1, <2>2 DEF OwnerGetsOn, FounderAt, At
  <2>3. CASE req'[r] # req[r]
    <3>1. GrantPolicies(r)
      BY <1>0, <1>3, <2>3, OneOrganizationMoves, NextStatement DEF FounderAt, At
    <3>2. req[r].role = "owner" /\ req[r].added <= 1 /\ req[r].target = owner
      BY <1>3 DEF FounderAt
    <3>3. AddPolicy(req[r].at, "owner", Actions("owner")[req[r].added + 1])
      BY <1>0, <3>1, <3>2 DEF GrantPolicies, Stumble
    <3>4. CASE req[r].added = 1
      <4>1. AddPolicy(req[r].at, "owner", "manage")
        BY <3>3, <3>4, ActionsOfRoles
      <4>2. <<"owner", "manage">> \in memory'[req[r].at].p
        BY <1>0, <2>0, <4>1 DEF AddPolicy, Policies
      <4> QED BY <2>0, <2>1, <4>2 DEF OwnerGetsOn
    <3>5. CASE req[r].added = 0
      <4>1. req' = [req EXCEPT ![r] = [req[r] EXCEPT !.added = 1]]
        BY <1>0, <3>1, <3>2, <3>5, ActionsOfRoles DEF GrantPolicies, Stumble, Become
      <4>2. /\ req'[r].pc = "policies" /\ req'[r].target = owner /\ req'[r].role = "owner"
            /\ req'[r].added = 1 /\ req'[r].at = req[r].at
        BY <1>0, <1>3, <2>0, <4>1 DEF OrgRequest, FounderAt, At
      <4> QED BY <2>1, <4>2 DEF OwnerGetsOn, FounderAt, At
    <3> QED BY <2>0, <3>2, <3>4, <3>5
  <2> QED BY <2>2, <2>3
<1> QED BY <1>1, <1>2, <1>3 DEF OwnerGetsOn

\* Each step keeps the owner served.
LEMMA OwnerStaysServed ==
    ASSUME OrganizationsTypeOK, RequestsCarry, FoundedFirst, MemoryIsStored, OwnerIsServed,
           [OrganizationsNext]_<<orgVars, requestVars>>
    PROVE  OwnerIsServed'
<1> SUFFICES ASSUME Founded', faults' = 0
             PROVE  members'[owner'] = "owner" /\ OwnerGetsOn'
  BY DEF OwnerIsServed
<1>0. /\ req \in [Slots -> OrgRequest \cup {Idle}]
      /\ \A r \in Slots : req[r].pc # "idle" => req[r] \in OrgRequest
      /\ faults = 0
  BY OrgInProgress, FaultsAreCounted DEF OrganizationsTypeOK, RequestsAre
<1>1. CASE Founded
  <2>1. members[owner] = "owner" /\ OwnerGetsOn
    BY <1>0, <1>1 DEF OwnerIsServed
  <2> QED BY <1>1, <2>1, OwnerStaysMember, FounderGetsOn
<1>2. CASE ~Founded
  <2>1. \E r \in Slots : CreateOwner(r)
    <3>1. ASSUME org = "none" PROVE FALSE
      <4>1. PICK r \in Slots : CreateOrganization(r)
        BY <3>1
        DEF Founded, OrganizationsNext, OrganizationSteps, OrganizationHandlers, HandleCreate,
            HandleUpdate, HandleDelete, HandleRemoveMember, HandleAddMember,
            CreateOwner, GrantRole, GrantPolicies, UpdateOrganization,
            CheckSlug, UpdateSave, DeleteOrganization, DeleteRow, AddMember, AddMemberRow,
            RemoveMember, RemoveMemberRow, RevokeRole, LoadPolicy, orgVars, orgRows,
            FoundedFirst, At
      <4>2. req[r] \in OrgRequest
        BY <1>0, <4>1 DEF CreateOrganization, At
      <4> QED
        BY <1>0, <3>1, <4>1, <4>2
        DEF CreateOrganization, Goto, Become, Founded, At, OrgRequest
    <3>2. PICK r \in Slots : At(r, "owner")
      BY <1>2, <3>1 DEF Founded
    <3>3. req'[r] # req[r]
      BY <3>2 DEF Founded, At
    <3> QED BY <1>0, <3>2, <3>3, OneOrganizationMoves, NextStatement DEF At
  <2>2. PICK r \in Slots : CreateOwner(r)
    BY <2>1
  <2>3. /\ req[r] \in OrgRequest /\ req[r].user = owner /\ owner \in Users
        /\ req[r].target = owner /\ req[r].role = "owner" /\ req[r].added = 0
    BY <1>0, <2>2, OrgRequestsAreTyped DEF CreateOwner, At, FoundedFirst, RequestsCarry
  <2>4. members'[owner'] = "owner"
    BY <2>2, <2>3 DEF CreateOwner, InsertMember, OrganizationsTypeOK
  <2>5. FounderAt(r, "grant")'
    BY <1>0, <2>2, <2>3 DEF CreateOwner, Goto, Become, FounderAt, At, OrgRequest
  <2> QED BY <2>4, <2>5 DEF OwnerGetsOn
<1> QED BY <1>1, <1>2

-----------------------------------------------------------------------------
(* Rows and roles of the members *)

\* What has crossed or failed, and who has written, stays on record.
LEMMA CleanBefore ==
    ASSUME OrganizationsTypeOK, [OrganizationsNext]_<<orgVars, requestVars>>, Clean'
    PROVE  Clean /\ faults = 0 /\ faults' = 0
<1>1. faults = 0 /\ faults' = 0
  BY FaultsAreCounted DEF Clean
<1>2. writers \subseteq writers'
  <2>1. CASE UNCHANGED orgPolicies
    BY <2>1 DEF orgPolicies
  <2>2. ASSUME NEW i \in Instances, LoadPolicy(i) PROVE writers \subseteq writers'
    BY <2>2 DEF LoadPolicy
  <2>3. ASSUME NEW r \in Slots, GrantRole(r) \/ GrantPolicies(r) \/ RevokeRole(r)
        PROVE  writers \subseteq writers'
    BY <2>3
    DEF GrantRole, GrantPolicies, RevokeRole, AddRoleForUser, AddPolicy, RemoveRoleForUser,
        orgPolicies
  <2> QED BY <2>1, <2>2, <2>3, PoliciesStay
<1>3. crossed => crossed'
  <2>1. ASSUME NEW r \in Slots, OrganizationSteps(r), crossed PROVE crossed'
    <3>1. CASE OrganizationHandlers(r)
      BY <2>1, <3>1
      DEF OrganizationHandlers, HandleCreate, HandleUpdate, HandleDelete, HandleRemoveMember,
          HandleAddMember, orgVars
    <3>2. CASE UpdateSave(r) \/ AddMemberRow(r) \/ RemoveMemberRow(r)
      BY <2>1, <3>2 DEF UpdateSave, AddMemberRow, RemoveMemberRow, Cross
    <3>3. CASE ~OrganizationHandlers(r) /\ ~UpdateSave(r) /\ ~AddMemberRow(r)
                 /\ ~RemoveMemberRow(r)
      BY <2>1, <3>3
      DEF OrganizationSteps, CreateOrganization, CreateOwner, GrantRole, GrantPolicies,
          UpdateOrganization, CheckSlug, DeleteOrganization, DeleteRow, AddMember,
          RemoveMember, RevokeRole, orgVars
    <3> QED BY <3>1, <3>2, <3>3
  <2>2. \/ UNCHANGED crossed
        \/ \E r \in Slots : OrganizationSteps(r)
    BY DEF OrganizationsNext, LoadPolicy, orgVars
  <2> QED BY <2>1, <2>2
<1> QED BY <1>1, <1>2, <1>3 DEF Clean

\* While one instance writes, it has in memory what is stored.
LEMMA WriterIsUpToDate ==
    ASSUME OrganizationsTypeOK, MemoryIsStored, Clean, RolesAreFollowed,
           NEW i \in Instances, \A j \in writers : j = i
    PROVE  memory[i] = stored
<1>1. CASE i \in writers
  BY <1>1 DEF RolesAreFollowed
<1>2. CASE i \notin writers
  <2>1. writers = {}
    BY <1>2
  <2>2. /\ stored = NoPolicies /\ memory[i].g = {} /\ memory[i].p = {}
        /\ memory[i] \in Policies
    BY <2>1 DEF MemoryIsStored, OrganizationsTypeOK
  <2> QED BY <2>2 DEF Policies, NoPolicies
<1> QED BY <1>1, <1>2

\* The instance that writes keeps up with what is stored.
LEMMA WritersStayUpToDate ==
    ASSUME OrganizationsTypeOK, RequestsCarry, MemoryIsStored, RolesAreFollowed,
           [OrganizationsNext]_<<orgVars, requestVars>>, Clean'
    PROVE  \A i \in writers' : memory'[i] = stored'
<1>0. /\ Clean /\ stored \in Policies /\ memory \in [Instances -> Policies]
      /\ writers \subseteq Instances
      /\ \A i \in writers : memory[i] = stored
  BY CleanBefore DEF OrganizationsTypeOK, RolesAreFollowed
<1>1. CASE UNCHANGED orgPolicies
  BY <1>0, <1>1 DEF orgPolicies
<1>2. ASSUME NEW i \in Instances, LoadPolicy(i)
      PROVE  \A j \in writers' : memory'[j] = stored'
  BY <1>0, <1>2 DEF LoadPolicy
<1>3. ASSUME NEW i \in Instances, NEW u \in Users, NEW office \in Role,
             AddRoleForUser(i, u, office) \/ RemoveRoleForUser(i, u, office)
               \/ \E act : AddPolicy(i, office, act)
      PROVE  \A j \in writers' : memory'[j] = stored'
  <2>1. writers' = writers \cup {i}
    BY <1>3 DEF AddRoleForUser, RemoveRoleForUser, AddPolicy
  <2>2. \A j \in writers' : j = i
    BY <2>1 DEF Clean
  <2>3. memory[i] = stored
    BY <1>0, <2>1, <2>2, WriterIsUpToDate
  <2>4. memory'[i] = stored'
    <3>1. CASE AddRoleForUser(i, u, office)
      BY <1>0, <2>3, <3>1 DEF AddRoleForUser
    <3>2. CASE RemoveRoleForUser(i, u, office)
      BY <1>0, <2>3, <3>2 DEF RemoveRoleForUser
    <3>3. CASE \E act : AddPolicy(i, office, act)
      BY <1>0, <2>3, <3>3 DEF AddPolicy
    <3> QED BY <1>3, <3>1, <3>2, <3>3
  <2> QED BY <2>2, <2>4
<1>4. ASSUME NEW r \in Slots, GrantRole(r) \/ GrantPolicies(r) \/ RevokeRole(r)
      PROVE  \A j \in writers' : memory'[j] = stored'
  <2>1. /\ req[r].at \in Instances /\ req[r].target \in Users /\ req[r].role \in Role
    <3>1. req[r] \in OrgRequest
      BY <1>4, OrgInProgress DEF GrantRole, GrantPolicies, RevokeRole, At
    <3> QED
      BY <1>4, <3>1, OrgRequestsAreTyped
      DEF GrantRole, GrantPolicies, RevokeRole, At, RequestsCarry
  <2> QED BY <1>1, <1>3, <1>4, <2>1 DEF GrantRole, GrantPolicies, RevokeRole
<1> QED BY <1>1, <1>2, <1>4, PoliciesStay

\* Rows and roles agree, and a row about to be deleted is as it was read.
RowsFollow ==
    /\ \A u \in Users : RoleFollows(u)
    /\ \A r \in Slots : At(r, "unrow") => members[req[r].target] = req[r].role

\* A step of a request that is not between a row and its role, over the rows and roles.
LEMMA ElsewhereFollows ==
    ASSUME RowsFollow, NEW r \in Slots, UNCHANGED members, stored'.g = stored.g,
           \A s \in Others(r) : req'[s] = req[s],
           req[r].pc \notin {"grant", "revoke"}, req'[r].pc \notin {"grant", "revoke"},
           At(r, "unrow")' => members[req'[r].target] = req'[r].role
    PROVE  RowsFollow'
<1>1. ASSUME NEW u \in Users PROVE RoleFollows(u)'
  <2>1. On(u)' = On(u) /\ r \notin On(u) /\ \A s \in On(u) : req'[s] = req[s]
    BY DEF On, Others
  <2>2. RoleFollows(u)
    BY DEF RowsFollow
  <2> QED BY <2>1, <2>2 DEF RoleFollows, At
<1>2. ASSUME NEW s \in Slots, At(s, "unrow")' PROVE members'[req'[s].target] = req'[s].role
  BY <1>2 DEF RowsFollow, At, Others
<1> QED BY <1>1, <1>2 DEF RowsFollow, At

\* A member inserted, to whom no other request is at work.
LEMMA InsertionFollows ==
    ASSUME OrganizationsTypeOK, RequestsCarry, RowsFollow, NEW r \in Slots,
           NEW u \in Users, NEW office \in Role, InsertMember(u, office), UNCHANGED stored,
           req[r].pc \in {"owner", "insert"},
           \A s \in Others(r) : req'[s] = req[s],
           req'[r].pc = "grant", req'[r].target = u, req'[r].role = office,
           \A s \in Others(r) :
              ~(req[s].target = u /\ req[s].pc \in {"grant", "unrow", "revoke"})
    PROVE  RowsFollow'
<1>0. /\ members[u] = "none" /\ members'[u] = office
      /\ \A v \in Users : v # u => members'[v] = members[v]
      /\ \A s \in Slots : req[s].pc # "idle" => req[s].target \in Users
  BY OrgInProgress, OrgRequestsAreTyped
  DEF InsertMember, IsMember, OrganizationsTypeOK
<1>1. ASSUME NEW v \in Users PROVE RoleFollows(v)'
  <2>1. RoleFollows(v)
    BY DEF RowsFollow
  <2>2. CASE v # u
    <3>1. On(v)' = On(v) /\ \A s \in On(v) : req'[s] = req[s]
      BY <2>2 DEF On, Others
    <3> QED BY <1>0, <2>1, <2>2, <3>1 DEF RoleFollows, At
  <2>3. CASE v = u
    <3>1. On(v) = {} /\ On(v)' = {r}
      BY <2>3 DEF On, Others
    <3>2. \A any \in Role : <<v, any>> \notin stored.g
      BY <1>0, <2>1, <2>3, <3>1 DEF RoleFollows, Role
    <3> QED BY <1>0, <2>3, <3>1, <3>2 DEF RoleFollows, At
  <2> QED BY <2>2, <2>3
<1>2. ASSUME NEW s \in Slots, At(s, "unrow")' PROVE members'[req'[s].target] = req'[s].role
  <2>1. s \in Others(r) /\ req'[s] = req[s] /\ At(s, "unrow")
    BY <1>2 DEF At, Others
  <2>2. req[s].target \in Users /\ req[s].target # u
    BY <1>0, <2>1 DEF At
  <2> QED BY <1>0, <2>1, <2>2 DEF RowsFollow
<1> QED BY <1>1, <1>2 DEF RowsFollow, At

\* A row deleted, while no other request is at work on its member.
LEMMA DeletionFollows ==
    ASSUME OrganizationsTypeOK, RequestsCarry, RowsFollow, NEW r \in Slots,
           DeleteMember(req[r].target), UNCHANGED stored, At(r, "unrow"),
           \A s \in Others(r) : req'[s] = req[s],
           req'[r].pc = "revoke", req'[r].target = req[r].target, req'[r].role = req[r].role,
           \A s \in Others(r) :
              ~(req[s].target = req[r].target /\ req[s].pc \in {"grant", "unrow", "revoke"})
    PROVE  RowsFollow'
<1> DEFINE u == req[r].target
<1>0. /\ u \in Users /\ members[u] = req[r].role /\ req[r].role \in Role
      /\ members'[u] = "none"
      /\ \A v \in Users : v # u => members'[v] = members[v]
      /\ \A s \in Slots : req[s].pc # "idle" => req[s].target \in Users
  BY OrgInProgress, OrgRequestsAreTyped
  DEF DeleteMember, RowsFollow, OrganizationsTypeOK, RequestsCarry, At
<1>1. ASSUME NEW v \in Users PROVE RoleFollows(v)'
  <2>1. RoleFollows(v)
    BY DEF RowsFollow
  <2>2. CASE v # u
    <3>1. On(v)' = On(v) /\ \A s \in On(v) : req'[s] = req[s]
      BY <2>2 DEF On, Others, At
    <3> QED BY <1>0, <2>1, <2>2, <3>1 DEF RoleFollows, At
  <2>3. CASE v = u
    <3>1. On(v) = {} /\ On(v)' = {r}
      BY <2>3 DEF On, Others, At
    <3>2. \A any \in Role : <<v, any>> \in stored.g <=> any = req[r].role
      BY <1>0, <2>1, <2>3, <3>1 DEF RoleFollows
    <3> QED BY <1>0, <2>3, <3>1, <3>2 DEF RoleFollows, At
  <2> QED BY <2>2, <2>3
<1>2. ASSUME NEW s \in Slots, At(s, "unrow")' PROVE members'[req'[s].target] = req'[s].role
  <2>1. s \in Others(r) /\ req'[s] = req[s] /\ At(s, "unrow")
    BY <1>2 DEF At, Others
  <2>2. req[s].target \in Users /\ req[s].target # u
    BY <1>0, <2>1 DEF At
  <2> QED BY <1>0, <2>1, <2>2 DEF RowsFollow
<1> QED BY <1>1, <1>2 DEF RowsFollow, At

\* A role granted or taken back by the request that is between it and its row.
LEMMA RoleChangeFollows ==
    ASSUME OrganizationsTypeOK, RequestsCarry, RowsFollow, NEW r \in Slots, UNCHANGED members,
           \/ At(r, "grant") /\ stored'.g = stored.g \cup {<<req[r].target, req[r].role>>}
           \/ At(r, "revoke") /\ stored'.g = stored.g \ {<<req[r].target, req[r].role>>},
           \A s \in Others(r) : req'[s] = req[s],
           req'[r].pc \in {"policies", "idle"}
    PROVE  RowsFollow'
<1> DEFINE u == req[r].target
<1>0. u \in Users /\ req[r].role \in Role
  BY OrgInProgress, OrgRequestsAreTyped DEF RequestsCarry, At
<1>1. ASSUME NEW v \in Users PROVE RoleFollows(v)'
  <2>1. RoleFollows(v)
    BY DEF RowsFollow
  <2>2. CASE v # u
    <3>1. On(v)' = On(v) /\ \A s \in On(v) : req'[s] = req[s]
      BY <2>2 DEF On, Others
    <3>2. \A office \in Role : <<v, office>> \in stored'.g <=> <<v, office>> \in stored.g
      BY <2>2
    <3> QED BY <2>1, <3>1, <3>2 DEF RoleFollows, At
  <2>3. CASE v = u
    <3>1. r \in On(v) /\ On(v)' = {}
      <4>1. r \in On(v)
        BY <2>3 DEF On, At
      <4>2. \A s \in On(v) : s = r
        BY <2>1, <4>1 DEF RoleFollows
      <4> QED BY <4>1, <4>2 DEF On, Others
    <3>2. \A office \in Role : members[v] = office <=> <<v, office>> \in stored'.g
      BY <1>0, <2>1, <2>3, <3>1 DEF RoleFollows, At, Role
    <3> QED BY <3>1, <3>2 DEF RoleFollows
  <2> QED BY <2>2, <2>3
<1>2. ASSUME NEW s \in Slots, At(s, "unrow")' PROVE members'[req'[s].target] = req'[s].role
  BY <1>2 DEF RowsFollow, At, Others
<1> QED BY <1>1, <1>2 DEF RowsFollow, At

\* Each step keeps rows and roles together, unless requests cross.
LEMMA RowsStayFollowed ==
    ASSUME OrganizationsTypeOK, RequestsCarry, FoundedFirst, MemoryIsStored, RolesAreFollowed,
           [OrganizationsNext]_<<orgVars, requestVars>>, Clean'
    PROVE  RowsFollow'
<1>0. /\ req \in [Slots -> OrgRequest \cup {Idle}]
      /\ \A r \in Slots : req[r].pc # "idle" => req[r] \in OrgRequest /\ req[r].at \in Instances
            /\ req[r].target \in Users
      /\ stored \in Policies /\ memory \in [Instances -> Policies]
      /\ Clean /\ faults = 0 /\ faults' = 0 /\ RowsFollow
  BY OrgInProgress, OrgRequestsAreTyped, CleanBefore
  DEF OrganizationsTypeOK, RequestsAre, RolesAreFollowed, RowsFollow
<1>1. ASSUME UNCHANGED <<members, req>>, stored'.g = stored.g PROVE RowsFollow'
  BY <1>0, <1>1 DEF RowsFollow, RoleFollows, On, At
<1>2. CASE UNCHANGED <<orgVars, requestVars>>
  BY <1>1, <1>2 DEF orgVars, orgRows, orgPolicies, requestVars
<1>3. ASSUME NEW i \in Instances, LoadPolicy(i) PROVE RowsFollow'
  BY <1>1, <1>3 DEF LoadPolicy, orgRows, requestVars
<1>4. ASSUME NEW r \in Slots, NEW q, Become(r, q) \/ Stumble(r, q) \/ Begin(r, q),
             UNCHANGED members, stored'.g = stored.g,
             req[r].pc \notin {"grant", "revoke"}, q.pc \notin {"grant", "unrow", "revoke"}
      PROVE  RowsFollow'
  <2>1. req'[r] = q /\ \A s \in Others(r) : req'[s] = req[s]
    BY <1>0, <1>4 DEF Become, Stumble, Begin, Others
  <2> QED BY <1>0, <1>4, <2>1, ElsewhereFollows DEF At
<1>5. ASSUME NEW r \in Slots, OrganizationHandlers(r) PROVE RowsFollow'
  <2>1. \A label, i, u, t, office : Asked(label, i, u, t, office).pc = label
    BY DEF Asked
  <2>2. /\ \E q : Begin(r, q) /\ q.pc \notin {"grant", "unrow", "revoke"}
        /\ UNCHANGED <<members, stored>>
    BY <1>5, <2>1
    DEF OrganizationHandlers, HandleCreate, HandleUpdate, HandleDelete, HandleRemoveMember,
        HandleAddMember, orgVars, orgRows, orgPolicies
  <2>3. req[r].pc = "idle"
    BY <2>2 DEF Begin, At
  <2> QED BY <1>4, <2>2, <2>3
<1>6. ASSUME NEW r \in Slots,
             CreateOrganization(r) \/ UpdateOrganization(r) \/ CheckSlug(r)
               \/ DeleteOrganization(r) \/ DeleteRow(r) \/ AddMember(r)
      PROVE  RowsFollow'
  <2>1. /\ req[r] \in OrgRequest /\ req[r].pc \notin {"grant", "revoke"}
        /\ UNCHANGED <<members, stored>>
    BY <1>0, <1>6
    DEF CreateOrganization, UpdateOrganization, CheckSlug, DeleteOrganization, DeleteRow,
        AddMember, At, orgVars, orgRows, orgPolicies
  <2>2. \E q : Become(r, q) /\ q.pc \notin {"grant", "unrow", "revoke"}
    <3>1. /\ \A label \in {"owner", "save", "drop", "insert"} :
                [req[r] EXCEPT !.pc = label].pc = label
          /\ [req[r] EXCEPT !.pc = "slug", !.copy = members].pc = "slug"
      BY <2>1 DEF OrgRequest
    <3> QED
      BY ZenonT(40), <1>6, <3>1
      DEF CreateOrganization, UpdateOrganization, CheckSlug, DeleteOrganization, DeleteRow,
          AddMember, Goto, Finish, Idle
  <2> QED BY <1>4, <2>1, <2>2
<1>7. ASSUME NEW r \in Slots, CreateOwner(r) PROVE RowsFollow'
  <2>1. /\ req[r] \in OrgRequest /\ req[r].target \in Users /\ req[r].pc = "owner"
        /\ req[r].target = req[r].user /\ req[r].role = "owner"
    BY <1>0, <1>7 DEF CreateOwner, At, RequestsCarry
  <2>2. /\ req'[r].pc = "grant" /\ req'[r].target = req[r].target /\ req'[r].role = "owner"
        /\ \A s \in Others(r) : req'[s] = req[s]
    BY <1>0, <1>7, <2>1 DEF CreateOwner, Goto, Become, OrgRequest, Others
  <2>3. \A s \in Slots : req[s].pc \notin {"grant", "unrow", "revoke"}
    BY <2>1 DEF FoundedFirst, Founded, At
  <2>4. InsertMember(req[r].target, "owner") /\ UNCHANGED stored /\ "owner" \in Role
    BY <1>7, <2>1 DEF CreateOwner, orgPolicies, Role
  <2>5. \A s \in Others(r) :
            ~(req[s].target = req[r].target /\ req[s].pc \in {"grant", "unrow", "revoke"})
    BY <2>3 DEF Others
  <2> QED BY <1>0, <2>1, <2>2, <2>4, <2>5, InsertionFollows
<1>8. ASSUME NEW r \in Slots, AddMemberRow(r) PROVE RowsFollow'
  <2>1. /\ req[r] \in OrgRequest /\ req[r].target \in Users /\ req[r].pc = "insert"
        /\ req[r].role \in Role
    BY <1>0, <1>8 DEF AddMemberRow, At, RequestsCarry
  <2>2. CASE InsertMember(req[r].target, req[r].role) /\ Goto(r, "grant")
    <3>1. /\ req'[r].pc = "grant" /\ req'[r].target = req[r].target
          /\ req'[r].role = req[r].role
          /\ \A s \in Others(r) : req'[s] = req[s]
      BY <1>0, <2>1, <2>2 DEF Goto, Become, OrgRequest, Others
    <3>2. \A s \in Others(r) :
            ~(req[s].target = req[r].target /\ req[s].pc \in {"grant", "unrow", "revoke"})
      BY <1>0, <1>8 DEF AddMemberRow, Cross, Clean, At
    <3>3. UNCHANGED stored
      BY <1>8 DEF AddMemberRow, orgPolicies
    <3> QED BY <1>0, <2>1, <2>2, <3>1, <3>2, <3>3, InsertionFollows
  <2>3. CASE UNCHANGED members /\ Finish(r)
    BY <1>4, <1>8, <2>1, <2>3 DEF AddMemberRow, orgPolicies, Finish, Idle
  <2> QED BY <1>8, <2>2, <2>3 DEF AddMemberRow
<1>9. ASSUME NEW r \in Slots, RemoveMember(r) PROVE RowsFollow'
  <2>1. req[r] \in OrgRequest /\ req[r].pc = "expel" /\ UNCHANGED <<members, stored>>
    BY <1>0, <1>9 DEF RemoveMember, At, orgVars, orgRows, orgPolicies
  <2>2. CASE Finish(r)
    BY <1>4, <2>1, <2>2 DEF Finish, Idle
  <2>3. CASE ~Finish(r)
    <3>1. req' = [req EXCEPT
            ![r] = [req[r] EXCEPT !.pc = "unrow", !.role = members[req[r].target]]]
      BY <1>9, <2>3 DEF RemoveMember, Become
    <3>2. /\ req'[r].pc = "unrow" /\ req'[r].target = req[r].target
          /\ req'[r].role = members[req[r].target]
          /\ \A s \in Others(r) : req'[s] = req[s]
      BY <1>0, <2>1, <3>1 DEF OrgRequest, Others
    <3> QED BY <1>0, <2>1, <3>2, ElsewhereFollows DEF At
  <2> QED BY <2>2, <2>3
<1>10. ASSUME NEW r \in Slots, RemoveMemberRow(r) PROVE RowsFollow'
  <2>1. req[r] \in OrgRequest /\ At(r, "unrow") /\ req[r].pc = "unrow" /\ UNCHANGED stored
    BY <1>0, <1>10 DEF RemoveMemberRow, At, orgPolicies
  <2>2. CASE DeleteMember(req[r].target) /\ Goto(r, "revoke")
    <3>1. /\ req'[r].pc = "revoke" /\ req'[r].target = req[r].target
          /\ req'[r].role = req[r].role
          /\ \A s \in Others(r) : req'[s] = req[s]
      BY <1>0, <2>1, <2>2 DEF Goto, Become, OrgRequest, Others
    <3>2. \A s \in Others(r) :
            ~(req[s].target = req[r].target /\ req[s].pc \in {"grant", "unrow", "revoke"})
      BY <1>0, <1>10 DEF RemoveMemberRow, Cross, Clean, At
    <3> QED BY <1>0, <2>1, <2>2, <3>1, <3>2, DeletionFollows
  <2>3. CASE UNCHANGED members /\ Finish(r)
    BY <1>4, <2>1, <2>3 DEF Finish, Idle
  <2> QED BY <1>10, <2>2, <2>3 DEF RemoveMemberRow
<1>11. ASSUME NEW r \in Slots, UpdateSave(r) PROVE RowsFollow'
  <2>1. UNCHANGED <<members, stored>> /\ req[r].pc = "save" /\ Finish(r)
    BY <1>11 DEF UpdateSave, Clean, At, orgPolicies
  <2> QED BY <1>4, <2>1 DEF Finish, Idle
<1>12. ASSUME NEW r \in Slots, GrantPolicies(r) PROVE RowsFollow'
  <2>1. req[r] \in OrgRequest /\ req[r].pc = "policies" /\ UNCHANGED members
    BY <1>0, <1>12 DEF GrantPolicies, At, orgRows
  <2>2. stored'.g = stored.g
    BY <1>0, <1>12 DEF GrantPolicies, AddPolicy, orgPolicies, Policies
  <2>3. \E q : (Become(r, q) \/ Stumble(r, q)) /\ q.pc \in {"policies", "idle"}
    <3>1. [req[r] EXCEPT !.added = req[r].added + 1].pc = "policies" /\ Idle.pc = "idle"
      BY <2>1 DEF OrgRequest, Idle
    <3>2. CASE req[r].added + 1 = Len(Actions(req[r].role))
      <4>1. Become(r, Idle) \/ Stumble(r, Idle)
        BY <1>12, <3>2 DEF GrantPolicies
      <4> QED BY <3>1, <4>1
    <3>3. CASE req[r].added + 1 # Len(Actions(req[r].role))
      <4> DEFINE q == [req[r] EXCEPT !.added = req[r].added + 1]
      <4>1. Become(r, q) \/ Stumble(r, q)
        BY <1>12, <3>3 DEF GrantPolicies
      <4> QED BY <3>1, <4>1
    <3> QED BY <3>2, <3>3
  <2> QED BY <1>4, <2>1, <2>2, <2>3
<1>13. ASSUME NEW r \in Slots, GrantRole(r) PROVE RowsFollow'
  <2>1. /\ req[r] \in OrgRequest /\ At(r, "grant") /\ UNCHANGED members
        /\ req[r].at \in Instances /\ req[r].role \in Role
        /\ AddRoleForUser(req[r].at, req[r].target, req[r].role)
        /\ req' = [req EXCEPT ![r] = [req[r] EXCEPT !.pc = "policies"]]
    BY <1>0, <1>13 DEF GrantRole, At, orgRows, Stumble, Become, RequestsCarry
  <2>2. memory[req[r].at] = stored
    <3>1. \A j \in writers : j = req[r].at
      BY <2>1 DEF Clean, AddRoleForUser
    <3> QED BY <1>0, <2>1, <3>1, WriterIsUpToDate
  <2>3. stored'.g = stored.g \cup {<<req[r].target, req[r].role>>}
    BY <1>0, <2>1, <2>2 DEF AddRoleForUser, Policies
  <2>4. req'[r].pc = "policies" /\ \A s \in Others(r) : req'[s] = req[s]
    BY <1>0, <2>1 DEF OrgRequest, Others
  <2> QED BY <1>0, <2>1, <2>3, <2>4, RoleChangeFollows
<1>14. ASSUME NEW r \in Slots, RevokeRole(r) PROVE RowsFollow'
  <2>1. /\ req[r] \in OrgRequest /\ At(r, "revoke") /\ UNCHANGED members
        /\ RemoveRoleForUser(req[r].at, req[r].target, req[r].role)
        /\ req' = [req EXCEPT ![r] = Idle]
    BY <1>0, <1>14 DEF RevokeRole, At, orgRows, Stumble, Finish, Become
  <2>2. stored'.g = stored.g \ {<<req[r].target, req[r].role>>}
    BY <1>0, <2>1 DEF RemoveRoleForUser, Policies
  <2>3. req'[r].pc = "idle" /\ \A s \in Others(r) : req'[s] = req[s]
    BY <1>0, <2>1 DEF Idle, Others
  <2> QED BY <1>0, <2>1, <2>2, <2>3, RoleChangeFollows
<1>15. ASSUME NEW r \in Slots, Abort(r) PROVE FALSE
  BY <1>0, <1>15 DEF Abort, Stumble
<1> QED
  BY <1>2, <1>3, <1>5, <1>6, <1>7, <1>8, <1>9, <1>10, <1>11, <1>12, <1>13, <1>14, <1>15
  DEF OrganizationsNext, OrganizationSteps

\* Those who have a role may view, or will be allowed to.
MembersMayView ==
    \A u \in Users, office \in Role :
        <<u, office>> \in stored.g =>
            \/ <<office, "view">> \in stored.p
            \/ \E r \in Slots :
                At(r, "policies") /\ req[r].role = office /\ req[r].added = 0

\* Each step keeps it so.
LEMMA MembersStillMayView ==
    ASSUME OrganizationsTypeOK, RequestsCarry, MemoryIsStored, RolesAreFollowed,
           [OrganizationsNext]_<<orgVars, requestVars>>, Clean'
    PROVE  MembersMayView'
<1>0. /\ req \in [Slots -> OrgRequest \cup {Idle}]
      /\ \A r \in Slots : req[r].pc # "idle" => req[r] \in OrgRequest /\ req[r].at \in Instances
            /\ req[r].target \in Users
      /\ stored \in Policies /\ memory \in [Instances -> Policies]
      /\ Clean /\ faults = 0 /\ faults' = 0 /\ MembersMayView
  BY OrgInProgress, OrgRequestsAreTyped, CleanBefore
  DEF OrganizationsTypeOK, RequestsAre, RolesAreFollowed, MembersMayView
<1>1. ASSUME stored'.g \subseteq stored.g, stored.p \subseteq stored'.p,
             \A r \in Slots : req[r].pc = "policies" => req'[r] = req[r]
      PROVE  MembersMayView'
  BY <1>0, <1>1 DEF MembersMayView, At
<1>2. ASSUME NEW r \in Slots, req'[r] # req[r], req[r].pc = "policies" PROVE GrantPolicies(r)
  BY <1>0, <1>2, OneOrganizationMoves, NextStatement
<1>3. CASE ~\E r \in Slots : GrantRole(r) \/ GrantPolicies(r) \/ RevokeRole(r)
  <2>1. UNCHANGED stored
    BY <1>3, PoliciesStay DEF LoadPolicy, orgPolicies
  <2> QED BY <1>1, <1>2, <1>3, <2>1
<1>4. ASSUME NEW r \in Slots, RevokeRole(r) PROVE MembersMayView'
  <2>1. stored'.g \subseteq stored.g /\ stored'.p = stored.p
    BY <1>0, <1>4 DEF RevokeRole, RemoveRoleForUser, orgPolicies, Policies
  <2>2. \A s \in Slots : req[s].pc = "policies" => req'[s] = req[s]
    BY <1>0, <1>4 DEF RevokeRole, Finish, Become, Stumble, At
  <2> QED BY <1>1, <2>1, <2>2
<1>5. ASSUME NEW r \in Slots, GrantRole(r) PROVE MembersMayView'
  <2>1. /\ req[r] \in OrgRequest /\ req[r].pc = "grant" /\ req[r].added = 0
        /\ req' = [req EXCEPT ![r] = [req[r] EXCEPT !.pc = "policies"]]
        /\ AddRoleForUser(req[r].at, req[r].target, req[r].role)
    BY <1>0, <1>5 DEF GrantRole, At, Stumble, Become, RequestsCarry
  <2>2. /\ At(r, "policies")' /\ req'[r].role = req[r].role /\ req'[r].added = 0
        /\ \A s \in Slots : req[s].pc = "policies" => req'[s] = req[s]
    BY <1>0, <2>1 DEF OrgRequest, At
  <2>3. /\ stored'.g \subseteq stored.g \cup {<<req[r].target, req[r].role>>}
        /\ stored'.p = stored.p
    BY <1>0, <2>1 DEF AddRoleForUser, Policies
  <2> QED BY <1>0, <2>2, <2>3 DEF MembersMayView, At
<1>6. ASSUME NEW r \in Slots, GrantPolicies(r) PROVE MembersMayView'
  <2>1. /\ req[r] \in OrgRequest /\ req[r].pc = "policies" /\ req[r].role \in Role
        /\ AddPolicy(req[r].at, req[r].role, Actions(req[r].role)[req[r].added + 1])
        /\ \A s \in Others(r) : req'[s] = req[s]
    BY <1>0, <1>6 DEF GrantPolicies, At, Stumble, Become, RequestsCarry, Others
  <2>2. stored'.g = stored.g /\ stored.p \subseteq stored'.p
    BY <1>0, <2>1 DEF AddPolicy, Policies
  <2>3. ASSUME req[r].added = 0 PROVE <<req[r].role, "view">> \in stored'.p
    <3>1. AddPolicy(req[r].at, req[r].role, "view")
      BY <2>1, <2>3, ActionsOfRoles
    <3>2. memory[req[r].at].p \subseteq stored.p
      BY <1>0, <2>1 DEF MemoryIsStored
    <3> QED BY <1>0, <3>1, <3>2 DEF AddPolicy, Policies
  <2> QED BY <1>0, <2>1, <2>2, <2>3 DEF MembersMayView, At, Others
<1> QED BY <1>3, <1>4, <1>5, <1>6

\* Each step keeps the roles following the rows.
LEMMA RolesStayFollowed ==
    ASSUME OrganizationsTypeOK, RequestsCarry, FoundedFirst, MemoryIsStored, RolesAreFollowed,
           [OrganizationsNext]_<<orgVars, requestVars>>
    PROVE  RolesAreFollowed'
<1> SUFFICES ASSUME Clean' PROVE RolesAreFollowed'
  BY DEF RolesAreFollowed
<1>1. \A i \in writers' : memory'[i] = stored'
  BY WritersStayUpToDate
<1>2. RowsFollow' /\ MembersMayView'
  BY RowsStayFollowed, MembersStillMayView
<1> QED BY <1>1, <1>2 DEF RolesAreFollowed, RowsFollow, MembersMayView

-----------------------------------------------------------------------------
(* Organizations: the theorem *)

\* The invariant holds of an organization that is not there yet.
LEMMA OrganizationsInvInit ==
    ASSUME OrganizationsInit, RequestsInit
    PROVE  OrganizationsInv
<1>1. \A r \in Slots : req[r].pc = "idle"
  BY DEF RequestsInit, Idle
<1>2. OrganizationsTypeOK
  <2>1. RequestsAre(OrgRequest)
    BY RequestBoundsAssumption DEF RequestsInit, RequestsAre
  <2>2. NoPolicies \in Policies /\ NoMembers \in [Users -> Role \cup {"none"}]
    BY DEF NoPolicies, Policies, NoMembers
  <2> QED BY <2>1, <2>2 DEF OrganizationsInit, OrganizationsTypeOK
<1>3. RequestsCarry
  BY <1>1 DEF RequestsCarry
<1>4. FoundedFirst
  BY <1>1 DEF OrganizationsInit, FoundedFirst, Founded, At
<1>5. MemoryIsStored
  <2>1. IsFiniteSet(writers)
    BY FS_EmptySet DEF OrganizationsInit
  <2> QED BY <2>1 DEF OrganizationsInit, MemoryIsStored, NoPolicies
<1>6. OwnerIsServed
  BY DEF OrganizationsInit, OwnerIsServed, Founded
<1>7. RolesAreFollowed
  <2>1. \A u \in Users : On(u) = {}
    BY <1>1 DEF On
  <2> QED
    BY <1>1, <2>1
    DEF OrganizationsInit, RolesAreFollowed, RoleFollows, NoMembers, NoPolicies, Role, At
<1> QED BY <1>2, <1>3, <1>4, <1>5, <1>6, <1>7 DEF OrganizationsInv

\* With no request in progress, what the invariant says is what the users see.
LEMMA RolesFollow ==
    ASSUME OrganizationsInv
    PROVE  RolesFollowMembers
<1> USE DEF OrganizationsInv
<1>1. MembersHaveRoles
  <2> SUFFICES ASSUME Quiet, faults = 0, ~crossed, Cardinality(writers) <= 1
               PROVE  /\ \A u \in Users, office \in Role :
                            members[u] = office <=> <<u, office>> \in stored.g
                      /\ \A i \in writers, u \in Users :
                            /\ ListOrganizations(u) <=> GetOrganization(i, u)
                            /\ IsMember(u) <=> u \in GetMembers(i, u)
    BY DEF MembersHaveRoles
  <2>1. \A i, j \in writers : i = j
    <3> SUFFICES ASSUME NEW i \in writers, NEW j \in writers, i # j PROVE FALSE
      OBVIOUS
    <3>1. IsFiniteSet(writers)
      BY DEF MemoryIsStored
    <3>2. {i, j} \subseteq writers /\ Cardinality({i, j}) = 2
      <4>1. IsFiniteSet({i}) /\ Cardinality({i}) = 1
        BY FS_Singleton
      <4>2. Cardinality({i} \cup {j}) = Cardinality({i}) + 1
        BY <4>1, FS_AddElement
      <4>3. {i} \cup {j} = {i, j}
        OBVIOUS
      <4> QED BY <4>1, <4>2, <4>3
    <3>3. Cardinality({i, j}) <= Cardinality(writers)
      BY <3>1, <3>2, FS_Subset
    <3>4. Cardinality(writers) \in Nat
      BY <3>1, FS_CardinalityType
    <3> QED BY <3>2, <3>3, <3>4
  <2>2. Clean
    BY <2>1 DEF Clean
  <2>3. \A u \in Users, office \in Role : members[u] = office <=> <<u, office>> \in stored.g
    <3>1. \A u \in Users : On(u) = {}
      BY DEF Quiet, On, Idle
    <3> QED BY <2>2, <3>1 DEF RolesAreFollowed, RoleFollows
  <2>4. \A u \in Users, office \in Role :
            <<u, office>> \in stored.g => <<office, "view">> \in stored.p
    BY <2>2 DEF RolesAreFollowed, Quiet, Idle, At
  <2>5. ASSUME NEW i \in writers, NEW u \in Users
        PROVE  IsMember(u) <=> Enforce(i, u, "view")
    <3>1. memory[i] = stored
      BY <2>2 DEF RolesAreFollowed
    <3>2. IsMember(u) <=> \E office \in Role : <<u, office>> \in stored.g
      BY <2>3 DEF IsMember, OrganizationsTypeOK, Role
    <3> QED BY <2>4, <3>1, <3>2 DEF Enforce
  <2> QED BY <2>3, <2>5 DEF ListOrganizations, GetOrganization, GetMembers, FindMembers
<1>2. OwnerKeepsAccess
  <2> SUFFICES ASSUME faults = 0, Founded
               PROVE  /\ members[owner] = "owner"
                      /\ Quiet => \E i \in Instances : Enforce(i, owner, "manage")
    BY DEF OwnerKeepsAccess, Founded
  <2>1. members[owner] = "owner" /\ OwnerGetsOn
    BY DEF OwnerIsServed
  <2>2. ASSUME Quiet PROVE \E i \in Instances : Enforce(i, owner, "manage")
    BY <2>1, <2>2 DEF OwnerGetsOn, FounderAt, At, Quiet, Idle, Enforce, Role
  <2> QED BY <2>1, <2>2
<1> QED BY <1>1, <1>2 DEF RolesFollowMembers

\* However requests overlap, processes restart and statements fail: if nothing failed,
\* the owner of an organization is a member and may manage it; and if no requests
\* crossed on a member and one instance wrote the policies, the members are those with
\* a role, and they see what they may open.
THEOREM RolesAlwaysFollowMembers == OrganizationsSpec => []RolesFollowMembers
<1>1. OrganizationsInit /\ RequestsInit => OrganizationsInv
  BY OrganizationsInvInit
<1>2. OrganizationsInv /\ [OrganizationsNext]_<<orgVars, requestVars>> => OrganizationsInv'
  BY OrganizationTypes, RequestsGoOnCarrying, NothingBeforeFounding, MemoryStaysStored,
     OwnerStaysServed, RolesStayFollowed
  DEF OrganizationsInv
<1>3. OrganizationsInv => RolesFollowMembers
  BY RolesFollow
<1> QED BY <1>1, <1>2, <1>3, PTL DEF OrganizationsSpec

=============================================================================
