------------------------------- MODULE TwoFactor -------------------------------
(***************************************************************************)
(* The row of one user and its two-factor settings:                        *)
(* internal/service/two_factor.go, ResetPassword of auth.go and the        *)
(* administration of users, over the users row and the table               *)
(* two_factor_recovery_codes.                                              *)
(*                                                                         *)
(* Each operation reads the whole users row, changes some columns and      *)
(* saves the whole row, outside any transaction.  Of two operations that   *)
(* overlap, the second to save undoes the first.  "clobbered" remembers    *)
(* that some request wrote without having seen another's write; only the   *)
(* properties look at it.  A TOTP code is the secret it was made with; one *)
(* that does not fit is refused and changes nothing.                       *)
(***************************************************************************)
EXTENDS Requests

CONSTANTS
    Codes,          \* recovery codes of a generation
    MaxPasswords,   \* bound on password resets
    MaxSecrets      \* bound on setups

ASSUME CodesAssumption == Codes \in Nat \ {0}
ASSUME TwoFactorBoundsAssumption == MaxPasswords \in Nat /\ MaxSecrets \in Nat

VARIABLES
    userRow,    \* the users row
    unused,     \* number of unused recovery codes
    passwords,  \* number of passwords and of secrets made so far, ...
    secrets,
    verified,   \* history: ... the secrets whose code a request has checked,
    removed,    \* history: an administrator has deleted the user,
    clobbered   \* history: a request wrote over what it had not seen

twoFactorVars == <<userRow, unused, passwords, secrets, verified, removed, clobbered>>

-----------------------------------------------------------------------------
(* Types *)

\* Secret 0 is no secret, password 0 the one of the registration.
UserRow == [pwd : 0..MaxPasswords, status : {"disabled", "pending", "enabled"},
            secret : 0..MaxSecrets, gone : BOOLEAN]

\* A secret is there unless two-factor is disabled.
SecretFits(row) == row.status = "disabled" <=> row.secret = 0

NewUser == [pwd |-> 0, status |-> "disabled", secret |-> 0, gone |-> FALSE]

\* Labels of a request that has a copy of the row and will save it, ...
SaveLabels == {"reset", "setup", "enable", "disable", "regenerate", "update"}

\* ... and of one that writes the codes.
CodeLabels == {"enablecodes", "disablecodes", "codes"}

Copy(label, row) == [pc |-> label, row |-> row, left |-> 0, stale |-> FALSE]

TwoFactorRequest == [pc : SaveLabels \cup CodeLabels, row : UserRow,
                     left : 0..Codes, stale : BOOLEAN]

TwoFactorTypeOK ==
    /\ userRow \in UserRow
    /\ unused \in Nat
    /\ RequestsAre(TwoFactorRequest)
    /\ passwords \in 0..MaxPasswords
    /\ secrets \in 0..MaxSecrets
    /\ verified \in SUBSET (1..MaxSecrets)
    /\ removed \in BOOLEAN /\ clobbered \in BOOLEAN

TwoFactorInit ==
    /\ userRow = NewUser
    /\ unused = 0
    /\ passwords = 0
    /\ secrets = 0
    /\ verified = {}
    /\ removed = FALSE
    /\ clobbered = FALSE
    /\ RequestsInit

-----------------------------------------------------------------------------
(* The row and the codes *)

\* FindByID: one that is not deleted.
Load(r, label) ==
    /\ ~userRow.gone
    /\ Begin(r, Copy(label, userRow))

HasRow(q) == req[q].pc \in SaveLabels

\* The request goes on, and the other requests that have read the row have a
\* stale copy from now on.
AfterWrite(r, next) ==
    /\ req' = [q \in Slots |->
                 IF q = r THEN next
                 ELSE IF HasRow(q) THEN [req[q] EXCEPT !.stale = TRUE] ELSE req[q]]
    /\ UNCHANGED <<begun, faults>>

\* Mutant of Save: the columns the operation does not set are written empty.
SaveBlank(r, row, next) ==
    /\ userRow' = [row EXCEPT !.pwd = IF row.pwd = req[r].row.pwd THEN 0 ELSE @]
    /\ clobbered' = (clobbered \/ req[r].stale)
    /\ AfterWrite(r, next)

\* userRepo.Update: gorm's Save writes every column of the copy, and inserts the
\* row again when it was deleted meanwhile.
Save(r, row, next) ==
    /\ userRow' = row
    /\ clobbered' = (clobbered \/ req[r].stale)
    /\ AfterWrite(r, next)

WritesCodes(q) == req[q].pc \in CodeLabels

\* Writes to the codes overlap when two requests are at it.
WriteCodes(r, n) ==
    /\ unused' = n
    /\ clobbered' = (clobbered \/ req[r].stale
                        \/ \E q \in Others(r) : WritesCodes(q))

-----------------------------------------------------------------------------
(* ResetPassword, its token being valid *)

ResetLoad(r) ==
    /\ Load(r, "reset")
    /\ UNCHANGED twoFactorVars

ResetSave(r) ==
    /\ At(r, "reset")
    /\ passwords < MaxPasswords
    /\ passwords' = passwords + 1
    /\ Save(r, [req[r].row EXCEPT !.pwd = passwords + 1], Idle)
    /\ UNCHANGED <<unused, secrets, verified, removed>>

-----------------------------------------------------------------------------
(* Setup, enabling, disabling, regeneration *)

MaySetUp == userRow.status = "disabled"
CodeFits(code) == code = userRow.secret
MayEnable(code) == userRow.status = "pending" /\ CodeFits(code)
MayDisable(code) == userRow.status = "enabled" /\ CodeFits(code)
MayRegenerate(code) == userRow.status = "enabled" /\ CodeFits(code)

\* InitiateSetup: neither enabled nor pending ...
HandleInitiateSetup(r) ==
    /\ MaySetUp
    /\ Load(r, "setup")
    /\ UNCHANGED twoFactorVars

\* ... gets a new secret.
SetupSave(r) ==
    /\ At(r, "setup")
    /\ secrets < MaxSecrets
    /\ secrets' = secrets + 1
    /\ Save(r, [req[r].row EXCEPT !.status = "pending", !.secret = secrets + 1], Idle)
    /\ UNCHANGED <<unused, passwords, verified, removed>>

\* VerifyAndEnable: pending, and the code fits the secret that is read ...
HandleVerifyAndEnable(r, code) ==
    /\ MayEnable(code)
    /\ Load(r, "enable")
    /\ verified' = verified \cup {code}
    /\ UNCHANGED <<userRow, unused, passwords, secrets, removed, clobbered>>

\* Mutant of EnableSave: the row is read again before it is saved.
EnableSaveReread(r) ==
    /\ At(r, "enable")
    /\ Save(r, [userRow EXCEPT !.status = "enabled"],
            [req[r] EXCEPT !.pc = "enablecodes"])
    /\ UNCHANGED <<unused, passwords, secrets, verified, removed>>

\* ... the row is saved, and the codes are replaced.
EnableSave(r) ==
    /\ At(r, "enable")
    /\ Save(r, [req[r].row EXCEPT !.status = "enabled"],
            [req[r] EXCEPT !.pc = "enablecodes"])
    /\ UNCHANGED <<unused, passwords, secrets, verified, removed>>

\* Disable: enabled, and the code is right.
HandleDisable(r, code) ==
    /\ MayDisable(code)
    /\ Load(r, "disable")
    /\ UNCHANGED twoFactorVars

DisableSave(r) ==
    /\ At(r, "disable")
    /\ Save(r, [req[r].row EXCEPT !.status = "disabled", !.secret = 0],
            [req[r] EXCEPT !.pc = "disablecodes"])
    /\ UNCHANGED <<unused, passwords, secrets, verified, removed>>

\* Mutant of DisableCodes: they stay.
DisableCodesNothing(r) ==
    /\ At(r, "disablecodes")
    /\ WriteCodes(r, unused)
    /\ Finish(r)
    /\ UNCHANGED <<userRow, passwords, secrets, verified, removed>>

DisableCodes(r) ==
    /\ At(r, "disablecodes")
    /\ WriteCodes(r, 0)
    /\ Finish(r)
    /\ UNCHANGED <<userRow, passwords, secrets, verified, removed>>

\* RegenerateCodes: enabled, and the code is right.
HandleRegenerateCodes(r, code) ==
    /\ MayRegenerate(code)
    /\ Load(r, "regenerate")
    /\ UNCHANGED twoFactorVars

\* The old codes are deleted ...
ReplaceCodes(r) ==
    /\ At(r, "enablecodes") \/ At(r, "regenerate")
    /\ WriteCodes(r, 0)
    /\ Become(r, [req[r] EXCEPT !.pc = "codes", !.left = Codes])
    /\ UNCHANGED <<userRow, passwords, secrets, verified, removed>>

\* ... and the new ones created one by one.
CreateCode(r) ==
    /\ At(r, "codes")
    /\ WriteCodes(r, unused + 1)
    /\ IF req[r].left = 1 THEN Finish(r) ELSE Become(r, [req[r] EXCEPT !.left = @ - 1])
    /\ UNCHANGED <<userRow, passwords, secrets, verified, removed>>

-----------------------------------------------------------------------------
(* The administration of users *)

\* UpdateUser reads the row and saves it with nothing changed but updated_at.
UpdateUser(r) ==
    /\ Load(r, "update")
    /\ UNCHANGED twoFactorVars

UpdateUserSave(r) ==
    /\ At(r, "update")
    /\ Save(r, req[r].row, Idle)
    /\ UNCHANGED <<unused, passwords, secrets, verified, removed>>

\* SoftDelete is one UPDATE of a row that is not deleted.
SoftDeleteUser(r) ==
    /\ At(r, "idle")
    /\ ~userRow.gone
    /\ begun < MaxRequests
    /\ userRow' = [userRow EXCEPT !.gone = TRUE]
    /\ removed' = TRUE
    /\ begun' = begun + 1
    /\ req' = [q \in Slots |-> IF HasRow(q) THEN [req[q] EXCEPT !.stale = TRUE] ELSE req[q]]
    /\ UNCHANGED <<unused, passwords, secrets, verified, clobbered, faults>>

-----------------------------------------------------------------------------

TwoFactorNext ==
    \E r \in Slots :
        \/ ResetLoad(r) \/ ResetSave(r)
        \/ HandleInitiateSetup(r) \/ SetupSave(r)
        \/ \E code \in 1..secrets :
            HandleVerifyAndEnable(r, code) \/ HandleDisable(r, code)
                \/ HandleRegenerateCodes(r, code)
        \/ EnableSave(r) \/ DisableSave(r) \/ DisableCodes(r)
        \/ ReplaceCodes(r) \/ CreateCode(r)
        \/ UpdateUser(r) \/ UpdateUserSave(r) \/ SoftDeleteUser(r)
        \/ Abort(r) /\ UNCHANGED twoFactorVars

TwoFactorSpec == TwoFactorInit /\ [][TwoFactorNext]_<<twoFactorVars, requestVars>>

-----------------------------------------------------------------------------
(* Properties *)

\* What the user is told: the secret while it is pending.
GetStatus == [status |-> userRow.status,
              secret |-> IF userRow.status = "pending" THEN userRow.secret ELSE 0]

\* However requests overlap and fail, two-factor is only ever enabled with a
\* secret whose code somebody has shown: a save writes status and secret of the
\* same reading.  A secret that is shown to the user can be enabled.
EnabledSecretIsVerified ==
    /\ userRow.status = "enabled" => userRow.secret \in verified
    /\ GetStatus.secret # 0 => MayEnable(GetStatus.secret)

\* The password is the last one that was set and a deleted user stays deleted:
\* nothing undoes a reset or a deletion, unless a request saved over what it had
\* not seen.
LastPasswordStands ==
    ~clobbered => userRow.pwd = passwords /\ (removed => userRow.gone)

\* With no request at the codes, they are those of the status, over any mix of
\* setups, resets and regenerations that do not overlap.
CodesMatchStatus ==
    faults = 0 /\ ~clobbered /\ (\A r \in Slots : ~WritesCodes(r)) =>
        unused = IF userRow.status = "enabled" THEN Codes ELSE 0

\* The copies of the users row that requests save whole, and the codes beside it,
\* keep secret, password, deletion and codes together: EnabledSecretIsVerified,
\* LastPasswordStands and CodesMatchStatus.
UserRowHolds ==
    EnabledSecretIsVerified /\ LastPasswordStands /\ CodesMatchStatus

-----------------------------------------------------------------------------
(* What UserRowHolds rests on *)

\* The secret of the row fits its status, and was shown if it is enabled.
SecretHolds ==
    SecretFits(userRow) /\ (userRow.status = "enabled" => userRow.secret \in verified)

\* A copy that nobody has written over is the row; it has the status its request was
\* begun for, and what it says of the secret was true of a row.
CopyIsSound(r) ==
    HasRow(r) =>
        LET row == req[r].row
        IN  /\ req[r].stale \/ row = userRow
            /\ SecretFits(row)
            /\ row.status = "enabled" \/ At(r, "enable") => row.secret \in verified
            /\ At(r, "setup") => row.status = "disabled"
            /\ At(r, "enable") => row.status = "pending"
            /\ At(r, "disable") \/ At(r, "regenerate") => row.status = "enabled"

\* Of the codes one request may be in charge: it was begun for the status the row
\* has, and has written as many as it has not left to write.
AloneAtCodes(r) == WritesCodes(r) /\ \A q \in Others(r) : ~WritesCodes(q)

CodesAreCounted ==
    /\ \A r \in Slots : At(r, "codes") => req[r].left >= 1
    /\ faults = 0 /\ ~clobbered =>
        /\ (\A r \in Slots : ~WritesCodes(r)) =>
             unused = IF userRow.status = "enabled" THEN Codes ELSE 0
        /\ \A r \in Slots : AloneAtCodes(r) =>
             /\ At(r, "disablecodes") <=> userRow.status # "enabled"
             /\ At(r, "codes") => unused + req[r].left = Codes

TwoFactorInv ==
    /\ TwoFactorTypeOK
    /\ SecretHolds
    /\ LastPasswordStands
    /\ \A r \in Slots : CopyIsSound(r)
    /\ CodesAreCounted
=============================================================================
