----------------------------- MODULE AuthSessions -----------------------------
(***************************************************************************)
(* Sessions and password resets of one user: internal/service/auth.go over *)
(* the tables users, refresh_tokens and password_reset_tokens.             *)
(*                                                                         *)
(* A request reads and writes with one statement at a time and no          *)
(* transaction, so requests of the same user interleave between any two of *)
(* their statements.  A request that has read what another has changed     *)
(* since is marked as stale; only the properties look at the mark.         *)
(*                                                                         *)
(* Of the users row only the password matters here: what a stale save of   *)
(* the whole row does to it is the subject of TwoFactor.  Login does not   *)
(* look at the two-factor settings and nothing creates a pending token, so *)
(* Verify2FALogin and UseRecoveryCode refuse everybody.  An expired token   *)
(* changes nothing when it is presented: it is one that nobody presents.   *)
(***************************************************************************)
EXTENDS Naturals

CONSTANTS
    Requests,       \* slots for requests in progress
    Tokens,         \* rows of refresh_tokens; a family is named by its first
    ResetTokens,    \* rows of password_reset_tokens
    NoToken,
    MaxPasswords,   \* bound on password changes
    MaxAuthFaults   \* bound on database errors and cancelled requests

ASSUME AuthBoundsAssumption == MaxPasswords \in Nat /\ MaxAuthFaults \in Nat
ASSUME NoTokenAssumption == NoToken \notin Tokens \cup ResetTokens

VARIABLES
    password,   \* of the users row, a number of its own
    tok,        \* refresh tokens
    rst,        \* password reset tokens
    call,       \* requests in progress
    passwords,  \* history: number of passwords set
    spent,      \* history: reset tokens that set a password
    reused,     \* history: families revoked because of a revoked token
    authFaults

authVars == <<password, tok, rst, call, passwords, spent, reused, authFaults>>

-----------------------------------------------------------------------------
(* Types *)

\* "pwd" is the password of the login the session began with, "late" says that
\* the token was created by a request that overlapped a revocation; neither is
\* stored.
Token == [st : {"none", "live", "revoked"}, fam : Tokens \cup {NoToken},
          root : Tokens \cup {NoToken}, pwd : 0..MaxPasswords, late : BOOLEAN]

ResetToken == [st : {"none", "valid", "used"}, late : BOOLEAN]

RequestPC == {"idle", "login", "rotate", "create", "reuse", "logout", "revoke", "others",
              "newreset", "resetsave", "resetmark", "resetrevoke"}

Request == [pc : RequestPC, pwd : 0..MaxPasswords, t : Tokens \cup {NoToken},
            k : ResetTokens \cup {NoToken}, list : SUBSET Tokens, stale : BOOLEAN]

NoTok == [st |-> "none", fam |-> NoToken, root |-> NoToken, pwd |-> 0, late |-> FALSE]

\* The state of a request, with what it has read.
Holding(label, pwd, t, k, list, stale) ==
    [pc |-> label, pwd |-> pwd, t |-> t, k |-> k, list |-> list, stale |-> stale]

NoRequest == Holding("idle", 0, NoToken, NoToken, {}, FALSE)

AuthTypeOK ==
    /\ password \in 0..MaxPasswords
    /\ tok \in [Tokens -> Token]
    /\ \A t \in Tokens : tok[t].st # "none" => tok[t].fam \in Tokens
    /\ rst \in [ResetTokens -> ResetToken]
    /\ call \in [Requests -> Request]
    /\ passwords \in 0..MaxPasswords
    /\ spent \in SUBSET ResetTokens
    /\ reused \in SUBSET Tokens
    /\ authFaults \in 0..MaxAuthFaults

AuthInit ==
    /\ password = 0
    /\ tok = [t \in Tokens |-> NoTok]
    /\ rst = [k \in ResetTokens |-> [st |-> "none", late |-> FALSE]]
    /\ call = [r \in Requests |-> NoRequest]
    /\ passwords = 0
    /\ spent = {}
    /\ reused = {}
    /\ authFaults = 0

-----------------------------------------------------------------------------
(* Requests in progress *)

CallIdle(r) == call[r].pc = "idle"
CallAt(r, label) == call[r].pc = label
NewCall(label) == Holding(label, 0, NoToken, NoToken, {}, FALSE)
Onto(x, label) == [x EXCEPT !.pc = label]
Outdated(x) == [x EXCEPT !.stale = TRUE]
Without(x, t) == [x EXCEPT !.list = @ \ {t}]

\* Request r goes on as x (NoRequest: it has answered), and the others that
\* have read what it changed become stale.
Continue(r, x, HasRead(_)) ==
    call' = [q \in Requests |->
              IF q = r THEN x
              ELSE IF HasRead(q) THEN Outdated(call[q]) ELSE call[q]]

Proceed(r, x) == call' = [call EXCEPT ![r] = x]
CallGoto(r, label) == Proceed(r, Onto(call[r], label))
EndCall(r) == Proceed(r, NoRequest)

Fault == authFaults < MaxAuthFaults /\ authFaults' = authFaults + 1

\* About to create a token on the strength of a login or of an older token.
WillCreate(q) == call[q].pc \in {"login", "rotate", "create"}
WillReset(q) == call[q].pc = "newreset"

Live(t) == tok[t].st = "live"

Revoked(x) == [x EXCEPT !.st = "revoked"]

RevokeThose(Which(_)) ==
    tok' = [t \in Tokens |-> IF Live(t) /\ Which(t) THEN Revoked(tok[t]) ELSE tok[t]]

Every(t) == TRUE

NewTok(fam, root, pwd, late) ==
    [st |-> "live", fam |-> fam, root |-> root, pwd |-> pwd, late |-> late]

-----------------------------------------------------------------------------
(* Login and Refresh *)

\* FindByEmail and Verify: the password is right, now.
LoginCheck(r) ==
    /\ CallIdle(r)
    /\ Proceed(r, Holding("login", password, NoToken, NoToken, {}, FALSE))
    /\ UNCHANGED <<password, tok, rst, passwords, spent, reused, authFaults>>

LoginCreate(r) ==
    /\ CallAt(r, "login")
    /\ \E t \in Tokens :
         /\ tok[t].st = "none"
         /\ tok' = [tok EXCEPT ![t] = NewTok(t, t, call[r].pwd, call[r].stale)]
    /\ EndCall(r)
    /\ UNCHANGED <<password, rst, passwords, spent, reused, authFaults>>

\* FindByHash: a revoked token, or one that may be exchanged.
RefreshCheck(r, t) ==
    /\ CallIdle(r)
    /\ tok[t].st \in {"live", "revoked"}
    /\ Proceed(r, Holding(IF Live(t) THEN "rotate" ELSE "reuse", 0, t, NoToken, {}, FALSE))
    /\ UNCHANGED <<password, tok, rst, passwords, spent, reused, authFaults>>

\* RevokeFamily.
RefreshReuse(r) ==
    LET InFamily(t) == tok[t].fam = tok[call[r].t].fam
        OfFamily(q) == call[q].pc \in {"rotate", "create"} /\ InFamily(call[q].t)
    IN  /\ CallAt(r, "reuse")
        /\ RevokeThose(InFamily)
        /\ reused' = reused \cup {tok[call[r].t].root}
        /\ Continue(r, NoRequest, OfFamily)
        /\ UNCHANGED <<password, rst, passwords, spent, authFaults>>

\* Mutant of RefreshRevoke: the old token is kept.
RefreshKeep(r) ==
    /\ CallAt(r, "rotate")
    /\ CallGoto(r, "create")
    /\ UNCHANGED <<password, tok, rst, passwords, spent, reused, authFaults>>

\* MarkRevoked, whatever the token has become since.
RefreshRevoke(r) ==
    LET Same(t) == t = call[r].t
        SameToken(q) == call[q].pc \in {"rotate", "create"} /\ Same(call[q].t)
    IN  /\ CallAt(r, "rotate")
        /\ RevokeThose(Same)
        /\ Continue(r, Onto(call[r], "create"), SameToken)
        /\ UNCHANGED <<password, rst, passwords, spent, reused, authFaults>>

\* Mutant of RefreshCreate: a family of its own.
RefreshNewFamily(r) ==
    LET old == tok[call[r].t]
    IN  /\ CallAt(r, "create")
        /\ \E t \in Tokens :
             /\ tok[t].st = "none"
             /\ tok' = [tok EXCEPT ![t] =
                          NewTok(t, old.root, old.pwd, old.late \/ call[r].stale)]
        /\ EndCall(r)
        /\ UNCHANGED <<password, rst, passwords, spent, reused, authFaults>>

RefreshCreate(r) ==
    LET old == tok[call[r].t]
    IN  /\ CallAt(r, "create")
        /\ \E t \in Tokens :
             /\ tok[t].st = "none"
             /\ tok' = [tok EXCEPT ![t] =
                          NewTok(old.fam, old.root, old.pwd, old.late \/ call[r].stale)]
        /\ EndCall(r)
        /\ UNCHANGED <<password, rst, passwords, spent, reused, authFaults>>

-----------------------------------------------------------------------------
(* Logout and session management *)

Logout(r) ==
    /\ CallIdle(r)
    /\ RevokeThose(Every)
    /\ Continue(r, NewCall("logout"), WillCreate)
    /\ UNCHANGED <<password, rst, passwords, spent, reused, authFaults>>

Used(x) == [x EXCEPT !.st = "used"]

UseAllResets ==
    rst' = [k \in ResetTokens |-> IF rst[k].st = "valid"
                                    THEN Used(rst[k]) ELSE rst[k]]

LogoutResets(r) ==
    /\ CallAt(r, "logout")
    /\ UseAllResets
    /\ EndCall(r)
    /\ UNCHANGED <<password, tok, passwords, spent, reused, authFaults>>

\* RevokeSession, and FindByUserID of RevokeAllOtherSessions ...
SessionsRead(r) ==
    /\ CallIdle(r)
    /\ \/ \E t \in Tokens :
            /\ tok[t].st # "none"
            /\ Proceed(r, Holding("revoke", 0, NoToken, NoToken, {t}, FALSE))
       \/ \E current \in Tokens \cup {NoToken} :
            LET others == {t \in Tokens \ {current} : Live(t)}
            IN  /\ others # {}
                /\ Proceed(r, Holding("others", 0, NoToken, NoToken, others, FALSE))
    /\ UNCHANGED <<password, tok, rst, passwords, spent, reused, authFaults>>

AllBut(r, t) == IF call[r].list = {t} THEN NoRequest ELSE Without(call[r], t)

\* ... and MarkRevoked for each session that was listed.
SessionsRevoke(r) ==
    /\ call[r].pc \in {"revoke", "others"}
    /\ \E t \in call[r].list :
         LET Same(u) == u = t
             SameToken(q) == call[q].pc \in {"rotate", "create"} /\ call[q].t = t
         IN  /\ RevokeThose(Same)
             /\ Continue(r, AllBut(r, t), SameToken)
    /\ UNCHANGED <<password, rst, passwords, spent, reused, authFaults>>

-----------------------------------------------------------------------------
(* Password reset *)

\* Mutant of ResetRequest: older tokens stay valid.
ResetKeepOld(r) ==
    /\ CallIdle(r)
    /\ Proceed(r, NewCall("newreset"))
    /\ UNCHANGED <<password, tok, rst, passwords, spent, reused, authFaults>>

\* RequestPasswordReset: RevokeAllByUser ...
ResetRequest(r) ==
    /\ CallIdle(r)
    /\ UseAllResets
    /\ Proceed(r, NewCall("newreset"))
    /\ UNCHANGED <<password, tok, passwords, spent, reused, authFaults>>

\* ... and Create.
ResetCreate(r) ==
    /\ CallAt(r, "newreset")
    /\ \E k \in ResetTokens :
         /\ rst[k].st = "none"
         /\ rst' = [rst EXCEPT ![k] = [st |-> "valid", late |-> call[r].stale]]
    /\ Continue(r, NoRequest, WillReset)
    /\ UNCHANGED <<password, tok, passwords, spent, reused, authFaults>>

\* ResetPassword: the token is valid ...
ResetCheck(r, k) ==
    /\ CallIdle(r)
    /\ rst[k].st = "valid"
    /\ Proceed(r, Holding("resetsave", 0, NoToken, k, {},
                          \E q \in Requests : CallAt(q, "resetmark") /\ call[q].k = k))
    /\ UNCHANGED <<password, tok, rst, passwords, spent, reused, authFaults>>

\* ... the new password is saved ...
ResetSave(r) ==
    LET SameToken(q) == CallAt(q, "resetsave") /\ call[q].k = call[r].k
    IN  /\ CallAt(r, "resetsave")
        /\ passwords < MaxPasswords
        /\ passwords' = passwords + 1
        /\ password' = passwords + 1
        /\ spent' = spent \cup {call[r].k}
        /\ Continue(r, Onto(call[r], "resetmark"), SameToken)
        /\ UNCHANGED <<tok, rst, reused, authFaults>>

\* Mutant of ResetMark: the token stays valid.
ResetMarkNothing(r) ==
    /\ CallAt(r, "resetmark")
    /\ CallGoto(r, "resetrevoke")
    /\ UNCHANGED <<password, tok, rst, passwords, spent, reused, authFaults>>

\* ... the token is used ...
ResetMark(r) ==
    /\ CallAt(r, "resetmark")
    /\ rst' = [rst EXCEPT ![call[r].k] = Used(@)]
    /\ CallGoto(r, "resetrevoke")
    /\ UNCHANGED <<password, tok, passwords, spent, reused, authFaults>>

\* Mutant of ResetRevoke: sessions survive.
ResetRevokeNothing(r) ==
    /\ CallAt(r, "resetrevoke")
    /\ Continue(r, NoRequest, WillCreate)
    /\ UNCHANGED <<password, tok, rst, passwords, spent, reused, authFaults>>

\* ... and every session is revoked.
ResetRevoke(r) ==
    /\ CallAt(r, "resetrevoke")
    /\ RevokeThose(Every)
    /\ Continue(r, NoRequest, WillCreate)
    /\ UNCHANGED <<password, rst, passwords, spent, reused, authFaults>>

-----------------------------------------------------------------------------
(* Errors *)

\* The database fails, or the client goes away and takes the context with it.
FailCall(r) ==
    /\ ~CallIdle(r)
    /\ Fault
    /\ EndCall(r)
    /\ UNCHANGED <<password, tok, rst, passwords, spent, reused>>

\* The errors of these statements are dropped, and the request goes on.
IgnoredError(r) ==
    /\ Fault
    /\ \/ CallIdle(r) /\ Proceed(r, NewCall("newreset"))
       \/ CallAt(r, "resetmark") /\ CallGoto(r, "resetrevoke")
       \/ /\ call[r].pc = "others"
          /\ \E t \in call[r].list : Proceed(r, AllBut(r, t))
    /\ UNCHANGED <<password, tok, rst, passwords, spent, reused>>

-----------------------------------------------------------------------------

AuthNext ==
    \/ \E r \in Requests :
         \/ LoginCheck(r) \/ LoginCreate(r)
         \/ \E t \in Tokens : RefreshCheck(r, t)
         \/ RefreshReuse(r) \/ RefreshRevoke(r) \/ RefreshCreate(r)
         \/ Logout(r) \/ LogoutResets(r)
         \/ SessionsRead(r) \/ SessionsRevoke(r)
         \/ ResetRequest(r) \/ ResetCreate(r)
         \/ \E k \in ResetTokens : ResetCheck(r, k)
         \/ ResetSave(r) \/ ResetMark(r) \/ ResetRevoke(r)
         \/ FailCall(r) \/ IgnoredError(r)

AuthSpec == AuthInit /\ [][AuthNext]_authVars

-----------------------------------------------------------------------------
(* Properties *)

\* A session is only alive while the password it was opened with is the
\* password: a finished ResetPassword forced everybody out.  Excused are tokens
\* whose creation overlapped the revocation, and errors.
SessionsFollowPassword ==
    authFaults = 0 =>
        \A t \in Tokens :
            Live(t) /\ tok[t].pwd # password =>
                \/ tok[t].late
                \/ \E r \in Requests : call[r].pc \in {"resetmark", "resetrevoke"}

\* A chain of refreshes has one living end, unless refreshes overlapped.
OneLiveTokenPerLogin ==
    \A t, u \in Tokens :
        /\ Live(t) /\ ~tok[t].late
        /\ Live(u) /\ ~tok[u].late
        /\ tok[t].root = tok[u].root
        => t = u

\* Once a revoked token was presented, nothing that goes back to the same login
\* is alive, save what a refresh in progress at that moment created.
ReuseEndsTheLogin ==
    \A t \in Tokens : Live(t) /\ tok[t].root \in reused => tok[t].late

\* There is one valid reset token, unless two requests for one overlapped.
OneValidResetToken ==
    authFaults = 0 =>
        \A k, l \in ResetTokens :
            /\ rst[k].st = "valid" /\ ~rst[k].late
            /\ rst[l].st = "valid" /\ ~rst[l].late
            => k = l

\* A reset token that has set a password will not set another, unless it was
\* sent twice at a time.
ResetTokenSpentOnce ==
    authFaults = 0 =>
        \A r \in Requests : CallAt(r, "resetsave") /\ call[r].k \in spent => call[r].stale

\* Reset tokens work once and one at a time: OneValidResetToken and
\* ResetTokenSpentOnce.
ResetTokensHold == OneValidResetToken /\ ResetTokenSpentOnce

-----------------------------------------------------------------------------
(* The inductive invariant *)

TokenCreated(t) == tok[t].st # "none"
Refreshing(r) == call[r].pc \in {"rotate", "create"}

\* A token in use exists, and a family is the login it goes back to.
Rooted ==
    /\ \A t \in Tokens : TokenCreated(t) =>
         /\ tok[t].fam \in Tokens
         /\ tok[t].root = tok[t].fam
         /\ TokenCreated(tok[t].root)
    /\ \A r \in Requests :
         /\ Refreshing(r) \/ CallAt(r, "reuse") => call[r].t \in Tokens /\ TokenCreated(call[r].t)
         /\ call[r].pc \in {"resetsave", "resetmark"} => call[r].k \in ResetTokens

\* A refresh of a login that was ended will create a late token.
EndedIsKnown ==
    /\ \A t \in reused : TokenCreated(t)
    /\ \A r \in Requests :
         Refreshing(r) /\ tok[call[r].t].root \in reused =>
             call[r].stale \/ tok[call[r].t].late

Resetting == \E r \in Requests : call[r].pc \in {"resetmark", "resetrevoke"}

\* So will a login or a refresh that relies on an old password.
OldPasswordIsKnown ==
    authFaults = 0 =>
        \A r \in Requests :
            /\ CallAt(r, "login") /\ call[r].pwd # password => call[r].stale \/ Resetting
            /\ Refreshing(r) /\ tok[call[r].t].pwd # password =>
                  call[r].stale \/ tok[call[r].t].late \/ Resetting

\* Request r has revoked the one live token of a login and owes its successor.
Owes(r) == CallAt(r, "create") /\ ~call[r].stale /\ ~tok[call[r].t].late

Prompt(t) == Live(t) /\ ~tok[t].late

OneSuccessor ==
    /\ \A r \in Requests :
         /\ CallAt(r, "rotate") /\ ~call[r].stale => Live(call[r].t)
         /\ Owes(r) => \A t \in Tokens : Prompt(t) => tok[t].root # tok[call[r].t].root
    /\ \A r, q \in Requests :
         Owes(r) /\ Owes(q) /\ tok[call[r].t].root = tok[call[q].t].root => r = q

AuthInv ==
    /\ AuthTypeOK
    /\ Rooted
    /\ EndedIsKnown
    /\ ReuseEndsTheLogin
    /\ OldPasswordIsKnown
    /\ SessionsFollowPassword
    /\ OneSuccessor
    /\ OneLiveTokenPerLogin

\* What makes ResetTokensHold inductive.  Request q has set the password with
\* reset token k and has not marked it yet.
Marking(q, k) == CallAt(q, "resetmark") /\ call[q].k = k

\* A spent token is only found valid while the request that spent it is about to
\* mark it: UPDATE users comes before UPDATE password_reset_tokens.
SpentIsMarked ==
    /\ \A r \in Requests :
         call[r].pc \in {"resetsave", "resetmark"} => rst[call[r].k].st # "none"
    /\ \A k \in spent : rst[k].st # "none"
    /\ authFaults = 0 =>
         \A k \in spent : rst[k].st = "valid" => \E q \in Requests : Marking(q, k)

\* A request for a token that nobody overlapped finds no valid one.
NewestIsAlone ==
    authFaults = 0 =>
        \A r \in Requests : CallAt(r, "newreset") /\ ~call[r].stale =>
            \A k \in ResetTokens : rst[k].st = "valid" => rst[k].late

ResetInv == AuthInv /\ SpentIsMarked /\ NewestIsAlone /\ ResetTokensHold
=============================================================================
