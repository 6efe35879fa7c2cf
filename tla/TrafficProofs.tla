---------------------------- MODULE TrafficProofs ----------------------------
(***************************************************************************)
(* Proofs about sessions and password resets, for any number of requests,  *)
(* tokens, password changes and errors: AuthInv is inductive, and with it  *)
(* the four promises it contains hold.  And about requests with one        *)
(* idempotency key, for any operations, requests and expiries: the handler *)
(* runs once for each lock; about exports: one worker makes each; and      *)
(* about the audit log: what it accepts is written in order.               *)
(***************************************************************************)
EXTENDS MCTraffic, FiniteSetTheorems, TLAPS

-----------------------------------------------------------------------------
(* Finite sets *)

\* A set that is not the whole has room for one more.
LEMMA RoomForOneMore ==
    ASSUME NEW T, IsFiniteSet(T), NEW S \in SUBSET T, S # T
    PROVE  1 + Cardinality(S) \in 0..Cardinality(T)
<1>1. PICK x \in T : x \notin S
  OBVIOUS
<1>2. IsFiniteSet(S) /\ Cardinality(S) \in Nat /\ Cardinality(T) \in Nat
  BY FS_Subset, FS_CardinalityType
<1>3. Cardinality(S \cup {x}) = Cardinality(S) + 1
  BY <1>1, <1>2, FS_AddElement
<1>4. Cardinality(S \cup {x}) <= Cardinality(T)
  BY <1>1, FS_Subset
<1> QED BY <1>2, <1>3, <1>4

\* A set whose members are equal has at most one.
LEMMA OneMember ==
    ASSUME NEW S, \A v, w \in S : v = w
    PROVE  Cardinality(S) <= 1
<1>1. CASE S = {}
  BY <1>1, FS_EmptySet
<1>2. CASE S # {}
  <2>1. PICK w \in S : TRUE
    BY <1>2
  <2>2. S = {w}
    BY <2>1
  <2>3. Cardinality({w}) = 1
    BY FS_Singleton
  <2> QED BY <2>2, <2>3
<1> QED BY <1>1, <1>2

\* What the helpers on records return; the provers use these facts in place of
\* the definitions.
LEMMA HoldingFields ==
    ASSUME NEW label, NEW pwd, NEW t, NEW k, NEW list, NEW stale
    PROVE  LET x == Holding(label, pwd, t, k, list, stale)
           IN  x.pc = label /\ x.pwd = pwd /\ x.t = t /\ x.k = k /\ x.stale = stale
BY DEF Holding

\* A request that holds values of the right types has the right type.
LEMMA HoldingType ==
    ASSUME NEW label \in RequestPC, NEW pwd \in 0..MaxPasswords,
           NEW t \in Tokens \cup {NoToken}, NEW k \in ResetTokens \cup {NoToken},
           NEW list \in SUBSET Tokens, NEW stale \in BOOLEAN
    PROVE  Holding(label, pwd, t, k, list, stale) \in Request
BY DEF Holding, Request

\* Moving a request on, marking it and shortening its list change nothing else.
LEMMA RequestOps ==
    ASSUME NEW x \in Request, NEW label \in RequestPC, NEW t
    PROVE  /\ Onto(x, label) \in Request
           /\ Onto(x, label).pc = label /\ Onto(x, label).t = x.t
           /\ Onto(x, label).k = x.k /\ Onto(x, label).stale = x.stale
           /\ Outdated(x) \in Request
           /\ Outdated(x).pc = x.pc /\ Outdated(x).pwd = x.pwd
           /\ Outdated(x).t = x.t /\ Outdated(x).k = x.k /\ Outdated(x).stale = TRUE
           /\ Without(x, t) \in Request
           /\ Without(x, t).pc = x.pc
BY DEF Onto, Outdated, Without, Request

\* The fields of a request.
LEMMA RequestFields ==
    ASSUME NEW x \in Request
    PROVE  /\ x.pc \in RequestPC /\ x.pwd \in 0..MaxPasswords
           /\ x.t \in Tokens \cup {NoToken} /\ x.k \in ResetTokens \cup {NoToken}
           /\ x.list \in SUBSET Tokens /\ x.stale \in BOOLEAN
BY DEF Request

\* Revoking a token changes its state alone.
LEMMA TokenOps ==
    ASSUME NEW x \in Token
    PROVE  /\ Revoked(x) \in Token
           /\ Revoked(x).st = "revoked" /\ Revoked(x).fam = x.fam
           /\ Revoked(x).root = x.root /\ Revoked(x).pwd = x.pwd
           /\ Revoked(x).late = x.late
           /\ x.st \in {"none", "live", "revoked"}
           /\ x.fam \in Tokens \cup {NoToken} /\ x.root \in Tokens \cup {NoToken}
           /\ x.pwd \in 0..MaxPasswords /\ x.late \in BOOLEAN
BY DEF Revoked, Token

\* A new token has the right type ...
LEMMA NewTokType ==
    ASSUME NEW fam \in Tokens, NEW root \in Tokens, NEW pwd \in 0..MaxPasswords,
           NEW isLate \in BOOLEAN
    PROVE  NewTok(fam, root, pwd, isLate) \in Token
BY DEF NewTok, Token

\* ... and the fields it was made of.
LEMMA NewTokFields ==
    ASSUME NEW fam, NEW root, NEW pwd, NEW isLate
    PROVE  LET x == NewTok(fam, root, pwd, isLate)
           IN  x.st = "live" /\ x.fam = fam /\ x.root = root /\ x.pwd = pwd /\ x.late = isLate
BY DEF NewTok

\* The records in password_reset_tokens.
LEMMA ResetTokenOps ==
    ASSUME NEW isLate \in BOOLEAN
    PROVE  /\ [st |-> "valid", late |-> isLate] \in ResetToken
           /\ \A x \in ResetToken : Used(x) \in ResetToken
BY DEF Used, ResetToken

\* The same facts in a state with the right types.
TypeFacts ==
    /\ 0 \in 0..MaxPasswords /\ NoRequest \in Request
    /\ \A label \in RequestPC : NewCall(label) \in Request
    /\ \A q \in Requests :
         /\ call[q] \in Request
         /\ call[q].pwd \in 0..MaxPasswords /\ call[q].stale \in BOOLEAN
         /\ call[q].t \in Tokens \cup {NoToken}
         /\ call[q].list \in SUBSET Tokens
         /\ Outdated(call[q]) \in Request
         /\ \A label \in RequestPC : Onto(call[q], label) \in Request
         /\ \A t \in Tokens : AllBut(q, t) \in Request
    /\ \A t \in Tokens :
         /\ tok[t] \in Token /\ Revoked(tok[t]) \in Token
         /\ Revoked(tok[t]).fam = tok[t].fam
         /\ tok[t].pwd \in 0..MaxPasswords /\ tok[t].late \in BOOLEAN
    /\ \A k \in ResetTokens : Used(rst[k]) \in ResetToken

\* What the types say of each field.
FieldFacts ==
    /\ call \in [Requests -> Request] /\ tok \in [Tokens -> Token]
    /\ NoRequest.pc = "idle"
    /\ \A label \in RequestPC : NewCall(label).pc = label
    /\ \A q \in Requests :
         /\ call[q].pc \in RequestPC /\ call[q].list \in SUBSET Tokens
         /\ Outdated(call[q]).pc = call[q].pc /\ Outdated(call[q]).t = call[q].t
         /\ Outdated(call[q]).k = call[q].k /\ Outdated(call[q]).pwd = call[q].pwd
         /\ Outdated(call[q]).stale
         /\ \A label \in RequestPC :
              /\ Onto(call[q], label).pc = label /\ Onto(call[q], label).t = call[q].t
              /\ Onto(call[q], label).k = call[q].k
              /\ Onto(call[q], label).stale = call[q].stale
         /\ \A t \in Tokens : AllBut(q, t).pc \in {"idle", call[q].pc}
    /\ \A t \in Tokens :
         /\ tok[t].st \in {"none", "live", "revoked"}
         /\ Revoked(tok[t]).st = "revoked"
         /\ Revoked(tok[t]).fam = tok[t].fam /\ Revoked(tok[t]).root = tok[t].root
         /\ Revoked(tok[t]).pwd = tok[t].pwd /\ Revoked(tok[t]).late = tok[t].late

\* FieldFacts and TypeFacts hold wherever the types are right.
LEMMA StateFields == ASSUME AuthTypeOK PROVE FieldFacts
<1>1. NoRequest.pc = "idle" /\ \A label \in RequestPC : NewCall(label).pc = label
  BY DEF NoRequest, NewCall, Holding
<1>2. \A q \in Requests : call[q] \in Request
  BY DEF AuthTypeOK
<1>3. \A t \in Tokens : tok[t] \in Token
  BY DEF AuthTypeOK
<1>4. "idle" \in RequestPC
  BY DEF RequestPC
<1>5. ASSUME NEW q \in Requests
      PROVE  /\ call[q].pc \in RequestPC /\ call[q].list \in SUBSET Tokens
             /\ Outdated(call[q]).pc = call[q].pc /\ Outdated(call[q]).t = call[q].t
             /\ Outdated(call[q]).k = call[q].k /\ Outdated(call[q]).pwd = call[q].pwd
             /\ Outdated(call[q]).stale
             /\ \A label \in RequestPC :
                  /\ Onto(call[q], label).pc = label /\ Onto(call[q], label).t = call[q].t
                  /\ Onto(call[q], label).k = call[q].k
                  /\ Onto(call[q], label).stale = call[q].stale
             /\ \A t \in Tokens : AllBut(q, t).pc \in {"idle", call[q].pc}
  <2>1. call[q] \in Request
    BY <1>2
  <2>2. \A t \in Tokens : Without(call[q], t).pc = call[q].pc
    BY <1>4, <2>1, RequestOps
  <2>3. \A t \in Tokens : AllBut(q, t).pc \in {"idle", call[q].pc}
    BY <1>1, <2>2 DEF AllBut
  <2>4. /\ Outdated(call[q]).pc = call[q].pc /\ Outdated(call[q]).t = call[q].t
        /\ Outdated(call[q]).k = call[q].k /\ Outdated(call[q]).pwd = call[q].pwd
        /\ Outdated(call[q]).stale
    BY <1>4, <2>1, RequestOps
  <2>5. \A label \in RequestPC :
          /\ Onto(call[q], label).pc = label /\ Onto(call[q], label).t = call[q].t
          /\ Onto(call[q], label).k = call[q].k
          /\ Onto(call[q], label).stale = call[q].stale
    BY <2>1, RequestOps
  <2>. QED
    BY <2>1, <2>3, <2>4, <2>5, RequestFields
<1>6. ASSUME NEW t \in Tokens
      PROVE  /\ tok[t].st \in {"none", "live", "revoked"}
             /\ Revoked(tok[t]).st = "revoked"
             /\ Revoked(tok[t]).fam = tok[t].fam /\ Revoked(tok[t]).root = tok[t].root
             /\ Revoked(tok[t]).pwd = tok[t].pwd /\ Revoked(tok[t]).late = tok[t].late
  BY <1>3, TokenOps
<1>. QED
  BY <1>1, <1>5, <1>6 DEF FieldFacts, AuthTypeOK

\* The same for TypeFacts.
LEMMA StateTypes == ASSUME AuthTypeOK PROVE TypeFacts
<1>0. 0 \in 0..MaxPasswords
  BY AuthBoundsAssumption
<1>1. NoRequest \in Request
  BY <1>0, HoldingType DEF RequestPC, NoRequest
<1>2. \A label \in RequestPC : NewCall(label) \in Request
  BY <1>0, HoldingType DEF NewCall
<1>3. \A q \in Requests : call[q] \in Request
  BY DEF AuthTypeOK
<1>4. \A q \in Requests :
        /\ Outdated(call[q]) \in Request
        /\ \A label \in RequestPC : Onto(call[q], label) \in Request
        /\ \A t \in Tokens : AllBut(q, t) \in Request
  <2> SUFFICES ASSUME NEW q \in Requests
               PROVE  /\ Outdated(call[q]) \in Request
                      /\ \A label \in RequestPC : Onto(call[q], label) \in Request
                      /\ \A t \in Tokens : AllBut(q, t) \in Request
    OBVIOUS
  <2>1. call[q] \in Request /\ "idle" \in RequestPC
    BY <1>3 DEF RequestPC
  <2>2. \A t \in Tokens : Without(call[q], t) \in Request
    BY <2>1, RequestOps
  <2>. QED
    BY <1>1, <2>1, <2>2, RequestOps DEF AllBut
<1>5. \A t \in Tokens : tok[t] \in Token
  BY DEF AuthTypeOK
<1>6. \A k \in ResetTokens : Used(rst[k]) \in ResetToken
  BY ResetTokenOps DEF AuthTypeOK
<1>. QED
  BY <1>0, <1>1, <1>2, <1>3, <1>4, <1>5, <1>6, RequestFields, TokenOps DEF TypeFacts

\* Every step keeps the types.
LEMMA NextType == AuthTypeOK /\ Rooted /\ [AuthNext]_authVars => AuthTypeOK'
<1> SUFFICES ASSUME AuthTypeOK /\ Rooted, [AuthNext]_authVars
             PROVE  AuthTypeOK'
  OBVIOUS
<1>0. TypeFacts
  BY StateTypes
<1> USE NoTokenAssumption, AuthBoundsAssumption
    DEF AuthTypeOK, TypeFacts, RequestPC, Continue, Proceed, CallGoto, EndCall, Fault, CallAt
<1>1. ASSUME NEW r \in Requests, LoginCheck(r) PROVE AuthTypeOK'
  BY <1>1, <1>0, HoldingType DEF LoginCheck
<1>2. ASSUME NEW r \in Requests, LoginCreate(r) PROVE AuthTypeOK'
  <2>1. \A t \in Tokens :
          /\ NewTok(t, t, call[r].pwd, call[r].stale) \in Token
          /\ NewTok(t, t, call[r].pwd, call[r].stale).fam \in Tokens
    BY <1>0, NewTokType, NewTokFields
  <2>. QED
    BY <1>2, <1>0, <2>1 DEF LoginCreate
<1>3. ASSUME NEW r \in Requests, NEW t \in Tokens, RefreshCheck(r, t)
      PROVE  AuthTypeOK'
  BY <1>3, <1>0, HoldingType DEF RefreshCheck
<1>4. ASSUME NEW r \in Requests, RefreshReuse(r) PROVE AuthTypeOK'
  BY <1>4, <1>0 DEF RefreshReuse, RevokeThose, Rooted
<1>5. ASSUME NEW r \in Requests, RefreshRevoke(r) PROVE AuthTypeOK'
  BY <1>5, <1>0 DEF RefreshRevoke, RevokeThose, Live, Every, WillCreate
<1>6. ASSUME NEW r \in Requests, RefreshCreate(r) PROVE AuthTypeOK'
  <2>1. call[r].t \in Tokens /\ tok[call[r].t].fam \in Tokens /\ tok[call[r].t].root \in Tokens
    BY <1>6, <1>0 DEF RefreshCreate, Rooted, Refreshing, TokenCreated
  <2>2. LET x == NewTok(tok[call[r].t].fam, tok[call[r].t].root, tok[call[r].t].pwd,
                        tok[call[r].t].late \/ call[r].stale)
        IN  x \in Token /\ x.fam \in Tokens
    BY SMTT(20), <1>0, <2>1, NewTokType, NewTokFields
  <2>. QED
    BY SMTT(20), <1>6, <1>0, <2>2 DEF RefreshCreate
<1>7. ASSUME NEW r \in Requests, Logout(r) PROVE AuthTypeOK'
  BY <1>7, <1>0 DEF Logout, RevokeThose, Live, Every, WillCreate
<1>8. ASSUME NEW r \in Requests, LogoutResets(r) PROVE AuthTypeOK'
  BY <1>8, <1>0 DEF LogoutResets, UseAllResets
<1>9. ASSUME NEW r \in Requests, SessionsRead(r) PROVE AuthTypeOK'
  <2>1. \A list \in SUBSET Tokens, label \in RequestPC :
          Holding(label, 0, NoToken, NoToken, list, FALSE) \in Request
    BY <1>0, HoldingType
  <2>2. PICK list \in SUBSET Tokens, label \in {"revoke", "others"} :
          call' = [call EXCEPT ![r] = Holding(label, 0, NoToken, NoToken, list, FALSE)]
    BY <1>9 DEF SessionsRead
  <2>. QED
    BY <1>9, <1>0, <2>1, <2>2 DEF SessionsRead
<1>10. ASSUME NEW r \in Requests, SessionsRevoke(r) PROVE AuthTypeOK'
  BY <1>10, <1>0 DEF SessionsRevoke, RevokeThose, Live, Every, WillCreate
<1>11. ASSUME NEW r \in Requests, ResetRequest(r) PROVE AuthTypeOK'
  BY <1>11, <1>0 DEF ResetRequest, UseAllResets
<1>12. ASSUME NEW r \in Requests, ResetCreate(r) PROVE AuthTypeOK'
  BY <1>12, <1>0, ResetTokenOps DEF ResetCreate
<1>13. ASSUME NEW r \in Requests, NEW k \in ResetTokens, ResetCheck(r, k)
       PROVE  AuthTypeOK'
  BY <1>13, <1>0, HoldingType DEF ResetCheck
<1>14. ASSUME NEW r \in Requests, ResetSave(r) PROVE AuthTypeOK'
  BY <1>14, <1>0 DEF ResetSave, Rooted
<1>15. ASSUME NEW r \in Requests, ResetMark(r) PROVE AuthTypeOK'
  BY <1>15, <1>0 DEF ResetMark
<1>16. ASSUME NEW r \in Requests, ResetRevoke(r) PROVE AuthTypeOK'
  BY <1>16, <1>0 DEF ResetRevoke, RevokeThose, Live, Every, WillCreate
<1>17. ASSUME NEW r \in Requests, FailCall(r) PROVE AuthTypeOK'
  BY <1>17, <1>0 DEF FailCall
<1>18. ASSUME NEW r \in Requests, IgnoredError(r) PROVE AuthTypeOK'
  BY <1>18, <1>0 DEF IgnoredError
<1>19. CASE UNCHANGED authVars
  BY <1>19 DEF authVars
<1>. QED
  BY <1>1, <1>2, <1>3, <1>4, <1>5, <1>6, <1>7, <1>8, <1>9, <1>10, <1>11,
     <1>12, <1>13, <1>14, <1>15, <1>16, <1>17, <1>18, <1>19
  DEF AuthNext

\* What the last step of Refresh does.
LEMMA CreateStep ==
    ASSUME AuthTypeOK, Rooted, NEW r \in Requests, RefreshCreate(r)
    PROVE  /\ call[r].pc = "create" /\ call[r].t \in Tokens /\ TokenCreated(call[r].t)
           /\ call'[r].pc = "idle" /\ \A q \in Requests \ {r} : call'[q] = call[q]
           /\ password' = password /\ reused' = reused /\ authFaults' = authFaults
           /\ \E t \in Tokens :
                /\ tok[t].st = "none"
                /\ \A u \in Tokens \ {t} : tok'[u] = tok[u]
                /\ tok'[t].st = "live"
                /\ tok'[t].fam = tok[call[r].t].fam /\ tok'[t].root = tok[call[r].t].root
                /\ tok'[t].pwd = tok[call[r].t].pwd
                /\ tok'[t].late = (tok[call[r].t].late \/ call[r].stale)
<1>0. FieldFacts
  BY StateFields
<1>1. call[r].pc = "create" /\ call' = [call EXCEPT ![r] = NoRequest]
  BY DEF RefreshCreate, CallAt, EndCall, Proceed
<1>2. call[r].t \in Tokens /\ TokenCreated(call[r].t)
  BY <1>1 DEF Rooted, Refreshing
<1>3. PICK t \in Tokens :
        /\ tok[t].st = "none"
        /\ tok' = [tok EXCEPT ![t] = NewTok(tok[call[r].t].fam, tok[call[r].t].root,
                      tok[call[r].t].pwd, tok[call[r].t].late \/ call[r].stale)]
  BY DEF RefreshCreate
<1>4. /\ \A u \in Tokens \ {t} : tok'[u] = tok[u]
      /\ tok'[t].st = "live"
      /\ tok'[t].fam = tok[call[r].t].fam /\ tok'[t].root = tok[call[r].t].root
      /\ tok'[t].pwd = tok[call[r].t].pwd
      /\ tok'[t].late = (tok[call[r].t].late \/ call[r].stale)
  BY <1>0, <1>3 DEF NewTok, FieldFacts
<1>5. call'[r].pc = "idle" /\ \A q \in Requests \ {r} : call'[q] = call[q]
  BY <1>0, <1>1 DEF FieldFacts
<1>6. password' = password /\ reused' = reused /\ authFaults' = authFaults
  BY DEF RefreshCreate
<1>. QED
  BY <1>1, <1>2, <1>3, <1>4, <1>5, <1>6

\* What all revocations do to tokens and to the requests that rely on them.
Fades ==
    \A t \in Tokens :
        /\ tok'[t].fam = tok[t].fam /\ tok'[t].root = tok[t].root
        /\ tok'[t].pwd = tok[t].pwd /\ tok'[t].late = tok[t].late
        /\ tok'[t].st = "none" <=> tok[t].st = "none"
        /\ tok'[t].st = "live" => tok[t].st = "live"

\* A request that is about to create a token was so before, with the same password or
\* token, and what made it stale stays.
Ages ==
    \A q \in Requests :
        /\ call'[q].pc \in {"rotate", "create"} =>
             /\ call[q].pc \in {"rotate", "create"} /\ call'[q].t = call[q].t
             /\ call[q].stale => call'[q].stale
        /\ call'[q].pc = "login" =>
             call[q].pc = "login" /\ call'[q].pwd = call[q].pwd /\ (call[q].stale => call'[q].stale)

\* A request that holds a token has held it before.
Holds ==
    \A q \in Requests :
        /\ call'[q].pc \in {"rotate", "create", "reuse"} =>
             call[q].pc \in {"rotate", "create", "reuse"} /\ call'[q].t = call[q].t
        /\ call'[q].pc \in {"resetsave", "resetmark"} =>
             call[q].pc \in {"resetsave", "resetmark"} /\ call'[q].k = call[q].k

\* Every handler that revokes tokens only does that to them.
LEMMA Revocations ==
    ASSUME AuthTypeOK, NEW r \in Requests,
           \/ RefreshReuse(r) \/ RefreshRevoke(r) \/ Logout(r)
           \/ SessionsRevoke(r) \/ ResetRevoke(r)
    PROVE  Fades /\ Ages /\ Holds
<1>0. FieldFacts
  BY StateFields
<1> USE DEF FieldFacts, RequestPC, Continue, CallAt, CallIdle, RevokeThose, Live, Fades, Ages,
            Holds
<1>1. CASE RefreshReuse(r)
  BY <1>0, <1>1 DEF RefreshReuse
<1>2. CASE RefreshRevoke(r)
  BY <1>0, <1>2 DEF RefreshRevoke
<1>3. CASE Logout(r)
  BY <1>0, <1>3 DEF Logout, WillCreate, Every
<1>4. CASE SessionsRevoke(r)
  BY <1>0, <1>4 DEF SessionsRevoke
<1>5. CASE ResetRevoke(r)
  BY <1>0, <1>5 DEF ResetRevoke, WillCreate, Every
<1>. QED
  BY <1>1, <1>2, <1>3, <1>4, <1>5

\* A step that only revokes tokens keeps the roots, as does one that leaves them alone.
LEMMA RootsStay ==
    ASSUME Rooted, Fades \/ tok' = tok, Holds
    PROVE  Rooted'
<1>1. \A t \in Tokens : /\ TokenCreated(t)' <=> TokenCreated(t)
                        /\ tok'[t].fam = tok[t].fam /\ tok'[t].root = tok[t].root
  BY DEF Fades, TokenCreated
<1>2. ASSUME NEW t \in Tokens, TokenCreated(t)'
      PROVE  /\ tok'[t].fam \in Tokens /\ tok'[t].root = tok'[t].fam
             /\ tok'[tok'[t].root].st # "none"
  <2>1. tok[t].fam \in Tokens /\ tok[t].root = tok[t].fam /\ TokenCreated(tok[t].root)
    BY <1>1, <1>2 DEF Rooted
  <2>2. TokenCreated(tok[t].fam)'
    BY <1>1, <2>1
  <2> QED
    BY <1>1, <2>1, <2>2 DEF TokenCreated
<1>3. ASSUME NEW q \in Requests, call'[q].pc \in {"rotate", "create", "reuse"}
      PROVE  call'[q].t \in Tokens /\ tok'[call'[q].t].st # "none"
  <2>1. call'[q].t = call[q].t /\ call[q].t \in Tokens /\ TokenCreated(call[q].t)
    BY <1>3 DEF Holds, Rooted, Refreshing, CallAt
  <2> QED
    BY <1>1, <2>1 DEF TokenCreated
<1>4. ASSUME NEW q \in Requests, call'[q].pc \in {"resetsave", "resetmark"}
      PROVE  call'[q].k \in ResetTokens
  BY <1>4 DEF Holds, Rooted
<1> QED
  BY <1>2, <1>3, <1>4 DEF Rooted, TokenCreated, Refreshing, CallAt

\* A request that has read which sessions to revoke goes on to revoke them.
LEMMA RevokingRequest ==
    ASSUME NEW r \in Requests, SessionsRead(r)
    PROVE  \E x : call' = [call EXCEPT ![r] = x] /\ x.pc \in {"revoke", "others"}
<1>1. \A list : /\ Holding("revoke", 0, NoToken, NoToken, list, FALSE).pc = "revoke"
                /\ Holding("others", 0, NoToken, NoToken, list, FALSE).pc = "others"
  BY DEF Holding
<1>2. CASE \E t \in Tokens :
             call' = [call EXCEPT ![r] = Holding("revoke", 0, NoToken, NoToken, {t}, FALSE)]
  BY <1>1, <1>2
<1>3. CASE \E list :
             call' = [call EXCEPT ![r] = Holding("others", 0, NoToken, NoToken, list, FALSE)]
  BY <1>1, <1>3
<1> QED
  BY <1>2, <1>3 DEF SessionsRead, Proceed

\* Tokens in use exist.
LEMMA NextRooted == AuthInv /\ [AuthNext]_authVars => Rooted'
<1> SUFFICES ASSUME AuthInv, [AuthNext]_authVars PROVE Rooted'
  OBVIOUS
<1>a. AuthTypeOK /\ Rooted
  BY DEF AuthInv
<1>0. FieldFacts
  BY <1>a, StateFields
<1> USE NoTokenAssumption
    DEF FieldFacts, RequestPC, Continue, Proceed, CallGoto, EndCall, CallAt, CallIdle, Live, Every,
        WillCreate, TokenCreated, Refreshing, Rooted
<1>1. ASSUME NEW r \in Requests, LoginCheck(r) PROVE Rooted'
  BY <1>1, <1>0, <1>a DEF Holding, LoginCheck
<1>2. ASSUME NEW r \in Requests, LoginCreate(r) PROVE Rooted'
  BY <1>2, <1>0, <1>a DEF NewTok, LoginCreate
<1>3. ASSUME NEW r \in Requests, NEW t \in Tokens, RefreshCheck(r, t)
      PROVE  Rooted'
  BY <1>3, <1>0, <1>a DEF Holding, RefreshCheck
<1>4. ASSUME NEW r \in Requests, RefreshReuse(r) PROVE Rooted'
  BY <1>4, <1>a, Revocations, RootsStay
<1>5. ASSUME NEW r \in Requests, RefreshRevoke(r) PROVE Rooted'
  BY <1>5, <1>a, Revocations, RootsStay
<1>6. ASSUME NEW r \in Requests, RefreshCreate(r) PROVE Rooted'
  <2>1. PICK t \in Tokens :
          /\ tok[t].st = "none"
          /\ \A u \in Tokens \ {t} : tok'[u] = tok[u]
          /\ tok'[t].st = "live"
          /\ tok'[t].fam = tok[call[r].t].fam /\ tok'[t].root = tok[call[r].t].root
          /\ tok'[t].late = (tok[call[r].t].late \/ call[r].stale)
    BY <1>a, <1>6, CreateStep
  <2>2. /\ call[r].t \in Tokens /\ tok[call[r].t].st # "none" /\ call[r].pc = "create"
        /\ call'[r].pc = "idle" /\ \A q \in Requests \ {r} : call'[q] = call[q]
        /\ reused' = reused
    BY <1>a, <1>6, CreateStep
  <2>4. /\ tok[call[r].t].fam \in Tokens /\ tok[call[r].t].root = tok[call[r].t].fam
        /\ tok[tok[call[r].t].root].st # "none" /\ tok[call[r].t].root # t
    BY <1>a, <2>1, <2>2
  <2>5. \A u \in Tokens : tok'[u].st # "none" =>
          tok'[u].fam \in Tokens /\ tok'[u].root = tok'[u].fam /\ tok'[tok'[u].root].st # "none"
    BY <1>a, <2>1, <2>4
  <2>6. \A u \in Tokens : tok[u].st # "none" => tok'[u].st # "none"
    BY <2>1
  <2>7. \A q \in Requests :
          /\ call'[q].pc \in {"rotate", "create", "reuse"} =>
               call'[q].t \in Tokens /\ tok'[call'[q].t].st # "none"
          /\ call'[q].pc \in {"resetsave", "resetmark"} => call'[q].k \in ResetTokens
    BY <1>a, <2>2, <2>6
  <2>. QED
    BY <2>4, <2>5, <2>7
<1>7. ASSUME NEW r \in Requests, Logout(r) PROVE Rooted'
  BY <1>7, <1>a, Revocations, RootsStay
<1>8. ASSUME NEW r \in Requests, LogoutResets(r) PROVE Rooted'
  BY <1>8, <1>0, <1>a DEF LogoutResets, UseAllResets
<1>9. ASSUME NEW r \in Requests, SessionsRead(r) PROVE Rooted'
  <2>1. PICK x : call' = [call EXCEPT ![r] = x] /\ x.pc \in {"revoke", "others"}
    BY <1>9, RevokingRequest
  <2>2. tok' = tok /\ Holds
    BY <1>9, <1>0, <2>1 DEF SessionsRead, Holds
  <2> QED
    BY <2>2, <1>a, RootsStay
<1>10. ASSUME NEW r \in Requests, SessionsRevoke(r) PROVE Rooted'
  BY <1>10, <1>a, Revocations, RootsStay
<1>11. ASSUME NEW r \in Requests, ResetRequest(r) PROVE Rooted'
  BY <1>11, <1>0, <1>a DEF ResetRequest, UseAllResets
<1>12. ASSUME NEW r \in Requests, ResetCreate(r) PROVE Rooted'
  BY <1>12, <1>0, <1>a DEF ResetCreate
<1>13. ASSUME NEW r \in Requests, NEW k \in ResetTokens, ResetCheck(r, k)
       PROVE  Rooted'
  BY <1>13, <1>0, <1>a DEF Holding, ResetCheck
<1>14. ASSUME NEW r \in Requests, ResetSave(r) PROVE Rooted'
  BY <1>14, <1>0, <1>a DEF ResetSave
<1>15. ASSUME NEW r \in Requests, ResetMark(r) PROVE Rooted'
  BY <1>15, <1>0, <1>a DEF ResetMark
<1>16. ASSUME NEW r \in Requests, ResetRevoke(r) PROVE Rooted'
  BY <1>16, <1>a, Revocations, RootsStay
<1>17. ASSUME NEW r \in Requests, FailCall(r) PROVE Rooted'
  BY <1>17, <1>0, <1>a DEF FailCall
<1>18. ASSUME NEW r \in Requests, IgnoredError(r) PROVE Rooted'
  <2>1. PICK x : /\ call' = [call EXCEPT ![r] = x]
                 /\ x.pc \in {"newreset", "resetrevoke", "idle", "others"}
    BY <1>18, <1>0, <1>a DEF IgnoredError
  <2>2. tok' = tok /\ password' = password /\ reused' = reused /\ Fault
    BY <1>18 DEF IgnoredError
  <2>. QED
    BY <1>0, <1>a, <2>1, <2>2
<1>19. CASE UNCHANGED authVars
  BY <1>19, <1>a DEF authVars
<1>. QED
  BY <1>1, <1>2, <1>3, <1>4, <1>5, <1>6, <1>7, <1>8, <1>9, <1>10, <1>11,
     <1>12, <1>13, <1>14, <1>15, <1>16, <1>17, <1>18, <1>19
  DEF AuthNext

\* The steps that begin no login or refresh, create or revoke no token and set no
\* password leave both alone.
LEMMA OtherSteps ==
    ASSUME AuthTypeOK, NEW r \in Requests,
           \/ LogoutResets(r) \/ SessionsRead(r) \/ ResetRequest(r) \/ ResetCreate(r)
           \/ \E k \in ResetTokens : ResetCheck(r, k)
           \/ ResetMark(r) \/ FailCall(r) \/ IgnoredError(r)
    PROVE  tok' = tok /\ Ages /\ \A q \in Requests : Refreshing(q)' => call'[q].pc = call[q].pc
<1>0. FieldFacts
  BY StateFields
<1> USE DEF FieldFacts, RequestPC, Continue, Proceed, CallGoto, EndCall, CallAt, CallIdle, Ages, Refreshing
<1>1. CASE LogoutResets(r)
  BY <1>0, <1>1 DEF LogoutResets
<1>2. CASE SessionsRead(r)
  <2>2. PICK x : call' = [call EXCEPT ![r] = x] /\ x.pc \in {"revoke", "others"}
    BY <1>2, RevokingRequest
  <2>. QED
    BY <1>0, <1>2, <2>2 DEF SessionsRead
<1>3. CASE ResetRequest(r)
  BY <1>0, <1>3 DEF ResetRequest
<1>4. CASE ResetCreate(r)
  BY <1>0, <1>4 DEF ResetCreate
<1>5. CASE \E k \in ResetTokens : ResetCheck(r, k)
  BY <1>0, <1>5 DEF ResetCheck, Holding
<1>6. CASE ResetMark(r)
  BY <1>0, <1>6 DEF ResetMark
<1>7. CASE FailCall(r)
  BY <1>0, <1>7 DEF FailCall
<1>8. CASE IgnoredError(r)
  <2>1. PICK x : /\ call' = [call EXCEPT ![r] = x]
                 /\ x.pc \in {"newreset", "resetrevoke", "idle", "others"}
    BY <1>0, <1>8 DEF IgnoredError
  <2>. QED
    BY <1>0, <1>8, <2>1 DEF IgnoredError
<1>. QED
  BY <1>1, <1>2, <1>3, <1>4, <1>5, <1>6, <1>7, <1>8

\* A step that leaves the tokens alone revokes no more than it should.
LEMMA Unchanged ==
    ASSUME AuthTypeOK, tok' = tok
    PROVE  Fades
BY DEF Fades

\* A revocation that is not about reuse leaves what reuse has ended as it is.
LEMMA FadeEnded ==
    ASSUME AuthTypeOK, Rooted, EndedIsKnown, ReuseEndsTheLogin, Fades, Ages, reused' = reused
    PROVE  (EndedIsKnown /\ ReuseEndsTheLogin)'
<1>0. reused \in SUBSET Tokens
  BY DEF AuthTypeOK
<1>1. \A t \in reused : tok'[t].st # "none"
  BY <1>0 DEF EndedIsKnown, TokenCreated, Fades
<1>2. ASSUME NEW q \in Requests, call'[q].pc \in {"rotate", "create"}, tok'[call'[q].t].root \in reused
      PROVE  call'[q].stale \/ tok'[call'[q].t].late
  <2>1. call[q].pc \in {"rotate", "create"} /\ call'[q].t = call[q].t /\ call[q].t \in Tokens
    BY <1>2 DEF Ages, Rooted, Refreshing
  <2>2. call[q].stale \/ tok[call[q].t].late
    BY <1>2, <2>1 DEF EndedIsKnown, Refreshing, Fades
  <2>. QED
    BY <1>2, <2>1, <2>2 DEF Fades, Ages
<1>3. ASSUME NEW t \in Tokens, tok'[t].st = "live", tok'[t].root \in reused
      PROVE  tok'[t].late
  BY <1>3 DEF Fades, ReuseEndsTheLogin, Live
<1>. QED
  BY <1>1, <1>2, <1>3 DEF EndedIsKnown, ReuseEndsTheLogin, Live, Refreshing, TokenCreated

\* What a reused token ended stays ended.
LEMMA NextEnded ==
    AuthInv /\ [AuthNext]_authVars => (EndedIsKnown /\ ReuseEndsTheLogin)'
<1> SUFFICES ASSUME AuthInv, [AuthNext]_authVars
             PROVE  (EndedIsKnown /\ ReuseEndsTheLogin)'
  OBVIOUS
<1>a. AuthTypeOK /\ Rooted /\ EndedIsKnown /\ ReuseEndsTheLogin
  BY DEF AuthInv
<1>0. FieldFacts
  BY <1>a, StateFields
<1> USE DEF FieldFacts, RequestPC, Continue, Proceed, EndCall, CallAt, CallIdle, Live, TokenCreated,
        Refreshing, Rooted, EndedIsKnown, ReuseEndsTheLogin
<1>1. ASSUME NEW r \in Requests, LoginCheck(r)
      PROVE  (EndedIsKnown /\ ReuseEndsTheLogin)'
  BY <1>1, <1>0, <1>a DEF Holding, LoginCheck
<1>2. ASSUME NEW r \in Requests, LoginCreate(r)
      PROVE  (EndedIsKnown /\ ReuseEndsTheLogin)'
  BY <1>2, <1>0, <1>a DEF NewTok, LoginCreate
<1>3. ASSUME NEW r \in Requests, NEW t \in Tokens, RefreshCheck(r, t)
      PROVE  (EndedIsKnown /\ ReuseEndsTheLogin)'
  BY <1>3, <1>0, <1>a DEF Holding, RefreshCheck
<1>4. ASSUME NEW r \in Requests, RefreshReuse(r)
      PROVE  (EndedIsKnown /\ ReuseEndsTheLogin)'
  <2> DEFINE x == tok[call[r].t].root
  <2>1. Fades /\ Ages
    BY <1>4, <1>a, Revocations
  <2>2. call[r].t \in Tokens /\ x \in Tokens /\ tok[x].st # "none" /\ x = tok[call[r].t].fam
    BY <1>4, <1>a DEF RefreshReuse
  <2>3. reused' = reused \cup {x} /\ reused \in SUBSET Tokens
    BY <1>4, <1>a DEF RefreshReuse, AuthTypeOK
  <2>4. ASSUME NEW t \in Tokens, tok[t].root = x
        PROVE  tok'[t].st # "live"
    <3>1. CASE tok[t].st # "live"
      BY <2>1, <3>1 DEF Fades
    <3>2. CASE tok[t].st = "live"
      <4>1. tok[t].fam = x
        BY <1>a, <2>4, <3>2
      <4>. QED
        BY <1>4, <1>0, <2>2, <3>2, <4>1 DEF RefreshReuse, RevokeThose
    <3>. QED
      BY <3>1, <3>2
  <2>5. ASSUME NEW q \in Requests, call'[q].pc \in {"rotate", "create"}, tok'[call'[q].t].root = x
        PROVE  call'[q].stale
    <3>1. call[q].pc \in {"rotate", "create"} /\ call'[q].t = call[q].t
      BY <2>1, <2>5 DEF Ages
    <3>2. call[q].t \in Tokens /\ tok[call[q].t].fam = x
      BY <1>a, <2>1, <2>5, <3>1 DEF Fades
    <3>3. q # r
      BY <1>4, <3>1 DEF RefreshReuse
    <3>. QED
      BY <1>4, <1>0, <2>2, <3>1, <3>2, <3>3 DEF RefreshReuse
  <2>6. \A t \in reused' : tok'[t].st # "none"
    BY <1>a, <2>1, <2>2, <2>3 DEF Fades
  <2>7. ASSUME NEW q \in Requests, call'[q].pc \in {"rotate", "create"}, tok'[call'[q].t].root \in reused'
        PROVE  call'[q].stale \/ tok'[call'[q].t].late
    <3>1. call[q].pc \in {"rotate", "create"} /\ call'[q].t = call[q].t /\ call[q].t \in Tokens
      BY <1>a, <2>1, <2>7 DEF Ages
    <3>2. CASE tok'[call'[q].t].root = x
      BY <2>5, <2>7, <3>2
    <3>3. CASE tok[call[q].t].root \in reused
      BY <1>a, <2>1, <2>7, <3>1, <3>3 DEF Fades, Ages
    <3>. QED
      BY <2>1, <2>3, <2>7, <3>1, <3>2, <3>3 DEF Fades
  <2>8. ASSUME NEW t \in Tokens, tok'[t].st = "live", tok'[t].root \in reused'
        PROVE  tok'[t].late
    BY <1>a, <2>1, <2>3, <2>4, <2>8 DEF Fades
  <2>. QED
    BY <2>6, <2>7, <2>8
<1>5. ASSUME NEW r \in Requests, RefreshCreate(r)
      PROVE  (EndedIsKnown /\ ReuseEndsTheLogin)'
  <2>1. PICK t \in Tokens :
          /\ tok[t].st = "none"
          /\ \A u \in Tokens \ {t} : tok'[u] = tok[u]
          /\ tok'[t].st = "live"
          /\ tok'[t].fam = tok[call[r].t].fam /\ tok'[t].root = tok[call[r].t].root
          /\ tok'[t].late = (tok[call[r].t].late \/ call[r].stale)
    BY <1>a, <1>5, CreateStep
  <2>2. /\ call[r].t \in Tokens /\ tok[call[r].t].st # "none" /\ call[r].pc = "create"
        /\ call'[r].pc = "idle" /\ \A q \in Requests \ {r} : call'[q] = call[q]
        /\ reused' = reused
    BY <1>a, <1>5, CreateStep
  <2>4. /\ \A u \in Tokens : tok[u].st # "none" => tok'[u] = tok[u]
        /\ tok[call[r].t].root \in Tokens /\ reused \in SUBSET Tokens
    BY <1>a, <2>1, <2>2 DEF AuthTypeOK
  <2>5. tok[call[r].t].root \in reused => tok'[t].late
    BY <1>a, <2>1, <2>2
  <2>6. \A u \in reused' : tok'[u].st # "none"
    BY <1>a, <2>2, <2>4
  <2>7. ASSUME NEW q \in Requests, call'[q].pc \in {"rotate", "create"}, tok'[call'[q].t].root \in reused'
        PROVE  call'[q].stale \/ tok'[call'[q].t].late
    <3>1. call'[q] = call[q] /\ call[q].t \in Tokens /\ tok[call[q].t].st # "none"
      BY <1>a, <2>2, <2>7
    <3>. QED
      BY <1>a, <2>2, <2>4, <2>7, <3>1
  <2>8. ASSUME NEW u \in Tokens, tok'[u].st = "live", tok'[u].root \in reused'
        PROVE  tok'[u].late
    BY <1>a, <2>1, <2>2, <2>5, <2>8
  <2>. QED
    BY <2>6, <2>7, <2>8
<1>6. ASSUME NEW r \in Requests, ResetSave(r)
      PROVE  (EndedIsKnown /\ ReuseEndsTheLogin)'
  BY <1>6, <1>0, <1>a DEF ResetSave
<1>7. ASSUME NEW r \in Requests,
             \/ RefreshRevoke(r) \/ Logout(r) \/ SessionsRevoke(r) \/ ResetRevoke(r)
      PROVE  (EndedIsKnown /\ ReuseEndsTheLogin)'
  <2>1. Fades /\ Ages
    BY <1>a, <1>7, Revocations
  <2>2. reused' = reused
    BY <1>7 DEF RefreshRevoke, Logout, SessionsRevoke, ResetRevoke
  <2>. QED
    BY <1>a, <2>1, <2>2, FadeEnded
<1>8. ASSUME NEW r \in Requests,
             \/ LogoutResets(r) \/ SessionsRead(r) \/ ResetRequest(r) \/ ResetCreate(r)
             \/ \E k \in ResetTokens : ResetCheck(r, k)
             \/ ResetMark(r) \/ FailCall(r) \/ IgnoredError(r)
      PROVE  (EndedIsKnown /\ ReuseEndsTheLogin)'
  <2>1. Fades /\ Ages
    BY <1>a, <1>8, OtherSteps, Unchanged
  <2>2. reused' = reused
    BY <1>8 DEF LogoutResets, SessionsRead, ResetRequest, ResetCreate, ResetCheck, ResetMark,
       FailCall, IgnoredError
  <2>. QED
    BY <1>a, <2>1, <2>2, FadeEnded
<1>9. CASE UNCHANGED authVars
  BY <1>9, <1>a DEF authVars
<1>. QED
  BY <1>1, <1>2, <1>3, <1>4, <1>5, <1>6, <1>7, <1>8, <1>9 DEF AuthNext

\* A password change is over when every token has been revoked, or fails.
LEMMA ResettingLasts ==
    ASSUME AuthTypeOK, NEW r \in Requests,
           \/ LoginCheck(r) \/ LoginCreate(r)
           \/ \E t \in Tokens : RefreshCheck(r, t)
           \/ RefreshReuse(r) \/ RefreshRevoke(r) \/ RefreshCreate(r)
           \/ Logout(r) \/ LogoutResets(r) \/ SessionsRead(r) \/ SessionsRevoke(r)
           \/ ResetRequest(r) \/ ResetCreate(r)
           \/ \E k \in ResetTokens : ResetCheck(r, k)
           \/ ResetMark(r) \/ FailCall(r) \/ IgnoredError(r)
    PROVE  /\ password' = password
           /\ authFaults' = 0 => authFaults = 0 /\ (Resetting => Resetting')
<1>0. FieldFacts /\ authFaults \in Nat
  BY StateFields, AuthBoundsAssumption DEF AuthTypeOK
<1>1. CASE FailCall(r) \/ IgnoredError(r)
  <2>1. password' = password /\ Fault
    BY <1>1 DEF FailCall, IgnoredError
  <2>2. authFaults' # 0
    BY <1>0, <2>1 DEF Fault
  <2>. QED
    BY <2>1, <2>2
<1>2. ASSUME password' = password, authFaults' = authFaults,
             \A q \in Requests : q # r => call'[q].pc = call[q].pc,
             call[r].pc \in {"resetmark", "resetrevoke"} => call'[r].pc = "resetrevoke"
      PROVE  /\ password' = password
             /\ authFaults' = 0 => authFaults = 0 /\ (Resetting => Resetting')
  BY <1>2 DEF Resetting
<1> USE DEF FieldFacts, RequestPC, Continue, Proceed, CallGoto, EndCall, CallAt, CallIdle
<1>3. CASE LoginCheck(r)
  BY <1>0, <1>2, <1>3 DEF LoginCheck
<1>4. CASE LoginCreate(r)
  BY <1>0, <1>2, <1>4 DEF LoginCreate
<1>5. CASE \E t \in Tokens : RefreshCheck(r, t)
  BY <1>0, <1>2, <1>5 DEF RefreshCheck
<1>6. CASE RefreshReuse(r)
  BY <1>0, <1>2, <1>6 DEF RefreshReuse
<1>7. CASE RefreshRevoke(r)
  BY <1>0, <1>2, <1>7 DEF RefreshRevoke
<1>8. CASE RefreshCreate(r)
  BY <1>0, <1>2, <1>8 DEF RefreshCreate
<1>9. CASE Logout(r)
  BY <1>0, <1>2, <1>9 DEF Logout
<1>10. CASE LogoutResets(r)
  BY <1>0, <1>2, <1>10 DEF LogoutResets
<1>11. CASE SessionsRead(r)
  <2>1. call[r].pc = "idle" /\ password' = password /\ authFaults' = authFaults
    BY <1>11 DEF SessionsRead
  <2>2. \E x : call' = [call EXCEPT ![r] = x]
    BY <1>11 DEF SessionsRead
  <2>3. \A q \in Requests : q # r => call'[q].pc = call[q].pc
    BY <1>0, <2>2
  <2>. QED
    BY <1>2, <2>1, <2>3
<1>12. CASE SessionsRevoke(r)
  BY <1>0, <1>2, <1>12 DEF SessionsRevoke
<1>13. CASE ResetRequest(r)
  BY <1>0, <1>2, <1>13 DEF ResetRequest
<1>14. CASE ResetCreate(r)
  BY <1>0, <1>2, <1>14 DEF ResetCreate
<1>15. CASE \E k \in ResetTokens : ResetCheck(r, k)
  BY <1>0, <1>2, <1>15 DEF ResetCheck
<1>16. CASE ResetMark(r)
  BY <1>0, <1>2, <1>16 DEF ResetMark
<1>. QED
  BY <1>1, <1>3, <1>4, <1>5, <1>6, <1>7, <1>8, <1>9, <1>10, <1>11, <1>12, <1>13, <1>14,
     <1>15, <1>16

\* A revocation leaves what is known of old passwords as it is.
LEMMA FadeOld ==
    ASSUME AuthTypeOK, Rooted, OldPasswordIsKnown, SessionsFollowPassword, Fades, Ages,
           password' = password, authFaults' = 0 => authFaults = 0 /\ (Resetting => Resetting')
    PROVE  (OldPasswordIsKnown /\ SessionsFollowPassword)'
<1> SUFFICES ASSUME authFaults' = 0
             PROVE  (OldPasswordIsKnown /\ SessionsFollowPassword)'
  BY DEF OldPasswordIsKnown, SessionsFollowPassword
<1>1. ASSUME NEW q \in Requests, call'[q].pc = "login", call'[q].pwd # password
      PROVE  call'[q].stale \/ Resetting'
  BY <1>1 DEF Ages, OldPasswordIsKnown, CallAt
<1>2. ASSUME NEW q \in Requests, call'[q].pc \in {"rotate", "create"},
             tok'[call'[q].t].pwd # password
      PROVE  call'[q].stale \/ tok'[call'[q].t].late \/ Resetting'
  <2>1. call[q].pc \in {"rotate", "create"} /\ call'[q].t = call[q].t /\ call[q].t \in Tokens
    BY <1>2 DEF Ages, Rooted, Refreshing
  <2>2. tok'[call[q].t].pwd = tok[call[q].t].pwd /\ tok'[call[q].t].late = tok[call[q].t].late
    BY <2>1 DEF Fades
  <2>3. call[q].stale \/ tok[call[q].t].late \/ Resetting
    BY <1>2, <2>1, <2>2 DEF OldPasswordIsKnown, Refreshing
  <2>. QED
    BY <1>2, <2>1, <2>2, <2>3 DEF Ages
<1>3. ASSUME NEW t \in Tokens, tok'[t].st = "live", tok'[t].pwd # password
      PROVE  tok'[t].late \/ Resetting'
  BY <1>3 DEF Fades, SessionsFollowPassword, Live, Resetting
<1>. QED
  BY <1>1, <1>2, <1>3 DEF OldPasswordIsKnown, SessionsFollowPassword, CallAt, Refreshing, Live, Resetting

\* Sessions and requests that rely on an old password are known as such.
LEMMA NextOld ==
    AuthInv /\ [AuthNext]_authVars => (OldPasswordIsKnown /\ SessionsFollowPassword)'
<1> SUFFICES ASSUME AuthInv, [AuthNext]_authVars
             PROVE  (OldPasswordIsKnown /\ SessionsFollowPassword)'
  OBVIOUS
<1>a. AuthTypeOK /\ Rooted /\ OldPasswordIsKnown /\ SessionsFollowPassword
  BY DEF AuthInv
<1>0. FieldFacts
  BY <1>a, StateFields
<1>1. CASE UNCHANGED authVars
  BY <1>1, <1>a DEF authVars, OldPasswordIsKnown, SessionsFollowPassword, Resetting, CallAt,
     Refreshing, Live
<1>2. ASSUME NEW r \in Requests, LoginCheck(r)
      PROVE  (OldPasswordIsKnown /\ SessionsFollowPassword)'
  <2>1. /\ tok' = tok /\ password' = password
        /\ call'[r].pc = "login" /\ call'[r].pwd = password
        /\ \A q \in Requests \ {r} : call'[q] = call[q]
    BY <1>0, <1>2 DEF LoginCheck, Proceed, Holding, FieldFacts
  <2>2. authFaults' = 0 => authFaults = 0 /\ (Resetting => Resetting')
    BY <1>a, <1>2, ResettingLasts
  <2>. QED
    BY <1>a, <2>1, <2>2 DEF OldPasswordIsKnown, SessionsFollowPassword, CallAt, Refreshing, Live,
       Resetting
<1>3. ASSUME NEW r \in Requests, LoginCreate(r)
      PROVE  (OldPasswordIsKnown /\ SessionsFollowPassword)'
  <2>1. PICK t \in Tokens :
          /\ tok[t].st = "none"
          /\ tok' = [tok EXCEPT ![t] = NewTok(t, t, call[r].pwd, call[r].stale)]
    BY <1>3 DEF LoginCreate
  <2>2. /\ \A u \in Tokens \ {t} : tok'[u] = tok[u]
        /\ tok'[t].pwd = call[r].pwd /\ tok'[t].late = call[r].stale
    BY <1>0, <2>1 DEF NewTok, FieldFacts
  <2>3. /\ call[r].pc = "login" /\ password' = password
        /\ call'[r].pc = "idle" /\ \A q \in Requests \ {r} : call'[q] = call[q]
    BY <1>0, <1>3 DEF LoginCreate, EndCall, Proceed, CallAt, FieldFacts
  <2>4. authFaults' = 0 => authFaults = 0 /\ (Resetting => Resetting')
    BY <1>a, <1>3, ResettingLasts
  <2> SUFFICES ASSUME authFaults' = 0
               PROVE  (OldPasswordIsKnown /\ SessionsFollowPassword)'
    BY DEF OldPasswordIsKnown, SessionsFollowPassword
  <2>5. call[r].pwd # password => call[r].stale \/ Resetting'
    BY <1>a, <2>3, <2>4 DEF OldPasswordIsKnown, CallAt
  <2>6. ASSUME NEW u \in Tokens, tok'[u].st = "live", tok'[u].pwd # password
        PROVE  tok'[u].late \/ Resetting'
    BY <1>a, <2>2, <2>4, <2>5, <2>6 DEF SessionsFollowPassword, Live, Resetting
  <2>7. ASSUME NEW q \in Requests, call'[q].pc = "login", call'[q].pwd # password
        PROVE  call'[q].stale \/ Resetting'
    BY <1>a, <2>3, <2>4, <2>7 DEF OldPasswordIsKnown, CallAt
  <2>8. ASSUME NEW q \in Requests, call'[q].pc \in {"rotate", "create"},
               tok'[call'[q].t].pwd # password
        PROVE  call'[q].stale \/ tok'[call'[q].t].late \/ Resetting'
    <3>1. q # r /\ call'[q] = call[q] /\ call[q].t \in Tokens /\ call[q].t # t
      BY <1>a, <2>1, <2>3, <2>8 DEF Rooted, Refreshing, TokenCreated
    <3>. QED
      BY <1>a, <2>2, <2>4, <2>8, <3>1 DEF OldPasswordIsKnown, Refreshing
  <2>. QED
    BY <2>3, <2>6, <2>7, <2>8
    DEF OldPasswordIsKnown, SessionsFollowPassword, CallAt, Refreshing, Live, Resetting
<1>4. ASSUME NEW r \in Requests, NEW t \in Tokens, RefreshCheck(r, t)
      PROVE  (OldPasswordIsKnown /\ SessionsFollowPassword)'
  <2>1. /\ tok' = tok /\ password' = password
        /\ call'[r].pc = (IF Live(t) THEN "rotate" ELSE "reuse") /\ call'[r].t = t
        /\ \A q \in Requests \ {r} : call'[q] = call[q]
    BY <1>0, <1>4 DEF RefreshCheck, Proceed, Holding, FieldFacts
  <2>2. authFaults' = 0 => authFaults = 0 /\ (Resetting => Resetting')
    BY <1>a, <1>4, ResettingLasts
  <2> SUFFICES ASSUME authFaults' = 0
               PROVE  (OldPasswordIsKnown /\ SessionsFollowPassword)'
    BY DEF OldPasswordIsKnown, SessionsFollowPassword
  <2>3. Live(t) /\ tok[t].pwd # password => tok[t].late \/ Resetting'
    BY <1>a, <2>2 DEF SessionsFollowPassword, Resetting
  <2>. QED
    BY <1>a, <2>1, <2>2, <2>3
    DEF OldPasswordIsKnown, SessionsFollowPassword, CallAt, Refreshing, Live, Resetting
<1>5. ASSUME NEW r \in Requests, RefreshCreate(r)
      PROVE  (OldPasswordIsKnown /\ SessionsFollowPassword)'
  <2>1. /\ call[r].pc = "create" /\ call[r].t \in Tokens /\ TokenCreated(call[r].t)
        /\ call'[r].pc = "idle" /\ \A q \in Requests \ {r} : call'[q] = call[q]
        /\ password' = password
    BY <1>a, <1>5, CreateStep
  <2>2. PICK t \in Tokens :
          /\ tok[t].st = "none"
          /\ \A u \in Tokens \ {t} : tok'[u] = tok[u]
          /\ tok'[t].pwd = tok[call[r].t].pwd
          /\ tok'[t].late = (tok[call[r].t].late \/ call[r].stale)
    BY <1>a, <1>5, CreateStep
  <2>3. authFaults' = 0 => authFaults = 0 /\ (Resetting => Resetting')
    BY <1>a, <1>5, ResettingLasts
  <2> SUFFICES ASSUME authFaults' = 0
               PROVE  (OldPasswordIsKnown /\ SessionsFollowPassword)'
    BY DEF OldPasswordIsKnown, SessionsFollowPassword
  <2>4. tok'[t].pwd # password => tok'[t].late \/ Resetting'
    BY <1>a, <2>1, <2>2, <2>3 DEF OldPasswordIsKnown, Refreshing
  <2>5. ASSUME NEW u \in Tokens, tok'[u].st = "live", tok'[u].pwd # password
        PROVE  tok'[u].late \/ Resetting'
    BY <1>a, <2>2, <2>3, <2>4, <2>5 DEF SessionsFollowPassword, Live, Resetting
  <2>6. ASSUME NEW q \in Requests, call'[q].pc = "login", call'[q].pwd # password
        PROVE  call'[q].stale \/ Resetting'
    BY <1>a, <2>1, <2>3, <2>6 DEF OldPasswordIsKnown, CallAt
  <2>7. ASSUME NEW q \in Requests, call'[q].pc \in {"rotate", "create"},
               tok'[call'[q].t].pwd # password
        PROVE  call'[q].stale \/ tok'[call'[q].t].late \/ Resetting'
    <3>1. q # r /\ call'[q] = call[q] /\ call[q].t \in Tokens /\ call[q].t # t
      BY <1>a, <2>1, <2>2, <2>7 DEF Rooted, Refreshing, TokenCreated
    <3>. QED
      BY <1>a, <2>2, <2>3, <2>7, <3>1 DEF OldPasswordIsKnown, Refreshing
  <2>. QED
    BY <2>1, <2>5, <2>6, <2>7
    DEF OldPasswordIsKnown, SessionsFollowPassword, CallAt, Refreshing, Live, Resetting
<1>6. ASSUME NEW r \in Requests, ResetSave(r)
      PROVE  (OldPasswordIsKnown /\ SessionsFollowPassword)'
  <2>1. call'[r].pc = "resetmark"
    BY <1>0, <1>6 DEF ResetSave, Continue, FieldFacts, RequestPC
  <2>2. Resetting'
    BY <2>1 DEF Resetting
  <2>. QED
    BY <2>2 DEF OldPasswordIsKnown, SessionsFollowPassword, Resetting
<1>7. ASSUME NEW r \in Requests, ResetRevoke(r)
      PROVE  (OldPasswordIsKnown /\ SessionsFollowPassword)'
  <2>1. \A t \in Tokens : tok'[t].st # "live"
    BY <1>0, <1>7 DEF ResetRevoke, RevokeThose, Every, Live, FieldFacts
  <2>2. \A q \in Requests : call'[q].pc \in {"login", "rotate", "create"} => call'[q].stale
    BY <1>0, <1>7 DEF ResetRevoke, Continue, WillCreate, FieldFacts
  <2>. QED
    BY <2>1, <2>2 DEF OldPasswordIsKnown, SessionsFollowPassword, CallAt, Refreshing, Live
<1>8. ASSUME NEW r \in Requests,
             \/ RefreshReuse(r) \/ RefreshRevoke(r) \/ Logout(r) \/ SessionsRevoke(r)
      PROVE  (OldPasswordIsKnown /\ SessionsFollowPassword)'
  BY <1>a, <1>8, Revocations, ResettingLasts, FadeOld
<1>9. ASSUME NEW r \in Requests,
             \/ LogoutResets(r) \/ SessionsRead(r) \/ ResetRequest(r) \/ ResetCreate(r)
             \/ \E k \in ResetTokens : ResetCheck(r, k)
             \/ ResetMark(r) \/ FailCall(r) \/ IgnoredError(r)
      PROVE  (OldPasswordIsKnown /\ SessionsFollowPassword)'
  <2>1. Fades /\ Ages
    BY <1>a, <1>9, OtherSteps, Unchanged
  <2>. QED
    BY <1>a, <1>9, <2>1, ResettingLasts, FadeOld
<1>. QED
  BY <1>1, <1>2, <1>3, <1>4, <1>5, <1>6, <1>7, <1>8, <1>9 DEF AuthNext

\* What no revocation disturbs: a request that still expects to exchange its
\* token has found it alive, and nothing else has happened to it.
Keeps ==
    /\ Fades
    /\ \A q \in Requests : Refreshing(q)' =>
         /\ call'[q].pc = call[q].pc /\ call'[q].t = call[q].t
         /\ ~call'[q].stale =>
              ~call[q].stale /\ (call[q].pc = "rotate" => tok'[call[q].t].st = tok[call[q].t].st)

\* Such a step keeps the one live token of a login.
LEMMA KeepOne ==
    ASSUME AuthTypeOK, Rooted, OneSuccessor, OneLiveTokenPerLogin, Keeps
    PROVE  (OneSuccessor /\ OneLiveTokenPerLogin)'
<1>1. ASSUME NEW q \in Requests, call'[q].pc \in {"rotate", "create"}
      PROVE  /\ call[q].pc = call'[q].pc /\ call'[q].t = call[q].t /\ call[q].t \in Tokens
             /\ tok'[call[q].t].root = tok[call[q].t].root
             /\ tok'[call[q].t].late = tok[call[q].t].late
             /\ ~call'[q].stale => ~call[q].stale
  BY <1>1 DEF Keeps, Fades, Refreshing, Rooted
<1>2. \A q \in Requests : Owes(q)' => Owes(q) /\ tok'[call'[q].t].root = tok[call[q].t].root
  <2> SUFFICES ASSUME NEW q \in Requests, Owes(q)'
               PROVE  Owes(q) /\ tok'[call'[q].t].root = tok[call[q].t].root
    OBVIOUS
  <2>1. call'[q].pc = "create" /\ ~call'[q].stale /\ ~tok'[call'[q].t].late
    BY DEF Owes, CallAt
  <2>. QED
    BY <1>1, <2>1 DEF Owes, CallAt
<1>3. \A t \in Tokens : Prompt(t)' => Prompt(t) /\ tok'[t].root = tok[t].root
  BY DEF Keeps, Fades, Prompt, Live
<1>4. \A q \in Requests : call'[q].pc = "rotate" /\ ~call'[q].stale => tok'[call'[q].t].st = "live"
  <2> SUFFICES ASSUME NEW q \in Requests, call'[q].pc = "rotate", ~call'[q].stale
               PROVE  tok'[call'[q].t].st = "live"
    OBVIOUS
  <2>1. tok[call[q].t].st = "live"
    BY <1>1 DEF OneSuccessor, CallAt, Live
  <2>. QED
    BY <1>1, <2>1 DEF Keeps, Refreshing
<1>5. \A q, p \in Requests :
        Owes(q)' /\ Owes(p)' /\ tok'[call'[q].t].root = tok'[call'[p].t].root => q = p
  BY <1>2 DEF OneSuccessor
<1>6. \A q \in Requests : Owes(q)' =>
        \A t \in Tokens : Prompt(t)' => tok'[t].root # tok'[call'[q].t].root
  BY <1>2, <1>3 DEF OneSuccessor
<1>7. \A t, u \in Tokens : Prompt(t)' /\ Prompt(u)' /\ tok'[t].root = tok'[u].root => t = u
  BY <1>3 DEF OneLiveTokenPerLogin, Prompt
<1>. QED
  BY <1>4, <1>5, <1>6, <1>7 DEF OneSuccessor, OneLiveTokenPerLogin, Prompt, CallAt, Live

\* All steps are such, but those that create or exchange a token.
LEMMA KeepSteps ==
    ASSUME AuthTypeOK, Rooted, NEW r \in Requests,
           \/ LoginCheck(r) \/ RefreshReuse(r) \/ Logout(r) \/ LogoutResets(r)
           \/ SessionsRead(r) \/ SessionsRevoke(r) \/ ResetRequest(r) \/ ResetCreate(r)
           \/ \E k \in ResetTokens : ResetCheck(r, k)
           \/ ResetSave(r) \/ ResetMark(r) \/ ResetRevoke(r) \/ FailCall(r) \/ IgnoredError(r)
    PROVE  Keeps
<1>0. FieldFacts
  BY StateFields
<1>1. ASSUME tok' = tok,
             \A q \in Requests : Refreshing(q)' =>
               call'[q].pc = call[q].pc /\ call'[q].t = call[q].t /\ (call[q].stale => call'[q].stale)
      PROVE  Keeps
  BY <1>1 DEF Keeps, Fades
<1>2. CASE LoginCheck(r)
  <2>1. call'[r].pc = "login" /\ \A q \in Requests \ {r} : call'[q] = call[q]
    BY <1>0, <1>2 DEF LoginCheck, Proceed, Holding, FieldFacts
  <2>. QED
    BY <1>1, <1>2, <2>1 DEF LoginCheck, Refreshing
<1>3. CASE ResetSave(r)
  BY <1>0, <1>1, <1>3 DEF ResetSave, Continue, FieldFacts, RequestPC, Refreshing
<1>4. CASE \/ LogoutResets(r) \/ SessionsRead(r) \/ ResetRequest(r) \/ ResetCreate(r)
           \/ \E k \in ResetTokens : ResetCheck(r, k)
           \/ ResetMark(r) \/ FailCall(r) \/ IgnoredError(r)
  BY <1>1, <1>4, OtherSteps DEF Ages, Refreshing
<1>5. CASE RefreshReuse(r) \/ Logout(r) \/ SessionsRevoke(r) \/ ResetRevoke(r)
  <2>1. Fades /\ Ages
    BY <1>5, Revocations
  <2>2. ASSUME NEW q \in Requests, call'[q].pc \in {"rotate", "create"}
        PROVE  /\ call'[q].pc = call[q].pc
               /\ ~call'[q].stale /\ call[q].pc = "rotate" =>
                    tok'[call[q].t].st = tok[call[q].t].st
    <3>1. call[q].pc \in {"rotate", "create"} /\ call[q].t \in Tokens
      BY <2>1, <2>2 DEF Ages, Rooted, Refreshing
    <3>2. CASE RefreshReuse(r)
      BY <1>0, <2>2, <3>1, <3>2 DEF RefreshReuse, Continue, RevokeThose, FieldFacts
    <3>3. CASE Logout(r)
      BY <1>0, <2>2, <3>1, <3>3 DEF Logout, Continue, WillCreate, FieldFacts, RequestPC
    <3>4. CASE SessionsRevoke(r)
      BY <1>0, <2>2, <3>1, <3>4 DEF SessionsRevoke, Continue, RevokeThose, FieldFacts
    <3>5. CASE ResetRevoke(r)
      BY <1>0, <2>2, <3>1, <3>5 DEF ResetRevoke, Continue, WillCreate, FieldFacts
    <3>. QED
      BY <1>5, <3>2, <3>3, <3>4, <3>5
  <2>3. ASSUME NEW q \in Requests, call'[q].pc \in {"rotate", "create"}
        PROVE  /\ call'[q].pc = call[q].pc /\ call'[q].t = call[q].t
               /\ ~call'[q].stale => ~call[q].stale
    BY <2>1, <2>2, <2>3 DEF Ages
  <2>. QED
    BY <2>1, <2>2, <2>3 DEF Keeps, Refreshing
<1>. QED
  BY <1>2, <1>3, <1>4, <1>5

\* A login has one live token that counts, or one request that owes it.
LEMMA NextOne ==
    AuthInv /\ [AuthNext]_authVars => (OneSuccessor /\ OneLiveTokenPerLogin)'
<1> SUFFICES ASSUME AuthInv, [AuthNext]_authVars
             PROVE  (OneSuccessor /\ OneLiveTokenPerLogin)'
  OBVIOUS
<1>a. AuthTypeOK /\ Rooted /\ OneSuccessor /\ OneLiveTokenPerLogin
  BY DEF AuthInv
<1>0. FieldFacts
  BY <1>a, StateFields
<1>1. CASE UNCHANGED authVars
  BY <1>1, <1>a DEF authVars, OneSuccessor, OneLiveTokenPerLogin, Owes, Prompt, CallAt, Live
<1>2. ASSUME NEW r \in Requests, LoginCreate(r)
      PROVE  (OneSuccessor /\ OneLiveTokenPerLogin)'
  <2>1. PICK t \in Tokens :
          /\ tok[t].st = "none"
          /\ tok' = [tok EXCEPT ![t] = NewTok(t, t, call[r].pwd, call[r].stale)]
    BY <1>2 DEF LoginCreate
  <2>2. tok'[t].root = t /\ \A u \in Tokens \ {t} : tok'[u] = tok[u]
    BY <1>0, <2>1 DEF NewTok, FieldFacts
  <2>3. call'[r].pc = "idle" /\ \A q \in Requests \ {r} : call'[q] = call[q]
    BY <1>0, <1>2 DEF LoginCreate, EndCall, Proceed, FieldFacts
  <2>4. \A u \in Tokens : tok[u].st # "none" => tok'[u] = tok[u] /\ tok[u].root # t
    BY <1>a, <2>1, <2>2 DEF Rooted, TokenCreated
  <2>5. \A q \in Requests : call'[q].pc \in {"rotate", "create"} =>
          /\ call'[q] = call[q] /\ call[q].t \in Tokens /\ tok[call[q].t].st # "none"
    BY <1>a, <2>3 DEF Rooted, TokenCreated, Refreshing
  <2>6. \A u \in Tokens : Prompt(u)' => u = t \/ (Prompt(u) /\ tok'[u] = tok[u] /\ tok[u].root # t)
    BY <2>2, <2>4 DEF Prompt, Live
  <2>7. \A q \in Requests : Owes(q)' =>
          Owes(q) /\ tok'[call'[q].t].root = tok[call[q].t].root /\ tok[call[q].t].root # t
    BY <2>4, <2>5 DEF Owes, CallAt
  <2>8. \A q \in Requests : call'[q].pc = "rotate" /\ ~call'[q].stale => tok'[call'[q].t].st = "live"
    BY <1>a, <2>4, <2>5 DEF OneSuccessor, CallAt, Live
  <2>9. \A q, p \in Requests :
          Owes(q)' /\ Owes(p)' /\ tok'[call'[q].t].root = tok'[call'[p].t].root => q = p
    BY <1>a, <2>7 DEF OneSuccessor
  <2>10. \A q \in Requests : Owes(q)' =>
           \A u \in Tokens : Prompt(u)' => tok'[u].root # tok'[call'[q].t].root
    BY <1>a, <2>2, <2>6, <2>7 DEF OneSuccessor
  <2>11. \A v, u \in Tokens : Prompt(v)' /\ Prompt(u)' /\ tok'[v].root = tok'[u].root => v = u
    BY <1>a, <2>2, <2>6 DEF OneLiveTokenPerLogin, Prompt
  <2>. QED
    BY <2>8, <2>9, <2>10, <2>11 DEF OneSuccessor, OneLiveTokenPerLogin, Prompt, CallAt, Live
<1>3. ASSUME NEW r \in Requests, NEW t \in Tokens, RefreshCheck(r, t)
      PROVE  (OneSuccessor /\ OneLiveTokenPerLogin)'
  <2>1. /\ tok' = tok
        /\ call'[r].pc = (IF Live(t) THEN "rotate" ELSE "reuse") /\ call'[r].t = t
        /\ \A q \in Requests \ {r} : call'[q] = call[q]
    BY <1>0, <1>3 DEF RefreshCheck, Proceed, Holding, FieldFacts
  <2>2. \A q \in Requests : Owes(q)' => Owes(q) /\ call'[q] = call[q]
    BY <2>1 DEF Owes, CallAt
  <2>3. \A u \in Tokens : Prompt(u)' <=> Prompt(u)
    BY <2>1 DEF Prompt, Live
  <2>4. \A q \in Requests : call'[q].pc = "rotate" /\ ~call'[q].stale => tok'[call'[q].t].st = "live"
    BY <1>a, <2>1 DEF OneSuccessor, CallAt, Live
  <2>. QED
    BY <1>a, <2>1, <2>2, <2>3, <2>4 DEF OneSuccessor, OneLiveTokenPerLogin, Prompt, CallAt, Live
<1>4. ASSUME NEW r \in Requests, RefreshRevoke(r)
      PROVE  (OneSuccessor /\ OneLiveTokenPerLogin)'
  <2> DEFINE t == call[r].t
             x == tok[t].root
  <2>1. call[r].pc = "rotate" /\ t \in Tokens /\ Fades
    BY <1>a, <1>4, Revocations DEF RefreshRevoke, CallAt, Rooted, Refreshing
  <2>2. /\ tok'[t].st # "live"
        /\ \A u \in Tokens \ {t} : tok'[u] = tok[u]
    BY <1>0, <1>4, <2>1 DEF RefreshRevoke, RevokeThose, Live, FieldFacts
  <2>3. call'[r].pc = "create" /\ call'[r].t = t /\ call'[r].stale = call[r].stale
    BY <1>0, <1>4 DEF RefreshRevoke, Continue, FieldFacts, RequestPC
  <2>4. ASSUME NEW q \in Requests, q # r, call'[q].pc \in {"rotate", "create"}, ~call'[q].stale
        PROVE  /\ call[q].pc = call'[q].pc /\ call'[q].t = call[q].t /\ ~call[q].stale
               /\ call[q].t \in Tokens /\ call[q].t # t
    <3>1. call[q].pc = call'[q].pc /\ call'[q].t = call[q].t
      BY <1>0, <1>4, <2>4 DEF RefreshRevoke, Continue, FieldFacts
    <3>2. call[q].t \in Tokens
      BY <1>a, <2>4, <3>1 DEF Rooted, Refreshing
    <3>. QED
      BY <1>0, <1>4, <2>4, <3>1, <3>2 DEF RefreshRevoke, Continue, FieldFacts
  <2>5. \A u \in Tokens : Prompt(u)' => u # t /\ Prompt(u) /\ tok'[u] = tok[u]
    BY <2>2 DEF Prompt, Live
  <2>6. ASSUME Owes(r)'
        PROVE  Prompt(t)
    <3>1. ~call[r].stale /\ ~tok[t].late
      BY <2>1, <2>3, <2>6 DEF Owes, CallAt, Fades
    <3>. QED
      BY <1>a, <2>1, <3>1 DEF OneSuccessor, CallAt, Prompt
  <2>7. \A u \in Tokens : Owes(r)' /\ Prompt(u)' => tok'[u].root # x
    BY <1>a, <2>1, <2>5, <2>6 DEF OneLiveTokenPerLogin, Prompt
  <2>8. \A q \in Requests : Owes(q)' /\ q # r =>
          Owes(q) /\ call'[q].t = call[q].t /\ tok'[call[q].t] = tok[call[q].t]
    BY <2>2, <2>4 DEF Owes, CallAt
  <2>9. \A q \in Requests : Owes(q)' /\ q # r /\ Owes(r)' => tok[call[q].t].root # x
    BY <1>a, <2>1, <2>6, <2>8 DEF OneSuccessor
  <2>10. tok'[call'[r].t].root = x
    BY <2>1, <2>3 DEF Fades
  <2>11. \A q \in Requests : call'[q].pc = "rotate" /\ ~call'[q].stale => tok'[call'[q].t].st = "live"
    <3> SUFFICES ASSUME NEW q \in Requests, call'[q].pc = "rotate", ~call'[q].stale
                 PROVE  tok'[call'[q].t].st = "live"
      OBVIOUS
    <3>1. q # r
      BY <2>3
    <3>2. tok[call[q].t].st = "live"
      BY <1>a, <2>4, <3>1 DEF OneSuccessor, CallAt, Live
    <3>. QED
      BY <2>2, <2>4, <3>1, <3>2
  <2>12. \A q, p \in Requests :
           Owes(q)' /\ Owes(p)' /\ tok'[call'[q].t].root = tok'[call'[p].t].root => q = p
    BY <1>a, <2>8, <2>9, <2>10 DEF OneSuccessor
  <2>13. \A q \in Requests : Owes(q)' =>
           \A u \in Tokens : Prompt(u)' => tok'[u].root # tok'[call'[q].t].root
    BY <1>a, <2>5, <2>7, <2>8, <2>10 DEF OneSuccessor
  <2>14. \A v, u \in Tokens : Prompt(v)' /\ Prompt(u)' /\ tok'[v].root = tok'[u].root => v = u
    BY <1>a, <2>5 DEF OneLiveTokenPerLogin, Prompt
  <2>. QED
    BY <2>11, <2>12, <2>13, <2>14 DEF OneSuccessor, OneLiveTokenPerLogin, Prompt, CallAt, Live
<1>5. ASSUME NEW r \in Requests, RefreshCreate(r)
      PROVE  (OneSuccessor /\ OneLiveTokenPerLogin)'
  <2> DEFINE x == tok[call[r].t].root
  <2>1. /\ call[r].pc = "create" /\ call[r].t \in Tokens
        /\ call'[r].pc = "idle" /\ \A q \in Requests \ {r} : call'[q] = call[q]
    BY <1>a, <1>5, CreateStep
  <2>2. PICK t \in Tokens :
          /\ tok[t].st = "none"
          /\ \A u \in Tokens \ {t} : tok'[u] = tok[u]
          /\ tok'[t].root = x
          /\ tok'[t].late = (tok[call[r].t].late \/ call[r].stale)
    BY <1>a, <1>5, CreateStep
  <2>3. \A q \in Requests : call'[q].pc \in {"rotate", "create"} =>
          /\ q # r /\ call'[q] = call[q] /\ call[q].t \in Tokens
          /\ tok'[call[q].t] = tok[call[q].t]
    BY <1>a, <2>1, <2>2 DEF Rooted, TokenCreated, Refreshing
  <2>4. Prompt(t)' => Owes(r)
    BY <2>1, <2>2 DEF Prompt, Owes, CallAt
  <2>5. \A u \in Tokens : Prompt(u)' => u = t \/ (Prompt(u) /\ tok'[u] = tok[u])
    BY <2>2 DEF Prompt, Live
  <2>6. \A q \in Requests : Owes(q)' =>
          q # r /\ Owes(q) /\ call'[q].t = call[q].t /\ tok'[call[q].t] = tok[call[q].t]
    BY <2>3 DEF Owes, CallAt
  <2>7. \A q \in Requests : call'[q].pc = "rotate" /\ ~call'[q].stale => tok'[call'[q].t].st = "live"
    BY <1>a, <2>3 DEF OneSuccessor, CallAt, Live
  <2>8. \A q, p \in Requests :
          Owes(q)' /\ Owes(p)' /\ tok'[call'[q].t].root = tok'[call'[p].t].root => q = p
    BY <1>a, <2>6 DEF OneSuccessor
  <2>9. \A q \in Requests : Owes(q)' =>
          \A u \in Tokens : Prompt(u)' => tok'[u].root # tok'[call'[q].t].root
    BY <1>a, <2>2, <2>4, <2>5, <2>6 DEF OneSuccessor
  <2>10. \A v, u \in Tokens : Prompt(v)' /\ Prompt(u)' /\ tok'[v].root = tok'[u].root => v = u
    BY <1>a, <2>2, <2>4, <2>5 DEF OneSuccessor, OneLiveTokenPerLogin, Prompt
  <2>. QED
    BY <2>7, <2>8, <2>9, <2>10 DEF OneSuccessor, OneLiveTokenPerLogin, Prompt, CallAt, Live
<1>6. ASSUME NEW r \in Requests,
             \/ LoginCheck(r) \/ RefreshReuse(r) \/ Logout(r) \/ LogoutResets(r)
             \/ SessionsRead(r) \/ SessionsRevoke(r) \/ ResetRequest(r) \/ ResetCreate(r)
             \/ \E k \in ResetTokens : ResetCheck(r, k)
             \/ ResetSave(r) \/ ResetMark(r) \/ ResetRevoke(r) \/ FailCall(r) \/ IgnoredError(r)
      PROVE  (OneSuccessor /\ OneLiveTokenPerLogin)'
  BY <1>a, <1>6, KeepSteps, KeepOne
<1>. QED
  BY <1>1, <1>2, <1>3, <1>4, <1>5, <1>6 DEF AuthNext

\* The empty tables satisfy the invariant.
LEMMA InitInv == AuthInit => AuthInv
<1> SUFFICES ASSUME AuthInit PROVE AuthInv
  OBVIOUS
<1>1. \A t \in Tokens : tok[t].st = "none"
  BY DEF AuthInit, NoTok
<1>2. \A r \in Requests : call[r].pc = "idle"
  BY DEF AuthInit, NoRequest, Holding
<1>3. AuthTypeOK
  <2>1. 0 \in 0..MaxPasswords /\ 0 \in 0..MaxAuthFaults
    BY AuthBoundsAssumption
  <2>2. NoTok \in Token
    BY <2>1 DEF NoTok, Token
  <2>3. NoRequest \in Request
    BY <2>1, HoldingType DEF NoRequest, RequestPC
  <2>. QED
    BY <1>1, <2>1, <2>2, <2>3 DEF AuthInit, AuthTypeOK, ResetToken
<1>. QED
  BY <1>1, <1>2, <1>3
  DEF AuthInit, AuthInv, Rooted, EndedIsKnown, ReuseEndsTheLogin, OldPasswordIsKnown,
      SessionsFollowPassword, OneSuccessor, OneLiveTokenPerLogin, TokenCreated, Refreshing, CallAt, Live,
      Owes

\* Every statement of every handler of service/auth.go keeps the invariant,
\* whatever the others are in the middle of.
LEMMA AuthInvSteps == AuthInv /\ [AuthNext]_authVars => AuthInv'
<1> SUFFICES ASSUME AuthInv, [AuthNext]_authVars PROVE AuthInv'
  OBVIOUS
<1>1. AuthTypeOK'
  BY NextType DEF AuthInv
<1>2. Rooted' /\ (EndedIsKnown /\ ReuseEndsTheLogin)'
  BY NextRooted, NextEnded
<1>3. (OldPasswordIsKnown /\ SessionsFollowPassword)' /\ (OneSuccessor /\ OneLiveTokenPerLogin)'
  BY NextOld, NextOne
<1>. QED
  BY <1>1, <1>2, <1>3 DEF AuthInv

\* So it holds in every reachable state.
THEOREM AuthInvHolds == AuthSpec => []AuthInv
BY AuthInvSteps, InitInv, PTL DEF AuthSpec

\* The variables keep their types.
THEOREM AuthTypesHold == AuthSpec => []AuthTypeOK
<1>1. AuthInv => AuthTypeOK
  BY DEF AuthInv
<1>. QED
  BY <1>1, AuthInvHolds, PTL

\* After a password change no session of the old password is alive, but for
\* those that were being created meanwhile, as long as no statement fails.
THEOREM PasswordChangeEndsSessions == AuthSpec => []SessionsFollowPassword
<1>1. AuthInv => SessionsFollowPassword
  BY DEF AuthInv
<1>. QED
  BY <1>1, AuthInvHolds, PTL

\* A revoked refresh token that is presented ends every session of its login.
THEOREM ReuseRevokesTheFamily == AuthSpec => []ReuseEndsTheLogin
<1>1. AuthInv => ReuseEndsTheLogin
  BY DEF AuthInv
<1>. QED
  BY <1>1, AuthInvHolds, PTL

\* Rotation never leaves a login with two live refresh tokens, unless two
\* refreshes read the same token before either revoked it.
THEOREM RotationKeepsOneToken == AuthSpec => []OneLiveTokenPerLogin
<1>1. AuthInv => OneLiveTokenPerLogin
  BY DEF AuthInv
<1>. QED
  BY <1>1, AuthInvHolds, PTL

-----------------------------------------------------------------------------
(* Reset tokens *)

\* A step that has nothing to do with reset tokens leaves them alone, and the
\* requests that hold one.
ResetQuiet ==
    /\ rst' = rst /\ spent' = spent
    /\ \A q \in Requests : call'[q].pc \in {"resetsave", "resetmark"} =>
         /\ call'[q].pc = call[q].pc /\ call'[q].k = call[q].k
         /\ call[q].stale => call'[q].stale
    /\ authFaults' = 0 =>
         /\ authFaults = 0
         /\ \A q \in Requests :
              /\ call'[q].pc = "newreset" =>
                   call[q].pc = "newreset" /\ (call[q].stale => call'[q].stale)
              /\ call[q].pc = "resetmark" =>
                   call'[q].pc = "resetmark" /\ call'[q].k = call[q].k

\* The statements on users and refresh_tokens are such steps.
LEMMA QuietSteps ==
    ASSUME AuthTypeOK, NEW r \in Requests,
           \/ LoginCheck(r) \/ LoginCreate(r)
           \/ \E t \in Tokens : RefreshCheck(r, t)
           \/ RefreshReuse(r) \/ RefreshRevoke(r) \/ RefreshCreate(r)
           \/ Logout(r) \/ SessionsRead(r) \/ SessionsRevoke(r) \/ ResetRevoke(r)
           \/ FailCall(r) \/ IgnoredError(r)
    PROVE  ResetQuiet
<1>0. FieldFacts
  BY StateFields
<1>a. authFaults \in Nat /\ (Fault => authFaults' # 0)
  BY AuthBoundsAssumption DEF AuthTypeOK, Fault
<1> USE DEF FieldFacts, RequestPC, Continue, Proceed, CallGoto, EndCall, CallAt, CallIdle, ResetQuiet
<1>1. CASE LoginCheck(r)
  BY <1>0, <1>1 DEF LoginCheck, Holding
<1>2. CASE LoginCreate(r)
  BY <1>0, <1>2 DEF LoginCreate
<1>3. ASSUME NEW t \in Tokens, RefreshCheck(r, t) PROVE ResetQuiet
  BY <1>0, <1>3 DEF RefreshCheck, Holding
<1>4. CASE RefreshReuse(r)
  BY <1>0, <1>4 DEF RefreshReuse
<1>5. CASE RefreshRevoke(r)
  BY <1>0, <1>5 DEF RefreshRevoke
<1>6. CASE RefreshCreate(r)
  BY SMTT(20), <1>0, <1>6 DEF RefreshCreate
<1>7. CASE Logout(r)
  BY <1>0, <1>7 DEF Logout
<1>8. CASE SessionsRead(r)
  <2>1. \A list : /\ Holding("revoke", 0, NoToken, NoToken, list, FALSE).pc = "revoke"
                  /\ Holding("others", 0, NoToken, NoToken, list, FALSE).pc = "others"
    BY DEF Holding
  <2>2. PICK x : call' = [call EXCEPT ![r] = x] /\ x.pc \in {"revoke", "others"}
    <3>1. CASE \E t \in Tokens :
                 call' = [call EXCEPT ![r] = Holding("revoke", 0, NoToken, NoToken, {t}, FALSE)]
      BY <2>1, <3>1
    <3>2. CASE \E list :
                 call' = [call EXCEPT ![r] = Holding("others", 0, NoToken, NoToken, list, FALSE)]
      BY <2>1, <3>2
    <3>. QED
      BY <1>8, <3>1, <3>2 DEF SessionsRead
  <2>. QED
    BY <1>0, <1>8, <2>2 DEF SessionsRead
<1>9. CASE SessionsRevoke(r)
  BY <1>0, <1>9 DEF SessionsRevoke
<1>10. CASE ResetRevoke(r)
  BY <1>0, <1>10 DEF ResetRevoke
<1>11. CASE FailCall(r)
  BY <1>0, <1>a, <1>11 DEF FailCall
<1>12. CASE IgnoredError(r)
  <2>1. PICK x : /\ call' = [call EXCEPT ![r] = x]
                 /\ x.pc \in {"newreset", "resetrevoke", "idle", "others"}
    BY <1>0, <1>12 DEF IgnoredError
  <2>. QED
    BY <1>0, <1>a, <1>12, <2>1 DEF IgnoredError
<1>. QED
  BY <1>1, <1>2, <1>3, <1>4, <1>5, <1>6, <1>7, <1>8, <1>9, <1>10, <1>11, <1>12

\* RevokeAllByUser leaves no valid token and creates none.
LEMMA AllUsed ==
    ASSUME AuthTypeOK, UseAllResets
    PROVE  \A k \in ResetTokens :
             rst'[k].st # "valid" /\ (rst'[k].st = "none" <=> rst[k].st = "none")
BY DEF AuthTypeOK, UseAllResets, Used, ResetToken

\* A token is spent by a request that has found it and is about to mark it.
LEMMA NextMarked ==
    ASSUME ResetInv, [AuthNext]_authVars
    PROVE  SpentIsMarked'
<1>a. AuthTypeOK /\ Rooted /\ SpentIsMarked /\ NewestIsAlone /\ OneValidResetToken /\ ResetTokenSpentOnce
  BY DEF ResetInv, AuthInv, ResetTokensHold
<1>0. FieldFacts
  BY <1>a, StateFields
<1> USE DEF FieldFacts, RequestPC, Continue, Proceed, CallGoto, EndCall, CallAt, CallIdle, SpentIsMarked, Marking
<1>1. ASSUME NEW r \in Requests, LogoutResets(r) PROVE SpentIsMarked'
  <2>1. /\ spent' = spent /\ spent \subseteq ResetTokens
        /\ \A q \in Requests \ {r} : call'[q] = call[q]
        /\ call'[r].pc \in {"idle", "newreset"}
    BY <1>a, <1>0, <1>1 DEF LogoutResets, AuthTypeOK
  <2>2. \A k \in ResetTokens :
          rst'[k].st # "valid" /\ (rst'[k].st = "none" <=> rst[k].st = "none")
    BY <1>a, <1>1, AllUsed DEF LogoutResets
  <2>. QED
    BY <1>a, <2>1, <2>2 DEF Rooted
<1>2. ASSUME NEW r \in Requests, ResetRequest(r) PROVE SpentIsMarked'
  <2>1. /\ spent' = spent /\ spent \subseteq ResetTokens
        /\ \A q \in Requests \ {r} : call'[q] = call[q]
        /\ call'[r].pc \in {"idle", "newreset"}
    BY <1>a, <1>0, <1>2 DEF ResetRequest, AuthTypeOK
  <2>2. \A k \in ResetTokens :
          rst'[k].st # "valid" /\ (rst'[k].st = "none" <=> rst[k].st = "none")
    BY <1>a, <1>2, AllUsed DEF ResetRequest
  <2>. QED
    BY <1>a, <2>1, <2>2 DEF Rooted
<1>3. ASSUME NEW r \in Requests, ResetCreate(r) PROVE SpentIsMarked'
  BY <1>a, <1>0, <1>3 DEF ResetCreate, WillReset, AuthTypeOK, ResetToken
<1>4. ASSUME NEW r \in Requests, NEW k \in ResetTokens, ResetCheck(r, k) PROVE SpentIsMarked'
  BY <1>a, <1>0, <1>4 DEF ResetCheck, Holding, AuthTypeOK, ResetToken
<1>5. ASSUME NEW r \in Requests, ResetSave(r) PROVE SpentIsMarked'
  BY <1>a, <1>0, <1>5 DEF ResetSave, Rooted, AuthTypeOK, ResetToken
<1>6. ASSUME NEW r \in Requests, ResetMark(r) PROVE SpentIsMarked'
  BY <1>a, <1>0, <1>6 DEF ResetMark, Used, Rooted, AuthTypeOK, ResetToken
<1>7. ASSUME ResetQuiet PROVE SpentIsMarked'
  BY <1>a, <1>0, <1>7 DEF ResetQuiet
<1>8. CASE UNCHANGED authVars
  BY <1>a, <1>8 DEF authVars
<1>. QED
  BY <1>a, <1>1, <1>2, <1>3, <1>4, <1>5, <1>6, <1>7, <1>8, QuietSteps DEF AuthNext

\* A request for a token uses up the valid ones, and every other request that is
\* about to create one is noticed.
LEMMA NextNewest ==
    ASSUME ResetInv, [AuthNext]_authVars
    PROVE  NewestIsAlone'
<1>a. AuthTypeOK /\ Rooted /\ SpentIsMarked /\ NewestIsAlone /\ OneValidResetToken /\ ResetTokenSpentOnce
  BY DEF ResetInv, AuthInv, ResetTokensHold
<1>0. FieldFacts
  BY <1>a, StateFields
<1> USE DEF FieldFacts, RequestPC, Continue, Proceed, CallGoto, EndCall, CallAt, CallIdle, NewestIsAlone
<1>1. ASSUME NEW r \in Requests, LogoutResets(r) PROVE NewestIsAlone'
  BY <1>a, <1>0, <1>1 DEF LogoutResets, UseAllResets, Used, AuthTypeOK, ResetToken
<1>2. ASSUME NEW r \in Requests, ResetRequest(r) PROVE NewestIsAlone'
  BY <1>a, <1>0, <1>2 DEF ResetRequest, UseAllResets, Used, NewCall, Holding, AuthTypeOK, ResetToken
<1>3. ASSUME NEW r \in Requests, ResetCreate(r) PROVE NewestIsAlone'
  BY <1>a, <1>0, <1>3 DEF ResetCreate, WillReset, AuthTypeOK, ResetToken
<1>4. ASSUME NEW r \in Requests, NEW k \in ResetTokens, ResetCheck(r, k) PROVE NewestIsAlone'
  BY <1>a, <1>0, <1>4 DEF ResetCheck, Holding, AuthTypeOK, ResetToken
<1>5. ASSUME NEW r \in Requests, ResetSave(r) PROVE NewestIsAlone'
  BY <1>a, <1>0, <1>5 DEF ResetSave, Rooted, AuthTypeOK, ResetToken
<1>6. ASSUME NEW r \in Requests, ResetMark(r) PROVE NewestIsAlone'
  BY <1>a, <1>0, <1>6 DEF ResetMark, Used, Rooted, AuthTypeOK, ResetToken
<1>7. ASSUME ResetQuiet PROVE NewestIsAlone'
  BY <1>a, <1>0, <1>7 DEF ResetQuiet
<1>8. CASE UNCHANGED authVars
  BY <1>a, <1>8 DEF authVars
<1>. QED
  BY <1>a, <1>1, <1>2, <1>3, <1>4, <1>5, <1>6, <1>7, <1>8, QuietSteps DEF AuthNext

\* So the token it creates is the only one.
LEMMA NextOneValid ==
    ASSUME ResetInv, [AuthNext]_authVars
    PROVE  OneValidResetToken'
<1>a. AuthTypeOK /\ Rooted /\ SpentIsMarked /\ NewestIsAlone /\ OneValidResetToken /\ ResetTokenSpentOnce
  BY DEF ResetInv, AuthInv, ResetTokensHold
<1>0. FieldFacts
  BY <1>a, StateFields
<1> USE DEF FieldFacts, RequestPC, Continue, Proceed, CallGoto, EndCall, CallAt, CallIdle, OneValidResetToken, NewestIsAlone
<1>1. ASSUME NEW r \in Requests, LogoutResets(r) PROVE OneValidResetToken'
  BY <1>a, <1>0, <1>1 DEF LogoutResets, UseAllResets, Used, AuthTypeOK, ResetToken
<1>2. ASSUME NEW r \in Requests, ResetRequest(r) PROVE OneValidResetToken'
  BY <1>a, <1>0, <1>2 DEF ResetRequest, UseAllResets, Used, NewCall, Holding, AuthTypeOK, ResetToken
<1>3. ASSUME NEW r \in Requests, ResetCreate(r) PROVE OneValidResetToken'
  BY <1>a, <1>0, <1>3 DEF ResetCreate, WillReset, AuthTypeOK, ResetToken
<1>4. ASSUME NEW r \in Requests, NEW k \in ResetTokens, ResetCheck(r, k) PROVE OneValidResetToken'
  BY <1>a, <1>0, <1>4 DEF ResetCheck, Holding, AuthTypeOK, ResetToken
<1>5. ASSUME NEW r \in Requests, ResetSave(r) PROVE OneValidResetToken'
  BY <1>a, <1>0, <1>5 DEF ResetSave, Rooted, AuthTypeOK, ResetToken
<1>6. ASSUME NEW r \in Requests, ResetMark(r) PROVE OneValidResetToken'
  BY <1>a, <1>0, <1>6 DEF ResetMark, Used, Rooted, AuthTypeOK, ResetToken
<1>7. ASSUME ResetQuiet PROVE OneValidResetToken'
  BY <1>a, <1>0, <1>7 DEF ResetQuiet
<1>8. CASE UNCHANGED authVars
  BY <1>a, <1>8 DEF authVars
<1>. QED
  BY <1>a, <1>1, <1>2, <1>3, <1>4, <1>5, <1>6, <1>7, <1>8, QuietSteps DEF AuthNext

\* The password is saved once per token, unless two requests had found it valid.
LEMMA NextSpent ==
    ASSUME ResetInv, [AuthNext]_authVars
    PROVE  ResetTokenSpentOnce'
<1>a. AuthTypeOK /\ Rooted /\ SpentIsMarked /\ NewestIsAlone /\ OneValidResetToken /\ ResetTokenSpentOnce
  BY DEF ResetInv, AuthInv, ResetTokensHold
<1>0. FieldFacts
  BY <1>a, StateFields
<1> USE DEF FieldFacts, RequestPC, Continue, Proceed, CallGoto, EndCall, CallAt, CallIdle, ResetTokenSpentOnce, SpentIsMarked, Marking
<1>1. ASSUME NEW r \in Requests, LogoutResets(r) PROVE ResetTokenSpentOnce'
  BY <1>a, <1>0, <1>1 DEF LogoutResets, UseAllResets, Used, AuthTypeOK, ResetToken
<1>2. ASSUME NEW r \in Requests, ResetRequest(r) PROVE ResetTokenSpentOnce'
  BY <1>a, <1>0, <1>2 DEF ResetRequest, UseAllResets, Used, NewCall, Holding, AuthTypeOK, ResetToken
<1>3. ASSUME NEW r \in Requests, ResetCreate(r) PROVE ResetTokenSpentOnce'
  BY <1>a, <1>0, <1>3 DEF ResetCreate, WillReset, AuthTypeOK, ResetToken
<1>4. ASSUME NEW r \in Requests, NEW k \in ResetTokens, ResetCheck(r, k) PROVE ResetTokenSpentOnce'
  BY <1>a, <1>0, <1>4 DEF ResetCheck, Holding, AuthTypeOK, ResetToken
<1>5. ASSUME NEW r \in Requests, ResetSave(r) PROVE ResetTokenSpentOnce'
  BY <1>a, <1>0, <1>5 DEF ResetSave, Rooted, AuthTypeOK, ResetToken
<1>6. ASSUME NEW r \in Requests, ResetMark(r) PROVE ResetTokenSpentOnce'
  BY <1>a, <1>0, <1>6 DEF ResetMark, Used, Rooted, AuthTypeOK, ResetToken
<1>7. ASSUME ResetQuiet PROVE ResetTokenSpentOnce'
  BY <1>a, <1>0, <1>7 DEF ResetQuiet
<1>8. CASE UNCHANGED authVars
  BY <1>a, <1>8 DEF authVars
<1>. QED
  BY <1>a, <1>1, <1>2, <1>3, <1>4, <1>5, <1>6, <1>7, <1>8, QuietSteps DEF AuthNext


\* Reset tokens work once and one at a time, whatever other requests of the user
\* do between two statements, as long as no statement fails.
THEOREM ResetTokensAreSafe == AuthSpec => []ResetTokensHold
<1>1. AuthInit => ResetInv
  <2> SUFFICES ASSUME AuthInit PROVE ResetInv
    OBVIOUS
  <2>1. \A r \in Requests : call[r].pc = "idle"
    BY DEF AuthInit, NoRequest, Holding
  <2>2. spent = {} /\ \A k \in ResetTokens : rst[k].st = "none"
    BY DEF AuthInit
  <2>. QED
    BY <2>1, <2>2, InitInv
    DEF ResetInv, SpentIsMarked, NewestIsAlone, ResetTokensHold, OneValidResetToken,
        ResetTokenSpentOnce, CallAt
<1>2. ResetInv /\ [AuthNext]_authVars => ResetInv'
  <2> SUFFICES ASSUME ResetInv, [AuthNext]_authVars PROVE ResetInv'
    OBVIOUS
  <2>1. AuthInv'
    BY AuthInvSteps DEF ResetInv
  <2>2. SpentIsMarked' /\ NewestIsAlone'
    BY NextMarked, NextNewest
  <2>3. OneValidResetToken' /\ ResetTokenSpentOnce'
    BY NextOneValid, NextSpent
  <2>. QED
    BY <2>1, <2>2, <2>3 DEF ResetInv, ResetTokensHold
<1>3. ResetInv => ResetTokensHold
  BY DEF ResetInv
<1>. QED
  BY <1>1, <1>2, <1>3, PTL DEF AuthSpec

-----------------------------------------------------------------------------
(* Idempotency keys *)

\* What a request carries at each of its statements, and what it goes on with.
LEMMA KeyedRequestsAreTyped ==
    ASSUME NEW q \in KeyedRequest \cup {Idle}
    PROVE  /\ q.pc # "idle" => q \in KeyedRequest /\ q.op \in Ops
           /\ q.pc \in {"getlock", "getrecord", "findrow", "setnx", "execute"} =>
                \A l \in {"getrecord", "findrow", "setnx", "execute"} :
                    /\ [q EXCEPT !.pc = l] \in KeyedRequest
                    /\ [q EXCEPT !.pc = l].pc = l /\ [q EXCEPT !.pc = l].op = q.op
           /\ q.pc \in Storing =>
                /\ q.path \in Ops /\ q.response \in Response
                /\ \A l \in Storing :
                    [q EXCEPT !.pc = l] \in KeyedRequest /\ [q EXCEPT !.pc = l].pc = l
                /\ \A p \in Ops :
                    /\ [q EXCEPT !.pc = "storerecord", !.path = p] \in KeyedRequest
                    /\ [q EXCEPT !.pc = "storerecord", !.path = p].pc = "storerecord"
<1> DEFINE Before == [pc : {"getlock", "getrecord", "findrow", "setnx", "execute"}, op : Ops]
           After == [pc : Storing, op : Ops, path : Ops, response : Response]
<1>1. KeyedRequest = Before \cup After
  BY DEF KeyedRequest, Storing
<1>2. ASSUME NEW q1 \in Before,
             NEW l \in {"getrecord", "findrow", "setnx", "execute"}
      PROVE  /\ [q1 EXCEPT !.pc = l] \in Before
             /\ [q1 EXCEPT !.pc = l].pc = l /\ [q1 EXCEPT !.pc = l].op = q1.op
  OBVIOUS
<1>3. ASSUME NEW q1 \in After
      PROVE  /\ \A l \in Storing :
                    [q1 EXCEPT !.pc = l] \in After /\ [q1 EXCEPT !.pc = l].pc = l
             /\ \A p \in Ops :
                    /\ [q1 EXCEPT !.pc = "storerecord", !.path = p] \in After
                    /\ [q1 EXCEPT !.pc = "storerecord", !.path = p].pc = "storerecord"
  BY DEF Storing
<1>4. q.pc # "idle" => q \in Before \cup After
  BY <1>1 DEF Idle
<1>5. /\ q.pc \in {"getlock", "getrecord", "findrow", "setnx", "execute"} => q \in Before
      /\ q.pc \in Storing => q \in After
  BY <1>1 DEF Idle, Storing
<1> QED BY <1>1, <1>2, <1>3, <1>4, <1>5

\* The statements keep the types; what has been executed is one of the requests begun.
LEMMA IdempotencyTypes ==
    ASSUME IdempotencyInv, IdempotencyNext
    PROVE  IdempotencyTypeOK'
<1> DEFINE Typed == RequestsAre(KeyedRequest)'
<1>1. /\ lock \in [Ops -> {"free", "processing", "completed"}]
      /\ record \in [Ops -> Response \cup {Nothing}]
      /\ row \in [Ops -> Row \cup {NoRow}]
      /\ executions \in [Ops -> 0..MaxRequests]
      /\ lapses \in [Ops -> 0..MaxLapses]
      /\ replays \subseteq [asked : Ops, given : Response]
      /\ req \in [Slots -> KeyedRequest \cup {Idle}]
      /\ begun \in 0..MaxRequests /\ faults \in 0..MaxFaults
      /\ MaxRequests \in Nat /\ MaxFaults \in Nat /\ MaxLapses \in Nat
      /\ \A o \in Ops : LockIsTakenOnce(o)
  BY RequestBoundsAssumption, LapsesAssumption DEF IdempotencyInv, IdempotencyTypeOK, RequestsAre
<1>2. ASSUME NEW r \in Slots, NEW q \in KeyedRequest \cup {Idle}, Become(r, q) \/ Stumble(r, q)
      PROVE  Typed
  BY <1>1, <1>2 DEF Become, Stumble, RequestsAre
<1>3. ASSUME NEW r \in Slots, Finish(r) \/ Abort(r) PROVE Typed
  BY <1>2, <1>3 DEF Finish, Abort
<1>4. ASSUME UNCHANGED idempotencyVars, Typed PROVE IdempotencyTypeOK'
  BY <1>1, <1>4 DEF idempotencyVars, IdempotencyTypeOK
<1> HIDE DEF Typed
<1>5. ASSUME NEW r \in Slots, NEW o \in Ops, HandleKeyed(r, o) PROVE IdempotencyTypeOK'
  <2>1. [pc |-> "getlock", op |-> o] \in KeyedRequest
    BY DEF KeyedRequest
  <2>2. Typed
    BY <1>1, <1>5, <2>1 DEF HandleKeyed, Begin, RequestsAre, Typed
  <2> QED BY <1>4, <1>5, <2>2 DEF HandleKeyed
<1>6. ASSUME NEW r \in Slots, GetLock(r) PROVE IdempotencyTypeOK'
  <2>1. Typed
    BY <1>1, <1>2, <1>3, <1>6, KeyedRequestsAreTyped DEF GetLock, Goto, At
  <2> QED BY <1>4, <1>6, <2>1 DEF GetLock
<1>7. ASSUME NEW r \in Slots, NEW resp \in Response, req[r].op \in Ops, Replay(r, resp)
      PROVE  IdempotencyTypeOK'
  <2>1. Typed
    BY <1>3, <1>7 DEF Replay
  <2>2. replays' \subseteq [asked : Ops, given : Response]
    BY <1>1, <1>7 DEF Replay
  <2> QED BY <1>1, <1>7, <2>1, <2>2 DEF Replay, IdempotencyTypeOK, Typed
<1>8. ASSUME NEW r \in Slots, ReplayFromRedis(r) PROVE IdempotencyTypeOK'
  <2>1. req[r].op \in Ops /\ [req[r] EXCEPT !.pc = "findrow"] \in KeyedRequest
    BY <1>1, <1>8, KeyedRequestsAreTyped DEF ReplayFromRedis, At
  <2>2. CASE record[req[r].op] # Nothing
    BY <1>1, <1>7, <1>8, <2>1, <2>2 DEF ReplayFromRedis
  <2>3. CASE record[req[r].op] = Nothing
    BY <1>2, <1>4, <1>8, <2>1, <2>3 DEF ReplayFromRedis, Goto
  <2> QED BY <2>2, <2>3
<1>9. ASSUME NEW r \in Slots, ReplayFromDB(r) PROVE IdempotencyTypeOK'
  <2>1. req[r].op \in Ops
    BY <1>1, <1>9, KeyedRequestsAreTyped DEF ReplayFromDB, At
  <2>2. CASE row[req[r].op].status = "completed"
    <3>1. row[req[r].op].response \in Response
      BY <1>1, <2>1, <2>2 DEF Row, NoRow
    <3> QED BY <1>7, <1>9, <2>1, <2>2, <3>1 DEF ReplayFromDB
  <2>3. CASE row[req[r].op].status # "completed"
    BY <1>3, <1>4, <1>9, <2>3 DEF ReplayFromDB
  <2> QED BY <2>2, <2>3
<1>10. ASSUME NEW r \in Slots, SetNX(r) PROVE IdempotencyTypeOK'
  <2>1. req[r].op \in Ops /\ [req[r] EXCEPT !.pc = "execute"] \in KeyedRequest
    BY <1>1, <1>10, KeyedRequestsAreTyped DEF SetNX, At
  <2>2. Typed
    BY <1>2, <1>3, <1>10, <2>1 DEF SetNX, Goto
  <2>3. lock' \in [Ops -> {"free", "processing", "completed"}]
    BY <1>1, <1>10, <2>1 DEF SetNX
  <2> QED BY <1>1, <1>10, <2>2, <2>3 DEF SetNX, IdempotencyTypeOK, Typed
<1>11. ASSUME NEW r \in Slots, RedisFails(r) PROVE IdempotencyTypeOK'
  <2>1. Typed
    BY <1>1, <1>2, <1>11, KeyedRequestsAreTyped DEF RedisFails, At
  <2> QED BY <1>4, <1>11, <2>1 DEF RedisFails
<1>12. ASSUME NEW r \in Slots, Execute(r) PROVE IdempotencyTypeOK'
  <2> DEFINE o == req[r].op
  <2>1. o \in Ops
    BY <1>1, <1>12, KeyedRequestsAreTyped DEF Execute, At
  <2>2. executions[o] + 1 \in 1..MaxRequests
    <3>1. IsFiniteSet(Coming(o)) /\ executions[o] + Cardinality(Coming(o)) <= begun
      BY <1>1, <2>1 DEF LockIsTakenOnce
    <3>2. r \in Coming(o)
      BY <1>12 DEF Execute, Coming, At
    <3>3. Cardinality(Coming(o)) \in Nat /\ Cardinality(Coming(o)) # 0
      BY <3>1, <3>2, FS_CardinalityType, FS_EmptySet
    <3> QED BY <1>1, <2>1, <3>1, <3>3
  <2>3. ASSUME NEW c \in Captures
        PROVE  [of |-> o, number |-> executions[o] + 1, captured |-> c] \in Response
    BY <2>1, <2>2, <2>3 DEF Response
  <2>4. ASSUME NEW c \in Captures
        PROVE  [pc |-> "storelock", op |-> o, path |-> o,
                response |-> [of |-> o, number |-> executions[o] + 1, captured |-> c]]
                    \in KeyedRequest
    BY <2>1, <2>3 DEF KeyedRequest
  <2>5. Typed
    BY <1>2, <1>12, <2>4 DEF Execute
  <2>6. executions' \in [Ops -> 0..MaxRequests]
    BY <1>1, <1>12, <2>1, <2>2 DEF Execute
  <2> QED BY <1>1, <1>12, <2>5, <2>6 DEF Execute, IdempotencyTypeOK, Typed
<1>13. ASSUME NEW r \in Slots, NEW p \in PathRead(r), req[r].pc \in Storing PROVE p \in Ops
  <2>1. \A s \in Slots : req[s].pc # "idle" => req[s].op \in Ops
    BY <1>1, KeyedRequestsAreTyped
  <2> QED BY <1>13, <2>1 DEF PathRead, Others, Storing
<1>14. ASSUME NEW r \in Slots, StoreLock(r) PROVE IdempotencyTypeOK'
  <2>1. /\ req[r].op \in Ops /\ req[r].pc \in Storing
        /\ \A p \in Ops : [req[r] EXCEPT !.pc = "storerecord", !.path = p] \in KeyedRequest
    BY <1>1, <1>14, KeyedRequestsAreTyped DEF StoreLock, At, Storing
  <2>2. Typed
    BY <1>2, <1>13, <1>14, <2>1 DEF StoreLock
  <2>3. lock' \in [Ops -> {"free", "processing", "completed"}]
    BY <1>1, <1>14, <2>1 DEF StoreLock
  <2> QED BY <1>1, <1>14, <2>2, <2>3 DEF StoreLock, IdempotencyTypeOK, Typed
<1>15. ASSUME NEW r \in Slots, StoreRecord(r) PROVE IdempotencyTypeOK'
  <2>1. /\ req[r].op \in Ops /\ req[r].response \in Response
        /\ [req[r] EXCEPT !.pc = "createrow"] \in KeyedRequest
    BY <1>1, <1>15, KeyedRequestsAreTyped DEF StoreRecord, At, Storing
  <2>2. Typed
    BY <1>2, <1>15, <2>1 DEF StoreRecord, Goto
  <2>3. record' \in [Ops -> Response \cup {Nothing}]
    BY <1>1, <1>15, <2>1 DEF StoreRecord
  <2> QED BY <1>1, <1>15, <2>2, <2>3 DEF StoreRecord, IdempotencyTypeOK, Typed
<1>16. ASSUME NEW r \in Slots, StoreFails(r) PROVE IdempotencyTypeOK'
  <2>1. /\ req[r].pc \in Storing
        /\ \A p \in Ops : [req[r] EXCEPT !.pc = "storerecord", !.path = p] \in KeyedRequest
        /\ [req[r] EXCEPT !.pc = "createrow"] \in KeyedRequest
    BY <1>1, <1>16, KeyedRequestsAreTyped DEF StoreFails, At, Storing
  <2>2. Typed
    BY <1>2, <1>13, <1>16, <2>1 DEF StoreFails
  <2> QED BY <1>4, <1>16, <2>2 DEF StoreFails
<1>17. ASSUME NEW r \in Slots, CreateRow(r) PROVE IdempotencyTypeOK'
  <2>1. /\ req[r].path \in Ops /\ req[r].response \in Response
        /\ [req[r] EXCEPT !.pc = "updaterow"] \in KeyedRequest
    BY <1>1, <1>17, KeyedRequestsAreTyped DEF CreateRow, At, Storing
  <2>2. Typed
    BY <1>2, <1>3, <1>17, <2>1 DEF CreateRow, Goto
  <2>3. [status |-> "processing", response |-> req[r].response] \in Row
    BY <2>1 DEF Row
  <2>4. row' \in [Ops -> Row \cup {NoRow}]
    BY <1>1, <1>17, <2>1, <2>3 DEF CreateRow
  <2> QED BY <1>1, <1>17, <2>2, <2>4 DEF CreateRow, IdempotencyTypeOK, Typed
<1>18. ASSUME NEW r \in Slots, UpdateRow(r) PROVE IdempotencyTypeOK'
  <2>1. req[r].path \in Ops
    BY <1>1, <1>18, KeyedRequestsAreTyped DEF UpdateRow, At, Storing
  <2>2. Typed
    BY <1>3, <1>18 DEF UpdateRow
  <2>3. row[req[r].path].status # "none" => [row[req[r].path] EXCEPT !.status = "completed"] \in Row
    BY <1>1, <2>1 DEF Row, NoRow
  <2>4. row' \in [Ops -> Row \cup {NoRow}]
    BY <1>1, <1>18, <2>1, <2>3 DEF UpdateRow
  <2> QED BY <1>1, <1>18, <2>2, <2>4 DEF UpdateRow, IdempotencyTypeOK, Typed
<1>19. ASSUME NEW r \in Slots, Abort(r), UNCHANGED idempotencyVars PROVE IdempotencyTypeOK'
  BY <1>3, <1>4, <1>19
<1>20. ASSUME NEW o \in Ops, LockLapses(o) \/ RecordLapses(o) \/ CleanupRow(o) \/ DeleteRecord(o)
       PROVE  IdempotencyTypeOK'
  <2>1. Typed
    BY <1>1, <1>20
    DEF LockLapses, RecordLapses, CleanupRow, DeleteRecord, requestVars, RequestsAre, Typed
  <2>2. /\ lock' \in [Ops -> {"free", "processing", "completed"}]
        /\ lapses' \in [Ops -> 0..MaxLapses]
    BY <1>1, <1>20 DEF LockLapses, RecordLapses, CleanupRow, DeleteRecord
  <2>3. /\ record' \in [Ops -> Response \cup {Nothing}]
        /\ row' \in [Ops -> Row \cup {NoRow}]
        /\ UNCHANGED <<executions, replays>>
    BY <1>1, <1>20 DEF LockLapses, RecordLapses, CleanupRow, DeleteRecord
  <2> QED BY <1>1, <2>1, <2>2, <2>3 DEF IdempotencyTypeOK, Typed
<1> QED
  BY <1>5, <1>6, <1>8, <1>9, <1>10, <1>11, <1>12, <1>14, <1>15, <1>16, <1>17, <1>18, <1>19, <1>20
  DEF IdempotencyNext

\* A step that brings nobody nearer to executing keeps the account of an operation.
LEMMA QuietKeys ==
    ASSUME IdempotencyTypeOK, IdempotencyTypeOK', NEW o \in Ops, LockIsTakenOnce(o),
           Coming(o)' \subseteq Coming(o), Executing(o)' \subseteq Executing(o),
           executions'[o] = executions[o], begun' >= begun,
           lapses'[o] >= lapses[o], faults' >= faults,
           \/ lock'[o] = "free" => lock[o] = "free"
           \/ lapses'[o] > lapses[o]
    PROVE  LockIsTakenOnce(o)'
<1>1. /\ IsFiniteSet(Coming(o)) /\ Executing(o) \subseteq Coming(o)
      /\ executions[o] + Cardinality(Coming(o)) <= begun
      /\ executions[o] + Cardinality(Executing(o)) + (IF lock[o] = "free" THEN 1 ELSE 0)
            <= 1 + lapses[o] + faults
  BY DEF LockIsTakenOnce, Coming, Executing, At
<1>2. /\ IsFiniteSet(Executing(o)) /\ IsFiniteSet(Coming(o)') /\ IsFiniteSet(Executing(o)')
      /\ Cardinality(Coming(o)') <= Cardinality(Coming(o))
      /\ Cardinality(Executing(o)') <= Cardinality(Executing(o))
  BY <1>1, FS_Subset
<1>3. /\ Cardinality(Coming(o)) \in Nat /\ Cardinality(Coming(o)') \in Nat
      /\ Cardinality(Executing(o)) \in Nat /\ Cardinality(Executing(o)') \in Nat
  BY <1>1, <1>2, FS_CardinalityType
<1>4. /\ executions[o] \in Nat /\ lapses[o] \in Nat /\ faults \in Nat /\ begun \in Nat
      /\ lapses'[o] \in Nat /\ faults' \in Nat /\ begun' \in Nat
  BY RequestBoundsAssumption, LapsesAssumption DEF IdempotencyTypeOK, RequestsAre
<1>5. executions'[o] + Cardinality(Coming(o)') <= begun'
  BY <1>1, <1>2, <1>3, <1>4
<1>6. executions'[o] + Cardinality(Executing(o)') + (IF lock'[o] = "free" THEN 1 ELSE 0)
        <= 1 + lapses'[o] + faults'
  BY <1>1, <1>2, <1>3, <1>4
<1> QED BY <1>2, <1>5, <1>6 DEF LockIsTakenOnce

\* What one request does to those who come and those about to execute.
LEMMA OneKeyedRequest ==
    ASSUME req \in [Slots -> KeyedRequest \cup {Idle}], NEW r \in Slots, NEW q,
           req' = [req EXCEPT ![r] = q], NEW o
    PROVE  /\ q.pc \in {"getlock", "getrecord", "findrow", "setnx", "execute"} /\ q.op = o =>
                Coming(o)' = Coming(o) \cup {r}
           /\ ~(q.pc \in {"getlock", "getrecord", "findrow", "setnx", "execute"} /\ q.op = o) =>
                Coming(o)' = Coming(o) \ {r}
           /\ q.pc = "execute" /\ q.op = o => Executing(o)' = Executing(o) \cup {r}
           /\ ~(q.pc = "execute" /\ q.op = o) => Executing(o)' = Executing(o) \ {r}
           /\ r \in Coming(o) <=>
                /\ req[r].pc \in {"getlock", "getrecord", "findrow", "setnx", "execute"}
                /\ req[r].op = o
           /\ r \in Executing(o) <=> req[r].pc = "execute" /\ req[r].op = o
<1>1. req'[r] = q /\ \A s \in Slots \ {r} : req'[s] = req[s]
  OBVIOUS
<1>2. \A s : s \in Coming(o)' <=>
            /\ s \in Slots
            /\ req'[s].pc \in {"getlock", "getrecord", "findrow", "setnx", "execute"}
            /\ req'[s].op = o
  BY DEF Coming
<1>3. \A s : s \in Coming(o) <=>
            /\ s \in Slots
            /\ req[s].pc \in {"getlock", "getrecord", "findrow", "setnx", "execute"}
            /\ req[s].op = o
  BY DEF Coming
<1>4. \A s : /\ s \in Executing(o)' <=> s \in Slots /\ req'[s].pc = "execute" /\ req'[s].op = o
             /\ s \in Executing(o) <=> s \in Slots /\ req[s].pc = "execute" /\ req[s].op = o
  BY DEF Executing, At
<1> QED BY <1>1, <1>2, <1>3, <1>4

\* A set with one more or one less.
LEMMA OneMoreOrLess ==
    ASSUME NEW S, IsFiniteSet(S), NEW x
    PROVE  /\ Cardinality(S) \in Nat
           /\ IsFiniteSet(S \cup {x}) /\ IsFiniteSet(S \ {x})
           /\ Cardinality(S \cup {x}) <= Cardinality(S) + 1
           /\ x \in S => Cardinality(S \ {x}) = Cardinality(S) - 1
BY FS_CardinalityType, FS_AddElement, FS_RemoveElement

\* Every step keeps the account of every operation.
LEMMA KeysAreAccounted ==
    ASSUME IdempotencyInv, IdempotencyNext
    PROVE  IdempotencyInv'
<1>1. IdempotencyTypeOK /\ IdempotencyTypeOK' /\ \A o \in Ops : LockIsTakenOnce(o)
  BY IdempotencyTypes DEF IdempotencyInv
<1>2. /\ executions \in [Ops -> Nat] /\ lapses \in [Ops -> Nat]
      /\ faults \in Nat /\ begun \in Nat /\ lapses' \in [Ops -> Nat]
      /\ lock \in [Ops -> {"free", "processing", "completed"}]
      /\ req \in [Slots -> KeyedRequest \cup {Idle}]
  BY <1>1, RequestBoundsAssumption, LapsesAssumption DEF IdempotencyTypeOK, RequestsAre
<1> SUFFICES ASSUME NEW o \in Ops PROVE LockIsTakenOnce(o)'
  BY <1>1 DEF IdempotencyInv
<1>3. /\ IsFiniteSet(Coming(o)) /\ IsFiniteSet(Executing(o))
      /\ executions[o] + Cardinality(Coming(o)) <= begun
      /\ executions[o] + Cardinality(Executing(o)) + (IF lock[o] = "free" THEN 1 ELSE 0)
            <= 1 + lapses[o] + faults
  <2>1. Executing(o) \subseteq Coming(o)
    BY DEF Coming, Executing, At
  <2> QED BY <1>1, <2>1, FS_Subset DEF LockIsTakenOnce
<1>4. ASSUME NEW r \in Slots, NEW q, Become(r, q) \/ Stumble(r, q),
             /\ q.pc \in {"getlock", "getrecord", "findrow", "setnx", "execute"}
             /\ q.op = o
             => r \in Coming(o),
             q.pc = "execute" => req[r].pc = "execute",
             executions'[o] = executions[o], lapses'[o] = lapses[o],
             lock'[o] = "free" => lock[o] = "free"
      PROVE  LockIsTakenOnce(o)'
  <2>1. req' = [req EXCEPT ![r] = q] /\ begun' = begun /\ faults' >= faults
    BY <1>2, <1>4 DEF Become, Stumble
  <2>2. /\ r \in Coming(o) => Coming(o) \cup {r} = Coming(o)
        /\ Coming(o) \ {r} \subseteq Coming(o)
        /\ r \in Executing(o) => Executing(o) \cup {r} = Executing(o)
        /\ Executing(o) \ {r} \subseteq Executing(o)
    OBVIOUS
  <2>3. q.pc = "execute" /\ q.op = o => r \in Executing(o)
    BY <1>4, <2>1 DEF Executing, Coming, At
  <2>4. Coming(o)' \subseteq Coming(o)
    <3>1. \/ Coming(o)' = Coming(o) \cup {r} /\ r \in Coming(o)
          \/ Coming(o)' = Coming(o) \ {r}
      BY <1>2, <1>4, <2>1, OneKeyedRequest
    <3> QED BY <2>2, <3>1
  <2>5. Executing(o)' \subseteq Executing(o)
    <3>1. \/ Executing(o)' = Executing(o) \cup {r} /\ r \in Executing(o)
          \/ Executing(o)' = Executing(o) \ {r}
      BY <1>2, <2>1, <2>3, OneKeyedRequest
    <3> QED BY <2>2, <3>1
  <2> QED BY <1>1, <1>2, <1>4, <2>1, <2>4, <2>5, QuietKeys
<1>5. ASSUME NEW r \in Slots, Finish(r) \/ Abort(r),
             UNCHANGED <<executions, lapses, lock>>
      PROVE  LockIsTakenOnce(o)'
  BY <1>4, <1>5 DEF Finish, Abort, Idle
\* Who takes a free lock, or fails to, is one more to execute.
<1>6. ASSUME NEW r \in Slots, At(r, "setnx"), req[r].op \in Ops,
             [req[r] EXCEPT !.pc = "execute"].pc = "execute",
             [req[r] EXCEPT !.pc = "execute"].op = req[r].op,
             \/ /\ Become(r, [req[r] EXCEPT !.pc = "execute"])
                /\ lock[req[r].op] = "free" /\ lock' = [lock EXCEPT ![req[r].op] = "processing"]
             \/ Stumble(r, [req[r] EXCEPT !.pc = "execute"]) /\ UNCHANGED lock,
             UNCHANGED <<executions, lapses>>
      PROVE  LockIsTakenOnce(o)'
  <2> DEFINE q == [req[r] EXCEPT !.pc = "execute"]
  <2>1. /\ req' = [req EXCEPT ![r] = q] /\ begun' = begun
        /\ q.pc = "execute" /\ q.op = req[r].op
    BY <1>6 DEF Become, Stumble
  <2>2. r \in Coming(req[r].op)
    BY <1>6 DEF Coming, At
  <2> HIDE DEF q
  <2>3. CASE req[r].op # o
    <3>1. Coming(o)' = Coming(o) \ {r} /\ Executing(o)' = Executing(o) \ {r}
      BY <1>2, <2>1, <2>3, OneKeyedRequest
    <3>2. faults' >= faults /\ lock'[o] = lock[o]
      BY <1>2, <1>6, <2>3 DEF Become, Stumble
    <3> QED BY <1>1, <1>2, <1>6, <2>1, <3>1, <3>2, QuietKeys
  <2>4. CASE req[r].op = o
    <3>1. /\ Coming(o)' = Coming(o) \cup {r} /\ r \in Coming(o)
          /\ Executing(o)' = Executing(o) \cup {r}
      BY <1>2, <2>1, <2>2, <2>4, OneKeyedRequest
    <3>2. Coming(o)' = Coming(o)
      BY <3>1
    <3>3. IsFiniteSet(Executing(o)') /\ Cardinality(Executing(o)') <= Cardinality(Executing(o)) + 1
          /\ Cardinality(Executing(o)) \in Nat /\ Cardinality(Executing(o)') \in Nat
      BY <1>3, <3>1, OneMoreOrLess, FS_CardinalityType
    <3>4. \/ faults' = faults /\ lock[o] = "free" /\ lock'[o] = "processing"
          \/ faults' = faults + 1 /\ lock'[o] = lock[o]
      BY <1>2, <1>6, <2>4 DEF Become, Stumble
    <3>5. executions'[o] + Cardinality(Executing(o)') + (IF lock'[o] = "free" THEN 1 ELSE 0)
            <= 1 + lapses'[o] + faults'
      BY <1>2, <1>3, <1>6, <3>3, <3>4
    <3> QED BY <1>3, <1>6, <2>1, <3>2, <3>5 DEF LockIsTakenOnce
  <2> QED BY <2>3, <2>4
<1>7. ASSUME NEW r \in Slots, NEW p \in Ops, HandleKeyed(r, p) PROVE LockIsTakenOnce(o)'
  <2> DEFINE q == [pc |-> "getlock", op |-> p]
  <2>1. /\ req' = [req EXCEPT ![r] = q] /\ begun' = begun + 1 /\ UNCHANGED faults
        /\ UNCHANGED <<executions, lapses, lock>> /\ At(r, "idle")
    BY <1>7 DEF HandleKeyed, Begin, idempotencyVars
  <2>2. Executing(o)' = Executing(o) /\ Coming(o)' \subseteq Coming(o) \cup {r}
    <3>1. q.pc = "getlock" /\ r \notin Executing(o)
      BY <2>1 DEF Executing, At
    <3> HIDE DEF q
    <3>2. Executing(o)' = Executing(o) \ {r}
      BY <1>2, <2>1, <3>1, OneKeyedRequest
    <3>3. Coming(o)' = Coming(o) \cup {r} \/ Coming(o)' = Coming(o) \ {r}
      BY <1>2, <2>1, OneKeyedRequest
    <3> QED BY <3>1, <3>2, <3>3
  <2>3. /\ IsFiniteSet(Coming(o) \cup {r})
        /\ Cardinality(Coming(o) \cup {r}) <= Cardinality(Coming(o)) + 1
        /\ Cardinality(Coming(o)) \in Nat /\ Cardinality(Coming(o) \cup {r}) \in Nat
    BY <1>3, OneMoreOrLess, FS_CardinalityType
  <2>4. /\ IsFiniteSet(Coming(o)') /\ Cardinality(Coming(o)') \in Nat
        /\ Cardinality(Coming(o)') <= Cardinality(Coming(o) \cup {r})
    BY <2>2, <2>3, FS_Subset, FS_CardinalityType
  <2>5. executions'[o] + Cardinality(Coming(o)') <= begun'
    BY <1>2, <1>3, <2>1, <2>3, <2>4
  <2> QED BY <1>3, <2>1, <2>2, <2>4, <2>5 DEF LockIsTakenOnce
<1>8. ASSUME NEW r \in Slots, Execute(r) PROVE LockIsTakenOnce(o)'
  <2>1. PICK q : /\ req' = [req EXCEPT ![r] = q] /\ q.pc = "storelock"
                 /\ UNCHANGED <<begun, faults>>
    BY <1>8 DEF Execute, Become
  <2>2. /\ At(r, "execute") /\ UNCHANGED <<lapses, lock>>
        /\ executions' = [executions EXCEPT ![req[r].op] = executions[req[r].op] + 1]
    BY <1>8 DEF Execute
  <2>3. Coming(o)' = Coming(o) \ {r} /\ Executing(o)' = Executing(o) \ {r}
    BY <1>2, <2>1, OneKeyedRequest
  <2>4. CASE req[r].op # o
    BY <1>1, <1>2, <2>1, <2>2, <2>3, <2>4, QuietKeys
  <2>5. CASE req[r].op = o
    <3>1. r \in Coming(o) /\ r \in Executing(o)
      BY <1>2, <2>1, <2>2, <2>5, OneKeyedRequest DEF At
    <3>2. /\ IsFiniteSet(Coming(o)') /\ IsFiniteSet(Executing(o)')
          /\ Cardinality(Coming(o)') = Cardinality(Coming(o)) - 1
          /\ Cardinality(Executing(o)') = Cardinality(Executing(o)) - 1
          /\ Cardinality(Coming(o)) \in Nat /\ Cardinality(Executing(o)) \in Nat
      BY <1>3, <2>3, <3>1, OneMoreOrLess
    <3>3. executions'[o] = executions[o] + 1
      BY <1>2, <2>2, <2>5
    <3>4. executions'[o] + Cardinality(Coming(o)') <= begun'
      BY <1>2, <1>3, <2>1, <3>2, <3>3
    <3>5. executions'[o] + Cardinality(Executing(o)') + (IF lock'[o] = "free" THEN 1 ELSE 0)
            <= 1 + lapses'[o] + faults'
      BY <1>2, <1>3, <2>1, <2>2, <3>2, <3>3
    <3> QED BY <3>2, <3>4, <3>5 DEF LockIsTakenOnce
  <2> QED BY <2>4, <2>5
<1>9. ASSUME NEW r \in Slots,
             \/ GetLock(r) \/ ReplayFromRedis(r) \/ ReplayFromDB(r) \/ SetNX(r) \/ RedisFails(r)
      PROVE  LockIsTakenOnce(o)'
  <2>1. /\ req[r].pc \in {"getlock", "getrecord", "findrow", "setnx", "execute"}
        /\ req[r].op \in Ops
        /\ \A l \in {"getrecord", "findrow", "setnx", "execute"} :
            [req[r] EXCEPT !.pc = l].pc = l /\ [req[r] EXCEPT !.pc = l].op = req[r].op
    BY ZenonT(40), <1>2, <1>9, KeyedRequestsAreTyped
    DEF GetLock, ReplayFromRedis, ReplayFromDB, SetNX, RedisFails, At
  <2>2. ASSUME NEW l \in {"getrecord", "findrow", "setnx"},
               \/ Become(r, [req[r] EXCEPT !.pc = l]) \/ Stumble(r, [req[r] EXCEPT !.pc = l]),
               UNCHANGED <<executions, lapses, lock>>
        PROVE  LockIsTakenOnce(o)'
    <3>1. req[r].op = o => r \in Coming(o)
      BY <2>1 DEF Coming
    <3> QED BY <1>4, <2>1, <2>2, <3>1
  <2>3. CASE GetLock(r)
    BY <1>5, <2>2, <2>3 DEF GetLock, Goto, idempotencyVars
  <2>4. CASE ReplayFromRedis(r)
    BY <1>5, <2>2, <2>4 DEF ReplayFromRedis, Replay, Goto, idempotencyVars
  <2>5. CASE ReplayFromDB(r)
    BY <1>5, <2>5 DEF ReplayFromDB, Replay, idempotencyVars
  <2>6. CASE SetNX(r)
    BY <1>5, <1>6, <2>1, <2>6 DEF SetNX, Acquired, Goto
  <2>7. CASE RedisFails(r)
    BY <1>6, <2>1, <2>2, <2>7 DEF RedisFails, idempotencyVars
  <2> QED BY <1>9, <2>3, <2>4, <2>5, <2>6, <2>7
<1>10. ASSUME NEW r \in Slots,
              StoreLock(r) \/ StoreRecord(r) \/ StoreFails(r) \/ CreateRow(r) \/ UpdateRow(r)
       PROVE  LockIsTakenOnce(o)'
  <2>1. /\ UNCHANGED <<executions, lapses>> /\ req[r].pc \in Storing
        /\ lock'[o] = "free" => lock[o] = "free"
    BY <1>2, <1>10
    DEF StoreLock, StoreRecord, StoreFails, CreateRow, UpdateRow, idempotencyVars, At, Storing
  <2>2. /\ \A l \in Storing : [req[r] EXCEPT !.pc = l].pc = l
        /\ \A p \in Ops : [req[r] EXCEPT !.pc = "storerecord", !.path = p].pc = "storerecord"
    <3>1. req[r] \in KeyedRequest \cup {Idle}
      BY <1>2
    <3> QED BY <2>1, <3>1, KeyedRequestsAreTyped
  <2>3. ASSUME NEW q, Become(r, q) \/ Stumble(r, q), q.pc \in Storing \cup {"idle"}
        PROVE  LockIsTakenOnce(o)'
    BY <1>4, <2>1, <2>3 DEF Storing
  <2>4. ASSUME Finish(r) PROVE LockIsTakenOnce(o)'
    BY <2>3, <2>4 DEF Finish, Idle
  <2>5. \A p \in PathRead(r) : p \in Ops
    <3>1. \A s \in Slots : req[s].pc # "idle" => req[s].op \in Ops
      BY <1>2, KeyedRequestsAreTyped
    <3> QED BY <2>1, <3>1 DEF PathRead, Others, Storing
  <2>6. CASE StoreLock(r) \/ StoreFails(r)
    BY <2>2, <2>3, <2>5, <2>6 DEF StoreLock, StoreFails, Storing
  <2>7. CASE StoreRecord(r)
    BY <2>2, <2>3, <2>7 DEF StoreRecord, Goto, Storing
  <2>8. CASE CreateRow(r)
    BY <2>2, <2>3, <2>4, <2>8 DEF CreateRow, Goto, Storing
  <2>9. CASE UpdateRow(r)
    BY <2>4, <2>9 DEF UpdateRow
  <2> QED BY <1>10, <2>6, <2>7, <2>8, <2>9
<1>11. ASSUME NEW r \in Slots, Abort(r), UNCHANGED idempotencyVars PROVE LockIsTakenOnce(o)'
  BY <1>5, <1>11 DEF idempotencyVars
<1>12. ASSUME NEW p \in Ops,
              LockLapses(p) \/ RecordLapses(p) \/ CleanupRow(p) \/ DeleteRecord(p)
       PROVE  LockIsTakenOnce(o)'
  <2>1. UNCHANGED <<executions, req, begun, faults>>
    BY <1>12 DEF LockLapses, RecordLapses, CleanupRow, DeleteRecord, requestVars
  <2>2. Coming(o)' = Coming(o) /\ Executing(o)' = Executing(o)
    BY <2>1 DEF Coming, Executing, At
  <2>3. CASE LockLapses(p)
    <3>1. \/ lapses'[o] = lapses[o] /\ lock'[o] = lock[o]
          \/ lapses'[o] = lapses[o] + 1
      BY <1>2, <2>3 DEF LockLapses
    <3> QED BY <1>1, <1>2, <2>1, <2>2, <3>1, QuietKeys
  <2>4. CASE RecordLapses(p) \/ CleanupRow(p) \/ DeleteRecord(p)
    <3>1. UNCHANGED <<lapses, lock>>
      BY <2>4 DEF RecordLapses, CleanupRow, DeleteRecord
    <3> QED BY <1>1, <1>2, <2>1, <2>2, <3>1, QuietKeys
  <2> QED BY <1>12, <2>3, <2>4
<1> QED BY <1>7, <1>8, <1>9, <1>10, <1>11, <1>12 DEF IdempotencyNext

\* No operation was asked for yet.
LEMMA KeysStart == IdempotencyInit /\ RequestsInit => IdempotencyInv
<1> SUFFICES ASSUME IdempotencyInit, RequestsInit PROVE IdempotencyInv
  OBVIOUS
<1>1. IdempotencyTypeOK
  BY RequestBoundsAssumption, LapsesAssumption
  DEF IdempotencyInit, RequestsInit, IdempotencyTypeOK, RequestsAre
<1>2. ASSUME NEW o \in Ops PROVE Coming(o) = {} /\ Executing(o) = {}
  BY DEF Coming, Executing, At, RequestsInit, Idle
<1>3. ASSUME NEW o \in Ops PROVE LockIsTakenOnce(o)
  BY <1>2, FS_EmptySet DEF LockIsTakenOnce, IdempotencyInit, RequestsInit
<1> QED BY <1>1, <1>3 DEF IdempotencyInv

\* Every step keeps the invariant.
LEMMA KeySteps ==
    IdempotencyInv /\ [IdempotencyNext]_<<idempotencyVars, requestVars>> => IdempotencyInv'
<1>1. ASSUME IdempotencyInv, UNCHANGED <<idempotencyVars, requestVars>> PROVE IdempotencyInv'
  BY <1>1
  DEF IdempotencyInv, IdempotencyTypeOK, RequestsAre, LockIsTakenOnce, Coming, Executing,
      At, idempotencyVars, requestVars
<1> QED BY <1>1, KeysAreAccounted

\* ExecutionsAccounted: a handler runs once for each lock that expired or command of Redis
\* that failed, and once more, whatever requests with one key are interleaved:
\* http/middleware/idempotency.go.
THEOREM ExecutionsAlwaysAccounted == IdempotencySpec => []ExecutionsAccounted
<1>1. IdempotencyInv => ExecutionsAccounted
  <2> SUFFICES ASSUME IdempotencyInv, NEW o \in Ops PROVE executions[o] <= 1 + lapses[o] + faults
    BY DEF ExecutionsAccounted
  <2>1. /\ executions[o] \in Nat /\ lapses[o] \in Nat /\ faults \in Nat
    BY RequestBoundsAssumption, LapsesAssumption
    DEF IdempotencyInv, IdempotencyTypeOK, RequestsAre
  <2>2. Executing(o) \subseteq Coming(o)
    BY DEF Coming, Executing, At
  <2>3. Cardinality(Executing(o)) \in Nat
    BY <2>2, FS_Subset, FS_CardinalityType DEF IdempotencyInv, LockIsTakenOnce
  <2> QED BY <2>1, <2>3 DEF IdempotencyInv, LockIsTakenOnce
<1> QED BY <1>1, KeysStart, KeySteps, PTL DEF IdempotencySpec

-----------------------------------------------------------------------------
(* Exports *)

\* What an exporter, a request and a row may become.
LEMMA ExportersAreTyped ==
    /\ FreeExporter \in ExporterState
    /\ \A s \in ExporterState, label \in {"stream", "store", "path", "fail"} :
        [s EXCEPT !.pc = label] \in ExporterState /\ [s EXCEPT !.pc = label].job = s.job
    /\ \A j \in Exports : [pc |-> "claim", job |-> j] \in ExporterState
<1>1. /\ FreeExporter \in ExporterState
      /\ \A j \in Exports : [pc |-> "claim", job |-> j] \in ExporterState
  BY DEF FreeExporter, ExporterState
<1>2. ASSUME NEW s \in ExporterState, NEW label \in {"stream", "store", "path", "fail"}
      PROVE  [s EXCEPT !.pc = label] \in ExporterState /\ [s EXCEPT !.pc = label].job = s.job
  BY DEF ExporterState
<1> QED BY <1>1, <1>2

\* The same of a request.
LEMMA ExportRequestsAreTyped ==
    /\ \A q \in ExportRequest :
        /\ q.job \in Exports
        /\ \A label \in {"stream", "sign", "undo", "enqueue", "unqueue", "cancel"} :
            [q EXCEPT !.pc = label] \in ExportRequest
    /\ \A j \in Exports, label \in {"create", "insert", "find"} :
        [pc |-> label, job |-> j] \in ExportRequest
<1>1. ASSUME NEW q \in ExportRequest,
             NEW label \in {"stream", "sign", "undo", "enqueue", "unqueue", "cancel"}
      PROVE  [q EXCEPT !.pc = label] \in ExportRequest
  BY DEF ExportRequest
<1>2. ASSUME NEW q \in ExportRequest PROVE q.job \in Exports
  BY DEF ExportRequest
<1>3. \A j \in Exports, label \in {"create", "insert", "find"} :
        [pc |-> label, job |-> j] \in ExportRequest
  BY DEF ExportRequest
<1> QED BY <1>1, <1>2, <1>3

\* The same of a row; a row that is inserted has a number of at most that of the rows.
LEMMA ExportRowsAreTyped ==
    ASSUME NEW x \in ExportRow
    PROVE  /\ \A st \in {"processing", "failed"} : [x EXCEPT !.st = st] \in ExportRow
           /\ \A path \in {"empty", "stored"} : [x EXCEPT !.path = path] \in ExportRow
           /\ \A st \in {"queued", "completed"}, S \in SUBSET Exports : S # Exports =>
                [x EXCEPT !.st = st, !.no = 1 + Cardinality(S)] \in ExportRow
<1>1. ASSUME NEW st \in {"processing", "failed"} PROVE [x EXCEPT !.st = st] \in ExportRow
  BY DEF ExportRow
<1>2. ASSUME NEW path \in {"empty", "stored"} PROVE [x EXCEPT !.path = path] \in ExportRow
  BY DEF ExportRow
<1>3. ASSUME NEW S \in SUBSET Exports, S # Exports
      PROVE  1 + Cardinality(S) \in 0..Cardinality(Exports)
  BY <1>3, ExportsAssumption, RoomForOneMore
<1>4. ASSUME NEW st \in {"queued", "completed"}, NEW n \in 0..Cardinality(Exports)
      PROVE  [x EXCEPT !.st = st, !.no = n] \in ExportRow
  BY DEF ExportRow
<1> QED BY <1>1, <1>2, <1>3, <1>4

\* The table, the goroutines and the requests keep their types.
LEMMA ExportTypes ==
    ASSUME ExportJobsInv, ExportJobsNext
    PROVE  /\ ExportJobsTypeOK'
           /\ ExportersHaveJobs'
           /\ (faults = 0 => unqueued = {})'
<1> DEFINE HaveJobs == \A w \in Exporters : exporter[w].pc # "idle" <=> exporter[w].job \in Exports
           Goal == ExportJobsTypeOK' /\ HaveJobs' /\ (faults = 0 => unqueued = {})'
<1>1. /\ export \in [Exports -> ExportRow]
      /\ exporter \in [Exporters -> ExporterState]
      /\ files \subseteq Exports /\ unqueued \subseteq Exports
      /\ announced \in [Exports -> Seq({"completed", "failed"})]
      /\ req \in [Slots -> ExportRequest \cup {Idle}]
      /\ begun \in 0..MaxRequests /\ faults \in 0..MaxFaults
      /\ \A s \in Slots : req[s].pc # "idle" => req[s] \in ExportRequest
      /\ HaveJobs /\ (faults = 0 => unqueued = {})
      /\ FreeExporter.pc = "idle" /\ FreeExporter.job \notin Exports
  BY ExportsAssumption
  DEF ExportJobsInv, ExportersHaveJobs, ExportJobsTypeOK, RequestsAre, ExporterAt, Idle,
      FreeExporter
<1>2. ASSUME NEW j \in Exports, NEW outcome \in {"completed", "failed"}, Announce(j, outcome)
      PROVE  announced' \in [Exports -> Seq({"completed", "failed"})]
  BY <1>1, <1>2 DEF Announce
<1>3. ASSUME NEW j \in Exports,
             \/ UNCHANGED export
             \/ \E st \in {"processing", "failed"} : UpdateExport(j, st)
             \/ \E path \in {"empty", "stored"} : UpdateFilePath(j, path)
             \/ \E st \in {"queued", "completed"} : InsertExport(j, st)
      PROVE  export' \in [Exports -> ExportRow]
  <2>1. ASSUME NEW st \in {"processing", "failed"}, UpdateExport(j, st)
        PROVE  export' \in [Exports -> ExportRow]
    <3>1. [export[j] EXCEPT !.st = st] \in ExportRow
      BY <1>1, ExportRowsAreTyped
    <3> QED BY <1>1, <2>1, <3>1 DEF UpdateExport
  <2>2. ASSUME NEW path \in {"empty", "stored"}, UpdateFilePath(j, path)
        PROVE  export' \in [Exports -> ExportRow]
    <3>1. [export[j] EXCEPT !.path = path] \in ExportRow
      BY <1>1, ExportRowsAreTyped
    <3> QED BY <1>1, <2>2, <3>1 DEF UpdateFilePath
  <2>3. ASSUME NEW st \in {"queued", "completed"}, InsertExport(j, st)
        PROVE  export' \in [Exports -> ExportRow]
    <3> DEFINE S == {k \in Exports : Created(k)}
               new == [export[j] EXCEPT !.st = st, !.no = 1 + Cardinality(S)]
    <3>1. S \in SUBSET Exports /\ S # Exports
      BY <2>3 DEF InsertExport
    <3>2. new \in ExportRow
      BY <1>1, <3>1, ExportRowsAreTyped
    <3>3. export' = [export EXCEPT ![j] = new]
      BY <1>1, <2>3 DEF InsertExport
    <3> HIDE DEF new
    <3> QED BY <1>1, <3>2, <3>3
  <2> QED BY <1>1, <1>3, <2>1, <2>2, <2>3
<1>4. ASSUME NEW r \in Slots, NEW q \in ExportRequest \cup {Idle},
             Begin(r, q) \/ Become(r, q) \/ Stumble(r, q)
      PROVE  RequestsAre(ExportRequest)' /\ faults' >= faults /\ (Stumble(r, q) => faults' # 0)
  BY <1>1, <1>4, RequestBoundsAssumption DEF Begin, Become, Stumble, RequestsAre
<1>5. ASSUME NEW r \in Slots,
             \/ \E j \in Exports : HandleCreateExport(r, j) \/ HandleCancelExport(r, j)
             \/ CreateSyncExport(r) \/ StreamExport(r) \/ SignExport(r) \/ UndoExport(r)
             \/ CreateAsyncExport(r) \/ EnqueueExport(r) \/ UnqueueExport(r)
             \/ FindToCancel(r) \/ CancelExport(r)
             \/ Abort(r) /\ UNCHANGED exportVars
      PROVE  Goal
  <2>1. UNCHANGED exporter /\ UNCHANGED files
    BY <1>5
    DEF HandleCreateExport, HandleCancelExport, CreateSyncExport, StreamExport, SignExport,
        UndoExport, CreateAsyncExport, EnqueueExport, UnqueueExport, FindToCancel, CancelExport,
        exportVars
  <2>2. /\ \E q \in ExportRequest \cup {Idle} : Begin(r, q) \/ Become(r, q) \/ Stumble(r, q)
        /\ req[r].pc \notin {"idle"} => req[r].job \in Exports
    <3>1. CASE \E j \in Exports : HandleCreateExport(r, j) \/ HandleCancelExport(r, j)
      BY <3>1, ExportRequestsAreTyped DEF HandleCreateExport, HandleCancelExport, Begin, At
    <3>2. CASE req[r].pc # "idle"
      <4>1. req[r] \in ExportRequest
        BY <1>1, <3>2
      <4> QED
        BY <1>5, <3>1, <4>1, ExportRequestsAreTyped
        DEF CreateSyncExport, StreamExport, SignExport, UndoExport, CreateAsyncExport,
            EnqueueExport, UnqueueExport, FindToCancel, CancelExport, Abort, Goto, Finish
    <3> QED
      BY <1>5, <3>1, <3>2
      DEF CreateSyncExport, StreamExport, SignExport, UndoExport, CreateAsyncExport,
          EnqueueExport, UnqueueExport, FindToCancel, CancelExport, Abort, At
  <2>3. RequestsAre(ExportRequest)' /\ faults' >= faults
    BY <1>4, <2>2
  <2>4. /\ export' \in [Exports -> ExportRow]
        /\ announced' \in [Exports -> Seq({"completed", "failed"})]
    <3>1. CASE UNCHANGED <<export, announced>>
      BY <1>1, <3>1
    <3>2. CASE ~UNCHANGED <<export, announced>>
      <4>1. req[r].job \in Exports
        BY <1>5, <2>2, <3>2
        DEF HandleCreateExport, HandleCancelExport, CreateSyncExport, StreamExport, SignExport,
            UndoExport, CreateAsyncExport, EnqueueExport, UnqueueExport, FindToCancel,
            CancelExport, Abort, At, exportVars
      <4> QED
        BY <1>1, <1>2, <1>3, <1>5, <3>2, <4>1
        DEF HandleCreateExport, HandleCancelExport, CreateSyncExport, StreamExport, SignExport,
            UndoExport, CreateAsyncExport, EnqueueExport, UnqueueExport, FindToCancel,
            CancelExport, exportVars
    <3> QED BY <3>1, <3>2
  <2>5. unqueued' \subseteq Exports /\ (faults' = 0 => unqueued' = {})
    <3>1. CASE EnqueueExport(r)
      BY <1>1, <2>2, <3>1, RequestBoundsAssumption
      DEF EnqueueExport, Stumble, Finish, Become, At, exportVars
    <3>2. CASE ~EnqueueExport(r)
      <4>1. unqueued' = unqueued
        BY <1>5, <3>2
        DEF HandleCreateExport, HandleCancelExport, CreateSyncExport, StreamExport, SignExport,
            UndoExport, CreateAsyncExport, UnqueueExport, FindToCancel, CancelExport, exportVars
      <4>2. faults' = 0 => faults = 0
        BY <1>1, <2>3, RequestBoundsAssumption
      <4> QED BY <1>1, <4>1, <4>2
    <3> QED BY <3>1, <3>2
  <2> QED BY <1>1, <2>1, <2>3, <2>4, <2>5 DEF ExportJobsTypeOK
<1>6. ASSUME NEW w \in Exporters,
             \/ DequeueExport(w) \/ ClaimExport(w) \/ StreamToBuffer(w) \/ StoreFile(w)
             \/ RecordFile(w) \/ FailExport(w) \/ ExporterStops(w)
      PROVE  Goal
  <2>1. RequestsAre(ExportRequest)' /\ faults' >= faults /\ unqueued' = unqueued
    BY <1>1, <1>6, RequestBoundsAssumption
    DEF DequeueExport, ClaimExport, StreamToBuffer, StoreFile, RecordFile, FailExport,
        ExporterStops, ExporterFault, requestVars, RequestsAre
  <2>2. \E s \in ExporterState :
          exporter' = [exporter EXCEPT ![w] = s] /\ (s.pc # "idle" <=> s.job \in Exports)
    <3>1. exporter[w] \in ExporterState
      BY <1>1
    <3>2. CASE DequeueExport(w)
      BY <3>2, ExportersAreTyped DEF DequeueExport
    <3>3. CASE ExporterEnds(w)
      BY <1>1, <3>3, ExportersAreTyped DEF ExporterEnds
    <3>4. ASSUME NEW label \in {"stream", "store", "path", "fail"},
                 exporter[w].pc # "idle", ExporterGoes(w, label)
          PROVE  \E s \in ExporterState :
                    exporter' = [exporter EXCEPT ![w] = s] /\ (s.pc # "idle" <=> s.job \in Exports)
      <4> DEFINE s == [exporter[w] EXCEPT !.pc = label]
      <4>1. s \in ExporterState /\ exporter' = [exporter EXCEPT ![w] = s] /\ s.job = exporter[w].job
            /\ s.pc = label
        BY <3>1, <3>4, ExportersAreTyped DEF ExporterGoes, ExporterState
      <4> QED BY <1>1, <3>4, <4>1
    <3>5. DequeueExport(w) \/ ExporterEnds(w) \/ \E label \in {"stream", "store", "path", "fail"} :
                exporter[w].pc # "idle" /\ ExporterGoes(w, label)
      BY <1>6
      DEF ClaimExport, StreamToBuffer, StoreFile, RecordFile, FailExport, ExporterStops, ExporterAt
    <3> QED BY <3>2, <3>3, <3>4, <3>5
  <2>3. exporter' \in [Exporters -> ExporterState] /\ HaveJobs'
    BY <1>1, <2>2
  <2>4. /\ export' \in [Exports -> ExportRow]
        /\ announced' \in [Exports -> Seq({"completed", "failed"})]
        /\ files' \subseteq Exports
    <3>1. CASE UNCHANGED <<export, announced, files>>
      BY <1>1, <3>1
    <3>2. CASE ~UNCHANGED <<export, announced, files>>
      <4>1. exporter[w].job \in Exports
        BY <1>1, <1>6, <3>2
        DEF DequeueExport, ClaimExport, StreamToBuffer, StoreFile, RecordFile, FailExport,
            ExporterStops, ExporterAt
      <4> QED
        BY <1>1, <1>2, <1>3, <1>6, <4>1
        DEF DequeueExport, ClaimExport, StreamToBuffer, StoreFile, RecordFile, FailExport,
            ExporterStops
    <3> QED BY <3>1, <3>2
  <2> QED BY <1>1, <2>1, <2>3, <2>4 DEF ExportJobsTypeOK
<1> QED BY <1>5, <1>6 DEF ExportJobsNext, ExporterAt, ExportersHaveJobs

\* What the statements about one export do to its row and to what was announced of it.
LEMMA ExportStatements ==
    ASSUME ExportJobsTypeOK, NEW k \in Exports
    PROVE  /\ \A i \in Exports \ {k} :
                /\ \A st : UpdateExport(k, st) => export'[i] = export[i]
                /\ \A path : UpdateFilePath(k, path) => export'[i] = export[i]
                /\ \A outcome : Announce(k, outcome) => announced'[i] = announced[i]
           /\ \A st : UpdateExport(k, st)
                => export'[k].st = st /\ export'[k].path = export[k].path
           /\ \A path : UpdateFilePath(k, path) => export'[k].st = export[k].st
           /\ \A outcome : Announce(k, outcome) /\ announced[k] = <<>>
                => announced'[k] = <<outcome>> /\ Len(announced'[k]) = 1
<1>1. export \in [Exports -> ExportRow] /\ export[k] \in ExportRow
  BY DEF ExportJobsTypeOK
<1>2. announced \in [Exports -> Seq({"completed", "failed"})]
  BY DEF ExportJobsTypeOK
<1>3. ASSUME NEW st, UpdateExport(k, st)
      PROVE  /\ export'[k].st = st /\ export'[k].path = export[k].path
             /\ \A i \in Exports \ {k} : export'[i] = export[i]
  BY <1>1, <1>3 DEF UpdateExport, ExportRow
<1>4. ASSUME NEW path, UpdateFilePath(k, path)
      PROVE  export'[k].st = export[k].st /\ \A i \in Exports \ {k} : export'[i] = export[i]
  BY <1>1, <1>4 DEF UpdateFilePath, ExportRow
<1>5. ASSUME NEW outcome, Announce(k, outcome)
      PROVE  /\ \A i \in Exports \ {k} : announced'[i] = announced[i]
             /\ announced[k] = <<>> => announced'[k] = <<outcome>> /\ Len(announced'[k]) = 1
  <2>1. announced'[k] = Append(announced[k], outcome)
    BY <1>2, <1>5 DEF Announce
  <2>2. Append(<<>>, outcome) = <<outcome>> /\ Len(<<outcome>>) = 1
    OBVIOUS
  <2>3. \A i \in Exports \ {k} : announced'[i] = announced[i]
    BY <1>2, <1>5 DEF Announce
  <2> QED BY <2>1, <2>2, <2>3
<1> QED BY <1>3, <1>4, <1>5

\* An export of which a step changes neither the row, the file nor who makes it, keeps
\* what is said of it.
LEMMA UntouchedExport ==
    ASSUME NEW j \in Exports, OneMaker(j), ToldOnce(j), WorkIsDone(j),
           export'[j] = export[j], announced'[j] = announced[j],
           j \in unqueued' <=> j \in unqueued, j \in files => j \in files',
           ExportersOn(j)' = ExportersOn(j), MakersOf(j)' \subseteq MakersOf(j),
           \A w \in ExportersOn(j) : exporter'[w].pc = "path" =>
                exporter[w].pc = "path" \/ j \in files',
           faults' = 0 => faults = 0
    PROVE  OneMaker(j)' /\ ToldOnce(j)' /\ WorkIsDone(j)'
<1>1. OneMaker(j)'
  BY DEF OneMaker
<1>2. ToldOnce(j)'
  BY DEF ToldOnce, Created, LeftToWorkers, DownloadExport
<1>3. WorkIsDone(j)'
  BY DEF WorkIsDone
<1> QED BY <1>1, <1>2, <1>3

\* Each step of a request keeps what is said of each export.
LEMMA ExportRequestSteps ==
    ASSUME ExportJobsInv, NEW r \in Slots,
           \/ \E j \in Exports : HandleCreateExport(r, j) \/ HandleCancelExport(r, j)
           \/ CreateSyncExport(r) \/ StreamExport(r) \/ SignExport(r) \/ UndoExport(r)
           \/ CreateAsyncExport(r) \/ EnqueueExport(r) \/ UnqueueExport(r)
           \/ FindToCancel(r) \/ CancelExport(r)
           \/ Abort(r) /\ UNCHANGED exportVars,
           NEW j \in Exports
    PROVE  OneMaker(j)' /\ ToldOnce(j)' /\ WorkIsDone(j)'
<1> DEFINE k == req[r].job
           Goal == OneMaker(j)' /\ ToldOnce(j)' /\ WorkIsDone(j)'
<1>1. /\ ExportJobsTypeOK
      /\ export \in [Exports -> ExportRow]
      /\ exporter \in [Exporters -> ExporterState]
      /\ announced \in [Exports -> Seq({"completed", "failed"})]
      /\ req \in [Slots -> ExportRequest \cup {Idle}]
      /\ faults \in 0..MaxFaults
      /\ OneMaker(j) /\ ToldOnce(j) /\ WorkIsDone(j) /\ ExportRequestsCarry
      /\ faults = 0 => unqueued = {}
      /\ Idle.pc = "idle"
  BY DEF ExportJobsInv, ExportJobsTypeOK, RequestsAre, Idle
<1>2. /\ UNCHANGED <<exporter, files>> /\ ExportersOn(j)' = ExportersOn(j)
      /\ \A s \in Slots \ {r} : req'[s] = req[s]
      /\ faults' = 0 => faults = 0
      /\ unqueued \subseteq unqueued'
  <2>1. UNCHANGED <<exporter, files>> /\ unqueued \subseteq unqueued'
    BY DEF HandleCreateExport, HandleCancelExport, CreateSyncExport, StreamExport, SignExport,
        UndoExport, CreateAsyncExport, EnqueueExport, UnqueueExport, FindToCancel, CancelExport,
        exportVars
  <2>2. \E q : Begin(r, q) \/ Become(r, q) \/ Stumble(r, q)
    BY DEF HandleCreateExport, HandleCancelExport, CreateSyncExport, StreamExport, SignExport,
        UndoExport, CreateAsyncExport, EnqueueExport, UnqueueExport, FindToCancel, CancelExport,
        Goto, Finish, Abort
  <2>3. (faults' = 0 => faults = 0) /\ \A s \in Slots \ {r} : req'[s] = req[s]
    BY <1>1, <2>2, RequestBoundsAssumption DEF Begin, Become, Stumble
  <2> QED BY <2>1, <2>3 DEF ExportersOn
<1>3. ASSUME export'[j] = export[j], announced'[j] = announced[j],
             j \in unqueued' <=> j \in unqueued,
             req'[r].pc \notin {"stream", "sign", "undo"} \/ req'[r].job # j \/ r \in MakersOf(j)
      PROVE  Goal
  <2>1. MakersOf(j)' \subseteq MakersOf(j)
    BY <1>2, <1>3 DEF MakersOf
  <2> QED BY <1>1, <1>2, <1>3, <2>1, UntouchedExport
<1>4. req[r].pc # "idle" => req[r] \in ExportRequest /\ k \in Exports
  BY <1>1, ExportRequestsAreTyped
<1>5. CASE \E i \in Exports : HandleCreateExport(r, i) \/ HandleCancelExport(r, i)
  BY <1>1, <1>3, <1>5 DEF HandleCreateExport, HandleCancelExport, Begin, exportVars
<1>6. CASE CreateSyncExport(r)
  <2>1. /\ k \in Exports /\ ~Created(k)
        /\ req' = [req EXCEPT ![r].pc = "stream"]
        /\ UNCHANGED <<announced, unqueued>>
        /\ \A i \in Exports \ {k} : export'[i] = export[i]
        /\ export'[k].st = "completed" /\ export'[k].path = export[k].path
        /\ req[r].pc = "create"
    BY <1>1, <1>4, <1>6 DEF CreateSyncExport, InsertExport, Goto, Become, At, ExportRow
  <2>2. req'[r].pc = "stream" /\ req'[r].job = k
    BY <1>1, <1>4, <2>1 DEF ExportRequest
  <2>3. CASE k # j
    BY <1>3, <2>1, <2>2, <2>3
  <2>4. CASE k = j
    <3>1. ExportersOn(j) = {} /\ MakersOf(j) = {} /\ j \notin unqueued
          /\ announced[j] = <<>> /\ export[j].path = "null"
      BY <1>1, <2>1, <2>4 DEF OneMaker, ToldOnce, Created, LeftToWorkers
    <3>2. MakersOf(j)' = {r}
      BY <1>2, <2>2, <2>4, <3>1 DEF MakersOf
    <3> QED
      BY <1>2, <2>1, <2>4, <3>1, <3>2
      DEF OneMaker, ToldOnce, WorkIsDone, Created, LeftToWorkers, DownloadExport
  <2> QED BY <2>3, <2>4
<1>7. CASE StreamExport(r)
  BY <1>1, <1>3, <1>4, <1>7
  DEF StreamExport, Goto, Become, At, exportVars, MakersOf, ExportRequest
<1>8. CASE SignExport(r)
  <2>1. /\ k \in Exports /\ r \in MakersOf(k) /\ req'[r] = Idle
        /\ UNCHANGED unqueued
        /\ \A i \in Exports \ {k} : export'[i] = export[i] /\ announced'[i] = announced[i]
        /\ export'[k].st = export[k].st
        /\ Announce(k, "completed")
    BY <1>1, <1>4, <1>8, ExportStatements
    DEF SignExport, Finish, Become, Stumble, At, MakersOf
  <2>2. CASE k # j
    BY <1>1, <1>3, <2>1, <2>2
  <2>3. CASE k = j
    <3>1. /\ MakersOf(j) = {r} /\ ExportersOn(j) = {} /\ announced[j] = <<>>
          /\ export[j].st = "completed" /\ j \notin unqueued
      BY <1>1, <2>1, <2>3 DEF OneMaker, ToldOnce, LeftToWorkers
    <3>2. MakersOf(j)' = {}
      BY <1>1, <1>2, <2>1, <3>1 DEF MakersOf
    <3>3. announced'[j] = <<"completed">> /\ Len(announced'[j]) = 1
      BY <1>1, <2>1, <2>3, <3>1, ExportStatements
    <3> QED
      BY <1>2, <2>1, <2>3, <3>1, <3>2, <3>3
      DEF OneMaker, ToldOnce, WorkIsDone, Created, LeftToWorkers, DownloadExport
  <2> QED BY <2>2, <2>3
<1>9. CASE UndoExport(r)
  <2>1. /\ k \in Exports /\ r \in MakersOf(k) /\ req'[r] = Idle
        /\ UNCHANGED unqueued
        /\ \A i \in Exports \ {k} : export'[i] = export[i] /\ announced'[i] = announced[i]
        /\ export'[k].st \in {export[k].st, "failed"} /\ export'[k].path = export[k].path
        /\ Announce(k, "failed")
    BY <1>1, <1>4, <1>9, ExportStatements
    DEF UndoExport, Finish, Become, Stumble, At, MakersOf
  <2>2. CASE k # j
    BY <1>1, <1>3, <2>1, <2>2
  <2>3. CASE k = j
    <3>1. /\ MakersOf(j) = {r} /\ ExportersOn(j) = {} /\ announced[j] = <<>>
          /\ export[j].st = "completed" /\ j \notin unqueued /\ export[j].path = "null"
      BY <1>1, <2>1, <2>3 DEF OneMaker, ToldOnce, LeftToWorkers
    <3>2. MakersOf(j)' = {}
      BY <1>1, <1>2, <2>1, <3>1 DEF MakersOf
    <3>3. Len(announced'[j]) = 1
      BY <1>1, <2>1, <2>3, <3>1, ExportStatements
    <3> QED
      BY <1>2, <2>1, <2>3, <3>1, <3>2, <3>3
      DEF OneMaker, ToldOnce, WorkIsDone, Created, LeftToWorkers, DownloadExport
  <2> QED BY <2>2, <2>3
<1>10. CASE CreateAsyncExport(r)
  <2>1. /\ k \in Exports /\ ~Created(k)
        /\ req' = [req EXCEPT ![r].pc = "enqueue"]
        /\ UNCHANGED <<announced, unqueued>>
        /\ \A i \in Exports \ {k} : export'[i] = export[i]
        /\ export'[k].st = "queued" /\ export'[k].path = export[k].path
    BY <1>1, <1>4, <1>10 DEF CreateAsyncExport, InsertExport, Goto, Become, At, ExportRow
  <2>2. req'[r].pc = "enqueue"
    BY <1>1, <1>4, <2>1 DEF ExportRequest
  <2>3. CASE k # j
    BY <1>3, <2>1, <2>2, <2>3
  <2>4. CASE k = j
    <3>1. ExportersOn(j) = {} /\ MakersOf(j) = {} /\ j \notin unqueued
          /\ announced[j] = <<>> /\ export[j].path = "null"
      BY <1>1, <2>1, <2>4 DEF OneMaker, ToldOnce, Created, LeftToWorkers
    <3>2. MakersOf(j)' = {}
      BY <1>2, <2>2, <3>1 DEF MakersOf
    <3> QED
      BY <1>2, <2>1, <2>4, <3>1, <3>2
      DEF OneMaker, ToldOnce, WorkIsDone, Created, LeftToWorkers, DownloadExport
  <2> QED BY <2>3, <2>4
<1>11. CASE EnqueueExport(r)
  <2>1. /\ k \in Exports /\ req'[r].pc \in {"idle", "unqueue"}
        /\ UNCHANGED <<export, announced>>
        /\ unqueued' \in {unqueued, unqueued \cup {k}}
        /\ LeftToWorkers(k)
        /\ unqueued' # unqueued => faults' # 0
    BY <1>1, <1>4, <1>11, RequestBoundsAssumption
    DEF EnqueueExport, Finish, Become, Stumble, At, exportVars, ExportRequest, ExportRequestsCarry
  <2>2. CASE k # j \/ unqueued' = unqueued
    BY <1>3, <2>1, <2>2
  <2>3. CASE k = j /\ unqueued' # unqueued
    <3>1. MakersOf(j) = {}
      BY <1>1, <2>1, <2>3 DEF OneMaker, LeftToWorkers
    <3>2. MakersOf(j)' = {}
      BY <1>2, <2>1, <3>1 DEF MakersOf
    <3> QED
      BY <1>1, <1>2, <2>1, <2>3, <3>1, <3>2
      DEF OneMaker, ToldOnce, WorkIsDone, Created, LeftToWorkers, DownloadExport
  <2> QED BY <2>1, <2>2, <2>3
<1>12. CASE UnqueueExport(r)
  <2>1. /\ k \in Exports /\ req'[r] = Idle /\ k \in unqueued /\ faults # 0
        /\ UNCHANGED unqueued
        /\ \A i \in Exports \ {k} : export'[i] = export[i] /\ announced'[i] = announced[i]
        /\ export'[k].st \in {export[k].st, "failed"} /\ export'[k].path = export[k].path
    BY <1>1, <1>4, <1>12, ExportStatements
    DEF UnqueueExport, Finish, Become, Stumble, At, ExportRequestsCarry
  <2>2. CASE k # j
    BY <1>1, <1>3, <2>1, <2>2
  <2>3. CASE k = j
    <3>1. MakersOf(j) = {} /\ LeftToWorkers(j)
      BY <1>1, <2>1, <2>3 DEF OneMaker, ToldOnce, LeftToWorkers
    <3>2. MakersOf(j)' = {}
      BY <1>1, <1>2, <2>1, <3>1 DEF MakersOf
    <3> QED
      BY <1>1, <1>2, <2>1, <2>3, <3>1, <3>2
      DEF OneMaker, ToldOnce, WorkIsDone, Created, LeftToWorkers, DownloadExport
  <2> QED BY <2>2, <2>3
<1>13. CASE FindToCancel(r)
  BY <1>1, <1>3, <1>4, <1>13
  DEF FindToCancel, Goto, Finish, Become, At, exportVars, ExportRequest
<1>14. CASE CancelExport(r)
  <2>1. /\ k \in Exports /\ req'[r] = Idle /\ LeftToWorkers(k)
        /\ UNCHANGED <<announced, unqueued>>
        /\ \A i \in Exports \ {k} : export'[i] = export[i]
        /\ export'[k].st = "failed" /\ export'[k].path = export[k].path
    BY <1>1, <1>4, <1>14, ExportStatements
    DEF CancelExport, Finish, Become, At, ExportRequestsCarry
  <2>2. CASE k # j
    BY <1>1, <1>3, <2>1, <2>2
  <2>3. CASE k = j
    <3>1. MakersOf(j) = {}
      BY <1>1, <2>1, <2>3 DEF OneMaker, LeftToWorkers
    <3>2. MakersOf(j)' = {}
      BY <1>1, <1>2, <2>1, <3>1 DEF MakersOf
    <3> QED
      BY <1>1, <1>2, <2>1, <2>3, <3>1, <3>2
      DEF OneMaker, ToldOnce, WorkIsDone, Created, LeftToWorkers, DownloadExport
  <2> QED BY <2>2, <2>3
<1>15. CASE Abort(r) /\ UNCHANGED exportVars
  BY <1>1, <1>3, <1>15 DEF Abort, Stumble, exportVars
<1> QED
  BY <1>5, <1>6, <1>7, <1>8, <1>9, <1>10, <1>11, <1>12, <1>13, <1>14, <1>15

\* What is said of an export that nobody makes any longer.
LEMMA ToldExport ==
    ASSUME NEW j \in Exports, export'[j].st \in {"processing", "failed"},
           ExportersOn(j)' = {}, MakersOf(j)' = {},
           j \notin unqueued' => Len(announced'[j]) = 1
    PROVE  ToldOnce(j)'
<1>1. LeftToWorkers(j)' /\ Created(j)' /\ ~DownloadExport(j)' /\ export'[j].st # "queued"
  BY DEF LeftToWorkers, Created, DownloadExport
<1>2. ASSUME j \notin unqueued' PROVE Len(announced'[j]) <= 1
  <2> HIDE DEF ToldOnce
  <2>1. Len(announced'[j]) = 1
    BY <1>2
  <2> QED BY <2>1
<1> QED BY <1>1, <1>2 DEF ToldOnce

\* Each step of a worker keeps what is said of each export.
LEMMA ExporterSteps ==
    ASSUME ExportJobsInv, NEW w \in Exporters,
           \/ DequeueExport(w) \/ ClaimExport(w) \/ StreamToBuffer(w) \/ StoreFile(w)
           \/ RecordFile(w) \/ FailExport(w) \/ ExporterStops(w),
           NEW j \in Exports
    PROVE  OneMaker(j)' /\ ToldOnce(j)' /\ WorkIsDone(j)'
<1> DEFINE k == exporter[w].job
           Goal == OneMaker(j)' /\ ToldOnce(j)' /\ WorkIsDone(j)'
<1>1. /\ ExportJobsTypeOK
      /\ export \in [Exports -> ExportRow]
      /\ exporter \in [Exporters -> ExporterState]
      /\ announced \in [Exports -> Seq({"completed", "failed"})]
      /\ faults \in 0..MaxFaults
      /\ OneMaker(j) /\ ToldOnce(j) /\ WorkIsDone(j)
      /\ \A v \in Exporters : exporter[v].pc # "idle" <=> exporter[v].job \in Exports
      /\ faults = 0 => unqueued = {}
      /\ FreeExporter.pc = "idle" /\ FreeExporter.job \notin Exports
  BY ExportsAssumption
  DEF ExportJobsInv, ExportersHaveJobs, ExportJobsTypeOK, RequestsAre, ExporterAt, FreeExporter
<1>2. /\ UNCHANGED <<req, unqueued>> /\ MakersOf(j)' = MakersOf(j)
      /\ files \subseteq files' /\ (faults' = 0 => faults = 0)
      /\ \A v \in Exporters \ {w} : exporter'[v] = exporter[v]
  <2>1. UNCHANGED <<req, unqueued>> /\ files \subseteq files'
    BY DEF DequeueExport, ClaimExport, StreamToBuffer, StoreFile, RecordFile, FailExport,
        ExporterStops, ExporterFault, requestVars
  <2>2. faults' = 0 => faults = 0
    BY <1>1, RequestBoundsAssumption
    DEF DequeueExport, ClaimExport, StreamToBuffer, StoreFile, RecordFile, FailExport,
        ExporterStops, ExporterFault, requestVars
  <2>3. \A v \in Exporters \ {w} : exporter'[v] = exporter[v]
    BY <1>1
    DEF DequeueExport, ClaimExport, StreamToBuffer, StoreFile, RecordFile, FailExport,
        ExporterStops, ExporterGoes, ExporterEnds
  <2> QED BY <2>1, <2>2, <2>3 DEF MakersOf
<1>3. ASSUME export'[j] = export[j], announced'[j] = announced[j],
             w \in ExportersOn(j) <=> exporter'[w].job = j /\ exporter'[w].pc # "claim",
             w \in ExportersOn(j) /\ exporter'[w].pc = "path" => j \in files'
      PROVE  Goal
  <2>1. ExportersOn(j)' = ExportersOn(j)
    <3>1. \A v \in Exporters \ {w} : v \in ExportersOn(j)' <=> v \in ExportersOn(j)
      BY <1>2 DEF ExportersOn
    <3>2. w \in ExportersOn(j)' <=> w \in ExportersOn(j)
      BY <1>3 DEF ExportersOn
    <3>3. ExportersOn(j)' \subseteq Exporters /\ ExportersOn(j) \subseteq Exporters
      BY DEF ExportersOn
    <3> QED BY <3>1, <3>2, <3>3
  <2>2. \A v \in ExportersOn(j) : exporter'[v].pc = "path" =>
            exporter[v].pc = "path" \/ j \in files'
    BY <1>2, <1>3 DEF ExportersOn
  <2> QED BY <1>1, <1>2, <1>3, <2>1, <2>2, UntouchedExport
<1>4. CASE DequeueExport(w)
  <2>1. /\ exporter[w].pc = "idle" /\ exporter'[w].pc = "claim"
        /\ UNCHANGED <<export, announced, files>>
    BY <1>1, <1>4 DEF DequeueExport, ExporterAt
  <2>2. w \notin ExportersOn(j)
    BY <1>1, <2>1 DEF ExportersOn
  <2> QED BY <1>3, <2>1, <2>2
<1>5. CASE ClaimExport(w)
  <2>1. k \in Exports /\ exporter[w].pc = "claim" /\ UNCHANGED <<announced, files>>
    BY <1>1, <1>5 DEF ClaimExport, ExporterAt
  <2>2. CASE export[k].st # "queued"
    BY <1>1, <1>3, <1>5, <2>1, <2>2 DEF ClaimExport, ClaimExportJob, ExporterEnds, ExportersOn
  <2>3. CASE export[k].st = "queued"
    <3>1. /\ exporter' = [exporter EXCEPT ![w].pc = "stream"]
          /\ UpdateExport(k, "processing")
          /\ \A i \in Exports \ {k} : export'[i] = export[i]
          /\ export'[k].st = "processing" /\ export'[k].path = export[k].path
      BY <1>1, <1>5, <2>1, <2>3, ExportStatements
      DEF ClaimExport, ClaimExportJob, ExporterGoes
    <3>2. exporter'[w].pc = "stream" /\ exporter'[w].job = k
      BY <1>1, <3>1 DEF ExporterState
    <3>3. CASE k # j
      BY <1>3, <2>1, <3>1, <3>2, <3>3 DEF ExportersOn
    <3>4. CASE k = j
      <4>1. ExportersOn(j) = {} /\ MakersOf(j) = {} /\ (j \notin unqueued => announced[j] = <<>>)
        BY <1>1, <2>3, <3>4 DEF OneMaker, ToldOnce
      <4>2. ExportersOn(j)' = {w}
        BY <1>2, <3>2, <3>4, <4>1 DEF ExportersOn
      <4> QED
        BY <1>1, <1>2, <2>1, <3>1, <3>2, <3>4, <4>1, <4>2
        DEF OneMaker, ToldOnce, WorkIsDone, Created, LeftToWorkers, DownloadExport
    <3> QED BY <3>3, <3>4
  <2> QED BY <2>2, <2>3
<1>6. CASE StreamToBuffer(w)
  <2>1. /\ exporter[w].pc = "stream" /\ exporter'[w].pc \in {"store", "fail"}
        /\ exporter'[w].job = k /\ UNCHANGED <<export, announced>>
    BY <1>1, <1>6 DEF StreamToBuffer, ExporterAt, ExporterGoes, ExporterState
  <2> QED BY <1>3, <2>1 DEF ExportersOn
<1>7. CASE StoreFile(w)
  <2>1. /\ exporter[w].pc = "store" /\ exporter'[w].pc \in {"path", "fail"}
        /\ exporter'[w].pc = "path" => k \in files'
        /\ exporter'[w].job = k /\ UNCHANGED <<export, announced>>
    BY <1>1, <1>7 DEF StoreFile, ExporterAt, ExporterGoes, ExporterState
  <2> QED BY <1>3, <2>1 DEF ExportersOn
<1>8. CASE RecordFile(w)
  <2>1. /\ k \in Exports /\ w \in ExportersOn(k) /\ exporter[w].pc = "path"
        /\ exporter'[w] = FreeExporter
        /\ \A i \in Exports \ {k} : export'[i] = export[i] /\ announced'[i] = announced[i]
        /\ export'[k].st = export[k].st
        /\ Announce(k, "completed")
    <3>1. /\ k \in Exports /\ w \in ExportersOn(k) /\ exporter[w].pc = "path"
          /\ exporter'[w] = FreeExporter /\ Announce(k, "completed")
          /\ UpdateFilePath(k, "stored") \/ UNCHANGED export
      BY <1>1, <1>8 DEF RecordFile, ExporterAt, ExporterEnds, ExportersOn
    <3> QED BY <1>1, <3>1, ExportStatements
  <2>2. CASE k # j
    BY <1>1, <1>3, <2>1, <2>2 DEF ExportersOn
  <2>3. CASE k = j
    <3>1. /\ ExportersOn(j) = {w} /\ j \in files /\ MakersOf(j) = {}
          /\ export[j].st \in {"processing", "failed"}
          /\ j \notin unqueued => announced[j] = <<>>
      BY <1>1, <2>1, <2>3 DEF OneMaker, ToldOnce, WorkIsDone
    <3>2. ExportersOn(j)' = {}
      BY <1>1, <1>2, <2>1, <3>1 DEF ExportersOn
    <3>3. j \notin unqueued => announced'[j] = <<"completed">> /\ Len(announced'[j]) = 1
      BY <1>1, <2>1, <2>3, <3>1, ExportStatements
    <3>4. OneMaker(j)'
      BY <1>2, <2>1, <2>3, <3>1, <3>2 DEF OneMaker
    <3>5. ToldOnce(j)'
      <4>1. export'[j].st \in {"processing", "failed"} /\ MakersOf(j)' = {}
        BY <1>2, <2>1, <2>3, <3>1
      <4> QED BY <1>2, <3>2, <3>3, <4>1, ToldExport
    <3>6. WorkIsDone(j)'
      BY <1>1, <1>2, <2>1, <2>3, <3>1, <3>2, <3>3 DEF WorkIsDone
    <3> QED BY <3>4, <3>5, <3>6
  <2> QED BY <2>2, <2>3
<1>9. CASE FailExport(w)
  <2>1. /\ k \in Exports /\ w \in ExportersOn(k)
        /\ exporter'[w] = FreeExporter
        /\ \A i \in Exports \ {k} : export'[i] = export[i] /\ announced'[i] = announced[i]
        /\ export'[k].st = "failed" \/ (export'[k].st = export[k].st /\ faults' # 0)
        /\ Announce(k, "failed")
    <3>1. /\ UpdateExport(k, "failed") \/ (UNCHANGED export /\ ExporterFault)
          /\ Announce(k, "failed") /\ ExporterEnds(w) /\ exporter[w].pc = "fail"
      BY <1>9 DEF FailExport, ExporterAt
    <3>3. k \in Exports /\ w \in ExportersOn(k) /\ exporter'[w] = FreeExporter
      BY <1>1, <3>1 DEF ExporterEnds, ExportersOn
    <3>2. ExporterFault => faults' # 0
      BY <1>1, RequestBoundsAssumption DEF ExporterFault
    <3> QED BY <1>1, <3>1, <3>2, <3>3, ExportStatements
  <2>2. CASE k # j
    BY <1>1, <1>3, <2>1, <2>2 DEF ExportersOn
  <2>3. CASE k = j
    <3>1. /\ ExportersOn(j) = {w} /\ MakersOf(j) = {}
          /\ export[j].st \in {"processing", "failed"}
          /\ j \notin unqueued => announced[j] = <<>>
      BY <1>1, <2>1, <2>3 DEF OneMaker, ToldOnce
    <3>2. ExportersOn(j)' = {}
      BY <1>1, <1>2, <2>1, <3>1 DEF ExportersOn
    <3>3. j \notin unqueued => Len(announced'[j]) = 1
      BY <1>1, <2>1, <2>3, <3>1, ExportStatements
    <3>4. OneMaker(j)'
      BY <1>2, <2>1, <2>3, <3>1, <3>2 DEF OneMaker
    <3>5. ToldOnce(j)'
      <4>1. export'[j].st \in {"processing", "failed"} /\ MakersOf(j)' = {}
        BY <1>2, <2>1, <2>3, <3>1
      <4> QED BY <1>2, <3>2, <3>3, <4>1, ToldExport
    <3>6. WorkIsDone(j)'
      BY <1>1, <1>2, <2>1, <2>3, <3>1, <3>2, <3>3 DEF WorkIsDone
    <3> QED BY <3>4, <3>5, <3>6
  <2> QED BY <2>2, <2>3
<1>10. CASE ExporterStops(w)
  <2>1. exporter'[w] = FreeExporter /\ UNCHANGED <<export, announced>> /\ faults' # 0
    BY <1>1, <1>10, RequestBoundsAssumption DEF ExporterStops, ExporterEnds, ExporterFault
  <2>2. ExportersOn(j)' = ExportersOn(j) \ {w}
    BY <1>1, <1>2, <2>1 DEF ExportersOn
  <2>3. OneMaker(j)'
    BY <1>1, <1>2, <2>1, <2>2 DEF OneMaker
  <2>4. ToldOnce(j)'
    BY <1>1, <1>2, <2>1, <2>2 DEF ToldOnce, Created, LeftToWorkers, DownloadExport
  <2>5. WorkIsDone(j)'
    BY <1>1, <1>2, <2>1, <2>2 DEF WorkIsDone, ExportersOn
  <2> QED BY <2>3, <2>4, <2>5
<1> QED BY <1>4, <1>5, <1>6, <1>7, <1>8, <1>9, <1>10

\* An export that is left to the workers stays so, and a request that counts on it finds
\* it so.
LEMMA ExportsStayWithWorkers ==
    ASSUME ExportJobsInv, ExportJobsNext
    PROVE  ExportRequestsCarry'
<1>1. /\ ExportJobsTypeOK
      /\ export \in [Exports -> ExportRow]
      /\ req \in [Slots -> ExportRequest \cup {Idle}]
      /\ ExportRequestsCarry
      /\ \A s \in Slots : req[s].pc # "idle" => req[s] \in ExportRequest /\ req[s].job \in Exports
      /\ \A w \in Exporters : exporter[w].pc # "idle" => exporter[w].job \in Exports
      /\ Idle.pc = "idle"
  <2>1. req \in [Slots -> ExportRequest \cup {Idle}]
    BY DEF ExportJobsInv, ExportJobsTypeOK, RequestsAre
  <2>2. \A s \in Slots : req[s].pc # "idle" => req[s] \in ExportRequest
    BY <2>1 DEF Idle
  <2> QED
    BY <2>1, <2>2, ExportRequestsAreTyped
    DEF ExportJobsInv, ExportJobsTypeOK, Idle, ExportersHaveJobs, ExporterAt
<1>2. ASSUME NEW k \in Exports,
             \/ UNCHANGED export
             \/ \E st \in {"processing", "failed"} : UpdateExport(k, st)
             \/ \E path \in {"empty", "stored"} : UpdateFilePath(k, path)
             \/ \E st \in {"queued", "completed"} : InsertExport(k, st)
      PROVE  \A i \in Exports : LeftToWorkers(i) => LeftToWorkers(i)'
  <2>1. ASSUME NEW st \in {"queued", "completed"}, InsertExport(k, st)
        PROVE  \A i \in Exports : LeftToWorkers(i) => LeftToWorkers(i)'
    <3>1. ~LeftToWorkers(k) /\ \A i \in Exports \ {k} : export'[i] = export[i]
      BY <1>1, <2>1 DEF InsertExport, Created, LeftToWorkers
    <3> QED BY <3>1 DEF LeftToWorkers
  <2>2. CASE \E st \in {"processing", "failed"} : UpdateExport(k, st)
    BY <1>1, <2>2, ExportStatements DEF LeftToWorkers
  <2>3. CASE \E path \in {"empty", "stored"} : UpdateFilePath(k, path)
    BY <1>1, <2>3, ExportStatements DEF LeftToWorkers
  <2> QED BY <1>2, <2>1, <2>2, <2>3 DEF LeftToWorkers
<1>3. ASSUME UNCHANGED req, unqueued \subseteq unqueued',
             \A i \in Exports : LeftToWorkers(i) => LeftToWorkers(i)'
      PROVE  ExportRequestsCarry'
  BY <1>1, <1>3 DEF ExportRequestsCarry, LeftToWorkers, At
<1>4. ASSUME NEW w \in Exporters,
             \/ DequeueExport(w) \/ ClaimExport(w) \/ StreamToBuffer(w) \/ StoreFile(w)
             \/ RecordFile(w) \/ FailExport(w) \/ ExporterStops(w)
      PROVE  ExportRequestsCarry'
  <2>1. UNCHANGED <<req, unqueued>>
    BY <1>4
    DEF DequeueExport, ClaimExport, StreamToBuffer, StoreFile, RecordFile, FailExport,
        ExporterStops, ExporterFault, requestVars
  <2>2. UNCHANGED export
        \/ /\ exporter[w].job \in Exports
           /\ \/ \E st \in {"processing", "failed"} : UpdateExport(exporter[w].job, st)
              \/ \E path \in {"empty", "stored"} : UpdateFilePath(exporter[w].job, path)
    BY <1>1, <1>4
    DEF DequeueExport, ClaimExport, StreamToBuffer, StoreFile, RecordFile, FailExport,
        ExporterStops, ExporterAt
  <2>3. \A i \in Exports : LeftToWorkers(i) => LeftToWorkers(i)'
    BY <1>2, <2>2 DEF LeftToWorkers
  <2> QED BY <1>3, <2>1, <2>3
<1>5. ASSUME NEW r \in Slots,
             \/ \E j \in Exports : HandleCreateExport(r, j) \/ HandleCancelExport(r, j)
             \/ CreateSyncExport(r) \/ StreamExport(r) \/ SignExport(r) \/ UndoExport(r)
             \/ CreateAsyncExport(r) \/ EnqueueExport(r) \/ UnqueueExport(r)
             \/ FindToCancel(r) \/ CancelExport(r)
             \/ Abort(r) /\ UNCHANGED exportVars
      PROVE  ExportRequestsCarry'
  <2> DEFINE k == req[r].job
  <2>1. UNCHANGED export
        \/ /\ k \in Exports
           /\ \/ \E st \in {"processing", "failed"} : UpdateExport(k, st)
              \/ \E path \in {"empty", "stored"} : UpdateFilePath(k, path)
              \/ \E st \in {"queued", "completed"} : InsertExport(k, st)
    BY <1>1, <1>5
    DEF HandleCreateExport, HandleCancelExport, CreateSyncExport, StreamExport, SignExport,
        UndoExport, CreateAsyncExport, EnqueueExport, UnqueueExport, FindToCancel, CancelExport,
        At, exportVars
  <2>2. \A i \in Exports : LeftToWorkers(i) => LeftToWorkers(i)'
    BY <1>2, <2>1 DEF LeftToWorkers
  <2>3. unqueued \subseteq unqueued'
    BY <1>5
    DEF HandleCreateExport, HandleCancelExport, CreateSyncExport, StreamExport, SignExport,
        UndoExport, CreateAsyncExport, EnqueueExport, UnqueueExport, FindToCancel, CancelExport,
        exportVars
  <2>4. \A s \in Slots \ {r} : req'[s] = req[s]
    BY <1>1, <1>5
    DEF HandleCreateExport, HandleCancelExport, CreateSyncExport, StreamExport, SignExport,
        UndoExport, CreateAsyncExport, EnqueueExport, UnqueueExport, FindToCancel, CancelExport,
        Begin, Goto, Finish, Become, Stumble, Abort
  <2>5. /\ req'[r].pc \in {"enqueue", "unqueue", "cancel"}
                => export'[req'[r].job].st \in {"queued", "processing", "failed"}
        /\ req'[r].pc = "unqueue" => req'[r].job \in unqueued'
    <3>1. CASE \E j \in Exports : HandleCreateExport(r, j) \/ HandleCancelExport(r, j)
      BY <1>1, <3>1 DEF HandleCreateExport, HandleCancelExport, Begin
    <3>2. CASE CreateSyncExport(r) \/ StreamExport(r) \/ SignExport(r) \/ UndoExport(r)
               \/ UnqueueExport(r) \/ CancelExport(r) \/ Abort(r)
      <4>1. req'[r].pc \in {"idle", "stream", "sign", "undo"}
        BY <1>1, <3>2
        DEF CreateSyncExport, StreamExport, SignExport, UndoExport, UnqueueExport, CancelExport,
            Abort, Goto, Finish, Become, Stumble, ExportRequest, At
      <4> QED BY <4>1
    <3>3. CASE CreateAsyncExport(r)
      <4>1. k \in Exports /\ export'[k].st = "queued"
            /\ req'[r].pc = "enqueue" /\ req'[r].job = k
        BY <1>1, <3>3
        DEF CreateAsyncExport, InsertExport, Goto, Become, At, ExportRequest, ExportRow
      <4> QED BY <4>1 DEF LeftToWorkers
    <3>4. CASE EnqueueExport(r)
      <4>1. /\ k \in Exports /\ LeftToWorkers(k)
            /\ \/ req'[r].pc = "idle"
               \/ req'[r].pc = "unqueue" /\ req'[r].job = k /\ k \in unqueued'
        BY <1>1, <3>4
        DEF EnqueueExport, Finish, Become, Stumble, At, ExportRequest, ExportRequestsCarry
      <4> QED BY <2>2, <4>1 DEF LeftToWorkers
    <3>5. CASE FindToCancel(r)
      <4>1. /\ k \in Exports
            /\ \/ req'[r].pc = "idle"
               \/ req'[r].pc = "cancel" /\ req'[r].job = k /\ LeftToWorkers(k)
        BY <1>1, <3>5
        DEF FindToCancel, Goto, Finish, Become, At, ExportRequest, LeftToWorkers
      <4> QED BY <2>2, <4>1 DEF LeftToWorkers
    <3> QED BY <1>5, <3>1, <3>2, <3>3, <3>4, <3>5
  <2> QED BY <1>1, <2>2, <2>3, <2>4, <2>5 DEF ExportRequestsCarry, LeftToWorkers, At
<1> QED BY <1>4, <1>5 DEF ExportJobsNext

\* There is no export yet.
LEMMA ExportsStart == ExportJobsInit /\ RequestsInit => ExportJobsInv
<1> SUFFICES ASSUME ExportJobsInit, RequestsInit PROVE ExportJobsInv
  OBVIOUS
<1>1. [st |-> "none", path |-> "null", no |-> 0] \in ExportRow
  BY ExportsAssumption, FS_CardinalityType DEF ExportRow
<1>2. FreeExporter \in ExporterState /\ FreeExporter.pc = "idle"
      /\ FreeExporter.job \notin Exports
  BY ExportersAreTyped, ExportsAssumption DEF FreeExporter
<1>3. ExportJobsTypeOK
  BY <1>1, <1>2, RequestBoundsAssumption
  DEF ExportJobsInit, RequestsInit, ExportJobsTypeOK, RequestsAre
<1>4. /\ ExportersHaveJobs /\ ExportRequestsCarry /\ unqueued = {}
      /\ \A j \in Exports :
          /\ ExportersOn(j) = {} /\ MakersOf(j) = {}
          /\ export[j].st = "none" /\ export[j].path = "null" /\ announced[j] = <<>>
  BY <1>2
  DEF ExportJobsInit, RequestsInit, ExportersHaveJobs, ExportersOn, ExporterAt, MakersOf,
      ExportRequestsCarry, Idle, At
<1>5. \A j \in Exports : OneMaker(j) /\ ToldOnce(j) /\ WorkIsDone(j)
  BY <1>4 DEF OneMaker, ToldOnce, WorkIsDone, Created, DownloadExport
<1> QED BY <1>3, <1>4, <1>5 DEF ExportJobsInv

\* Every step of a request or a worker keeps the invariant.
LEMMA ExportSteps ==
    ExportJobsInv /\ [ExportJobsNext]_<<exportVars, requestVars>> => ExportJobsInv'
<1>1. ASSUME ExportJobsInv, ExportJobsNext PROVE ExportJobsInv'
  <2>1. \A j \in Exports : OneMaker(j)' /\ ToldOnce(j)' /\ WorkIsDone(j)'
    BY <1>1, ExportRequestSteps, ExporterSteps DEF ExportJobsNext
  <2> QED BY <1>1, <2>1, ExportTypes, ExportsStayWithWorkers DEF ExportJobsInv
<1>2. ASSUME ExportJobsInv, UNCHANGED <<exportVars, requestVars>> PROVE ExportJobsInv'
  BY <1>2
  DEF exportVars, requestVars, ExportJobsInv, ExportJobsTypeOK, RequestsAre, ExportersHaveJobs,
      OneMaker, ToldOnce, WorkIsDone, ExportRequestsCarry, ExportersOn, MakersOf, LeftToWorkers,
      Created, DownloadExport, ExporterAt, At
<1> QED BY <1>1, <1>2

\* However many workers poll the table and requests overlap: an export has one maker, its
\* outcome is announced once unless it could not be queued, what may be downloaded was
\* announced as completed (export_service.go, export_worker.go).
THEOREM ExportsAlwaysAccounted == ExportJobsSpec => []ExportsAccounted
<1>1. ExportJobsInv => ExportsAccounted
  <2> SUFFICES ASSUME ExportJobsInv, NEW j \in Exports
      PROVE  /\ j \notin unqueued => Len(announced[j]) <= 1
             /\ Cardinality(ExportersOn(j)) <= 1
             /\ DownloadExport(j) => announced[j] = <<"completed">>
    BY DEF ExportsAccounted, ExportersOn
  <2>1. OneMaker(j) /\ ToldOnce(j)
    BY DEF ExportJobsInv
  <2>2. Cardinality(ExportersOn(j)) <= 1
    BY <2>1, OneMember DEF OneMaker
  <2> QED BY <2>1, <2>2 DEF ToldOnce
<1> QED BY <1>1, ExportsStart, ExportSteps, PTL DEF ExportJobsSpec

-----------------------------------------------------------------------------
(* The audit log *)

\* What a sequence is after an element was appended, and after the first was taken.
LEMMA AuditSequences ==
    ASSUME NEW S, NEW s \in Seq(S)
    PROVE  /\ Len(s) \in Nat /\ DOMAIN s = 1..Len(s)
           /\ \A i \in 1..Len(s) : s[i] \in S
           /\ \A e \in S : /\ Append(s, e) \in Seq(S) /\ Len(Append(s, e)) = Len(s) + 1
                           /\ Append(s, e)[Len(s) + 1] = e
                           /\ \A i \in 1..Len(s) : Append(s, e)[i] = s[i]
           /\ s # <<>> => /\ Tail(s) \in Seq(S) /\ Len(Tail(s)) = Len(s) - 1
                          /\ Len(s) >= 1 /\ Head(s) = s[1] /\ Head(s) \in S
                          /\ \A i \in 1..Len(Tail(s)) : Tail(s)[i] = s[i + 1]
OBVIOUS

\* The promises, with the domains written out.
AuditFacts ==
    /\ spawned \subseteq 1..answered
    /\ \A k \in 1..Len(accepted) : accepted[k] \in (1..answered) \ spawned
    /\ \A k, l \in 1..Len(accepted) : accepted[k] = accepted[l] => k = l
    /\ Len(logChan) <= Len(accepted)
    /\ \A i \in 1..Len(logChan) : logChan[i] = accepted[Taken + i]
    /\ worker = "ended" => \A i \in 1..Len(logChan) : logChan[i] \in late

PlaceFacts(place) ==
    /\ place \in [1..Len(inserted) -> 1..Taken]
    /\ \A i \in 1..Len(inserted) : inserted[i] = accepted[place[i]]
    /\ \A i, j \in 1..Len(inserted) : i < j => place[i] < place[j]
    /\ \A k \in 1..Taken :
        accepted[k] \in failed <=> \A i \in 1..Len(inserted) : place[i] # k

RowsAreThere == \E place : PlaceFacts(place)

LEMMA AuditFactsHold ==
    AuditTypeOK => (EntriesAreSentOnce /\ AcceptedIsWritten
                    <=> AuditFacts /\ RowsAreThere)
<1> SUFFICES ASSUME AuditTypeOK
    PROVE  EntriesAreSentOnce /\ AcceptedIsWritten
           <=> AuditFacts /\ RowsAreThere
  OBVIOUS
<1>1. DOMAIN accepted = 1..Len(accepted) /\ DOMAIN logChan = 1..Len(logChan)
      /\ DOMAIN inserted = 1..Len(inserted)
  BY DEF AuditTypeOK
<1>2. EntriesAreSentOnce
      <=> /\ spawned \subseteq 1..answered
          /\ \A k \in 1..Len(accepted) : accepted[k] \in (1..answered) \ spawned
          /\ \A k, l \in 1..Len(accepted) : accepted[k] = accepted[l] => k = l
  BY <1>1 DEF EntriesAreSentOnce, ToSet
<1>3. (ToSet(logChan) \subseteq late) <=> \A i \in 1..Len(logChan) : logChan[i] \in late
  BY <1>1 DEF ToSet
<1>4. (\E place \in [DOMAIN inserted -> 1..Taken] : RowsAreAt(place))
      <=> RowsAreThere
  BY <1>1 DEF RowsAreAt, PlaceFacts, RowsAreThere
<1> QED BY <1>1, <1>2, <1>3, <1>4 DEF AcceptedIsWritten, AuditFacts

\* Each step keeps the types.
LEMMA AuditTypes == AuditTypeOK /\ EntriesAreSentOnce /\ AuditNext => AuditTypeOK'
<1> SUFFICES ASSUME AuditTypeOK, EntriesAreSentOnce, AuditNext PROVE AuditTypeOK'
  OBVIOUS
<1>0. BufferSize \in Nat /\ Len(logChan) \in Nat
  BY AuditAssumption DEF AuditTypeOK
<1>5. \A x \in Entries : /\ Append(inserted, x) \in Seq(Entries)
                          /\ Append(accepted, x) \in Seq(Entries)
                          /\ Append(logChan, x) \in Seq(Entries)
                          /\ Len(Append(logChan, x)) = Len(logChan) + 1
  BY AuditSequences DEF AuditTypeOK
<1>1. CASE Audit
  <2>1. answered + 1 \in Entries /\ answered + 1 \in 0..MaxEntries
    BY <1>1, AuditAssumption DEF AuditTypeOK, Audit, Entries
  <2> QED BY <1>1, <2>1 DEF AuditTypeOK, Audit
<1>2. ASSUME ProcessLog PROVE AuditTypeOK'
  <2>1. /\ Tail(logChan) \in Seq(Entries) /\ Len(Tail(logChan)) <= BufferSize
        /\ Head(logChan) \in Entries
    BY <1>0, <1>2, AuditSequences DEF AuditTypeOK, ProcessLog
  <2>2. inserted' \in Seq(Entries) /\ failed' \subseteq Entries
    BY <1>2, <1>5, <2>1 DEF AuditTypeOK, ProcessLog, Insert
  <2> QED BY <1>2, <2>1, <2>2 DEF AuditTypeOK, ProcessLog
<1>3. CASE Drain \/ EndWorker \/ Shutdown
  BY <1>3 DEF AuditTypeOK, Drain, EndWorker, Shutdown
<1>4. ASSUME NEW e \in Entries, LogAction(e) PROVE AuditTypeOK'
  <2>1. CASE Len(logChan) < BufferSize
    <3>1. /\ logChan' \in Seq(Entries) /\ Len(logChan') = Len(logChan) + 1
          /\ accepted' \in Seq(Entries)
      BY <1>4, <1>5, <2>1 DEF LogAction
    <3>2. Len(logChan') <= BufferSize
      BY <1>0, <2>1, <3>1
    <3> QED BY <1>4, <2>1, <3>1, <3>2 DEF AuditTypeOK, LogAction
  <2>2. CASE ~(Len(logChan) < BufferSize)
    BY <1>4, <2>2 DEF AuditTypeOK, LogAction
  <2> QED BY <2>1, <2>2
<1> QED BY <1>1, <1>2, <1>3, <1>4 DEF AuditNext

\* The send of a goroutine: the entry is the last accepted, or it is dropped.
LEMMA AuditSends ==
    ASSUME AuditInv, AuditTypeOK', NEW e \in Entries, LogAction(e)
    PROVE  AuditInv'
<1>1. AuditFacts /\ EndsWhenDone /\ FailedWereTaken
  BY AuditFactsHold DEF AuditInv
<1>2. PICK place : PlaceFacts(place)
  BY AuditFactsHold DEF AuditInv, RowsAreThere
<1>3. /\ answered \in Nat /\ Len(accepted) \in Nat /\ Len(logChan) \in Nat
      /\ e \in spawned /\ spawned' = spawned \ {e}
      /\ answered' = answered /\ inserted' = inserted /\ failed' = failed
      /\ done' = done /\ worker' = worker
  BY DEF LogAction, AuditInv, AuditTypeOK
<1>4. CASE Len(logChan) < BufferSize
  <2>1. /\ Len(accepted') = Len(accepted) + 1 /\ accepted'[Len(accepted) + 1] = e
        /\ \A i \in 1..Len(accepted) : accepted'[i] = accepted[i]
        /\ Len(logChan') = Len(logChan) + 1 /\ logChan'[Len(logChan) + 1] = e
        /\ \A i \in 1..Len(logChan) : logChan'[i] = logChan[i]
    <3>1. /\ accepted' = Append(accepted, e) /\ logChan' = Append(logChan, e)
          /\ accepted \in Seq(Entries) /\ logChan \in Seq(Entries)
      BY <1>4 DEF LogAction, AuditInv, AuditTypeOK
    <3> QED BY <3>1, AuditSequences
  <2>2. Taken' = Taken /\ Taken \in Nat
    BY <1>1, <1>3, <2>1 DEF Taken, AuditFacts
  <2>3. late \subseteq late' /\ (done => e \in late')
    BY <1>4 DEF LogAction
  <2>4. AuditFacts'
    <3>1. \A k \in 1..(Len(accepted) + 1) : accepted'[k] \in (1..answered) \ (spawned \ {e})
      <4>1. \A k \in 1..Len(accepted) : accepted'[k] \in (1..answered) \ (spawned \ {e})
        BY <1>1, <2>1 DEF AuditFacts
      <4>2. accepted'[Len(accepted) + 1] \in (1..answered) \ (spawned \ {e})
        BY <1>1, <1>3, <2>1 DEF AuditFacts
      <4> QED BY <1>3, <4>1, <4>2
    <3>2. \A k, l \in 1..(Len(accepted) + 1) : accepted'[k] = accepted'[l] => k = l
      <4>1. \A k \in 1..Len(accepted) : accepted'[k] # e
        BY <1>1, <1>3, <2>1 DEF AuditFacts
      <4>2. \A k \in 1..(Len(accepted) + 1) : k \in 1..Len(accepted) \/ k = Len(accepted) + 1
        BY <1>3
      <4>3. \A k, l \in 1..Len(accepted) : accepted'[k] = accepted'[l] => k = l
        BY <1>1, <2>1 DEF AuditFacts
      <4> QED BY <2>1, <4>1, <4>2, <4>3
    <3>3. \A i \in 1..(Len(logChan) + 1) : logChan'[i] = accepted'[Taken + i]
      <4>1. Taken + (Len(logChan) + 1) = Len(accepted) + 1
        BY <1>3 DEF Taken
      <4>2. \A i \in 1..Len(logChan) :
                Taken + i \in 1..Len(accepted) /\ logChan[i] = accepted[Taken + i]
        BY <1>1, <1>3, <2>2, <4>1 DEF AuditFacts
      <4> QED BY <1>3, <2>1, <4>1, <4>2
    <3>4. worker = "ended" => \A i \in 1..(Len(logChan) + 1) : logChan'[i] \in late'
      <4>1. \A i \in 1..(Len(logChan) + 1) : i \in 1..Len(logChan) \/ i = Len(logChan) + 1
        BY <1>3
      <4>2. ASSUME worker = "ended" PROVE \A i \in 1..Len(logChan) : logChan'[i] \in late'
        BY <1>1, <2>1, <2>3, <4>2 DEF AuditFacts
      <4>3. worker = "ended" => logChan'[Len(logChan) + 1] \in late'
        BY <1>1, <2>1, <2>3 DEF EndsWhenDone
      <4> QED BY <4>1, <4>2, <4>3
    <3> QED BY <1>1, <1>3, <2>1, <2>2, <3>1, <3>2, <3>3, <3>4 DEF AuditFacts
  <2>5. PlaceFacts(place)'
    <3>1. \A k \in 1..Taken : k \in 1..Len(accepted)
      BY <1>1, <1>3 DEF AuditFacts, Taken
    <3> QED BY <1>2, <1>3, <2>1, <2>2, <3>1 DEF PlaceFacts
  <2>6. FailedWereTaken'
    BY <1>1, <1>3, <2>1, <2>2 DEF FailedWereTaken, AuditFacts, Taken
  <2>7. RowsAreThere' /\ EndsWhenDone'
    BY <1>1, <1>3, <2>5 DEF RowsAreThere, EndsWhenDone
  <2> QED BY <2>4, <2>6, <2>7, AuditFactsHold, PTL DEF AuditInv
<1>5. CASE ~(Len(logChan) < BufferSize)
  <2>1. logChan' = logChan /\ accepted' = accepted /\ late' = late
    BY <1>5 DEF LogAction
  <2>2. Taken' = Taken
    BY <2>1 DEF Taken
  <2>3. AuditFacts' /\ FailedWereTaken' /\ EndsWhenDone'
    BY <1>1, <1>3, <2>1, <2>2 DEF AuditFacts, FailedWereTaken, EndsWhenDone
  <2>4. PlaceFacts(place)'
    BY <1>2, <1>3, <2>1, <2>2 DEF PlaceFacts
  <2>5. RowsAreThere'
    BY <2>4 DEF RowsAreThere
  <2> QED BY <2>3, <2>5, AuditFactsHold, PTL DEF AuditInv
<1> QED BY <1>4, <1>5

\* The worker takes an entry and inserts it, or the insert fails.
LEMMA AuditInserts ==
    ASSUME AuditInv, AuditTypeOK', ProcessLog
    PROVE  AuditInv'
<1>1. AuditFacts /\ EndsWhenDone /\ FailedWereTaken
  BY AuditFactsHold DEF AuditInv
<1>2. PICK place : PlaceFacts(place)
  BY AuditFactsHold DEF AuditInv, RowsAreThere
<1> DEFINE e == accepted[Taken + 1]
<1>3. /\ answered \in Nat /\ Len(accepted) \in Nat /\ Len(logChan) \in Nat
      /\ Len(inserted) \in Nat
      /\ spawned' = spawned /\ answered' = answered /\ accepted' = accepted
      /\ late' = late /\ done' = done /\ worker' = worker /\ worker # "ended"
  BY DEF ProcessLog, AuditInv, AuditTypeOK
<1>4. /\ Len(logChan') = Len(logChan) - 1 /\ Len(logChan) >= 1
      /\ Head(logChan) = logChan[1]
      /\ \A i \in 1..(Len(logChan) - 1) : logChan'[i] = logChan[i + 1]
  BY AuditSequences DEF ProcessLog, AuditInv, AuditTypeOK
<1>5. Taken' = Taken + 1 /\ Taken \in Nat /\ Taken + 1 \in 1..Len(accepted)
  BY <1>1, <1>3, <1>4 DEF Taken, AuditFacts
<1>6. PICK x : x = e
  OBVIOUS
<1>7. Head(logChan) = x
  BY <1>1, <1>4, <1>6 DEF AuditFacts
<1>8. x \notin failed /\ \A k \in 1..Taken : accepted[k] # x
  <2>1. \A k \in 1..Taken : k \in 1..Len(accepted) /\ k # Taken + 1
    BY <1>3, <1>5
  <2> QED BY <1>1, <1>5, <1>6, <2>1 DEF FailedWereTaken, AuditFacts
<1>9. AuditFacts'
  <2>1. \A i \in 1..(Len(logChan) - 1) : logChan'[i] = accepted[(Taken + 1) + i]
    BY <1>1, <1>3, <1>4, <1>5 DEF AuditFacts
  <2> QED BY <1>1, <1>3, <1>4, <1>5, <2>1 DEF AuditFacts
<1>10. CASE inserted' = Append(inserted, Head(logChan)) /\ UNCHANGED failed
  <2>1. /\ Len(inserted') = Len(inserted) + 1 /\ inserted'[Len(inserted) + 1] = x
        /\ \A i \in 1..Len(inserted) : inserted'[i] = inserted[i]
        /\ failed' = failed
    BY <1>4, <1>7, <1>10, AuditSequences DEF AuditInv, AuditTypeOK, ProcessLog
  <2>2. PICK further : further = [i \in 1..(Len(inserted) + 1) |->
                                    IF i = Len(inserted) + 1 THEN Taken + 1 ELSE place[i]]
    OBVIOUS
  <2>3. further[Len(inserted) + 1] = Taken + 1
        /\ \A i \in 1..Len(inserted) : further[i] = place[i] /\ place[i] \in 1..Taken
    BY <1>2, <1>3, <2>2 DEF PlaceFacts
  <2>4. further \in [1..(Len(inserted) + 1) -> 1..(Taken + 1)]
    <3>1. \A i \in 1..(Len(inserted) + 1) :
              (IF i = Len(inserted) + 1 THEN Taken + 1 ELSE place[i]) \in 1..(Taken + 1)
      BY <1>3, <1>5, <2>3
    <3> QED BY <2>2, <3>1
  <2>5. \A i \in 1..(Len(inserted) + 1) : inserted'[i] = accepted[further[i]]
    BY <1>2, <1>3, <1>6, <2>1, <2>3 DEF PlaceFacts
  <2>6. ASSUME NEW i \in 1..(Len(inserted) + 1), NEW j \in 1..(Len(inserted) + 1), i < j
        PROVE  further[i] < further[j]
    <3>1. i \in 1..Len(inserted) /\ further[i] = place[i] /\ place[i] \in 1..Taken
      BY <1>3, <2>3, <2>6
    <3>2. CASE j = Len(inserted) + 1
      BY <1>5, <2>3, <3>1, <3>2
    <3>3. CASE j \in 1..Len(inserted)
      BY <1>2, <2>3, <2>6, <3>1, <3>3 DEF PlaceFacts
    <3> QED BY <1>3, <3>2, <3>3
  <2>7. \A k \in 1..(Taken + 1) :
            accepted[k] \in failed <=> \A i \in 1..(Len(inserted) + 1) : further[i] # k
    <3> SUFFICES ASSUME NEW k \in 1..(Taken + 1)
        PROVE  accepted[k] \in failed <=> \A i \in 1..(Len(inserted) + 1) : further[i] # k
      OBVIOUS
    <3>1. CASE k = Taken + 1
      <4>1. Len(inserted) + 1 \in 1..(Len(inserted) + 1)
        BY <1>3
      <4> QED BY <1>6, <1>8, <2>3, <3>1, <4>1
    <3>2. CASE k \in 1..Taken
      <4>1. accepted[k] \in failed <=> \A i \in 1..Len(inserted) : place[i] # k
        BY <1>2, <3>2 DEF PlaceFacts
      <4>2. \A i \in 1..(Len(inserted) + 1) :
                further[i] # k <=> (i \in 1..Len(inserted) => place[i] # k)
        BY <1>3, <1>5, <2>3, <3>2
      <4>3. 1..Len(inserted) \subseteq 1..(Len(inserted) + 1)
        BY <1>3
      <4> QED BY <4>1, <4>2, <4>3
    <3> QED BY <1>5, <3>1, <3>2
  <2>8. PlaceFacts(further)'
    BY <1>3, <1>5, <2>1, <2>4, <2>5, <2>6, <2>7 DEF PlaceFacts
  <2>9. FailedWereTaken'
    BY <1>1, <1>3, <1>5, <2>1 DEF FailedWereTaken
  <2>10. RowsAreThere' /\ EndsWhenDone'
    BY <1>1, <1>3, <2>8 DEF RowsAreThere, EndsWhenDone
  <2> QED BY <1>9, <2>9, <2>10, AuditFactsHold, PTL DEF AuditInv
<1>11. CASE failed' = failed \cup {Head(logChan)} /\ UNCHANGED inserted
  <2>1. failed' = failed \cup {x} /\ inserted' = inserted
    BY <1>7, <1>11
  <2>2. \A k \in 1..(Taken + 1) :
            accepted[k] \in failed' <=> \A i \in 1..Len(inserted) : place[i] # k
    <3> SUFFICES ASSUME NEW k \in 1..(Taken + 1)
        PROVE  accepted[k] \in failed' <=> \A i \in 1..Len(inserted) : place[i] # k
      OBVIOUS
    <3>1. CASE k = Taken + 1
      BY <1>2, <1>3, <1>5, <1>6, <2>1, <3>1 DEF PlaceFacts
    <3>2. CASE k \in 1..Taken
      BY <1>2, <1>8, <2>1, <3>2 DEF PlaceFacts
    <3> QED BY <1>5, <3>1, <3>2
  <2>3. place \in [1..Len(inserted) -> 1..(Taken + 1)]
    BY <1>2, <1>5 DEF PlaceFacts
  <2>4. PlaceFacts(place)'
    BY <1>2, <1>3, <1>5, <2>1, <2>2, <2>3 DEF PlaceFacts
  <2>5. FailedWereTaken'
    BY <1>1, <1>3, <1>5, <1>6, <2>1 DEF FailedWereTaken
  <2>6. RowsAreThere' /\ EndsWhenDone'
    BY <1>1, <1>3, <2>4 DEF RowsAreThere, EndsWhenDone
  <2> QED BY <1>9, <2>5, <2>6, AuditFactsHold, PTL DEF AuditInv
<1> QED BY <1>10, <1>11 DEF ProcessLog, Insert

\* Every step of the audit log keeps the invariant.
LEMMA AuditSteps == AuditInv /\ [AuditNext]_auditVars => AuditInv'
<1>1. ASSUME AuditInv, AuditNext PROVE AuditInv'
  <2>1. AuditTypeOK'
    BY <1>1, AuditTypes DEF AuditInv
  <2>2. AuditFacts /\ RowsAreThere /\ FailedWereTaken /\ EndsWhenDone
    BY <1>1, AuditFactsHold DEF AuditInv
  <2>3. CASE Audit
    <3>1. /\ answered' = answered + 1 /\ spawned' = spawned \cup {answered + 1}
          /\ answered \in Nat
          /\ UNCHANGED <<logChan, accepted, inserted, failed, late, done, worker>>
      BY <1>1, <2>3 DEF Audit, AuditInv, AuditTypeOK
    <3>2. Taken' = Taken
      BY <3>1 DEF Taken
    <3>3. AuditFacts'
      BY <2>2, <3>1, <3>2 DEF AuditFacts
    <3>4. RowsAreThere' /\ FailedWereTaken' /\ EndsWhenDone'
      BY <2>2, <3>1, <3>2 DEF RowsAreThere, PlaceFacts, FailedWereTaken, EndsWhenDone
    <3> QED BY <2>1, <3>3, <3>4, AuditFactsHold, PTL DEF AuditInv
  <2>4. CASE Drain \/ EndWorker \/ Shutdown
    <3>1. UNCHANGED <<answered, spawned, logChan, accepted, inserted, failed, late>>
      BY <2>4 DEF Drain, EndWorker, Shutdown
    <3>2. Taken' = Taken
      BY <3>1 DEF Taken
    <3>3. EndsWhenDone'
      BY <2>2, <2>4 DEF Drain, EndWorker, Shutdown, EndsWhenDone
    <3>4. worker' = "ended" => \A i \in 1..Len(logChan) : logChan[i] \in late
      BY <2>2, <2>4 DEF Drain, EndWorker, Shutdown, Drained, AuditFacts
    <3>5. AuditFacts' /\ RowsAreThere' /\ FailedWereTaken'
      BY <2>2, <3>1, <3>2, <3>4 DEF AuditFacts, RowsAreThere, PlaceFacts, FailedWereTaken
    <3> QED BY <2>1, <3>3, <3>5, AuditFactsHold, PTL DEF AuditInv
  <2> QED BY <1>1, <2>1, <2>3, <2>4, AuditSends, AuditInserts DEF AuditNext
<1>2. ASSUME AuditInv, UNCHANGED auditVars PROVE AuditInv'
  <2>1. AuditTypeOK' /\ EntriesAreSentOnce' /\ EndsWhenDone'
    BY <1>2 DEF auditVars, AuditInv, AuditTypeOK, EntriesAreSentOnce, EndsWhenDone, ToSet
  <2>2. Taken' = Taken
    BY <1>2 DEF auditVars, Taken
  <2>3. FailedWereTaken' /\ AcceptedIsWritten'
    BY <1>2, <2>2 DEF auditVars, AuditInv, FailedWereTaken, AcceptedIsWritten, RowsAreAt, ToSet
  <2> QED BY <2>1, <2>3 DEF AuditInv
<1> QED BY <1>1, <1>2

\* Nothing is logged yet.
LEMMA AuditStarts == AuditInit => AuditInv
<1> SUFFICES ASSUME AuditInit PROVE AuditInv
  OBVIOUS
<1>1. AuditTypeOK
  <2>1. BufferSize \in Nat /\ MaxEntries \in Nat
    BY AuditAssumption
  <2>2. <<>> \in Seq(Entries) /\ Len(<<>>) = 0
    OBVIOUS
  <2>3. /\ logChan \in Seq(Entries) /\ Len(logChan) = 0
        /\ accepted \in Seq(Entries) /\ inserted \in Seq(Entries)
    BY <2>2 DEF AuditInit
  <2>4. answered \in 0..MaxEntries /\ Len(logChan) <= BufferSize
    BY <2>1, <2>3 DEF AuditInit
  <2> QED BY <2>3, <2>4 DEF AuditInit, AuditTypeOK
<1>2. Taken = 0 /\ Len(accepted) = 0 /\ Len(logChan) = 0 /\ Len(inserted) = 0
  BY DEF AuditInit, Taken
<1>3. AuditFacts
  BY <1>2 DEF AuditInit, AuditFacts
<1>4. PlaceFacts(<<>>)
  <2>1. <<>> \in [1..0 -> 1..0]
    OBVIOUS
  <2> QED BY <1>2, <2>1 DEF PlaceFacts
<1> QED BY <1>1, <1>2, <1>3, <1>4, AuditFactsHold
    DEF AuditInv, RowsAreThere, FailedWereTaken, EndsWhenDone, AuditInit

-----------------------------------------------------------------------------
(* All of them *)

\* What holds of each component, whichever the behaviour is about; the requests are
\* those of the component in scope.
TrafficInv ==
    /\ AuthInv /\ AuditInv
    /\ scope = "idempotency" => IdempotencyInv
    /\ scope = "exports" => ExportJobsInv

\* EntriesAccounted: sessions, keys, entries and exports keep their types, and what the
\* audit log has accepted is written in order (service/audit.go), for any buffer, number
\* of requests and failures.
THEOREM EntriesAlwaysAccounted == TrafficSpec => []EntriesAccounted
<1>1. TrafficInit => TrafficInv
  BY InitInv, AuditStarts, KeysStart, ExportsStart DEF TrafficInit, TrafficInv
<1> DEFINE allTraffic == <<authVars, idempotencyVars, auditVars, exportVars, requestVars, scope>>
<1>2. TrafficInv /\ [TrafficNext]_allTraffic => TrafficInv'
  <2> SUFFICES ASSUME TrafficInv, [TrafficNext]_allTraffic PROVE TrafficInv'
    OBVIOUS
  <2>1. scope' = scope
    BY DEF TrafficNext, Within
  <2>2. AuthInv'
    <3>1. [AuthNext]_authVars
      BY DEF TrafficNext
    <3> QED BY <3>1, AuthInvSteps DEF TrafficInv
  <2>3. AuditInv'
    <3>1. [AuditNext]_auditVars
      BY DEF TrafficNext
    <3> QED BY <3>1, AuditSteps DEF TrafficInv
  <2>4. ASSUME scope = "idempotency" PROVE IdempotencyInv'
    <3>1. [IdempotencyNext]_<<idempotencyVars, requestVars>>
      BY <2>4 DEF TrafficNext
    <3> QED BY <2>4, <3>1, KeySteps DEF TrafficInv
  <2>5. ASSUME scope = "exports" PROVE ExportJobsInv'
    <3>1. [ExportJobsNext]_<<exportVars, requestVars>>
      BY <2>5 DEF TrafficNext
    <3> QED BY <2>5, <3>1, ExportSteps DEF TrafficInv
  <2> QED BY <2>1, <2>2, <2>3, <2>4, <2>5 DEF TrafficInv
<1>3. TrafficInv => EntriesAccounted
  BY DEF TrafficInv, EntriesAccounted, AuthInv, AuditInv, IdempotencyInv, ExportJobsInv
<1> QED BY <1>1, <1>2, <1>3, PTL DEF TrafficSpec

=============================================================================
