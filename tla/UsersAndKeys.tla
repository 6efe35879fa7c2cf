----------------------------- MODULE UsersAndKeys -----------------------------
(***************************************************************************)
(* Users by their email address, and their API keys: Register of           *)
(* internal/service/auth.go, service/user.go and the handler of users,     *)
(* service/api_key.go with its handler, middleware and repository.         *)
(*                                                                         *)
(* A user is created by a look and an insert, which the index on the       *)
(* address decides; one who registers gets his role and a welcome from     *)
(* goroutines that outlive the request.  The time a key is revoked is      *)
(* stored once, by a conditional UPDATE.  A key is stored under a salted   *)
(* hash and looked up by a hash with a salt of its own, so that none is    *)
(* ever found; the middleware that looks is attached to no route.          *)
(***************************************************************************)
EXTENDS Requests

CONSTANTS
    Keys,
    KeyUsers,   \* email addresses
    NoUser

ASSUME NoUserAssumption == NoUser \notin KeyUsers

VARIABLES
    address,    \* the users row with each email address
    created,    \* history: how many requests were told that they created it,
    registered, \* and the addresses that were registered by their users
    goroutines, \* what is still to be done for those,
    given,      \* and what has been
    key,        \* the row: its owner, the salt of its hash (0: no row), when it
                \* was revoked (0: never), expired
    revoked     \* history: how many requests were told that they revoked it

userVars == <<address, created, registered, goroutines, given>>
apiKeyVars == <<key, revoked>>
keyVars == <<userVars, apiKeyVars>>

KeyRow == [owner : KeyUsers \cup {NoUser}, salt : 0..MaxRequests,
           revokedAt : 0..MaxRequests, expired : BOOLEAN]
NoKey == [owner |-> NoUser, salt |-> 0, revokedAt |-> 0, expired |-> FALSE]

Welcomes == {"viewer", "welcome"}

KeyRequest ==
    [pc : {"findemail", "insertuser"}, user : KeyUsers, self : BOOLEAN]
    \cup [pc : {"createkey", "insertkey"}, user : KeyUsers]
    \cup [pc : {"revokefind", "revokekey"}, key : Keys, user : KeyUsers]

UsersAndKeysTypeOK ==
    /\ address \in [KeyUsers -> {"absent", "live", "deleted"}]
    /\ created \in [KeyUsers -> 0..MaxRequests]
    /\ registered \subseteq KeyUsers
    /\ goroutines \subseteq (KeyUsers \X Welcomes)
    /\ given \subseteq (KeyUsers \X Welcomes)
    /\ key \in [Keys -> KeyRow]
    /\ revoked \in [Keys -> 0..MaxRequests]
    /\ RequestsAre(KeyRequest)

UsersAndKeysInit ==
    /\ address = [u \in KeyUsers |-> "absent"]
    /\ created = [u \in KeyUsers |-> 0]
    /\ registered = {} /\ goroutines = {} /\ given = {}
    /\ key = [k \in Keys |-> NoKey]
    /\ revoked = [k \in Keys |-> 0]

-----------------------------------------------------------------------------
(* Users *)

HandleRegister(r, u) ==
    /\ Begin(r, [pc |-> "findemail", user |-> u, self |-> TRUE])
    /\ UNCHANGED keyVars

HandleCreateUser(r, u) ==
    /\ Begin(r, [pc |-> "findemail", user |-> u, self |-> FALSE])
    /\ UNCHANGED keyVars

\* FindByEmail: a deleted user has no address.
IsRegistered(u) == address[u] = "live"

FindEmail(r) ==
    /\ At(r, "findemail")
    /\ IF IsRegistered(req[r].user) THEN Finish(r) ELSE Goto(r, "insertuser")
    /\ UNCHANGED keyVars

\* Mutant of AddressIsFree: an index on the users that are not deleted.
AddressIsFreeAgain(u) == address[u] # "live"

\* The index on the address knows the deleted users too: their address is
\* refused with an internal error.
AddressIsFree(u) == address[u] = "absent"

\* Register then starts two goroutines.
Register(u) ==
    /\ registered' = registered \cup {u}
    /\ goroutines' = goroutines \cup ({u} \X Welcomes)

InsertUser(r) ==
    LET u == req[r].user
    IN  /\ At(r, "insertuser")
        /\ IF AddressIsFree(u)
           THEN /\ address' = [address EXCEPT ![u] = "live"]
                /\ created' = [created EXCEPT ![u] = @ + 1]
                /\ IF req[r].self THEN Register(u) ELSE UNCHANGED <<registered, goroutines>>
           ELSE UNCHANGED <<address, created, registered, goroutines>>
        /\ Finish(r)
        /\ UNCHANGED <<given, apiKeyVars>>

\* They assign the role "viewer" and queue an email; nobody hears of an error.
GoroutineEnds(x) ==
    /\ x \in goroutines
    /\ goroutines' = goroutines \ {x}
    /\ \/ given' = given \cup {x} /\ UNCHANGED requestVars
       \/ /\ faults < MaxFaults
          /\ faults' = faults + 1
          /\ UNCHANGED <<given, req, begun>>
    /\ UNCHANGED <<address, created, registered, apiKeyVars>>

\* SoftDelete of the users' repository.  The keys stay.
DeleteUser(u) ==
    /\ IsRegistered(u)
    /\ Serve
    /\ address' = [address EXCEPT ![u] = "deleted"]
    /\ UNCHANGED <<created, registered, goroutines, given, apiKeyVars>>

\* Reads: FindAll, WHERE deleted_at IS NULL, and FindByID.
HandleListUsers == {u \in KeyUsers : address[u] \notin {"absent", "deleted"}}
HandleGetUserByID(u) == IsRegistered(u)
HandleGetCurrentUser(u) == IsRegistered(u)

-----------------------------------------------------------------------------
(* Keys *)

IsOwnedBy(k, u) == key[k].owner = u
IsRevoked(k) == key[k].revokedAt # 0
IsActive(k) == key[k].owner # NoUser /\ ~IsRevoked(k) /\ ~key[k].expired

\* GetByID: the key is there and the caller's.
GetKey(u, k) == key[k] # NoKey /\ IsOwnedBy(k, u)

HandleCreateKey(r, u) ==
    /\ Begin(r, [pc |-> "createkey", user |-> u])
    /\ UNCHANGED keyVars

\* CreateAPIKey finds the user ...
CreateKey(r) ==
    /\ At(r, "createkey")
    /\ IF IsRegistered(req[r].user) THEN Goto(r, "insertkey") ELSE Finish(r)
    /\ UNCHANGED keyVars

\* Mutant of HashKey: a hash without a salt.
HashKeyUnsalted(k, salt) == <<k, 0>>

\* bcrypt.GenerateFromPassword draws a salt for every call.
HashKey(k, salt) == <<k, salt>>

\* ... and stores a new key under its hash.  The index is on the hash: a name may
\* be given twice.
InsertKey(r) ==
    /\ At(r, "insertkey")
    /\ \E k \in Keys :
        /\ key[k] = NoKey
        /\ key' = [key EXCEPT ![k].owner = req[r].user, ![k].salt = begun]
    /\ Finish(r)
    /\ UNCHANGED <<userVars, revoked>>

HandleRevokeKey(r, u, k) ==
    /\ key[k] # NoKey
    /\ Begin(r, [pc |-> "revokefind", key |-> k, user |-> u])
    /\ UNCHANGED keyVars

\* Revoke: the key is the caller's and not revoked ...
RevokeFind(r) ==
    LET k == req[r].key
    IN  /\ At(r, "revokefind")
        /\ IF GetKey(req[r].user, k) /\ ~IsRevoked(k) THEN Goto(r, "revokekey")
           ELSE Finish(r)
        /\ UNCHANGED keyVars

\* Mutant of Revocable: WHERE id = ?
RevocableAny(k) == key[k] # NoKey

\* ... WHERE id = ? AND revoked_at IS NULL.
Revocable(k) == ~IsRevoked(k)

\* The time is that of the statement.
RevokeKey(r) ==
    LET k == req[r].key
    IN  /\ At(r, "revokekey")
        /\ IF Revocable(k)
           THEN /\ key' = [key EXCEPT ![k].revokedAt = begun]
                /\ revoked' = [revoked EXCEPT ![k] = @ + 1]
           ELSE UNCHANGED apiKeyVars
        /\ Finish(r)
        /\ UNCHANGED userVars

\* Time passes expires_at.
KeyExpires(k) ==
    /\ IsActive(k)
    /\ key' = [key EXCEPT ![k].expired = TRUE]
    /\ UNCHANGED <<userVars, revoked, requestVars>>

FindByUserID(u) == {k \in Keys : key[k].owner = u}

\* ToResponse.
Shown(k) == [isRevoked |-> IsRevoked(k), isExpired |-> key[k].expired, isActive |-> IsActive(k)]

HandleListKeys(u) == [k \in FindByUserID(u) |-> Shown(k)]
HandleGetKey(u, k) == IF GetKey(u, k) THEN {Shown(k)} ELSE {}

FindByKeyHashWithUser(hash) ==
    {k \in Keys : key[k] # NoKey /\ HashKey(k, key[k].salt) = hash}

\* Validate hashes the key presented with a salt of its own.
Validate(k, salt) ==
    {x \in FindByKeyHashWithUser(HashKey(k, salt)) : IsActive(x) /\ IsRegistered(key[x].owner)}

\* The users a call with key k is made as, the next salt being drawn for it.
APIKeyAuth(k) == {key[x].owner : x \in Validate(k, begun + 1)}

-----------------------------------------------------------------------------

UsersAndKeysNext ==
    \/ \E r \in Slots :
        \/ \E u \in KeyUsers :
            \/ HandleRegister(r, u) \/ HandleCreateUser(r, u) \/ HandleCreateKey(r, u)
            \/ \E k \in Keys : HandleRevokeKey(r, u, k)
        \/ FindEmail(r) \/ InsertUser(r)
        \/ CreateKey(r) \/ InsertKey(r)
        \/ RevokeFind(r) \/ RevokeKey(r)
        \/ Abort(r) /\ UNCHANGED keyVars
    \/ \E u \in KeyUsers : DeleteUser(u)
    \/ \E x \in goroutines : GoroutineEnds(x)
    \/ \E k \in Keys : KeyExpires(k)

-----------------------------------------------------------------------------
(* Properties *)

\* Of the requests that find an address free one creates the user, for good: the
\* address of a deleted user is never free again.  Who registered has his role
\* and his welcome once the goroutines have ended, unless something failed, and
\* nobody else has.
OneUserPerAddress ==
    \A u \in KeyUsers :
        /\ created[u] = IF address[u] = "absent" THEN 0 ELSE 1
        /\ \A w \in Welcomes :
            /\ <<u, w>> \in given \cup goroutines => u \in registered
            /\ u \in registered /\ faults = 0 => <<u, w>> \in given \cup goroutines
        /\ (u \in HandleListUsers) = (HandleGetUserByID(u) /\ HandleGetCurrentUser(u))

\* However many requests find a key live, one of them revokes it, and a key
\* that is revoked was revoked by a request of its owner that was told so.  What
\* its owner is shown of it says so, and nobody else is shown it.
RevokedOnce ==
    \A k \in Keys :
        /\ revoked[k] = IF IsRevoked(k) THEN 1 ELSE 0
        /\ \A u \in KeyUsers : \A s \in HandleGetKey(u, k) :
            /\ created[u] = 1
            /\ s.isActive => revoked[k] = 0
            /\ {v \in KeyUsers : k \in DOMAIN HandleListKeys(v)} = {u}

\* Users and keys are kept: OneUserPerAddress and RevokedOnce.
KeysHold == OneUserPerAddress /\ RevokedOnce

\* What the code says of Validate, that it validates a key for authentication: a call
\* with a key neither revoked nor expired is made as the user it belongs to.
KeyAuthenticates ==
    \A k \in Keys :
        IsActive(k) /\ IsRegistered(key[k].owner) => APIKeyAuth(k) = {key[k].owner}

\* What becomes of it: the hash a key is looked up by is never the stored one.
NoKeyIsFound == \A k \in Keys : APIKeyAuth(k) = {}

\* Why: a key has an owner who was created, as has the one that is about to be
\* inserted, ...
OwnersExist ==
    /\ \A k \in Keys : key[k].owner # NoUser => address[key[k].owner] # "absent"
    /\ \A r \in Slots : At(r, "insertkey") => address[req[r].user] # "absent"

\* ... and its salt was drawn for a request that has begun.
SaltsAreOld ==
    /\ \A r \in Slots : ~At(r, "idle") => begun >= 1
    /\ \A k \in Keys : key[k].salt <= begun

UsersAndKeysInv ==
    /\ UsersAndKeysTypeOK
    /\ OneUserPerAddress
    /\ RevokedOnce
    /\ OwnersExist
    /\ SaltsAreOld

UsersAndKeysSpec ==
    UsersAndKeysInit /\ RequestsInit /\ [][UsersAndKeysNext]_<<keyVars, requestVars>>

=============================================================================
