--------------------------- MODULE MitroApiClient ---------------------------
(***************************************************************************)
(* The session object of the Mitro client (mitro_api.cc, MitroApiClient): *)
(* login, logout, the secrets-list response and the default group it       *)
(* selects, the key-hierarchy walk over a secret's groupIdPath with its    *)
(* KeyCache and DecryptionCache, DecryptSecret and AddSecret.  HTTP        *)
(* requests are asynchronous: a request sits in `inflight` until its       *)
(* response callback runs, and responses arrive in any order.  Every       *)
(* handler runs to completion on the single client thread, so each is one  *)
(* atomic action.                                                          *)
(*                                                                         *)
(* Cryptography is abstract: a key is named by its owner (a user or a      *)
(* group), a ciphertext is a record [by, of] of the key that can decrypt   *)
(* it and the plaintext it hides.                                          *)
(***************************************************************************)
EXTENDS Naturals, Sequences, SequencesExt, BagsExt, FiniteSets, TLC

CONSTANTS
    Users,           \* accounts that can log in
    Groups,          \* group ids (model values)
    Secrets,         \* secret ids (model values)
    NoUser,          \* username_ == ""
    NoKey,           \* a null MitroPrivateKey pointer
    NoGroupId,       \* user_group_id_ == -1
    Junk,            \* decrypted bytes that are not key material
    GroupsOf,        \* GroupsOf[u]: ids in the groups map of u's secrets list
    PersonalOf,      \* PersonalOf[u]: the ids in that map whose name is ""
    EncGroupKey,     \* EncGroupKey[u][g]: group g's encryptedPrivateKey as sent to u
    SecretsOf,       \* SecretsOf[u]: the secrets in u's secrets list
    GroupIdPath,     \* GroupIdPath[s]: the secret's groupIdPath
    EncClientData,   \* EncClientData[s]: encryptedClientData
    EncCriticalData, \* EncCriticalData[s]: encryptedCriticalData
    SerializedLifecycle, \* the caller issues Login/Logout only with no request in flight
    DeviceKeyReadable, \* whether keyczar can read a deviceKeyString the server sends
    MaxInFlight      \* bound on outstanding HTTP requests

Keys == Users \cup Groups

(* The plaintexts a ciphertext can hide: key material, junk, secret data.  *)
DataPlaintext == [kind : {"client", "critical"}, secret : Secrets]
Plaintext == Keys \cup {Junk} \cup DataPlaintext
Ciphertext == [by : Keys, of : Plaintext]

(* Every ciphertext the server can ever send to any user.                  *)
ServerCiphertexts ==
    UNION {{EncGroupKey[u][g] : g \in GroupsOf[u]} : u \in Users}
      \cup {EncClientData[s] : s \in Secrets}
      \cup {EncCriticalData[s] : s \in Secrets}

ASSUME /\ \A u \in Users : PersonalOf[u] \subseteq GroupsOf[u]
       /\ \A u \in Users : SecretsOf[u] \subseteq Secrets
       /\ ServerCiphertexts \subseteq Ciphertext

VARIABLES
    username,         \* username_
    userKey,          \* user_private_key_
    userGroupId,      \* user_group_id_
    userGroupKey,     \* user_group_private_key_
    keyCache,         \* key_cache_: encrypted group key -> decrypted key
    decryptionCache,  \* decryption_cache_: ciphertext -> plaintext
    inflight,         \* bag of HTTP requests whose callback has not run yet
    fault,            \* "none", or the handler that dereferenced a null key
    lastList,         \* caller: user whose secrets list it holds (NoUser: none)
    clientData,       \* caller: clientData of each listed Secret object is set
    criticalData,     \* caller: criticalData of each listed Secret object is set
    resolvedPaths,    \* history: encrypted key paths resolved since the caches were filled
    lastMisses,       \* history: KeyCache misses of the latest key-path walk
    lastDecode        \* caller: <<s, what DecryptSecret(s) returned>> of the latest decode

session == <<username, userKey, userGroupId, userGroupKey>>
caches  == <<keyCache, decryptionCache>>
caller  == <<lastList, clientData, criticalData>>
history == <<resolvedPaths, lastMisses, lastDecode>>
vars    == <<session, caches, inflight, fault, caller, history>>

-----------------------------------------------------------------------------
(* Crypto collaborator (MitroPrivateKey, keyczar).                         *)

(* MitroPrivateKey::Decrypt succeeds exactly with the key it was made for. *)
Decrypts(key, ct) == key # NoKey /\ ct.by = key

(* MitroPrivateKey::Read accepts only serialized key material.             *)
IsKeyMaterial(pt) == pt \in Keys

(* MitroPrivateKey::DecryptPrivateKey: decrypt then Read, NULL on failure. *)
DecryptPrivateKey(key, ct) ==
    IF Decrypts(key, ct) /\ IsKeyMaterial(ct.of) THEN ct.of ELSE NoKey

(* IsLoggedIn(): the session holds the user's private key.                 *)
IsLoggedIn == userKey # NoKey

-----------------------------------------------------------------------------
(* Caches and the key-hierarchy walk.                                      *)

EmptyCache == [c \in {} |-> NoKey]

(* DecryptUsingCache: a hit returns the stored plaintext without using     *)
(* the key; a miss decrypts and stores the plaintext.                      *)
DecryptUsingCache(dc, key, ct) ==
    IF ct \in DOMAIN dc
    THEN [ok |-> TRUE, pt |-> dc[ct], dc |-> dc]
    ELSE IF Decrypts(key, ct)
         THEN [ok |-> TRUE, pt |-> ct.of, dc |-> (ct :> ct.of) @@ dc]
         ELSE [ok |-> FALSE, pt |-> Junk, dc |-> dc]

(* KeyCache::Find: the key cached for an encrypted group key, or NoKey.   *)
KeyCacheFind(kc, ct) == IF ct \in DOMAIN kc THEN kc[ct] ELSE NoKey

(* KeyCache::Insert.  Its CHECK that the entry is new cannot fail here:    *)
(* the walk inserts only after a Find miss.                                *)
KeyCacheInsert(kc, ct, key) == (ct :> key) @@ kc

(* Mutant of PathStep: the decrypted group key is never Inserted.         *)
PathStepNoInsert(u, st, g) ==
    LET ct == EncGroupKey[u][g]
        d  == DecryptUsingCache(st.dc, st.key, ct)
    IN
    IF st.err # "none" THEN st
    ELSE IF g \notin GroupsOf[u] THEN [st EXCEPT !.err = "Group not found"]
    ELSE IF ct \in DOMAIN st.kc THEN [st EXCEPT !.key = st.kc[ct]]
    ELSE IF ~d.ok \/ ~IsKeyMaterial(d.pt)
         THEN [st EXCEPT !.dc = d.dc, !.misses = @ + 1, !.err = "failed"]
    ELSE [st EXCEPT !.dc = d.dc, !.misses = @ + 1, !.key = d.pt]

(* Mutant of PathStep: the decrypted bytes are cached without Read.      *)
PathStepSkipsRead(u, st, g) ==
    LET ct == EncGroupKey[u][g]
        d  == DecryptUsingCache(st.dc, st.key, ct)
    IN
    IF st.err # "none" THEN st
    ELSE IF g \notin GroupsOf[u] THEN [st EXCEPT !.err = "Group not found"]
    ELSE IF ct \in DOMAIN st.kc THEN [st EXCEPT !.key = st.kc[ct]]
    ELSE IF ~d.ok
         THEN [st EXCEPT !.dc = d.dc, !.misses = @ + 1,
                         !.err = "Error decrypting group key"]
    ELSE [st EXCEPT !.dc = d.dc, !.misses = @ + 1, !.key = d.pt,
                    !.kc = (ct :> d.pt) @@ st.kc]

(* Mutant of PathStep: decryption_key = next_decryption_key is done only  *)
(* after a KeyCache miss, so a hit leaves the walk on the parent's key.    *)
PathStepHitKeepsKey(u, st, g) ==
    LET ct == EncGroupKey[u][g]
        d  == DecryptUsingCache(st.dc, st.key, ct)
    IN
    IF st.err # "none" THEN st
    ELSE IF g \notin GroupsOf[u] THEN [st EXCEPT !.err = "Group not found"]
    ELSE IF KeyCacheFind(st.kc, ct) # NoKey THEN st
    ELSE IF ~d.ok
         THEN [st EXCEPT !.dc = d.dc, !.misses = @ + 1,
                         !.err = "Error decrypting group key"]
    ELSE IF ~IsKeyMaterial(d.pt)
         THEN [st EXCEPT !.dc = d.dc, !.misses = @ + 1,
                         !.err = "Error reading group key"]
    ELSE [st EXCEPT !.dc = d.dc, !.misses = @ + 1, !.key = d.pt,
                    !.kc = KeyCacheInsert(st.kc, ct, d.pt)]

(* One iteration of the loop in GetDecryptionKeyForSecret, for the group   *)
(* id g of the path, in the groups map of user u's list.                   *)
PathStep(u, st, g) ==
    LET ct == EncGroupKey[u][g]
        d  == DecryptUsingCache(st.dc, st.key, ct)
    IN
    IF st.err # "none" THEN st
    ELSE IF g \notin GroupsOf[u] THEN [st EXCEPT !.err = "Group not found"]
    ELSE IF KeyCacheFind(st.kc, ct) # NoKey THEN [st EXCEPT !.key = KeyCacheFind(st.kc, ct)]
    ELSE IF ~d.ok
         THEN [st EXCEPT !.dc = d.dc, !.misses = @ + 1,
                         !.err = "Error decrypting group key"]
    ELSE IF ~IsKeyMaterial(d.pt)
         THEN [st EXCEPT !.dc = d.dc, !.misses = @ + 1,
                         !.err = "Error reading group key"]
    ELSE [st EXCEPT !.dc = d.dc, !.misses = @ + 1, !.key = d.pt,
                    !.kc = KeyCacheInsert(st.kc, ct, d.pt)]

(* GetDecryptionKeyForSecret: walk the path from the user's key; the       *)
(* caches updated along the way are kept whatever the outcome.             *)
GetDecryptionKeyForSecret(u, s) ==
    LET start == [key |-> userKey, kc |-> keyCache, dc |-> decryptionCache,
                  misses |-> 0, err |-> "none"]
    IN IF GroupIdPath[s] = <<>>
       THEN [start EXCEPT !.err = "Secret does not contain group id path"]
       ELSE FoldLeft(LAMBDA st, g : PathStep(u, st, g), start, GroupIdPath[s])

(* The encrypted keys a path walk of secret s in u's list goes through.    *)
EncryptedPath(u, s) ==
    [i \in DOMAIN GroupIdPath[s] |->
        IF GroupIdPath[s][i] \in GroupsOf[u]
        THEN EncGroupKey[u][GroupIdPath[s][i]] ELSE Junk]

-----------------------------------------------------------------------------
(* Session operations.                                                     *)

(* Mutant of ClearSession: Logout forgets key_cache_.Clear().             *)
ClearSessionKeepingKeyCache ==
    /\ userKey' = NoKey
    /\ userGroupId' = NoGroupId
    /\ userGroupKey' = NoKey
    /\ UNCHANGED keyCache
    /\ decryptionCache' = EmptyCache
    /\ resolvedPaths' = {}

(* Logout(): drop the keys and both caches.                                *)
ClearSession ==
    /\ userKey' = NoKey
    /\ userGroupId' = NoGroupId
    /\ userGroupKey' = NoKey
    /\ keyCache' = EmptyCache
    /\ decryptionCache' = EmptyCache
    /\ resolvedPaths' = {}

(* The caller drops its secrets list when the session changes.             *)
DropList ==
    /\ lastList' = NoUser
    /\ clientData' = [s \in Secrets |-> FALSE]
    /\ criticalData' = [s \in Secrets |-> FALSE]

Running == fault = "none"

LifecycleAllowed == SerializedLifecycle => inflight = EmptyBag

CanSend == BagCardinality(inflight) < MaxInFlight

Send(req) == inflight' = BagAdd(inflight, req)

LoginRequest ==
    [type : {"GetMyPrivateKey"}, user : Users, passwordOk : BOOLEAN,
     save : BOOLEAN, stored : {"none", "valid", "corrupt"}]

Request ==
    LoginRequest
      \cup [type : {"GetMyDeviceKey", "ListMySecretsAndGroupKeys", "AddSecret"},
            user : Users]
      \cup [type : {"GetSecret"}, user : Users, secret : Secrets]

(* ParseResponse: a response is handled as a success only if the HTTP      *)
(* request succeeded, the body parses as JSON and carries no exceptionType. *)
ParseResponse(httpOk, parsed, exception) == httpOk /\ parsed /\ ~exception

ResponseOutcomes == {ParseResponse(h, p, x) : h, p, x \in BOOLEAN}

(* Login(): log out if logged in, set the username, post GetMyPrivateKey.  *)
(* `stored` is the device-encrypted key the app passes in, if any.         *)
Login(u, req) ==
    /\ Running /\ LifecycleAllowed /\ CanSend
    /\ req.user = u
    /\ IF IsLoggedIn THEN ClearSession
       ELSE UNCHANGED <<userKey, userGroupId, userGroupKey, caches, resolvedPaths>>
    /\ username' = u
    /\ Send(req)
    /\ DropList
    /\ UNCHANGED <<fault, lastMisses, lastDecode>>

Logout ==
    /\ Running /\ LifecycleAllowed
    /\ ClearSession
    /\ username' = NoUser
    /\ DropList
    /\ UNCHANGED <<inflight, fault, lastMisses, lastDecode>>

(* OnGetMyPrivateKey: the response may fail, carry the password-encrypted  *)
(* key, and carry a deviceKeyString (valid or not).                        *)
OnGetMyPrivateKey(req, ok, hasEnc, hasDev, devValid) ==
    /\ Running
    /\ BagIn(req, inflight) /\ req.type = "GetMyPrivateKey"
    /\ LET rest == BagRemove(inflight, req) IN
       CASE ~ok ->
              inflight' = rest /\ UNCHANGED <<userKey, fault>>
         [] req.stored # "none" /\ hasDev /\ ~devValid ->
              \* Crypter::Read of a bad device key is NULL, then ->Decrypt
              inflight' = rest /\ fault' = "OnGetMyPrivateKey" /\ UNCHANGED userKey
         [] req.stored # "none" /\ hasDev ->
              /\ userKey' = IF req.stored = "valid" THEN req.user ELSE NoKey
              /\ inflight' = rest /\ UNCHANGED fault
         [] hasEnc /\ req.passwordOk /\ req.save ->
              /\ userKey' = req.user
              /\ inflight' = BagAdd(rest, [type |-> "GetMyDeviceKey", user |-> req.user])
              /\ UNCHANGED fault
         [] hasEnc ->
              /\ userKey' = IF req.passwordOk THEN req.user ELSE NoKey
              /\ inflight' = rest /\ UNCHANGED fault
         [] OTHER ->
              inflight' = rest /\ UNCHANGED <<userKey, fault>>
    /\ UNCHANGED <<username, userGroupId, userGroupKey, caches, caller, history>>

(* OnGetMyDeviceKey -> OnGetMyPrivateKeyDeviceKeyCallback -> Finish: with  *)
(* a readable device key, user_private_key_ is dereferenced twice.         *)
OnGetMyDeviceKey(req, outcome) ==
    /\ Running
    /\ BagIn(req, inflight) /\ req.type = "GetMyDeviceKey"
    /\ inflight' = BagRemove(inflight, req)
    /\ fault' = IF outcome = "ok" /\ userKey = NoKey
                THEN "OnGetMyPrivateKeyDeviceKeyCallback" ELSE fault
    /\ UNCHANGED <<session, caches, caller, history>>

(* GetSecretsList: the caller asks only while logged in (SignAndPostRequest *)
(* CHECKs the user key).                                                   *)
GetSecretsList ==
    /\ Running /\ CanSend /\ IsLoggedIn /\ username # NoUser
    /\ Send([type |-> "ListMySecretsAndGroupKeys", user |-> username])
    /\ UNCHANGED <<session, caches, fault, caller, history>>

(* GetSecret(secret_id, ...): fetch one Secret of the caller's list; like  *)
(* every signed request it CHECKs the user key, so the caller asks only   *)
(* while logged in.                                                        *)
GetSecret(s) ==
    /\ Running /\ CanSend /\ IsLoggedIn
    /\ lastList = username /\ username # NoUser /\ s \in SecretsOf[lastList]
    /\ Send([type |-> "GetSecret", user |-> username, secret |-> s])
    /\ UNCHANGED <<session, caches, fault, caller, history>>

(* OnGetSecret: on success the callback receives a fresh, undecoded Secret *)
(* that replaces the caller's copy if it still holds that user's list; a   *)
(* failure hands over an empty Secret, which the caller drops.             *)
OnGetSecret(req, ok) ==
    /\ Running
    /\ BagIn(req, inflight) /\ req.type = "GetSecret"
    /\ inflight' = BagRemove(inflight, req)
    /\ IF ok /\ lastList = req.user
       THEN /\ clientData' = [clientData EXCEPT ![req.secret] = FALSE]
            /\ criticalData' = [criticalData EXCEPT ![req.secret] = FALSE]
       ELSE UNCHANGED <<clientData, criticalData>>
    /\ UNCHANGED <<session, caches, fault, lastList, history>>

(* SetUserGroupIdAndKeyFromSecretsListResponse over the groups map of u's *)
(* list (`present`), or over the empty response of a failed request.      *)
SetUserGroupIdAndKey(u, present) ==
    LET personal == IF present THEN PersonalOf[u] ELSE {}
        g == CHOOSE x \in personal : TRUE
    IN IF personal # {}
       THEN /\ userGroupKey' = DecryptPrivateKey(userKey, EncGroupKey[u][g])
            /\ userGroupId' = g
       ELSE /\ userGroupId' = NoGroupId
            /\ userGroupKey' = NoKey

(* OnGetSecretsList: the default group is recomputed even when the request *)
(* failed; on success the caller replaces its list with fresh Secrets.     *)
OnGetSecretsList(req, ok) ==
    /\ Running
    /\ BagIn(req, inflight) /\ req.type = "ListMySecretsAndGroupKeys"
    /\ inflight' = BagRemove(inflight, req)
    /\ IF ~IsLoggedIn /\ ok /\ PersonalOf[req.user] # {}
       THEN /\ fault' = "OnGetSecretsList"
            /\ UNCHANGED <<userGroupId, userGroupKey>>
       ELSE /\ SetUserGroupIdAndKey(req.user, ok)
            /\ UNCHANGED fault
    /\ IF ok THEN /\ lastList' = req.user
                  /\ clientData' = [s \in Secrets |-> FALSE]
                  /\ criticalData' = [s \in Secrets |-> FALSE]
       ELSE UNCHANGED caller
    /\ UNCHANGED <<username, userKey, caches, history>>

(* DecryptSecret on a Secret of the caller's list, with that list's groups *)
(* map.  Client data goes through the DecryptionCache, critical data does  *)
(* not; clientData is stored before critical data is tried.               *)
DecryptSecret(s) ==
    /\ Running /\ IsLoggedIn
    /\ lastList # NoUser /\ s \in SecretsOf[lastList]
    /\ LET r  == GetDecryptionKeyForSecret(lastList, s)
           cd == DecryptUsingCache(r.dc, r.key, EncClientData[s])
           clientOk   == cd.ok /\ cd.pt \in DataPlaintext
           criticalOk == /\ Decrypts(r.key, EncCriticalData[s])
                         /\ EncCriticalData[s].of \in DataPlaintext
       IN
       /\ keyCache' = r.kc
       /\ lastMisses' = r.misses
       /\ lastDecode' = <<s, r.err = "none" /\ clientOk /\ criticalOk>>
       /\ IF r.err = "none"
          THEN /\ decryptionCache' = cd.dc
               /\ resolvedPaths' = resolvedPaths \cup {EncryptedPath(lastList, s)}
               /\ clientData' = [clientData EXCEPT ![s] = @ \/ clientOk]
               /\ criticalData' = [criticalData EXCEPT ![s] = @ \/ (clientOk /\ criticalOk)]
          ELSE /\ decryptionCache' = r.dc
               /\ UNCHANGED <<resolvedPaths, clientData, criticalData>>
    /\ UNCHANGED <<session, inflight, fault, lastList>>

(* AddSecretCommon: encrypt both payloads with user_group_private_key_ and *)
(* post them for user_group_id_.  Offered once the caller holds a list of  *)
(* the current session.                                                    *)
AddSecretCommon ==
    /\ Running /\ IsLoggedIn /\ CanSend
    /\ lastList = username /\ username # NoUser
    /\ IF userGroupKey = NoKey
       THEN fault' = "AddSecretCommon" /\ UNCHANGED inflight
       ELSE Send([type |-> "AddSecret", user |-> username]) /\ UNCHANGED fault
    /\ UNCHANGED <<session, caches, caller, history>>

(* The two entry points build a password or a note payload (data the     *)
(* model abstracts) and are AddSecretCommon otherwise.                     *)
AddSecretPassword == AddSecretCommon
AddSecretNote == AddSecretCommon

(* OnAddSecret only reports the outcome to the caller.                     *)
OnAddSecret(req) ==
    /\ Running
    /\ BagIn(req, inflight) /\ req.type = "AddSecret"
    /\ inflight' = BagRemove(inflight, req)
    /\ UNCHANGED <<session, caches, fault, caller, history>>

-----------------------------------------------------------------------------
(* Specification.                                                          *)

Init ==
    /\ username = NoUser
    /\ userKey = NoKey
    /\ userGroupId = NoGroupId
    /\ userGroupKey = NoKey
    /\ keyCache = EmptyCache
    /\ decryptionCache = EmptyCache
    /\ inflight = EmptyBag
    /\ fault = "none"
    /\ lastList = NoUser
    /\ clientData = [s \in Secrets |-> FALSE]
    /\ criticalData = [s \in Secrets |-> FALSE]
    /\ resolvedPaths = {}
    /\ lastMisses = 0
    /\ lastDecode = <<>>

(* A null dereference kills the process; the app starts a fresh client     *)
(* and the callbacks of the dead one never run.                            *)
Restart ==
    /\ ~Running
    /\ ClearSession
    /\ DropList
    /\ username' = NoUser
    /\ inflight' = EmptyBag
    /\ fault' = "none"
    /\ lastMisses' = 0
    /\ UNCHANGED lastDecode

Next ==
    \/ \E u \in Users, req \in LoginRequest : Login(u, req)
    \/ Logout
    \/ \E req \in BagToSet(inflight), ok \in ResponseOutcomes, hasEnc, hasDev \in BOOLEAN,
          devValid \in DeviceKeyReadable :
          OnGetMyPrivateKey(req, ok, hasEnc, hasDev, devValid)
    \/ \E req \in BagToSet(inflight), outcome \in {"error", "badkey", "ok"} :
          OnGetMyDeviceKey(req, outcome)
    \/ GetSecretsList
    \/ \E req \in BagToSet(inflight), ok \in ResponseOutcomes : OnGetSecretsList(req, ok)
    \/ \E s \in Secrets : GetSecret(s)
    \/ \E req \in BagToSet(inflight), ok \in ResponseOutcomes : OnGetSecret(req, ok)
    \/ \E s \in Secrets : DecryptSecret(s)
    \/ AddSecretPassword
    \/ AddSecretNote
    \/ \E req \in BagToSet(inflight) : OnAddSecret(req)
    \/ Restart

Spec == Init /\ [][Next]_vars

-----------------------------------------------------------------------------
(* Properties.                                                             *)

TypeOK ==
    /\ username \in Users \cup {NoUser}
    /\ userKey \in Users \cup {NoKey}
    /\ userGroupId \in Groups \cup {NoGroupId}
    /\ userGroupKey \in Keys \cup {NoKey}
    /\ DOMAIN keyCache \subseteq Ciphertext
    /\ \A c \in DOMAIN keyCache : keyCache[c] \in Keys
    /\ DOMAIN decryptionCache \subseteq Ciphertext
    /\ \A c \in DOMAIN decryptionCache : decryptionCache[c] \in Plaintext
    /\ BagToSet(inflight) \subseteq Request
    /\ lastList \in Users \cup {NoUser}
    /\ clientData \in [Secrets -> BOOLEAN]
    /\ criticalData \in [Secrets -> BOOLEAN]
    /\ lastMisses \in Nat
    /\ lastDecode \in {<<>>} \cup (Secrets \X BOOLEAN)

(* The keys the current user can obtain by decrypting what the server      *)
(* sends, starting from the user's own private key.                        *)
RECURSIVE Closure(_)
Closure(K) ==
    LET more == K \cup {c.of : c \in {x \in ServerCiphertexts : x.by \in K /\ x.of \in Keys}}
    IN IF more = K THEN K ELSE Closure(more)

Derivable(key) == IF key = NoKey THEN {} ELSE Closure({key})

(* Confidentiality of the session state, across logouts, failed logins    *)
(* and responses in any order: every KeyCache entry and the default group  *)
(* key is the true key behind its ciphertext and one the current user can  *)
(* derive; every DecryptionCache entry is the true plaintext, of a         *)
(* ciphertext for a key the user can derive, and never critical data      *)
(* (DecryptSecret bypasses the cache for it).                              *)
CachesSound ==
    /\ \A c \in DOMAIN keyCache :
          keyCache[c] = c.of /\ keyCache[c] \in Derivable(userKey)
    /\ \A c \in DOMAIN decryptionCache :
          /\ decryptionCache[c] = c.of
          /\ c.by \in Derivable(userKey)
          /\ c.of \notin [kind : {"critical"}, secret : Secrets]
    /\ userGroupKey \in Derivable(userKey) \cup {NoKey}

(* One generation per login, for the default group: user_group_id_, the   *)
(* group AddSecretCommon posts new Secrets to, is always a personal group *)
(* of the user logged in now, even when a secrets-list response of an     *)
(* earlier login arrives after the caller logged in as someone else       *)
(* (OnGetSecretsList is bound with base::Unretained and no generation).   *)
DefaultGroupOfSessionUser ==
    userGroupId # NoGroupId => username # NoUser /\ userGroupId \in PersonalOf[username]

(* Resolving again a key path that was already resolved since the caches   *)
(* were last cleared decrypts nothing: every step hits the KeyCache.       *)
RepeatResolutionHitsKeyCache ==
    [][\A s \in Secrets :
          (DecryptSecret(s) /\ EncryptedPath(lastList, s) \in resolvedPaths)
             => lastMisses' = 0]_vars

(* What DecryptSecret promises: a Secret is never left half decrypted, its *)
(* client data and critical data are replaced together or not at all.      *)
SecretDecodeAllOrNothing ==
    \A s \in Secrets : clientData[s] = criticalData[s]

(* No handler dereferences a null key: AddSecretCommon after the default   *)
(* group has been cleared.                                                 *)
NoNullKeyInAddSecret == fault # "AddSecretCommon"

(* No login handler dereferences a null pointer: neither the Crypter that  *)
(* keyczar::Crypter::Read returns for a deviceKeyString it cannot read     *)
(* (OnGetMyPrivateKey), nor user_private_key_ when a logout came between   *)
(* the private-key response and the GetMyDeviceKey response, or a new    *)
(* login cleared the session there                                         *)
(* (OnGetMyPrivateKeyDeviceKeyCallback calls ToJson() on it).             *)
NoNullKeyInLogin == fault \notin {"OnGetMyPrivateKey", "OnGetMyPrivateKeyDeviceKeyCallback"}

(* One generation per login: the private key the session holds is the key *)
(* of the user it is logged in as, even when the caller logs out or in     *)
(* again while a GetMyPrivateKey response is still on its way.             *)
SessionKeyMatchesUser == userKey # NoKey => userKey = username

(* Refinement: the session with its KeyCache and DecryptionCache decodes  *)
(* Secrets as the uncached key walk of SecretDecoder does (a Secret is     *)
(* opened when its clientData is set, revealed when its criticalData is,  *)
(* and every DecryptSecret returns what the decode of SecretDecoder does). *)
(* Across logins, list responses and decodes in any order, a memoized walk *)
(* never changes the outcome of a walk that succeeds uncached (neither a  *)
(* failure where it succeeds nor a different key), and never yields a key *)
(* the user cannot derive from the list's groups map.                      *)
SD == INSTANCE SecretDecoder
        WITH opened   <- {s \in Secrets : clientData[s]},
             revealed <- {s \in Secrets : criticalData[s]}

ImplementsSecretDecoder == SD!Spec

=============================================================================
