---------------------------- MODULE SecretDecoder ----------------------------
(***************************************************************************)
(* What decoding a Secret promises, without the caches (spec sections 4.3 *)
(* to 4.5): the key that decrypts a Secret is found by walking its group   *)
(* id path from the user's own key, decrypting each group's key with the   *)
(* previous one; KeyCache and DecryptionCache only memoize those steps.    *)
(*                                                                         *)
(* A memoized walk may do one thing the plain walk cannot: when the path   *)
(* skips a link, the KeyCache may already hold the key of the path's last  *)
(* group from another path.  Decoding then succeeds with that key.  The    *)
(* promise kept here is the one the caches can keep: when the plain walk   *)
(* finds a key, the decode has exactly its outcome; otherwise it fails or  *)
(* uses the key behind the last group's ciphertext, and only one the user  *)
(* can derive from the groups map of the list.                             *)
(*                                                                         *)
(* The state is the caller's: the user key of the session, whose list it   *)
(* holds, the Secrets whose client data it has opened and those whose      *)
(* critical data is revealed too, and what the latest decode returned     *)
(* (<<s, ok>>: a decode of s failed or succeeded as a whole), so that a    *)
(* decode that fails is not a stutter.  Session and list changes are       *)
(* environment steps.                                                      *)
(***************************************************************************)
EXTENDS Sequences, SequencesExt

CONSTANTS Users, Groups, Secrets, GroupsOf, EncGroupKey, SecretsOf,
          GroupIdPath, EncClientData, EncCriticalData, NoUser, NoKey

VARIABLES userKey, lastList, opened, revealed, lastDecode

vars == <<userKey, lastList, opened, revealed, lastDecode>>

Keys == Users \cup Groups

DataPlaintext == [kind : {"client", "critical"}, secret : Secrets]

Decrypts(key, ct) == key # NoKey /\ ct.by = key

(* One iteration of the loop of GetDecryptionKeyForSecret, uncached: find  *)
(* the group in u's groups map, decrypt its key, Read it.                  *)
Step(u, key, g) ==
    IF /\ key # NoKey
       /\ g \in GroupsOf[u]
       /\ Decrypts(key, EncGroupKey[u][g])
       /\ EncGroupKey[u][g].of \in Keys
    THEN EncGroupKey[u][g].of
    ELSE NoKey

(* GetDecryptionKeyForSecret without caches: NoKey on any failure.         *)
Resolve(u, key, s) ==
    IF GroupIdPath[s] = <<>> THEN NoKey
    ELSE FoldLeft(LAMBDA k, g : Step(u, k, g), key, GroupIdPath[s])

(* The keys a user can obtain from the ciphertexts of u's groups map.      *)
RECURSIVE Reach(_, _)
Reach(u, K) ==
    LET more == K \cup {EncGroupKey[u][g].of :
                          g \in {h \in GroupsOf[u] : /\ EncGroupKey[u][h].by \in K
                                                    /\ EncGroupKey[u][h].of \in Keys}}
    IN IF more = K THEN K ELSE Reach(u, more)

(* The keys a memoized walk of s may end with.                             *)
MemoKeys(u, key, s) ==
    LET k == Resolve(u, key, s)
        p == GroupIdPath[s]
    IN IF k # NoKey THEN {k}
       ELSE {NoKey} \cup
            IF p # <<>> /\ Last(p) \in GroupsOf[u] /\ key # NoKey
            THEN {EncGroupKey[u][Last(p)].of} \cap Reach(u, {key})
            ELSE {}

ClientOk(k, s) == Decrypts(k, EncClientData[s]) /\ EncClientData[s].of \in DataPlaintext

CriticalOk(k, s) == Decrypts(k, EncCriticalData[s]) /\ EncCriticalData[s].of \in DataPlaintext

-----------------------------------------------------------------------------

Init ==
    /\ userKey = NoKey
    /\ lastList = NoUser
    /\ opened = {}
    /\ revealed = {}
    /\ lastDecode = <<>>

(* DecryptSecret: client data is stored before critical data is tried; it *)
(* returns true exactly when both decrypt.                                 *)
Decode(s) ==
    /\ userKey # NoKey
    /\ lastList # NoUser /\ s \in SecretsOf[lastList]
    /\ \E k \in MemoKeys(lastList, userKey, s) :
          /\ opened' = IF ClientOk(k, s) THEN opened \cup {s} ELSE opened
          /\ revealed' = IF ClientOk(k, s) /\ CriticalOk(k, s)
                         THEN revealed \cup {s} ELSE revealed
          /\ lastDecode' = <<s, ClientOk(k, s) /\ CriticalOk(k, s)>>
    /\ UNCHANGED <<userKey, lastList>>

(* Login, Logout, restart: the key is dropped or kept, the list dropped.   *)
NewSession ==
    /\ userKey' \in {userKey, NoKey}
    /\ lastList' = NoUser
    /\ opened' = {}
    /\ revealed' = {}
    /\ UNCHANGED lastDecode

(* A login response installs a key, or none.                               *)
KeyInstalled ==
    /\ userKey' \in Users \cup {NoKey}
    /\ UNCHANGED <<lastList, opened, revealed, lastDecode>>

(* A successful list response: fresh Secrets of user u.                    *)
ListReplaced(u) ==
    /\ lastList' = u
    /\ opened' = {}
    /\ revealed' = {}
    /\ UNCHANGED <<userKey, lastDecode>>

(* A GetSecret response replaces one Secret of the list by a fresh one.   *)
SecretReplaced(s) ==
    /\ opened' = opened \ {s}
    /\ revealed' = revealed \ {s}
    /\ UNCHANGED <<userKey, lastList, lastDecode>>

Next ==
    \/ \E s \in Secrets : Decode(s)
    \/ \E s \in Secrets : SecretReplaced(s)
    \/ NewSession
    \/ KeyInstalled
    \/ \E u \in Users : ListReplaced(u)

Spec == Init /\ [][Next]_vars

=============================================================================
