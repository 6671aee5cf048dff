------------------------- MODULE MC_MitroApiClient -------------------------
(***************************************************************************)
(* A server world for MitroApiClient with two users and three groups.      *)
(*   ua: personal group g1 (key under ua), group g2 (key under g1);         *)
(*   ub: personal group g3 (key under ub), group g2 sent with bytes that    *)
(*       are not key material.                                             *)
(* The secrets cover every outcome of DecryptSecret:                       *)
(*   s1 <<g1,g2>>  decrypts fully;                                         *)
(*   s2 <<g2>>     skips a link: fails on a cold KeyCache, resolves after  *)
(*                 s1, then its critical data (under g1) does not decrypt; *)
(*   s5 <<g1>>     client data under g2 does not decrypt;                  *)
(*   s3 <<g3>>     decrypts fully for ub;                                  *)
(*   s4 <<g3,g2>>  g2's key material is unreadable;                        *)
(*   s6 <<g1>>     g1 is not in ub's groups map;                           *)
(*   s7 <<>>       no group id path.                                       *)
(***************************************************************************)
EXTENDS MitroApiClient

CONSTANTS ua, ub, g1, g2, g3, s1, s2, s3, s4, s5, s6, s7

Ct(k, p) == [by |-> k, of |-> p]

MCUsers == {ua, ub}
MCGroups == {g1, g2, g3}
MCSecrets == {s1, s2, s3, s4, s5, s6, s7}

MCGroupsOf == (ua :> {g1, g2}) @@ (ub :> {g2, g3})
MCPersonalOf == (ua :> {g1}) @@ (ub :> {g3})
MCEncGroupKey ==
    (ua :> ((g1 :> Ct(ua, g1)) @@ (g2 :> Ct(g1, g2))))
 @@ (ub :> ((g3 :> Ct(ub, g3)) @@ (g2 :> Ct(g3, Junk))))
MCSecretsOf == (ua :> {s1, s2, s5, s7}) @@ (ub :> {s3, s4, s6})

MCGroupIdPath ==
    (s1 :> <<g1, g2>>) @@ (s2 :> <<g2>>) @@ (s5 :> <<g1>>) @@ (s7 :> <<>>)
 @@ (s3 :> <<g3>>) @@ (s4 :> <<g3, g2>>) @@ (s6 :> <<g1>>)

DataUnder(k, kind, s) == Ct(k, [kind |-> kind, secret |-> s])

MCOwner == (s1 :> g2) @@ (s2 :> g2) @@ (s5 :> g2) @@ (s7 :> g1)
        @@ (s3 :> g3) @@ (s4 :> g2) @@ (s6 :> g1)
MCCriticalOwner == [MCOwner EXCEPT ![s2] = g1]

MCEncClientData == [s \in MCSecrets |-> DataUnder(MCOwner[s], "client", s)]
MCEncCriticalData == [s \in MCSecrets |-> DataUnder(MCCriticalOwner[s], "critical", s)]

=============================================================================
