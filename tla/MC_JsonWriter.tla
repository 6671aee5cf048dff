---------------------------- MODULE MC_JsonWriter ----------------------------
(***************************************************************************)
(* Requests for the JSON writer: Values shaped like the structs the client *)
(* serialises (SignedRequest with an embedded JSON request string), plus   *)
(* one of every field type, container and map-key type, and a message.     *)
(* Strings are byte sequences with quotes, backslashes, '/' and control    *)
(* bytes in them.                                                          *)
(***************************************************************************)
EXTENDS JsonRoundTrip

Str(bs) == [t |-> "string", v |-> bs]
IntV(w, n) == [t |-> "int", w |-> w, v |-> n]
Bool(b) == [t |-> "bool", v |-> b]
Dbl(d) == [t |-> "double", v |-> d]
Bin(bs) == [t |-> "binary", v |-> bs]
F(name, val) == [name |-> name, val |-> val]
Struct(fs) == [t |-> "struct", v |-> fs]
E(k, v) == [k |-> k, v |-> v]
Map(es) == [t |-> "map", v |-> es]
List(vs) == [t |-> "list", v |-> vs]
Set(vs) == [t |-> "set", v |-> vs]
Msg(name, type, seqid, body) ==
    [t |-> "message", name |-> name, type |-> type, seqid |-> seqid, v |-> body]

\* SignedRequest{clientIdentifier, identity, request, signature}
SignedRequestDoc ==
    Struct(<<F(<<99,108,105,101,110,116>>, Str(<<109,105,116,114,111>>)),
             F(<<105,100>>, Str(<<97,64,98>>)),
             F(<<114,101,113>>, Str(<<123,34,107,34,58,91,49,44,50,93,125>>)),
             F(<<115,105,103>>, Str(<<1,10,92,47,200>>))>>)

ScalarsDoc ==
    Struct(<<F(<<97>>, IntV(8, -7)), F(<<98>>, IntV(16, 300)), F(<<99>>, IntV(32, 0)),
             F(<<100>>, IntV(64, -90071)), F(<<101>>, Bool(TRUE)), F(<<102>>, Bool(FALSE)),
             F(<<103>>, Dbl("1.5")), F(<<104>>, Dbl("nan")), F(<<105>>, Bin(<<0, 255, 62>>)),
             F(<<106>>, Bin(<<>>))>>)

ContainersDoc ==
    Struct(<<F(<<108>>, List(<<IntV(32, 1), IntV(32, -2), Dbl("inf")>>)),
             F(<<115>>, Set(<<Str(<<>>), Str(<<34>>)>>)),
             F(<<109>>, Map(<<E(IntV(32, 5), Str(<<120>>)), E(IntV(8, -12), Struct(<<>>))>>)),
             F(<<107>>, Map(<<E(Dbl("1.5"), Dbl("-inf")), E(Dbl("inf"), List(<<>>)),
                               E(Str(<<8,9,12,13,31>>), IntV(64, 7))>>))>>)

MessageDoc ==
    Msg(<<103,101,116>>, 1, 42,
        Struct(<<F(<<110>>, List(<<List(<<IntV(16, 3)>>), Map(<<>>)>>))>>))

\* Read back by JsonRoundTrip: fields out of key order, a key that is a
\* prefix of another, a map of structs and a list, every integer width.
RoundTripDoc ==
    Struct(<<F(<<122>>, IntV(16, -300)), F(<<97,98>>, Bool(FALSE)), F(<<97>>, IntV(8, 127)),
             F(<<109>>, Map(<<E(Str(<<120>>), Struct(<<F(<<121>>, Str(<<34,47,10>>))>>)),
                             E(Str(<<>>), Struct(<<>>))>>)),
             F(<<108>>, List(<<IntV(64, -90071), IntV(64, 5)>>)),
             F(<<100>>, Dbl("1.5")), F(<<105>>, IntV(32, 2147483647))>>)

MCDocs == {SignedRequestDoc, ScalarsDoc, ContainersDoc, MessageDoc, Struct(<<>>), RoundTripDoc}

\* A NaN whose sign bit is set, as x86 produces for 0.0/0.0.
NegativeNaNDocs == {Struct(<<F(<<100>>, Dbl("-nan"))>>)}
==============================================================================
