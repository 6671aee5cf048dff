---------------------------- MODULE MC_JsonReader ----------------------------
(***************************************************************************)
(* Documents for the JSON reader, each a parsed tree with the type the     *)
(* caller reads it as and the Value the spec says it must get (or Error). *)
(* Dictionary entries are listed in DictionaryValue's (sorted key) order.  *)
(***************************************************************************)
EXTENDS JsonReader, TLC

\* Numbers m * 2^e / den
N(n) == IntNum(n)
P2(e) == [m |-> 1, e |-> e, den |-> 1]
Half(m) == [m |-> m, e |-> 0, den |-> 2]

\* Parsed trees
JNull == [j |-> "null"]
JBool(b) == [j |-> "bool", bool |-> b]
JInt(n) == [j |-> "int", int |-> n]
JDbl(x) == [j |-> "double", double |-> x]
JStr(s) == [j |-> "string", str |-> s]
K(k, v) == [k |-> k, v |-> v]
JDict(es) == [j |-> "dict", dict |-> es]
JList(vs) == [j |-> "list", list |-> vs]

\* Types of the generated structs
TB == [t |-> "bool"]
TI(w) == [t |-> "int", w |-> w]
TD == [t |-> "double"]
TS == [t |-> "string"]
TBin == [t |-> "binary"]
TStruct(f) == [t |-> "struct", f |-> f]
TMap(k, v) == [t |-> "map", k |-> k, v |-> v]
TList(e) == [t |-> "list", e |-> e]
TSet(e) == [t |-> "set", e |-> e]

\* Values
Bool(b) == [t |-> "bool", v |-> b]
IntV(w, x) == [t |-> "int", w |-> w, v |-> x]
Dbl(x) == [t |-> "double", v |-> x]
Str(s) == [t |-> "string", v |-> s]
F(name, val) == [name |-> name, val |-> val]
Struct(fs) == [t |-> "struct", v |-> fs]
E(k, v) == [k |-> k, v |-> v]
Map(es) == [t |-> "map", v |-> es]
List(vs) == [t |-> "list", v |-> vs]
Set(vs) == [t |-> "set", v |-> vs]

Case(in, type, want) == [in |-> in, type |-> type, want |-> want]

Inner == TStruct(("x" :> TB) @@ ("y" :> TS))
Record ==
    TStruct(("a" :> TI(32)) @@ ("b" :> TList(TI(64))) @@ ("c" :> TMap(TS, TD))
            @@ ("d" :> Inner) @@ ("e" :> TI(8)) @@ ("g" :> TI(16)) @@ ("h" :> TS)
            @@ ("m" :> TBin) @@ ("f" :> TSet(TS)))

\* Every kind of field, a null field (h) and an unknown one (z).
Full ==
    Case(JDict(<<K("a", JInt(7)), K("b", JList(<<JInt(1), JDbl(P2(40))>>)),
                 K("c", JDict(<<K("k", JDbl(Half(3))), K("l", JInt(2))>>)),
                 K("d", JDict(<<K("x", JBool(TRUE)), K("y", JStr("s"))>>)),
                 K("e", JInt(-128)), K("g", JDbl(N(3))), K("h", JNull), K("z", JStr("w"))>>),
         Record,
         Struct(<<F("a", IntV(32, N(7))), F("b", List(<<IntV(64, N(1)), IntV(64, P2(40))>>)),
                  F("c", Map(<<E(Str("k"), Dbl(Half(3))), E(Str("l"), Dbl(N(2)))>>)),
                  F("d", Struct(<<F("x", Bool(TRUE)), F("y", Str("s"))>>)),
                  F("e", IntV(8, N(-128))), F("g", IntV(16, N(3)))>>))

\* Empty containers, a null nested field, integral doubles for integers.
Sparse ==
    Case(JDict(<<K("a", JDbl(N(-5))), K("b", JList(<<>>)), K("c", JDict(<<>>)),
                 K("d", JDict(<<K("x", JBool(FALSE)), K("y", JNull)>>)), K("e", JDbl(N(127)))>>),
         Record,
         Struct(<<F("a", IntV(32, N(-5))), F("b", List(<<>>)), F("c", Map(<<>>)),
                  F("d", Struct(<<F("x", Bool(FALSE))>>)), F("e", IntV(8, N(127)))>>))
Empty == Case(JDict(<<>>), Record, Struct(<<>>))

\* Documents the spec says must fail.
I16TooLarge == Case(JDict(<<K("g", JInt(32768))>>), Record, Error)
ByteFraction == Case(JDict(<<K("e", JDbl(Half(3)))>>), Record, Error)
I64Imprecise == Case(JDict(<<K("b", JList(<<JInt(0), JDbl(P2(54))>>))>>), Record, Error)
NotJson == Case(NoText, Record, Error)
RootList == Case(JList(<<>>), Record, Error)
HasBinary == Case(JDict(<<K("m", JStr("TWE="))>>), Record, Error)
\* A call read by a processor: ["add",1,1,{...}] as writeMessageBegin writes it.
CallMessage ==
    Case(JList(<<JStr("add"), JInt(1), JInt(1), JDict(<<K("a", JInt(7))>>)>>),
         [t |-> "message", b |-> Record], Error)
NestedWrongType ==
    Case(JDict(<<K("c", JDict(<<K("k", JInt(1))>>)),
                 K("d", JDict(<<K("x", JBool(FALSE)), K("y", JInt(5))>>))>>), Record, Error)
\* A map value of the wrong type: in the last entry, and before another.
MapValueWrongType == Case(JDict(<<K("c", JDict(<<K("k", JStr("x"))>>))>>), Record, Error)
MapValueNotLast ==
    Case(JDict(<<K("c", JDict(<<K("k", JStr("x")), K("l", JInt(2))>>))>>), Record, Error)
SetThenTooLarge == Case(JDict(<<K("f", JList(<<JStr("p")>>)), K("g", JInt(-40000))>>), Record, Error)

MCCases == {Full, I16TooLarge, ByteFraction, I64Imprecise, NotJson, RootList, HasBinary,
            CallMessage,
            NestedWrongType, SetThenTooLarge, Sparse, Empty, MapValueNotLast}

\* A document that fails inside a nested struct, then a good one, read
\* through the same protocol object.
StaleCases == {NestedWrongType, Full}

\* A set<string> field {"f":["p","q"]}.
SetCases ==
    {Case(JDict(<<K("f", JList(<<JStr("p"), JStr("q")>>))>>),
          TStruct("f" :> TSet(TS)),
          Struct(<<F("f", Set(<<Str("p"), Str("q")>>))>>))}

\* The last entry of a map holds a value of the wrong type.
TraceCases == {MapValueWrongType}

\* x86 cvttsd2si gives INT_MIN; ARM saturates.
MCCastOutcomes == {-2147483647 - 1, 2147483647}
MCUninitSizes == {0, 1}
==============================================================================
