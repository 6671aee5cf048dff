----------------------------- MODULE JsonWriter -----------------------------
(***************************************************************************)
(* The write side of TSimpleJSONProtocol (TSimpleJSONProtocol.cpp) as      *)
(* MitroApiClient drives it: one protocol object (protocol_) over one      *)
(* memory buffer (transport_) serialises every request in turn, and the    *)
(* buffer is taken and reset after each one (PostRequest).                 *)
(*                                                                         *)
(* The writer's state is the current TJSONContext (context_), the stack   *)
(* of saved ones (contexts_) and the bytes in the buffer (out).  A context *)
(* is a record: kind "root" (TJSONContext), "pair" (JSONPairContext) or    *)
(* "list" (JSONListContext) with its first_ and colon_ flags.  Every       *)
(* write call of the protocol is one action; the Thrift-generated write()  *)
(* of the value being serialised is the caller, modelled as the sequence   *)
(* of protocol calls it makes (WriteCalls).  The output is bytes and the   *)
(* conversions (escaping, decimal, lexical_cast of doubles, base64) are    *)
(* modelled by what they do.  written is the sum of the counts the calls   *)
(* returned for the current document.                                     *)
(***************************************************************************)
EXTENDS Integers, Sequences, SequencesExt, JsonText

CONSTANTS
    Docs        \* the Values requests serialise (Value Model, see JsonText)

VARIABLES
    context,    \* context_
    contexts,   \* contexts_, top is Last
    out,        \* the bytes written to transport_ since the last reset
    written,    \* sum of the counts returned for the current document
    doc,        \* the Value being serialised
    calls       \* the protocol calls its write() still has to make

vars == <<context, contexts, out, written, doc, calls>>

-----------------------------------------------------------------------------
(* Contexts.                                                               *)

RootContext == [kind |-> "root", first |-> FALSE, colon |-> FALSE]
PairContext == [kind |-> "pair", first |-> TRUE, colon |-> TRUE]
ListContext == [kind |-> "list", first |-> TRUE, colon |-> FALSE]
Contexts == {RootContext} \cup [kind : {"pair"}, first : BOOLEAN, colon : BOOLEAN]
                          \cup [kind : {"list"}, first : BOOLEAN, colon : {FALSE}]

(* The protocol state one call works on: context, stack, bytes and the     *)
(* count the call returns.                                                 *)
State == [ctx |-> context, stack |-> contexts, out |-> out, r |-> 0]

Emit(S, bytes) == [S EXCEPT !.out = @ \o bytes]
Count(S, n) == [S EXCEPT !.r = @ + n]

(* TJSONContext::write and its overrides.                                  *)
ContextWrite(S) ==
    LET c == S.ctx IN
    CASE c.kind = "root" -> S
      [] c.kind = "pair" /\ c.first -> [S EXCEPT !.ctx.first = FALSE, !.ctx.colon = TRUE]
      [] c.first -> [S EXCEPT !.ctx.first = FALSE]
      [] c.kind = "pair" ->
           Count([Emit(S, <<IF c.colon THEN 58 ELSE 44>>) EXCEPT !.ctx.colon = ~c.colon], 1)
      [] OTHER -> Count(Emit(S, <<44>>), 1)

(* escapeNum(): numbers are quoted in the key part of a pair.              *)
EscapeNum(c) == c.kind = "pair" /\ c.colon

PushContext(S, c) == [S EXCEPT !.stack = Append(@, S.ctx), !.ctx = c]
PopContext(S) == [S EXCEPT !.ctx = Last(S.stack), !.stack = Front(S.stack)]

-----------------------------------------------------------------------------
(* Conversions.                                                            *)

(* hexChar: the low nibble as a lower-case hex digit.                      *)
HexChar(val) == LET v == val % 16 IN IF v < 10 THEN v + 48 ELSE v - 10 + 97

(* kJSONCharTable for the first 0x30 bytes: 0 -> \u00xx, 1 -> as is,      *)
(* otherwise a backslash and that character.                               *)
JSONCharTable(ch) ==
    CASE ch = 8 -> 98 [] ch = 9 -> 116 [] ch = 10 -> 110 [] ch = 12 -> 102
      [] ch = 13 -> 114 [] ch = 34 -> 34 [] ch >= 32 -> 1 [] OTHER -> 0

(* writeJSONChar and writeJSONEscapeChar: [bytes, count returned].         *)
WriteJSONChar(ch) ==
    CASE ch = 92 -> [bytes |-> <<92, 92>>, n |-> 2]
      [] ch >= 48 -> [bytes |-> <<ch>>, n |-> 1]
      [] JSONCharTable(ch) = 1 -> [bytes |-> <<ch>>, n |-> 1]
      [] JSONCharTable(ch) > 1 -> [bytes |-> <<92, JSONCharTable(ch)>>, n |-> 2]
      [] OTHER -> [bytes |-> <<92, 117, 48, 48, HexChar(ch \div 16), HexChar(ch)>>, n |-> 6]

(* boost::lexical_cast<std::string> of an integer: its decimal digits.     *)
RECURSIVE Digits(_)
Digits(n) == IF n < 10 THEN <<48 + n>> ELSE Digits(n \div 10) \o <<48 + (n % 10)>>
Decimal(n) == IF n < 0 THEN <<45>> \o Digits(-n) ELSE Digits(n)

(* boost::lexical_cast<std::string> of a double of the model: the finite  *)
(* value 1.5 and the non-finite ones, a NaN with its sign bit printed.    *)
LexicalCastDouble(d) ==
    CASE d = "1.5" -> <<49, 46, 53>>
      [] d = "nan" -> <<110, 97, 110>>
      [] d = "-nan" -> <<45, 110, 97, 110>>
      [] d = "inf" -> <<105, 110, 102>>
      [] d = "-inf" -> <<45, 105, 110, 102>>

(* base64_encode (Thrift's TBase64Utils) of a group of 1 to 3 bytes: the   *)
(* first len + 1 characters of its standard encoding, never padded.        *)
Base64Encode(grp) ==
    LET in == [i \in 1..3 |-> IF i <= Len(grp) THEN grp[i] ELSE 0]
        sx == <<in[1] \div 4, (in[1] % 4) * 16 + in[2] \div 16,
                (in[2] % 16) * 4 + in[3] \div 64, in[3] % 64>>
    IN [i \in 1..Len(grp) + 1 |-> B64Alphabet(sx[i])]

-----------------------------------------------------------------------------
(* The protocol's internal writers, TSimpleJSONProtocol.cpp 280-410.       *)

WriteJSONString(S, str) ==
    LET S1 == ContextWrite(S)
        cs == [i \in DOMAIN str |-> WriteJSONChar(str[i])]
    IN Count(Emit(S1, <<34>> \o FoldLeft(LAMBDA a, c : a \o c.bytes, <<>>, cs) \o <<34>>),
             2 + FoldLeft(LAMBDA a, c : a + c.n, 0, cs))

RECURSIVE Base64Groups(_)
Base64Groups(bytes) ==
    IF Len(bytes) >= 3
    THEN [bytes |-> Base64Encode(SubSeq(bytes, 1, 3)) \o
                    Base64Groups(SubSeq(bytes, 4, Len(bytes))).bytes,
          n |-> 4 + Base64Groups(SubSeq(bytes, 4, Len(bytes))).n]
    ELSE IF bytes # <<>> THEN [bytes |-> Base64Encode(bytes), n |-> Len(bytes) + 1]
    ELSE [bytes |-> <<>>, n |-> 0]

WriteJSONBase64(S, str) ==
    LET S1 == ContextWrite(S)
        g  == Base64Groups(str)
    IN Count(Emit(S1, <<34>> \o g.bytes \o <<34>>), 2 + g.n)

(* Mutant: escapeNum() asked before the separator is written.            *)
WriteJSONNumberEscapeFirst(S, val, special) ==
    LET S1  == ContextWrite(S)
        esc == special \/ EscapeNum(S.ctx)
        q   == IF esc THEN <<34>> ELSE <<>>
    IN Count(Emit(S1, q \o val \o q), Len(val) + 2 * Len(q))

(* The number is quoted if the context asks it after its separator.        *)
WriteJSONNumber(S, val, special) ==
    LET S1  == ContextWrite(S)
        esc == special \/ EscapeNum(S1.ctx)
        q   == IF esc THEN <<34>> ELSE <<>>
    IN Count(Emit(S1, q \o val \o q), Len(val) + 2 * Len(q))

WriteJSONInteger(S, n) == WriteJSONNumber(S, Decimal(n), FALSE)

(* writeJSONDouble normalises lexical_cast by the first characters.       *)
WriteJSONDouble(S, d) ==
    LET val == LexicalCastDouble(d) IN
    CASE val[1] \in {78, 110} -> WriteJSONNumber(S, Txt("NaN"), TRUE)
      [] val[1] \in {73, 105} -> WriteJSONNumber(S, Txt("Infinity"), TRUE)
      [] val[1] = 45 /\ val[2] \in {73, 105} -> WriteJSONNumber(S, Txt("-Infinity"), TRUE)
      [] OTHER -> WriteJSONNumber(S, val, FALSE)

WriteJSONObjectStart(S) == PushContext(Count(Emit(ContextWrite(S), <<123>>), 1), PairContext)
WriteJSONObjectEnd(S) == Count(Emit(PopContext(S), <<125>>), 1)
(* Mutant: the separator's count is dropped ("return 1").               *)
WriteJSONArrayStartUncounted(S) ==
    PushContext(Count(Emit([ContextWrite(S) EXCEPT !.r = S.r], <<91>>), 1), ListContext)
WriteJSONArrayStart(S) == PushContext(Count(Emit(ContextWrite(S), <<91>>), 1), ListContext)
WriteJSONArrayEnd(S) == Count(Emit(PopContext(S), <<93>>), 1)

-----------------------------------------------------------------------------
(* The protocol's public write calls, TSimpleJSONProtocol.cpp 412-525:     *)
(* each takes the protocol state and the call's argument.                  *)

writeMessageBegin(S, a) ==
    LET S1 == WriteJSONInteger(WriteJSONArrayStart(S), 1)    \* kThriftVersion1
        S2 == WriteJSONInteger(WriteJSONString(S1, a.name), a.type)
    IN WriteJSONInteger(S2, a.seqid)
writeMessageEnd(S, a) == WriteJSONArrayEnd(S)
writeStructBegin(S, a) == WriteJSONObjectStart(S)
writeStructEnd(S, a) == WriteJSONObjectEnd(S)
writeFieldBegin(S, a) == WriteJSONString(S, a)
writeFieldEnd(S, a) == S
writeFieldStop(S, a) == S
writeMapBegin(S, a) == WriteJSONObjectStart(S)
writeMapEnd(S, a) == WriteJSONObjectEnd(S)
writeListBegin(S, a) == WriteJSONArrayStart(S)
writeListEnd(S, a) == WriteJSONArrayEnd(S)
writeSetBegin(S, a) == WriteJSONArrayStart(S)
writeSetEnd(S, a) == WriteJSONArrayEnd(S)
writeBool(S, a) == Count(Emit(ContextWrite(S), Txt(IF a THEN "true" ELSE "false")),
                         IF a THEN 4 ELSE 5)
writeByte(S, a) == WriteJSONInteger(S, a)    \* through an int16_t
writeI16(S, a) == WriteJSONInteger(S, a)
writeI32(S, a) == WriteJSONInteger(S, a)
writeI64(S, a) == WriteJSONInteger(S, a)
writeDouble(S, a) == WriteJSONDouble(S, a)
writeString(S, a) == WriteJSONString(S, a)
writeBinary(S, a) == WriteJSONBase64(S, a)

-----------------------------------------------------------------------------
(* The caller: the protocol calls a Thrift-generated write() makes for a   *)
(* Value, in order.                                                        *)

C(op, arg) == [op |-> op, arg |-> arg]
IntWriter == (8 :> "writeByte") @@ (16 :> "writeI16") @@ (32 :> "writeI32") @@ (64 :> "writeI64")

RECURSIVE WriteCalls(_), FieldCalls(_), EntryCalls(_), ElemCalls(_)
WriteCalls(v) ==
    CASE v.t = "bool" -> <<C("writeBool", v.v)>>
      [] v.t = "int" -> <<C(IntWriter[v.w], v.v)>>
      [] v.t = "double" -> <<C("writeDouble", v.v)>>
      [] v.t = "string" -> <<C("writeString", v.v)>>
      [] v.t = "binary" -> <<C("writeBinary", v.v)>>
      [] v.t = "struct" -> <<C("writeStructBegin", 0)>> \o FieldCalls(v.v)
                             \o <<C("writeFieldStop", 0), C("writeStructEnd", 0)>>
      [] v.t = "map" -> <<C("writeMapBegin", Len(v.v))>> \o EntryCalls(v.v)
                          \o <<C("writeMapEnd", 0)>>
      [] v.t = "list" -> <<C("writeListBegin", Len(v.v))>> \o ElemCalls(v.v)
                           \o <<C("writeListEnd", 0)>>
      [] v.t = "set" -> <<C("writeSetBegin", Len(v.v))>> \o ElemCalls(v.v)
                          \o <<C("writeSetEnd", 0)>>
      [] v.t = "message" ->
           <<C("writeMessageBegin", [name |-> v.name, type |-> v.type, seqid |-> v.seqid])>>
           \o WriteCalls(v.v) \o <<C("writeMessageEnd", 0)>>
FieldCalls(fs) ==
    IF fs = <<>> THEN <<>>
    ELSE <<C("writeFieldBegin", fs[1].name)>> \o WriteCalls(fs[1].val)
         \o <<C("writeFieldEnd", 0)>> \o FieldCalls(Tail(fs))
EntryCalls(es) ==
    IF es = <<>> THEN <<>>
    ELSE WriteCalls(es[1].k) \o WriteCalls(es[1].v) \o EntryCalls(Tail(es))
ElemCalls(vs) ==
    IF vs = <<>> THEN <<>> ELSE WriteCalls(vs[1]) \o ElemCalls(Tail(vs))

-----------------------------------------------------------------------------
(* Actions.                                                                *)

Init ==
    /\ context = RootContext
    /\ contexts = <<>>
    /\ out = <<>>
    /\ written = 0
    /\ doc \in Docs
    /\ calls = WriteCalls(doc)

(* The caller makes its next call, the protocol method F.                  *)
Call(op, F(_, _)) ==
    /\ calls # <<>>
    /\ Head(calls).op = op
    /\ LET S == F(State, Head(calls).arg) IN
         /\ context' = S.ctx
         /\ contexts' = S.stack
         /\ out' = S.out
         /\ written' = written + S.r
    /\ calls' = Tail(calls)
    /\ UNCHANGED doc

(* PostRequest: once write() has returned, the buffer is taken and reset  *)
(* and the next request is written through the same protocol object.      *)
PostRequest ==
    /\ calls = <<>>
    /\ out' = <<>>
    /\ written' = 0
    /\ doc' \in Docs
    /\ calls' = WriteCalls(doc')
    /\ UNCHANGED <<context, contexts>>

Next ==
    \/ Call("writeMessageBegin", writeMessageBegin)
    \/ Call("writeMessageEnd", writeMessageEnd)
    \/ Call("writeStructBegin", writeStructBegin)
    \/ Call("writeStructEnd", writeStructEnd)
    \/ Call("writeFieldBegin", writeFieldBegin)
    \/ Call("writeFieldEnd", writeFieldEnd)
    \/ Call("writeFieldStop", writeFieldStop)
    \/ Call("writeMapBegin", writeMapBegin)
    \/ Call("writeMapEnd", writeMapEnd)
    \/ Call("writeListBegin", writeListBegin)
    \/ Call("writeListEnd", writeListEnd)
    \/ Call("writeSetBegin", writeSetBegin)
    \/ Call("writeSetEnd", writeSetEnd)
    \/ Call("writeBool", writeBool)
    \/ Call("writeByte", writeByte)
    \/ Call("writeI16", writeI16)
    \/ Call("writeI32", writeI32)
    \/ Call("writeI64", writeI64)
    \/ Call("writeDouble", writeDouble)
    \/ Call("writeString", writeString)
    \/ Call("writeBinary", writeBinary)
    \/ PostRequest

Spec == Init /\ [][Next]_vars

-----------------------------------------------------------------------------
(* Properties.                                                             *)

(* Once write() returns, the buffer PostRequest sends is exactly one JSON  *)
(* text meaning the Value written (spec sections 4.1 and 6): separators,   *)
(* map-key quoting by escapeNum of integer and double keys, escaping,      *)
(* number and NaN/Infinity forms and base64 of whole 3-byte groups, and    *)
(* this for every request in turn through the same protocol_, so the      *)
(* context stack is back at the root each time.  Two encodings where the   *)
(* code and the spec disagree are outside what this states: a binary      *)
(* whose length is not a multiple of 3 (written unpadded) and a bool map  *)
(* key (written bare).                                                     *)
OutputDenotesValue == calls = <<>> => IsTextOf(doc, out)

(* Every write call returns the number of bytes it wrote to the transport, *)
(* so the counts returned add up to the bytes in the buffer.               *)
WrittenCountsBytes == written = Len(out)

=============================================================================
