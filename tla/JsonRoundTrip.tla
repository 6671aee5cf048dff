---------------------------- MODULE JsonRoundTrip ----------------------------
(***************************************************************************)
(* The two halves of TSimpleJSONProtocol composed (spec section 8): the    *)
(* text the writer leaves in the buffer, parsed by base::JSONReader, read  *)
(* back through a fresh protocol by the generated read() of the same type, *)
(* gives the Value written.  The reader is JsonReader's read calls,        *)
(* instantiated as pure operators over a parser stack; its variables and   *)
(* the constants of its caller are not used here.                         *)
(*                                                                         *)
(* The round trip is promised only for Values both halves support: no      *)
(* binary (readBinary is not implemented), no sets (readSetBegin pushes no *)
(* frame), no messages (readMessageBegin is not implemented), string map   *)
(* keys (the writer quotes every key and readI32 of a string fails) and    *)
(* finite doubles.                                                         *)
(***************************************************************************)
EXTENDS JsonWriter

RD == INSTANCE JsonReader
        WITH stack <- <<>>, transport <- [j |-> "text"], case <- <<>>, todo <- <<>>,
             got <- {}, status <- "done",
             Cases <- {}, CastOutcomes <- {0}, UninitSizes <- {0}, ResetAfterThrow <- TRUE

-----------------------------------------------------------------------------
(* base::JSONReader::Read of the bytes the writer produces (no whitespace, *)
(* no exponents): [ok, tree, next].  An integer token that fits an int is *)
(* an int value, any other number a double; a dictionary holds its entries *)
(* in sorted key order.                                                    *)

Parsed(tree, next) == [ok |-> TRUE, tree |-> tree, next |-> next]
Bad == [ok |-> FALSE, tree |-> RD!NoText, next |-> Fail]

RECURSIVE KeyLt(_, _)
KeyLt(a, b) == IF a = <<>> THEN b # <<>>
               ELSE IF b = <<>> THEN FALSE
               ELSE IF Head(a) # Head(b) THEN Head(a) < Head(b)
               ELSE KeyLt(Tail(a), Tail(b))

(* A number token num/den as m * 2^e / den with den 1 or 2.                *)
NumberValue(num, den) ==
    IF den = 1 /\ -2147483647 - 1 <= num /\ num <= 2147483647
    THEN [j |-> "int", int |-> num]
    ELSE [j |-> "double", double |-> IF num % den = 0 THEN RD!IntNum(num \div den)
                                     ELSE [m |-> (2 * num) \div den, e |-> 0, den |-> 2]]

RECURSIVE ParseValue(_, _), ParseMembers(_, _, _), ParseElements(_, _, _)
ParseValue(s, i) ==
    IF i = Fail \/ i > Len(s) THEN Bad
    ELSE CASE s[i] = 123 ->
                IF Expect(s, i + 1, 125) # Fail THEN Parsed([j |-> "dict", dict |-> <<>>], i + 2)
                ELSE ParseMembers(s, i + 1, <<>>)
           [] s[i] = 91 ->
                IF Expect(s, i + 1, 93) # Fail THEN Parsed([j |-> "list", list |-> <<>>], i + 2)
                ELSE ParseElements(s, i + 1, <<>>)
           [] s[i] = Quote ->
                LET t == ParseString(s, i) IN
                IF t.ok THEN Parsed([j |-> "string", str |-> t.bytes], t.next) ELSE Bad
           [] ExpectBytes(s, i, Txt("true")) # Fail -> Parsed([j |-> "bool", bool |-> TRUE], i + 4)
           [] ExpectBytes(s, i, Txt("false")) # Fail -> Parsed([j |-> "bool", bool |-> FALSE], i + 5)
           [] OTHER ->
                LET t == ParseNumber(s, i) IN
                IF t.ok /\ t.den \in {1, 10} THEN Parsed(NumberValue(t.num, t.den), t.next) ELSE Bad

ParseMembers(s, i, es) ==
    LET k == ParseString(s, i)
        v == ParseValue(s, Expect(s, k.next, 58))
        more == Append(es, [k |-> k.bytes, v |-> v.tree])
    IN IF ~k.ok \/ Expect(s, k.next, 58) = Fail \/ ~v.ok THEN Bad
       ELSE IF Expect(s, v.next, 44) # Fail THEN ParseMembers(s, v.next + 1, more)
       ELSE IF Expect(s, v.next, 125) # Fail
            THEN Parsed([j |-> "dict", dict |-> SortSeq(more, LAMBDA a, b : KeyLt(a.k, b.k))],
                        v.next + 1)
       ELSE Bad

ParseElements(s, i, vs) ==
    LET v == ParseValue(s, i) IN
    IF ~v.ok THEN Bad
    ELSE IF Expect(s, v.next, 44) # Fail THEN ParseElements(s, v.next + 1, Append(vs, v.tree))
    ELSE IF Expect(s, v.next, 93) # Fail THEN Parsed([j |-> "list", list |-> Append(vs, v.tree)], v.next + 1)
    ELSE Bad

ParseJSON(s) == LET t == ParseValue(s, 1) IN IF t.ok /\ t.next = Len(s) + 1 THEN t.tree ELSE RD!NoText

-----------------------------------------------------------------------------
(* The generated read() of the Value's type, driving the read calls: it    *)
(* checks each value it gets against v and returns [st, ok, ex].  Fields   *)
(* and map entries come in the document's order and are matched by name   *)
(* or key, as read() assigns a field by its name; a name seen twice, or    *)
(* one v has not, is a mismatch.                                           *)

Got(r, ok) == [st |-> r.st, ok |-> r.ex = "none" /\ ok, ex |-> r.ex]

ReadInt(st, w) ==
    CASE w = 8 -> RD!readByte(st, 0)
      [] w = 16 -> RD!readI16(st, 0)
      [] w = 32 -> RD!readI32(st, 0)
      [] w = 64 -> RD!readI64(st)

DoubleNumber(d) == [m |-> 3, e |-> 0, den |-> 2]    \* the model's one finite double, 1.5

(* A container read: begin (b, whose size must be right: ok), the body    *)
(* (r), end; a failure stops read().                                       *)
ContainerEnd(t, st) ==
    CASE t = "struct" -> RD!readStructEnd(st)
      [] t = "map" -> RD!readMapEnd(st)
      [] t = "list" -> RD!readListEnd(st)
Container(t, b, ok, r) ==
    IF b.ex # "none" \/ ~ok THEN Got(b, ok)
    ELSE IF r.ex # "none" \/ ~r.ok THEN r
    ELSE Got(ContainerEnd(t, r.st), TRUE)

RECURSIVE ReadValue(_, _, _), ReadFields(_, _, _), ReadEntries(_, _, _, _), ReadElements(_, _, _)
ReadValue(st, in, v) ==
    CASE v.t = "bool" -> LET r == RD!readBool(st) IN Got(r, r.val = v.v)
      [] v.t = "int" -> LET r == ReadInt(st, v.w) IN Got(r, r.val = RD!IntNum(v.v))
      [] v.t = "double" -> LET r == RD!readDouble(st) IN Got(r, r.val = DoubleNumber(v.v))
      [] v.t = "string" -> LET r == RD!readString(st) IN Got(r, r.val = v.v)
      [] v.t = "struct" ->
           LET b == RD!readStructBegin(st, in) IN
           Container(v.t, b, TRUE, ReadFields(b.st, v.v, {}))
      [] v.t = "map" ->
           LET b == RD!readMapBegin(st) IN
           Container(v.t, b, b.val = Len(v.v), ReadEntries(b.st, v.v, Len(v.v), {}))
      [] v.t = "list" ->
           LET b == RD!readListBegin(st) IN
           Container(v.t, b, b.val = Len(v.v), ReadElements(b.st, v.v, 1))

(* while (true) { readFieldBegin; if T_STOP break; read by name; readFieldEnd } *)
ReadFields(st, fs, seen) ==
    LET b == RD!readFieldBegin(st)
        named == {i \in DOMAIN fs : fs[i].name = b.val}
    IN IF b.ex # "none" THEN Got(b, FALSE)
       \* fieldType is T_STOP exactly when dict_iter is at its end
       ELSE IF RD!DictAtEnd(RD!Top(st)) THEN Got(b, seen = {fs[i].name : i \in DOMAIN fs})
       ELSE IF named = {} \/ b.val \in seen THEN Got(b, FALSE)
       ELSE LET r == ReadValue(b.st, RD!NoText, fs[CHOOSE i \in named : TRUE].val)
                e == RD!readFieldEnd(r.st)
            IN IF r.ex # "none" \/ ~r.ok THEN r
               ELSE IF e.ex # "none" THEN Got(e, FALSE)
               ELSE ReadFields(e.st, fs, seen \cup {b.val})

(* for (i = 0; i < size; ++i) { readString(key); read(value) }           *)
ReadEntries(st, es, n, seen) ==
    IF n = 0 THEN Got(RD!Ok(st, "none"), seen = {es[i].k.v : i \in DOMAIN es})
    ELSE LET k == RD!readString(st)
             keyed == {i \in DOMAIN es : es[i].k.v = k.val}
         IN IF k.ex # "none" \/ keyed = {} \/ k.val \in seen THEN Got(k, FALSE)
            ELSE LET r == ReadValue(k.st, RD!NoText, es[CHOOSE i \in keyed : TRUE].v) IN
                 IF r.ex # "none" \/ ~r.ok THEN r
                 ELSE ReadEntries(r.st, es, n - 1, seen \cup {k.val})

ReadElements(st, vs, i) ==
    IF i > Len(vs) THEN Got(RD!Ok(st, "none"), TRUE)
    ELSE LET r == ReadValue(st, RD!NoText, vs[i]) IN
         IF r.ex # "none" \/ ~r.ok THEN r ELSE ReadElements(r.st, vs, i + 1)

(* The Values the round trip is promised for.                              *)
RECURSIVE RoundTrippable(_)
RoundTrippable(v) ==
    CASE v.t \in {"bool", "int", "string"} -> TRUE
      [] v.t = "double" -> v.v = "1.5"
      [] v.t = "struct" -> \A i \in DOMAIN v.v : RoundTrippable(v.v[i].val)
      [] v.t = "map" -> \A i \in DOMAIN v.v : v.v[i].k.t = "string" /\ RoundTrippable(v.v[i].v)
      [] v.t = "list" -> \A i \in DOMAIN v.v : RoundTrippable(v.v[i])
      [] OTHER -> FALSE

-----------------------------------------------------------------------------
(* Properties.                                                             *)

(* Once write() returns, reading the buffer back (JSONReader, then the     *)
(* generated read() through a fresh TSimpleJSONProtocol) gives the struct  *)
(* written, every field and map entry found by name in the sorted order   *)
(* DictionaryValue iterates, with no exception and parser_context_ empty   *)
(* again: the writer's separators and key quoting and the reader's         *)
(* iterator advances, frame pushes and pops and numeric conversions agree. *)
RoundTrip ==
    calls = <<>> /\ doc.t = "struct" /\ RoundTrippable(doc) =>
        LET r == ReadValue(<<>>, ParseJSON(out), doc) IN r.ex = "none" /\ r.ok /\ r.st = <<>>

====
