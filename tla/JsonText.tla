------------------------------ MODULE JsonText ------------------------------
(***************************************************************************)
(* What a JSON text means: the reference the JSON writer is checked        *)
(* against.  A Value of the Value Model (spec section 3) is denoted by a   *)
(* byte sequence under the mapping of spec sections 4.1 and 6 and the      *)
(* JSON grammar of RFC 8259:                                               *)
(*   struct, map   -> object (map keys and field names as strings)         *)
(*   list, set     -> array                                                *)
(*   integer       -> number, or a string holding it in key position       *)
(*   double        -> number; NaN, Infinity, -Infinity as strings          *)
(*   bool          -> true/false, or a string holding it in key position   *)
(*   string        -> string, escapes decoded                              *)
(*   binary        -> string holding its padded base64 (RFC 4648)          *)
(*   message       -> array [1, name, type, seqid, body]                   *)
(* A Value is a record with a tag t; containers hold sequences.            *)
(***************************************************************************)
EXTENDS Integers, Sequences, TLC

Fail == -1

(* Byte codes used below.                                                  *)
Quote == 34
Backslash == 92
IsDigit(b) == b \in 48..57
HexValue(b) ==
    CASE b \in 48..57 -> b - 48
      [] b \in 97..102 -> b - 87
      [] b \in 65..70 -> b - 55
      [] OTHER -> Fail

(* The RFC 4648 base64 alphabet and padded encoding.                       *)
B64Alphabet(x) ==
    CASE x < 26 -> 65 + x
      [] x < 52 -> 97 + (x - 26)
      [] x < 62 -> 48 + (x - 52)
      [] x = 62 -> 43
      [] OTHER -> 47
Pad == 61

RECURSIVE RefBase64(_)
RefBase64(bytes) ==
    IF bytes = <<>> THEN <<>>
    ELSE LET n     == Len(bytes)
             grp   == [i \in 1..3 |-> IF i <= n THEN bytes[i] ELSE 0]
             bits  == grp[1] * 65536 + grp[2] * 256 + grp[3]
             sext  == [i \in 1..4 |-> (bits \div (2 ^ (18 - 6 * (i - 1)))) % 64]
             used  == IF n >= 3 THEN 4 ELSE n + 1
             chars == [i \in 1..4 |-> IF i <= used THEN B64Alphabet(sext[i]) ELSE Pad]
         IN chars \o RefBase64(IF n > 3 THEN SubSeq(bytes, 4, n) ELSE <<>>)

-----------------------------------------------------------------------------
(* Lexical rules of RFC 8259 over a byte sequence s from index i.          *)

(* A string token: [ok, bytes (escapes decoded), next].                    *)
RECURSIVE StringBody(_, _, _)
StringBody(s, i, acc) ==
    LET bad == [ok |-> FALSE, bytes |-> acc, next |-> Fail] IN
    IF i > Len(s) THEN bad
    ELSE IF s[i] = Quote THEN [ok |-> TRUE, bytes |-> acc, next |-> i + 1]
    ELSE IF s[i] < 32 THEN bad
    ELSE IF s[i] # Backslash THEN StringBody(s, i + 1, Append(acc, s[i]))
    ELSE IF i + 1 > Len(s) THEN bad
    ELSE LET e == s[i + 1]
             simple == (34 :> 34) @@ (92 :> 92) @@ (47 :> 47) @@ (98 :> 8)
                        @@ (102 :> 12) @@ (110 :> 10) @@ (114 :> 13) @@ (116 :> 9)
         IN IF e \in DOMAIN simple THEN StringBody(s, i + 2, Append(acc, simple[e]))
            ELSE IF e = 117 /\ i + 5 <= Len(s)
                    /\ \A j \in i + 2..i + 5 : HexValue(s[j]) # Fail
                 THEN StringBody(s, i + 6,
                        Append(acc, ((HexValue(s[i+2]) * 16 + HexValue(s[i+3])) * 16
                                     + HexValue(s[i+4])) * 16 + HexValue(s[i+5])))
            ELSE bad

ParseString(s, i) ==
    IF i <= Len(s) /\ s[i] = Quote THEN StringBody(s, i + 1, <<>>)
    ELSE [ok |-> FALSE, bytes |-> <<>>, next |-> Fail]

(* A run of digits: [val, count, next].                                    *)
RECURSIVE DigitRun(_, _, _, _)
DigitRun(s, i, val, cnt) ==
    IF i <= Len(s) /\ IsDigit(s[i])
    THEN DigitRun(s, i + 1, val * 10 + (s[i] - 48), cnt + 1)
    ELSE [val |-> val, count |-> cnt, next |-> i]

(* A number token -?int(.frac)?: its value num/den and the next index.     *)
ParseNumber(s, i) ==
    LET neg  == i <= Len(s) /\ s[i] = 45
        ip   == DigitRun(s, IF neg THEN i + 1 ELSE i, 0, 0)
        j    == ip.next
        frac == IF j <= Len(s) /\ s[j] = 46 THEN DigitRun(s, j + 1, ip.val, 0)
                ELSE [val |-> ip.val, count |-> 0, next |-> j]
        sign == IF neg THEN -1 ELSE 1
        leadingZero == ip.count > 1 /\ s[IF neg THEN i + 1 ELSE i] = 48
        fracOk == j > Len(s) \/ s[j] # 46 \/ frac.count > 0
    IN IF ip.count = 0 \/ leadingZero \/ ~fracOk
       THEN [ok |-> FALSE, num |-> 0, den |-> 1, next |-> Fail]
       ELSE [ok |-> TRUE, num |-> sign * frac.val, den |-> 10 ^ frac.count,
             next |-> frac.next]

Expect(s, i, b) == IF i # Fail /\ i <= Len(s) /\ s[i] = b THEN i + 1 ELSE Fail

ExpectBytes(s, i, bs) ==
    IF i # Fail /\ i + Len(bs) - 1 <= Len(s)
       /\ \A k \in 1..Len(bs) : s[i + k - 1] = bs[k]
    THEN i + Len(bs) ELSE Fail

(* A string token at i whose decoded content is exactly bs.                *)
StringOf(s, i, bs) ==
    LET t == ParseString(s, i) IN
    IF i # Fail /\ t.ok /\ t.bytes = bs THEN t.next ELSE Fail

(* A number token at i with value num/den.                                 *)
NumberOf(s, i, num, den) ==
    LET t == ParseNumber(s, i) IN
    IF i # Fail /\ t.ok /\ t.num * den = num * t.den THEN t.next ELSE Fail

(* A string token at i whose content is a number token with value num/den. *)
QuotedNumberOf(s, i, num, den) ==
    LET t == ParseString(s, i) IN
    IF i # Fail /\ t.ok /\ NumberOf(t.bytes, 1, num, den) = Len(t.bytes) + 1
    THEN t.next ELSE Fail

-----------------------------------------------------------------------------
(* The meaning of the Value Model.                                         *)

Txt(str) == CASE str = "true" -> <<116, 114, 117, 101>>
              [] str = "false" -> <<102, 97, 108, 115, 101>>
              [] str = "NaN" -> <<78, 97, 78>>
              [] str = "Infinity" -> <<73, 110, 102, 105, 110, 105, 116, 121>>
              [] str = "-Infinity" -> <<45, 73, 110, 102, 105, 110, 105, 116, 121>>

(* Doubles of the model: the finite 1.5 and the special values.            *)
DoubleKinds == {"1.5", "nan", "-nan", "inf", "-inf"}
SpecialName(d) == CASE d \in {"nan", "-nan"} -> "NaN"
                    [] d = "inf" -> "Infinity"
                    [] d = "-inf" -> "-Infinity"

(* Denotes(v, s, i, key): the index after a JSON value at i that denotes   *)
(* v (in map-key position if key), or Fail.                                *)
RECURSIVE Denotes(_, _, _, _), Members(_, _, _), Elements(_, _, _)
Denotes(v, s, i, key) ==
    CASE i = Fail -> Fail
      [] v.t = "bool" ->
           LET lit == Txt(IF v.v THEN "true" ELSE "false") IN
           IF key THEN StringOf(s, i, lit) ELSE ExpectBytes(s, i, lit)
      [] v.t = "int" ->
           IF key THEN QuotedNumberOf(s, i, v.v, 1) ELSE NumberOf(s, i, v.v, 1)
      [] v.t = "double" /\ v.v = "1.5" ->
           IF key THEN QuotedNumberOf(s, i, 3, 2) ELSE NumberOf(s, i, 3, 2)
      [] v.t = "double" -> StringOf(s, i, Txt(SpecialName(v.v)))
      [] v.t = "string" -> StringOf(s, i, v.v)
      [] v.t = "binary" -> StringOf(s, i, RefBase64(v.v))
      [] key -> Fail
      [] v.t = "struct" ->
           Expect(s, Members([k \in DOMAIN v.v |->
                                [k |-> [t |-> "string", v |-> v.v[k].name],
                                 v |-> v.v[k].val]], s, Expect(s, i, 123)), 125)
      [] v.t = "map" -> Expect(s, Members(v.v, s, Expect(s, i, 123)), 125)
      [] v.t \in {"list", "set"} -> Expect(s, Elements(v.v, s, Expect(s, i, 91)), 93)
      [] v.t = "message" ->
           Expect(s, Elements(<<[t |-> "int", v |-> 1], [t |-> "string", v |-> v.name],
                                [t |-> "int", v |-> v.type], [t |-> "int", v |-> v.seqid],
                                v.v>>, s, Expect(s, i, 91)), 93)

(* key:value members separated by commas.                                  *)
Members(es, s, i) ==
    IF es = <<>> \/ i = Fail THEN i
    ELSE LET kv == Denotes(es[1].v, s,
                     Expect(s, Denotes(es[1].k, s, i, TRUE), 58), FALSE)
         IN IF Len(es) = 1 THEN kv ELSE Members(Tail(es), s, Expect(s, kv, 44))

(* Array elements separated by commas.                                     *)
Elements(vs, s, i) ==
    IF vs = <<>> \/ i = Fail THEN i
    ELSE LET e == Denotes(vs[1], s, i, FALSE)
         IN IF Len(vs) = 1 THEN e ELSE Elements(Tail(vs), s, Expect(s, e, 44))

(* s is exactly one JSON text that denotes v.                              *)
IsTextOf(v, s) == Denotes(v, s, 1, FALSE) = Len(s) + 1

=============================================================================
