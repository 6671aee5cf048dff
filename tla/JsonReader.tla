------------------------------ MODULE JsonReader ------------------------------
(***************************************************************************)
(* The read side of TSimpleJSONProtocol (TSimpleJSONProtocol.cpp, the     *)
(* "Reading functions").  readStructBegin on an empty parser_context_      *)
(* reads the whole transport and parses it with base::JSONReader; every    *)
(* later read pulls the next value from the frame on top of the stack.     *)
(*                                                                         *)
(* A parsed document is a tree as base::JSONReader builds it:              *)
(*   [j |-> "null"], [j |-> "bool", bool], [j |-> "int", int] (fits an    *)
(*   int), [j |-> "double", double |-> Number], [j |-> "string", str],     *)
(*   [j |-> "dict", dict |-> <<[k, v], ...>>] in DictionaryValue order,    *)
(*   [j |-> "list", list |-> <<...>>].                                     *)
(* A Number is m * 2^e / den (den 2 only for the odd halves, e = 0), so    *)
(* values up to 2^54 are exact without leaving TLC's integers.             *)
(*                                                                         *)
(* The caller is a Thrift-generated read(): it asks for the values of a    *)
(* type in order, and hands every scalar it gets, with its path, to the    *)
(* struct it builds (got).                                                 *)
(***************************************************************************)
EXTENDS Integers, Sequences, SequencesExt, FiniteSets

CONSTANTS
    Cases,           \* [in |-> tree, type |-> Type, want |-> Value or Error]
    CastOutcomes,    \* what static_cast<int> of an out-of-range double yields
    UninitSizes,     \* values an uninitialised uint32_t size may hold
    ResetAfterThrow  \* the caller uses a fresh protocol after an exception

VARIABLES
    stack,      \* parser_context_ (top = last)
    transport,  \* the unread input: a tree, or NoText once read
    case,       \* the document being read
    todo,       \* the caller's remaining reads
    got,        \* [p, v] handed to the caller for this document
    status      \* "reading", "done", "threw" or "crashed"

vars == <<stack, transport, case, todo, got, status>>

Error == [t |-> "error"]
NoText == [j |-> "text"]   \* empty or not JSON: JSONReader returns NULL

-----------------------------------------------------------------------------
(* Numbers.                                                                *)

RECURSIVE Norm(_)
Norm(x) == IF x.m = 0 THEN [m |-> 0, e |-> 0, den |-> 1]
           ELSE IF x.den = 1 /\ x.m % 2 = 0
                THEN Norm([m |-> x.m \div 2, e |-> x.e + 1, den |-> 1])
                ELSE x
IntNum(n) == Norm([m |-> n, e |-> 0, den |-> 1])
Neg(x) == [x EXCEPT !.m = -@]

(* x < 2^k, and x <= 2^k, for 0 <= k <= 60.                                *)
Shift(x, k) == k - x.e + (IF x.den = 2 THEN 1 ELSE 0)
LtPow2(x, k) == IF Shift(x, k) > 30 THEN TRUE
                ELSE IF Shift(x, k) < 0 THEN x.m <= 0 ELSE x.m < 2 ^ Shift(x, k)
LeqPow2(x, k) == IF Shift(x, k) > 30 THEN TRUE
                 ELSE IF Shift(x, k) < 0 THEN x.m <= 0 ELSE x.m <= 2 ^ Shift(x, k)
(* An integral x fits a signed integer of w bits.                          *)
FitsSigned(x, w) == LtPow2(x, w - 1) /\ LeqPow2(Neg(x), w - 1)
ToInt(x) == IF x.e = 0 THEN x.m ELSE (x.m * 2 ^ (x.e - 1)) * 2

-----------------------------------------------------------------------------
(* ParserContext and nextValue.  pos is dict_iter or list_iter.  A LIST    *)
(* frame's dict_iter runs over the empty default_dict.                     *)

Items(tree) == IF tree.j = "list" THEN tree.list ELSE tree.dict
Frame(type, tree) == [type |-> type, val |-> tree, pos |-> 1]
Top(st) == Last(st)
SetTop(st, f) == [st EXCEPT ![Len(st)] = f]
DictAtEnd(f) == f.type = "LIST" \/ f.pos > Len(Items(f.val))

Ok(st, v) == [st |-> st, val |-> v, ex |-> "none"]
Throw(st, e) == [st |-> st, val |-> "none", ex |-> e]

(* Mutant: after a map value, the iterator is not advanced to the next key. *)
nextValueValueNoAdvance(st) ==
    IF st = <<>> THEN Throw(st, "UNKNOWN")
    ELSE LET f == Top(st) IN
         IF f.pos > Len(Items(f.val)) THEN Throw(st, "UB")
         ELSE CASE f.type = "DICT" -> Ok(st, f.val.dict[f.pos].v)
                [] f.type = "LIST" -> Ok(SetTop(st, [f EXCEPT !.pos = @ + 1]), f.val.list[f.pos])
                [] f.type = "MAP_KEY" ->
                     Ok(SetTop(st, [f EXCEPT !.type = "MAP_VALUE"]),
                        [j |-> "string", str |-> f.val.dict[f.pos].k])
                [] f.type = "MAP_VALUE" ->
                     Ok(SetTop(st, [f EXCEPT !.type = "MAP_KEY"]), f.val.dict[f.pos].v)

(* Reading past the end of the iterator is undefined: the process dies.    *)
nextValue(st) ==
    IF st = <<>> THEN Throw(st, "UNKNOWN")
    ELSE LET f == Top(st) IN
         IF f.pos > Len(Items(f.val)) THEN Throw(st, "UB")
         ELSE CASE f.type = "DICT" -> Ok(st, f.val.dict[f.pos].v)
                [] f.type = "LIST" -> Ok(SetTop(st, [f EXCEPT !.pos = @ + 1]), f.val.list[f.pos])
                [] f.type = "MAP_KEY" ->
                     Ok(SetTop(st, [f EXCEPT !.type = "MAP_VALUE"]),
                        [j |-> "string", str |-> f.val.dict[f.pos].k])
                [] f.type = "MAP_VALUE" ->
                     Ok(SetTop(st, [f EXCEPT !.type = "MAP_KEY", !.pos = @ + 1]),
                        f.val.dict[f.pos].v)

(* getParserStackTrace, built into every INVALID_DATA message: "Empty     *)
(* parser context", "list field", or the top frame's dict_iter.key(),      *)
(* which is undefined once the iterator is at its end.                     *)
getParserStackTrace(st) ==
    IF st = <<>> \/ Top(st).type = "LIST" \/ Top(st).pos <= Len(Items(Top(st).val))
    THEN "defined" ELSE "UB"

(* throw TProtocolException(INVALID_DATA, ... + getParserStackTrace()).     *)
InvalidData(st) ==
    Throw(st, IF getParserStackTrace(st) = "UB" THEN "UB_TRACE" ELSE "INVALID_DATA")

parseJSONString(in) == IF in.j = "text" THEN Throw(<<>>, "UNKNOWN") ELSE Ok(<<>>, in)

-----------------------------------------------------------------------------
(* The read calls: the outcome [st, val, ex] of each on the stack.         *)

readStructBegin(st, in) ==
    LET r == IF st = <<>> THEN parseJSONString(in) ELSE nextValue(st) IN
    IF r.ex # "none" THEN r
    ELSE IF r.val.j # "dict" THEN InvalidData(r.st)
    ELSE Ok(Append(r.st, Frame("DICT", r.val)), "struct")

(* std::stack::pop on an empty stack is undefined.                       *)
Pop(st) == IF st = <<>> THEN Throw(st, "UB") ELSE Ok(Front(st), "none")

readStructEnd(st) == Pop(st)

readFieldBegin(st) ==
    IF st = <<>> THEN Throw(st, "UNKNOWN")
    ELSE LET f == Top(st) IN
         IF DictAtEnd(f) THEN Ok(st, "STOP")
         ELSE IF f.val.dict[f.pos].v.j = "null" THEN Ok(st, "")
         ELSE Ok(st, f.val.dict[f.pos].k)

(* Mutant of readFieldEnd: dict_iter.Advance() is never called.           *)
readFieldEndNoAdvance(st) ==
    IF st = <<>> THEN Throw(st, "UNKNOWN") ELSE Ok(st, "none")

readFieldEnd(st) ==
    IF st = <<>> THEN Throw(st, "UNKNOWN")
    ELSE IF DictAtEnd(Top(st)) THEN Ok(st, "none")
    ELSE Ok(SetTop(st, [Top(st) EXCEPT !.pos = @ + 1]), "none")

readMapBegin(st) ==
    LET r == nextValue(st) IN
    IF r.ex # "none" THEN r
    ELSE IF r.val.j # "dict" THEN InvalidData(r.st)
    ELSE Ok(Append(r.st, Frame("MAP_KEY", r.val)), Len(r.val.dict))

(* Mutant: readMapEnd forgets parser_context_.pop().                       *)
readMapEndNoPop(st) == Ok(st, "none")
readMapEnd(st) == Pop(st)

readListBegin(st) ==
    LET r == nextValue(st) IN
    IF r.ex # "none" THEN r
    ELSE IF r.val.j # "list" THEN InvalidData(r.st)
    ELSE Ok(Append(r.st, Frame("LIST", r.val)), Len(r.val.list))

readListEnd(st) == Pop(st)

(* No frame, and size is whatever the caller's variable held.              *)
readSetBegin(st, uninit) == Ok(st, uninit)
readSetEnd(st) == Ok(st, "none")

readBool(st) ==
    LET r == nextValue(st) IN
    IF r.ex # "none" THEN r
    ELSE IF r.val.j # "bool" THEN InvalidData(r.st)
    ELSE Ok(r.st, r.val.bool)

(* GetAsInteger, else an integral GetAsDouble cast to int; the cast of a   *)
(* double outside int's range is undefined (cast).                         *)
readIntegerValue(st, cast) ==
    LET r == nextValue(st) IN
    IF r.ex # "none" THEN r
    ELSE IF r.val.j = "int" THEN Ok(r.st, r.val.int)
    ELSE IF r.val.j # "double" \/ r.val.double.den # 1 THEN InvalidData(r.st)
    ELSE Ok(r.st, IF FitsSigned(r.val.double, 32) THEN ToInt(r.val.double) ELSE cast)

readByte(st, cast) ==
    LET r == readIntegerValue(st, cast) IN
    IF r.ex # "none" THEN r
    ELSE IF r.val > 127 \/ r.val < -128 THEN Throw(r.st, "SIZE_LIMIT")
    ELSE Ok(r.st, IntNum(r.val))

(* Mutant: the int16 upper bound off by one.                               *)
readI16OffByOne(st, cast) ==
    LET r == readIntegerValue(st, cast) IN
    IF r.ex # "none" THEN r
    ELSE IF r.val > 32768 \/ r.val < -32768 THEN Throw(r.st, "SIZE_LIMIT")
    ELSE Ok(r.st, IntNum(r.val))

readI16(st, cast) ==
    LET r == readIntegerValue(st, cast) IN
    IF r.ex # "none" THEN r
    ELSE IF r.val > 32767 \/ r.val < -32768 THEN Throw(r.st, "SIZE_LIMIT")
    ELSE Ok(r.st, IntNum(r.val))

readI32(st, cast) ==
    LET r == readIntegerValue(st, cast) IN
    IF r.ex # "none" THEN r ELSE Ok(r.st, IntNum(r.val))

readI64(st) ==
    LET r == nextValue(st) IN
    IF r.ex # "none" THEN r
    ELSE IF r.val.j = "int" THEN Ok(r.st, IntNum(r.val.int))
    ELSE IF r.val.j # "double" \/ r.val.double.den # 1 THEN InvalidData(r.st)
    ELSE IF ~(LeqPow2(r.val.double, 53) /\ LeqPow2(Neg(r.val.double), 53))
         THEN Throw(r.st, "SIZE_LIMIT")
    ELSE Ok(r.st, Norm(r.val.double))

readDouble(st) ==
    LET r == nextValue(st) IN
    IF r.ex # "none" THEN r
    ELSE IF r.val.j = "int" THEN Ok(r.st, IntNum(r.val.int))
    ELSE IF r.val.j # "double" THEN InvalidData(r.st)
    ELSE Ok(r.st, Norm(r.val.double))

readString(st) ==
    LET r == nextValue(st) IN
    IF r.ex # "none" THEN r
    ELSE IF r.val.j # "string" THEN InvalidData(r.st)
    ELSE Ok(r.st, r.val.str)

readBinary(st) == Throw(st, "NOT_IMPLEMENTED")

(* Messages are not read: readMessageBegin throws before it looks at the   *)
(* input, so readMessageEnd is never reached.                              *)
readMessageBegin(st) == Throw(st, "NOT_IMPLEMENTED")

-----------------------------------------------------------------------------
(* The caller, a Thrift-generated read().  A task reads a value of type ty *)
(* at path p, reads a map key ("key", ty the map type), or is one of the   *)
(* field loop and the container ends.  Values the caller keeps are tagged  *)
(* [t, v]; a path step is a field name, a list index or a map key.         *)

Task(do, ty, p) == [do |-> do, ty |-> ty, p |-> p]
Field(name) == [field |-> name]
Index(i) == [index |-> i]
Kept(ty, v) ==
    CASE ty.t = "bool" -> [bool |-> v]
      [] ty.t \in {"int", "double"} -> [num |-> v]
      [] ty.t = "string" -> [str |-> v]
Size(n) == [size |-> n]
Begun == [struct |-> "begun"]
ScalarType(task) == IF task.do = "key" THEN task.ty.k ELSE task.ty
Closing == {"structEnd", "mapEnd", "listEnd", "setEnd"}

Init ==
    /\ stack = <<>>
    /\ case \in Cases
    /\ transport = case.in
    /\ todo = <<Task("value", case.type, <<>>)>>
    /\ got = {}
    /\ status = "reading"

(* What an exception does: undefined behaviour kills the process; a key() *)
(* read at the end of a std::map either kills it or yields garbage for the *)
(* message of an exception that is then thrown.                           *)
Outcome(ex) ==
    CASE ex = "UB" -> {"crashed"}
      [] ex = "UB_TRACE" -> {"crashed", "threw"}
      [] OTHER -> {"threw"}

(* After a call with outcome r the caller goes on with the reads more     *)
(* (keeping the values new), or abandons the document if the call threw.  *)
Continue(r, more, new) ==
    /\ stack' = r.st
    /\ IF r.ex = "none"
       THEN /\ todo' = more \o Tail(todo)
            /\ got' = got \cup new
            /\ status' = IF todo' = <<>> THEN "done" ELSE "reading"
       ELSE /\ todo' = <<>>
            /\ got' = got
            /\ status' \in Outcome(r.ex)
    /\ UNCHANGED case

Reading(do, t) ==
    /\ status = "reading"
    /\ Head(todo).do = do
    /\ t = "any" \/ Head(todo).ty.t = t

ReadStructBegin ==
    /\ Reading("value", "struct")
    /\ Continue(readStructBegin(stack, transport),
                <<Task("field", Head(todo).ty, Head(todo).p)>>,
                {[p |-> Head(todo).p, v |-> Begun]})
    /\ transport' = IF stack = <<>> THEN NoText ELSE transport

(* A field the struct does not have, and a null one (empty name), is      *)
(* skipped: readFieldEnd moves past it.                                    *)
ReadFieldBegin ==
    /\ Reading("field", "any")
    /\ LET t == Head(todo)
           r == readFieldBegin(stack)
       IN Continue(r,
            IF r.val = "STOP" THEN <<Task("structEnd", t.ty, t.p)>>
            ELSE IF r.val \in DOMAIN t.ty.f
                 THEN <<Task("value", t.ty.f[r.val], Append(t.p, Field(r.val))),
                        Task("fieldEnd", t.ty, t.p), t>>
            ELSE <<Task("fieldEnd", t.ty, t.p), t>>,
            {})
    /\ UNCHANGED transport

ReadFieldEnd ==
    /\ Reading("fieldEnd", "any")
    /\ Continue(readFieldEnd(stack), <<>>, {})
    /\ UNCHANGED transport

(* A processor's read of a call: readMessageBegin, the arguments struct, *)
(* readMessageEnd.                                                         *)
ReadMessageBegin ==
    /\ Reading("value", "message")
    /\ LET t == Head(todo) IN
       Continue(readMessageBegin(stack),
                <<Task("value", t.ty.b, t.p), Task("messageEnd", t.ty, t.p)>>, {})
    /\ UNCHANGED transport

ReadStructEnd ==
    /\ Reading("structEnd", "any")
    /\ Continue(readStructEnd(stack), <<>>, {})
    /\ UNCHANGED transport

ReadMapBegin ==
    /\ Reading("value", "map")
    /\ LET t == Head(todo)
           r == readMapBegin(stack)
       IN Continue(r, [i \in 1..r.val |-> Task("key", t.ty, t.p)] \o <<Task("mapEnd", t.ty, t.p)>>,
                   {[p |-> t.p, v |-> Size(r.val)]})
    /\ UNCHANGED transport

ReadMapEnd ==
    /\ Reading("mapEnd", "any")
    /\ Continue(readMapEnd(stack), <<>>, {})
    /\ UNCHANGED transport

ReadListBegin ==
    /\ Reading("value", "list")
    /\ LET t == Head(todo)
           r == readListBegin(stack)
       IN Continue(r, [i \in 1..r.val |-> Task("value", t.ty.e, Append(t.p, Index(i)))]
                        \o <<Task("listEnd", t.ty, t.p)>>,
                   {[p |-> t.p, v |-> Size(r.val)]})
    /\ UNCHANGED transport

ReadListEnd ==
    /\ Reading("listEnd", "any")
    /\ Continue(readListEnd(stack), <<>>, {})
    /\ UNCHANGED transport

ReadSetBegin ==
    /\ Reading("value", "set")
    /\ \E u \in UninitSizes :
         LET t == Head(todo)
             r == readSetBegin(stack, u)
         IN Continue(r, [i \in 1..r.val |-> Task("value", t.ty.e, Append(t.p, Index(i)))]
                          \o <<Task("setEnd", t.ty, t.p)>>,
                     {[p |-> t.p, v |-> Size(r.val)]})
    /\ UNCHANGED transport

ReadSetEnd ==
    /\ Reading("setEnd", "any")
    /\ Continue(readSetEnd(stack), <<>>, {})
    /\ UNCHANGED transport

(* A scalar read r of type ty: a value is kept at its path; a map key     *)
(* becomes the path of the value read next.                                *)
ReadScalar(ty, r) ==
    LET t == Head(todo) IN
    /\ status = "reading"
    /\ t.do \in {"value", "key"}
    /\ ScalarType(t) = ty
    /\ Continue(r,
         IF t.do = "key" THEN <<Task("value", t.ty.v, Append(t.p, Kept(ty, r.val)))>> ELSE <<>>,
         IF t.do = "value" THEN {[p |-> t.p, v |-> Kept(ty, r.val)]} ELSE {})
    /\ UNCHANGED transport

(* The caller is given the next document, through a fresh protocol object *)
(* after a crash, and after an exception if ResetAfterThrow.               *)
NextDocument ==
    /\ status # "reading"
    /\ \E c \in Cases :
         /\ case' = c
         /\ transport' = c.in
         /\ todo' = <<Task("value", c.type, <<>>)>>
    /\ got' = {}
    /\ status' = "reading"
    /\ stack' = IF status = "crashed" \/ (status = "threw" /\ ResetAfterThrow) THEN <<>> ELSE stack

Next ==
    \/ ReadStructBegin \/ ReadFieldBegin \/ ReadFieldEnd \/ ReadStructEnd
    \/ ReadMapBegin \/ ReadMapEnd \/ ReadListBegin \/ ReadListEnd
    \/ ReadSetBegin \/ ReadSetEnd \/ ReadMessageBegin
    \/ ReadScalar([t |-> "bool"], readBool(stack))
    \/ \E c \in CastOutcomes : ReadScalar([t |-> "int", w |-> 8], readByte(stack, c))
    \/ \E c \in CastOutcomes : ReadScalar([t |-> "int", w |-> 16], readI16(stack, c))
    \/ \E c \in CastOutcomes : ReadScalar([t |-> "int", w |-> 32], readI32(stack, c))
    \/ ReadScalar([t |-> "int", w |-> 64], readI64(stack))
    \/ ReadScalar([t |-> "double"], readDouble(stack))
    \/ ReadScalar([t |-> "string"], readString(stack))
    \/ ReadScalar([t |-> "binary"], readBinary(stack))
    \/ NextDocument

Spec == Init /\ [][Next]_vars

(* The caller's read() runs synchronously to its end or its exception on  *)
(* the one thread that reads the response, so a read step that is enabled *)
(* is eventually taken.                                                    *)
FairSpec == Spec /\ WF_vars(Next)

-----------------------------------------------------------------------------
(* Properties.                                                             *)

(* What the caller must end up with for a Value want (spec sections 4.2   *)
(* and 6): every scalar at its path, every container with its size.       *)
RECURSIVE Leaves(_, _)
Leaves(v, p) ==
    CASE v.t \in {"bool", "int", "double", "string"} -> {[p |-> p, v |-> Kept(v, v.v)]}
      [] v.t = "struct" ->
           {[p |-> p, v |-> Begun]}
           \cup UNION {Leaves(v.v[i].val, Append(p, Field(v.v[i].name))) : i \in DOMAIN v.v}
      [] v.t = "map" ->
           {[p |-> p, v |-> Size(Len(v.v))]}
           \cup UNION {Leaves(v.v[i].v, Append(p, Kept(v.v[i].k, v.v[i].k.v))) : i \in DOMAIN v.v}
      [] v.t \in {"list", "set"} ->
           {[p |-> p, v |-> Size(Len(v.v))]}
           \cup UNION {Leaves(v.v[i], Append(p, Index(i))) : i \in DOMAIN v.v}


(* A document is read as the spec says, through a protocol object that     *)
(* earlier documents used: whatever readStructBegin, nextValue and the     *)
(* typed reads hand the caller is a value of this document at its path; a *)
(* document read to the end gives all of it; a read fails exactly when the *)
(* spec says it must (wrong shape, fraction, out of the width's range,     *)
(* binary, a message), and never by undefined behaviour.                   *)
ReadAsSpecified ==
    /\ status # "crashed"
    /\ case.want.t = "error" => status # "done"
    /\ case.want.t # "error" =>
         /\ got \subseteq Leaves(case.want, <<>>)
         /\ status = "done" => got = Leaves(case.want, <<>>)
         /\ status # "threw"

(* parser_context_ mirrors the caller's nesting: while a document is being *)
(* read there is one frame per struct, map or list the caller has begun   *)
(* and not ended (readSetBegin pushes none; ReadAsSpecified is about      *)
(* that), so readStructBegin of each document finds the stack empty and   *)
(* parses the new input rather than pulling from an old frame.            *)
OpenContainers ==
    Len(SelectSeq(todo, LAMBDA t : t.do \in {"field", "structEnd", "mapEnd", "listEnd"}))
StackMirrorsNesting == status = "reading" => Len(stack) = OpenContainers

(* Every document read ends: the struct loop of read() stops because       *)
(* readFieldEnd advances dict_iter until readFieldBegin reports T_STOP,    *)
(* and list, set and map loops run a size taken from the document.  A read *)
(* either returns the Value, throws, or crashes; it never loops forever.   *)
DocumentTerminates == status = "reading" ~> status \in {"done", "threw", "crashed"}

=============================================================================
