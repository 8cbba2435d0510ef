----------------------------- MODULE Serializer -----------------------------
(***************************************************************************)
(* BinarySerializer of brokerlite/serializer.py, and the values of         *)
(* messages on their way through to_bytes and from_bytes of                *)
(* brokerlite/message.py.                                                  *)
(*                                                                         *)
(* Serialized data are a sequence of numbers: a tag, a word (an integer, a *)
(* float or a length) or a byte is one element.  A word that does not fit  *)
(* raises an exception; Error stands for every exception.  A value is a    *)
(* record of its Python type and its contents; text is a sequence of       *)
(* characters.                                                             *)
(***************************************************************************)
EXTENDS Integers, SequencesExt

CONSTANTS
    MaxInt, MaxLen,  \* largest signed integer and largest length of a word
    Values,          \* values to serialize
    Payloads         \* values of messages: sequences of bytes

SerializerAssumption == MaxInt \in Nat /\ MaxLen \in Nat

Val(type, contents) == [type |-> type, v |-> contents]
Error == <<-1>>

VARIABLES
    given, data,     \* the argument and the result of serialize; <<>> before it
    result,          \* what deserialize has returned: the value, and the bytes left
    original,        \* the value of a message, <<>> if there is none
    payload          \* what has become of it

vars == <<given, data, result, original, payload>>

Init ==
    /\ given = Val("none", 0) /\ data = <<>> /\ result = <<>>
    /\ original = <<>> /\ payload = <<>>

-----------------------------------------------------------------------------
(* UTF-8, with a character "a" of one byte and "e" of two.  The bytes of   *)
(* the replacement character are one unit.                                 *)

Ascii == 10
Lead  == 11
Cont  == 12
Fffd  == 13

Utf8 == [a |-> <<Ascii>>, e |-> <<Lead, Cont>>, fffd |-> <<Fffd>>]

Encode(chars) == FlattenSeq([i \in DOMAIN chars |-> Utf8[chars[i]]])

Drop(s, n) == SubSeq(s, n + 1, Len(s))

\* decode with errors="replace"; without, bytes that it changes raise.
RECURSIVE Decode(_)
Decode(bytes) ==
    CASE bytes = <<>>                    -> <<>>
      [] IsPrefix(<<Lead, Cont>>, bytes) -> <<"e">> \o Decode(Drop(bytes, 2))
      [] IsPrefix(<<Ascii>>, bytes)      -> <<"a">> \o Decode(Tail(bytes))
      [] OTHER                           -> <<"fffd">> \o Decode(Tail(bytes))

-----------------------------------------------------------------------------
(* _pack *)

Tag == [none |-> 0, bool |-> 1, int |-> 2, float |-> 3, str |-> 4, bytes |-> 5,
        list |-> 6, tuple |-> 6, dict |-> 7]

Join(parts) == IF Error \in ToSet(parts) THEN Error ELSE FlattenSeq(parts)

\* struct.pack of a tag and a length, and what follows.
Sized(type, n, parts) ==
    IF n > MaxLen THEN Error ELSE Join(<<<<Tag[type], n>>>> \o parts)

TextLength_Chars(chars) == Len(chars)

TextLength(chars) == Len(Encode(chars))

RECURSIVE Pack(_)
Pack(x) ==
    CASE x.type = "none"  -> <<Tag.none>>
      [] x.type = "bool"  -> <<Tag.bool, IF x.v THEN 1 ELSE 0>>
      [] x.type = "int"   -> IF x.v \in -MaxInt - 1 .. MaxInt THEN <<Tag.int, x.v>> ELSE Error
      [] x.type = "float" -> <<Tag.float, x.v>>
      [] x.type = "str"   -> Sized("str", TextLength(x.v), <<Encode(x.v)>>)
      [] x.type = "bytes" -> Sized("bytes", Len(x.v), <<x.v>>)
      [] x.type \in {"list", "tuple"} ->
             Sized("list", Len(x.v), [i \in DOMAIN x.v |-> Pack(x.v[i])])
      [] x.type = "dict"  ->
             Sized("dict", Len(x.v),
                   [i \in DOMAIN x.v |-> Join(<<Pack(x.v[i][1]), Pack(x.v[i][2])>>)])
      [] OTHER            -> Error

-----------------------------------------------------------------------------
(* _unpack returns the value and, for the offset, the bytes after it *)

Failed == <<Val("none", 0), Error>>

\* data[offset:offset + n], which is shorter if the data are.
Slice(s, n) == SubSeq(s, 1, IF n < Len(s) THEN n ELSE Len(s))

Text(bytes, rest) ==
    IF Encode(Decode(bytes)) = bytes THEN <<Val("str", Decode(bytes)), rest>> ELSE Failed

\* result[key] = val: a key that is there already keeps its place.
Put(pairs, key, x) ==
    LET same == {i \in DOMAIN pairs : pairs[i][1].type = key.type /\ pairs[i][1].v = key.v}
    IN IF same = {} THEN Append(pairs, <<key, x>>)
       ELSE [i \in DOMAIN pairs |-> IF i \in same THEN <<key, x>> ELSE pairs[i]]

RECURSIVE Unpack(_), UnpackItems(_, _, _), UnpackPairs(_, _, _)
Unpack(s) ==
    IF s = <<>> THEN Failed
    ELSE IF s[1] = Tag.none THEN <<Val("none", 0), Tail(s)>>
    ELSE IF Len(s) = 1 THEN Failed
    ELSE LET n == s[2]
             body == Drop(s, 2)
         IN CASE s[1] = Tag.bool  -> <<Val("bool", n # 0), body>>
              [] s[1] = Tag.int   -> <<Val("int", n), body>>
              [] s[1] = Tag.float -> <<Val("float", n), body>>
              [] s[1] = Tag.str   -> Text(Slice(body, n), Drop(body, n))
              [] s[1] = Tag.bytes -> <<Val("bytes", Slice(body, n)), Drop(body, n)>>
              [] s[1] = Tag.list  -> UnpackItems(n, <<>>, body)
              [] s[1] = Tag.dict  -> UnpackPairs(n, <<>>, body)
              [] OTHER            -> Failed

UnpackItems(n, items, s) ==
    IF n = 0 THEN <<Val("list", items), s>>
    ELSE LET item == Unpack(s) IN
         IF item[2] = Error THEN Failed
         ELSE UnpackItems(n - 1, Append(items, item[1]), item[2])

\* A list or a dictionary cannot be a key.
UnpackPairs(n, pairs, s) ==
    IF n = 0 THEN <<Val("dict", pairs), s>>
    ELSE LET key == Unpack(s)
             val == Unpack(key[2])
         IN IF Error \in {key[2], val[2]} \/ key[1].type \in {"list", "dict"} THEN Failed
            ELSE UnpackPairs(n - 1, Put(pairs, key[1], val[1]), val[2])

Serialize(x) ==
    /\ data = <<>> /\ original = <<>>
    /\ given' = x
    /\ data' = Pack(x)
    /\ UNCHANGED <<result, original, payload>>

Deserialize ==
    /\ data \notin {<<>>, Error}
    /\ result = <<>>
    /\ result' = Unpack(data)
    /\ UNCHANGED <<given, data, original, payload>>

\* A message is made; a value given as text is encoded first.
NewMessage(value) ==
    /\ data = <<>> /\ original = <<>>
    /\ original' = value /\ payload' = value
    /\ UNCHANGED <<given, data, result>>

\* It goes through to_dict and from_dict (to_bytes and from_bytes,
\* or clone); its other fields are copied.
Convert ==
    /\ payload' = Encode(Decode(payload))
    /\ UNCHANGED <<given, data, result, original>>

Next ==
    \/ \E x \in Values : Serialize(x)
    \/ Deserialize
    \/ \E value \in Payloads : NewMessage(value)
    \/ Convert

Spec == Init /\ [][Next]_vars

-----------------------------------------------------------------------------
\* What a value is expected to come back as: a tuple becomes a list.
RECURSIVE Normal(_)
Normal(x) ==
    CASE x.type \in {"list", "tuple"} -> Val("list", [i \in DOMAIN x.v |-> Normal(x.v[i])])
      [] x.type = "dict" ->
             Val("dict", [i \in DOMAIN x.v |-> <<x.v[i][1], Normal(x.v[i][2])>>])
      [] OTHER -> x

RECURSIVE TupleKeyed(_)
TupleKeyed(x) ==
    \/ x.type \in {"list", "tuple"} /\ \E i \in DOMAIN x.v : TupleKeyed(x.v[i])
    \/ x.type = "dict" /\ \E i \in DOMAIN x.v :
           x.v[i][1].type = "tuple" \/ TupleKeyed(x.v[i][2])

(* Whatever serialize accepts, deserialize gives back, nested values and   *)
(* the numbers at the limits included, and the reading ends where the      *)
(* writing did (serializer.py 85-156).  The exception is a dictionary with *)
(* a tuple as a key, which is written and cannot be read.  The value of a  *)
(* message survives conversions if it is text, and otherwise is damaged by *)
(* the first and by no other (message.py 134, 151).                        *)
RoundTrip ==
    /\ result # <<>> =>
           result = IF TupleKeyed(given) THEN Failed ELSE <<Normal(given), <<>>>>
    /\ payload \in {original, Encode(Decode(original))}
    /\ (\E t \in SeqOf({"a", "e", "fffd"}, Len(original)) : Encode(t) = original)
           => payload = original
=============================================================================
