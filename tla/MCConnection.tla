---------------------------- MODULE MCConnection ----------------------------
(***************************************************************************)
(* The client's connection, and the serializer whose results it carries,   *)
(* each in its own small instance.  They do not share state; the variable  *)
(* which names the one whose behaviour this is, and the other stays in its *)
(* initial state.                                                          *)
(***************************************************************************)
EXTENDS Connection, TLC

CONSTANTS MaxInt, MaxLen                                 \* Serializer

\* Values of every type, among them integers and texts that are too large, in
\* lists, in dictionaries, and in dictionaries within lists.
Value(type, contents) == [type |-> type, v |-> contents]
Atoms ==
    {Value("none", 0), Value("bool", TRUE), Value("float", 1), Value("bytes", <<11>>)}
    \cup {Value("int", n) : n \in {-3, -2, 1, 2}}
    \cup {Value("str", t) : t \in {<<>>, <<"e", "a">>, <<"e", "e">>}}
Keys1 == {Value("int", 1), Value("str", <<"e">>), Value("tuple", <<Value("none", 0)>>)}
Dicts ==
    {Value("dict", <<<<k, x>>>>) : k \in Keys1, x \in Atoms} \cup
    {Value("dict", <<<<Value("bytes", <<>>), x>>, <<k, y>>>>) : k \in Keys1, x, y \in Atoms}
Values ==
    Atoms \cup Dicts
    \cup {Value(type, s) : type \in {"list", "tuple"}, s \in SeqOf(Atoms, 2)}
    \cup {Value("list", <<x, y>>) : x \in Dicts, y \in Atoms}
    \cup {Value("tuple", <<x, x, x, x>>) : x \in Atoms}

\* Texts of messages, and bytes that are no text.
Payloads == SeqOf(10 .. 13, 4)

VARIABLES which, given, data, result, original, payload

seVars == <<given, data, result, original, payload>>

SE == INSTANCE Serializer

ASSUME WireAssumption == SE!SerializerAssumption

WireInit == which \in {"connection", "serializer"} /\ Init /\ SE!Init

NextConnection == which = "connection" /\ Next /\ UNCHANGED <<which, seVars>>
NextSerializer == which = "serializer" /\ SE!Next /\ UNCHANGED <<which, vars>>

WireNext == NextConnection \/ NextSerializer

WireSpec == WireInit /\ [][WireNext]_<<which, vars, seVars>> /\ Fairness

-----------------------------------------------------------------------------
(* Of the connection, the properties of Connection are checked by their    *)
(* names; this is the one of Serializer, with its comment there.           *)

\* Serializer: what was written can be read.
RoundTrip == which = "serializer" => SE!RoundTrip
=============================================================================
