--------------------------- MODULE SchemaRegistry ---------------------------
(***************************************************************************)
(* Schemas and the schema registry of brokerlite/serializer.py: versions   *)
(* of one schema name, the validation of documents, and the compatibility  *)
(* check between consecutive versions.                                     *)
(*                                                                         *)
(* A document maps field names to the Python types of their values; it     *)
(* need not have every field, and may have fields no schema mentions.      *)
(***************************************************************************)
EXTENDS Integers, FiniteSetsExt

CONSTANTS
    FieldNames,
    TypeNames,      \* type names schemas use, from the keys of TYPE_MAP or not
    ValueTypes,     \* Python types of the values of documents
    MaxVersion,     \* bound of the model: versions 1 to MaxVersion
    MaxRegistrations \* bound of the model: calls of register

Partial(S, T) == UNION {[D -> T] : D \in SUBSET S}

Documents == Partial(FieldNames, ValueTypes)

SchemaRegistryAssumption ==
    /\ MaxVersion \in Nat /\ MaxRegistrations \in Nat
    /\ ValueTypes \subseteq {"str", "int", "float", "bool", "list", "dict"}

VARIABLES
    schemas,        \* _schemas[name]: a partial function of the versions
    registrations   \* calls of register so far

vars == <<schemas, registrations>>

Init == schemas = <<>> /\ registrations = 0

-----------------------------------------------------------------------------
\* Schema.__init__: an empty list of required fields is false, so all are.
Schema(fields, required) ==
    [fields |-> fields, required |-> IF required = {} THEN DOMAIN fields ELSE required]

\* TYPE_MAP and isinstance: bool is a subclass of int, and an unknown type
\* name is not checked.
Accepts(typeName, type) ==
    CASE typeName = "string" -> type = "str"
      [] typeName = "int"    -> type \in {"int", "bool"}
      [] typeName = "float"  -> type \in {"int", "float", "bool"}
      [] typeName \in {"bool", "list", "dict"} -> type = typeName
      [] OTHER               -> TRUE

\* Schema.validate, for a dictionary.
Validate(schema, doc) ==
    /\ schema.required \subseteq DOMAIN doc
    /\ \A f \in DOMAIN doc \cap DOMAIN schema.fields : Accepts(schema.fields[f], doc[f])

Versions == DOMAIN schemas

\* SchemaRegistry.get without a version.
Latest == schemas[Max(Versions)]

IsBackwardCompatible_Swapped(v) ==
    {v - 1, v} \subseteq Versions => schemas[v - 1].required \subseteq schemas[v].required

\* is_backward_compatible; a version that is missing is no objection.
IsBackwardCompatible(v) ==
    {v - 1, v} \subseteq Versions => schemas[v].required \subseteq schemas[v - 1].required

\* register, for the first time or again.
Register(version, fields, required) ==
    /\ registrations < MaxRegistrations
    /\ registrations' = registrations + 1
    /\ schemas' = [v \in Versions \cup {version} |->
                      IF v = version THEN Schema(fields, required) ELSE schemas[v]]

Next ==
    \E v \in 1 .. MaxVersion, fields \in Partial(FieldNames, TypeNames),
       required \in SUBSET FieldNames : Register(v, fields, required)

Spec == Init /\ [][Next]_vars

-----------------------------------------------------------------------------
\* A change of types the check does not look at: every field the newer schema
\* gives a type had one before, and what it allowed is allowed still.
Widens(old, new) ==
    \A f \in DOMAIN new.fields :
        /\ f \in DOMAIN old.fields
        /\ \A t \in ValueTypes : Accepts(old.fields[f], t) => Accepts(new.fields[f], t)

(* What is_backward_compatible is for ("new schema can read data written   *)
(* by old schema", serializer.py 272): a document accepted under version v *)
(* is accepted under the latest, if all versions in between are registered *)
(* and each was found compatible with the one before.  The check sees the  *)
(* required fields only, so the types must have been widened or kept.      *)
StillReadable ==
    \A v \in Versions : \A doc \in Documents :
        LET later == v + 1 .. Max(Versions) IN
        /\ later \subseteq Versions
        /\ \A n \in later : IsBackwardCompatible(n) /\ Widens(schemas[n - 1], schemas[n])
        /\ Validate(schemas[v], doc)
        => Validate(Latest, doc)
=============================================================================
