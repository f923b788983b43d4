---------------------------- MODULE ToolSchemas ----------------------------
(***************************************************************************)
(* With which schema a tool may be declared, and what a call must then     *)
(* look like: the executable subset of JSON schema and the flat contracts  *)
(* of the registered tools (gateway/tools/bound.py).  These are the values *)
(* of the constants SchemaCompiles, SchemaIsFlat and SchemaMatches of      *)
(* ToolCalls.                                                              *)
(*                                                                         *)
(* Arguments and schemas are documents of JsonShapes; a string in an       *)
(* argument is a sequence of atoms (ToolCalls).                            *)
(***************************************************************************)
EXTENDS JsonShapes
LOCAL INSTANCE FiniteSetsExt
LOCAL INSTANCE Functions

CONSTANTS
    MaxSchemaDepth, \* MAX_SCHEMA_DEPTH
    MaxSchemaNodes, \* MAX_SCHEMA_NODES
    MaxSchemaItems  \* MAX_SCHEMA_COLLECTION, inside of a schema

(* Values of integer and boolean keywords.                                 *)
Limits(schema, key, otherwise) == IF key \in DOMAIN Of(schema) THEN Of(Of(schema)[key]) ELSE otherwise
HasKey(schema, key) == Kind(schema) = "obj" /\ key \in DOMAIN Of(schema)
Member(schema, key) == Of(schema)[key]
Members(schema, key) == IF HasKey(schema, key) THEN Of(Member(schema, key)) ELSE <<>>

Types == {"null", "boolean", "object", "array", "number", "integer", "string"}
Combiners == {"allOf", "anyOf", "oneOf"}
Annotations == {"title", "description", "$comment", "default", "examples", "readOnly"}
Draft == "https://json-schema.org/draft/2020-12/schema"
Bounds == {"minLength", "maxLength", "minItems", "maxItems", "minProperties", "maxProperties"}
NumberBounds == {"minimum", "maximum", "exclusiveMinimum", "exclusiveMaximum"}
Collections == Combiners \cup {"properties", "required", "enum"}
SchemaKeys == Annotations \cup Bounds \cup NumberBounds \cup Combiners
    \cup {"type", "properties", "required", "additionalProperties", "enum", "const", "items",
          "uniqueItems", "$schema"}

(* "type" is one name or a list of them.                                   *)
TypesOf(schema) ==
    LET t == Member(schema, "type") IN
    IF Kind(t) = "arr" THEN {Of(Of(t)[i]) : i \in DOMAIN Of(t)} ELSE {Of(t)}

(* The schemas directly below a schema, each with its place.               *)
Children(schema) ==
    {<<"properties", k, Members(schema, "properties")[k]>> : k \in DOMAIN Members(schema, "properties")}
    \cup {<<k, 0, Member(schema, k)>> : k \in {"items", "additionalProperties"} \cap DOMAIN Of(schema)}
    \cup UNION {{<<c, i, Members(schema, c)[i]>> : i \in DOMAIN Members(schema, c)} : c \in Combiners}

RECURSIVE Budget(_)
(* The budget that a schema uses up.                                       *)
Budget(schema) ==
    IF Kind(schema) = "flag" THEN 1
    ELSE 1 + MapThenSumSet(LAMBDA child : Budget(child[3]), Children(schema))

RECURSIVE LiteralFits(_, _)
(* _json_literal: a literal of a schema is small, too.                     *)
LiteralFits(literal, depth) ==
    /\ depth <= MaxSchemaDepth
    /\ Kind(literal) \in {"arr", "obj"} =>
        /\ Cardinality(DOMAIN Of(literal)) <= MaxSchemaItems
        /\ \A k \in DOMAIN Of(literal) : LiteralFits(Of(literal)[k], depth + 1)

RECURSIVE CompilesAt(_, _)
(* _compile_schema: known keywords only, each of its kind.                 *)
CompilesAt(schema, depth) ==
    /\ depth <= MaxSchemaDepth
    /\ \/ Kind(schema) = "flag"
       \/ /\ Kind(schema) = "obj" /\ DOMAIN Of(schema) \subseteq SchemaKeys
          /\ HasKey(schema, "$schema") => Member(schema, "$schema") = Str(Draft)
          /\ HasKey(schema, "type") =>
                /\ TypesOf(schema) # {} /\ TypesOf(schema) \subseteq Types
                /\ Kind(Member(schema, "type")) = "arr" => IsInjective(Members(schema, "type"))
          /\ \A c \in Collections : Cardinality(DOMAIN Members(schema, c)) <= MaxSchemaItems
          /\ \A c \in Combiners : HasKey(schema, c) =>
                Kind(Member(schema, c)) = "arr" /\ Members(schema, c) # <<>>
          /\ HasKey(schema, "properties") => Kind(Member(schema, "properties")) = "obj"
          /\ HasKey(schema, "required") =>
                Kind(Member(schema, "required")) = "arr" /\ IsInjective(Members(schema, "required"))
          /\ HasKey(schema, "enum") =>
                /\ Members(schema, "enum") # <<>>
                /\ \A i \in DOMAIN Members(schema, "enum") : LiteralFits(Members(schema, "enum")[i], 0)
          /\ HasKey(schema, "const") => LiteralFits(Member(schema, "const"), 0)
          /\ \A b \in Bounds \cup NumberBounds : HasKey(schema, b) => Kind(Member(schema, b)) = "num"
          /\ HasKey(schema, "uniqueItems") => Kind(Member(schema, "uniqueItems")) = "flag"
          /\ \A c \in Children(schema) : CompilesAt(c[3], depth + 1)
Compiles(schema) == CompilesAt(schema, 0) /\ Budget(schema) <= MaxSchemaNodes

(* _is_type.                                                               *)
IsType(value, t) ==
    Kind(value) = [null |-> "null", boolean |-> "flag", object |-> "obj", array |-> "arr",
                   number |-> "num", integer |-> "num", string |-> "str"][t]

Length(value) == IF Kind(value) = "obj" THEN Cardinality(DOMAIN Of(value)) ELSE Len(Of(value))
Within(schema, value, least, most) ==
    /\ Length(value) >= Limits(schema, least, 0)
    /\ Length(value) <= Limits(schema, most, Length(value))

(* _equal, for the literals of a schema; a literal text is one atom.       *)
Equals(value, literal) ==
    /\ Kind(value) = Kind(literal)
    /\ IF Kind(value) = "str" THEN Of(value) = <<Of(literal)>> ELSE value = literal

RECURSIVE Matches(_, _)
(* _matches: the value satisfies every keyword that applies to its kind.   *)
Matches(schema, value) ==
    \/ Kind(schema) = "flag" /\ Of(schema)
    \/ /\ Kind(schema) = "obj"
       /\ HasKey(schema, "type") => \E t \in TypesOf(schema) : IsType(value, t)
       /\ HasKey(schema, "const") => Equals(value, Member(schema, "const"))
       /\ HasKey(schema, "enum") =>
            \E i \in DOMAIN Members(schema, "enum") : Equals(value, Members(schema, "enum")[i])
       /\ LET fit(c) == {i \in DOMAIN Members(schema, c) : Matches(Members(schema, c)[i], value)} IN
          /\ fit("allOf") = DOMAIN Members(schema, "allOf")
          /\ HasKey(schema, "anyOf") => fit("anyOf") # {}
          /\ HasKey(schema, "oneOf") => Cardinality(fit("oneOf")) = 1
       /\ Kind(value) = "obj" =>
            /\ \A i \in DOMAIN Members(schema, "required") :
                    Of(Members(schema, "required")[i]) \in DOMAIN Of(value)
            /\ \A k \in DOMAIN Of(value) :
                    Matches(IF k \in DOMAIN Members(schema, "properties")
                            THEN Members(schema, "properties")[k]
                            ELSE IF HasKey(schema, "additionalProperties")
                            THEN Member(schema, "additionalProperties") ELSE Flag(TRUE),
                            Of(value)[k])
            /\ Within(schema, value, "minProperties", "maxProperties")
       /\ Kind(value) = "str" => Within(schema, value, "minLength", "maxLength")
       /\ Kind(value) = "arr" =>
            /\ Within(schema, value, "minItems", "maxItems")
            /\ HasKey(schema, "items") =>
                    \A i \in DOMAIN Of(value) : Matches(Member(schema, "items"), Of(value)[i])
            /\ HasKey(schema, "uniqueItems") /\ Of(Member(schema, "uniqueItems")) =>
                    \A i, j \in DOMAIN Of(value) : Of(value)[i] = Of(value)[j] => i = j
       /\ Kind(value) = "num" => /\ Of(value) >= Limits(schema, "minimum", Of(value))
                                 /\ Of(value) <= Limits(schema, "maximum", Of(value))
                                 /\ Of(value) > Limits(schema, "exclusiveMinimum", Of(value) - 1)
                                 /\ Of(value) < Limits(schema, "exclusiveMaximum", Of(value) + 1)

----------------------------------------------------------------------------
(* The schemas of the registered tools; the fields of a tool are those of  *)
(* ToolCalls.                                                              *)

(* Every field and every required name is one of these.                    *)
NamesOnly(schema, fields) ==
    /\ DOMAIN Members(schema, "properties") \subseteq DOMAIN fields
    /\ \A i \in DOMAIN Members(schema, "required") : Of(Members(schema, "required")[i]) \in DOMAIN fields

RECURSIVE FieldAgrees(_, _)
(* _check_property_type: the schema of a field asks for no other kind.     *)
FieldAgrees(schema, field) ==
    Kind(schema) = "obj" =>
        /\ HasKey(schema, "type") =>
                TypesOf(schema) \subseteq {field[1]} \cup (IF field[1] = "integer" THEN {"number"} ELSE {})
        /\ field[1] = "object" =>
                /\ NamesOnly(schema, field[2])
                /\ \A k \in DOMAIN Members(schema, "properties") :
                        FieldAgrees(Members(schema, "properties")[k], field[2][k])
                /\ HasKey(schema, "additionalProperties") => Kind(Member(schema, "additionalProperties")) # "obj"
        /\ field[1] = "array" /\ HasKey(schema, "items") => FieldAgrees(Member(schema, "items"), field[2])
        /\ \A c \in Combiners : \A i \in DOMAIN Members(schema, c) : FieldAgrees(Members(schema, c)[i], field)

RECURSIVE FlatContract(_, _)
(* _check_flat_contract: an object with no field the tool does not have.   *)
FlatContract(schema, fields) ==
    Kind(schema) = "obj" =>
        /\ HasKey(schema, "type") => "object" \in TypesOf(schema)
        /\ NamesOnly(schema, fields)
        /\ \A k \in DOMAIN Members(schema, "properties") :
                FieldAgrees(Members(schema, "properties")[k], fields[k])
        /\ \A c \in Combiners : \A i \in DOMAIN Members(schema, c) : FlatContract(Members(schema, c)[i], fields)
=============================================================================
