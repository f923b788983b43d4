----------------------------- MODULE JsonShapes -----------------------------
(***************************************************************************)
(* JSON documents and the shapes a strict parser accepts                   *)
(* (gateway/protocols/base.py).                                            *)
(*                                                                         *)
(* A document is a pair of its kind and its content: a string, a number, a *)
(* flag, null, an array, an object, a string that holds the JSON of        *)
(* another document (Enc) or a placeholder (Tok).  A shape is a record     *)
(* whose field "is" names the helper of base.py that reads the value.      *)
(*                                                                         *)
(* Which documents a shape accepts is defined in JsonReaders, and given to *)
(* the modules that only depend on the verdict as the constant Reads.      *)
(***************************************************************************)
EXTENDS Naturals, Sequences, FiniteSets, TLC

CONSTANTS
    Reads(_, _),        \* Reads(j, shape): the parser of the shape accepts j
    WithinLimits(_),    \* WithinLimits(j): no collection of j and no nesting is too large
    MaxNesting          \* bound: how deep a document is, the encoded ones in it included

ASSUME NestingAssumption == MaxNesting \in Nat

Str(s) == <<"str", s>>
Num(n) == <<"num", n>>
Flag(b) == <<"flag", b>>
Null == <<"null">>
Arr(q) == <<"arr", q>>
Obj(f) == <<"obj", f>>
Enc(j) == <<"enc", j>>
Tok(c) == <<"tok", c>>

Kind(j) == j[1]
Of(j) == j[2]
IsString(j) == Kind(j) \in {"str", "enc", "tok"}

(* The decoded side of a string that holds JSON, as a step of a path.      *)
Decoded == "{}"

----------------------------------------------------------------------------
(* Shapes.                                                                 *)

Text == [is |-> "text"]
AnyString == [is |-> "string"]
Identifier == [is |-> "identifier"]
LocalReference == [is |-> "reference"]
Choice(names) == [is |-> "choice", of |-> names]
Integer(low, high) == [is |-> "number", low |-> low, high |-> high, seen |-> FALSE]
Measure(low, high) == [is |-> "number", low |-> low, high |-> high, seen |-> TRUE]
Boolean == [is |-> "flag", of |-> BOOLEAN]
MustBeFalse == [is |-> "flag", of |-> {FALSE}]
Nullable(shape) == [is |-> "nullable", of |-> shape]
Exactly(j) == [is |-> "exactly", of |-> j]
Opaque(shape) == [is |-> "opaque", of |-> shape]
List(shape) == [is |-> "list", of |-> shape, least |-> 0, unique |-> FALSE]
NonEmpty(shape) == [is |-> "list", of |-> shape, least |-> 1, unique |-> FALSE]
Unique(shape) == [is |-> "list", of |-> shape, least |-> 0, unique |-> TRUE]
Record(fields, required) == [is |-> "record", of |-> fields, required |-> required]
MapOf(shape) == [is |-> "map", of |-> shape]
OneOf(shapes) == [is |-> "oneof", of |-> shapes]
Anything(structural) == [is |-> "json", structural |-> structural]
Encoded(shape, structural, controls) ==
    [is |-> "encoded", of |-> shape, structural |-> structural, controls |-> controls]
Schema == [is |-> "schema", flags |-> BOOLEAN]
ObjectSchema == [is |-> "schema", flags |-> {}]

TypeName == Choice({"null", "boolean", "object", "array", "number", "integer", "string"})

(* json_schema: how each field of a schema is read.                        *)
SchemaField ==
       [n \in {"title", "description", "$comment"} |-> Text]
    @@ [n \in {"$schema", "$id", "pattern", "format"} |-> AnyString]
    @@ [n \in {"$ref", "$dynamicRef"} |-> LocalReference]
    @@ [n \in {"multipleOf", "maximum", "minimum", "exclusiveMaximum",
                "exclusiveMinimum"} |-> Measure(0, 1000)]
    @@ [n \in {"maxLength", "minLength", "maxItems", "minItems", "maxProperties",
                "minProperties"} |-> Measure(0, 1000)]
    @@ [n \in {"uniqueItems", "readOnly"} |-> Boolean]
    @@ [n \in {"properties", "patternProperties", "$defs"} |-> MapOf(Schema)]
    @@ [n \in {"items", "additionalProperties", "not", "if"} |-> Schema]
    @@ [n \in {"allOf", "anyOf", "oneOf"} |-> NonEmpty(Schema)]
    @@ [n \in {"examples"} |-> List(Anything(FALSE))]
    @@ [n \in {"enum"} |-> NonEmpty(Anything(TRUE))]
    @@ [n \in {"type"} |-> OneOf(<<TypeName, NonEmpty(TypeName)>>)]
    @@ [n \in {"required"} |-> Unique(AnyString)]
    @@ [n \in {"dependentRequired"} |-> MapOf(List(AnyString))]
    @@ [n \in {"const", "default"} |-> Anything(TRUE)]

----------------------------------------------------------------------------
(* Inside a document.                                                      *)

(* The steps that lead from a value to the ones directly inside, and where *)
(* each leads.                                                             *)
Steps(j) == CASE Kind(j) \in {"arr", "obj"} -> DOMAIN Of(j)
              [] Kind(j) = "enc" -> {Decoded}
              [] OTHER -> {}
Child(j, k) == IF Kind(j) = "enc" THEN Of(j) ELSE Of(j)[k]

(* The document with one of the values directly inside replaced.           *)
With(j, k, new) ==
    IF Kind(j) = "enc" THEN Enc(new) ELSE <<Kind(j), [Of(j) EXCEPT ![k] = new]>>

(* Where the first n steps of a path lead.                                 *)
Along(j, path) ==
    LET value[n \in 0 .. Len(path)] == IF n = 0 THEN j ELSE Child(value[n - 1], path[n])
    IN value

(* replace_location: the document with one leaf replaced; a string of JSON *)
(* on the way is decoded, changed and encoded again.  Of the path, the     *)
(* values at its last n steps change.                                      *)
Changed(value, path, leaf) ==
    LET new[n \in 0 .. Len(path)] ==
            IF n = 0 THEN leaf
            ELSE With(value[Len(path) - n], path[Len(path) - n + 1], new[n - 1])
    IN new
Put(j, path, leaf) == Changed(Along(j, path), path, leaf)[Len(path)]

----------------------------------------------------------------------------
(* Locations: LocationBuilder.                                             *)

(* The shape as which a value was read: one of its alternatives.           *)
Chosen(j, s) == CASE s.is = "oneof" -> s.of[CHOOSE i \in DOMAIN s.of : Reads(j, s.of[i])]
                  [] s.is = "nullable" -> s.of
                  [] OTHER -> s

(* The shape of the value that a field or an element has.                  *)
ShapeAt(s, k) ==
    CASE s.is = "record" -> s.of[k]
      [] s.is = "schema" -> SchemaField[k]
      [] s.is \in {"list", "map"} -> s.of
      [] s.is = "encoded" -> Anything(s.structural)
      [] OTHER -> s

(* A visit is a value with its path and the shape as which it was read.  A *)
(* string of JSON is only entered where the parser decodes it, or where    *)
(* the document is looked at as a whole.                                   *)
Whole == [is |-> "whole"]
Entered(v) == Kind(v[2]) = "enc" => v[3].is \in {"encoded", "whole"}
Visit(path, j, s) == <<path, j, Chosen(j, s)>>
Below(v) ==
    {Visit(Append(v[1], k), Child(v[2], k), ShapeAt(v[3], k)) :
        k \in IF Entered(v) THEN Steps(v[2]) ELSE {}}

(* finish: every value of what was parsed, level by level.                 *)
Deeper(visits, n) == visits \cup UNION {Below(v) : v \in {v \in visits : Len(v[1]) = n}}
VisitsUpTo(j, s) ==
    LET visits[n \in 0 .. MaxNesting] ==
            IF n = 0 THEN {Visit(<<>>, j, s)} ELSE Deeper(visits[n - 1], n - 1)
    IN visits
Visits(j, s) == VisitsUpTo(j, s)[MaxNesting]

Place(path, leaf, structural) == [path |-> path, leaf |-> leaf, structural |-> structural]

\* mutant: an object's keys are no locations
KeyPlacesNone(j, path) == {}

(* Every key is a structural location.                                     *)
KeyPlaces(j, path) == {Place(Append(path, k), Str(k), TRUE) : k \in DOMAIN Of(j)}

(* numeric_paths and json_numeric_controls: the numbers a client chooses,  *)
(* controls excepted.                                                      *)
NumberIsSeen(s) == s.is = "json" \/ (s.is = "number" /\ s.seen)
IsDecoded(v) == Kind(v[2]) = "enc" /\ v[3].is = "encoded"
Controls(visits) ==
    UNION {{Append(v[1], Decoded) \o c : c \in v[3].controls} : v \in {v \in visits : IsDecoded(v)}}

(* content_paths: the strings that may be replaced.                        *)
IsContent(s) == s.is = "text" \/ (s.is = "json" /\ ~s.structural)

NamePlaces(visits) == UNION {KeyPlaces(v[2], v[1]) : v \in {u \in visits : Kind(u[2]) = "obj"}}
TextPlaces(visits) ==
    {Place(v[1], v[2], ~IsContent(v[3])) : v \in {u \in visits : IsString(u[2]) /\ ~IsDecoded(u)}}
NumberPlaces(visits) ==
    {Place(v[1], v[2], TRUE) :
        v \in {u \in visits : /\ Kind(u[2]) = "num" /\ NumberIsSeen(u[3])
                              /\ u[1] \notin Controls(visits)}}

(* finish: the locations of what was parsed.                               *)
PlacesIn(visits) == NamePlaces(visits) \cup TextPlaces(visits) \cup NumberPlaces(visits)
Places(j, s) == PlacesIn(Visits(j, s))

----------------------------------------------------------------------------
(* Every value of a document with its path, what an encoded string holds   *)
(* included; and, for the properties, every key and every scalar.          *)

Nodes(j) == {<<v[1], v[2]>> : v \in Visits(j, Whole)}
NestsWithin(j) == \A n \in Nodes(j) : Len(n[1]) < MaxNesting

KeysOf(j) ==
    UNION {{<<Append(n[1], k), Str(k)>> : k \in DOMAIN Of(n[2])} :
                n \in {m \in Nodes(j) : Kind(m[2]) = "obj"}}
ScalarsOf(j) == {n \in Nodes(j) : Kind(n[2]) \notin {"obj", "arr", "enc"}}
Leaves(j) == KeysOf(j) \cup ScalarsOf(j)
=============================================================================
