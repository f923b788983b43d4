----------------------------- MODULE JsonReaders -----------------------------
(***************************************************************************)
(* What the strict parsers accept (gateway/protocols/base.py): the values  *)
(* of the constants Reads and WithinLimits of JsonShapes.                  *)
(***************************************************************************)
EXTENDS JsonShapes
LOCAL INSTANCE Functions

CONSTANTS
    FreeText,       \* the strings that are no identifier
    Remote,         \* the strings that name another document
    MaxCollection,  \* MAX_COLLECTION
    MaxDepth        \* MAX_DEPTH

RECURSIVE BoundedAt(_, _)
(* bounded_json: no collection and no nesting beyond the limits.           *)
BoundedAt(j, depth) ==
    /\ depth <= MaxDepth
    /\ Kind(j) = "arr" => /\ Len(Of(j)) <= MaxCollection
                          /\ \A i \in DOMAIN Of(j) : BoundedAt(Of(j)[i], depth + 1)
    /\ Kind(j) = "obj" => /\ Cardinality(DOMAIN Of(j)) <= MaxCollection
                          /\ depth < MaxDepth \/ DOMAIN Of(j) = {}
                          /\ \A k \in DOMAIN Of(j) : BoundedAt(Of(j)[k], depth + 1)
Bounded(j) == BoundedAt(j, 0)

(* object_fields: an object with the required fields and no other than the *)
(* allowed ones.                                                           *)
ObjectFields(j, fields, required) ==
    /\ Kind(j) = "obj"
    /\ DOMAIN Of(j) \subseteq DOMAIN fields
    /\ required \subseteq DOMAIN Of(j)

RECURSIVE Fits(_, _)
(* The parser of this shape accepts the document.                          *)
Fits(j, s) ==
    CASE s.is \in {"text", "string"} -> IsString(j)
      [] s.is = "identifier" -> Kind(j) = "str" /\ Of(j) \notin FreeText
      [] s.is = "reference"  -> Kind(j) = "str" /\ Of(j) \notin Remote
      [] s.is = "choice"     -> Kind(j) = "str" /\ Of(j) \in s.of
      [] s.is = "number"     -> Kind(j) = "num" /\ Of(j) \in s.low .. s.high
      [] s.is = "flag"       -> Kind(j) = "flag" /\ Of(j) \in s.of
      [] s.is = "nullable"   -> Kind(j) = "null" \/ Fits(j, s.of)
      [] s.is = "exactly"    -> j = s.of
      [] s.is = "list"       -> /\ Kind(j) = "arr" /\ Len(Of(j)) >= s.least
                                /\ s.unique => IsInjective(Of(j))
                                /\ \A i \in DOMAIN Of(j) : Fits(Of(j)[i], s.of)
      [] s.is = "map"        -> /\ Kind(j) = "obj"
                                /\ \A k \in DOMAIN Of(j) : Fits(Of(j)[k], s.of)
      [] s.is = "record"     -> /\ ObjectFields(j, s.of, s.required)
                                /\ \A k \in DOMAIN Of(j) : Fits(Of(j)[k], s.of[k])
      [] s.is = "oneof"      -> \E i \in DOMAIN s.of : Fits(j, s.of[i])
      [] s.is \in {"encoded", "opaque"} -> /\ Kind(j) = "enc" /\ Kind(Of(j)) = "obj"
                                            /\ Bounded(Of(j)) /\ Fits(Of(j), s.of)
      [] s.is = "schema"     -> \/ Kind(j) = "flag" /\ Of(j) \in s.flags
                                \/ /\ ObjectFields(j, SchemaField, {})
                                   /\ \A k \in DOMAIN Of(j) : Fits(Of(j)[k], SchemaField[k])
      [] OTHER               -> TRUE
=============================================================================
