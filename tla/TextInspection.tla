--------------------------- MODULE TextInspection ---------------------------
(***************************************************************************)
(* TextInspectionService.inspect_text and TransformationEngine.transform:  *)
(* one text is screened, normalized into a view, searched by detectors     *)
(* whose spans are resolved, mapped back to the original, resolved again,  *)
(* and replaced there.  resolve_conflicts is run three times, one span a   *)
(* step; a span is half-open and counts from 0, as in the code.            *)
(*                                                                         *)
(* A character is of a class: "plain", "wide" (a ligature, which NFKC      *)
(* expands to two), "twin" (a letter of another script that folds to a     *)
(* plain one), "mark" (combining), "hidden" (ignorable) or "bidi".         *)
(***************************************************************************)
EXTENDS Integers, SequencesExt

CONSTANTS
    Characters,       \* the classes that occur
    MaxLength,        \* of a text
    MaxSpans,         \* what the detectors find in it
    Scores, Types,    \* of a span; Types are ordered as their names are
    RatioMinLength,   \* RATIO_MIN_LENGTH
    IgnorablePercent  \* DEFAULT_IGNORABLE_RATIO

ASSUME InspectionAssumption ==
    /\ Characters \subseteq {"plain", "wide", "twin", "mark", "hidden", "bidi"}
    /\ {MaxLength, MaxSpans, RatioMinLength, IgnorablePercent} \subseteq Nat
    /\ Scores \subseteq Nat
    /\ Types \subseteq Nat

VARIABLES
    text,       \* the original
    phase,
    view,       \* DetectionView
    spans,      \* what resolve_conflicts was last given,
    pending,    \*   what of it is still to be looked at,
    kept,       \*   and what it keeps
    found,      \* view_spans
    left,       \* spans that transform has yet to replace
    cursor,
    fragments   \* the transformed text, from its end

resolution == <<spans, pending, kept>>
output == <<left, cursor, fragments>>
vars == <<text, phase, view, resolution, found, output>>

Span == {s \in [start : Nat, end : Nat, score : Scores, type : Types] : s.start < s.end}

Resolutions == {"view", "original", "outbound"}

\* the pieces of an outbound text: a character of the original, or a token
Char(i) == [token |-> FALSE, at |-> i]
Token(s) == [token |-> TRUE, at |-> s.start]
Chars(a, b) == [i \in 1 .. b - a |-> Char(a + i - 1)]

---------------------------------------------------------------------------
(* Screening *)

Hidden(t) == {i \in DOMAIN t : t[i] \in {"hidden", "bidi"}}

Script(c) == CASE c \in {"plain", "wide"} -> "latin" [] c = "twin" -> "other" [] OTHER -> "none"

MixedScript(t) ==
    \E i \in DOMAIN t : /\ i + 1 \in DOMAIN t
                        /\ {Script(t[i]), Script(t[i + 1])} = {"latin", "other"}

MostlyHidden(t) ==
    /\ Len(t) >= RatioMinLength
    /\ Cardinality(Hidden(t)) * 100 > IgnorablePercent * Len(t)

Blocking(t, block_mixed_script) ==
    \/ \E i \in DOMAIN t : t[i] = "bidi"
    \/ MostlyHidden(t)
    \/ block_mixed_script /\ MixedScript(t)

---------------------------------------------------------------------------
(* The view *)

\* the numbers of a finite set, in ascending order
Ascending(S) ==
    CHOOSE q \in [1 .. Cardinality(S) -> S] : \A i, j \in DOMAIN q : i < j => q[i] < q[j]

\* the indices, from 1, of the characters that are not dropped
Visible(t) == Ascending(DOMAIN t \ Hidden(t))

\* a dropped run belongs to the next visible character, the last run to the last
OriginOf(t, j) ==
    LET v == Visible(t) IN
    <<IF j = 1 THEN 0 ELSE v[j - 1], IF j = Len(v) THEN Len(t) ELSE v[j]>>

\* the clusters of the stripped text, each by its first and last index
Clusters(s) ==
    LET heads == Ascending({j \in DOMAIN s : j = 1 \/ s[j] # "mark"})
    IN  [c \in DOMAIN heads |->
            <<heads[c], IF c = Len(heads) THEN Len(s) ELSE heads[c + 1] - 1>>]

Marks(n) == [i \in 1 .. n |-> "mark"]

\* a Latin letter and the first of its marks compose
Compose(n) == IF n = 0 THEN <<"plain">> ELSE <<"accented">> \o Marks(n - 1)

\* unicodedata.normalize("NFKC", cluster)
Normalized(head, n) ==
    CASE head = "plain" -> Compose(n)
      [] head = "wide"  -> <<"plain">> \o Compose(n)
      [] OTHER          -> <<head>> \o Marks(n)

Fold(s) == [i \in DOMAIN s |-> IF s[i] = "twin" THEN "plain" ELSE s[i]]

build_detection_view(t) ==
    LET stripped == [j \in DOMAIN Visible(t) |-> t[Visible(t)[j]]]
        clusters == Clusters(stripped)
        normal == [c \in DOMAIN clusters |->
                      Normalized(stripped[clusters[c][1]], clusters[c][2] - clusters[c][1])]
        origin == [c \in DOMAIN clusters |->
                      <<OriginOf(t, clusters[c][1])[1], OriginOf(t, clusters[c][2])[2]>>]
        seen == FlattenSeq(normal)
    IN  [text |-> seen, folded |-> Fold(seen),
         origins |-> FlattenSeq([c \in DOMAIN clusters |->
                                    [x \in DOMAIN normal[c] |-> origin[c]]])]

EmptyView == [text |-> <<>>, folded |-> <<>>, origins |-> <<>>]

---------------------------------------------------------------------------
(* Mapping a span of the view to the original *)

OriginStart(s) == view.origins[s.start + 1][1]
OriginEnd(s) == view.origins[s.end][2]

map_span(s) == [s EXCEPT !.start = OriginStart(s), !.end = OriginEnd(s)]

Mappable(s) ==
    /\ s.end <= Len(view.text)
    /\ OriginStart(s) \in Nat /\ OriginEnd(s) \in Nat
    /\ OriginStart(s) < OriginEnd(s)
    /\ OriginEnd(s) <= Len(text)

\* a span is mapped without a check
TrustTheMap(s) == TRUE

\* the check rebuilds the view that is not folded
VerifyUnfolded(s) ==
    build_detection_view(SubSeq(text, OriginStart(s) + 1, OriginEnd(s))).text
        = SubSeq(view.folded, s.start + 1, s.end)

verify_round_trip(s) ==
    build_detection_view(SubSeq(text, OriginStart(s) + 1, OriginEnd(s))).folded
        = SubSeq(view.folded, s.start + 1, s.end)

---------------------------------------------------------------------------
(* resolve_conflicts *)

Length(s) == s.end - s.start

\* the order in which spans are looked at
Outranks(a, b) ==
    \/ a.score > b.score
    \/ a.score = b.score /\ Length(a) > Length(b)
    \/ a.score = b.score /\ Length(a) = Length(b) /\ a.start < b.start
    \/ a.score = b.score /\ Length(a) = Length(b) /\ a.start = b.start /\ a.type < b.type

Overlap(a, b) == a.start < b.end /\ b.start < a.end

\* bisect_right(starts, s.start)
Bisect(s, position) ==
    /\ \A i \in 1 .. position : kept[i].start <= s.start
    /\ \A i \in position + 1 .. Len(kept) : kept[i].start > s.start

\* spans that only touch are taken to overlap
BlockedByNeighbour(s, position) == position > 0 /\ kept[position].end >= s.start

BlockedBefore(s, position) == position > 0 /\ kept[position].end > s.start
BlockedAfter(s, position) == position < Len(kept) /\ kept[position + 1].start < s.end

InsertedAt(s, position) ==
    [i \in 1 .. Len(kept) + 1 |->
        IF i <= position THEN kept[i] ELSE IF i = position + 1 THEN s ELSE kept[i - 1]]

Begin(given, resolving) ==
    /\ phase' = resolving
    /\ spans' = given
    /\ pending' = given
    /\ kept' = <<>>

---------------------------------------------------------------------------
Init ==
    /\ text \in UNION {[1 .. n -> Characters] : n \in 0 .. MaxLength}
    /\ phase = "screen"
    /\ view = EmptyView
    /\ spans = {} /\ pending = {} /\ kept = <<>> /\ found = <<>>
    /\ left = 0 /\ cursor = 0 /\ fragments = <<>>

\* screen_text, raise_if_blocking and build_detection_view
Screen ==
    /\ phase = "screen"
    /\ \E block_mixed_script \in BOOLEAN :
          IF Blocking(text, block_mixed_script)
            THEN phase' = "refused" /\ UNCHANGED view
            ELSE phase' = "detect" /\ view' = build_detection_view(text)
    /\ UNCHANGED <<text, resolution, found, output>>

\* the detectors run in turn and find any spans that lie in the view
Detect ==
    /\ phase = "detect"
    /\ Cardinality(spans) < MaxSpans
    /\ \E s \in [start : 0 .. Len(view.text), end : 0 .. Len(view.text),
                 score : Scores, type : Types] :
          s \in Span /\ spans' = spans \union {s}
    /\ UNCHANGED <<text, phase, view, pending, kept, found, output>>

Detected ==
    /\ phase = "detect"
    /\ Begin(spans, "view")
    /\ UNCHANGED <<text, view, found, output>>

\* a detector that raises ends the request
DetectorFails ==
    /\ phase = "detect"
    /\ phase' = "refused"
    /\ UNCHANGED <<text, view, resolution, found, output>>

\* the loop of resolve_conflicts, for the span that outranks the others
Consider(s) ==
    /\ phase \in Resolutions
    /\ s \in pending
    /\ \A other \in pending \ {s} : Outranks(s, other)
    /\ pending' = pending \ {s}
    /\ \E position \in 0 .. Len(kept) :
          /\ Bisect(s, position)
          /\ kept' = IF BlockedBefore(s, position) \/ BlockedAfter(s, position)
                       THEN kept ELSE InsertedAt(s, position)
    /\ UNCHANGED <<text, phase, view, spans, found, output>>

\* _map_to_original: every span maps and re-derives its match, or the request ends
Map ==
    /\ phase = "view" /\ pending = {}
    /\ found' = kept
    /\ IF \A i \in DOMAIN kept : Mappable(kept[i]) /\ verify_round_trip(kept[i])
         THEN Begin({map_span(kept[i]) : i \in DOMAIN kept}, "original")
         ELSE phase' = "refused" /\ UNCHANGED resolution
    /\ UNCHANGED <<text, view, output>>

\* transform resolves what it is given once more
Transform ==
    /\ phase = "original" /\ pending = {}
    /\ Begin({kept[i] : i \in DOMAIN kept}, "outbound")
    /\ UNCHANGED <<text, view, found, output>>

Ordered ==
    /\ phase = "outbound" /\ pending = {}
    /\ phase' = "replace"
    /\ left' = Len(kept)
    /\ cursor' = Len(text)
    /\ UNCHANGED <<text, view, resolution, found, fragments>>

\* the cursor stays behind the span that was replaced
CursorAtEnd(s) == s.end

\* the text after a span, and the token in its place
Replaced(s) == <<Token(s)>> \o Chars(s.end, cursor) \o fragments
CursorAfter(s) == s.start

Replace ==
    /\ phase = "replace" /\ left > 0
    /\ fragments' = Replaced(kept[left])
    /\ cursor' = CursorAfter(kept[left])
    /\ left' = left - 1
    /\ UNCHANGED <<text, phase, view, resolution, found>>

Assemble ==
    /\ phase = "replace" /\ left = 0
    /\ fragments' = Chars(0, cursor) \o fragments
    /\ phase' = "done"
    /\ UNCHANGED <<text, view, resolution, found, left, cursor>>

Next ==
    \/ Screen
    \/ Detect
    \/ Detected
    \/ DetectorFails
    \/ \E s \in pending : Consider(s)
    \/ Map
    \/ Transform
    \/ Ordered
    \/ Replace
    \/ Assemble

Spec == Init /\ [][Next]_vars

---------------------------------------------------------------------------
(* Properties *)

\* The state has its types; the offset map has an entry for each character of
\* the view, within the text (DetectionView.__post_init__, map_span).
TypeOK ==
    /\ text \in Seq(Characters)
    /\ phase \in {"screen", "detect", "replace", "done", "refused"} \union Resolutions
    /\ Len(view.text) = Len(view.origins) /\ Len(view.folded) = Len(view.text)
    /\ \A i \in DOMAIN view.origins :
          view.origins[i][1] \in 0 .. Len(text) /\ view.origins[i][2] \in 0 .. Len(text)
    /\ spans \subseteq Span /\ pending \subseteq spans
    /\ kept \in Seq(Span) /\ found \in Seq(Span)
    /\ left \in 0 .. Len(kept) /\ cursor \in 0 .. Len(text)

\* What resolve_conflicts keeps is ascending and never overlaps, although each
\* span was compared with no more than its two neighbours.
KeptAreApart ==
    \A i, j \in DOMAIN kept : i < j => kept[i].end <= kept[j].start

\* A span is dropped only for one that outranks it and overlaps it: comparing
\* with two neighbours gives what comparing with every kept span would.
DroppedForBetter ==
    phase \notin {"detect", "refused"} =>
      \A d \in spans \ pending :
        \E i \in DOMAIN kept : \/ kept[i] = d
                               \/ Outranks(kept[i], d) /\ Overlap(kept[i], d)

\* resolve_conflicts is the greedy resolution that its test compares it with.
ResolvedGreedily == KeptAreApart /\ DroppedForBetter

\* verify_round_trip accepts a span exactly when it takes whole clusters: it
\* refuses half a ligature, and a folded or accented letter is no hindrance.
Whole(s) ==
    /\ s.start > 0 => view.origins[s.start] # view.origins[s.start + 1]
    /\ s.end < Len(view.text) => view.origins[s.end] # view.origins[s.end + 1]

RoundTripMeansWhole ==
    phase = "detect" =>
        \A a, b \in 0 .. Len(view.text) :
            a < b => LET s == [start |-> a, end |-> b]
                     IN  verify_round_trip(s) <=> Whole(s)

\* Of a span that the first resolution kept, no character that lies behind it
\* is in the text that goes out, whatever the two later resolutions do.  (What
\* that resolution drops does go out where no kept span covers it: see
\* ContainersWin.)
NothingKeptLeaks ==
    phase = "done" =>
        \A f \in DOMAIN found : \A v \in found[f].start + 1 .. found[f].end :
            \A i \in view.origins[v][1] .. view.origins[v][2] - 1 :
                \A x \in DOMAIN fragments : fragments[x] # Char(i)

\* What goes out is the original with one token for each span kept, and is
\* otherwise unchanged: assembling it backwards loses and repeats nothing.
Expected ==
    FlattenSeq([n \in 1 .. Len(text) |->
        LET i == n - 1
            over == {k \in DOMAIN kept : kept[k].start <= i /\ i < kept[k].end}
        IN  IF over = {} THEN <<Char(i)>>
            ELSE IF \E k \in over : kept[k].start = i THEN <<[token |-> TRUE, at |-> i]>>
            ELSE <<>>])

OutboundIsExact == phase = "done" => fragments = Expected

\* The docstring's first rule: of two spans of which one contains the other,
\* the container is kept.
ContainersWin ==
    \A i \in DOMAIN kept, d \in spans \ pending :
        ~ /\ d.start <= kept[i].start /\ kept[i].end <= d.end
          /\ Length(d) > Length(kept[i])
=============================================================================
