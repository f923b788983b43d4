----------------------------- MODULE TextProofs -----------------------------
(***************************************************************************)
(* Inspection of a text, for every text, set of detected spans and limit.  *)
(*                                                                         *)
(* First, resolve_conflicts compares a span with two neighbours, and that  *)
(* does what comparing it with every kept span would do (ResolutionInv).   *)
(* Then the view: a text falls into clusters, the view of a row of them is *)
(* a part of the view of the text, and a span re-derives its match exactly *)
(* when it takes whole clusters (RebuildsWhole).  So spans that are apart  *)
(* in the view are apart in the text, nothing is dropped there, and what   *)
(* is assembled backwards is what was expected (InspectionInv).            *)
(*                                                                         *)
(* Facts about FlattenSeq and about listings need induction.  They get it  *)
(* from the least element of a set of numbers (LeastNumber): the places    *)
(* where a fact fails.                                                     *)
(***************************************************************************)
EXTENDS TextInspection, FunctionTheorems, FiniteSetTheorems, SequenceTheorems,
        WellFoundedInduction, TLAPS

-----------------------------------------------------------------------------
(* resolve_conflicts                                                       *)

Phases == {"screen", "detect", "replace", "done", "refused"} \union Resolutions

\* what is kept outranks all that is still to be looked at
KeptOutrank == \A i \in DOMAIN kept, p \in pending : Outranks(kept[i], p)

\* The inductive invariant.
ResolutionInv ==
    /\ phase \in Phases
    /\ spans \subseteq Span /\ pending \subseteq spans /\ kept \in Seq(Span)
    /\ KeptAreApart
    /\ KeptOutrank
    /\ DroppedForBetter

\* A span that neither neighbour blocks can be inserted between them.
LEMMA InsertKeepsApart ==
    ASSUME kept \in Seq(Span), KeptAreApart,
           NEW s \in Span, NEW position \in 0 .. Len(kept), Bisect(s, position),
           ~BlockedBefore(s, position), ~BlockedAfter(s, position)
    PROVE  /\ InsertedAt(s, position) \in Seq(Span)
           /\ \A i, j \in DOMAIN InsertedAt(s, position) :
                 i < j => InsertedAt(s, position)[i].end <= InsertedAt(s, position)[j].start
<1> DEFINE new == InsertedAt(s, position)
<1>1. Len(kept) \in Nat /\ position \in Nat /\ DOMAIN kept = 1 .. Len(kept)
  OBVIOUS
<1>2. \A i \in 1 .. Len(kept) : /\ kept[i] \in Span
                                /\ kept[i].start \in Nat /\ kept[i].end \in Nat
                                /\ kept[i].start < kept[i].end
  BY <1>1 DEF Span
<1>3. s.start \in Nat /\ s.end \in Nat /\ s.start < s.end
  BY DEF Span
<1>4. new \in [1 .. Len(kept) + 1 -> Span]
  BY <1>1, <1>2 DEF InsertedAt
<1>5. new \in Seq(Span) /\ DOMAIN new = 1 .. Len(kept) + 1
  BY <1>1, <1>4
<1>6. \A i \in 1 .. position : kept[i].end <= s.start
  <2> TAKE i \in 1 .. position
  <2>1. position > 0 /\ position \in 1 .. Len(kept) /\ i \in 1 .. Len(kept)
    BY <1>1
  <2>2. kept[position].end <= s.start /\ kept[position].start <= s.start
    BY <1>2, <1>3, <2>1 DEF Bisect, BlockedBefore
  <2>3. CASE i = position
    BY <2>2, <2>3
  <2>4. CASE i < position
    <3>1. kept[i].end <= kept[position].start
      BY <1>1, <2>1, <2>4 DEF KeptAreApart
    <3> QED BY <1>2, <1>3, <2>1, <2>2, <3>1
  <2> QED BY <1>1, <2>3, <2>4
<1>7. \A j \in position + 1 .. Len(kept) : s.end <= kept[j].start
  <2> TAKE j \in position + 1 .. Len(kept)
  <2>1. position < Len(kept) /\ position + 1 \in 1 .. Len(kept) /\ j \in 1 .. Len(kept)
    BY <1>1
  <2>2. s.end <= kept[position + 1].start
    BY <1>2, <1>3, <2>1 DEF BlockedAfter
  <2>3. CASE j = position + 1
    BY <2>2, <2>3
  <2>4. CASE j > position + 1
    <3>1. kept[position + 1].end <= kept[j].start
      BY <1>1, <2>1, <2>4 DEF KeptAreApart
    <3> QED BY <1>2, <1>3, <2>1, <2>2, <3>1
  <2> QED BY <1>1, <2>3, <2>4
<1>8. ASSUME NEW i \in 1 .. Len(kept) + 1, NEW j \in 1 .. Len(kept) + 1, i < j
      PROVE  new[i].end <= new[j].start
  <2>1. CASE j <= position
    <3>1. new[i] = kept[i] /\ new[j] = kept[j] /\ i \in DOMAIN kept /\ j \in DOMAIN kept
      BY <1>1, <1>8, <2>1 DEF InsertedAt
    <3> QED BY <1>8, <3>1 DEF KeptAreApart
  <2>2. CASE j = position + 1
    <3>1. new[i] = kept[i] /\ new[j] = s /\ i \in 1 .. position
      BY <1>1, <1>8, <2>2 DEF InsertedAt
    <3> QED BY <1>6, <3>1
  <2>3. CASE j > position + 1 /\ i = position + 1
    <3>1. new[i] = s /\ new[j] = kept[j - 1] /\ j - 1 \in position + 1 .. Len(kept)
      BY <1>1, <1>8, <2>3 DEF InsertedAt
    <3> QED BY <1>7, <3>1
  <2>4. CASE j > position + 1 /\ i <= position
    <3>1. /\ new[i] = kept[i] /\ new[j] = kept[j - 1]
          /\ i \in DOMAIN kept /\ j - 1 \in DOMAIN kept /\ i < j - 1
      BY <1>1, <1>8, <2>4 DEF InsertedAt
    <3> QED BY <3>1 DEF KeptAreApart
  <2>5. CASE j > position + 1 /\ i > position + 1
    <3>1. /\ new[i] = kept[i - 1] /\ new[j] = kept[j - 1]
          /\ i - 1 \in DOMAIN kept /\ j - 1 \in DOMAIN kept /\ i - 1 < j - 1
      BY <1>1, <1>8, <2>5 DEF InsertedAt
    <3> QED BY <3>1 DEF KeptAreApart
  <2> QED BY <1>1, <1>8, <2>1, <2>2, <2>3, <2>4, <2>5
<1> QED BY <1>5, <1>8

\* A span that a neighbour blocks overlaps it.
LEMMA BlockedOverlaps ==
    ASSUME kept \in Seq(Span),
           NEW s \in Span, NEW position \in 0 .. Len(kept), Bisect(s, position),
           BlockedBefore(s, position) \/ BlockedAfter(s, position)
    PROVE  \E i \in DOMAIN kept : Overlap(kept[i], s)
<1>1. Len(kept) \in Nat /\ position \in Nat /\ DOMAIN kept = 1 .. Len(kept)
  OBVIOUS
<1>2. \A i \in 1 .. Len(kept) : /\ kept[i].start \in Nat /\ kept[i].end \in Nat
                                /\ kept[i].start < kept[i].end
  BY <1>1 DEF Span
<1>3. s.start \in Nat /\ s.end \in Nat /\ s.start < s.end
  BY DEF Span
<1>4. CASE BlockedBefore(s, position)
  <2>1. position \in 1 .. Len(kept) /\ position \in 1 .. position
    BY <1>1, <1>4 DEF BlockedBefore
  <2>2. kept[position].start <= s.start /\ s.start < kept[position].end
    BY <1>2, <1>3, <1>4, <2>1 DEF BlockedBefore, Bisect
  <2>3. Overlap(kept[position], s)
    BY <1>2, <1>3, <2>1, <2>2 DEF Overlap
  <2> QED BY <1>1, <2>1, <2>3
<1>5. CASE BlockedAfter(s, position)
  <2>1. position + 1 \in 1 .. Len(kept) /\ position + 1 \in position + 1 .. Len(kept)
    BY <1>1, <1>5 DEF BlockedAfter
  <2>2. s.start < kept[position + 1].start /\ kept[position + 1].start < s.end
    BY <1>2, <1>3, <1>5, <2>1 DEF BlockedAfter, Bisect
  <2>3. Overlap(kept[position + 1], s)
    BY <1>2, <1>3, <2>1, <2>2 DEF Overlap
  <2> QED BY <1>1, <2>1, <2>3
<1> QED BY <1>4, <1>5

\* The loop body of resolve_conflicts keeps the invariant.
LEMMA ConsiderKeeps ==
    ASSUME InspectionAssumption, ResolutionInv, NEW s \in pending, Consider(s)
    PROVE  ResolutionInv'
<1>1. /\ phase \in Resolutions /\ phase' = phase /\ spans' = spans
      /\ pending' = pending \ {s}
      /\ \A other \in pending \ {s} : Outranks(s, other)
  BY DEF Consider
<1>2. s \in Span /\ s \in spans /\ kept \in Seq(Span) /\ KeptAreApart
  BY DEF ResolutionInv
<1>3. PICK position \in 0 .. Len(kept) :
         /\ Bisect(s, position)
         /\ kept' = IF BlockedBefore(s, position) \/ BlockedAfter(s, position)
                      THEN kept ELSE InsertedAt(s, position)
  BY DEF Consider
<1>4. phase \notin {"detect", "refused"}
  BY <1>1 DEF Resolutions
<1>5. CASE BlockedBefore(s, position) \/ BlockedAfter(s, position)
  <2>1. kept' = kept
    BY <1>3, <1>5
  <2>2. PICK i \in DOMAIN kept : Overlap(kept[i], s)
    BY <1>2, <1>3, <1>5, BlockedOverlaps
  <2>3. Outranks(kept[i], s)
    BY DEF ResolutionInv, KeptOutrank
  <2>4. DroppedForBetter'
    <3>1. ASSUME NEW d \in spans \ (pending \ {s})
          PROVE  \E k \in DOMAIN kept : \/ kept[k] = d
                                        \/ Outranks(kept[k], d) /\ Overlap(kept[k], d)
      <4>1. CASE d = s
        BY <2>2, <2>3, <4>1
      <4>2. CASE d # s
        BY <1>4, <4>2 DEF ResolutionInv, DroppedForBetter
      <4> QED BY <4>1, <4>2
    <3> QED BY <1>1, <2>1, <3>1 DEF DroppedForBetter, Outranks, Overlap, Length
  <2>5. KeptOutrank'
    BY <1>1, <2>1 DEF ResolutionInv, KeptOutrank, Outranks, Length
  <2>6. KeptAreApart'
    BY <1>2, <2>1 DEF KeptAreApart
  <2> QED BY <1>1, <1>2, <2>1, <2>4, <2>5, <2>6 DEF ResolutionInv
<1>6. CASE ~(BlockedBefore(s, position) \/ BlockedAfter(s, position))
  <2> DEFINE new == InsertedAt(s, position)
  <2>1. kept' = new
    BY <1>3, <1>6
  <2>2. /\ new \in Seq(Span)
        /\ \A i, j \in DOMAIN new : i < j => new[i].end <= new[j].start
    BY <1>2, <1>3, <1>6, InsertKeepsApart
  <2>3. /\ DOMAIN kept = 1 .. Len(kept) /\ Len(kept) \in Nat /\ position \in Nat
        /\ DOMAIN new = 1 .. Len(kept) + 1
    BY <1>2 DEF InsertedAt
  <2>4. new[position + 1] = s /\ position + 1 \in DOMAIN new
    BY <2>3 DEF InsertedAt
  <2>5. \A k \in DOMAIN kept : \E x \in DOMAIN new : new[x] = kept[k]
    <3> TAKE k \in DOMAIN kept
    <3>1. CASE k <= position
      BY <2>3, <3>1 DEF InsertedAt
    <3>2. CASE k > position
      <4>1. k + 1 \in DOMAIN new /\ new[k + 1] = kept[k]
        BY <2>3, <3>2 DEF InsertedAt
      <4> QED BY <4>1
    <3> QED BY <2>3, <3>1, <3>2
  <2>6. \A x \in DOMAIN new : new[x] = s \/ \E k \in DOMAIN kept : new[x] = kept[k]
    <3> TAKE x \in DOMAIN new
    <3>1. CASE x <= position
      BY <2>3, <3>1 DEF InsertedAt
    <3>2. CASE x = position + 1
      BY <2>4, <3>2
    <3>3. CASE x > position + 1
      <4>1. x - 1 \in DOMAIN kept /\ new[x] = kept[x - 1]
        BY <2>3, <3>3 DEF InsertedAt
      <4> QED BY <4>1
    <3> QED BY <2>3, <3>1, <3>2, <3>3
  <2>7. DroppedForBetter'
    <3>1. ASSUME NEW d \in spans \ (pending \ {s})
          PROVE  \E x \in DOMAIN new : \/ new[x] = d
                                       \/ Outranks(new[x], d) /\ Overlap(new[x], d)
      <4>1. CASE d = s
        BY <2>4, <4>1
      <4>2. CASE d # s
        <5>1. PICK k \in DOMAIN kept : \/ kept[k] = d
                                       \/ Outranks(kept[k], d) /\ Overlap(kept[k], d)
          BY <1>4, <4>2 DEF ResolutionInv, DroppedForBetter
        <5> QED BY <2>5, <5>1
      <4> QED BY <4>1, <4>2
    <3> QED BY <1>1, <2>1, <3>1 DEF DroppedForBetter, Outranks, Overlap, Length
  <2>8. KeptOutrank'
    <3>1. \A x \in DOMAIN new, p \in pending \ {s} : Outranks(new[x], p)
      BY <1>1, <2>6 DEF ResolutionInv, KeptOutrank
    <3> QED BY <1>1, <2>1, <3>1 DEF KeptOutrank, Outranks, Length
  <2>9. KeptAreApart'
    BY <2>1, <2>2 DEF KeptAreApart
  <2>10. phase' \in Phases /\ spans' \subseteq Span /\ pending' \subseteq spans'
    BY <1>1 DEF ResolutionInv
  <2> QED BY <2>1, <2>2, <2>7, <2>8, <2>9, <2>10 DEF ResolutionInv
<1> QED BY <1>5, <1>6

\* A resolution begins with everything pending and nothing kept.
LEMMA BeginKeeps ==
    ASSUME NEW given \in SUBSET Span, NEW r \in Resolutions, Begin(given, r)
    PROVE  ResolutionInv'
<1>1. phase' = r /\ spans' = given /\ pending' = given /\ kept' = <<>>
  BY DEF Begin
<1>2. kept' \in Seq(Span) /\ DOMAIN kept' = {}
  BY <1>1
<1>3. KeptAreApart' /\ KeptOutrank'
  BY <1>2 DEF KeptAreApart, KeptOutrank
<1>4. DroppedForBetter'
  BY <1>1 DEF DroppedForBetter
<1> QED BY <1>1, <1>2, <1>3, <1>4 DEF ResolutionInv, Phases

\* Steps that leave the resolution alone and do not enter one.
LEMMA OtherStepsKeep ==
    ASSUME ResolutionInv, UNCHANGED resolution, phase' \in Phases,
           phase \in {"detect", "refused"} => phase' \in {"detect", "refused"}
    PROVE  ResolutionInv'
<1>1. spans' = spans /\ pending' = pending /\ kept' = kept
  BY DEF resolution
<1>2. KeptAreApart' /\ KeptOutrank'
  BY <1>1 DEF ResolutionInv, KeptAreApart, KeptOutrank, Outranks, Length
<1>3. DroppedForBetter'
  <2>1. CASE phase' \in {"detect", "refused"}
    BY <2>1 DEF DroppedForBetter
  <2>2. CASE phase' \notin {"detect", "refused"} /\ phase \notin {"detect", "refused"}
    BY <1>1, <2>2 DEF ResolutionInv, DroppedForBetter, Outranks, Overlap, Length
  <2>3. CASE phase' \notin {"detect", "refused"} /\ phase \in {"detect", "refused"}
    BY <2>3
  <2> QED BY <2>1, <2>2, <2>3
<1> QED BY <1>1, <1>2, <1>3 DEF ResolutionInv

LEMMA InitEstablishes == ASSUME Init PROVE ResolutionInv
<1>1. phase = "screen" /\ spans = {} /\ pending = {} /\ kept = <<>>
  BY DEF Init
<1>2. kept \in Seq(Span) /\ DOMAIN kept = {}
  BY <1>1
<1> QED BY <1>1, <1>2 DEF ResolutionInv, Phases, KeptAreApart, KeptOutrank, DroppedForBetter

LEMMA NextKeeps ==
    ASSUME InspectionAssumption, ResolutionInv, [Next]_vars
    PROVE  ResolutionInv'
<1>1. CASE Screen
  BY <1>1, OtherStepsKeep DEF Screen, Phases
<1>2. CASE Detect
  <2>1. PICK s \in Span : spans' = spans \union {s}
    BY <1>2 DEF Detect
  <2>2. phase = "detect" /\ phase' = phase /\ pending' = pending /\ kept' = kept
    BY <1>2 DEF Detect
  <2>3. KeptAreApart' /\ KeptOutrank'
    BY <2>2 DEF ResolutionInv, KeptAreApart, KeptOutrank, Outranks, Length
  <2>4. DroppedForBetter'
    BY <2>2 DEF DroppedForBetter
  <2> QED BY <2>1, <2>2, <2>3, <2>4 DEF ResolutionInv
<1>3. CASE Detected
  BY <1>3, BeginKeeps DEF Detected, ResolutionInv, Resolutions
<1>4. CASE DetectorFails
  BY <1>4, OtherStepsKeep DEF DetectorFails, Phases
<1>5. CASE \E s \in pending : Consider(s)
  BY <1>5, ConsiderKeeps
<1>6. CASE Map
  <2>1. CASE \A i \in DOMAIN kept : Mappable(kept[i]) /\ verify_round_trip(kept[i])
    <3>1. Begin({map_span(kept[i]) : i \in DOMAIN kept}, "original")
      BY <1>6, <2>1 DEF Map
    <3>2. \A i \in DOMAIN kept : map_span(kept[i]) \in Span
      <4> TAKE i \in DOMAIN kept
      <4>1. kept[i] \in Span
        BY DEF ResolutionInv
      <4>2. OriginStart(kept[i]) \in Nat /\ OriginEnd(kept[i]) \in Nat
            /\ OriginStart(kept[i]) < OriginEnd(kept[i])
        BY <2>1 DEF Mappable
      <4> DEFINE a == OriginStart(kept[i])
                 b == OriginEnd(kept[i])
      <4>3. map_span(kept[i]) = [kept[i] EXCEPT !.start = a, !.end = b]
        BY DEF map_span
      <4> HIDE DEF a, b
      <4>4. a \in Nat /\ b \in Nat /\ a < b
        BY <4>2 DEF a, b
      <4> QED BY <4>1, <4>3, <4>4 DEF Span
    <3> QED BY <3>1, <3>2, BeginKeeps DEF Resolutions
  <2>2. CASE ~ \A i \in DOMAIN kept : Mappable(kept[i]) /\ verify_round_trip(kept[i])
    <3>1. phase = "view" /\ phase' = "refused" /\ UNCHANGED resolution
      BY <1>6, <2>2 DEF Map
    <3> QED BY <3>1, OtherStepsKeep DEF Phases
  <2> QED BY <2>1, <2>2
<1>7. CASE Transform
  <2>1. {kept[i] : i \in DOMAIN kept} \in SUBSET Span
    BY DEF ResolutionInv
  <2> QED BY <1>7, <2>1, BeginKeeps DEF Transform, Resolutions
<1>8. CASE Ordered
  BY <1>8, OtherStepsKeep DEF Ordered, Phases
<1>9. CASE Replace
  BY <1>9, OtherStepsKeep DEF Replace, ResolutionInv
<1>10. CASE Assemble
  BY <1>10, OtherStepsKeep DEF Assemble, Phases
<1>11. CASE UNCHANGED vars
  BY <1>11, OtherStepsKeep DEF vars, ResolutionInv
<1> QED
  BY <1>1, <1>2, <1>3, <1>4, <1>5, <1>6, <1>7, <1>8, <1>9, <1>10, <1>11 DEF Next

\* resolve_conflicts, run over whatever it is given, keeps the invariant.
THEOREM ResolutionIsInvariant == Spec => []ResolutionInv
<1> USE InspectionAssumption
<1> QED BY InitEstablishes, NextKeeps, PTL DEF Spec

\* What resolve_conflicts keeps is ascending and never overlaps, and the two
\* neighbours suffice: nothing is dropped but for a span that is kept, overlaps
\* it and outranks it.
THEOREM ResolvesGreedily == Spec => []ResolvedGreedily
<1>1. ResolutionInv => ResolvedGreedily
  BY DEF ResolutionInv, ResolvedGreedily
<1> QED BY <1>1, ResolutionIsInvariant, PTL

-----------------------------------------------------------------------------
(* Induction over numbers, and what FlattenSeq makes of a sequence of      *)
(* sequences.                                                              *)

(* The least-number principle, for a set instead of a predicate.           *)
LEMMA LeastNumber ==
    ASSUME NEW T \in SUBSET Nat, T # {}
    PROVE  \E x \in T : \A y \in T : x <= y
<1> DEFINE R == {ss \in Nat \X Nat : ss[1] < ss[2]}
<1>1. IsWellFoundedOn(R, Nat)
  BY NatLessThanWellFounded DEF OpToRel
<1>2. PICK x \in T : \A y \in T : ~(<<y, x>> \in R)
  <2> HIDE DEF R
  <2> QED BY <1>1, WFMin
<1>3. \A y \in T : ~(y < x)
  BY <1>2
<1> QED BY <1>3

(* Induction up an interval, for a set of numbers.                         *)
LEMMA UpTheInterval ==
    ASSUME NEW n \in Nat, NEW G, 1 \in G,
           \A i \in 1 .. n : i > 1 /\ i - 1 \in G => i \in G
    PROVE  \A i \in 1 .. n : i \in G
<1> DEFINE T == {i \in 1 .. n : i \notin G}
<1>1. SUFFICES ASSUME T # {} PROVE FALSE
  OBVIOUS
<1>2. PICK x \in T : \A y \in T : x <= y
  <2>1. T \in SUBSET Nat
    OBVIOUS
  <2> HIDE DEF T
  <2> QED BY <1>1, <2>1, LeastNumber
<1>3. x \in 1 .. n /\ x \notin G /\ x > 1
  <2>1. x \in 1 .. n /\ x \notin G
    OBVIOUS
  <2>2. x # 1
    BY <2>1
  <2> QED BY <2>1, <2>2
<1>4. x - 1 \in 1 .. n /\ x - 1 < x
  BY <1>3
<1>5. x - 1 \in G
  <2>1. x - 1 \notin T
    BY <1>2, <1>4
  <2> QED BY <1>4, <2>1
<1> QED BY <1>3, <1>5

(* FlattenSeq, one element at a time.                                      *)
Joined(q, f, i) == IF i = 1 THEN q[i] ELSE f[i - 1] \o q[i]
JoinsUpTo(q, f, n) == f = [i \in 1 .. n |-> Joined(q, f, i)]

(* The joins of a sequence of sequences can be computed, from the first on.*)
LEMMA JoinsExist ==
    ASSUME NEW q, NEW n \in Nat
    PROVE  \A m \in 1 .. n : \E f : JoinsUpTo(q, f, m)
<1> DEFINE G == {m \in 1 .. n : \E f : JoinsUpTo(q, f, m)}
<1>1. CASE n = 0
  BY <1>1
<1>2. CASE n # 0
  <2>1. 1 \in G
    <3> DEFINE f == [i \in {1} |-> q[1]]
    <3>1. 1 .. 1 = {1} /\ 1 \in 1 .. n
      BY <1>2
    <3>2. f = [i \in 1 .. 1 |-> Joined(q, f, i)]
      BY <3>1 DEF Joined
    <3>3. JoinsUpTo(q, f, 1)
      BY <3>2 DEF JoinsUpTo
    <3> QED BY <3>1, <3>3
  <2>2. ASSUME NEW i \in 1 .. n, i > 1, i - 1 \in G PROVE i \in G
    <3>1. PICK g : JoinsUpTo(q, g, i - 1)
      BY <2>2
    <3> DEFINE f == [k \in 1 .. i |-> IF k = i THEN Joined(q, g, i) ELSE g[k]]
    <3>2. \A k \in 1 .. i - 1 : f[k] = g[k]
      OBVIOUS
    <3>3. \A k \in 1 .. i : Joined(q, f, k) = Joined(q, g, k)
      BY <3>2 DEF Joined
    <3>4. \A k \in 1 .. i - 1 : g[k] = Joined(q, g, k)
      BY <3>1 DEF JoinsUpTo
    <3>5. f = [k \in 1 .. i |-> Joined(q, f, k)]
      BY <3>3, <3>4
    <3>6. JoinsUpTo(q, f, i)
      BY <3>5 DEF JoinsUpTo
    <3> QED BY <3>6
  <2>3. \A i \in 1 .. n : i \in G
    <3> HIDE DEF G
    <3> QED BY <2>1, <2>2, UpTheInterval
  <2> QED BY <2>3
<1> QED BY <1>1, <1>2

(* Each join is the one before it and one more sequence.                   *)
LEMMA JoinsMeans ==
    ASSUME NEW q, NEW f, NEW n \in Nat, JoinsUpTo(q, f, n)
    PROVE  \A i \in 1 .. n : f[i] = Joined(q, f, i)
<1> DEFINE h == [i \in 1 .. n |-> Joined(q, f, i)]
<1>1. f = h
  BY DEF JoinsUpTo
<1>2. \A i \in 1 .. n : h[i] = Joined(q, f, i)
  OBVIOUS
<1> QED BY <1>1, <1>2, Zenon

(* Sequences that begin alike have the same joins as far as they do.       *)
LEMMA JoinsAgree ==
    ASSUME NEW q, NEW r, NEW f, NEW g, NEW n \in Nat, NEW m \in Nat, n <= m,
           \A i \in 1 .. n : q[i] = r[i], JoinsUpTo(q, f, n), JoinsUpTo(r, g, m)
    PROVE  \A i \in 1 .. n : f[i] = g[i]
<1> DEFINE G == {i \in 1 .. n : f[i] = g[i]}
<1>1. /\ \A i \in 1 .. n : f[i] = Joined(q, f, i)
      /\ \A i \in 1 .. n : g[i] = Joined(r, g, i)
  <2>1. \A i \in 1 .. n : i \in 1 .. m
    OBVIOUS
  <2> QED BY <2>1, JoinsMeans
<1>2. CASE n = 0
  BY <1>2
<1>3. CASE n # 0
  <2>1. 1 \in G
    BY <1>1, <1>3 DEF Joined
  <2>2. ASSUME NEW i \in 1 .. n, i > 1, i - 1 \in G PROVE i \in G
    BY <1>1, <2>2 DEF Joined
  <2>3. \A i \in 1 .. n : i \in G
    <3> HIDE DEF G
    <3> QED BY <2>1, <2>2, UpTheInterval
  <2> QED BY <2>3
<1> QED BY <1>2, <1>3

(* FlattenSeq is the last of the joins.                                    *)
LEMMA FlattenIsJoined ==
    ASSUME NEW q, Len(q) \in Nat \ {0}
    PROVE  \E f : JoinsUpTo(q, f, Len(q)) /\ FlattenSeq(q) = f[Len(q)]
<1> DEFINE n == Len(q)
           Eq(f) == f = [i \in 1 .. n |-> IF i = 1 THEN q[i] ELSE f[i - 1] \o q[i]]
           flatten == CHOOSE f : Eq(f)
<1>1. FlattenSeq(q) = flatten[n]
  BY DEF FlattenSeq
<1>2. \A f : Eq(f) <=> JoinsUpTo(q, f, n)
  BY DEF JoinsUpTo, Joined
<1>3. \E f : Eq(f)
  <2>1. n \in 1 .. n /\ n \in Nat
    OBVIOUS
  <2> HIDE DEF Eq, n
  <2>2. \E f : JoinsUpTo(q, f, n)
    BY <2>1, JoinsExist
  <2> QED BY <1>2, <2>2
<1>4. Eq(flatten)
  <2> HIDE DEF Eq
  <2> QED BY <1>3
<1> HIDE DEF Eq, flatten
<1> QED BY <1>1, <1>2, <1>4

(* One more sequence is flattened to the end.                              *)
LEMMA FlattenAppend ==
    ASSUME NEW E, NEW q \in Seq(Seq(E)), NEW x \in Seq(E)
    PROVE  FlattenSeq(Append(q, x)) = IF q = <<>> THEN x ELSE FlattenSeq(q) \o x
<1> DEFINE r == Append(q, x)
           n == Len(q)
<1>1. Len(r) = n + 1 /\ n \in Nat /\ r[n + 1] = x /\ \A i \in 1 .. n : r[i] = q[i]
  OBVIOUS
<1> HIDE DEF r
<1>2. PICK g : JoinsUpTo(r, g, n + 1) /\ FlattenSeq(r) = g[n + 1]
  BY <1>1, FlattenIsJoined
<1>3. g[n + 1] = Joined(r, g, n + 1)
  <2>1. n + 1 \in Nat /\ n + 1 \in 1 .. n + 1
    BY <1>1
  <2> HIDE DEF n
  <2> QED BY <1>2, <2>1, JoinsMeans
<1>4. CASE q = <<>>
  <2>1. n = 0
    BY <1>4
  <2> QED BY <1>1, <1>2, <1>3, <1>4, <2>1 DEF Joined, r
<1>5. CASE q # <<>>
  <2>1. n \in Nat \ {0}
    BY <1>5
  <2>2. PICK f : JoinsUpTo(q, f, n) /\ FlattenSeq(q) = f[n]
    BY <2>1, FlattenIsJoined
  <2>3. f[n] = g[n]
    <3> HIDE DEF n
    <3>1. n + 1 \in Nat /\ n <= n + 1 /\ n \in 1 .. n
      BY <2>1
    <3>2. \A i \in 1 .. n : q[i] = r[i]
      BY <1>1
    <3> QED BY <1>1, <1>2, <2>2, <3>1, <3>2, JoinsAgree
  <2>4. g[n + 1] = g[n] \o x
    BY <1>1, <1>3, <2>1 DEF Joined
  <2> QED BY <1>2, <1>5, <2>2, <2>3, <2>4 DEF r
<1> QED BY <1>4, <1>5

-----------------------------------------------------------------------------
(* The ascending listing of a set of numbers, which is what Ascending      *)
(* chooses.                                                                *)

(* q lists the k members of S in ascending order.                          *)
Lists(q, S, k) ==
    /\ q \in [1 .. k -> S]
    /\ \A i, j \in 1 .. k : i < j => q[i] < q[j]
    /\ \A x \in S : \E i \in 1 .. k : q[i] = x

(* One more, larger number is listed at the end.                           *)
LEMMA ListOneMore ==
    ASSUME NEW S \in SUBSET Nat, NEW x \in Nat, \A y \in S : y < x,
           NEW k \in Nat, NEW q, Lists(q, S, k)
    PROVE  Lists([i \in 1 .. k + 1 |-> IF i = k + 1 THEN x ELSE q[i]], S \union {x}, k + 1)
<1> DEFINE r == [i \in 1 .. k + 1 |-> IF i = k + 1 THEN x ELSE q[i]]
<1>1. q \in [1 .. k -> S]
  BY DEF Lists
<1>2. \A i \in 1 .. k : i \in 1 .. k + 1 /\ r[i] = q[i] /\ q[i] \in S /\ i # k + 1
  BY <1>1
<1>3. k + 1 \in 1 .. k + 1 /\ r[k + 1] = x
  OBVIOUS
<1>4. \A i \in 1 .. k + 1 : i = k + 1 \/ i \in 1 .. k
  OBVIOUS
<1>5. DOMAIN r = 1 .. k + 1 /\ r = [i \in 1 .. k + 1 |-> r[i]]
  OBVIOUS
<1> HIDE DEF r
<1>6. \A i \in 1 .. k + 1 : r[i] \in S \union {x}
  BY <1>2, <1>3, <1>4
<1>7. r \in [1 .. k + 1 -> S \union {x}]
  BY <1>5, <1>6
<1>8. ASSUME NEW i \in 1 .. k + 1, NEW j \in 1 .. k + 1, i < j PROVE r[i] < r[j]
  <2>1. i \in 1 .. k
    BY <1>8
  <2>2. CASE j = k + 1
    BY <1>2, <1>3, <2>1, <2>2
  <2>3. CASE j \in 1 .. k
    <3>1. q[i] < q[j]
      BY <1>8, <2>1, <2>3 DEF Lists
    <3> QED BY <1>2, <2>1, <2>3, <3>1
  <2> QED BY <1>4, <2>2, <2>3
<1>9. \A y \in S \union {x} : \E i \in 1 .. k + 1 : r[i] = y
  <2> TAKE y \in S \union {x}
  <2>1. CASE y = x
    BY <1>3, <2>1
  <2>2. CASE y \in S
    <3>1. PICK i \in 1 .. k : q[i] = y
      BY <2>2 DEF Lists
    <3> QED BY <1>2, <3>1
  <2> QED BY <2>1, <2>2
<1>10. Lists(r, S \union {x}, k + 1)
  BY <1>7, <1>8, <1>9 DEF Lists
<1> QED BY <1>10 DEF r

(* The numbers of an interval can be listed.                               *)
LEMMA ListExists ==
    ASSUME NEW n \in Nat, NEW S \in SUBSET (1 .. n)
    PROVE  \E k \in Nat : \E q : Lists(q, S, k)
<1> DEFINE G == {m \in 1 .. n + 1 : \E k \in Nat : \E q : Lists(q, S \intersect (1 .. m - 1), k)}
<1>1. 1 \in G
  <2> DEFINE q == [i \in 1 .. 0 |-> 0]
  <2>1. S \intersect (1 .. 1 - 1) = {} /\ 1 .. 0 = {}
    OBVIOUS
  <2>2. Lists(q, {}, 0)
    BY <2>1 DEF Lists
  <2>3. Lists(q, S \intersect (1 .. 1 - 1), 0)
    <3> HIDE DEF q
    <3> QED BY <2>1, <2>2
  <2>4. 0 \in Nat /\ 1 \in 1 .. n + 1
    OBVIOUS
  <2> HIDE DEF q
  <2> QED BY <2>3, <2>4
<1>2. ASSUME NEW i \in 1 .. n + 1, i > 1, i - 1 \in G PROVE i \in G
  <2> DEFINE T == S \intersect (1 .. (i - 1) - 1)
  <2>0. PICK k \in Nat : \E q : Lists(q, T, k)
    BY <1>2
  <2>1. PICK q : Lists(q, T, k)
    BY <2>0
  <2>2. CASE i - 1 \in S
    <3>1. S \intersect (1 .. i - 1) = T \union {i - 1}
      BY <1>2, <2>2
    <3>2. T \in SUBSET Nat /\ i - 1 \in Nat /\ \A y \in T : y < i - 1
      BY <1>2
    <3> HIDE DEF T
    <3>3. k \in Nat /\ k + 1 \in Nat
      BY <2>1
    <3> DEFINE x == i - 1
    <3>4. x \in Nat
      BY <3>2
    <3>5. \A y \in T : y < x
      BY <3>2
    <3>6. Lists([l \in 1 .. k + 1 |-> IF l = k + 1 THEN x ELSE q[l]], T \union {x}, k + 1)
      <4> HIDE DEF x
      <4> QED BY <2>1, <3>2, <3>3, <3>4, <3>5, ListOneMore
    <3>7. \E r : Lists(r, T \union {x}, k + 1)
      BY <3>6
    <3> QED BY <1>2, <3>1, <3>3, <3>7
  <2>3. CASE i - 1 \notin S
    <3>1. S \intersect (1 .. i - 1) = T
      BY <1>2, <2>3
    <3> HIDE DEF T
    <3> QED BY <1>2, <2>1, <3>1
  <2> QED BY <2>2, <2>3
<1>3. \A i \in 1 .. n + 1 : i \in G
  <2> HIDE DEF G
  <2> QED BY <1>1, <1>2, UpTheInterval
<1>4. n + 1 \in G
  BY <1>3
<1>5. S \intersect (1 .. (n + 1) - 1) = S
  <2>1. (n + 1) - 1 = n
    OBVIOUS
  <2> QED BY <2>1
<1> QED BY <1>4, <1>5

(* A list is as long as its set is large.                                  *)
LEMMA ListSize ==
    ASSUME NEW S \in SUBSET Nat, NEW k \in Nat, NEW q, Lists(q, S, k)
    PROVE  IsFiniteSet(S) /\ Cardinality(S) = k
<1>1. q \in [1 .. k -> S]
  BY DEF Lists
<1>2. \A i \in 1 .. k : q[i] \in Nat
  BY <1>1
<1>3. \A i, j \in 1 .. k : q[i] = q[j] => i = j
  <2> TAKE i, j \in 1 .. k
  <2>1. i < j \/ j < i \/ i = j
    OBVIOUS
  <2>2. i < j => q[i] < q[j]
    BY DEF Lists
  <2>3. j < i => q[j] < q[i]
    BY DEF Lists
  <2> QED BY <1>2, <2>1, <2>2, <2>3
<1>4. q \in Injection(1 .. k, S)
  BY <1>1, <1>3 DEF Injection, IsInjective
<1>5. q \in Surjection(1 .. k, S)
  BY <1>1 DEF Surjection, Lists
<1>6. ExistsBijection(1 .. k, S)
  BY <1>4, <1>5 DEF ExistsBijection, Bijection
<1>7. IsFiniteSet(1 .. k) /\ Cardinality(1 .. k) = k
  BY FS_Interval
<1> QED BY <1>6, <1>7, FS_Bijection

(* There is one way to list a set.                                         *)
LEMMA ListUnique ==
    ASSUME NEW S \in SUBSET Nat, NEW k \in Nat, NEW q, NEW r, Lists(q, S, k), Lists(r, S, k)
    PROVE  q = r
<1> DEFINE T == {i \in 1 .. k : q[i] # r[i]}
<1>1. q \in [1 .. k -> S] /\ r \in [1 .. k -> S]
  BY DEF Lists
<1>2. SUFFICES ASSUME T # {} PROVE FALSE
  BY <1>1
<1>3. PICK i \in T : \A j \in T : i <= j
  <2>1. T \in SUBSET Nat
    OBVIOUS
  <2> HIDE DEF T
  <2> QED BY <1>2, <2>1, LeastNumber
<1>4. \A j \in 1 .. k : j < i => q[j] = r[j]
  BY <1>3
<1>5. i \in 1 .. k /\ q[i] # r[i] /\ q[i] \in Nat /\ r[i] \in Nat
  BY <1>1
<1> HIDE DEF T
<1>6. PICK j \in 1 .. k : r[j] = q[i]
  BY <1>1, <1>5 DEF Lists
<1>7. PICK l \in 1 .. k : q[l] = r[i]
  BY <1>1, <1>5 DEF Lists
<1>8. ~(j < i)
  <2>1. j < i => q[j] < q[i]
    BY <1>5 DEF Lists
  <2> QED BY <1>4, <1>5, <1>6, <2>1
<1>9. ~(l < i)
  <2>1. l < i => r[l] < r[i]
    BY <1>5 DEF Lists
  <2> QED BY <1>4, <1>5, <1>7, <2>1
<1>10. j # i /\ l # i
  BY <1>5, <1>6, <1>7
<1>11. i < j /\ i < l
  BY <1>5, <1>8, <1>9, <1>10
<1>12. r[i] < q[i]
  BY <1>5, <1>6, <1>11 DEF Lists
<1>13. q[i] < r[i]
  BY <1>5, <1>7, <1>11 DEF Lists
<1> QED BY <1>5, <1>12, <1>13

(* Ascending lists its set.                                                *)
LEMMA AscendingLists ==
    ASSUME NEW n \in Nat, NEW S \in SUBSET (1 .. n)
    PROVE  \E k \in Nat : k = Cardinality(S) /\ Lists(Ascending(S), S, k)
<1>1. S \in SUBSET Nat
  OBVIOUS
<1>0. PICK k \in Nat : \E q : Lists(q, S, k)
  BY ListExists
<1>2. PICK q : Lists(q, S, k)
  BY <1>0
<1>3. IsFiniteSet(S) /\ Cardinality(S) = k
  BY <1>1, <1>2, ListSize
<1> DEFINE Up(r) == \A i, j \in DOMAIN r : i < j => r[i] < r[j]
           a == CHOOSE r \in [1 .. k -> S] : Up(r)
<1>4. Ascending(S) = a
  BY <1>3 DEF Ascending
<1>5. q \in [1 .. k -> S] /\ Up(q)
  BY <1>2 DEF Lists
<1>6. a \in [1 .. k -> S] /\ Up(a)
  <2> HIDE DEF Up
  <2> QED BY <1>5
<1>7. DOMAIN a = 1 .. k
  BY <1>6
<1>8. \A i, j \in 1 .. k : i < j => a[i] < a[j]
  BY <1>6, <1>7
<1> HIDE DEF a, Up
<1>9. \A i \in 1 .. k : a[i] \in Nat
  BY <1>1, <1>6
<1>10. \A i, j \in 1 .. k : a[i] = a[j] => i = j
  <2> TAKE i, j \in 1 .. k
  <2>1. i < j \/ j < i \/ i = j
    OBVIOUS
  <2> QED BY <1>8, <1>9, <2>1
<1>11. a \in Injection(1 .. k, S)
  BY <1>6, <1>7, <1>10 DEF Injection, IsInjective
<1>12. IsFiniteSet(1 .. k) /\ Cardinality(1 .. k) = k
  BY FS_Interval
<1>13. a \in Surjection(1 .. k, S)
  BY <1>3, <1>11, <1>12, FS_Injection
<1>14. \A x \in S : \E i \in 1 .. k : a[i] = x
  BY <1>13 DEF Surjection
<1>15. Lists(a, S, k)
  BY <1>6, <1>8, <1>14 DEF Lists
<1> QED BY <1>3, <1>4, <1>15

(* Whatever lists a set is what Ascending yields.                          *)
LEMMA AscendingIs ==
    ASSUME NEW n \in Nat, NEW S \in SUBSET (1 .. n), NEW k \in Nat, NEW q, Lists(q, S, k)
    PROVE  Ascending(S) = q
<1>1. S \in SUBSET Nat
  OBVIOUS
<1>2. PICK m \in Nat : m = Cardinality(S) /\ Lists(Ascending(S), S, m)
  BY AscendingLists
<1>3. Cardinality(S) = k
  BY <1>1, ListSize
<1>4. m = k
  BY <1>2, <1>3
<1> QED BY <1>1, <1>2, <1>4, ListUnique

(* An empty sequence of sequences flattens to nothing.                     *)
LEMMA FlattenNothing == FlattenSeq(<<>>) = <<>>
<1>1. Len(<<>>) = 0
  OBVIOUS
<1> QED BY <1>1 DEF FlattenSeq

(* A sequence is the one without its last element and that element.        *)
LEMMA LastAppended ==
    ASSUME NEW E, NEW q \in Seq(E), NEW n \in Nat, Len(q) = n + 1
    PROVE  /\ SubSeq(q, 1, n) \in Seq(E) /\ Len(SubSeq(q, 1, n)) = n /\ q[n + 1] \in E
           /\ q = Append(SubSeq(q, 1, n), q[n + 1])
<1>1. q[n + 1] \in E /\ SubSeq(q, 1, n) \in Seq(E) /\ Len(SubSeq(q, 1, n)) = n
  OBVIOUS
<1>2. \A i \in 1 .. n : SubSeq(q, 1, n)[i] = q[i]
  OBVIOUS
<1> DEFINE r == Append(SubSeq(q, 1, n), q[n + 1])
<1>3. r \in Seq(E) /\ Len(r) = n + 1
  BY <1>1
<1>4. \A i \in 1 .. n + 1 : r[i] = q[i]
  <2> TAKE i \in 1 .. n + 1
  <2>1. CASE i = n + 1
    BY <1>1, <2>1
  <2>2. CASE i \in 1 .. n
    BY <1>1, <1>2, <2>2
  <2> QED BY <2>1, <2>2
<1> HIDE DEF r
<1>5. r = q
  BY <1>3, <1>4, SeqEqual
<1> QED BY <1>1, <1>5 DEF r

(* What a sequence of sequences flattens to is one of their elements.      *)
LEMMA FlattenType ==
    ASSUME NEW E, NEW q \in Seq(Seq(E))
    PROVE  FlattenSeq(q) \in Seq(E)
<1> DEFINE N == Len(q)
           G == {m \in 1 .. N + 1 : \A p \in Seq(Seq(E)) : Len(p) = m - 1 => FlattenSeq(p) \in Seq(E)}
<1>0. N \in Nat
  OBVIOUS
<1> HIDE DEF N
<1>1. 1 \in G
  <2>1. ASSUME NEW p \in Seq(Seq(E)), Len(p) = 0 PROVE FlattenSeq(p) \in Seq(E)
    <3>1. p = <<>> /\ <<>> \in Seq(E)
      BY <2>1
    <3> QED BY <3>1, FlattenNothing
  <2> QED BY <1>0, <2>1
<1>2. ASSUME NEW i \in 1 .. N + 1, i > 1, i - 1 \in G PROVE i \in G
  <2>1. ASSUME NEW p \in Seq(Seq(E)), Len(p) = i - 1 PROVE FlattenSeq(p) \in Seq(E)
    <3> DEFINE n == i - 2
               front == SubSeq(p, 1, n)
               x == p[n + 1]
    <3>1. n \in Nat /\ Len(p) = n + 1
      BY <1>2, <2>1
    <3>2. front \in Seq(Seq(E)) /\ Len(front) = n /\ x \in Seq(E) /\ p = Append(front, x)
      <4> HIDE DEF n
      <4> QED BY <3>1, LastAppended
    <3>3. n = (i - 1) - 1
      BY <1>2
    <3> HIDE DEF n, front, x
    <3>4. FlattenSeq(front) \in Seq(E)
      BY <1>2, <3>2, <3>3
    <3>5. FlattenSeq(p) = IF front = <<>> THEN x ELSE FlattenSeq(front) \o x
      BY <3>2, FlattenAppend
    <3> QED BY <3>2, <3>4, <3>5
  <2> QED BY <2>1
<1>3. \A i \in 1 .. N + 1 : i \in G
  <2> HIDE DEF G
  <2>1. N + 1 \in Nat
    BY <1>0
  <2>2. N \in Nat /\ N + 1 >= 1
    BY <1>0
  <2> QED BY <1>1, <1>2, <2>1, UpTheInterval
<1>4. N + 1 \in G
  BY <1>0, <1>3
<1>5. Len(q) = (N + 1) - 1
  BY <1>0 DEF N
<1> QED BY <1>4, <1>5

(* A sequence that is added at the end is added at the end of the flat     *)
(* one.                                                                    *)
LEMMA FlattenAdds ==
    ASSUME NEW E, NEW q \in Seq(Seq(E)), NEW x \in Seq(E)
    PROVE  FlattenSeq(Append(q, x)) = FlattenSeq(q) \o x
<1>1. CASE q = <<>>
  <2>1. <<>> \o x = x
    OBVIOUS
  <2>2. FlattenSeq(Append(q, x)) = x
    BY <1>1, FlattenAppend
  <2> QED BY <1>1, <2>1, <2>2, FlattenNothing
<1>2. CASE q # <<>>
  BY <1>2, FlattenAppend
<1> QED BY <1>1, <1>2

(* A list of two parts is flattened part by part.                          *)
LEMMA FlattenBoth ==
    ASSUME NEW E, NEW p \in Seq(Seq(E)), NEW q \in Seq(Seq(E))
    PROVE  FlattenSeq(p \o q) = FlattenSeq(p) \o FlattenSeq(q)
<1> DEFINE N == Len(q)
           G == {m \in 1 .. N + 1 : \A r \in Seq(Seq(E)) :
                    Len(r) = m - 1 => FlattenSeq(p \o r) = FlattenSeq(p) \o FlattenSeq(r)}
<1>0. N \in Nat
  OBVIOUS
<1> HIDE DEF N
<1>p. FlattenSeq(p) \in Seq(E)
  BY FlattenType
<1>1. 1 \in G
  <2>1. ASSUME NEW r \in Seq(Seq(E)), Len(r) = 0
        PROVE  FlattenSeq(p \o r) = FlattenSeq(p) \o FlattenSeq(r)
    <3>1. r = <<>> /\ p \o <<>> = p
      BY <2>1
    <3>2. FlattenSeq(p) \o <<>> = FlattenSeq(p)
      BY <1>p
    <3> QED BY <3>1, <3>2, FlattenNothing
  <2> QED BY <1>0, <2>1, SMTT(30)
<1>2. ASSUME NEW i \in 1 .. N + 1, i > 1, i - 1 \in G PROVE i \in G
  <2>1. ASSUME NEW r \in Seq(Seq(E)), Len(r) = i - 1
        PROVE  FlattenSeq(p \o r) = FlattenSeq(p) \o FlattenSeq(r)
    <3> DEFINE n == i - 2
               front == SubSeq(r, 1, n)
               x == r[n + 1]
    <3>1. n \in Nat /\ Len(r) = n + 1
      BY <1>2, <2>1
    <3>2. front \in Seq(Seq(E)) /\ Len(front) = n /\ x \in Seq(E) /\ r = Append(front, x)
      <4> HIDE DEF n
      <4> QED BY <3>1, LastAppended
    <3>3. n = (i - 1) - 1
      BY <1>2
    <3> HIDE DEF n, front, x
    <3>4. FlattenSeq(p \o front) = FlattenSeq(p) \o FlattenSeq(front)
      BY <1>2, <3>2, <3>3
    <3>5. FlattenSeq(r) = FlattenSeq(front) \o x /\ FlattenSeq(front) \in Seq(E)
      BY <3>2, FlattenAdds, FlattenType
    <3>6. p \o r = Append(p \o front, x) /\ p \o front \in Seq(Seq(E))
      BY <3>2
    <3>7. FlattenSeq(p \o r) = FlattenSeq(p \o front) \o x
      BY <3>2, <3>6, FlattenAdds
    <3> DEFINE u == FlattenSeq(p)
               v == FlattenSeq(front)
    <3>8. (u \o v) \o x = u \o (v \o x)
      <4>1. u \in Seq(E) /\ v \in Seq(E) /\ x \in Seq(E)
        BY <1>p, <3>2, <3>5
      <4> HIDE DEF u, v
      <4> QED BY <4>1, ConcatAssociative, SMTT(30)
    <3> QED BY <3>4, <3>5, <3>7, <3>8
  <2> QED BY <2>1
<1>3. \A i \in 1 .. N + 1 : i \in G
  <2> HIDE DEF G
  <2>1. N + 1 \in Nat
    BY <1>0
  <2> QED BY <1>1, <1>2, <2>1, UpTheInterval
<1>4. N + 1 \in G
  BY <1>0, <1>3
<1>5. Len(q) = (N + 1) - 1
  BY <1>0 DEF N
<1> QED BY <1>4, <1>5

(* Where the c-th sequence ends in the flattened one.                      *)
Upto(q, c) == Len(FlattenSeq(SubSeq(q, 1, c)))

(* A sequence between two cuts is one and the other.                       *)
LEMMA CutBetween ==
    ASSUME NEW E, NEW q \in Seq(E), NEW a \in 0 .. Len(q), NEW b \in a .. Len(q)
    PROVE  /\ SubSeq(q, 1, a) \in Seq(E) /\ SubSeq(q, a + 1, b) \in Seq(E)
           /\ SubSeq(q, 1, b) \in Seq(E)
           /\ SubSeq(q, 1, b) = SubSeq(q, 1, a) \o SubSeq(q, a + 1, b)
<1>1. SubSeq(q, 1, a) \in Seq(E) /\ SubSeq(q, a + 1, b) \in Seq(E) /\ SubSeq(q, 1, b) \in Seq(E)
  OBVIOUS
<1>2. 1 \in 1 .. Len(q) + 1 /\ a \in 1 - 1 .. Len(q)
  OBVIOUS
<1>3. SubSeq(q, 1, a) \o SubSeq(q, a + 1, b) = SubSeq(q, 1, b)
  BY <1>2, ConcatAdjacentSubSeq
<1> QED BY <1>1, <1>3

(* Upto grows by the length of each sequence it passes.                    *)
LEMMA UptoSteps ==
    ASSUME NEW E, NEW q \in Seq(Seq(E))
    PROVE  /\ Upto(q, 0) = 0
           /\ Upto(q, Len(q)) = Len(FlattenSeq(q))
           /\ \A c \in 0 .. Len(q) : Upto(q, c) \in Nat
           /\ \A c \in 1 .. Len(q) : Upto(q, c) = Upto(q, c - 1) + Len(q[c])
<1>1. SubSeq(q, 1, 0) = <<>> /\ SubSeq(q, 1, Len(q)) = q
  OBVIOUS
<1>2. Upto(q, 0) = 0
  <2>1. Len(<<>>) = 0
    OBVIOUS
  <2>2. FlattenSeq(SubSeq(q, 1, 0)) = <<>>
    BY <1>1, FlattenNothing
  <2> QED BY <2>1, <2>2 DEF Upto
<1>3. ASSUME NEW c \in 0 .. Len(q) PROVE Upto(q, c) \in Nat
  <2>1. SubSeq(q, 1, c) \in Seq(Seq(E))
    OBVIOUS
  <2>2. FlattenSeq(SubSeq(q, 1, c)) \in Seq(E)
    BY <2>1, FlattenType
  <2> QED BY <2>2 DEF Upto
<1>4. ASSUME NEW c \in 1 .. Len(q) PROVE Upto(q, c) = Upto(q, c - 1) + Len(q[c])
  <2> DEFINE r == SubSeq(q, 1, c)
             n == c - 1
  <2>1. r \in Seq(Seq(E)) /\ Len(r) = n + 1 /\ n \in Nat
    OBVIOUS
  <2>2. r[n + 1] = q[c] /\ q[c] \in Seq(E)
    OBVIOUS
  <2>3. SubSeq(r, 1, n) = SubSeq(q, 1, n)
    OBVIOUS
  <2> HIDE DEF r, n
  <2>4. SubSeq(r, 1, n) \in Seq(Seq(E)) /\ r = Append(SubSeq(r, 1, n), r[n + 1])
    BY <2>1, LastAppended
  <2>5. FlattenSeq(r) = FlattenSeq(SubSeq(q, 1, n)) \o q[c]
    BY <2>2, <2>3, <2>4, FlattenAdds
  <2>6. FlattenSeq(SubSeq(q, 1, n)) \in Seq(E)
    BY <2>3, <2>4, FlattenType
  <2>7. Len(FlattenSeq(r)) = Len(FlattenSeq(SubSeq(q, 1, n))) + Len(q[c])
    BY <2>2, <2>5, <2>6
  <2> QED BY <2>7 DEF Upto, r, n
<1> QED BY <1>1, <1>2, <1>3, <1>4 DEF Upto

(* The ends ascend.                                                        *)
LEMMA UptoAscends ==
    ASSUME NEW E, NEW q \in Seq(Seq(E)), NEW a \in 0 .. Len(q), NEW b \in a .. Len(q)
    PROVE  Upto(q, a) <= Upto(q, b)
<1>1. SubSeq(q, 1, a) \in Seq(Seq(E)) /\ SubSeq(q, a + 1, b) \in Seq(Seq(E))
      /\ SubSeq(q, 1, b) = SubSeq(q, 1, a) \o SubSeq(q, a + 1, b)
  BY CutBetween
<1>2. FlattenSeq(SubSeq(q, 1, b)) = FlattenSeq(SubSeq(q, 1, a)) \o FlattenSeq(SubSeq(q, a + 1, b))
  BY <1>1, FlattenBoth
<1>3. FlattenSeq(SubSeq(q, 1, a)) \in Seq(E) /\ FlattenSeq(SubSeq(q, a + 1, b)) \in Seq(E)
  BY <1>1, FlattenType
<1> QED BY <1>2, <1>3 DEF Upto

(* What lies between two ends is what the sequences between them flatten to.*)
LEMMA FlattenBetween ==
    ASSUME NEW E, NEW q \in Seq(Seq(E)), NEW a \in 0 .. Len(q), NEW b \in a .. Len(q)
    PROVE  SubSeq(FlattenSeq(q), Upto(q, a) + 1, Upto(q, b)) = FlattenSeq(SubSeq(q, a + 1, b))
<1> DEFINE u == FlattenSeq(SubSeq(q, 1, a))
           v == FlattenSeq(SubSeq(q, a + 1, b))
           w == FlattenSeq(SubSeq(q, b + 1, Len(q)))
<1>1. SubSeq(q, 1, a) \in Seq(Seq(E)) /\ SubSeq(q, a + 1, b) \in Seq(Seq(E))
      /\ SubSeq(q, 1, b) \in Seq(Seq(E))
      /\ SubSeq(q, 1, b) = SubSeq(q, 1, a) \o SubSeq(q, a + 1, b)
  BY CutBetween
<1>2. b \in 0 .. Len(q) /\ Len(q) \in b .. Len(q) /\ SubSeq(q, 1, Len(q)) = q
  OBVIOUS
<1>3. SubSeq(q, b + 1, Len(q)) \in Seq(Seq(E))
      /\ SubSeq(q, 1, Len(q)) = SubSeq(q, 1, b) \o SubSeq(q, b + 1, Len(q))
  BY <1>2, CutBetween
<1>4. u \in Seq(E) /\ v \in Seq(E) /\ w \in Seq(E)
  BY <1>1, <1>3, FlattenType
<1>5. FlattenSeq(SubSeq(q, 1, b)) = u \o v
  BY <1>1, FlattenBoth
<1>6. FlattenSeq(q) = (u \o v) \o w
  <2>1. q = SubSeq(q, 1, b) \o SubSeq(q, b + 1, Len(q))
    BY <1>2, <1>3
  <2>2. FlattenSeq(SubSeq(q, 1, b) \o SubSeq(q, b + 1, Len(q))) = FlattenSeq(SubSeq(q, 1, b)) \o w
    BY <1>1, <1>3, FlattenBoth
  <2> QED BY <1>5, <2>1, <2>2
<1>7. Upto(q, a) = Len(u) /\ Upto(q, b) = Len(u) + Len(v)
  BY <1>4, <1>5 DEF Upto
<1> HIDE DEF u, v, w
<1>8. SubSeq((u \o v) \o w, Len(u) + 1, Len(u) + Len(v)) = v
  <2> DEFINE t == (u \o v) \o w
             s == SubSeq(t, Len(u) + 1, Len(u) + Len(v))
  <2>1. t \in Seq(E) /\ Len(t) = Len(u) + Len(v) + Len(w)
        /\ Len(u) \in Nat /\ Len(v) \in Nat /\ Len(w) \in Nat
    BY <1>4
  <2>2. \A i \in 1 .. Len(v) : t[Len(u) + i] = v[i]
    <3> TAKE i \in 1 .. Len(v)
    <3>1. u \o v \in Seq(E) /\ Len(u \o v) = Len(u) + Len(v) /\ Len(u) + i \in 1 .. Len(u) + Len(v)
      BY <1>4
    <3>2. t[Len(u) + i] = (u \o v)[Len(u) + i]
      BY <1>4, <3>1
    <3>3. (u \o v)[Len(u) + i] = v[i]
      BY <1>4
    <3> QED BY <3>2, <3>3
  <2> HIDE DEF t
  <2>3. s \in Seq(E) /\ Len(s) = Len(v) /\ \A i \in 1 .. Len(v) : s[i] = t[Len(u) + i]
    BY <2>1, SMTT(30)
  <2> HIDE DEF s
  <2>4. s = v
    BY <1>4, <2>2, <2>3, SeqEqual
  <2> QED BY <2>4 DEF s, t
<1> QED BY <1>6, <1>7, <1>8 DEF v

(* The x-th element of the c-th sequence.                                  *)
LEMMA FlattenAt ==
    ASSUME NEW E, NEW q \in Seq(Seq(E)), NEW c \in 1 .. Len(q), NEW x \in 1 .. Len(q[c])
    PROVE  /\ Upto(q, c - 1) + x \in 1 .. Len(FlattenSeq(q))
           /\ FlattenSeq(q)[Upto(q, c - 1) + x] = q[c][x]
<1> DEFINE n == Len(q)
           a == Upto(q, c - 1)
           b == Upto(q, c)
           t == FlattenSeq(q)
<1>1. c - 1 \in 0 .. n /\ c \in c - 1 .. n /\ c \in 0 .. n /\ n \in c .. n /\ (c - 1) + 1 = c
  OBVIOUS
<1>2. q[c] \in Seq(E) /\ t \in Seq(E)
  BY FlattenType
<1>3. a \in Nat /\ b \in Nat /\ b = a + Len(q[c]) /\ Upto(q, n) = Len(t)
  BY <1>1, UptoSteps
<1>4. b <= Len(t)
  BY <1>1, <1>3, UptoAscends
<1>5. SubSeq(t, a + 1, b) = FlattenSeq(SubSeq(q, c, c))
  BY <1>1, FlattenBetween
<1>6. FlattenSeq(SubSeq(q, c, c)) = q[c]
  <2>1. SubSeq(q, c, c) = <<q[c]>>
    <3> DEFINE r == SubSeq(q, c, c)
               o == <<q[c]>>
    <3>1. r \in Seq(Seq(E)) /\ Len(r) = 1 /\ r[1] = q[c]
      BY <1>1
    <3>2. o \in Seq(Seq(E)) /\ Len(o) = 1 /\ o[1] = q[c]
      BY <1>2
    <3>3. \A i \in 1 .. Len(r) : r[i] = o[i]
      BY <3>1, <3>2
    <3> HIDE DEF r, o
    <3>4. r = o
      BY <3>1, <3>2, <3>3, SeqEqual
    <3> QED BY <3>4 DEF r, o
  <2>2. <<>> \in Seq(Seq(E)) /\ Append(<<>>, q[c]) = <<q[c]>>
    OBVIOUS
  <2>3. FlattenSeq(Append(<<>>, q[c])) = FlattenSeq(<<>>) \o q[c]
    BY <1>2, <2>2, FlattenAdds
  <2>4. <<>> \o q[c] = q[c]
    BY <1>2, ConcatEmptySeq
  <2> QED BY <2>1, <2>2, <2>3, <2>4, FlattenNothing
<1>7. SubSeq(t, a + 1, b)[x] = t[a + x]
  <2> HIDE DEF a, b, t
  <2> QED BY <1>2, <1>3, <1>4
<1>8. a + x \in 1 .. Len(t)
  <2> HIDE DEF a, b, t
  <2> QED BY <1>2, <1>3, <1>4
<1> QED BY <1>5, <1>6, <1>7, <1>8, Zenon

(* Every position lies in one of the sequences.                            *)
LEMMA FlattenWhere ==
    ASSUME NEW E, NEW q \in Seq(Seq(E)), NEW x \in 1 .. Len(FlattenSeq(q))
    PROVE  \E c \in 1 .. Len(q) : Upto(q, c - 1) < x /\ x <= Upto(q, c)
<1> DEFINE T == {c \in 0 .. Len(q) : x <= Upto(q, c)}
<1>1. Upto(q, 0) = 0 /\ Upto(q, Len(q)) = Len(FlattenSeq(q)) /\ \A c \in 0 .. Len(q) : Upto(q, c) \in Nat
  BY UptoSteps
<1>2. x \in Nat /\ x >= 1 /\ x <= Len(FlattenSeq(q))
  <2>1. FlattenSeq(q) \in Seq(E)
    BY FlattenType
  <2> QED BY <2>1
<1>3. Len(q) \in T
  BY <1>1, <1>2
<1>4. PICK c \in T : \A d \in T : c <= d
  <2>1. T \in SUBSET Nat
    OBVIOUS
  <2> HIDE DEF T
  <2> QED BY <1>3, <2>1, LeastNumber
<1>5. c # 0
  BY <1>1, <1>2
<1>6. c \in 1 .. Len(q) /\ c - 1 \in 0 .. Len(q)
  BY <1>5
<1>7. c - 1 \notin T
  BY <1>4, <1>6
<1>8. Upto(q, c - 1) < x
  BY <1>1, <1>2, <1>6, <1>7
<1> QED BY <1>4, <1>6, <1>8

-----------------------------------------------------------------------------
(* How a text falls into visible characters and clusters.                  *)

(* The classes a character of a view can be of.                            *)
Glyphs == Characters \union {"plain", "accented", "mark"}

(* Normalization yields something for each cluster.                        *)
LEMMA NormalizedType ==
    ASSUME NEW head \in Glyphs, NEW n \in Nat
    PROVE  Normalized(head, n) \in Seq(Glyphs) /\ Len(Normalized(head, n)) \in Nat \ {0}
<1>1. \A m \in Nat : Marks(m) \in Seq(Glyphs)
  <2> TAKE m \in Nat
  <2>1. Marks(m) = [i \in 1 .. m |-> "mark"] /\ "mark" \in Glyphs
    BY DEF Marks, Glyphs
  <2> QED BY <2>1
<1>2. \A g \in Glyphs, r \in Seq(Glyphs) :
         <<g>> \o r \in Seq(Glyphs) /\ Len(<<g>> \o r) \in Nat \ {0}
  <2> TAKE g \in Glyphs, r \in Seq(Glyphs)
  <2>1. <<g>> \in Seq(Glyphs) /\ Len(<<g>>) = 1
    OBVIOUS
  <2>2. <<g>> \o r \in Seq(Glyphs) /\ Len(<<g>> \o r) = 1 + Len(r)
    BY <2>1, ConcatProperties
  <2> QED BY <2>2
<1>3. "plain" \in Glyphs /\ "accented" \in Glyphs
  BY DEF Glyphs
<1>4. Compose(n) \in Seq(Glyphs) /\ Len(Compose(n)) \in Nat \ {0}
  <2>1. CASE n = 0
    <3>1. Compose(n) = <<"plain">>
      BY <2>1 DEF Compose
    <3> QED BY <1>3, <3>1
  <2>2. CASE n # 0
    <3>1. Compose(n) = <<"accented">> \o Marks(n - 1) /\ n - 1 \in Nat
      BY <2>2 DEF Compose
    <3> QED BY <1>1, <1>2, <1>3, <3>1
  <2> QED BY <2>1, <2>2
<1>5. CASE head = "plain"
  <2>1. Normalized(head, n) = Compose(n)
    BY <1>5 DEF Normalized
  <2> QED BY <1>4, <2>1
<1>6. CASE head = "wide"
  <2>1. Normalized(head, n) = <<"plain">> \o Compose(n)
    BY <1>6 DEF Normalized
  <2> QED BY <1>2, <1>3, <1>4, <2>1
<1>7. CASE head # "plain" /\ head # "wide"
  <2>1. Normalized(head, n) = <<head>> \o Marks(n)
    BY <1>7 DEF Normalized
  <2> QED BY <1>1, <1>2, <2>1
<1> QED BY <1>5, <1>6, <1>7

-----------------------------------------------------------------------------
(* How a text is parsed: v lists its m visible characters, and h lists the *)
(* k of those that begin a cluster.                                        *)
Heads(t, v, m) == {j \in 1 .. m : j = 1 \/ t[v[j]] # "mark"}

Parses(t, v, m, h, k) ==
    /\ Lists(v, DOMAIN t \ Hidden(t), m)
    /\ Lists(h, Heads(t, v, m), k)

(* The last character of the c-th cluster, where the original of the       *)
(* cluster ends, and what becomes of it.                                   *)
Final(h, k, m, c) == IF c = k THEN m ELSE h[c + 1] - 1
Edge(t, v, h, k, c) == IF c = 0 THEN 0 ELSE IF c = k THEN Len(t) ELSE v[h[c + 1] - 1]
Piece(t, v, m, h, k, c) == Normalized(t[v[h[c]]], Final(h, k, m, c) - h[c])
Pieces(t, v, m, h, k) == [c \in 1 .. k |-> Piece(t, v, m, h, k, c)]
Origin(t, v, h, k, c) == <<Edge(t, v, h, k, c - 1), Edge(t, v, h, k, c)>>
Origins(t, v, m, h, k) ==
    [c \in 1 .. k |-> [x \in DOMAIN Piece(t, v, m, h, k, c) |-> Origin(t, v, h, k, c)]]

(* Every text has its visible characters and its clusters.                 *)
LEMMA ParseExists ==
    ASSUME NEW t \in Seq(Characters)
    PROVE  \E m \in Nat, k \in Nat : \E v, h : Parses(t, v, m, h, k)
<1> DEFINE S == DOMAIN t \ Hidden(t)
<1>1. Len(t) \in Nat /\ S \in SUBSET (1 .. Len(t))
  OBVIOUS
<1>2. PICK m \in Nat : \E v : Lists(v, S, m)
  <2> HIDE DEF S
  <2> QED BY <1>1, ListExists
<1>3. PICK v : Lists(v, S, m)
  BY <1>2
<1>4. Heads(t, v, m) \in SUBSET (1 .. m)
  BY DEF Heads
<1>5. PICK k \in Nat : \E h : Lists(h, Heads(t, v, m), k)
  BY <1>4, ListExists
<1>6. PICK h : Lists(h, Heads(t, v, m), k)
  BY <1>5
<1> QED BY <1>3, <1>6 DEF Parses

(* What a parse looks like.                                                *)
LEMMA ParseMeans ==
    ASSUME NEW t \in Seq(Characters), NEW m \in Nat, NEW k \in Nat, NEW v, NEW h,
           Parses(t, v, m, h, k)
    PROVE  /\ \A j \in 1 .. m : v[j] \in 1 .. Len(t) /\ v[j] \notin Hidden(t)
           /\ \A i, j \in 1 .. m : i < j => v[i] < v[j]
           /\ \A x \in 1 .. Len(t) : x \notin Hidden(t) => \E j \in 1 .. m : v[j] = x
           /\ \A c \in 1 .. k : h[c] \in 1 .. m /\ h[c] \in Heads(t, v, m)
           /\ \A c, d \in 1 .. k : c < d => h[c] < h[d]
           /\ \A j \in Heads(t, v, m) : \E c \in 1 .. k : h[c] = j
           /\ DOMAIN v = 1 .. m /\ DOMAIN h = 1 .. k
<1>1. DOMAIN t = 1 .. Len(t)
  OBVIOUS
<1>2. v \in [1 .. m -> DOMAIN t \ Hidden(t)] /\ h \in [1 .. k -> Heads(t, v, m)]
  BY DEF Parses, Lists
<1>3. \A j \in 1 .. m : v[j] \in DOMAIN t \ Hidden(t)
  BY <1>2
<1>4. \A c \in 1 .. k : h[c] \in Heads(t, v, m)
  BY <1>2
<1>5. \A j \in Heads(t, v, m) : j \in 1 .. m
  BY DEF Heads
<1>6. /\ \A i, j \in 1 .. m : i < j => v[i] < v[j]
      /\ \A x \in DOMAIN t \ Hidden(t) : \E j \in 1 .. m : v[j] = x
  BY DEF Parses, Lists
<1>7. /\ \A c, d \in 1 .. k : c < d => h[c] < h[d]
      /\ \A j \in Heads(t, v, m) : \E c \in 1 .. k : h[c] = j
  BY DEF Parses, Lists
<1> QED BY <1>1, <1>2, <1>3, <1>4, <1>5, <1>6, <1>7

(* The first visible character begins the first cluster.                   *)
LEMMA FirstHead ==
    ASSUME NEW t \in Seq(Characters), NEW m \in Nat, NEW k \in Nat, NEW v, NEW h,
           Parses(t, v, m, h, k)
    PROVE  /\ m > 0 => k > 0
           /\ k > 0 => h[1] = 1 /\ m > 0
           /\ \A c \in 1 .. k : h[c] = 1 <=> c = 1
           /\ \A c \in 1 .. k : c < k => h[c + 1] \in h[c] + 1 .. m
<1> DEFINE H == Heads(t, v, m)
<1>1. /\ \A c \in 1 .. k : h[c] \in 1 .. m /\ h[c] \in H
      /\ \A c, d \in 1 .. k : c < d => h[c] < h[d]
      /\ \A j \in H : \E c \in 1 .. k : h[c] = j
  BY ParseMeans
<1>2. m > 0 => 1 \in H
  BY DEF Heads
<1> HIDE DEF H
<1>3. m > 0 => k > 0
  <2> SUFFICES ASSUME m > 0 PROVE k > 0
    OBVIOUS
  <2>1. PICK c \in 1 .. k : h[c] = 1
    BY <1>1, <1>2
  <2> QED BY <2>1
<1>4. k > 0 => h[1] = 1 /\ m > 0
  <2> SUFFICES ASSUME k > 0 PROVE h[1] = 1 /\ m > 0
    OBVIOUS
  <2>1. 1 \in 1 .. k
    OBVIOUS
  <2>2. h[1] \in 1 .. m
    BY <1>1, <2>1
  <2>3. m > 0
    BY <2>2
  <2>4. PICK c \in 1 .. k : h[c] = 1
    BY <1>1, <1>2, <2>3
  <2>5. ~(1 < c)
    <3>1. 1 < c => h[1] < h[c]
      BY <1>1, <2>1
    <3> QED BY <2>2, <2>4, <3>1
  <2>6. c = 1
    BY <2>5
  <2> QED BY <2>3, <2>4, <2>6
<1>5. \A c \in 1 .. k : h[c] = 1 <=> c = 1
  <2> TAKE c \in 1 .. k
  <2>1. k > 0 /\ 1 \in 1 .. k
    OBVIOUS
  <2>2. c = 1 \/ 1 < c
    OBVIOUS
  <2>3. 1 < c => h[1] < h[c]
    BY <1>1, <2>1
  <2> QED BY <1>1, <1>4, <2>1, <2>2, <2>3
<1>6. \A c \in 1 .. k : c < k => h[c + 1] \in h[c] + 1 .. m
  <2> SUFFICES ASSUME NEW c \in 1 .. k, c < k PROVE h[c + 1] \in h[c] + 1 .. m
    OBVIOUS
  <2>1. c + 1 \in 1 .. k /\ c < c + 1
    OBVIOUS
  <2>2. h[c] < h[c + 1] /\ h[c] \in 1 .. m /\ h[c + 1] \in 1 .. m
    BY <1>1, <2>1
  <2> QED BY <2>2
<1> QED BY <1>3, <1>4, <1>5, <1>6

(* A cluster is not empty and ends before the next.                        *)
LEMMA FinalMeans ==
    ASSUME NEW t \in Seq(Characters), NEW m \in Nat, NEW k \in Nat, NEW v, NEW h,
           Parses(t, v, m, h, k), NEW c \in 1 .. k
    PROVE  /\ Final(h, k, m, c) \in h[c] .. m
           /\ h[c] \in 1 .. m
           /\ Final(h, k, m, c) = m <=> c = k
<1>1. h[c] \in 1 .. m
  BY ParseMeans
<1>2. c < k => h[c + 1] \in h[c] + 1 .. m
  BY FirstHead
<1> QED BY <1>1, <1>2 DEF Final

(* The originals of the clusters follow on one another.                    *)
LEMMA EdgesAscend ==
    ASSUME NEW t \in Seq(Characters), NEW m \in Nat, NEW k \in Nat, NEW v, NEW h,
           Parses(t, v, m, h, k)
    PROVE  /\ \A c \in 0 .. k : Edge(t, v, h, k, c) \in 0 .. Len(t)
           /\ \A c, d \in 0 .. k : c < d => Edge(t, v, h, k, c) < Edge(t, v, h, k, d)
<1> DEFINE e(c) == Edge(t, v, h, k, c)
<1>1. /\ \A j \in 1 .. m : v[j] \in 1 .. Len(t)
      /\ \A i, j \in 1 .. m : i < j => v[i] < v[j]
      /\ \A c \in 1 .. k : h[c] \in 1 .. m
      /\ \A c, d \in 1 .. k : c < d => h[c] < h[d]
      /\ Len(t) \in Nat
  BY ParseMeans
<1>2. ASSUME NEW c \in 1 .. k, c < k
      PROVE  /\ c + 1 \in 1 .. k /\ h[c + 1] - 1 \in 1 .. m /\ h[c + 1] \in 1 .. m
             /\ e(c) = v[h[c + 1] - 1]
  <2>1. c + 1 \in 1 .. k /\ c < c + 1
    BY <1>2
  <2>2. h[c] < h[c + 1] /\ h[c] \in 1 .. m /\ h[c + 1] \in 1 .. m
    BY <1>1, <2>1
  <2>3. e(c) = v[h[c + 1] - 1]
    BY <1>2 DEF Edge
  <2> QED BY <2>1, <2>2, <2>3
<1>3. e(0) = 0 /\ (k > 0 => e(k) = Len(t))
  BY DEF Edge
<1>4. k > 0 => Len(t) > 0
  <2> SUFFICES ASSUME k > 0 PROVE Len(t) > 0
    OBVIOUS
  <2>1. h[1] \in 1 .. m /\ 1 \in 1 .. k
    BY <1>1
  <2>2. v[h[1]] \in 1 .. Len(t)
    BY <1>1, <2>1
  <2> QED BY <1>1, <2>2
<1> HIDE DEF e
<1>5. ASSUME NEW c \in 0 .. k PROVE e(c) \in 0 .. Len(t) /\ (c > 0 => e(c) > 0)
  <2>1. CASE c = 0
    BY <1>1, <1>3, <2>1
  <2>2. CASE c = k /\ c # 0
    BY <1>1, <1>3, <1>4, <2>2
  <2>3. CASE c # k /\ c # 0
    <3>1. c \in 1 .. k /\ c < k
      BY <2>3
    <3>2. v[h[c + 1] - 1] \in 1 .. Len(t)
      BY <1>1, <1>2, <3>1
    <3> QED BY <1>2, <3>1, <3>2
  <2> QED BY <2>1, <2>2, <2>3
<1>6. ASSUME NEW c \in 0 .. k, NEW d \in 0 .. k, c < d PROVE e(c) < e(d)
  <2>1. CASE c = 0
    BY <1>3, <1>5, <1>6, <2>1
  <2>2. CASE c # 0
    <3>1. c \in 1 .. k /\ c < k /\ d \in 1 .. k /\ c + 1 \in 1 .. k
      BY <1>6, <2>2
    <3>2. e(c) = v[h[c + 1] - 1] /\ h[c + 1] - 1 \in 1 .. m /\ h[c + 1] \in 1 .. m
      BY <1>2, <3>1
    <3>3. CASE d = k
      <4>1. v[h[c + 1] - 1] < v[h[c + 1]] /\ v[h[c + 1]] \in 1 .. Len(t)
            /\ v[h[c + 1] - 1] \in 1 .. Len(t)
        BY <1>1, <3>2
      <4> QED BY <1>1, <1>3, <3>1, <3>2, <3>3, <4>1
    <3>4. CASE d < k
      <4>1. e(d) = v[h[d + 1] - 1] /\ h[d + 1] - 1 \in 1 .. m /\ h[d + 1] \in 1 .. m /\ d + 1 \in 1 .. k
        BY <1>2, <3>1, <3>4
      <4>2. h[c + 1] < h[d + 1]
        <5>1. c + 1 < d + 1
          BY <1>6
        <5> QED BY <1>1, <3>1, <4>1, <5>1
      <4>3. h[c + 1] - 1 < h[d + 1] - 1
        BY <3>2, <4>1, <4>2
      <4> QED BY <1>1, <3>2, <4>1, <4>3
    <3> QED BY <3>1, <3>3, <3>4
  <2> QED BY <2>1, <2>2
<1> QED BY <1>5, <1>6 DEF e

(* The view of a text, from its parse.                                     *)
LEMMA ViewIs ==
    ASSUME NEW t \in Seq(Characters), NEW m \in Nat, NEW k \in Nat, NEW v, NEW h,
           Parses(t, v, m, h, k)
    PROVE  /\ build_detection_view(t).text = FlattenSeq(Pieces(t, v, m, h, k))
           /\ build_detection_view(t).folded = Fold(FlattenSeq(Pieces(t, v, m, h, k)))
           /\ build_detection_view(t).origins = FlattenSeq(Origins(t, v, m, h, k))
<1> DEFINE stripped == [j \in DOMAIN Visible(t) |-> t[Visible(t)[j]]]
           clusters == Clusters(stripped)
           normal == [c \in DOMAIN clusters |->
                         Normalized(stripped[clusters[c][1]], clusters[c][2] - clusters[c][1])]
           origin == [c \in DOMAIN clusters |->
                         <<OriginOf(t, clusters[c][1])[1], OriginOf(t, clusters[c][2])[2]>>]
           spread == [c \in DOMAIN clusters |-> [x \in DOMAIN normal[c] |-> origin[c]]]
<1>1. build_detection_view(t) =
         [text |-> FlattenSeq(normal), folded |-> Fold(FlattenSeq(normal)),
          origins |-> FlattenSeq(spread)]
  BY DEF build_detection_view
<1>2. /\ \A j \in 1 .. m : v[j] \in 1 .. Len(t)
      /\ \A c \in 1 .. k : h[c] \in 1 .. m
      /\ DOMAIN v = 1 .. m /\ DOMAIN h = 1 .. k
  BY ParseMeans
<1>3. Visible(t) = v
  <2> DEFINE S == DOMAIN t \ Hidden(t)
  <2>1. Len(t) \in Nat /\ S \in SUBSET (1 .. Len(t))
    OBVIOUS
  <2>2. Lists(v, S, m)
    BY DEF Parses
  <2>3. Ascending(S) = v
    <3> HIDE DEF S
    <3> QED BY <2>1, <2>2, AscendingIs
  <2> QED BY <2>3 DEF Visible
<1>4. Len(v) = m /\ Len(h) = k
  <2>1. v \in [1 .. m -> DOMAIN t \ Hidden(t)] /\ h \in [1 .. k -> Heads(t, v, m)]
    BY DEF Parses, Lists
  <2> QED BY <2>1
<1>5. stripped = [j \in 1 .. m |-> t[v[j]]]
  BY <1>2, <1>3
<1>6. Len(stripped) = m /\ DOMAIN stripped = 1 .. m
  BY <1>5
<1>7. \A j \in 1 .. m : stripped[j] = t[v[j]]
  BY <1>5
<1> HIDE DEF stripped
<1>8. Ascending({j \in DOMAIN stripped : j = 1 \/ stripped[j] # "mark"}) = h
  <2>1. {j \in DOMAIN stripped : j = 1 \/ stripped[j] # "mark"} = Heads(t, v, m)
    BY <1>6, <1>7 DEF Heads
  <2>2. Heads(t, v, m) \in SUBSET (1 .. m)
    BY DEF Heads
  <2>3. Lists(h, Heads(t, v, m), k)
    BY DEF Parses
  <2>4. Ascending(Heads(t, v, m)) = h
    BY <2>2, <2>3, AscendingIs
  <2> QED BY <2>1, <2>4
<1>9. clusters = [c \in 1 .. k |-> <<h[c], Final(h, k, m, c)>>]
  <2>1. clusters = [c \in DOMAIN h |-> <<h[c], IF c = Len(h) THEN Len(stripped) ELSE h[c + 1] - 1>>]
    BY <1>8 DEF Clusters
  <2>2. clusters = [c \in 1 .. k |-> <<h[c], IF c = k THEN m ELSE h[c + 1] - 1>>]
    BY <1>2, <1>4, <1>6, <2>1
  <2> QED BY <2>2 DEF Final
<1>10. DOMAIN clusters = 1 .. k
  BY <1>9
<1>11. \A c \in 1 .. k : clusters[c][1] = h[c] /\ clusters[c][2] = Final(h, k, m, c)
  BY <1>9
<1> HIDE DEF clusters
<1>12. \A c \in 1 .. k : Normalized(stripped[clusters[c][1]], clusters[c][2] - clusters[c][1])
                           = Piece(t, v, m, h, k, c)
  BY <1>2, <1>7, <1>11 DEF Piece
<1>13. normal = Pieces(t, v, m, h, k)
  BY <1>10, <1>12 DEF Pieces
<1>14. \A c \in 1 .. k : normal[c] = Piece(t, v, m, h, k, c)
  BY <1>10, <1>12
<1>15. \A c \in 1 .. k : <<OriginOf(t, clusters[c][1])[1], OriginOf(t, clusters[c][2])[2]>>
                           = Origin(t, v, h, k, c)
  <2> TAKE c \in 1 .. k
  <2>1. OriginOf(t, h[c])[1] = Edge(t, v, h, k, c - 1)
    <3>1. OriginOf(t, h[c])[1] = IF h[c] = 1 THEN 0 ELSE v[h[c] - 1]
      BY <1>3 DEF OriginOf
    <3>2. h[c] = 1 <=> c = 1
      BY FirstHead
    <3>3. Edge(t, v, h, k, c - 1) = IF c = 1 THEN 0 ELSE v[h[c] - 1]
      <4>1. (c - 1) + 1 = c /\ (c - 1 = 0 <=> c = 1) /\ c - 1 # k
        OBVIOUS
      <4> QED BY <4>1 DEF Edge
    <3> QED BY <3>1, <3>2, <3>3
  <2>2. OriginOf(t, Final(h, k, m, c))[2] = Edge(t, v, h, k, c)
    <3>1. OriginOf(t, Final(h, k, m, c))[2]
            = IF Final(h, k, m, c) = m THEN Len(t) ELSE v[Final(h, k, m, c)]
      BY <1>3, <1>4 DEF OriginOf
    <3>2. Final(h, k, m, c) = m <=> c = k
      BY FinalMeans
    <3>3. c # k => Final(h, k, m, c) = h[c + 1] - 1
      BY DEF Final
    <3>4. c # 0
      OBVIOUS
    <3> QED BY <3>1, <3>2, <3>3, <3>4 DEF Edge
  <2> QED BY <1>11, <2>1, <2>2 DEF Origin
<1>16. \A c \in 1 .. k : origin[c] = Origin(t, v, h, k, c)
  BY <1>10, <1>15
<1> HIDE DEF normal, origin
<1>17. spread = Origins(t, v, m, h, k)
  BY <1>10, <1>14, <1>16 DEF Origins
<1> HIDE DEF spread
<1> QED BY <1>1, <1>13, <1>17

(* Pieces and origins are in step, and each cluster has at least one.      *)
LEMMA PiecesType ==
    ASSUME NEW t \in Seq(Characters), NEW m \in Nat, NEW k \in Nat, NEW v, NEW h,
           Parses(t, v, m, h, k)
    PROVE  /\ Pieces(t, v, m, h, k) \in Seq(Seq(Glyphs)) /\ Len(Pieces(t, v, m, h, k)) = k
           /\ \A c \in 1 .. k : /\ Pieces(t, v, m, h, k)[c] = Piece(t, v, m, h, k, c)
                                /\ Piece(t, v, m, h, k, c) \in Seq(Glyphs)
                                /\ Len(Piece(t, v, m, h, k, c)) \in Nat \ {0}
<1>1. ASSUME NEW c \in 1 .. k
      PROVE  /\ Piece(t, v, m, h, k, c) \in Seq(Glyphs)
             /\ Len(Piece(t, v, m, h, k, c)) \in Nat \ {0}
  <2>1. Final(h, k, m, c) \in h[c] .. m /\ h[c] \in 1 .. m
    BY FinalMeans
  <2>2. v[h[c]] \in 1 .. Len(t)
    BY <2>1, ParseMeans
  <2>3. t[v[h[c]]] \in Glyphs
    BY <2>2 DEF Glyphs
  <2>4. Final(h, k, m, c) - h[c] \in Nat
    BY <2>1
  <2> QED BY <2>3, <2>4, NormalizedType DEF Piece
<1> DEFINE p == Pieces(t, v, m, h, k)
<1>2. p = [c \in 1 .. k |-> Piece(t, v, m, h, k, c)]
  BY DEF Pieces
<1>3. p \in [1 .. k -> Seq(Glyphs)] /\ \A c \in 1 .. k : p[c] = Piece(t, v, m, h, k, c)
  BY <1>1, <1>2
<1>4. p \in Seq(Seq(Glyphs)) /\ Len(p) = k
  <2> HIDE DEF p
  <2> QED BY <1>3
<1> QED BY <1>1, <1>3, <1>4

(* Each cluster gives all it becomes the same original.                    *)
LEMMA OriginsType ==
    ASSUME NEW t \in Seq(Characters), NEW m \in Nat, NEW k \in Nat, NEW v, NEW h,
           Parses(t, v, m, h, k)
    PROVE  /\ Origins(t, v, m, h, k) \in Seq(Seq(Nat \X Nat)) /\ Len(Origins(t, v, m, h, k)) = k
           /\ \A c \in 1 .. k :
                 /\ Len(Origins(t, v, m, h, k)[c]) = Len(Pieces(t, v, m, h, k)[c])
                 /\ \A x \in 1 .. Len(Pieces(t, v, m, h, k)[c]) :
                       Origins(t, v, m, h, k)[c][x] = Origin(t, v, h, k, c)
<1> DEFINE o == Origins(t, v, m, h, k)
           p == Pieces(t, v, m, h, k)
           e(c) == Edge(t, v, h, k, c)
           g(c) == Origin(t, v, h, k, c)
<1>1. \A c \in 1 .. k : p[c] = Piece(t, v, m, h, k, c) /\ p[c] \in Seq(Glyphs)
  BY PiecesType
<1>2. ASSUME NEW c \in 1 .. k PROVE g(c) \in Nat \X Nat
  <2>1. c - 1 \in 0 .. k /\ c \in 0 .. k
    OBVIOUS
  <2>2. e(c - 1) \in 0 .. Len(t) /\ e(c) \in 0 .. Len(t)
    BY <2>1, EdgesAscend
  <2>3. e(c - 1) \in Nat /\ e(c) \in Nat
    BY <2>2
  <2>4. g(c) = <<e(c - 1), e(c)>>
    BY DEF Origin
  <2> HIDE DEF e, g
  <2> QED BY <2>3, <2>4
<1>3. o = [c \in 1 .. k |-> [x \in DOMAIN Piece(t, v, m, h, k, c) |-> g(c)]]
  BY DEF Origins
<1>4. ASSUME NEW c \in 1 .. k
      PROVE  /\ o[c] \in Seq(Nat \X Nat) /\ Len(o[c]) = Len(p[c])
             /\ \A x \in 1 .. Len(p[c]) : o[c][x] = g(c)
  <2>1. DOMAIN Piece(t, v, m, h, k, c) = 1 .. Len(p[c]) /\ Len(p[c]) \in Nat
    BY <1>1
  <2>2. o[c] = [x \in 1 .. Len(p[c]) |-> g(c)]
    BY <1>3, <2>1
  <2> HIDE DEF o, p, g
  <2> QED BY <1>2, <2>1, <2>2
<1>5. o \in [1 .. k -> Seq(Nat \X Nat)]
  <2>1. DOMAIN o = 1 .. k /\ o = [c \in 1 .. k |-> o[c]]
    BY <1>3
  <2> HIDE DEF o, p, g
  <2> QED BY <1>4, <2>1
<1>6. o \in Seq(Seq(Nat \X Nat)) /\ Len(o) = k
  <2> HIDE DEF o
  <2> QED BY <1>5
<1> QED BY <1>4, <1>6

(* Where, among the visible characters, those between two edges are.       *)
LEMMA BetweenEdges ==
    ASSUME NEW t \in Seq(Characters), NEW m \in Nat, NEW k \in Nat, NEW v, NEW h,
           Parses(t, v, m, h, k), NEW c \in 1 .. k, NEW j \in 1 .. m
    PROVE  /\ Edge(t, v, h, k, c - 1) < v[j] <=> h[c] <= j
           /\ v[j] <= Edge(t, v, h, k, c) <=> j <= Final(h, k, m, c)
<1>1. /\ \A i \in 1 .. m : v[i] \in 1 .. Len(t)
      /\ \A a, b \in 1 .. m : a < b => v[a] < v[b]
      /\ h[c] \in 1 .. m /\ Len(t) \in Nat
  BY ParseMeans
<1>2. \A a \in 1 .. m : (v[a] < v[j] <=> a < j) /\ (v[j] <= v[a] <=> j <= a)
  <2> TAKE a \in 1 .. m
  <2>1. a < j \/ a = j \/ j < a
    OBVIOUS
  <2>2. v[a] \in 1 .. Len(t) /\ v[j] \in 1 .. Len(t) /\ (a < j => v[a] < v[j]) /\ (j < a => v[j] < v[a])
    BY <1>1
  <2> QED BY <2>1, <2>2
<1>3. Edge(t, v, h, k, c - 1) < v[j] <=> h[c] <= j
  <2>1. CASE c = 1
    <3>1. h[c] = 1 /\ Edge(t, v, h, k, c - 1) = 0
      BY <2>1, FirstHead DEF Edge
    <3>2. v[j] \in 1 .. Len(t)
      BY <1>1
    <3> QED BY <3>1, <3>2
  <2>2. CASE c # 1
    <3>1. c - 1 # 0 /\ c - 1 # k /\ (c - 1) + 1 = c /\ h[c] # 1
      BY <2>2, FirstHead
    <3>2. Edge(t, v, h, k, c - 1) = v[h[c] - 1]
      BY <3>1 DEF Edge
    <3>3. h[c] - 1 \in 1 .. m
      BY <1>1, <3>1
    <3> QED BY <1>1, <1>2, <3>2, <3>3
  <2> QED BY <2>1, <2>2
<1>4. v[j] <= Edge(t, v, h, k, c) <=> j <= Final(h, k, m, c)
  <2>1. CASE c = k
    <3>1. Edge(t, v, h, k, c) = Len(t) /\ Final(h, k, m, c) = m
      BY <2>1 DEF Edge, Final
    <3>2. v[j] \in 1 .. Len(t)
      BY <1>1
    <3> QED BY <3>1, <3>2
  <2>2. CASE c # k
    <3>1. Edge(t, v, h, k, c) = v[Final(h, k, m, c)]
      BY <2>2 DEF Edge, Final
    <3>2. Final(h, k, m, c) \in 1 .. m
      <4>1. Final(h, k, m, c) \in h[c] .. m
        BY FinalMeans
      <4> QED BY <1>1, <4>1
    <3> QED BY <1>2, <3>1, <3>2
  <2> QED BY <2>1, <2>2
<1> QED BY <1>3, <1>4

(* The original of some clusters in a row.                                 *)
PartOf(t, v, h, k, a, b) == SubSeq(t, Edge(t, v, h, k, a - 1) + 1, Edge(t, v, h, k, b))

(* It is parsed as those clusters.                                         *)
LEMMA PartParses ==
    ASSUME NEW t \in Seq(Characters), NEW m \in Nat, NEW k \in Nat, NEW v, NEW h,
           Parses(t, v, m, h, k), NEW a \in 1 .. k, NEW b \in a .. k
    PROVE  /\ PartOf(t, v, h, k, a, b) \in Seq(Characters)
           /\ \E n \in Nat : \E w, g :
                 /\ Parses(PartOf(t, v, h, k, a, b), w, n, g, b - a + 1)
                 /\ Pieces(PartOf(t, v, h, k, a, b), w, n, g, b - a + 1)
                       = SubSeq(Pieces(t, v, m, h, k), a, b)
<1> DEFINE from == Edge(t, v, h, k, a - 1)
           to == Edge(t, v, h, k, b)
           part == SubSeq(t, from + 1, to)
           p == h[a]
           last == Final(h, k, m, b)
           n == last - p + 1
           l == b - a + 1
           w == [j \in 1 .. n |-> v[j + p - 1] - from]
           g == [c \in 1 .. l |-> h[c + a - 1] - p + 1]
<1>1. a \in Nat /\ b \in Nat /\ b \in 1 .. k /\ l \in Nat \ {0}
      /\ a - 1 \in 0 .. k /\ b \in 0 .. k /\ a - 1 < b
  OBVIOUS
<1>2. from \in 0 .. Len(t) /\ to \in 0 .. Len(t) /\ from < to /\ Len(t) \in Nat
  BY <1>1, EdgesAscend
<1>3. part \in Seq(Characters) /\ Len(part) = to - from
      /\ \A i \in 1 .. to - from : part[i] = t[from + i]
  <2> HIDE DEF from, to
  <2> QED BY <1>2
<1>4. /\ \A j \in 1 .. m : v[j] \in 1 .. Len(t) /\ v[j] \notin Hidden(t)
      /\ \A i, j \in 1 .. m : i < j => v[i] < v[j]
      /\ \A x \in 1 .. Len(t) : x \notin Hidden(t) => \E j \in 1 .. m : v[j] = x
      /\ \A c \in 1 .. k : h[c] \in 1 .. m /\ h[c] \in Heads(t, v, m)
      /\ \A c, d \in 1 .. k : c < d => h[c] < h[d]
      /\ \A j \in Heads(t, v, m) : \E c \in 1 .. k : h[c] = j
  BY ParseMeans
<1>5. p \in 1 .. m /\ last \in h[b] .. m /\ h[b] \in 1 .. m /\ p <= h[b]
  <2>1. a = b \/ a < b
    BY <1>1
  <2> QED BY <1>1, <1>4, <2>1, FinalMeans
<1>6. n \in Nat \ {0} /\ n = last - p + 1 /\ last \in p .. m
  BY <1>5
<1>7. \A j \in 1 .. m : (from < v[j] /\ v[j] <= to) <=> j \in p .. last
  <2> TAKE j \in 1 .. m
  <2>1. from < v[j] <=> p <= j
    BY BetweenEdges
  <2>2. v[j] <= to <=> j <= last
    BY <1>1, BetweenEdges
  <2> HIDE DEF from, to, p, last
  <2> QED BY <1>5, <2>1, <2>2
<1>8. \A c \in 1 .. l : c + a - 1 \in 1 .. k /\ c + a - 1 \in a .. b
  BY <1>1
<1>w. w = [j \in 1 .. n |-> v[j + p - 1] - from]
  OBVIOUS
<1>g. g = [c \in 1 .. l |-> h[c + a - 1] - p + 1]
  OBVIOUS
<1>f. \A c \in 1 .. k : c <= b => Final(h, k, m, c) <= last /\ h[c] <= last
  <2> SUFFICES ASSUME NEW c \in 1 .. k, c <= b PROVE Final(h, k, m, c) <= last /\ h[c] <= last
    OBVIOUS
  <2>1. Final(h, k, m, c) \in h[c] .. m /\ h[c] \in 1 .. m
    BY FinalMeans
  <2>2. CASE c = b
    BY <2>1, <2>2
  <2>3. CASE c < b
    <3>1. c < k /\ c + 1 \in 1 .. k /\ Final(h, k, m, c) = h[c + 1] - 1
      BY <1>1, <2>3 DEF Final
    <3>2. h[c + 1] <= h[b] /\ h[c + 1] \in 1 .. m
      <4>1. c + 1 = b \/ c + 1 < b
        BY <1>1, <2>3
      <4> QED BY <1>1, <1>4, <3>1, <4>1
    <3> QED BY <1>5, <2>1, <3>1, <3>2, SMTT(30)
  <2> QED BY <1>1, <2>2, <2>3
<1>s. \A c \in 1 .. k : h[c] <= last => c <= b
  <2> SUFFICES ASSUME NEW c \in 1 .. k, h[c] <= last, b < c PROVE FALSE
    BY <1>1
  <2>1. b < k /\ b + 1 \in 1 .. k /\ last = h[b + 1] - 1
    BY <1>1 DEF Final
  <2>2. h[b + 1] <= h[c]
    <3>1. b + 1 = c \/ b + 1 < c
      BY <1>1
    <3>2. h[b + 1] \in 1 .. m /\ h[c] \in 1 .. m
      BY <1>4, <2>1
    <3>3. b + 1 < c => h[b + 1] < h[c]
      BY <1>4, <2>1
    <3> HIDE DEF last
    <3> QED BY <3>1, <3>2, <3>3
  <2> QED BY <1>4, <2>1, <2>2
<1>t. \A c \in 1 .. k : p <= h[c] <=> a <= c
  <2> TAKE c \in 1 .. k
  <2>1. c < a \/ c = a \/ a < c
    BY <1>1
  <2> QED BY <1>4, <1>1, <2>1
<1>last. \A c \in 1 .. k : c < b => Final(h, k, m, c) = h[c + 1] - 1
  BY <1>1 DEF Final
<1> HIDE DEF from, to, part, p, last, n, l, w, g
<1>9. \A j \in 1 .. n : j + p - 1 \in p .. last /\ j + p - 1 \in 1 .. m
  BY <1>5, <1>6
<1>10. \A j \in 1 .. n : /\ w[j] = v[j + p - 1] - from
                         /\ w[j] \in 1 .. Len(part)
                         /\ from + w[j] = v[j + p - 1]
                         /\ part[w[j]] = t[v[j + p - 1]]
  <2> TAKE j \in 1 .. n
  <2>1. w[j] = v[j + p - 1] - from
    BY <1>w
  <2>2. from < v[j + p - 1] /\ v[j + p - 1] <= to /\ v[j + p - 1] \in 1 .. Len(t)
    BY <1>4, <1>7, <1>9
  <2>3. w[j] \in 1 .. to - from /\ from + w[j] = v[j + p - 1]
    BY <1>2, <2>1, <2>2
  <2> QED BY <1>3, <2>1, <2>3
<1>11. Lists(w, DOMAIN part \ Hidden(part), n)
  <2>1. DOMAIN part = 1 .. Len(part)
    BY <1>3
  <2>2. \A i \in 1 .. Len(part) : i \in Hidden(part) <=> from + i \in Hidden(t)
    <3> TAKE i \in 1 .. Len(part)
    <3>1. part[i] = t[from + i] /\ from + i \in 1 .. Len(t)
      BY <1>2, <1>3
    <3> QED BY <2>1, <3>1 DEF Hidden
  <2>3. \A j \in 1 .. n : w[j] \in DOMAIN part \ Hidden(part)
    <3> TAKE j \in 1 .. n
    <3>1. w[j] \in 1 .. Len(part) /\ from + w[j] \notin Hidden(t)
      BY <1>4, <1>9, <1>10
    <3> QED BY <2>1, <2>2, <3>1
  <2>4. w \in [1 .. n -> DOMAIN part \ Hidden(part)]
    BY <1>w, <2>3
  <2>5. ASSUME NEW i \in 1 .. n, NEW j \in 1 .. n, i < j PROVE w[i] < w[j]
    <3>1. i + p - 1 \in 1 .. m /\ j + p - 1 \in 1 .. m /\ i + p - 1 < j + p - 1
      BY <1>5, <1>9, <2>5
    <3>2. v[i + p - 1] < v[j + p - 1] /\ v[i + p - 1] \in Nat /\ v[j + p - 1] \in Nat
      BY <1>4, <3>1
    <3>3. w[i] = v[i + p - 1] - from /\ w[j] = v[j + p - 1] - from
      BY <1>10
    <3>4. from \in Int
      BY <1>2
    <3> QED BY <3>2, <3>3, <3>4
  <2>6. ASSUME NEW x \in DOMAIN part \ Hidden(part) PROVE \E j \in 1 .. n : w[j] = x
    <3>1. x \in 1 .. to - from /\ from + x \in 1 .. Len(t) /\ from + x \notin Hidden(t)
      BY <1>2, <1>3, <2>1, <2>2
    <3>2. PICK i \in 1 .. m : v[i] = from + x
      BY <1>4, <3>1
    <3>3. i \in p .. last
      BY <1>2, <1>7, <3>1, <3>2
    <3>4. i - p + 1 \in 1 .. n /\ (i - p + 1) + p - 1 = i
      BY <1>5, <1>6, <3>3
    <3>5. w[i - p + 1] = x
      BY <1>2, <1>10, <3>1, <3>2, <3>4
    <3> QED BY <3>4, <3>5
  <2> QED BY <2>4, <2>5, <2>6 DEF Lists
<1>12. \A j \in 1 .. n : j \in Heads(part, w, n) <=> j + p - 1 \in Heads(t, v, m)
  <2> TAKE j \in 1 .. n
  <2>1. part[w[j]] = t[v[j + p - 1]] /\ j + p - 1 \in 1 .. m
    BY <1>9, <1>10
  <2>2. CASE j = 1
    <3>1. j + p - 1 = p
      BY <1>5, <2>2
    <3>2. p \in Heads(t, v, m)
      BY <1>4 DEF p
    <3> QED BY <2>2, <3>1, <3>2 DEF Heads
  <2>3. CASE j # 1
    <3>1. j + p - 1 # 1
      BY <1>5, <2>3
    <3> QED BY <2>1, <2>3, <3>1 DEF Heads
  <2> QED BY <2>2, <2>3
<1>13. \A c \in 1 .. l : g[c] = h[c + a - 1] - p + 1 /\ g[c] \in 1 .. n /\ g[c] + p - 1 = h[c + a - 1]
  <2> TAKE c \in 1 .. l
  <2>1. g[c] = h[c + a - 1] - p + 1
    BY <1>g
  <2>2. h[c + a - 1] \in 1 .. m /\ p <= h[c + a - 1] /\ h[c + a - 1] <= last
    <3>1. c + a - 1 \in 1 .. k /\ a <= c + a - 1 /\ c + a - 1 <= b
      BY <1>1, <1>8
    <3> QED BY <1>4, <1>f, <1>t, <3>1
  <2> QED BY <1>5, <1>6, <2>1, <2>2, SMTT(30)
<1>14. Lists(g, Heads(part, w, n), l)
  <2>1. \A c \in 1 .. l : g[c] \in Heads(part, w, n)
    <3> TAKE c \in 1 .. l
    <3>1. g[c] \in 1 .. n /\ g[c] + p - 1 \in Heads(t, v, m)
      BY <1>4, <1>8, <1>13
    <3> QED BY <1>12, <3>1
  <2>2. g \in [1 .. l -> Heads(part, w, n)]
    BY <1>g, <2>1
  <2>3. ASSUME NEW c \in 1 .. l, NEW d \in 1 .. l, c < d PROVE g[c] < g[d]
    <3>1. c + a - 1 \in 1 .. k /\ d + a - 1 \in 1 .. k /\ c + a - 1 < d + a - 1
      BY <1>1, <1>8, <2>3
    <3>2. h[c + a - 1] < h[d + a - 1] /\ h[c + a - 1] \in 1 .. m /\ h[d + a - 1] \in 1 .. m
      BY <1>4, <3>1
    <3> QED BY <1>5, <1>13, <3>2
  <2>4. ASSUME NEW j \in Heads(part, w, n) PROVE \E c \in 1 .. l : g[c] = j
    <3>1. j \in 1 .. n
      BY DEF Heads
    <3>2. j + p - 1 \in Heads(t, v, m) /\ j + p - 1 \in p .. last
      BY <1>9, <1>12, <3>1
    <3>3. PICK d \in 1 .. k : h[d] = j + p - 1
      BY <1>4, <3>2
    <3>4. a <= d /\ d <= b
      BY <1>5, <1>s, <1>t, <3>2, <3>3
    <3>5. d - a + 1 \in 1 .. l /\ (d - a + 1) + a - 1 = d
      BY <1>1, <3>4 DEF l
    <3>6. g[d - a + 1] = j
      BY <1>5, <1>13, <3>1, <3>3, <3>5
    <3> QED BY <3>5, <3>6
  <2> QED BY <2>2, <2>3, <2>4 DEF Lists
<1>15. Parses(part, w, n, g, l)
  BY <1>11, <1>14 DEF Parses
<1>16. ASSUME NEW c \in 1 .. l
       PROVE  Piece(part, w, n, g, l, c) = Piece(t, v, m, h, k, c + a - 1)
  <2> DEFINE d == c + a - 1
  <2>1. part[w[g[c]]] = t[v[h[d]]]
    BY <1>10, <1>13
  <2>2. Final(g, l, n, c) = Final(h, k, m, d) - p + 1
    <3>1. CASE c = l
      <4>1. d = b
        BY <1>1, <3>1 DEF l
      <4> QED BY <1>6, <3>1, <4>1 DEF Final, last
    <3>2. CASE c # l
      <4>1. c + 1 \in 1 .. l /\ (c + 1) + a - 1 = d + 1 /\ d < b /\ d \in 1 .. k
        BY <1>1, <1>8, <3>2 DEF l
      <4>2. Final(h, k, m, d) = h[d + 1] - 1
        BY <1>last, <4>1
      <4>3. Final(g, l, n, c) = g[c + 1] - 1
        BY <3>2 DEF Final
      <4>4. g[c + 1] = h[d + 1] - p + 1 /\ g[c + 1] \in 1 .. n
        BY <1>13, <4>1
      <4>5. d + 1 \in 1 .. k
        BY <1>8, <4>1
      <4>6. h[d + 1] \in 1 .. m
        BY <1>4, <4>5
      <4> HIDE DEF d
      <4> QED BY <1>5, <4>2, <4>3, <4>4, <4>6
    <3> QED BY <3>1, <3>2
  <2>3. Final(g, l, n, c) - g[c] = Final(h, k, m, d) - h[d]
    <3>1. d \in 1 .. k /\ g[c] = h[d] - p + 1
      BY <1>8, <1>13
    <3>2. Final(h, k, m, d) \in h[d] .. m /\ h[d] \in 1 .. m
      BY <3>1, FinalMeans
    <3> HIDE DEF d
    <3> QED BY <1>5, <2>2, <3>1, <3>2
  <2> HIDE DEF d
  <2>4. Piece(part, w, n, g, l, c) = Piece(t, v, m, h, k, d)
    BY <2>1, <2>3 DEF Piece
  <2> QED BY <2>4 DEF d
<1>17. Pieces(part, w, n, g, l) = SubSeq(Pieces(t, v, m, h, k), a, b)
  <2> DEFINE q == Pieces(t, v, m, h, k)
             r == Pieces(part, w, n, g, l)
             s == SubSeq(q, a, b)
  <2>1. q \in Seq(Seq(Glyphs)) /\ Len(q) = k /\ \A c \in 1 .. k : q[c] = Piece(t, v, m, h, k, c)
    BY PiecesType
  <2>2. n \in Nat /\ l \in Nat
    BY <1>1, <1>6
  <2>3. /\ r \in Seq(Seq(Glyphs)) /\ Len(r) = l
        /\ \A c \in 1 .. l : r[c] = Piece(part, w, n, g, l, c)
    BY <1>3, <1>15, <2>2, PiecesType
  <2> HIDE DEF q, r
  <2>4. s \in Seq(Seq(Glyphs)) /\ Len(s) = b - a + 1 /\ \A c \in 1 .. b - a + 1 : s[c] = q[a + c - 1]
    BY <1>1, <2>1
  <2>5. \A c \in 1 .. l : r[c] = s[c]
    <3> TAKE c \in 1 .. l
    <3>1. c \in 1 .. b - a + 1 /\ a + c - 1 = c + a - 1 /\ c + a - 1 \in 1 .. k
      BY <1>1, <1>8 DEF l
    <3> QED BY <1>16, <2>1, <2>3, <2>4, <3>1
  <2> HIDE DEF s
  <2>6. r = s
    BY <2>3, <2>4, <2>5, SeqEqual DEF l
  <2> QED BY <2>6 DEF q, r, s
<1>18. part = PartOf(t, v, h, k, a, b) /\ l = b - a + 1
  BY DEF part, from, to, l, PartOf
<1>19. n \in Nat
  BY <1>6
<1> QED BY <1>3, <1>15, <1>17, <1>18, <1>19

(* Its view is made of what becomes of those clusters.                     *)
LEMMA PartView ==
    ASSUME NEW t \in Seq(Characters), NEW m \in Nat, NEW k \in Nat, NEW v, NEW h,
           Parses(t, v, m, h, k), NEW a \in 1 .. k, NEW b \in a .. k
    PROVE  build_detection_view(PartOf(t, v, h, k, a, b)).folded
              = Fold(FlattenSeq(SubSeq(Pieces(t, v, m, h, k), a, b)))
<1> DEFINE l == b - a + 1
           part == PartOf(t, v, h, k, a, b)
<1>1. /\ part \in Seq(Characters)
      /\ \E n \in Nat : \E w, g :
            Parses(part, w, n, g, l) /\ Pieces(part, w, n, g, l) = SubSeq(Pieces(t, v, m, h, k), a, b)
  BY PartParses
<1>2. l \in Nat
  OBVIOUS
<1> HIDE DEF l, part
<1>3. PICK n \in Nat : \E w, g :
         Parses(part, w, n, g, l) /\ Pieces(part, w, n, g, l) = SubSeq(Pieces(t, v, m, h, k), a, b)
  BY <1>1
<1>4. PICK w, g :
         Parses(part, w, n, g, l) /\ Pieces(part, w, n, g, l) = SubSeq(Pieces(t, v, m, h, k), a, b)
  BY <1>3
<1>5. Parses(part, w, n, g, l)
  BY <1>4
<1>6. build_detection_view(part).folded = Fold(FlattenSeq(Pieces(part, w, n, g, l)))
  BY <1>1, <1>2, <1>5, ViewIs
<1> QED BY <1>4, <1>6 DEF part

(* The offsets are in step with the characters of the view.                *)
LEMMA OriginsInStep ==
    ASSUME NEW t \in Seq(Characters), NEW m \in Nat, NEW k \in Nat, NEW v, NEW h,
           Parses(t, v, m, h, k)
    PROVE  \A c \in 0 .. k : Upto(Origins(t, v, m, h, k), c) = Upto(Pieces(t, v, m, h, k), c)
<1> DEFINE o == Origins(t, v, m, h, k)
           p == Pieces(t, v, m, h, k)
           G == {i \in 1 .. k + 1 : Upto(o, i - 1) = Upto(p, i - 1)}
<1>o. /\ o \in Seq(Seq(Nat \X Nat)) /\ Len(o) = k
      /\ \A c \in 1 .. k :
            /\ Len(o[c]) = Len(p[c])
            /\ \A x \in 1 .. Len(p[c]) : o[c][x] = Origin(t, v, h, k, c)
  BY OriginsType
<1>p. p \in Seq(Seq(Glyphs)) /\ Len(p) = k
  BY PiecesType
<1>1. o \in Seq(Seq(Nat \X Nat)) /\ Len(o) = k /\ p \in Seq(Seq(Glyphs)) /\ Len(p) = k
      /\ \A c \in 1 .. k : Len(o[c]) = Len(p[c])
  BY <1>o, <1>p
<1> HIDE DEF o, p
<1>2. /\ Upto(o, 0) = 0 /\ Upto(p, 0) = 0
      /\ \A c \in 1 .. k : Upto(o, c) = Upto(o, c - 1) + Len(o[c])
      /\ \A c \in 1 .. k : Upto(p, c) = Upto(p, c - 1) + Len(p[c])
  BY <1>1, UptoSteps
<1>3. 1 \in G
  BY <1>2
<1>4. ASSUME NEW i \in 1 .. k + 1, i > 1, i - 1 \in G PROVE i \in G
  <2>1. i - 1 \in 1 .. k /\ Upto(o, (i - 1) - 1) = Upto(p, (i - 1) - 1)
    BY <1>4
  <2>2. Upto(o, i - 1) = Upto(p, i - 1)
    BY <1>1, <1>2, <2>1
  <2> QED BY <2>2
<1>5. \A i \in 1 .. k + 1 : i \in G
  <2> HIDE DEF G
  <2>1. k + 1 \in Nat
    OBVIOUS
  <2> QED BY <1>3, <1>4, <2>1, UpTheInterval
<1>6. ASSUME NEW c \in 0 .. k PROVE Upto(o, c) = Upto(p, c)
  <2>1. c + 1 \in 1 .. k + 1 /\ (c + 1) - 1 = c
    OBVIOUS
  <2>2. c + 1 \in G
    BY <1>5, <2>1
  <2> QED BY <2>1, <2>2
<1> QED BY <1>6 DEF o, p

(* The view of a text is tiled by its clusters: the c-th takes the places  *)
(* from p[c - 1] to p[c] of the view and from e[c - 1] to e[c] of the      *)
(* text, and a text cut at such places has the view cut at their places.   *)
Tiles(t, k, p, e) ==
    /\ p \in [0 .. k -> Nat] /\ e \in [0 .. k -> 0 .. Len(t)]
    /\ p[0] = 0 /\ p[k] = Len(build_detection_view(t).text)
    /\ \A c, d \in 0 .. k : c < d => p[c] < p[d] /\ e[c] < e[d]
    /\ build_detection_view(t).text \in Seq(Glyphs)
    /\ build_detection_view(t).folded = Fold(build_detection_view(t).text)
    /\ build_detection_view(t).origins \in Seq(Nat \X Nat)
    /\ Len(build_detection_view(t).origins) = Len(build_detection_view(t).text)
    /\ \A c \in 1 .. k : \A x \in p[c - 1] + 1 .. p[c] :
          build_detection_view(t).origins[x] = <<e[c - 1], e[c]>>
    /\ \A x \in 1 .. Len(build_detection_view(t).text) : \E c \in 1 .. k : p[c - 1] < x /\ x <= p[c]
    /\ \A a \in 1 .. k : \A b \in a .. k :
          build_detection_view(SubSeq(t, e[a - 1] + 1, e[b])).folded
              = Fold(SubSeq(build_detection_view(t).text, p[a - 1] + 1, p[b]))

(* Every view is a row of clusters: what each becomes lies behind what the *)
(* one before it becomes, what each comes from behind what that comes      *)
(* from, and the view of a whole row of clusters is that part of the view. *)
LEMMA ViewIsTiled ==
    ASSUME NEW t \in Seq(Characters)
    PROVE  \E k \in Nat : \E p, e : Tiles(t, k, p, e)
<1>0. PICK m \in Nat, k \in Nat : \E v, h : Parses(t, v, m, h, k)
  BY ParseExists
<1>1. PICK v, h : Parses(t, v, m, h, k)
  BY <1>0
<1> DEFINE q == Pieces(t, v, m, h, k)
           o == Origins(t, v, m, h, k)
           w == build_detection_view(t)
           p == [c \in 0 .. k |-> Upto(q, c)]
           e == [c \in 0 .. k |-> Edge(t, v, h, k, c)]
<1>2. w.text = FlattenSeq(q) /\ w.folded = Fold(FlattenSeq(q)) /\ w.origins = FlattenSeq(o)
  BY <1>1, ViewIs
<1>3. /\ q \in Seq(Seq(Glyphs)) /\ Len(q) = k
      /\ \A c \in 1 .. k : Len(q[c]) \in Nat \ {0}
  <2>1. q \in Seq(Seq(Glyphs)) /\ Len(q) = k
    BY <1>1, PiecesType
  <2>2. ASSUME NEW c \in 1 .. k PROVE Len(q[c]) \in Nat \ {0}
    <3>1. q[c] = Piece(t, v, m, h, k, c) /\ Len(Piece(t, v, m, h, k, c)) \in Nat \ {0}
      BY <1>1, PiecesType
    <3> QED BY <3>1
  <2> QED BY <2>1, <2>2
<1>4. /\ o \in Seq(Seq(Nat \X Nat)) /\ Len(o) = k
      /\ \A c \in 1 .. k :
            /\ Len(o[c]) = Len(q[c])
            /\ \A x \in 1 .. Len(q[c]) : o[c][x] = Origin(t, v, h, k, c)
  BY <1>1, OriginsType
<1>5. \A c \in 0 .. k : Upto(o, c) = Upto(q, c)
  BY <1>1, OriginsInStep
<1>6. /\ \A c \in 0 .. k : Edge(t, v, h, k, c) \in 0 .. Len(t)
      /\ \A c, d \in 0 .. k : c < d => Edge(t, v, h, k, c) < Edge(t, v, h, k, d)
  BY <1>1, EdgesAscend
<1>7. \A c \in 0 .. k : e[c] = Edge(t, v, h, k, c)
  OBVIOUS
<1>8. \A c \in 0 .. k : p[c] = Upto(q, c)
  OBVIOUS
<1>9. ASSUME NEW a \in 1 .. k, NEW b \in a .. k
      PROVE  build_detection_view(SubSeq(t, e[a - 1] + 1, e[b])).folded
                = Fold(SubSeq(w.text, p[a - 1] + 1, p[b]))
  <2>1. a - 1 \in 0 .. k /\ b \in 0 .. k /\ b \in a - 1 .. k /\ (a - 1) + 1 = a /\ b - a + 1 \in Nat
    OBVIOUS
  <2>2. SubSeq(t, e[a - 1] + 1, e[b]) = PartOf(t, v, h, k, a, b)
    BY <1>7, <2>1 DEF PartOf
  <2>4. build_detection_view(PartOf(t, v, h, k, a, b)).folded = Fold(FlattenSeq(SubSeq(q, a, b)))
    BY <1>1, PartView
  <2> HIDE DEF q, w, e, o
  <2>5. SubSeq(FlattenSeq(q), Upto(q, a - 1) + 1, Upto(q, b)) = FlattenSeq(SubSeq(q, a, b))
    BY <1>3, <2>1, FlattenBetween, ZenonT(30)
  <2>6. p[a - 1] = Upto(q, a - 1) /\ p[b] = Upto(q, b)
    BY <1>8, <2>1
  <2> QED BY <1>2, <2>2, <2>4, <2>5, <2>6
<1> HIDE DEF q, o, w
<1>10. w.text \in Seq(Glyphs) /\ w.origins \in Seq(Nat \X Nat)
  BY <1>2, <1>3, <1>4, FlattenType
<1>11. /\ Upto(q, 0) = 0 /\ Upto(q, k) = Len(FlattenSeq(q))
       /\ \A c \in 0 .. k : Upto(q, c) \in Nat
       /\ \A c \in 1 .. k : Upto(q, c) = Upto(q, c - 1) + Len(q[c])
       /\ Upto(o, k) = Len(FlattenSeq(o))
  BY <1>3, <1>4, UptoSteps
<1>12. p \in [0 .. k -> Nat] /\ e \in [0 .. k -> 0 .. Len(t)] /\ p[0] = 0 /\ p[k] = Len(w.text)
  <2>1. 0 \in 0 .. k /\ k \in 0 .. k
    OBVIOUS
  <2>2. p \in [0 .. k -> Nat]
    BY <1>11
  <2>3. e \in [0 .. k -> 0 .. Len(t)]
    BY <1>6
  <2> HIDE DEF p, e
  <2> QED BY <1>2, <1>8, <1>11, <2>1, <2>2, <2>3
<1>13. Len(w.origins) = Len(w.text)
  <2>1. k \in 0 .. k
    OBVIOUS
  <2> QED BY <1>2, <1>5, <1>11, <2>1
<1> HIDE DEF p, e
<1>14. ASSUME NEW c \in 0 .. k, NEW d \in 0 .. k, c < d PROVE p[c] < p[d] /\ e[c] < e[d]
  <2>1. e[c] < e[d]
    BY <1>6, <1>7, <1>14
  <2>2. d - 1 \in c .. k /\ d - 1 \in 0 .. k /\ d \in 1 .. k
    BY <1>14
  <2>3. Upto(q, c) <= Upto(q, d - 1)
    BY <1>3, <2>2, UptoAscends
  <2>4. Upto(q, d) = Upto(q, d - 1) + Len(q[d]) /\ Len(q[d]) \in Nat \ {0}
    BY <1>3, <1>11, <2>2
  <2>5. Upto(q, c) \in Nat /\ Upto(q, d) \in Nat /\ Upto(q, d - 1) \in Nat
    BY <1>11, <2>2
  <2>6. Upto(q, c) < Upto(q, d)
    BY <2>3, <2>4, <2>5
  <2> QED BY <1>8, <2>1, <2>6
<1>15. ASSUME NEW c \in 1 .. k, NEW x \in p[c - 1] + 1 .. p[c]
       PROVE  w.origins[x] = <<e[c - 1], e[c]>>
  <2>1. c - 1 \in 0 .. k /\ c \in 0 .. k
    OBVIOUS
  <2>2. p[c - 1] = Upto(q, c - 1) /\ p[c] = Upto(q, c) /\ Upto(o, c - 1) = Upto(q, c - 1)
    BY <1>5, <1>8, <2>1
  <2>3. Upto(q, c - 1) \in Nat /\ Upto(q, c) = Upto(q, c - 1) + Len(q[c]) /\ Len(q[c]) \in Nat
    BY <1>3, <1>11, <2>1
  <2> DEFINE y == x - Upto(q, c - 1)
  <2>4. y \in 1 .. Len(q[c]) /\ Upto(o, c - 1) + y = x
    BY <2>2, <2>3
  <2> HIDE DEF y
  <2>5. y \in 1 .. Len(o[c]) /\ c \in 1 .. Len(o)
    BY <1>4, <2>4
  <2>6. FlattenSeq(o)[Upto(o, c - 1) + y] = o[c][y]
    BY <1>4, <2>5, FlattenAt, ZenonT(30)
  <2>7. o[c][y] = Origin(t, v, h, k, c)
    BY <1>4, <2>4
  <2>8. Origin(t, v, h, k, c) = <<e[c - 1], e[c]>>
    BY <1>7, <2>1 DEF Origin
  <2> QED BY <1>2, <2>4, <2>6, <2>7, <2>8
<1>16. ASSUME NEW x \in 1 .. Len(w.text) PROVE \E c \in 1 .. k : p[c - 1] < x /\ x <= p[c]
  <2>1. PICK c \in 1 .. k : Upto(q, c - 1) < x /\ x <= Upto(q, c)
    BY <1>2, <1>3, FlattenWhere
  <2>2. c - 1 \in 0 .. k /\ c \in 0 .. k
    OBVIOUS
  <2> QED BY <1>8, <2>1, <2>2
<1>17. w.folded = Fold(w.text)
  BY <1>2
<1>18. Tiles(t, k, p, e)
  BY <1>9, <1>10, <1>12, <1>13, <1>14, <1>15, <1>16, <1>17 DEF Tiles, w
<1> QED BY <1>18

(* Folding looks at one character at a time.                               *)
LEMMA FoldOfPart ==
    ASSUME NEW s \in Seq(Glyphs), NEW a \in 0 .. Len(s), NEW b \in a .. Len(s)
    PROVE  /\ Len(Fold(s)) = Len(s)
           /\ Len(Fold(SubSeq(s, a + 1, b))) = b - a
           /\ Fold(SubSeq(s, a + 1, b)) = SubSeq(Fold(s), a + 1, b)
<1> DEFINE G == Glyphs \union {"plain"}
           f == Fold(s)
           u == SubSeq(s, a + 1, b)
           x == Fold(u)
           y == SubSeq(f, a + 1, b)
<1>1. f = [i \in DOMAIN s |-> IF s[i] = "twin" THEN "plain" ELSE s[i]] /\ DOMAIN s = 1 .. Len(s)
  BY DEF Fold
<1>2. f \in Seq(G) /\ Len(f) = Len(s)
      /\ \A i \in 1 .. Len(s) : f[i] = IF s[i] = "twin" THEN "plain" ELSE s[i]
  BY <1>1
<1>3. u \in Seq(Glyphs) /\ Len(u) = b - a /\ \A i \in 1 .. b - a : u[i] = s[a + i]
  OBVIOUS
<1> HIDE DEF f, u
<1>4. x = [i \in DOMAIN u |-> IF u[i] = "twin" THEN "plain" ELSE u[i]] /\ DOMAIN u = 1 .. b - a
  BY <1>3 DEF Fold
<1>5. x \in Seq(G) /\ Len(x) = b - a
      /\ \A i \in 1 .. b - a : x[i] = IF u[i] = "twin" THEN "plain" ELSE u[i]
  BY <1>3, <1>4
<1>6. y \in Seq(G) /\ Len(y) = b - a /\ \A i \in 1 .. b - a : y[i] = f[a + i]
  BY <1>2
<1> HIDE DEF x, y
<1>7. \A i \in 1 .. b - a : x[i] = y[i]
  <2> TAKE i \in 1 .. b - a
  <2>1. a + i \in 1 .. Len(s)
    OBVIOUS
  <2> QED BY <1>2, <1>3, <1>5, <1>6, <2>1
<1>8. x = y
  BY <1>5, <1>6, <1>7, SeqEqual
<1> QED BY <1>2, <1>5, <1>8 DEF f, u, x, y

(* A stretch of a view that takes whole clusters.                          *)
WholeIn(w, a, b) ==
    /\ a > 0 => w.origins[a] # w.origins[a + 1]
    /\ b < Len(w.text) => w.origins[b] # w.origins[b + 1]

(* A stretch of the view reaches from the c-th cluster to the d-th, and it *)
(* is whole if it begins where the one does and ends where the other does. *)
Reaches(w, p, e, c, d, a, b) ==
    /\ p[c - 1] \in Nat /\ p[d] \in Nat
    /\ p[c - 1] <= a /\ a < p[c] /\ p[d - 1] < b /\ b <= p[d]
    /\ w.origins[a + 1][1] = e[c - 1]
    /\ w.origins[b][2] = e[d]
    /\ WholeIn(w, a, b) <=> p[c - 1] = a /\ p[d] = b

(* A stretch of the view has a first and a last cluster, and               *)
(* verify_round_trip looks at the original of all of both.                 *)
LEMMA StretchOfClusters ==
    ASSUME NEW t \in Seq(Characters), NEW k \in Nat, NEW p, NEW e, Tiles(t, k, p, e),
           NEW a \in Nat, NEW b \in Nat, a < b, b <= Len(build_detection_view(t).text)
    PROVE  \E c \in 1 .. k : \E d \in c .. k : Reaches(build_detection_view(t), p, e, c, d, a, b)
<1> DEFINE w == build_detection_view(t)
           n == Len(w.text)
           o == w.origins
<1>1. /\ p \in [0 .. k -> Nat] /\ e \in [0 .. k -> 0 .. Len(t)] /\ p[0] = 0 /\ p[k] = n
      /\ \A c, d \in 0 .. k : c < d => p[c] < p[d] /\ e[c] < e[d]
      /\ w.text \in Seq(Glyphs)
      /\ \A c \in 1 .. k : \A x \in p[c - 1] + 1 .. p[c] : o[x] = <<e[c - 1], e[c]>>
      /\ \A x \in 1 .. n : \E c \in 1 .. k : p[c - 1] < x /\ x <= p[c]
  BY DEF Tiles
<1>2. n \in Nat
  BY <1>1
<1> HIDE DEF n, o, w
<1>3. \A c \in 0 .. k : p[c] \in Nat /\ e[c] \in Nat
  BY <1>1
<1>4. a + 1 \in 1 .. n /\ b \in 1 .. n
  BY <1>2 DEF n, w
<1>5. PICK c \in 1 .. k : p[c - 1] < a + 1 /\ a + 1 <= p[c]
  BY <1>1, <1>4
<1>6. PICK d \in 1 .. k : p[d - 1] < b /\ b <= p[d]
  BY <1>1, <1>4
<1>7. c - 1 \in 0 .. k /\ c \in 0 .. k /\ d - 1 \in 0 .. k /\ d \in 0 .. k
  OBVIOUS
<1>8. p[c - 1] \in Nat /\ p[c] \in Nat /\ p[d - 1] \in Nat /\ p[d] \in Nat
  BY <1>3, <1>7
<1>9. c <= d
  <2> SUFFICES ASSUME d < c PROVE FALSE
    OBVIOUS
  <2>1. d = c - 1 \/ d < c - 1
    OBVIOUS
  <2>2. d < c - 1 => p[d] < p[c - 1]
    BY <1>1, <1>7
  <2>3. p[d] <= p[c - 1]
    BY <1>8, <2>1, <2>2
  <2> QED BY <1>5, <1>6, <1>8, <2>3
<1>10. a + 1 \in p[c - 1] + 1 .. p[c] /\ b \in p[d - 1] + 1 .. p[d]
  BY <1>5, <1>6, <1>8
<1>11. o[a + 1] = <<e[c - 1], e[c]>> /\ o[b] = <<e[d - 1], e[d]>>
  BY <1>1, <1>10
<1>12. (a > 0 => o[a] # o[a + 1]) <=> p[c - 1] = a
  <2>1. CASE p[c - 1] = a
    <3>1. SUFFICES ASSUME a > 0 PROVE o[a] # o[a + 1]
      BY <2>1
    <3>2. c - 1 # 0
      BY <1>1, <2>1, <3>1
    <3>3. c - 1 \in 1 .. k /\ (c - 1) - 1 \in 0 .. k /\ (c - 1) - 1 < c - 1
      BY <3>2
    <3>4. p[(c - 1) - 1] < p[c - 1] /\ p[(c - 1) - 1] \in Nat
      BY <1>1, <1>3, <1>7, <3>3
    <3>5. a \in p[(c - 1) - 1] + 1 .. p[c - 1]
      BY <2>1, <3>4
    <3>6. o[a] = <<e[(c - 1) - 1], e[c - 1]>>
      BY <1>1, <3>3, <3>5
    <3>7. e[c - 1] < e[c] /\ e[c - 1] \in Nat /\ e[c] \in Nat
      BY <1>1, <1>3, <1>7
    <3>8. e[c - 1] # e[c]
      BY <3>7
    <3> QED BY <1>11, <3>6, <3>8
  <2>2. CASE p[c - 1] # a
    <3>1. a > 0 /\ a \in p[c - 1] + 1 .. p[c]
      BY <1>5, <1>8, <2>2, SMTT(30)
    <3>2. o[a] = <<e[c - 1], e[c]>>
      BY <1>1, <3>1
    <3> QED BY <1>11, <2>2, <3>1, <3>2
  <2> QED BY <2>1, <2>2
<1>13. (b < n => o[b] # o[b + 1]) <=> p[d] = b
  <2>1. CASE p[d] = b
    <3>1. SUFFICES ASSUME b < n PROVE o[b] # o[b + 1]
      BY <2>1
    <3>2. d # k
      BY <1>1, <2>1, <3>1
    <3>3. d + 1 \in 1 .. k /\ (d + 1) - 1 = d /\ d + 1 \in 0 .. k /\ d < d + 1
      BY <3>2
    <3>4. p[d] < p[d + 1] /\ p[d + 1] \in Nat
      BY <1>1, <1>3, <1>7, <3>3
    <3>5. b + 1 \in p[(d + 1) - 1] + 1 .. p[d + 1]
      BY <2>1, <3>3, <3>4
    <3>6. o[b + 1] = <<e[(d + 1) - 1], e[d + 1]>>
      BY <1>1, <3>3, <3>5
    <3>7. e[d - 1] < e[d] /\ e[d - 1] \in Nat /\ e[d] \in Nat
      BY <1>1, <1>3, <1>7
    <3>8. e[d - 1] # e[d]
      BY <3>7
    <3> QED BY <1>11, <3>3, <3>6, <3>8
  <2>2. CASE p[d] # b
    <3>1. p[d] <= n
      <4>1. d = k \/ (d < k /\ k \in 0 .. k)
        OBVIOUS
      <4>2. d < k /\ k \in 0 .. k => p[d] < n
        BY <1>1, <1>7
      <4>3. d = k => p[d] = n
        BY <1>1
      <4> QED BY <1>2, <1>8, <4>1, <4>2, <4>3
    <3>2. b < n /\ b + 1 \in p[d - 1] + 1 .. p[d]
      BY <1>2, <1>6, <1>8, <2>2, <3>1, SMTT(30)
    <3>3. o[b + 1] = <<e[d - 1], e[d]>>
      BY <1>1, <3>2
    <3> QED BY <1>11, <2>2, <3>2, <3>3
  <2> QED BY <2>1, <2>2
<1>14. WholeIn(w, a, b) <=> p[c - 1] = a /\ p[d] = b
  BY <1>12, <1>13 DEF WholeIn, n, o
<1>15. o[a + 1][1] = e[c - 1] /\ o[b][2] = e[d]
  BY <1>11
<1>16. p[c - 1] <= a /\ a < p[c]
  BY <1>5, <1>8
<1>17. d \in c .. k
  BY <1>9
<1>18. Reaches(w, p, e, c, d, a, b)
  BY <1>6, <1>8, <1>14, <1>15, <1>16 DEF Reaches, o
<1> QED BY <1>17, <1>18 DEF w

(* Rebuilding the view of the original of a stretch gives the stretch back *)
(* exactly when it takes whole clusters: otherwise there is more of it.    *)
THEOREM RebuildsWhole ==
    ASSUME NEW t \in Seq(Characters), NEW a \in Nat, NEW b \in Nat, a < b,
           b <= Len(build_detection_view(t).text)
    PROVE  LET w == build_detection_view(t)
               part == SubSeq(t, w.origins[a + 1][1] + 1, w.origins[b][2])
           IN build_detection_view(part).folded = SubSeq(w.folded, a + 1, b) <=> WholeIn(w, a, b)
<1> DEFINE w == build_detection_view(t)
           s == w.text
           part == SubSeq(t, w.origins[a + 1][1] + 1, w.origins[b][2])
<1>1. PICK k \in Nat : \E p, e : Tiles(t, k, p, e)
  BY ViewIsTiled
<1>2. PICK p, e : Tiles(t, k, p, e)
  BY <1>1
<1>3. PICK c \in 1 .. k : \E d \in c .. k : Reaches(w, p, e, c, d, a, b)
  BY <1>2, StretchOfClusters
<1>4. PICK d \in c .. k : Reaches(w, p, e, c, d, a, b)
  BY <1>3
<1>5. /\ s \in Seq(Glyphs) /\ w.folded = Fold(s) /\ p \in [0 .. k -> Nat] /\ p[k] = Len(s)
      /\ \A x, y \in 0 .. k : x < y => p[x] < p[y]
      /\ build_detection_view(SubSeq(t, e[c - 1] + 1, e[d])).folded = Fold(SubSeq(s, p[c - 1] + 1, p[d]))
  BY <1>2 DEF Tiles
<1>6. build_detection_view(part).folded = Fold(SubSeq(s, p[c - 1] + 1, p[d]))
  BY <1>4, <1>5 DEF Reaches
<1> HIDE DEF s, part, w
<1>7. p[d] <= Len(s)
  <2>1. (d = k \/ d < k) /\ d \in 0 .. k /\ k \in 0 .. k
    OBVIOUS
  <2>2. d < k => p[d] < p[k]
    BY <1>5, <2>1
  <2>3. Len(s) \in Nat
    BY <1>5
  <2> QED BY <1>4, <1>5, <2>1, <2>2, <2>3 DEF Reaches
<1> DEFINE x == p[c - 1]
           y == p[d]
<1>8. x \in 0 .. Len(s) /\ y \in x .. Len(s) /\ a \in 0 .. Len(s) /\ b \in a .. Len(s)
      /\ x <= a /\ b <= y
  <2>1. Len(s) \in Nat
    BY <1>5
  <2> QED BY <1>4, <1>7, <2>1 DEF Reaches
<1> HIDE DEF x, y
<1>9. Len(Fold(SubSeq(s, x + 1, y))) = y - x
  BY <1>5, <1>8, FoldOfPart
<1>10. Len(Fold(SubSeq(s, a + 1, b))) = b - a /\ Fold(SubSeq(s, a + 1, b)) = SubSeq(Fold(s), a + 1, b)
  BY <1>5, <1>8, FoldOfPart
<1>11. Fold(SubSeq(s, x + 1, y)) = SubSeq(Fold(s), a + 1, b) <=> x = a /\ y = b
  <2>1. CASE x = a /\ y = b
    BY <1>10, <2>1
  <2>2. CASE ~(x = a /\ y = b)
    <3>1. y - x # b - a
      BY <1>8, <2>2
    <3> QED BY <1>9, <1>10, <2>2, <3>1
  <2> QED BY <2>1, <2>2
<1>12. WholeIn(w, a, b) <=> x = a /\ y = b
  BY <1>4 DEF x, y, Reaches
<1>13. build_detection_view(part).folded = SubSeq(w.folded, a + 1, b) <=> WholeIn(w, a, b)
  BY <1>5, <1>6, <1>11, <1>12 DEF x, y
<1> QED BY <1>13 DEF part, w

-----------------------------------------------------------------------------
(* Stretches of the view, and where they come from.                        *)

(* Whole stretches that follow on one another in the view do so in the text.*)
LEMMA StretchesApart ==
    ASSUME NEW t \in Seq(Characters),
           NEW a \in Nat, NEW b \in Nat, NEW x \in Nat, NEW y \in Nat, a < b, b <= x, x < y,
           y <= Len(build_detection_view(t).text),
           WholeIn(build_detection_view(t), a, b), WholeIn(build_detection_view(t), x, y)
    PROVE  build_detection_view(t).origins[b][2] <= build_detection_view(t).origins[x + 1][1]
<1> DEFINE w == build_detection_view(t)
<1>1. PICK k \in Nat : \E p, e : Tiles(t, k, p, e)
  BY ViewIsTiled
<1>2. PICK p, e : Tiles(t, k, p, e)
  BY <1>1
<1>3. p \in [0 .. k -> Nat] /\ e \in [0 .. k -> 0 .. Len(t)]
      /\ \A i, j \in 0 .. k : i < j => p[i] < p[j] /\ e[i] < e[j]
  BY <1>2 DEF Tiles
<1>4. b <= Len(w.text)
  <2>1. w.text \in Seq(Glyphs) /\ y <= Len(w.text)
    BY <1>2 DEF Tiles
  <2> HIDE DEF w
  <2>2. Len(w.text) \in Nat
    BY <2>1
  <2> QED BY <2>1, <2>2
<1>5. PICK c \in 1 .. k : \E d \in c .. k : Reaches(w, p, e, c, d, a, b)
  BY <1>2, <1>4, StretchOfClusters
<1>6. PICK d \in c .. k : Reaches(w, p, e, c, d, a, b)
  BY <1>5
<1>7. PICK f \in 1 .. k : \E g \in f .. k : Reaches(w, p, e, f, g, x, y)
  BY <1>2, StretchOfClusters
<1>8. PICK g \in f .. k : Reaches(w, p, e, f, g, x, y)
  BY <1>7
<1>9. p[d] = b /\ w.origins[b][2] = e[d]
  BY <1>6 DEF Reaches
<1>10. p[f - 1] = x /\ w.origins[x + 1][1] = e[f - 1]
  BY <1>8 DEF Reaches
<1> HIDE DEF w
<1>11. d \in 0 .. k /\ f - 1 \in 0 .. k
  OBVIOUS
<1>12. e[d] \in Nat /\ e[f - 1] \in Nat
  BY <1>3, <1>11
<1>13. ~(f - 1 < d)
  <2>1. f - 1 < d => p[f - 1] < p[d]
    BY <1>3, <1>11
  <2> QED BY <1>9, <1>10, <2>1
<1>14. d = f - 1 \/ d < f - 1
  BY <1>11, <1>13
<1>15. d < f - 1 => e[d] < e[f - 1]
  BY <1>3, <1>11
<1>16. e[d] <= e[f - 1]
  BY <1>12, <1>14, <1>15
<1> QED BY <1>9, <1>10, <1>16 DEF w

(* The original of a stretch has that of each of its characters in it.     *)
LEMMA StretchCovers ==
    ASSUME NEW t \in Seq(Characters), NEW a \in Nat, NEW b \in Nat, a < b,
           b <= Len(build_detection_view(t).text), NEW x \in a + 1 .. b
    PROVE  /\ build_detection_view(t).origins[x][1] \in 0 .. Len(t)
           /\ build_detection_view(t).origins[x][2] \in 0 .. Len(t)
           /\ build_detection_view(t).origins[a + 1][1] <= build_detection_view(t).origins[x][1]
           /\ build_detection_view(t).origins[x][2] <= build_detection_view(t).origins[b][2]
<1> DEFINE w == build_detection_view(t)
<1>1. PICK k \in Nat : \E p, e : Tiles(t, k, p, e)
  BY ViewIsTiled
<1>2. PICK p, e : Tiles(t, k, p, e)
  BY <1>1
<1>3. p \in [0 .. k -> Nat] /\ e \in [0 .. k -> 0 .. Len(t)]
      /\ (\A i, j \in 0 .. k : i < j => p[i] < p[j] /\ e[i] < e[j])
      /\ \A i \in 1 .. k : \A z \in p[i - 1] + 1 .. p[i] : w.origins[z] = <<e[i - 1], e[i]>>
  BY <1>2 DEF Tiles
<1>3a. \A z \in 1 .. Len(w.text) : \E i \in 1 .. k : p[i - 1] < z /\ z <= p[i]
  BY <1>2 DEF Tiles
<1>4. PICK c \in 1 .. k : \E d \in c .. k : Reaches(w, p, e, c, d, a, b)
  BY <1>2, StretchOfClusters
<1>5. PICK d \in c .. k : Reaches(w, p, e, c, d, a, b)
  BY <1>4
<1>6. /\ p[c - 1] <= a /\ b <= p[d] /\ p[c - 1] \in Nat /\ p[d] \in Nat
      /\ w.origins[a + 1][1] = e[c - 1] /\ w.origins[b][2] = e[d]
  BY <1>5 DEF Reaches
<1>7. x \in 1 .. Len(w.text) /\ x \in Nat /\ a < x /\ x <= b /\ Len(w.text) \in Nat
  <2>1. w.text \in Seq(Glyphs) /\ b <= Len(w.text)
    BY <1>2 DEF Tiles
  <2> HIDE DEF w
  <2>2. Len(w.text) \in Nat
    BY <2>1
  <2> QED BY <2>1, <2>2
<1> HIDE DEF w
<1>8. PICK i \in 1 .. k : p[i - 1] < x /\ x <= p[i]
  BY <1>3a, <1>7
<1>9. i \in 0 .. k /\ i - 1 \in 0 .. k /\ c - 1 \in 0 .. k /\ d \in 0 .. k
  OBVIOUS
<1>10. p[i - 1] \in Nat /\ p[i] \in Nat
  BY <1>3, <1>9
<1>11. w.origins[x] = <<e[i - 1], e[i]>>
  <2>1. x \in p[i - 1] + 1 .. p[i]
    BY <1>7, <1>8, <1>10
  <2> QED BY <1>3, <2>1, SMTT(30)
<1>12. c - 1 <= i - 1
  <2>1. i <= c - 1 => i = c - 1 \/ i < c - 1
    OBVIOUS
  <2>2. i < c - 1 => p[i] < p[c - 1]
    BY <1>3, <1>9
  <2>3. i <= c - 1 => p[i] <= p[c - 1]
    <3>1. i = c - 1 => p[i] = p[c - 1]
      OBVIOUS
    <3> QED BY <1>6, <1>10, <2>1, <2>2, <3>1
  <2>4. ~(i <= c - 1)
    BY <1>6, <1>7, <1>8, <1>10, <2>3
  <2> QED BY <2>4
<1>13. i <= d
  <2>1. d <= i - 1 => d = i - 1 \/ d < i - 1
    OBVIOUS
  <2>2. d < i - 1 => p[d] < p[i - 1]
    BY <1>3, <1>9
  <2>3. d <= i - 1 => p[d] <= p[i - 1]
    <3>1. d = i - 1 => p[d] = p[i - 1]
      OBVIOUS
    <3> QED BY <1>6, <1>10, <2>1, <2>2, <3>1
  <2>4. ~(d <= i - 1)
    BY <1>6, <1>7, <1>8, <1>10, <2>3
  <2> QED BY <2>4
<1>14. \A j \in 0 .. k : e[j] \in 0 .. Len(t)
  BY <1>3
<1>15. Len(t) \in Nat
  OBVIOUS
<1>16. e[c - 1] <= e[i - 1]
  <2>1. c - 1 < i - 1 => e[c - 1] < e[i - 1]
    BY <1>3, <1>9
  <2>2. e[c - 1] \in 0 .. Len(t) /\ e[i - 1] \in 0 .. Len(t)
    BY <1>9, <1>14
  <2> QED BY <1>12, <1>15, <2>1, <2>2
<1>17. e[i] <= e[d]
  <2>1. i < d => e[i] < e[d]
    BY <1>3, <1>9
  <2>2. e[i] \in 0 .. Len(t) /\ e[d] \in 0 .. Len(t)
    BY <1>9, <1>14
  <2> QED BY <1>13, <1>15, <2>1, <2>2
<1>18. e[i - 1] \in 0 .. Len(t) /\ e[i] \in 0 .. Len(t)
  BY <1>9, <1>14
<1> QED BY <1>6, <1>11, <1>16, <1>17, <1>18 DEF w

-----------------------------------------------------------------------------
(* What the sequences behind the i-th flatten to.                          *)
RestOf(q, i) == FlattenSeq(SubSeq(q, i + 1, Len(q)))

(* A single sequence flattens to itself.                                   *)
LEMMA FlattenOne ==
    ASSUME NEW E, NEW x \in Seq(E)
    PROVE  <<x>> \in Seq(Seq(E)) /\ FlattenSeq(<<x>>) = x
<1>1. <<>> \in Seq(Seq(E)) /\ Append(<<>>, x) = <<x>> /\ <<x>> \in Seq(Seq(E))
  OBVIOUS
<1>2. FlattenSeq(Append(<<>>, x)) = FlattenSeq(<<>>) \o x
  BY <1>1, FlattenAdds
<1>3. <<>> \o x = x
  BY ConcatEmptySeq
<1> QED BY <1>1, <1>2, <1>3, FlattenNothing

(* RestOf loses one sequence a step, from all of them to none.             *)
LEMMA RestSteps ==
    ASSUME NEW E, NEW q \in Seq(Seq(E))
    PROVE  /\ \A i \in 0 .. Len(q) : RestOf(q, i) \in Seq(E)
           /\ RestOf(q, Len(q)) = <<>>
           /\ RestOf(q, 0) = FlattenSeq(q)
           /\ \A i \in 0 .. Len(q) - 1 : RestOf(q, i) = q[i + 1] \o RestOf(q, i + 1)
<1> DEFINE n == Len(q)
<1>0. n \in Nat
  OBVIOUS
<1>1. ASSUME NEW i \in 0 .. n PROVE RestOf(q, i) \in Seq(E)
  <2>1. SubSeq(q, i + 1, n) \in Seq(Seq(E))
    OBVIOUS
  <2> QED BY <2>1, FlattenType DEF RestOf
<1>2. RestOf(q, n) = <<>>
  <2>1. SubSeq(q, n + 1, n) = <<>>
    OBVIOUS
  <2> QED BY <2>1, FlattenNothing DEF RestOf
<1>3. RestOf(q, 0) = FlattenSeq(q)
  <2>1. SubSeq(q, 0 + 1, n) = q
    OBVIOUS
  <2> QED BY <2>1 DEF RestOf
<1>4. ASSUME NEW i \in 0 .. n - 1 PROVE RestOf(q, i) = q[i + 1] \o RestOf(q, i + 1)
  <2> DEFINE one == SubSeq(q, i + 1, i + 1)
             rest == SubSeq(q, (i + 1) + 1, n)
             x == q[i + 1]
  <2>1. one \o rest = SubSeq(q, i + 1, n)
    <3>1. i + 1 \in 1 .. n + 1 /\ i + 1 \in (i + 1) - 1 .. n /\ n \in i + 1 .. n
      OBVIOUS
    <3> QED BY <3>1, ConcatAdjacentSubSeq
  <2>2. rest \in Seq(Seq(E)) /\ x \in Seq(E)
    OBVIOUS
  <2>3. one = <<x>>
    <3>1. one \in Seq(Seq(E)) /\ Len(one) = 1 /\ one[1] = x
      OBVIOUS
    <3>2. <<x>> \in Seq(Seq(E)) /\ Len(<<x>>) = 1 /\ <<x>>[1] = x
      BY <2>2
    <3> DEFINE o == <<x>>
    <3>3. o \in Seq(Seq(E)) /\ Len(o) = 1 /\ o[1] = x
      BY <3>2
    <3> HIDE DEF one, o, x
    <3>4. \A j \in 1 .. Len(one) : one[j] = o[j]
      BY <3>1, <3>3
    <3>5. one = o
      BY <3>1, <3>3, <3>4, SeqEqual
    <3> QED BY <3>5 DEF o
  <2> HIDE DEF one, rest, x
  <2>4. FlattenSeq(one \o rest) = FlattenSeq(one) \o FlattenSeq(rest)
    <3>1. one \in Seq(Seq(E))
      BY <2>2, <2>3, FlattenOne
    <3> QED BY <2>2, <3>1, FlattenBoth
  <2>5. FlattenSeq(one) = x
    BY <2>2, <2>3, FlattenOne
  <2> QED BY <2>1, <2>4, <2>5 DEF RestOf, rest, x
<1> QED BY <1>1, <1>2, <1>3, <1>4

(* A run of empty sequences adds nothing.                                  *)
LEMMA RestOfEmpty ==
    ASSUME NEW E, NEW q \in Seq(Seq(E)), NEW a \in 0 .. Len(q), NEW b \in a .. Len(q),
           \A i \in a .. b - 1 : q[i + 1] = <<>>
    PROVE  RestOf(q, a) = RestOf(q, b)
<1> DEFINE G == {m \in 1 .. (b - a) + 1 : RestOf(q, b - (m - 1)) = RestOf(q, b)}
<1>0. a \in Nat /\ b \in Nat /\ a <= b /\ b <= Len(q) /\ Len(q) \in Nat /\ b - a \in Nat
  OBVIOUS
<1>1. 1 \in G
  BY <1>0
<1>2. ASSUME NEW m \in 1 .. (b - a) + 1, m > 1, m - 1 \in G PROVE m \in G
  <2> DEFINE i == b - (m - 1)
  <2>1. i \in a .. b - 1 /\ i \in 0 .. Len(q) - 1 /\ i + 1 = b - ((m - 1) - 1) /\ i + 1 \in 0 .. Len(q)
    BY <1>0, <1>2
  <2>2. RestOf(q, i + 1) = RestOf(q, b)
    BY <1>2, <2>1
  <2> HIDE DEF i
  <2>3. RestOf(q, i) = q[i + 1] \o RestOf(q, i + 1) /\ RestOf(q, i + 1) \in Seq(E)
    BY <2>1, RestSteps
  <2>4. <<>> \o RestOf(q, i + 1) = RestOf(q, i + 1)
    BY <2>3, ConcatEmptySeq
  <2>5. RestOf(q, i) = RestOf(q, b)
    BY <2>1, <2>2, <2>3, <2>4
  <2> QED BY <2>5 DEF i
<1>3. \A m \in 1 .. (b - a) + 1 : m \in G
  <2> HIDE DEF G
  <2>1. (b - a) + 1 \in Nat
    BY <1>0
  <2> QED BY <1>1, <1>2, <2>1, UpTheInterval
<1>4. (b - a) + 1 \in G
  <2>1. (b - a) + 1 \in 1 .. (b - a) + 1
    BY <1>0
  <2> HIDE DEF G
  <2> QED BY <1>3, <2>1
<1>5. b - (((b - a) + 1) - 1) = a
  BY <1>0
<1> QED BY <1>4, <1>5

Fragment == [token : BOOLEAN, at : Nat]

(* Chars(a, b) has the characters from a up to b.                          *)
LEMMA CharsAre ==
    ASSUME NEW a \in Nat, NEW b \in Nat, a <= b
    PROVE  /\ Chars(a, b) \in Seq(Fragment) /\ Len(Chars(a, b)) = b - a
           /\ \A i \in 1 .. b - a : Chars(a, b)[i] = Char(a + i - 1)
           /\ a = b => Chars(a, b) = <<>>
<1>1. \A i \in 1 .. b - a : Char(a + i - 1) \in Fragment
  BY DEF Char, Fragment
<1>2. Chars(a, b) = [i \in 1 .. b - a |-> Char(a + i - 1)] /\ b - a \in Nat
  BY DEF Chars
<1>3. Chars(a, b) \in Seq(Fragment) /\ Len(Chars(a, b)) = b - a
  BY <1>1, <1>2
<1>4. \A i \in 1 .. b - a : Chars(a, b)[i] = Char(a + i - 1)
  BY <1>2
<1>5. a = b => Chars(a, b) = <<>>
  BY <1>3
<1> QED BY <1>3, <1>4, <1>5

(* The first of the characters can be split off.                           *)
LEMMA CharsStep ==
    ASSUME NEW a \in Nat, NEW b \in Nat, a < b
    PROVE  Chars(a, b) = <<Char(a)>> \o Chars(a + 1, b)
<1> DEFINE u == <<Char(a)>>
           v == Chars(a + 1, b)
           w == Chars(a, b)
<1>1. Char(a) \in Fragment
  BY DEF Char, Fragment
<1>2. u \in Seq(Fragment) /\ Len(u) = 1 /\ u[1] = Char(a)
  BY <1>1
<1>3. /\ v \in Seq(Fragment) /\ Len(v) = b - (a + 1)
      /\ \A i \in 1 .. b - (a + 1) : v[i] = Char((a + 1) + i - 1)
  <2>1. a + 1 \in Nat /\ a + 1 <= b
    OBVIOUS
  <2> QED BY <2>1, CharsAre
<1>4. w \in Seq(Fragment) /\ Len(w) = b - a /\ \A i \in 1 .. b - a : w[i] = Char(a + i - 1)
  BY CharsAre
<1> HIDE DEF u, v, w
<1>5. u \o v \in Seq(Fragment) /\ Len(u \o v) = b - a
      /\ \A i \in 1 .. b - a : (u \o v)[i] = IF i <= 1 THEN u[i] ELSE v[i - 1]
  <2>1. Len(u) + Len(v) = b - a
    BY <1>2, <1>3
  <2>2. u \o v \in Seq(Fragment) /\ Len(u \o v) = Len(u) + Len(v)
        /\ \A i \in 1 .. Len(u) + Len(v) :
              (u \o v)[i] = IF i <= Len(u) THEN u[i] ELSE v[i - Len(u)]
    BY <1>2, <1>3, ConcatProperties
  <2> QED BY <1>2, <2>1, <2>2
<1>6. \A i \in 1 .. b - a : w[i] = (u \o v)[i]
  <2> TAKE i \in 1 .. b - a
  <2>1. CASE i = 1
    <3>1. a + i - 1 = a /\ i <= 1
      BY <2>1
    <3> QED BY <1>2, <1>4, <1>5, <2>1, <3>1
  <2>2. CASE i > 1
    <3>1. i - 1 \in 1 .. b - (a + 1) /\ (a + 1) + (i - 1) - 1 = a + i - 1 /\ ~(i <= 1)
      BY <2>2
    <3>2. v[i - 1] = Char((a + 1) + (i - 1) - 1)
      BY <1>3, <3>1
    <3> QED BY <1>4, <1>5, <3>1, <3>2
  <2>3. i = 1 \/ i > 1
    OBVIOUS
  <2> QED BY <2>1, <2>2, <2>3
<1>7. w = u \o v
  BY <1>4, <1>5, <1>6, SeqEqual
<1> QED BY <1>7 DEF u, v, w

(* A run of characters of the original adds them.                          *)
LEMMA RestOfChars ==
    ASSUME NEW q \in Seq(Seq(Fragment)), NEW a \in 0 .. Len(q), NEW b \in a .. Len(q),
           \A i \in a .. b - 1 : q[i + 1] = <<Char(i)>>
    PROVE  RestOf(q, a) = Chars(a, b) \o RestOf(q, b)
<1> DEFINE G == {m \in 1 .. (b - a) + 1 :
                    RestOf(q, b - (m - 1)) = Chars(b - (m - 1), b) \o RestOf(q, b)}
<1>0. a \in Nat /\ b \in Nat /\ a <= b /\ b <= Len(q) /\ Len(q) \in Nat /\ b - a \in Nat
      /\ b \in 0 .. Len(q)
  OBVIOUS
<1>1. 1 \in G
  <2>1. b - (1 - 1) = b /\ 1 \in 1 .. (b - a) + 1
    BY <1>0
  <2>2. Chars(b, b) = <<>>
    BY <1>0, CharsAre
  <2>4. RestOf(q, b) \in Seq(Fragment)
    BY <1>0, RestSteps
  <2>3. <<>> \o RestOf(q, b) = RestOf(q, b)
    BY <2>4, ConcatEmptySeq
  <2> QED BY <2>1, <2>2, <2>3
<1>2. ASSUME NEW m \in 1 .. (b - a) + 1, m > 1, m - 1 \in G PROVE m \in G
  <2> DEFINE i == b - (m - 1)
             r == RestOf(q, b)
             u == <<Char(i)>>
             v == Chars(i + 1, b)
  <2>1. i \in a .. b - 1 /\ i \in 0 .. Len(q) - 1 /\ i + 1 = b - ((m - 1) - 1)
        /\ i \in Nat /\ i + 1 \in Nat /\ i < b /\ i + 1 <= b
    BY <1>0, <1>2
  <2>2. RestOf(q, i + 1) = v \o r
    BY <1>2, <2>1
  <2>3. r \in Seq(Fragment)
    BY <1>0, RestSteps
  <2>4. u \in Seq(Fragment)
    <3>1. Char(i) \in Fragment
      BY <2>1 DEF Char, Fragment
    <3> QED BY <3>1
  <2> HIDE DEF i
  <2>5. v \in Seq(Fragment) /\ Chars(i, b) = u \o v
    BY <1>0, <2>1, CharsAre, CharsStep
  <2>6. RestOf(q, i) = u \o RestOf(q, i + 1)
    BY <2>1, RestSteps
  <2> HIDE DEF u, v, r
  <2>7. (u \o v) \o r = u \o (v \o r)
    BY <2>3, <2>4, <2>5, ConcatAssociative, SMTT(30)
  <2>8. RestOf(q, i) = Chars(i, b) \o r
    BY <2>2, <2>5, <2>6, <2>7
  <2> QED BY <2>8 DEF i, r
<1>3. \A m \in 1 .. (b - a) + 1 : m \in G
  <2> HIDE DEF G
  <2>1. (b - a) + 1 \in Nat
    BY <1>0
  <2> QED BY <1>1, <1>2, <2>1, UpTheInterval
<1>4. (b - a) + 1 \in G
  <2>1. (b - a) + 1 \in 1 .. (b - a) + 1
    BY <1>0
  <2> HIDE DEF G
  <2> QED BY <1>3, <2>1
<1>5. b - (((b - a) + 1) - 1) = a
  BY <1>0
<1> QED BY <1>4, <1>5

-----------------------------------------------------------------------------
(* What goes out, character by character.                                  *)

(* What goes out in the place of the i-th character, counted from 0.       *)
Over(i) == {k \in DOMAIN kept : kept[k].start <= i /\ i < kept[k].end}
Slot(i) == IF Over(i) = {} THEN <<Char(i)>>
           ELSE IF \E k \in Over(i) : kept[k].start = i THEN <<[token |-> TRUE, at |-> i]>>
           ELSE <<>>
Slots == [n \in 1 .. Len(text) |-> Slot(n - 1)]

(* Expected is what the slots flatten to.                                  *)
LEMMA ExpectedIsSlots == Expected = FlattenSeq(Slots)
BY DEF Expected, Slots, Slot, Over

\* The spans are apart and within the text.
KeptFit ==
    /\ text \in Seq(Characters) /\ kept \in Seq(Span) /\ KeptAreApart
    /\ \A i \in DOMAIN kept : kept[i].end <= Len(text)

(* What it means for the spans to fit, as numbers.                         *)
LEMMA KeptNumbers ==
    ASSUME KeptFit
    PROVE  /\ Len(text) \in Nat /\ Len(kept) \in Nat /\ DOMAIN kept = 1 .. Len(kept)
           /\ \A i \in 1 .. Len(kept) :
                 /\ kept[i].start \in Nat /\ kept[i].end \in Nat
                 /\ kept[i].start < kept[i].end /\ kept[i].end <= Len(text)
           /\ \A i, j \in 1 .. Len(kept) : i < j => kept[i].end <= kept[j].start
<1>1. text \in Seq(Characters) /\ kept \in Seq(Span)
  BY DEF KeptFit
<1>2. Len(text) \in Nat /\ Len(kept) \in Nat /\ DOMAIN kept = 1 .. Len(kept)
  BY <1>1
<1>3. \A i \in 1 .. Len(kept) : kept[i] \in Span
  BY <1>1, <1>2
<1>4. \A i \in 1 .. Len(kept) : kept[i].start \in Nat /\ kept[i].end \in Nat
                                /\ kept[i].start < kept[i].end
  BY <1>3 DEF Span
<1>5. \A i \in 1 .. Len(kept) : kept[i].end <= Len(text)
  BY <1>2 DEF KeptFit
<1>6. \A i, j \in 1 .. Len(kept) : i < j => kept[i].end <= kept[j].start
  BY <1>2 DEF KeptFit, KeptAreApart
<1> QED BY <1>2, <1>4, <1>5, <1>6

(* There is a slot for each character of the text.                         *)
LEMMA SlotsType ==
    ASSUME KeptFit
    PROVE  /\ Slots \in Seq(Seq(Fragment)) /\ Len(Slots) = Len(text)
           /\ \A n \in 1 .. Len(text) : Slots[n] = Slot(n - 1)
<1>1. Len(text) \in Nat
  BY KeptNumbers
<1>2. ASSUME NEW n \in 1 .. Len(text) PROVE Slot(n - 1) \in Seq(Fragment)
  <2>1. Char(n - 1) \in Fragment /\ [token |-> TRUE, at |-> n - 1] \in Fragment
    BY <1>1 DEF Char, Fragment
  <2>2. <<Char(n - 1)>> \in Seq(Fragment) /\ <<[token |-> TRUE, at |-> n - 1]>> \in Seq(Fragment)
    BY <2>1
  <2>3. <<>> \in Seq(Fragment)
    OBVIOUS
  <2> QED BY <2>2, <2>3 DEF Slot
<1> HIDE DEF Slot
<1>3. Slots \in [1 .. Len(text) -> Seq(Fragment)]
  BY <1>2 DEF Slots
<1>4. Slots \in Seq(Seq(Fragment)) /\ Len(Slots) = Len(text)
  BY <1>1, <1>3
<1>5. \A n \in 1 .. Len(text) : Slots[n] = Slot(n - 1)
  BY DEF Slots
<1> QED BY <1>4, <1>5

(* A token at the start of a span, nothing inside it, and the character    *)
(* itself where there is no span.                                          *)
LEMMA SlotIs ==
    ASSUME KeptFit
    PROVE  /\ \A k \in 1 .. Len(kept) : Slot(kept[k].start) = <<Token(kept[k])>>
           /\ \A k \in 1 .. Len(kept) :
                 \A i \in kept[k].start + 1 .. kept[k].end - 1 : Slot(i) = <<>>
           /\ \A i \in Nat : (\A k \in 1 .. Len(kept) : i < kept[k].start \/ kept[k].end <= i)
                                => Slot(i) = <<Char(i)>>
<1>1. DOMAIN kept = 1 .. Len(kept) /\ Len(kept) \in Nat
      /\ (\A i \in 1 .. Len(kept) :
            /\ kept[i].start \in Nat /\ kept[i].end \in Nat /\ kept[i].start < kept[i].end)
      /\ \A i, j \in 1 .. Len(kept) : i < j => kept[i].end <= kept[j].start
  BY KeptNumbers
<1>2. ASSUME NEW k \in 1 .. Len(kept) PROVE Slot(kept[k].start) = <<Token(kept[k])>>
  <2> DEFINE i == kept[k].start
  <2>1. k \in Over(i)
    BY <1>1 DEF Over
  <2> HIDE DEF i
  <2>2. kept[k].start = i
    BY DEF i
  <2>3. Slot(i) = <<[token |-> TRUE, at |-> i]>>
    BY <2>1, <2>2 DEF Slot
  <2> QED BY <2>2, <2>3 DEF Token
<1>3. ASSUME NEW k \in 1 .. Len(kept), NEW i \in kept[k].start + 1 .. kept[k].end - 1
      PROVE  Slot(i) = <<>>
  <2>1. kept[k].start < i /\ i < kept[k].end /\ i \in Nat
    BY <1>1
  <2>2. k \in Over(i)
    BY <1>1, <2>1 DEF Over
  <2>3. ASSUME NEW j \in Over(i), kept[j].start = i PROVE FALSE
    <3>1. j \in 1 .. Len(kept) /\ kept[j].start <= i /\ i < kept[j].end
      BY <1>1 DEF Over
    <3>2. j < k \/ j = k \/ k < j
      BY <3>1
    <3>3. j < k => kept[j].end <= kept[k].start
      BY <1>1, <3>1
    <3>4. k < j => kept[k].end <= kept[j].start
      BY <1>1, <3>1
    <3>5. kept[j].start \in Nat /\ kept[j].end \in Nat /\ kept[k].start \in Nat /\ kept[k].end \in Nat
      BY <1>1, <3>1
    <3>6. j # k
      BY <2>1, <2>3
    <3>7. ~(j < k)
      BY <2>1, <3>1, <3>3, <3>5
    <3>8. ~(k < j)
      BY <2>1, <2>3, <3>4, <3>5
    <3> QED BY <3>2, <3>6, <3>7, <3>8
  <2> QED BY <2>2, <2>3 DEF Slot
<1>4. ASSUME NEW i \in Nat, \A k \in 1 .. Len(kept) : i < kept[k].start \/ kept[k].end <= i
      PROVE  Slot(i) = <<Char(i)>>
  <2>1. ASSUME NEW k \in Over(i) PROVE FALSE
    <3>1. k \in 1 .. Len(kept) /\ kept[k].start <= i /\ i < kept[k].end
      BY <1>1 DEF Over
    <3>2. kept[k].start \in Nat /\ kept[k].end \in Nat
      BY <1>1, <3>1
    <3>3. i < kept[k].start \/ kept[k].end <= i
      BY <1>4, <3>1
    <3> QED BY <3>1, <3>2, <3>3
  <2>2. Over(i) = {}
    BY <2>1
  <2> QED BY <2>2 DEF Slot
<1> QED BY <1>2, <1>3, <1>4

\* where the text in front of the span after the k-th ends
CutAfter(k) == IF k = Len(kept) THEN Len(text) ELSE kept[k + 1].start
EndOf(k) == IF k = 0 THEN 0 ELSE kept[k].end

(* Between two spans that follow on one another the text is as it was.     *)
LEMMA BetweenSpans ==
    ASSUME KeptFit, NEW k \in 0 .. Len(kept)
    PROVE  /\ EndOf(k) \in 0 .. Len(text) /\ CutAfter(k) \in 0 .. Len(text)
           /\ RestOf(Slots, EndOf(k)) = Chars(EndOf(k), CutAfter(k)) \o RestOf(Slots, CutAfter(k))
<1> DEFINE a == EndOf(k)
           b == CutAfter(k)
           N == Len(kept)
           L == Len(text)
<1>1. DOMAIN kept = 1 .. N /\ N \in Nat /\ L \in Nat
      /\ (\A i \in 1 .. N : /\ kept[i].start \in Nat /\ kept[i].end \in Nat
                            /\ kept[i].start < kept[i].end /\ kept[i].end <= L)
      /\ \A i, j \in 1 .. N : i < j => kept[i].end <= kept[j].start
  BY KeptNumbers
<1>2. a \in Nat /\ a <= L /\ (k = 0 => a = 0) /\ (k > 0 => k \in 1 .. N /\ a = kept[k].end)
  <2>1. CASE k = 0
    BY <1>1, <2>1 DEF EndOf
  <2>2. CASE k > 0
    <3>1. k \in 1 .. N
      BY <1>1, <2>2
    <3>2. a = kept[k].end
      BY <2>2 DEF EndOf
    <3> QED BY <1>1, <2>2, <3>1, <3>2
  <2> QED BY <1>1, <2>1, <2>2
<1>3. b \in Nat /\ b <= L /\ (k < N => k + 1 \in 1 .. N /\ b = kept[k + 1].start) /\ (k = N => b = L)
  <2>0. k = N \/ k < N
    <3>1. k \in 0 .. N /\ N \in Nat
      BY <1>1
    <3> HIDE DEF N
    <3> QED BY <3>1
  <2>1. k = N => b = L
    BY DEF CutAfter
  <2>2. k < N => k + 1 \in 1 .. N /\ b = kept[k + 1].start
    <3>1. k < N => k + 1 \in 1 .. N /\ k # N
      BY <1>1
    <3> QED BY <3>1 DEF CutAfter
  <2> HIDE DEF b, N, L
  <2>3. k < N => b \in Nat /\ b <= L
    <3>1. ASSUME k < N PROVE b \in Nat /\ b <= L
      <4>1. k + 1 \in 1 .. N /\ b = kept[k + 1].start
        BY <2>2, <3>1
      <4>2. kept[k + 1].start \in Nat /\ kept[k + 1].end \in Nat
            /\ kept[k + 1].start < kept[k + 1].end /\ kept[k + 1].end <= L
        BY <1>1, <4>1
      <4> QED BY <1>1, <4>1, <4>2
    <3> QED BY <3>1
  <2>4. b \in Nat /\ b <= L
    BY <1>1, <2>0, <2>1, <2>3
  <2> QED BY <2>1, <2>2, <2>4
<1> HIDE DEF a, b, N, L
<1>4. a <= b
  <2>1. CASE k = 0
    BY <1>2, <1>3, <2>1
  <2>2. CASE k = N
    BY <1>2, <1>3, <2>2
  <2>3. CASE k > 0 /\ k < N
    <3>1. kept[k].end <= kept[k + 1].start
      BY <1>1, <1>2, <1>3, <2>3
    <3> QED BY <1>2, <1>3, <2>3, <3>1
  <2>4. k \in 0 .. N
    BY DEF N
  <2> QED BY <1>1, <2>1, <2>2, <2>3, <2>4
<1>5. ASSUME NEW i \in a .. b - 1 PROVE Slots[i + 1] = <<Char(i)>>
  <2>1. i \in Nat /\ i + 1 \in 1 .. L /\ (i + 1) - 1 = i /\ a <= i /\ i < b
    BY <1>1, <1>2, <1>3
  <2>2. ASSUME NEW j \in 1 .. N PROVE i < kept[j].start \/ kept[j].end <= i
    <3>0. k \in 0 .. N
      BY DEF N
    <3>1. CASE j <= k
      <4>1. k > 0 /\ k \in 1 .. N
        BY <1>1, <3>0, <3>1
      <4>2. j < k => kept[j].end <= kept[k].start
        BY <1>1, <4>1
      <4>3. j = k => kept[j].end = kept[k].end
        OBVIOUS
      <4>4. kept[j].end \in Nat /\ kept[k].start \in Nat /\ kept[k].end \in Nat
            /\ kept[k].start < kept[k].end
        BY <1>1, <4>1
      <4>5. kept[k].end <= i
        BY <1>2, <2>1, <4>1
      <4>6. j < k \/ j = k
        BY <3>0, <3>1
      <4> QED BY <2>1, <4>2, <4>3, <4>4, <4>5, <4>6
    <3>2. CASE j > k
      <4>1. k < N /\ k + 1 \in 1 .. N
        BY <1>1, <3>0, <3>2
      <4>2. k + 1 < j => kept[k + 1].end <= kept[j].start
        BY <1>1, <4>1
      <4>3. k + 1 = j => kept[k + 1].start = kept[j].start
        OBVIOUS
      <4>4. kept[j].start \in Nat /\ kept[k + 1].start \in Nat /\ kept[k + 1].end \in Nat
            /\ kept[k + 1].start < kept[k + 1].end
        BY <1>1, <4>1
      <4>5. i < kept[k + 1].start
        BY <1>3, <2>1, <4>1
      <4>6. k + 1 < j \/ k + 1 = j
        BY <3>0, <3>2
      <4> QED BY <2>1, <4>2, <4>3, <4>4, <4>5, <4>6
    <3> QED BY <1>1, <3>0, <3>1, <3>2
  <2>3. Slot(i) = <<Char(i)>>
    BY <2>1, <2>2, SlotIs DEF N
  <2>4. Slots[i + 1] = Slot((i + 1) - 1)
    BY <2>1, SlotsType DEF L
  <2> QED BY <2>1, <2>3, <2>4
<1>6. Slots \in Seq(Seq(Fragment)) /\ Len(Slots) = L
  BY SlotsType DEF L
<1>7. a \in 0 .. Len(Slots) /\ b \in a .. Len(Slots)
  BY <1>1, <1>2, <1>3, <1>4, <1>6
<1>8. RestOf(Slots, a) = Chars(a, b) \o RestOf(Slots, b)
  BY <1>5, <1>6, <1>7, RestOfChars
<1>9. a \in 0 .. L /\ b \in 0 .. L
  BY <1>1, <1>2, <1>3
<1> QED BY <1>8, <1>9 DEF a, b, L

(* From the start of a span on: its token, the text behind it, the rest.   *)
LEMMA FromSpan ==
    ASSUME KeptFit, NEW k \in 1 .. Len(kept)
    PROVE  /\ kept[k].start = CutAfter(k - 1)
           /\ RestOf(Slots, kept[k].start)
                 = <<Token(kept[k])>> \o Chars(kept[k].end, CutAfter(k)) \o RestOf(Slots, CutAfter(k))
<1> DEFINE a == kept[k].start
           b == kept[k].end
           c == CutAfter(k)
           u == <<Token(kept[k])>>
           v == Chars(b, c)
           r == RestOf(Slots, c)
<1>1. a \in Nat /\ b \in Nat /\ a < b /\ b <= Len(text) /\ Len(text) \in Nat /\ Len(kept) \in Nat
  BY KeptNumbers
<1>2. a = CutAfter(k - 1)
  <2>1. k - 1 # Len(kept) /\ (k - 1) + 1 = k
    BY <1>1
  <2> QED BY <2>1 DEF CutAfter
<1>3. Slots \in Seq(Seq(Fragment)) /\ Len(Slots) = Len(text)
      /\ \A n \in 1 .. Len(text) : Slots[n] = Slot(n - 1)
  BY SlotsType
<1>4. RestOf(Slots, b) = v \o r /\ c \in 0 .. Len(text) /\ b <= c
  <2>1. k \in 0 .. Len(kept) /\ k # 0
    BY <1>1
  <2>2. EndOf(k) = b
    BY <2>1 DEF EndOf
  <2>3. c \in 0 .. Len(text) /\ RestOf(Slots, b) = v \o r
    BY <2>1, <2>2, BetweenSpans
  <2>4. b <= c
    <3>1. CASE k = Len(kept)
      BY <1>1, <3>1 DEF CutAfter
    <3>2. CASE k < Len(kept)
      <4>1. kept[k].end <= kept[k + 1].start
        <5>1. k + 1 \in 1 .. Len(kept) /\ k < k + 1
          BY <1>1, <3>2
        <5> QED BY <5>1, KeptNumbers
      <4>2. c = kept[k + 1].start
        BY <3>2 DEF CutAfter
      <4> QED BY <4>1, <4>2
    <3> QED BY <1>1, <3>1, <3>2
  <2> QED BY <2>3, <2>4
<1>5. Slot(a) = u /\ \A i \in a + 1 .. b - 1 : Slot(i) = <<>>
  BY SlotIs
<1> HIDE DEF a, b, c
<1>6. a + 1 \in 1 .. Len(text) /\ a \in 0 .. Len(Slots) - 1 /\ a + 1 \in 0 .. Len(Slots)
      /\ b \in a + 1 .. Len(Slots) /\ b \in 0 .. Len(Slots) /\ c \in 0 .. Len(Slots)
  BY <1>1, <1>3, <1>4
<1>7. Slots[a + 1] = u
  <2>1. (a + 1) - 1 = a
    BY <1>1
  <2> QED BY <1>3, <1>5, <1>6, <2>1
<1>8. ASSUME NEW i \in a + 1 .. b - 1 PROVE Slots[i + 1] = <<>>
  <2>1. i + 1 \in 1 .. Len(text) /\ (i + 1) - 1 = i
    BY <1>1
  <2>2. Slots[i + 1] = Slot((i + 1) - 1)
    BY <1>3, <2>1
  <2> QED BY <1>5, <2>1, <2>2
<1>9. RestOf(Slots, a) = u \o RestOf(Slots, a + 1)
  BY <1>3, <1>6, <1>7, RestSteps
<1>10. RestOf(Slots, a + 1) = RestOf(Slots, b)
  BY <1>3, <1>6, <1>8, RestOfEmpty
<1>11. u \in Seq(Fragment) /\ v \in Seq(Fragment) /\ r \in Seq(Fragment)
  <2>1. Token(kept[k]) \in Fragment
    BY KeptNumbers DEF Token, Fragment
  <2>2. u \in Seq(Fragment)
    BY <2>1
  <2>3. c \in Nat
    BY <1>1, <1>4
  <2>4. v \in Seq(Fragment)
    BY <1>1, <1>4, <2>3, CharsAre
  <2>5. r \in Seq(Fragment)
    BY <1>3, <1>6, RestSteps
  <2> QED BY <2>2, <2>4, <2>5
<1> HIDE DEF u, v, r
<1>12. (u \o v) \o r = u \o (v \o r)
  BY <1>11, ConcatAssociative, SMTT(30)
<1>13. RestOf(Slots, a) = (u \o v) \o r
  BY <1>4, <1>9, <1>10, <1>12
<1> QED BY <1>2, <1>13 DEF a, b, c, u, v, r

-----------------------------------------------------------------------------
(* The inspection as a whole.                                              *)

\* the phases in which the spans are those of the original
Original == {"original", "outbound", "replace", "done"}

ViewInv ==
    /\ text \in Seq(Characters)
    /\ view \in {EmptyView, build_detection_view(text)}
    /\ phase \notin {"screen", "refused"} => view = build_detection_view(text)

KeptGiven == \A i \in DOMAIN kept : \E s \in spans : kept[i] = s

\* Every span was mapped from one that was found, fits and round-trips.
SpansMapped ==
    /\ found \in Seq(Span)
    /\ phase \in Original =>
          /\ \A f, g \in DOMAIN found : f < g => found[f].end <= found[g].start
          /\ \A f \in DOMAIN found : Mappable(found[f]) /\ verify_round_trip(found[f])
          /\ spans = {map_span(found[f]) : f \in DOMAIN found}

OutputInv ==
    /\ phase \notin {"replace", "done"} => left = 0 /\ cursor = 0 /\ fragments = <<>>
    /\ phase \in {"replace", "done"} => pending = {}
    /\ phase = "replace" =>
          /\ left \in 0 .. Len(kept) /\ cursor = CutAfter(left)
          /\ fragments = RestOf(Slots, cursor)
    /\ phase = "done" => left = 0 /\ cursor \in 0 .. Len(text) /\ fragments = Expected

\* The inductive invariant.
InspectionInv == ResolutionInv /\ ViewInv /\ KeptGiven /\ SpansMapped /\ OutputInv

-----------------------------------------------------------------------------
(* A span that was found, mapped.                                          *)
LEMMA MappedSpan ==
    ASSUME NEW s \in Span, Mappable(s)
    PROVE  /\ map_span(s) \in Span
           /\ map_span(s).start = OriginStart(s) /\ map_span(s).end = OriginEnd(s)
           /\ OriginStart(s) \in Nat /\ OriginEnd(s) \in Nat
           /\ OriginStart(s) < OriginEnd(s) /\ OriginEnd(s) <= Len(text)
           /\ s.end <= Len(view.text)
<1> DEFINE a == OriginStart(s)
           b == OriginEnd(s)
<1>1. a \in Nat /\ b \in Nat /\ a < b /\ b <= Len(text) /\ s.end <= Len(view.text)
  BY DEF Mappable
<1>2. map_span(s) = [s EXCEPT !.start = a, !.end = b]
  BY DEF map_span
<1> HIDE DEF a, b
<1>3. map_span(s) \in Span
  BY <1>1, <1>2 DEF Span
<1>4. map_span(s).start = a /\ map_span(s).end = b
  BY <1>2 DEF Span
<1> QED BY <1>1, <1>3, <1>4 DEF a, b

(* RebuildsWhole, for a span of the view of the text.                      *)
LEMMA RoundTripIsWhole ==
    ASSUME ViewInv, view = build_detection_view(text), NEW a \in Nat, NEW b \in Nat, a < b,
           b <= Len(view.text), NEW s, s.start = a, s.end = b
    PROVE  verify_round_trip(s) <=> WholeIn(build_detection_view(text), a, b)
<1> DEFINE w == build_detection_view(text)
           part == SubSeq(text, w.origins[a + 1][1] + 1, w.origins[b][2])
<1>1. b <= Len(w.text) /\ text \in Seq(Characters)
  BY DEF ViewInv
<1>2. build_detection_view(part).folded = SubSeq(w.folded, a + 1, b) <=> WholeIn(w, a, b)
  BY <1>1, RebuildsWhole
<1>3. view = w
  OBVIOUS
<1> HIDE DEF w
<1>4. OriginStart(s) = w.origins[a + 1][1] /\ OriginEnd(s) = w.origins[b][2]
  BY <1>3 DEF OriginStart, OriginEnd
<1>5. verify_round_trip(s) <=> build_detection_view(part).folded = SubSeq(w.folded, a + 1, b)
  BY <1>3, <1>4 DEF verify_round_trip
<1> QED BY <1>2, <1>5 DEF w

(* The mapped spans are apart, as those were from which they were mapped.  *)
LEMMA MappedApart ==
    ASSUME ViewInv, SpansMapped, phase \in Original, NEW d \in spans, NEW s \in spans, d # s
    PROVE  ~Overlap(d, s)
<1>1. view = build_detection_view(text)
  BY DEF ViewInv, Original
<1>2. PICK f \in DOMAIN found : d = map_span(found[f])
  BY DEF SpansMapped
<1>3. PICK g \in DOMAIN found : s = map_span(found[g])
  BY DEF SpansMapped
<1>4. ASSUME NEW x \in DOMAIN found, NEW y \in DOMAIN found, x < y
      PROVE  map_span(found[x]).end <= map_span(found[y]).start
  <2> DEFINE p == found[x]
             q == found[y]
  <2>1. p \in Span /\ q \in Span /\ Mappable(p) /\ Mappable(q)
        /\ verify_round_trip(p) /\ verify_round_trip(q) /\ p.end <= q.start
    BY <1>4 DEF SpansMapped
  <2> HIDE DEF p, q
  <2>2. /\ p.start \in Nat /\ p.end \in Nat /\ p.start < p.end
        /\ q.start \in Nat /\ q.end \in Nat /\ q.start < q.end
    BY <2>1 DEF Span
  <2>3. p.end <= Len(view.text) /\ q.end <= Len(view.text)
        /\ map_span(p).end = OriginEnd(p) /\ map_span(q).start = OriginStart(q)
    BY <2>1, MappedSpan
  <2>4. WholeIn(build_detection_view(text), p.start, p.end)
    BY <1>1, <2>1, <2>2, <2>3, RoundTripIsWhole
  <2>5. WholeIn(build_detection_view(text), q.start, q.end)
    BY <1>1, <2>1, <2>2, <2>3, RoundTripIsWhole
  <2>6. text \in Seq(Characters) /\ q.end <= Len(build_detection_view(text).text)
    BY <1>1, <2>3 DEF ViewInv
  <2>7. build_detection_view(text).origins[p.end][2]
           <= build_detection_view(text).origins[q.start + 1][1]
    BY <2>1, <2>2, <2>4, <2>5, <2>6, StretchesApart
  <2>8. OriginEnd(p) <= OriginStart(q)
    BY <1>1, <2>7 DEF OriginEnd, OriginStart
  <2> QED BY <2>3, <2>8 DEF p, q
<1>5. found[f] \in Span /\ Mappable(found[f]) /\ found[g] \in Span /\ Mappable(found[g])
  BY DEF SpansMapped
<1>6. /\ d.start \in Nat /\ d.end \in Nat /\ s.start \in Nat /\ s.end \in Nat
      /\ d.start < d.end /\ s.start < s.end
  <2>1. d \in Span /\ s \in Span
    BY <1>2, <1>3, <1>5, MappedSpan
  <2> QED BY <2>1 DEF Span
<1>7. f \in Nat /\ g \in Nat
  BY DEF SpansMapped
<1>8. f < g \/ g < f
  <2>1. f # g
    BY <1>2, <1>3
  <2> QED BY <1>7, <2>1
<1>9. f < g => d.end <= s.start
  BY <1>2, <1>3, <1>4
<1>10. g < f => s.end <= d.start
  BY <1>2, <1>3, <1>4
<1> QED BY <1>6, <1>8, <1>9, <1>10 DEF Overlap

(* The two later resolutions drop nothing.                                 *)
LEMMA AllKept ==
    ASSUME InspectionInv, phase \in Original, pending = {}
    PROVE  spans = {kept[i] : i \in DOMAIN kept}
<1>1. ASSUME NEW d \in spans PROVE \E i \in DOMAIN kept : kept[i] = d
  <2>1. PICK i \in DOMAIN kept : kept[i] = d \/ (Outranks(kept[i], d) /\ Overlap(kept[i], d))
    <3>1. phase \notin {"detect", "refused"} /\ d \in spans \ pending
      BY DEF Original
    <3> QED BY <3>1 DEF InspectionInv, ResolutionInv, DroppedForBetter
  <2>2. PICK s \in spans : kept[i] = s
    BY DEF InspectionInv, KeptGiven
  <2>3. s # d => ~Overlap(s, d)
    BY MappedApart DEF InspectionInv
  <2> QED BY <2>1, <2>2, <2>3
<1>2. \A i \in DOMAIN kept : kept[i] \in spans
  BY DEF InspectionInv, KeptGiven
<1> QED BY <1>1, <1>2

(* Spans of the original fit into it.                                      *)
LEMMA KeptFits ==
    ASSUME InspectionInv, phase \in Original
    PROVE  KeptFit
<1>1. ASSUME NEW i \in DOMAIN kept PROVE kept[i].end <= Len(text)
  <2>1. PICK s \in spans : kept[i] = s
    BY DEF InspectionInv, KeptGiven
  <2>2. PICK f \in DOMAIN found : s = map_span(found[f])
    BY DEF InspectionInv, SpansMapped
  <2>3. found[f] \in Span /\ Mappable(found[f])
    BY DEF InspectionInv, SpansMapped
  <2>4. map_span(found[f]).end <= Len(text)
    BY <2>3, MappedSpan
  <2> QED BY <2>1, <2>2, <2>4
<1>2. text \in Seq(Characters) /\ kept \in Seq(Span) /\ KeptAreApart
  BY DEF InspectionInv, ViewInv, ResolutionInv
<1> QED BY <1>1, <1>2 DEF KeptFit

(* The invariant holds of a text that is about to be screened.             *)
LEMMA InspectionBegins == ASSUME Init PROVE InspectionInv
<1>1. /\ phase = "screen" /\ view = EmptyView /\ spans = {} /\ kept = <<>> /\ found = <<>>
      /\ left = 0 /\ cursor = 0 /\ fragments = <<>>
  BY DEF Init
<1>2. text \in Seq(Characters)
  <2>1. PICK n \in 0 .. MaxLength : text \in [1 .. n -> Characters]
    BY DEF Init
  <2>2. n \in Nat
    BY InspectionAssumption
  <2> QED BY <2>1, <2>2
<1>3. <<>> \in Seq(Span) /\ DOMAIN <<>> = {}
  OBVIOUS
<1>4. ResolutionInv
  BY InitEstablishes
<1>5. ViewInv
  BY <1>1, <1>2 DEF ViewInv
<1>6. KeptGiven
  BY <1>1, <1>3 DEF KeptGiven
<1>7. SpansMapped
  BY <1>1, <1>3 DEF SpansMapped, Original
<1>8. OutputInv
  BY <1>1 DEF OutputInv
<1> QED BY <1>4, <1>5, <1>6, <1>7, <1>8 DEF InspectionInv

(* Steps that leave the text, the view and what was found alone.           *)
LEMMA ViewKeeps ==
    ASSUME ViewInv, text' = text, view' = view, phase' = "refused" \/ phase' # "screen",
           phase \in {"screen", "refused"} => phase' \in {"screen", "refused"}
    PROVE  ViewInv'
BY DEF ViewInv

(* Steps that find nothing and do not resolve in the original.             *)
LEMMA MappedKeeps ==
    ASSUME SpansMapped, text' = text, view' = view, found' = found,
           phase' \in Original => phase \in Original /\ spans' = spans
    PROVE  SpansMapped'
<1>1. found' \in Seq(Span)
  BY DEF SpansMapped
<1>2. ASSUME phase' \in Original
      PROVE  /\ (\A f, g \in DOMAIN found : f < g => found[f].end <= found[g].start)'
             /\ (\A f \in DOMAIN found : Mappable(found[f]) /\ verify_round_trip(found[f]))'
             /\ (spans = {map_span(found[f]) : f \in DOMAIN found})'
  <2>1. phase \in Original /\ spans' = spans
    BY <1>2
  <2>2. \A f, g \in DOMAIN found : f < g => found[f].end <= found[g].start
    BY <2>1 DEF SpansMapped
  <2>3. \A f \in DOMAIN found : Mappable(found[f]) /\ verify_round_trip(found[f])
    BY <2>1 DEF SpansMapped
  <2>4. spans = {map_span(found[f]) : f \in DOMAIN found}
    BY <2>1 DEF SpansMapped
  <2>5. (\A f, g \in DOMAIN found : f < g => found[f].end <= found[g].start)'
    BY <2>2
  <2>6. (\A f \in DOMAIN found : Mappable(found[f]) /\ verify_round_trip(found[f]))'
    BY <2>3 DEF Mappable, verify_round_trip, OriginStart, OriginEnd
  <2>7. (spans = {map_span(found[f]) : f \in DOMAIN found})'
    BY <2>1, <2>4, ZenonT(30) DEF map_span, OriginStart, OriginEnd
  <2> QED BY <2>5, <2>6, <2>7
<1> QED BY <1>1, <1>2 DEF SpansMapped

(* The slots are those of the text and of what is kept.                    *)
LEMMA SlotsKeep == ASSUME text' = text, kept' = kept PROVE Slots' = Slots /\ Expected' = Expected
<1>1. Slots' = Slots
  BY DEF Slots, Slot, Over, Char
<1>2. Expected' = Expected
  BY DEF Expected, Char
<1> QED BY <1>1, <1>2

(* Screening builds the view of the whole text, or refuses it.             *)
LEMMA ScreenKeeps == ASSUME InspectionInv, Screen PROVE InspectionInv'
<1>1. /\ phase = "screen" /\ phase' \in {"refused", "detect"}
      /\ phase' = "refused" => view' = view
      /\ phase' = "detect" => view' = build_detection_view(text)
      /\ text' = text /\ UNCHANGED resolution /\ found' = found /\ UNCHANGED output
  BY DEF Screen
<1>2. /\ spans' = spans /\ pending' = pending /\ kept' = kept
      /\ left' = left /\ cursor' = cursor /\ fragments' = fragments
  BY <1>1 DEF resolution, output
<1>3. ResolutionInv'
  BY <1>1, OtherStepsKeep DEF InspectionInv, Phases
<1>4. ViewInv'
  <2>1. text' \in Seq(Characters) /\ view \in {EmptyView, build_detection_view(text)}
    BY <1>1 DEF InspectionInv, ViewInv
  <2>2. EmptyView' = EmptyView
    BY DEF EmptyView
  <2>3. build_detection_view(text)' = build_detection_view(text)
    BY <1>1
  <2>4. view' \in {EmptyView, build_detection_view(text)}
    BY <1>1, <2>1
  <2>5. phase' \notin {"screen", "refused"} => view' = build_detection_view(text)
    BY <1>1
  <2> QED BY <2>1, <2>2, <2>3, <2>4, <2>5 DEF ViewInv
<1>5. KeptGiven'
  BY <1>2 DEF InspectionInv, KeptGiven
<1>6. SpansMapped'
  BY <1>1 DEF InspectionInv, SpansMapped, Original
<1>7. OutputInv'
  BY <1>1, <1>2 DEF InspectionInv, OutputInv
<1> QED BY <1>3, <1>4, <1>5, <1>6, <1>7 DEF InspectionInv

(* A detector adds a span.                                                 *)
LEMMA DetectKeeps == ASSUME InspectionInv, ResolutionInv', Detect PROVE InspectionInv'
<1>1. /\ phase = "detect" /\ phase' = phase /\ text' = text /\ view' = view /\ kept' = kept
      /\ spans \subseteq spans' /\ found' = found /\ UNCHANGED output
  BY DEF Detect
<1>2. left' = left /\ cursor' = cursor /\ fragments' = fragments
  BY <1>1 DEF output
<1>3. ViewInv'
  BY <1>1, ViewKeeps DEF InspectionInv
<1>4. KeptGiven'
  BY <1>1 DEF InspectionInv, KeptGiven
<1>5. SpansMapped'
  BY <1>1, MappedKeeps DEF InspectionInv, Original
<1>6. OutputInv'
  BY <1>1, <1>2 DEF InspectionInv, OutputInv
<1> QED BY <1>3, <1>4, <1>5, <1>6 DEF InspectionInv

\* a resolution of the view, or the end of the request
LEMMA DetectedKeeps ==
    ASSUME InspectionInv, ResolutionInv', Detected \/ DetectorFails PROVE InspectionInv'
<1>1. /\ phase = "detect" /\ phase' \in {"view", "refused"} /\ text' = text /\ view' = view
      /\ found' = found /\ UNCHANGED output
      /\ kept' = <<>> \/ (kept' = kept /\ spans' = spans)
  BY DEF Detected, DetectorFails, Begin, resolution
<1>2. left' = left /\ cursor' = cursor /\ fragments' = fragments
  BY <1>1 DEF output
<1>3. ViewInv'
  BY <1>1, ViewKeeps DEF InspectionInv
<1>4. KeptGiven'
  <2>1. CASE kept' = <<>>
    BY <2>1 DEF KeptGiven
  <2>2. CASE kept' = kept /\ spans' = spans
    BY <2>2 DEF InspectionInv, KeptGiven
  <2> QED BY <1>1, <2>1, <2>2
<1>5. SpansMapped'
  BY <1>1, MappedKeeps DEF InspectionInv, Original
<1>6. OutputInv'
  BY <1>1, <1>2 DEF InspectionInv, OutputInv
<1> QED BY <1>3, <1>4, <1>5, <1>6 DEF InspectionInv

(* Nothing is kept that was not given.                                     *)
LEMMA ConsiderStays ==
    ASSUME InspectionInv, ResolutionInv', NEW s \in pending, Consider(s) PROVE InspectionInv'
<1>1. /\ phase \in Resolutions /\ phase' = phase /\ text' = text /\ view' = view
      /\ spans' = spans /\ found' = found /\ UNCHANGED output
  BY DEF Consider
<1>2. left' = left /\ cursor' = cursor /\ fragments' = fragments
  BY <1>1 DEF output
<1>3. ViewInv'
  BY <1>1, ViewKeeps DEF InspectionInv, Resolutions
<1>4. KeptGiven'
  <2>1. PICK position \in 0 .. Len(kept) : kept' = kept \/ kept' = InsertedAt(s, position)
    BY DEF Consider
  <2>2. CASE kept' = kept
    BY <1>1, <2>2 DEF InspectionInv, KeptGiven
  <2>3. CASE kept' = InsertedAt(s, position)
    <3>1. s \in spans /\ kept \in Seq(Span)
      BY DEF InspectionInv, ResolutionInv
    <3>2. /\ \A i \in DOMAIN kept : \E g \in spans : kept[i] = g
          /\ DOMAIN kept = 1 .. Len(kept) /\ Len(kept) \in Nat
      BY <3>1 DEF InspectionInv, KeptGiven
    <3>3. ASSUME NEW i \in DOMAIN kept' PROVE \E g \in spans : kept'[i] = g
      <4>1. i \in 1 .. Len(kept) + 1 /\ i \in Nat
        BY <2>3, <3>2 DEF InsertedAt
      <4>2. kept'[i] = IF i <= position THEN kept[i] ELSE IF i = position + 1 THEN s ELSE kept[i - 1]
        BY <2>3, <4>1 DEF InsertedAt
      <4>3. CASE i <= position
        <5>1. i \in DOMAIN kept
          BY <3>2, <4>1, <4>3
        <5> QED BY <3>2, <4>2, <4>3, <5>1
      <4>4. CASE i = position + 1
        <5>1. ~(i <= position)
          BY <3>2, <4>4
        <5> QED BY <3>1, <4>2, <4>4, <5>1
      <4>5. CASE i > position + 1
        <5>1. i - 1 \in DOMAIN kept /\ ~(i <= position) /\ i # position + 1
          BY <3>2, <4>1, <4>5
        <5> QED BY <3>2, <4>2, <5>1
      <4> QED BY <3>2, <4>1, <4>3, <4>4, <4>5
    <3> QED BY <1>1, <3>3 DEF KeptGiven
  <2> QED BY <2>1, <2>2, <2>3
<1>5. SpansMapped'
  BY <1>1, MappedKeeps DEF InspectionInv
<1>6. OutputInv'
  BY <1>1, <1>2 DEF InspectionInv, OutputInv, Resolutions
<1> QED BY <1>3, <1>4, <1>5, <1>6 DEF InspectionInv

(* _map_to_original goes on only with spans that map and re-derive their   *)
(* match.                                                                  *)
LEMMA MapKeeps == ASSUME InspectionInv, ResolutionInv', Map PROVE InspectionInv'
<1>1. /\ phase = "view" /\ text' = text /\ view' = view /\ found' = kept /\ UNCHANGED output
      /\ phase' \in {"original", "refused"}
  BY DEF Map, Begin
<1>2. left' = left /\ cursor' = cursor /\ fragments' = fragments
  BY <1>1 DEF output
<1>3. ViewInv'
  BY <1>1, ViewKeeps DEF InspectionInv
<1>4. found' \in Seq(Span)
  BY <1>1 DEF InspectionInv, ResolutionInv
<1>5. OutputInv'
  BY <1>1, <1>2 DEF InspectionInv, OutputInv
<1>6. CASE \A i \in DOMAIN kept : Mappable(kept[i]) /\ verify_round_trip(kept[i])
  <2>1. /\ phase' = "original" /\ spans' = {map_span(kept[i]) : i \in DOMAIN kept} /\ kept' = <<>>
    BY <1>6 DEF Map, Begin
  <2>2. KeptGiven'
    BY <2>1 DEF KeptGiven
  <2>3. SpansMapped'
    <3>1. (\A f, g \in DOMAIN found : f < g => found[f].end <= found[g].start)'
      BY <1>1 DEF InspectionInv, ResolutionInv, KeptAreApart
    <3>2. (\A f \in DOMAIN found : Mappable(found[f]) /\ verify_round_trip(found[f]))'
      BY <1>1, <1>6 DEF Mappable, verify_round_trip, OriginStart, OriginEnd
    <3>3. (spans = {map_span(found[f]) : f \in DOMAIN found})'
      BY <1>1, <2>1 DEF map_span, OriginStart, OriginEnd
    <3> QED BY <1>4, <3>1, <3>2, <3>3 DEF SpansMapped
  <2> QED BY <1>3, <1>5, <2>2, <2>3 DEF InspectionInv
<1>7. CASE ~ \A i \in DOMAIN kept : Mappable(kept[i]) /\ verify_round_trip(kept[i])
  <2>1. phase' = "refused" /\ kept' = kept /\ spans' = spans
    BY <1>7 DEF Map, resolution
  <2>2. KeptGiven'
    BY <2>1 DEF InspectionInv, KeptGiven
  <2>3. SpansMapped'
    BY <1>4, <2>1 DEF SpansMapped, Original
  <2> QED BY <1>3, <1>5, <2>2, <2>3 DEF InspectionInv
<1> QED BY <1>6, <1>7

(* transform is given all the spans that were mapped, as none was dropped. *)
LEMMA TransformKeeps == ASSUME InspectionInv, ResolutionInv', Transform PROVE InspectionInv'
<1>1. /\ phase = "original" /\ pending = {} /\ phase' = "outbound" /\ text' = text /\ view' = view
      /\ found' = found /\ UNCHANGED output /\ kept' = <<>>
      /\ spans' = {kept[i] : i \in DOMAIN kept}
  BY DEF Transform, Begin
<1>2. left' = left /\ cursor' = cursor /\ fragments' = fragments
  BY <1>1 DEF output
<1>3. ViewInv'
  BY <1>1, ViewKeeps DEF InspectionInv
<1>4. KeptGiven'
  BY <1>1 DEF KeptGiven
<1>5. SpansMapped'
  <2>1. spans' = spans
    BY <1>1, AllKept DEF Original
  <2> QED BY <1>1, <2>1, MappedKeeps DEF InspectionInv, Original
<1>6. OutputInv'
  BY <1>1, <1>2 DEF InspectionInv, OutputInv
<1> QED BY <1>3, <1>4, <1>5, <1>6 DEF InspectionInv

\* steps of the assembly
LEMMA AssemblyKeeps ==
    ASSUME InspectionInv, ResolutionInv', OutputInv', text' = text, view' = view, found' = found,
           UNCHANGED resolution, phase \in Original, phase' \in Original
    PROVE  InspectionInv'
<1>1. spans' = spans /\ kept' = kept
  BY DEF resolution
<1>2. ViewInv'
  BY ViewKeeps DEF InspectionInv, Original
<1>3. KeptGiven'
  BY <1>1 DEF InspectionInv, KeptGiven
<1>4. SpansMapped'
  BY <1>1, MappedKeeps DEF InspectionInv
<1> QED BY <1>2, <1>3, <1>4 DEF InspectionInv

(* Assembly begins at the end of the text, with no fragment.               *)
LEMMA OrderedKeeps == ASSUME InspectionInv, ResolutionInv', Ordered PROVE InspectionInv'
<1>1. /\ phase = "outbound" /\ pending = {} /\ phase' = "replace" /\ left' = Len(kept)
      /\ cursor' = Len(text) /\ text' = text /\ view' = view /\ found' = found /\ fragments' = fragments
      /\ UNCHANGED resolution
  BY DEF Ordered
<1>2. pending' = pending /\ kept' = kept
  BY <1>1 DEF resolution
<1>3. KeptFit
  BY <1>1, KeptFits DEF Original
<1>4. fragments = <<>> /\ Slots' = Slots
  BY <1>1, <1>2, SlotsKeep DEF InspectionInv, OutputInv
<1>5. RestOf(Slots, Len(text)) = <<>>
  <2>1. Slots \in Seq(Seq(Fragment)) /\ Len(Slots) = Len(text)
    BY <1>3, SlotsType
  <2>2. RestOf(Slots, Len(Slots)) = <<>>
    BY <2>1, RestSteps
  <2> QED BY <2>1, <2>2
<1>6. left' \in 0 .. Len(kept') /\ cursor' = CutAfter(left)'
  <2>1. Len(kept) \in Nat
    BY <1>3, KeptNumbers
  <2> QED BY <1>1, <1>2, <2>1 DEF CutAfter
<1>7. fragments' = RestOf(Slots, cursor)'
  <2>1. RestOf(Slots, cursor)' = RestOf(Slots', cursor')
    BY DEF RestOf
  <2> QED BY <1>1, <1>4, <1>5, <2>1
<1>8. OutputInv'
  BY <1>1, <1>2, <1>6, <1>7 DEF OutputInv
<1> QED BY <1>1, <1>8, AssemblyKeeps DEF Original

(* The token and the text behind a span are put before what is there.      *)
LEMMA ReplaceKeeps == ASSUME InspectionInv, ResolutionInv', Replace PROVE InspectionInv'
<1>1. /\ phase = "replace" /\ left > 0 /\ fragments' = Replaced(kept[left])
      /\ cursor' = CursorAfter(kept[left]) /\ left' = left - 1 /\ phase' = phase
      /\ text' = text /\ view' = view /\ found' = found /\ UNCHANGED resolution
  BY DEF Replace
<1>2. pending' = pending /\ kept' = kept
  BY <1>1 DEF resolution
<1>3. KeptFit
  BY <1>1, KeptFits DEF Original
<1>4. /\ pending = {} /\ left \in 0 .. Len(kept) /\ cursor = CutAfter(left)
      /\ fragments = RestOf(Slots, cursor)
  BY <1>1 DEF InspectionInv, OutputInv
<1>5. left \in 1 .. Len(kept) /\ left - 1 \in 0 .. Len(kept) /\ Len(kept) \in Nat
  <2>1. Len(kept) \in Nat
    BY <1>3, KeptNumbers
  <2> QED BY <1>1, <1>4, <2>1
<1>6. /\ kept[left].start = CutAfter(left - 1)
      /\ RestOf(Slots, kept[left].start)
            = <<Token(kept[left])>> \o Chars(kept[left].end, CutAfter(left))
                  \o RestOf(Slots, CutAfter(left))
  BY <1>3, <1>5, FromSpan
<1>7. fragments' = RestOf(Slots, kept[left].start)
  BY <1>1, <1>4, <1>6 DEF Replaced
<1>8. Slots' = Slots
  BY <1>1, <1>2, SlotsKeep
<1>9. left' \in 0 .. Len(kept') /\ cursor' = CutAfter(left)'
  <2>1. CutAfter(left)' = CutAfter(left - 1)
    BY <1>1, <1>2 DEF CutAfter
  <2> QED BY <1>1, <1>2, <1>5, <1>6, <2>1 DEF CursorAfter
<1>10. fragments' = RestOf(Slots, cursor)'
  <2>1. RestOf(Slots, cursor)' = RestOf(Slots', cursor')
    BY DEF RestOf
  <2> QED BY <1>1, <1>7, <1>8, <2>1 DEF CursorAfter
<1>11. OutputInv'
  BY <1>1, <1>2, <1>4, <1>9, <1>10 DEF OutputInv
<1> QED BY <1>1, <1>11, AssemblyKeeps DEF Original

(* The text before the first span completes what goes out.                 *)
LEMMA AssembleKeeps == ASSUME InspectionInv, ResolutionInv', Assemble PROVE InspectionInv'
<1>1. /\ phase = "replace" /\ left = 0 /\ fragments' = Chars(0, cursor) \o fragments
      /\ phase' = "done" /\ text' = text /\ view' = view /\ found' = found
      /\ UNCHANGED resolution /\ left' = left /\ cursor' = cursor
  BY DEF Assemble
<1>2. pending' = pending /\ kept' = kept
  BY <1>1 DEF resolution
<1>3. KeptFit
  BY <1>1, KeptFits DEF Original
<1>4. pending = {} /\ cursor = CutAfter(left) /\ fragments = RestOf(Slots, cursor)
  BY <1>1 DEF InspectionInv, OutputInv
<1>5. 0 \in 0 .. Len(kept)
  <2>1. Len(kept) \in Nat
    BY <1>3, KeptNumbers
  <2> QED BY <2>1
<1>6. CutAfter(0) \in 0 .. Len(text)
      /\ RestOf(Slots, EndOf(0)) = Chars(EndOf(0), CutAfter(0)) \o RestOf(Slots, CutAfter(0))
  BY <1>3, <1>5, BetweenSpans
<1>7. fragments' = RestOf(Slots, 0)
  <2>1. EndOf(0) = 0
    BY DEF EndOf
  <2> QED BY <1>1, <1>4, <1>6, <2>1
<1>8. RestOf(Slots, 0) = Expected
  <2>1. Slots \in Seq(Seq(Fragment))
    BY <1>3, SlotsType
  <2>2. RestOf(Slots, 0) = FlattenSeq(Slots)
    BY <2>1, RestSteps
  <2> QED BY <2>2, ExpectedIsSlots
<1>9. fragments' = Expected'
  BY <1>1, <1>2, <1>7, <1>8, SlotsKeep
<1>10. OutputInv'
  BY <1>1, <1>2, <1>4, <1>6, <1>9 DEF OutputInv
<1> QED BY <1>1, <1>10, AssemblyKeeps DEF Original

(* A step that changes nothing.                                            *)
LEMMA StutterKeeps == ASSUME InspectionInv, ResolutionInv', UNCHANGED vars PROVE InspectionInv'
<1>1. /\ text' = text /\ phase' = phase /\ view' = view /\ found' = found
      /\ spans' = spans /\ pending' = pending /\ kept' = kept
      /\ left' = left /\ cursor' = cursor /\ fragments' = fragments
  BY DEF vars, resolution, output
<1>2. ViewInv'
  BY <1>1 DEF InspectionInv, ViewInv
<1>3. KeptGiven'
  BY <1>1 DEF InspectionInv, KeptGiven
<1>4. SpansMapped'
  BY <1>1, MappedKeeps DEF InspectionInv
<1>5. OutputInv'
  <2>1. Slots' = Slots /\ Expected' = Expected
    BY <1>1, SlotsKeep
  <2>2. CutAfter(left)' = CutAfter(left)
    BY <1>1 DEF CutAfter
  <2>3. RestOf(Slots, cursor)' = RestOf(Slots', cursor')
    BY DEF RestOf
  <2> QED BY <1>1, <2>1, <2>2, <2>3 DEF InspectionInv, OutputInv
<1> QED BY <1>2, <1>3, <1>4, <1>5 DEF InspectionInv

-----------------------------------------------------------------------------
(* The theorems of the inspection.                                         *)

(* Every step of the inspection keeps the invariant.                       *)
LEMMA InspectionKeeps ==
    ASSUME InspectionInv, [Next]_vars
    PROVE  InspectionInv'
<1>0. ResolutionInv'
  BY InspectionAssumption, NextKeeps DEF InspectionInv
<1>1. CASE Screen
  BY <1>1, ScreenKeeps
<1>2. CASE Detect
  BY <1>0, <1>2, DetectKeeps
<1>3. CASE Detected
  BY <1>0, <1>3, DetectedKeeps
<1>4. CASE DetectorFails
  BY <1>0, <1>4, DetectedKeeps
<1>5. CASE \E s \in pending : Consider(s)
  BY <1>0, <1>5, ConsiderStays
<1>6. CASE Map
  BY <1>0, <1>6, MapKeeps
<1>7. CASE Transform
  BY <1>0, <1>7, TransformKeeps
<1>8. CASE Ordered
  BY <1>0, <1>8, OrderedKeeps
<1>9. CASE Replace
  BY <1>0, <1>9, ReplaceKeeps
<1>10. CASE Assemble
  BY <1>0, <1>10, AssembleKeeps
<1>11. CASE UNCHANGED vars
  BY <1>0, <1>11, StutterKeeps
<1> QED
  BY <1>1, <1>2, <1>3, <1>4, <1>5, <1>6, <1>7, <1>8, <1>9, <1>10, <1>11 DEF Next

(* inspect_text and transform keep the invariant, for every text and       *)
(* whatever the detectors find: the view is that of the text, the spans    *)
(* that go on are those that were found and re-derived, none is dropped    *)
(* after that, and what is assembled is the end of what is expected.       *)
THEOREM InspectionInvariant == Spec => []InspectionInv
<1>1. Init => InspectionInv
  BY InspectionBegins
<1>2. InspectionInv /\ [Next]_vars => InspectionInv'
  BY InspectionKeeps
<1> QED BY <1>1, <1>2, PTL DEF Spec

(* verify_round_trip accepts a span exactly when it takes whole clusters,  *)
(* for every text over the classes and every span of its view.             *)
THEOREM RoundTripTakesWhole == Spec => []RoundTripMeansWhole
<1>1. InspectionInv => RoundTripMeansWhole
  <2> SUFFICES ASSUME InspectionInv, phase = "detect",
                      NEW a \in 0 .. Len(view.text), NEW b \in 0 .. Len(view.text), a < b
               PROVE  LET s == [start |-> a, end |-> b] IN verify_round_trip(s) <=> Whole(s)
    BY DEF RoundTripMeansWhole
  <2> DEFINE s == [start |-> a, end |-> b]
  <2>1. ViewInv /\ view = build_detection_view(text)
    BY DEF InspectionInv, ViewInv
  <2>2. a \in Nat /\ b \in Nat /\ b <= Len(view.text)
    <3>1. view.text \in Seq(Glyphs)
      <4>1. PICK k \in Nat : \E p, e : Tiles(text, k, p, e)
        BY <2>1, ViewIsTiled DEF ViewInv
      <4>2. PICK p, e : Tiles(text, k, p, e)
        BY <4>1
      <4> QED BY <2>1, <4>2 DEF Tiles
    <3> QED BY <3>1
  <2>3. s.start = a /\ s.end = b
    OBVIOUS
  <2> HIDE DEF s
  <2>4. verify_round_trip(s) <=> WholeIn(build_detection_view(text), a, b)
    BY <2>1, <2>2, <2>3, RoundTripIsWhole
  <2>5. Whole(s) <=> WholeIn(view, a, b)
    BY <2>3 DEF Whole, WholeIn
  <2>6. verify_round_trip(s) <=> Whole(s)
    BY <2>1, <2>4, <2>5
  <2> QED BY <2>6 DEF s
<1> QED BY <1>1, InspectionInvariant, PTL

(* What transform puts out is the text with one token for each span kept,  *)
(* and nothing else is lost, moved or repeated.                            *)
THEOREM OutboundStaysExact == Spec => []OutboundIsExact
<1>1. InspectionInv => OutboundIsExact
  BY DEF InspectionInv, OutputInv, OutboundIsExact
<1> QED BY <1>1, InspectionInvariant, PTL

(* No character that lies behind a span which the first resolution kept is *)
(* in the text that goes out, although the span is resolved twice more.    *)
THEOREM NothingKeptIsSent == Spec => []NothingKeptLeaks
<1>1. InspectionInv => NothingKeptLeaks
  <2> SUFFICES ASSUME InspectionInv, phase = "done", NEW f \in DOMAIN found,
                      NEW v \in found[f].start + 1 .. found[f].end,
                      NEW i \in view.origins[v][1] .. view.origins[v][2] - 1,
                      NEW x \in DOMAIN fragments, fragments[x] = Char(i)
               PROVE  FALSE
    BY DEF NothingKeptLeaks
  <2> DEFINE s == found[f]
             d == map_span(s)
             w == build_detection_view(text)
  <2>1. KeptFit
    BY KeptFits DEF Original
  <2>2. text \in Seq(Characters) /\ view = w
    BY DEF InspectionInv, ViewInv
  <2>3. s \in Span /\ Mappable(s) /\ d \in spans
    BY DEF InspectionInv, SpansMapped, Original
  <2>4. PICK k \in DOMAIN kept : kept[k] = d
    <3>1. pending = {}
      BY DEF InspectionInv, OutputInv
    <3>2. spans = {kept[j] : j \in DOMAIN kept}
      BY <3>1, AllKept DEF Original
    <3> QED BY <2>3, <3>2
  <2> HIDE DEF s, d
  <2>5. s.start \in Nat /\ s.end \in Nat /\ s.start < s.end
    BY <2>3 DEF Span
  <2>6. d.start = OriginStart(s) /\ d.end = OriginEnd(s) /\ s.end <= Len(view.text)
        /\ OriginStart(s) \in Nat /\ OriginEnd(s) \in Nat
    BY <2>3, MappedSpan DEF d
  <2>7. v \in s.start + 1 .. s.end
    BY DEF s
  <2>8. /\ w.origins[v][1] \in 0 .. Len(text) /\ w.origins[v][2] \in 0 .. Len(text)
        /\ w.origins[s.start + 1][1] <= w.origins[v][1]
        /\ w.origins[v][2] <= w.origins[s.end][2]
    <3>1. s.end <= Len(build_detection_view(text).text)
      BY <2>2, <2>6
    <3> QED BY <2>2, <2>5, <2>7, <3>1, StretchCovers
  <2>9. kept[k].start <= i /\ i < kept[k].end /\ i \in Nat
    <3>1. Len(text) \in Nat
      BY <2>2
    <3> DEFINE p == view.origins[v][1]
               q == view.origins[v][2]
    <3>2. OriginStart(s) <= p /\ q <= OriginEnd(s) /\ p \in 0 .. Len(text) /\ q \in 0 .. Len(text)
      BY <2>2, <2>8 DEF OriginStart, OriginEnd
    <3>3. i \in p .. q - 1
      OBVIOUS
    <3> HIDE DEF p, q
    <3> QED BY <2>4, <2>6, <3>1, <3>2, <3>3
  <2>10. fragments = FlattenSeq(Slots)
    BY ExpectedIsSlots DEF InspectionInv, OutputInv
  <2>11. Slots \in Seq(Seq(Fragment)) /\ Len(Slots) = Len(text)
         /\ \A n \in 1 .. Len(text) : Slots[n] = Slot(n - 1)
    BY <2>1, SlotsType
  <2>12. x \in 1 .. Len(FlattenSeq(Slots))
    <3>1. FlattenSeq(Slots) \in Seq(Fragment)
      BY <2>11, FlattenType
    <3> QED BY <2>10, <3>1
  <2>13. PICK c \in 1 .. Len(Slots) : Upto(Slots, c - 1) < x /\ x <= Upto(Slots, c)
    BY <2>11, <2>12, FlattenWhere
  <2>14. Len(Slots) \in Nat /\ Len(Slots[c]) \in Nat
         /\ Upto(Slots, c - 1) \in Nat /\ Upto(Slots, c) = Upto(Slots, c - 1) + Len(Slots[c])
    <3>1. c - 1 \in 0 .. Len(Slots) /\ Len(Slots) \in Nat
      BY <2>11
    <3>2. Slots[c] \in Seq(Fragment)
      BY <2>11
    <3>3. Upto(Slots, c - 1) \in Nat /\ Upto(Slots, c) = Upto(Slots, c - 1) + Len(Slots[c])
      BY <2>11, <3>1, UptoSteps
    <3> QED BY <3>1, <3>2, <3>3
  <2> DEFINE y == x - Upto(Slots, c - 1)
  <2>15. y \in 1 .. Len(Slots[c]) /\ Upto(Slots, c - 1) + y = x
    <3>1. x \in Int
      BY <2>12
    <3> QED BY <2>13, <2>14, <3>1
  <2> HIDE DEF y
  <2>16. FlattenSeq(Slots)[Upto(Slots, c - 1) + y] = Slots[c][y]
    BY <2>11, <2>15, FlattenAt
  <2>17. Slot(c - 1)[y] = Char(i) /\ y \in 1 .. Len(Slot(c - 1))
    BY <2>10, <2>11, <2>15, <2>16
  <2>18. Over(c - 1) # {}
    <3>1. CASE Over(c - 1) = {}
      <4>1. Slot(c - 1) = <<Char(c - 1)>>
        BY <3>1 DEF Slot
      <4>2. y = 1 /\ Char(c - 1) = Char(i)
        BY <2>17, <4>1
      <4>3. c - 1 = i
        BY <4>2 DEF Char
      <4>4. k \in Over(c - 1)
        BY <2>9, <4>3 DEF Over
      <4> QED BY <3>1, <4>4
    <3> QED BY <3>1
  <2>19. Slot(c - 1) = <<[token |-> TRUE, at |-> c - 1]>> \/ Slot(c - 1) = <<>>
    BY <2>18 DEF Slot
  <2>20. CASE Slot(c - 1) = <<>>
    BY <2>17, <2>20
  <2>21. CASE Slot(c - 1) = <<[token |-> TRUE, at |-> c - 1]>>
    <3>1. [token |-> TRUE, at |-> c - 1] = Char(i)
      BY <2>17, <2>21
    <3> QED BY <3>1 DEF Char
  <2> QED BY <2>19, <2>20, <2>21
<1> QED BY <1>1, InspectionInvariant, PTL

(* The variables have their types; the offset map covers the view and      *)
(* stays in the text.                                                      *)
THEOREM InspectionTypes == Spec => []TypeOK
<1>1. InspectionInv => TypeOK
  <2> SUFFICES ASSUME InspectionInv PROVE TypeOK
    OBVIOUS
  <2>1. /\ phase \in Phases /\ spans \subseteq Span /\ pending \subseteq spans
        /\ kept \in Seq(Span) /\ found \in Seq(Span) /\ text \in Seq(Characters)
    BY DEF InspectionInv, ResolutionInv, ViewInv, SpansMapped
  <2>2. left \in 0 .. Len(kept) /\ cursor \in 0 .. Len(text)
    <3>1. Len(kept) \in Nat /\ Len(text) \in Nat
      BY <2>1
    <3>2. CASE phase \notin {"replace", "done"}
      BY <3>1, <3>2 DEF InspectionInv, OutputInv
    <3>3. CASE phase = "replace"
      <4>1. left \in 0 .. Len(kept) /\ cursor = CutAfter(left)
        BY <3>3 DEF InspectionInv, OutputInv
      <4>2. KeptFit
        BY <3>3, KeptFits DEF Original
      <4> QED BY <4>1, <4>2, BetweenSpans
    <3>4. CASE phase = "done"
      BY <3>1, <3>4 DEF InspectionInv, OutputInv
    <3> QED BY <3>2, <3>3, <3>4
  <2>3. /\ Len(view.text) = Len(view.origins) /\ Len(view.folded) = Len(view.text)
        /\ \A i \in DOMAIN view.origins :
              view.origins[i][1] \in 0 .. Len(text) /\ view.origins[i][2] \in 0 .. Len(text)
    <3>1. CASE view = EmptyView
      <4>1. view.text = <<>> /\ view.origins = <<>> /\ view.folded = <<>>
        BY <3>1 DEF EmptyView
      <4> QED BY <4>1
    <3>2. CASE view = build_detection_view(text)
      <4> DEFINE w == build_detection_view(text)
      <4>1. PICK k \in Nat : \E p, e : Tiles(text, k, p, e)
        BY <2>1, ViewIsTiled
      <4>2. PICK p, e : Tiles(text, k, p, e)
        BY <4>1
      <4>3. /\ w.text \in Seq(Glyphs) /\ w.folded = Fold(w.text) /\ w.origins \in Seq(Nat \X Nat)
            /\ Len(w.origins) = Len(w.text)
        BY <4>2 DEF Tiles
      <4>4. Len(w.folded) = Len(w.text)
        <5> HIDE DEF w
        <5>1. Len(w.text) \in Nat /\ 0 \in 0 .. Len(w.text) /\ Len(w.text) \in 0 .. Len(w.text)
          BY <4>3
        <5> QED BY <4>3, <5>1, FoldOfPart
      <4>5. ASSUME NEW i \in DOMAIN w.origins
            PROVE  w.origins[i][1] \in 0 .. Len(text) /\ w.origins[i][2] \in 0 .. Len(text)
        <5>1. i \in 1 .. Len(w.text) /\ Len(w.text) \in Nat
          <6> HIDE DEF w
          <6> QED BY <4>3
        <5>2. i - 1 \in Nat /\ i \in Nat /\ i - 1 < i /\ i <= Len(w.text) /\ i \in (i - 1) + 1 .. i
          BY <5>1
        <5> QED BY <2>1, <5>2, StretchCovers
      <4> QED BY <3>2, <4>3, <4>4, <4>5
    <3> QED BY <3>1, <3>2 DEF InspectionInv, ViewInv
  <2> QED BY <2>1, <2>2, <2>3 DEF TypeOK, Phases
<1> QED BY <1>1, InspectionInvariant, PTL
=============================================================================
