---------------------------- MODULE StreamProofs ----------------------------
(***************************************************************************)
(* Streams, for every text, limit and provider.                            *)
(*                                                                         *)
(* First, executable output stays private (PrivateInv).  Then, what the    *)
(* client hears: the buffers of token text restore what they let go, so    *)
(* that a client that is told everything is where the machine is, but for  *)
(* the calls; a client that is told of nothing but the calls could follow  *)
(* what is held; and the two together are the client of the stream         *)
(* (StreamInv).                                                            *)
(*                                                                         *)
(* Facts about Restore, FlattenSeq and sums need induction.  They get it   *)
(* from the least element of a set of numbers (LeastNumber): the places    *)
(* where a fact fails.                                                     *)
(***************************************************************************)
EXTENDS StreamRestoration, SequenceTheorems, FiniteSetTheorems, FunctionTheorems,
        WellFoundedInduction, TLAPS

-----------------------------------------------------------------------------
(* Executable output stays private.                                        *)

Live == phase \in {"idle", "open", "stopping", "terminal"}

IsProse(i) == i \in Items => kind[i] = "prose"

(* While the upstream has not ended, what is under way to the client and   *)
(* what it has seen is prose; and a stream that failed says nothing more.  *)
PrivateInv ==
    /\ phase \in {"idle", "open", "stopping", "terminal", "ended", "failed"}
    /\ kind \in [Items -> {"none", "prose", "tool"}]
    /\ seen \in [Items -> {"hidden", "open", "done"}]
    /\ Live => /\ \E S : outbox \in Seq(S)
               /\ \A k \in DOMAIN outbox : IsProse(outbox[k].item)
               /\ \A i \in Items : seen[i] # "hidden" => kind[i] = "prose"
    /\ phase \in {"terminal", "ended"} => \A t \in Known : finished[t]
    /\ phase = "failed" => outbox = <<>>
    /\ ToolsArePrivate

(* One event, or two, of one item.                                         *)
LEMMA OneEvent ==
    ASSUME NEW type, NEW i, NEW p, NEW what
    PROVE  LET q == <<Say(type, i, p, what)>> IN
           /\ \E S : q \in Seq(S)
           /\ \A k \in DOMAIN q : q[k].item = i
<1> DEFINE e == Say(type, i, p, what)
<1>1. <<e>> \in Seq({e})
  OBVIOUS
<1>2. \A k \in DOMAIN <<e>> : <<e>>[k] = e
  OBVIOUS
<1>3. e.item = i
  BY DEF Say
<1> QED BY <1>1, <1>2, <1>3

LEMMA TwoEvents ==
    ASSUME NEW d, NEW e, NEW i, d.item = i, e.item = i
    PROVE  LET q == <<d>> \o <<e>> IN
           /\ \E S : q \in Seq(S)
           /\ \A k \in DOMAIN q : q[k].item = i
<1>1. <<d>> \in Seq({d, e}) /\ <<e>> \in Seq({d, e})
  OBVIOUS
<1>2. <<d>> \o <<e>> \in Seq({d, e})
  BY <1>1
<1>3. \A k \in DOMAIN (<<d>> \o <<e>>) : (<<d>> \o <<e>>)[k] \in {d, e}
  BY <1>2
<1> QED BY <1>2, <1>3

(* Feeding a part emits events of that part's item only.                   *)
LEMMA FedSaysItsItem ==
    ASSUME NEW s, NEW delta, NEW final, NEW type, NEW p, NEW what,
           \/ Fed(s, delta, final, <<>>)
           \/ Fed(s, delta, final, <<Say(type, s[1], p, what)>>)
    PROVE  /\ \E S : outbox' \in Seq(S)
           /\ \A k \in DOMAIN outbox' : outbox'[k].item = s[1]
           /\ UNCHANGED clientVars
<1> DEFINE f == Feed(suffix[s], delta, final)
           d == Say("delta", s[1], s[2], f.text)
           e == Say(type, s[1], p, what)
<1>1. UNCHANGED clientVars
  BY DEF Fed, Emit
<1>2. CASE outbox' = <<>> \o <<>> \/ outbox' = <<>>
  <2>1. outbox' = <<>>
    BY <1>2
  <2>2. <<>> \in Seq({}) /\ DOMAIN <<>> = {}
    OBVIOUS
  <2> QED BY <1>1, <2>1, <2>2
<1>3. CASE outbox' = <<d>> \o <<>> \/ outbox' = <<d>>
  <2>1. <<d>> \o <<>> = <<d>>
    <3>1. <<d>> \in Seq({d})
      OBVIOUS
    <3> QED BY <3>1
  <2>2. outbox' = <<d>>
    BY <1>3, <2>1
  <2> QED BY <1>1, <2>2, OneEvent
<1>4. CASE outbox' = <<>> \o <<e>> \/ outbox' = <<e>>
  <2>1. <<>> \o <<e>> = <<e>>
    <3>1. <<e>> \in Seq({e})
      OBVIOUS
    <3> QED BY <3>1
  <2>2. outbox' = <<e>>
    BY <1>4, <2>1
  <2> QED BY <1>1, <2>2, OneEvent
<1>5. CASE outbox' = <<d>> \o <<e>>
  <2>1. d.item = s[1] /\ e.item = s[1]
    BY DEF Say
  <2> HIDE DEF d, e
  <2> QED BY <1>1, <1>5, <2>1, TwoEvents
<1>6. \/ outbox' = <<>> \o <<>> \/ outbox' = <<d>> \o <<>>
      \/ outbox' = <<>> \o <<e>> \/ outbox' = <<d>> \o <<e>>
  BY DEF Fed, Emit
<1> QED BY <1>2, <1>3, <1>4, <1>5, <1>6

(* What a machine step has to show while the upstream is still there.      *)
LEMMA StillPrivate ==
    ASSUME PrivateInv, Live, Live', kind' = kind, UNCHANGED clientVars,
           \E S : outbox' \in Seq(S),
           \A k \in DOMAIN outbox' : IsProse(outbox'[k].item),
           phase' = "terminal" => \A t \in Known : finished'[t]
    PROVE  PrivateInv'
<1> USE DEF PrivateInv, Live, clientVars
<1>1. \A i \in Tools : seen[i] = "hidden"
  BY DEF Tools
<1>2. Tools' = Tools /\ Known' = Known /\ \A i : IsProse(i)' = IsProse(i)
  BY DEF Tools, Known, IsProse
<1>3. ToolsArePrivate'
  BY <1>1, <1>2 DEF ToolsArePrivate, Tools
<1> QED BY <1>2, <1>3

(* A step that holds its event says nothing.                               *)
LEMMA HoldsQuietly ==
    ASSUME PrivateInv, Live, phase' = phase, kind' = kind,
           UNCHANGED <<outbox, clientVars>>,
           phase = "terminal" => finished' = finished
    PROVE  PrivateInv'
<1>1. Live'
  BY DEF Live
<1>2. \E S : outbox' \in Seq(S)
  BY DEF PrivateInv
<1>3. \A k \in DOMAIN outbox' : IsProse(outbox'[k].item)
  BY DEF PrivateInv
<1>4. phase' = "terminal" => \A t \in Known : finished'[t]
  BY DEF PrivateInv
<1> QED BY <1>1, <1>2, <1>3, <1>4, StillPrivate

(* A step that sends events sends them about one item of prose, or none.   *)
LEMMA SpeaksOfProse ==
    ASSUME PrivateInv, phase = "open" \/ phase = "idle", phase' = "open", kind' = kind,
           UNCHANGED clientVars, NEW i, IsProse(i),
           \E S : outbox' \in Seq(S), \A k \in DOMAIN outbox' : outbox'[k].item = i
    PROVE  PrivateInv'
<1>1. Live /\ Live'
  BY DEF Live
<1> QED BY <1>1, StillPrivate

LEMMA ItemIsAnnounced ==
    ASSUME PrivateInv, NEW k \in {"prose", "tool"}, AddItem(k)
    PROVE  PrivateInv'
<1> USE DEF PrivateInv, Live
<1>1. PICK i \in Items \ Known :
        /\ kind' = [kind EXCEPT ![i] = k]
        /\ \/ k = "tool" /\ UNCHANGED <<outbox, clientVars>>
           \/ /\ k = "prose" /\ UNCHANGED clientVars
              /\ outbox' = <<Say("added", i, parts'[i], <<>>)>>
  BY DEF AddItem, Hold, Emit
<1>2. kind[i] = "none" /\ seen[i] = "hidden"
  BY <1>1 DEF Known, AddItem, Reads
<1>3. phase = "open" /\ phase' = "open" /\ outbox = <<>>
  BY DEF AddItem, Reads
<1>4. seen' = seen
  BY <1>1 DEF clientVars
<1>5. \A j \in Items : seen'[j] # "hidden" => kind'[j] = "prose"
  BY <1>1, <1>2, <1>3, <1>4
<1>6. /\ \E S : outbox' \in Seq(S)
      /\ (\A n \in DOMAIN outbox : IsProse(outbox[n].item))'
  <2>1. CASE k = "tool"
    BY <1>1, <1>3, <2>1 DEF IsProse
  <2>2. CASE k = "prose"
    <3>1. outbox' = <<Say("added", i, parts'[i], <<>>)>> /\ kind'[i] = "prose"
      BY <1>1, <2>2
    <3>2. /\ \E S : outbox' \in Seq(S)
          /\ \A n \in DOMAIN outbox' : outbox'[n].item = i
      BY <3>1, OneEvent
    <3> QED BY <3>1, <3>2 DEF IsProse
  <2> QED BY <2>1, <2>2
<1>7. ToolsArePrivate'
  BY <1>1, <1>5 DEF ToolsArePrivate, Tools
<1>8. kind' \in [Items -> {"none", "prose", "tool"}]
  BY <1>1
<1> QED BY <1>3, <1>4, <1>5, <1>6, <1>7, <1>8

LEMMA ClientStep ==
    ASSUME PrivateInv, Receive
    PROVE  PrivateInv'
<1> USE DEF PrivateInv, Live
<1> DEFINE e == Head(outbox)
<1>1. UNCHANGED machineVars /\ outbox # <<>> /\ outbox' = Tail(outbox)
  BY DEF Receive
<1>2. seen' = IF e.type = "added" THEN [seen EXCEPT ![e.item] = "open"]
              ELSE IF e.type \in {"item", "stop"} THEN [seen EXCEPT ![e.item] = "done"]
              ELSE seen
  BY DEF Receive
<1>3. seen' \in [Items -> {"hidden", "open", "done"}]
  BY <1>2
<1>4. phase' = phase /\ kind' = kind /\ finished' = finished
  BY <1>1 DEF machineVars
<1>5. Tools' = Tools /\ Known' = Known
  BY <1>4 DEF Tools, Known
<1>6. phase # "failed"
  BY <1>1
<1>7. CASE ~Live
  BY <1>3, <1>4, <1>5, <1>6, <1>7 DEF ToolsArePrivate
<1>8. CASE Live
  <2>1. PICK S : outbox \in Seq(S)
    BY <1>8
  <2>2. /\ outbox' \in Seq(S)
        /\ 1 \in DOMAIN outbox /\ e = outbox[1]
        /\ \A k \in DOMAIN outbox' : k + 1 \in DOMAIN outbox /\ outbox'[k] = outbox[k + 1]
    BY <1>1, <2>1
  <2>3. IsProse(e.item) /\ \A k \in DOMAIN outbox' : IsProse(outbox'[k].item)
    BY <1>8, <2>2
  <2> HIDE DEF e
  <2>4. \A i \in Items : seen'[i] # "hidden" => kind[i] = "prose"
    BY <1>2, <1>8, <2>3 DEF IsProse
  <2>5. ToolsArePrivate'
    BY <1>4, <2>4 DEF ToolsArePrivate, Tools
  <2>6. (\A k \in DOMAIN outbox : IsProse(outbox[k].item))'
    BY <1>4, <2>3 DEF IsProse
  <2>7. /\ (\E T : outbox \in Seq(T))'
        /\ (\A i \in Items : seen[i] # "hidden" => kind[i] = "prose")'
        /\ phase' \in {"terminal", "ended"} => \A t \in Known' : finished'[t]
        /\ phase' # "failed"
    BY <1>4, <1>5, <1>6, <2>2, <2>4
  <2> QED BY <1>3, <1>4, <2>5, <2>6, <2>7
<1> QED BY <1>7, <1>8

(* PrivateInv is inductive.                                                *)
THEOREM PrivacyInvariant == Spec => []PrivateInv
<1>1. Init => PrivateInv
  <2>1. <<>> \in Seq({}) /\ DOMAIN <<>> = {}
    OBVIOUS
  <2> SUFFICES ASSUME Init PROVE PrivateInv
    OBVIOUS
  <2>2. outbox = <<>> /\ phase = "idle" /\ \A i \in Items : kind[i] = "none" /\ seen[i] = "hidden"
    BY DEF Init
  <2>3. kind \in [Items -> {"none", "prose", "tool"}]
        /\ seen \in [Items -> {"hidden", "open", "done"}]
    BY DEF Init
  <2>4. ToolsArePrivate
    BY <2>2 DEF ToolsArePrivate, Tools
  <2>5. (\E S : outbox \in Seq(S)) /\ DOMAIN outbox = {}
    BY <2>1, <2>2
  <2> QED BY <2>2, <2>3, <2>4, <2>5 DEF PrivateInv
<1>2. PrivateInv /\ [Next]_vars => PrivateInv'
  <2> SUFFICES ASSUME PrivateInv, [Next]_vars PROVE PrivateInv'
    OBVIOUS
  <2>1. CASE Start
    <3>1. outbox' = <<Say("start", 0, 0, <<>>)>> /\ UNCHANGED clientVars
      BY <2>1 DEF Start, Emit
    <3>2. IsProse(0)
      BY DEF IsProse, Items
    <3>3. phase = "idle" /\ phase' = "open" /\ kind' = kind
      BY <2>1 DEF Start, Reads
    <3> QED BY <3>1, <3>2, <3>3, OneEvent, SpeaksOfProse
  <2>2. ASSUME NEW k \in {"prose", "tool"}, AddItem(k) PROVE PrivateInv'
    BY <2>2, ItemIsAnnounced
  <2>3. ASSUME NEW i \in Items, AddPart(i) PROVE PrivateInv'
    <3>1. outbox' = <<Say("part", i, parts[i] + 1, <<>>)>> /\ UNCHANGED clientVars
      BY <2>3 DEF AddPart, Emit
    <3>2. phase = "open" /\ phase' = "open" /\ kind' = kind /\ IsProse(i)
      BY <2>3 DEF AddPart, Reads, IsProse
    <3> QED BY <3>1, <3>2, OneEvent, SpeaksOfProse
  <2>4. ASSUME NEW s \in Slots, NEW delta \in Chunks, TextDelta(s, delta) PROVE PrivateInv'
    <3>1. phase = "open" /\ phase' = "open" /\ kind' = kind /\ IsProse(s[1])
      BY <2>4 DEF TextDelta, Reads, IsProse
    <3>2. Fed(s, delta, FALSE, <<>>)
      BY <2>4 DEF TextDelta
    <3> QED BY <3>1, <3>2, FedSaysItsItem, SpeaksOfProse
  <2>5. ASSUME NEW s \in Slots, TextDone(s) PROVE PrivateInv'
    <3>1. phase = "open" /\ phase' = "open" /\ kind' = kind /\ IsProse(s[1])
      BY <2>5 DEF TextDone, Reads, IsProse
    <3>2. Fed(s, <<>>, TRUE,
              <<Say("closed", s[1], s[2], text[s] \o Feed(suffix[s], <<>>, TRUE).text)>>)
      BY <2>5 DEF TextDone
    <3> QED BY <3>1, <3>2, FedSaysItsItem, SpeaksOfProse
  <2>6. ASSUME NEW s \in Slots, PartDone(s) PROVE PrivateInv'
    <3>1. outbox' = <<Say("done", s[1], s[2], text[s])>> /\ UNCHANGED clientVars
      BY <2>6 DEF PartDone, Emit
    <3>2. phase = "open" /\ phase' = "open" /\ kind' = kind /\ IsProse(s[1])
      BY <2>6 DEF PartDone, Reads, IsProse
    <3> QED BY <3>1, <3>2, OneEvent, SpeaksOfProse
  <2>7. ASSUME NEW i \in Items, NEW delta \in Chunks, ToolDelta(i, delta) PROVE PrivateInv'
    BY <2>7, HoldsQuietly DEF ToolDelta, Hold, Reads, Live
  <2>8. ASSUME NEW i \in Items, ArgumentsDone(i) PROVE PrivateInv'
    BY <2>8, HoldsQuietly DEF ArgumentsDone, Hold, Reads, Live
  <2>9. ASSUME NEW i \in Items, ItemDone(i) PROVE PrivateInv'
    <3>1. phase = "open" /\ phase' = "open" /\ kind' = kind
      BY <2>9 DEF ItemDone, Reads
    <3>2. CASE kind[i] = "tool"
      BY <2>9, <3>1, <3>2, HoldsQuietly DEF ItemDone, Hold, Live
    <3>3. CASE kind[i] # "tool"
      <4>1. outbox' = <<Say("item", i, 0, Snapshot(text, i))>> /\ UNCHANGED clientVars
        BY <2>9, <3>3 DEF ItemDone, Emit
      <4>2. IsProse(i)
        BY <2>9, <3>3 DEF ItemDone, IsProse, Known, PrivateInv
      <4> QED BY <3>1, <4>1, <4>2, OneEvent, SpeaksOfProse
    <3> QED BY <3>2, <3>3
  <2>10. ASSUME NEW i \in Items, BlockStop(i) PROVE PrivateInv'
    <3>1. phase = "open" /\ phase' = "open" /\ kind' = kind
      BY <2>10 DEF BlockStop, Reads
    <3>2. CASE kind[i] = "tool"
      BY <2>10, <3>1, <3>2, HoldsQuietly DEF BlockStop, Hold, Live
    <3>3. CASE kind[i] # "tool"
      <4>1. Fed(<<i, 1>>, <<>>, TRUE, <<Say("stop", i, 1, <<>>)>>) /\ <<i, 1>>[1] = i
        BY <2>10, <3>3 DEF BlockStop
      <4>2. IsProse(i)
        BY <2>10, <3>3 DEF BlockStop, IsProse, Known, PrivateInv
      <4>3. /\ \E S : outbox' \in Seq(S)
            /\ \A k \in DOMAIN outbox' : outbox'[k].item = i
            /\ UNCHANGED clientVars
        BY <4>1, FedSaysItsItem
      <4> QED BY <3>1, <4>2, <4>3, SpeaksOfProse
    <3> QED BY <3>2, <3>3
  <2>11. CASE MessageDelta
    <3>1. Live /\ Live' /\ phase' # "terminal" /\ kind' = kind /\ UNCHANGED <<outbox, clientVars>>
      BY <2>11 DEF MessageDelta, Reads, Live
    <3> QED BY <3>1, StillPrivate DEF PrivateInv
  <2>12. CASE Complete
    <3>1. /\ Live /\ Live' /\ kind' = kind /\ finished' = finished
          /\ UNCHANGED <<outbox, clientVars>> /\ \A t \in Known : finished[t]
      BY <2>12 DEF Complete, Reads, Live, KeepUntilEof
    <3> QED BY <3>1, StillPrivate DEF PrivateInv
  <2>13. CASE Eof
    <3>1. phase = "terminal" /\ phase' = "ended" /\ kind' = kind /\ finished' = finished
          /\ UNCHANGED clientVars
      BY <2>13 DEF Eof, Reads
    <3>2. Known' = Known /\ Tools' = Tools
      BY <3>1 DEF Known, Tools
    <3> QED BY <3>1, <3>2 DEF PrivateInv, Live, ToolsArePrivate, clientVars
  <2>14. CASE Fail \/ Disconnect
    <3>1. phase' = "failed" /\ kind' = kind /\ finished' = finished
          /\ UNCHANGED clientVars /\ outbox' = <<>>
      BY <2>14 DEF Fail, Disconnect
    <3>2. Known' = Known /\ Tools' = Tools
      BY <3>1 DEF Known, Tools
    <3> QED BY <3>1, <3>2 DEF PrivateInv, Live, ToolsArePrivate, clientVars
  <2>15. CASE Receive
    BY <2>15, ClientStep
  <2>16. CASE UNCHANGED vars
    BY <2>16 DEF vars, machineVars, clientVars, PrivateInv, Live, IsProse, ToolsArePrivate,
                 Tools, Known
  <2> QED
    BY <2>1, <2>2, <2>3, <2>4, <2>5, <2>6, <2>7, <2>8, <2>9, <2>10, <2>11, <2>12, <2>13,
       <2>14, <2>15, <2>16 DEF Next
<1> QED BY <1>1, <1>2, PTL DEF Spec

(* ADR-0019: "no argument fragment or completed executable call is         *)
(* released earlier" than the batch's success and the end of the upstream. *)
THEOREM ToolsStayPrivate == Spec => []ToolsArePrivate
<1>1. PrivateInv => ToolsArePrivate
  BY DEF PrivateInv
<1> QED BY <1>1, PrivacyInvariant, PTL

-----------------------------------------------------------------------------
(* Restoring a text is a scan from the left that skips over tokens.        *)

(* The least-number principle, for a set instead of a predicate.           *)
LEMMA LeastNumber ==
    ASSUME NEW T \in SUBSET Nat, T # {}
    PROVE  \E x \in T : \A y \in T : x <= y
<1> DEFINE R == {ss \in Nat \X Nat : ss[1] < ss[2]}
<1>1. IsWellFoundedOn(R, Nat)
  BY NatLessThanWellFounded DEF OpToRel
<1>2. PICK x \in T : \A y \in T : ~(<<y, x>> \in R)
  <2> HIDE DEF R
  <2> QED BY <1>1, WFMin
<1>3. \A y \in T : ~(y < x)
  BY <1>2
<1> QED BY <1>3

(* Strong induction from the end of an interval, for a set of positions.   *)
LEMMA FromTheEnd ==
    ASSUME NEW N \in Nat, NEW G,
           \A i \in 1 .. N : (\A j \in i + 1 .. N : j \in G) => i \in G
    PROVE  \A i \in 1 .. N : i \in G
<1> DEFINE T == {n \in 0 .. N - 1 : N - n \notin G}
<1>1. SUFFICES ASSUME T # {} PROVE FALSE
  <2> SUFFICES ASSUME NEW i \in 1 .. N, i \notin G PROVE FALSE
    OBVIOUS
  <2>1. N - i \in 0 .. N - 1 /\ N - (N - i) = i
    OBVIOUS
  <2>2. N - i \in T
    BY <2>1
  <2> QED BY <1>1, <2>2
<1>2. PICK n \in T : \A m \in T : n <= m
  <2>1. T \in SUBSET Nat
    OBVIOUS
  <2> HIDE DEF T
  <2> QED BY <1>1, <2>1, LeastNumber
<1>3. \A j \in N - n + 1 .. N : j \in G
  <2> SUFFICES ASSUME NEW j \in N - n + 1 .. N, j \notin G PROVE FALSE
    OBVIOUS
  <2>1. N - j \in 0 .. N - 1 /\ N - (N - j) = j /\ N - j < n
    BY <1>2
  <2>2. N - j \in T
    BY <2>1
  <2> QED BY <1>2, <2>1, <2>2
<1>4. N - n \in 1 .. N
  BY <1>2
<1> QED BY <1>2, <1>3, <1>4

(* One step of restore, with f for the rest of the text.                   *)
ScanStep(s, f, i) ==
    IF i > Len(s) THEN <<>>
    ELSE IF MintedAt(s, i) THEN <<Value>> \o f[i + MaxTokenLength]
    ELSE <<s[i]>> \o f[i + 1]

(* f restores s from every position that is at least a.                    *)
ScansFrom(s, f, a) == f = [i \in a .. Len(s) + 1 |-> ScanStep(s, f, i)]

(* A token found in a text ends inside it.                                 *)
LEMMA StepStaysInside ==
    ASSUME NEW s \in Seq(Characters), NEW i \in 1 .. Len(s), MintedAt(s, i)
    PROVE  i + MaxTokenLength \in i + 1 .. Len(s) + 1
BY WidthAssumption DEF MintedAt, MaxTokenLength

(* The scan is well defined: what is left gets shorter.                    *)
LEMMA ScanExists ==
    ASSUME NEW s \in Seq(Characters)
    PROVE  \E f : ScansFrom(s, f, 1)
<1> DEFINE N == Len(s) + 1
           T == {n \in 1 .. N : ~ \E f : ScansFrom(s, f, N + 1 - n)}
<1>0. N \in Nat /\ N >= 1
  OBVIOUS
<1>1. SUFFICES ASSUME T # {} PROVE FALSE
  <2>1. N \notin T
    BY <1>1
  <2>2. N \in 1 .. N
    BY <1>0
  <2> HIDE DEF N
  <2>3. \E f : ScansFrom(s, f, N + 1 - N)
    BY <2>1, <2>2
  <2> QED BY <2>3, <1>0
<1>2. PICK n \in T : \A m \in T : n <= m
  <2>1. T \in SUBSET Nat
    BY <1>0
  <2> HIDE DEF T
  <2> QED BY <1>1, <2>1, LeastNumber
<1> DEFINE a == N + 1 - n
<1>3. CASE n = 1
  <2> DEFINE f == [i \in {N} |-> <<>>]
  <2>1. a = N /\ N .. N = {N}
    BY <1>3, <1>0
  <2>2. ScanStep(s, f, N) = <<>>
    BY DEF ScanStep
  <2>3. f = [i \in N .. N |-> ScanStep(s, f, i)]
    BY <2>1, <2>2, <1>0
  <2>4. ScansFrom(s, f, a)
    BY <2>1, <2>3 DEF ScansFrom
  <2> QED BY <2>4
<1>4. CASE n # 1
  <2>1. n - 1 \in 1 .. N /\ n - 1 \notin T
    BY <1>4, <1>2, <1>0
  <2>2. N + 1 - (n - 1) = a + 1 /\ a \in 1 .. Len(s)
    BY <1>4, <1>0
  <2>3. PICK g : ScansFrom(s, g, a + 1)
    BY <2>1, <2>2
  <2> HIDE DEF a, N
  <2> DEFINE f == [i \in a .. Len(s) + 1 |-> IF i = a THEN ScanStep(s, g, a) ELSE g[i]]
  <2>4. \A i \in a + 1 .. Len(s) + 1 : f[i] = g[i]
    BY <2>2
  <2>5. \A i \in a .. Len(s) + 1 : ScanStep(s, f, i) = ScanStep(s, g, i)
    <3> TAKE i \in a .. Len(s) + 1
    <3>1. CASE i > Len(s)
      BY <3>1 DEF ScanStep
    <3>2. CASE i <= Len(s)
      <4>1. i \in 1 .. Len(s) /\ i + 1 \in a + 1 .. Len(s) + 1
        BY <2>2, <3>2
      <4>2. MintedAt(s, i) => i + MaxTokenLength \in a + 1 .. Len(s) + 1
        BY <4>1, <2>2, StepStaysInside
      <4>3. f[i + 1] = g[i + 1] /\ (MintedAt(s, i) => f[i + MaxTokenLength] = g[i + MaxTokenLength])
        BY <2>4, <4>1, <4>2
      <4> HIDE DEF f
      <4> QED BY <3>2, <4>3 DEF ScanStep
    <3> QED BY <3>1, <3>2, <2>2
  <2>6. \A i \in a + 1 .. Len(s) + 1 : g[i] = ScanStep(s, g, i)
    BY <2>3 DEF ScansFrom
  <2>7. \A i \in a .. Len(s) + 1 : f[i] = ScanStep(s, f, i)
    <3> SUFFICES ASSUME NEW i \in a .. Len(s) + 1 PROVE f[i] = ScanStep(s, g, i)
      BY <2>5
    <3> QED BY <2>6, <2>2
  <2>8. f = [i \in a .. Len(s) + 1 |-> ScanStep(s, f, i)]
    <3> HIDE DEF f
    <3>1. DOMAIN f = a .. Len(s) + 1 /\ f = [i \in DOMAIN f |-> f[i]]
      BY DEF f
    <3> QED BY <3>1, <2>7
  <2>9. ScansFrom(s, f, a)
    BY <2>8 DEF ScansFrom
  <2> QED BY <2>9, <1>2 DEF a
<1> QED BY <1>3, <1>4

(* Restore is what such a scan finds from the first character on.          *)
LEMMA RestoreIsScan ==
    ASSUME NEW s \in Seq(Characters)
    PROVE  \E f : ScansFrom(s, f, 1) /\ Restore(s) = f[1]
<1> DEFINE f == CHOOSE g : g = [i \in 1 .. Len(s) + 1 |->
                     IF i > Len(s) THEN <<>>
                     ELSE IF MintedAt(s, i) THEN <<Value>> \o g[i + MaxTokenLength]
                     ELSE <<s[i]>> \o g[i + 1]]
<1>1. Restore(s) = f[1]
  BY DEF Restore
<1>2. \E g : g = [i \in 1 .. Len(s) + 1 |->
                     IF i > Len(s) THEN <<>>
                     ELSE IF MintedAt(s, i) THEN <<Value>> \o g[i + MaxTokenLength]
                     ELSE <<s[i]>> \o g[i + 1]]
  BY ScanExists DEF ScansFrom, ScanStep
<1>3. f = [i \in 1 .. Len(s) + 1 |->
                     IF i > Len(s) THEN <<>>
                     ELSE IF MintedAt(s, i) THEN <<Value>> \o f[i + MaxTokenLength]
                     ELSE <<s[i]>> \o f[i + 1]]
  <2> QED BY <1>2
<1>4. ScansFrom(s, f, 1)
  BY <1>3 DEF ScansFrom, ScanStep
<1> QED BY <1>1, <1>4

(* What a scan yields is made of characters and values.                    *)
LEMMA ScanType ==
    ASSUME NEW s \in Seq(Characters), NEW f, ScansFrom(s, f, 1)
    PROVE  \A i \in 1 .. Len(s) + 1 : f[i] \in Seq(Outputs)
<1> DEFINE N == Len(s) + 1
           G == {i \in 1 .. N : f[i] \in Seq(Outputs)}
<1>1. \A i \in 1 .. N : (\A j \in i + 1 .. N : j \in G) => i \in G
  <2> SUFFICES ASSUME NEW i \in 1 .. N, \A j \in i + 1 .. N : f[j] \in Seq(Outputs)
               PROVE  f[i] \in Seq(Outputs)
    OBVIOUS
  <2>1. f[i] = ScanStep(s, f, i)
    BY DEF ScansFrom
  <2>2. CASE i > Len(s)
    BY <2>1, <2>2 DEF ScanStep
  <2>3. CASE i <= Len(s)
    <3>1. i \in 1 .. Len(s) /\ s[i] \in Characters
      BY <2>3
    <3>2. f[i + 1] \in Seq(Outputs)
      BY <3>1
    <3>3. MintedAt(s, i) => f[i + MaxTokenLength] \in Seq(Outputs)
      BY <3>1, StepStaysInside
    <3>4. <<Value>> \in Seq(Outputs) /\ <<s[i]>> \in Seq(Outputs)
      BY <3>1 DEF Outputs
    <3> QED BY <2>1, <2>3, <3>2, <3>3, <3>4 DEF ScanStep
  <2> QED BY <2>2, <2>3
<1>2. N \in Nat
  OBVIOUS
<1> HIDE DEF G, N
<1>3. \A i \in 1 .. N : i \in G
  BY <1>1, <1>2, FromTheEnd
<1> QED BY <1>3 DEF G, N

(* A character of a text that is put together of two.                      *)
LEMMA CharacterOfJoined ==
    ASSUME NEW u \in Seq(Characters), NEW v \in Seq(Characters)
    PROVE  /\ u \o v \in Seq(Characters)
           /\ Len(u \o v) = Len(u) + Len(v)
           /\ \A i \in 1 .. Len(u) : (u \o v)[i] = u[i]
           /\ \A i \in 1 .. Len(v) : (u \o v)[Len(u) + i] = v[i]
OBVIOUS

(* No minted token of the joined text lies across the seam.                *)
Splits(u, v) == \A i \in 1 .. Len(u) : MintedAt(u \o v, i) => i + Width + 1 <= Len(u)

(* The token that starts at i, its body and its bracket.                   *)
LEMMA MintedMeans ==
    ASSUME NEW s, NEW i \in Int
    PROVE  MintedAt(s, i) <=>
             /\ i + Width + 1 <= Len(s) /\ s[i] = "<" /\ s[i + Width + 1] = ">"
             /\ \A k \in i + 1 .. i + Width : s[k] = "m"
<1>1. i + Width + 1 - 1 = i + Width /\ (i + Width) - (i + 1) < Width
  BY WidthAssumption
<1>2. IsBody(s, i + 1, i + Width + 1 - 1) <=> \A k \in i + 1 .. i + Width : s[k] = "m"
  BY <1>1 DEF IsBody
<1>3. MintedAt(s, i) <=>
        /\ i + Width + 1 <= Len(s) /\ s[i] = "<" /\ s[i + Width + 1] = ">"
        /\ IsBody(s, i + 1, i + Width + 1 - 1)
  BY WidthAssumption DEF MintedAt
<1> QED BY <1>2, <1>3, Zenon

(* A token is found in the first part as in the whole.                     *)
LEMMA MintedBefore ==
    ASSUME NEW u \in Seq(Characters), NEW v \in Seq(Characters), NEW i \in 1 .. Len(u),
           i + Width + 1 <= Len(u)
    PROVE  MintedAt(u \o v, i) <=> MintedAt(u, i)
<1> DEFINE t == u \o v
<1>1. Len(t) = Len(u) + Len(v) /\ \A k \in 1 .. Len(u) : t[k] = u[k]
  BY CharacterOfJoined
<1> HIDE DEF t
<1>2. t[i] = u[i] /\ t[i + Width + 1] = u[i + Width + 1]
  BY <1>1, WidthAssumption
<1>3. \A k \in i + 1 .. i + Width : t[k] = u[k]
  BY <1>1, WidthAssumption
<1> QED BY <1>1, <1>2, <1>3, WidthAssumption DEF MintedAt, IsBody, t

(* A token is found in the second part as in the whole.                    *)
LEMMA MintedAfter ==
    ASSUME NEW u \in Seq(Characters), NEW v \in Seq(Characters), NEW i \in 1 .. Len(v)
    PROVE  MintedAt(u \o v, Len(u) + i) <=> MintedAt(v, i)
<1> DEFINE t == u \o v
           n == Len(u)
<1>0. n \in Nat
  OBVIOUS
<1>1. Len(t) = n + Len(v) /\ \A k \in 1 .. Len(v) : t[n + k] = v[k]
  BY CharacterOfJoined
<1> HIDE DEF t, n
<1>2. n + i + Width + 1 <= Len(t) <=> i + Width + 1 <= Len(v)
  BY <1>0, <1>1, WidthAssumption
<1>3. ASSUME i + Width + 1 <= Len(v)
      PROVE  /\ t[n + i] = v[i] /\ t[n + i + Width + 1] = v[i + Width + 1]
             /\ (\A k \in n + i + 1 .. n + i + Width : t[k] = "m")
                  <=> (\A k \in i + 1 .. i + Width : v[k] = "m")
  <2>1. t[n + i] = v[i] /\ t[n + (i + Width + 1)] = v[i + Width + 1]
    BY <1>1, <1>3, WidthAssumption
  <2>2. n + (i + Width + 1) = n + i + Width + 1
    BY <1>0, WidthAssumption
  <2>3. \A k \in i + 1 .. i + Width : n + k \in n + i + 1 .. n + i + Width /\ t[n + k] = v[k]
    BY <1>0, <1>1, <1>3, WidthAssumption
  <2>4. \A k \in n + i + 1 .. n + i + Width : k - n \in i + 1 .. i + Width /\ n + (k - n) = k
    BY <1>0, WidthAssumption
  <2>5. \A k \in n + i + 1 .. n + i + Width : t[k] = v[k - n]
    BY <2>3, <2>4
  <2>6. (\A k \in n + i + 1 .. n + i + Width : t[k] = "m")
           => (\A k \in i + 1 .. i + Width : v[k] = "m")
    BY <2>3
  <2>7. (\A k \in i + 1 .. i + Width : v[k] = "m")
           => (\A k \in n + i + 1 .. n + i + Width : t[k] = "m")
    BY <2>4, <2>5
  <2> QED BY <2>1, <2>2, <2>6, <2>7
<1>4. MintedAt(t, n + i) <=>
        /\ n + i + Width + 1 <= Len(t) /\ t[n + i] = "<" /\ t[n + i + Width + 1] = ">"
        /\ \A k \in n + i + 1 .. n + i + Width : t[k] = "m"
  BY <1>0, MintedMeans
<1>5. MintedAt(v, i) <=>
        /\ i + Width + 1 <= Len(v) /\ v[i] = "<" /\ v[i + Width + 1] = ">"
        /\ \A k \in i + 1 .. i + Width : v[k] = "m"
  BY MintedMeans
<1>6. MintedAt(t, n + i) <=> MintedAt(v, i)
  BY <1>2, <1>3, <1>4, <1>5
<1> QED BY <1>6 DEF t, n

(* Joining restored texts is associative.                                  *)
LEMMA OutputsAssociate ==
    ASSUME NEW a \in Seq(Outputs), NEW b \in Seq(Outputs), NEW c \in Seq(Outputs)
    PROVE  (a \o b) \o c = a \o (b \o c)
BY ConcatAssociative

(* Restoring a text that no token crosses is restoring its parts.          *)
THEOREM RestoreSplits ==
    ASSUME NEW u \in Seq(Characters), NEW v \in Seq(Characters), Splits(u, v)
    PROVE  Restore(u \o v) = Restore(u) \o Restore(v)
<1> DEFINE t == u \o v
           n == Len(u)
           m == Len(v)
<1>0. n \in Nat /\ m \in Nat /\ t \in Seq(Characters) /\ Len(t) = n + m
  BY CharacterOfJoined
<1>1. PICK f : ScansFrom(t, f, 1) /\ Restore(t) = f[1]
  BY <1>0, RestoreIsScan
<1>2. PICK g : ScansFrom(u, g, 1) /\ Restore(u) = g[1]
  BY RestoreIsScan
<1>3. PICK h : ScansFrom(v, h, 1) /\ Restore(v) = h[1]
  BY RestoreIsScan
<1>4. /\ \A i \in 1 .. n + m + 1 : f[i] = ScanStep(t, f, i)
      /\ \A i \in 1 .. n + 1 : g[i] = ScanStep(u, g, i)
      /\ \A i \in 1 .. m + 1 : h[i] = ScanStep(v, h, i)
  BY <1>0, <1>1, <1>2, <1>3 DEF ScansFrom
<1>5. /\ \A i \in 1 .. n : t[i] = u[i]
      /\ \A i \in 1 .. m : t[n + i] = v[i]
  BY CharacterOfJoined
<1>6. \A i \in 1 .. m + 1 : f[n + i] = h[i]
  <2> DEFINE G == {i \in 1 .. m + 1 : f[n + i] = h[i]}
  <2>1. \A i \in 1 .. m + 1 : (\A j \in i + 1 .. m + 1 : j \in G) => i \in G
    <3> SUFFICES ASSUME NEW i \in 1 .. m + 1, \A j \in i + 1 .. m + 1 : f[n + j] = h[j]
                 PROVE  f[n + i] = h[i]
      OBVIOUS
    <3> HIDE DEF t, n, m
    <3>0. n + i \in 1 .. n + m + 1
      BY <1>0
    <3>1. f[n + i] = ScanStep(t, f, n + i) /\ h[i] = ScanStep(v, h, i)
      BY <1>4, <3>0
    <3>2. CASE i = m + 1
      <4>1. n + i > Len(t) /\ i > Len(v)
        BY <1>0, <3>2 DEF m
      <4> QED BY <3>1, <4>1 DEF ScanStep
    <3>3. CASE i # m + 1
      <4>1. i \in 1 .. m /\ i \in 1 .. Len(v) /\ ~(n + i > Len(t)) /\ ~(i > Len(v))
        BY <1>0, <3>3 DEF m
      <4>2. MintedAt(t, n + i) <=> MintedAt(v, i)
        BY <4>1, MintedAfter DEF t, n
      <4>3. i + 1 \in i + 1 .. m + 1 /\ (n + i) + 1 = n + (i + 1)
        BY <1>0, <4>1
      <4>4. f[(n + i) + 1] = h[i + 1]
        BY <4>3
      <4>5. MintedAt(v, i) => f[(n + i) + MaxTokenLength] = h[i + MaxTokenLength]
        <5> SUFFICES ASSUME MintedAt(v, i) PROVE f[(n + i) + MaxTokenLength] = h[i + MaxTokenLength]
          OBVIOUS
        <5>1. i + MaxTokenLength \in i + 1 .. m + 1
          BY <4>1, StepStaysInside DEF m
        <5>2. (n + i) + MaxTokenLength = n + (i + MaxTokenLength)
          BY <1>0, WidthAssumption DEF MaxTokenLength
        <5> QED BY <5>1, <5>2
      <4>6. t[n + i] = v[i]
        BY <1>5, <4>1
      <4> QED BY <3>1, <4>1, <4>2, <4>4, <4>5, <4>6 DEF ScanStep
    <3> QED BY <3>2, <3>3
  <2> HIDE DEF G, m
  <2>2. \A i \in 1 .. m + 1 : i \in G
    <3>1. m + 1 \in Nat
      BY <1>0
    <3> QED BY <2>1, <3>1, FromTheEnd
  <2> QED BY <2>2 DEF G
<1>7. /\ \A i \in 1 .. n + 1 : g[i] \in Seq(Outputs)
      /\ \A i \in 1 .. m + 1 : h[i] \in Seq(Outputs)
  BY <1>2, <1>3, ScanType
<1>8. \A i \in 1 .. n + 1 : f[i] = g[i] \o h[1]
  <2> DEFINE G == {i \in 1 .. n + 1 : f[i] = g[i] \o h[1]}
  <2>1. \A i \in 1 .. n + 1 : (\A j \in i + 1 .. n + 1 : j \in G) => i \in G
    <3> SUFFICES ASSUME NEW i \in 1 .. n + 1, \A j \in i + 1 .. n + 1 : f[j] = g[j] \o h[1]
                 PROVE  f[i] = g[i] \o h[1]
      OBVIOUS
    <3> HIDE DEF t, n, m
    <3>0. h[1] \in Seq(Outputs) /\ i \in 1 .. n + m + 1
      BY <1>0, <1>7
    <3>1. f[i] = ScanStep(t, f, i) /\ g[i] = ScanStep(u, g, i)
      BY <1>4, <3>0
    <3>2. CASE i = n + 1
      <4>1. g[i] = <<>>
        <5>1. i > Len(u)
          BY <1>0, <3>2 DEF n
        <5> QED BY <3>1, <5>1 DEF ScanStep
      <4>2. f[n + 1] = h[1]
        BY <1>0, <1>6
      <4>3. <<>> \o h[1] = h[1]
        BY <3>0
      <4> QED BY <3>2, <4>1, <4>2, <4>3
    <3>3. CASE i # n + 1
      <4>1. i \in 1 .. n /\ i \in 1 .. Len(u) /\ ~(i > Len(t)) /\ ~(i > Len(u))
        BY <1>0, <3>3 DEF n
      <4>2. t[i] = u[i] /\ u[i] \in Characters
        BY <1>5, <4>1
      <4>3. MintedAt(t, i) <=> MintedAt(u, i)
        <5>1. CASE i + Width + 1 <= Len(u)
          BY <4>1, <5>1, MintedBefore DEF t
        <5>2. CASE ~(i + Width + 1 <= Len(u))
          BY <4>1, <5>2 DEF Splits, MintedAt, t
        <5> QED BY <5>1, <5>2
      <4>4. f[i + 1] = g[i + 1] \o h[1] /\ g[i + 1] \in Seq(Outputs)
        <5>1. i + 1 \in i + 1 .. n + 1 /\ i + 1 \in 1 .. n + 1
          BY <1>0, <4>1
        <5> QED BY <1>7, <5>1
      <4>5. CASE MintedAt(u, i)
        <5>1. i + MaxTokenLength \in i + 1 .. n + 1
          BY <4>1, <4>5, StepStaysInside DEF n
        <5>2. i + MaxTokenLength \in 1 .. n + 1
          BY <5>1, <4>1, <1>0
        <5> DEFINE rest == g[i + MaxTokenLength]
        <5>3. f[i + MaxTokenLength] = rest \o h[1] /\ rest \in Seq(Outputs)
          BY <1>7, <5>1, <5>2
        <5>4. f[i] = <<Value>> \o (rest \o h[1]) /\ g[i] = <<Value>> \o rest
          BY <3>1, <4>1, <4>3, <4>5, <5>3 DEF ScanStep
        <5>5. <<Value>> \in Seq(Outputs)
          BY DEF Outputs
        <5> DEFINE one == <<Value>>
        <5> HIDE DEF rest, one
        <5>6. (one \o rest) \o h[1] = one \o (rest \o h[1])
          BY <3>0, <5>3, <5>5, OutputsAssociate DEF one
        <5> QED BY <5>3, <5>4, <5>6 DEF one
      <4>6. CASE ~MintedAt(u, i)
        <5>1. f[i] = <<u[i]>> \o (g[i + 1] \o h[1]) /\ g[i] = <<u[i]>> \o g[i + 1]
          BY <3>1, <4>1, <4>2, <4>3, <4>4, <4>6 DEF ScanStep
        <5>2. <<u[i]>> \in Seq(Outputs)
          BY <4>2 DEF Outputs
        <5> DEFINE one == <<u[i]>>
                   rest == g[i + 1]
        <5> HIDE DEF one, rest
        <5>3. (one \o rest) \o h[1] = one \o (rest \o h[1])
          BY <3>0, <4>4, <5>2, OutputsAssociate DEF one, rest
        <5> QED BY <5>1, <5>3 DEF one, rest
      <4> QED BY <4>5, <4>6
    <3> QED BY <3>2, <3>3
  <2> HIDE DEF G, n
  <2>2. \A i \in 1 .. n + 1 : i \in G
    <3>1. n + 1 \in Nat
      BY <1>0
    <3> QED BY <2>1, <3>1, FromTheEnd
  <2> QED BY <2>2 DEF G
<1>9. f[1] = g[1] \o h[1]
  <2>1. 1 \in 1 .. n + 1
    BY <1>0
  <2> HIDE DEF n
  <2> QED BY <1>8, <2>1
<1> QED BY <1>1, <1>2, <1>3, <1>9

-----------------------------------------------------------------------------
(* A part's buffer: what is let go, and the suffix that is kept.           *)

(* However the text goes on, no token of it crosses from u into the rest.  *)
Clean(u, v) == \A w \in Seq(Characters) : Splits(u, v \o w)

(* Joining texts is associative.                                           *)
LEMMA TextsAssociate ==
    ASSUME NEW a \in Seq(Characters), NEW b \in Seq(Characters), NEW c \in Seq(Characters)
    PROVE  (a \o b) \o c = a \o (b \o c)
BY ConcatAssociative

(* A text cut in two is made of its two pieces.                            *)
LEMMA CutText ==
    ASSUME NEW t \in Seq(Characters), NEW n \in 0 .. Len(t)
    PROVE  LET a == SubSeq(t, 1, n)
               b == SubSeq(t, n + 1, Len(t))
           IN /\ a \in Seq(Characters) /\ b \in Seq(Characters)
              /\ Len(a) = n /\ Len(b) = Len(t) - n
              /\ \A i \in 1 .. n : a[i] = t[i]
              /\ \A i \in 1 .. Len(t) - n : b[i] = t[n + i]
              /\ a \o b = t
<1> DEFINE a == SubSeq(t, 1, n)
           b == SubSeq(t, n + 1, Len(t))
<1>1. a \in Seq(Characters) /\ Len(a) = n /\ \A i \in 1 .. n : a[i] = t[i]
  BY SubSeqProperties
<1>2. b \in Seq(Characters) /\ Len(b) = Len(t) - n /\ \A i \in 1 .. Len(t) - n : b[i] = t[n + i]
  OBVIOUS
<1>3. a \o b = t
  <2> HIDE DEF a, b
  <2>1. a \o b \in Seq(Characters) /\ Len(a \o b) = Len(t)
    BY <1>1, <1>2
  <2>2. \A i \in 1 .. Len(t) : (a \o b)[i] = t[i]
    <3> TAKE i \in 1 .. Len(t)
    <3>1. CASE i <= n
      BY <1>1, <1>2, <3>1
    <3>2. CASE i > n
      <4>1. i - n \in 1 .. Len(t) - n /\ n + (i - n) = i
        BY <3>2
      <4>2. (a \o b)[i] = b[i - n]
        BY <1>1, <1>2, <3>2, ConcatProperties
      <4> QED BY <1>2, <4>1, <4>2
    <3>3. i <= n \/ i > n
      OBVIOUS
    <3> QED BY <3>1, <3>2, <3>3
  <2> QED BY <2>1, <2>2, SeqEqual
<1> QED BY <1>1, <1>2, <1>3

(* What splits a longer text splits a shorter one.                         *)
LEMMA SplitsPrefix ==
    ASSUME NEW u \in Seq(Characters), NEW v \in Seq(Characters), NEW w \in Seq(Characters),
           Splits(u, v \o w)
    PROVE  Splits(u, v)
<1> SUFFICES ASSUME NEW i \in 1 .. Len(u), MintedAt(u \o v, i)
             PROVE  i + Width + 1 <= Len(u)
  BY DEF Splits
<1> DEFINE t == u \o v
<1>1. t \in Seq(Characters) /\ Len(t) = Len(u) + Len(v) /\ i \in 1 .. Len(t)
  BY CharacterOfJoined
<1>2. i + Width + 1 <= Len(t)
  BY WidthAssumption DEF MintedAt
<1>3. MintedAt(t \o w, i)
  <2> HIDE DEF t
  <2>1. MintedAt(t, i)
    BY DEF t
  <2> QED BY <1>1, <1>2, <2>1, MintedBefore
<1>4. t \o w = u \o (v \o w)
  BY TextsAssociate
<1> QED BY <1>3, <1>4 DEF Splits

(* A bracket that opens is never inside a token.                           *)
LEMMA SplitsAtBracket ==
    ASSUME NEW u \in Seq(Characters), NEW v \in Seq(Characters), v # <<>>, v[1] = "<"
    PROVE  Splits(u, v)
<1> SUFFICES ASSUME NEW i \in 1 .. Len(u), MintedAt(u \o v, i), ~(i + Width + 1 <= Len(u))
             PROVE  FALSE
  BY DEF Splits
<1> DEFINE t == u \o v
           n == Len(u)
<1>1. t[n + 1] = "<"
  BY CharacterOfJoined
<1>2. n + 1 \in i + 1 .. i + Width + 1
  BY WidthAssumption
<1>3. t[i + Width + 1] = ">" /\ \A k \in i + 1 .. i + Width : t[k] = "m"
  <2>1. MintedAt(t, i) /\ i \in Int
    OBVIOUS
  <2> HIDE DEF t
  <2> QED BY <2>1, MintedMeans
<1> HIDE DEF t, n
<1>4. CASE n + 1 = i + Width + 1
  BY <1>1, <1>3, <1>4
<1>5. CASE n + 1 \in i + 1 .. i + Width
  BY <1>1, <1>3, <1>5
<1> QED BY <1>2, <1>4, <1>5, WidthAssumption

(* The bracket that feed looks at is the last one close enough to the end. *)
LEMMA LastBracketIsLast ==
    ASSUME NEW t \in Seq(Characters)
    PROVE  /\ LastBracket(t) \in 0 .. Len(t)
           /\ LastBracket(t) > 0 => t[LastBracket(t)] = "<"
           /\ \A j \in 1 .. Len(t) : j > Len(t) - MaxTokenLength /\ t[j] = "<"
                 => LastBracket(t) >= j
<1> DEFINE starts == {k \in 1 .. Len(t) : k > Len(t) - MaxTokenLength /\ t[k] = "<"}
           k == LastBracket(t)
<1>1. CASE starts = {}
  BY <1>1 DEF LastBracket
<1>2. CASE starts # {}
  <2> DEFINE T == {Len(t) - j : j \in starts}
  <2>1. T \in SUBSET Nat /\ T # {}
    BY <1>2
  <2>2. PICK x \in T : \A y \in T : x <= y
    <3> HIDE DEF T
    <3> QED BY <2>1, LeastNumber
  <2>3. \E j \in starts : \A l \in starts : l <= j
    <3>1. PICK j \in starts : x = Len(t) - j
      BY <2>2
    <3>2. \A l \in starts : l <= j
      <4> TAKE l \in starts
      <4>1. Len(t) - l \in T
        OBVIOUS
      <4>2. Len(t) - j <= Len(t) - l
        BY <2>2, <3>1, <4>1
      <4> QED BY <4>2
    <3> QED BY <3>2
  <2>4. k = CHOOSE j \in starts : \A l \in starts : l <= j
    BY <1>2 DEF LastBracket
  <2>5. k \in starts /\ \A l \in starts : l <= k
    <3> HIDE DEF starts, k
    <3> QED BY <2>3, <2>4
  <2> QED BY <2>5
<1> QED BY <1>1, <1>2

(* What feed lets go, and what it keeps.                                   *)
LEMMA ReleasedInside ==
    ASSUME NEW t \in Seq(Characters), NEW final \in BOOLEAN
    PROVE  /\ Released(t, final) \in 0 .. Len(t)
           /\ Len(t) - Released(t, final) < MaxTokenLength
           /\ final => Released(t, final) = Len(t)
           /\ Released(t, final) < Len(t) => t[Released(t, final) + 1] = "<"
<1> DEFINE k == LastBracket(t)
           n == Released(t, final)
<1>1. k \in 0 .. Len(t) /\ (k > 0 => t[k] = "<")
  BY LastBracketIsLast
<1>2. \/ n = Len(t)
      \/ ~final /\ k > 0 /\ PossiblePrefix(SubSeq(t, k, Len(t))) /\ n = k - 1
  BY DEF Released
<1>3. CASE n = Len(t)
  BY <1>3, WidthAssumption DEF MaxTokenLength
<1>4. CASE ~final /\ k > 0 /\ PossiblePrefix(SubSeq(t, k, Len(t))) /\ n = k - 1
  <2>1. Len(SubSeq(t, k, Len(t))) = Len(t) - k + 1
    BY <1>1, <1>4, SubSeqProperties
  <2>2. Len(t) - n < MaxTokenLength
    BY <1>1, <1>4, <2>1, WidthAssumption DEF PossiblePrefix, MaxTokenLength
  <2> HIDE DEF n, k
  <2> QED BY <1>1, <1>4, <2>2 DEF n
<1> QED BY <1>2, <1>3, <1>4

(* A text that ends in the beginning of a token: all of that is kept.      *)
LEMMA DanglingIsKept ==
    ASSUME NEW t \in Seq(Characters), NEW i \in 1 .. Len(t), t[i] = "<",
           \A j \in i + 1 .. Len(t) : t[j] = "m", Len(t) <= i + Width
    PROVE  Released(t, FALSE) = i - 1
<1> DEFINE k == LastBracket(t)
           tail == SubSeq(t, i, Len(t))
<1>0. Len(t) \in Nat /\ i \in Nat /\ 1 <= i /\ i <= Len(t)
  OBVIOUS
<1>1. i > Len(t) - MaxTokenLength
  BY WidthAssumption DEF MaxTokenLength
<1>2. k >= i /\ k \in 0 .. Len(t) /\ (k > 0 => t[k] = "<")
  BY <1>1, LastBracketIsLast
<1>3. k = i
  <2> HIDE DEF k
  <2>1. k > i => k \in i + 1 .. Len(t)
    BY <1>0, <1>2
  <2>2. ~(k > i)
    BY <1>0, <1>2, <2>1
  <2> QED BY <1>0, <1>2, <2>2
<1>4. Len(tail) = Len(t) - i + 1 /\ \A j \in 1 .. Len(t) - i + 1 : tail[j] = t[i + j - 1]
  <2>1. \A j \in i .. Len(t) : t[j] \in Characters
    BY <1>0
  <2> QED BY <1>0, <2>1, SubSeqProperties
<1>5. PossiblePrefix(tail)
  <2> HIDE DEF tail, k
  <2>1. Len(tail) < MaxTokenLength
    BY <1>4, WidthAssumption DEF MaxTokenLength
  <2>2. tail[1] = "<"
    <3>1. 1 \in 1 .. Len(t) - i + 1 /\ i + 1 - 1 = i
      BY <1>0
    <3> QED BY <1>4, <3>1
  <2>3. \A j \in 2 .. Len(tail) : tail[j] = "m"
    <3> TAKE j \in 2 .. Len(tail)
    <3>1. i + j - 1 \in i + 1 .. Len(t) /\ j \in 1 .. Len(t) - i + 1
      BY <1>0, <1>4
    <3> QED BY <1>4, <3>1
  <2>4. Len(tail) - 2 < Width
    BY <1>0, <1>4, WidthAssumption
  <2> QED BY <2>1, <2>2, <2>3, <2>4 DEF PossiblePrefix, IsBody
<1> QED BY <1>0, <1>3, <1>5 DEF Released

(* Nothing is let go that may still become a token.                        *)
LEMMA NothingDangles ==
    ASSUME NEW t \in Seq(Characters), NEW w \in Seq(Characters),
           Released(t, FALSE) = Len(t), NEW i \in 1 .. Len(t), MintedAt(t \o w, i)
    PROVE  i + Width + 1 <= Len(t)
<1> DEFINE x == t \o w
<1>0. Len(t) \in Nat /\ i \in Nat /\ 1 <= i /\ i <= Len(t)
  OBVIOUS
<1>1. \A j \in 1 .. Len(t) : x[j] = t[j]
  BY CharacterOfJoined
<1>2. x[i] = "<" /\ \A j \in i + 1 .. i + Width : x[j] = "m"
  <2>1. MintedAt(x, i) /\ i \in Int
    OBVIOUS
  <2> HIDE DEF x
  <2> QED BY <2>1, MintedMeans
<1> HIDE DEF x
<1>3. ASSUME Len(t) <= i + Width
      PROVE  t[i] = "<" /\ \A j \in i + 1 .. Len(t) : t[j] = "m"
  <2>1. \A j \in i + 1 .. Len(t) : j \in i + 1 .. i + Width /\ j \in 1 .. Len(t)
    BY <1>0, <1>3, WidthAssumption
  <2> QED BY <1>1, <1>2, <2>1
<1>4. Len(t) <= i + Width => Released(t, FALSE) = i - 1
  BY <1>3, DanglingIsKept
<1>5. Len(t) # i - 1
  BY <1>0
<1>6. ~(Len(t) <= i + Width)
  BY <1>4, <1>5, Zenon
<1>7. Len(t) \in Nat /\ i \in Nat /\ Width \in Nat /\ ~(Len(t) <= i + Width) => i + Width + 1 <= Len(t)
  OBVIOUS
<1> QED BY <1>0, <1>6, <1>7, WidthAssumption, Zenon

(* IncrementalRestorer.feed: what is let go restores like the text so far, *)
(* and no token crosses into what is kept.                                 *)
THEOREM FeedRestores ==
    ASSUME NEW u \in Seq(Characters), NEW kept \in Seq(Characters),
           NEW delta \in Seq(Characters), Clean(u, kept)
    PROVE  LET f == Feed(kept, delta, FALSE)
               t == kept \o delta
               out == SubSeq(t, 1, Released(t, FALSE))
           IN /\ out \in Seq(Characters) /\ f.suffix \in Seq(Characters)
              /\ Len(f.suffix) < MaxTokenLength
              /\ (u \o out) \o f.suffix = (u \o kept) \o delta
              /\ f.text = Restore(out)
              /\ Restore(u \o out) = Restore(u) \o f.text
              /\ Clean(u \o out, f.suffix)
<1> DEFINE f == Feed(kept, delta, FALSE)
           t == kept \o delta
           n == Released(t, FALSE)
           out == SubSeq(t, 1, n)
           rest == SubSeq(t, n + 1, Len(t))
<1>1. t \in Seq(Characters)
  OBVIOUS
<1>2. n \in 0 .. Len(t) /\ Len(t) - n < MaxTokenLength /\ (n < Len(t) => t[n + 1] = "<")
  BY <1>1, ReleasedInside
<1>3. f.text = Restore(out) /\ f.suffix = rest
  BY DEF Feed
<1>4. /\ out \in Seq(Characters) /\ rest \in Seq(Characters) /\ out \o rest = t
      /\ Len(out) = n /\ Len(rest) = Len(t) - n
      /\ \A i \in 1 .. Len(t) - n : rest[i] = t[n + i]
  <2> HIDE DEF t, n
  <2> QED BY <1>1, <1>2, CutText
<1>5. (u \o out) \o rest = (u \o kept) \o delta
  <2>1. (u \o out) \o rest = u \o (out \o rest)
    <3> HIDE DEF out, rest
    <3> QED BY <1>4, TextsAssociate
  <2>2. (u \o kept) \o delta = u \o t
    BY TextsAssociate
  <2> QED BY <1>4, <2>1, <2>2
<1>6. Restore(u \o out) = Restore(u) \o Restore(out)
  <2>1. Splits(u, out \o rest)
    BY <1>4 DEF Clean
  <2> HIDE DEF out, rest
  <2>2. Splits(u, out)
    BY <1>4, <2>1, SplitsPrefix
  <2> QED BY <1>4, <2>2, RestoreSplits
<1>7. Clean(u \o out, rest)
  <2> SUFFICES ASSUME NEW w \in Seq(Characters) PROVE Splits(u \o out, rest \o w)
    BY DEF Clean
  <2>1. CASE n < Len(t)
    <3> HIDE DEF n, t, out, rest
    <3>1. 1 \in 1 .. Len(rest) /\ rest[1] = "<" /\ rest # <<>>
      BY <1>2, <1>4, <2>1
    <3>2. (rest \o w)[1] = "<" /\ rest \o w # <<>> /\ rest \o w \in Seq(Characters)
      BY <1>4, <3>1
    <3>3. u \o out \in Seq(Characters)
      BY <1>4
    <3> QED BY <3>2, <3>3, SplitsAtBracket
  <2>2. CASE n = Len(t)
    <3>1. rest = <<>> /\ out = t
      <4> HIDE DEF n, t, out, rest
      <4>1. rest = <<>>
        BY <1>2, <1>4, <2>2
      <4> QED BY <1>4, <4>1
    <3>2. rest \o w = w
      <4> HIDE DEF rest
      <4> QED BY <3>1
    <3>3. Splits(u, t \o w)
      <4>1. delta \o w \in Seq(Characters) /\ t \o w = kept \o (delta \o w)
        BY TextsAssociate
      <4> QED BY <4>1 DEF Clean
    <3>4. \A i \in 1 .. Len(u \o t) :
            MintedAt((u \o t) \o w, i) => i + Width + 1 <= Len(u \o t)
      <4> HIDE DEF t
      <4> TAKE i \in 1 .. Len(u \o t)
      <4>0. (u \o t) \o w = u \o (t \o w) /\ t \o w \in Seq(Characters)
             /\ Len(u \o t) = Len(u) + Len(t)
        <5>1. (u \o t) \o w = u \o (t \o w)
          BY <1>1, TextsAssociate
        <5>2. t \o w \in Seq(Characters)
          BY <1>1
        <5>3. Len(u \o t) = Len(u) + Len(t)
          BY <1>1
        <5> QED BY <5>1, <5>2, <5>3
      <4> SUFFICES ASSUME MintedAt(u \o (t \o w), i)
                   PROVE  i + Width + 1 <= Len(u) + Len(t)
        BY <4>0
      <4>1. CASE i <= Len(u)
        <5>1. i + Width + 1 <= Len(u)
          BY <3>3, <4>1 DEF Splits
        <5> QED BY <1>1, <5>1, WidthAssumption
      <4>2. CASE i > Len(u)
        <5> DEFINE j == i - Len(u)
        <5>1. j \in 1 .. Len(t) /\ Len(u) + j = i
          BY <1>1, <4>0, <4>2
        <5> HIDE DEF j
        <5>2. j \in 1 .. Len(t \o w)
          BY <1>1, <5>1
        <5>3. MintedAt(t \o w, j)
          BY <4>0, <5>1, <5>2, MintedAfter
        <5>4. j + Width + 1 <= Len(t)
          BY <1>1, <2>2, <5>1, <5>3, NothingDangles DEF t
        <5> QED BY <1>1, <5>1, <5>4, WidthAssumption
      <4> QED BY <4>1, <4>2
    <3>5. Splits(u \o t, w)
      BY <3>4 DEF Splits
    <3> QED BY <3>1, <3>2, <3>5
  <2>3. n < Len(t) \/ n = Len(t)
    <3> HIDE DEF n, t
    <3> QED BY <1>2
  <2> QED BY <2>1, <2>2, <2>3
<1>8. Len(rest) < MaxTokenLength
  <2> HIDE DEF rest, t, n
  <2> QED BY <1>2, <1>4
<1> QED BY <1>3, <1>4, <1>5, <1>6, <1>7, <1>8

(* The last feed lets everything go.                                       *)
THEOREM FlushRestores ==
    ASSUME NEW u \in Seq(Characters), NEW kept \in Seq(Characters), Clean(u, kept)
    PROVE  LET f == Feed(kept, <<>>, TRUE)
           IN /\ f.suffix = <<>>
              /\ f.text = Restore(kept)
              /\ Restore(u \o kept) = Restore(u) \o f.text
<1> DEFINE f == Feed(kept, <<>>, TRUE)
<1>1. kept \o <<>> = kept
  OBVIOUS
<1>2. Released(kept, TRUE) = Len(kept)
  BY ReleasedInside
<1>3. SubSeq(kept, 1, Len(kept)) = kept /\ SubSeq(kept, Len(kept) + 1, Len(kept)) = <<>>
  BY SubSeqFull, SubSeqEmpty
<1>4. f.text = Restore(kept) /\ f.suffix = <<>>
  BY <1>1, <1>2, <1>3 DEF Feed
<1>5. Splits(u, kept)
  <2>1. <<>> \in Seq(Characters)
    OBVIOUS
  <2> QED BY <1>1, <2>1 DEF Clean
<1> QED BY <1>4, <1>5, RestoreSplits

-----------------------------------------------------------------------------
(* Sums over finite sets.                                                  *)

(* Sums over finite sets.  The fold takes one chosen element at a time.    *)
Pick(T) == CHOOSE x \in T : TRUE
SumStep(F, it, T) == IF T = {} THEN 0 ELSE F[Pick(T)] + it[T \ {Pick(T)}]
Adds(F, S, it) == it = [T \in SUBSET S |-> SumStep(F, it, T)]

(* The element a sum takes first is one of the set.                        *)
LEMMA PickInside ==
    ASSUME NEW T, T # {}
    PROVE  Pick(T) \in T
BY DEF Pick

(* What is smaller has fewer elements.                                     *)
LEMMA OneLess ==
    ASSUME NEW S, IsFiniteSet(S), NEW T \in SUBSET S, NEW x \in T
    PROVE  /\ IsFiniteSet(T) /\ T \ {x} \in SUBSET S
           /\ Cardinality(T) \in Nat /\ Cardinality(T \ {x}) \in Nat
           /\ Cardinality(T \ {x}) = Cardinality(T) - 1
<1>1. IsFiniteSet(T)
  BY FS_Subset
<1>2. IsFiniteSet(T \ {x}) /\ Cardinality(T \ {x}) = Cardinality(T) - 1
  BY <1>1, FS_RemoveElement
<1> QED BY <1>1, <1>2, FS_CardinalityType

(* Induction on the subsets of a finite set, for a set G of good ones.     *)
LEMMA OnSubsets ==
    ASSUME NEW S, IsFiniteSet(S), NEW G,
           \A T \in SUBSET S :
              (\A U \in SUBSET S : Cardinality(U) < Cardinality(T) => U \in G) => T \in G
    PROVE  \A T \in SUBSET S : T \in G
<1> DEFINE Bad == {T \in SUBSET S : T \notin G}
           Sizes == {Cardinality(T) : T \in Bad}
<1>0. \A T \in SUBSET S : Cardinality(T) \in Nat
  BY FS_Subset, FS_CardinalityType
<1>1. SUFFICES ASSUME Bad # {} PROVE FALSE
  OBVIOUS
<1>2. Sizes \in SUBSET Nat /\ Sizes # {}
  BY <1>0, <1>1
<1>3. PICK n \in Sizes : \A m \in Sizes : n <= m
  <2> HIDE DEF Sizes
  <2> QED BY <1>2, LeastNumber
<1>4. PICK T \in Bad : n = Cardinality(T)
  BY <1>3
<1>5. \A U \in SUBSET S : Cardinality(U) < Cardinality(T) => U \in G
  <2> SUFFICES ASSUME NEW U \in SUBSET S, Cardinality(U) < Cardinality(T), U \notin G
               PROVE  FALSE
    OBVIOUS
  <2>1. Cardinality(U) \in Sizes
    OBVIOUS
  <2>2. n <= Cardinality(U)
    BY <1>3, <2>1
  <2> QED BY <1>0, <1>4, <2>2
<1> QED BY <1>4, <1>5

(* A sum over a finite set can be computed.                                *)
LEMMA SumExists ==
    ASSUME NEW S, IsFiniteSet(S), NEW F
    PROVE  \E it : Adds(F, S, it)
<1> DEFINE Small(n) == {T \in SUBSET S : Cardinality(T) <= n}
           Upto(n) == \E it : it = [T \in Small(n) |-> SumStep(F, it, T)]
           Bad == {n \in Nat : ~Upto(n)}
<1>0. \A T \in SUBSET S : Cardinality(T) \in Nat /\ IsFiniteSet(T)
  BY FS_Subset, FS_CardinalityType
<1>1. \A n \in Nat : Upto(n)
  <2> SUFFICES ASSUME Bad # {} PROVE FALSE
    OBVIOUS
  <2>1. PICK n \in Bad : \A m \in Bad : n <= m
    <3>1. Bad \in SUBSET Nat
      OBVIOUS
    <3> HIDE DEF Bad
    <3> QED BY <3>1, LeastNumber
  <2>2. n \in Nat /\ ~Upto(n) /\ (n > 0 => Upto(n - 1))
    <3>1. n \in Nat /\ ~Upto(n)
      OBVIOUS
    <3>2. ASSUME n > 0 PROVE Upto(n - 1)
      <4>1. n - 1 \in Nat /\ ~(n <= n - 1)
        BY <3>1, <3>2
      <4>2. n - 1 \notin Bad
        BY <2>1, <4>1
      <4> HIDE DEF Upto
      <4> QED BY <4>1, <4>2
    <3> HIDE DEF Upto
    <3> QED BY <3>1, <3>2
  <2>3. CASE n = 0
    <3> DEFINE it == [T \in Small(0) |-> 0]
    <3>1. \A T \in Small(0) : T = {}
      BY <1>0, FS_EmptySet
    <3>2. \A T \in Small(0) : SumStep(F, it, T) = 0
      BY <3>1 DEF SumStep
    <3>3. it = [T \in Small(0) |-> SumStep(F, it, T)]
      BY <3>2
    <3> QED BY <2>2, <2>3, <3>3
  <2>4. CASE n > 0
    <3>1. PICK g : g = [T \in Small(n - 1) |-> SumStep(F, g, T)]
      BY <2>2, <2>4
    <3> DEFINE it == [T \in Small(n) |-> SumStep(F, g, T)]
    <3>2. \A T \in Small(n - 1) : T \in Small(n) /\ it[T] = g[T]
      <4> TAKE T \in Small(n - 1)
      <4>1. T \in Small(n)
        BY <1>0, <2>2
      <4>2. it[T] = SumStep(F, g, T)
        BY <4>1
      <4> HIDE DEF Small, it
      <4> QED BY <3>1, <4>1, <4>2
    <3>3. \A T \in Small(n) : SumStep(F, it, T) = SumStep(F, g, T)
      <4> TAKE T \in Small(n)
      <4>1. CASE T = {}
        BY <4>1 DEF SumStep
      <4>2. CASE T # {}
        <5> DEFINE R == T \ {Pick(T)}
        <5>1. Pick(T) \in T
          BY <4>2, PickInside
        <5>2. R \in SUBSET S /\ Cardinality(R) = Cardinality(T) - 1 /\ Cardinality(T) \in Nat
          BY <5>1, OneLess
        <5>3. R \in Small(n - 1)
          BY <2>2, <5>2
        <5>4. it[R] = g[R]
          BY <3>2, <5>3
        <5> HIDE DEF it, Small
        <5> QED BY <4>2, <5>4 DEF SumStep
      <4> QED BY <4>1, <4>2
    <3>4. it = [T \in Small(n) |-> SumStep(F, it, T)]
      <4> HIDE DEF Small
      <4> QED BY <3>3
    <3> HIDE DEF it
    <3> QED BY <2>2, <3>4
  <2> QED BY <2>2, <2>3, <2>4
<1>2. Cardinality(S) \in Nat /\ Small(Cardinality(S)) = SUBSET S
  <2>1. \A T \in SUBSET S : Cardinality(T) <= Cardinality(S)
    BY FS_Subset
  <2> QED BY <1>0, <2>1
<1>3. Upto(Cardinality(S))
  <2> HIDE DEF Upto
  <2> QED BY <1>1, <1>2
<1> QED BY <1>2, <1>3 DEF Adds

(* A sum: whatever the order, each element counts once.                    *)
Counts(F, S) == IsFiniteSet(S) /\ \A x \in S : F[x] \in Nat
TakesPicked(F, S, it) == \A T \in SUBSET S : T # {} => it[T] = F[Pick(T)] + it[T \ {Pick(T)}]
TakesAny(F, S, it) == \A T \in SUBSET S : \A x \in T : it[T] = F[x] + it[T \ {x}]
Natural(S, it) == it[{}] = 0 /\ \A T \in SUBSET S : it[T] \in Nat

(* A sum is a number, and takes one element at a time.                     *)
LEMMA SumStepped ==
    ASSUME NEW S, NEW F, Counts(F, S), NEW it, Adds(F, S, it)
    PROVE  TakesPicked(F, S, it) /\ Natural(S, it)
<1> USE DEF Counts
<1>0. \A T \in SUBSET S : it[T] = SumStep(F, it, T)
  BY DEF Adds
<1>1. it[{}] = 0
  BY <1>0 DEF SumStep
<1>2. \A T \in SUBSET S : T # {} => it[T] = F[Pick(T)] + it[T \ {Pick(T)}]
  BY <1>0 DEF SumStep
<1>3. \A T \in SUBSET S : it[T] \in Nat
  <2> DEFINE G == {T \in SUBSET S : it[T] \in Nat}
  <2>1. \A T \in SUBSET S :
           (\A U \in SUBSET S : Cardinality(U) < Cardinality(T) => U \in G) => T \in G
    <3> SUFFICES ASSUME NEW T \in SUBSET S,
                        \A U \in SUBSET S : Cardinality(U) < Cardinality(T) => it[U] \in Nat
                 PROVE  it[T] \in Nat
      OBVIOUS
    <3>1. CASE T = {}
      BY <1>1, <3>1
    <3>2. CASE T # {}
      <4>1. Pick(T) \in T
        BY <3>2, PickInside
      <4>2. it[T \ {Pick(T)}] \in Nat
        BY <4>1, OneLess
      <4>3. F[Pick(T)] \in Nat
        BY <4>1
      <4>4. it[T] = F[Pick(T)] + it[T \ {Pick(T)}]
        BY <1>2, <3>2, Zenon
      <4> DEFINE a == F[Pick(T)]
                 b == it[T \ {Pick(T)}]
      <4> HIDE DEF a, b
      <4>5. it[T] = a + b
        BY <4>4 DEF a, b
      <4>6. a \in Nat /\ b \in Nat
        BY <4>2, <4>3 DEF a, b
      <4> QED BY <4>5, <4>6
    <3> QED BY <3>1, <3>2
  <2> HIDE DEF G
  <2>2. \A T \in SUBSET S : T \in G
    BY <2>1, OnSubsets
  <2> QED BY <2>2 DEF G
<1>4. TakesPicked(F, S, it)
  BY <1>2 DEF TakesPicked
<1> QED BY <1>1, <1>3, <1>4 DEF Natural

(* It does not matter which element of the set is taken first.             *)
LEMMA SumRemove ==
    ASSUME NEW S, NEW F, Counts(F, S), NEW it, Adds(F, S, it)
    PROVE  TakesAny(F, S, it)
<1> DEFINE G == {T \in SUBSET S : \A x \in T : it[T] = F[x] + it[T \ {x}]}
<1>0. TakesPicked(F, S, it) /\ Natural(S, it) /\ IsFiniteSet(S) /\ \A x \in S : F[x] \in Nat
  BY SumStepped DEF Counts
<1>1. \A T \in SUBSET S :
         (\A U \in SUBSET S : Cardinality(U) < Cardinality(T) => U \in G) => T \in G
  <2> SUFFICES ASSUME NEW T \in SUBSET S,
                      \A U \in SUBSET S : Cardinality(U) < Cardinality(T) => U \in G,
                      NEW x \in T
               PROVE  it[T] = F[x] + it[T \ {x}]
    OBVIOUS
  <2> DEFINE c == Pick(T)
  <2>1. c \in T /\ it[T] = F[c] + it[T \ {c}]
    <3>1. T # {}
      OBVIOUS
    <3>2. it[T] = F[Pick(T)] + it[T \ {Pick(T)}]
      BY <1>0, <3>1 DEF TakesPicked
    <3> QED BY <3>1, <3>2, PickInside
  <2> HIDE DEF c
  <2>2. CASE c = x
    BY <2>1, <2>2
  <2>3. CASE c # x
    <3>1. T \ {c} \in G /\ T \ {x} \in G
      BY <1>0, <2>1, OneLess
    <3> DEFINE R == T \ {c, x}
    <3>2. (T \ {c}) \ {x} = R /\ (T \ {x}) \ {c} = R /\ R \in SUBSET S
      OBVIOUS
    <3>3. it[T \ {c}] = F[x] + it[R] /\ it[T \ {x}] = F[c] + it[R]
      BY <2>1, <2>3, <3>1, <3>2
    <3>4. F[x] \in Nat /\ F[c] \in Nat /\ it[R] \in Nat
      BY <1>0, <2>1, <3>2 DEF Natural
    <3> HIDE DEF R
    <3> QED BY <2>1, <3>3, <3>4
  <2> QED BY <2>2, <2>3
<1> HIDE DEF G
<1>2. \A T \in SUBSET S : T \in G
  BY <1>0, <1>1, OnSubsets
<1> QED BY <1>2 DEF G, TakesAny

(* Summing less of less is less.                                           *)
LEMMA SumMonotone ==
    ASSUME NEW S, NEW R \in SUBSET S, NEW A, NEW B, Counts(B, S),
           \A x \in R : A[x] \in Nat /\ A[x] <= B[x],
           NEW i, Adds(A, R, i), NEW j, Adds(B, S, j)
    PROVE  i[R] \in Nat /\ j[S] \in Nat /\ i[R] <= j[S]
<1> DEFINE G == {T \in SUBSET S : i[T \cap R] <= j[T]}
<1>0. IsFiniteSet(S) /\ \A x \in S : B[x] \in Nat
  BY DEF Counts
<1>1. Counts(A, R)
  <2>1. IsFiniteSet(R)
    BY <1>0, FS_Subset
  <2> QED BY <2>1 DEF Counts
<1>2. Natural(R, i) /\ TakesAny(A, R, i) /\ Natural(S, j) /\ TakesAny(B, S, j)
  BY <1>1, SumStepped, SumRemove
<1>3. \A T \in SUBSET S :
         (\A U \in SUBSET S : Cardinality(U) < Cardinality(T) => U \in G) => T \in G
  <2> SUFFICES ASSUME NEW T \in SUBSET S,
                      \A U \in SUBSET S : Cardinality(U) < Cardinality(T) => U \in G
               PROVE  i[T \cap R] <= j[T]
    OBVIOUS
  <2>1. CASE T = {}
    <3>1. T \cap R = {}
      BY <2>1
    <3>2. i[T \cap R] = 0 /\ j[T] \in Nat
      BY <1>2, <3>1 DEF Natural
    <3> QED BY <3>2
  <2>2. CASE T # {}
    <3>1. PICK x \in T : TRUE
      BY <2>2
    <3> DEFINE U == T \ {x}
    <3>2. U \in SUBSET S /\ i[U \cap R] <= j[U]
      <4>1. U \in SUBSET S /\ Cardinality(U) < Cardinality(T)
        BY <1>0, OneLess
      <4>2. U \in G
        BY <4>1
      <4> QED BY <4>1, <4>2
    <3>3. j[T] = B[x] + j[U] /\ B[x] \in Nat /\ j[U] \in Nat
      <4>1. U \in SUBSET S
        OBVIOUS
      <4> HIDE DEF U
      <4>2. j[T] = B[x] + j[T \ {x}] /\ j[U] \in Nat
        BY <1>2, <4>1 DEF TakesAny, Natural
      <4> QED BY <1>0, <4>2 DEF U
    <3>4. CASE x \in R
      <4>1. x \in T \cap R /\ T \cap R \in SUBSET R /\ (T \cap R) \ {x} = U \cap R /\ U \cap R \in SUBSET R
        BY <3>4
      <4>2. i[T \cap R] = A[x] + i[U \cap R] /\ i[U \cap R] \in Nat
        <5> HIDE DEF U
        <5>1. i[T \cap R] = A[x] + i[(T \cap R) \ {x}]
          BY <1>2, <4>1 DEF TakesAny
        <5>2. i[U \cap R] \in Nat
          BY <1>2, <4>1 DEF Natural
        <5> QED BY <4>1, <5>1, <5>2
      <4>3. A[x] \in Nat /\ A[x] <= B[x]
        BY <3>4
      <4> DEFINE a == A[x]
                 b == B[x]
                 p == i[U \cap R]
                 q == j[U]
      <4>4. i[T \cap R] = a + p /\ p \in Nat /\ a \in Nat /\ a <= b
        BY <4>2, <4>3
      <4>5. j[T] = b + q /\ b \in Nat /\ q \in Nat /\ p <= q
        BY <3>2, <3>3
      <4> HIDE DEF U, a, b, p, q
      <4> QED BY <4>4, <4>5
    <3>5. CASE x \notin R
      <4>1. T \cap R = U \cap R /\ U \cap R \in SUBSET R
        BY <3>5
      <4>2. i[U \cap R] \in Nat
        BY <1>2, <4>1 DEF Natural
      <4> DEFINE b == B[x]
                 p == i[U \cap R]
                 q == j[U]
      <4>3. i[T \cap R] = p /\ p \in Nat
        BY <4>1, <4>2, Zenon
      <4>4. j[T] = b + q /\ b \in Nat /\ q \in Nat /\ p <= q
        BY <3>2, <3>3
      <4> HIDE DEF U, b, p, q
      <4> QED BY <4>3, <4>4
    <3> QED BY <3>4, <3>5
  <2> QED BY <2>1, <2>2
<1>4. S \in G
  <2> HIDE DEF G
  <2>1. S \in SUBSET S
    OBVIOUS
  <2> QED BY <1>0, <1>3, <2>1, OnSubsets
<1>5. S \cap R = R
  OBVIOUS
<1>6. i[S \cap R] <= j[S]
  BY <1>4
<1>7. i[R] \in Nat /\ j[S] \in Nat
  BY <1>2 DEF Natural
<1> QED BY <1>5, <1>6, <1>7

-----------------------------------------------------------------------------
(* The size of texts.                                                      *)

(* Nothing adds up to nothing.                                             *)
LEMMA SumOfZeros ==
    ASSUME NEW S, NEW F, IsFiniteSet(S), \A x \in S : F[x] = 0, NEW it, Adds(F, S, it)
    PROVE  it[S] = 0
<1> DEFINE G == {T \in SUBSET S : it[T] = 0}
<1>1. Counts(F, S)
  BY DEF Counts
<1>2. TakesPicked(F, S, it) /\ Natural(S, it)
  BY <1>1, SumStepped
<1>3. \A T \in SUBSET S :
         (\A U \in SUBSET S : Cardinality(U) < Cardinality(T) => U \in G) => T \in G
  <2> SUFFICES ASSUME NEW T \in SUBSET S,
                      \A U \in SUBSET S : Cardinality(U) < Cardinality(T) => U \in G
               PROVE  it[T] = 0
    OBVIOUS
  <2>1. CASE T = {}
    BY <1>2, <2>1 DEF Natural
  <2>2. CASE T # {}
    <3>1. Pick(T) \in T
      BY <2>2, PickInside
    <3>2. it[T \ {Pick(T)}] = 0
      BY <3>1, OneLess
    <3>3. it[T] = F[Pick(T)] + it[T \ {Pick(T)}]
      BY <1>2, <2>2 DEF TakesPicked
    <3>4. F[Pick(T)] = 0
      BY <3>1
    <3> QED BY <3>2, <3>3, <3>4
  <2> QED BY <2>1, <2>2
<1> HIDE DEF G
<1>4. S \in G
  <2>1. S \in SUBSET S
    OBVIOUS
  <2> QED BY <1>3, <2>1, OnSubsets
<1> QED BY <1>4 DEF G

(* Size and SizeOfAll are such sums.                                       *)
Weights(t) == [k \in DOMAIN t |-> IF t[k] = Value THEN ValueSize ELSE 1]
Sizes(texts) == [s \in Slots |-> Size(texts[s])]

(* The size of a text is a sum over its places.                            *)
LEMMA SizeIsSum ==
    ASSUME NEW t, IsFiniteSet(DOMAIN t)
    PROVE  \E it : Adds(Weights(t), DOMAIN t, it) /\ Size(t) = it[DOMAIN t]
<1> DEFINE W == Weights(t)
           D == DOMAIN t
           Eq(it) == it = [T \in SUBSET D |->
                             IF T = {} THEN 0
                             ELSE (IF t[CHOOSE x \in T : TRUE] = Value THEN ValueSize ELSE 1)
                                    + it[T \ {CHOOSE x \in T : TRUE}]]
           sum == CHOOSE it : Eq(it)
<1>1. Size(t) = sum[D]
  BY DEF Size, MapThenSumSet, MapThenFoldSet
<1>2. \A it : Eq(it) <=> Adds(W, D, it)
  <2> SUFFICES ASSUME NEW it PROVE Eq(it) <=> Adds(W, D, it)
    OBVIOUS
  <2>1. \A T \in SUBSET D :
          SumStep(W, it, T) = IF T = {} THEN 0
                              ELSE (IF t[CHOOSE x \in T : TRUE] = Value THEN ValueSize ELSE 1)
                                     + it[T \ {CHOOSE x \in T : TRUE}]
    <3> TAKE T \in SUBSET D
    <3>1. CASE T = {}
      BY <3>1 DEF SumStep
    <3>2. CASE T # {}
      <4>1. Pick(T) \in D
        BY <3>2, PickInside
      <4>2. W[Pick(T)] = IF t[Pick(T)] = Value THEN ValueSize ELSE 1
        BY <4>1 DEF Weights
      <4> HIDE DEF W
      <4> QED BY <3>2, <4>2 DEF SumStep, Pick
    <3> QED BY <3>1, <3>2
  <2> QED BY <2>1 DEF Adds
<1>3. \E it : Eq(it)
  <2> HIDE DEF Eq, W, D
  <2>1. \E it : Adds(W, D, it)
    BY SumExists DEF D
  <2> QED BY <1>2, <2>1
<1>4. Eq(sum)
  <2> HIDE DEF Eq
  <2> QED BY <1>3
<1> HIDE DEF sum, Eq
<1> QED BY <1>1, <1>2, <1>4

(* There are finitely many items and parts.                                *)
LEMMA SlotsAreFinite ==
    ASSUME MaxItems \in Nat
    PROVE  IsFiniteSet(Items) /\ IsFiniteSet(Slots)
<1>1. IsFiniteSet(Items)
  BY FS_Interval DEF Items
<1> QED BY <1>1, FS_Product DEF Slots

(* The size of all texts is a sum over the parts.                          *)
LEMMA SizeOfAllIsSum ==
    ASSUME NEW texts, MaxItems \in Nat
    PROVE  \E it : Adds(Sizes(texts), Slots, it) /\ SizeOfAll(texts) = it[Slots]
<1> DEFINE W == Sizes(texts)
           Eq(it) == it = [T \in SUBSET Slots |->
                             IF T = {} THEN 0
                             ELSE Size(texts[CHOOSE x \in T : TRUE])
                                    + it[T \ {CHOOSE x \in T : TRUE}]]
           sum == CHOOSE it : Eq(it)
<1>1. SizeOfAll(texts) = sum[Slots]
  BY DEF SizeOfAll, MapThenSumSet, MapThenFoldSet
<1>2. \A it : Eq(it) <=> Adds(W, Slots, it)
  <2> SUFFICES ASSUME NEW it PROVE Eq(it) <=> Adds(W, Slots, it)
    OBVIOUS
  <2>1. \A T \in SUBSET Slots :
          SumStep(W, it, T) = IF T = {} THEN 0
                              ELSE Size(texts[CHOOSE x \in T : TRUE])
                                     + it[T \ {CHOOSE x \in T : TRUE}]
    <3> TAKE T \in SUBSET Slots
    <3>1. CASE T = {}
      BY <3>1 DEF SumStep
    <3>2. CASE T # {}
      <4>1. Pick(T) \in Slots
        BY <3>2, PickInside
      <4>2. W[Pick(T)] = Size(texts[Pick(T)])
        BY <4>1 DEF Sizes
      <4> HIDE DEF W
      <4> QED BY <3>2, <4>2 DEF SumStep, Pick
    <3> QED BY <3>1, <3>2
  <2> QED BY <2>1 DEF Adds
<1>3. \E it : Eq(it)
  <2> HIDE DEF Eq, W
  <2>1. \E it : Adds(W, Slots, it)
    BY SumExists, SlotsAreFinite
  <2> QED BY <1>2, <2>1
<1>4. Eq(sum)
  <2> HIDE DEF Eq
  <2> QED BY <1>3
<1> HIDE DEF sum, Eq
<1> QED BY <1>1, <1>2, <1>4

(* A text that is continued is no smaller.                                 *)
LEMMA LongerIsLarger ==
    ASSUME NEW h \in Seq(Outputs), NEW w \in Seq(Outputs), ValueSize \in Nat
    PROVE  Size(h) \in Nat /\ Size(h \o w) \in Nat /\ Size(h) <= Size(h \o w)
<1> DEFINE t == h \o w
<1>1. /\ DOMAIN h = 1 .. Len(h) /\ DOMAIN t = 1 .. Len(t) /\ Len(h) \in Nat /\ Len(t) \in Nat
      /\ Len(h) <= Len(t) /\ \A k \in 1 .. Len(h) : t[k] = h[k]
  OBVIOUS
<1> HIDE DEF t
<1>2. IsFiniteSet(DOMAIN h) /\ IsFiniteSet(DOMAIN t)
  BY <1>1, FS_Interval
<1>3. PICK i : Adds(Weights(h), DOMAIN h, i) /\ Size(h) = i[DOMAIN h]
  BY <1>2, SizeIsSum
<1>4. PICK j : Adds(Weights(t), DOMAIN t, j) /\ Size(t) = j[DOMAIN t]
  BY <1>2, SizeIsSum
<1>5. Counts(Weights(t), DOMAIN t)
  BY <1>2 DEF Counts, Weights
<1>6. \A k \in DOMAIN h : Weights(h)[k] \in Nat /\ Weights(h)[k] <= Weights(t)[k]
  BY <1>1 DEF Weights
<1>7. DOMAIN h \in SUBSET DOMAIN t
  BY <1>1
<1>8. i[DOMAIN h] \in Nat /\ j[DOMAIN t] \in Nat /\ i[DOMAIN h] <= j[DOMAIN t]
  BY <1>3, <1>4, <1>5, <1>6, <1>7, SumMonotone
<1> QED BY <1>3, <1>4, <1>8 DEF t

Extends(h, t) == \E w \in Seq(Outputs) : t = h \o w

(* Texts that are all continued are together no smaller: what a client has *)
(* heard of them is no larger than what was restored.                      *)
LEMMA MoreIsLarger ==
    ASSUME NEW h \in [Slots -> Seq(Outputs)], NEW t \in [Slots -> Seq(Outputs)],
           MaxItems \in Nat, ValueSize \in Nat,
           \A s \in Slots : Extends(h[s], t[s])
    PROVE  /\ SizeOfAll(h) \in Nat /\ SizeOfAll(t) \in Nat
           /\ SizeOfAll(h) <= SizeOfAll(t)
<1>1. PICK i : Adds(Sizes(h), Slots, i) /\ SizeOfAll(h) = i[Slots]
  BY SizeOfAllIsSum
<1>2. PICK j : Adds(Sizes(t), Slots, j) /\ SizeOfAll(t) = j[Slots]
  BY SizeOfAllIsSum
<1>3. \A s \in Slots : Size(h[s]) \in Nat /\ Size(t[s]) \in Nat /\ Size(h[s]) <= Size(t[s])
  BY LongerIsLarger DEF Extends
<1>4. Counts(Sizes(t), Slots) /\ \A s \in Slots : Sizes(h)[s] \in Nat /\ Sizes(h)[s] <= Sizes(t)[s]
  BY <1>3, SlotsAreFinite DEF Counts, Sizes
<1>5. Slots \in SUBSET Slots
  OBVIOUS
<1>6. i[Slots] \in Nat /\ j[Slots] \in Nat /\ i[Slots] <= j[Slots]
  BY <1>1, <1>2, <1>4, <1>5, SumMonotone
<1> QED BY <1>1, <1>2, <1>6

(* Empty texts have no size.                                               *)
LEMMA NothingWeighsNothing ==
    ASSUME NEW t, \A s \in Slots : t[s] = <<>>, MaxItems \in Nat
    PROVE  SizeOfAll(t) = 0
<1>1. PICK i : Adds(Sizes(t), Slots, i) /\ SizeOfAll(t) = i[Slots]
  BY SizeOfAllIsSum
<1>2. Size(<<>>) = 0
  <2>1. DOMAIN <<>> = {} /\ IsFiniteSet({})
    BY FS_EmptySet
  <2>2. IsFiniteSet(DOMAIN <<>>)
    BY <2>1
  <2>3. PICK it : Adds(Weights(<<>>), DOMAIN <<>>, it) /\ Size(<<>>) = it[DOMAIN <<>>]
    BY <2>2, SizeIsSum
  <2>4. it[DOMAIN <<>>] = 0
    BY <2>1, <2>2, <2>3, SumOfZeros
  <2> QED BY <2>3, <2>4
<1>3. \A s \in Slots : Sizes(t)[s] = 0
  BY <1>2 DEF Sizes
<1> QED BY <1>1, <1>3, SlotsAreFinite, SumOfZeros

-----------------------------------------------------------------------------
(* The machine: items, parts and their stages.                             *)

(* A restored text consists of characters and values.                      *)
LEMMA RestoreType ==
    ASSUME NEW s \in Seq(Characters)
    PROVE  Restore(s) \in Seq(Outputs)
<1>1. PICK f : ScansFrom(s, f, 1) /\ Restore(s) = f[1]
  BY RestoreIsScan
<1>2. 1 \in 1 .. Len(s) + 1
  OBVIOUS
<1> QED BY <1>1, <1>2, ScanType

(* Nothing is restored to nothing.                                         *)
LEMMA RestoreNothing == Restore(<<>>) = <<>>
<1>1. <<>> \in Seq(Characters) /\ Len(<<>>) = 0
  OBVIOUS
<1>2. PICK f : ScansFrom(<<>>, f, 1) /\ Restore(<<>>) = f[1]
  BY <1>1, RestoreIsScan
<1>3. f[1] = ScanStep(<<>>, f, 1)
  BY <1>1, <1>2 DEF ScansFrom
<1> QED BY <1>1, <1>2, <1>3 DEF ScanStep

(* What feed returns.                                                      *)
LEMMA FeedType ==
    ASSUME NEW kept \in Seq(Characters), NEW delta \in Seq(Characters), NEW final \in BOOLEAN
    PROVE  LET f == Feed(kept, delta, final)
           IN /\ f.text \in Seq(Outputs)
              /\ f.suffix \in Seq(Characters) /\ Len(f.suffix) < MaxTokenLength
<1> DEFINE t == kept \o delta
           n == Released(t, final)
<1>1. t \in Seq(Characters)
  OBVIOUS
<1>2. n \in 0 .. Len(t) /\ Len(t) - n < MaxTokenLength
  BY <1>1, ReleasedInside
<1>3. /\ SubSeq(t, 1, n) \in Seq(Characters) /\ SubSeq(t, n + 1, Len(t)) \in Seq(Characters)
      /\ Len(SubSeq(t, n + 1, Len(t))) = Len(t) - n
  <2> HIDE DEF t, n
  <2> QED BY <1>1, <1>2, CutText
<1> QED BY <1>2, <1>3, RestoreType DEF Feed

MachineTypes ==
    /\ protocol \in {"responses", "messages"}
    /\ phase \in {"idle", "open", "stopping", "terminal", "ended", "failed"}
    /\ kind \in [Items -> {"none", "prose", "tool"}]
    /\ parts \in [Items -> 0 .. MaxItems]
    /\ stage \in [Slots -> Stages]
    /\ raw \in [Slots -> Seq(Characters)]
    /\ suffix \in [Slots -> Seq(Characters)]
    /\ text \in [Slots -> Seq(Outputs)]
    /\ finished \in [Items -> BOOLEAN]
    /\ \A s \in Slots : Len(suffix[s]) < MaxTokenLength

(* Where an item and its parts stand to each other.                        *)
ItemOK(i) ==
    /\ kind[i] = "none" => parts[i] = 0 /\ ~finished[i]
    /\ kind[i] = "tool" => parts[i] = 1 /\ stage[<<i, 1>>] # "none"
    /\ \A p \in Items : stage[<<i, p>>] = "none" <=> p > parts[i]
    /\ protocol = "messages" =>
         /\ kind[i] # "none" => parts[i] = 1
         /\ stage[<<i, 1>>] # "closed"
         /\ finished[i] <=> stage[<<i, 1>>] = "done"
    /\ protocol = "responses" /\ kind[i] = "tool" => stage[<<i, 1>>] # "done"
    /\ finished[i] /\ kind[i] = "prose" => \A p \in 1 .. parts[i] : stage[<<i, p>>] = "done"
    /\ finished[i] /\ kind[i] = "tool" => stage[<<i, 1>>] # "open"

MachineOK ==
    /\ MachineTypes
    /\ \A i \in Items : ItemOK(i)
    /\ phase \in {"stopping", "terminal", "ended"} => \A i \in Known : finished[i]

(* Feeding a part keeps the types of the texts.                            *)
LEMMA FedTypes ==
    ASSUME MachineTypes, NEW s \in Slots, NEW delta \in Seq(Characters), NEW final \in BOOLEAN,
           NEW then, Fed(s, delta, final, then)
    PROVE  /\ raw' \in [Slots -> Seq(Characters)]
           /\ suffix' \in [Slots -> Seq(Characters)]
           /\ text' \in [Slots -> Seq(Outputs)]
           /\ \A q \in Slots : Len(suffix'[q]) < MaxTokenLength
<1> DEFINE f == Feed(suffix[s], delta, final)
<1>1. f.text \in Seq(Outputs) /\ f.suffix \in Seq(Characters) /\ Len(f.suffix) < MaxTokenLength
  BY FeedType DEF MachineTypes
<1>2. /\ raw' = [raw EXCEPT ![s] = @ \o delta]
      /\ suffix' = [suffix EXCEPT ![s] = f.suffix]
      /\ text' = [text EXCEPT ![s] = text[s] \o f.text]
  BY DEF Fed
<1> HIDE DEF f
<1>3. raw[s] \o delta \in Seq(Characters) /\ text[s] \o f.text \in Seq(Outputs)
  BY <1>1 DEF MachineTypes
<1> QED BY <1>1, <1>2, <1>3 DEF MachineTypes

(* add_item's limit keeps every part within the slots.                     *)
LEMMA PartsFit ==
    ASSUME MachineTypes, NEW i \in Items, kind[i] = "prose", protocol = "responses",
           TotalItems < MaxItems, MaxItems \in Nat
    PROVE  parts[i] + 1 <= MaxItems
<1> DEFINE P == {k \in Known : kind[k] = "prose"}
           Eq(it) == it = [T \in SUBSET P |->
                             IF T = {} THEN 0
                             ELSE parts[CHOOSE x \in T : TRUE] + it[T \ {CHOOSE x \in T : TRUE}]]
           sum == CHOOSE it : Eq(it)
<1>1. TotalItems = Cardinality(Known) + sum[P]
  BY DEF TotalItems, MapThenSumSet, MapThenFoldSet
<1>2. IsFiniteSet(Known) /\ IsFiniteSet(P) /\ i \in Known /\ i \in P
  BY SlotsAreFinite, FS_Subset DEF Known
<1>3. \A it : Eq(it) <=> Adds(parts, P, it)
  BY DEF Adds, SumStep, Pick
<1>4. Adds(parts, P, sum)
  <2> HIDE DEF Eq, P
  <2>1. \E it : Eq(it)
    BY <1>2, <1>3, SumExists
  <2>2. Eq(sum)
    BY <2>1
  <2> QED BY <1>3, <2>2
<1> HIDE DEF sum, Eq
<1>5. Counts(parts, P)
  BY <1>2 DEF Counts, MachineTypes, Known
<1>6. Natural(P, sum) /\ TakesAny(parts, P, sum)
  BY <1>4, <1>5, SumStepped, SumRemove
<1>7. sum[P] = parts[i] + sum[P \ {i}] /\ sum[P \ {i}] \in Nat
  BY <1>2, <1>6 DEF Natural, TakesAny
<1>8. Cardinality(Known) \in Nat /\ Cardinality(Known) >= 1
  <2>1. Cardinality(Known) \in Nat /\ Cardinality(Known) # 0
    BY <1>2, FS_CardinalityType, FS_EmptySet
  <2> QED BY <2>1
<1>9. parts[i] \in Nat
  BY DEF MachineTypes
<1> DEFINE c == Cardinality(Known)
           a == sum[P]
           b == sum[P \ {i}]
<1>10. TotalItems = c + a /\ a = parts[i] + b /\ b \in Nat /\ c \in Nat /\ c >= 1
  BY <1>1, <1>7, <1>8
<1> HIDE DEF a, b, c
<1> QED BY <1>9, <1>10

(* The constants, and the items, as numbers.                               *)
LEMMA ItemsAreNumbers ==
    /\ MaxItems \in Nat /\ MaxOutput \in Nat /\ ValueSize \in Nat /\ MaxHeld \in Nat
    /\ \A i \in Items : i \in Nat /\ 1 <= i /\ i <= MaxItems /\ 1 \in Items
<1>1. MaxItems \in Nat /\ MaxOutput \in Nat /\ ValueSize \in Nat /\ MaxHeld \in Nat
  BY StreamAssumption
<1> QED BY <1>1 DEF Items

-----------------------------------------------------------------------------
(* The machine.                                                            *)

(* The machine is in order at the start.                                   *)
LEMMA MachineStarts ==
    ASSUME Init
    PROVE  MachineOK
<1>1. MachineTypes
  BY StreamAssumption, WidthAssumption DEF Init, MachineTypes, Stages, MaxTokenLength
<1>2. \A i \in Items : ItemOK(i)
  <2> TAKE i \in Items
  <2>1. kind[i] = "none" /\ parts[i] = 0 /\ ~finished[i]
    BY DEF Init
  <2>2. \A p \in Items : stage[<<i, p>>] = "none" /\ p > 0
    BY DEF Init, Slots, Items
  <2>3. 1 \in Items
    BY StreamAssumption DEF Items
  <2> QED BY <2>1, <2>2, <2>3 DEF ItemOK
<1> QED BY <1>1, <1>2 DEF MachineOK, Init

(* A step that leaves items, parts and stages alone keeps the machine in order.*)
LEMMA SameMachine ==
    ASSUME MachineOK, UNCHANGED <<protocol, kind, parts, stage, finished>>, MachineTypes',
           phase' \in {"stopping", "terminal", "ended"} => \A i \in Known : finished[i]
    PROVE  MachineOK'
<1>1. \A i \in Items : ItemOK(i)'
  BY DEF MachineOK, ItemOK
<1>2. Known' = Known
  BY DEF Known
<1> QED BY <1>1, <1>2 DEF MachineOK

(* A step that changes one item.                                           *)
LEMMA OneItem ==
    ASSUME MachineOK, NEW i \in Items, protocol' = protocol, phase = "open", phase' = "open",
           MachineTypes', ItemOK(i)',
           \A j \in Items \ {i} : kind'[j] = kind[j] /\ parts'[j] = parts[j] /\ finished'[j] = finished[j],
           \A j \in Items \ {i}, p \in Items : stage'[<<j, p>>] = stage[<<j, p>>]
    PROVE  MachineOK'
<1>1. \A j \in Items : ItemOK(j)'
  <2> SUFFICES ASSUME NEW j \in Items, j # i PROVE ItemOK(j)'
    OBVIOUS
  <2>1. ItemOK(j)
    BY DEF MachineOK
  <2>2. kind'[j] = kind[j] /\ parts'[j] = parts[j] /\ finished'[j] = finished[j]
    OBVIOUS
  <2>3. 1 \in Items /\ \A p \in Items : stage'[<<j, p>>] = stage[<<j, p>>]
    BY StreamAssumption DEF Items
  <2>4. parts[j] \in 0 .. MaxItems /\ \A p \in 1 .. parts[j] : p \in Items
    <3>1. parts[j] \in 0 .. MaxItems
      BY DEF MachineOK, MachineTypes
    <3> QED BY <3>1, ItemsAreNumbers DEF Items
  <2> QED BY <2>1, <2>2, <2>3, <2>4 DEF ItemOK
<1> QED BY <1>1 DEF MachineOK

(* AddItem keeps the machine in order.                                     *)
LEMMA ItemIsAdded ==
    ASSUME MachineOK, NEW k \in {"prose", "tool"}, AddItem(k)
    PROVE  MachineOK'
<1>1. PICK i \in Items \ Known :
        /\ kind' = [kind EXCEPT ![i] = k]
        /\ parts' = [parts EXCEPT ![i] = IF protocol = "messages" \/ k = "tool" THEN 1 ELSE 0]
        /\ stage' = [stage EXCEPT ![<<i, 1>>] =
                        IF protocol = "messages" \/ k = "tool" THEN "open" ELSE "none"]
  BY DEF AddItem
<1>2. phase = "open" /\ UNCHANGED <<protocol, phase, raw, suffix, text, finished>>
  BY DEF AddItem, Reads
<1>3. /\ kind[i] = "none" /\ 1 \in Items /\ 1 \in 0 .. MaxItems /\ 0 \in 0 .. MaxItems
      /\ <<i, 1>> \in Slots
  BY StreamAssumption DEF Known, Items, Slots
<1>4. MachineTypes'
  BY <1>1, <1>2, <1>3 DEF MachineOK, MachineTypes, Stages
<1>5. ItemOK(i) /\ MachineTypes
  BY DEF MachineOK
<1>6. ~finished[i] /\ \A p \in Items : stage[<<i, p>>] = "none"
  BY <1>3, <1>5 DEF ItemOK, Items
<1>7. \A p \in Items : stage'[<<i, p>>] =
        IF p = 1 /\ (protocol = "messages" \/ k = "tool") THEN "open" ELSE "none"
  BY <1>1, <1>3, <1>5, <1>6 DEF MachineTypes, Slots
<1>8. parts'[i] = (IF protocol = "messages" \/ k = "tool" THEN 1 ELSE 0) /\ kind'[i] = k /\ ~finished'[i]
  BY <1>1, <1>2, <1>5, <1>6 DEF MachineTypes
<1>9. ItemOK(i)'
  BY <1>2, <1>3, <1>7, <1>8 DEF ItemOK, Items
<1>10. \A j \in Items \ {i} : kind'[j] = kind[j] /\ parts'[j] = parts[j] /\ finished'[j] = finished[j]
  BY <1>1, <1>2, <1>5 DEF MachineTypes
<1>11. \A j \in Items \ {i}, p \in Items : stage'[<<j, p>>] = stage[<<j, p>>]
  BY <1>1, <1>5 DEF MachineTypes, Slots
<1> QED BY <1>2, <1>4, <1>9, <1>10, <1>11, OneItem

(* AddPart keeps the machine in order.                                     *)
LEMMA PartIsAdded ==
    ASSUME MachineOK, NEW i \in Items, AddPart(i)
    PROVE  MachineOK'
<1> DEFINE p == parts[i] + 1
<1>1. /\ parts' = [parts EXCEPT ![i] = p] /\ stage' = [stage EXCEPT ![<<i, p>>] = "open"]
      /\ phase = "open" /\ UNCHANGED <<protocol, phase, kind, raw, suffix, text, finished>>
      /\ kind[i] = "prose" /\ protocol = "responses" /\ ~finished[i] /\ TotalItems < MaxItems
  BY DEF AddPart, Reads
<1>2. ItemOK(i) /\ MachineTypes
  BY DEF MachineOK
<1>3. p \in 1 .. MaxItems /\ p <= MaxItems /\ parts[i] \in Nat /\ MaxItems \in Nat
  BY <1>1, <1>2, PartsFit, StreamAssumption DEF MachineTypes
<1>4. p \in Items /\ <<i, p>> \in Slots /\ p \in 0 .. MaxItems /\ 1 \in Items
  BY <1>3 DEF Items, Slots
<1> HIDE DEF p
<1>5. MachineTypes'
  BY <1>1, <1>2, <1>4 DEF MachineTypes, Stages
<1>6. \A q \in Items : stage'[<<i, q>>] = IF q = p THEN "open" ELSE stage[<<i, q>>]
  BY <1>1, <1>2, <1>4 DEF MachineTypes, Slots
<1>7. parts'[i] = p /\ kind'[i] = "prose" /\ ~finished'[i]
  BY <1>1, <1>2 DEF MachineTypes
<1>8. \A q \in Items : stage'[<<i, q>>] = "none" <=> q > parts'[i]
  BY <1>2, <1>3, <1>6, <1>7 DEF ItemOK, Items, p
<1>9. ItemOK(i)'
  BY <1>1, <1>7, <1>8 DEF ItemOK
<1>10. \A j \in Items \ {i} : kind'[j] = kind[j] /\ parts'[j] = parts[j] /\ finished'[j] = finished[j]
  BY <1>1, <1>2 DEF MachineTypes
<1>11. \A j \in Items \ {i}, q \in Items : stage'[<<j, q>>] = stage[<<j, q>>]
  BY <1>1, <1>2 DEF MachineTypes, Slots
<1> QED BY <1>1, <1>5, <1>9, <1>10, <1>11, OneItem

(* A step that changes the stage of one part, and may end its item.        *)
LEMMA OneSlot ==
    ASSUME MachineOK, NEW s \in Slots, NEW new \in {"open", "closed", "done"},
           NEW over \in BOOLEAN, phase = "open", phase' = "open", UNCHANGED <<protocol, kind, parts>>,
           stage[s] # "none", kind[s[1]] # "none",
           stage' = [stage EXCEPT ![s] = new], finished' = [finished EXCEPT ![s[1]] = over],
           MachineTypes',
           protocol = "messages" => new # "closed" /\ (over <=> new = "done"),
           protocol = "responses" => (over <=> finished[s[1]]),
           protocol = "responses" /\ kind[s[1]] = "tool" => new # "done",
           finished[s[1]] => protocol = "messages" /\ over
    PROVE  MachineOK'
<1>1. PICK i \in Items, p \in Items : s = <<i, p>>
  BY DEF Slots
<1>2. ItemOK(i) /\ MachineTypes
  BY DEF MachineOK
<1>3. s[1] = i /\ 1 \in Items /\ i \in Items
  BY <1>1, StreamAssumption DEF Items
<1>4. \A q \in Items : stage'[<<i, q>>] = IF q = p THEN new ELSE stage[<<i, q>>]
  BY <1>1, <1>2 DEF MachineTypes, Slots
<1>5. p <= parts[i] /\ p \in 1 .. MaxItems
  <2>1. ~(p > parts[i]) /\ parts[i] \in Int /\ p \in Int
    BY <1>1, <1>2, ItemsAreNumbers DEF ItemOK, MachineTypes
  <2> QED BY <1>1, <1>2, <2>1, ItemsAreNumbers DEF MachineTypes
<1>6. finished'[i] = over
  BY <1>2, <1>3 DEF MachineTypes
<1>7. parts[i] = 1 => p = 1
  BY <1>5
<1>8. ItemOK(i)'
  <2>1. \A q \in Items : stage'[<<i, q>>] = "none" <=> q > parts'[i]
    BY <1>1, <1>2, <1>4, <1>5 DEF ItemOK
  <2>2. kind'[i] = kind[i] /\ parts'[i] = parts[i] /\ kind[i] # "none" /\ protocol' = protocol
    BY <1>3
  <2>3. kind[i] = "tool" => parts[i] = 1 /\ stage'[<<i, 1>>] = new
    BY <1>2, <1>3, <1>4, <1>7 DEF ItemOK
  <2>4. protocol = "messages" => parts[i] = 1 /\ stage'[<<i, 1>>] = new
    BY <1>2, <1>3, <1>4, <1>7, <2>2 DEF ItemOK
  <2>5. protocol = "responses" => ~over
    BY <1>3
  <2>6. over /\ kind[i] = "prose" => \A q \in 1 .. parts[i] : stage'[<<i, q>>] = "done"
    <3>1. over => protocol = "messages" /\ new = "done"
      BY <1>2, <2>5 DEF MachineTypes
    <3>2. 1 .. 1 = {1}
      OBVIOUS
    <3> QED BY <2>4, <3>1, <3>2
  <2>7. over /\ kind[i] = "tool" => new = "done"
    BY <1>2, <2>5 DEF MachineTypes
  <2>8. protocol = "messages" => new # "closed" /\ (over <=> new = "done")
    OBVIOUS
  <2>9. protocol = "responses" /\ kind[i] = "tool" => new # "done"
    BY <1>3
  <2> QED BY <1>6, <2>1, <2>2, <2>3, <2>4, <2>6, <2>7, <2>8, <2>9 DEF ItemOK
<1>9. \A j \in Items \ {i} : kind'[j] = kind[j] /\ parts'[j] = parts[j] /\ finished'[j] = finished[j]
  BY <1>2, <1>3 DEF MachineTypes
<1>10. \A j \in Items \ {i}, q \in Items : stage'[<<j, q>>] = stage[<<j, q>>]
  BY <1>1, <1>2 DEF MachineTypes, Slots
<1> QED BY <1>3, <1>8, <1>9, <1>10, OneItem

(* What the stage of a part says of its item.                              *)
LEMMA StageMeans ==
    ASSUME MachineOK, NEW s \in Slots
    PROVE  /\ s[1] \in Items /\ s[2] \in Items /\ s = <<s[1], s[2]>>
           /\ stage[s] # "none" => kind[s[1]] # "none" /\ s[2] <= parts[s[1]]
           /\ stage[s] = "open" => ~finished[s[1]]
           /\ stage[s] = "closed" => protocol = "responses"
           /\ stage[s] # "none" /\ (kind[s[1]] = "tool" \/ protocol = "messages") => s[2] = 1
<1>1. PICK i \in Items, p \in Items : s = <<i, p>>
  BY DEF Slots
<1>2. s[1] = i /\ s[2] = p /\ 1 \in Items
  BY <1>1, StreamAssumption DEF Items
<1>3. ItemOK(i) /\ MachineTypes
  BY DEF MachineOK
<1>4. p \in Nat /\ p >= 1 /\ parts[i] \in Nat
  BY <1>1, <1>3, ItemsAreNumbers DEF MachineTypes
<1>5. stage[s] # "none" => p <= parts[i] /\ parts[i] # 0
  BY <1>1, <1>3, <1>4 DEF ItemOK
<1>6. stage[s] # "none" => kind[i] # "none"
  BY <1>3, <1>5 DEF ItemOK
<1>7. stage[s] # "none" /\ (kind[i] = "tool" \/ protocol = "messages") => p = 1
  BY <1>3, <1>4, <1>5, <1>6 DEF ItemOK
<1>8. stage[s] = "closed" => protocol = "responses"
  BY <1>1, <1>3, <1>7 DEF ItemOK, MachineTypes
<1>9. stage[s] = "open" => ~finished[i]
  <2> SUFFICES ASSUME stage[s] = "open", finished[i] PROVE FALSE
    BY <1>3 DEF MachineTypes
  <2>1. p \in 1 .. parts[i] /\ kind[i] \in {"prose", "tool"}
    BY <1>3, <1>4, <1>5, <1>6 DEF MachineTypes
  <2>2. CASE kind[i] = "prose"
    BY <1>1, <1>3, <2>1, <2>2 DEF ItemOK
  <2>3. CASE kind[i] = "tool"
    BY <1>1, <1>3, <1>7, <2>3 DEF ItemOK
  <2> QED BY <2>1, <2>2, <2>3
<1> QED BY <1>1, <1>2, <1>5, <1>6, <1>7, <1>8, <1>9

(* TextDelta keeps the machine in order.                                   *)
LEMMA TextGrows ==
    ASSUME MachineOK, NEW s \in Slots, NEW delta \in Seq(Characters), TextDelta(s, delta)
    PROVE  MachineOK'
<1>1. Fed(s, delta, FALSE, <<>>) /\ phase = "open"
      /\ UNCHANGED <<protocol, phase, kind, parts, stage, finished>>
  BY DEF TextDelta, Reads
<1>2. MachineTypes'
  BY <1>1, FedTypes DEF MachineOK, MachineTypes
<1> QED BY <1>1, <1>2, SameMachine

(* TextDone keeps the machine in order.                                    *)
LEMMA TextEnds ==
    ASSUME MachineOK, NEW s \in Slots, TextDone(s)
    PROVE  MachineOK'
<1>1. /\ \E then : Fed(s, <<>>, TRUE, then)
      /\ phase = "open" /\ stage[s] = "open" /\ kind[s[1]] = "prose" /\ protocol = "responses"
      /\ stage' = [stage EXCEPT ![s] = "closed"]
      /\ UNCHANGED <<protocol, phase, kind, parts, finished>>
  BY DEF TextDone, Reads
<1>2. <<>> \in Seq(Characters)
  OBVIOUS
<1>3. MachineTypes'
  BY <1>1, <1>2, FedTypes DEF MachineOK, MachineTypes, Stages
<1>4. ~finished[s[1]] /\ finished' = [finished EXCEPT ![s[1]] = FALSE]
  BY <1>1, StageMeans DEF MachineOK, MachineTypes
<1> QED BY <1>1, <1>3, <1>4, OneSlot

(* PartDone keeps the machine in order.                                    *)
LEMMA PartEnds ==
    ASSUME MachineOK, NEW s \in Slots, PartDone(s)
    PROVE  MachineOK'
<1>1. /\ phase = "open" /\ stage[s] = "closed" /\ kind[s[1]] = "prose"
      /\ stage' = [stage EXCEPT ![s] = "done"]
      /\ UNCHANGED <<protocol, phase, kind, parts, raw, suffix, text, finished>>
  BY DEF PartDone, Reads
<1>2. MachineTypes'
  BY <1>1 DEF MachineOK, MachineTypes, Stages
<1>3. protocol = "responses" /\ s[1] \in Items /\ s = <<s[1], s[2]>> /\ s[2] \in 1 .. parts[s[1]]
  <2>1. /\ protocol = "responses" /\ s[1] \in Items /\ s[2] \in Items /\ s = <<s[1], s[2]>>
        /\ s[2] <= parts[s[1]]
    BY <1>1, StageMeans
  <2>2. parts[s[1]] \in 0 .. MaxItems
    BY <2>1 DEF MachineOK, MachineTypes
  <2> QED BY <2>1, <2>2, ItemsAreNumbers
<1>4. ~finished[s[1]] /\ finished' = [finished EXCEPT ![s[1]] = FALSE]
  <2>1. ItemOK(s[1]) /\ MachineTypes
    BY <1>3 DEF MachineOK
  <2>2. ~finished[s[1]]
    BY <1>1, <1>3, <2>1 DEF ItemOK, MachineTypes
  <2> QED BY <1>1, <2>1, <2>2 DEF MachineTypes
<1> QED BY <1>1, <1>2, <1>3, <1>4, OneSlot

(* ToolDelta keeps the machine in order.                                   *)
LEMMA CallGrows ==
    ASSUME MachineOK, NEW i \in Items, NEW delta \in Seq(Characters), ToolDelta(i, delta)
    PROVE  MachineOK'
<1>1. /\ raw' = [raw EXCEPT ![<<i, 1>>] = @ \o delta] /\ phase = "open"
      /\ UNCHANGED <<protocol, phase, kind, parts, stage, suffix, text, finished>>
  BY DEF ToolDelta, Reads
<1>2. <<i, 1>> \in Slots
  BY StreamAssumption DEF Slots, Items
<1>3. raw[<<i, 1>>] \o delta \in Seq(Characters)
  BY <1>2 DEF MachineOK, MachineTypes
<1>4. MachineTypes'
  BY <1>1, <1>2, <1>3 DEF MachineOK, MachineTypes
<1> QED BY <1>1, <1>4, SameMachine

(* ArgumentsDone keeps the machine in order.                               *)
LEMMA CallEnds ==
    ASSUME MachineOK, NEW i \in Items, ArgumentsDone(i)
    PROVE  MachineOK'
<1>1. /\ phase = "open" /\ stage[<<i, 1>>] = "open" /\ kind[i] = "tool" /\ protocol = "responses"
      /\ stage' = [stage EXCEPT ![<<i, 1>>] = "closed"]
      /\ UNCHANGED <<protocol, phase, kind, parts, raw, suffix, text, finished>>
  BY DEF ArgumentsDone, Reads
<1>2. MachineTypes' /\ <<i, 1>> \in Slots /\ <<i, 1>>[1] = i
  BY <1>1, StreamAssumption DEF MachineOK, MachineTypes, Stages, Slots, Items
<1>3. ~finished[i] /\ finished' = [finished EXCEPT ![i] = FALSE]
  BY <1>1, <1>2, StageMeans DEF MachineOK, MachineTypes
<1> QED BY <1>1, <1>2, <1>3, OneSlot

(* ItemDone keeps the machine in order.                                    *)
LEMMA ItemEnds ==
    ASSUME MachineOK, NEW i \in Items, ItemDone(i)
    PROVE  MachineOK'
<1>1. /\ phase = "open" /\ protocol = "responses" /\ AllClosed(i) /\ kind[i] # "none"
      /\ finished' = [finished EXCEPT ![i] = TRUE]
      /\ UNCHANGED <<protocol, phase, kind, parts, stage, raw, suffix, text>>
  BY DEF ItemDone, Reads, Known
<1>2. MachineTypes' /\ ItemOK(i)
  BY <1>1 DEF MachineOK, MachineTypes
<1>3. finished'[i] /\ \A j \in Items \ {i} : finished'[j] = finished[j]
  BY <1>1 DEF MachineOK, MachineTypes
<1>4. ItemOK(i)'
  BY <1>1, <1>2, <1>3 DEF ItemOK, AllClosed
<1> QED BY <1>1, <1>2, <1>3, <1>4, OneItem

(* BlockStop keeps the machine in order.                                   *)
LEMMA BlockEnds ==
    ASSUME MachineOK, NEW i \in Items, BlockStop(i)
    PROVE  MachineOK'
<1>1. /\ phase = "open" /\ stage[<<i, 1>>] = "open" /\ kind[i] # "none" /\ protocol = "messages"
      /\ stage' = [stage EXCEPT ![<<i, 1>>] = "done"]
      /\ finished' = [finished EXCEPT ![i] = TRUE]
      /\ UNCHANGED <<protocol, phase, kind, parts>>
      /\ \/ UNCHANGED <<raw, suffix, text>>
         \/ \E then : Fed(<<i, 1>>, <<>>, TRUE, then)
  BY DEF BlockStop, Reads, Known
<1>2. <<i, 1>> \in Slots /\ <<i, 1>>[1] = i /\ <<>> \in Seq(Characters)
  BY StreamAssumption DEF Slots, Items
<1>3. MachineTypes'
  BY <1>1, <1>2, FedTypes DEF MachineOK, MachineTypes, Stages
<1> QED BY <1>1, <1>2, <1>3, OneSlot

(* Every step keeps the machine in order.                                  *)
LEMMA MachineStep ==
    ASSUME MachineOK, [Next]_vars
    PROVE  MachineOK'
<1>1. Chunks \subseteq Seq(Characters)
  BY StreamAssumption
<1>2. CASE Start
  <2>1. MachineTypes' /\ phase' = "open" /\ UNCHANGED <<protocol, kind, parts, stage, finished>>
    BY <1>2 DEF Start, MachineOK, MachineTypes
  <2> QED BY <2>1, SameMachine
<1>3. CASE MessageDelta
  <2>1. /\ MachineTypes' /\ UNCHANGED <<protocol, kind, parts, stage, finished>>
        /\ \A i \in Known : finished[i]
    BY <1>3 DEF MessageDelta, MachineOK, MachineTypes
  <2> QED BY <2>1, SameMachine
<1>4. CASE Complete
  <2>1. /\ UNCHANGED <<protocol, kind, parts, stage, raw, suffix, finished>> /\ phase' = "terminal"
        /\ \A i \in Known : finished[i]
        /\ text' = [s \in Slots |-> IF s[1] \in Tools THEN Restore(raw[s]) ELSE text[s]]
    BY <1>4 DEF Complete
  <2>2. text' \in [Slots -> Seq(Outputs)]
    <3>1. \A s \in Slots : Restore(raw[s]) \in Seq(Outputs) /\ text[s] \in Seq(Outputs)
      BY RestoreType DEF MachineOK, MachineTypes
    <3> QED BY <2>1, <3>1
  <2>3. MachineTypes'
    BY <2>1, <2>2 DEF MachineOK, MachineTypes
  <2> QED BY <2>1, <2>3, SameMachine
<1>5. CASE Eof
  <2>1. /\ MachineTypes' /\ UNCHANGED <<protocol, kind, parts, stage, finished>>
        /\ \A i \in Known : finished[i]
    BY <1>5 DEF Eof, Reads, MachineOK, MachineTypes
  <2> QED BY <2>1, SameMachine
<1>6. CASE Fail \/ Disconnect
  <2>1. /\ MachineTypes' /\ phase' = "failed" /\ UNCHANGED <<protocol, kind, parts, stage, finished>>
    BY <1>6 DEF Fail, Disconnect, MachineOK, MachineTypes
  <2> QED BY <2>1, SameMachine
<1>7. CASE Receive \/ UNCHANGED vars
  <2>1. UNCHANGED machineVars
    BY <1>7 DEF Receive, vars
  <2>2. MachineTypes' /\ UNCHANGED <<protocol, phase, kind, parts, stage, finished>>
    BY <2>1 DEF machineVars, MachineOK, MachineTypes
  <2> QED BY <2>2, SameMachine DEF MachineOK
<1>8. CASE \E i \in Items : AddPart(i) \/ ArgumentsDone(i) \/ ItemDone(i) \/ BlockStop(i)
  BY <1>8, PartIsAdded, CallEnds, ItemEnds, BlockEnds
<1>9. CASE \E k \in {"prose", "tool"} : AddItem(k)
  BY <1>9, ItemIsAdded
<1>10. CASE \E s \in Slots : TextDone(s) \/ PartDone(s)
  BY <1>10, TextEnds, PartEnds
<1>11. CASE \E s \in Slots, delta \in Chunks : TextDelta(s, delta)
  BY <1>1, <1>11, TextGrows
<1>12. CASE \E i \in Items, delta \in Chunks : ToolDelta(i, delta)
  BY <1>1, <1>12, CallGrows
<1> QED
  BY <1>2, <1>3, <1>4, <1>5, <1>6, <1>7, <1>8, <1>9, <1>10, <1>11, <1>12 DEF Next

-----------------------------------------------------------------------------
(* The text of every part.                                                 *)

Early == phase \in {"idle", "open", "stopping"}
Late == phase \in {"terminal", "ended"}

(* A part's text is the restored beginning of what was read of it, up to a *)
(* place that no token crosses; once it has ended, all of it.  A call has  *)
(* no text before the response has succeeded, and all of it then.          *)
PartText(s) ==
    /\ stage[s] = "none" => raw[s] = <<>> /\ suffix[s] = <<>> /\ text[s] = <<>>
    /\ kind[s[1]] # "tool" /\ stage[s] = "open" =>
         \E u \in Seq(Characters) :
            Clean(u, suffix[s]) /\ raw[s] = u \o suffix[s] /\ text[s] = Restore(u)
    /\ kind[s[1]] # "tool" /\ stage[s] # "open" => text[s] = Restore(raw[s])
    /\ kind[s[1]] = "tool" =>
         /\ text[s] \in {<<>>, Restore(raw[s])}
         /\ Early => text[s] = <<>>
         /\ Late => text[s] = Restore(raw[s])

AllText == (\A s \in Slots : PartText(s)) /\ SizeOfAll(text) <= MaxOutput

(* Before anything was read, nothing is held back.                         *)
LEMMA NothingIsClean ==
    /\ Clean(<<>>, <<>>) /\ <<>> \in Seq(Characters) /\ <<>> \o <<>> = <<>>
    /\ Restore(<<>>) = <<>>
<1>1. Clean(<<>>, <<>>)
  <2>1. 1 .. Len(<<>>) = {}
    OBVIOUS
  <2> QED BY <2>1 DEF Clean, Splits
<1>2. <<>> \in Seq(Characters) /\ <<>> \o <<>> = <<>>
  OBVIOUS
<1> QED BY <1>1, <1>2, RestoreNothing

(* A part that a step does not touch keeps what holds of its text.         *)
LEMMA UntouchedText ==
    ASSUME NEW s \in Slots, PartText(s), kind'[s[1]] = kind[s[1]], stage'[s] = stage[s],
           raw'[s] = raw[s], suffix'[s] = suffix[s], text'[s] = text[s],
           Early' => Early, Late' => Late
    PROVE  PartText(s)'
BY DEF PartText

(* A part, or a call, that has just begun.                                 *)
LEMMA NewText ==
    ASSUME NEW s \in Slots, PartText(s), stage[s] = "none", Early', ~Late',
           UNCHANGED <<raw, suffix, text>>
    PROVE  PartText(s)'
<1>1. raw'[s] = <<>> /\ suffix'[s] = <<>> /\ text'[s] = <<>>
  BY DEF PartText
<1> QED BY <1>1, NothingIsClean DEF PartText

(* A text that is fed grows, and stays the restored beginning.             *)
LEMMA FedText ==
    ASSUME MachineOK, NEW s \in Slots, PartText(s), stage[s] = "open", kind[s[1]] = "prose",
           UNCHANGED kind, NEW delta \in Seq(Characters), NEW final \in BOOLEAN, NEW then,
           Fed(s, delta, final, then),
           final => delta = <<>> /\ stage'[s] \in {"closed", "done"},
           ~final => stage'[s] = "open"
    PROVE  PartText(s)'
<1> DEFINE kept == suffix[s]
           f == Feed(kept, delta, final)
<1>1. PICK u \in Seq(Characters) : Clean(u, kept) /\ raw[s] = u \o kept /\ text[s] = Restore(u)
  BY DEF PartText
<1>2. kept \in Seq(Characters) /\ raw[s] \in Seq(Characters)
  BY DEF MachineOK, MachineTypes
<1>3. raw'[s] = raw[s] \o delta /\ suffix'[s] = f.suffix /\ text'[s] = text[s] \o f.text
  BY DEF Fed, MachineOK, MachineTypes
<1>4. CASE ~final
  <2> DEFINE out == SubSeq(kept \o delta, 1, Released(kept \o delta, FALSE))
  <2> DEFINE g == Feed(kept, delta, FALSE)
  <2>1. /\ out \in Seq(Characters)
        /\ (u \o out) \o g.suffix = (u \o kept) \o delta
        /\ Restore(u \o out) = Restore(u) \o g.text
        /\ Clean(u \o out, g.suffix)
    <3>1. Clean(u, kept)
      BY <1>1
    <3> HIDE DEF kept
    <3> QED BY <1>2, <3>1, FeedRestores
  <2>0. f = g
    BY <1>4
  <2> HIDE DEF out, f, g
  <2>2. u \o out \in Seq(Characters)
    BY <2>1
  <2>3. /\ Clean(u \o out, suffix'[s]) /\ raw'[s] = (u \o out) \o suffix'[s]
        /\ text'[s] = Restore(u \o out)
    BY <1>1, <1>3, <2>0, <2>1
  <2> QED BY <1>4, <2>2, <2>3 DEF PartText
<1>5. CASE final
  <2>1. Restore(u \o kept) = Restore(u) \o f.text
    BY <1>1, <1>2, <1>5, FlushRestores
  <2>2. raw'[s] = raw[s]
    BY <1>2, <1>3, <1>5
  <2>3. text'[s] = Restore(raw'[s])
    BY <1>1, <1>3, <2>1, <2>2
  <2> QED BY <1>5, <2>3 DEF PartText
<1> QED BY <1>4, <1>5

(* What feeding a part leaves alone.                                       *)
LEMMA FedTexts ==
    ASSUME MachineOK, AllText, NEW s \in Slots, stage[s] = "open", kind[s[1]] = "prose",
           UNCHANGED kind, NEW delta \in Seq(Characters), NEW final \in BOOLEAN, NEW then,
           Fed(s, delta, final, then), NEW new \in Stages, stage' = [stage EXCEPT ![s] = new],
           final => delta = <<>> /\ new \in {"closed", "done"},
           ~final => new = "open",
           Early, Early'
    PROVE  AllText'
<1>1. /\ raw' = [raw EXCEPT ![s] = @ \o delta]
      /\ suffix' = [suffix EXCEPT ![s] = Feed(suffix[s], delta, final).suffix]
      /\ text' = [text EXCEPT ![s] = text[s] \o Feed(suffix[s], delta, final).text]
      /\ SizeOfAll(text') <= MaxOutput
  BY DEF Fed, RestoredFits
<1>2. MachineTypes /\ (Late' => Late)
  BY DEF MachineOK, Early, Late
<1>3. \A q \in Slots \ {s} : /\ stage'[q] = stage[q] /\ raw'[q] = raw[q]
                             /\ suffix'[q] = suffix[q] /\ text'[q] = text[q]
  BY <1>1 DEF MachineOK, MachineTypes
<1>4. ASSUME NEW q \in Slots \ {s} PROVE PartText(q)'
  <2>1. q \in Slots /\ PartText(q) /\ kind'[q[1]] = kind[q[1]]
    BY DEF AllText
  <2>2. /\ stage'[q] = stage[q] /\ raw'[q] = raw[q]
        /\ suffix'[q] = suffix[q] /\ text'[q] = text[q]
    BY <1>3
  <2> QED BY <1>2, <2>1, <2>2, UntouchedText
<1>5. stage'[s] = new
  BY DEF MachineOK, MachineTypes
<1>6. PartText(s)'
  BY <1>5, FedText DEF AllText
<1> QED BY <1>1, <1>4, <1>6 DEF AllText

(* No part has a text at the start.                                        *)
LEMMA TextsStart ==
    ASSUME Init
    PROVE  AllText
<1>1. \A s \in Slots : stage[s] = "none" /\ raw[s] = <<>> /\ suffix[s] = <<>> /\ text[s] = <<>>
  BY DEF Init
<1>2. \A s \in Slots : PartText(s)
  BY <1>1, NothingIsClean DEF PartText
<1>3. SizeOfAll(text) = 0
  BY <1>1, NothingWeighsNothing, ItemsAreNumbers
<1> QED BY <1>2, <1>3, ItemsAreNumbers DEF AllText

(* A step that leaves all text alone, and every stage but of prose that    *)
(* has been closed.                                                        *)
LEMMA SameTexts ==
    ASSUME MachineOK, AllText, UNCHANGED <<kind, stage, raw, suffix, text>>,
           Early' => Early, Late' => Late
    PROVE  AllText'
BY UntouchedText DEF AllText

(* A step that begins an item or a part keeps what holds of all texts.     *)
LEMMA BegunTexts ==
    ASSUME MachineOK, AllText, UNCHANGED <<phase, raw, suffix, text>>, phase = "open",
           \A q \in Slots : \/ kind'[q[1]] = kind[q[1]] /\ stage'[q] = stage[q]
                            \/ stage[q] = "none"
    PROVE  AllText'
<1>1. Early /\ Early' /\ ~Late /\ ~Late'
  BY DEF Early, Late
<1>2. ASSUME NEW q \in Slots PROVE PartText(q)'
  <2>1. CASE kind'[q[1]] = kind[q[1]] /\ stage'[q] = stage[q]
    BY <1>1, <2>1, UntouchedText DEF AllText
  <2>2. CASE stage[q] = "none"
    BY <1>1, <2>2, NewText DEF AllText
  <2> QED BY <2>1, <2>2
<1> QED BY <1>2 DEF AllText

(* A call's arguments are read and not yet restored.                       *)
LEMMA CallTexts ==
    ASSUME MachineOK, AllText, NEW s \in Slots, kind[s[1]] = "tool", UNCHANGED <<phase, kind, text, suffix>>,
           phase = "open", stage[s] # "none",
           \A q \in Slots \ {s} : raw'[q] = raw[q] /\ stage'[q] = stage[q],
           stage'[s] # "none"
    PROVE  AllText'
<1>1. Early /\ Early' /\ ~Late /\ ~Late'
  BY DEF Early, Late
<1>2. \A q \in Slots \ {s} : PartText(q)'
  BY <1>1, UntouchedText DEF AllText
<1>3. PartText(s)'
  BY <1>1 DEF AllText, PartText
<1> QED BY <1>2, <1>3 DEF AllText

(* Every step keeps what holds of all texts.                               *)
LEMMA TextStep ==
    ASSUME MachineOK, AllText, [Next]_vars
    PROVE  AllText'
<1> USE DEF Reads
<1>1. Chunks \subseteq Seq(Characters) /\ <<>> \in Seq(Characters)
  BY StreamAssumption, NothingIsClean
<1>2. MachineTypes /\ \A s \in Slots : PartText(s)
  BY DEF MachineOK, AllText
<1>3. CASE Start \/ MessageDelta
  <2>1. UNCHANGED <<kind, stage, raw, suffix, text>> /\ (Early' => Early) /\ (Late' => Late)
    BY <1>3 DEF Start, MessageDelta, Early, Late
  <2> QED BY <2>1, SameTexts
<1>4. CASE Eof \/ Fail \/ Disconnect
  <2>1. UNCHANGED <<kind, stage, raw, suffix, text>> /\ (Early' => Early) /\ (Late' => Late)
    BY <1>4 DEF Eof, Fail, Disconnect, Early, Late
  <2> QED BY <2>1, SameTexts
<1>5. CASE Receive \/ UNCHANGED vars
  <2>1. UNCHANGED machineVars
    BY <1>5 DEF Receive, vars
  <2>2. UNCHANGED <<kind, stage, raw, suffix, text>> /\ (Early' => Early) /\ (Late' => Late)
    BY <2>1 DEF machineVars, Early, Late
  <2> QED BY <2>2, SameTexts
<1>6. CASE Complete
  <2>1. /\ UNCHANGED <<kind, stage, raw, suffix>> /\ phase' = "terminal" /\ SizeOfAll(text') <= MaxOutput
        /\ text' = [s \in Slots |-> IF s[1] \in Tools THEN Restore(raw[s]) ELSE text[s]]
    BY <1>6 DEF Complete, RestoredFits
  <2>2. ~Early' /\ \A s \in Slots : s[1] \in Items
    BY <2>1 DEF Early, Slots
  <2>3. ASSUME NEW s \in Slots PROVE PartText(s)'
    <3>1. CASE kind[s[1]] = "tool"
      <4>1. text'[s] = Restore(raw[s])
        BY <2>1, <2>2, <3>1 DEF Tools
      <4>2. stage[s] = "none" => raw[s] = <<>> /\ suffix[s] = <<>>
        BY <1>2 DEF PartText
      <4> QED BY <2>1, <2>2, <3>1, <4>1, <4>2, NothingIsClean DEF PartText
    <3>2. CASE kind[s[1]] # "tool"
      <4>1. text'[s] = text[s]
        BY <2>1, <3>2 DEF Tools
      <4> QED BY <1>2, <2>1, <3>2, <4>1 DEF PartText
    <3> QED BY <3>1, <3>2
  <2> QED BY <2>1, <2>3 DEF AllText
<1>7. ASSUME NEW k \in {"prose", "tool"}, AddItem(k) PROVE AllText'
  <2>1. PICK i \in Items : /\ kind[i] = "none" /\ kind' = [kind EXCEPT ![i] = k]
                           /\ \E x : stage' = [stage EXCEPT ![<<i, 1>>] = x]
    BY <1>7 DEF AddItem, Known
  <2>2. UNCHANGED <<phase, raw, suffix, text>> /\ phase = "open"
    BY <1>7 DEF AddItem
  <2>3. ASSUME NEW q \in Slots
        PROVE  \/ kind'[q[1]] = kind[q[1]] /\ stage'[q] = stage[q]
               \/ stage[q] = "none"
    <3>1. CASE q[1] = i
      BY <2>1, <3>1, StageMeans
    <3>2. CASE q[1] # i
      <4>1. q # <<i, 1>>
        BY <3>2
      <4> QED BY <1>2, <2>1, <3>2, <4>1 DEF MachineTypes
    <3> QED BY <3>1, <3>2
  <2> QED BY <2>2, <2>3, BegunTexts
<1>8. ASSUME NEW i \in Items, AddPart(i) PROVE AllText'
  <2>1. /\ UNCHANGED <<phase, kind, raw, suffix, text>> /\ phase = "open"
        /\ stage' = [stage EXCEPT ![<<i, parts[i] + 1>>] = "open"]
    BY <1>8 DEF AddPart
  <2>2. ASSUME NEW q \in Slots
        PROVE  \/ kind'[q[1]] = kind[q[1]] /\ stage'[q] = stage[q]
               \/ stage[q] = "none"
    <3>1. CASE q = <<i, parts[i] + 1>>
      <4>1. q[1] = i /\ q[2] = parts[i] + 1 /\ parts[i] \in Nat
        BY <1>2, <3>1 DEF MachineTypes
      <4>2. stage[q] # "none" => parts[i] + 1 <= parts[i]
        BY <4>1, StageMeans
      <4> QED BY <4>1, <4>2
    <3>2. CASE q # <<i, parts[i] + 1>>
      BY <1>2, <2>1, <3>2 DEF MachineTypes
    <3> QED BY <3>1, <3>2
  <2> QED BY <2>1, <2>2, BegunTexts
<1>9. ASSUME NEW s \in Slots, NEW delta \in Chunks, TextDelta(s, delta) PROVE AllText'
  <2>1. /\ Fed(s, delta, FALSE, <<>>) /\ kind[s[1]] = "prose" /\ stage[s] = "open"
        /\ UNCHANGED <<phase, kind>> /\ phase = "open" /\ stage' = stage
    BY <1>9 DEF TextDelta
  <2>2. stage' = [stage EXCEPT ![s] = "open"] /\ Early /\ Early' /\ delta \in Seq(Characters)
        /\ "open" \in Stages
    BY <1>1, <1>2, <2>1 DEF MachineTypes, Early, Stages
  <2> QED BY <2>1, <2>2, FedTexts
<1>10. ASSUME NEW s \in Slots, TextDone(s) PROVE AllText'
  <2>1. /\ \E then : Fed(s, <<>>, TRUE, then)
        /\ kind[s[1]] = "prose" /\ stage[s] = "open"
        /\ UNCHANGED <<phase, kind>> /\ phase = "open" /\ stage' = [stage EXCEPT ![s] = "closed"]
    BY <1>10 DEF TextDone
  <2>2. Early /\ Early' /\ "closed" \in Stages
    BY <2>1 DEF Early, Stages
  <2> QED BY <1>1, <2>1, <2>2, FedTexts
<1>11. ASSUME NEW s \in Slots, PartDone(s) PROVE AllText'
  <2>1. /\ UNCHANGED <<phase, kind, raw, suffix, text>> /\ kind[s[1]] = "prose"
        /\ stage[s] = "closed" /\ stage' = [stage EXCEPT ![s] = "done"] /\ phase = "open"
    BY <1>11 DEF PartDone
  <2>2. \A q \in Slots \ {s} : stage'[q] = stage[q] /\ stage'[s] = "done"
    BY <1>2, <2>1 DEF MachineTypes
  <2>3. \A q \in Slots \ {s} : PartText(q)'
    BY <1>2, <2>1, <2>2, UntouchedText DEF Early, Late
  <2>4. PartText(s)'
    BY <1>2, <2>1, <1>2 DEF PartText, MachineTypes
  <2> QED BY <2>1, <2>3, <2>4 DEF AllText
<1>12. ASSUME NEW i \in Items, NEW delta \in Chunks, ToolDelta(i, delta) PROVE AllText'
  <2>1. /\ raw' = [raw EXCEPT ![<<i, 1>>] = @ \o delta]
        /\ UNCHANGED <<phase, kind, stage, suffix, text>>
        /\ phase = "open" /\ kind[i] = "tool" /\ stage[<<i, 1>>] = "open"
    BY <1>12 DEF ToolDelta
  <2>2. <<i, 1>> \in Slots /\ <<i, 1>>[1] = i
    BY ItemsAreNumbers DEF Slots
  <2>3. \A q \in Slots \ {<<i, 1>>} : raw'[q] = raw[q] /\ stage'[q] = stage[q]
    BY <1>2, <2>1 DEF MachineTypes
  <2> QED BY <2>1, <2>2, <2>3, CallTexts
<1>13. ASSUME NEW i \in Items, ArgumentsDone(i) \/ (BlockStop(i) /\ kind[i] = "tool") PROVE AllText'
  <2>1. /\ \E x \in {"closed", "done"} : stage' = [stage EXCEPT ![<<i, 1>>] = x]
        /\ UNCHANGED <<phase, kind, raw, suffix, text>>
        /\ phase = "open" /\ kind[i] = "tool" /\ stage[<<i, 1>>] = "open"
    BY <1>13 DEF ArgumentsDone, BlockStop
  <2>2. <<i, 1>> \in Slots /\ <<i, 1>>[1] = i
    BY ItemsAreNumbers DEF Slots
  <2>3. /\ \A q \in Slots \ {<<i, 1>>} : raw'[q] = raw[q] /\ stage'[q] = stage[q]
        /\ stage'[<<i, 1>>] # "none"
    BY <1>2, <2>1, <2>2 DEF MachineTypes
  <2> QED BY <2>1, <2>2, <2>3, CallTexts
<1>14. ASSUME NEW i \in Items, ItemDone(i) PROVE AllText'
  <2>1. UNCHANGED <<kind, stage, raw, suffix, text>> /\ (Early' => Early) /\ (Late' => Late)
    BY <1>14 DEF ItemDone, Early, Late
  <2> QED BY <2>1, SameTexts
<1>15. ASSUME NEW i \in Items, BlockStop(i), kind[i] # "tool" PROVE AllText'
  <2>1. /\ \E then : Fed(<<i, 1>>, <<>>, TRUE, then)
        /\ kind[i] = "prose" /\ stage[<<i, 1>>] = "open"
        /\ UNCHANGED <<phase, kind>> /\ phase = "open" /\ stage' = [stage EXCEPT ![<<i, 1>>] = "done"]
    BY <1>2, <1>15 DEF BlockStop, Known, MachineTypes
  <2>2. Early /\ Early' /\ "done" \in Stages /\ <<i, 1>> \in Slots /\ <<i, 1>>[1] = i
    BY <2>1, ItemsAreNumbers DEF Early, Stages, Slots
  <2> QED BY <1>1, <2>1, <2>2, FedTexts
<1> QED
  BY <1>3, <1>4, <1>5, <1>6, <1>7, <1>8, <1>9, <1>10, <1>11, <1>12, <1>13, <1>14, <1>15 DEF Next

-----------------------------------------------------------------------------
(* Flattening a sequence of sequences.                                     *)

(* Induction up an interval, for a set of numbers.                         *)
LEMMA UpTheInterval ==
    ASSUME NEW n \in Nat, NEW G, 1 \in G,
           \A i \in 1 .. n : i > 1 /\ i - 1 \in G => i \in G
    PROVE  \A i \in 1 .. n : i \in G
<1> DEFINE T == {i \in 1 .. n : i \notin G}
<1>1. SUFFICES ASSUME T # {} PROVE FALSE
  OBVIOUS
<1>2. PICK x \in T : \A y \in T : x <= y
  <2>1. T \in SUBSET Nat
    OBVIOUS
  <2> HIDE DEF T
  <2> QED BY <1>1, <2>1, LeastNumber
<1>3. x \in 1 .. n /\ x \notin G /\ x > 1
  <2>1. x \in 1 .. n /\ x \notin G
    OBVIOUS
  <2>2. x # 1
    BY <2>1
  <2> QED BY <2>1, <2>2
<1>4. x - 1 \in 1 .. n /\ x - 1 < x
  BY <1>3
<1>5. x - 1 \in G
  <2>1. x - 1 \notin T
    BY <1>2, <1>4
  <2> QED BY <1>4, <2>1
<1> QED BY <1>3, <1>5

(* FlattenSeq, one element at a time.                                      *)
Joined(q, f, i) == IF i = 1 THEN q[i] ELSE f[i - 1] \o q[i]
JoinsUpTo(q, f, n) == f = [i \in 1 .. n |-> Joined(q, f, i)]

(* The joins of a sequence of sequences can be computed, from the first on.*)
LEMMA JoinsExist ==
    ASSUME NEW q, NEW n \in Nat
    PROVE  \A m \in 1 .. n : \E f : JoinsUpTo(q, f, m)
<1> DEFINE G == {m \in 1 .. n : \E f : JoinsUpTo(q, f, m)}
<1>1. CASE n = 0
  BY <1>1
<1>2. CASE n # 0
  <2>1. 1 \in G
    <3> DEFINE f == [i \in {1} |-> q[1]]
    <3>1. 1 .. 1 = {1} /\ 1 \in 1 .. n
      BY <1>2
    <3>2. f = [i \in 1 .. 1 |-> Joined(q, f, i)]
      BY <3>1 DEF Joined
    <3>3. JoinsUpTo(q, f, 1)
      BY <3>2 DEF JoinsUpTo
    <3> QED BY <3>1, <3>3
  <2>2. ASSUME NEW i \in 1 .. n, i > 1, i - 1 \in G PROVE i \in G
    <3>1. PICK g : JoinsUpTo(q, g, i - 1)
      BY <2>2
    <3> DEFINE f == [k \in 1 .. i |-> IF k = i THEN Joined(q, g, i) ELSE g[k]]
    <3>2. \A k \in 1 .. i - 1 : f[k] = g[k]
      OBVIOUS
    <3>3. \A k \in 1 .. i : Joined(q, f, k) = Joined(q, g, k)
      BY <3>2 DEF Joined
    <3>4. \A k \in 1 .. i - 1 : g[k] = Joined(q, g, k)
      BY <3>1 DEF JoinsUpTo
    <3>5. f = [k \in 1 .. i |-> Joined(q, f, k)]
      BY <3>3, <3>4
    <3>6. JoinsUpTo(q, f, i)
      BY <3>5 DEF JoinsUpTo
    <3> QED BY <3>6
  <2>3. \A i \in 1 .. n : i \in G
    <3> HIDE DEF G
    <3> QED BY <2>1, <2>2, UpTheInterval
  <2> QED BY <2>3
<1> QED BY <1>1, <1>2

(* Each join is the one before it and one more sequence.                   *)
LEMMA JoinsMeans ==
    ASSUME NEW q, NEW f, NEW n \in Nat, JoinsUpTo(q, f, n)
    PROVE  \A i \in 1 .. n : f[i] = Joined(q, f, i)
<1> DEFINE h == [i \in 1 .. n |-> Joined(q, f, i)]
<1>1. f = h
  BY DEF JoinsUpTo
<1>2. \A i \in 1 .. n : h[i] = Joined(q, f, i)
  OBVIOUS
<1> QED BY <1>1, <1>2, Zenon

(* Sequences that begin alike have the same joins as far as they do.       *)
LEMMA JoinsAgree ==
    ASSUME NEW q, NEW r, NEW f, NEW g, NEW n \in Nat, NEW m \in Nat, n <= m,
           \A i \in 1 .. n : q[i] = r[i], JoinsUpTo(q, f, n), JoinsUpTo(r, g, m)
    PROVE  \A i \in 1 .. n : f[i] = g[i]
<1> DEFINE G == {i \in 1 .. n : f[i] = g[i]}
<1>1. /\ \A i \in 1 .. n : f[i] = Joined(q, f, i)
      /\ \A i \in 1 .. n : g[i] = Joined(r, g, i)
  <2>1. \A i \in 1 .. n : i \in 1 .. m
    OBVIOUS
  <2> QED BY <2>1, JoinsMeans
<1>2. CASE n = 0
  BY <1>2
<1>3. CASE n # 0
  <2>1. 1 \in G
    BY <1>1, <1>3 DEF Joined
  <2>2. ASSUME NEW i \in 1 .. n, i > 1, i - 1 \in G PROVE i \in G
    BY <1>1, <2>2 DEF Joined
  <2>3. \A i \in 1 .. n : i \in G
    <3> HIDE DEF G
    <3> QED BY <2>1, <2>2, UpTheInterval
  <2> QED BY <2>3
<1> QED BY <1>2, <1>3

(* FlattenSeq is the last of the joins.                                    *)
LEMMA FlattenIsJoined ==
    ASSUME NEW q, Len(q) \in Nat \ {0}
    PROVE  \E f : JoinsUpTo(q, f, Len(q)) /\ FlattenSeq(q) = f[Len(q)]
<1> DEFINE n == Len(q)
           Eq(f) == f = [i \in 1 .. n |-> IF i = 1 THEN q[i] ELSE f[i - 1] \o q[i]]
           flatten == CHOOSE f : Eq(f)
<1>1. FlattenSeq(q) = flatten[n]
  BY DEF FlattenSeq
<1>2. \A f : Eq(f) <=> JoinsUpTo(q, f, n)
  BY DEF JoinsUpTo, Joined
<1>3. \E f : Eq(f)
  <2>1. n \in 1 .. n /\ n \in Nat
    OBVIOUS
  <2> HIDE DEF Eq, n
  <2>2. \E f : JoinsUpTo(q, f, n)
    BY <2>1, JoinsExist
  <2> QED BY <1>2, <2>2
<1>4. Eq(flatten)
  <2> HIDE DEF Eq
  <2> QED BY <1>3
<1> HIDE DEF Eq, flatten
<1> QED BY <1>1, <1>2, <1>4

(* One more sequence is flattened to the end.                              *)
LEMMA FlattenAppend ==
    ASSUME NEW E, NEW q \in Seq(Seq(E)), NEW x \in Seq(E)
    PROVE  FlattenSeq(Append(q, x)) = IF q = <<>> THEN x ELSE FlattenSeq(q) \o x
<1> DEFINE r == Append(q, x)
           n == Len(q)
<1>1. Len(r) = n + 1 /\ n \in Nat /\ r[n + 1] = x /\ \A i \in 1 .. n : r[i] = q[i]
  OBVIOUS
<1> HIDE DEF r
<1>2. PICK g : JoinsUpTo(r, g, n + 1) /\ FlattenSeq(r) = g[n + 1]
  BY <1>1, FlattenIsJoined
<1>3. g[n + 1] = Joined(r, g, n + 1)
  <2>1. n + 1 \in Nat /\ n + 1 \in 1 .. n + 1
    BY <1>1
  <2> HIDE DEF n
  <2> QED BY <1>2, <2>1, JoinsMeans
<1>4. CASE q = <<>>
  <2>1. n = 0
    BY <1>4
  <2> QED BY <1>1, <1>2, <1>3, <1>4, <2>1 DEF Joined, r
<1>5. CASE q # <<>>
  <2>1. n \in Nat \ {0}
    BY <1>5
  <2>2. PICK f : JoinsUpTo(q, f, n) /\ FlattenSeq(q) = f[n]
    BY <2>1, FlattenIsJoined
  <2>3. f[n] = g[n]
    <3> HIDE DEF n
    <3>1. n + 1 \in Nat /\ n <= n + 1 /\ n \in 1 .. n
      BY <2>1
    <3>2. \A i \in 1 .. n : q[i] = r[i]
      BY <1>1
    <3> QED BY <1>1, <1>2, <2>2, <3>1, <3>2, JoinsAgree
  <2>4. g[n + 1] = g[n] \o x
    BY <1>1, <1>3, <2>1 DEF Joined
  <2> QED BY <1>2, <1>5, <2>2, <2>3, <2>4 DEF r
<1> QED BY <1>4, <1>5

-----------------------------------------------------------------------------
(* The client, as a value: what it is told and what makes sense to it.     *)

(* What a client may know, what an event makes of it, and whether the      *)
(* event makes sense to it; known are the items of the response.           *)
Clients == [session : {"waiting", "greeted", "complete"},
            seen : [Items -> {"hidden", "open", "done"}],
            heard : [Slots -> Seq(Outputs)],
            end : [Slots -> Stages]]

Told(c, e) ==
    LET s == <<e.item, e.part>> IN
    [session |-> IF e.type = "start" THEN "greeted"
                 ELSE IF e.type = "complete" THEN "complete" ELSE c.session,
     seen |-> IF e.type = "added" THEN [c.seen EXCEPT ![e.item] = "open"]
              ELSE IF e.type \in {"item", "stop"} THEN [c.seen EXCEPT ![e.item] = "done"]
              ELSE c.seen,
     heard |-> IF e.type = "delta" THEN [c.heard EXCEPT ![s] = @ \o e.text] ELSE c.heard,
     end |-> IF e.type \in {"part", "added"} /\ s \in Slots THEN [c.end EXCEPT ![s] = "open"]
             ELSE IF e.type = "closed" THEN [c.end EXCEPT ![s] = "closed"]
             ELSE IF e.type \in {"done", "stop"} THEN [c.end EXCEPT ![s] = "done"]
             ELSE c.end]

MakesSense(known, c, e) ==
    LET s == <<e.item, e.part>> IN
    CASE e.type = "start" -> c.session = "waiting"
      [] e.type = "added" -> c.session = "greeted" /\ c.seen[e.item] = "hidden"
      [] e.type = "part" -> c.seen[e.item] = "open" /\ c.end[s] = "none"
      [] e.type = "delta" -> c.seen[e.item] = "open" /\ c.end[s] = "open"
      [] e.type = "closed" -> c.end[s] = "open" /\ c.heard[s] = e.text
      [] e.type = "done" -> c.end[s] = "closed" /\ c.heard[s] = e.text
      [] e.type = "item" ->
           /\ c.seen[e.item] = "open"
           /\ \A p \in Items : c.end[<<e.item, p>>] # "open" /\ c.heard[<<e.item, p>>] = e.text[p]
      [] e.type = "stop" -> c.seen[e.item] = "open" /\ c.end[s] = "open"
      [] e.type = "complete" ->
           /\ c.session = "greeted"
           /\ \A i \in Items : c.seen[i] = IF i \in known THEN "done" ELSE "hidden"
           /\ c.heard = e.text

(* A client at c that is told q, one event after the other, ends at d;     *)
(* every event makes sense to it, and it never leaves S.                   *)
Follows(known, S, c, q, f, d) ==
    /\ f[0] = c /\ f[Len(q)] = d
    /\ \A k \in 0 .. Len(q) : f[k] \in S
    /\ \A k \in 1 .. Len(q) : MakesSense(known, f[k - 1], q[k]) /\ f[k] = Told(f[k - 1], q[k])

Goes(known, S, c, q, d) ==
    (\E E : q \in Seq(E)) /\ \E f : Follows(known, S, c, q, f, d)

(* Clients that know the same are the same.                                *)
LEMMA SameClient ==
    ASSUME NEW c \in Clients, NEW d \in Clients, c.session = d.session,
           \A i \in Items : c.seen[i] = d.seen[i],
           \A s \in Slots : c.heard[s] = d.heard[s],
           \A s \in Slots : c.end[s] = d.end[s]
    PROVE  c = d
<1>1. c.seen = d.seen
  BY DEF Clients
<1>2. c.heard = d.heard
  BY DEF Clients
<1>3. c.end = d.end
  BY DEF Clients
<1> QED BY <1>1, <1>2, <1>3 DEF Clients

(* What an event makes of a client, field by field.                        *)
LEMMA ToldMeans ==
    ASSUME NEW c \in Clients, NEW e, e.type = "delta" => e.text \in Seq(Outputs)
    PROVE  LET t == Told(c, e)
               x == <<e.item, e.part>>
           IN
           /\ t \in Clients
           /\ t.session = IF e.type = "start" THEN "greeted"
                          ELSE IF e.type = "complete" THEN "complete" ELSE c.session
           /\ \A i \in Items :
                t.seen[i] = IF i = e.item /\ e.type = "added" THEN "open"
                            ELSE IF i = e.item /\ e.type \in {"item", "stop"} THEN "done"
                            ELSE c.seen[i]
           /\ \A s \in Slots :
                t.heard[s] = IF s = x /\ e.type = "delta" THEN c.heard[s] \o e.text
                             ELSE c.heard[s]
           /\ \A s \in Slots :
                t.end[s] = IF s = x /\ e.type \in {"part", "added"} THEN "open"
                           ELSE IF s = x /\ e.type = "closed" THEN "closed"
                           ELSE IF s = x /\ e.type \in {"done", "stop"} THEN "done"
                           ELSE c.end[s]
<1> DEFINE t == Told(c, e)
           x == <<e.item, e.part>>
           hrd == IF e.type = "delta" THEN [c.heard EXCEPT ![x] = @ \o e.text] ELSE c.heard
           sn == IF e.type = "added" THEN [c.seen EXCEPT ![e.item] = "open"]
                 ELSE IF e.type \in {"item", "stop"} THEN [c.seen EXCEPT ![e.item] = "done"]
                 ELSE c.seen
           nd == IF e.type \in {"part", "added"} /\ x \in Slots THEN [c.end EXCEPT ![x] = "open"]
                 ELSE IF e.type = "closed" THEN [c.end EXCEPT ![x] = "closed"]
                 ELSE IF e.type \in {"done", "stop"} THEN [c.end EXCEPT ![x] = "done"]
                 ELSE c.end
           ssn == IF e.type = "start" THEN "greeted"
                  ELSE IF e.type = "complete" THEN "complete" ELSE c.session
<1>1. t = [session |-> ssn, seen |-> sn, heard |-> hrd, end |-> nd]
  BY DEF Told
<1>2. /\ c.session \in {"waiting", "greeted", "complete"}
      /\ c.seen \in [Items -> {"hidden", "open", "done"}]
      /\ c.heard \in [Slots -> Seq(Outputs)]
      /\ c.end \in [Slots -> Stages]
  BY DEF Clients
<1>3. t.session = ssn /\ t.seen = sn /\ t.heard = hrd /\ t.end = nd
  BY <1>1
<1>4. /\ hrd \in [Slots -> Seq(Outputs)]
      /\ \A s \in Slots : hrd[s] = IF s = x /\ e.type = "delta" THEN c.heard[s] \o e.text
                                   ELSE c.heard[s]
  <2>1. CASE e.type = "delta"
    <3>1. \A s \in Slots : c.heard[s] \o e.text \in Seq(Outputs)
      BY <1>2, <2>1
    <3> QED BY <1>2, <2>1, <3>1
  <2>2. CASE e.type # "delta"
    BY <1>2, <2>2
  <2> QED BY <2>1, <2>2
<1>5. /\ sn \in [Items -> {"hidden", "open", "done"}]
      /\ \A i \in Items : sn[i] = IF i = e.item /\ e.type = "added" THEN "open"
                                  ELSE IF i = e.item /\ e.type \in {"item", "stop"} THEN "done"
                                  ELSE c.seen[i]
  BY <1>2
<1>6. /\ nd \in [Slots -> Stages]
      /\ \A s \in Slots : nd[s] = IF s = x /\ e.type \in {"part", "added"} THEN "open"
                                  ELSE IF s = x /\ e.type = "closed" THEN "closed"
                                  ELSE IF s = x /\ e.type \in {"done", "stop"} THEN "done"
                                  ELSE c.end[s]
  BY <1>2 DEF Stages
<1>7. ssn \in {"waiting", "greeted", "complete"}
  BY <1>2
<1> HIDE DEF t, hrd, sn, nd, ssn
<1>8. t \in Clients
  BY <1>1, <1>4, <1>5, <1>6, <1>7 DEF Clients
<1>9. t.session = IF e.type = "start" THEN "greeted"
                  ELSE IF e.type = "complete" THEN "complete" ELSE c.session
  BY <1>3 DEF ssn
<1> QED BY <1>3, <1>4, <1>5, <1>6, <1>8, <1>9 DEF t

(* Nothing to be told.                                                     *)
LEMMA GoesNowhere ==
    ASSUME NEW known, NEW S, NEW c
    PROVE  /\ c \in S => Goes(known, S, c, <<>>, c)
           /\ \A d : Goes(known, S, c, <<>>, d) => c = d /\ c \in S
<1>1. Len(<<>>) = 0 /\ <<>> \in Seq({}) /\ 0 .. 0 = {0} /\ 1 .. 0 = {}
  OBVIOUS
<1>2. ASSUME c \in S PROVE Goes(known, S, c, <<>>, c)
  <2> DEFINE f == [k \in {0} |-> c]
  <2>1. f[0] = c
    OBVIOUS
  <2> HIDE DEF f
  <2>2. Follows(known, S, c, <<>>, f, c)
    BY <1>1, <1>2, <2>1 DEF Follows
  <2> QED BY <1>1, <2>2 DEF Goes
<1>3. ASSUME NEW d, Goes(known, S, c, <<>>, d) PROVE c = d /\ c \in S
  BY <1>1, <1>3 DEF Goes, Follows
<1> QED BY <1>2, <1>3

(* One event more at the end.                                              *)
LEMMA GoesOn ==
    ASSUME NEW known, NEW S, NEW c, NEW q, NEW d, NEW e,
           Goes(known, S, c, q, d), MakesSense(known, d, e), Told(d, e) \in S
    PROVE  Goes(known, S, c, Append(q, e), Told(d, e))
<1>1. PICK E : q \in Seq(E)
  BY DEF Goes
<1>2. PICK f : Follows(known, S, c, q, f, d)
  BY DEF Goes
<1> DEFINE n == Len(q)
           r == Append(q, e)
           D == E \cup {e}
           g == [k \in 0 .. n + 1 |-> IF k = n + 1 THEN Told(d, e) ELSE f[k]]
<1>3. r \in Seq(D) /\ Len(r) = n + 1 /\ n \in Nat /\ r[n + 1] = e /\ \A k \in 1 .. n : r[k] = q[k]
  <2>1. q \in Seq(D) /\ e \in D
    BY <1>1
  <2> HIDE DEF D
  <2> QED BY <2>1
<1>4. g[n + 1] = Told(d, e) /\ \A k \in 0 .. n : g[k] = f[k]
  BY <1>3
<1> HIDE DEF g, r, n, D
<1>5. /\ f[0] = c /\ f[n] = d
      /\ \A k \in 0 .. n : f[k] \in S
      /\ \A k \in 1 .. n : MakesSense(known, f[k - 1], q[k]) /\ f[k] = Told(f[k - 1], q[k])
  BY <1>2 DEF Follows, n
<1>6. \A k \in 0 .. n + 1 : g[k] \in S
  <2> TAKE k \in 0 .. n + 1
  <2>1. k = n + 1 \/ k \in 0 .. n
    BY <1>3
  <2> QED BY <1>4, <1>5, <2>1
<1>7. ASSUME NEW k \in 1 .. n + 1
      PROVE  MakesSense(known, g[k - 1], r[k]) /\ g[k] = Told(g[k - 1], r[k])
  <2>1. CASE k = n + 1
    <3>1. k - 1 = n /\ n \in 0 .. n
      BY <1>3, <2>1
    <3>2. g[k - 1] = d /\ r[k] = e /\ g[k] = Told(d, e)
      BY <1>3, <1>4, <1>5, <2>1, <3>1
    <3> QED BY <3>2
  <2>2. CASE k # n + 1
    <3>1. k \in 1 .. n /\ k \in 0 .. n /\ k - 1 \in 0 .. n
      BY <1>3, <2>2
    <3>2. g[k - 1] = f[k - 1] /\ r[k] = q[k] /\ g[k] = f[k]
      BY <1>3, <1>4, <3>1
    <3> QED BY <1>5, <3>1, <3>2
  <2> QED BY <2>1, <2>2
<1>8. 0 \in 0 .. n
  BY <1>3
<1>9. Follows(known, S, c, r, g, Told(d, e))
  BY <1>3, <1>4, <1>5, <1>6, <1>7, <1>8 DEF Follows
<1> QED BY <1>3, <1>9 DEF Goes, r

(* The first event is taken.                                               *)
LEMMA GoesAhead ==
    ASSUME NEW known, NEW S, NEW c, NEW q, NEW d, Goes(known, S, c, q, d), q # <<>>
    PROVE  /\ MakesSense(known, c, Head(q)) /\ Told(c, Head(q)) \in S
           /\ Goes(known, S, Told(c, Head(q)), Tail(q), d)
<1>1. PICK E : q \in Seq(E)
  BY DEF Goes
<1>2. PICK f : Follows(known, S, c, q, f, d)
  BY DEF Goes
<1> DEFINE n == Len(q)
           r == Tail(q)
           g == [k \in 0 .. n - 1 |-> f[k + 1]]
<1>3. /\ n \in Nat /\ n >= 1 /\ Head(q) = q[1] /\ r \in Seq(E) /\ Len(r) = n - 1
      /\ \A k \in 1 .. n - 1 : r[k] = q[k + 1]
  BY <1>1
<1>4. \A k \in 0 .. n - 1 : g[k] = f[k + 1]
  OBVIOUS
<1> HIDE DEF g, r, n
<1>5. /\ f[0] = c /\ f[n] = d
      /\ \A k \in 0 .. n : f[k] \in S
      /\ \A k \in 1 .. n : MakesSense(known, f[k - 1], q[k]) /\ f[k] = Told(f[k - 1], q[k])
  BY <1>2 DEF Follows, n
<1>6. MakesSense(known, c, q[1]) /\ f[1] = Told(c, q[1]) /\ f[1] \in S
  <2>1. 1 \in 1 .. n /\ 1 \in 0 .. n /\ 1 - 1 = 0
    BY <1>3
  <2> QED BY <1>5, <2>1
<1>7. g[0] = f[1] /\ g[n - 1] = d
  <2>1. 0 \in 0 .. n - 1 /\ n - 1 \in 0 .. n - 1 /\ 0 + 1 = 1 /\ (n - 1) + 1 = n
    BY <1>3
  <2> QED BY <1>4, <1>5, <2>1
<1>8. \A k \in 0 .. n - 1 : g[k] \in S
  <2> TAKE k \in 0 .. n - 1
  <2>1. k + 1 \in 0 .. n
    BY <1>3
  <2> QED BY <1>4, <1>5, <2>1
<1>9. ASSUME NEW k \in 1 .. n - 1
      PROVE  MakesSense(known, g[k - 1], r[k]) /\ g[k] = Told(g[k - 1], r[k])
  <2>1. /\ k + 1 \in 1 .. n /\ k - 1 \in 0 .. n - 1 /\ k \in 0 .. n - 1
        /\ (k - 1) + 1 = k /\ (k + 1) - 1 = k
    BY <1>3
  <2>2. g[k - 1] = f[k] /\ g[k] = f[k + 1] /\ r[k] = q[k + 1]
    BY <1>3, <1>4, <2>1
  <2> QED BY <1>5, <2>1, <2>2
<1>10. Follows(known, S, f[1], r, g, d)
  BY <1>3, <1>7, <1>8, <1>9 DEF Follows
<1> QED BY <1>3, <1>6, <1>10 DEF Goes, r

-----------------------------------------------------------------------------
(* What is held, and what it becomes.                                      *)

CallTypes == {"added", "delta", "closed", "stop", "item"}
Calls == [type : CallTypes, item : Items, part : {1}, text : {<<>>}]

(* What may be said of calls whose arguments will be those in T.           *)
TextsOf(T) == {<<>>} \cup {T[s] : s \in Slots} \cup {Snapshot(T, i) : i \in Items}
CallEvents(S, T) == [type : CallTypes, item : S, part : {1}, text : TextsOf(T)]

IsFirst(q, e) == \A j \in 1 .. Len(q) : q[j].item = e.item => q[j].type # "delta"

Whole(T, i) == Say("delta", i, 1, T[<<i, 1>>])
Closing(T, e) ==
    IF e.type = "closed" THEN [e EXCEPT !.text = T[<<e.item, 1>>]]
    ELSE IF e.type = "item" THEN [e EXCEPT !.text = Snapshot(T, e.item)]
    ELSE e

(* What event e becomes that is held after those of q.                     *)
Turned(q, T, e) ==
    IF e.type = "delta" THEN IF IsFirst(q, e) THEN <<Whole(T, e.item)>> ELSE <<>>
    ELSE IF e.type \in {"closed", "stop"} /\ IsFirst(q, e) THEN <<Whole(T, e.item), Closing(T, e)>>
    ELSE <<Closing(T, e)>>

Becomes(q, T, k) ==
    LET first == \A j \in 1 .. k - 1 : q[j].item = q[k].item => q[j].type # "delta"
        e == q[k]
    IN IF e.type = "delta" THEN IF first THEN <<Whole(T, e.item)>> ELSE <<>>
       ELSE IF e.type \in {"closed", "stop"} /\ first THEN <<Whole(T, e.item), Closing(T, e)>>
       ELSE <<Closing(T, e)>>

AllBecome(q, T) == [k \in DOMAIN q |-> Becomes(q, T, k)]

(* The batch is what each held event becomes, in the order they were held. *)
LEMMA ReleaseIsFlat ==
    ASSUME NEW T
    PROVE  Release(T) = FlattenSeq(AllBecome(held, T))
BY DEF Release, AllBecome, Becomes, Whole, Closing

(* What a held event becomes is an event of its call.                      *)
LEMMA CallsAreEvents ==
    ASSUME NEW T, NEW S \in SUBSET Items, NEW e \in Calls, e.item \in S, 1 \in Items
    PROVE  Whole(T, e.item) \in CallEvents(S, T) /\ Closing(T, e) \in CallEvents(S, T)
<1>1. /\ e.type \in CallTypes /\ e.item \in S /\ e.part = 1 /\ e.text = <<>>
      /\ e = [type |-> e.type, item |-> e.item, part |-> 1, text |-> <<>>]
  BY DEF Calls
<1>2. <<>> \in TextsOf(T) /\ T[<<e.item, 1>>] \in TextsOf(T) /\ Snapshot(T, e.item) \in TextsOf(T)
  BY <1>1 DEF TextsOf, Slots
<1>3. Whole(T, e.item) \in CallEvents(S, T)
  <2>1. "delta" \in CallTypes
    BY DEF CallTypes
  <2> QED BY <1>1, <1>2, <2>1 DEF Whole, Say, CallEvents
<1>4. CASE e.type = "closed"
  <2> DEFINE w == T[<<e.item, 1>>]
  <2>1. Closing(T, e) = [e EXCEPT !.text = w]
    BY <1>4 DEF Closing
  <2>2. w \in TextsOf(T)
    BY <1>2
  <2> HIDE DEF w
  <2>3. Closing(T, e) = [type |-> e.type, item |-> e.item, part |-> 1, text |-> w]
    BY <1>1, <2>1
  <2> QED BY <1>1, <1>3, <2>2, <2>3 DEF CallEvents
<1>5. CASE e.type = "item"
  <2> DEFINE w == Snapshot(T, e.item)
  <2>1. Closing(T, e) = [e EXCEPT !.text = w]
    BY <1>5 DEF Closing
  <2>2. w \in TextsOf(T)
    BY <1>2
  <2> HIDE DEF w
  <2>3. Closing(T, e) = [type |-> e.type, item |-> e.item, part |-> 1, text |-> w]
    BY <1>1, <2>1
  <2> QED BY <1>1, <1>3, <2>2, <2>3 DEF CallEvents
<1>6. CASE e.type # "closed" /\ e.type # "item"
  <2>1. Closing(T, e) = e
    BY <1>6 DEF Closing
  <2> QED BY <1>1, <1>2, <1>3, <2>1 DEF CallEvents
<1> QED BY <1>4, <1>5, <1>6

(* So is all of what it becomes.                                           *)
LEMMA TurnedType ==
    ASSUME NEW T, NEW S \in SUBSET Items, NEW q, NEW e \in Calls, e.item \in S, 1 \in Items
    PROVE  Turned(q, T, e) \in Seq(CallEvents(S, T))
<1> DEFINE E == CallEvents(S, T)
           a == Whole(T, e.item)
           b == Closing(T, e)
<1>1. a \in E /\ b \in E
  BY CallsAreEvents
<1>2. \/ Turned(q, T, e) = <<a>> \/ Turned(q, T, e) = <<>>
      \/ Turned(q, T, e) = <<a, b>> \/ Turned(q, T, e) = <<b>>
  BY DEF Turned
<1> HIDE DEF a, b, E
<1>3. <<a>> \in Seq(E) /\ <<>> \in Seq(E) /\ <<a, b>> \in Seq(E) /\ <<b>> \in Seq(E)
  BY <1>1
<1> QED BY <1>2, <1>3 DEF E

(* What is released grows with what is held.                               *)
LEMMA ReleaseGrows ==
    ASSUME NEW T, NEW q \in Seq(Calls), NEW e \in Calls, 1 \in Items
    PROVE  LET r == FlattenSeq(AllBecome(q, T))
           IN FlattenSeq(AllBecome(Append(q, e), T)) =
                IF q = <<>> THEN Turned(q, T, e) ELSE r \o Turned(q, T, e)
<1> DEFINE E == CallEvents(Items, T)
           n == Len(q)
           p == Append(q, e)
           a == AllBecome(q, T)
           b == AllBecome(p, T)
           x == Turned(q, T, e)
<1>1. /\ n \in Nat /\ Len(p) = n + 1 /\ p[n + 1] = e /\ \A k \in 1 .. n : p[k] = q[k]
      /\ DOMAIN q = 1 .. n /\ DOMAIN p = 1 .. n + 1 /\ \A k \in 1 .. n : q[k] \in Calls
  OBVIOUS
<1> HIDE DEF p, n
<1>2. x \in Seq(E)
  <2>1. e.item \in Items
    BY DEF Calls
  <2> QED BY <2>1, TurnedType
<1>3. ASSUME NEW k \in 1 .. n PROVE Becomes(q, T, k) \in Seq(E) /\ Becomes(p, T, k) = Becomes(q, T, k)
  <2>1. q[k] \in Calls /\ q[k].item \in Items
    BY <1>1 DEF Calls
  <2>2. Whole(T, q[k].item) \in E /\ Closing(T, q[k]) \in E
    BY <2>1, CallsAreEvents
  <2>3. Becomes(q, T, k) \in {<<>>, <<Whole(T, q[k].item)>>, <<Closing(T, q[k])>>,
                             <<Whole(T, q[k].item), Closing(T, q[k])>>}
    BY DEF Becomes
  <2>4. Becomes(q, T, k) \in Seq(E)
    <3> DEFINE w == Whole(T, q[k].item)
               c == Closing(T, q[k])
    <3> HIDE DEF w, c, E
    <3>1. w \in E /\ c \in E
      BY <2>2 DEF w, c
    <3>2. <<>> \in Seq(E) /\ <<w>> \in Seq(E) /\ <<c>> \in Seq(E) /\ <<w, c>> \in Seq(E)
      BY <3>1
    <3> QED BY <2>3, <3>2 DEF w, c
  <2>5. p[k] = q[k] /\ \A j \in 1 .. k - 1 : p[j] = q[j]
    BY <1>1
  <2>6. Becomes(p, T, k) = Becomes(q, T, k)
    BY <2>5 DEF Becomes
  <2> QED BY <2>4, <2>6
<1>4. Becomes(p, T, n + 1) = x
  <2>1. (n + 1) - 1 = n
    BY <1>1
  <2>2. (\A j \in 1 .. (n + 1) - 1 : p[j].item = p[n + 1].item => p[j].type # "delta") <=> IsFirst(q, e)
    BY <1>1, <2>1 DEF IsFirst, n
  <2> QED BY <1>1, <2>2 DEF Becomes, Turned
<1>5. a \in Seq(Seq(E)) /\ Len(a) = n
  <2>1. a \in [1 .. n -> Seq(E)]
    BY <1>1, <1>3 DEF AllBecome
  <2> HIDE DEF a, E
  <2> QED BY <1>1, <2>1
<1>6. b = Append(a, x)
  <2>1. b = [k \in 1 .. n + 1 |-> Becomes(p, T, k)]
    BY <1>1 DEF AllBecome
  <2>2. a = [k \in 1 .. n |-> Becomes(q, T, k)]
    BY <1>1 DEF AllBecome
  <2> HIDE DEF a, b, x, E
  <2>3. b \in Seq(Seq(E)) /\ Len(b) = n + 1
    <3>1. \A k \in 1 .. n + 1 : Becomes(p, T, k) \in Seq(E)
      <4> TAKE k \in 1 .. n + 1
      <4>1. k = n + 1 \/ k \in 1 .. n
        BY <1>1
      <4> QED BY <1>2, <1>3, <1>4, <4>1
    <3>2. b \in [1 .. n + 1 -> Seq(E)]
      BY <2>1, <3>1
    <3> QED BY <1>1, <3>2
  <2>4. Append(a, x) \in Seq(Seq(E)) /\ Len(Append(a, x)) = n + 1
    BY <1>1, <1>2, <1>5
  <2>5. \A k \in 1 .. n + 1 : b[k] = Append(a, x)[k]
    <3> TAKE k \in 1 .. n + 1
    <3>1. CASE k = n + 1
      BY <1>1, <1>2, <1>4, <1>5, <2>1, <3>1
    <3>2. CASE k \in 1 .. n
      <4>1. b[k] = Becomes(q, T, k)
        BY <1>1, <1>3, <2>1, <3>2
      <4>2. a[k] = Becomes(q, T, k)
        BY <2>2, <3>2
      <4>3. Append(a, x)[k] = a[k]
        BY <1>1, <1>2, <1>5, <3>2
      <4> QED BY <4>1, <4>2, <4>3
    <3>3. k = n + 1 \/ k \in 1 .. n
      BY <1>1
    <3> QED BY <3>1, <3>2, <3>3
  <2> QED BY <2>3, <2>4, <2>5, SeqEqual
<1>7. a = <<>> <=> q = <<>>
  <2>1. n = 0 <=> q = <<>>
    BY DEF n
  <2> HIDE DEF a, E
  <2> QED BY <1>5, <2>1
<1>8. FlattenSeq(Append(a, x)) = IF a = <<>> THEN x ELSE FlattenSeq(a) \o x
  <2> HIDE DEF a, x, E
  <2> QED BY <1>2, <1>5, FlattenAppend
<1> QED BY <1>6, <1>7, <1>8 DEF p

-----------------------------------------------------------------------------
(* A client that is told of nothing but the calls.                         *)

(* Clients that have heard nothing of a call, or all that there is.        *)
CallClients(T) ==
    {c \in Clients : \A s \in Slots :
        /\ c.heard[s] \in {<<>>, T[s]}
        /\ c.end[s] \in {"closed", "done"} => c.heard[s] = T[s]}

Blank == [session |-> "greeted", seen |-> [i \in Items |-> "hidden"],
          heard |-> [s \in Slots |-> <<>>], end |-> [s \in Slots |-> "none"]]

HasDelta(q, i) == \E k \in 1 .. Len(q) : q[k].item = i /\ q[k].type = "delta"

(* Whether the arguments of a call would be out, were all released now.    *)
SaysText(s) == kind[s[1]] = "tool" /\ s[2] = 1 /\ (stage[s] # "open" \/ HasDelta(held, s[1]))

(* A client that knew nothing, had it been told what is held.              *)
CallsSo(T) ==
    [session |-> "greeted",
     seen |-> [i \in Items |-> IF kind[i] # "tool" THEN "hidden"
                               ELSE IF finished[i] THEN "done" ELSE "open"],
     heard |-> [s \in Slots |-> IF SaysText(s) THEN T[s] ELSE <<>>],
     end |-> [s \in Slots |-> IF kind[s[1]] = "tool" THEN stage[s] ELSE "none"]]

(* A call has one part.                                                    *)
Plausible == {T \in [Slots -> Seq(Outputs)] :
                 \A s \in Slots : kind[s[1]] = "tool" /\ s[2] # 1 => T[s] = <<>>}

Played(T) ==
    LET q == FlattenSeq(AllBecome(held, T))
    IN q \in Seq(CallEvents(Tools, T)) /\ Goes({}, CallClients(T), Blank, q, CallsSo(T))

HeldInv ==
    Early => /\ held \in Seq(Calls) /\ \A k \in 1 .. Len(held) : held[k].item \in Tools
             /\ \A T \in Plausible : Played(T)

(* A client can be told two more events that make sense.                   *)
LEMMA GoesTwice ==
    ASSUME NEW known, NEW S, NEW c, NEW E, NEW q \in Seq(E), NEW d, NEW a \in E, NEW b \in E,
           Goes(known, S, c, q, d), MakesSense(known, d, a), Told(d, a) \in S,
           MakesSense(known, Told(d, a), b), Told(Told(d, a), b) \in S
    PROVE  Goes(known, S, c, q \o <<a, b>>, Told(Told(d, a), b))
<1>1. Goes(known, S, c, Append(q, a), Told(d, a))
  BY GoesOn
<1>2. Goes(known, S, c, Append(Append(q, a), b), Told(Told(d, a), b))
  BY <1>1, GoesOn
<1>3. Append(Append(q, a), b) = q \o <<a, b>>
  OBVIOUS
<1> QED BY <1>2, <1>3

(* Whether arguments were held for a call, when one more event is.         *)
LEMMA DeltaAppended ==
    ASSUME NEW q \in Seq(Calls), NEW e \in Calls
    PROVE  /\ \A i : HasDelta(Append(q, e), i)
                       <=> HasDelta(q, i) \/ (e.item = i /\ e.type = "delta")
           /\ IsFirst(q, e) <=> ~HasDelta(q, e.item)
<1> DEFINE n == Len(q)
           p == Append(q, e)
<1>1. n \in Nat /\ Len(p) = n + 1 /\ p[n + 1] = e /\ \A k \in 1 .. n : p[k] = q[k]
  OBVIOUS
<1> HIDE DEF n, p
<1>2. ASSUME NEW i
      PROVE  (\E k \in 1 .. n + 1 : p[k].item = i /\ p[k].type = "delta")
               <=> (\E k \in 1 .. n : q[k].item = i /\ q[k].type = "delta")
                    \/ (e.item = i /\ e.type = "delta")
  <2>1. \A k : k \in 1 .. n + 1 <=> k \in 1 .. n \/ k = n + 1
    BY <1>1
  <2> QED BY <1>1, <2>1
<1> QED BY <1>1, <1>2 DEF HasDelta, IsFirst, n, p

(* The events of more calls.                                               *)
LEMMA EventsGrow ==
    ASSUME NEW T, NEW R, NEW S, R \subseteq S
    PROVE  CallEvents(R, T) \subseteq CallEvents(S, T)
BY DEF CallEvents

(* Where nothing is held, nothing is released.                             *)
LEMMA NothingReleased ==
    ASSUME NEW T
    PROVE  FlattenSeq(AllBecome(<<>>, T)) = <<>>
<1>1. AllBecome(<<>>, T) = <<>>
  BY DEF AllBecome
<1>2. Len(<<>>) = 0
  OBVIOUS
<1> QED BY <1>1, <1>2 DEF FlattenSeq

(* One more event is held: none, one or two more are released.             *)
LEMMA PlaysOn ==
    ASSUME NEW T, Played(T), held \in Seq(Calls), NEW e \in Calls, held' = Append(held, e),
           Tools \subseteq Tools', Tools' \subseteq Items, e.item \in Tools', 1 \in Items,
           LET c == CallsSo(T)
               x == Closing(T, e)
               w == Whole(T, e.item)
           IN \/ Turned(held, T, e) = <<>> /\ CallsSo(T)' = c
              \/ /\ Turned(held, T, e) = <<x>> /\ MakesSense({}, c, x)
                 /\ Told(c, x) \in CallClients(T) /\ Told(c, x) = CallsSo(T)'
              \/ /\ Turned(held, T, e) = <<w>> /\ MakesSense({}, c, w)
                 /\ Told(c, w) \in CallClients(T) /\ Told(c, w) = CallsSo(T)'
              \/ /\ Turned(held, T, e) = <<w, x>>
                 /\ MakesSense({}, c, w) /\ Told(c, w) \in CallClients(T)
                 /\ MakesSense({}, Told(c, w), x) /\ Told(Told(c, w), x) \in CallClients(T)
                 /\ Told(Told(c, w), x) = CallsSo(T)'
    PROVE  Played(T)'
<1> DEFINE c == CallsSo(T)
           x == Closing(T, e)
           w == Whole(T, e.item)
           q == FlattenSeq(AllBecome(held, T))
           r == FlattenSeq(AllBecome(held', T))
           t == Turned(held, T, e)
           E == CallEvents(Tools', T)
           S == CallClients(T)
           d == CallsSo(T)'
<1>1. q \in Seq(E) /\ Goes({}, S, Blank, q, c)
  <2>1. q \in Seq(CallEvents(Tools, T)) /\ CallEvents(Tools, T) \subseteq E
    BY EventsGrow DEF Played
  <2>2. Seq(CallEvents(Tools, T)) \subseteq Seq(E)
    <3> HIDE DEF E
    <3> QED BY <2>1
  <2> QED BY <2>1, <2>2 DEF Played
<1>2. x \in E /\ w \in E /\ t \in Seq(E)
  BY CallsAreEvents, TurnedType
<1>3. r = IF held = <<>> THEN t ELSE q \o t
  BY ReleaseGrows
<1>4. held = <<>> => q = <<>>
  BY NothingReleased
<1>5. \/ t = <<>> /\ d = c
      \/ /\ t = <<x>> /\ MakesSense({}, c, x) /\ Told(c, x) \in S /\ Told(c, x) = d
      \/ /\ t = <<w>> /\ MakesSense({}, c, w) /\ Told(c, w) \in S /\ Told(c, w) = d
      \/ /\ t = <<w, x>> /\ MakesSense({}, c, w) /\ Told(c, w) \in S
         /\ MakesSense({}, Told(c, w), x) /\ Told(Told(c, w), x) \in S /\ Told(Told(c, w), x) = d
  OBVIOUS
<1>6. Played(T)' <=> r \in Seq(E) /\ Goes({}, S, Blank, r, d)
  BY DEF Played
<1> HIDE DEF c, x, w, q, r, t, E, S, d
<1>7. r = q \o t /\ r \in Seq(E)
  BY <1>1, <1>2, <1>3, <1>4
<1>8. CASE t = <<>> /\ d = c
  <2>1. r = q
    BY <1>1, <1>7, <1>8
  <2> QED BY <1>1, <1>6, <1>7, <1>8, <2>1
<1>9. ASSUME NEW y \in E, t = <<y>>, MakesSense({}, c, y), Told(c, y) \in S, Told(c, y) = d
      PROVE  Played(T)'
  <2>1. r = Append(q, y)
    BY <1>1, <1>7, <1>9
  <2> QED BY <1>1, <1>6, <1>7, <1>9, <2>1, GoesOn
<1>10. CASE /\ t = <<w, x>> /\ MakesSense({}, c, w) /\ Told(c, w) \in S
            /\ MakesSense({}, Told(c, w), x) /\ Told(Told(c, w), x) \in S /\ Told(Told(c, w), x) = d
  BY <1>1, <1>2, <1>6, <1>7, <1>10, GoesTwice
<1> QED BY <1>2, <1>5, <1>8, <1>9, <1>10

(* What one event of a call makes of a client.                             *)
ToldOfCall(T, c, t, i, type) ==
    /\ t \in CallClients(T) /\ t \in Clients /\ t.session = c.session
    /\ \A j \in Items : t.seen[j] = IF j = i /\ type = "added" THEN "open"
                                    ELSE IF j = i /\ type \in {"item", "stop"} THEN "done"
                                    ELSE c.seen[j]
    /\ \A s \in Slots : t.heard[s] = IF s = <<i, 1>> /\ type = "delta" THEN T[s] ELSE c.heard[s]
    /\ \A s \in Slots : t.end[s] = IF s = <<i, 1>> /\ type = "added" THEN "open"
                                   ELSE IF s = <<i, 1>> /\ type = "closed" THEN "closed"
                                   ELSE IF s = <<i, 1>> /\ type = "stop" THEN "done"
                                   ELSE c.end[s]

(* A client that is told an event of a call at its turn.                   *)
LEMMA ToldCall ==
    ASSUME NEW T \in [Slots -> Seq(Outputs)], NEW c \in CallClients(T), NEW i \in Items, 1 \in Items,
           NEW type \in CallTypes, NEW txt,
           c.end[<<i, 1>>] \notin {"closed", "done"} \/ type = "item",
           type = "delta" => txt = T[<<i, 1>>] /\ c.heard[<<i, 1>>] = <<>>,
           type \in {"closed", "stop"} => c.heard[<<i, 1>>] = T[<<i, 1>>]
    PROVE  ToldOfCall(T, c, Told(c, Say(type, i, 1, txt)), i, type)
<1> DEFINE e == Say(type, i, 1, txt)
           t == Told(c, e)
           x == <<i, 1>>
<1>1. e.type = type /\ e.item = i /\ e.part = 1 /\ e.text = txt
  BY DEF Say
<1>2. c \in Clients /\ x \in Slots /\ T[x] \in Seq(Outputs)
  BY DEF CallClients, Slots
<1> HIDE DEF e
<1>3. e.type = "delta" => e.text \in Seq(Outputs)
  BY <1>1, <1>2
<1>4. type \notin {"start", "complete", "part", "done"}
  BY DEF CallTypes
<1>5. /\ t \in Clients /\ t.session = c.session
      /\ \A j \in Items : t.seen[j] = IF j = i /\ type = "added" THEN "open"
                                      ELSE IF j = i /\ type \in {"item", "stop"} THEN "done"
                                      ELSE c.seen[j]
      /\ \A s \in Slots : t.heard[s] = IF s = x /\ type = "delta" THEN c.heard[s] \o txt ELSE c.heard[s]
      /\ \A s \in Slots : t.end[s] = IF s = x /\ type = "added" THEN "open"
                                     ELSE IF s = x /\ type = "closed" THEN "closed"
                                     ELSE IF s = x /\ type = "stop" THEN "done"
                                     ELSE c.end[s]
  BY <1>1, <1>2, <1>3, <1>4, ToldMeans
<1>6. \A s \in Slots : t.heard[s] = IF s = x /\ type = "delta" THEN T[s] ELSE c.heard[s]
  <2>1. type = "delta" => c.heard[x] \o txt = T[x]
    <3>1. <<>> \o T[x] = T[x]
      BY <1>2
    <3> QED BY <3>1
  <2> QED BY <1>5, <2>1
<1> HIDE DEF t
<1>7. t \in CallClients(T)
  <2> SUFFICES ASSUME NEW s \in Slots
               PROVE  /\ t.heard[s] \in {<<>>, T[s]}
                      /\ t.end[s] \in {"closed", "done"} => t.heard[s] = T[s]
    BY <1>5 DEF CallClients
  <2>1. /\ c.heard[s] \in {<<>>, T[s]}
        /\ c.end[s] \in {"closed", "done"} => c.heard[s] = T[s]
    BY DEF CallClients
  <2>2. t.end[s] \in {"closed", "done"} =>
           c.end[s] \in {"closed", "done"} \/ (s = x /\ type \in {"closed", "stop"})
    BY <1>5
  <2> QED BY <1>6, <2>1, <2>2
<1> QED BY <1>5, <1>6, <1>7 DEF t, e, ToldOfCall

(* What a client knows of the calls that are held, field by field.         *)
LEMMA CallsSoMeans ==
    ASSUME MachineTypes, NEW T \in [Slots -> Seq(Outputs)]
    PROVE  /\ CallsSo(T) \in Clients /\ CallsSo(T).session = "greeted"
           /\ \A i \in Items : CallsSo(T).seen[i] = IF kind[i] # "tool" THEN "hidden"
                                                    ELSE IF finished[i] THEN "done" ELSE "open"
           /\ \A s \in Slots : CallsSo(T).heard[s] = IF SaysText(s) THEN T[s] ELSE <<>>
           /\ \A s \in Slots : CallsSo(T).end[s] = IF kind[s[1]] = "tool" THEN stage[s] ELSE "none"
<1> DEFINE sn == [i \in Items |-> IF kind[i] # "tool" THEN "hidden"
                                  ELSE IF finished[i] THEN "done" ELSE "open"]
           hrd == [s \in Slots |-> IF SaysText(s) THEN T[s] ELSE <<>>]
           nd == [s \in Slots |-> IF kind[s[1]] = "tool" THEN stage[s] ELSE "none"]
<1>1. CallsSo(T) = [session |-> "greeted", seen |-> sn, heard |-> hrd, end |-> nd]
  BY DEF CallsSo
<1>2. <<>> \in Seq(Outputs)
  OBVIOUS
<1>3. sn \in [Items -> {"hidden", "open", "done"}]
  OBVIOUS
<1>4. hrd \in [Slots -> Seq(Outputs)]
  BY <1>2
<1>5. nd \in [Slots -> Stages]
  BY DEF MachineTypes, Stages
<1>6. /\ \A i \in Items : sn[i] = IF kind[i] # "tool" THEN "hidden"
                                  ELSE IF finished[i] THEN "done" ELSE "open"
      /\ \A s \in Slots : hrd[s] = IF SaysText(s) THEN T[s] ELSE <<>>
      /\ \A s \in Slots : nd[s] = IF kind[s[1]] = "tool" THEN stage[s] ELSE "none"
  OBVIOUS
<1> HIDE DEF sn, hrd, nd
<1> QED BY <1>1, <1>3, <1>4, <1>5, <1>6 DEF Clients

(* The same of the next state.                                             *)
LEMMA CallsSoMeansNext ==
    ASSUME MachineTypes', NEW T \in [Slots -> Seq(Outputs)]
    PROVE  /\ CallsSo(T)' \in Clients /\ CallsSo(T)'.session = "greeted"
           /\ \A i \in Items : CallsSo(T)'.seen[i] = IF kind'[i] # "tool" THEN "hidden"
                                                     ELSE IF finished'[i] THEN "done" ELSE "open"
           /\ \A s \in Slots : CallsSo(T)'.heard[s] = IF SaysText(s)' THEN T[s] ELSE <<>>
           /\ \A s \in Slots : CallsSo(T)'.end[s] = IF kind'[s[1]] = "tool" THEN stage'[s] ELSE "none"
<1> DEFINE sn == [i \in Items |-> IF kind'[i] # "tool" THEN "hidden"
                                  ELSE IF finished'[i] THEN "done" ELSE "open"]
           hrd == [s \in Slots |-> IF SaysText(s)' THEN T[s] ELSE <<>>]
           nd == [s \in Slots |-> IF kind'[s[1]] = "tool" THEN stage'[s] ELSE "none"]
<1>1. CallsSo(T)' = [session |-> "greeted", seen |-> sn, heard |-> hrd, end |-> nd]
  BY DEF CallsSo
<1>2. <<>> \in Seq(Outputs)
  OBVIOUS
<1>3. sn \in [Items -> {"hidden", "open", "done"}]
  OBVIOUS
<1>4. hrd \in [Slots -> Seq(Outputs)]
  BY <1>2
<1>5. nd \in [Slots -> Stages]
  BY DEF MachineTypes, Stages
<1>6. /\ \A i \in Items : sn[i] = IF kind'[i] # "tool" THEN "hidden"
                                  ELSE IF finished'[i] THEN "done" ELSE "open"
      /\ \A s \in Slots : hrd[s] = IF SaysText(s)' THEN T[s] ELSE <<>>
      /\ \A s \in Slots : nd[s] = IF kind'[s[1]] = "tool" THEN stage'[s] ELSE "none"
  OBVIOUS
<1> HIDE DEF sn, hrd, nd
<1> QED BY <1>1, <1>3, <1>4, <1>5, <1>6 DEF Clients

(* A client that was told of the calls held so far.                        *)
LEMMA CallsSoFine ==
    ASSUME MachineOK, NEW T \in Plausible
    PROVE  CallsSo(T) \in CallClients(T)
<1>1. T \in [Slots -> Seq(Outputs)]
  BY DEF Plausible
<1>2. ASSUME NEW s \in Slots
      PROVE  /\ CallsSo(T).heard[s] \in {<<>>, T[s]}
             /\ CallsSo(T).end[s] \in {"closed", "done"} => CallsSo(T).heard[s] = T[s]
  <2>1. /\ CallsSo(T).heard[s] = IF SaysText(s) THEN T[s] ELSE <<>>
        /\ CallsSo(T).end[s] = IF kind[s[1]] = "tool" THEN stage[s] ELSE "none"
    BY <1>1, CallsSoMeans DEF MachineOK
  <2>2. stage[s] # "none" /\ kind[s[1]] = "tool" => s[2] = 1
    BY StageMeans
  <2> QED BY <2>1, <2>2 DEF SaysText
<1> QED BY <1>1, <1>2, CallsSoMeans DEF MachineOK, CallClients

(* A held event of a call, and what it becomes.                            *)
LEMMA CallsAre ==
    ASSUME NEW i \in Items, NEW type \in CallTypes, NEW T
    PROVE  LET e == Say(type, i, 1, <<>>)
           IN /\ e \in Calls /\ e.item = i /\ e.type = type
              /\ Whole(T, e.item) = Say("delta", i, 1, T[<<i, 1>>])
              /\ Closing(T, e) = Say(type, i, 1, IF type = "closed" THEN T[<<i, 1>>]
                                                 ELSE IF type = "item" THEN Snapshot(T, i)
                                                 ELSE <<>>)
<1> DEFINE e == Say(type, i, 1, <<>>)
<1>1. e = [type |-> type, item |-> i, part |-> 1, text |-> <<>>]
  BY DEF Say
<1>2. e.item = i /\ e.type = type
  BY <1>1
<1>3. Closing(T, e) = Say(type, i, 1, IF type = "closed" THEN T[<<i, 1>>]
                                      ELSE IF type = "item" THEN Snapshot(T, i) ELSE <<>>)
  <2>1. CASE type = "closed"
    BY <1>1, <1>2, <2>1 DEF Closing, Say
  <2>2. CASE type = "item"
    BY <1>1, <1>2, <2>2 DEF Closing, Say
  <2>3. CASE type # "closed" /\ type # "item"
    BY <1>1, <1>2, <2>3 DEF Closing, Say
  <2> QED BY <2>1, <2>2, <2>3
<1>4. e \in Calls
  BY <1>1 DEF Calls
<1> HIDE DEF e
<1> QED BY <1>2, <1>3, <1>4 DEF Whole, e

(* The events of the calls make sense one after the other.                 *)
LEMMA CallBegins ==
    ASSUME MachineOK, MachineOK', HeldInv, Early, NEW i \in Items, kind[i] = "none",
           kind' = [kind EXCEPT ![i] = "tool"], stage' = [stage EXCEPT ![<<i, 1>>] = "open"],
           finished' = finished, held' = Append(held, Say("added", i, 1, <<>>)),
           NEW T \in Plausible, T \in Plausible', 1 \in Items
    PROVE  Played(T)'
<1> DEFINE e == Say("added", i, 1, <<>>)
           c == CallsSo(T)
           t == Told(c, e)
           d == CallsSo(T)'
<1>1. /\ held \in Seq(Calls) /\ Played(T) /\ \A k \in 1 .. Len(held) : held[k].item \in Tools
  BY DEF HeldInv
<1>2. T \in [Slots -> Seq(Outputs)] /\ MachineTypes /\ MachineTypes' /\ c \in CallClients(T)
  BY CallsSoFine DEF Plausible, MachineOK
<1>3. "added" \in CallTypes
  BY DEF CallTypes
<1>4. e \in Calls /\ e.item = i /\ e.type = "added" /\ Closing(T, e) = e
  BY <1>3, CallsAre
<1>5. Turned(held, T, e) = <<e>>
  BY <1>4 DEF Turned
<1>6. \A s \in Slots : s[1] = i => stage[s] = "none" /\ s[2] \in Items /\ s = <<i, s[2]>>
  BY StageMeans
<1>7. /\ c.session = "greeted"
      /\ \A j \in Items : c.seen[j] = IF kind[j] # "tool" THEN "hidden"
                                      ELSE IF finished[j] THEN "done" ELSE "open"
      /\ \A s \in Slots : c.heard[s] = IF SaysText(s) THEN T[s] ELSE <<>>
      /\ \A s \in Slots : c.end[s] = IF kind[s[1]] = "tool" THEN stage[s] ELSE "none"
  BY <1>2, CallsSoMeans
<1>8. /\ d \in Clients /\ d.session = "greeted"
      /\ \A j \in Items : d.seen[j] = IF kind'[j] # "tool" THEN "hidden"
                                      ELSE IF finished'[j] THEN "done" ELSE "open"
      /\ \A s \in Slots : d.heard[s] = IF SaysText(s)' THEN T[s] ELSE <<>>
      /\ \A s \in Slots : d.end[s] = IF kind'[s[1]] = "tool" THEN stage'[s] ELSE "none"
  BY <1>2, CallsSoMeansNext
<1>9. <<i, 1>> \in Slots /\ <<i, 1>>[1] = i
  BY DEF Slots
<1>10. MakesSense({}, c, e)
  BY <1>4, <1>7 DEF MakesSense
<1>11. c.end[<<i, 1>>] = "none"
  BY <1>7, <1>9
<1>12. /\ t \in CallClients(T) /\ t \in Clients /\ t.session = c.session
       /\ \A j \in Items : t.seen[j] = IF j = i THEN "open" ELSE c.seen[j]
       /\ \A s \in Slots : t.heard[s] = c.heard[s]
       /\ \A s \in Slots : t.end[s] = IF s = <<i, 1>> THEN "open" ELSE c.end[s]
  <2>1. ToldOfCall(T, c, t, i, "added")
    <3> HIDE DEF c
    <3> QED BY <1>2, <1>3, <1>11, ToldCall
  <2> HIDE DEF c, t
  <2> QED BY <2>1 DEF ToldOfCall
<1>13. t = d
  <2>1. \A j \in Items : t.seen[j] = d.seen[j]
    <3> TAKE j \in Items
    <3>1. ItemOK(i) /\ kind'[j] = IF j = i THEN "tool" ELSE kind[j]
      BY <1>2 DEF MachineOK, MachineTypes
    <3>2. ~finished[i]
      BY <3>1 DEF ItemOK
    <3> HIDE DEF t, c, d
    <3> QED BY <1>7, <1>8, <1>12, <3>1, <3>2
  <2>2. \A s \in Slots : t.heard[s] = d.heard[s] /\ t.end[s] = d.end[s]
    <3> TAKE s \in Slots
    <3>1. s[1] \in Items
      BY DEF Slots
    <3>2. kind'[s[1]] = IF s[1] = i THEN "tool" ELSE kind[s[1]]
      BY <1>2, <3>1 DEF MachineTypes
    <3>3. stage'[s] = IF s = <<i, 1>> THEN "open" ELSE stage[s]
      BY <1>2 DEF MachineTypes
    <3>4. HasDelta(held', s[1]) <=> HasDelta(held, s[1])
      BY <1>1, <1>4, DeltaAppended
    <3>5. CASE s[1] # i
      <4>1. SaysText(s)' <=> SaysText(s)
        BY <1>9, <3>2, <3>3, <3>4, <3>5 DEF SaysText
      <4> HIDE DEF t, c, d
      <4> QED BY <1>7, <1>8, <1>9, <1>12, <3>2, <3>3, <3>5, <4>1
    <3>6. CASE s[1] = i
      <4>1. ~HasDelta(held, i)
        <5>1. i \notin Tools
          BY DEF Tools
        <5> QED BY <1>1, <5>1 DEF HasDelta
      <4>2. ~SaysText(s)
        BY <3>6 DEF SaysText
      <4>3. s = <<i, 1>> \/ s[2] # 1
        BY <1>6, <3>6
      <4>4. ~SaysText(s)'
        BY <3>3, <3>4, <3>6, <4>1, <4>3 DEF SaysText
      <4> HIDE DEF t, c, d
      <4> QED BY <1>6, <1>7, <1>8, <1>12, <3>2, <3>3, <3>6, <4>2, <4>4
    <3> QED BY <3>5, <3>6
  <2> HIDE DEF t, c, d
  <2> QED BY <1>7, <1>8, <1>12, <2>1, <2>2, SameClient
<1>14. /\ Tools \subseteq Tools' /\ Tools' \subseteq Items /\ i \in Tools'
  BY <1>2 DEF Tools, MachineTypes
<1> HIDE DEF t, c, d, e
<1> QED BY <1>1, <1>4, <1>5, <1>10, <1>12, <1>13, <1>14, PlaysOn DEF t, c, d, e

(* A client that was told of the calls so far, at a call that is open.     *)
LEMMA OpenCall ==
    ASSUME MachineOK, HeldInv, Early, NEW i \in Items, kind[i] = "tool", stage[<<i, 1>>] = "open",
           NEW T \in Plausible
    PROVE  LET c == CallsSo(T) IN
           /\ c.seen[i] = "open" /\ c.end[<<i, 1>>] = "open"
           /\ c.heard[<<i, 1>>] = IF HasDelta(held, i) THEN T[<<i, 1>>] ELSE <<>>
           /\ SaysText(<<i, 1>>) <=> HasDelta(held, i)
<1>1. <<i, 1>> \in Slots /\ <<i, 1>>[1] = i /\ <<i, 1>>[2] = 1
  BY ItemsAreNumbers DEF Slots
<1>2. ~finished[i]
  BY <1>1, StageMeans
<1>3. SaysText(<<i, 1>>) <=> HasDelta(held, i)
  BY <1>1 DEF SaysText
<1>4. T \in [Slots -> Seq(Outputs)] /\ MachineTypes
  BY DEF Plausible, MachineOK
<1>5. /\ \A j \in Items : CallsSo(T).seen[j] = IF kind[j] # "tool" THEN "hidden"
                                               ELSE IF finished[j] THEN "done" ELSE "open"
      /\ \A s \in Slots : CallsSo(T).heard[s] = IF SaysText(s) THEN T[s] ELSE <<>>
      /\ \A s \in Slots : CallsSo(T).end[s] = IF kind[s[1]] = "tool" THEN stage[s] ELSE "none"
  BY <1>4, CallsSoMeans
<1> HIDE DEF CallsSo
<1> QED BY <1>1, <1>2, <1>3, <1>5

(* Arguments that are held are told once, at the first delta.              *)
LEMMA CallGoesOn ==
    ASSUME MachineOK, MachineOK', HeldInv, Early, NEW i \in Items, kind[i] = "tool",
           stage[<<i, 1>>] = "open", UNCHANGED <<kind, stage, finished>>,
           held' = Append(held, Say("delta", i, 1, <<>>)),
           NEW T \in Plausible
    PROVE  Played(T)'
<1> DEFINE e == Say("delta", i, 1, <<>>)
           c == CallsSo(T)
           w == Whole(T, e.item)
           t == Told(c, w)
           d == CallsSo(T)'
           x == <<i, 1>>
<1>1. /\ held \in Seq(Calls) /\ Played(T) /\ 1 \in Items
  BY ItemsAreNumbers DEF HeldInv
<1>2. T \in [Slots -> Seq(Outputs)] /\ MachineTypes /\ MachineTypes' /\ c \in CallClients(T) /\ c \in Clients
  BY CallsSoFine DEF Plausible, MachineOK, CallClients
<1>3. "delta" \in CallTypes
  BY DEF CallTypes
<1>4. e \in Calls /\ e.item = i /\ e.type = "delta" /\ w = Say("delta", i, 1, T[x])
  BY <1>3, CallsAre
<1>5. x \in Slots /\ x[1] = i /\ x[2] = 1
  BY <1>1 DEF Slots
<1>6. /\ c.seen[i] = "open" /\ c.end[x] = "open"
      /\ c.heard[x] = IF HasDelta(held, i) THEN T[x] ELSE <<>>
      /\ SaysText(x) <=> HasDelta(held, i)
  BY OpenCall
<1>7. /\ c.session = "greeted"
      /\ \A j \in Items : c.seen[j] = IF kind[j] # "tool" THEN "hidden"
                                      ELSE IF finished[j] THEN "done" ELSE "open"
      /\ \A s \in Slots : c.heard[s] = IF SaysText(s) THEN T[s] ELSE <<>>
      /\ \A s \in Slots : c.end[s] = IF kind[s[1]] = "tool" THEN stage[s] ELSE "none"
  BY <1>2, CallsSoMeans
<1>8. /\ d \in Clients /\ d.session = "greeted"
      /\ \A j \in Items : d.seen[j] = IF kind[j] # "tool" THEN "hidden"
                                      ELSE IF finished[j] THEN "done" ELSE "open"
      /\ \A s \in Slots : d.heard[s] = IF SaysText(s)' THEN T[s] ELSE <<>>
      /\ \A s \in Slots : d.end[s] = IF kind[s[1]] = "tool" THEN stage[s] ELSE "none"
  <2>1. kind' = kind /\ stage' = stage /\ finished' = finished
    OBVIOUS
  <2> QED BY <1>2, <2>1, CallsSoMeansNext
<1>9. /\ \A j : HasDelta(held', j) <=> HasDelta(held, j) \/ j = i
      /\ IsFirst(held, e) <=> ~HasDelta(held, i)
  BY <1>1, <1>4, DeltaAppended
<1>10. \A s \in Slots : SaysText(s)' <=> SaysText(s) \/ s = x
  <2> TAKE s \in Slots
  <2>1. s = <<s[1], s[2]>>
    BY StageMeans
  <2> QED BY <1>5, <1>9, <2>1 DEF SaysText
<1>11. Tools \subseteq Tools' /\ Tools' \subseteq Items /\ i \in Tools'
  BY DEF Tools
<1>12. CASE HasDelta(held, i)
  <2>1. Turned(held, T, e) = <<>>
    BY <1>4, <1>9, <1>12 DEF Turned
  <2>2. d = c
    <3> HIDE DEF c, d, x
    <3>1. \A j \in Items : c.seen[j] = d.seen[j]
      BY <1>7, <1>8
    <3>2. \A s \in Slots : c.heard[s] = d.heard[s]
      BY <1>6, <1>7, <1>8, <1>10, <1>12
    <3>3. \A s \in Slots : c.end[s] = d.end[s]
      BY <1>7, <1>8
    <3> QED BY <1>2, <1>7, <1>8, <3>1, <3>2, <3>3, SameClient
  <2> HIDE DEF c, d, e
  <2> QED BY <1>1, <1>4, <1>11, <2>1, <2>2, PlaysOn DEF c, d, e
<1>13. CASE ~HasDelta(held, i)
  <2>1. Turned(held, T, e) = <<w>>
    BY <1>4, <1>9, <1>13 DEF Turned
  <2>2. MakesSense({}, c, w)
    <3>1. w.type = "delta" /\ w.item = i /\ w.part = 1
      BY <1>4 DEF Say
    <3> HIDE DEF c, w
    <3> QED BY <1>6, <3>1 DEF MakesSense
  <2>3. ToldOfCall(T, c, t, i, "delta")
    <3>1. c.end[x] \notin {"closed", "done"} /\ c.heard[x] = <<>>
      BY <1>6, <1>13
    <3> HIDE DEF c
    <3> QED BY <1>1, <1>2, <1>3, <1>4, <3>1, ToldCall
  <2>4. t = d
    <3> HIDE DEF c, d, t, x
    <3>1. /\ t \in Clients /\ t.session = c.session
          /\ \A j \in Items : t.seen[j] = c.seen[j]
          /\ \A s \in Slots : t.heard[s] = IF s = x THEN T[s] ELSE c.heard[s]
          /\ \A s \in Slots : t.end[s] = c.end[s]
      BY <2>3 DEF ToldOfCall, x
    <3>2. \A j \in Items : t.seen[j] = d.seen[j]
      BY <1>7, <1>8, <3>1
    <3>3. \A s \in Slots : t.heard[s] = d.heard[s]
      BY <1>7, <1>8, <1>10, <3>1
    <3>4. \A s \in Slots : t.end[s] = d.end[s]
      BY <1>7, <1>8, <3>1
    <3> QED BY <1>7, <1>8, <3>1, <3>2, <3>3, <3>4, SameClient
  <2>5. t \in CallClients(T)
    BY <2>3 DEF ToldOfCall
  <2> HIDE DEF c, d, e, w, t
  <2> QED BY <1>1, <1>4, <1>11, <2>1, <2>2, <2>4, <2>5, PlaysOn DEF c, d, e, w, t
<1> QED BY <1>12, <1>13

(* The event that closes a call follows its arguments, or brings them.     *)
LEMMA CallIsClosed ==
    ASSUME MachineOK, MachineOK', HeldInv, Early, NEW i \in Items, kind[i] = "tool",
           stage[<<i, 1>>] = "open", UNCHANGED kind, NEW type \in {"closed", "stop"},
           stage' = [stage EXCEPT ![<<i, 1>>] = IF type = "closed" THEN "closed" ELSE "done"],
           finished' = IF type = "closed" THEN finished ELSE [finished EXCEPT ![i] = TRUE],
           held' = Append(held, Say(type, i, 1, <<>>)),
           NEW T \in Plausible
    PROVE  Played(T)'
<1> DEFINE e == Say(type, i, 1, <<>>)
           c == CallsSo(T)
           w == Whole(T, e.item)
           y == Closing(T, e)
           t == Told(c, w)
           d == CallsSo(T)'
           x == <<i, 1>>
<1>1. /\ held \in Seq(Calls) /\ Played(T) /\ 1 \in Items
  BY ItemsAreNumbers DEF HeldInv
<1>2. T \in [Slots -> Seq(Outputs)] /\ MachineTypes /\ MachineTypes' /\ c \in CallClients(T) /\ c \in Clients
  BY CallsSoFine DEF Plausible, MachineOK, CallClients
<1>3. "delta" \in CallTypes /\ type \in CallTypes /\ type \notin {"delta", "item", "added"}
  BY DEF CallTypes
<1>4. /\ e \in Calls /\ e.item = i /\ e.type = type /\ w = Say("delta", i, 1, T[x])
      /\ y = Say(type, i, 1, IF type = "closed" THEN T[x] ELSE <<>>)
  BY <1>3, CallsAre
<1>5. x \in Slots /\ x[1] = i /\ x[2] = 1
  BY <1>1 DEF Slots
<1>6. /\ c.seen[i] = "open" /\ c.end[x] = "open"
      /\ c.heard[x] = IF HasDelta(held, i) THEN T[x] ELSE <<>>
      /\ SaysText(x) <=> HasDelta(held, i)
  BY OpenCall
<1>7. /\ c.session = "greeted"
      /\ \A j \in Items : c.seen[j] = IF kind[j] # "tool" THEN "hidden"
                                      ELSE IF finished[j] THEN "done" ELSE "open"
      /\ \A s \in Slots : c.heard[s] = IF SaysText(s) THEN T[s] ELSE <<>>
      /\ \A s \in Slots : c.end[s] = IF kind[s[1]] = "tool" THEN stage[s] ELSE "none"
  BY <1>2, CallsSoMeans
<1>8. /\ d \in Clients /\ d.session = "greeted"
      /\ \A j \in Items : d.seen[j] = IF kind'[j] # "tool" THEN "hidden"
                                      ELSE IF finished'[j] THEN "done" ELSE "open"
      /\ \A s \in Slots : d.heard[s] = IF SaysText(s)' THEN T[s] ELSE <<>>
      /\ \A s \in Slots : d.end[s] = IF kind'[s[1]] = "tool" THEN stage'[s] ELSE "none"
  BY <1>2, CallsSoMeansNext
<1>9. /\ \A j : HasDelta(held', j) <=> HasDelta(held, j)
      /\ IsFirst(held, e) <=> ~HasDelta(held, i)
  BY <1>1, <1>3, <1>4, DeltaAppended
<1> DEFINE new == IF type = "closed" THEN "closed" ELSE "done"
<1>10. /\ \A j \in Items : d.seen[j] = IF j = i /\ type = "stop" THEN "done" ELSE c.seen[j]
       /\ \A s \in Slots : d.end[s] = IF s = x THEN new ELSE c.end[s]
       /\ \A s \in Slots : d.heard[s] = IF s = x THEN T[s] ELSE c.heard[s]
  <2>1. \A j \in Items : kind'[j] = kind[j] /\ finished'[j] = IF j = i /\ type = "stop" THEN TRUE ELSE finished[j]
    BY <1>2 DEF MachineTypes
  <2>2. \A s \in Slots : s[1] \in Items /\ stage'[s] = IF s = x THEN new ELSE stage[s]
    BY <1>2 DEF MachineTypes, Slots
  <2>3. \A s \in Slots : SaysText(s)' <=> SaysText(s) \/ s = x
    <3> TAKE s \in Slots
    <3>1. s[1] \in Items /\ kind'[s[1]] = kind[s[1]] /\ (HasDelta(held', s[1]) <=> HasDelta(held, s[1]))
      BY <1>9, <2>2
    <3>2. stage'[s] = IF s = x THEN new ELSE stage[s]
      BY <2>2
    <3>3. CASE s = x
      BY <1>5, <3>1, <3>2, <3>3 DEF SaysText
    <3>4. CASE s # x
      BY <3>1, <3>2, <3>4 DEF SaysText
    <3> QED BY <3>3, <3>4
  <2>4. \A j \in Items : d.seen[j] = IF j = i /\ type = "stop" THEN "done" ELSE c.seen[j]
    <3> HIDE DEF c, d
    <3> TAKE j \in Items
    <3>1. CASE j = i /\ type = "stop"
      <4>1. kind'[j] = "tool" /\ finished'[j]
        BY <2>1, <3>1
      <4> QED BY <1>8, <3>1, <4>1
    <3>2. CASE ~(j = i /\ type = "stop")
      <4>1. kind'[j] = kind[j] /\ finished'[j] = finished[j]
        BY <2>1, <3>2
      <4> QED BY <1>7, <1>8, <3>2, <4>1
    <3> QED BY <3>1, <3>2
  <2>5. \A s \in Slots : d.end[s] = IF s = x THEN new ELSE c.end[s]
    <3> HIDE DEF c, d, new
    <3> QED BY <1>5, <1>7, <1>8, <2>1, <2>2
  <2>6. \A s \in Slots : d.heard[s] = IF s = x THEN T[s] ELSE c.heard[s]
    <3> HIDE DEF c, d, x
    <3> QED BY <1>7, <1>8, <2>3
  <2> HIDE DEF c, d
  <2> QED BY <2>4, <2>5, <2>6
<1>11. Tools \subseteq Tools' /\ Tools' \subseteq Items /\ i \in Tools'
  BY DEF Tools
<1>12. /\ y.type = type /\ y.item = i /\ y.part = 1 /\ (type = "closed" => y.text = T[x])
       /\ w.type = "delta" /\ w.item = i /\ w.part = 1
  <2> HIDE DEF y, w
  <2> QED BY <1>4 DEF Say
(* The event that closes the call, once its arguments are out.             *)
<1>13. ASSUME NEW b \in CallClients(T), b.session = "greeted", b.seen[i] = "open", b.end[x] = "open", b.heard[x] = T[x],
              \A j \in Items : b.seen[j] = c.seen[j],
              \A s \in Slots : b.heard[s] = (IF s = x THEN T[s] ELSE c.heard[s]) /\ b.end[s] = c.end[s]
       PROVE  MakesSense({}, b, y) /\ Told(b, y) \in CallClients(T) /\ Told(b, y) = d
  <2>1. MakesSense({}, b, y)
    <3> HIDE DEF y
    <3> QED BY <1>12, <1>13 DEF MakesSense
  <2> DEFINE u == Told(b, y)
  <2>2. ToldOfCall(T, b, u, i, type)
    <3>1. b.end[x] \notin {"closed", "done"} /\ b.heard[x] = T[x]
      BY <1>13
    <3> QED BY <1>1, <1>2, <1>3, <1>4, <3>1, ToldCall
  <2> HIDE DEF u, x, c, d
  <2>3. /\ u \in Clients /\ u \in CallClients(T) /\ u.session = b.session
        /\ \A j \in Items : u.seen[j] = IF j = i /\ type = "stop" THEN "done" ELSE b.seen[j]
        /\ \A s \in Slots : u.heard[s] = b.heard[s]
        /\ \A s \in Slots : u.end[s] = IF s = x THEN new ELSE b.end[s]
    <3>1. type = "closed" \/ type = "stop"
      OBVIOUS
    <3> QED BY <2>2, <3>1 DEF ToldOfCall, x
  <2>4. u = d
    <3> HIDE DEF new
    <3>1. \A j \in Items : u.seen[j] = d.seen[j]
      BY <1>10, <1>13, <2>3
    <3>2. \A s \in Slots : u.heard[s] = d.heard[s] /\ u.end[s] = d.end[s]
      BY <1>10, <1>13, <2>3
    <3> QED BY <1>8, <1>13, <2>3, <3>1, <3>2, SameClient
  <2> QED BY <2>1, <2>3, <2>4 DEF u
<1>14. CASE HasDelta(held, i)
  <2>1. Turned(held, T, e) = <<y>>
    BY <1>3, <1>4, <1>9, <1>14 DEF Turned
  <2>2. MakesSense({}, c, y) /\ Told(c, y) \in CallClients(T) /\ Told(c, y) = d
    <3>1. \A s \in Slots : c.heard[s] = (IF s = x THEN T[s] ELSE c.heard[s]) /\ c.end[s] = c.end[s]
      BY <1>6, <1>14
    <3> HIDE DEF c, d, y
    <3> QED BY <1>2, <1>6, <1>7, <1>13, <1>14, <3>1
  <2> HIDE DEF c, d, e, y
  <2> QED BY <1>1, <1>4, <1>11, <2>1, <2>2, PlaysOn DEF c, d, e, y
<1>15. CASE ~HasDelta(held, i)
  <2>1. Turned(held, T, e) = <<w, y>>
    BY <1>3, <1>4, <1>9, <1>15 DEF Turned
  <2>2. MakesSense({}, c, w)
    <3> HIDE DEF c, w
    <3> QED BY <1>6, <1>12 DEF MakesSense
  <2>3. ToldOfCall(T, c, t, i, "delta")
    <3>1. c.end[x] \notin {"closed", "done"} /\ c.heard[x] = <<>>
      BY <1>6, <1>15
    <3> HIDE DEF c
    <3> QED BY <1>1, <1>2, <1>3, <1>4, <3>1, ToldCall
  <2>4. /\ t \in CallClients(T) /\ t.session = c.session
        /\ \A j \in Items : t.seen[j] = c.seen[j]
        /\ \A s \in Slots : t.heard[s] = (IF s = x THEN T[s] ELSE c.heard[s]) /\ t.end[s] = c.end[s]
    <3> HIDE DEF c, t
    <3> QED BY <2>3 DEF ToldOfCall
  <2>5. MakesSense({}, t, y) /\ Told(t, y) \in CallClients(T) /\ Told(t, y) = d
    <3> HIDE DEF c, d, y, t, x
    <3>1. t.session = "greeted" /\ t.seen[i] = "open" /\ t.end[x] = "open" /\ t.heard[x] = T[x]
      BY <1>5, <1>6, <1>7, <2>4
    <3> QED BY <1>13, <2>4, <3>1
  <2> HIDE DEF c, d, e, y, w, t
  <2> QED BY <1>1, <1>4, <1>11, <2>1, <2>2, <2>4, <2>5, PlaysOn DEF c, d, e, y, w, t
<1> QED BY <1>14, <1>15

(* The item of a call is done after its arguments.                         *)
LEMMA CallIsDone ==
    ASSUME MachineOK, MachineOK', HeldInv, Early, NEW i \in Items, kind[i] = "tool",
           stage[<<i, 1>>] = "closed", ~finished[i], UNCHANGED <<kind, stage>>,
           finished' = [finished EXCEPT ![i] = TRUE],
           held' = Append(held, Say("item", i, 1, <<>>)),
           NEW T \in Plausible
    PROVE  Played(T)'
<1> DEFINE e == Say("item", i, 1, <<>>)
           c == CallsSo(T)
           y == Closing(T, e)
           t == Told(c, y)
           d == CallsSo(T)'
           x == <<i, 1>>
<1>1. /\ held \in Seq(Calls) /\ Played(T) /\ 1 \in Items
  BY ItemsAreNumbers DEF HeldInv
<1>2. T \in [Slots -> Seq(Outputs)] /\ MachineTypes /\ MachineTypes' /\ c \in CallClients(T) /\ c \in Clients
  BY CallsSoFine DEF Plausible, MachineOK, CallClients
<1>3. "item" \in CallTypes
  BY DEF CallTypes
<1>4. /\ e \in Calls /\ e.item = i /\ e.type = "item"
      /\ y = Say("item", i, 1, Snapshot(T, i))
  BY <1>3, CallsAre
<1>5. x \in Slots /\ x[1] = i /\ x[2] = 1
  BY <1>1 DEF Slots
<1>6. /\ c.session = "greeted"
      /\ \A j \in Items : c.seen[j] = IF kind[j] # "tool" THEN "hidden"
                                      ELSE IF finished[j] THEN "done" ELSE "open"
      /\ \A s \in Slots : c.heard[s] = IF SaysText(s) THEN T[s] ELSE <<>>
      /\ \A s \in Slots : c.end[s] = IF kind[s[1]] = "tool" THEN stage[s] ELSE "none"
  BY <1>2, CallsSoMeans
<1>7. /\ d \in Clients /\ d.session = "greeted"
      /\ \A j \in Items : d.seen[j] = IF kind'[j] # "tool" THEN "hidden"
                                      ELSE IF finished'[j] THEN "done" ELSE "open"
      /\ \A s \in Slots : d.heard[s] = IF SaysText(s)' THEN T[s] ELSE <<>>
      /\ \A s \in Slots : d.end[s] = IF kind'[s[1]] = "tool" THEN stage'[s] ELSE "none"
  BY <1>2, CallsSoMeansNext
<1>8. \A j : HasDelta(held', j) <=> HasDelta(held, j)
  BY <1>1, <1>4, DeltaAppended
<1>9. \A s \in Slots : SaysText(s)' <=> SaysText(s)
  BY <1>8 DEF SaysText
<1>10. Turned(held, T, e) = <<y>>
  BY <1>4 DEF Turned
<1>11. Tools \subseteq Tools' /\ Tools' \subseteq Items /\ i \in Tools'
  BY DEF Tools
<1>12. MakesSense({}, c, y)
  <2>1. y.type = "item" /\ y.item = i /\ y.part = 1 /\ \A p \in Items : y.text[p] = T[<<i, p>>]
    <3> HIDE DEF y
    <3> QED BY <1>4 DEF Say, Snapshot
  <2>2. c.seen[i] = "open"
    BY <1>6
  <2>3. ASSUME NEW p \in Items PROVE c.end[<<i, p>>] # "open" /\ c.heard[<<i, p>>] = T[<<i, p>>]
    <3> DEFINE s == <<i, p>>
    <3>1. s \in Slots /\ s[1] = i /\ s[2] = p
      BY DEF Slots
    <3>2. c.end[s] = stage[s] /\ c.heard[s] = IF SaysText(s) THEN T[s] ELSE <<>>
      BY <1>6, <3>1
    <3>3. CASE p = 1
      BY <3>1, <3>2, <3>3 DEF SaysText
    <3>4. CASE p # 1
      <4>1. stage[s] = "none"
        BY <3>1, <3>4, StageMeans
      <4>2. T[s] = <<>>
        BY <3>1, <3>4 DEF Plausible
      <4> QED BY <3>1, <3>2, <3>4, <4>1, <4>2 DEF SaysText
    <3> QED BY <3>3, <3>4
  <2> HIDE DEF c, y
  <2> QED BY <2>1, <2>2, <2>3 DEF MakesSense
<1>13. ToldOfCall(T, c, t, i, "item")
  <2> HIDE DEF c
  <2> QED BY <1>1, <1>2, <1>3, <1>4, ToldCall
<1>14. /\ t \in Clients /\ t \in CallClients(T) /\ t.session = c.session
       /\ \A j \in Items : t.seen[j] = IF j = i THEN "done" ELSE c.seen[j]
       /\ \A s \in Slots : t.heard[s] = c.heard[s]
       /\ \A s \in Slots : t.end[s] = c.end[s]
  <2> HIDE DEF c, t
  <2> QED BY <1>13 DEF ToldOfCall
<1>15. t = d
  <2>1. \A j \in Items : kind'[j] = kind[j] /\ finished'[j] = IF j = i THEN TRUE ELSE finished[j]
    BY <1>2 DEF MachineTypes
  <2>2. \A s \in Slots : s[1] \in Items /\ stage'[s] = stage[s] /\ kind'[s[1]] = kind[s[1]]
    BY DEF Slots
  <2> HIDE DEF c, d, t
  <2>3. \A j \in Items : t.seen[j] = d.seen[j]
    <3> TAKE j \in Items
    <3>1. CASE j = i
      <4>1. kind'[j] = "tool" /\ finished'[j]
        BY <2>1, <3>1
      <4> QED BY <1>7, <1>14, <3>1, <4>1
    <3>2. CASE j # i
      <4>1. kind'[j] = kind[j] /\ finished'[j] = finished[j]
        BY <2>1, <3>2
      <4> QED BY <1>6, <1>7, <1>14, <3>2, <4>1
    <3> QED BY <3>1, <3>2
  <2>4. \A s \in Slots : t.heard[s] = d.heard[s] /\ t.end[s] = d.end[s]
    BY <1>6, <1>7, <1>9, <1>14, <2>2
  <2> QED BY <1>6, <1>7, <1>14, <2>3, <2>4, SameClient
<1> HIDE DEF c, d, e, y, t
<1> QED BY <1>1, <1>4, <1>10, <1>11, <1>12, <1>14, <1>15, PlaysOn DEF c, d, e, y, t

-----------------------------------------------------------------------------
(* What is held makes sense to it, in every state.                         *)

(* Nothing is held at the start.                                           *)
LEMMA HeldStarts ==
    ASSUME Init
    PROVE  HeldInv
<1>1. held = <<>> /\ \A i \in Items : kind[i] = "none"
  BY DEF Init
<1>2. held \in Seq(Calls) /\ 1 .. Len(held) = {}
  BY <1>1
<1>3. MachineOK
  BY MachineStarts
<1>4. ASSUME NEW T \in Plausible PROVE Played(T)
  <2> DEFINE q == FlattenSeq(AllBecome(held, T))
             c == CallsSo(T)
  <2>1. q = <<>> /\ q \in Seq(CallEvents(Tools, T))
    <3>1. q = <<>>
      BY <1>1, NothingReleased
    <3>2. \A E : <<>> \in Seq(E)
      OBVIOUS
    <3> HIDE DEF q
    <3> QED BY <3>1, <3>2
  <2>2. T \in [Slots -> Seq(Outputs)] /\ c \in CallClients(T)
    BY <1>3, CallsSoFine DEF Plausible
  <2>3. c = Blank
    <3>1. \A s \in Slots : s[1] \in Items /\ ~SaysText(s)
      BY <1>1 DEF Slots, SaysText
    <3>2. /\ [i \in Items |-> IF kind[i] # "tool" THEN "hidden"
                              ELSE IF finished[i] THEN "done" ELSE "open"] = [i \in Items |-> "hidden"]
          /\ [s \in Slots |-> IF SaysText(s) THEN T[s] ELSE <<>>] = [s \in Slots |-> <<>>]
          /\ [s \in Slots |-> IF kind[s[1]] = "tool" THEN stage[s] ELSE "none"] = [s \in Slots |-> "none"]
      BY <1>1, <3>1
    <3> QED BY <3>2, Zenon DEF CallsSo, Blank
  <2>4. Goes({}, CallClients(T), Blank, <<>>, Blank)
    BY <2>2, <2>3, GoesNowhere
  <2> HIDE DEF q, c
  <2> QED BY <2>1, <2>3, <2>4 DEF Played, q, c
<1> QED BY <1>2, <1>4 DEF HeldInv

(* A step that holds nothing and changes nothing of a call.                *)
LEMMA HeldUnmoved ==
    ASSUME MachineOK, MachineOK', HeldInv, Early' => Early, held' = held,
           \A j \in Items : kind'[j] = "tool" <=> kind[j] = "tool",
           \A j \in Items : kind[j] = "tool" => finished'[j] = finished[j],
           \A s \in Slots : kind[s[1]] = "tool" => stage'[s] = stage[s]
    PROVE  HeldInv'
<1>1. Tools' = Tools
  BY DEF Tools
<1>2. Plausible' = Plausible
  <2>1. \A s \in Slots : s[1] \in Items
    BY DEF Slots
  <2> QED BY <2>1 DEF Plausible
<1>3. ASSUME NEW T \in Plausible, Played(T) PROVE Played(T)'
  <2>1. MachineTypes /\ MachineTypes' /\ T \in [Slots -> Seq(Outputs)]
    BY DEF MachineOK, Plausible
  <2> DEFINE c == CallsSo(T)
             d == CallsSo(T)'
  <2>2. \A s \in Slots : s[1] \in Items /\ (SaysText(s)' <=> SaysText(s))
    BY DEF Slots, SaysText
  <2>3. /\ c \in Clients /\ c.session = "greeted"
        /\ \A i \in Items : c.seen[i] = IF kind[i] # "tool" THEN "hidden"
                                        ELSE IF finished[i] THEN "done" ELSE "open"
        /\ \A s \in Slots : c.heard[s] = IF SaysText(s) THEN T[s] ELSE <<>>
        /\ \A s \in Slots : c.end[s] = IF kind[s[1]] = "tool" THEN stage[s] ELSE "none"
    BY <2>1, CallsSoMeans
  <2>4. /\ d \in Clients /\ d.session = "greeted"
        /\ \A i \in Items : d.seen[i] = IF kind'[i] # "tool" THEN "hidden"
                                        ELSE IF finished'[i] THEN "done" ELSE "open"
        /\ \A s \in Slots : d.heard[s] = IF SaysText(s)' THEN T[s] ELSE <<>>
        /\ \A s \in Slots : d.end[s] = IF kind'[s[1]] = "tool" THEN stage'[s] ELSE "none"
    BY <2>1, CallsSoMeansNext
  <2>5. c = d
    <3> HIDE DEF c, d
    <3>1. \A i \in Items : c.seen[i] = d.seen[i]
      BY <2>3, <2>4
    <3>2. \A s \in Slots : c.heard[s] = d.heard[s]
      BY <2>2, <2>3, <2>4
    <3>3. \A s \in Slots : c.end[s] = d.end[s]
      BY <2>2, <2>3, <2>4
    <3> QED BY <2>3, <2>4, <3>1, <3>2, <3>3, SameClient
  <2> HIDE DEF c, d
  <2> QED BY <1>1, <1>3, <2>5 DEF Played, c, d
<1> QED BY <1>1, <1>2, <1>3 DEF HeldInv

(* One more event of a call is held.                                       *)
LEMMA HeldMore ==
    ASSUME HeldInv, Early, NEW i \in Items, NEW type \in CallTypes,
           held' = Append(held, Say(type, i, 1, <<>>)),
           \A j \in Items : kind[j] = "tool" => kind'[j] = "tool", kind'[i] = "tool",
           \A T \in Plausible' : Played(T)'
    PROVE  HeldInv'
<1> DEFINE e == Say(type, i, 1, <<>>)
           n == Len(held)
<1>1. e \in Calls /\ e.item = i
  BY CallsAre
<1>2. held \in Seq(Calls) /\ \A k \in 1 .. Len(held) : held[k].item \in Tools
  BY DEF HeldInv
<1>3. Tools \subseteq Tools' /\ i \in Tools'
  BY DEF Tools
<1> HIDE DEF e
<1>4. held' \in Seq(Calls) /\ \A k \in 1 .. Len(held') : held'[k] = e \/ (k \in 1 .. Len(held) /\ held'[k] = held[k])
  BY <1>1, <1>2 DEF e
<1>5. \A k \in 1 .. Len(held') : held'[k].item \in Tools'
  BY <1>1, <1>2, <1>3, <1>4
<1> QED BY <1>4, <1>5 DEF HeldInv

(* More calls leave less choice of their texts.                            *)
LEMMA PlausibleShrinks ==
    ASSUME \A j \in Items : kind[j] = "tool" => kind'[j] = "tool"
    PROVE  Plausible' \subseteq Plausible
<1>1. \A s \in Slots : s[1] \in Items
  BY DEF Slots
<1> QED BY <1>1 DEF Plausible

(* Every step keeps the batch such that a client could be told it.         *)
LEMMA HeldStep ==
    ASSUME MachineOK, MachineOK', HeldInv, [Next]_vars
    PROVE  HeldInv'
<1> USE DEF Reads
<1>1. MachineTypes /\ MachineTypes' /\ \A s \in Slots : s[1] \in Items
  BY DEF MachineOK, Slots
<1>2. {"added", "delta", "closed", "stop", "item"} \subseteq CallTypes
  BY DEF CallTypes
<1>3. CASE Complete \/ Eof \/ Fail \/ Disconnect
  BY <1>3 DEF Complete, Eof, Fail, Disconnect, HeldInv, Early
<1>4. CASE Start \/ MessageDelta \/ Receive \/ UNCHANGED vars
  <2>1. UNCHANGED <<kind, stage, finished, held>> /\ (Early' => Early)
    BY <1>4 DEF Start, Emit, MessageDelta, Receive, vars, machineVars, Early
  <2> QED BY <2>1, HeldUnmoved
<1>5. ASSUME NEW k \in {"prose", "tool"}, AddItem(k) PROVE HeldInv'
  <2>1. PICK i \in Items \ Known :
          /\ kind' = [kind EXCEPT ![i] = k]
          /\ stage' = [stage EXCEPT ![<<i, 1>>] = IF protocol = "messages" \/ k = "tool" THEN "open" ELSE "none"]
          /\ IF k = "tool" THEN Hold(Say("added", i, 1, <<>>)) ELSE held' = held
    BY <1>5 DEF AddItem, Emit
  <2>2. kind[i] = "none" /\ finished' = finished /\ Early /\ Early' /\ i \in Items
    BY <1>5, <2>1 DEF AddItem, Known, Early
  <2>3. CASE k = "tool"
    <3>1. /\ kind' = [kind EXCEPT ![i] = "tool"] /\ stage' = [stage EXCEPT ![<<i, 1>>] = "open"]
          /\ held' = Append(held, Say("added", i, 1, <<>>))
      BY <2>1, <2>3 DEF Hold
    <3>2. kind'[i] = "tool" /\ \A j \in Items : kind[j] = "tool" => kind'[j] = "tool"
      BY <1>1, <2>2, <3>1 DEF MachineTypes
    <3>3. \A T \in Plausible' : Played(T)'
      <4> TAKE T \in Plausible'
      <4>1. T \in Plausible /\ 1 \in Items
        BY <3>2, PlausibleShrinks, ItemsAreNumbers
      <4> QED BY <2>2, <3>1, <4>1, CallBegins
    <3> QED BY <1>2, <2>2, <3>1, <3>2, <3>3, HeldMore
  <2>4. CASE k = "prose"
    <3>1. held' = held
      BY <2>1, <2>4
    <3>2. \A j \in Items : (kind'[j] = "tool" <=> kind[j] = "tool")
      BY <1>1, <2>1, <2>2, <2>4 DEF MachineTypes
    <3>3. ASSUME NEW s \in Slots, kind[s[1]] = "tool" PROVE stage'[s] = stage[s]
      <4>1. s # <<i, 1>>
        BY <2>2, <3>3
      <4> QED BY <1>1, <2>1, <4>1 DEF MachineTypes
    <3> QED BY <2>2, <3>1, <3>2, <3>3, HeldUnmoved
  <2> QED BY <2>3, <2>4
<1>6. ASSUME NEW i \in Items, AddPart(i) PROVE HeldInv'
  <2>1. /\ UNCHANGED <<kind, finished, held>> /\ kind[i] = "prose" /\ (Early' => Early)
        /\ \E p : stage' = [stage EXCEPT ![<<i, p>>] = "open"]
    BY <1>6 DEF AddPart, Emit, Early
  <2>2. ASSUME NEW s \in Slots, kind[s[1]] = "tool" PROVE stage'[s] = stage[s]
    <3>1. \A p : s # <<i, p>>
      BY <2>1, <2>2
    <3> QED BY <1>1, <2>1, <3>1 DEF MachineTypes
  <2> QED BY <2>1, <2>2, HeldUnmoved
<1>7. ASSUME NEW s \in Slots, NEW delta \in Chunks, TextDelta(s, delta) PROVE HeldInv'
  <2>1. UNCHANGED <<kind, stage, finished, held>> /\ (Early' => Early)
    BY <1>7 DEF TextDelta, Fed, Emit, Early
  <2> QED BY <2>1, HeldUnmoved
<1>8. ASSUME NEW s \in Slots, TextDone(s) \/ PartDone(s) PROVE HeldInv'
  <2>1. /\ UNCHANGED <<kind, finished, held>> /\ kind[s[1]] = "prose" /\ (Early' => Early)
        /\ \E x : stage' = [stage EXCEPT ![s] = x]
    BY <1>8 DEF TextDone, PartDone, Fed, Emit, Early
  <2>2. ASSUME NEW q \in Slots, kind[q[1]] = "tool" PROVE stage'[q] = stage[q]
    <3>1. q # s
      BY <2>1, <2>2
    <3> QED BY <1>1, <2>1, <3>1 DEF MachineTypes
  <2> QED BY <2>1, <2>2, HeldUnmoved
<1>9. ASSUME NEW i \in Items, NEW delta \in Chunks, ToolDelta(i, delta) PROVE HeldInv'
  <2>1. /\ UNCHANGED <<kind, stage, finished>> /\ kind[i] = "tool" /\ stage[<<i, 1>>] = "open"
        /\ held' = Append(held, Say("delta", i, 1, <<>>)) /\ Early
    BY <1>9 DEF ToolDelta, Hold, Early
  <2>2. \A T \in Plausible' : Played(T)'
    BY <2>1, PlausibleShrinks, CallGoesOn
  <2> QED BY <1>2, <2>1, <2>2, HeldMore
<1>10. ASSUME NEW i \in Items, ArgumentsDone(i) PROVE HeldInv'
  <2>1. /\ UNCHANGED <<kind, finished>> /\ kind[i] = "tool" /\ stage[<<i, 1>>] = "open"
        /\ stage' = [stage EXCEPT ![<<i, 1>>] = "closed"]
        /\ held' = Append(held, Say("closed", i, 1, <<>>)) /\ Early
    BY <1>10 DEF ArgumentsDone, Hold, Early
  <2>2. \A T \in Plausible' : Played(T)'
    BY <2>1, PlausibleShrinks, CallIsClosed
  <2> QED BY <1>2, <2>1, <2>2, HeldMore
<1>11. ASSUME NEW i \in Items, ItemDone(i) PROVE HeldInv'
  <2>1. /\ UNCHANGED <<kind, stage>> /\ finished' = [finished EXCEPT ![i] = TRUE] /\ Early /\ Early'
        /\ ~finished[i] /\ AllClosed(i)
    BY <1>11 DEF ItemDone, Early
  <2>2. CASE kind[i] = "tool"
    <3>1. held' = Append(held, Say("item", i, 1, <<>>)) /\ stage[<<i, 1>>] = "closed"
      BY <1>11, <2>1, <2>2 DEF ItemDone, Hold, AllClosed
    <3>2. \A T \in Plausible' : Played(T)'
      BY <2>1, <2>2, <3>1, PlausibleShrinks, CallIsDone
    <3> QED BY <1>2, <2>1, <2>2, <3>1, <3>2, HeldMore
  <2>3. CASE kind[i] # "tool"
    <3>1. held' = held
      BY <1>11, <2>3 DEF ItemDone, Emit
    <3>2. \A j \in Items : kind[j] = "tool" => finished'[j] = finished[j]
      BY <1>1, <2>1, <2>3 DEF MachineTypes
    <3> QED BY <2>1, <3>1, <3>2, HeldUnmoved
  <2> QED BY <2>2, <2>3
<1>12. ASSUME NEW i \in Items, BlockStop(i) PROVE HeldInv'
  <2>1. /\ UNCHANGED kind /\ finished' = [finished EXCEPT ![i] = TRUE] /\ Early /\ Early'
        /\ stage[<<i, 1>>] = "open" /\ stage' = [stage EXCEPT ![<<i, 1>>] = "done"]
    BY <1>12 DEF BlockStop, Early
  <2>2. CASE kind[i] = "tool"
    <3>1. held' = Append(held, Say("stop", i, 1, <<>>))
      BY <1>12, <2>2 DEF BlockStop, Hold
    <3>2. \A T \in Plausible' : Played(T)'
      <4> TAKE T \in Plausible'
      <4>1. T \in Plausible
        BY <2>1, PlausibleShrinks
      <4>2. "stop" \in {"closed", "stop"} /\ "stop" # "closed"
        OBVIOUS
      <4>3. /\ stage' = [stage EXCEPT ![<<i, 1>>] = IF "stop" = "closed" THEN "closed" ELSE "done"]
            /\ finished' = IF "stop" = "closed" THEN finished ELSE [finished EXCEPT ![i] = TRUE]
        BY <2>1
      <4> QED BY <2>1, <2>2, <3>1, <4>1, <4>2, <4>3, CallIsClosed
    <3> QED BY <1>2, <2>1, <2>2, <3>1, <3>2, HeldMore
  <2>3. CASE kind[i] # "tool"
    <3>1. held' = held
      BY <1>12, <2>3 DEF BlockStop, Fed, Emit
    <3>2. \A j \in Items : kind[j] = "tool" => finished'[j] = finished[j]
      BY <1>1, <2>1, <2>3 DEF MachineTypes
    <3>3. ASSUME NEW s \in Slots, kind[s[1]] = "tool" PROVE stage'[s] = stage[s]
      <4>1. s # <<i, 1>>
        BY <2>3, <3>3
      <4> QED BY <1>1, <2>1, <4>1 DEF MachineTypes
    <3> QED BY <2>1, <3>1, <3>2, <3>3, HeldUnmoved
  <2> QED BY <2>2, <2>3
<1> QED
  BY <1>3, <1>4, <1>5, <1>6, <1>7, <1>8, <1>9, <1>10, <1>11, <1>12 DEF Next

-----------------------------------------------------------------------------
(* The client of a stream.                                                 *)

(* Clients that have heard the beginning of every text, and all of it of   *)
(* the parts that have ended for them.                                     *)
FineClients(t, r) ==
    {c \in Clients : \A s \in Slots :
        /\ Extends(c.heard[s], t[s])
        /\ c.end[s] \in {"closed", "done"} => c.heard[s] = t[s] /\ t[s] = Restore(r[s])}

Client == [session |-> session, seen |-> seen, heard |-> heard, end |-> end]

(* What a client knows that was told everything but the calls.             *)
Mirror ==
    [session |-> IF phase = "idle" THEN "waiting" ELSE "greeted",
     seen |-> [i \in Items |-> IF kind[i] # "prose" THEN "hidden"
                               ELSE IF finished[i] THEN "done" ELSE "open"],
     heard |-> text,
     end |-> [s \in Slots |-> IF kind[s[1]] = "prose" THEN stage[s] ELSE "none"]]

(* What a client knows at the end.                                         *)
Final ==
    [session |-> "complete",
     seen |-> [i \in Items |-> IF kind[i] # "none" THEN "done" ELSE "hidden"],
     heard |-> text, end |-> stage]

Understands ==
    /\ Client \in FineClients(text, raw)
    /\ Early => Goes(Known, FineClients(text, raw), Client, outbox, Mirror)
    /\ phase = "terminal" =>
         outbox = <<>> /\ Goes(Known, FineClients(text, raw), Client, held, Final)
    /\ phase = "ended" => Goes(Known, FineClients(text, raw), Client, outbox, Final)
    /\ phase = "failed" => outbox = <<>>

(* A text begins with itself, and with nothing.                            *)
LEMMA ExtendsItself ==
    ASSUME NEW t \in Seq(Outputs)
    PROVE  Extends(t, t) /\ Extends(<<>>, t)
<1>1. t = t \o <<>> /\ <<>> \in Seq(Outputs) /\ t = <<>> \o t
  OBVIOUS
<1> QED BY <1>1 DEF Extends

(* What a client knows that was told all but the calls, field by field.    *)
LEMMA MirrorMeans ==
    ASSUME MachineTypes
    PROVE  /\ Mirror \in Clients /\ Mirror.session = IF phase = "idle" THEN "waiting" ELSE "greeted"
           /\ \A i \in Items : Mirror.seen[i] = IF kind[i] # "prose" THEN "hidden"
                                                ELSE IF finished[i] THEN "done" ELSE "open"
           /\ \A s \in Slots : Mirror.heard[s] = text[s]
           /\ \A s \in Slots : Mirror.end[s] = IF kind[s[1]] = "prose" THEN stage[s] ELSE "none"
<1> DEFINE sn == [i \in Items |-> IF kind[i] # "prose" THEN "hidden"
                                  ELSE IF finished[i] THEN "done" ELSE "open"]
           nd == [s \in Slots |-> IF kind[s[1]] = "prose" THEN stage[s] ELSE "none"]
           ssn == IF phase = "idle" THEN "waiting" ELSE "greeted"
<1>1. Mirror = [session |-> ssn, seen |-> sn, heard |-> text, end |-> nd]
  BY DEF Mirror
<1>2. sn \in [Items -> {"hidden", "open", "done"}] /\ ssn \in {"waiting", "greeted", "complete"}
  OBVIOUS
<1>3. text \in [Slots -> Seq(Outputs)] /\ nd \in [Slots -> Stages]
  BY DEF MachineTypes, Stages
<1>4. /\ \A i \in Items : sn[i] = IF kind[i] # "prose" THEN "hidden"
                                  ELSE IF finished[i] THEN "done" ELSE "open"
      /\ \A s \in Slots : nd[s] = IF kind[s[1]] = "prose" THEN stage[s] ELSE "none"
  OBVIOUS
<1>5. ssn = IF phase = "idle" THEN "waiting" ELSE "greeted"
  OBVIOUS
<1> HIDE DEF sn, nd, ssn
<1>6. Mirror \in Clients /\ Mirror.session = ssn /\ Mirror.seen = sn /\ Mirror.heard = text /\ Mirror.end = nd
  BY <1>1, <1>2, <1>3 DEF Clients
<1> QED BY <1>4, <1>5, <1>6

(* The same of the next state.                                             *)
LEMMA MirrorMeansNext ==
    ASSUME MachineTypes'
    PROVE  /\ Mirror' \in Clients /\ Mirror'.session = IF phase' = "idle" THEN "waiting" ELSE "greeted"
           /\ \A i \in Items : Mirror'.seen[i] = IF kind'[i] # "prose" THEN "hidden"
                                                 ELSE IF finished'[i] THEN "done" ELSE "open"
           /\ \A s \in Slots : Mirror'.heard[s] = text'[s]
           /\ \A s \in Slots : Mirror'.end[s] = IF kind'[s[1]] = "prose" THEN stage'[s] ELSE "none"
<1> DEFINE sn == [i \in Items |-> IF kind'[i] # "prose" THEN "hidden"
                                  ELSE IF finished'[i] THEN "done" ELSE "open"]
           nd == [s \in Slots |-> IF kind'[s[1]] = "prose" THEN stage'[s] ELSE "none"]
           ssn == IF phase' = "idle" THEN "waiting" ELSE "greeted"
<1>1. Mirror' = [session |-> ssn, seen |-> sn, heard |-> text', end |-> nd]
  BY DEF Mirror
<1>2. sn \in [Items -> {"hidden", "open", "done"}] /\ ssn \in {"waiting", "greeted", "complete"}
  OBVIOUS
<1>3. text' \in [Slots -> Seq(Outputs)] /\ nd \in [Slots -> Stages]
  BY DEF MachineTypes, Stages
<1>4. /\ \A i \in Items : sn[i] = IF kind'[i] # "prose" THEN "hidden"
                                  ELSE IF finished'[i] THEN "done" ELSE "open"
      /\ \A s \in Slots : nd[s] = IF kind'[s[1]] = "prose" THEN stage'[s] ELSE "none"
  OBVIOUS
<1>5. ssn = IF phase' = "idle" THEN "waiting" ELSE "greeted"
  OBVIOUS
<1> HIDE DEF sn, nd, ssn
<1>6. Mirror' \in Clients /\ Mirror'.session = ssn /\ Mirror'.seen = sn /\ Mirror'.heard = text' /\ Mirror'.end = nd
  BY <1>1, <1>2, <1>3 DEF Clients
<1> QED BY <1>4, <1>5, <1>6

(* Such a client has heard what was restored.                              *)
LEMMA MirrorIsFineNext ==
    ASSUME MachineOK', AllText'
    PROVE  Mirror' \in FineClients(text', raw')
<1>1. /\ Mirror' \in Clients
      /\ \A s \in Slots : Mirror'.heard[s] = text'[s]
      /\ \A s \in Slots : Mirror'.end[s] = IF kind'[s[1]] = "prose" THEN stage'[s] ELSE "none"
  BY MirrorMeansNext DEF MachineOK
<1>2. ASSUME NEW s \in Slots
      PROVE  /\ Extends(Mirror'.heard[s], text'[s])
             /\ Mirror'.end[s] \in {"closed", "done"} =>
                  Mirror'.heard[s] = text'[s] /\ text'[s] = Restore(raw'[s])
  <2>1. text'[s] \in Seq(Outputs)
    BY DEF MachineOK, MachineTypes
  <2>2. kind'[s[1]] = "prose" /\ stage'[s] \in {"closed", "done"} => text'[s] = Restore(raw'[s])
    BY DEF AllText, PartText
  <2> QED BY <1>1, <2>1, <2>2, ExtendsItself
<1> QED BY <1>1, <1>2 DEF FineClients

(* A client that is as far as the machine was.                             *)
LEMMA MirrorStaysFine ==
    ASSUME MachineOK, AllText, NEW c \in Clients,
           \A s \in Slots : Extends(c.heard[s], text'[s]),
           \A s \in Slots : c.end[s] = Mirror.end[s],
           \A s \in Slots : kind[s[1]] = "prose" /\ stage[s] \in {"closed", "done"} =>
               c.heard[s] = text[s] /\ text'[s] = text[s] /\ raw'[s] = raw[s]
    PROVE  c \in FineClients(text', raw')
<1>1. \A s \in Slots : c.end[s] = IF kind[s[1]] = "prose" THEN stage[s] ELSE "none"
  BY MirrorMeans DEF MachineOK
<1>2. ASSUME NEW s \in Slots, c.end[s] \in {"closed", "done"}
      PROVE  c.heard[s] = text'[s] /\ text'[s] = Restore(raw'[s])
  <2>1. kind[s[1]] = "prose" /\ stage[s] \in {"closed", "done"}
    BY <1>1, <1>2
  <2>2. text[s] = Restore(raw[s])
    BY <2>1 DEF AllText, PartText
  <2> QED BY <2>1, <2>2
<1> QED BY <1>2 DEF FineClients

(* Where nothing is under way, the client knows all but the calls.         *)
LEMMA NothingToTell ==
    ASSUME Understands, Early, outbox = <<>>
    PROVE  Client = Mirror
BY GoesNowhere DEF Understands

(* What the machine says makes sense to a client that was told all.        *)
LEMMA Emits ==
    ASSUME MachineOK, AllText, MachineOK', AllText', Understands, Early, Early',
           outbox = <<>>, UNCHANGED clientVars,
           \A s \in Slots : Extends(text[s], text'[s]),
           \A s \in Slots : kind[s[1]] = "prose" /\ stage[s] \in {"closed", "done"} =>
               text'[s] = text[s] /\ raw'[s] = raw[s],
           \/ outbox' = <<>> /\ Mirror' = Mirror
           \/ \E e : /\ outbox' = <<e>> /\ MakesSense(Known', Mirror, e) /\ Told(Mirror, e) = Mirror'
           \/ \E d, e : /\ outbox' = <<d, e>> /\ MakesSense(Known', Mirror, d)
                        /\ Told(Mirror, d) \in FineClients(text', raw')
                        /\ MakesSense(Known', Told(Mirror, d), e)
                        /\ Told(Told(Mirror, d), e) = Mirror'
    PROVE  Understands'
<1> DEFINE F == FineClients(text', raw')
           m == Mirror
           K == Known'
<1>1. Client = m /\ Client' = Client
  BY NothingToTell DEF clientVars, Client
<1>2. m \in F
  <2>1. /\ Mirror \in Clients /\ \A s \in Slots : Mirror.heard[s] = text[s]
    BY MirrorMeans DEF MachineOK
  <2> QED BY <2>1, MirrorStaysFine
<1>3. Mirror' \in F
  BY MirrorIsFineNext
<1>4. Goes(K, F, m, <<>>, m) /\ <<>> \in Seq({})
  BY <1>2, GoesNowhere
<1>5. Goes(K, F, m, outbox', Mirror')
  <2>1. CASE outbox' = <<>> /\ Mirror' = Mirror
    BY <1>4, <2>1
  <2>2. ASSUME NEW e, outbox' = <<e>>, MakesSense(K, m, e), Told(m, e) = Mirror'
        PROVE  Goes(K, F, m, outbox', Mirror')
    <3>1. outbox' = Append(<<>>, e)
      BY <2>2
    <3> HIDE DEF K, F, m
    <3>2. Goes(K, F, m, Append(<<>>, e), Told(m, e))
      BY <1>3, <1>4, <2>2, GoesOn
    <3> QED BY <2>2, <3>1, <3>2
  <2>3. ASSUME NEW d, NEW e, outbox' = <<d, e>>, MakesSense(K, m, d), Told(m, d) \in F,
               MakesSense(K, Told(m, d), e), Told(Told(m, d), e) = Mirror'
        PROVE  Goes(K, F, m, outbox', Mirror')
    <3>1. /\ <<>> \in Seq({d, e}) /\ d \in {d, e} /\ e \in {d, e}
      OBVIOUS
    <3>2. <<>> \o <<d, e>> = <<d, e>>
      OBVIOUS
    <3> HIDE DEF K, F, m
    <3>3. Goes(K, F, m, <<>> \o <<d, e>>, Told(Told(m, d), e))
      BY <1>3, <1>4, <2>3, <3>1, GoesTwice
    <3> QED BY <2>3, <3>2, <3>3
  <2> QED BY <2>1, <2>2, <2>3
<1>6. phase' \notin {"terminal", "ended", "failed"}
  BY DEF Early
<1> HIDE DEF F, K, m
<1> QED BY <1>1, <1>2, <1>5, <1>6 DEF Understands, F, K, m

(* A step that says nothing and that the client could not tell.            *)
LEMMA SaysNothing ==
    ASSUME MachineOK, AllText, MachineOK', AllText', Understands, Early, Early',
           outbox = <<>>, outbox' = <<>>, UNCHANGED <<clientVars, text>>,
           phase' = "idle" <=> phase = "idle",
           \A i \in Items : kind[i] = "prose" <=> kind'[i] = "prose",
           \A i \in Items : kind[i] = "prose" => finished'[i] = finished[i],
           \A s \in Slots : kind[s[1]] = "prose" => stage'[s] = stage[s] /\ raw'[s] = raw[s]
    PROVE  Understands'
<1> DEFINE m == Mirror
           n == Mirror'
<1>1. MachineTypes /\ MachineTypes' /\ \A s \in Slots : s[1] \in Items
  BY DEF MachineOK, Slots
<1>2. m = n
  <2>1. /\ m \in Clients /\ m.session = IF phase = "idle" THEN "waiting" ELSE "greeted"
        /\ \A i \in Items : m.seen[i] = IF kind[i] # "prose" THEN "hidden"
                                        ELSE IF finished[i] THEN "done" ELSE "open"
        /\ \A s \in Slots : m.heard[s] = text[s]
        /\ \A s \in Slots : m.end[s] = IF kind[s[1]] = "prose" THEN stage[s] ELSE "none"
    BY <1>1, MirrorMeans
  <2>2. /\ n \in Clients /\ n.session = IF phase' = "idle" THEN "waiting" ELSE "greeted"
        /\ \A i \in Items : n.seen[i] = IF kind'[i] # "prose" THEN "hidden"
                                        ELSE IF finished'[i] THEN "done" ELSE "open"
        /\ \A s \in Slots : n.heard[s] = text'[s]
        /\ \A s \in Slots : n.end[s] = IF kind'[s[1]] = "prose" THEN stage'[s] ELSE "none"
    BY <1>1, MirrorMeansNext
  <2> HIDE DEF m, n
  <2>3. \A i \in Items : m.seen[i] = n.seen[i]
    BY <2>1, <2>2
  <2>4. \A s \in Slots : m.heard[s] = n.heard[s]
    BY <2>1, <2>2
  <2>5. \A s \in Slots : m.end[s] = n.end[s]
    BY <1>1, <2>1, <2>2
  <2>6. m.session = n.session
    BY <2>1, <2>2
  <2> QED BY <2>1, <2>2, <2>3, <2>4, <2>5, <2>6, SameClient
<1>3. \A s \in Slots : Extends(text[s], text'[s])
  BY ExtendsItself DEF MachineOK, MachineTypes
<1>4. UNCHANGED clientVars /\ \A s \in Slots : text'[s] = text[s]
  OBVIOUS
<1> QED BY <1>2, <1>3, <1>4, Emits

(* Receive: the client goes one event further.                             *)
LEMMA ClientIsTold ==
    ASSUME MachineTypes, Understands, Receive
    PROVE  Understands'
<1> DEFINE F == FineClients(text, raw)
<1>1. UNCHANGED machineVars /\ outbox # <<>> /\ outbox' = Tail(outbox)
  BY DEF Receive
<1>2. /\ FineClients(text, raw)' = F /\ Known' = Known /\ Mirror' = Mirror /\ Final' = Final
      /\ (Early' <=> Early) /\ phase' = phase
  BY <1>1 DEF machineVars, Known, Mirror, Final, Early
<1>3. Client' = Told(Client, Head(outbox))
  BY DEF Receive, Client, Told
<1>4. phase \notin {"terminal", "failed"}
  BY <1>1 DEF Understands
<1>5. CASE Early
  <2>1. Goes(Known, F, Client, outbox, Mirror) /\ phase # "ended"
    BY <1>5 DEF Understands, Early
  <2>2. /\ Told(Client, Head(outbox)) \in F
        /\ Goes(Known, F, Told(Client, Head(outbox)), Tail(outbox), Mirror)
    BY <1>1, <2>1, GoesAhead
  <2> HIDE DEF F
  <2> QED BY <1>1, <1>2, <1>3, <1>4, <2>1, <2>2 DEF Understands
<1>6. CASE phase = "ended"
  <2>1. Goes(Known, F, Client, outbox, Final) /\ ~Early
    BY <1>6 DEF Understands, Early
  <2>2. /\ Told(Client, Head(outbox)) \in F
        /\ Goes(Known, F, Told(Client, Head(outbox)), Tail(outbox), Final)
    BY <1>1, <2>1, GoesAhead
  <2> HIDE DEF F
  <2> QED BY <1>1, <1>2, <1>3, <1>4, <2>1, <2>2 DEF Understands
<1>7. Early \/ phase = "ended"
  BY <1>4 DEF MachineTypes, Early
<1> QED BY <1>5, <1>6, <1>7

(* A client that is told e is where the machine is now.                    *)
LEMMA ToldIsNext ==
    ASSUME MachineTypes', NEW c \in Clients, NEW e, e.type = "delta" => e.text \in Seq(Outputs),
           (IF phase' = "idle" THEN "waiting" ELSE "greeted") =
              IF e.type = "start" THEN "greeted" ELSE IF e.type = "complete" THEN "complete" ELSE c.session,
           \A i \in Items :
              (IF kind'[i] # "prose" THEN "hidden" ELSE IF finished'[i] THEN "done" ELSE "open") =
              IF i = e.item /\ e.type = "added" THEN "open"
              ELSE IF i = e.item /\ e.type \in {"item", "stop"} THEN "done" ELSE c.seen[i],
           \A s \in Slots :
              text'[s] = IF s = <<e.item, e.part>> /\ e.type = "delta" THEN c.heard[s] \o e.text ELSE c.heard[s],
           \A s \in Slots :
              (IF kind'[s[1]] = "prose" THEN stage'[s] ELSE "none") =
              IF s = <<e.item, e.part>> /\ e.type \in {"part", "added"} THEN "open"
              ELSE IF s = <<e.item, e.part>> /\ e.type = "closed" THEN "closed"
              ELSE IF s = <<e.item, e.part>> /\ e.type \in {"done", "stop"} THEN "done" ELSE c.end[s]
    PROVE  Told(c, e) = Mirror'
<1> DEFINE t == Told(c, e)
           n == Mirror'
           x == <<e.item, e.part>>
<1>1. /\ t \in Clients
      /\ t.session = IF e.type = "start" THEN "greeted"
                     ELSE IF e.type = "complete" THEN "complete" ELSE c.session
      /\ \A i \in Items :
           t.seen[i] = IF i = e.item /\ e.type = "added" THEN "open"
                       ELSE IF i = e.item /\ e.type \in {"item", "stop"} THEN "done"
                       ELSE c.seen[i]
      /\ \A s \in Slots :
           t.heard[s] = IF s = x /\ e.type = "delta" THEN c.heard[s] \o e.text ELSE c.heard[s]
      /\ \A s \in Slots :
           t.end[s] = IF s = x /\ e.type \in {"part", "added"} THEN "open"
                      ELSE IF s = x /\ e.type = "closed" THEN "closed"
                      ELSE IF s = x /\ e.type \in {"done", "stop"} THEN "done"
                      ELSE c.end[s]
  BY ToldMeans
<1>2. /\ n \in Clients /\ n.session = IF phase' = "idle" THEN "waiting" ELSE "greeted"
      /\ \A i \in Items : n.seen[i] = IF kind'[i] # "prose" THEN "hidden"
                                      ELSE IF finished'[i] THEN "done" ELSE "open"
      /\ \A s \in Slots : n.heard[s] = text'[s]
      /\ \A s \in Slots : n.end[s] = IF kind'[s[1]] = "prose" THEN stage'[s] ELSE "none"
  BY MirrorMeansNext
<1> HIDE DEF t, n
<1>3. \A i \in Items : t.seen[i] = n.seen[i]
  BY <1>1, <1>2
<1>4. \A s \in Slots : t.heard[s] = n.heard[s]
  BY <1>1, <1>2
<1>5. \A s \in Slots : t.end[s] = n.end[s]
  BY <1>1, <1>2
<1>6. t.session = n.session
  <2>1. t.session = IF e.type = "start" THEN "greeted"
                    ELSE IF e.type = "complete" THEN "complete" ELSE c.session
    BY <1>1
  <2>2. n.session = IF phase' = "idle" THEN "waiting" ELSE "greeted"
    BY <1>2
  <2> QED BY <2>1, <2>2, Zenon
<1> QED BY <1>1, <1>2, <1>3, <1>4, <1>5, <1>6, SameClient DEF t, n

SaysInTurn ==
    /\ MachineOK /\ AllText /\ MachineOK' /\ AllText' /\ Understands /\ Early /\ Early'
    /\ outbox = <<>> /\ UNCHANGED clientVars

(* A step that says one thing and restores nothing.                        *)
LEMMA SaysOne ==
    ASSUME SaysInTurn, UNCHANGED <<text, raw>>, NEW e, outbox' = <<e>>,
           MakesSense(Known', Mirror, e), Told(Mirror, e) = Mirror'
    PROVE  Understands'
<1>1. \A s \in Slots : Extends(text[s], text'[s]) /\ text'[s] = text[s] /\ raw'[s] = raw[s]
  BY ExtendsItself DEF SaysInTurn, MachineOK, MachineTypes
<1> QED BY <1>1, Emits DEF SaysInTurn

(* Start: the session is announced.                                        *)
LEMMA StartIsSaid ==
    ASSUME MachineOK, AllText, MachineOK', AllText', Understands, Start
    PROVE  Understands'
<1> DEFINE e == Say("start", 0, 0, <<>>)
           m == Mirror
<1>1. /\ phase = "idle" /\ phase' = "open" /\ outbox = <<>> /\ outbox' = <<e>>
      /\ UNCHANGED <<kind, stage, raw, text, finished>> /\ UNCHANGED clientVars
  BY DEF Start, Reads, Emit
<1>2. SaysInTurn
  BY <1>1 DEF SaysInTurn, Early
<1>3. e.type = "start" /\ e.item = 0 /\ e.part = 0
  BY DEF Say
<1>4. /\ m \in Clients /\ m.session = "waiting"
      /\ \A i \in Items : m.seen[i] = IF kind[i] # "prose" THEN "hidden"
                                      ELSE IF finished[i] THEN "done" ELSE "open"
      /\ \A s \in Slots : m.heard[s] = text[s]
      /\ \A s \in Slots : m.end[s] = IF kind[s[1]] = "prose" THEN stage[s] ELSE "none"
  BY <1>1, MirrorMeans DEF MachineOK
<1> HIDE DEF m, e
<1>5. MakesSense(Known', m, e)
  BY <1>3, <1>4 DEF MakesSense
<1>6. Told(m, e) = Mirror'
  BY <1>1, <1>3, <1>4, ToldIsNext DEF MachineOK
<1> QED BY <1>1, <1>2, <1>5, <1>6, SaysOne DEF m, e

(* AddItem: prose is announced, a call is held.                            *)
LEMMA ItemIsSaid ==
    ASSUME MachineOK, AllText, MachineOK', AllText', Understands, NEW k \in {"prose", "tool"}, AddItem(k)
    PROVE  Understands'
<1> DEFINE whole == protocol = "messages" \/ k = "tool"
<1>1. PICK i \in Items \ Known :
          /\ kind' = [kind EXCEPT ![i] = k]
          /\ parts' = [parts EXCEPT ![i] = IF whole THEN 1 ELSE 0]
          /\ stage' = [stage EXCEPT ![<<i, 1>>] = IF whole THEN "open" ELSE "none"]
          /\ UNCHANGED clientVars
          /\ outbox' = IF k = "tool" THEN outbox ELSE <<Say("added", i, parts'[i], <<>>)>>
  BY DEF AddItem, Hold, Emit
<1>2. /\ phase = "open" /\ outbox = <<>> /\ UNCHANGED <<phase, raw, text, finished>>
      /\ i \in Items /\ kind[i] = "none"
  BY DEF AddItem, Reads, Known
<1>3. SaysInTurn
  BY <1>1, <1>2 DEF SaysInTurn, Early
<1>4. MachineTypes /\ MachineTypes' /\ 1 \in Items /\ 0 \notin Items
  BY ItemsAreNumbers DEF MachineOK
<1>5. \A j \in Items : kind'[j] = IF j = i THEN k ELSE kind[j]
  BY <1>1, <1>4 DEF MachineTypes
<1>6. \A s \in Slots : s[1] = i => stage[s] = "none" /\ s = <<i, s[2]>>
  BY <1>2, StageMeans
<1>7. \A s \in Slots : s[1] \in Items /\ stage'[s] = IF s = <<i, 1>> /\ whole THEN "open" ELSE stage[s]
  <2> TAKE s \in Slots
  <2>1. s[1] \in Items
    BY DEF Slots
  <2>2. CASE s = <<i, 1>>
    <3>1. s[1] = i
      BY <2>2
    <3>2. stage[s] = "none"
      BY <1>6, <3>1
    <3> QED BY <1>1, <1>4, <2>1, <2>2, <3>2 DEF MachineTypes
  <2>3. CASE s # <<i, 1>>
    BY <1>1, <1>4, <2>1, <2>3 DEF MachineTypes
  <2> QED BY <2>2, <2>3
<1>8. CASE k = "tool"
  <2>1. outbox' = <<>>
    BY <1>1, <1>2, <1>8
  <2>2. \A j \in Items : kind[j] = "prose" <=> kind'[j] = "prose"
    BY <1>2, <1>5, <1>8
  <2>3. \A s \in Slots : kind[s[1]] = "prose" => stage'[s] = stage[s] /\ raw'[s] = raw[s]
    <3> TAKE s \in Slots
    <3>1. kind[s[1]] = "prose" => s # <<i, 1>>
      BY <1>2
    <3> QED BY <1>2, <1>7, <3>1
  <2>4. \A j \in Items : finished'[j] = finished[j]
    BY <1>2
  <2> QED BY <1>2, <1>3, <2>1, <2>2, <2>3, <2>4, SaysNothing DEF SaysInTurn
<1>9. CASE k = "prose"
  <2> DEFINE p == parts'[i]
             e == Say("added", i, p, <<>>)
             m == Mirror
  <2>1. p = (IF whole THEN 1 ELSE 0) /\ outbox' = <<e>>
    BY <1>1, <1>2, <1>4, <1>9 DEF MachineTypes
  <2>2. e.type = "added" /\ e.item = i /\ e.part = p
    BY DEF Say
  <2>3. /\ m \in Clients /\ m.session = "greeted"
        /\ \A j \in Items : m.seen[j] = IF kind[j] # "prose" THEN "hidden"
                                        ELSE IF finished[j] THEN "done" ELSE "open"
        /\ \A s \in Slots : m.heard[s] = text[s]
        /\ \A s \in Slots : m.end[s] = IF kind[s[1]] = "prose" THEN stage[s] ELSE "none"
    BY <1>2, <1>4, MirrorMeans
  <2> HIDE DEF m, e, p
  <2>4. MakesSense(Known', m, e)
    BY <1>2, <2>2, <2>3 DEF MakesSense
  <2>5. ASSUME NEW j \in Items
        PROVE (IF kind'[j] # "prose" THEN "hidden" ELSE IF finished'[j] THEN "done" ELSE "open") =
              IF j = e.item /\ e.type = "added" THEN "open"
              ELSE IF j = e.item /\ e.type \in {"item", "stop"} THEN "done" ELSE m.seen[j]
    <3>1. CASE j = i
      <4>1. ItemOK(i)
        BY <1>2 DEF MachineOK
      <4>2. ~finished[i]
        BY <1>2, <4>1 DEF ItemOK
      <4> QED BY <1>2, <1>5, <1>9, <2>2, <3>1, <4>2
    <3>2. CASE j # i
      BY <1>2, <1>5, <2>2, <2>3, <3>2
    <3> QED BY <3>1, <3>2
  <2>6. ASSUME NEW s \in Slots
        PROVE (IF kind'[s[1]] = "prose" THEN stage'[s] ELSE "none") =
              IF s = <<e.item, e.part>> /\ e.type \in {"part", "added"} THEN "open"
              ELSE IF s = <<e.item, e.part>> /\ e.type = "closed" THEN "closed"
              ELSE IF s = <<e.item, e.part>> /\ e.type \in {"done", "stop"} THEN "done" ELSE m.end[s]
    <3>1. s = <<i, p>> <=> s = <<i, 1>> /\ whole
      <4>1. s[2] \in Items
        BY DEF Slots
      <4>2. CASE whole
        <5>1. p = 1
          BY <2>1, <4>2
        <5> QED BY <4>2, <5>1
      <4>3. CASE ~whole
        <5>1. p = 0
          BY <2>1, <4>3
        <5>2. s = <<i, p>> => s[2] = 0
          BY <5>1
        <5> QED BY <1>4, <4>1, <4>3, <5>2
      <4> QED BY <4>2, <4>3
    <3> HIDE DEF whole
    <3>2. CASE s = <<i, 1>> /\ whole
      <4>1. s[1] = i /\ stage'[s] = "open"
        BY <1>7, <3>2
      <4> QED BY <1>5, <1>9, <2>2, <3>1, <3>2, <4>1
    <3>3. CASE ~(s = <<i, 1>> /\ whole)
      <4>1. stage'[s] = stage[s] /\ s[1] \in Items
        BY <1>7, <3>3
      <4>2. CASE s[1] = i
        BY <1>2, <1>5, <1>6, <1>9, <2>2, <2>3, <3>1, <3>3, <4>1, <4>2
      <4>3. CASE s[1] # i
        BY <1>5, <2>2, <2>3, <3>1, <3>3, <4>1, <4>3
      <4> QED BY <4>2, <4>3
    <3> QED BY <3>2, <3>3
  <2>7. Told(m, e) = Mirror'
    <3>1. (IF phase' = "idle" THEN "waiting" ELSE "greeted") =
             IF e.type = "start" THEN "greeted" ELSE IF e.type = "complete" THEN "complete" ELSE m.session
      BY <1>2, <2>2, <2>3
    <3>2. \A s \in Slots :
             text'[s] = IF s = <<e.item, e.part>> /\ e.type = "delta" THEN m.heard[s] \o e.text ELSE m.heard[s]
      BY <1>2, <2>2, <2>3
    <3>3. e.type = "delta" => e.text \in Seq(Outputs)
      BY <2>2
    <3> QED BY <1>4, <2>3, <2>5, <2>6, <3>1, <3>2, <3>3, ToldIsNext
  <2>8. UNCHANGED <<text, raw>>
    BY <1>2
  <2> QED BY <1>3, <2>1, <2>4, <2>7, <2>8, SaysOne DEF m
<1> QED BY <1>8, <1>9

(* AddPart: the part is announced.                                         *)
LEMMA PartIsSaid ==
    ASSUME MachineOK, AllText, MachineOK', AllText', Understands, NEW i \in Items, AddPart(i)
    PROVE  Understands'
<1> DEFINE p == parts[i] + 1
           e == Say("part", i, p, <<>>)
           m == Mirror
           x == <<i, p>>
<1>1. /\ phase = "open" /\ outbox = <<>> /\ outbox' = <<e>> /\ UNCHANGED clientVars
      /\ UNCHANGED <<phase, kind, raw, text, finished>> /\ kind[i] = "prose" /\ ~finished[i]
      /\ protocol = "responses" /\ TotalItems < MaxItems
      /\ stage' = [stage EXCEPT ![x] = "open"]
  BY DEF AddPart, Reads, Emit
<1>2. SaysInTurn /\ MachineTypes /\ MachineTypes' /\ ItemOK(i)
  BY <1>1 DEF SaysInTurn, Early, MachineOK
<1>3. p \in Items /\ x \in Slots
  <2>1. parts[i] \in Nat /\ p <= MaxItems
    BY <1>1, <1>2, PartsFit, ItemsAreNumbers DEF MachineTypes
  <2> QED BY <2>1, ItemsAreNumbers DEF Items, Slots
<1>4. stage[x] = "none"
  <2>1. p > parts[i]
    BY <1>2, ItemsAreNumbers DEF MachineTypes
  <2> HIDE DEF p
  <2> QED BY <1>2, <1>3, <2>1 DEF ItemOK
<1>5. e.type = "part" /\ e.item = i /\ e.part = p
  BY DEF Say
<1>6. x[1] = i
  OBVIOUS
<1>7. /\ m \in Clients /\ m.session = "greeted"
      /\ \A j \in Items : m.seen[j] = IF kind[j] # "prose" THEN "hidden"
                                      ELSE IF finished[j] THEN "done" ELSE "open"
      /\ \A s \in Slots : m.heard[s] = text[s]
      /\ \A s \in Slots : m.end[s] = IF kind[s[1]] = "prose" THEN stage[s] ELSE "none"
  BY <1>1, <1>2, MirrorMeans
<1>8. \A s \in Slots : stage'[s] = IF s = x THEN "open" ELSE stage[s]
  BY <1>1, <1>2 DEF MachineTypes
<1> HIDE DEF m, e, p
<1>9. m.end[x] = "none" /\ m.seen[i] = "open"
  BY <1>1, <1>3, <1>4, <1>6, <1>7
<1>10. MakesSense(Known', m, e)
  BY <1>5, <1>9 DEF MakesSense
<1>11. Told(m, e) = Mirror'
  <2>1. \A s \in Slots :
           (IF kind'[s[1]] = "prose" THEN stage'[s] ELSE "none") =
           IF s = <<e.item, e.part>> /\ e.type \in {"part", "added"} THEN "open"
           ELSE IF s = <<e.item, e.part>> /\ e.type = "closed" THEN "closed"
           ELSE IF s = <<e.item, e.part>> /\ e.type \in {"done", "stop"} THEN "done" ELSE m.end[s]
    <3> HIDE DEF x
    <3>1. x = <<e.item, e.part>>
      BY <1>5 DEF x
    <3> QED BY <1>1, <1>5, <1>6, <1>7, <1>8, <3>1
  <2> QED BY <1>1, <1>2, <1>5, <1>7, <2>1, ToldIsNext
<1> QED BY <1>1, <1>2, <1>10, <1>11, SaysOne DEF m, e

(* PartDone: the snapshot is what the client has heard.                    *)
LEMMA PartEndIsSaid ==
    ASSUME MachineOK, AllText, MachineOK', AllText', Understands, NEW s \in Slots, PartDone(s)
    PROVE  Understands'
<1> DEFINE e == Say("done", s[1], s[2], text[s])
           m == Mirror
<1>1. /\ phase = "open" /\ outbox = <<>> /\ outbox' = <<e>> /\ UNCHANGED clientVars
      /\ UNCHANGED <<phase, kind, raw, text, finished>> /\ kind[s[1]] = "prose" /\ stage[s] = "closed"
      /\ stage' = [stage EXCEPT ![s] = "done"]
  BY DEF PartDone, Reads, Emit
<1>2. SaysInTurn /\ MachineTypes /\ MachineTypes'
  BY <1>1 DEF SaysInTurn, Early, MachineOK
<1>3. e.type = "done" /\ e.item = s[1] /\ e.part = s[2] /\ e.text = text[s]
  BY DEF Say
<1>4. s = <<s[1], s[2]>>
  BY StageMeans
<1>5. /\ m \in Clients /\ m.session = "greeted"
      /\ \A j \in Items : m.seen[j] = IF kind[j] # "prose" THEN "hidden"
                                      ELSE IF finished[j] THEN "done" ELSE "open"
      /\ \A q \in Slots : m.heard[q] = text[q]
      /\ \A q \in Slots : m.end[q] = IF kind[q[1]] = "prose" THEN stage[q] ELSE "none"
  BY <1>1, <1>2, MirrorMeans
<1>6. \A q \in Slots : stage'[q] = IF q = s THEN "done" ELSE stage[q]
  BY <1>1, <1>2 DEF MachineTypes
<1> HIDE DEF m, e
<1>7. s = <<e.item, e.part>>
  BY <1>3, <1>4
<1>8. MakesSense(Known', m, e)
  <2>1. m.end[s] = "closed" /\ m.heard[s] = e.text
    BY <1>1, <1>3, <1>5
  <2> QED BY <1>3, <1>7, <2>1 DEF MakesSense
<1>9. Told(m, e) = Mirror'
  <2>1. \A q \in Slots :
           (IF kind'[q[1]] = "prose" THEN stage'[q] ELSE "none") =
           IF q = <<e.item, e.part>> /\ e.type \in {"part", "added"} THEN "open"
           ELSE IF q = <<e.item, e.part>> /\ e.type = "closed" THEN "closed"
           ELSE IF q = <<e.item, e.part>> /\ e.type \in {"done", "stop"} THEN "done" ELSE m.end[q]
    BY <1>1, <1>3, <1>5, <1>6, <1>7
  <2> QED BY <1>1, <1>2, <1>3, <1>5, <2>1, ToldIsNext
<1> QED BY <1>1, <1>2, <1>8, <1>9, SaysOne DEF m, e

(* ItemDone: no part of the message is open for the client.                *)
LEMMA ItemEndIsSaid ==
    ASSUME MachineOK, AllText, MachineOK', AllText', Understands, NEW i \in Items, ItemDone(i)
    PROVE  Understands'
<1> DEFINE e == Say("item", i, 0, Snapshot(text, i))
           m == Mirror
<1>1. /\ phase = "open" /\ outbox = <<>> /\ UNCHANGED clientVars
      /\ UNCHANGED <<phase, kind, stage, raw, text>> /\ kind[i] # "none" /\ ~finished[i] /\ AllClosed(i)
      /\ finished' = [finished EXCEPT ![i] = TRUE]
      /\ outbox' = IF kind[i] = "tool" THEN outbox ELSE <<e>>
  BY DEF ItemDone, Reads, Emit, Hold, Known
<1>2. SaysInTurn /\ MachineTypes /\ MachineTypes' /\ 0 \notin Items
  BY <1>1, ItemsAreNumbers DEF SaysInTurn, Early, MachineOK
<1>3. \A j \in Items : j # i => finished'[j] = finished[j]
  BY <1>1, <1>2 DEF MachineTypes
<1>4. finished'[i]
  BY <1>1, <1>2 DEF MachineTypes
<1>5. CASE kind[i] = "tool"
  <2>1. \A j \in Items : kind[j] = "prose" => finished'[j] = finished[j]
    BY <1>3, <1>5
  <2> QED BY <1>1, <1>2, <1>5, <2>1, SaysNothing DEF SaysInTurn
<1>6. CASE kind[i] # "tool"
  <2>1. kind[i] = "prose" /\ outbox' = <<e>>
    BY <1>1, <1>2, <1>6 DEF MachineTypes
  <2>2. e.type = "item" /\ e.item = i /\ e.part = 0 /\ \A p \in Items : e.text[p] = text[<<i, p>>]
    BY DEF Say, Snapshot
  <2>3. /\ m \in Clients /\ m.session = "greeted"
        /\ \A j \in Items : m.seen[j] = IF kind[j] # "prose" THEN "hidden"
                                        ELSE IF finished[j] THEN "done" ELSE "open"
        /\ \A q \in Slots : m.heard[q] = text[q]
        /\ \A q \in Slots : m.end[q] = IF kind[q[1]] = "prose" THEN stage[q] ELSE "none"
    BY <1>1, <1>2, MirrorMeans
  <2> HIDE DEF m, e
  <2>4. MakesSense(Known', m, e)
    <3>1. m.seen[i] = "open"
      BY <1>1, <2>1, <2>3
    <3>2. ASSUME NEW p \in Items
          PROVE  m.end[<<i, p>>] # "open" /\ m.heard[<<i, p>>] = e.text[p]
      <4> DEFINE q == <<i, p>>
      <4>1. q \in Slots /\ q[1] = i /\ q[2] = p
        BY DEF Slots
      <4>2. stage[q] # "open"
        <5>1. stage[q] # "none" => p <= parts[i]
          BY <4>1, StageMeans
        <5>2. parts[i] \in Nat /\ p \in Nat /\ 1 <= p
          BY <1>2, ItemsAreNumbers DEF MachineTypes
        <5>3. \A r \in 1 .. parts[i] : stage[<<i, r>>] = "done"
          BY <1>1, <1>6 DEF AllClosed
        <5> QED BY <5>1, <5>2, <5>3
      <4>3. m.end[q] = stage[q] /\ m.heard[q] = text[q]
        BY <2>1, <2>3, <4>1
      <4> QED BY <2>2, <4>2, <4>3
    <3> QED BY <2>2, <3>1, <3>2 DEF MakesSense
  <2>5. Told(m, e) = Mirror'
    <3>1. \A j \in Items :
            (IF kind'[j] # "prose" THEN "hidden" ELSE IF finished'[j] THEN "done" ELSE "open") =
            IF j = e.item /\ e.type = "added" THEN "open"
            ELSE IF j = e.item /\ e.type \in {"item", "stop"} THEN "done" ELSE m.seen[j]
      <4> TAKE j \in Items
      <4>1. CASE j = i
        BY <1>1, <1>4, <2>1, <2>2, <4>1
      <4>2. CASE j # i
        BY <1>1, <1>3, <2>2, <2>3, <4>2
      <4> QED BY <4>1, <4>2
    <3>2. \A q \in Slots :
           (IF kind'[q[1]] = "prose" THEN stage'[q] ELSE "none") =
           IF q = <<e.item, e.part>> /\ e.type \in {"part", "added"} THEN "open"
           ELSE IF q = <<e.item, e.part>> /\ e.type = "closed" THEN "closed"
           ELSE IF q = <<e.item, e.part>> /\ e.type \in {"done", "stop"} THEN "done" ELSE m.end[q]
      BY <1>1, <2>2, <2>3
    <3>3. (IF phase' = "idle" THEN "waiting" ELSE "greeted") =
             IF e.type = "start" THEN "greeted" ELSE IF e.type = "complete" THEN "complete" ELSE m.session
      BY <1>1, <2>2, <2>3
    <3>4. \A s \in Slots :
             text'[s] = IF s = <<e.item, e.part>> /\ e.type = "delta" THEN m.heard[s] \o e.text ELSE m.heard[s]
      BY <1>1, <2>2, <2>3
    <3>5. e.type = "delta" => e.text \in Seq(Outputs)
      BY <2>2
    <3> QED BY <1>2, <2>3, <3>1, <3>2, <3>3, <3>4, <3>5, ToldIsNext
  <2>6. UNCHANGED <<text, raw>>
    BY <1>1
  <2> QED BY <1>2, <2>1, <2>4, <2>5, <2>6, SaysOne DEF m
<1> QED BY <1>5, <1>6

(* Two sequences of one event each.                                        *)
LEMMA OneAndOne ==
    ASSUME NEW a, NEW b
    PROVE  <<a>> \o <<b>> = <<a, b>>
<1> DEFINE E == {a, b}
<1>1. <<a>> \in Seq(E) /\ <<b>> \in Seq(E) /\ <<a, b>> \in Seq(E)
  OBVIOUS
<1>2. /\ <<a>> \o <<b>> \in Seq(E) /\ Len(<<a>> \o <<b>>) = 2
      /\ (<<a>> \o <<b>>)[1] = a /\ (<<a>> \o <<b>>)[2] = b
  BY <1>1, ConcatProperties
<1>3. Len(<<a, b>>) = 2 /\ <<a, b>>[1] = a /\ <<a, b>>[2] = b
  OBVIOUS
<1>4. \A k \in 1 .. 2 : k = 1 \/ k = 2
  OBVIOUS
<1> QED BY <1>1, <1>2, <1>3, <1>4, SeqEqual

(* What a client knows that has heard the text restored last.              *)
HasHeard(b) ==
    /\ b \in Clients /\ b.session = "greeted"
    /\ \A j \in Items : b.seen[j] = IF kind[j] # "prose" THEN "hidden"
                                    ELSE IF finished[j] THEN "done" ELSE "open"
    /\ \A q \in Slots : b.heard[q] = text'[q]
    /\ \A q \in Slots : b.end[q] = IF kind[q[1]] = "prose" THEN stage[q] ELSE "none"

(* The text that feeding a part lets go is said first.                     *)
LEMMA FedIsSaid ==
    ASSUME SaysInTurn, NEW s \in Slots, stage[s] = "open", kind[s[1]] = "prose",
           phase = "open", NEW delta \in Seq(Characters), NEW final \in BOOLEAN, NEW then,
           Fed(s, delta, final, then),
           \/ then = <<>> /\ \A b : HasHeard(b) => b = Mirror'
           \/ \E e : /\ then = <<e>>
                     /\ \A b : HasHeard(b) => MakesSense(Known', b, e) /\ Told(b, e) = Mirror'
    PROVE  Understands'
<1> DEFINE f == Feed(suffix[s], delta, final)
           d == Say("delta", s[1], s[2], f.text)
           m == Mirror
           t == Told(m, d)
<1>1. MachineOK /\ MachineOK' /\ AllText /\ MachineTypes /\ MachineTypes'
  BY DEF SaysInTurn, MachineOK
<1>2. /\ raw' = [raw EXCEPT ![s] = @ \o delta]
      /\ text' = [text EXCEPT ![s] = text[s] \o f.text]
      /\ outbox' = (IF f.text = <<>> THEN <<>> ELSE <<d>>) \o then
  BY DEF Fed, Emit
<1>3. f.text \in Seq(Outputs)
  BY <1>1, FeedType DEF MachineTypes
<1>4. d.type = "delta" /\ d.item = s[1] /\ d.part = s[2] /\ d.text = f.text
  BY DEF Say
<1>5. s = <<s[1], s[2]>> /\ s[1] \in Items /\ ~finished[s[1]]
  BY <1>1, StageMeans
<1>6. /\ m \in Clients /\ m.session = "greeted"
      /\ \A j \in Items : m.seen[j] = IF kind[j] # "prose" THEN "hidden"
                                      ELSE IF finished[j] THEN "done" ELSE "open"
      /\ \A q \in Slots : m.heard[q] = text[q]
      /\ \A q \in Slots : m.end[q] = IF kind[q[1]] = "prose" THEN stage[q] ELSE "none"
  BY <1>1, MirrorMeans
<1> HIDE DEF f, d, m
<1>7. \A q \in Slots : text'[q] = IF q = s THEN text[s] \o f.text ELSE text[q]
  BY <1>1, <1>2 DEF MachineTypes
<1>8. \A q \in Slots : Extends(text[q], text'[q]) /\ text'[q] \in Seq(Outputs)
  <2> TAKE q \in Slots
  <2>1. text[q] \in Seq(Outputs) /\ text'[q] \in Seq(Outputs)
    BY <1>1 DEF MachineTypes
  <2>2. q = s => Extends(text[q], text'[q])
    BY <1>3, <1>7 DEF Extends
  <2>3. q # s => Extends(text[q], text'[q])
    BY <1>7, <2>1, ExtendsItself
  <2> QED BY <2>1, <2>2, <2>3
<1>9. \A q \in Slots : kind[q[1]] = "prose" /\ stage[q] \in {"closed", "done"} =>
          text'[q] = text[q] /\ raw'[q] = raw[q]
  BY <1>1, <1>2, <1>7 DEF MachineTypes
<1>10. CASE f.text = <<>>
  <2>1. HasHeard(m)
    <3>1. text[s] \o <<>> = text[s]
      BY <1>1 DEF MachineTypes
    <3> QED BY <1>6, <1>7, <1>10, <3>1 DEF HasHeard
  <2>2. outbox' = <<>> \o then
    BY <1>2, <1>10
  <2>3. CASE then = <<>> /\ \A b : HasHeard(b) => b = Mirror'
    <3>1. outbox' = <<>>
      BY <2>2, <2>3
    <3> QED BY <1>8, <1>9, <2>1, <2>3, <3>1, Emits DEF SaysInTurn, m
  <2>4. ASSUME NEW e, then = <<e>>, MakesSense(Known', m, e), Told(m, e) = Mirror'
        PROVE  Understands'
    <3>1. outbox' = <<e>>
      BY <2>2, <2>4
    <3> QED BY <1>8, <1>9, <2>4, <3>1, Emits DEF SaysInTurn, m
  <2> QED BY <2>1, <2>3, <2>4
<1>11. CASE f.text # <<>>
  <2>1. MakesSense(Known', m, d)
    <3>1. m.seen[s[1]] = "open" /\ m.end[s] = "open"
      BY <1>5, <1>6
    <3> QED BY <1>4, <1>5, <3>1 DEF MakesSense
  <2>2. HasHeard(t)
    <3>1. d.type = "delta" => d.text \in Seq(Outputs)
      BY <1>3, <1>4
    <3>2. /\ t \in Clients /\ t.session = m.session
          /\ \A j \in Items : t.seen[j] = m.seen[j]
          /\ \A q \in Slots : t.heard[q] = IF q = <<d.item, d.part>> THEN m.heard[q] \o d.text ELSE m.heard[q]
          /\ \A q \in Slots : t.end[q] = m.end[q]
      <4>1. /\ t \in Clients
            /\ t.session = IF d.type = "start" THEN "greeted"
                           ELSE IF d.type = "complete" THEN "complete" ELSE m.session
            /\ \A j \in Items :
                 t.seen[j] = IF j = d.item /\ d.type = "added" THEN "open"
                             ELSE IF j = d.item /\ d.type \in {"item", "stop"} THEN "done"
                             ELSE m.seen[j]
            /\ \A q \in Slots :
                 t.heard[q] = IF q = <<d.item, d.part>> /\ d.type = "delta" THEN m.heard[q] \o d.text
                              ELSE m.heard[q]
            /\ \A q \in Slots :
                 t.end[q] = IF q = <<d.item, d.part>> /\ d.type \in {"part", "added"} THEN "open"
                            ELSE IF q = <<d.item, d.part>> /\ d.type = "closed" THEN "closed"
                            ELSE IF q = <<d.item, d.part>> /\ d.type \in {"done", "stop"} THEN "done"
                            ELSE m.end[q]
        BY <1>6, <3>1, ToldMeans
      <4> HIDE DEF t
      <4> QED BY <1>4, <4>1
    <3>3. \A q \in Slots : t.heard[q] = text'[q]
      <4> HIDE DEF t
      <4> QED BY <1>4, <1>5, <1>6, <1>7, <3>2
    <3> HIDE DEF t
    <3> QED BY <1>6, <3>2, <3>3 DEF HasHeard
  <2>3. t \in FineClients(text', raw')
    <3> HIDE DEF t
    <3>1. \A q \in Slots : Extends(t.heard[q], text'[q])
      BY <1>8, <2>2, ExtendsItself DEF HasHeard
    <3>2. \A q \in Slots : t.end[q] = m.end[q]
      BY <1>6, <2>2 DEF HasHeard
    <3>3. \A q \in Slots : kind[q[1]] = "prose" /\ stage[q] \in {"closed", "done"} =>
               t.heard[q] = text[q] /\ text'[q] = text[q] /\ raw'[q] = raw[q]
      BY <1>9, <2>2 DEF HasHeard
    <3> QED BY <1>1, <2>2, <3>1, <3>2, <3>3, MirrorStaysFine DEF HasHeard, m
  <2>4. outbox' = <<d>> \o then
    BY <1>2, <1>11
  <2>5. CASE then = <<>> /\ \A b : HasHeard(b) => b = Mirror'
    <3>1. outbox' = <<d>>
      BY <2>4, <2>5
    <3> QED BY <1>8, <1>9, <2>1, <2>2, <2>5, <3>1, Emits DEF SaysInTurn, m
  <2>6. ASSUME NEW e, then = <<e>>, MakesSense(Known', t, e), Told(t, e) = Mirror'
        PROVE  Understands'
    <3>1. <<d>> \o <<e>> = <<d, e>>
      BY OneAndOne
    <3>2. outbox' = <<d, e>>
      BY <2>4, <2>6, <3>1
    <3> HIDE DEF t
    <3> QED BY <1>8, <1>9, <2>1, <2>3, <2>6, <3>2, Emits DEF SaysInTurn, m, t
  <2> HIDE DEF t
  <2> QED BY <2>2, <2>5, <2>6
<1> QED BY <1>10, <1>11

(* TextDelta: what the buffer lets go, if anything, is said.               *)
LEMMA DeltaIsSaid ==
    ASSUME MachineOK, AllText, MachineOK', AllText', Understands,
           NEW s \in Slots, NEW delta \in Seq(Characters), TextDelta(s, delta)
    PROVE  Understands'
<1>1. /\ phase = "open" /\ outbox = <<>> /\ kind[s[1]] = "prose" /\ stage[s] = "open"
      /\ Fed(s, delta, FALSE, <<>>) /\ UNCHANGED <<phase, kind, stage, finished>> /\ UNCHANGED clientVars
  BY DEF TextDelta, Reads, Fed, Emit
<1>2. SaysInTurn /\ MachineTypes /\ MachineTypes'
  BY <1>1 DEF SaysInTurn, Early, MachineOK
<1>3. ASSUME NEW b, HasHeard(b) PROVE b = Mirror'
  <2> DEFINE n == Mirror'
  <2>1. /\ n \in Clients /\ n.session = IF phase' = "idle" THEN "waiting" ELSE "greeted"
        /\ \A i \in Items : n.seen[i] = IF kind'[i] # "prose" THEN "hidden"
                                        ELSE IF finished'[i] THEN "done" ELSE "open"
        /\ \A q \in Slots : n.heard[q] = text'[q]
        /\ \A q \in Slots : n.end[q] = IF kind'[q[1]] = "prose" THEN stage'[q] ELSE "none"
    BY <1>2, MirrorMeansNext
  <2> HIDE DEF n
  <2>2. /\ b \in Clients /\ b.session = n.session
        /\ \A i \in Items : b.seen[i] = n.seen[i]
        /\ \A q \in Slots : b.heard[q] = n.heard[q]
        /\ \A q \in Slots : b.end[q] = n.end[q]
    BY <1>1, <1>3, <2>1 DEF HasHeard
  <2>3. b = n
    BY <2>1, <2>2, SameClient
  <2> QED BY <2>3 DEF n
<1> QED BY <1>1, <1>2, <1>3, FedIsSaid

(* TextDone: the rest of the buffer goes before the snapshot.              *)
LEMMA TextEndIsSaid ==
    ASSUME MachineOK, AllText, MachineOK', AllText', Understands, NEW s \in Slots, TextDone(s)
    PROVE  Understands'
<1> DEFINE all == text[s] \o Feed(suffix[s], <<>>, TRUE).text
           e == Say("closed", s[1], s[2], all)
<1>1. /\ phase = "open" /\ outbox = <<>> /\ kind[s[1]] = "prose" /\ stage[s] = "open"
      /\ Fed(s, <<>>, TRUE, <<e>>) /\ UNCHANGED <<phase, kind, finished>> /\ UNCHANGED clientVars
      /\ stage' = [stage EXCEPT ![s] = "closed"] /\ text' = [text EXCEPT ![s] = all]
  BY DEF TextDone, Reads, Fed, Emit
<1>2. SaysInTurn /\ MachineTypes /\ MachineTypes' /\ <<>> \in Seq(Characters)
  BY <1>1, NothingIsClean DEF SaysInTurn, Early, MachineOK
<1>3. text'[s] = all
  BY <1>1, <1>2 DEF MachineTypes
<1>4. e.type = "closed" /\ e.item = s[1] /\ e.part = s[2] /\ e.text = all
  BY DEF Say
<1>5. s = <<s[1], s[2]>>
  BY StageMeans
<1>6. \A q \in Slots : stage'[q] = IF q = s THEN "closed" ELSE stage[q]
  BY <1>1, <1>2 DEF MachineTypes
<1> HIDE DEF e, all
<1>7. s = <<e.item, e.part>>
  BY <1>4, <1>5
<1>8. ASSUME NEW b, HasHeard(b)
      PROVE  MakesSense(Known', b, e) /\ Told(b, e) = Mirror'
  <2>1. /\ b \in Clients /\ b.session = "greeted"
        /\ \A j \in Items : b.seen[j] = IF kind[j] # "prose" THEN "hidden"
                                        ELSE IF finished[j] THEN "done" ELSE "open"
        /\ \A q \in Slots : b.heard[q] = text'[q]
        /\ \A q \in Slots : b.end[q] = IF kind[q[1]] = "prose" THEN stage[q] ELSE "none"
    BY <1>8 DEF HasHeard
  <2>2. b.end[s] = "open" /\ b.heard[s] = e.text
    BY <1>1, <1>3, <1>4, <2>1
  <2>3. MakesSense(Known', b, e)
    BY <1>4, <1>7, <2>2 DEF MakesSense
  <2>4. \A q \in Slots :
           (IF kind'[q[1]] = "prose" THEN stage'[q] ELSE "none") =
           IF q = <<e.item, e.part>> /\ e.type \in {"part", "added"} THEN "open"
           ELSE IF q = <<e.item, e.part>> /\ e.type = "closed" THEN "closed"
           ELSE IF q = <<e.item, e.part>> /\ e.type \in {"done", "stop"} THEN "done" ELSE b.end[q]
    BY <1>1, <1>4, <1>6, <1>7, <2>1
  <2>5. Told(b, e) = Mirror'
    BY <1>1, <1>2, <1>4, <2>1, <2>4, ToldIsNext
  <2> QED BY <2>3, <2>5
<1> QED BY <1>1, <1>2, <1>8, FedIsSaid

(* BlockStop: the rest of the buffer goes before the end of the block.     *)
LEMMA BlockEndIsSaid ==
    ASSUME MachineOK, AllText, MachineOK', AllText', Understands, NEW i \in Items, BlockStop(i)
    PROVE  Understands'
<1> DEFINE s == <<i, 1>>
           e == Say("stop", i, 1, <<>>)
<1>1. /\ phase = "open" /\ outbox = <<>> /\ kind[i] # "none" /\ stage[s] = "open"
      /\ UNCHANGED <<phase, kind>> /\ UNCHANGED clientVars
      /\ stage' = [stage EXCEPT ![s] = "done"] /\ finished' = [finished EXCEPT ![i] = TRUE]
      /\ kind[i] = "tool" => outbox' = outbox /\ UNCHANGED <<raw, text>>
      /\ kind[i] # "tool" => Fed(s, <<>>, TRUE, <<e>>)
  BY DEF BlockStop, Reads, Fed, Emit, Hold, Known
<1>2. SaysInTurn /\ MachineTypes /\ MachineTypes' /\ <<>> \in Seq(Characters)
  BY <1>1, NothingIsClean DEF SaysInTurn, Early, MachineOK
<1>3. s \in Slots /\ s[1] = i /\ s[2] = 1
  BY ItemsAreNumbers DEF Slots
<1>4. ~finished[i]
  BY <1>1, <1>3, StageMeans
<1>5. e.type = "stop" /\ e.item = i /\ e.part = 1 /\ s = <<e.item, e.part>>
  BY DEF Say
<1>6. \A q \in Slots : stage'[q] = IF q = s THEN "done" ELSE stage[q]
  BY <1>1, <1>2 DEF MachineTypes
<1>7. finished'[i] /\ \A j \in Items : j # i => finished'[j] = finished[j]
  BY <1>1, <1>2 DEF MachineTypes
<1> HIDE DEF e, s
<1>8. CASE kind[i] = "tool"
  <2>1. \A j \in Items : kind[j] = "prose" => finished'[j] = finished[j]
    BY <1>7, <1>8
  <2>2. \A q \in Slots : kind[q[1]] = "prose" => stage'[q] = stage[q] /\ raw'[q] = raw[q]
    BY <1>1, <1>3, <1>6, <1>8
  <2> QED BY <1>1, <1>2, <1>8, <2>1, <2>2, SaysNothing DEF SaysInTurn
<1>9. CASE kind[i] # "tool"
  <2>1. kind[i] = "prose"
    BY <1>1, <1>2, <1>9 DEF MachineTypes
  <2>2. ASSUME NEW b, HasHeard(b)
        PROVE  MakesSense(Known', b, e) /\ Told(b, e) = Mirror'
    <3>1. /\ b \in Clients /\ b.session = "greeted"
          /\ \A j \in Items : b.seen[j] = IF kind[j] # "prose" THEN "hidden"
                                          ELSE IF finished[j] THEN "done" ELSE "open"
          /\ \A q \in Slots : b.heard[q] = text'[q]
          /\ \A q \in Slots : b.end[q] = IF kind[q[1]] = "prose" THEN stage[q] ELSE "none"
      BY <2>2 DEF HasHeard
    <3>2. b.seen[i] = "open" /\ b.end[s] = "open"
      BY <1>1, <1>3, <1>4, <2>1, <3>1
    <3>3. MakesSense(Known', b, e)
      BY <1>5, <3>2 DEF MakesSense
    <3>4. \A q \in Slots :
             (IF kind'[q[1]] = "prose" THEN stage'[q] ELSE "none") =
             IF q = <<e.item, e.part>> /\ e.type \in {"part", "added"} THEN "open"
             ELSE IF q = <<e.item, e.part>> /\ e.type = "closed" THEN "closed"
             ELSE IF q = <<e.item, e.part>> /\ e.type \in {"done", "stop"} THEN "done" ELSE b.end[q]
      BY <1>1, <1>3, <1>5, <1>6, <2>1, <3>1
    <3>5. \A j \in Items :
             (IF kind'[j] # "prose" THEN "hidden" ELSE IF finished'[j] THEN "done" ELSE "open") =
             IF j = e.item /\ e.type = "added" THEN "open"
             ELSE IF j = e.item /\ e.type \in {"item", "stop"} THEN "done" ELSE b.seen[j]
      <4> TAKE j \in Items
      <4>1. CASE j = i
        BY <1>1, <1>5, <1>7, <2>1, <4>1
      <4>2. CASE j # i
        BY <1>1, <1>5, <1>7, <3>1, <4>2
      <4> QED BY <4>1, <4>2
    <3>6. Told(b, e) = Mirror'
      BY <1>1, <1>2, <1>5, <3>1, <3>4, <3>5, ToldIsNext
    <3> QED BY <3>3, <3>6
  <2>3. /\ Fed(s, <<>>, TRUE, <<e>>) /\ kind[s[1]] = "prose"
    BY <1>1, <1>3, <1>9, <2>1
  <2>4. Understands'
    <3> DEFINE then == <<e>>
    <3>1. \E x : then = <<x>> /\ \A b : HasHeard(b) => MakesSense(Known', b, x) /\ Told(b, x) = Mirror'
      BY <2>2
    <3>2. Fed(s, <<>>, TRUE, then)
      BY <2>3
    <3> HIDE DEF then
    <3> QED BY <1>1, <1>2, <1>3, <2>3, <3>1, <3>2, FedIsSaid
  <2> QED BY <2>4
<1> QED BY <1>8, <1>9

(* ToolDelta, ArgumentsDone and MessageDelta: nothing is said.             *)
LEMMA NothingIsSaid ==
    ASSUME MachineOK, AllText, MachineOK', AllText', Understands,
           \/ \E i \in Items, delta \in Chunks : ToolDelta(i, delta)
           \/ \E i \in Items : ArgumentsDone(i)
           \/ MessageDelta
    PROVE  Understands'
<1>1. CASE \E i \in Items, delta \in Chunks : ToolDelta(i, delta)
  <2>1. PICK i \in Items, delta \in Chunks : ToolDelta(i, delta)
    BY <1>1
  <2>2. /\ phase = "open" /\ outbox = <<>> /\ outbox' = <<>> /\ UNCHANGED <<phase, text, kind, stage, finished>>
        /\ UNCHANGED clientVars /\ raw' = [raw EXCEPT ![<<i, 1>>] = @ \o delta] /\ kind[i] = "tool"
    BY <2>1 DEF ToolDelta, Reads, Hold
  <2>3. \A s \in Slots : kind[s[1]] = "prose" => stage'[s] = stage[s] /\ raw'[s] = raw[s]
    <3> TAKE s \in Slots
    <3>1. kind[s[1]] = "prose" => s # <<i, 1>>
      BY <2>2
    <3> QED BY <2>2, <3>1 DEF MachineOK, MachineTypes
  <2> QED BY <2>2, <2>3, SaysNothing DEF Early
<1>2. CASE \E i \in Items : ArgumentsDone(i)
  <2>1. PICK i \in Items : ArgumentsDone(i)
    BY <1>2
  <2>2. /\ phase = "open" /\ outbox = <<>> /\ outbox' = <<>> /\ UNCHANGED <<phase, text, kind, raw, finished>>
        /\ UNCHANGED clientVars /\ stage' = [stage EXCEPT ![<<i, 1>>] = "closed"] /\ kind[i] = "tool"
    BY <2>1 DEF ArgumentsDone, Reads, Hold
  <2>3. \A s \in Slots : kind[s[1]] = "prose" => stage'[s] = stage[s] /\ raw'[s] = raw[s]
    <3> TAKE s \in Slots
    <3>1. kind[s[1]] = "prose" => s # <<i, 1>>
      BY <2>2
    <3> QED BY <2>2, <3>1 DEF MachineOK, MachineTypes
  <2> QED BY <2>2, <2>3, SaysNothing DEF Early
<1>3. CASE MessageDelta
  <2>1. /\ phase = "open" /\ phase' = "stopping" /\ outbox = <<>> /\ outbox' = <<>>
        /\ UNCHANGED <<text, kind, raw, stage, finished>> /\ UNCHANGED clientVars
    BY <1>3 DEF MessageDelta, Reads
  <2> QED BY <2>1, SaysNothing DEF Early
<1> QED BY <1>1, <1>2, <1>3

(* Fail and Disconnect: the client keeps what it was told.                 *)
LEMMA StreamIsCut ==
    ASSUME Understands, Fail \/ Disconnect
    PROVE  Understands'
<1>1. /\ phase' = "failed" /\ outbox' = <<>> /\ UNCHANGED <<raw, text>> /\ UNCHANGED clientVars
  BY DEF Fail, Disconnect
<1>2. Client' = Client /\ FineClients(text, raw)' = FineClients(text, raw) /\ ~Early'
  BY <1>1 DEF Client, clientVars, Early
<1> QED BY <1>1, <1>2 DEF Understands

(* Eof: the batch goes out.                                                *)
LEMMA BatchIsSent ==
    ASSUME Understands, Eof
    PROVE  Understands'
<1>1. /\ phase = "terminal" /\ phase' = "ended" /\ outbox' = held
      /\ UNCHANGED <<kind, stage, text, raw>> /\ UNCHANGED clientVars
  BY DEF Eof, Reads
<1>2. /\ Client' = Client /\ Known' = Known /\ Final' = Final /\ ~Early'
      /\ FineClients(text, raw)' = FineClients(text, raw)
  BY <1>1 DEF Client, clientVars, Early, Known, Final
<1>3. Goes(Known, FineClients(text, raw), Client, held, Final)
  BY <1>1 DEF Understands
<1> HIDE DEF FineClients
<1> QED BY <1>1, <1>2, <1>3 DEF Understands

(* A stuttering step.                                                      *)
LEMMA NothingHappens ==
    ASSUME Understands, UNCHANGED vars
    PROVE  Understands'
<1>1. /\ Client' = Client /\ Known' = Known /\ Final' = Final /\ (Early' <=> Early) /\ Mirror' = Mirror
      /\ FineClients(text, raw)' = FineClients(text, raw) /\ UNCHANGED <<phase, outbox, held>>
  BY DEF vars, machineVars, Client, clientVars, Early, Known, Final, Mirror
<1> QED BY <1>1 DEF Understands

-----------------------------------------------------------------------------
(* The two together: the calls follow the prose.                           *)

(* A client that knows of the calls what n says, and of the rest what the  *)
(* machine says.                                                           *)
MixSeen(n) == [i \in Items |-> IF kind[i] = "tool" THEN n[i] ELSE Mirror.seen[i]]
MixHeard(n) == [s \in Slots |-> IF kind[s[1]] = "tool" THEN n[s] ELSE text[s]]
MixEnd(n) == [s \in Slots |-> IF kind[s[1]] = "tool" THEN n[s] ELSE Mirror.end[s]]
Mixed(c) == [session |-> "greeted", seen |-> MixSeen(c.seen), heard |-> MixHeard(c.heard),
             end |-> MixEnd(c.end)]

(* Telling of a call what is seen of it, before or after mixing.           *)
LEMMA SeenLater ==
    ASSUME NEW n, NEW i \in Items, NEW v, DOMAIN n = Items, kind[i] = "tool"
    PROVE  MixSeen([n EXCEPT ![i] = v]) = [MixSeen(n) EXCEPT ![i] = v]
BY DEF MixSeen

(* Telling of a call what is heard of it, before or after mixing.          *)
LEMMA HeardLater ==
    ASSUME NEW n, NEW s \in Slots, NEW v, DOMAIN n = Slots, kind[s[1]] = "tool"
    PROVE  MixHeard([n EXCEPT ![s] = v]) = [MixHeard(n) EXCEPT ![s] = v]
BY DEF MixHeard

(* Telling of a call how it ended, before or after mixing.                 *)
LEMMA EndLater ==
    ASSUME NEW n, NEW s \in Slots, NEW v, DOMAIN n = Slots, kind[s[1]] = "tool"
    PROVE  MixEnd([n EXCEPT ![s] = v]) = [MixEnd(n) EXCEPT ![s] = v]
BY DEF MixEnd

(* A client that mixes both has heard only what was restored.              *)
LEMMA MixedType ==
    ASSUME MachineOK, AllText, NEW T \in [Slots -> Seq(Outputs)], NEW c \in CallClients(T),
           \A s \in Slots : T[s] = IF kind[s[1]] = "tool" THEN Restore(raw[s]) ELSE text[s]
    PROVE  /\ Mixed(c) \in Clients /\ Mixed(c) \in FineClients(T, raw)
           /\ Mixed(c).seen = MixSeen(c.seen) /\ Mixed(c).heard = MixHeard(c.heard)
           /\ Mixed(c).end = MixEnd(c.end)
<1> DEFINE w == Mixed(c)
           m == Mirror
<1>1. MachineTypes /\ \A s \in Slots : s[1] \in Items /\ T[s] \in Seq(Outputs) /\ text[s] \in Seq(Outputs)
  BY DEF MachineOK, MachineTypes, Slots
<1>2. /\ m \in Clients
      /\ \A s \in Slots : m.end[s] = IF kind[s[1]] = "prose" THEN stage[s] ELSE "none"
  BY <1>1, MirrorMeans
<1>3. /\ c \in Clients
      /\ \A s \in Slots : /\ c.heard[s] \in {<<>>, T[s]}
                          /\ c.end[s] \in {"closed", "done"} => c.heard[s] = T[s]
  BY DEF CallClients
<1>4. m.seen \in [Items -> {"hidden", "open", "done"}] /\ m.end \in [Slots -> Stages]
  BY <1>2 DEF Clients
<1>5. c.seen \in [Items -> {"hidden", "open", "done"}] /\ c.end \in [Slots -> Stages]
      /\ c.heard \in [Slots -> Seq(Outputs)]
  BY <1>3 DEF Clients
<1> HIDE DEF m
<1>6. w = [session |-> "greeted", seen |-> MixSeen(c.seen), heard |-> MixHeard(c.heard),
           end |-> MixEnd(c.end)]
  BY DEF Mixed
<1>7. MixSeen(c.seen) \in [Items -> {"hidden", "open", "done"}]
  BY <1>4, <1>5 DEF MixSeen, m
<1>8. /\ MixHeard(c.heard) \in [Slots -> Seq(Outputs)]
      /\ \A s \in Slots : MixHeard(c.heard)[s] = IF kind[s[1]] = "tool" THEN c.heard[s] ELSE text[s]
  BY <1>1, <1>5 DEF MixHeard
<1>9. /\ MixEnd(c.end) \in [Slots -> Stages]
      /\ \A s \in Slots : MixEnd(c.end)[s] = IF kind[s[1]] = "tool" THEN c.end[s] ELSE m.end[s]
  BY <1>4, <1>5 DEF MixEnd, m
<1> HIDE DEF w
<1>10. /\ w \in Clients /\ w.seen = MixSeen(c.seen) /\ w.heard = MixHeard(c.heard)
       /\ w.end = MixEnd(c.end)
  BY <1>6, <1>7, <1>8, <1>9 DEF Clients
<1>11. ASSUME NEW s \in Slots
       PROVE  /\ Extends(w.heard[s], T[s])
              /\ w.end[s] \in {"closed", "done"} => w.heard[s] = T[s] /\ T[s] = Restore(raw[s])
  <2>1. w.heard[s] = IF kind[s[1]] = "tool" THEN c.heard[s] ELSE text[s]
    BY <1>8, <1>10
  <2>2. w.end[s] = IF kind[s[1]] = "tool" THEN c.end[s] ELSE m.end[s]
    BY <1>9, <1>10
  <2>3. T[s] = IF kind[s[1]] = "tool" THEN Restore(raw[s]) ELSE text[s]
    OBVIOUS
  <2>4. Extends(<<>>, T[s]) /\ Extends(T[s], T[s])
    BY <1>1, ExtendsItself
  <2>5. CASE kind[s[1]] = "tool"
    BY <1>3, <2>1, <2>2, <2>3, <2>4, <2>5
  <2>6. CASE kind[s[1]] # "tool"
    <3>1. w.end[s] \in {"closed", "done"} => text[s] = Restore(raw[s])
      BY <1>2, <2>2, <2>6 DEF AllText, PartText
    <3> QED BY <2>1, <2>3, <2>4, <2>6, <3>1
  <2> QED BY <2>5, <2>6
<1>12. w \in FineClients(T, raw)
  BY <1>10, <1>11 DEF FineClients
<1> QED BY <1>10, <1>12 DEF w

(* An event of a call makes the same of it.                                *)
LEMMA MixedGoes ==
    ASSUME MachineTypes, NEW T, NEW c \in Clients, NEW e \in CallEvents(Tools, T),
           MakesSense({}, c, e)
    PROVE  MakesSense(Known, Mixed(c), e) /\ Told(Mixed(c), e) = Mixed(Told(c, e))
<1> DEFINE w == Mixed(c)
           d == Told(c, e)
           s == <<e.item, e.part>>
<1>1. /\ e.item \in Items /\ kind[e.item] = "tool" /\ e.part = 1 /\ e.type \in CallTypes
  BY DEF CallEvents, Tools
<1>2. s \in Slots /\ s[1] = e.item
  BY <1>1, ItemsAreNumbers DEF Slots
<1>3. /\ DOMAIN c.seen = Items /\ DOMAIN c.heard = Slots /\ DOMAIN c.end = Slots
  BY DEF Clients
<1>4. /\ w.session = "greeted" /\ w.seen = MixSeen(c.seen) /\ w.heard = MixHeard(c.heard)
      /\ w.end = MixEnd(c.end)
      /\ w = [session |-> "greeted", seen |-> w.seen, heard |-> w.heard, end |-> w.end]
  BY DEF Mixed
<1>5. w.seen[e.item] = c.seen[e.item] /\ w.heard[s] = c.heard[s] /\ w.end[s] = c.end[s]
  BY <1>1, <1>2, <1>4 DEF MixSeen, MixHeard, MixEnd
<1>6. \A p \in Items : /\ w.heard[<<e.item, p>>] = c.heard[<<e.item, p>>]
                       /\ w.end[<<e.item, p>>] = c.end[<<e.item, p>>]
  <2> TAKE p \in Items
  <2>1. <<e.item, p>> \in Slots /\ <<e.item, p>>[1] = e.item
    BY <1>1 DEF Slots
  <2> QED BY <1>1, <1>4, <2>1 DEF MixHeard, MixEnd
<1>7. MakesSense(Known, w, e)
  <2> HIDE DEF w
  <2> QED BY <1>1, <1>4, <1>5, <1>6 DEF MakesSense, CallTypes
<1>8. Told(w, e) = Mixed(d)
  <2> DEFINE dsn == IF e.type = "added" THEN [c.seen EXCEPT ![e.item] = "open"]
                    ELSE IF e.type \in {"item", "stop"} THEN [c.seen EXCEPT ![e.item] = "done"]
                    ELSE c.seen
             dhd == IF e.type = "delta" THEN [c.heard EXCEPT ![s] = c.heard[s] \o e.text] ELSE c.heard
             den == IF e.type = "added" THEN [c.end EXCEPT ![s] = "open"]
                    ELSE IF e.type = "closed" THEN [c.end EXCEPT ![s] = "closed"]
                    ELSE IF e.type = "stop" THEN [c.end EXCEPT ![s] = "done"]
                    ELSE c.end
             wsn == IF e.type = "added" THEN [w.seen EXCEPT ![e.item] = "open"]
                    ELSE IF e.type \in {"item", "stop"} THEN [w.seen EXCEPT ![e.item] = "done"]
                    ELSE w.seen
             whd == IF e.type = "delta" THEN [w.heard EXCEPT ![s] = w.heard[s] \o e.text] ELSE w.heard
             wen == IF e.type = "added" THEN [w.end EXCEPT ![s] = "open"]
                    ELSE IF e.type = "closed" THEN [w.end EXCEPT ![s] = "closed"]
                    ELSE IF e.type = "stop" THEN [w.end EXCEPT ![s] = "done"]
                    ELSE w.end
  <2>1. d.seen = dsn /\ d.heard = dhd /\ d.end = den
    <3>1. d.seen = dsn
      BY DEF Told
    <3>4. d.heard = dhd
      BY DEF Told
    <3>2. e.type \notin {"part", "done"} /\ s \in Slots
      BY <1>1, <1>2 DEF CallTypes
    <3>3. d.end = den
      BY <3>2 DEF Told
    <3> QED BY <3>1, <3>3, <3>4
  <2>2. Told(w, e) = [session |-> "greeted", seen |-> wsn, heard |-> whd, end |-> wen]
    <3> HIDE DEF w
    <3> QED BY <1>1, <1>2, <1>4 DEF Told, CallTypes
  <2>3. Mixed(d) = [session |-> "greeted", seen |-> MixSeen(d.seen), heard |-> MixHeard(d.heard),
                    end |-> MixEnd(d.end)]
    BY DEF Mixed
  <2> HIDE DEF w, d
  <2> HIDE DEF s
  <2>4. wsn = MixSeen(dsn)
    <3>1. ASSUME NEW v PROVE MixSeen([c.seen EXCEPT ![e.item] = v]) = [MixSeen(c.seen) EXCEPT ![e.item] = v]
      BY <1>1, <1>3, SeenLater, SMTT(30)
    <3> QED BY <1>4, <3>1
  <2>5. whd = MixHeard(dhd)
    <3>1. ASSUME NEW v PROVE MixHeard([c.heard EXCEPT ![s] = v]) = [MixHeard(c.heard) EXCEPT ![s] = v]
      BY <1>1, <1>2, <1>3, HeardLater, SMTT(30)
    <3> QED BY <1>4, <1>5, <3>1
  <2>6. wen = MixEnd(den)
    <3>1. ASSUME NEW v PROVE MixEnd([c.end EXCEPT ![s] = v]) = [MixEnd(c.end) EXCEPT ![s] = v]
      BY <1>1, <1>2, <1>3, EndLater, SMTT(30)
    <3> QED BY <1>4, <3>1
  <2> HIDE DEF dsn, dhd, den, wsn, whd, wen
  <2> QED BY <2>1, <2>2, <2>3, <2>4, <2>5, <2>6
<1> QED BY <1>7, <1>8

(* The batch of a complete response makes sense to a client that was told  *)
(* everything else.                                                        *)
LEMMA BatchMakesSense ==
    ASSUME MachineOK, AllText, NEW T \in Plausible, Played(T), Early, phase # "idle",
           \A i \in Known : finished[i],
           \A s \in Slots : T[s] = IF kind[s[1]] = "tool" THEN Restore(raw[s]) ELSE text[s]
    PROVE  Goes(Known, FineClients(T, raw), Mirror,
                Append(FlattenSeq(AllBecome(held, T)), Say("complete", 0, 0, T)),
                [session |-> "complete",
                 seen |-> [i \in Items |-> IF kind[i] # "none" THEN "done" ELSE "hidden"],
                 heard |-> T, end |-> stage])
<1> DEFINE F == FineClients(T, raw)
           S == CallClients(T)
           q == FlattenSeq(AllBecome(held, T))
           c == CallsSo(T)
           w == Mixed(c)
           m == Mirror
           z == Say("complete", 0, 0, T)
           fin == [session |-> "complete",
                   seen |-> [i \in Items |-> IF kind[i] # "none" THEN "done" ELSE "hidden"],
                   heard |-> T, end |-> stage]
           n == Len(q)
           E == CallEvents(Tools, T)
<1>1. MachineTypes /\ T \in [Slots -> Seq(Outputs)] /\ \A s \in Slots : s[1] \in Items
  BY DEF MachineOK, Plausible, Slots
<1>2. /\ m \in Clients /\ m.session = "greeted"
      /\ \A i \in Items : m.seen[i] = IF kind[i] # "prose" THEN "hidden"
                                      ELSE IF finished[i] THEN "done" ELSE "open"
      /\ \A s \in Slots : m.heard[s] = text[s]
      /\ \A s \in Slots : m.end[s] = IF kind[s[1]] = "prose" THEN stage[s] ELSE "none"
  BY <1>1, MirrorMeans
<1>3. /\ c \in Clients /\ c \in S
      /\ \A i \in Items : c.seen[i] = IF kind[i] # "tool" THEN "hidden"
                                      ELSE IF finished[i] THEN "done" ELSE "open"
      /\ \A s \in Slots : c.heard[s] = IF SaysText(s) THEN T[s] ELSE <<>>
      /\ \A s \in Slots : c.end[s] = IF kind[s[1]] = "tool" THEN stage[s] ELSE "none"
  BY <1>1, CallsSoMeans, CallsSoFine
<1>4. q \in Seq(E) /\ Goes({}, S, Blank, q, c)
  BY DEF Played
<1>5. PICK f : Follows({}, S, Blank, q, f, c)
  BY <1>4 DEF Goes
<1>6. z.type = "complete" /\ z.text = T
  BY DEF Say
<1> HIDE DEF q, c, m, z, S, E
<1>7. \A x \in S : x \in Clients /\ Mixed(x) \in Clients /\ Mixed(x) \in F
  BY <1>1, MixedType DEF S, CallClients
<1>8. n \in Nat /\ \A k \in 1 .. n : q[k] \in E
  BY <1>4
<1>9. Mixed(Blank) = m
  <2> DEFINE b == Mixed(Blank)
  <2>1. Blank \in S
    BY <1>5, <1>8 DEF Follows
  <2>2. /\ b \in Clients /\ b.seen = MixSeen(Blank.seen) /\ b.heard = MixHeard(Blank.heard)
        /\ b.end = MixEnd(Blank.end)
    BY <1>1, <2>1, MixedType DEF S
  <2>3. b.session = "greeted"
    BY DEF Mixed
  <2> HIDE DEF b
  <2>4. \A i \in Items : b.seen[i] = m.seen[i]
    <3>1. \A i \in Items : Blank.seen[i] = "hidden"
      BY DEF Blank
    <3> QED BY <1>2, <2>2, <3>1 DEF MixSeen, m
  <2>5. \A s \in Slots : b.heard[s] = m.heard[s]
    <3>1. \A s \in Slots : Blank.heard[s] = <<>>
      BY DEF Blank
    <3>2. \A s \in Slots : kind[s[1]] = "tool" => text[s] = <<>>
      BY DEF AllText, PartText
    <3> QED BY <1>2, <2>2, <3>1, <3>2 DEF MixHeard
  <2>6. \A s \in Slots : b.end[s] = m.end[s]
    <3>1. \A s \in Slots : Blank.end[s] = "none"
      BY DEF Blank
    <3> QED BY <1>2, <2>2, <3>1 DEF MixEnd, m
  <2>7. b = m
    BY <1>2, <2>2, <2>3, <2>4, <2>5, <2>6, SameClient
  <2> QED BY <2>7 DEF b
<1>10. Goes(Known, F, m, q, w)
  <2> DEFINE g == [k \in 0 .. n |-> Mixed(f[k])]
  <2>1. /\ f[0] = Blank /\ f[n] = c /\ \A k \in 0 .. n : f[k] \in S
        /\ \A k \in 1 .. n : MakesSense({}, f[k - 1], q[k]) /\ f[k] = Told(f[k - 1], q[k])
    BY <1>5 DEF Follows
  <2>2. g[0] = m /\ g[n] = w
    BY <1>8, <1>9, <2>1
  <2>3. \A k \in 0 .. n : g[k] \in F
    BY <1>7, <2>1
  <2>4. ASSUME NEW k \in 1 .. n
        PROVE  MakesSense(Known, g[k - 1], q[k]) /\ g[k] = Told(g[k - 1], q[k])
    <3>1. k \in 0 .. n /\ k - 1 \in 0 .. n
      BY <1>8
    <3>2. f[k - 1] \in Clients /\ q[k] \in CallEvents(Tools, T)
      BY <1>7, <1>8, <2>1, <3>1 DEF E
    <3>3. /\ MakesSense(Known, Mixed(f[k - 1]), q[k])
          /\ Told(Mixed(f[k - 1]), q[k]) = Mixed(Told(f[k - 1], q[k]))
      BY <1>1, <2>1, <3>2, MixedGoes
    <3> QED BY <2>1, <3>1, <3>3
  <2> HIDE DEF g, F, w
  <2>5. Follows(Known, F, m, q, g, w)
    BY <2>2, <2>3, <2>4 DEF Follows
  <2> QED BY <1>4, <2>5 DEF Goes
<1>11. /\ w \in Clients /\ w \in F /\ w.session = "greeted" /\ w.seen = MixSeen(c.seen)
       /\ w.heard = MixHeard(c.heard) /\ w.end = MixEnd(c.end)
  BY <1>1, <1>3, MixedType DEF Mixed, S
<1> HIDE DEF w
<1>12. \A i \in Items : w.seen[i] = IF kind[i] # "none" THEN "done" ELSE "hidden"
  <2> TAKE i \in Items
  <2>1. kind[i] # "none" => finished[i]
    BY DEF Known
  <2>2. w.seen[i] = IF kind[i] = "tool" THEN c.seen[i] ELSE m.seen[i]
    BY <1>11 DEF MixSeen, m
  <2> QED BY <1>1, <1>2, <1>3, <2>1, <2>2 DEF MachineTypes
<1>13. \A s \in Slots : w.heard[s] = T[s]
  <2> TAKE s \in Slots
  <2>1. w.heard[s] = IF kind[s[1]] = "tool" THEN c.heard[s] ELSE text[s]
    BY <1>11 DEF MixHeard
  <2>2. CASE kind[s[1]] # "tool"
    BY <2>1, <2>2
  <2>3. CASE kind[s[1]] = "tool" /\ s[2] = 1
    <3>1. finished[s[1]]
      BY <1>1, <2>3 DEF Known
    <3>2. stage[s] # "open"
      BY <3>1, StageMeans
    <3>3. SaysText(s)
      BY <2>3, <3>2 DEF SaysText
    <3> QED BY <1>3, <2>1, <2>3, <3>3
  <2>4. CASE kind[s[1]] = "tool" /\ s[2] # 1
    <3>1. T[s] = <<>>
      BY <2>4 DEF Plausible
    <3> QED BY <1>3, <2>1, <2>4, <3>1
  <2> QED BY <2>2, <2>3, <2>4
<1>14. \A s \in Slots : w.end[s] = stage[s]
  <2> TAKE s \in Slots
  <2>1. w.end[s] = IF kind[s[1]] = "tool" THEN c.end[s] ELSE m.end[s]
    BY <1>11 DEF MixEnd, m
  <2>2. stage[s] # "none" => kind[s[1]] # "none"
    BY StageMeans
  <2>3. kind[s[1]] \in {"none", "prose", "tool"}
    BY <1>1 DEF MachineTypes
  <2> QED BY <1>2, <1>3, <2>1, <2>2, <2>3
<1>15. w.heard = T /\ w.end = stage
       /\ w.seen = [i \in Items |-> IF kind[i] # "none" THEN "done" ELSE "hidden"]
  <2>1. /\ w.heard \in [Slots -> Seq(Outputs)] /\ w.end \in [Slots -> Stages]
        /\ w.seen \in [Items -> {"hidden", "open", "done"}]
    BY <1>11 DEF Clients
  <2>2. stage \in [Slots -> Stages]
    BY <1>1 DEF MachineTypes
  <2>3. w.heard = T
    BY <1>1, <1>13, <2>1
  <2>4. w.end = stage
    BY <1>14, <2>1, <2>2
  <2>5. w.seen = [i \in Items |-> IF kind[i] # "none" THEN "done" ELSE "hidden"]
    BY <1>12, <2>1
  <2> QED BY <2>3, <2>4, <2>5
<1>16. MakesSense(Known, w, z)
  <2>1. \A i \in Items : w.seen[i] = IF i \in Known THEN "done" ELSE "hidden"
    BY <1>12 DEF Known
  <2> QED BY <1>6, <1>11, <1>15, <2>1 DEF MakesSense
<1>17. Told(w, z) = fin
  BY <1>6, <1>11, <1>15 DEF Told
<1>18. fin \in F
  <2> DEFINE sn == [i \in Items |-> IF kind[i] # "none" THEN "done" ELSE "hidden"]
  <2>1. fin = [session |-> "complete", seen |-> sn, heard |-> T, end |-> stage]
    OBVIOUS
  <2>2. sn \in [Items -> {"hidden", "open", "done"}] /\ stage \in [Slots -> Stages]
    BY <1>1 DEF MachineTypes
  <2> HIDE DEF sn, fin
  <2>3. fin \in Clients /\ fin.heard = w.heard /\ fin.end = w.end
    BY <1>1, <1>15, <2>1, <2>2 DEF Clients
  <2> QED BY <1>11, <2>3 DEF FineClients
<1>19. Goes(Known, F, m, Append(q, z), Told(w, z))
  <2> HIDE DEF F, fin
  <2> QED BY <1>10, <1>16, <1>17, <1>18, GoesOn
<1> QED BY <1>17, <1>19 DEF q, z, m

(* Complete: the batch, with the restored arguments, makes sense to the    *)
(* client that has heard the prose.                                        *)
LEMMA ResponseCompletes ==
    ASSUME MachineOK, AllText, MachineOK', AllText', HeldInv, Understands, Complete
    PROVE  Understands'
<1> DEFINE T == text'
<1>1. /\ phase \in {"open", "stopping"} /\ phase' = "terminal" /\ outbox = <<>> /\ outbox' = <<>>
      /\ UNCHANGED <<kind, stage, raw, finished>> /\ UNCHANGED clientVars
      /\ \A i \in Known : finished[i]
      /\ T = [s \in Slots |-> IF s[1] \in Tools THEN Restore(raw[s]) ELSE text[s]]
      /\ held' = Append(Release(T), Say("complete", 0, 0, T))
  BY DEF Complete, Reads, KeepUntilEof
<1>2. Early /\ ~Early' /\ phase # "idle"
  BY <1>1 DEF Early
<1>3. Client = Mirror /\ Client' = Client
  BY <1>1, <1>2, NothingToTell DEF clientVars, Client
<1>4. \A s \in Slots : T[s] = IF kind[s[1]] = "tool" THEN Restore(raw[s]) ELSE text[s]
  BY <1>1 DEF Tools, Slots
<1>5. T \in [Slots -> Seq(Outputs)]
  BY DEF MachineOK, MachineTypes
<1> HIDE DEF T
<1>6. T \in Plausible
  <2>1. ASSUME NEW s \in Slots, kind[s[1]] = "tool", s[2] # 1
        PROVE  T[s] = <<>>
    <3>1. stage[s] = "none"
      BY <2>1, StageMeans
    <3>2. raw[s] = <<>>
      BY <3>1 DEF AllText, PartText
    <3> QED BY <1>4, <2>1, <3>2, RestoreNothing
  <2> QED BY <1>5, <2>1 DEF Plausible
<1>7. Played(T)
  BY <1>2, <1>6 DEF HeldInv
<1>8. Goes(Known, FineClients(T, raw), Mirror,
           Append(FlattenSeq(AllBecome(held, T)), Say("complete", 0, 0, T)),
           [session |-> "complete",
            seen |-> [i \in Items |-> IF kind[i] # "none" THEN "done" ELSE "hidden"],
            heard |-> T, end |-> stage])
  BY <1>1, <1>2, <1>4, <1>6, <1>7, BatchMakesSense
<1>9. Known' = Known /\ FineClients(text, raw)' = FineClients(T, raw)
      /\ Final' = [session |-> "complete",
                   seen |-> [i \in Items |-> IF kind[i] # "none" THEN "done" ELSE "hidden"],
                   heard |-> T, end |-> stage]
      /\ held' = Append(FlattenSeq(AllBecome(held, T)), Say("complete", 0, 0, T))
  BY <1>1, ReleaseIsFlat DEF Known, Final, T
<1>10. Goes(Known', FineClients(text, raw)', Client', held', Final')
  BY <1>3, <1>8, <1>9
<1>11. Client' \in FineClients(text, raw)'
  <2>1. Mirror \in Clients /\ \A s \in Slots : Mirror.heard[s] = text[s]
        /\ Mirror.end[s] = IF kind[s[1]] = "prose" THEN stage[s] ELSE "none"
    BY MirrorMeans DEF MachineOK
  <2>2. \A s \in Slots : /\ Extends(text[s], T[s])
                         /\ kind[s[1]] # "tool" => T[s] = text[s]
    <3> TAKE s \in Slots
    <3>1. kind[s[1]] = "tool" => text[s] = <<>>
      BY <1>2 DEF AllText, PartText
    <3>2. Extends(<<>>, T[s]) /\ Extends(T[s], T[s])
      BY <1>5, ExtendsItself
    <3> QED BY <1>4, <3>1, <3>2
  <2>3. Mirror \in FineClients(text', raw')
    <3>1. \A s \in Slots : kind[s[1]] = "prose" /\ stage[s] \in {"closed", "done"} =>
               Mirror.heard[s] = text[s] /\ text'[s] = text[s] /\ raw'[s] = raw[s]
      BY <1>1, <2>1, <2>2 DEF T
    <3>2. \A s \in Slots : Extends(Mirror.heard[s], text'[s])
      BY <2>1, <2>2 DEF T
    <3> QED BY <2>1, <3>1, <3>2, MirrorStaysFine
  <2> QED BY <1>3, <2>3
<1> HIDE DEF FineClients
<1> QED BY <1>1, <1>2, <1>10, <1>11 DEF Understands

-----------------------------------------------------------------------------
(* The invariant and what it says.                                         *)

(* A client that was told nothing knows all there is at the start.         *)
LEMMA UnderstandsStarts ==
    ASSUME Init
    PROVE  Understands
<1> DEFINE F == FineClients(text, raw)
           m == Mirror
           b == Client
<1>1. MachineOK /\ AllText /\ phase = "idle" /\ outbox = <<>>
  BY MachineStarts, TextsStart DEF Init
<1>2. /\ \A i \in Items : kind[i] = "none"
      /\ \A s \in Slots : s[1] \in Items /\ text[s] = <<>> /\ text[s] \in Seq(Outputs)
  BY <1>1 DEF Init, Slots, MachineOK, MachineTypes
<1>3. /\ m \in Clients /\ m.session = "waiting" /\ \A i \in Items : m.seen[i] = "hidden"
      /\ \A s \in Slots : m.heard[s] = <<>> /\ m.end[s] = "none"
  BY <1>1, <1>2, MirrorMeans DEF MachineOK
<1>4. b.session = "waiting" /\ b \in Clients
      /\ (\A i \in Items : b.seen[i] = "hidden")
      /\ \A s \in Slots : b.heard[s] = <<>> /\ b.end[s] = "none"
  <2>1. <<>> \in Seq(Outputs)
    OBVIOUS
  <2>2. /\ session = "waiting" /\ seen \in [Items -> {"hidden", "open", "done"}]
        /\ heard \in [Slots -> Seq(Outputs)] /\ end \in [Slots -> Stages]
        /\ (\A i \in Items : seen[i] = "hidden")
        /\ \A s \in Slots : heard[s] = <<>> /\ end[s] = "none"
    BY <2>1 DEF Init, Stages
  <2> QED BY <2>2 DEF Client, Clients
<1> HIDE DEF m, b
<1>5. b = m
  BY <1>3, <1>4, SameClient
<1>6. b \in F
  BY <1>2, <1>4, ExtendsItself DEF FineClients
<1>7. Goes(Known, F, b, outbox, m)
  <2> HIDE DEF F
  <2> QED BY <1>1, <1>5, <1>6, GoesNowhere
<1> HIDE DEF F
<1> QED BY <1>1, <1>6, <1>7 DEF Understands, F, m, b

(* Every step keeps the client on its way.                                 *)
LEMMA UnderstandsStep ==
    ASSUME MachineOK, AllText, MachineOK', AllText', HeldInv, Understands, [Next]_vars
    PROVE  Understands'
<1>1. Chunks \subseteq Seq(Characters) /\ MachineTypes
  BY StreamAssumption DEF MachineOK
<1>2. CASE Start
  BY <1>2, StartIsSaid
<1>3. CASE \E k \in {"prose", "tool"} : AddItem(k)
  BY <1>3, ItemIsSaid
<1>4. CASE \E i \in Items : AddPart(i)
  BY <1>4, PartIsSaid
<1>5. CASE \E i \in Items : ItemDone(i)
  BY <1>5, ItemEndIsSaid
<1>6. CASE \E i \in Items : BlockStop(i)
  BY <1>6, BlockEndIsSaid
<1>7. CASE \E s \in Slots : TextDone(s)
  BY <1>7, TextEndIsSaid
<1>8. CASE \E s \in Slots : PartDone(s)
  BY <1>8, PartEndIsSaid
<1>9. CASE \E s \in Slots, delta \in Chunks : TextDelta(s, delta)
  BY <1>1, <1>9, DeltaIsSaid
<1>10. CASE \/ \E i \in Items, delta \in Chunks : ToolDelta(i, delta)
            \/ \E i \in Items : ArgumentsDone(i)
            \/ MessageDelta
  BY <1>10, NothingIsSaid
<1>11. CASE Complete
  BY <1>11, ResponseCompletes
<1>12. CASE Eof
  BY <1>12, BatchIsSent
<1>13. CASE Fail \/ Disconnect
  BY <1>13, StreamIsCut
<1>14. CASE Receive
  BY <1>1, <1>14, ClientIsTold
<1>15. CASE UNCHANGED vars
  BY <1>15, NothingHappens
<1> QED
  BY <1>2, <1>3, <1>4, <1>5, <1>6, <1>7, <1>8, <1>9, <1>10, <1>11, <1>12, <1>13, <1>14, <1>15
     DEF Next

StreamInv ==
    /\ protocol \in Protocols
    /\ MachineOK
    /\ AllText
    /\ HeldInv
    /\ Understands

(* The inductive invariant: the machine, its texts, what it holds and what *)
(* the client makes of all that is under way.                              *)
THEOREM StreamInvariant == Spec => []StreamInv
<1>1. Init => StreamInv
  BY MachineStarts, TextsStart, HeldStarts, UnderstandsStarts DEF StreamInv, Init
<1>2. StreamInv /\ [Next]_vars => StreamInv'
  <2> SUFFICES ASSUME StreamInv, [Next]_vars PROVE StreamInv'
    OBVIOUS
  <2>1. protocol' = protocol
    BY DEF Next, vars, machineVars, Start, AddItem, AddPart, TextDelta, TextDone, PartDone,
           ToolDelta, ArgumentsDone, ItemDone, BlockStop, MessageDelta, Complete, Eof, Fail,
           Disconnect, Receive
  <2>2. MachineOK'
    BY MachineStep DEF StreamInv
  <2>3. AllText'
    BY TextStep DEF StreamInv
  <2>4. HeldInv'
    BY <2>2, HeldStep DEF StreamInv
  <2>5. Understands'
    BY <2>2, <2>3, UnderstandsStep DEF StreamInv
  <2> QED BY <2>1, <2>2, <2>3, <2>4, <2>5 DEF StreamInv
<1> QED BY <1>1, <1>2, PTL DEF Spec

(* Every variable stays in its type, the suffix of a part shorter than a   *)
(* token and the snapshots among them.                                     *)
THEOREM StreamTypes == Spec => []TypeOK
<1>1. StreamInv => TypeOK
  <2> SUFFICES ASSUME StreamInv PROVE TypeOK
    OBVIOUS
  <2>1. Client \in Clients /\ MachineTypes /\ protocol \in Protocols
    BY DEF StreamInv, Understands, FineClients, MachineOK
  <2>2. /\ session \in {"waiting", "greeted", "complete"}
        /\ seen \in [Items -> {"hidden", "open", "done"}]
        /\ heard \in [Slots -> Seq(Outputs)] /\ end \in [Slots -> Stages]
    BY <2>1 DEF Client, Clients
  <2> QED BY <2>1, <2>2 DEF TypeOK, MachineTypes
<1> QED BY <1>1, StreamInvariant, PTL

(* The beginning of a text, as the properties say it.                      *)
LEMMA ExtendsIsPrefix ==
    ASSUME NEW h \in Seq(Outputs), NEW t, Extends(h, t)
    PROVE  IsPrefix(h, t)
<1>1. PICK w \in Seq(Outputs) : t = h \o w
  BY DEF Extends
<1>2. /\ t \in Seq(Outputs) /\ Len(t) = Len(h) + Len(w)
      /\ \A k \in 1 .. Len(h) : t[k] = h[k]
  BY <1>1
<1>3. SubSeq(h, 1, Len(h)) = SubSeq(t, 1, Len(h))
  BY <1>2
<1> QED BY <1>2, <1>3 DEF IsPrefix

(* What is restored of a part is the beginning of the restored part.       *)
LEMMA TextIsBeginning ==
    ASSUME MachineOK, AllText, NEW s \in Slots
    PROVE  Extends(text[s], Restore(raw[s]))
<1>1. raw[s] \in Seq(Characters) /\ text[s] \in Seq(Outputs) /\ suffix[s] \in Seq(Characters)
  BY DEF MachineOK, MachineTypes
<1>2. Restore(raw[s]) \in Seq(Outputs)
  BY <1>1, RestoreType
<1>3. CASE text[s] \in {<<>>, Restore(raw[s])}
  BY <1>2, <1>3, ExtendsItself
<1>4. CASE kind[s[1]] # "tool" /\ stage[s] = "open"
  <2>1. PICK u \in Seq(Characters) :
            Clean(u, suffix[s]) /\ raw[s] = u \o suffix[s] /\ text[s] = Restore(u)
    BY <1>4 DEF AllText, PartText
  <2>2. Splits(u, suffix[s])
    <3>1. <<>> \in Seq(Characters) /\ suffix[s] \o <<>> = suffix[s]
      BY <1>1
    <3> QED BY <2>1, <3>1 DEF Clean
  <2>3. Restore(raw[s]) = text[s] \o Restore(suffix[s])
    BY <1>1, <2>1, <2>2, RestoreSplits
  <2> QED BY <1>1, <2>3, RestoreType DEF Extends
<1> QED BY <1>3, <1>4 DEF AllText, PartText

(* A beginning of a beginning.                                             *)
LEMMA ExtendsOn ==
    ASSUME NEW a \in Seq(Outputs), NEW b, NEW c, Extends(a, b), Extends(b, c)
    PROVE  Extends(a, c)
<1>1. PICK v \in Seq(Outputs) : b = a \o v
  BY DEF Extends
<1>2. PICK w \in Seq(Outputs) : c = b \o w
  BY DEF Extends
<1>3. c = a \o (v \o w) /\ v \o w \in Seq(Outputs)
  BY <1>1, <1>2, ConcatAssociative
<1> QED BY <1>3 DEF Extends

(* "No token fragment leaves": however the provider cuts its text, the     *)
(* client has heard the beginning of the restored text, and all of it once *)
(* the part has ended.                                                     *)
THEOREM TextStaysRestored == Spec => []TextIsRestored
<1>1. StreamInv => TextIsRestored
  <2> SUFFICES ASSUME StreamInv, NEW s \in Slots
               PROVE  /\ IsPrefix(heard[s], Restore(raw[s]))
                      /\ end[s] \in {"closed", "done"} => heard[s] = Restore(raw[s])
    BY DEF TextIsRestored
  <2>1. Client \in Clients /\ Client \in FineClients(text, raw) /\ MachineOK /\ AllText
    BY DEF StreamInv, Understands, FineClients
  <2>2. heard[s] \in Seq(Outputs) /\ Client.heard = heard /\ Client.end = end
    BY <2>1 DEF Client, Clients
  <2>3. /\ Extends(heard[s], text[s])
        /\ end[s] \in {"closed", "done"} => heard[s] = Restore(raw[s])
    BY <2>1, <2>2 DEF FineClients
  <2>4. Extends(heard[s], Restore(raw[s]))
    BY <2>1, <2>2, <2>3, TextIsBeginning, ExtendsOn
  <2> QED BY <2>2, <2>3, <2>4, ExtendsIsPrefix
<1> QED BY <1>1, StreamInvariant, PTL

(* max_output_bytes bounds all that the client is ever sent.               *)
THEOREM OutputStaysBounded == Spec => []OutputIsBounded
<1>1. StreamInv => OutputIsBounded
  <2> SUFFICES ASSUME StreamInv PROVE SizeOfAll(heard) <= MaxOutput
    BY DEF OutputIsBounded
  <2>1. /\ Client \in Clients /\ Client \in FineClients(text, raw) /\ MachineTypes
        /\ SizeOfAll(text) <= MaxOutput
    BY DEF StreamInv, Understands, FineClients, MachineOK, AllText
  <2>2. heard \in [Slots -> Seq(Outputs)] /\ Client.heard = heard
    BY <2>1 DEF Client, Clients
  <2>3. \A s \in Slots : Extends(heard[s], text[s])
    BY <2>1, <2>2 DEF FineClients
  <2>4. text \in [Slots -> Seq(Outputs)] /\ MaxOutput \in Nat /\ MaxItems \in Nat /\ ValueSize \in Nat
    BY <2>1, ItemsAreNumbers DEF MachineTypes
  <2>5. SizeOfAll(heard) \in Nat /\ SizeOfAll(text) \in Nat /\ SizeOfAll(heard) <= SizeOfAll(text)
    BY <2>2, <2>3, <2>4, MoreIsLarger
  <2> QED BY <2>1, <2>4, <2>5
<1> QED BY <1>1, StreamInvariant, PTL

(* Every event that reaches the client makes sense to it: nothing is       *)
(* announced twice or extended after its end, each snapshot is what the    *)
(* deltas add up to, and the batch of calls fits what was said before it.  *)
THEOREM ClientAlwaysUnderstands == Spec => []ClientUnderstands
<1>1. StreamInv => ClientUnderstands
  <2> SUFFICES ASSUME StreamInv, NEW k \in DOMAIN outbox, k = 1 PROVE Sensible(outbox[k])
    BY DEF ClientUnderstands
  <2>1. outbox # <<>> /\ Head(outbox) = outbox[k]
    OBVIOUS
  <2>2. Understands /\ MachineTypes
    BY DEF StreamInv, MachineOK
  <2>3. \E d : Goes(Known, FineClients(text, raw), Client, outbox, d)
    BY <2>1, <2>2 DEF Understands, MachineTypes, Early
  <2>4. MakesSense(Known, Client, Head(outbox))
    BY <2>1, <2>3, GoesAhead
  <2>5. /\ Client.session = session /\ Client.seen = seen /\ Client.heard = heard
        /\ Client.end = end
    BY DEF Client
  <2> HIDE DEF Client
  <2> QED BY <2>1, <2>4, <2>5 DEF MakesSense, Sensible
<1> QED BY <1>1, StreamInvariant, PTL
=============================================================================
