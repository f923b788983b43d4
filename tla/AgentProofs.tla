---------------------------- MODULE AgentProofs ----------------------------
(***************************************************************************)
(* Requests of agents, for every number of requests and slots              *)
(* (LifecycleInv), the history that one replays, for every history         *)
(* (HistoryInv), and the server-sent events that answer it, for every text *)
(* and limit (SseInv).                                                     *)
(***************************************************************************)
EXTENDS AgentLifecycle, CallHistory, SseFrames, FiniteSetTheorems,
        SequenceTheorems, WellFoundedInduction, TLAPS

-----------------------------------------------------------------------------
(* The lifecycle of a request.                                             *)

Step(r) ==
    \/ Arrive(r) \/ HandlerStep(r) \/ CancelHandler(r)
    \/ GeneratorStep(r) \/ TotalDeadline(r) \/ ClientStep(r) \/ ResponseEnds(r)

Untouched(q) ==
    /\ at'[q] = at[q] /\ gen'[q] = gen[q] /\ why'[q] = why[q]
    /\ finished'[q] = finished[q] /\ upstream'[q] = upstream[q]
    /\ ended'[q] = ended[q] /\ audits'[q] = audits[q]

(* The ways in which a step may move the counter with its request's slot.  *)
SlotMoves(r) ==
    \/ (HoldsSlot(r)' <=> HoldsSlot(r)) /\ active' = active
    \/ ~HoldsSlot(r) /\ HoldsSlot(r)' /\ active < MaxConcurrent /\ active' = active + 1
    \/ HoldsSlot(r) /\ ~HoldsSlot(r)' /\ active' = active - 1

(* Appending a report to an empty audit trail makes a trail of one.        *)
LEMMA FirstReport ==
    ASSUME NEW trail \in Seq([report : Reports, written : BOOLEAN]), trail = <<>>,
           NEW report \in Reports, NEW w \in BOOLEAN
    PROVE  LET new == Append(trail, [report |-> report, written |-> w]) IN
           /\ new \in Seq([report : Reports, written : BOOLEAN])
           /\ Len(new) = 1
           /\ DOMAIN new = {1}
           /\ new[1].report = report
OBVIOUS

(* A step of one request leaves the others as they are.                    *)
LEMMA OthersUntouched ==
    ASSUME TypeOK, NEW r \in Requests, Step(r), NEW q \in Requests, q # r
    PROVE  Untouched(q)
<1> USE DEF TypeOK, Untouched, Audited, Leave, finish, Unwind, streamVars
<1>1. CASE Arrive(r)
  BY <1>1 DEF Arrive
<1>2. CASE BodyRead(r)
  BY <1>2 DEF BodyRead
<1>3. CASE Prepared(r)
  BY <1>3 DEF Prepared
<1>4. CASE Completed(r)
  BY <1>4 DEF Completed
<1>5. CASE CancelHandler(r)
  BY <1>5 DEF CancelHandler
<1>6. CASE Event(r) \/ Sent(r) \/ ProviderEnds(r)
  BY <1>6 DEF Event, Sent, ProviderEnds
<1>7. CASE Cleaned(r)
  BY <1>7 DEF Cleaned
<1>8. CASE TotalDeadline(r) \/ Start(r)
  BY <1>8 DEF TotalDeadline, Start
<1>9. CASE ErrorSent(r)
  BY <1>9 DEF ErrorSent
<1>10. CASE Disconnect(r)
  BY <1>10 DEF Disconnect
<1>11. CASE ResponseEnds(r)
  BY <1>11 DEF ResponseEnds
<1> QED BY <1>1, <1>2, <1>3, <1>4, <1>5, <1>6, <1>7, <1>8, <1>9, <1>10, <1>11
        DEF Step, HandlerStep, GeneratorStep, ClientStep

(* What a step that ends a handler does to its own request.                *)
LEMMA LeaveStep ==
    ASSUME TypeOK, NEW r \in Requests, InPlace(r), at[r] \in HandlerPlaces,
           active > 0, NEW report \in Reports \ {"ok"}, Leave(r, report)
    PROVE  TypeOK' /\ InPlace(r)' /\ SlotMoves(r) /\ ReportIsTrue(r)'
<1>1. PICK w \in BOOLEAN : Audited(r, report, w) /\ active' = active - 1
  BY DEF Leave, Released
<1>2. /\ at' = [at EXCEPT ![r] = "done"] /\ at'[r] = "done"
      /\ UNCHANGED <<gen, why, finished, upstream, ended>>
  BY DEF Leave, streamVars, TypeOK
<1>3. audits[r] = <<>> /\ gen[r] = "none" /\ upstream[r] = "none" /\ why[r] = "ok"
  BY DEF InPlace, Fresh
<1> DEFINE new == Append(audits[r], [report |-> report, written |-> w])
<1>4. audits' = [audits EXCEPT ![r] = new] /\ audits'[r] = new
  BY <1>1 DEF Audited, TypeOK
<1>5. /\ new \in Seq([report : Reports, written : BOOLEAN])
      /\ Len(new) = 1 /\ DOMAIN new = {1} /\ new[1].report = report
  BY <1>3, FirstReport DEF TypeOK
<1> HIDE DEF new
<1>6. TypeOK'
  <2>1. active' \in Nat
    BY <1>1 DEF TypeOK
  <2>2. audits' \in [Requests -> Seq([report : Reports, written : BOOLEAN])]
    BY <1>4, <1>5 DEF TypeOK
  <2>3. at' \in [Requests -> {"new", "done"} \cup HandlerPlaces \cup ResponsePlaces]
    BY <1>2 DEF TypeOK
  <2> QED BY <1>2, <2>1, <2>2, <2>3 DEF TypeOK
<1>7. InPlace(r)'
  BY <1>2, <1>3, <1>4, <1>5 DEF InPlace, HandlerPlaces
<1>8. SlotMoves(r)
  BY <1>1, <1>2 DEF SlotMoves, HoldsSlot, HandlerPlaces, ResponsePlaces
<1>9. ReportIsTrue(r)'
  BY <1>2, <1>3, <1>4, <1>5 DEF ReportIsTrue
<1> QED BY <1>6, <1>7, <1>8, <1>9

(* What finish does for a stream that has not been reported yet.           *)
LEMMA FinishStep ==
    ASSUME TypeOK, NEW r \in Requests, ~finished[r], audits[r] = <<>>,
           active > 0, NEW report \in Reports, finish(r, report)
    PROVE  /\ active' = active - 1 /\ active' \in Nat
           /\ finished' = [finished EXCEPT ![r] = TRUE] /\ finished'[r]
           /\ audits' \in [Requests -> Seq([report : Reports, written : BOOLEAN])]
           /\ Len(audits'[r]) = 1 /\ DOMAIN audits'[r] = {1}
           /\ audits'[r][1].report = report
<1>1. PICK w \in BOOLEAN : Audited(r, report, w) /\ active' = active - 1
  BY DEF finish, Released
<1> DEFINE new == Append(audits[r], [report |-> report, written |-> w])
<1>2. audits' = [audits EXCEPT ![r] = new] /\ audits'[r] = new
  BY <1>1 DEF Audited, TypeOK
<1>3. /\ new \in Seq([report : Reports, written : BOOLEAN])
      /\ Len(new) = 1 /\ DOMAIN new = {1} /\ new[1].report = report
  BY FirstReport DEF TypeOK
<1>4. finished' = [finished EXCEPT ![r] = TRUE] /\ finished'[r]
  BY DEF finish, TypeOK
<1> HIDE DEF new
<1>5. active' \in Nat
  BY <1>1 DEF TypeOK
<1>6. audits' \in [Requests -> Seq([report : Reports, written : BOOLEAN])]
  BY <1>2, <1>3 DEF TypeOK
<1> QED BY <1>1, <1>2, <1>3, <1>4, <1>5, <1>6

(* A step keeps its own request in place, moves the counter with its slot  *)
(* and reports the truth.                                                  *)
LEMMA OwnStep ==
    ASSUME TypeOK, NEW r \in Requests, InPlace(r), ReportIsTrue(r), Step(r),
           HoldsSlot(r) => active > 0
    PROVE  TypeOK' /\ InPlace(r)' /\ SlotMoves(r) /\ ReportIsTrue(r)'
<1> USE DEF HandlerPlaces, ResponsePlaces
<1>1. CASE Arrive(r)
  <2>1. CASE admit /\ active' = active + 1 /\ at' = [at EXCEPT ![r] = "reading"]
             /\ UNCHANGED audits
    <3>1. at[r] = "new" /\ UNCHANGED <<gen, why, finished, upstream, ended>>
          /\ at'[r] = "reading"
      BY <1>1, <2>1 DEF Arrive, streamVars, TypeOK
    <3>2. active' \in Nat /\ active < MaxConcurrent
      BY <2>1 DEF TypeOK, admit
    <3>3. TypeOK'
      BY <2>1, <3>1, <3>2 DEF TypeOK
    <3>4. InPlace(r)' /\ ReportIsTrue(r)'
      BY <2>1, <3>1 DEF InPlace, Fresh, ReportIsTrue
    <3>5. SlotMoves(r)
      BY <2>1, <3>1, <3>2 DEF SlotMoves, HoldsSlot
    <3> QED BY <3>3, <3>4, <3>5
  <2>2. ASSUME NEW w \in BOOLEAN, Audited(r, "rejected", w), UNCHANGED active,
               at' = [at EXCEPT ![r] = "done"]
        PROVE  TypeOK' /\ InPlace(r)' /\ SlotMoves(r) /\ ReportIsTrue(r)'
    <3> DEFINE new == Append(audits[r], [report |-> "rejected", written |-> w])
    <3>1. audits' = [audits EXCEPT ![r] = new] /\ audits'[r] = new
      BY <2>2 DEF Audited, TypeOK
    <3>2. audits[r] = <<>> /\ gen[r] = "none" /\ upstream[r] = "none" /\ why[r] = "ok"
          /\ at[r] = "new"
      BY <1>1 DEF Arrive, InPlace, Fresh
    <3>3. /\ new \in Seq([report : Reports, written : BOOLEAN])
          /\ Len(new) = 1 /\ DOMAIN new = {1} /\ new[1].report = "rejected"
      BY <3>2, FirstReport DEF TypeOK, Reports
    <3>4. UNCHANGED <<gen, why, finished, upstream, ended>> /\ at'[r] = "done"
      BY <1>1, <2>2 DEF Arrive, streamVars, TypeOK
    <3> HIDE DEF new
    <3>5. TypeOK'
      BY <2>2, <3>1, <3>3, <3>4 DEF TypeOK
    <3>6. InPlace(r)' /\ ReportIsTrue(r)'
      BY <3>1, <3>2, <3>3, <3>4 DEF InPlace, ReportIsTrue
    <3>7. SlotMoves(r)
      BY <2>2, <3>2, <3>4 DEF SlotMoves, HoldsSlot
    <3> QED BY <3>5, <3>6, <3>7
  <2> QED BY <1>1, <2>1, <2>2 DEF Arrive
<1>2. CASE BodyRead(r) \/ Prepared(r) \/ CancelHandler(r)
  <2>1. at[r] \in HandlerPlaces /\ active > 0
    BY <1>2 DEF BodyRead, Prepared, CancelHandler, HoldsSlot
  <2>2. CASE \E report \in Reports \ {"ok"} : Leave(r, report)
    BY <2>1, <2>2, LeaveStep
  <2>3. CASE /\ at[r] \in HandlerPlaces
             /\ \E p \in {"preparing", "completing"} : at' = [at EXCEPT ![r] = p]
             /\ UNCHANGED <<active, streamVars, ended, audits>>
    BY <2>3 DEF streamVars, TypeOK, InPlace, Fresh, SlotMoves, HoldsSlot, ReportIsTrue
  <2>4. CASE /\ at[r] \in HandlerPlaces
             /\ at' = [at EXCEPT ![r] = "handed"]
             /\ gen' = [gen EXCEPT ![r] = "unstarted"]
             /\ UNCHANGED <<active, why, finished, upstream, ended, audits>>
    BY <2>4 DEF TypeOK, InPlace, Fresh, SlotMoves, HoldsSlot, ReportIsTrue
  <2> QED BY <1>2, <2>1, <2>2, <2>3, <2>4 DEF BodyRead, Prepared, CancelHandler, Reports
<1>3. CASE Completed(r)
  <2>1. PICK report \in {"ok", "failed"}, w \in BOOLEAN :
          /\ Audited(r, report, w) /\ active' = active - 1
          /\ ended' = [ended EXCEPT ![r] = report = "ok"]
    BY <1>3 DEF Completed, Released
  <2>2. /\ at' = [at EXCEPT ![r] = "done"] /\ at'[r] = "done" /\ at[r] = "completing"
        /\ UNCHANGED <<gen, why, finished, upstream>>
    BY <1>3 DEF Completed, streamVars, TypeOK
  <2>3. audits[r] = <<>> /\ gen[r] = "none" /\ upstream[r] = "none" /\ why[r] = "ok"
    BY <2>2 DEF InPlace, Fresh
  <2> DEFINE new == Append(audits[r], [report |-> report, written |-> w])
  <2>4. audits' = [audits EXCEPT ![r] = new] /\ audits'[r] = new
    BY <2>1 DEF Audited, TypeOK
  <2>5. /\ new \in Seq([report : Reports, written : BOOLEAN])
        /\ Len(new) = 1 /\ DOMAIN new = {1} /\ new[1].report = report
    BY <2>3, FirstReport DEF TypeOK, Reports
  <2> HIDE DEF new
  <2>6. active > 0
    BY <2>2 DEF HoldsSlot
  <2>7. ended' \in [Requests -> BOOLEAN] /\ (report = "ok" => ended'[r])
    BY <2>1 DEF TypeOK
  <2>8. TypeOK'
    <3>1. active' \in Nat
      BY <2>1, <2>6 DEF TypeOK
    <3>2. audits' \in [Requests -> Seq([report : Reports, written : BOOLEAN])]
      BY <2>4, <2>5 DEF TypeOK
    <3>3. at' \in [Requests -> {"new", "done"} \cup HandlerPlaces \cup ResponsePlaces]
      BY <2>2 DEF TypeOK
    <3> QED BY <2>2, <2>7, <3>1, <3>2, <3>3 DEF TypeOK
  <2>9. InPlace(r)'
    BY <2>2, <2>3, <2>4, <2>5 DEF InPlace
  <2>10. SlotMoves(r)
    BY <2>1, <2>2 DEF SlotMoves, HoldsSlot
  <2>11. ReportIsTrue(r)'
    BY <2>2, <2>3, <2>4, <2>5, <2>7 DEF ReportIsTrue
  <2> QED BY <2>8, <2>9, <2>10, <2>11
<1>4. CASE Start(r)
  BY <1>4 DEF Start, TypeOK, InPlace, Fresh, SlotMoves, HoldsSlot, ReportIsTrue, Suspended,
              Reports
<1>5. CASE Event(r) \/ Sent(r)
  BY <1>5 DEF Event, Sent, TypeOK, InPlace, Fresh, SlotMoves, HoldsSlot, ReportIsTrue, Suspended
<1>6. ASSUME gen[r] \in UnderDeadline, NEW report \in Reports, Unwind(r, report),
             \/ UNCHANGED ended /\ report # "ok"
             \/ ended' = [ended EXCEPT ![r] = TRUE]
      PROVE  TypeOK' /\ InPlace(r)' /\ SlotMoves(r) /\ ReportIsTrue(r)'
  <2>1. at[r] = "streaming" /\ audits[r] = <<>> /\ ~finished[r]
    BY <1>6 DEF InPlace, UnderDeadline, Suspended, Fresh, TypeOK
  <2> QED BY <1>6, <2>1 DEF Unwind, TypeOK, InPlace, Fresh, SlotMoves, HoldsSlot, ReportIsTrue,
             Suspended
<1>7. CASE ProviderEnds(r) \/ TotalDeadline(r)
  BY <1>6, <1>7 DEF ProviderEnds, TotalDeadline, UnderDeadline, Reports
<1>8. ASSUME gen[r] \in Suspended, NEW report \in Reports, finish(r, report),
             gen' = [gen EXCEPT ![r] = "closed"], at' = [at EXCEPT ![r] = "closing"],
             upstream' \in [Requests -> {"none", "open", "closed"}], upstream'[r] # "open",
             UNCHANGED <<why, ended>>,
             report = "ok" => ended[r], why[r] = "failed" => report = "failed"
      PROVE  TypeOK' /\ InPlace(r)' /\ SlotMoves(r) /\ ReportIsTrue(r)'
  <2>1. at[r] = "streaming" /\ audits[r] = <<>> /\ ~finished[r]
    BY <1>8 DEF InPlace, Suspended, Fresh, TypeOK
  <2>2. active > 0
    BY <2>1 DEF HoldsSlot
  <2>3. /\ active' = active - 1 /\ active' \in Nat
        /\ finished' = [finished EXCEPT ![r] = TRUE] /\ finished'[r]
        /\ audits' \in [Requests -> Seq([report : Reports, written : BOOLEAN])]
        /\ Len(audits'[r]) = 1 /\ DOMAIN audits'[r] = {1}
        /\ audits'[r][1].report = report
    BY <1>8, <2>1, <2>2, FinishStep
  <2>4. at'[r] = "closing" /\ gen'[r] = "closed"
    BY <1>8 DEF TypeOK
  <2>5. TypeOK'
    BY <1>8, <2>3 DEF TypeOK
  <2>6. InPlace(r)'
    BY <1>8, <2>3, <2>4 DEF InPlace
  <2>7. SlotMoves(r)
    BY <2>1, <2>3, <2>4 DEF SlotMoves, HoldsSlot
  <2>8. ReportIsTrue(r)'
    BY <1>8, <2>3, <2>4 DEF ReportIsTrue
  <2> QED BY <2>5, <2>6, <2>7, <2>8
<1>9. CASE Cleaned(r)
  <2>1. upstream' = [upstream EXCEPT ![r] = "closed"] /\ upstream'[r] = "closed"
        /\ gen[r] = "cleanup" /\ UNCHANGED <<why, ended>>
    BY <1>9 DEF Cleaned, Closed, TypeOK
  <2>2. CASE why[r] = "failed"
    BY <1>9, <2>1, <2>2
       DEF Cleaned, TypeOK, InPlace, Fresh, SlotMoves, HoldsSlot, ReportIsTrue, Suspended
  <2>3. CASE why[r] # "failed"
    <3>1. /\ gen' = [gen EXCEPT ![r] = "closed"] /\ at' = [at EXCEPT ![r] = "closing"]
          /\ finish(r, why[r])
      BY <1>9, <2>3 DEF Cleaned
    <3>2. why[r] \in Reports /\ (why[r] = "ok" => ended[r])
      BY <2>1 DEF TypeOK, InPlace
    <3>3. upstream' \in [Requests -> {"none", "open", "closed"}]
      BY <2>1 DEF TypeOK
    <3> QED BY <1>8, <2>1, <2>3, <3>1, <3>2, <3>3 DEF Suspended
  <2> QED BY <2>2, <2>3
<1>10. CASE ErrorSent(r) \/ (gen[r] = "erroring" /\ Disconnect(r))
  <2>1. gen[r] = "erroring" /\ why[r] = "failed" /\ upstream[r] # "open"
        /\ at[r] = "streaming"
    BY <1>10 DEF ErrorSent, InPlace, Suspended, TypeOK
  <2>2. /\ gen' = [gen EXCEPT ![r] = "closed"] /\ at' = [at EXCEPT ![r] = "closing"]
        /\ finish(r, "failed") /\ UNCHANGED <<why, upstream, ended>>
    BY <1>10, <2>1 DEF ErrorSent, Disconnect, ReportOfCancel
  <2> QED BY <1>8, <2>1, <2>2 DEF Suspended, Reports, TypeOK
<1>11. CASE at[r] = "handed" /\ Disconnect(r)
  <2>1. gen[r] = "unstarted"
    BY <1>11 DEF InPlace
  <2> QED BY <1>11, <2>1 DEF Disconnect, TypeOK, InPlace, Fresh, SlotMoves, HoldsSlot, ReportIsTrue
<1>12. CASE gen[r] \in UnderDeadline /\ Disconnect(r)
  <2>1. at[r] = "streaming"
    BY <1>12 DEF InPlace, UnderDeadline, TypeOK
  <2>2. Unwind(r, "cancelled") /\ UNCHANGED ended
    BY <1>12, <2>1 DEF Disconnect, UnderDeadline, ReportOfCancel
  <2> QED BY <1>6, <1>12, <2>2 DEF Reports
<1>13. CASE ResponseEnds(r)
  <2>1. /\ at[r] = "closing" /\ gen[r] = "closed" /\ at' = [at EXCEPT ![r] = "done"]
        /\ at'[r] = "done" /\ UNCHANGED <<gen, why, upstream, ended>>
        /\ finish(r, "cancelled")
    BY <1>13 DEF ResponseEnds, InPlace, TypeOK
  <2>2. CASE finished[r]
    BY <2>1, <2>2 DEF finish, TypeOK, InPlace, Fresh, SlotMoves, HoldsSlot, ReportIsTrue
  <2>3. CASE ~finished[r]
    <3>1. audits[r] = <<>> /\ why[r] = "ok" /\ active > 0 /\ upstream[r] # "open"
      BY <2>1, <2>3 DEF InPlace, HoldsSlot
    <3>2. /\ active' = active - 1 /\ active' \in Nat
          /\ finished' = [finished EXCEPT ![r] = TRUE] /\ finished'[r]
          /\ audits' \in [Requests -> Seq([report : Reports, written : BOOLEAN])]
          /\ Len(audits'[r]) = 1 /\ DOMAIN audits'[r] = {1}
          /\ audits'[r][1].report = "cancelled"
      BY <2>1, <2>3, <3>1, FinishStep DEF Reports
    <3>3. TypeOK'
      BY <2>1, <3>2 DEF TypeOK
    <3>4. InPlace(r)' /\ ReportIsTrue(r)'
      BY <2>1, <3>1, <3>2 DEF InPlace, ReportIsTrue
    <3>5. SlotMoves(r)
      BY <2>1, <2>3, <3>2 DEF SlotMoves, HoldsSlot
    <3> QED BY <3>3, <3>4, <3>5
  <2> QED BY <2>2, <2>3
<1>14. Disconnect(r) => at[r] = "handed" \/ gen[r] = "erroring" \/ gen[r] \in UnderDeadline
  BY DEF Disconnect, UnderDeadline
<1> QED BY <1>1, <1>2, <1>3, <1>4, <1>5, <1>7, <1>9, <1>10, <1>11, <1>12, <1>13, <1>14
        DEF Step, HandlerStep, GeneratorStep, ClientStep

(* Every step keeps the types, and every request in its place.             *)
LEMMA StepKeepsPlaces ==
    ASSUME LifecycleInv, NEW r \in Requests, Step(r)
    PROVE  /\ TypeOK' /\ SlotMoves(r)
           /\ \A q \in Requests : InPlace(q)' /\ ReportIsTrue(q)'
           /\ \A q \in Requests \ {r} : HoldsSlot(q)' <=> HoldsSlot(q)
<1>1. Holders \in SUBSET Requests /\ IsFiniteSet(Holders)
  BY LifecycleAssumption, FS_Subset DEF Holders
<1>2. HoldsSlot(r) => active > 0
  <2>1. SUFFICES ASSUME HoldsSlot(r) PROVE Cardinality(Holders) \in Nat \ {0}
    BY DEF LifecycleInv, SlotsAreHeld
  <2>2. r \in Holders
    BY <2>1 DEF Holders
  <2> QED BY <1>1, <2>2, FS_EmptySet, FS_CardinalityType
<1>3. TypeOK' /\ InPlace(r)' /\ SlotMoves(r) /\ ReportIsTrue(r)'
  BY <1>2, OwnStep DEF LifecycleInv, ReportsAreTrue
<1>4. ASSUME NEW q \in Requests, q # r
      PROVE  InPlace(q)' /\ ReportIsTrue(q)' /\ (HoldsSlot(q)' <=> HoldsSlot(q))
  <2>1. Untouched(q)
    BY <1>4, OthersUntouched DEF LifecycleInv
  <2>2. InPlace(q) /\ ReportIsTrue(q)
    BY DEF LifecycleInv, ReportsAreTrue
  <2>3. InPlace(q)'
    BY <2>1, <2>2 DEF Untouched, InPlace, Fresh
  <2>4. ReportIsTrue(q)'
    BY <2>1, <2>2 DEF Untouched, ReportIsTrue
  <2>5. HoldsSlot(q)' <=> HoldsSlot(q)
    BY <2>1 DEF Untouched, HoldsSlot
  <2> QED BY <2>3, <2>4, <2>5
<1> QED BY <1>3, <1>4

(* The counter follows the set of requests that hold a slot.               *)
LEMMA CounterFollowsHolders ==
    ASSUME LifecycleInv, NEW r \in Requests, SlotMoves(r),
           \A q \in Requests \ {r} : HoldsSlot(q)' <=> HoldsSlot(q)
    PROVE  SlotsAreHeld'
<1>1. Holders \in SUBSET Requests /\ IsFiniteSet(Holders)
  BY LifecycleAssumption, FS_Subset DEF Holders
<1>2. active = Cardinality(Holders) /\ active <= MaxConcurrent /\ active \in Nat
  BY DEF LifecycleInv, SlotsAreHeld, TypeOK
<1>3. CASE (HoldsSlot(r)' <=> HoldsSlot(r)) /\ active' = active
  <2>1. Holders' = Holders
    BY <1>3 DEF Holders
  <2> QED BY <1>2, <1>3, <2>1 DEF SlotsAreHeld
<1>4. CASE ~HoldsSlot(r) /\ HoldsSlot(r)' /\ active < MaxConcurrent /\ active' = active + 1
  <2>1. Holders' = Holders \cup {r} /\ r \notin Holders
    BY <1>4 DEF Holders
  <2>2. Cardinality(Holders') = Cardinality(Holders) + 1
    BY <1>1, <2>1, FS_AddElement
  <2> QED BY <1>2, <1>4, <2>2, LifecycleAssumption DEF SlotsAreHeld
<1>5. CASE HoldsSlot(r) /\ ~HoldsSlot(r)' /\ active' = active - 1
  <2>1. Holders' = Holders \ {r} /\ r \in Holders
    BY <1>5 DEF Holders
  <2>2. Cardinality(Holders') = Cardinality(Holders) - 1
    BY <1>1, <2>1, FS_RemoveElement
  <2> QED BY <1>2, <1>5, <2>2, LifecycleAssumption DEF SlotsAreHeld
<1> QED BY <1>3, <1>4, <1>5 DEF SlotMoves

(* The invariant that the theorems below are read from: where a request    *)
(* stands says who has reported it, and the counter is the number of those *)
(* that are admitted and not finished.                                     *)
THEOREM LifecycleInvariant == Spec => []LifecycleInv
<1>1. Init => LifecycleInv
  <2> SUFFICES ASSUME Init PROVE LifecycleInv
    OBVIOUS
  <2>1. TypeOK
    BY DEF Init, TypeOK, Reports
  <2>2. \A r \in Requests : InPlace(r) /\ ReportIsTrue(r)
    BY DEF Init, InPlace, Fresh, ReportIsTrue, HandlerPlaces
  <2>3. Holders = {}
    BY DEF Init, Holders, HoldsSlot, HandlerPlaces, ResponsePlaces
  <2>4. SlotsAreHeld
    BY <2>3, FS_EmptySet, LifecycleAssumption DEF Init, SlotsAreHeld
  <2> QED BY <2>1, <2>2, <2>4 DEF LifecycleInv, ReportsAreTrue
<1>2. LifecycleInv /\ [Next]_vars => LifecycleInv'
  <2> SUFFICES ASSUME LifecycleInv, [Next]_vars PROVE LifecycleInv'
    OBVIOUS
  <2>1. CASE Next
    <3>1. PICK r \in Requests : Step(r)
      BY <2>1 DEF Next, Step
    <3>2. /\ TypeOK' /\ SlotMoves(r)
          /\ \A q \in Requests : InPlace(q)' /\ ReportIsTrue(q)'
          /\ \A q \in Requests \ {r} : HoldsSlot(q)' <=> HoldsSlot(q)
      BY <3>1, StepKeepsPlaces
    <3>3. SlotsAreHeld'
      BY <3>2, CounterFollowsHolders
    <3> QED BY <3>2, <3>3 DEF LifecycleInv, ReportsAreTrue
  <2>2. CASE UNCHANGED vars
    <3>1. TypeOK' /\ (\A r \in Requests : InPlace(r)')
      BY <2>2 DEF LifecycleInv, vars, TypeOK, InPlace, Fresh
    <3>2. Holders' = Holders
      BY <2>2 DEF vars, Holders, HoldsSlot
    <3>3. SlotsAreHeld' /\ ReportsAreTrue'
      BY <2>2, <3>2 DEF LifecycleInv, vars, SlotsAreHeld, ReportsAreTrue, ReportIsTrue
    <3> QED BY <3>1, <3>3 DEF LifecycleInv
  <2> QED BY <2>1, <2>2
<1> QED BY <1>1, <1>2, PTL DEF Spec

(* The runtime's counter, the stages of every request and its audit trail  *)
(* keep their types: AgentRuntime.active never goes below zero.            *)
THEOREM LifecycleTypes == Spec => []TypeOK
<1>1. LifecycleInv => TypeOK
  BY DEF LifecycleInv
<1> QED BY <1>1, LifecycleInvariant, PTL

(* AgentRuntime.active is the number of requests in progress, and never    *)
(* more than agent_max_concurrent.                                         *)
THEOREM NoSlotLeaks == Spec => []SlotsAreHeld
<1>1. LifecycleInv => SlotsAreHeld
  BY DEF LifecycleInv
<1> QED BY <1>1, LifecycleInvariant, PTL

(* A finished request has exactly one audit record, whichever of the       *)
(* handler, the generator and the response wrote it.                       *)
THEOREM OneReport == Spec => []ReportedOnce
<1>1. LifecycleInv => ReportedOnce
  <2> SUFFICES ASSUME LifecycleInv, NEW r \in Requests
               PROVE  Len(audits[r]) <= 1 /\ (at[r] = "done" => Len(audits[r]) = 1)
    BY DEF ReportedOnce
  <2>1. InPlace(r) /\ TypeOK
    BY DEF LifecycleInv
  <2>2. Len(<<>>) = 0
    OBVIOUS
  <2>3. audits[r] = <<>> \/ Len(audits[r]) = 1
    BY <2>1 DEF TypeOK, InPlace, Fresh, HandlerPlaces, ResponsePlaces
  <2> QED BY <2>1, <2>2, <2>3 DEF InPlace
<1> QED BY <1>1, LifecycleInvariant, PTL

(* The audit record of a request says ok only of a complete answer, and    *)
(* failed of every stream that was sent its error event.                   *)
THEOREM TrueReports == Spec => []ReportsAreTrue
<1>1. LifecycleInv => ReportsAreTrue
  BY DEF LifecycleInv
<1> QED BY <1>1, LifecycleInvariant, PTL

(* The provider's stream is closed by the time the request is over.        *)
THEOREM UpstreamIsClosed == Spec => []UpstreamClosed
<1>1. LifecycleInv => UpstreamClosed
  BY DEF LifecycleInv, UpstreamClosed, InPlace
<1> QED BY <1>1, LifecycleInvariant, PTL

-----------------------------------------------------------------------------
(* The server-sent events of a provider. First, the reference definitions, *)
(* as the text grows by a character: what has ended stays what it is.      *)

(* The least-number principle, for a set instead of a predicate.           *)
LEMMA LeastNumber ==
    ASSUME NEW T \in SUBSET Nat, T # {}
    PROVE  \E x \in T : \A y \in T : x <= y
<1> DEFINE R == {ss \in Nat \X Nat : ss[1] < ss[2]}
<1>1. IsWellFoundedOn(R, Nat)
  BY NatLessThanWellFounded DEF OpToRel
<1>2. PICK x \in T : \A y \in T : ~(<<y, x>> \in R)
  <2> HIDE DEF R
  <2> QED BY <1>1, WFMin
<1>3. \A y \in T : ~(y < x)
  BY <1>2
<1> QED BY <1>3

(* Before finds the last place before another, or the beginning.           *)
LEMMA BeforeIs ==
    ASSUME NEW S \in SUBSET (Nat \ {0}), NEW k \in Nat \ {0}
    PROVE  /\ Before(S, k) \in 0 .. k - 1
           /\ Before(S, k) # 0 => Before(S, k) \in S
           /\ \A i \in S : i < k => i <= Before(S, k)
<1> DEFINE below == {i \in S : i < k}
<1>1. CASE below = {}
  <2>1. Before(S, k) = 0
    BY <1>1 DEF Before
  <2> QED BY <1>1, <2>1
<1>2. CASE below # {}
  <2>1. \E i \in below : \A j \in below : j <= i
    <3> DEFINE T == {n \in Nat : k - n \in below}
    <3>1. T # {}
      <4>1. PICK i \in below : TRUE
        BY <1>2
      <4>2. i \in Nat /\ k - i \in Nat /\ k - (k - i) = i
        OBVIOUS
      <4> HIDE DEF below
      <4> QED BY <4>1, <4>2
    <3>2. PICK x \in T : \A y \in T : x <= y
      <4> HIDE DEF T
      <4> QED BY <3>1, LeastNumber DEF T
    <3>3. ASSUME NEW j \in below PROVE j <= k - x
      <4>1. j \in Nat /\ k - j \in Nat /\ k - (k - j) = j
        OBVIOUS
      <4>2. k - j \in T
        BY <4>1
      <4>3. x <= k - j /\ x \in Nat
        BY <3>2, <4>2
      <4> QED BY <4>1, <4>3
    <3>4. k - x \in below
      OBVIOUS
    <3> QED BY <3>3, <3>4
  <2>2. Before(S, k) \in below /\ \A j \in below : j <= Before(S, k)
    <3>1. Before(S, k) = CHOOSE i \in below : \A j \in below : j <= i
      BY <1>2 DEF Before
    <3> HIDE DEF below
    <3> QED BY <2>1, <3>1
  <2> DEFINE b == Before(S, k)
  <2> HIDE DEF b
  <2>3. b \in S /\ b < k /\ b \in Nat \ {0}
    BY <2>2 DEF b
  <2>4. b \in 0 .. k - 1
    BY <2>3
  <2>5. \A i \in S : i < k => i <= b
    BY <2>2 DEF b
  <2> QED BY <2>3, <2>4, <2>5 DEF b
<1> QED BY <1>1, <1>2

(* Before looks at what lies before the place only.                        *)
LEMMA BeforeSame ==
    ASSUME NEW S, NEW T, NEW k, \A i \in S \cup T : i < k => (i \in S <=> i \in T)
    PROVE  Before(S, k) = Before(T, k)
<1>1. {i \in S : i < k} = {i \in T : i < k}
  OBVIOUS
<1> DEFINE F(B) == IF B = {} THEN 0 ELSE CHOOSE i \in B : \A j \in B : j <= i
<1>2. Before(S, k) = F({i \in S : i < k}) /\ Before(T, k) = F({i \in T : i < k})
  BY DEF Before
<1> HIDE DEF F
<1> QED BY <1>1, <1>2

(* One place further, Before has found that place or nothing new.          *)
LEMMA BeforeNext ==
    ASSUME NEW S \in SUBSET (Nat \ {0}), NEW k \in Nat \ {0}
    PROVE  /\ k \in S => Before(S, k + 1) = k
           /\ k \notin S => Before(S, k + 1) = Before(S, k)
<1>1. /\ Before(S, k) \in 0 .. k - 1
      /\ Before(S, k) # 0 => Before(S, k) \in S
      /\ \A i \in S : i < k => i <= Before(S, k)
  BY BeforeIs
<1>2. /\ Before(S, k + 1) \in 0 .. k
      /\ Before(S, k + 1) # 0 => Before(S, k + 1) \in S
      /\ \A i \in S : i < k + 1 => i <= Before(S, k + 1)
  <2>1. k + 1 \in Nat \ {0} /\ (k + 1) - 1 = k
    OBVIOUS
  <2> QED BY <2>1, BeforeIs
<1> DEFINE a == Before(S, k)
           b == Before(S, k + 1)
<1> HIDE DEF a, b
<1>3. k \in S => b = k
  BY <1>2 DEF b
<1>4. k \notin S => b = a
  <2> SUFFICES ASSUME k \notin S PROVE b = a
    OBVIOUS
  <2>1. b # k
    BY <1>2 DEF b
  <2>2. b <= a
    <3>1. b # 0 => b \in S /\ b < k
      BY <1>2, <2>1 DEF b
    <3>2. b # 0 => b <= a
      BY <1>1, <3>1 DEF a
    <3> QED BY <1>1, <1>2, <3>2 DEF a, b
  <2>3. a <= b
    <3>1. a # 0 => a \in S /\ a < k + 1
      BY <1>1 DEF a
    <3>2. a # 0 => a <= b
      BY <1>2, <3>1 DEF b
    <3> QED BY <1>1, <1>2, <3>2 DEF a, b
  <2>4. a \in Nat /\ b \in Nat
    BY <1>1, <1>2 DEF a, b
  <2> QED BY <2>2, <2>3, <2>4
<1> QED BY <1>3, <1>4 DEF a, b

\* a character that ends a line after t
Ends(t, c) == c = "CR" \/ (c = "LF" /\ ~(Len(t) > 0 /\ t[Len(t)] = "CR"))
NextPlace(t, yes) == IF yes THEN {Len(t) + 1} ELSE {}

(* A character more.                                                       *)
LEMMA Longer ==
    ASSUME NEW t \in Seq(Characters), NEW c \in Characters
    PROVE  /\ Append(t, c) \in Seq(Characters) /\ Len(t) \in Nat /\ Len(Append(t, c)) = Len(t) + 1
           /\ DOMAIN t = 1 .. Len(t) /\ DOMAIN Append(t, c) = 1 .. Len(t) + 1
           /\ \A i \in 1 .. Len(t) : Append(t, c)[i] = t[i]
           /\ Append(t, c)[Len(t) + 1] = c
OBVIOUS

(* Whether a character ends a line depends on the one before it alone.     *)
LEMMA LineEndsAre ==
    ASSUME NEW t \in Seq(Characters), NEW c \in Characters
    PROVE  /\ LineEnds(t) \subseteq 1 .. Len(t)
           /\ LineEnds(Append(t, c)) = LineEnds(t) \cup NextPlace(t, Ends(t, c))
<1> DEFINE u == Append(t, c)
           n == Len(t)
<1>1. /\ n \in Nat /\ DOMAIN t = 1 .. n /\ DOMAIN u = 1 .. n + 1
      /\ \A i \in 1 .. n : u[i] = t[i]
      /\ u[n + 1] = c
  BY Longer
<1> HIDE DEF u, n
<1>2. LineEnds(t) \subseteq 1 .. n
  BY <1>1 DEF LineEnds
<1>3. \A k \in 1 .. n : k \in LineEnds(u) <=> k \in LineEnds(t)
  <2> TAKE k \in 1 .. n
  <2>1. u[k] = t[k] /\ k \in 1 .. n + 1
    BY <1>1
  <2>2. k # 1 => u[k - 1] = t[k - 1]
    <3>1. k # 1 => k - 1 \in 1 .. n
      BY <1>1
    <3> QED BY <1>1, <3>1
  <2> QED BY <1>1, <2>1, <2>2 DEF LineEnds
<1>4. n + 1 \in LineEnds(u) <=> Ends(t, c)
  <2>1. n + 1 \in 1 .. n + 1 /\ (n + 1) - 1 = n /\ (n + 1 = 1 <=> ~(n > 0))
    BY <1>1
  <2>2. n > 0 => u[n] = t[n]
    BY <1>1
  <2>3. n + 1 \in LineEnds(u) <=> (c = "CR" \/ (c = "LF" /\ (n + 1 = 1 \/ u[n] # "CR")))
    BY <1>1, <2>1 DEF LineEnds
  <2> QED BY <2>1, <2>2, <2>3 DEF Ends, n
<1>5. LineEnds(u) \subseteq 1 .. n + 1
  BY <1>1 DEF LineEnds
<1>6. ASSUME NEW k PROVE k \in LineEnds(u) <=> k \in LineEnds(t) \cup NextPlace(t, Ends(t, c))
  <2>1. k \in 1 .. n + 1 <=> k \in 1 .. n \/ k = n + 1
    BY <1>1
  <2>2. n + 1 \notin 1 .. n
    BY <1>1
  <2> QED BY <1>2, <1>3, <1>4, <1>5, <2>1, <2>2 DEF NextPlace, n
<1> QED BY <1>2, <1>6 DEF u, n

(* A part of the text is the same part of a longer text.                   *)
LEMMA CutOfLonger ==
    ASSUME NEW t \in Seq(Characters), NEW c \in Characters,
           NEW s \in 1 .. Len(t) + 1, NEW e \in 0 .. Len(t)
    PROVE  SubSeq(Append(t, c), s, e) = SubSeq(t, s, e)
<1> DEFINE a == SubSeq(Append(t, c), s, e)
           b == SubSeq(t, s, e)
<1>1. a \in Seq(Characters) /\ b \in Seq(Characters)
  BY Longer
<1>2. Len(a) = Len(b)
  BY Longer
<1>3. \A i \in 1 .. Len(a) : a[i] = b[i]
  <2> TAKE i \in 1 .. Len(a)
  <2>1. s + i - 1 \in 1 .. Len(t) /\ i \in 1 .. Len(b)
    BY Longer
  <2>2. a[i] = Append(t, c)[s + i - 1] /\ b[i] = t[s + i - 1]
    BY <1>2, <2>1, Longer
  <2> QED BY <2>1, <2>2, Longer
<1> HIDE DEF a, b
<1>4. a = b
  BY <1>1, <1>2, <1>3, SeqEqual
<1> QED BY <1>4 DEF a, b

(* A part at the end of the text grows with it.                            *)
LEMMA CutLonger ==
    ASSUME NEW t \in Seq(Characters), NEW c \in Characters, NEW s \in 1 .. Len(t) + 1
    PROVE  SubSeq(Append(t, c), s, Len(t) + 1) = Append(SubSeq(t, s, Len(t)), c)
<1> DEFINE a == SubSeq(Append(t, c), s, Len(t) + 1)
           r == SubSeq(t, s, Len(t))
           b == Append(r, c)
<1>1. a \in Seq(Characters) /\ r \in Seq(Characters) /\ b \in Seq(Characters)
  BY Longer
<1>2. Len(a) = Len(t) + 2 - s /\ Len(r) = Len(t) + 1 - s /\ Len(b) = Len(r) + 1
  BY Longer
<1>3. \A i \in 1 .. Len(a) : a[i] = b[i]
  <2> TAKE i \in 1 .. Len(a)
  <2>1. a[i] = Append(t, c)[s + i - 1]
    BY <1>2, Longer
  <2>2. CASE i \in 1 .. Len(r)
    <3>1. s + i - 1 \in 1 .. Len(t)
      BY <1>2, <2>2, Longer
    <3>2. b[i] = r[i] /\ r[i] = t[s + i - 1]
      BY <1>2, <2>2, <3>1, Longer
    <3> QED BY <2>1, <3>1, <3>2, Longer
  <2>3. CASE i = Len(r) + 1
    <3>1. s + i - 1 = Len(t) + 1
      BY <1>2, <2>3, Longer
    <3>2. b[i] = c
      BY <1>1, <2>3
    <3> QED BY <2>1, <3>1, <3>2, Longer
  <2>4. i \in 1 .. Len(r) \/ i = Len(r) + 1
    BY <1>2, Longer
  <2> QED BY <2>2, <2>3, <2>4
<1>4. Len(a) = Len(b)
  BY <1>2, Longer
<1> HIDE DEF a, b
<1>5. a = b
  BY <1>1, <1>3, <1>4, SeqEqual
<1> QED BY <1>5 DEF a, b

\* where the line that ends at k begins
StartOf(t, k) ==
    LET from == Before(LineEnds(t), k) + 1
    IN IF from < k /\ t[from] = "LF" THEN from + 1 ELSE from

(* A line is a part of the text.                                           *)
LEMMA LineIs ==
    ASSUME NEW t \in Seq(Characters), NEW k \in 1 .. Len(t) + 1
    PROVE  /\ LineAt(t, k) = SubSeq(t, StartOf(t, k), k - 1)
           /\ StartOf(t, k) \in 1 .. k
           /\ LineAt(t, k) \in Seq(Characters)
<1>1. LineEnds(t) \in SUBSET (Nat \ {0}) /\ k \in Nat \ {0}
  BY DEF LineEnds
<1>2. Before(LineEnds(t), k) \in 0 .. k - 1
  BY <1>1, BeforeIs
<1>3. LineAt(t, k) = SubSeq(t, StartOf(t, k), k - 1)
  BY DEF LineAt, StartOf
<1>4. StartOf(t, k) \in 1 .. k
  BY <1>1, <1>2 DEF StartOf
<1> DEFINE s == StartOf(t, k)
<1> HIDE DEF s
<1>5. s \in 1 .. k
  BY <1>4 DEF s
<1>6. SubSeq(t, s, k - 1) \in Seq(Characters)
  BY <1>5
<1> QED BY <1>3, <1>4, <1>6 DEF s

(* What ends a line, or begins one, does not depend on what follows.       *)
LEMMA LineStays ==
    ASSUME NEW t \in Seq(Characters), NEW c \in Characters, NEW k \in 1 .. Len(t) + 1
    PROVE  LineAt(Append(t, c), k) = LineAt(t, k)
<1> DEFINE u == Append(t, c)
           n == Len(t)
<1>1. /\ u \in Seq(Characters) /\ n \in Nat /\ Len(u) = n + 1
      /\ \A i \in 1 .. n : u[i] = t[i]
  BY Longer
<1>2. Before(LineEnds(u), k) = Before(LineEnds(t), k)
  <2>1. \A i \in LineEnds(u) \cup LineEnds(t) : i < k => (i \in LineEnds(u) <=> i \in LineEnds(t))
    BY <1>1, LineEndsAre DEF NextPlace
  <2> QED BY <2>1, BeforeSame
<1>3. StartOf(u, k) = StartOf(t, k)
  <2>1. Before(LineEnds(t), k) \in 0 .. k - 1
    <3>1. LineEnds(t) \in SUBSET (Nat \ {0}) /\ k \in Nat \ {0}
      BY <1>1, LineEndsAre
    <3> QED BY <3>1, BeforeIs
  <2> DEFINE from == Before(LineEnds(t), k) + 1
  <2>2. from < k => u[from] = t[from]
    BY <1>1, <2>1
  <2> QED BY <1>2, <2>2 DEF StartOf
<1>4. LineAt(u, k) = SubSeq(u, StartOf(t, k), k - 1)
  <2>1. k \in 1 .. Len(u) + 1
    BY <1>1
  <2> QED BY <1>1, <1>3, <2>1, LineIs
<1>5. LineAt(t, k) = SubSeq(t, StartOf(t, k), k - 1) /\ StartOf(t, k) \in 1 .. k
  BY LineIs
<1>6. SubSeq(u, StartOf(t, k), k - 1) = SubSeq(t, StartOf(t, k), k - 1)
  <2>1. StartOf(t, k) \in 1 .. n + 1 /\ k - 1 \in 0 .. n
    BY <1>1, <1>5
  <2> QED BY <2>1, CutOfLonger
<1> QED BY <1>4, <1>5, <1>6

(* A character ends a frame if it ends an empty line.                      *)
LEMMA FrameEndsAre ==
    ASSUME NEW t \in Seq(Characters), NEW c \in Characters
    PROVE  /\ FrameEnds(t) \subseteq LineEnds(t)
           /\ FrameEnds(Append(t, c))
                 = FrameEnds(t) \cup NextPlace(t, Ends(t, c) /\ LineAt(t, Len(t) + 1) = <<>>)
<1> DEFINE u == Append(t, c)
           n == Len(t)
<1>1. LineEnds(t) \subseteq 1 .. n /\ LineEnds(u) = LineEnds(t) \cup NextPlace(t, Ends(t, c)) /\ n \in Nat
  BY LineEndsAre
<1>2. \A k \in 1 .. n + 1 : LineAt(u, k) = LineAt(t, k)
  BY LineStays
<1> HIDE DEF u
<1>3. ASSUME NEW k
      PROVE  k \in FrameEnds(u) <=>
                k \in FrameEnds(t) \cup NextPlace(t, Ends(t, c) /\ LineAt(t, n + 1) = <<>>)
  <2>1. CASE k \in 1 .. n
    <3>1. k # n + 1 /\ k \in 1 .. n + 1
      BY <1>1, <2>1
    <3> QED BY <1>1, <1>2, <3>1 DEF FrameEnds, NextPlace
  <2>2. CASE k = n + 1
    <3>1. k \notin LineEnds(t) /\ k \in 1 .. n + 1
      BY <1>1, <2>2
    <3> QED BY <1>1, <1>2, <2>2, <3>1 DEF FrameEnds, NextPlace
  <2>3. CASE k \notin 1 .. n /\ k # n + 1
    BY <1>1, <2>3 DEF FrameEnds, NextPlace
  <2> QED BY <2>1, <2>2, <2>3
<1> QED BY <1>3 DEF FrameEnds, u

(* The line that is being read.                                            *)
LEMMA LineGrows ==
    ASSUME NEW t \in Seq(Characters), NEW c \in Characters
    PROVE  /\ c \in {"CR", "LF"} => LineAt(Append(t, c), Len(t) + 2) = <<>>
           /\ c \notin {"CR", "LF"} =>
                 LineAt(Append(t, c), Len(t) + 2) = Append(LineAt(t, Len(t) + 1), c)
           /\ c \in {"CR", "LF"} /\ ~Ends(t, c) => LineAt(t, Len(t) + 1) = <<>>
<1> DEFINE u == Append(t, c)
           n == Len(t)
<1>1. /\ u \in Seq(Characters) /\ n \in Nat /\ Len(u) = n + 1
      /\ (\A i \in 1 .. n : u[i] = t[i])
      /\ u[n + 1] = c
  BY Longer
<1>2. LineEnds(t) \subseteq 1 .. n /\ LineEnds(u) = LineEnds(t) \cup NextPlace(t, Ends(t, c))
  BY LineEndsAre
<1>3. LineAt(t, n + 1) = SubSeq(t, StartOf(t, n + 1), n) /\ StartOf(t, n + 1) \in 1 .. n + 1
  <2>1. n + 1 \in 1 .. n + 1 /\ (n + 1) - 1 = n
    BY <1>1
  <2> QED BY <2>1, LineIs
<1>4. LineAt(u, n + 2) = SubSeq(u, StartOf(u, n + 2), n + 1) /\ StartOf(u, n + 2) \in 1 .. n + 2
  <2>1. n + 2 \in 1 .. Len(u) + 1 /\ (n + 2) - 1 = n + 1
    BY <1>1
  <2> QED BY <1>1, <2>1, LineIs
<1>5. LineEnds(u) \in SUBSET (Nat \ {0}) /\ n + 1 \in Nat \ {0} /\ (n + 1) + 1 = n + 2
  BY <1>1, <1>2 DEF NextPlace
<1>6. /\ n + 1 \in LineEnds(u) => Before(LineEnds(u), n + 2) = n + 1
      /\ n + 1 \notin LineEnds(u) => Before(LineEnds(u), n + 2) = Before(LineEnds(u), n + 1)
  BY <1>5, BeforeNext
<1>7. n + 1 \in LineEnds(u) <=> Ends(t, c)
  BY <1>1, <1>2 DEF NextPlace
<1>8. Before(LineEnds(u), n + 1) = Before(LineEnds(t), n + 1)
  <2>1. \A i \in LineEnds(u) \cup LineEnds(t) : i < n + 1 => (i \in LineEnds(u) <=> i \in LineEnds(t))
    BY <1>1, <1>2 DEF NextPlace
  <2> QED BY <2>1, BeforeSame
<1>9. Before(LineEnds(t), n + 1) \in 0 .. n
  <2>1. LineEnds(t) \in SUBSET (Nat \ {0}) /\ (n + 1) - 1 = n
    BY <1>1, <1>2
  <2> QED BY <1>5, <2>1, BeforeIs
<1>10. ASSUME Ends(t, c) PROVE LineAt(u, n + 2) = <<>>
  <2>1. Before(LineEnds(u), n + 2) = n + 1
    BY <1>6, <1>7, <1>10
  <2>2. StartOf(u, n + 2) = n + 2
    BY <1>1, <2>1 DEF StartOf
  <2>3. SubSeq(u, n + 2, n + 1) = <<>>
    <3> HIDE DEF u
    <3> QED BY <1>1
  <2> QED BY <1>4, <2>2, <2>3
<1>11. ASSUME c \in {"CR", "LF"}, ~Ends(t, c)
       PROVE  LineAt(u, n + 2) = <<>> /\ LineAt(t, n + 1) = <<>>
  <2>1. c = "LF" /\ n > 0 /\ t[n] = "CR"
    BY <1>11 DEF Ends
  <2>2. n \in LineEnds(t)
    BY <2>1, Longer DEF LineEnds
  <2>3. Before(LineEnds(t), n + 1) = n
    <3>1. LineEnds(t) \in SUBSET (Nat \ {0}) /\ n \in Nat \ {0}
      BY <1>1, <1>2, <2>1
    <3> QED BY <2>2, <3>1, BeforeNext
  <2>4. StartOf(t, n + 1) = n + 1
    BY <1>1, <2>3 DEF StartOf
  <2>5. Before(LineEnds(u), n + 2) = n
    BY <1>6, <1>7, <1>8, <1>11, <2>3
  <2>6. StartOf(u, n + 2) = n + 2
    BY <1>1, <2>1, <2>5 DEF StartOf
  <2>7. SubSeq(u, n + 2, n + 1) = <<>>
    <3> HIDE DEF u
    <3> QED BY <1>1
  <2>8. SubSeq(t, n + 1, n) = <<>>
    BY <1>1
  <2> QED BY <1>3, <1>4, <2>4, <2>6, <2>7, <2>8
<1>12. ASSUME c \notin {"CR", "LF"} PROVE LineAt(u, n + 2) = Append(LineAt(t, n + 1), c)
  <2>1. Before(LineEnds(u), n + 2) = Before(LineEnds(t), n + 1)
    BY <1>6, <1>7, <1>8, <1>12 DEF Ends
  <2> DEFINE from == Before(LineEnds(t), n + 1) + 1
  <2>2. from \in 1 .. n + 1
    BY <1>1, <1>9
  <2>3. StartOf(u, n + 2) = StartOf(t, n + 1)
    <3>1. StartOf(u, n + 2) = IF from < n + 2 /\ u[from] = "LF" THEN from + 1 ELSE from
      BY <2>1 DEF StartOf
    <3>2. StartOf(t, n + 1) = IF from < n + 1 /\ t[from] = "LF" THEN from + 1 ELSE from
      BY DEF StartOf
    <3> HIDE DEF from, u
    <3>3. from < n + 2
      BY <1>1, <2>2
    <3>4. from < n + 1 => u[from] = t[from]
      BY <1>1, <2>2
    <3>5. ~(from < n + 1) => u[from] # "LF"
      <4>1. ~(from < n + 1) => from = n + 1
        BY <1>1, <2>2
      <4> QED BY <1>1, <1>12, <4>1
    <3> QED BY <3>1, <3>2, <3>3, <3>4, <3>5
  <2> DEFINE s == StartOf(t, n + 1)
  <2>4. s \in 1 .. n + 1 /\ LineAt(u, n + 2) = SubSeq(u, s, n + 1) /\ LineAt(t, n + 1) = SubSeq(t, s, n)
    BY <1>3, <1>4, <2>3
  <2> HIDE DEF s
  <2>5. SubSeq(u, s, n + 1) = Append(SubSeq(t, s, n), c)
    BY <2>4, CutLonger
  <2> QED BY <2>4, <2>5
<1> QED BY <1>10, <1>11, <1>12

\* a character that ends a frame after t
EndsFrame(t, c) == Ends(t, c) /\ LineAt(t, Len(t) + 1) = <<>>

(* What follows ends no earlier frame.                                     *)
LEMMA FrameEndsBefore ==
    ASSUME NEW t \in Seq(Characters), NEW c \in Characters, NEW b \in 1 .. Len(t) + 1
    PROVE  Before(FrameEnds(Append(t, c)), b) = Before(FrameEnds(t), b)
<1>1. \A i \in FrameEnds(Append(t, c)) \cup FrameEnds(t) :
         i < b => (i \in FrameEnds(Append(t, c)) <=> i \in FrameEnds(t))
  BY Longer, FrameEndsAre DEF NextPlace, EndsFrame
<1> QED BY <1>1, BeforeSame

(* The last frame's end before the next character.                         *)
LEMMA FrameEndsNext ==
    ASSUME NEW t \in Seq(Characters), NEW c \in Characters
    PROVE  Before(FrameEnds(Append(t, c)), Len(t) + 2)
              = IF EndsFrame(t, c) THEN Len(t) + 1 ELSE Before(FrameEnds(t), Len(t) + 1)
<1> DEFINE u == Append(t, c)
           n == Len(t)
           F == FrameEnds(u)
<1>1. FrameEnds(t) \subseteq 1 .. n /\ F = FrameEnds(t) \cup NextPlace(t, EndsFrame(t, c)) /\ n \in Nat
  BY LineEndsAre, FrameEndsAre, Longer DEF EndsFrame
<1>2. F \in SUBSET (Nat \ {0}) /\ n + 1 \in Nat \ {0} /\ (n + 1) + 1 = n + 2
  BY <1>1 DEF NextPlace
<1>3. n + 1 \in F <=> EndsFrame(t, c)
  BY <1>1 DEF NextPlace
<1>4. n + 1 \in 1 .. n + 1
  BY <1>1
<1>5. Before(F, n + 1) = Before(FrameEnds(t), n + 1)
  BY <1>4, FrameEndsBefore
<1> HIDE DEF F, n
<1>6. (n + 1 \in F => Before(F, (n + 1) + 1) = n + 1)
      /\ (n + 1 \notin F => Before(F, (n + 1) + 1) = Before(F, n + 1))
  BY <1>2, BeforeNext
<1>7. Before(F, n + 2) = IF EndsFrame(t, c) THEN n + 1 ELSE Before(FrameEnds(t), n + 1)
  BY <1>2, <1>3, <1>5, <1>6
<1> QED BY <1>7 DEF F, n

(* The lines of a frame that has been read, and of its fields, are not     *)
(* changed by what follows.                                                *)
LEMMA LinesStay ==
    ASSUME NEW t \in Seq(Characters), NEW c \in Characters, NEW b \in 1 .. Len(t) + 1
    PROVE  /\ LinesIn(Append(t, c), b) = LinesIn(t, b)
           /\ LinesIn(t, b) \subseteq 1 .. Len(t)
           /\ \A h : FieldLines(Append(t, c), b, h) = FieldLines(t, b, h)
<1> DEFINE u == Append(t, c)
           n == Len(t)
<1>1. LineEnds(t) \subseteq 1 .. n /\ LineEnds(u) = LineEnds(t) \cup NextPlace(t, Ends(t, c)) /\ n \in Nat
  BY LineEndsAre, Longer
<1>2. Before(FrameEnds(u), b) = Before(FrameEnds(t), b)
  BY FrameEndsBefore
<1>3. LinesIn(u, b) = LinesIn(t, b)
  BY <1>1, <1>2 DEF LinesIn, NextPlace
<1>4. LinesIn(t, b) \subseteq 1 .. n
  BY <1>1 DEF LinesIn
<1>5. \A k \in LinesIn(t, b) : LineAt(u, k) = LineAt(t, k)
  <2> TAKE k \in LinesIn(t, b)
  <2>1. k \in 1 .. Len(t) + 1
    BY <1>1, <1>4
  <2> QED BY <2>1, LineStays
<1>6. ASSUME NEW h PROVE FieldLines(u, b, h) = FieldLines(t, b, h)
  BY <1>3, <1>5 DEF FieldLines
<1> QED BY <1>3, <1>4, <1>6

(* The lines of the frame that is being read: none after the end of a      *)
(* frame, and else one more at the end of a line.                          *)
LEMMA LinesNext ==
    ASSUME NEW t \in Seq(Characters), NEW c \in Characters
    PROVE  /\ EndsFrame(t, c) => LinesIn(Append(t, c), Len(t) + 2) = {}
           /\ ~EndsFrame(t, c) => LinesIn(Append(t, c), Len(t) + 2)
                                     = LinesIn(t, Len(t) + 1) \cup NextPlace(t, Ends(t, c))
           /\ EndsFrame(t, c) => \A h : FieldLines(Append(t, c), Len(t) + 2, h) = {}
           /\ ~EndsFrame(t, c) => \A h : FieldLines(Append(t, c), Len(t) + 2, h)
                = FieldLines(t, Len(t) + 1, h)
                     \cup NextPlace(t, Ends(t, c) /\ LineAt(t, Len(t) + 1)[1] = h)
<1> DEFINE u == Append(t, c)
           n == Len(t)
           f == Before(FrameEnds(t), n + 1)
<1>1. LineEnds(t) \subseteq 1 .. n /\ LineEnds(u) = LineEnds(t) \cup NextPlace(t, Ends(t, c)) /\ n \in Nat
  BY LineEndsAre, Longer
<1>2. Before(FrameEnds(u), n + 2) = IF EndsFrame(t, c) THEN n + 1 ELSE f
  BY FrameEndsNext
<1>3. f \in 0 .. n
  <2>1. FrameEnds(t) \in SUBSET (Nat \ {0}) /\ n + 1 \in Nat \ {0} /\ (n + 1) - 1 = n
    BY <1>1, FrameEndsAre
  <2> QED BY <2>1, BeforeIs
<1>4. EndsFrame(t, c) => LinesIn(u, n + 2) = {}
  <2>1. EndsFrame(t, c) => Before(FrameEnds(u), n + 2) = n + 1
    BY <1>2
  <2>2. LineEnds(u) \subseteq Nat
    BY <1>1 DEF NextPlace
  <2> QED BY <1>1, <2>1, <2>2 DEF LinesIn
<1>5. ~EndsFrame(t, c) => LinesIn(u, n + 2) = LinesIn(t, n + 1) \cup NextPlace(t, Ends(t, c))
  <2> SUFFICES ASSUME ~EndsFrame(t, c)
               PROVE  LinesIn(u, n + 2) = LinesIn(t, n + 1) \cup NextPlace(t, Ends(t, c))
    OBVIOUS
  <2>1. LinesIn(u, n + 2) = {k \in LineEnds(u) : f < k /\ k < n + 2}
    BY <1>2 DEF LinesIn
  <2>2. LinesIn(t, n + 1) = {k \in LineEnds(t) : f < k /\ k < n + 1}
    BY DEF LinesIn
  <2> HIDE DEF f
  <2>3. \A k \in LineEnds(t) : k < n + 2 /\ k < n + 1
    BY <1>1
  <2>4. f < n + 1 /\ n + 1 < n + 2
    BY <1>1, <1>3
  <2> QED BY <1>1, <2>1, <2>2, <2>3, <2>4 DEF NextPlace
<1>6. EndsFrame(t, c) => \A h : FieldLines(u, n + 2, h) = {}
  BY <1>4 DEF FieldLines
<1>7. ASSUME ~EndsFrame(t, c), NEW h
      PROVE  FieldLines(u, n + 2, h)
                = FieldLines(t, n + 1, h) \cup NextPlace(t, Ends(t, c) /\ LineAt(t, n + 1)[1] = h)
  <2>1. \A k \in LinesIn(t, n + 1) : LineAt(u, k) = LineAt(t, k)
    <3> TAKE k \in LinesIn(t, n + 1)
    <3>1. k \in 1 .. Len(t) + 1
      BY <1>1 DEF LinesIn
    <3> QED BY <3>1, LineStays
  <2>2. LineAt(u, n + 1) = LineAt(t, n + 1)
    <3>1. n + 1 \in 1 .. Len(t) + 1
      BY <1>1
    <3> QED BY <3>1, LineStays
  <2> HIDE DEF u
  <2> QED BY <1>5, <1>7, <2>1, <2>2 DEF FieldLines, NextPlace, u
<1> QED BY <1>4, <1>5, <1>6, <1>7

(* A frame that has a line is one more at its end.                         *)
LEMMA FullFramesAre ==
    ASSUME NEW t \in Seq(Characters), NEW c \in Characters
    PROVE  /\ FullFrames(t) \subseteq 1 .. Len(t)
           /\ FullFrames(Append(t, c)) = FullFrames(t)
                 \cup NextPlace(t, EndsFrame(t, c) /\ LinesIn(t, Len(t) + 1) # {})
<1> DEFINE u == Append(t, c)
           n == Len(t)
<1>1. FrameEnds(t) \subseteq 1 .. n /\ FrameEnds(u) = FrameEnds(t) \cup NextPlace(t, EndsFrame(t, c))
      /\ n \in Nat
  BY LineEndsAre, FrameEndsAre, Longer DEF EndsFrame
<1>2. \A b \in 1 .. n + 1 : LinesIn(u, b) = LinesIn(t, b)
  BY LinesStay
<1> HIDE DEF u
<1>3. \A b \in FrameEnds(t) : b \in 1 .. n + 1
  BY <1>1
<1>4. n + 1 \in 1 .. n + 1
  BY <1>1
<1>5. FullFrames(u) = FullFrames(t) \cup NextPlace(t, EndsFrame(t, c) /\ LinesIn(t, n + 1) # {})
  BY <1>1, <1>2, <1>3, <1>4 DEF FullFrames, NextPlace
<1>6. FullFrames(t) \subseteq 1 .. n
  BY <1>1 DEF FullFrames
<1> QED BY <1>5, <1>6 DEF u

\* the two sides of the next lemma
IsListOf(order, m, S) == order \in [1 .. m -> S] /\ Lists(order, S)
GoesOn(order, m, S, x) ==
    \E o \in [1 .. m + 1 -> S \cup {x}] :
        Lists(o, S \cup {x}) /\ o[m + 1] = x /\ \A i \in 1 .. m : o[i] = order[i]

(* A listing goes on with a number behind all that it lists.               *)
LEMMA ListGoesOn ==
    ASSUME NEW S \in SUBSET Nat, NEW m \in Nat, NEW order, IsListOf(order, m, S),
           NEW x \in Nat, \A k \in S : k < x
    PROVE  GoesOn(order, m, S, x)
<1>0. order \in [1 .. m -> S] /\ Lists(order, S)
  BY DEF IsListOf
<1> DEFINE o == [i \in 1 .. m + 1 |-> IF i = m + 1 THEN x ELSE order[i]]
<1>1. o \in [1 .. m + 1 -> S \cup {x}]
  BY <1>0
<1>2. o[m + 1] = x /\ (\A i \in 1 .. m : o[i] = order[i]) /\ DOMAIN o = 1 .. m + 1
  OBVIOUS
<1>3. DOMAIN order = 1 .. m /\ Lists(order, S) /\ \A i \in 1 .. m : order[i] \in S
  BY <1>0
<1> HIDE DEF o
<1>4. ASSUME NEW i \in 1 .. m + 1, NEW j \in 1 .. m + 1, i < j PROVE o[i] < o[j]
  <2>1. i \in 1 .. m
    BY <1>4
  <2>2. CASE j = m + 1
    BY <1>2, <1>3, <2>1, <2>2
  <2>3. CASE j # m + 1
    <3>1. j \in 1 .. m
      BY <2>3
    <3> QED BY <1>2, <1>3, <1>4, <2>1, <3>1 DEF Lists
  <2> QED BY <2>2, <2>3
<1>5. ASSUME NEW k \in S \cup {x} PROVE \E i \in 1 .. m + 1 : o[i] = k
  <2>1. CASE k = x
    <3>1. m + 1 \in 1 .. m + 1
      OBVIOUS
    <3> QED BY <1>2, <2>1, <3>1
  <2>2. CASE k \in S
    <3>1. PICK i \in 1 .. m : order[i] = k
      BY <1>3, <2>2 DEF Lists
    <3>2. i \in 1 .. m + 1 /\ o[i] = k
      BY <1>2, <3>1
    <3> QED BY <3>2
  <2> QED BY <2>1, <2>2
<1>6. Lists(o, S \cup {x})
  BY <1>2, <1>4, <1>5 DEF Lists
<1> QED BY <1>1, <1>2, <1>6 DEF GoesOn

(* No lines have no values.                                                *)
LEMMA NoValues == ASSUME NEW t PROVE AreValues(<<>>, t, {})
<1>1. DOMAIN <<>> = {} /\ <<>> \in [{} -> {}]
  OBVIOUS
<1>2. Lists(<<>>, {})
  BY <1>1 DEF Lists
<1> QED BY <1>1, <1>2 DEF AreValues

(* The values of lines stay what they are.                                 *)
LEMMA ValuesStay ==
    ASSUME NEW t \in Seq(Characters), NEW c \in Characters, NEW S \in SUBSET (1 .. Len(t)),
           NEW q, AreValues(q, t, S)
    PROVE  AreValues(q, Append(t, c), S)
<1>1. PICK order \in [DOMAIN q -> S] :
         Lists(order, S) /\ \A i \in DOMAIN q : q[i] = Tail(LineAt(t, order[i]))
  BY DEF AreValues
<1>2. \A i \in DOMAIN q : LineAt(Append(t, c), order[i]) = LineAt(t, order[i])
  <2> TAKE i \in DOMAIN q
  <2>1. order[i] \in S
    BY <1>1
  <2> DEFINE n == Len(t)
  <2>2. n \in Nat /\ order[i] \in 1 .. n
    BY <2>1, Longer
  <2> HIDE DEF n
  <2>4. order[i] \in 1 .. n + 1
    BY <2>2
  <2>3. order[i] \in 1 .. Len(t) + 1
    BY <2>4 DEF n
  <2> QED BY <2>3, LineStays
<1>3. \A i \in DOMAIN q : q[i] = Tail(LineAt(Append(t, c), order[i]))
  BY <1>1, <1>2
<1> QED BY <1>1, <1>3 DEF AreValues

(* The value of one more line is one more value.                           *)
LEMMA ValuesGoOn ==
    ASSUME NEW t \in Seq(Characters), NEW c \in Characters, NEW S \in SUBSET (1 .. Len(t)),
           NEW E, NEW q \in Seq(E), AreValues(q, t, S), NEW v \in E,
           v = Tail(LineAt(t, Len(t) + 1))
    PROVE  AreValues(Append(q, v), Append(t, c), S \cup {Len(t) + 1})
<1> DEFINE u == Append(t, c)
           n == Len(t)
           m == Len(q)
           p == Append(q, v)
<1>1. PICK order \in [DOMAIN q -> S] :
         Lists(order, S) /\ \A i \in DOMAIN q : q[i] = Tail(LineAt(t, order[i]))
  BY DEF AreValues
<1>2. m \in Nat /\ DOMAIN q = 1 .. m /\ DOMAIN p = 1 .. m + 1 /\ (\A i \in 1 .. m : p[i] = q[i])
      /\ p[m + 1] = v
  OBVIOUS
<1>3. n \in Nat /\ S \subseteq 1 .. n
  BY Longer
<1>4. \A k \in 1 .. n + 1 : LineAt(u, k) = LineAt(t, k)
  BY LineStays
<1> HIDE DEF p, m, n, u
<1>10. S \in SUBSET Nat /\ n + 1 \in Nat
  BY <1>3
<1>11. \A k \in S : k < n + 1
  BY <1>3
<1>12. order \in [1 .. m -> S]
  BY <1>1, <1>2
<1>13. m \in Nat /\ Lists(order, S)
  BY <1>1, <1>2
<1>5. PICK o \in [1 .. m + 1 -> S \cup {n + 1}] :
         Lists(o, S \cup {n + 1}) /\ o[m + 1] = n + 1 /\ \A i \in 1 .. m : o[i] = order[i]
  <2> DEFINE x == n + 1
  <2>1. x \in Nat /\ S \in SUBSET Nat
    BY <1>10
  <2>2. \A k \in S : k < x
    BY <1>11
  <2> HIDE DEF x
  <2>3. IsListOf(order, m, S)
    BY <1>12, <1>13 DEF IsListOf
  <2>7. GoesOn(order, m, S, x)
    BY <2>1, <2>2, <1>13, <2>3, ListGoesOn
  <2> QED BY <2>7 DEF GoesOn, x
<1>6. ASSUME NEW i \in 1 .. m + 1 PROVE p[i] = Tail(LineAt(u, o[i]))
  <2>1. CASE i = m + 1
    <3>1. LineAt(u, n + 1) = LineAt(t, n + 1)
      BY <1>3, <1>4
    <3> QED BY <1>2, <1>5, <2>1, <3>1 DEF n
  <2>2. CASE i # m + 1
    <3>1. i \in 1 .. m
      BY <1>2, <2>2
    <3>2. o[i] = order[i] /\ order[i] \in S /\ p[i] = q[i]
      BY <1>2, <1>5, <3>1
    <3>3. order[i] \in 1 .. n
      BY <1>3, <3>2
    <3>4. order[i] \in 1 .. n + 1
      BY <1>3, <3>3
    <3> QED BY <1>1, <1>2, <1>4, <3>1, <3>2, <3>4
  <2> QED BY <2>1, <2>2
<1>7. AreValues(p, u, S \cup {n + 1})
  BY <1>2, <1>5, <1>6 DEF AreValues
<1> QED BY <1>7 DEF p, u, n

(* A frame stays what it is.                                               *)
LEMMA FrameStays ==
    ASSUME NEW t \in Seq(Characters), NEW c \in Characters, NEW b \in 1 .. Len(t) + 1,
           NEW f, IsFrameAt(f, t, b)
    PROVE  IsFrameAt(f, Append(t, c), b)
<1>1. \A h : FieldLines(Append(t, c), b, h) = FieldLines(t, b, h) /\ FieldLines(t, b, h) \subseteq 1 .. Len(t)
  <2>1. \A h : FieldLines(Append(t, c), b, h) = FieldLines(t, b, h)
    BY LinesStay
  <2>2. LinesIn(t, b) \subseteq 1 .. Len(t)
    BY LinesStay
  <2>3. \A h : FieldLines(t, b, h) \subseteq 1 .. Len(t)
    BY <2>2 DEF FieldLines
  <2> QED BY <2>1, <2>3
<1>2. AreValues(f.event, t, FieldLines(t, b, "event:")) /\ AreValues(f.data, t, FieldLines(t, b, "data:"))
      /\ (f.heartbeat <=> f.event = <<>> /\ f.data = <<>>)
  BY DEF IsFrameAt
<1>3. AreValues(f.event, Append(t, c), FieldLines(t, b, "event:"))
  BY <1>1, <1>2, ValuesStay
<1>4. AreValues(f.data, Append(t, c), FieldLines(t, b, "data:"))
  BY <1>1, <1>2, ValuesStay
<1> QED BY <1>1, <1>2, <1>3, <1>4 DEF IsFrameAt

(* A character that ends no frame with a line adds no frame.               *)
LEMMA FramesStay ==
    ASSUME NEW t \in Seq(Characters), NEW c \in Characters, NEW q, AreFrames(q, t),
           ~(EndsFrame(t, c) /\ LinesIn(t, Len(t) + 1) # {})
    PROVE  AreFrames(q, Append(t, c))
<1>1. PICK order \in [DOMAIN q -> FullFrames(t)] :
         Lists(order, FullFrames(t)) /\ \A i \in DOMAIN q : IsFrameAt(q[i], t, order[i])
  BY DEF AreFrames
<1>2. FullFrames(t) \subseteq 1 .. Len(t) /\ FullFrames(Append(t, c)) = FullFrames(t)
  BY FullFramesAre DEF NextPlace
<1>3. \A i \in DOMAIN q : IsFrameAt(q[i], Append(t, c), order[i])
  <2> TAKE i \in DOMAIN q
  <2>1. order[i] \in 1 .. Len(t) + 1
    BY <1>2, Longer
  <2> QED BY <1>1, <2>1, FrameStays
<1> QED BY <1>1, <1>2, <1>3 DEF AreFrames

(* One that does adds the frame that it ends.                              *)
LEMMA FramesGoOn ==
    ASSUME NEW t \in Seq(Characters), NEW c \in Characters, NEW E, NEW q \in Seq(E), AreFrames(q, t),
           EndsFrame(t, c), LinesIn(t, Len(t) + 1) # {}, NEW f \in E, IsFrameAt(f, t, Len(t) + 1)
    PROVE  AreFrames(Append(q, f), Append(t, c))
<1> DEFINE u == Append(t, c)
           n == Len(t)
           m == Len(q)
           p == Append(q, f)
           S == FullFrames(t)
<1>1. PICK order \in [DOMAIN q -> S] :
         Lists(order, S) /\ \A i \in DOMAIN q : IsFrameAt(q[i], t, order[i])
  BY DEF AreFrames
<1>2. m \in Nat /\ DOMAIN q = 1 .. m /\ DOMAIN p = 1 .. m + 1 /\ (\A i \in 1 .. m : p[i] = q[i])
      /\ p[m + 1] = f
  OBVIOUS
<1>3. n \in Nat /\ S \subseteq 1 .. n /\ FullFrames(u) = S \cup {n + 1}
  BY Longer, FullFramesAre DEF NextPlace
<1>4. \A k \in 1 .. n + 1 : \A g : IsFrameAt(g, t, k) => IsFrameAt(g, u, k)
  BY FrameStays
<1>5. IsFrameAt(f, t, n + 1)
  OBVIOUS
<1> HIDE DEF p, m, n, u, S
<1>6. S \in SUBSET Nat /\ \A k \in S : k < n + 1 /\ k \in 1 .. n + 1
  BY <1>3
<1>7. PICK o \in [1 .. m + 1 -> S \cup {n + 1}] :
         Lists(o, S \cup {n + 1}) /\ o[m + 1] = n + 1 /\ \A i \in 1 .. m : o[i] = order[i]
  <2> DEFINE x == n + 1
  <2>1. x \in Nat
    BY <1>3
  <2>2. order \in [1 .. m -> S]
    BY <1>1, <1>2
  <2>3. m \in Nat /\ Lists(order, S)
    BY <1>1, <1>2
  <2>4. S \in SUBSET Nat
    BY <1>6
  <2>5. \A k \in S : k < x
    BY <1>6
  <2> HIDE DEF x
  <2>6. IsListOf(order, m, S)
    BY <2>2, <2>3 DEF IsListOf
  <2>7. GoesOn(order, m, S, x)
    BY <2>1, <2>3, <2>4, <2>5, <2>6, ListGoesOn
  <2> QED BY <2>7 DEF GoesOn, x
<1>8. ASSUME NEW i \in 1 .. m + 1 PROVE IsFrameAt(p[i], u, o[i])
  <2>1. CASE i = m + 1
    <3>1. n + 1 \in 1 .. n + 1
      BY <1>3
    <3> QED BY <1>2, <1>4, <1>5, <1>7, <2>1, <3>1
  <2>2. CASE i # m + 1
    <3>1. i \in 1 .. m
      BY <1>2, <2>2
    <3>2. o[i] = order[i] /\ order[i] \in S /\ p[i] = q[i]
      BY <1>2, <1>7, <3>1
    <3> QED BY <1>1, <1>2, <1>4, <1>6, <3>1, <3>2
  <2> QED BY <2>1, <2>2
<1>9. AreFrames(p, u)
  BY <1>2, <1>3, <1>7, <1>8 DEF AreFrames
<1> QED BY <1>9 DEF p, u

-----------------------------------------------------------------------------
(* What a frame is charged.                                                *)

Counted(t, f, k) == {i \in f + 1 .. k : i \in LineEnds(t) \/ t[i] # "LF"}
ReturnsIn(t, f, k) == {i \in Counted(t, f, k) : t[i] = "CR"}
ChargeOf(t, f, k) == Cardinality(Counted(t, f, k)) + Cardinality(ReturnsIn(t, f, k))

(* The charge of a part of the text is a number.                           *)
LEMMA CountedIsFinite ==
    ASSUME NEW t \in Seq(Characters), NEW f \in Nat, NEW k \in Nat
    PROVE  /\ IsFiniteSet(Counted(t, f, k)) /\ IsFiniteSet(ReturnsIn(t, f, k))
           /\ ChargeOf(t, f, k) \in Nat
<1>1. IsFiniteSet(f + 1 .. k)
  BY FS_Interval
<1>2. Counted(t, f, k) \subseteq f + 1 .. k /\ ReturnsIn(t, f, k) \subseteq f + 1 .. k
  BY DEF Counted, ReturnsIn
<1>3. IsFiniteSet(Counted(t, f, k)) /\ IsFiniteSet(ReturnsIn(t, f, k))
  BY <1>1, <1>2, FS_Subset
<1>4. Cardinality(Counted(t, f, k)) \in Nat /\ Cardinality(ReturnsIn(t, f, k)) \in Nat
  BY <1>3, FS_CardinalityType
<1> QED BY <1>3, <1>4 DEF ChargeOf

(* It does not depend on what follows.                                     *)
LEMMA ChargeStays ==
    ASSUME NEW t \in Seq(Characters), NEW c \in Characters, NEW f \in Nat, NEW k \in 0 .. Len(t)
    PROVE  /\ Counted(Append(t, c), f, k) = Counted(t, f, k)
           /\ ReturnsIn(Append(t, c), f, k) = ReturnsIn(t, f, k)
           /\ ChargeOf(Append(t, c), f, k) = ChargeOf(t, f, k)
<1> DEFINE u == Append(t, c)
           n == Len(t)
<1>1. n \in Nat /\ k \in 0 .. n /\ (\A i \in 1 .. n : u[i] = t[i])
      /\ LineEnds(u) = LineEnds(t) \cup NextPlace(t, Ends(t, c))
  BY Longer, LineEndsAre
<1>2. \A i \in f + 1 .. k : i \in 1 .. n /\ i # n + 1
  BY <1>1
<1>3. \A i \in f + 1 .. k : u[i] = t[i] /\ (i \in LineEnds(u) <=> i \in LineEnds(t))
  BY <1>1, <1>2 DEF NextPlace
<1> HIDE DEF u
<1>4. Counted(u, f, k) = Counted(t, f, k)
  BY <1>3 DEF Counted
<1>5. ReturnsIn(u, f, k) = ReturnsIn(t, f, k)
  BY <1>3, <1>4 DEF ReturnsIn, Counted
<1> QED BY <1>4, <1>5 DEF ChargeOf, u

(* The LF of a CR LF costs nothing, as the CR was charged for both; any    *)
(* other character is charged when it is read.                             *)
LEMMA ChargeGrows ==
    ASSUME NEW t \in Seq(Characters), NEW c \in Characters, NEW f \in 0 .. Len(t)
    PROVE  /\ c = "LF" /\ ~Ends(t, c) =>
                 ChargeOf(Append(t, c), f, Len(t) + 1) = ChargeOf(t, f, Len(t))
           /\ ~(c = "LF" /\ ~Ends(t, c)) =>
                 ChargeOf(Append(t, c), f, Len(t) + 1) = ChargeOf(t, f, Len(t)) + Charge(c)
<1> DEFINE u == Append(t, c)
           n == Len(t)
           A == Counted(u, f, n)
           B == ReturnsIn(u, f, n)
           A1 == Counted(u, f, n + 1)
           B1 == ReturnsIn(u, f, n + 1)
<1>1. n \in Nat /\ f \in 0 .. n /\ f \in Nat /\ u \in Seq(Characters) /\ u[n + 1] = c
      /\ LineEnds(t) \subseteq 1 .. n /\ LineEnds(u) = LineEnds(t) \cup NextPlace(t, Ends(t, c))
  BY Longer, LineEndsAre
<1>2. A = Counted(t, f, n) /\ B = ReturnsIn(t, f, n)
  <2>1. f \in Nat /\ n \in 0 .. n
    BY <1>1
  <2> QED BY <2>1, ChargeStays
<1>3. IsFiniteSet(A) /\ IsFiniteSet(B)
  BY <1>1, CountedIsFinite
<1>4. Cardinality(A) \in Nat /\ Cardinality(B) \in Nat
  BY <1>3, FS_CardinalityType
<1>5. n + 1 \notin A /\ n + 1 \notin B
  BY <1>1 DEF Counted, ReturnsIn
<1>6. \A i : i \in f + 1 .. n + 1 <=> (i \in f + 1 .. n \/ i = n + 1)
  BY <1>1
<1>7. n + 1 \in LineEnds(u) <=> Ends(t, c)
  BY <1>1 DEF NextPlace
<1> HIDE DEF u, n
<1>8. ASSUME c = "LF", ~Ends(t, c) PROVE A1 = A /\ B1 = B
  <2>1. A1 = A
    BY <1>1, <1>6, <1>7, <1>8 DEF Counted
  <2>2. B1 = B
    BY <2>1 DEF ReturnsIn
  <2> QED BY <2>1, <2>2
<1>9. ASSUME ~(c = "LF" /\ ~Ends(t, c))
      PROVE  A1 = A \cup {n + 1} /\ B1 = IF c = "CR" THEN B \cup {n + 1} ELSE B
  <2>1. A1 = A \cup {n + 1}
    BY <1>1, <1>6, <1>7, <1>9 DEF Counted
  <2>2. B1 = IF c = "CR" THEN B \cup {n + 1} ELSE B
    BY <1>1, <2>1 DEF ReturnsIn
  <2> QED BY <2>1, <2>2
<1> HIDE DEF A, A1, B, B1
<1>10. ChargeOf(u, f, n + 1) = Cardinality(A1) + Cardinality(B1)
  BY DEF ChargeOf, A1, B1
<1>11. ChargeOf(t, f, n) = Cardinality(A) + Cardinality(B)
  BY <1>2 DEF ChargeOf
<1>12. Cardinality(A \cup {n + 1}) = Cardinality(A) + 1 /\ Cardinality(B \cup {n + 1}) = Cardinality(B) + 1
  BY <1>3, <1>5, FS_AddElement
<1>13. ASSUME c = "LF", ~Ends(t, c) PROVE ChargeOf(u, f, n + 1) = ChargeOf(t, f, n)
  BY <1>8, <1>10, <1>11, <1>13
<1>14. ASSUME ~(c = "LF" /\ ~Ends(t, c)) PROVE ChargeOf(u, f, n + 1) = ChargeOf(t, f, n) + Charge(c)
  <2>1. CASE c = "CR"
    <3>1. A1 = A \cup {n + 1} /\ B1 = B \cup {n + 1} /\ Charge(c) = 2
      BY <1>9, <1>14, <2>1 DEF Charge
    <3>2. Cardinality(A1) = Cardinality(A) + 1 /\ Cardinality(B1) = Cardinality(B) + 1
      BY <1>12, <3>1
    <3> QED BY <1>4, <1>10, <1>11, <3>1, <3>2
  <2>2. CASE c # "CR"
    <3>1. A1 = A \cup {n + 1} /\ B1 = B /\ Charge(c) = 1
      BY <1>9, <1>14, <2>2 DEF Charge
    <3>2. Cardinality(A1) = Cardinality(A) + 1 /\ Cardinality(B1) = Cardinality(B)
      BY <1>12, <3>1
    <3> QED BY <1>4, <1>10, <1>11, <3>1, <3>2
  <2> QED BY <2>1, <2>2
<1> QED BY <1>13, <1>14 DEF u, n

(* Nothing costs nothing.                                                  *)
LEMMA ChargeNone == ASSUME NEW t, NEW k \in Nat PROVE ChargeOf(t, k, k) = 0
<1>1. k + 1 .. k = {}
  OBVIOUS
<1>2. Counted(t, k, k) = {} /\ ReturnsIn(t, k, k) = {}
  BY <1>1 DEF Counted, ReturnsIn
<1> QED BY <1>2, FS_EmptySet DEF ChargeOf

\* what the frame that is being read has been charged
Charged(t) == ChargeOf(t, Before(FrameEnds(t), Len(t) + 1), Len(t))

(* The bytes up to a place do not depend on what follows.                  *)
LEMMA BytesStay ==
    ASSUME NEW t \in Seq(Characters), NEW c \in Characters, NEW k \in 1 .. Len(t)
    PROVE  BytesUpTo(Append(t, c), k) = BytesUpTo(t, k)
<1> DEFINE f == Before(FrameEnds(t), k)
           u == Append(t, c)
<1>1. Len(t) \in Nat /\ FrameEnds(t) \subseteq 1 .. Len(t)
  BY Longer, LineEndsAre, FrameEndsAre
<1>2. f \in Nat
  <2>1. FrameEnds(t) \in SUBSET (Nat \ {0}) /\ k \in Nat \ {0}
    BY <1>1
  <2>2. f \in 0 .. k - 1
    BY <2>1, BeforeIs
  <2> QED BY <2>2
<1>3. k \in 1 .. Len(t) + 1 /\ k \in 0 .. Len(t)
  BY <1>1
<1>4. Before(FrameEnds(u), k) = f
  BY <1>3, FrameEndsBefore
<1> HIDE DEF f, u
<1>5. BytesUpTo(u, k) = ChargeOf(u, f, k)
  BY <1>4 DEF BytesUpTo, ChargeOf, Counted, ReturnsIn
<1>6. BytesUpTo(t, k) = ChargeOf(t, f, k)
  BY DEF BytesUpTo, ChargeOf, Counted, ReturnsIn, f
<1>7. ChargeOf(u, f, k) = ChargeOf(t, f, k)
  BY <1>2, <1>3, ChargeStays DEF u
<1> QED BY <1>5, <1>6, <1>7 DEF u

(* Those up to the next place are what the frame has been charged and the  *)
(* charge of the character; the end of a frame begins again at nothing.    *)
LEMMA BytesNext ==
    ASSUME NEW t \in Seq(Characters), NEW c \in Characters
    PROVE  /\ Charged(t) \in Nat
           /\ c = "LF" /\ ~Ends(t, c) => BytesUpTo(Append(t, c), Len(t) + 1) = Charged(t)
           /\ ~(c = "LF" /\ ~Ends(t, c)) =>
                 BytesUpTo(Append(t, c), Len(t) + 1) = Charged(t) + Charge(c)
           /\ EndsFrame(t, c) => Charged(Append(t, c)) = 0
           /\ ~EndsFrame(t, c) => Charged(Append(t, c)) = BytesUpTo(Append(t, c), Len(t) + 1)
<1> DEFINE n == Len(t)
           f == Before(FrameEnds(t), n + 1)
           u == Append(t, c)
<1>1. n \in Nat /\ FrameEnds(t) \subseteq 1 .. n /\ Len(u) = n + 1
  BY Longer, LineEndsAre, FrameEndsAre
<1>2. f \in 0 .. n
  <2>1. FrameEnds(t) \in SUBSET (Nat \ {0}) /\ n + 1 \in Nat \ {0} /\ (n + 1) - 1 = n
    BY <1>1
  <2> QED BY <2>1, BeforeIs
<1>3. Before(FrameEnds(u), n + 1) = f
  <2>1. n + 1 \in 1 .. Len(t) + 1
    BY <1>1
  <2> QED BY <2>1, FrameEndsBefore
<1>4. Before(FrameEnds(u), n + 2) = IF EndsFrame(t, c) THEN n + 1 ELSE f
  BY FrameEndsNext
<1>5. /\ c = "LF" /\ ~Ends(t, c) => ChargeOf(u, f, n + 1) = ChargeOf(t, f, n)
      /\ ~(c = "LF" /\ ~Ends(t, c)) => ChargeOf(u, f, n + 1) = ChargeOf(t, f, n) + Charge(c)
  BY <1>2, ChargeGrows
<1>6. Charged(t) = ChargeOf(t, f, n)
  BY DEF Charged
<1>7. Charged(t) \in Nat
  <2>1. f \in Nat /\ n \in Nat
    BY <1>1, <1>2
  <2> HIDE DEF f, n
  <2> QED BY <1>6, <2>1, CountedIsFinite
<1>8. (n + 1) + 1 = n + 2 /\ n + 1 \in Nat
  BY <1>1
<1> HIDE DEF u, f, n
<1>9. BytesUpTo(u, n + 1) = ChargeOf(u, f, n + 1)
  BY <1>3 DEF BytesUpTo, ChargeOf, Counted, ReturnsIn
<1>10. Charged(u) = ChargeOf(u, Before(FrameEnds(u), n + 2), n + 1)
  BY <1>1, <1>8 DEF Charged
<1>11. EndsFrame(t, c) => Charged(u) = 0
  BY <1>4, <1>8, <1>10, ChargeNone
<1>12. ~EndsFrame(t, c) => Charged(u) = BytesUpTo(u, n + 1)
  BY <1>4, <1>9, <1>10
<1> QED BY <1>5, <1>6, <1>7, <1>9, <1>11, <1>12 DEF u, n

-----------------------------------------------------------------------------
(* The invariant of the parser.                                            *)

Texts == Seq(Characters)
FrameRecords == [event : Seq(Texts), data : Seq(Texts), heartbeat : BOOLEAN]

\* after the characters t, the parser's variables are what t as a whole says
Follows(t, l, d, e, bytes, seen, skip, q) ==
    /\ l = LineAt(t, Len(t) + 1)
    /\ skip \in BOOLEAN /\ (skip <=> Len(t) > 0 /\ t[Len(t)] = "CR")
    /\ d \in Seq(Texts) /\ AreValues(d, t, FieldLines(t, Len(t) + 1, "data:"))
    /\ e \in Seq(Texts) /\ AreValues(e, t, FieldLines(t, Len(t) + 1, "event:"))
    /\ seen \in BOOLEAN /\ (seen <=> LinesIn(t, Len(t) + 1) # {})
    /\ bytes = Charged(t) /\ bytes <= MaxEventBytes
    /\ q \in Seq(FrameRecords) /\ AreFrames(q, t)
    /\ \A k \in 1 .. Len(t) : BytesUpTo(t, k) <= MaxEventBytes

SseInv ==
    /\ received \in Seq(Characters)
    /\ parser # "failed" =>
          Follows(received, line, data, event, frameBytes, frameSeen, skipLf, frames)

(* Before the first character.                                             *)
LEMMA FollowsAtFirst == Follows(<<>>, <<>>, <<>>, <<>>, 0, FALSE, FALSE, <<>>)
<1> DEFINE t == <<>>
<1>1. t \in Seq(Characters) /\ Len(t) = 0 /\ Len(t) + 1 = 1 /\ DOMAIN t = {} /\ 1 .. Len(t) = {}
  OBVIOUS
<1> HIDE DEF t
<1>2. LineEnds(t) = {}
  BY <1>1 DEF LineEnds
<1>3. FrameEnds(t) = {} /\ Before({}, 1) = 0
  BY <1>2 DEF FrameEnds, Before
<1>4. LineAt(t, 1) = <<>>
  <2>1. StartOf(t, 1) = 1
    BY <1>2, <1>3 DEF StartOf
  <2>2. 1 \in 1 .. Len(t) + 1 /\ 1 - 1 = 0
    BY <1>1
  <2>3. LineAt(t, 1) = SubSeq(t, 1, 0)
    BY <1>1, <2>1, <2>2, LineIs
  <2> QED BY <1>1, <2>3
<1>5. LinesIn(t, 1) = {} /\ FieldLines(t, 1, "data:") = {} /\ FieldLines(t, 1, "event:") = {}
  BY <1>2 DEF LinesIn, FieldLines
<1>6. Charged(t) = 0
  <2>1. Charged(t) = ChargeOf(t, 0, 0)
    BY <1>1, <1>3 DEF Charged
  <2> QED BY <2>1, ChargeNone
<1>7. AreFrames(<<>>, t)
  <2>1. FullFrames(t) = {}
    BY <1>3 DEF FullFrames
  <2>2. DOMAIN <<>> = {} /\ <<>> \in [{} -> {}]
    OBVIOUS
  <2>3. Lists(<<>>, {})
    BY <2>2 DEF Lists
  <2> QED BY <2>1, <2>2, <2>3 DEF AreFrames
<1>8. AreValues(<<>>, t, {})
  BY NoValues
<1>9. 0 <= MaxEventBytes
  BY SseAssumption
<1>10. <<>> \in Seq(Texts) /\ <<>> \in Seq(FrameRecords)
  OBVIOUS
<1>11. ~(Len(t) > 0)
  BY <1>1
<1>12. \A k \in 1 .. Len(t) : BytesUpTo(t, k) <= MaxEventBytes
  BY <1>1
<1>13. Follows(t, <<>>, <<>>, <<>>, 0, FALSE, FALSE, <<>>)
  <2>1. <<>> = LineAt(t, Len(t) + 1)
    BY <1>1, <1>4
  <2>2. FALSE <=> Len(t) > 0 /\ t[Len(t)] = "CR"
    BY <1>11
  <2>3. AreValues(<<>>, t, FieldLines(t, Len(t) + 1, "data:"))
    BY <1>1, <1>5, <1>8
  <2>4. AreValues(<<>>, t, FieldLines(t, Len(t) + 1, "event:"))
    BY <1>1, <1>5, <1>8
  <2>5. FALSE <=> LinesIn(t, Len(t) + 1) # {}
    BY <1>1, <1>5
  <2> QED BY <1>6, <1>7, <1>9, <1>10, <1>12, <2>1, <2>2, <2>3, <2>4, <2>5, Zenon DEF Follows
<1> QED BY <1>13 DEF t

(* What every character does to the reference: the bytes up to each place, *)
(* and what is left of the state when it does not end a frame.             *)
LEMMA BytesFit ==
    ASSUME NEW t \in Seq(Characters), NEW c \in Characters,
           \A k \in 1 .. Len(t) : BytesUpTo(t, k) <= MaxEventBytes,
           BytesUpTo(Append(t, c), Len(t) + 1) <= MaxEventBytes
    PROVE  \A k \in 1 .. Len(Append(t, c)) : BytesUpTo(Append(t, c), k) <= MaxEventBytes
<1> DEFINE n == Len(t)
           u == Append(t, c)
<1>1. n \in Nat /\ Len(u) = n + 1
  BY Longer
<1>2. \A k \in 1 .. n : BytesUpTo(u, k) = BytesUpTo(t, k)
  BY BytesStay
<1>3. (\A k \in 1 .. n : BytesUpTo(t, k) <= MaxEventBytes) /\ BytesUpTo(u, n + 1) <= MaxEventBytes
  OBVIOUS
<1> HIDE DEF n, u
<1>4. ASSUME NEW k \in 1 .. Len(u) PROVE BytesUpTo(u, k) <= MaxEventBytes
  <2>1. k \in 1 .. n \/ k = n + 1
    BY <1>1
  <2> QED BY <1>2, <1>3, <2>1
<1> QED BY <1>4 DEF u

(* A character that ends no line leaves the frame's lines as they are.     *)
LEMMA FieldsStay ==
    ASSUME NEW t \in Seq(Characters), NEW c \in Characters, ~Ends(t, c),
           NEW q, NEW h, AreValues(q, t, FieldLines(t, Len(t) + 1, h))
    PROVE  AreValues(q, Append(t, c), FieldLines(Append(t, c), Len(Append(t, c)) + 1, h))
<1> DEFINE S == FieldLines(t, Len(t) + 1, h)
<1>1. ~EndsFrame(t, c)
  BY DEF EndsFrame
<1>2. FieldLines(Append(t, c), Len(t) + 2, h) = S
  <2>1. FieldLines(Append(t, c), Len(t) + 2, h)
           = S \cup NextPlace(t, Ends(t, c) /\ LineAt(t, Len(t) + 1)[1] = h)
    BY <1>1, LinesNext
  <2>2. ~Ends(t, c)
    OBVIOUS
  <2> QED BY <2>1, <2>2 DEF NextPlace
<1>3. S \subseteq 1 .. Len(t) /\ Len(Append(t, c)) + 1 = Len(t) + 2
  <2>1. Len(t) + 1 \in 1 .. Len(t) + 1 /\ Len(Append(t, c)) + 1 = Len(t) + 2
    BY Longer
  <2>2. LinesIn(t, Len(t) + 1) \subseteq 1 .. Len(t)
    BY <2>1, LinesStay
  <2> QED BY <2>1, <2>2 DEF FieldLines
<1>4. AreValues(q, t, S)
  OBVIOUS
<1> HIDE DEF S
<1>5. AreValues(q, Append(t, c), S)
  BY <1>3, <1>4, ValuesStay
<1> QED BY <1>2, <1>3, <1>5

(* A line adds its value to the field that it is one of, and no other.     *)
LEMMA FieldsGoOn ==
    ASSUME NEW t \in Seq(Characters), NEW c \in Characters, Ends(t, c), LineAt(t, Len(t) + 1) # <<>>,
           NEW q \in Seq(Texts), NEW h, AreValues(q, t, FieldLines(t, Len(t) + 1, h))
    PROVE  LET l == LineAt(t, Len(t) + 1)
               p == IF l[1] = h THEN Append(q, Tail(l)) ELSE q
           IN p \in Seq(Texts)
              /\ AreValues(p, Append(t, c), FieldLines(Append(t, c), Len(Append(t, c)) + 1, h))
<1> DEFINE S == FieldLines(t, Len(t) + 1, h)
           l == LineAt(t, Len(t) + 1)
           n == Len(t)
           u == Append(t, c)
           p == IF l[1] = h THEN Append(q, Tail(l)) ELSE q
<1>1. ~EndsFrame(t, c)
  BY DEF EndsFrame
<1>2. FieldLines(u, n + 2, h) = S \cup NextPlace(t, Ends(t, c) /\ l[1] = h)
  BY <1>1, LinesNext
<1>3. n + 1 \in 1 .. n + 1 /\ Len(u) + 1 = n + 2
  BY Longer
<1>4. S \subseteq 1 .. n
  <2>1. LinesIn(t, n + 1) \subseteq 1 .. n
    BY <1>3, LinesStay
  <2> QED BY <2>1 DEF FieldLines
<1>5. l \in Seq(Characters) /\ l # <<>>
  BY <1>3, LineIs
<1>6. AreValues(q, t, S) /\ q \in Seq(Texts) /\ Ends(t, c) /\ l = LineAt(t, n + 1)
  OBVIOUS
<1> HIDE DEF S, l
<1>7. Tail(l) \in Texts
  BY <1>5 DEF Texts
<1>8. CASE l[1] = h
  <2>1. FieldLines(u, n + 2, h) = S \cup {n + 1}
    BY <1>2, <1>6, <1>8 DEF NextPlace
  <2>2. S \in SUBSET (1 .. Len(t))
    BY <1>4
  <2>3. Tail(l) = Tail(LineAt(t, Len(t) + 1))
    BY <1>6
  <2>4. AreValues(Append(q, Tail(l)), Append(t, c), S \cup {Len(t) + 1})
    BY <1>6, <1>7, <2>2, <2>3, ValuesGoOn
  <2>5. Append(q, Tail(l)) \in Seq(Texts)
    BY <1>7
  <2> QED BY <1>3, <1>8, <2>1, <2>4, <2>5 DEF l
<1>9. CASE l[1] # h
  <2>1. FieldLines(u, n + 2, h) = S
    BY <1>2, <1>9 DEF NextPlace
  <2>2. AreValues(q, Append(t, c), S)
    BY <1>4, <1>6, ValuesStay
  <2> QED BY <1>3, <1>6, <1>9, <2>1, <2>2 DEF l
<1> QED BY <1>8, <1>9

(* A character that ends no line.                                          *)
LEMMA FollowsText ==
    ASSUME NEW t \in Seq(Characters), NEW c \in Characters, ~Ends(t, c),
           NEW l, NEW d, NEW e, NEW bytes, NEW seen, NEW skip, NEW q,
           Follows(t, l, d, e, bytes, seen, skip, q),
           NEW l2, l2 = LineAt(Append(t, c), Len(t) + 2),
           NEW b2, b2 = BytesUpTo(Append(t, c), Len(t) + 1), b2 <= MaxEventBytes
    PROVE  Follows(Append(t, c), l2, d, e, b2, seen, c = "CR", q)
<1> DEFINE u == Append(t, c)
           n == Len(t)
<1>1. n \in Nat /\ Len(u) = n + 1 /\ Len(u) > 0 /\ u[Len(u)] = c /\ Len(u) + 1 = n + 2
  BY Longer
<1>2. /\ d \in Seq(Texts) /\ AreValues(d, t, FieldLines(t, n + 1, "data:"))
      /\ e \in Seq(Texts) /\ AreValues(e, t, FieldLines(t, n + 1, "event:"))
      /\ seen \in BOOLEAN /\ (seen <=> LinesIn(t, n + 1) # {})
      /\ q \in Seq(FrameRecords) /\ AreFrames(q, t)
      /\ \A k \in 1 .. n : BytesUpTo(t, k) <= MaxEventBytes
  BY Zenon DEF Follows
<1>3. ~EndsFrame(t, c) /\ ~Ends(t, c)
  BY DEF EndsFrame
<1>4. AreValues(d, u, FieldLines(u, Len(u) + 1, "data:"))
  BY <1>2, FieldsStay
<1>5. AreValues(e, u, FieldLines(u, Len(u) + 1, "event:"))
  BY <1>2, FieldsStay
<1>6. LinesIn(u, Len(u) + 1) = LinesIn(t, n + 1)
  <2>1. LinesIn(u, n + 2) = LinesIn(t, n + 1) \cup NextPlace(t, Ends(t, c))
    BY <1>3, LinesNext
  <2> QED BY <1>1, <1>3, <2>1 DEF NextPlace
<1>7. b2 = Charged(u)
  BY <1>3, BytesNext
<1>8. AreFrames(q, u)
  BY <1>2, <1>3, FramesStay
<1>9. \A k \in 1 .. Len(u) : BytesUpTo(u, k) <= MaxEventBytes
  BY <1>2, BytesFit
<1>10. b2 <= MaxEventBytes /\ l2 = LineAt(u, Len(u) + 1)
  BY <1>1
<1>11. (c = "CR") \in BOOLEAN /\ ((c = "CR") <=> Len(u) > 0 /\ u[Len(u)] = "CR")
  BY <1>1
<1> HIDE DEF u
<1>12. seen <=> LinesIn(u, Len(u) + 1) # {}
  BY <1>2, <1>6
<1>13. Follows(u, l2, d, e, b2, seen, c = "CR", q)
  BY <1>2, <1>4, <1>5, <1>7, <1>8, <1>9, <1>10, <1>11, <1>12, Zenon DEF Follows
<1> QED BY <1>13 DEF u

(* The LF of a CR LF.                                                      *)
LEMMA FollowsSkipped ==
    ASSUME NEW t \in Seq(Characters), NEW c \in Characters,
           NEW l, NEW d, NEW e, NEW bytes, NEW seen, NEW skip, NEW q,
           Follows(t, l, d, e, bytes, seen, skip, q), skip, c = "LF"
    PROVE  Follows(Append(t, c), l, d, e, bytes, seen, FALSE, q)
<1>1. Len(t) > 0 /\ t[Len(t)] = "CR"
  BY DEF Follows
<1>2. ~Ends(t, c) /\ c \in {"CR", "LF"}
  BY <1>1 DEF Ends
<1>3. LineAt(Append(t, c), Len(t) + 2) = <<>> /\ LineAt(t, Len(t) + 1) = <<>>
  BY <1>2, LineGrows
<1>4. l = LineAt(Append(t, c), Len(t) + 2)
  BY <1>3 DEF Follows
<1>5. bytes = Charged(t) /\ bytes <= MaxEventBytes
  BY DEF Follows
<1>6. bytes = BytesUpTo(Append(t, c), Len(t) + 1)
  BY <1>2, <1>5, BytesNext
<1>7. Follows(Append(t, c), l, d, e, bytes, seen, c = "CR", q)
  BY <1>2, <1>4, <1>5, <1>6, FollowsText
<1>8. (c = "CR") = FALSE
  OBVIOUS
<1> QED BY <1>7, <1>8

(* A character of a line.                                                  *)
LEMMA FollowsChar ==
    ASSUME NEW t \in Seq(Characters), NEW c \in Characters,
           NEW l, NEW d, NEW e, NEW bytes, NEW seen, NEW skip, NEW q,
           Follows(t, l, d, e, bytes, seen, skip, q), c \notin {"CR", "LF"},
           bytes + Charge(c) <= MaxEventBytes
    PROVE  Follows(Append(t, c), Append(l, c), d, e, bytes + Charge(c), seen, FALSE, q)
<1>1. ~Ends(t, c)
  BY DEF Ends
<1>2. Append(l, c) = LineAt(Append(t, c), Len(t) + 2)
  BY LineGrows DEF Follows
<1>3. bytes = Charged(t)
  BY DEF Follows
<1>4. bytes + Charge(c) = BytesUpTo(Append(t, c), Len(t) + 1)
  BY <1>3, BytesNext
<1> DEFINE b2 == bytes + Charge(c)
           l2 == Append(l, c)
<1>5. b2 = BytesUpTo(Append(t, c), Len(t) + 1) /\ b2 <= MaxEventBytes
      /\ l2 = LineAt(Append(t, c), Len(t) + 2)
  BY <1>2, <1>4
<1> HIDE DEF b2, l2
<1>6. Follows(Append(t, c), l2, d, e, b2, seen, c = "CR", q)
  BY <1>1, <1>5, FollowsText
<1>7. (c = "CR") = FALSE
  OBVIOUS
<1> QED BY <1>6, <1>7 DEF b2, l2

\* what a line does to the lists of values, and when it may
DataAfter(l, d) == IF l[1] = "data:" THEN Append(d, Tail(l)) ELSE d
EventAfter(l, e) == IF l[1] = "event:" THEN <<Tail(l)>> ELSE e
EndsField(c, skip, l, e) ==
    /\ c \in {"CR", "LF"} /\ ~(skip /\ c = "LF") /\ l # <<>>
    /\ l[1] = "event:" => e = <<>>

(* The end of a line that is not empty: one of the frame's.                *)
LEMMA FollowsField ==
    ASSUME NEW t \in Seq(Characters), NEW c \in Characters,
           NEW l, NEW d, NEW e, NEW bytes, NEW seen, NEW skip, NEW q,
           Follows(t, l, d, e, bytes, seen, skip, q), EndsField(c, skip, l, e),
           bytes + Charge(c) <= MaxEventBytes
    PROVE  Follows(Append(t, c), <<>>, DataAfter(l, d), EventAfter(l, e), bytes + Charge(c), TRUE,
                   c = "CR", q)
<1> DEFINE u == Append(t, c)
           n == Len(t)
           d2 == IF l[1] = "data:" THEN Append(d, Tail(l)) ELSE d
           e2 == IF l[1] = "event:" THEN Append(e, Tail(l)) ELSE e
           e3 == EventAfter(l, e)
           b2 == bytes + Charge(c)
<1>1. n \in Nat /\ Len(u) = n + 1 /\ Len(u) > 0 /\ u[Len(u)] = c /\ Len(u) + 1 = n + 2
  BY Longer
<1>2. /\ l = LineAt(t, n + 1) /\ (skip <=> n > 0 /\ t[n] = "CR")
      /\ d \in Seq(Texts) /\ AreValues(d, t, FieldLines(t, n + 1, "data:"))
      /\ e \in Seq(Texts) /\ AreValues(e, t, FieldLines(t, n + 1, "event:"))
      /\ bytes = Charged(t)
      /\ q \in Seq(FrameRecords) /\ AreFrames(q, t)
      /\ \A k \in 1 .. n : BytesUpTo(t, k) <= MaxEventBytes
  BY Zenon DEF Follows
<1>3. Ends(t, c)
  BY <1>2 DEF Ends, EndsField
<1>4. ~EndsFrame(t, c) /\ LineAt(t, n + 1) # <<>>
  BY <1>2 DEF EndsFrame, EndsField
<1>5. d2 \in Seq(Texts) /\ AreValues(d2, u, FieldLines(u, Len(u) + 1, "data:"))
  BY <1>2, <1>3, <1>4, FieldsGoOn
<1>6. e2 \in Seq(Texts) /\ AreValues(e2, u, FieldLines(u, Len(u) + 1, "event:"))
  BY <1>2, <1>3, <1>4, FieldsGoOn
<1>17. d2 = DataAfter(l, d)
  BY DEF DataAfter
<1>7. e3 = e2
  <2>1. l[1] = "event:" => Append(e, Tail(l)) = <<Tail(l)>>
    BY DEF EndsField
  <2> QED BY <2>1 DEF EventAfter
<1>8. LinesIn(u, Len(u) + 1) # {}
  <2>1. LinesIn(u, n + 2) = LinesIn(t, n + 1) \cup NextPlace(t, Ends(t, c))
    BY <1>4, LinesNext
  <2> QED BY <1>1, <1>3, <2>1 DEF NextPlace
<1>9. b2 = BytesUpTo(u, n + 1) /\ b2 = Charged(u)
  BY <1>2, <1>3, <1>4, BytesNext
<1>10. AreFrames(q, u)
  BY <1>2, <1>4, FramesStay
<1>11. b2 <= MaxEventBytes /\ <<>> = LineAt(u, Len(u) + 1)
  BY <1>1, LineGrows DEF EndsField
<1>12. \A k \in 1 .. Len(u) : BytesUpTo(u, k) <= MaxEventBytes
  <2>1. BytesUpTo(Append(t, c), Len(t) + 1) <= MaxEventBytes
    BY <1>9, <1>11
  <2> QED BY <1>2, <2>1, BytesFit
<1>13. (c = "CR") \in BOOLEAN /\ ((c = "CR") <=> Len(u) > 0 /\ u[Len(u)] = "CR")
  BY <1>1
<1> HIDE DEF u, d2, e2, b2
<1>14. TRUE <=> LinesIn(u, Len(u) + 1) # {}
  BY <1>8
<1>15. Follows(u, <<>>, d2, e2, b2, TRUE, c = "CR", q)
  BY <1>2, <1>5, <1>6, <1>9, <1>10, <1>11, <1>12, <1>13, <1>14, Zenon DEF Follows
<1>16. Follows(u, <<>>, DataAfter(l, d), e3, b2, TRUE, c = "CR", q)
  <2> HIDE DEF e3
  <2> QED BY <1>7, <1>15, <1>17
<1> QED BY <1>16 DEF u, b2

(* The end of an empty line: a frame.                                      *)
LEMMA FollowsFrame ==
    ASSUME NEW t \in Seq(Characters), NEW c \in Characters,
           NEW l, NEW d, NEW e, NEW bytes, NEW seen, NEW skip, NEW q,
           Follows(t, l, d, e, bytes, seen, skip, q), c \in {"CR", "LF"}, ~(skip /\ c = "LF"),
           l = <<>>, bytes + Charge(c) <= MaxEventBytes
    PROVE  Follows(Append(t, c), <<>>, <<>>, <<>>, 0, FALSE, c = "CR",
                   IF seen THEN Append(q, Frame(e, d)) ELSE q)
<1> DEFINE u == Append(t, c)
           n == Len(t)
           f == Frame(e, d)
           q2 == IF seen THEN Append(q, f) ELSE q
<1>1. n \in Nat /\ Len(u) = n + 1 /\ Len(u) > 0 /\ u[Len(u)] = c /\ Len(u) + 1 = n + 2
  BY Longer
<1>2. /\ l = LineAt(t, n + 1) /\ (skip <=> n > 0 /\ t[n] = "CR")
      /\ d \in Seq(Texts) /\ AreValues(d, t, FieldLines(t, n + 1, "data:"))
      /\ e \in Seq(Texts) /\ AreValues(e, t, FieldLines(t, n + 1, "event:"))
      /\ seen \in BOOLEAN /\ (seen <=> LinesIn(t, n + 1) # {})
      /\ bytes = Charged(t)
      /\ q \in Seq(FrameRecords) /\ AreFrames(q, t)
      /\ \A k \in 1 .. n : BytesUpTo(t, k) <= MaxEventBytes
  BY Zenon DEF Follows
<1>3. Ends(t, c) /\ EndsFrame(t, c)
  BY <1>2 DEF Ends, EndsFrame
<1>4. BytesUpTo(u, n + 1) <= MaxEventBytes /\ Charged(u) = 0
  <2>1. BytesUpTo(u, n + 1) = Charged(t) + Charge(c) /\ Charged(u) = 0
    BY <1>3, BytesNext
  <2> QED BY <1>2, <2>1
<1>5. \A k \in 1 .. Len(u) : BytesUpTo(u, k) <= MaxEventBytes
  BY <1>2, <1>4, BytesFit
<1>6. LinesIn(u, Len(u) + 1) = {} /\ FieldLines(u, Len(u) + 1, "data:") = {}
      /\ FieldLines(u, Len(u) + 1, "event:") = {}
  BY <1>1, <1>3, LinesNext
<1>7. f.event = e /\ f.data = d /\ f.heartbeat = (d = <<>> /\ e = <<>>)
  BY DEF Frame
<1>8. f \in FrameRecords
  BY <1>2 DEF Frame, FrameRecords
<1>9. IsFrameAt(f, t, n + 1)
  <2>1. f.heartbeat <=> f.event = <<>> /\ f.data = <<>>
    BY <1>7
  <2> HIDE DEF f
  <2> QED BY <1>2, <1>7, <2>1 DEF IsFrameAt
<1> HIDE DEF f
<1>10. q2 \in Seq(FrameRecords) /\ AreFrames(q2, u)
  <2>1. CASE seen
    <3>1. LinesIn(t, Len(t) + 1) # {} /\ IsFrameAt(f, t, Len(t) + 1)
      BY <1>2, <1>9, <2>1
    <3>2. AreFrames(Append(q, f), Append(t, c))
      BY <1>2, <1>3, <1>8, <3>1, FramesGoOn
    <3>3. Append(q, f) \in Seq(FrameRecords)
      BY <1>2, <1>8
    <3> QED BY <2>1, <3>2, <3>3
  <2>2. CASE ~seen
    <3>1. ~(LinesIn(t, Len(t) + 1) # {})
      BY <1>2, <2>2
    <3>2. AreFrames(q, Append(t, c))
      BY <1>2, <3>1, FramesStay
    <3> QED BY <1>2, <2>2, <3>2
  <2> QED BY <1>2, <2>1, <2>2
<1>11. 0 <= MaxEventBytes /\ <<>> = LineAt(u, Len(u) + 1)
  BY <1>1, LineGrows, SseAssumption
<1>12. (c = "CR") \in BOOLEAN /\ ((c = "CR") <=> Len(u) > 0 /\ u[Len(u)] = "CR")
  BY <1>1
<1>13. <<>> \in Seq(Texts) /\ 0 = Charged(u)
  BY <1>4
<1> HIDE DEF u, q2
<1>14. FALSE <=> LinesIn(u, Len(u) + 1) # {}
  BY <1>6
<1>15. AreValues(<<>>, u, FieldLines(u, Len(u) + 1, "data:"))
       /\ AreValues(<<>>, u, FieldLines(u, Len(u) + 1, "event:"))
  BY <1>6, NoValues
<1>16. Follows(u, <<>>, <<>>, <<>>, 0, FALSE, c = "CR", q2)
  BY <1>5, <1>10, <1>11, <1>12, <1>13, <1>14, <1>15, Zenon DEF Follows
<1> QED BY <1>16 DEF u, q2, f

(* Every step of the parser, and its opening, keeps the invariant.         *)
LEMMA SseKeeps ==
    ASSUME SseInv, [SseOpen \/ SseNext]_sseVars
    PROVE  SseInv'
<1> DEFINE Fs == Follows(received, line, data, event, frameBytes, frameSeen, skipLf, frames)
<1>1. received \in Seq(Characters) /\ (parser # "failed" => Fs)
  BY DEF SseInv
<1>2. ASSUME received' = received, line' = line, data' = data, event' = event,
             frameBytes' = frameBytes, frameSeen' = frameSeen, skipLf' = skipLf, frames' = frames,
             parser' # "failed" => parser # "failed"
      PROVE  SseInv'
  BY <1>1, <1>2 DEF SseInv
<1>3. CASE SseOpen
  <2>1. parser = "idle"
    BY <1>3 DEF SseOpen
  <2> QED BY <1>2, <1>3, <2>1 DEF SseOpen
<1>4. CASE UNCHANGED sseVars
  BY <1>2, <1>4 DEF sseVars
<1>5. CASE EndOfBody
  <2>1. parser = "reading"
    BY <1>5 DEF EndOfBody
  <2> QED BY <1>2, <1>5, <2>1 DEF EndOfBody
<1>6. CASE ReadCharacter
  <2>1. PICK char \in Characters :
          LET ends == char \in {"CR", "LF"} IN
          IF Skips(char)
          THEN /\ skipLf' = FALSE /\ received' = Append(received, char)
               /\ UNCHANGED <<parser, line, data, event, frameBytes, frameSeen, frames>>
          ELSE IF \/ frameBytes + Charge(char) > MaxEventBytes
                  \/ ends /\ line = <<>> /\ event # <<>> /\ data = <<>>
                  \/ ends /\ line # <<>> /\ ~IsField(line)
          THEN SseFail(char)
          ELSE /\ received' = Append(received, char) /\ UNCHANGED parser
               /\ skipLf' = (char = "CR")
               /\ IF ~ends
                  THEN /\ line' = Append(line, char)
                       /\ frameBytes' = frameBytes + Charge(char)
                       /\ UNCHANGED <<data, event, frameSeen, frames>>
                  ELSE line' = <<>> /\ IF line = <<>> THEN EndFrame ELSE TakeField(char)
    BY <1>6 DEF ReadCharacter
  <2>2. parser = "reading" /\ Fs
    BY <1>1, <1>6 DEF ReadCharacter
  <2>3. frameBytes \in Nat /\ Charge(char) \in Nat /\ MaxEventBytes \in Nat
    <3>1. frameBytes = Charged(received)
      BY <2>2 DEF Follows
    <3> QED BY <1>1, <3>1, BytesNext, SseAssumption DEF Charge
  <2>4. Append(received, char) \in Seq(Characters)
    BY <1>1, Longer
  <2>5. CASE Skips(char)
    <3>1. /\ skipLf' = FALSE /\ received' = Append(received, char)
          /\ UNCHANGED <<parser, line, data, event, frameBytes, frameSeen, frames>>
      BY <2>1, <2>5
    <3>2. Follows(Append(received, char), line, data, event, frameBytes, frameSeen, FALSE, frames)
      BY <1>1, <2>2, <2>5, FollowsSkipped DEF Skips
    <3> QED BY <2>4, <3>1, <3>2 DEF SseInv
  <2>6. CASE SseFail(char)
    BY <2>4, <2>6 DEF SseFail, SseInv
  <2>7. ASSUME ~Skips(char), ~SseFail(char) PROVE SseInv'
    <3> DEFINE ends == char \in {"CR", "LF"}
    <3>1. /\ ~(frameBytes + Charge(char) > MaxEventBytes)
          /\ ~(ends /\ line # <<>> /\ ~IsField(line))
      BY <2>1, <2>7
    <3>2. /\ received' = Append(received, char) /\ UNCHANGED parser
          /\ skipLf' = (char = "CR")
      BY <2>1, <2>7
    <3>3. frameBytes + Charge(char) <= MaxEventBytes
      BY <2>3, <3>1
    <3>4. ~(skipLf /\ char = "LF")
      BY <2>7 DEF Skips
    <3>5. CASE ~ends
      <4>1. /\ line' = Append(line, char)
            /\ frameBytes' = frameBytes + Charge(char)
            /\ UNCHANGED <<data, event, frameSeen, frames>>
        BY <2>1, <2>7, <3>5
      <4>2. skipLf' = FALSE
        BY <3>2, <3>5
      <4>3. Follows(Append(received, char), Append(line, char), data, event,
                    frameBytes + Charge(char), frameSeen, FALSE, frames)
        BY <1>1, <2>2, <3>3, <3>5, FollowsChar
      <4> QED BY <2>4, <3>2, <4>1, <4>2, <4>3 DEF SseInv
    <3>6. CASE ends /\ line = <<>>
      <4>1. line' = <<>> /\ EndFrame
        BY <2>1, <2>7, <3>6
      <4>2. Follows(Append(received, char), <<>>, <<>>, <<>>, 0, FALSE, char = "CR",
                    IF frameSeen THEN Append(frames, Frame(event, data)) ELSE frames)
        BY <1>1, <2>2, <3>3, <3>4, <3>6, FollowsFrame
      <4> QED BY <2>4, <3>2, <4>1, <4>2 DEF SseInv, EndFrame
    <3>7. CASE ends /\ line # <<>>
      <4>1. line' = <<>> /\ TakeField(char)
        BY <2>1, <2>7, <3>7
      <4>2. EndsField(char, skipLf, line, event)
        BY <3>1, <3>4, <3>7 DEF IsField, EndsField
      <4>3. Follows(Append(received, char), <<>>, DataAfter(line, data), EventAfter(line, event),
                    frameBytes + Charge(char), TRUE, char = "CR", frames)
        <5> HIDE DEF Fs, ends
        <5>1. Follows(received, line, data, event, frameBytes, frameSeen, skipLf, frames)
          BY <2>2 DEF Fs
        <5>2. received \in Seq(Characters) /\ frameBytes + Charge(char) <= MaxEventBytes
          BY <1>1, <3>3
        <5> QED BY <4>2, <5>1, <5>2, FollowsField
      <4>4. data' = DataAfter(line, data) /\ event' = EventAfter(line, event)
        BY <4>1 DEF TakeField, DataAfter, EventAfter
      <4>5. frameBytes' = frameBytes + Charge(char) /\ frameSeen' = TRUE /\ frames' = frames
        BY <4>1 DEF TakeField
      <4> QED BY <2>4, <3>2, <4>1, <4>3, <4>4, <4>5 DEF SseInv
    <3> QED BY <3>5, <3>6, <3>7
  <2> QED BY <2>5, <2>6, <2>7
<1> QED BY <1>3, <1>4, <1>5, <1>6 DEF SseNext

(* parse_sse hands over exactly the frames of the text, each within        *)
(* max_event_bytes, for every provider, limit and way to mix line ends:    *)
(* while it has not failed, its buffers are what the text as a whole says  *)
(* (SseInv).                                                               *)
THEOREM FramesStayExact == SseSpec => []FramesAreExact
<1>1. SseInit => SseInv
  <2> SUFFICES ASSUME SseInit PROVE SseInv
    OBVIOUS
  <2>1. Follows(received, line, data, event, frameBytes, frameSeen, skipLf, frames)
    <3>1. /\ received = <<>> /\ line = <<>> /\ data = <<>> /\ event = <<>>
          /\ frameBytes = 0 /\ frameSeen = FALSE /\ skipLf = FALSE /\ frames = <<>>
      BY DEF SseInit
    <3> QED BY <3>1, FollowsAtFirst, Zenon
  <2>2. received \in Seq(Characters)
    BY DEF SseInit
  <2> QED BY <2>1, <2>2 DEF SseInv
<1>2. SseInv /\ [SseOpen \/ SseNext]_sseVars => SseInv'
  BY SseKeeps
<1>3. SseInv => FramesAreExact
  <2> SUFFICES ASSUME SseInv, parser # "failed"
               PROVE  AreFrames(frames, received)
                      /\ \A k \in DOMAIN received : BytesUpTo(received, k) <= MaxEventBytes
    BY DEF FramesAreExact
  <2>1. received \in Seq(Characters) /\ AreFrames(frames, received)
        /\ \A k \in 1 .. Len(received) : BytesUpTo(received, k) <= MaxEventBytes
    BY DEF SseInv, Follows
  <2> QED BY <2>1
<1> QED BY <1>1, <1>2, <1>3, PTL DEF SseSpec

-----------------------------------------------------------------------------
(* The history of a request.                                               *)

CallIds(e) == {c[1] : c \in e.call}
OutputIds(e) == {o[1] : o \in e.output}

\* the first n entries of a history are paired
PairedUpTo(q, n) ==
    /\ \A i, j \in 1 .. n : i # j =>
        /\ q[i].id \cap q[j].id = {}
        /\ CallIds(q[i]) \cap CallIds(q[j]) = {}
        /\ OutputIds(q[i]) \cap OutputIds(q[j]) = {}
    /\ \A j \in 1 .. n : q[j].output \subseteq UNION {q[i].call : i \in 1 .. j - 1}

\* the sets of the loop are those of the first n entries
Seen(q, n) ==
    /\ seenIds = UNION {q[i].id : i \in 1 .. n}
    /\ seenCalls = UNION {q[i].call : i \in 1 .. n}
    /\ seenOutputs = UNION {OutputIds(q[i]) : i \in 1 .. n}

(* While the loop runs, its sets are those of the first n entries, which   *)
(* are paired, and the rest is still to be read.                           *)
HistoryInv ==
    /\ \E S : entries \in Seq(S) /\ history \in Seq(S)
    /\ intake = "idle" => seenCalls = {} /\ seenOutputs = {} /\ seenIds = {}
    /\ intake = "history" =>
          \E n \in 0 .. Len(entries) :
              /\ Len(history) = Len(entries) - n
              /\ \A i \in 1 .. Len(history) : history[i] = entries[n + i]
              /\ PairedUpTo(entries, n) /\ Seen(entries, n)
    /\ HistoryIsPaired

(* A history is paired when all of its entries are.                        *)
LEMMA PairedIsAll ==
    ASSUME NEW S, NEW q \in Seq(S)
    PROVE  Paired(q) <=> PairedUpTo(q, Len(q))
<1>1. DOMAIN q = 1 .. Len(q)
  OBVIOUS
<1> QED BY <1>1 DEF Paired, PairedUpTo, CallIds, OutputIds

(* An entry fits what was read if and only if it goes with all entries     *)
(* before it.                                                              *)
LEMMA FitsMeansPaired ==
    ASSUME NEW q, NEW n \in Nat, Seen(q, n), PairedUpTo(q, n)
    PROVE  EntryFits(q[n + 1]) <=> PairedUpTo(q, n + 1)
<1> DEFINE e == q[n + 1]
<1>1. \A i : i \in 1 .. n + 1 <=> i \in 1 .. n \/ i = n + 1
  OBVIOUS
<1>2. n + 1 \notin 1 .. n /\ (n + 1) - 1 = n /\ n + 1 \in 1 .. n + 1
  OBVIOUS
<1>3. /\ seenIds = UNION {q[i].id : i \in 1 .. n}
      /\ seenCalls = UNION {q[i].call : i \in 1 .. n}
      /\ seenOutputs = UNION {OutputIds(q[i]) : i \in 1 .. n}
  BY DEF Seen
<1>4. {s[1] : s \in seenCalls} = UNION {CallIds(q[i]) : i \in 1 .. n}
  BY <1>3 DEF CallIds
<1>5. ASSUME EntryFits(e) PROVE PairedUpTo(q, n + 1)
  <2>1. /\ e.id \cap seenIds = {}
        /\ \A c \in e.call : c[1] \notin {s[1] : s \in seenCalls}
        /\ \A o \in e.output : o \in seenCalls /\ o[1] \notin seenOutputs
    BY <1>5 DEF EntryFits, OutputIsDue
  <2>2. ASSUME NEW i \in 1 .. n
        PROVE  /\ q[i].id \cap e.id = {}
               /\ CallIds(q[i]) \cap CallIds(e) = {}
               /\ OutputIds(q[i]) \cap OutputIds(e) = {}
    <3>1. q[i].id \subseteq seenIds /\ CallIds(q[i]) \subseteq {s[1] : s \in seenCalls}
          /\ OutputIds(q[i]) \subseteq seenOutputs
      BY <1>3, <1>4
    <3>2. q[i].id \cap e.id = {}
      BY <2>1, <3>1
    <3>3. CallIds(q[i]) \cap CallIds(e) = {}
      BY <2>1, <3>1 DEF CallIds
    <3>4. OutputIds(q[i]) \cap OutputIds(e) = {}
      BY <2>1, <3>1 DEF OutputIds
    <3> QED BY <3>2, <3>3, <3>4
  <2>3. e.output \subseteq UNION {q[i].call : i \in 1 .. (n + 1) - 1}
    BY <1>2, <1>3, <2>1
  <2> HIDE DEF e
  <2>4. ASSUME NEW i \in 1 .. n + 1, NEW j \in 1 .. n + 1, i # j
        PROVE  /\ q[i].id \cap q[j].id = {}
               /\ CallIds(q[i]) \cap CallIds(q[j]) = {}
               /\ OutputIds(q[i]) \cap OutputIds(q[j]) = {}
    <3>1. CASE i \in 1 .. n /\ j \in 1 .. n
      BY <2>4, <3>1 DEF PairedUpTo
    <3>2. CASE i \in 1 .. n /\ j = n + 1
      BY <2>2, <3>2 DEF e
    <3>3. CASE i = n + 1 /\ j \in 1 .. n
      <4>1. /\ q[j].id \cap e.id = {}
            /\ CallIds(q[j]) \cap CallIds(e) = {}
            /\ OutputIds(q[j]) \cap OutputIds(e) = {}
        BY <2>2, <3>3
      <4>2. q[i] = e
        BY <3>3 DEF e
      <4> QED BY <4>1, <4>2
    <3> QED BY <1>1, <2>4, <3>1, <3>2, <3>3
  <2>5. ASSUME NEW j \in 1 .. n + 1 PROVE q[j].output \subseteq UNION {q[i].call : i \in 1 .. j - 1}
    <3>1. CASE j \in 1 .. n
      BY <3>1 DEF PairedUpTo
    <3>2. CASE j = n + 1
      BY <2>3, <3>2 DEF e
    <3> QED BY <1>1, <3>1, <3>2
  <2> QED BY <2>4, <2>5 DEF PairedUpTo
<1>6. ASSUME PairedUpTo(q, n + 1) PROVE EntryFits(e)
  <2>1. ASSUME NEW i \in 1 .. n
        PROVE  /\ q[i].id \cap e.id = {}
               /\ CallIds(q[i]) \cap CallIds(e) = {}
               /\ OutputIds(q[i]) \cap OutputIds(e) = {}
    <3>1. i \in 1 .. n + 1 /\ i # n + 1
      BY <1>1, <1>2
    <3> QED BY <1>2, <1>6, <3>1 DEF PairedUpTo
  <2>2. e.output \subseteq UNION {q[i].call : i \in 1 .. n}
    <3>1. q[n + 1].output \subseteq UNION {q[i].call : i \in 1 .. (n + 1) - 1}
      BY <1>2, <1>6 DEF PairedUpTo
    <3> QED BY <1>2, <3>1
  <2>3. e.id \cap seenIds = {}
    BY <1>3, <2>1
  <2>4. \A c \in e.call : c[1] \notin {s[1] : s \in seenCalls}
    <3>1. \A c \in e.call : c[1] \in CallIds(e)
      BY DEF CallIds
    <3> QED BY <1>4, <2>1, <3>1
  <2>5. \A o \in e.output : o \in seenCalls
    BY <1>3, <2>2
  <2>6. \A o \in e.output : o[1] \notin seenOutputs
    <3>1. \A o \in e.output : o[1] \in OutputIds(e)
      BY DEF OutputIds
    <3> QED BY <1>3, <2>1, <3>1
  <2> QED BY <2>3, <2>4, <2>5, <2>6 DEF EntryFits, OutputIsDue
<1> QED BY <1>5, <1>6

(* What is paired has only paired beginnings.                              *)
LEMMA PairedBeginning ==
    ASSUME NEW q, NEW n \in Nat, NEW m \in 0 .. n, PairedUpTo(q, n)
    PROVE  PairedUpTo(q, m)
<1>1. \A i \in 1 .. m : i \in 1 .. n
  OBVIOUS
<1> QED BY <1>1 DEF PairedUpTo

\* a step of the request that reads no history
Idles(next) ==
    /\ intake' = next /\ next \notin {"idle", "history", "invalid_history"}
    /\ UNCHANGED <<entries, history>>

(* A step of the loop reads one entry more, or refuses what is not paired. *)
LEMMA ReadKeeps ==
    ASSUME HistoryInv, ReadEntry
    PROVE  HistoryInv'
<1> DEFINE e == Head(history)
<1>1. PICK S : entries \in Seq(S) /\ history \in Seq(S)
  BY DEF HistoryInv
<1>2. intake = "history" /\ history # <<>>
  BY DEF ReadEntry
<1>3. PICK n \in 0 .. Len(entries) :
         /\ Len(history) = Len(entries) - n
         /\ \A i \in 1 .. Len(history) : history[i] = entries[n + i]
         /\ PairedUpTo(entries, n) /\ Seen(entries, n)
  BY <1>2 DEF HistoryInv
<1>4. n \in Nat /\ Len(entries) \in Nat /\ Len(history) \in Nat \ {0}
  BY <1>1, <1>2
<1>5. n + 1 \in 0 .. Len(entries) /\ e = entries[n + 1]
  <2>1. 1 \in 1 .. Len(history) /\ e = history[1]
    BY <1>1, <1>2, <1>4
  <2> QED BY <1>3, <1>4, <2>1
<1>6. EntryFits(e) <=> PairedUpTo(entries, n + 1)
  <2>1. EntryFits(entries[n + 1]) <=> PairedUpTo(entries, n + 1)
    BY <1>3, <1>4, FitsMeansPaired
  <2> QED BY <1>5, <2>1
<1>7. CASE EntryFits(e)
  <2>1. /\ history' = Tail(history) /\ seenIds' = seenIds \cup e.id
        /\ seenCalls' = seenCalls \cup e.call
        /\ seenOutputs' = seenOutputs \cup OutputIds(e)
        /\ intake' = intake /\ entries' = entries
    BY <1>7 DEF ReadEntry, OutputIds
  <2>2. Len(history') = Len(entries) - (n + 1) /\ history' \in Seq(S)
    BY <1>1, <1>2, <1>3, <1>4, <2>1
  <2>3. ASSUME NEW i \in 1 .. Len(history') PROVE history'[i] = entries[(n + 1) + i]
    <3>1. history'[i] = history[i + 1] /\ i + 1 \in 1 .. Len(history)
      BY <1>1, <1>2, <1>4, <2>1
    <3>2. history[i + 1] = entries[n + (i + 1)]
      BY <1>3, <3>1
    <3>3. n + (i + 1) = (n + 1) + i
      BY <1>4
    <3> QED BY <3>1, <3>2, <3>3
  <2>4. \A i : i \in 1 .. n + 1 <=> i \in 1 .. n \/ i = n + 1
    BY <1>4
  <2>5. Seen(entries, n + 1)'
    <3>1. /\ seenIds = UNION {entries[i].id : i \in 1 .. n}
          /\ seenCalls = UNION {entries[i].call : i \in 1 .. n}
          /\ seenOutputs = UNION {OutputIds(entries[i]) : i \in 1 .. n}
      BY <1>3 DEF Seen
    <3>2. seenIds' = UNION {entries[i].id : i \in 1 .. n + 1}
      BY <1>5, <2>1, <2>4, <3>1
    <3>3. seenCalls' = UNION {entries[i].call : i \in 1 .. n + 1}
      BY <1>5, <2>1, <2>4, <3>1
    <3>4. seenOutputs' = UNION {OutputIds(entries[i]) : i \in 1 .. n + 1}
      BY <1>5, <2>1, <2>4, <3>1
    <3>5. /\ seenIds' = UNION {entries'[i].id : i \in 1 .. n + 1}
          /\ seenCalls' = UNION {entries'[i].call : i \in 1 .. n + 1}
          /\ seenOutputs' = UNION {OutputIds(entries'[i]) : i \in 1 .. n + 1}
      BY <2>1, <3>2, <3>3, <3>4
    <3> QED BY <3>5 DEF Seen
  <2>6. PairedUpTo(entries, n + 1)'
    BY <1>6, <1>7, <2>1 DEF PairedUpTo, CallIds, OutputIds
  <2>7. \E k \in 0 .. Len(entries') :
           /\ Len(history') = Len(entries') - k
           /\ \A i \in 1 .. Len(history') : history'[i] = entries'[k + i]
           /\ PairedUpTo(entries, k)' /\ Seen(entries, k)'
    BY <1>5, <2>1, <2>2, <2>3, <2>5, <2>6
  <2>8. HistoryIsPaired'
    BY <1>2, <2>1 DEF HistoryIsPaired
  <2> QED BY <1>1, <1>2, <2>1, <2>2, <2>7, <2>8 DEF HistoryInv
<1>8. CASE ~EntryFits(e)
  <2>1. intake' = "invalid_history" /\ entries' = entries /\ history' = history
    BY <1>8 DEF ReadEntry, Becomes
  <2>2. ~PairedUpTo(entries, Len(entries))
    <3>1. n + 1 \in 0 .. Len(entries) /\ Len(entries) \in Nat
      BY <1>4, <1>5
    <3> QED BY <1>6, <1>8, <3>1, PairedBeginning
  <2>3. ~Paired(entries)
    BY <1>1, <2>2, PairedIsAll
  <2>4. Paired(entries)' <=> Paired(entries)
    BY <2>1 DEF Paired
  <2>5. HistoryIsPaired'
    BY <2>1, <2>3, <2>4 DEF HistoryIsPaired
  <2> QED BY <1>1, <2>1, <2>5 DEF HistoryInv
<1> QED BY <1>7, <1>8

(* Every step of a request keeps HistoryInv.                               *)
LEMMA HistoryKeeps ==
    ASSUME HistoryInv, [HistoryNext]_historyVars
    PROVE  HistoryInv'
<1>1. PICK S : entries \in Seq(S) /\ history \in Seq(S)
  BY DEF HistoryInv
<1>2. ASSUME Idles(intake'), intake' \in {"parsed", "replacing", "sent"} => Paired(entries)
      PROVE  HistoryInv'
  <2>1. entries' = entries /\ history' = history
    BY <1>2 DEF Idles
  <2>2. intake' \notin {"idle", "history", "invalid_history"}
    BY <1>2 DEF Idles
  <2>3. Paired(entries)' <=> Paired(entries)
    BY <2>1 DEF Paired
  <2>4. HistoryIsPaired'
    BY <1>2, <2>2, <2>3 DEF HistoryIsPaired
  <2> QED BY <1>1, <2>1, <2>2, <2>4 DEF HistoryInv
<1>3. CASE (\E T : entries' \in Seq(T)) /\ BeginHistory(entries')
  <2>1. PICK T : entries' \in Seq(T)
    BY <1>3
  <2>2. /\ intake = "idle" /\ intake' = "history" /\ history' = entries'
        /\ seenCalls' = seenCalls /\ seenOutputs' = seenOutputs /\ seenIds' = seenIds
    BY <1>3 DEF BeginHistory, seenVars
  <2>3. seenCalls' = {} /\ seenOutputs' = {} /\ seenIds' = {}
    BY <2>2 DEF HistoryInv
  <2>4. Len(entries') \in Nat /\ 0 \in 0 .. Len(entries') /\ Len(history') = Len(entries') - 0
    BY <2>1, <2>2
  <2>5. \A i \in 1 .. Len(history') : history'[i] = entries'[0 + i]
    BY <2>2
  <2>6. 1 .. 0 = {}
    OBVIOUS
  <2>7. PairedUpTo(entries, 0)' /\ Seen(entries, 0)'
    BY <2>3, <2>6 DEF PairedUpTo, Seen
  <2>8. HistoryIsPaired'
    BY <2>2 DEF HistoryIsPaired
  <2>9. \E n \in 0 .. Len(entries') :
           /\ Len(history') = Len(entries') - n
           /\ \A i \in 1 .. Len(history') : history'[i] = entries'[n + i]
           /\ PairedUpTo(entries, n)' /\ Seen(entries, n)'
    BY <2>4, <2>5, <2>7
  <2> QED BY <2>1, <2>2, <2>8, <2>9 DEF HistoryInv
<1>4. CASE ReadEntry
  BY <1>4, ReadKeeps
<1>5. CASE EndHistory
  <2>1. intake = "history" /\ history = <<>> /\ intake' = "parsed" /\ Idles(intake')
    BY <1>5 DEF EndHistory, Idles
  <2>2. PICK n \in 0 .. Len(entries) :
           Len(history) = Len(entries) - n /\ PairedUpTo(entries, n)
    BY <2>1 DEF HistoryInv
  <2>3. n = Len(entries)
    BY <1>1, <2>1, <2>2
  <2>4. Paired(entries)
    BY <1>1, <2>2, <2>3, PairedIsAll
  <2> QED BY <1>2, <2>1, <2>4
<1>6. CASE \E reason \in {"malformed", "invalid_tools", "refused"} : Becomes(reason)
  BY <1>2, <1>6 DEF Becomes, Idles
<1>7. CASE intake = "parsed" /\ Becomes("replacing")
  <2>1. Paired(entries)
    BY <1>7 DEF HistoryInv, HistoryIsPaired
  <2> QED BY <1>2, <1>7, <2>1 DEF Becomes, Idles
<1>8. CASE intake = "replacing" /\ Becomes("sent")
  <2>1. Paired(entries)
    BY <1>8 DEF HistoryInv, HistoryIsPaired
  <2> QED BY <1>2, <1>8, <2>1 DEF Becomes, Idles
<1>9. CASE Forget
  <2>1. /\ intake' = "idle" /\ entries' = <<>> /\ history' = <<>>
        /\ seenCalls' = {} /\ seenOutputs' = {} /\ seenIds' = {}
    BY <1>9 DEF Forget
  <2>2. entries' \in Seq({}) /\ history' \in Seq({})
    BY <2>1
  <2>3. HistoryIsPaired'
    BY <2>1 DEF HistoryIsPaired
  <2> QED BY <2>1, <2>2, <2>3 DEF HistoryInv
<1>10. CASE UNCHANGED historyVars
  <2>1. /\ intake' = intake /\ entries' = entries /\ history' = history
        /\ seenCalls' = seenCalls /\ seenOutputs' = seenOutputs /\ seenIds' = seenIds
    BY <1>10 DEF historyVars, seenVars
  <2>2. (Paired(entries)' <=> Paired(entries)) /\ (HistoryIsPaired' <=> HistoryIsPaired)
    <3>1. Paired(entries)' <=> Paired(entries)
      BY <2>1 DEF Paired
    <3> QED BY <2>1, <3>1 DEF HistoryIsPaired
  <2>3. ASSUME NEW n \in Nat
        PROVE  (PairedUpTo(entries, n)' <=> PairedUpTo(entries, n)) /\ (Seen(entries, n)' <=> Seen(entries, n))
    <3>1. PairedUpTo(entries, n)' <=> PairedUpTo(entries, n)
      BY <2>1 DEF PairedUpTo
    <3>2. Seen(entries, n)' <=> Seen(entries, n)
      BY <2>1 DEF Seen
    <3> QED BY <3>1, <3>2
  <2>4. CASE intake # "history"
    BY <1>1, <2>1, <2>2, <2>4 DEF HistoryInv
  <2>5. CASE intake = "history"
    <3>1. PICK n \in 0 .. Len(entries) :
             /\ Len(history) = Len(entries) - n
             /\ \A i \in 1 .. Len(history) : history[i] = entries[n + i]
             /\ PairedUpTo(entries, n) /\ Seen(entries, n)
      BY <2>5 DEF HistoryInv
    <3>2. n \in Nat
      BY <1>1, <3>1
    <3>3. PairedUpTo(entries, n)' /\ Seen(entries, n)'
      BY <2>3, <3>1, <3>2
    <3>4. \E k \in 0 .. Len(entries') :
             /\ Len(history') = Len(entries') - k
             /\ \A i \in 1 .. Len(history') : history'[i] = entries'[k + i]
             /\ PairedUpTo(entries, k)' /\ Seen(entries, k)'
      BY <2>1, <3>1, <3>3
    <3> QED BY <1>1, <2>1, <2>2, <2>5, <3>4 DEF HistoryInv
  <2> QED BY <2>4, <2>5
<1> QED BY <1>3, <1>4, <1>5, <1>6, <1>7, <1>8, <1>9, <1>10 DEF HistoryNext

(* The history check of both parsers is exact: seen_calls, seen_outputs    *)
(* and seen_ids accept a replayed history if and only if it is paired, for *)
(* histories of any length and any identifiers.                            *)
THEOREM HistoryStaysPaired == HistorySpec => []HistoryIsPaired
<1>1. HistoryInit => HistoryInv
  <2> SUFFICES ASSUME HistoryInit PROVE HistoryInv
    OBVIOUS
  <2>1. entries \in Seq({}) /\ history \in Seq({})
    BY DEF HistoryInit
  <2> QED BY <2>1 DEF HistoryInit, HistoryInv, HistoryIsPaired
<1>2. HistoryInv /\ [HistoryNext]_historyVars => HistoryInv'
  BY HistoryKeeps
<1>3. HistoryInv => HistoryIsPaired
  BY DEF HistoryInv
<1> QED BY <1>1, <1>2, <1>3, PTL DEF HistorySpec
=============================================================================
