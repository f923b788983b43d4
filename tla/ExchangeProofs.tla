--------------------------- MODULE ExchangeProofs ---------------------------
(***************************************************************************)
(* What AgentExchange guarantees for every request, every answer and every *)
(* verdict of the strict parsers: the history of a request and the frames  *)
(* of an answer are those of AgentProofs, the calls that are delivered are *)
(* those the request declared, and what is sent differs from what was read *)
(* only where a private text was replaced.                                 *)
(***************************************************************************)
EXTENDS AgentExchange, AgentProofs, TLAPS

-----------------------------------------------------------------------------
(* The parts of an exchange.                                               *)

(* An exchange begins and ends a history as CallHistory says.              *)
LEMMA ExchangeStepsOnHistory ==
    ASSUME [ExchangeNext]_exchangeVars
    PROVE  [HistoryNext]_historyVars
<1>1. CASE UNCHANGED exchangeVars
  BY <1>1 DEF exchangeVars, contractVars
<1>2. ASSUME ContractNext PROVE [HistoryNext]_historyVars
  <2>1. CASE ReadBody
    <3>1. intake = "idle"
      BY <2>1 DEF ReadBody
    <3>2. PICK p \in DOMAIN Bodies : \E body \in Bodies[p] :
             \/ Reads(body, Grammar[p]) /\ BeginHistory(Entries(p, body))
             \/ Becomes("malformed")
      BY <2>1 DEF ReadBody, Refuse
    <3>4. PICK body \in Bodies[p] :
             \/ Reads(body, Grammar[p]) /\ BeginHistory(Entries(p, body))
             \/ Becomes("malformed")
      BY <3>2
    <3>3. CASE Reads(body, Grammar[p]) /\ BeginHistory(Entries(p, body))
      <4> DEFINE q == Entries(p, body)
      <4>1. q \in Seq({q[i] : i \in DOMAIN q})
        BY <3>3, RequestAssumption
      <4>2. entries' = q
        BY <3>3 DEF BeginHistory
      <4> HIDE DEF q
      <4>3. \E S : entries' \in Seq(S)
        BY <4>1, <4>2
      <4>4. BeginHistory(entries')
        BY <3>3, <4>2 DEF q, BeginHistory
      <4> QED BY <4>3, <4>4 DEF HistoryNext
    <3> QED BY <3>4, <3>3 DEF HistoryNext
  <2>2. CASE CheckRequest
    BY <2>2 DEF CheckRequest, Refuse, HistoryNext
  <2>3. CASE Prepare
    BY <2>3 DEF Prepare, Refuse, HistoryNext
  <2>4. CASE Send
    BY <2>4 DEF Send, HistoryNext
  <2>5. CASE ReplaceLocation
    BY <2>5 DEF ReplaceLocation
  <2>6. CASE ReadEntry
    BY <2>6 DEF HistoryNext
  <2> QED BY <1>2, <2>1, <2>2, <2>3, <2>4, <2>5, <2>6 DEF ContractNext
<1>3. CASE RequestIsSent
  BY <1>3 DEF RequestIsSent, HistoryNext
<1>4. CASE UNCHANGED contractVars
  BY <1>4 DEF contractVars
<1> QED BY <1>1, <1>2, <1>3, <1>4 DEF ExchangeNext, Complete, Stream, RefuseRequest

(* It opens and reads a stream as SseFrames says.                          *)
LEMMA ExchangeStepsOnFrames ==
    ASSUME [ExchangeNext]_exchangeVars
    PROVE  [SseOpen \/ SseNext]_sseVars
BY DEF ExchangeNext, exchangeVars, Complete, Stream, RefuseRequest

(* Whatever clients send, the exchange accepts a replayed history if and   *)
(* only if it is paired: its requests are behaviours of CallHistory.       *)
THEOREM ExchangeKeepsHistoryPaired == ExchangeSpec => HistorySpec /\ []HistoryIsPaired
<1>1. ExchangeInit => HistoryInit
  BY DEF ExchangeInit, ContractInit
<1>2. [ExchangeNext]_exchangeVars => [HistoryNext]_historyVars
  BY ExchangeStepsOnHistory
<1>3. ExchangeSpec => HistorySpec
  BY <1>1, <1>2, PTL DEF ExchangeSpec, HistorySpec
<1> QED BY <1>3, HistoryStaysPaired

(* The frames of a streamed answer are exactly those of its text: the      *)
(* streams of the exchange are behaviours of SseFrames.                    *)
THEOREM ExchangeKeepsFramesExact == ExchangeSpec => SseSpec /\ []FramesAreExact
<1>1. ExchangeInit => SseInit
  BY DEF ExchangeInit
<1>2. [ExchangeNext]_exchangeVars => [SseOpen \/ SseNext]_sseVars
  BY ExchangeStepsOnFrames
<1>3. ExchangeSpec => SseSpec
  BY <1>1, <1>2, PTL DEF ExchangeSpec, SseSpec
<1> QED BY <1>3, FramesStayExact

-----------------------------------------------------------------------------
(* What is restored of an answer.                                          *)

Dialects == {"responses", "messages"}
WrittenItems == OutputOf(dialect, written)

(* The item of an answer that a restoration leaves in place: its fields,   *)
(* its type and the name it calls are the same.                            *)
SameItem(a, b) ==
    /\ Kind(a) = "obj" /\ DOMAIN Of(a) = DOMAIN Of(b)
    /\ Name(a, "type") = Name(b, "type")
    /\ IsCall(b) => Name(a, "name") = Name(b, "name")

(* The answer has the items that the provider wrote.                       *)
SameFrame ==
    /\ Kind(answer) = "obj" /\ OutputField(dialect) \in DOMAIN Of(answer)
    /\ Kind(At(answer, OutputField(dialect))) = "arr"
    /\ DOMAIN Items = DOMAIN WrittenItems
    /\ \A i \in DOMAIN WrittenItems : SameItem(Items[i], WrittenItems[i])

CallIsRestored(call) ==
    /\ call.custom \/ SchemaMatches(bound.declared[call.name].schema, Of(call.arguments))
    /\ BytesOf(call.arguments) <= MaxToolBytes

(* Every call up to the last part restored has been restored.              *)
CallsAreRestored ==
    \A i \in CallPlaces(WrittenItems) : Earlier(part, <<i, 1>>) \/ CallIsRestored(CallOf(Items[i]))

AnswerInv ==
    /\ protocol \in Dialects
    /\ exchange \in {"asked", "restoring", "delivered"} =>
            dialect \in Dialects /\ bound = Binding(dialect, asked)
    /\ exchange \in {"none", "asked"} => part = <<0, 0>>
    /\ exchange \in {"restoring", "delivered"} =>
            /\ IsAnswer(dialect, written) /\ BatchIsValid(bound, WrittenCalls)
            /\ SameFrame /\ CallsAreRestored
    /\ exchange = "delivered" => Pending = {} /\ BytesOf(answer) <= MaxAnswerBytes

(* With changes one field or element, if there is one, and nothing else.   *)
LEMMA WithIs ==
    ASSUME NEW j, Kind(j) \in {"obj", "arr"}, NEW k, NEW new
    PROVE  /\ Kind(With(j, k, new)) = Kind(j)
           /\ DOMAIN Of(With(j, k, new)) = DOMAIN Of(j)
           /\ k \in DOMAIN Of(j) => Of(With(j, k, new))[k] = new
           /\ \A m \in DOMAIN Of(j) \ {k} : Of(With(j, k, new))[m] = Of(j)[m]
<1> DEFINE f == [Of(j) EXCEPT ![k] = new]
<1>1. With(j, k, new) = <<Kind(j), f>>
  BY DEF With
<1>2. Kind(With(j, k, new)) = Kind(j) /\ Of(With(j, k, new)) = f
  BY <1>1 DEF Kind, Of
<1> QED BY <1>2

(* An item that is changed in place changes nothing around it.             *)
LEMMA ItemInPlace ==
    ASSUME SameFrame, NEW i \in DOMAIN Items, NEW item, SameItem(item, Items[i]),
           answer' = WithItem(i, item), dialect' = dialect, written' = written
    PROVE  /\ SameFrame' /\ Items'[i] = item
           /\ \A m \in DOMAIN Items \ {i} : Items'[m] = Items[m]
<1> DEFINE k == OutputField(dialect)
           list == At(answer, k)
           new == With(list, i, item)
<1>1. /\ Kind(answer) = "obj" /\ k \in DOMAIN Of(answer) /\ Kind(list) = "arr"
      /\ DOMAIN Of(list) = DOMAIN WrittenItems /\ i \in DOMAIN Of(list) /\ Items = Of(list)
  BY DEF SameFrame, Items, OutputOf
<1>2. answer' = With(answer, k, new)
  BY DEF WithItem
<1> HIDE DEF k, list, new
<1>3. /\ Kind(new) = "arr" /\ DOMAIN Of(new) = DOMAIN Of(list) /\ Of(new)[i] = item
      /\ \A m \in DOMAIN Of(list) \ {i} : Of(new)[m] = Of(list)[m]
  BY <1>1, WithIs DEF new
<1>4. Kind(answer') = "obj" /\ DOMAIN Of(answer') = DOMAIN Of(answer) /\ Of(answer')[k] = new
  BY <1>1, <1>2, WithIs
<1>5. Items' = Of(new) /\ At(answer', k) = new /\ WrittenItems' = WrittenItems
  BY <1>4 DEF Items, OutputOf, At, k, WrittenItems
<1>6. ASSUME NEW m \in DOMAIN WrittenItems PROVE SameItem(Items'[m], WrittenItems[m])
  <2>1. SameItem(Items[m], WrittenItems[m])
    BY DEF SameFrame
  <2>2. CASE m = i
    BY <2>1, <2>2, <1>3, <1>5 DEF SameItem, IsCall
  <2>3. CASE m # i
    BY <2>1, <2>3, <1>1, <1>3, <1>5
  <2> QED BY <2>2, <2>3
<1>7. SameFrame'
  <2>1. OutputField(dialect)' = k
    BY DEF k
  <2>2. \A m \in DOMAIN WrittenItems' : SameItem(Items[m], WrittenItems[m])'
    BY <1>5, <1>6 DEF SameItem, IsCall, Name, At
  <2> QED BY <1>1, <1>3, <1>4, <1>5, <2>1, <2>2 DEF SameFrame
<1> QED BY <1>1, <1>3, <1>5, <1>7

(* A call that is restored takes the place of the one that was written.    *)
LEMMA CallPutBack ==
    ASSUME IsAnswer(dialect, written), SameFrame, dialect \in Dialects,
           NEW i \in CallPlaces(WrittenItems), NEW new,
           CallOf(Items[i]).custom \/ new = Enc(Of(new)),
           NEW item,
           item = With(Items[i], CallField(Items[i]), IF dialect = "messages" THEN Of(new) ELSE new)
    PROVE  /\ SameItem(item, Items[i])
           /\ CallOf(item).name = CallOf(Items[i]).name /\ CallOf(item).arguments = new
           /\ (CallOf(item).custom <=> CallOf(Items[i]).custom)
<1> DEFINE old == Items[i]
           k == CallField(old)
           x == IF dialect = "messages" THEN Of(new) ELSE new
<1>1. /\ Kind(old) = "obj" /\ DOMAIN Of(old) = DOMAIN Of(WrittenItems[i])
      /\ Name(old, "type") = Name(WrittenItems[i], "type")
      /\ IsCall(WrittenItems[i])
  BY DEF SameFrame, SameItem, CallPlaces
<1>2. Has(WrittenItems[i], CallField(WrittenItems[i]))
      /\ (dialect = "messages" <=> Name(WrittenItems[i], "type") = "tool_use")
  BY DEF IsAnswer, WrittenItems
<1>3. /\ k \in DOMAIN Of(old) /\ IsCall(old)
      /\ dialect = "messages" <=> Name(old, "type") = "tool_use"
  BY <1>1, <1>2 DEF Has, CallField, IsCall
<1>4. item = With(old, k, x)
  OBVIOUS
<1> HIDE DEF old, k, x
<1>5. /\ Kind(item) = "obj" /\ DOMAIN Of(item) = DOMAIN Of(old) /\ At(item, k) = x
      /\ \A m \in DOMAIN Of(old) \ {k} : At(item, m) = At(old, m)
  BY <1>1, <1>3, <1>4, WithIs DEF At
<1>6. k \in {"arguments", "input"}
  BY DEF k, CallField
<1>7. /\ DOMAIN Of(WrittenItems[i]) = DOMAIN Of(old)
      /\ "type" \in DOMAIN Of(old) /\ "name" \in DOMAIN Of(old)
  BY <1>1 DEF IsAnswer, WrittenItems, Has, CallPlaces
<1>8. Name(item, "type") = Name(old, "type") /\ Name(item, "name") = Name(old, "name")
  BY <1>5, <1>6, <1>7 DEF Name
<1>9. SameItem(item, old)
  BY <1>1, <1>5, <1>8 DEF SameItem
<1>10. CASE Name(old, "type") = "function_call"
  <2>1. k = "arguments" /\ x = new
    BY <1>3, <1>10 DEF k, x, CallField
  <2>2. CallOf(item) = [name |-> Name(old, "name"), arguments |-> new, custom |-> FALSE]
    BY <1>5, <1>8, <1>10, <2>1 DEF CallOf
  <2>3. CallOf(old) = [name |-> Name(old, "name"), arguments |-> At(old, "arguments"),
                       custom |-> FALSE]
    BY <1>10 DEF CallOf
  <2>4. CallOf(item).name = CallOf(old).name /\ CallOf(item).arguments = new
    BY <2>2, <2>3
  <2>5. CallOf(item).custom <=> CallOf(old).custom
    BY <2>2, <2>3
  <2> QED BY <1>9, <2>4, <2>5 DEF old
<1>11. CASE Name(old, "type") = "custom_tool_call"
  <2>1. k = "input" /\ x = new
    BY <1>3, <1>11 DEF k, x, CallField
  <2>2. CallOf(item) = [name |-> Name(old, "name"), arguments |-> new, custom |-> TRUE]
    BY <1>5, <1>8, <1>11, <2>1 DEF CallOf
  <2>3. CallOf(old) = [name |-> Name(old, "name"), arguments |-> At(old, "input"), custom |-> TRUE]
    BY <1>11 DEF CallOf
  <2>4. CallOf(item).name = CallOf(old).name /\ CallOf(item).arguments = new
    BY <2>2, <2>3
  <2>5. CallOf(item).custom <=> CallOf(old).custom
    BY <2>2, <2>3
  <2> QED BY <1>9, <2>4, <2>5 DEF old
<1>12. CASE Name(old, "type") = "tool_use"
  <2>1. k = "input" /\ x = Of(new)
    BY <1>3, <1>12 DEF k, x, CallField
  <2>2. CallOf(old) = [name |-> Name(old, "name"), arguments |-> Enc(At(old, "input")),
                       custom |-> FALSE]
    BY <1>12 DEF CallOf
  <2>3. new = Enc(Of(new))
    BY <2>2 DEF old
  <2>4. CallOf(item) = [name |-> Name(old, "name"), arguments |-> Enc(Of(new)), custom |-> FALSE]
    BY <1>5, <1>8, <1>12, <2>1 DEF CallOf
  <2>5. CallOf(item).name = CallOf(old).name /\ CallOf(item).arguments = new
    BY <2>2, <2>3, <2>4
  <2>6. CallOf(item).custom <=> CallOf(old).custom
    BY <2>2, <2>4
  <2> QED BY <1>9, <2>5, <2>6 DEF old
<1> QED BY <1>3, <1>10, <1>11, <1>12 DEF IsCall

(* What is restored of a call that is no custom one is again a document.   *)
LEMMA RestoredIsEncoded ==
    ASSUME NEW call, ~call.custom, NEW plan, NEW provenance
    PROVE  RestoredArguments(call, plan, provenance)
             = Enc(Of(RestoredArguments(call, plan, provenance)))
<1> DEFINE args == Of(Of(call.arguments))
           new == Obj([k \in DOMAIN args |->
                        RestoredField(call.name, plan, k, args[k], provenance)])
<1>1. RestoredArguments(call, plan, provenance) = Enc(new)
  BY DEF RestoredArguments
<1> HIDE DEF new
<1> QED BY <1>1 DEF Enc, Of

(* A part that comes next is restored before every other one.              *)
LEMMA NextComesFirst ==
    ASSUME NEW q \in NextParts, NEW r \in Pending, r # q
    PROVE  Earlier(q, r)
BY DEF NextParts

(* The place of a call is one of the parts of the answer.                  *)
LEMMA CallIsPart ==
    ASSUME NEW i \in CallPlaces(WrittenItems)
    PROVE  <<i, 1>> \in PartsOf(dialect, written)
<1>1. i \in DOMAIN WrittenItems /\ 1 \in PartsOfItem(WrittenItems[i])
  BY DEF CallPlaces, IsCall, PartsOfItem
<1>2. <<i, 1>> \in {<<i, k>> : k \in PartsOfItem(WrittenItems[i])}
  BY <1>1
<1>3. <<i, 1>> \in UNION {{<<m, k>> : k \in PartsOfItem(WrittenItems[m])} :
                            m \in DOMAIN WrittenItems}
  BY <1>1, <1>2
<1> QED BY <1>3 DEF PartsOf, WrittenItems

(* An answer that fails is restored no further.                            *)
LEMMA FailKeeps ==
    ASSUME AnswerInv, Fail, protocol' = protocol
    PROVE  AnswerInv'
BY DEF AnswerInv, Fail

(* One part of the answer is restored: every call before it was, and none  *)
(* of those before it changes.                                             *)
LEMMA PartKeeps ==
    ASSUME AnswerInv, exchange = "restoring", protocol' = protocol, NEW q \in NextParts,
           part' = q, UNCHANGED <<exchange, dialect, asked, bound, values, written>>, SameFrame',
           \A i \in CallPlaces(WrittenItems) :
                /\ <<i, 1>> = q => CallIsRestored(CallOf(Items'[i]))
                /\ CallIsRestored(CallOf(Items[i])) => CallIsRestored(CallOf(Items'[i]))
    PROVE  AnswerInv'
<1>1. /\ protocol \in Dialects /\ dialect \in Dialects /\ bound = Binding(dialect, asked)
      /\ IsAnswer(dialect, written) /\ BatchIsValid(bound, WrittenCalls)
      /\ SameFrame /\ CallsAreRestored
  BY DEF AnswerInv
<1>2. WrittenItems' = WrittenItems /\ WrittenCalls' = WrittenCalls
  BY DEF WrittenItems, WrittenCalls
<1>3. ASSUME NEW i \in CallPlaces(WrittenItems)
      PROVE  Earlier(part', <<i, 1>>) \/ CallIsRestored(CallOf(Items'[i]))
  <2>1. CASE Earlier(part, <<i, 1>>)
    <3>1. <<i, 1>> \in Pending
      BY <2>1, CallIsPart DEF Pending
    <3> QED BY <3>1, NextComesFirst
  <2>2. CASE CallIsRestored(CallOf(Items[i]))
    BY <2>2
  <2> QED BY <1>1, <2>1, <2>2 DEF CallsAreRestored
<1>4. CallsAreRestored'
  BY <1>2, <1>3 DEF CallsAreRestored, CallIsRestored
<1>5. IsAnswer(dialect, written)' /\ BatchIsValid(bound, WrittenCalls)'
  BY <1>1, <1>2
<1>6. (bound = Binding(dialect, asked))' /\ dialect' \in Dialects /\ protocol' \in Dialects
  BY <1>1
<1> QED BY <1>4, <1>5, <1>6 DEF AnswerInv

(* Restoring prose touches no call.                                        *)
LEMMA ProseKeeps ==
    ASSUME AnswerInv, exchange = "restoring", protocol' = protocol, NEW q \in NextParts,
           NEW item, NEW size, NEW k, k # "type",
           q[1] \in DOMAIN Items, ~IsCall(Items[q[1]]), NEW new,
           item = With(Items[q[1]], k, new), PutInPlace(q, WithItem(q[1], item), size)
    PROVE  AnswerInv'
<1>1. CASE Fail
  BY <1>1, FailKeeps
<1>2. CASE /\ answer' = WithItem(q[1], item) /\ part' = q
           /\ UNCHANGED <<exchange, dialect, asked, bound, values, written>>
  <2> DEFINE i == q[1]
             old == Items[i]
  <2>1. SameFrame
    BY DEF AnswerInv
  <2>2. /\ i \in DOMAIN WrittenItems /\ Kind(old) = "obj"
        /\ Name(old, "type") = Name(WrittenItems[i], "type")
        /\ DOMAIN Of(old) = DOMAIN Of(WrittenItems[i])
    BY <2>1 DEF SameFrame, SameItem
  <2>3. "type" \in DOMAIN Of(old)
    BY <2>2 DEF AnswerInv, IsAnswer, WrittenItems, Has
  <2>4. /\ Kind(item) = "obj" /\ DOMAIN Of(item) = DOMAIN Of(old)
        /\ Of(item)["type"] = Of(old)["type"]
    BY <2>2, <2>3, WithIs
  <2>5. SameItem(item, old)
    BY <2>4 DEF SameItem, Name, At
  <2>6. /\ SameFrame'
        /\ \A m \in DOMAIN Items \ {i} : Items'[m] = Items[m]
    BY <1>2, <2>1, <2>5, ItemInPlace
  <2>7. ASSUME NEW m \in CallPlaces(WrittenItems)
        PROVE  m # i /\ m \in DOMAIN Items
    BY <2>1, <2>2 DEF CallPlaces, IsCall, SameFrame
  <2>8. ASSUME NEW m \in CallPlaces(WrittenItems)
        PROVE  <<m, 1>> # q /\ Items'[m] = Items[m]
    BY <2>6, <2>7
  <2> QED BY <1>2, <2>6, <2>8, PartKeeps
<1> QED BY <1>1, <1>2 DEF PutInPlace

LEMMA MessageKeeps == ASSUME AnswerInv, RestoreMessage, protocol' = protocol PROVE AnswerInv'
<1>1. exchange = "restoring"
  BY DEF RestoreMessage
<1>2. PICK q \in PartsAre({"message"}) : \E new, size :
         PutInPlace(q, WithItem(q[1], With(Items[q[1]], "content", new)), size)
  BY DEF RestoreMessage
<1>3. PICK new, size : PutInPlace(q, WithItem(q[1], With(Items[q[1]], "content", new)), size)
  BY <1>2
<1>4. q \in NextParts /\ q[1] \in DOMAIN Items /\ ~IsCall(Items[q[1]])
  BY DEF PartsAre, IsCall
<1> QED BY <1>1, <1>3, <1>4, ProseKeeps

LEMMA TextKeeps == ASSUME AnswerInv, RestoreText, protocol' = protocol PROVE AnswerInv'
<1>1. exchange = "restoring"
  BY DEF RestoreText
<1>2. PICK q \in PartsAre({"text"}) : \E new, size :
         PutInPlace(q, WithItem(q[1], With(Items[q[1]], "text", new)), size)
  BY DEF RestoreText, WithProse
<1>3. PICK new, size : PutInPlace(q, WithItem(q[1], With(Items[q[1]], "text", new)), size)
  BY <1>2
<1>4. q \in NextParts /\ q[1] \in DOMAIN Items /\ ~IsCall(Items[q[1]])
  BY DEF PartsAre, IsCall
<1> QED BY <1>1, <1>3, <1>4, ProseKeeps

LEMMA ExplanationKeeps ==
    ASSUME AnswerInv, RestoreExplanation, protocol' = protocol
    PROVE  AnswerInv'
<1>1. exchange = "restoring"
  BY DEF RestoreExplanation
<1>2. PICK q \in NextParts : \E new, size :
         q[1] \notin DOMAIN Items /\ PutInPlace(q, With(answer, "stop_details", new), size)
  BY DEF RestoreExplanation
<1>3. PICK new, size : PutInPlace(q, With(answer, "stop_details", new), size)
  BY <1>2
<1>4. CASE Fail
  BY <1>4, FailKeeps
<1>5. CASE /\ answer' = With(answer, "stop_details", new) /\ part' = q
           /\ UNCHANGED <<exchange, dialect, asked, bound, values, written>>
  <2>1. SameFrame
    BY <1>1 DEF AnswerInv
  <2>2. OutputField(dialect) # "stop_details"
    BY DEF OutputField
  <2>3. /\ Kind(answer') = "obj" /\ DOMAIN Of(answer') = DOMAIN Of(answer)
        /\ At(answer', OutputField(dialect)) = At(answer, OutputField(dialect))
    BY <1>5, <2>1, <2>2, WithIs DEF SameFrame, At
  <2>4. Items' = Items /\ WrittenItems' = WrittenItems
    BY <1>5, <2>3 DEF Items, OutputOf, WrittenItems
  <2>5. (\A i \in DOMAIN WrittenItems : SameItem(Items[i], WrittenItems[i]))'
    BY <2>1, <2>4 DEF SameFrame, SameItem, IsCall, Name, At
  <2>6. SameFrame'
    BY <1>5, <2>1, <2>3, <2>4, <2>5 DEF SameFrame
  <2>7. ASSUME NEW i \in CallPlaces(WrittenItems) PROVE <<i, 1>> # q
    BY <1>2, <2>1 DEF SameFrame, CallPlaces
  <2> QED BY <1>1, <1>5, <2>4, <2>6, <2>7, PartKeeps
<1> QED BY <1>3, <1>4, <1>5 DEF PutInPlace

(* A call that is restored satisfies the declared schema and is within its *)
(* limit; one that does not fails the answer.                              *)
LEMMA CallKeeps == ASSUME AnswerInv, RestoreCall, protocol' = protocol PROVE AnswerInv'
<1>1. exchange = "restoring"
  BY DEF RestoreCall
<1>2. SameFrame /\ IsAnswer(dialect, written) /\ dialect \in Dialects
  BY <1>1 DEF AnswerInv
<1>6. PICK q \in PartsAre({"function_call", "custom_tool_call", "tool_use"}) : \E plan :
         LET call == CallOf(Items[q[1]])
             new == RestoredArguments(call, plan, values) IN
         \/ Fail
         \/ /\ CallRestores(bound, call, plan, new, values)
            /\ PutInPlace(q, WithItem(q[1], With(Items[q[1]], CallField(Items[q[1]]),
                                               IF dialect = "messages" THEN Of(new) ELSE new)),
                          BytesOf(new))
  BY DEF RestoreCall
<1>3. PICK plan :
         LET call == CallOf(Items[q[1]])
             new == RestoredArguments(call, plan, values) IN
         \/ Fail
         \/ /\ CallRestores(bound, call, plan, new, values)
            /\ PutInPlace(q, WithItem(q[1], With(Items[q[1]], CallField(Items[q[1]]),
                                               IF dialect = "messages" THEN Of(new) ELSE new)),
                          BytesOf(new))
  BY <1>6
<1> DEFINE i == q[1]
           call == CallOf(Items[i])
           new == RestoredArguments(call, plan, values)
           item == With(Items[i], CallField(Items[i]),
                        IF dialect = "messages" THEN Of(new) ELSE new)
<1>4. CASE Fail
  BY <1>4, FailKeeps
<1>5. CASE /\ CallRestores(bound, call, plan, new, values)
           /\ answer' = WithItem(i, item) /\ part' = q
           /\ UNCHANGED <<exchange, dialect, asked, bound, values, written>>
  <2>1. q \in NextParts /\ i \in DOMAIN Items /\ IsCall(Items[i])
    BY DEF PartsAre, IsCall
  <2>2. i \in CallPlaces(WrittenItems)
    BY <1>2, <2>1 DEF SameFrame, SameItem, CallPlaces, IsCall
  <2>3. call.custom \/ new = Enc(Of(new))
    <3> HIDE DEF call
    <3> QED BY RestoredIsEncoded
  <2>9. item = With(Items[i], CallField(Items[i]), IF dialect = "messages" THEN Of(new) ELSE new)
    OBVIOUS
  <2> HIDE DEF item, new
  <2>4. /\ SameItem(item, Items[i])
        /\ CallOf(item).name = call.name /\ CallOf(item).arguments = new
        /\ (CallOf(item).custom <=> call.custom)
    <3> HIDE DEF i
    <3> QED BY <1>2, <2>2, <2>3, <2>9, CallPutBack
  <2>5. /\ BytesOf(new) <= MaxToolBytes
        /\ call.custom \/ SchemaMatches(bound.declared[call.name].schema, Of(new))
    BY <1>5 DEF CallRestores, SizesHold
  <2>6. CallIsRestored(CallOf(item))
    BY <2>4, <2>5 DEF CallIsRestored
  <2>7. /\ SameFrame' /\ Items'[i] = item
        /\ \A m \in DOMAIN Items \ {i} : Items'[m] = Items[m]
    BY <1>2, <1>5, <2>1, <2>4, ItemInPlace
  <2>8. ASSUME NEW m \in CallPlaces(WrittenItems)
        PROVE  /\ <<m, 1>> = q => CallIsRestored(CallOf(Items'[m]))
               /\ CallIsRestored(CallOf(Items[m])) => CallIsRestored(CallOf(Items'[m]))
    <3>1. m \in DOMAIN Items
      BY <1>2 DEF SameFrame, CallPlaces
    <3>2. CASE m = i
      BY <3>2, <2>6, <2>7
    <3>3. CASE m # i
      BY <3>1, <3>3, <2>7
    <3> QED BY <3>2, <3>3
  <2> QED BY <1>1, <1>5, <2>1, <2>7, <2>8, PartKeeps
<1> QED BY <1>3, <1>4, <1>5 DEF PutInPlace

LEMMA ReadKeepsAnswer == ASSUME AnswerInv, ReadAnswer, protocol' = protocol PROVE AnswerInv'
<1>1. /\ exchange = "asked" /\ part = <<0, 0>>
      /\ dialect \in Dialects /\ bound = Binding(dialect, asked)
      /\ protocol \in Dialects
  BY DEF ReadAnswer, AnswerInv
<1>2. CASE Fail
  BY <1>2, FailKeeps
<1>3. PICK a \in Answers[dialect] :
         \/ Fail
         \/ /\ AnswerIsValid(dialect, a, asked) /\ BatchIsValid(bound, CallsOf(dialect, a))
            /\ exchange' = "restoring" /\ written' = a /\ answer' = a
            /\ UNCHANGED <<dialect, asked, bound, values, part, contentBytes>>
  BY DEF ReadAnswer
<1>4. CASE /\ AnswerIsValid(dialect, a, asked) /\ BatchIsValid(bound, CallsOf(dialect, a))
           /\ exchange' = "restoring" /\ written' = a /\ answer' = a
           /\ UNCHANGED <<dialect, asked, bound, values, part, contentBytes>>
  <2>1. dialect \in DOMAIN AnswerShape
    BY <1>1 DEF Dialects, AnswerShape
  <2>2. IsAnswer(dialect, a)
    BY <1>4, <2>1, AnswerAssumption DEF AnswerIsValid
  <2>3. IsAnswer(dialect, written)' /\ BatchIsValid(bound, WrittenCalls)'
    BY <1>4, <2>2 DEF WrittenCalls
  <2>4. Items' = OutputOf(dialect, a) /\ WrittenItems' = OutputOf(dialect, a)
    BY <1>4 DEF Items, WrittenItems
  <2>5. SameFrame'
    <3>1. /\ Kind(answer') = "obj" /\ OutputField(dialect') \in DOMAIN Of(answer')
          /\ Kind(At(answer', OutputField(dialect'))) = "arr"
      BY <1>4, <2>2 DEF IsAnswer
    <3>2. ASSUME NEW i \in DOMAIN WrittenItems' PROVE SameItem(Items'[i], WrittenItems'[i])
      BY <2>2, <2>4 DEF IsAnswer, SameItem
    <3>3. (\A i \in DOMAIN WrittenItems : SameItem(Items[i], WrittenItems[i]))'
      BY <3>2 DEF SameItem, IsCall, Name, At
    <3> QED BY <3>1, <3>3, <2>4 DEF SameFrame
  <2>6. CallsAreRestored'
    <3>1. ASSUME NEW i \in CallPlaces(WrittenItems') PROVE Earlier(part', <<i, 1>>)
      <4> DEFINE q == OutputOf(dialect, a)
      <4>1. i \in DOMAIN q /\ q \in Seq({q[m] : m \in DOMAIN q})
        BY <2>2, <2>4 DEF CallPlaces, IsAnswer
      <4> HIDE DEF q
      <4>2. i \in Nat /\ i > 0
        BY <4>1
      <4> QED BY <1>1, <1>4, <4>2 DEF Earlier
    <3> QED BY <3>1 DEF CallsAreRestored
  <2>7. (bound = Binding(dialect, asked))' /\ dialect' \in Dialects /\ protocol' \in Dialects
    BY <1>1, <1>4
  <2> QED BY <1>4, <2>3, <2>5, <2>6, <2>7 DEF AnswerInv
<1> QED BY <1>2, <1>3, <1>4

LEMMA DeliverKeeps == ASSUME AnswerInv, Deliver, protocol' = protocol PROVE AnswerInv'
<1>1. CASE Fail
  BY <1>1, FailKeeps
<1>2. CASE /\ exchange = "restoring" /\ Pending = {} /\ BytesOf(answer) <= MaxAnswerBytes
           /\ exchange' = "delivered"
           /\ UNCHANGED <<dialect, asked, bound, values, written, answer, part, contentBytes>>
  <2>1. /\ WrittenItems' = WrittenItems /\ Items' = Items
        /\ Pending' = Pending /\ WrittenCalls' = WrittenCalls
    BY <1>2 DEF WrittenItems, Items, Pending, WrittenCalls
  <2>2. SameFrame' /\ CallsAreRestored'
    BY <1>2, <2>1 DEF AnswerInv, SameFrame, CallsAreRestored, CallIsRestored
  <2>3. IsAnswer(dialect, written)' /\ BatchIsValid(bound, WrittenCalls)'
    BY <1>2, <2>1 DEF AnswerInv
  <2>4. (bound = Binding(dialect, asked))' /\ dialect' \in Dialects /\ protocol' \in Dialects
    BY <1>2 DEF AnswerInv
  <2>5. Pending' = {} /\ BytesOf(answer)' <= MaxAnswerBytes
    BY <1>2, <2>1
  <2> QED BY <1>2, <2>2, <2>3, <2>4, <2>5 DEF AnswerInv
<1> QED BY <1>1, <1>2 DEF Deliver

(* Every step of an exchange keeps the invariant of its answer.            *)
LEMMA ExchangeKeepsAnswer ==
    ASSUME AnswerInv, [ExchangeNext]_exchangeVars
    PROVE  AnswerInv'
<1>1. ASSUME UNCHANGED answerVars, protocol' \in Dialects PROVE AnswerInv'
  <2>1. /\ exchange' = exchange /\ dialect' = dialect /\ asked' = asked /\ bound' = bound
        /\ values' = values /\ written' = written /\ answer' = answer /\ part' = part
    BY <1>1 DEF answerVars
  <2>2. /\ WrittenItems' = WrittenItems /\ Items' = Items
        /\ Pending' = Pending /\ WrittenCalls' = WrittenCalls
    BY <2>1 DEF WrittenItems, Items, Pending, WrittenCalls
  <2>3. /\ SameFrame' <=> SameFrame
        /\ CallsAreRestored' <=> CallsAreRestored
    BY <2>1, <2>2 DEF SameFrame, CallsAreRestored, CallIsRestored
  <2>4. IsAnswer(dialect, written)' <=> IsAnswer(dialect, written)
    BY <2>1
  <2>5. BatchIsValid(bound, WrittenCalls)' <=> BatchIsValid(bound, WrittenCalls)
    BY <2>1, <2>2
  <2>6. Binding(dialect, asked)' = Binding(dialect, asked) /\ BytesOf(answer)' = BytesOf(answer)
    BY <2>1
  <2> QED BY <1>1, <2>1, <2>2, <2>3, <2>4, <2>5, <2>6 DEF AnswerInv
<1>2. protocol \in Dialects
  BY DEF AnswerInv
<1>3. CASE UNCHANGED exchangeVars
  BY <1>1, <1>2, <1>3 DEF exchangeVars, contractVars, requestVars
<1>4. CASE ContractNext /\ UNCHANGED <<answerVars, sseVars>>
  <2>1. DOMAIN Bodies \subseteq Dialects
    BY RequestAssumption DEF Grammar, Dialects
  <2>2. protocol' \in Dialects
    BY <1>2, <1>4, <2>1 DEF ContractNext, ReadBody, CheckRequest, Prepare, ReplaceLocation, Send,
                            Refuse, requestVars
  <2> QED BY <1>1, <1>4, <2>2
<1>5. CASE Complete
  <2>1. PICK provenance : Ask(protocol, Dispatched, provenance)
    BY <1>5 DEF Complete
  <2>2. protocol' \in Dialects
    BY <1>5 DEF Complete, RequestIsSent, Dialects
  <2>3. /\ exchange = "none" /\ exchange' = "asked" /\ dialect' = protocol /\ asked' = Dispatched
        /\ bound' = Binding(protocol, Dispatched) /\ part' = part
    BY <2>1 DEF Ask
  <2>4. (bound = Binding(dialect, asked))'
    BY <2>3
  <2>5. part' = <<0, 0>>
    BY <2>3 DEF AnswerInv
  <2> QED BY <1>2, <2>2, <2>3, <2>4, <2>5 DEF AnswerInv
<1>6. CASE Stream
  BY <1>1, <1>6 DEF Stream, RequestIsSent, Dialects
<1>7. CASE RefuseRequest
  <2>1. protocol' \in Dialects /\ exchange' = "refused"
    BY <1>7 DEF RefuseRequest, RequestIsSent, RefuseTools, Dialects
  <2> QED BY <2>1 DEF AnswerInv
<1>8. CASE AnswerNext /\ UNCHANGED <<contractVars, sseVars>>
  <2>1. protocol' = protocol
    BY <1>8 DEF contractVars, requestVars
  <2> QED BY <1>8, <2>1, ReadKeepsAnswer, MessageKeeps, TextKeeps, ExplanationKeeps, CallKeeps,
             DeliverKeeps DEF AnswerNext
<1>9. CASE SseNext /\ UNCHANGED <<contractVars, answerVars>>
  BY <1>1, <1>2, <1>9 DEF contractVars, requestVars
<1> QED BY <1>3, <1>4, <1>5, <1>6, <1>7, <1>8, <1>9 DEF ExchangeNext

LEMMA AnswerInvariant == ExchangeSpec => []AnswerInv
<1>1. ExchangeInit => AnswerInv
  <2> SUFFICES ASSUME ExchangeInit PROVE AnswerInv
    OBVIOUS
  <2>1. protocol \in Dialects /\ exchange = "none" /\ part = <<0, 0>>
    BY DEF ExchangeInit, ContractInit, AnswerInit, Dialects
  <2> QED BY <2>1 DEF AnswerInv
<1>2. AnswerInv /\ [ExchangeNext]_exchangeVars => AnswerInv'
  BY ExchangeKeepsAnswer
<1> QED BY <1>1, <1>2, PTL DEF ExchangeSpec

(* The calls that are delivered are those that were written, restored.     *)
LEMMA DeliveredAre ==
    ASSUME AnswerInv, exchange = "delivered"
    PROVE  /\ DOMAIN DeliveredCalls = DOMAIN WrittenCalls
           /\ \A i \in DOMAIN DeliveredCalls :
                /\ DeliveredCalls[i].name = WrittenCalls[i].name
                /\ DeliveredCalls[i].custom <=> WrittenCalls[i].custom
                /\ CallIsRestored(DeliveredCalls[i])
<1>1. SameFrame /\ CallsAreRestored /\ Pending = {}
  BY DEF AnswerInv
<1>2. CallPlaces(Items) = CallPlaces(WrittenItems)
  BY <1>1 DEF SameFrame, SameItem, CallPlaces, IsCall
<1>3. DeliveredCalls = [i \in CallPlaces(Items) |-> CallOf(Items[i])]
  BY DEF DeliveredCalls, CallsOf, Items
<1>4. WrittenCalls = [i \in CallPlaces(WrittenItems) |-> CallOf(WrittenItems[i])]
  BY DEF WrittenCalls, CallsOf, WrittenItems
<1>5. ASSUME NEW i \in CallPlaces(WrittenItems)
      PROVE  /\ CallOf(Items[i]).name = CallOf(WrittenItems[i]).name
             /\ CallOf(Items[i]).custom <=> CallOf(WrittenItems[i]).custom
  <2>1. /\ Name(Items[i], "type") = Name(WrittenItems[i], "type")
        /\ Name(Items[i], "name") = Name(WrittenItems[i], "name")
    BY <1>1 DEF SameFrame, SameItem, CallPlaces
  <2> QED BY <2>1 DEF CallOf
<1>6. ASSUME NEW i \in CallPlaces(WrittenItems) PROVE CallIsRestored(CallOf(Items[i]))
  <2>1. ~Earlier(part, <<i, 1>>)
    BY <1>1, CallIsPart DEF Pending
  <2> QED BY <1>1, <2>1 DEF CallsAreRestored
<1> QED BY <1>2, <1>3, <1>4, <1>5, <1>6

(* What the registry calls a declared tool is one of the request's.        *)
LEMMA BoundToolIsDeclared ==
    ASSUME NEW p \in Dialects, NEW request, NEW name \in DOMAIN Binding(p, request).declared
    PROVE  \E t \in DOMAIN ToolsOf(request) :
             LET tool == ToolsOf(request)[t]
                 entry == Binding(p, request).declared[name] IN
             /\ Name(tool, "name") = name
             /\ entry.custom <=> p = "responses" /\ Name(tool, "type") = "custom"
             /\ entry.custom \/ entry.schema = At(tool, SchemaKey[p])
<1> DEFINE tools == ToolsOf(request)
           t == CHOOSE i \in DOMAIN tools : Of(Of(tools[i])["name"]) = name
           custom == p = "responses" /\ Of(Of(tools[t])["type"]) = "custom"
           declared == [n \in {Of(Of(tools[i])["name"]) : i \in DOMAIN tools} |->
                    LET tool == tools[CHOOSE i \in DOMAIN tools : Of(Of(tools[i])["name"]) = n]
                        isCustom == p = "responses" /\ Of(Of(tool)["type"]) = "custom"
                    IN [custom |-> isCustom,
                        schema |-> IF isCustom THEN Flag(TRUE) ELSE Of(tool)[SchemaKey[p]]]]
<1>1. Binding(p, request).declared = declared
  BY DEF Binding
<1>2. name \in {Of(Of(tools[i])["name"]) : i \in DOMAIN tools}
  BY <1>1
<1>3. t \in DOMAIN tools /\ Of(Of(tools[t])["name"]) = name
  BY <1>2
<1>4. declared[name] = [custom |-> custom,
                        schema |-> IF custom THEN Flag(TRUE) ELSE Of(tools[t])[SchemaKey[p]]]
  BY <1>2
<1> HIDE DEF tools, t, declared
<1>5. custom \/ declared[name].schema = Of(tools[t])[SchemaKey[p]]
  <2> DEFINE own == Of(tools[t])[SchemaKey[p]]
             schema == IF custom THEN Flag(TRUE) ELSE own
  <2>1. declared[name] = [custom |-> custom, schema |-> schema]
    BY <1>4
  <2>2. custom \/ schema = own
    OBVIOUS
  <2> HIDE DEF custom, schema, own
  <2>3. declared[name].schema = schema
    BY <2>1
  <2> QED BY <2>2, <2>3 DEF own
<1>6. declared[name].custom <=> custom
  <2> HIDE DEF custom
  <2> QED BY <1>4
<1> QED BY <1>1, <1>3, <1>5, <1>6 DEF tools, Name, At

(* What a request's choice and limits say is what the registry keeps.      *)
LEMMA BoundChoiceIsDeclared ==
    ASSUME NEW p \in Dialects, NEW request, NEW word,
           LET choice == Get(request, "tool_choice", Str("auto")) IN
           word = IF Kind(choice) = "str" THEN Of(choice)
                  ELSE IF p = "messages" THEN Name(choice, "type") ELSE "tool"
    PROVE  LET choice == Get(request, "tool_choice", Str("auto"))
               to == Binding(p, request) IN
           /\ word = "none" => to.forbidden
           /\ word \in {"required", "any", "tool"} => to.required
           /\ word = "tool" /\ Kind(choice) # "str" =>
                \E kind : to.selected = {<<Name(choice, "name"), kind>>}
           /\ p = "responses" =>
                /\ Get(request, "parallel_tool_calls", Flag(TRUE)) = Flag(FALSE) => 1 \in to.limits
                /\ Has(request, "max_tool_calls") => Name(request, "max_tool_calls") \in to.limits
           /\ p = "messages" /\ Kind(choice) = "obj" =>
                (Get(choice, "disable_parallel_tool_use", Flag(FALSE)) = Flag(TRUE) =>
                    1 \in to.limits)
<1> DEFINE choice == Get(request, "tool_choice", Str("auto"))
           to == Binding(p, request)
<1>1. /\ to.selected = ChoiceOf(p, request).tool
      /\ to.limits = CallLimits(p, request)
  BY DEF Binding
<1>2. /\ to.forbidden <=> ChoiceOf(p, request).word = "none"
      /\ to.required <=> ChoiceOf(p, request).word \in {"required", "any", "tool"}
  BY DEF Binding
<1>3. ChoiceOf(p, request).word = word
  BY DEF ChoiceOf, Name, At, Dialects
<1>4. word = "tool" /\ Kind(choice) # "str" =>
        \E kind : ChoiceOf(p, request).tool = {<<Name(choice, "name"), kind>>}
  BY DEF ChoiceOf, Name, At, Dialects
<1>5. p = "responses" =>
        /\ Get(request, "parallel_tool_calls", Flag(TRUE)) = Flag(FALSE) =>
                1 \in CallLimits(p, request)
        /\ Has(request, "max_tool_calls") =>
                Name(request, "max_tool_calls") \in CallLimits(p, request)
  BY DEF CallLimits, Has, Name, At
<1>6. p = "messages" /\ Kind(choice) = "obj" =>
        (Get(choice, "disable_parallel_tool_use", Flag(FALSE)) = Flag(TRUE) =>
                1 \in CallLimits(p, request))
  BY DEF CallLimits
<1> HIDE DEF choice, to
<1>7. /\ word = "none" => to.forbidden
      /\ word \in {"required", "any", "tool"} => to.required
  BY <1>2, <1>3
<1>8. word = "tool" /\ Kind(choice) # "str" =>
        \E kind : to.selected = {<<Name(choice, "name"), kind>>}
  BY <1>1, <1>4
<1> QED BY <1>1, <1>5, <1>6, <1>7, <1>8 DEF choice, to

(* An answer is delivered only with calls that the request asked for: of   *)
(* tools it declared, as many as it admits, the one it selected, and with  *)
(* arguments that satisfy the declared schema after their values have been *)
(* restored (validate_batch and BoundToolRegistry.restore); for every      *)
(* request and answer, whatever a schema admits.                           *)
THEOREM CallsAreAsDeclared == ExchangeSpec => []BatchAsDeclared
<1>1. ASSUME AnswerInv PROVE BatchAsDeclared
  <2> SUFFICES ASSUME exchange = "delivered" PROVE BatchAsDeclared
    BY DEF BatchAsDeclared
  <2> DEFINE calls == DeliveredCalls
             tools == ToolsOf(asked)
             choice == Get(asked, "tool_choice", Str("auto"))
             word == IF Kind(choice) = "str" THEN Of(choice)
                     ELSE IF dialect = "messages" THEN Name(choice, "type") ELSE "tool"
             atMost(n) == Cardinality(DOMAIN calls) <= n
             to == Binding(dialect, asked)
  <2>1. dialect \in Dialects /\ bound = to /\ BatchIsValid(to, WrittenCalls)
    BY <1>1 DEF AnswerInv
  <2>2. /\ DOMAIN calls = DOMAIN WrittenCalls
        /\ \A i \in DOMAIN calls :
            /\ calls[i].name = WrittenCalls[i].name
            /\ calls[i].custom <=> WrittenCalls[i].custom
            /\ CallIsRestored(calls[i])
    BY <1>1, DeliveredAre
  <2>3. /\ word = "none" => to.forbidden
        /\ word \in {"required", "any", "tool"} => to.required
        /\ word = "tool" /\ Kind(choice) # "str" =>
                \E kind : to.selected = {<<Name(choice, "name"), kind>>}
        /\ dialect = "responses" =>
            /\ Get(asked, "parallel_tool_calls", Flag(TRUE)) = Flag(FALSE) => 1 \in to.limits
            /\ Has(asked, "max_tool_calls") => Name(asked, "max_tool_calls") \in to.limits
        /\ dialect = "messages" /\ Kind(choice) = "obj" =>
            (Get(choice, "disable_parallel_tool_use", Flag(FALSE)) = Flag(TRUE) => 1 \in to.limits)
    BY <2>1, BoundChoiceIsDeclared
  <2> HIDE DEF calls, tools, choice, word, to
  <2>4. /\ \A most \in to.limits : atMost(most)
        /\ to.required => DOMAIN calls # {}
        /\ \A i \in DOMAIN calls : CallAllowed(to, WrittenCalls[i].name, WrittenCalls[i].custom)
    BY <2>1, <2>2 DEF BatchIsValid
  <2>5. ASSUME NEW c \in DOMAIN calls
        PROVE  \E t \in DOMAIN tools :
                 /\ Name(tools[t], "name") = calls[c].name
                 /\ calls[c].custom <=> dialect = "responses" /\ Name(tools[t], "type") = "custom"
                 /\ \/ calls[c].custom
                    \/ SchemaMatches(At(tools[t], SchemaKey[dialect]), Of(calls[c].arguments))
                 /\ word = "tool" /\ Kind(choice) # "str" => calls[c].name = Name(choice, "name")
    <3> DEFINE name == calls[c].name
               entry == to.declared[name]
    <3>1. CallAllowed(to, name, WrittenCalls[c].custom)
      BY <2>2, <2>4
    <3>2. name \in DOMAIN to.declared /\ (entry.custom <=> calls[c].custom)
      BY <2>2, <3>1 DEF CallAllowed
    <3>3. PICK t \in DOMAIN tools :
            /\ Name(tools[t], "name") = name
            /\ entry.custom <=> dialect = "responses" /\ Name(tools[t], "type") = "custom"
            /\ entry.custom \/ entry.schema = At(tools[t], SchemaKey[dialect])
      BY <2>1, <3>2, BoundToolIsDeclared DEF to, tools
    <3>4. calls[c].custom \/ SchemaMatches(entry.schema, Of(calls[c].arguments))
      BY <2>1, <2>2 DEF CallIsRestored
    <3>5. ASSUME word = "tool", Kind(choice) # "str" PROVE name = Name(choice, "name")
      <4>1. PICK kind : to.selected = {<<Name(choice, "name"), kind>>}
        BY <2>3, <3>5
      <4>2. to.selected \subseteq {<<name, WrittenCalls[c].custom>>}
        BY <3>1 DEF CallAllowed
      <4> DEFINE custom == WrittenCalls[c].custom
      <4> HIDE DEF name, custom
      <4>3. <<Name(choice, "name"), kind>> \in {<<name, custom>>}
        BY <4>1, <4>2 DEF custom
      <4> QED BY <4>3
    <3> HIDE DEF entry
    <3>6. calls[c].custom \/ SchemaMatches(At(tools[t], SchemaKey[dialect]), Of(calls[c].arguments))
      BY <3>2, <3>3, <3>4
    <3> QED BY <3>2, <3>3, <3>5, <3>6
  <2>6. word = "none" => DOMAIN calls = {}
    BY <2>3, <2>4 DEF CallAllowed
  <2>7. word \in {"required", "any", "tool"} => DOMAIN calls # {}
    BY <2>3, <2>4
  <2>8. dialect = "responses" =>
            /\ Get(asked, "parallel_tool_calls", Flag(TRUE)) = Flag(FALSE) => atMost(1)
            /\ Has(asked, "max_tool_calls") => atMost(Name(asked, "max_tool_calls"))
    BY <2>3, <2>4
  <2>9. dialect = "messages" /\ Kind(choice) = "obj" =>
            (Get(choice, "disable_parallel_tool_use", Flag(FALSE)) = Flag(TRUE) => atMost(1))
    BY <2>3, <2>4
  <2> HIDE DEF atMost
  <2> QED BY <2>5, <2>6, <2>7, <2>8, <2>9 DEF BatchAsDeclared, calls, tools, choice, word, atMost
<1> QED BY <1>1, AnswerInvariant, PTL

(* What is delivered has every call that was written and is within the     *)
(* limits of the answer and of each call (restore_response, RestoredBudget *)
(* and max_output_bytes), whatever values are put in.                      *)
THEOREM DeliveryIsBounded == ExchangeSpec => [](exchange = "delivered" => CallsAreBounded)
<1>1. ASSUME AnswerInv, exchange = "delivered" PROVE CallsAreBounded
  <2>1. DOMAIN DeliveredCalls = DOMAIN WrittenCalls
        /\ \A i \in DOMAIN DeliveredCalls : CallIsRestored(DeliveredCalls[i])
    BY <1>1, DeliveredAre
  <2> QED BY <1>1, <2>1 DEF AnswerInv, CallsAreBounded, CallIsRestored
<1> QED BY <1>1, AnswerInvariant, PTL

-----------------------------------------------------------------------------
(* The values of a document.                                               *)

(* What holds of 0 and of the number after each holds up to N.             *)
LEMMA Upwards ==
    ASSUME NEW N \in Nat, NEW G, 0 \in G, \A n \in 0 .. N - 1 : n \in G => n + 1 \in G
    PROVE  \A n \in 0 .. N : n \in G
<1> DEFINE T == {n \in 0 .. N : n \notin G}
<1>1. SUFFICES ASSUME T # {} PROVE FALSE
  OBVIOUS
<1>2. PICK n \in T : \A m \in T : n <= m
  <2>1. T \in SUBSET Nat
    OBVIOUS
  <2> HIDE DEF T
  <2> QED BY <1>1, <2>1, LeastNumber
<1>3. n # 0 /\ n - 1 \in 0 .. N - 1 /\ n - 1 \notin T
  BY <1>2
<1> QED BY <1>2, <1>3

(* One more level of visits.                                               *)
Level(f, j, s, n) ==
    IF n = 0 THEN {Visit(<<>>, j, s)}
    ELSE Deeper(f[n - 1], n - 1)

(* f tells the visits of each of the levels up to N.                       *)
Levels(f, j, s, N) == f = [n \in 0 .. N |-> Level(f, j, s, n)]

LEMMA VisitsExist ==
    ASSUME NEW j, NEW s
    PROVE  \E f : Levels(f, j, s, MaxNesting)
<1> DEFINE G == {n \in 0 .. MaxNesting : \E f : Levels(f, j, s, n)}
<1>1. MaxNesting \in Nat
  BY NestingAssumption
<1>2. 0 \in G
  <2> DEFINE f == [m \in 0 .. 0 |-> {Visit(<<>>, j, s)}]
  <2>1. \A m \in 0 .. 0 : Level(f, j, s, m) = {Visit(<<>>, j, s)}
    BY DEF Level
  <2>2. Levels(f, j, s, 0)
    BY <2>1 DEF Levels
  <2> QED BY <1>1, <2>2
<1>3. ASSUME NEW n \in 0 .. MaxNesting - 1, n \in G PROVE n + 1 \in G
  <2>1. PICK g : Levels(g, j, s, n)
    BY <1>3
  <2> DEFINE f == [m \in 0 .. n + 1 |-> IF m = n + 1 THEN Level(g, j, s, m) ELSE g[m]]
  <2>2. \A m \in 0 .. n : f[m] = g[m]
    BY <1>1
  <2>3. \A m \in 0 .. n + 1 : Level(f, j, s, m) = Level(g, j, s, m)
    <3> TAKE m \in 0 .. n + 1
    <3>1. m = 0 \/ f[m - 1] = g[m - 1]
      BY <1>1, <2>2
    <3> HIDE DEF f
    <3> QED BY <3>1 DEF Level
  <2>4. \A m \in 0 .. n + 1 : f[m] = Level(f, j, s, m)
    <3> SUFFICES ASSUME NEW m \in 0 .. n + 1 PROVE f[m] = Level(g, j, s, m)
      BY <2>3
    <3>1. CASE m = n + 1
      BY <3>1
    <3>2. CASE m # n + 1
      <4>1. m \in 0 .. n
        BY <1>1, <3>2
      <4>2. g[m] = Level(g, j, s, m)
        BY <2>1, <4>1 DEF Levels
      <4> QED BY <3>2, <4>2
    <3> QED BY <3>1, <3>2
  <2>5. Levels(f, j, s, n + 1)
    <3>1. DOMAIN f = 0 .. n + 1 /\ f = [m \in DOMAIN f |-> f[m]]
      OBVIOUS
    <3> HIDE DEF f
    <3> QED BY <3>1, <2>4 DEF Levels
  <2> HIDE DEF f
  <2>6. n + 1 \in 0 .. MaxNesting
    BY <1>1
  <2> QED BY <2>5, <2>6
<1> HIDE DEF G
<1>4. MaxNesting \in G
  BY <1>1, <1>2, <1>3, Upwards
<1> QED BY <1>4 DEF G

(* The visits of a document: what VisitsUpTo says, level by level.         *)
LEMMA VisitsAre ==
    ASSUME NEW j, NEW s
    PROVE  \E f : f = VisitsUpTo(j, s) /\ Levels(f, j, s, MaxNesting)
<1> DEFINE f == CHOOSE g : g = [n \in 0 .. MaxNesting |->
                    IF n = 0 THEN {Visit(<<>>, j, s)}
                    ELSE Deeper(g[n - 1], n - 1)]
<1>1. VisitsUpTo(j, s) = f
  BY DEF VisitsUpTo
<1>2. \E g : g = [n \in 0 .. MaxNesting |->
                    IF n = 0 THEN {Visit(<<>>, j, s)}
                    ELSE Deeper(g[n - 1], n - 1)]
  BY VisitsExist DEF Levels, Level
<1>3. f = [n \in 0 .. MaxNesting |->
                    IF n = 0 THEN {Visit(<<>>, j, s)}
                    ELSE Deeper(f[n - 1], n - 1)]
  BY <1>2
<1>4. Levels(f, j, s, MaxNesting)
  BY <1>3 DEF Levels, Level
<1> QED BY <1>1, <1>4

(* A path is a sequence.                                                   *)
IsPath(p) == \E S : p \in Seq(S)

LEMMA NoPath == IsPath(<<>>) /\ Len(<<>>) = 0
<1>1. <<>> \in Seq({})
  OBVIOUS
<1> QED BY <1>1 DEF IsPath

LEMMA PathGoesOn ==
    ASSUME NEW p, IsPath(p), NEW k
    PROVE  /\ Len(p) \in Nat /\ IsPath(Append(p, k)) /\ Len(Append(p, k)) = Len(p) + 1
           /\ Append(p, k)[Len(p) + 1] = k
           /\ \A i \in 1 .. Len(p) : Append(p, k)[i] = p[i]
<1>1. PICK S : p \in Seq(S)
  BY DEF IsPath
<1> DEFINE T == S \cup {k}
<1>2. p \in Seq(T) /\ k \in T
  BY <1>1
<1> HIDE DEF T
<1>3. Append(p, k) \in Seq(T)
  BY <1>2
<1> QED BY <1>2, <1>3 DEF IsPath

LEMMA SamePath ==
    ASSUME NEW p, NEW q, IsPath(p), IsPath(q), Len(p) = Len(q), \A i \in 1 .. Len(p) : p[i] = q[i]
    PROVE  p = q
<1>1. PICK S : p \in Seq(S)
  BY DEF IsPath
<1>2. PICK T : q \in Seq(T)
  BY DEF IsPath
<1>3. p \in Seq(S \cup T) /\ q \in Seq(S \cup T)
  BY <1>1, <1>2
<1> QED BY <1>3

(* What is visited below a visit.                                          *)
LEMMA BelowIs ==
    ASSUME NEW v, NEW w \in Below(v)
    PROVE  \E k \in Steps(v[2]) : w[1] = Append(v[1], k) /\ w[2] = Child(v[2], k)
BY DEF Below, Visit

(* A visit is first made on the level of its path, and is still there on   *)
(* every later one.                                                        *)
LEMMA VisitsByLevel ==
    ASSUME NEW j, NEW s, NEW f, Levels(f, j, s, MaxNesting)
    PROVE  \A n \in 0 .. MaxNesting :
             /\ \A v \in f[n] : IsPath(v[1]) /\ Len(v[1]) \in 0 .. n /\ v \in f[Len(v[1])]
             /\ \A m \in 0 .. n : f[m] \subseteq f[n]
<1> DEFINE Holds1(n) == \A v \in f[n] : IsPath(v[1]) /\ Len(v[1]) \in 0 .. n /\ v \in f[Len(v[1])]
           Holds2(n) == \A m \in 0 .. n : f[m] \subseteq f[n]
           G == {n \in 0 .. MaxNesting : Holds1(n) /\ Holds2(n)}
<1>1. MaxNesting \in Nat
  BY NestingAssumption
<1>2. 0 \in G
  <2>1. f[0] = {Visit(<<>>, j, s)}
    BY <1>1 DEF Levels, Level
  <2>2. ASSUME NEW v \in f[0] PROVE v[1] = <<>>
    BY <2>1 DEF Visit
  <2> QED BY <1>1, <2>2, NoPath
<1>3. ASSUME NEW n \in 0 .. MaxNesting - 1, n \in G PROVE n + 1 \in G
  <2>1. f[n + 1] = f[n] \cup UNION {Below(v) : v \in {v \in f[n] : Len(v[1]) = n}}
    <3>1. n + 1 \in 0 .. MaxNesting /\ n + 1 # 0 /\ (n + 1) - 1 = n
      BY <1>1
    <3>2. f[n + 1] = Deeper(f[n], n)
      BY <3>1 DEF Levels, Level
    <3> QED BY <3>2 DEF Deeper
  <2>2. Holds1(n) /\ Holds2(n)
    BY <1>3
  <2>3. ASSUME NEW v \in f[n + 1], v \notin f[n] PROVE IsPath(v[1]) /\ Len(v[1]) = n + 1
    <3>1. PICK u \in f[n] : Len(u[1]) = n /\ v \in Below(u)
      BY <2>1, <2>3
    <3>2. PICK k : v[1] = Append(u[1], k)
      BY <3>1, BelowIs
    <3> QED BY <2>2, <3>1, <3>2, PathGoesOn
  <2>4. Holds1(n + 1)
    BY <1>1, <2>2, <2>3
  <2>5. Holds2(n + 1)
    <3> SUFFICES ASSUME NEW m \in 0 .. n + 1 PROVE f[m] \subseteq f[n + 1]
      OBVIOUS
    <3>1. m = n + 1 \/ m \in 0 .. n
      BY <1>1
    <3> QED BY <2>1, <2>2, <3>1
  <2> HIDE DEF Holds1, Holds2
  <2> QED BY <1>1, <2>4, <2>5
<1> HIDE DEF G
<1>4. \A n \in 0 .. MaxNesting : n \in G
  BY <1>1, <1>2, <1>3, Upwards
<1> QED BY <1>4 DEF G

(* The visits of a document: the document itself, what is below a visit,   *)
(* and nothing else.                                                       *)
LEMMA VisitsBegin ==
    ASSUME NEW j, NEW s
    PROVE  Visit(<<>>, j, s) \in Visits(j, s)
<1>1. PICK f : f = VisitsUpTo(j, s) /\ Levels(f, j, s, MaxNesting)
  BY VisitsAre
<1>2. MaxNesting \in Nat /\ 0 \in 0 .. MaxNesting /\ MaxNesting \in 0 .. MaxNesting
  BY NestingAssumption
<1>3. f[0] \subseteq f[MaxNesting]
  BY <1>1, <1>2, VisitsByLevel
<1>4. f[0] = {Visit(<<>>, j, s)}
  BY <1>1, <1>2 DEF Levels, Level
<1> QED BY <1>1, <1>3, <1>4 DEF Visits

LEMMA VisitsGoOn ==
    ASSUME NEW j, NEW s, NEW v \in Visits(j, s)
    PROVE  /\ IsPath(v[1])
           /\ Len(v[1]) < MaxNesting => Below(v) \subseteq Visits(j, s)
<1>1. PICK f : f = VisitsUpTo(j, s) /\ Levels(f, j, s, MaxNesting)
  BY VisitsAre
<1>2. MaxNesting \in Nat /\ MaxNesting \in 0 .. MaxNesting
  BY NestingAssumption
<1>3. v \in f[MaxNesting]
  BY <1>1 DEF Visits
<1>4. IsPath(v[1]) /\ Len(v[1]) \in 0 .. MaxNesting /\ v \in f[Len(v[1])]
  BY <1>1, <1>2, <1>3, VisitsByLevel
<1>5. ASSUME Len(v[1]) < MaxNesting PROVE Below(v) \subseteq f[MaxNesting]
  <2> DEFINE n == Len(v[1])
  <2>1. n + 1 \in 0 .. MaxNesting /\ n + 1 # 0 /\ (n + 1) - 1 = n
    BY <1>2, <1>4, <1>5
  <2>2. f[n + 1] = Deeper(f[n], n)
    BY <1>1, <2>1 DEF Levels, Level
  <2>3. Below(v) \subseteq f[n + 1]
    BY <1>4, <2>2 DEF Deeper
  <2>4. f[n + 1] \subseteq f[MaxNesting]
    BY <1>1, <1>2, <2>1, VisitsByLevel
  <2> QED BY <2>3, <2>4
<1> QED BY <1>1, <1>4, <1>5 DEF Visits

LEMMA VisitsOnly ==
    ASSUME NEW j, NEW s, NEW G, Visit(<<>>, j, s) \in G,
           \A v \in G : v \in Visits(j, s) /\ Len(v[1]) < MaxNesting => Below(v) \subseteq G
    PROVE  Visits(j, s) \subseteq G
<1>1. PICK f : f = VisitsUpTo(j, s) /\ Levels(f, j, s, MaxNesting)
  BY VisitsAre
<1> DEFINE H == {n \in 0 .. MaxNesting : f[n] \subseteq G}
<1>2. MaxNesting \in Nat /\ MaxNesting \in 0 .. MaxNesting
  BY NestingAssumption
<1>3. 0 \in H
  BY <1>1, <1>2 DEF Levels, Level
<1>4. ASSUME NEW n \in 0 .. MaxNesting - 1, n \in H PROVE n + 1 \in H
  <2>1. /\ n + 1 \in 0 .. MaxNesting /\ n \in 0 .. MaxNesting
        /\ n + 1 # 0 /\ (n + 1) - 1 = n /\ n < MaxNesting
    BY <1>2
  <2>5. f[n + 1] = Deeper(f[n], n)
    BY <1>1, <2>1 DEF Levels, Level
  <2>6. f[n] \subseteq f[MaxNesting]
    BY <1>1, <1>2, <2>1, VisitsByLevel
  <2>2. f[n + 1] = Deeper(f[n], n) /\ f[n] \subseteq f[MaxNesting] /\ f[n] \subseteq G
    BY <1>4, <2>5, <2>6
  <2>3. ASSUME NEW v \in f[n], Len(v[1]) = n PROVE Below(v) \subseteq G
    BY <1>1, <2>1, <2>2, <2>3 DEF Visits
  <2>4. f[n + 1] \subseteq G
    BY <2>2, <2>3 DEF Deeper
  <2> QED BY <2>1, <2>4
<1> HIDE DEF H
<1>5. MaxNesting \in H
  BY <1>2, <1>3, <1>4, Upwards
<1> QED BY <1>1, <1>5 DEF H, Visits

(* Looked at as a whole, a document is entered everywhere.                 *)
LEMMA WholeVisits ==
    ASSUME NEW j, NEW v \in Visits(j, Whole)
    PROVE  v = Visit(v[1], v[2], Whole) /\ v[3] = Whole
<1> DEFINE G == {u \in Visits(j, Whole) : u = Visit(u[1], u[2], Whole)}
<1>1. \A p, x : Visit(p, x, Whole) = <<p, x, Whole>>
  BY DEF Visit, Chosen, Whole
<1>2. Visit(<<>>, j, Whole) \in G
  BY <1>1, VisitsBegin
<1>3. ASSUME NEW u \in G, Len(u[1]) < MaxNesting PROVE Below(u) \subseteq G
  <2>1. u[3] = Whole
    BY <1>1
  <2> SUFFICES ASSUME NEW w \in Below(u) PROVE w = Visit(w[1], w[2], Whole)
    BY <1>3, VisitsGoOn
  <2>2. PICK k : w = Visit(Append(u[1], k), Child(u[2], k), ShapeAt(Whole, k))
    BY <2>1 DEF Below
  <2>3. ShapeAt(Whole, k) = Whole
    BY DEF ShapeAt, Whole
  <2> QED BY <1>1, <2>2, <2>3
<1>4. Visits(j, Whole) \subseteq G
  BY <1>2, <1>3, VisitsOnly
<1> QED BY <1>1, <1>4

LEMMA NodesBegin == ASSUME NEW j PROVE <<<<>>, j>> \in Nodes(j)
<1> DEFINE v == Visit(<<>>, j, Whole)
<1>1. v[1] = <<>> /\ v[2] = j
  BY DEF Visit
<1>2. v \in Visits(j, Whole)
  BY VisitsBegin
<1> HIDE DEF v
<1> QED BY <1>1, <1>2 DEF Nodes

LEMMA NodesGoOn ==
    ASSUME NEW j, NEW n \in Nodes(j)
    PROVE  /\ n = <<n[1], n[2]>> /\ IsPath(n[1])
           /\ Len(n[1]) < MaxNesting =>
                 \A k \in Steps(n[2]) : <<Append(n[1], k), Child(n[2], k)>> \in Nodes(j)
<1>1. PICK v \in Visits(j, Whole) : n = <<v[1], v[2]>>
  BY DEF Nodes
<1>2. v[3] = Whole /\ IsPath(v[1])
  BY WholeVisits, VisitsGoOn
<1>3. Entered(v)
  BY <1>2 DEF Entered, Whole
<1>4. ASSUME Len(v[1]) < MaxNesting, NEW k \in Steps(v[2])
      PROVE  <<Append(v[1], k), Child(v[2], k)>> \in Nodes(j)
  <2>1. Visit(Append(v[1], k), Child(v[2], k), ShapeAt(v[3], k)) \in Below(v)
    BY <1>3 DEF Below
  <2>2. Visit(Append(v[1], k), Child(v[2], k), ShapeAt(v[3], k)) \in Visits(j, Whole)
    BY <1>4, <2>1, VisitsGoOn
  <2> QED BY <2>2 DEF Nodes, Visit
<1> QED BY <1>1, <1>2, <1>4

LEMMA NodesOnly ==
    ASSUME NEW j, NEW G, <<<<>>, j>> \in G,
           \A n \in G : n \in Nodes(j) /\ Len(n[1]) < MaxNesting =>
              \A k \in Steps(n[2]) : <<Append(n[1], k), Child(n[2], k)>> \in G
    PROVE  Nodes(j) \subseteq G
<1> DEFINE H == {v \in Visits(j, Whole) : <<v[1], v[2]>> \in G}
<1>1. Visit(<<>>, j, Whole) \in H
  BY VisitsBegin DEF Visit
<1>2. ASSUME NEW v \in H, Len(v[1]) < MaxNesting PROVE Below(v) \subseteq H
  <2> SUFFICES ASSUME NEW w \in Below(v) PROVE <<w[1], w[2]>> \in G
    BY <1>2, VisitsGoOn
  <2>1. PICK k \in Steps(v[2]) : w[1] = Append(v[1], k) /\ w[2] = Child(v[2], k)
    BY BelowIs
  <2>2. <<v[1], v[2]>> \in Nodes(j) /\ <<v[1], v[2]>> \in G
    BY DEF Nodes
  <2> QED BY <1>2, <2>1, <2>2
<1>3. Visits(j, Whole) \subseteq H
  BY <1>1, <1>2, VisitsOnly
<1> QED BY <1>3 DEF Nodes

(* What a parser visits is in the document.                                *)
LEMMA VisitsAreNodes ==
    ASSUME NEW j, NestsWithin(j), NEW s, NEW v \in Visits(j, s)
    PROVE  <<v[1], v[2]>> \in Nodes(j)
<1> DEFINE G == {u \in Visits(j, s) : <<u[1], u[2]>> \in Nodes(j)}
<1>1. Visit(<<>>, j, s) \in G
  BY VisitsBegin, NodesBegin DEF Visit
<1>2. ASSUME NEW u \in G, Len(u[1]) < MaxNesting PROVE Below(u) \subseteq G
  <2> SUFFICES ASSUME NEW w \in Below(u) PROVE <<w[1], w[2]>> \in Nodes(j)
    BY <1>2, VisitsGoOn
  <2>1. PICK k \in Steps(u[2]) : w[1] = Append(u[1], k) /\ w[2] = Child(u[2], k)
    BY BelowIs
  <2> DEFINE n == <<u[1], u[2]>>
  <2>2. n \in Nodes(j) /\ n[1] = u[1] /\ n[2] = u[2]
    OBVIOUS
  <2> HIDE DEF n
  <2> QED BY <1>2, <2>1, <2>2, NodesGoOn
<1>3. Visits(j, s) \subseteq G
  BY <1>1, <1>2, VisitsOnly
<1> QED BY <1>3

-----------------------------------------------------------------------------
(* Where a path leads, and what replace_location changes on it.            *)

\* f tells where the first m steps of a path lead, for all m up to n
LeadsTo(f, j, path, n) == f = [m \in 0 .. n |-> IF m = 0 THEN j ELSE Child(f[m - 1], path[m])]

LEMMA AlongExists ==
    ASSUME NEW j, NEW path, Len(path) \in Nat
    PROVE  \E f : LeadsTo(f, j, path, Len(path))
<1> DEFINE N == Len(path)
           G == {n \in 0 .. N : \E f : LeadsTo(f, j, path, n)}
<1>1. N \in Nat
  OBVIOUS
<1> HIDE DEF N
<1>2. 0 \in G
  <2> DEFINE f == [m \in 0 .. 0 |-> j]
  <2>1. LeadsTo(f, j, path, 0)
    BY DEF LeadsTo
  <2> QED BY <1>1, <2>1
<1>3. ASSUME NEW n \in 0 .. N - 1, n \in G PROVE n + 1 \in G
  <2>1. PICK g : LeadsTo(g, j, path, n)
    BY <1>3
  <2> DEFINE f == [m \in 0 .. n + 1 |-> IF m = n + 1 THEN Child(g[n], path[n + 1]) ELSE g[m]]
  <2>2. \A m \in 0 .. n : f[m] = g[m] /\ g[m] = IF m = 0 THEN j ELSE Child(g[m - 1], path[m])
    BY <1>1, <2>1 DEF LeadsTo
  <2>3. \A m \in 0 .. n + 1 : f[m] = IF m = 0 THEN j ELSE Child(f[m - 1], path[m])
    <3> TAKE m \in 0 .. n + 1
    <3>1. CASE m = n + 1
      <4>1. f[m] = Child(g[n], path[n + 1]) /\ m # 0 /\ m - 1 = n /\ f[n] = g[n]
        BY <1>1, <2>2, <3>1
      <4> HIDE DEF f
      <4> QED BY <3>1, <4>1
    <3>2. CASE m # n + 1
      <4>1. m \in 0 .. n /\ (m = 0 \/ m - 1 \in 0 .. n)
        BY <1>1, <3>2
      <4>2. f[m] = g[m] /\ (m = 0 \/ f[m - 1] = g[m - 1])
        BY <2>2, <4>1
      <4> HIDE DEF f
      <4> QED BY <2>2, <4>1, <4>2
    <3> QED BY <3>1, <3>2
  <2>4. DOMAIN f = 0 .. n + 1 /\ f = [m \in DOMAIN f |-> f[m]]
    OBVIOUS
  <2> HIDE DEF f
  <2>5. LeadsTo(f, j, path, n + 1)
    BY <2>3, <2>4 DEF LeadsTo
  <2>6. n + 1 \in 0 .. N
    BY <1>1
  <2> QED BY <2>5, <2>6
<1> HIDE DEF G
<1>4. \A n \in 0 .. N : n \in G
  BY <1>1, <1>2, <1>3, Upwards
<1>5. N \in G
  BY <1>1, <1>4
<1> QED BY <1>5 DEF G, N

LEMMA AlongIs ==
    ASSUME NEW j, NEW path, Len(path) \in Nat
    PROVE  /\ Along(j, path)[0] = j
           /\ \A m \in 1 .. Len(path) : Along(j, path)[m] = Child(Along(j, path)[m - 1], path[m])
<1> DEFINE f == CHOOSE g : g = [m \in 0 .. Len(path) |->
                    IF m = 0 THEN j ELSE Child(g[m - 1], path[m])]
<1>1. Along(j, path) = f
  BY DEF Along
<1>2. \E g : g = [m \in 0 .. Len(path) |-> IF m = 0 THEN j ELSE Child(g[m - 1], path[m])]
  <2> HIDE DEF f
  <2>1. PICK h : LeadsTo(h, j, path, Len(path))
    BY AlongExists
  <2>2. h = [m \in 0 .. Len(path) |-> IF m = 0 THEN j ELSE Child(h[m - 1], path[m])]
    BY <2>1 DEF LeadsTo
  <2> QED BY <2>2
<1>3. f = [m \in 0 .. Len(path) |-> IF m = 0 THEN j ELSE Child(f[m - 1], path[m])]
  BY <1>2
<1> HIDE DEF f
<1>4. \A m \in 0 .. Len(path) : f[m] = IF m = 0 THEN j ELSE Child(f[m - 1], path[m])
  BY <1>3
<1> QED BY <1>1, <1>4

\* what becomes of the value before the last m steps of a path, if f tells
\* what becomes of the one after the first of them
Rewritten(f, value, path, leaf, m) ==
    IF m = 0 THEN leaf ELSE With(value[Len(path) - m], path[Len(path) - m + 1], f[m - 1])

\* f tells it for all m up to n
Rewrites(f, value, path, leaf, n) == f = [m \in 0 .. n |-> Rewritten(f, value, path, leaf, m)]

LEMMA ChangedExists ==
    ASSUME NEW value, NEW path, NEW leaf, Len(path) \in Nat
    PROVE  \E f : Rewrites(f, value, path, leaf, Len(path))
<1> DEFINE N == Len(path)
           G == {n \in 0 .. N : \E f : Rewrites(f, value, path, leaf, n)}
<1>1. N \in Nat
  OBVIOUS
<1> HIDE DEF N
<1>2. 0 \in G
  <2> DEFINE f == [m \in 0 .. 0 |-> leaf]
  <2>1. Rewrites(f, value, path, leaf, 0)
    BY DEF Rewrites, Rewritten
  <2> QED BY <1>1, <2>1
<1>3. ASSUME NEW n \in 0 .. N - 1, n \in G PROVE n + 1 \in G
  <2>1. PICK g : Rewrites(g, value, path, leaf, n)
    BY <1>3
  <2> DEFINE f == [m \in 0 .. n + 1 |->
                    IF m = n + 1 THEN Rewritten(g, value, path, leaf, m) ELSE g[m]]
  <2>2. \A m \in 0 .. n : f[m] = g[m]
    BY <1>1
  <2>3. \A m \in 0 .. n + 1 :
            Rewritten(f, value, path, leaf, m) = Rewritten(g, value, path, leaf, m)
    <3> TAKE m \in 0 .. n + 1
    <3>1. m = 0 \/ f[m - 1] = g[m - 1]
      BY <1>1, <2>2
    <3> HIDE DEF f
    <3> QED BY <3>1 DEF Rewritten
  <2>4. \A m \in 0 .. n + 1 : f[m] = Rewritten(f, value, path, leaf, m)
    <3> SUFFICES ASSUME NEW m \in 0 .. n + 1 PROVE f[m] = Rewritten(g, value, path, leaf, m)
      BY <2>3
    <3>1. CASE m = n + 1
      BY <3>1
    <3>2. CASE m # n + 1
      <4>1. m \in 0 .. n
        BY <1>1, <3>2
      <4>2. g[m] = Rewritten(g, value, path, leaf, m)
        BY <2>1, <4>1 DEF Rewrites
      <4> QED BY <3>2, <4>2
    <3> QED BY <3>1, <3>2
  <2>5. Rewrites(f, value, path, leaf, n + 1)
    <3>1. DOMAIN f = 0 .. n + 1 /\ f = [m \in DOMAIN f |-> f[m]]
      OBVIOUS
    <3> HIDE DEF f
    <3> QED BY <3>1, <2>4 DEF Rewrites
  <2> HIDE DEF f
  <2>6. n + 1 \in 0 .. N
    BY <1>1
  <2> QED BY <2>5, <2>6
<1> HIDE DEF G
<1>4. \A n \in 0 .. N : n \in G
  BY <1>1, <1>2, <1>3, Upwards
<1>5. N \in G
  BY <1>1, <1>4
<1> QED BY <1>5 DEF G, N

LEMMA ChangedIs ==
    ASSUME NEW value, NEW path, NEW leaf, Len(path) \in Nat
    PROVE  LET f == Changed(value, path, leaf) IN
           /\ f[0] = leaf
           /\ \A m \in 1 .. Len(path) :
                f[m] = With(value[Len(path) - m], path[Len(path) - m + 1], f[m - 1])
<1> DEFINE f == CHOOSE g : g = [m \in 0 .. Len(path) |->
                    IF m = 0 THEN leaf
                    ELSE With(value[Len(path) - m], path[Len(path) - m + 1], g[m - 1])]
<1>1. Changed(value, path, leaf) = f
  BY DEF Changed
<1>2. \E g : g = [m \in 0 .. Len(path) |->
                    IF m = 0 THEN leaf
                    ELSE With(value[Len(path) - m], path[Len(path) - m + 1], g[m - 1])]
  <2> HIDE DEF f
  <2>1. PICK h : Rewrites(h, value, path, leaf, Len(path))
    BY ChangedExists
  <2>2. h = [m \in 0 .. Len(path) |->
                IF m = 0 THEN leaf
                ELSE With(value[Len(path) - m], path[Len(path) - m + 1], h[m - 1])]
    BY <2>1 DEF Rewrites, Rewritten
  <2> QED BY <2>2
<1>3. f = [m \in 0 .. Len(path) |->
                    IF m = 0 THEN leaf
                    ELSE With(value[Len(path) - m], path[Len(path) - m + 1], f[m - 1])]
  BY <1>2
<1> HIDE DEF f
<1>4. \A m \in 0 .. Len(path) :
            f[m] = IF m = 0 THEN leaf
                   ELSE With(value[Len(path) - m], path[Len(path) - m + 1], f[m - 1])
  BY <1>3
<1> QED BY <1>1, <1>4

\* the beginning of a path
Leads(p, path) == Len(p) <= Len(path) /\ \A i \in 1 .. Len(p) : p[i] = path[i]

(* A node on the way to another one is where the way leads.                *)
LEMMA NodeIsAlong ==
    ASSUME NEW j, NEW path, IsPath(path), NEW n \in Nodes(j), Leads(n[1], path)
    PROVE  n[2] = Along(j, path)[Len(n[1])]
<1> DEFINE A == Along(j, path)
           G == {m \in Nodes(j) : Leads(m[1], path) => m[2] = A[Len(m[1])]}
<1>1. Len(path) \in Nat
  BY DEF IsPath
<1>2. <<<<>>, j>> \in G
  BY <1>1, NodesBegin, NoPath, AlongIs
<1>3. ASSUME NEW m \in G, Len(m[1]) < MaxNesting, NEW k \in Steps(m[2])
      PROVE  <<Append(m[1], k), Child(m[2], k)>> \in G
  <2> DEFINE q == Append(m[1], k)
             c == <<q, Child(m[2], k)>>
  <2>1. c \in Nodes(j) /\ IsPath(m[1])
    BY <1>3, NodesGoOn
  <2>2. Len(m[1]) \in Nat /\ Len(q) = Len(m[1]) + 1 /\ q[Len(m[1]) + 1] = k
        /\ \A i \in 1 .. Len(m[1]) : q[i] = m[1][i]
    BY <2>1, PathGoesOn
  <2>3. ASSUME Leads(q, path) PROVE Child(m[2], k) = A[Len(q)]
    <3> HIDE DEF q
    <3>1. Leads(m[1], path) /\ path[Len(m[1]) + 1] = k /\ Len(q) \in 1 .. Len(path)
      BY <1>1, <2>2, <2>3 DEF Leads
    <3>2. m[2] = A[Len(m[1])]
      BY <3>1
    <3>3. A[Len(q)] = Child(A[Len(q) - 1], path[Len(q)])
      BY <1>1, <3>1, AlongIs
    <3> HIDE DEF A
    <3> QED BY <2>2, <3>1, <3>2, <3>3
  <2>4. c[1] = q /\ c[2] = Child(m[2], k)
    OBVIOUS
  <2> HIDE DEF A, q, c
  <2>5. c \in G
    BY <2>1, <2>3, <2>4
  <2> QED BY <2>5 DEF c, q
<1>4. Nodes(j) \subseteq G
  BY <1>2, <1>3, NodesOnly
<1> QED BY <1>4

(* At the end of a path there is one value, and each step of the path is   *)
(* one of the values on the way.                                           *)
LEMMA NodesAgree ==
    ASSUME NEW j, NEW n \in Nodes(j), NEW m \in Nodes(j), n[1] = m[1]
    PROVE  n = m
<1>1. IsPath(n[1]) /\ n = <<n[1], n[2]>> /\ m = <<m[1], m[2]>>
  BY NodesGoOn
<1>2. Len(n[1]) \in Nat
  BY <1>1 DEF IsPath
<1>3. Leads(n[1], n[1]) /\ Leads(m[1], n[1])
  BY <1>2 DEF Leads
<1>4. n[2] = m[2]
  BY <1>1, <1>3, NodeIsAlong
<1> QED BY <1>1, <1>4

\* a path goes further than another one, and the same way
Passes(p, path) == Len(p) < Len(path) /\ \A i \in 1 .. Len(p) : p[i] = path[i]

LEMMA PathIsOfSteps ==
    ASSUME NEW j, NEW end \in Nodes(j), NEW n \in Nodes(j), Passes(n[1], end[1])
    PROVE  end[1][Len(n[1]) + 1] \in Steps(n[2])
<1> DEFINE p == n[1]
           G == {m \in Nodes(j) : Passes(p, m[1]) => m[1][Len(p) + 1] \in Steps(n[2])}
<1>1. IsPath(p) /\ Len(p) \in Nat
  BY NodesGoOn DEF IsPath
<1>2. <<<<>>, j>> \in G
  BY <1>1, NodesBegin, NoPath DEF Passes
<1>3. ASSUME NEW m \in G, Len(m[1]) < MaxNesting, NEW k \in Steps(m[2])
      PROVE  <<Append(m[1], k), Child(m[2], k)>> \in G
  <2> DEFINE q == Append(m[1], k)
             c == <<q, Child(m[2], k)>>
  <2>1. c \in Nodes(j) /\ IsPath(m[1])
    BY <1>3, NodesGoOn
  <2>2. Len(m[1]) \in Nat /\ Len(q) = Len(m[1]) + 1 /\ q[Len(m[1]) + 1] = k
        /\ \A i \in 1 .. Len(m[1]) : q[i] = m[1][i]
    BY <2>1, PathGoesOn
  <2>3. ASSUME Passes(p, q) PROVE q[Len(p) + 1] \in Steps(n[2])
    <3>1. CASE Len(p) < Len(m[1])
      <4>1. Passes(p, m[1]) /\ q[Len(p) + 1] = m[1][Len(p) + 1]
        <5> HIDE DEF q, p
        <5> QED BY <1>1, <2>2, <2>3, <3>1 DEF Passes
      <4> QED BY <4>1
    <3>2. CASE Len(p) = Len(m[1])
      <4>1. \A i \in 1 .. Len(p) : p[i] = m[1][i]
        <5> HIDE DEF q, p
        <5> QED BY <1>1, <2>2, <2>3, <3>2 DEF Passes
      <4>2. p = m[1]
        BY <1>1, <2>1, <3>2, <4>1, SamePath
      <4>3. n = m
        BY <4>2, NodesAgree
      <4> QED BY <2>2, <4>3
    <3>3. Len(p) < Len(m[1]) \/ Len(p) = Len(m[1])
      <4> HIDE DEF q, p
      <4> QED BY <1>1, <2>2, <2>3 DEF Passes
    <3> QED BY <3>1, <3>2, <3>3
  <2>4. c[1] = q
    OBVIOUS
  <2> HIDE DEF p, q, c
  <2>5. c \in G
    BY <2>1, <2>3, <2>4
  <2> QED BY <2>5 DEF c, q
<1>4. Nodes(j) \subseteq G
  BY <1>2, <1>3, NodesOnly
<1> QED BY <1>4

(* A value with one of those directly inside replaced.                     *)
LEMMA WithSteps ==
    ASSUME NEW j, NEW k \in Steps(j), NEW new
    PROVE  /\ Kind(With(j, k, new)) = Kind(j) /\ Steps(With(j, k, new)) = Steps(j)
           /\ Child(With(j, k, new), k) = new
           /\ \A m \in Steps(j) \ {k} : Child(With(j, k, new), m) = Child(j, m)
<1>1. CASE Kind(j) = "enc"
  <2>1. With(j, k, new) = Enc(new)
    BY <1>1 DEF With
  <2>2. Kind(With(j, k, new)) = "enc" /\ Of(With(j, k, new)) = new
    BY <2>1 DEF Enc, Kind, Of
  <2>3. Steps(j) = {Decoded} /\ Steps(With(j, k, new)) = {Decoded}
    BY <1>1, <2>2 DEF Steps
  <2> QED BY <1>1, <2>2, <2>3 DEF Child
<1>2. CASE Kind(j) \in {"arr", "obj"}
  <2> DEFINE f == [Of(j) EXCEPT ![k] = new]
  <2>1. With(j, k, new) = <<Kind(j), f>>
    BY <1>2 DEF With
  <2>2. Kind(With(j, k, new)) = Kind(j) /\ Of(With(j, k, new)) = f
    BY <2>1 DEF Kind, Of
  <2>3. Steps(j) = DOMAIN Of(j) /\ Steps(With(j, k, new)) = DOMAIN f
    BY <1>2, <2>2 DEF Steps
  <2>4. DOMAIN f = DOMAIN Of(j) /\ f[k] = new /\ \A m \in DOMAIN Of(j) \ {k} : f[m] = Of(j)[m]
    BY <2>3
  <2> HIDE DEF f
  <2> QED BY <1>2, <2>2, <2>3, <2>4 DEF Child
<1>3. Kind(j) \in {"arr", "obj"} \/ Kind(j) = "enc"
  BY DEF Steps
<1> QED BY <1>1, <1>2, <1>3

-----------------------------------------------------------------------------
(* Replacing a leaf of a document.                                         *)

IsLeaf(v) == Kind(v) \notin {"obj", "arr", "enc"}

\* what a node becomes when the leaf at the end of a path is replaced
Swapped(j, path, leaf, n) ==
    IF Leads(n[1], path) THEN <<n[1], Changed(Along(j, path), path, leaf)[Len(path) - Len(n[1])]>>
    ELSE n

\* on the way to the leaf a value stays what it is, but for the one value
\* directly inside that leads there
KeepsItsPlace(j, end, leaf, n) ==
    LET path == end[1]
        x == Swapped(j, path, leaf, n) IN
    /\ x = <<n[1], x[2]>>
    /\ ~Leads(n[1], path) => x = n
    /\ n = end => x[2] = leaf
    /\ Leads(n[1], path) /\ n # end =>
         /\ Len(n[1]) < Len(path) /\ path[Len(n[1]) + 1] \in Steps(n[2])
         /\ x[2] = With(n[2], path[Len(n[1]) + 1],
                        Changed(Along(j, path), path, leaf)[Len(path) - Len(n[1]) - 1])
    /\ n # end => Kind(x[2]) = Kind(n[2])
    /\ Steps(x[2]) = Steps(n[2])
    /\ n # end /\ IsLeaf(n[2]) => x = n

LEMMA SwappedIs ==
    ASSUME NEW j, NEW end \in Nodes(j), IsLeaf(end[2]), NEW leaf, IsLeaf(leaf), NEW n \in Nodes(j)
    PROVE  KeepsItsPlace(j, end, leaf, n)
<1> DEFINE path == end[1]
           x == Swapped(j, path, leaf, n)
           A == Along(j, path)
           C == Changed(A, path, leaf)
           l == Len(n[1])
<1>1. /\ IsPath(path) /\ Len(path) \in Nat /\ end = <<path, end[2]>>
      /\ IsPath(n[1]) /\ l \in Nat /\ n = <<n[1], n[2]>>
  BY NodesGoOn DEF IsPath
<1>2. \A v : IsLeaf(v) => Steps(v) = {}
  BY DEF IsLeaf, Steps
<1>3. CASE ~Leads(n[1], path)
  <2>1. x = n
    BY <1>3 DEF Swapped
  <2>2. n # end
    BY <1>1, <1>3 DEF Leads
  <2> HIDE DEF x, path
  <2> QED BY <1>1, <1>3, <2>1, <2>2 DEF x, path, KeepsItsPlace
<1>4. CASE n = end
  <2>1. Leads(n[1], path) /\ Len(path) - l = 0
    BY <1>1, <1>4 DEF Leads
  <2>2. C[0] = leaf
    BY <1>1, ChangedIs
  <2> HIDE DEF A, C
  <2>3. x = <<n[1], leaf>>
    BY <2>1, <2>2 DEF Swapped, C, A
  <2>4. Steps(leaf) = {} /\ Steps(n[2]) = {}
    BY <1>2, <1>4
  <2> HIDE DEF x, path
  <2> QED BY <1>4, <2>1, <2>3, <2>4 DEF x, path, KeepsItsPlace
<1>5. CASE Leads(n[1], path) /\ n # end
  <2>1. l < Len(path)
    <3>1. ASSUME l = Len(path) PROVE FALSE
      <4>1. n[1] = path
        <5> HIDE DEF path
        <5> QED BY <1>1, <1>5, <3>1, SamePath DEF Leads
      <4> QED BY <1>5, <4>1, NodesAgree
    <3> HIDE DEF path
    <3> QED BY <1>1, <1>5, <3>1 DEF Leads
  <2>2. Passes(n[1], path)
    BY <1>5, <2>1 DEF Passes, Leads
  <2>3. path[l + 1] \in Steps(n[2])
    BY <2>2, PathIsOfSteps
  <2>4. n[2] = A[l]
    BY <1>1, <1>5, NodeIsAlong
  <2> DEFINE m == Len(path) - l
  <2>5. m \in 1 .. Len(path) /\ Len(path) - m = l
    BY <1>1, <2>1
  <2>6. C[m] = With(A[Len(path) - m], path[Len(path) - m + 1], C[m - 1])
    <3> HIDE DEF m, path, A
    <3> QED BY <1>1, <2>5, ChangedIs
  <2>7. x = <<n[1], C[m]>>
    BY <1>5 DEF Swapped
  <2> HIDE DEF x, A, C
  <2>8. x[2] = With(n[2], path[l + 1], C[m - 1]) /\ x[1] = n[1]
    BY <2>4, <2>5, <2>6, <2>7
  <2>9. Kind(x[2]) = Kind(n[2]) /\ Steps(x[2]) = Steps(n[2])
    BY <2>3, <2>8, WithSteps
  <2>10. ~IsLeaf(n[2])
    BY <1>2, <2>3
  <2>11. x = <<n[1], x[2]>>
    BY <2>7
  <2> QED BY <1>5, <2>1, <2>3, <2>8, <2>9, <2>10, <2>11 DEF x, C, A, KeepsItsPlace
<1> QED BY <1>3, <1>4, <1>5

\* and so does each value directly inside
SwappedInside(j, end, leaf, n, k) ==
    Swapped(j, end[1], leaf, <<Append(n[1], k), Child(n[2], k)>>)
        = <<Append(n[1], k), Child(Swapped(j, end[1], leaf, n)[2], k)>>

LEMMA SwappedChild ==
    ASSUME NEW j, NEW end \in Nodes(j), IsLeaf(end[2]), NEW leaf, IsLeaf(leaf), NEW n \in Nodes(j),
           NEW k \in Steps(n[2])
    PROVE  SwappedInside(j, end, leaf, n, k)
<1> DEFINE path == end[1]
           x == Swapped(j, path, leaf, n)
           A == Along(j, path)
           C == Changed(A, path, leaf)
           l == Len(n[1])
           q == Append(n[1], k)
           c == <<q, Child(n[2], k)>>
<1>1. IsPath(path) /\ Len(path) \in Nat /\ IsPath(n[1]) /\ l \in Nat
  BY NodesGoOn DEF IsPath
<1>2. Len(q) = l + 1 /\ q[l + 1] = k /\ \A i \in 1 .. l : q[i] = n[1][i]
  BY <1>1, PathGoesOn
<1>3. c[1] = q /\ c[2] = Child(n[2], k)
  OBVIOUS
<1>4. n # end
  BY DEF IsLeaf, Steps
<1>5. Swapped(j, path, leaf, c) = IF Leads(q, path) THEN <<q, C[Len(path) - Len(q)]>> ELSE c
  BY DEF Swapped
<1>6. CASE ~Leads(n[1], path)
  <2>1. x = n
    BY <1>6 DEF Swapped
  <2>2. ~Leads(q, path)
    <3> HIDE DEF q, path
    <3> QED BY <1>1, <1>2, <1>6 DEF Leads
  <2> QED BY <1>5, <2>1, <2>2 DEF SwappedInside
<1>7. CASE Leads(n[1], path)
  <2>1. /\ l < Len(path) /\ path[l + 1] \in Steps(n[2])
        /\ x[2] = With(n[2], path[l + 1], C[Len(path) - l - 1])
    <3>1. KeepsItsPlace(j, end, leaf, n)
      BY SwappedIs
    <3> QED BY <1>4, <1>7, <3>1 DEF KeepsItsPlace
  <2>2. CASE k = path[l + 1]
    <3>1. Leads(q, path) /\ Len(path) - Len(q) = Len(path) - l - 1
      <4> HIDE DEF q, path
      <4> QED BY <1>1, <1>2, <1>7, <2>1, <2>2 DEF Leads
    <3>2. Child(x[2], k) = C[Len(path) - l - 1]
      <4> HIDE DEF x, path, C, l
      <4> QED BY <2>1, <2>2, WithSteps
    <3> HIDE DEF q, path, C, x, l, c
    <3> QED BY <1>5, <3>1, <3>2 DEF q, path, x, c, SwappedInside
  <2>3. CASE k # path[l + 1]
    <3>1. ~Leads(q, path)
      <4> HIDE DEF q, path
      <4> QED BY <1>1, <1>2, <2>3 DEF Leads
    <3>2. Child(x[2], k) = Child(n[2], k)
      <4> HIDE DEF x, path, C, l
      <4> QED BY <2>1, <2>3, WithSteps
    <3> HIDE DEF q, path, C, x, l
    <3> QED BY <1>5, <3>1, <3>2 DEF q, path, x, SwappedInside
  <2> QED BY <2>2, <2>3
<1> QED BY <1>6, <1>7

(* The values of the new document are those of the old one, each changed   *)
(* in its place.                                                           *)
LEMMA PutNodes ==
    ASSUME NEW j, NestsWithin(j), NEW end \in Nodes(j), IsLeaf(end[2]), NEW leaf, IsLeaf(leaf)
    PROVE  Nodes(Put(j, end[1], leaf)) = {Swapped(j, end[1], leaf, n) : n \in Nodes(j)}
<1> DEFINE new == Put(j, end[1], leaf)
           S(n) == Swapped(j, end[1], leaf, n)
           All == {S(n) : n \in Nodes(j)}
<1>1. S(<<<<>>, j>>) = <<<<>>, new>>
  <2>1. IsPath(end[1]) /\ Len(end[1]) \in Nat
    BY NodesGoOn DEF IsPath
  <2>2. Leads(<<>>, end[1]) /\ Len(end[1]) - Len(<<>>) = Len(end[1])
    BY <2>1 DEF Leads
  <2> QED BY <2>2 DEF Swapped, Put
<1>2. ASSUME NEW n \in Nodes(j)
      PROVE  /\ S(n)[1] = n[1] /\ Steps(S(n)[2]) = Steps(n[2]) /\ Len(n[1]) < MaxNesting
             /\ \A k \in Steps(n[2]) :
                  /\ <<Append(n[1], k), Child(n[2], k)>> \in Nodes(j)
                  /\ S(<<Append(n[1], k), Child(n[2], k)>>)
                        = <<Append(S(n)[1], k), Child(S(n)[2], k)>>
  <2>1. Len(n[1]) < MaxNesting
    BY DEF NestsWithin
  <2>2. S(n) = <<n[1], S(n)[2]>> /\ Steps(S(n)[2]) = Steps(n[2])
    <3>1. KeepsItsPlace(j, end, leaf, n)
      BY SwappedIs
    <3> QED BY <3>1 DEF KeepsItsPlace
  <2>3. ASSUME NEW k \in Steps(n[2])
        PROVE  /\ <<Append(n[1], k), Child(n[2], k)>> \in Nodes(j)
               /\ S(<<Append(n[1], k), Child(n[2], k)>>) = <<Append(n[1], k), Child(S(n)[2], k)>>
    <3>1. <<Append(n[1], k), Child(n[2], k)>> \in Nodes(j)
      BY <2>1, NodesGoOn
    <3>2. S(<<Append(n[1], k), Child(n[2], k)>>) = <<Append(n[1], k), Child(S(n)[2], k)>>
      <4>1. SwappedInside(j, end, leaf, n, k)
        BY SwappedChild
      <4> QED BY <4>1 DEF SwappedInside
    <3> QED BY <3>1, <3>2
  <2> HIDE DEF S
  <2>4. S(n)[1] = n[1]
    BY <2>2
  <2> QED BY <2>1, <2>2, <2>3, <2>4
<1> HIDE DEF S, new
<1>3. Nodes(new) \subseteq All
  <2>1. <<<<>>, new>> \in All
    BY <1>1, NodesBegin
  <2>2. ASSUME NEW x \in All, NEW k \in Steps(x[2])
        PROVE  <<Append(x[1], k), Child(x[2], k)>> \in All
    <3>1. PICK n \in Nodes(j) : x = S(n)
      OBVIOUS
    <3>2. k \in Steps(n[2])
      BY <1>2, <2>2, <3>1
    <3> QED BY <1>2, <3>1, <3>2
  <2> HIDE DEF All
  <2> QED BY <2>1, <2>2, NodesOnly
<1>4. All \subseteq Nodes(new)
  <2> DEFINE G == {n \in Nodes(j) : S(n) \in Nodes(new)}
  <2>1. <<<<>>, j>> \in G
    BY <1>1, NodesBegin
  <2>2. ASSUME NEW n \in G, NEW k \in Steps(n[2]) PROVE <<Append(n[1], k), Child(n[2], k)>> \in G
    <3>1. k \in Steps(S(n)[2]) /\ Len(S(n)[1]) < MaxNesting /\ S(n) \in Nodes(new)
      BY <1>2, <2>2
    <3>2. <<Append(S(n)[1], k), Child(S(n)[2], k)>> \in Nodes(new)
      BY <3>1, NodesGoOn
    <3> QED BY <1>2, <2>2, <3>2
  <2>3. Nodes(j) \subseteq G
    <3> HIDE DEF G
    <3> QED BY <2>1, <2>2, NodesOnly
  <2> QED BY <2>3
<1> QED BY <1>3, <1>4 DEF S, new

(* Replacing a leaf keeps every key and every other scalar where it is.    *)
LEMMA PutLeaves ==
    ASSUME NEW j, NestsWithin(j), NEW end \in Nodes(j), IsLeaf(end[2]), NEW leaf, IsLeaf(leaf)
    PROVE  /\ NestsWithin(Put(j, end[1], leaf)) /\ KeysOf(Put(j, end[1], leaf)) = KeysOf(j)
           /\ ScalarsOf(Put(j, end[1], leaf)) = (ScalarsOf(j) \ {end}) \cup {<<end[1], leaf>>}
<1> DEFINE new == Put(j, end[1], leaf)
           S(n) == Swapped(j, end[1], leaf, n)
<1>1. Nodes(new) = {S(n) : n \in Nodes(j)}
  BY PutNodes
<1>2. ASSUME NEW n \in Nodes(j)
      PROVE  /\ S(n) = <<n[1], S(n)[2]>> /\ n = <<n[1], n[2]>>
             /\ n = end => S(n)[2] = leaf
             /\ n # end => Kind(S(n)[2]) = Kind(n[2])
             /\ Steps(S(n)[2]) = Steps(n[2])
             /\ n # end /\ IsLeaf(n[2]) => S(n) = n
  <2>1. KeepsItsPlace(j, end, leaf, n)
    BY SwappedIs
  <2>2. n = <<n[1], n[2]>>
    BY NodesGoOn
  <2> QED BY <2>1, <2>2 DEF KeepsItsPlace
<1> HIDE DEF S, new
<1>3. NestsWithin(new)
  <2> SUFFICES ASSUME NEW x \in Nodes(new) PROVE Len(x[1]) < MaxNesting
    BY DEF NestsWithin
  <2>1. PICK n \in Nodes(j) : x = S(n)
    BY <1>1
  <2>2. x[1] = n[1]
    BY <1>2, <2>1
  <2> QED BY <2>2 DEF NestsWithin
<1>4. ASSUME NEW n \in Nodes(j)
      PROVE  /\ Kind(n[2]) = "obj" <=> Kind(S(n)[2]) = "obj"
             /\ Kind(n[2]) = "obj" => DOMAIN Of(S(n)[2]) = DOMAIN Of(n[2])
             /\ IsLeaf(n[2]) <=> IsLeaf(S(n)[2])
  <2>1. CASE n = end
    BY <1>2, <2>1 DEF IsLeaf
  <2>2. CASE n # end
    BY <1>2, <2>2 DEF IsLeaf, Steps
  <2> QED BY <2>1, <2>2
<1> DEFINE keys(n) == {<<Append(n[1], k), Str(k)>> : k \in DOMAIN Of(n[2])}
<1>5. ASSUME NEW n \in Nodes(j), Kind(n[2]) = "obj" PROVE keys(S(n)) = keys(n)
  BY <1>2, <1>4, <1>5
<1>6. KeysOf(new) = KeysOf(j)
  <2>1. KeysOf(new) = UNION {keys(n) : n \in {n \in Nodes(new) : Kind(n[2]) = "obj"}}
    BY DEF KeysOf
  <2>2. KeysOf(j) = UNION {keys(n) : n \in {n \in Nodes(j) : Kind(n[2]) = "obj"}}
    BY DEF KeysOf
  <2> HIDE DEF keys
  <2>3. KeysOf(new) \subseteq KeysOf(j)
    BY <1>1, <1>4, <1>5, <2>1, <2>2
  <2>4. KeysOf(j) \subseteq KeysOf(new)
    BY <1>1, <1>4, <1>5, <2>1, <2>2
  <2> QED BY <2>3, <2>4
<1>7. \A d : ScalarsOf(d) = {n \in Nodes(d) : IsLeaf(n[2])}
  BY DEF ScalarsOf, IsLeaf
<1>8. ScalarsOf(new) = (ScalarsOf(j) \ {end}) \cup {<<end[1], leaf>>}
  <2>1. S(end) = <<end[1], leaf>> /\ IsLeaf(S(end)[2])
    BY <1>2, <1>4
  <2>2. ASSUME NEW x \in ScalarsOf(new) PROVE x \in (ScalarsOf(j) \ {end}) \cup {<<end[1], leaf>>}
    <3>1. PICK n \in Nodes(j) : x = S(n)
      BY <1>1, <1>7
    <3>2. IsLeaf(n[2])
      BY <1>4, <1>7, <3>1
    <3> QED BY <1>2, <1>7, <2>1, <3>1, <3>2
  <2>3. ASSUME NEW n \in ScalarsOf(j) \ {end} PROVE n \in ScalarsOf(new)
    <3>1. n \in Nodes(j) /\ IsLeaf(n[2]) /\ S(n) = n
      BY <1>2, <1>7
    <3> QED BY <1>1, <1>7, <3>1
  <2>4. S(end) \in ScalarsOf(new)
    BY <1>1, <1>7, <2>1
  <2> QED BY <2>1, <2>2, <2>3, <2>4
<1> QED BY <1>3, <1>6, <1>8 DEF new

-----------------------------------------------------------------------------
(* What is sent of a request.                                              *)

SpansHere == Spans(Locations)
NodeOf(l) == <<l.path, l.leaf>>
Stands(n) == <<n[1], Tok(Canonical[n[2]])>>

(* What a placeholder in place of a value restores to.                     *)
Restores(n) ==
    Declared # <<>> => Canonical[n[2]] \in DOMAIN minted /\ minted[Canonical[n[2]]] = n[2]

(* What differs between the body that was read and the one to be sent.     *)
OnlyStandIns ==
    /\ KeysOf(outbound) = KeysOf(payload)
    /\ \A n \in ScalarsOf(payload) \ ScalarsOf(outbound) :
          n[2] \in Private /\ Stands(n) \in ScalarsOf(outbound)
    /\ \A n \in ScalarsOf(outbound) \ ScalarsOf(payload) :
          \E m \in ScalarsOf(payload) : m[2] \in Private /\ n = Stands(m) /\ Restores(m)

(* Every location with a value is still to be replaced or has been.        *)
ReplacedOrDue ==
    /\ todo \subseteq SpansHere
    /\ \A l \in todo : NodeOf(l) \in ScalarsOf(outbound)
    /\ decision # "allow" => \A l \in SpansHere \ todo : NodeOf(l) \notin ScalarsOf(outbound)

(* In a request with tools, the spelling of a value is the same everywhere.*)
OneSpelling ==
    Declared # <<>> =>
        /\ ~Ambiguous(SpansHere)
        /\ \A c \in DOMAIN minted : \E l \in SpansHere : Canonical[l.leaf] = c /\ minted[c] = l.leaf

ContentInv ==
    /\ intake \in {"idle", "history", "parsed"} => minted = <<>>
    /\ intake \in {"history", "parsed", "replacing", "sent"} => NestsWithin(payload)
    /\ intake \in {"replacing", "sent"} =>
         /\ NestsWithin(outbound) /\ OnlyStandIns /\ ReplacedOrDue /\ OneSpelling
         /\ \A l \in SpansHere : ~l.structural
    /\ intake = "sent" => todo = {}

(* A value that may be replaced is a leaf of the body.                     *)
LEMMA SpanIsLeaf ==
    ASSUME NestsWithin(payload), NEW l \in SpansHere, ~l.structural
    PROVE  /\ l = Place(l.path, l.leaf, FALSE) /\ l.leaf \in Private
           /\ Kind(l.leaf) \in {"str", "num"} /\ IsLeaf(l.leaf)
           /\ NodeOf(l) \in ScalarsOf(payload)
<1> DEFINE visits == Visits(payload, Grammar[protocol])
<1>1. l \in PlacesIn(visits) /\ l.leaf \in Private
  BY DEF SpansHere, Spans, Locations, Places
<1>2. Kind(l.leaf) \in {"str", "num"}
  BY <1>1, PrivateAssumption
<1>3. PICK v \in visits : l = Place(v[1], v[2], ~IsContent(v[3]))
  <2> HIDE DEF visits
  <2>1. CASE l \in NamePlaces(visits)
    BY <2>1 DEF NamePlaces, KeyPlaces, Place
  <2>2. CASE l \in TextPlaces(visits)
    BY <2>2 DEF TextPlaces
  <2>3. CASE l \in NumberPlaces(visits)
    BY <2>3 DEF NumberPlaces, Place
  <2> QED BY <1>1, <2>1, <2>2, <2>3 DEF PlacesIn
<1>4. l.path = v[1] /\ l.leaf = v[2] /\ (l.structural <=> ~IsContent(v[3]))
  BY <1>3 DEF Place
<1>5. l = Place(l.path, l.leaf, FALSE)
  BY <1>3, <1>4 DEF Place
<1>6. <<v[1], v[2]>> \in Nodes(payload)
  BY VisitsAreNodes
<1>7. NodeOf(l) \in Nodes(payload) /\ NodeOf(l)[2] = l.leaf
  BY <1>4, <1>6 DEF NodeOf
<1>8. IsLeaf(l.leaf)
  BY <1>2 DEF IsLeaf
<1> QED BY <1>1, <1>2, <1>5, <1>7, <1>8 DEF ScalarsOf, IsLeaf

(* Two locations at the same value are one.                                *)
LEMMA SpansDiffer ==
    ASSUME NestsWithin(payload), NEW l \in SpansHere, NEW m \in SpansHere,
           ~l.structural, ~m.structural, NodeOf(l) = NodeOf(m)
    PROVE  l = m
<1>1. l = Place(l.path, l.leaf, FALSE) /\ m = Place(m.path, m.leaf, FALSE)
  BY SpanIsLeaf
<1>2. l.path = m.path /\ l.leaf = m.leaf
  BY DEF NodeOf
<1> QED BY <1>1, <1>2

(* Nothing has been replaced yet.                                          *)
LEMMA PreparedContent ==
    ASSUME ContentInv, Prepare
    PROVE  ContentInv'
<1>1. CASE Refuse("refused")
  BY <1>1 DEF Refuse, Becomes, ContentInv
<1>2. ASSUME ~Refuse("refused") PROVE ContentInv'
  <2>1. /\ intake = "parsed" /\ minted = <<>> /\ NestsWithin(payload)
        /\ intake' = "replacing" /\ outbound' = payload
        /\ payload' = payload /\ protocol' = protocol /\ minted' = minted
    BY <1>2 DEF Prepare, Becomes, ContentInv
  <2>2. /\ Declared # <<>> => ~Ambiguous(SpansHere)
        /\ \A l \in SpansHere : ~l.structural
        /\ todo' = IF decision' = "allow" THEN {} ELSE SpansHere
    BY <1>2 DEF Prepare, SpansHere
  <2>3. SpansHere' = SpansHere /\ Declared' = Declared
    BY <2>1 DEF SpansHere, Spans, Locations, Declared
  <2>4. NestsWithin(payload)' /\ NestsWithin(outbound)'
    BY <2>1
  <2>5. ScalarsOf(outbound)' = ScalarsOf(payload) /\ ScalarsOf(payload)' = ScalarsOf(payload)
        /\ KeysOf(outbound)' = KeysOf(payload) /\ KeysOf(payload)' = KeysOf(payload)
    BY <2>1
  <2>6. OnlyStandIns'
    BY <2>5 DEF OnlyStandIns
  <2>7. ReplacedOrDue'
    <3>1. todo' \subseteq SpansHere'
      BY <2>2, <2>3
    <3>2. \A l \in todo' : NodeOf(l) \in ScalarsOf(outbound)'
      BY <2>1, <2>2, <2>5, SpanIsLeaf
    <3>3. decision' # "allow" => SpansHere' \ todo' = {}
      BY <2>2, <2>3
    <3> QED BY <3>1, <3>2, <3>3 DEF ReplacedOrDue, NodeOf
  <2>8. OneSpelling'
    <3>1. DOMAIN minted' = {}
      BY <2>1
    <3>2. Ambiguous(SpansHere)' <=> Ambiguous(SpansHere)
      BY <2>3 DEF Ambiguous
    <3> QED BY <2>2, <2>3, <3>1, <3>2 DEF OneSpelling
  <2> QED BY <2>1, <2>2, <2>3, <2>4, <2>6, <2>7, <2>8 DEF ContentInv
<1> QED BY <1>1, <1>2

(* Replacing one location keeps what holds of all.                         *)
LEMMA ReplacedContent ==
    ASSUME ContentInv, ReplaceLocation
    PROVE  ContentInv'
<1>1. PICK l \in todo :
        /\ todo' = todo \ {l} /\ minted' = MintedFor(l) /\ outbound' = Replaced(l)
  BY DEF ReplaceLocation
<1>2. /\ intake = "replacing" /\ intake' = "replacing" /\ protocol' = protocol /\ payload' = payload
      /\ decision' = decision
  BY DEF ReplaceLocation, historyVars
<1>3. /\ NestsWithin(payload) /\ NestsWithin(outbound)
      /\ OnlyStandIns /\ ReplacedOrDue /\ OneSpelling
      /\ \A m \in SpansHere : ~m.structural
  BY <1>2 DEF ContentInv
<1>4. SpansHere' = SpansHere /\ Declared' = Declared
  BY <1>2 DEF SpansHere, Spans, Locations, Declared
<1> DEFINE e == NodeOf(l)
           c == Canonical[l.leaf]
           old == ScalarsOf(outbound)
           new == ScalarsOf(outbound')
<1>5. l \in SpansHere /\ e \in old /\ e \in ScalarsOf(payload) /\ l.leaf \in Private
      /\ Kind(l.leaf) \in {"str", "num"} /\ IsLeaf(l.leaf)
  BY <1>3, SpanIsLeaf DEF ReplacedOrDue
<1>6. e[1] = l.path /\ e[2] = l.leaf /\ Stands(e) = <<l.path, Tok(c)>>
  BY DEF NodeOf, Stands
<1>7. \A n : n[2] \in Private => \A x : Stands(x) # n
  <2>1. ASSUME NEW n, n[2] \in Private, NEW x, Stands(x) = n PROVE FALSE
    <3>1. n[2] = Tok(Canonical[x[2]])
      BY <2>1 DEF Stands
    <3>2. Kind(n[2]) = "tok"
      BY <3>1 DEF Kind, Tok
    <3> QED BY <2>1, <3>2, PrivateAssumption
  <2> QED BY <2>1
<1>8. /\ NestsWithin(outbound') /\ KeysOf(outbound') = KeysOf(outbound)
      /\ new = (old \ {e}) \cup {Stands(e)}
  <2> HIDE DEF e, c
  <2>1. e \in Nodes(outbound)
    BY <1>5 DEF ScalarsOf
  <2>2. IsLeaf(Tok(c))
    BY DEF IsLeaf, Tok, Kind
  <2>3. outbound' = Put(outbound, e[1], Tok(c))
    BY <1>1, <1>6 DEF Replaced, c
  <2>4. <<e[1], Tok(c)>> = Stands(e)
    BY <1>6
  <2>5. IsLeaf(e[2])
    BY <1>5, <1>6
  <2> QED BY <1>3, <2>1, <2>2, <2>3, <2>4, <2>5, PutLeaves
<1>9. /\ DOMAIN minted' = DOMAIN minted \cup {c}
      /\ \A d \in DOMAIN minted : minted'[d] = minted[d]
      /\ c \notin DOMAIN minted => minted'[c] = l.leaf
  <2>1. minted' = [d \in DOMAIN minted \cup {c} |->
                        IF d \in DOMAIN minted THEN minted[d] ELSE l.leaf]
    BY <1>1 DEF MintedFor
  <2> HIDE DEF c
  <2> QED BY <2>1
<1> HIDE DEF c, e, old, new
<1>10. Declared # <<>> => minted'[c] = l.leaf
  <2> SUFFICES ASSUME Declared # <<>>, c \in DOMAIN minted PROVE minted'[c] = l.leaf
    BY <1>9
  <2>1. PICK m \in SpansHere : Canonical[m.leaf] = c /\ minted[c] = m.leaf
    BY <1>3 DEF OneSpelling
  <2>2. m.leaf = l.leaf
    BY <1>3, <1>5, <2>1 DEF OneSpelling, Ambiguous, c
  <2> QED BY <1>9, <2>1, <2>2
<1>11. OneSpelling'
  <2> SUFFICES ASSUME Declared # <<>>
               PROVE  /\ ~Ambiguous(SpansHere)
                      /\ \A d \in DOMAIN minted' :
                            \E m \in SpansHere : Canonical[m.leaf] = d /\ minted'[d] = m.leaf
    <3>1. Ambiguous(SpansHere)' <=> Ambiguous(SpansHere)
      BY <1>4 DEF Ambiguous
    <3> QED BY <1>4, <3>1 DEF OneSpelling
  <2>1. ~Ambiguous(SpansHere)
    BY <1>3 DEF OneSpelling
  <2>2. ASSUME NEW d \in DOMAIN minted'
        PROVE  \E m \in SpansHere : Canonical[m.leaf] = d /\ minted'[d] = m.leaf
    <3>1. CASE d \in DOMAIN minted
      BY <1>3, <1>9, <3>1 DEF OneSpelling
    <3>2. CASE d = c
      BY <1>5, <1>10, <3>2 DEF c
    <3> QED BY <1>9, <3>1, <3>2
  <2> QED BY <2>1, <2>2
<1>12. OnlyStandIns'
  <2>1. ASSUME NEW n \in ScalarsOf(payload) \ new PROVE n[2] \in Private /\ Stands(n) \in new
    <3>1. CASE n \in old
      BY <1>5, <1>6, <1>8, <2>1, <3>1
    <3>2. CASE n \notin old
      <4>1. n[2] \in Private /\ Stands(n) \in old
        BY <1>3, <3>2 DEF OnlyStandIns, old
      <4>2. Stands(n) # e
        BY <1>5, <1>6, <1>7
      <4> QED BY <1>8, <4>1, <4>2
    <3> QED BY <3>1, <3>2
  <2>2. ASSUME NEW n \in new \ ScalarsOf(payload)
        PROVE  \E m \in ScalarsOf(payload) :
                 /\ m[2] \in Private /\ n = Stands(m)
                 /\ Declared # <<>> =>
                        Canonical[m[2]] \in DOMAIN minted' /\ minted'[Canonical[m[2]]] = m[2]
    <3>1. CASE n = Stands(e)
      BY <1>5, <1>6, <1>9, <1>10, <3>1 DEF c
    <3>2. CASE n # Stands(e)
      <4>1. n \in old \ ScalarsOf(payload)
        BY <1>8, <3>2
      <4>2. PICK m \in ScalarsOf(payload) : m[2] \in Private /\ n = Stands(m) /\ Restores(m)
        BY <1>3, <4>1 DEF OnlyStandIns, old
      <4> QED BY <1>9, <4>2 DEF Restores
    <3> QED BY <3>1, <3>2
  <2>3. KeysOf(outbound') = KeysOf(payload)
    BY <1>3, <1>8 DEF OnlyStandIns
  <2> QED BY <1>2, <1>4, <2>1, <2>2, <2>3 DEF OnlyStandIns, Stands, Restores, new
<1>13. ReplacedOrDue'
  <2>1. todo' \subseteq SpansHere'
    BY <1>1, <1>3, <1>4 DEF ReplacedOrDue
  <2>2. ASSUME NEW m \in todo' PROVE NodeOf(m) \in new
    <3>1. m \in todo /\ m # l /\ m \in SpansHere /\ NodeOf(m) \in old
      BY <1>1, <1>3 DEF ReplacedOrDue, old
    <3>2. NodeOf(m) # e
      BY <1>3, <1>5, <3>1, SpansDiffer DEF e
    <3> QED BY <1>8, <3>1, <3>2
  <2>3. ASSUME decision # "allow", NEW m \in SpansHere \ todo' PROVE NodeOf(m) \notin new
    <3>1. NodeOf(m) # Stands(e)
      <4>1. NodeOf(m)[2] = m.leaf /\ m.leaf \in Private
        BY <1>3, SpanIsLeaf DEF NodeOf
      <4> QED BY <1>7, <4>1
    <3>2. CASE m = l
      BY <1>8, <3>1, <3>2 DEF e
    <3>3. CASE m # l
      <4>1. NodeOf(m) \notin old
        BY <1>1, <1>3, <2>3, <3>3 DEF ReplacedOrDue, old
      <4> QED BY <1>8, <3>1, <4>1
    <3> QED BY <3>2, <3>3
  <2> QED BY <1>2, <1>4, <2>1, <2>2, <2>3 DEF ReplacedOrDue, NodeOf, new
<1>14. NestsWithin(payload)' /\ NestsWithin(outbound)'
  BY <1>2, <1>3, <1>8
<1> QED BY <1>2, <1>3, <1>4, <1>11, <1>12, <1>13, <1>14 DEF ContentInv

(* Every step of an exchange keeps the invariant of its request.           *)
LEMMA ExchangeKeepsContent ==
    ASSUME ContentInv, [ExchangeNext]_exchangeVars
    PROVE  ContentInv'
<1>1. ASSUME UNCHANGED <<payload, protocol, decision, todo, outbound, minted>>,
             \/ intake' = intake
             \/ intake' \notin {"idle", "history", "parsed", "replacing", "sent"}
             \/ intake = "history" /\ intake' = "parsed"
             \/ intake = "replacing" /\ intake' = "sent" /\ todo = {}
      PROVE  ContentInv'
  <2>1. SpansHere' = SpansHere /\ Declared' = Declared
    BY <1>1 DEF SpansHere, Spans, Locations, Declared
  <2>2. /\ OnlyStandIns' <=> OnlyStandIns
        /\ ReplacedOrDue' <=> ReplacedOrDue
    BY <1>1, <2>1 DEF OnlyStandIns, ReplacedOrDue, Stands, Restores, NodeOf
  <2>3. OneSpelling' <=> OneSpelling
    BY <1>1, <2>1 DEF OneSpelling, Ambiguous
  <2>4. /\ NestsWithin(payload)' <=> NestsWithin(payload)
        /\ NestsWithin(outbound)' <=> NestsWithin(outbound)
    BY <1>1
  <2> QED BY <1>1, <2>1, <2>2, <2>3, <2>4 DEF ContentInv
<1>2. CASE UNCHANGED contractVars
  BY <1>1, <1>2 DEF contractVars, historyVars, requestVars
<1>3. CASE RequestIsSent
  BY <1>3 DEF RequestIsSent, Forget, ContentInv
<1>4. CASE ContractNext
  <2>1. CASE ReadBody
    <3>1. CASE Refuse("malformed")
      BY <1>1, <3>1 DEF Refuse, Becomes, requestVars
    <3>2. PICK p \in DOMAIN Bodies : \E body \in Bodies[p] :
             \/ /\ Reads(body, Grammar[p]) /\ payload' = Rebuilt(p, body) /\ intake' = "history"
                /\ minted' = minted /\ intake = "idle"
             \/ Refuse("malformed")
      BY <2>1 DEF ReadBody, BeginHistory
    <3>3. PICK body \in Bodies[p] :
             \/ /\ Reads(body, Grammar[p]) /\ payload' = Rebuilt(p, body) /\ intake' = "history"
                /\ minted' = minted /\ intake = "idle"
             \/ Refuse("malformed")
      BY <3>2
    <3>4. CASE /\ Reads(body, Grammar[p]) /\ payload' = Rebuilt(p, body) /\ intake' = "history"
               /\ minted' = minted /\ intake = "idle"
      <4>1. NestsWithin(Rebuilt(p, body))
        BY <3>4, RequestAssumption
      <4>2. NestsWithin(payload)'
        BY <3>4, <4>1
      <4> QED BY <3>4, <4>2 DEF ContentInv
    <3> QED BY <3>1, <3>3, <3>4
  <2>2. CASE ReadEntry /\ UNCHANGED requestVars
    BY <1>1, <2>2 DEF ReadEntry, Becomes, requestVars
  <2>3. CASE CheckRequest
    BY <1>1, <2>3 DEF CheckRequest, EndHistory, Refuse, Becomes, requestVars
  <2>4. CASE Send
    BY <1>1, <2>4 DEF Send, Becomes, requestVars
  <2> QED BY <1>4, <2>1, <2>2, <2>3, <2>4, PreparedContent, ReplacedContent DEF ContractNext
<1> QED BY <1>2, <1>3, <1>4 DEF ExchangeNext, exchangeVars, Complete, Stream, RefuseRequest

LEMMA ContentInvariant == ExchangeSpec => []ContentInv
<1>1. ExchangeInit => ContentInv
  BY DEF ExchangeInit, ContractInit, HistoryInit, ContentInv
<1>2. ContentInv /\ [ExchangeNext]_exchangeVars => ContentInv'
  BY ExchangeKeepsContent
<1> QED BY <1>1, <1>2, PTL DEF ExchangeSpec

(* What is sent differs from what was parsed only where a private text was *)
(* replaced by the placeholder of its value, which in a request with tools *)
(* restores to the very spelling that stood there (prepare, mint and       *)
(* replace_location); for every body, every shape a parser reads and every *)
(* finding of the detectors.                                               *)
THEOREM ContentOnlyChanges == ExchangeSpec => []OnlyContentChanges
<1>1. ASSUME ContentInv PROVE OnlyContentChanges
  <2> SUFFICES ASSUME intake = "sent" PROVE OnlyContentChanges
    BY DEF OnlyContentChanges
  <2> DEFINE before == Leaves(payload)
             after == Leaves(outbound)
  <2>1. OnlyStandIns
    BY <1>1 DEF ContentInv
  <2>2. ASSUME NEW l \in before \ after PROVE l[2] \in Private /\ Stands(l) \in after
    <3>1. l \in ScalarsOf(payload) \ ScalarsOf(outbound)
      BY <2>1 DEF Leaves, OnlyStandIns
    <3> QED BY <2>1, <3>1 DEF OnlyStandIns, Leaves
  <2>3. ASSUME NEW l \in after \ before
        PROVE  \E m \in before : /\ m[2] \in Private /\ l = Stands(m)
                                 /\ Declared # <<>> => minted[Canonical[m[2]]] = m[2]
    <3>1. l \in ScalarsOf(outbound) \ ScalarsOf(payload)
      BY <2>1 DEF Leaves, OnlyStandIns
    <3>2. PICK m \in ScalarsOf(payload) : m[2] \in Private /\ l = Stands(m) /\ Restores(m)
      BY <2>1, <3>1 DEF OnlyStandIns
    <3> QED BY <3>2 DEF Restores, Leaves
  <2> HIDE DEF before, after
  <2> QED BY <2>2, <2>3 DEF OnlyContentChanges, before, after, Stands
<1> QED BY <1>1, ContentInvariant, PTL

(* Under a policy that replaces values, none that the detectors found at a *)
(* location of the request still stands there when it is sent.             *)
THEOREM FoundIsReplaced ==
    ExchangeSpec =>
        [](intake = "sent" /\ decision # "allow" =>
              \A l \in SpansHere : NodeOf(l) \notin ScalarsOf(outbound))
<1>1. ASSUME ContentInv, intake = "sent", decision # "allow"
      PROVE  \A l \in SpansHere : NodeOf(l) \notin ScalarsOf(outbound)
  BY <1>1 DEF ContentInv, ReplacedOrDue
<1> QED BY <1>1, ContentInvariant, PTL
=============================================================================
