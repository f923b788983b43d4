--------------------------- MODULE IsolatedProofs ---------------------------
(***************************************************************************)
(* What IsolatedInspection guarantees for every number of requests and     *)
(* threads: no child outlives its request but in the two ways that the     *)
(* cleanup leaves open, and no answer is lost but in the two ways that the *)
(* poll and the descriptors leave open.                                    *)
(***************************************************************************)
EXTENDS IsolatedInspection, TLAPS

(* The second join waits for a child that is being killed.                 *)
Escalated == \A r \in Requests : place[r] = "reaping" => child[r] = "gone" \/ killed[r]

IsolatedInv == TypeOK /\ NoOrphans /\ Escalated

(* What NoOrphans and Escalated say of one request.                        *)
Tidy(r) ==
    /\ place[r] = "ended" =>
         child[r] \in {"unborn", "gone"} \/ interrupted[r] \/ (killed[r] /\ outcome[r] = "error")
    /\ place[r] = "reaping" => child[r] = "gone" \/ killed[r]

(* The invariant, one request at a time.                                   *)
LEMMA TidyIsEnough == (\A r \in Requests : Tidy(r)) <=> NoOrphans /\ Escalated
BY DEF Tidy, NoOrphans, Escalated

(* A request of which a step says nothing stays as it was.                 *)
LEMMA OthersStayTidy ==
    ASSUME IsolatedInv, NEW r \in Requests,
           \A q \in Requests \ {r} :
              /\ place'[q] = place[q] /\ outcome'[q] = outcome[q] /\ killed'[q] = killed[q]
              /\ child'[q] = child[q] /\ interrupted'[q] = interrupted[q],
           Tidy(r)'
    PROVE  NoOrphans' /\ Escalated'
<1>1. \A q \in Requests : Tidy(q)
  BY TidyIsEnough DEF IsolatedInv
<1>2. \A q \in Requests : Tidy(q)'
  BY <1>1 DEF Tidy
<1> QED BY <1>2 DEF Tidy, NoOrphans, Escalated

(* No request has begun.                                                   *)
LEMMA InitInv == Init => IsolatedInv
BY DEF Init, IsolatedInv, TypeOK, NoOrphans, Escalated, Places, Outcomes, Parts

(* A pipe that is gone is as good as new.                                  *)
LEMMA GoneTypes ==
    ASSUME TypeOK, NEW p, Gone(p)
    PROVE  ok' \in [Requests -> BOOLEAN] /\ wrote' \in [Requests -> 0 .. Parts]
           /\ taken' \in [Requests -> 0 .. Parts]
<1>1. ok' \in [Requests -> BOOLEAN]
  BY DEF TypeOK, Gone
<1>2. 0 \in 0 .. Parts
  BY DEF Parts
<1>3. wrote' \in [Requests -> 0 .. Parts] /\ taken' \in [Requests -> 0 .. Parts]
  BY <1>2 DEF TypeOK, Gone
<1> QED BY <1>1, <1>3

(* The cleanup begins: a request without a child is over, and one with a   *)
(* child waits for its end.                                                *)
LEMMA FinallyTypes ==
    ASSUME TypeOK, NEW r \in Requests, NEW how \in Outcomes, Finally(r, how)
    PROVE  /\ place' \in [Requests -> Places] /\ outcome' \in [Requests -> Outcomes]
           /\ late' \in [Requests -> BOOLEAN]
           /\ number' \in [Requests -> Numbers \cup {Closed}]
           /\ joiner' \in [Requests -> {"none", "queued", "joining"}]
           /\ ok' \in [Requests -> BOOLEAN] /\ wrote' \in [Requests -> 0 .. Parts]
           /\ taken' \in [Requests -> 0 .. Parts]
<1>1. place' \in [Requests -> Places] /\ joiner' \in [Requests -> {"none", "queued", "joining"}]
  BY DEF TypeOK, Finally, Moves, Places
<1>2. outcome' \in [Requests -> Outcomes] /\ late' \in [Requests -> BOOLEAN]
      /\ number' \in [Requests -> Numbers \cup {Closed}]
  BY DEF TypeOK, Finally
<1>3. CASE \E q \in Requests : on[q] = r
  BY <1>1, <1>2, <1>3 DEF TypeOK, Finally, pipe
<1>4. CASE ~\E q \in Requests : on[q] = r
  <2>1. Gone(r)
    BY <1>4 DEF Finally
  <2> QED BY <1>1, <1>2, <2>1, GoneTypes
<1> QED BY <1>3, <1>4

(* The cleanup leaves no orphan at its beginning.                          *)
LEMMA FinallyIsTidy ==
    ASSUME IsolatedInv, NEW r \in Requests, NEW how, Finally(r, how),
           UNCHANGED <<interrupted, child, killed>>
    PROVE  NoOrphans' /\ Escalated'
<1>1. IF child[r] = "unborn"
      THEN place' = [place EXCEPT ![r] = "ended"]
      ELSE place' = [place EXCEPT ![r] = "joining"]
  BY DEF Finally, Moves
<1>2. outcome' = [outcome EXCEPT ![r] = how]
  BY DEF Finally
<1>3. Tidy(r)'
  BY <1>1 DEF Tidy, IsolatedInv, TypeOK
<1>4. \A q \in Requests \ {r} : place'[q] = place[q] /\ outcome'[q] = outcome[q]
  BY <1>1, <1>2 DEF IsolatedInv, TypeOK
<1> QED BY <1>3, <1>4, OthersStayTidy

(* A step that leaves alone what the cleanup is judged by.                 *)
LEMMA UnconcernedIsTidy ==
    ASSUME IsolatedInv, UNCHANGED <<place, outcome, interrupted, child, killed>>
    PROVE  NoOrphans' /\ Escalated'
BY DEF IsolatedInv, NoOrphans, Escalated

(* A request moves to another place that is neither the end nor the last   *)
(* join.                                                                   *)
LEMMA MoveIsTidy ==
    ASSUME IsolatedInv, NEW r \in Requests, NEW to \in Places \ {"ended", "reaping"},
           Moves(r, to), UNCHANGED <<outcome, interrupted, killed>>,
           \A q \in Requests \ {r} : child'[q] = child[q]
    PROVE  NoOrphans' /\ Escalated'
<1>1. place' = [place EXCEPT ![r] = to]
  BY DEF Moves
<1>2. Tidy(r)'
  BY <1>1 DEF Tidy, IsolatedInv, TypeOK
<1>3. \A q \in Requests \ {r} : place'[q] = place[q]
  BY <1>1 DEF IsolatedInv, TypeOK
<1> QED BY <1>2, <1>3, OthersStayTidy

(* The child is started, or refused.                                       *)
LEMMA StartKeepsInv ==
    ASSUME IsolatedInv, NEW r \in Requests, Start(r)
    PROVE  IsolatedInv'
<1>1. UNCHANGED <<interrupted, killed, receiver>>
  BY DEF Start
<1>2. CASE /\ \E n \in Numbers : Lowest(n) /\ number' = [number EXCEPT ![r] = n]
           /\ child' = [child EXCEPT ![r] = "running"]
           /\ Moves(r, "polling") /\ UNCHANGED <<outcome, late, pipe, joiner>>
  <2>1. TypeOK'
    BY <1>1, <1>2 DEF IsolatedInv, TypeOK, Moves, Places, pipe, receiver
  <2>2. \A q \in Requests \ {r} : child'[q] = child[q]
    BY <1>2 DEF IsolatedInv, TypeOK
  <2>3. NoOrphans' /\ Escalated'
    BY <1>1, <1>2, <2>2, MoveIsTidy DEF Places
  <2> QED BY <2>1, <2>3 DEF IsolatedInv
<1>3. CASE Finally(r, "refused") /\ UNCHANGED child
  <2>1. TypeOK'
    BY <1>1, <1>3, FinallyTypes DEF IsolatedInv, TypeOK, Outcomes, receiver
  <2>2. NoOrphans' /\ Escalated'
    BY <1>1, <1>3, FinallyIsTidy
  <2> QED BY <2>1, <2>2 DEF IsolatedInv
<1> QED BY <1>2, <1>3 DEF Start

(* The pipe is polled.                                                     *)
LEMMA PollKeepsInv ==
    ASSUME IsolatedInv, NEW r \in Requests, Poll(r)
    PROVE  IsolatedInv'
<1>1. UNCHANGED <<interrupted, child, killed, handle, on, got, foul>>
  BY DEF Poll
<1>2. CASE Moves(r, "checking") /\ UNCHANGED <<outcome, late, number, pipe, thread, joiner>>
  <2>1. TypeOK'
    BY <1>1, <1>2 DEF IsolatedInv, TypeOK, Moves, Places, pipe
  <2>2. NoOrphans' /\ Escalated'
    BY <1>1, <1>2, MoveIsTidy DEF Places
  <2> QED BY <2>1, <2>2 DEF IsolatedInv
<1>3. CASE Finally(r, "refused") /\ UNCHANGED thread
  <2>1. TypeOK'
    BY <1>1, <1>3, FinallyTypes DEF IsolatedInv, TypeOK, Outcomes
  <2>2. NoOrphans' /\ Escalated'
    BY <1>1, <1>3, FinallyIsTidy
  <2> QED BY <2>1, <2>2 DEF IsolatedInv
<1>4. CASE /\ Moves(r, "receiving") /\ thread' = [thread EXCEPT ![r] = "queued"]
           /\ UNCHANGED <<outcome, late, number, pipe, joiner>>
  <2>1. TypeOK'
    BY <1>1, <1>4 DEF IsolatedInv, TypeOK, Moves, Places, pipe
  <2>2. NoOrphans' /\ Escalated'
    BY <1>1, <1>4, MoveIsTidy DEF Places
  <2> QED BY <2>1, <2>2 DEF IsolatedInv
<1> QED BY <1>2, <1>3, <1>4 DEF Poll

(* The clock and the child are asked.                                      *)
LEMMA CheckKeepsInv ==
    ASSUME IsolatedInv, NEW r \in Requests, Check(r)
    PROVE  IsolatedInv'
<1>1. UNCHANGED <<interrupted, child, killed, receiver>>
  BY DEF Check
<1>2. CASE Moves(r, "polling") /\ UNCHANGED <<outcome, late, number, pipe, joiner>>
  <2>1. TypeOK'
    BY <1>1, <1>2 DEF IsolatedInv, TypeOK, Moves, Places, pipe, receiver
  <2>2. NoOrphans' /\ Escalated'
    BY <1>1, <1>2, MoveIsTidy DEF Places
  <2> QED BY <2>1, <2>2 DEF IsolatedInv
<1>3. CASE Finally(r, "refused")
  <2>1. TypeOK'
    BY <1>1, <1>3, FinallyTypes DEF IsolatedInv, TypeOK, Outcomes, receiver
  <2>2. NoOrphans' /\ Escalated'
    BY <1>1, <1>3, FinallyIsTidy
  <2> QED BY <2>1, <2>2 DEF IsolatedInv
<1> QED BY <1>2, <1>3 DEF Check

(* A request without a thread has nothing of one.                          *)
LEMMA NoThreadTypes ==
    ASSUME TypeOK, NEW r \in Requests, NoThread(r)
    PROVE  /\ thread' \in [Requests -> {"none", "queued", "ready", "reading", "done"}]
           /\ handle' \in [Requests -> Numbers \cup {Closed}]
           /\ got' \in [Requests -> 0 .. Parts] /\ foul' \in [Requests -> BOOLEAN]
BY DEF TypeOK, NoThread, Parts

(* What the thread of a request that goes on does to its own state.        *)
LEMMA AbandonTypes ==
    ASSUME TypeOK, NEW r \in Requests, Abandon(r)
    PROVE  /\ thread' \in [Requests -> {"none", "queued", "ready", "reading", "done"}]
           /\ handle' \in [Requests -> Numbers \cup {Closed}]
           /\ got' \in [Requests -> 0 .. Parts] /\ foul' \in [Requests -> BOOLEAN]
<1>1. CASE NoThread(r)
  BY <1>1, NoThreadTypes
<1>2. CASE UNCHANGED <<thread, handle, got, foul>>
  BY <1>2 DEF TypeOK
<1> QED BY <1>1, <1>2 DEF Abandon

(* The answer is there.                                                    *)
LEMMA ReceivedKeepsInv ==
    ASSUME IsolatedInv, NEW r \in Requests, Received(r)
    PROVE  IsolatedInv'
<1>1. NoThread(r) /\ UNCHANGED <<interrupted, child, killed, on>>
  BY DEF Received
<1>2. PICK how \in Outcomes : Finally(r, how)
  BY DEF Received, Verdict, Outcomes
<1>3. TypeOK'
  BY <1>1, <1>2, FinallyTypes, NoThreadTypes DEF IsolatedInv, TypeOK
<1>4. NoOrphans' /\ Escalated'
  BY <1>1, <1>2, FinallyIsTidy
<1> QED BY <1>3, <1>4 DEF IsolatedInv

(* The thread has reached its limit.                                       *)
LEMMA TimesOutKeepsInv ==
    ASSUME IsolatedInv, NEW r \in Requests, TimesOut(r)
    PROVE  IsolatedInv'
<1>1. Finally(r, "refused") /\ Abandon(r) /\ UNCHANGED <<interrupted, child, killed, on>>
  BY DEF TimesOut
<1>2. TypeOK'
  BY <1>1, FinallyTypes, AbandonTypes DEF IsolatedInv, TypeOK, Outcomes
<1>3. NoOrphans' /\ Escalated'
  BY <1>1, FinallyIsTidy
<1> QED BY <1>2, <1>3 DEF IsolatedInv

(* A cancellation begins the cleanup or cuts it short.                     *)
LEMMA CancelKeepsInv ==
    ASSUME IsolatedInv, NEW r \in Requests, Cancel(r)
    PROVE  IsolatedInv'
<1>1. UNCHANGED <<child, killed, on>>
  BY DEF Cancel
<1>2. CASE Finally(r, "cancelled") /\ Abandon(r) /\ UNCHANGED interrupted
  <2>1. TypeOK'
    BY <1>1, <1>2, FinallyTypes, AbandonTypes DEF IsolatedInv, TypeOK, Outcomes
  <2>2. NoOrphans' /\ Escalated'
    BY <1>1, <1>2, FinallyIsTidy
  <2> QED BY <2>1, <2>2 DEF IsolatedInv
<1>3. CASE /\ outcome' = [outcome EXCEPT ![r] = "cancelled"] /\ Moves(r, "ended")
           /\ interrupted' = [interrupted EXCEPT ![r] = TRUE]
           /\ joiner' = [joiner EXCEPT ![r] = IF @ = "queued" THEN "none" ELSE @]
           /\ UNCHANGED <<late, number, pipe, thread, handle, got, foul>>
  <2>1. place' \in [Requests -> Places] /\ outcome' \in [Requests -> Outcomes]
        /\ interrupted' \in [Requests -> BOOLEAN]
    BY <1>3 DEF IsolatedInv, TypeOK, Moves, Places, Outcomes
  <2>2. joiner' \in [Requests -> {"none", "queued", "joining"}]
    BY <1>3 DEF IsolatedInv, TypeOK
  <2>3. TypeOK'
    BY <1>1, <1>3, <2>1, <2>2 DEF IsolatedInv, TypeOK, pipe
  <2>4. Tidy(r)'
    BY <1>3 DEF IsolatedInv, TypeOK, Tidy, Moves
  <2>5. \A q \in Requests \ {r} : /\ place'[q] = place[q] /\ outcome'[q] = outcome[q]
                                 /\ interrupted'[q] = interrupted[q]
    BY <1>3 DEF IsolatedInv, TypeOK, Moves
  <2>6. NoOrphans' /\ Escalated'
    BY <1>1, <2>4, <2>5, OthersStayTidy
  <2> QED BY <2>3, <2>6 DEF IsolatedInv
<1> QED BY <1>2, <1>3 DEF Cancel

(* The deadline passes.                                                    *)
LEMMA ElapseKeepsInv ==
    ASSUME IsolatedInv, NEW r \in Requests, Elapse(r)
    PROVE  IsolatedInv'
<1>1. TypeOK'
  BY DEF Elapse, IsolatedInv, TypeOK, pipe, receiver
<1> QED BY <1>1, UnconcernedIsTidy DEF Elapse, IsolatedInv

(* The first join has returned: an end, or a kill and the second join.     *)
LEMMA EscalateKeepsInv ==
    ASSUME IsolatedInv, NEW r \in Requests, place[r] = "joining", Escalate(r),
           UNCHANGED <<late, interrupted, number, child, pipe, receiver>>
    PROVE  IsolatedInv'
<1>1. TypeOK'
  <2>1. CASE child[r] = "gone"
    BY <2>1 DEF IsolatedInv, TypeOK, Escalate, Moves, Places, pipe, receiver
  <2>2. CASE child[r] # "gone"
    <3>1. /\ place' = [place EXCEPT ![r] = "reaping"] /\ UNCHANGED outcome
          /\ killed' = [killed EXCEPT ![r] = TRUE]
          /\ joiner' = [joiner EXCEPT ![r] = "queued"]
      BY <2>2 DEF Escalate, Moves
    <3>2. killed' \in [Requests -> BOOLEAN]
      BY <3>1 DEF IsolatedInv, TypeOK
    <3>3. place' \in [Requests -> Places]
          /\ joiner' \in [Requests -> {"none", "queued", "joining"}]
      BY <3>1 DEF IsolatedInv, TypeOK, Places
    <3> QED BY <3>1, <3>2, <3>3 DEF IsolatedInv, TypeOK, pipe, receiver
  <2> QED BY <2>1, <2>2
<1>2. Tidy(r)'
  BY DEF IsolatedInv, TypeOK, Tidy, Escalate, Moves
<1>3. \A q \in Requests \ {r} : place'[q] = place[q] /\ outcome'[q] = outcome[q]
                                /\ killed'[q] = killed[q]
  BY DEF IsolatedInv, TypeOK, Escalate, Moves
<1>4. NoOrphans' /\ Escalated'
  BY <1>2, <1>3, OthersStayTidy
<1> QED BY <1>1, <1>4 DEF IsolatedInv

(* The second join has returned: a child that lives on is reported.        *)
LEMMA CloseKeepsInv ==
    ASSUME IsolatedInv, NEW r \in Requests, place[r] = "reaping", Close(r),
           UNCHANGED <<late, interrupted, number, child, pipe, receiver>>
    PROVE  IsolatedInv'
<1>1. TypeOK'
  BY DEF IsolatedInv, TypeOK, Close, Moves, Places, Outcomes, pipe, receiver
<1>2. Tidy(r)'
  BY DEF IsolatedInv, TypeOK, Tidy, Close, Moves, Escalated
<1>3. \A q \in Requests \ {r} : place'[q] = place[q] /\ outcome'[q] = outcome[q]
  BY DEF IsolatedInv, TypeOK, Close, Moves
<1>4. NoOrphans' /\ Escalated'
  BY <1>2, <1>3, OthersStayTidy DEF Close
<1> QED BY <1>1, <1>4 DEF IsolatedInv

(* A join returns, to whoever still waits for it.                          *)
LEMMA JoinReturnsKeepsInv ==
    ASSUME IsolatedInv, NEW r \in Requests, JoinReturns(r)
    PROVE  IsolatedInv'
<1>1. UNCHANGED <<late, interrupted, number, child, pipe, receiver>>
  BY DEF JoinReturns
<1>2. CASE place[r] = "joining"
  BY <1>1, <1>2, EscalateKeepsInv DEF JoinReturns
<1>3. CASE place[r] = "reaping"
  BY <1>1, <1>3, CloseKeepsInv DEF JoinReturns
<1>4. CASE place[r] \notin {"joining", "reaping"}
  <2>1. joiner' = [joiner EXCEPT ![r] = "none"] /\ UNCHANGED <<place, outcome, killed>>
    BY <1>4 DEF JoinReturns
  <2>2. TypeOK'
    BY <1>1, <2>1 DEF IsolatedInv, TypeOK, pipe, receiver
  <2> QED BY <1>1, <2>1, <2>2, UnconcernedIsTidy DEF IsolatedInv
<1> QED BY <1>2, <1>3, <1>4

(* The executor has a thread for a receive or a join.                      *)
LEMMA StartsKeepInv ==
    ASSUME IsolatedInv, NEW r \in Requests, RecvStarts(r) \/ JoinStarts(r)
    PROVE  IsolatedInv'
<1>1. TypeOK'
  BY DEF RecvStarts, JoinStarts, IsolatedInv, TypeOK, parent, pipe, receiver
<1> QED BY <1>1, UnconcernedIsTidy DEF RecvStarts, JoinStarts, parent, IsolatedInv

(* The thread of a receive has ended.                                      *)
LEMMA ThreadEndsTypes ==
    ASSUME TypeOK, NEW r \in Requests, ThreadEnds(r)
    PROVE  /\ thread' \in [Requests -> {"none", "queued", "ready", "reading", "done"}]
           /\ handle' \in [Requests -> Numbers \cup {Closed}]
           /\ got' \in [Requests -> 0 .. Parts] /\ foul' \in [Requests -> BOOLEAN]
<1>1. CASE NoThread(r)
  BY <1>1, NoThreadTypes
<1>2. CASE thread' = [thread EXCEPT ![r] = "done"] /\ UNCHANGED <<handle, got, foul>>
  BY <1>2 DEF TypeOK
<1> QED BY <1>1, <1>2 DEF ThreadEnds

(* The thread looks up the pipe that has its number.                       *)
LEMMA ReadsKeepsInv ==
    ASSUME IsolatedInv, NEW r \in Requests, Reads(r)
    PROVE  IsolatedInv'
<1>1. UNCHANGED <<parent, child, killed, pipe, joiner>>
  BY DEF Reads
<1>2. CASE Looks(r) # Closed /\ \E p \in Requests : number[p] = Looks(r)
  <2> DEFINE P == CHOOSE p \in Requests : number[p] = Looks(r)
  <2>1. P \in Requests /\ Looks(r) = number[P]
    BY <1>2
  <2>2. /\ on' = [on EXCEPT ![r] = P] /\ handle' = [handle EXCEPT ![r] = Looks(r)]
        /\ thread' = [thread EXCEPT ![r] = "reading"] /\ UNCHANGED <<got, foul>>
    BY <1>2 DEF Reads
  <2> HIDE DEF P
  <2>3. Looks(r) \in Numbers \cup {Closed}
    BY <2>1 DEF IsolatedInv, TypeOK
  <2> QED BY <1>1, <2>1, <2>2, <2>3, UnconcernedIsTidy DEF IsolatedInv, TypeOK, parent, pipe
<1>3. CASE ~(Looks(r) # Closed /\ \E p \in Requests : number[p] = Looks(r))
  <2>1. ThreadEnds(r) /\ UNCHANGED on
    BY <1>3 DEF Reads
  <2>2. TypeOK'
    BY <1>1, <2>1, ThreadEndsTypes DEF IsolatedInv, TypeOK, parent, pipe
  <2> QED BY <1>1, <2>2, UnconcernedIsTidy DEF IsolatedInv, parent
<1> QED BY <1>2, <1>3

(* A read is over.                                                         *)
LEMMA LetsGoTypes ==
    ASSUME TypeOK, NEW r \in Requests, NEW n \in {0, 1}, LetsGo(r, n),
           \A p \in Requests : p = on[r] => taken[p] + n <= wrote[p]
    PROVE  /\ on' \in [Requests -> Requests \cup {NoPipe}]
           /\ ok' \in [Requests -> BOOLEAN] /\ wrote' \in [Requests -> 0 .. Parts]
           /\ taken' \in [Requests -> 0 .. Parts]
<1>1. on' \in [Requests -> Requests \cup {NoPipe}]
  BY DEF TypeOK, LetsGo
<1>2. CASE Gone(on[r])
  BY <1>1, <1>2, GoneTypes
<1>3. CASE taken' = [taken EXCEPT ![on[r]] = @ + n] /\ UNCHANGED <<ok, wrote>>
  <2>1. \A p \in Requests : taken'[p] \in 0 .. Parts
    <3> SUFFICES ASSUME NEW p \in Requests PROVE taken'[p] \in 0 .. Parts
      OBVIOUS
    <3>1. taken[p] \in 0 .. Parts /\ wrote[p] \in 0 .. Parts
      BY DEF TypeOK
    <3>2. taken'[p] = IF p = on[r] THEN taken[p] + n ELSE taken[p]
      BY <1>3 DEF TypeOK
    <3> QED BY <3>1, <3>2 DEF Parts
  <2>2. taken' \in [Requests -> 0 .. Parts]
    BY <1>3, <2>1 DEF TypeOK
  <2> QED BY <1>1, <1>3, <2>2 DEF TypeOK
<1> QED BY <1>2, <1>3 DEF LetsGo

(* A part comes in, of its own answer or of another.                       *)
LEMMA FetchKeepsInv ==
    ASSUME IsolatedInv, NEW r \in Requests, Fetch(r)
    PROVE  IsolatedInv'
<1> DEFINE last == got[r] + 1 >= Parts
           strange == foul[r] \/ on[r] # r \/ taken[on[r]] # got[r]
           next == IF last THEN Parts ELSE got[r] + 1
<1>1. UNCHANGED <<parent, child, killed, joiner>> /\ LetsGo(r, 1) /\ taken[on[r]] < wrote[on[r]]
  BY DEF Fetch
<1>2. /\ thread' \in [Requests -> {"none", "queued", "ready", "reading", "done"}]
      /\ handle' \in [Requests -> Numbers \cup {Closed}]
      /\ got' \in [Requests -> 0 .. Parts] /\ foul' \in [Requests -> BOOLEAN]
  <2>1. CASE NoThread(r)
    BY <2>1, NoThreadTypes DEF IsolatedInv
  <2>2. CASE /\ \E s \in {"done", "ready"} : thread' = [thread EXCEPT ![r] = s]
             /\ got' = [got EXCEPT ![r] = next]
             /\ foul' = [foul EXCEPT ![r] = strange] /\ UNCHANGED handle
    <3>1. next \in 0 .. Parts
      BY DEF IsolatedInv, TypeOK, Parts
    <3>2. strange \in BOOLEAN
      BY DEF IsolatedInv, TypeOK
    <3> HIDE DEF next, strange
    <3>3. got' \in [Requests -> 0 .. Parts]
      BY <2>2, <3>1 DEF IsolatedInv, TypeOK
    <3>4. foul' \in [Requests -> BOOLEAN]
      BY <2>2, <3>2 DEF IsolatedInv, TypeOK
    <3> QED BY <2>2, <3>3, <3>4 DEF IsolatedInv, TypeOK
  <2> QED BY <2>1, <2>2 DEF Fetch
<1>3. \A p \in Requests : p = on[r] => taken[p] + 1 <= wrote[p]
  <2>1. \A p \in Requests : taken[p] \in Nat /\ wrote[p] \in Nat
    BY DEF IsolatedInv, TypeOK, Parts
  <2> QED BY <1>1, <2>1
<1>4. TypeOK'
  <2>1. /\ on' \in [Requests -> Requests \cup {NoPipe}]
        /\ ok' \in [Requests -> BOOLEAN] /\ wrote' \in [Requests -> 0 .. Parts]
        /\ taken' \in [Requests -> 0 .. Parts]
    BY <1>1, <1>3, LetsGoTypes DEF IsolatedInv
  <2> QED BY <1>1, <1>2, <2>1 DEF IsolatedInv, TypeOK, parent
<1> QED BY <1>1, <1>4, UnconcernedIsTidy DEF IsolatedInv, parent

(* The end of the file, where the thread reads.                            *)
LEMMA EndOfFileKeepsInv ==
    ASSUME IsolatedInv, NEW r \in Requests, EndOfFile(r)
    PROVE  IsolatedInv'
<1>1. /\ taken[on[r]] = wrote[on[r]] /\ LetsGo(r, 0) /\ ThreadEnds(r)
      /\ UNCHANGED <<parent, child, killed, joiner>>
  BY DEF EndOfFile
<1>2. \A p \in Requests : p = on[r] => taken[p] + 0 <= wrote[p]
  <2>1. \A p \in Requests : taken[p] \in Nat /\ wrote[p] \in Nat
    BY DEF IsolatedInv, TypeOK, Parts
  <2> QED BY <1>1, <2>1
<1>3. TypeOK'
  <2>1. /\ on' \in [Requests -> Requests \cup {NoPipe}]
        /\ ok' \in [Requests -> BOOLEAN] /\ wrote' \in [Requests -> 0 .. Parts]
        /\ taken' \in [Requests -> 0 .. Parts]
    BY <1>1, <1>2, LetsGoTypes DEF IsolatedInv
  <2>2. /\ thread' \in [Requests -> {"none", "queued", "ready", "reading", "done"}]
        /\ handle' \in [Requests -> Numbers \cup {Closed}]
        /\ got' \in [Requests -> 0 .. Parts] /\ foul' \in [Requests -> BOOLEAN]
    BY <1>1, ThreadEndsTypes DEF IsolatedInv
  <2> QED BY <1>1, <2>1, <2>2 DEF IsolatedInv, TypeOK, parent
<1> QED BY <1>1, <1>3, UnconcernedIsTidy DEF IsolatedInv, parent

(* The child writes a part of its answer.                                  *)
LEMMA WritesKeepsInv ==
    ASSUME IsolatedInv, NEW r \in Requests, Writes(r)
    PROVE  IsolatedInv'
<1>1. /\ wrote[r] < Parts /\ wrote' = [wrote EXCEPT ![r] = @ + 1]
      /\ \E b \in {FALSE, wrote[r] + 1 = Parts} : ok' = [ok EXCEPT ![r] = b]
      /\ UNCHANGED <<parent, child, killed, taken, receiver, joiner>>
  BY DEF Writes
<1>2. wrote' \in [Requests -> 0 .. Parts]
  BY <1>1 DEF IsolatedInv, TypeOK, Parts
<1>3. ok' \in [Requests -> BOOLEAN]
  BY <1>1 DEF IsolatedInv, TypeOK
<1>4. TypeOK'
  BY <1>1, <1>2, <1>3 DEF IsolatedInv, TypeOK, parent, receiver
<1> QED BY <1>1, <1>4, UnconcernedIsTidy DEF IsolatedInv, parent

(* The child ends; a signal on its way has nobody to reach.                *)
LEMMA DiesKeepsInv ==
    ASSUME IsolatedInv, NEW r \in Requests, Dies(r)
    PROVE  IsolatedInv'
<1> USE DEF Dies, parent, pipe, receiver
<1>1. TypeOK'
  BY DEF IsolatedInv, TypeOK
<1>2. Tidy(r)'
  BY DEF IsolatedInv, TypeOK, Tidy
<1>3. \A q \in Requests \ {r} : child'[q] = child[q] /\ killed'[q] = killed[q]
  BY DEF IsolatedInv, TypeOK
<1>4. NoOrphans' /\ Escalated'
  BY <1>2, <1>3, OthersStayTidy
<1> QED BY <1>1, <1>4 DEF IsolatedInv

(* Whoever acts, no orphan is left.                                        *)
LEMMA NextKeepsInv == IsolatedInv /\ [Next]_vars => IsolatedInv'
<1> SUFFICES ASSUME IsolatedInv, [Next]_vars
             PROVE  IsolatedInv'
  OBVIOUS
<1>1. ASSUME NEW r \in Requests,
             \/ Steps(r) \/ Receiving(r) \/ Joining(r)
             \/ Cancel(r) \/ Elapse(r) \/ Writes(r) \/ Dies(r)
      PROVE  IsolatedInv'
  <2>1. CASE Steps(r)
    BY <2>1, StartKeepsInv, PollKeepsInv, CheckKeepsInv, ReceivedKeepsInv, TimesOutKeepsInv
       DEF Steps
  <2>2. CASE Receiving(r)
    BY <2>2, StartsKeepInv, ReadsKeepsInv, FetchKeepsInv, EndOfFileKeepsInv DEF Receiving
  <2>3. CASE Joining(r)
    BY <2>3, StartsKeepInv, JoinReturnsKeepsInv DEF Joining
  <2>4. CASE Cancel(r)  BY <2>4, CancelKeepsInv
  <2>5. CASE Elapse(r)  BY <2>5, ElapseKeepsInv
  <2>6. CASE Writes(r)  BY <2>6, WritesKeepsInv
  <2>7. CASE Dies(r)    BY <2>7, DiesKeepsInv
  <2> QED BY <1>1, <2>1, <2>2, <2>3, <2>4, <2>5, <2>6, <2>7
<1>2. CASE UNCHANGED vars
  BY <1>2 DEF vars, parent, pipe, receiver, IsolatedInv, TypeOK, NoOrphans, Escalated
<1> QED BY <1>1, <1>2 DEF Next

(* The inductive invariant of the inspections, their types among it.       *)
THEOREM Invariance == Spec => []IsolatedInv
BY InitInv, NextKeepsInv, PTL DEF Spec

(* No child outlives its request, but one whose cleanup was cancelled, and *)
(* one that outlives SIGKILL, which its request reports.                   *)
THEOREM ChildrenAreReaped == Spec => []NoOrphans
<1>1. IsolatedInv => NoOrphans
  BY DEF IsolatedInv
<1> QED BY <1>1, Invariance, PTL

-----------------------------------------------------------------------------
(* Answers are not lost                                                    *)

(* Until its cleanup a request has its descriptor, and its thread reads    *)
(* from its own pipe, to the end.                                          *)
Counted(r) ==
    /\ outcome[r] = "none" => place[r] \in {"new", "polling", "checking", "receiving"}
    /\ place[r] = "new" => wrote[r] = 0 /\ child[r] = "unborn"
    /\ place[r] \in {"new", "polling", "checking"} => thread[r] = "none" /\ got[r] = 0
    /\ place[r] \in {"polling", "checking", "receiving"} => number[r] # Closed
    /\ place[r] = "receiving" /\ thread[r] = "queued" => got[r] = 0
    /\ place[r] = "receiving" /\ thread[r] = "ready" => Looks(r) = number[r]
    /\ place[r] = "receiving" /\ thread[r] = "reading" => on[r] = r /\ handle[r] = number[r]
    /\ place[r] = "receiving" /\ thread[r] = "done" /\ ~foul[r] /\ got[r] < Parts =>
         AtEnd(r) /\ taken[r] = wrote[r]
    /\ taken[r] <= wrote[r]

(* Open descriptors differ.                                                *)
Distinct == \A p, q \in Requests : number[p] = number[q] /\ number[p] # Closed => p = q

AnswerInv == IsolatedInv /\ Distinct /\ \A r \in Requests : Counted(r)

(* What a step can do to a pipe that it does not write to.                 *)
PipeStep(p) ==
    \/ wrote'[p] = wrote[p] /\ taken'[p] = taken[p]
    \/ number'[p] = Closed /\ wrote'[p] = 0 /\ taken'[p] = 0
    \/ taken[p] < wrote[p] /\ wrote'[p] = wrote[p] /\ taken'[p] = taken[p] + 1

(* What a step of another request does to this one.                        *)
Bystander(r) ==
    /\ place'[r] = place[r] /\ outcome'[r] = outcome[r] /\ number'[r] = number[r]
    /\ child'[r] = child[r] /\ thread'[r] = thread[r] /\ handle'[r] = handle[r]
    /\ on'[r] = on[r] /\ got'[r] = got[r] /\ foul'[r] = foul[r]
    /\ PipeStep(r)

(* The counts of a pipe are numbers.                                       *)
LEMMA PartsAreNumbers ==
    ASSUME TypeOK, NEW r \in Requests
    PROVE  wrote[r] \in Nat /\ taken[r] \in Nat /\ got[r] \in Nat
           /\ wrote[r] <= Parts /\ got[r] <= Parts /\ Parts = 2
BY DEF TypeOK, Parts

(* Nobody else's step spoils a request's account.                          *)
LEMMA BystandersStayCounted ==
    ASSUME TypeOK, NEW r \in Requests, Counted(r), Bystander(r)
    PROVE  Counted(r)'
BY PartsAreNumbers DEF Counted, Bystander, PipeStep, AtEnd, Looks

(* No descriptor is given out twice.                                       *)
LEMMA DescriptorsDiffer ==
    ASSUME TypeOK, Distinct, NEW r \in Requests,
           \/ number' = number
           \/ number' = [number EXCEPT ![r] = Closed]
           \/ \E n \in Numbers : Lowest(n) /\ number' = [number EXCEPT ![r] = n]
    PROVE  Distinct'
<1>1. CASE number' = number
  BY <1>1 DEF Distinct
<1>2. CASE number' = [number EXCEPT ![r] = Closed]
  BY <1>2 DEF Distinct, TypeOK
<1>3. ASSUME NEW n \in Numbers, Lowest(n), number' = [number EXCEPT ![r] = n]
      PROVE  Distinct'
  <2>1. n \in 1 .. n /\ ~(n < n)
    BY DEF Numbers
  <2>2. \A q \in Requests : number[q] # n
    BY <1>3, <2>1 DEF Lowest
  <2> QED BY <1>3, <2>2 DEF Distinct, TypeOK
<1> QED BY <1>1, <1>2, <1>3

(* The step of one request, and what is left to show of it.                *)
LEMMA StepKeepsAnswers ==
    ASSUME AnswerInv, IsolatedInv', NEW r \in Requests,
           \/ number' = number
           \/ number' = [number EXCEPT ![r] = Closed]
           \/ \E n \in Numbers : Lowest(n) /\ number' = [number EXCEPT ![r] = n],
           \A q \in Requests \ {r} : Bystander(q),
           Counted(r)'
    PROVE  AnswerInv'
<1>1. Distinct'
  BY DescriptorsDiffer DEF AnswerInv, IsolatedInv
<1>2. \A q \in Requests \ {r} : Counted(q)'
  BY BystandersStayCounted DEF AnswerInv, IsolatedInv
<1> QED BY <1>1, <1>2 DEF AnswerInv

(* What the cleanup does to the pipes.                                     *)
LEMMA FinallyPipes ==
    ASSUME TypeOK, NEW r \in Requests, NEW how, Finally(r, how)
    PROVE  /\ number' = [number EXCEPT ![r] = Closed]
           /\ \A q \in Requests : PipeStep(q)
           /\ \A q \in Requests \ {r} : place'[q] = place[q] /\ outcome'[q] = outcome[q]
           /\ outcome'[r] = how /\ place'[r] \in {"ended", "joining"}
<1>1. number' = [number EXCEPT ![r] = Closed] /\ outcome' = [outcome EXCEPT ![r] = how]
  BY DEF Finally
<1>2. \/ place' = [place EXCEPT ![r] = "ended"]
      \/ place' = [place EXCEPT ![r] = "joining"]
  BY DEF Finally, Moves
<1>3. UNCHANGED pipe \/ Gone(r)
  BY DEF Finally
<1>4. \A q \in Requests : PipeStep(q)
  <2>1. CASE UNCHANGED pipe
    BY <2>1 DEF pipe, PipeStep
  <2>2. CASE Gone(r)
    <3>1. number'[r] = Closed
      BY <1>1 DEF TypeOK
    <3>2. wrote'[r] = 0 /\ taken'[r] = 0
          /\ \A q \in Requests \ {r} : wrote'[q] = wrote[q] /\ taken'[q] = taken[q]
      BY <2>2 DEF Gone, TypeOK
    <3> QED BY <3>1, <3>2 DEF PipeStep
  <2> QED BY <1>3, <2>1, <2>2
<1> QED BY <1>1, <1>2, <1>4 DEF TypeOK

(* After the cleanup has begun there is nothing left to count.             *)
LEMMA FinallyKeepsAnswers ==
    ASSUME AnswerInv, IsolatedInv', NEW r \in Requests, NEW how \in Outcomes \ {"none"},
           Finally(r, how), UNCHANGED <<child, on>>,
           \A q \in Requests \ {r} : /\ thread'[q] = thread[q] /\ handle'[q] = handle[q]
                                     /\ got'[q] = got[q] /\ foul'[q] = foul[q]
    PROVE  AnswerInv'
<1>1. /\ number' = [number EXCEPT ![r] = Closed]
      /\ \A q \in Requests : PipeStep(q)
      /\ \A q \in Requests \ {r} : place'[q] = place[q] /\ outcome'[q] = outcome[q]
      /\ outcome'[r] = how /\ place'[r] \in {"ended", "joining"}
  BY FinallyPipes DEF AnswerInv, IsolatedInv
<1>2. \A q \in Requests \ {r} : Bystander(q)
  BY <1>1 DEF Bystander, AnswerInv, IsolatedInv, TypeOK
<1>3. taken'[r] <= wrote'[r]
  BY <1>1, PartsAreNumbers DEF PipeStep, AnswerInv, IsolatedInv, Counted
<1>4. Counted(r)'
  BY <1>1, <1>3 DEF Counted
<1> QED BY <1>1, <1>2, <1>4, StepKeepsAnswers

(* A request that moves, or whose helpers do, without touching a pipe.     *)
LEMMA QuietStepKeepsAnswers ==
    ASSUME AnswerInv, IsolatedInv', NEW r \in Requests,
           number' = number, UNCHANGED pipe,
           \A q \in Requests \ {r} :
              /\ place'[q] = place[q] /\ outcome'[q] = outcome[q] /\ child'[q] = child[q]
              /\ thread'[q] = thread[q] /\ handle'[q] = handle[q] /\ on'[q] = on[q]
              /\ got'[q] = got[q] /\ foul'[q] = foul[q],
           Counted(r)'
    PROVE  AnswerInv'
<1>1. \A q \in Requests \ {r} : Bystander(q)
  BY DEF Bystander, PipeStep, pipe
<1> QED BY <1>1, StepKeepsAnswers

(* A child is started, with a descriptor of its own.                       *)
LEMMA StartKeepsAnswers ==
    ASSUME AnswerInv, IsolatedInv', NEW r \in Requests, Start(r)
    PROVE  AnswerInv'
<1>1. place[r] = "new" /\ UNCHANGED <<interrupted, killed, thread, handle, on, got, foul>>
  BY DEF Start, receiver
<1>2. CASE Finally(r, "refused") /\ UNCHANGED child
  BY <1>1, <1>2, FinallyKeepsAnswers DEF Outcomes
<1>3. ASSUME NEW n \in Numbers, Lowest(n), number' = [number EXCEPT ![r] = n],
             child' = [child EXCEPT ![r] = "running"],
             Moves(r, "polling"), UNCHANGED <<outcome, late, pipe, joiner>>
      PROVE  AnswerInv'
  <2>1. \A q \in Requests \ {r} : Bystander(q)
    BY <1>1, <1>3 DEF Bystander, PipeStep, pipe, Moves, AnswerInv, IsolatedInv, TypeOK
  <2>2. place'[r] = "polling" /\ number'[r] = n /\ n # Closed
    BY <1>3 DEF Moves, AnswerInv, IsolatedInv, TypeOK, Numbers, Closed
  <2>3. Counted(r)'
    BY <1>1, <1>3, <2>2 DEF Counted, AnswerInv, pipe
  <2> QED BY <1>3, <2>1, <2>3, StepKeepsAnswers
<1> QED BY <1>2, <1>3 DEF Start

(* The poll.                                                               *)
LEMMA PollKeepsAnswers ==
    ASSUME AnswerInv, IsolatedInv', NEW r \in Requests, Poll(r)
    PROVE  AnswerInv'
<1>1. place[r] = "polling" /\ UNCHANGED <<child, handle, on, got, foul>>
  BY DEF Poll
<1>2. CASE Finally(r, "refused") /\ UNCHANGED thread
  BY <1>1, <1>2, FinallyKeepsAnswers DEF Outcomes
<1>3. CASE Moves(r, "checking") /\ UNCHANGED <<outcome, late, number, pipe, thread, joiner>>
  <2>1. place' = [place EXCEPT ![r] = "checking"]
    BY <1>3 DEF Moves
  <2>2. Counted(r)'
    BY <1>1, <1>3, <2>1 DEF Counted, AnswerInv, IsolatedInv, TypeOK, pipe
  <2>3. \A q \in Requests \ {r} : place'[q] = place[q]
    BY <2>1 DEF AnswerInv, IsolatedInv, TypeOK
  <2> QED BY <1>1, <1>3, <2>2, <2>3, QuietStepKeepsAnswers
<1>4. CASE /\ Moves(r, "receiving") /\ thread' = [thread EXCEPT ![r] = "queued"]
           /\ UNCHANGED <<outcome, late, number, pipe, joiner>>
  <2>1. place' = [place EXCEPT ![r] = "receiving"]
    BY <1>4 DEF Moves
  <2>2. Counted(r)'
    BY <1>1, <1>4, <2>1 DEF Counted, AnswerInv, IsolatedInv, TypeOK, pipe
  <2>3. \A q \in Requests \ {r} : place'[q] = place[q] /\ thread'[q] = thread[q]
    BY <1>4, <2>1 DEF AnswerInv, IsolatedInv, TypeOK
  <2> QED BY <1>1, <1>4, <2>2, <2>3, QuietStepKeepsAnswers
<1> QED BY <1>2, <1>3, <1>4 DEF Poll

(* The questions after the poll.                                           *)
LEMMA CheckKeepsAnswers ==
    ASSUME AnswerInv, IsolatedInv', NEW r \in Requests, Check(r)
    PROVE  AnswerInv'
<1>1. place[r] = "checking" /\ UNCHANGED <<child, thread, handle, on, got, foul>>
  BY DEF Check, receiver
<1>2. CASE Finally(r, "refused")
  BY <1>1, <1>2, FinallyKeepsAnswers DEF Outcomes
<1>3. CASE Moves(r, "polling") /\ UNCHANGED <<outcome, late, number, pipe, joiner>>
  <2>1. place' = [place EXCEPT ![r] = "polling"]
    BY <1>3 DEF Moves
  <2>2. Counted(r)'
    BY <1>1, <1>3, <2>1 DEF Counted, AnswerInv, IsolatedInv, TypeOK, pipe
  <2>3. \A q \in Requests \ {r} : place'[q] = place[q]
    BY <2>1 DEF AnswerInv, IsolatedInv, TypeOK
  <2> QED BY <1>1, <1>3, <2>2, <2>3, QuietStepKeepsAnswers
<1> QED BY <1>2, <1>3 DEF Check

(* A request that lets its thread's state go leaves the others theirs.     *)
LEMMA AbandonIsOwn ==
    ASSUME TypeOK, NEW r \in Requests, NoThread(r) \/ Abandon(r)
    PROVE  \A q \in Requests \ {r} : /\ thread'[q] = thread[q] /\ handle'[q] = handle[q]
                                     /\ got'[q] = got[q] /\ foul'[q] = foul[q]
<1>1. CASE NoThread(r)
  BY <1>1 DEF NoThread, TypeOK
<1>2. CASE UNCHANGED <<thread, handle, got, foul>>
  BY <1>2
<1> QED BY <1>1, <1>2 DEF Abandon

(* The answer, the limit, and a cancellation.                              *)
LEMMA LeavingKeepsAnswers ==
    ASSUME AnswerInv, IsolatedInv', NEW r \in Requests, Received(r) \/ TimesOut(r) \/ Cancel(r)
    PROVE  AnswerInv'
<1>1. ASSUME NEW how \in Outcomes \ {"none"}, Finally(r, how), NoThread(r) \/ Abandon(r),
             UNCHANGED <<child, on>>
      PROVE  AnswerInv'
  BY <1>1, AbandonIsOwn, FinallyKeepsAnswers DEF AnswerInv, IsolatedInv
<1>2. CASE Received(r)
  <2>1. PICK how \in Outcomes \ {"none"} : Finally(r, how)
    BY <1>2 DEF Received, Verdict, Outcomes
  <2> QED BY <1>1, <1>2, <2>1 DEF Received
<1>3. CASE TimesOut(r)
  BY <1>1, <1>3 DEF TimesOut, Outcomes
<1>4. CASE Cancel(r)
  <2>1. CASE Finally(r, "cancelled") /\ Abandon(r) /\ UNCHANGED interrupted
    BY <1>1, <1>4, <2>1 DEF Cancel, Outcomes
  <2>2. CASE /\ outcome' = [outcome EXCEPT ![r] = "cancelled"] /\ Moves(r, "ended")
             /\ UNCHANGED <<late, number, pipe, thread, handle, got, foul>>
    <3>1. place' = [place EXCEPT ![r] = "ended"] /\ UNCHANGED <<child, on>>
      BY <1>4, <2>2 DEF Moves, Cancel
    <3>2. Counted(r)'
      BY <2>2, <3>1 DEF Counted, AnswerInv, IsolatedInv, TypeOK, pipe
    <3>3. \A q \in Requests \ {r} : place'[q] = place[q] /\ outcome'[q] = outcome[q]
      BY <2>2, <3>1 DEF AnswerInv, IsolatedInv, TypeOK
    <3> QED BY <2>2, <3>1, <3>2, <3>3, QuietStepKeepsAnswers
  <2> QED BY <1>4, <2>1, <2>2 DEF Cancel
<1> QED BY <1>2, <1>3, <1>4

(* Time, and threads that begin.                                           *)
LEMMA WaitingKeepsAnswers ==
    ASSUME AnswerInv, IsolatedInv', NEW r \in Requests,
           Elapse(r) \/ RecvStarts(r) \/ JoinStarts(r)
    PROVE  AnswerInv'
<1>1. UNCHANGED <<place, outcome, number, child, pipe, handle, on, got, foul>>
  BY DEF Elapse, RecvStarts, JoinStarts, parent, receiver
<1>2. \/ thread' = thread
      \/ thread[r] = "queued" /\ thread' = [thread EXCEPT ![r] = "ready"]
  BY DEF Elapse, RecvStarts, JoinStarts, receiver
<1>3. \A q \in Requests \ {r} : thread'[q] = thread[q]
  BY <1>2 DEF AnswerInv, IsolatedInv, TypeOK
<1>4. Counted(r)'
  BY <1>1, <1>2 DEF Counted, Looks, AtEnd, AnswerInv, IsolatedInv, TypeOK, pipe
<1> QED BY <1>1, <1>3, <1>4, QuietStepKeepsAnswers

(* A join returns: the request's outcome was decided before.               *)
LEMMA JoinReturnsKeepsAnswers ==
    ASSUME AnswerInv, IsolatedInv', NEW r \in Requests, JoinReturns(r)
    PROVE  AnswerInv'
<1>1. UNCHANGED <<number, child, pipe, thread, handle, on, got, foul>>
  BY DEF JoinReturns, receiver
<1>2. CASE place[r] \in {"joining", "reaping"}
  <2>1. /\ \E to \in {"ended", "reaping"} : place' = [place EXCEPT ![r] = to]
        /\ \E how : outcome' = [outcome EXCEPT ![r] = how] /\ how # "none"
    <3>1. outcome[r] # "none"
      BY <1>2 DEF AnswerInv, Counted
    <3>2. CASE place[r] = "joining"
      <4>1. outcome' = [outcome EXCEPT ![r] = outcome[r]]
        BY <3>2 DEF JoinReturns, Escalate, AnswerInv, IsolatedInv, TypeOK
      <4> QED BY <3>1, <3>2, <4>1 DEF JoinReturns, Escalate, Moves
    <3>3. CASE place[r] = "reaping"
      BY <3>1, <3>3 DEF JoinReturns, Close, Moves
    <3> QED BY <1>2, <3>2, <3>3
  <2>2. Counted(r)'
    BY <1>1, <2>1 DEF Counted, AnswerInv, IsolatedInv, TypeOK, pipe
  <2>3. \A q \in Requests \ {r} : place'[q] = place[q] /\ outcome'[q] = outcome[q]
    BY <2>1 DEF AnswerInv, IsolatedInv, TypeOK
  <2> QED BY <1>1, <2>2, <2>3, QuietStepKeepsAnswers
<1>3. CASE place[r] \notin {"joining", "reaping"}
  <2>1. UNCHANGED <<place, outcome>>
    BY <1>3 DEF JoinReturns
  <2>2. Counted(r)'
    BY <1>1, <2>1 DEF Counted, Looks, AtEnd, AnswerInv, pipe
  <2> QED BY <1>1, <2>1, <2>2, QuietStepKeepsAnswers
<1> QED BY <1>2, <1>3

(* A thread of a request that waits for it finds that request's own pipe.  *)
LEMMA ReadsKeepsAnswers ==
    ASSUME AnswerInv, IsolatedInv', NEW r \in Requests, Reads(r)
    PROVE  AnswerInv'
<1>1. thread[r] = "ready" /\ UNCHANGED <<place, outcome, number, child, pipe>>
  BY DEF Reads, parent
<1>2. CASE Looks(r) # Closed /\ \E p \in Requests : number[p] = Looks(r)
  <2> DEFINE P == CHOOSE p \in Requests : number[p] = Looks(r)
  <2>1. P \in Requests /\ Looks(r) = number[P]
    BY <1>2
  <2>2. /\ on' = [on EXCEPT ![r] = P] /\ handle' = [handle EXCEPT ![r] = Looks(r)]
        /\ thread' = [thread EXCEPT ![r] = "reading"] /\ UNCHANGED <<got, foul>>
    BY <1>2 DEF Reads
  <2> HIDE DEF P
  <2>3. place[r] = "receiving" => P = r /\ Looks(r) = number[r]
    BY <1>1, <1>2, <2>1 DEF AnswerInv, Counted, Distinct
  <2>4. Counted(r)'
    BY <1>1, <2>2, <2>3 DEF Counted, AnswerInv, IsolatedInv, TypeOK, pipe
  <2>5. \A q \in Requests \ {r} : on'[q] = on[q] /\ handle'[q] = handle[q] /\ thread'[q] = thread[q]
    BY <2>2 DEF AnswerInv, IsolatedInv, TypeOK
  <2> QED BY <1>1, <2>2, <2>4, <2>5, QuietStepKeepsAnswers
<1>3. CASE ~(Looks(r) # Closed /\ \E p \in Requests : number[p] = Looks(r))
  <2>1. ThreadEnds(r) /\ UNCHANGED on
    BY <1>3 DEF Reads
  <2>2. place[r] # "receiving"
    BY <1>1, <1>3 DEF AnswerInv, Counted
  <2>3. NoThread(r)
    BY <2>1, <2>2 DEF ThreadEnds
  <2>4. Counted(r)'
    BY <1>1, <2>2, <2>3 DEF Counted, NoThread, AnswerInv, IsolatedInv, TypeOK, pipe
  <2>5. \A q \in Requests \ {r} : /\ thread'[q] = thread[q] /\ handle'[q] = handle[q]
                                 /\ got'[q] = got[q] /\ foul'[q] = foul[q]
    BY <2>3, AbandonIsOwn DEF AnswerInv, IsolatedInv
  <2> QED BY <1>1, <2>1, <2>4, <2>5, QuietStepKeepsAnswers
<1> QED BY <1>2, <1>3

(* What the end of a read does to the pipes.                               *)
LEMMA LetsGoPipes ==
    ASSUME TypeOK, NEW r \in Requests, NEW n \in {0, 1}, LetsGo(r, n), number' = number,
           n = 1 => \A p \in Requests : p = on[r] => taken[p] < wrote[p]
    PROVE  /\ \A q \in Requests : PipeStep(q)
           /\ \A q \in Requests \ {r} : on'[q] = on[q]
           /\ number[on[r]] # Closed /\ on[r] \in Requests =>
                taken'[on[r]] = taken[on[r]] + n /\ wrote' = wrote
<1>1. \A q \in Requests \ {r} : on'[q] = on[q]
  BY DEF LetsGo, TypeOK
<1>2. CASE number[on[r]] = Closed /\ Gone(on[r])
  <2>1. \A q \in Requests : PipeStep(q)
    <3> SUFFICES ASSUME NEW q \in Requests PROVE PipeStep(q)
      OBVIOUS
    <3>1. CASE q = on[r]
      BY <1>2, <3>1 DEF Gone, TypeOK, PipeStep
    <3>2. CASE q # on[r]
      BY <1>2, <3>2 DEF Gone, TypeOK, PipeStep
    <3> QED BY <3>1, <3>2
  <2> QED BY <1>1, <1>2, <2>1
<1>3. CASE taken' = [taken EXCEPT ![on[r]] = @ + n] /\ UNCHANGED <<ok, wrote>>
  <2>1. \A q \in Requests : taken'[q] = IF q = on[r] THEN taken[q] + n ELSE taken[q]
    BY <1>3 DEF TypeOK
  <2>2. \A q \in Requests : taken[q] \in Nat
    BY DEF TypeOK, Parts
  <2>3. \A q \in Requests : PipeStep(q)
    BY <1>3, <2>1, <2>2 DEF PipeStep
  <2> QED BY <1>1, <1>3, <2>1, <2>3
<1> QED BY <1>2, <1>3 DEF LetsGo

(* A part comes in.                                                        *)
LEMMA FetchKeepsAnswers ==
    ASSUME AnswerInv, IsolatedInv', NEW r \in Requests, Fetch(r)
    PROVE  AnswerInv'
<1> DEFINE last == got[r] + 1 >= Parts
           strange == foul[r] \/ on[r] # r \/ taken[on[r]] # got[r]
           next == IF last THEN Parts ELSE got[r] + 1
<1>1. /\ UNCHANGED <<place, outcome, number, child>>
      /\ thread[r] = "reading" /\ LetsGo(r, 1) /\ taken[on[r]] < wrote[on[r]]
  BY DEF Fetch, parent
<1>2. \A q \in Requests : PipeStep(q)
  BY <1>1, LetsGoPipes DEF AnswerInv, IsolatedInv
<1>3. taken'[r] <= wrote'[r]
  BY <1>2, PartsAreNumbers DEF PipeStep, AnswerInv, IsolatedInv, Counted
<1>4. CASE NoThread(r) /\ place[r] # "receiving"
  <2>1. Counted(r)'
    <3>1. thread'[r] = "none" /\ got'[r] = 0
      BY <1>4 DEF NoThread, AnswerInv, IsolatedInv, TypeOK
    <3>2. place[r] = "new" => wrote'[r] = 0
      BY <1>2, PartsAreNumbers DEF PipeStep, AnswerInv, IsolatedInv, Counted
    <3> QED BY <1>1, <1>3, <1>4, <3>1, <3>2 DEF Counted, AnswerInv
  <2>2. \A q \in Requests \ {r} : Bystander(q)
    BY <1>1, <1>2, <1>4, AbandonIsOwn, LetsGoPipes DEF Bystander, AnswerInv, IsolatedInv
  <2> QED BY <1>1, <2>1, <2>2, StepKeepsAnswers
<1>5. CASE /\ \/ thread' = [thread EXCEPT ![r] = "done"] /\ (last \/ strange)
              \/ thread' = [thread EXCEPT ![r] = "ready"]
           /\ got' = [got EXCEPT ![r] = next]
           /\ foul' = [foul EXCEPT ![r] = strange] /\ UNCHANGED handle
  <2>1. got'[r] = next /\ next # 0 /\ (last => next = Parts)
    BY <1>5, PartsAreNumbers DEF AnswerInv, IsolatedInv, TypeOK
  <2>2. foul'[r] = strange
    BY <1>5 DEF AnswerInv, IsolatedInv, TypeOK
  <2> HIDE DEF next, last, strange
  <2>3. \/ thread'[r] = "done" /\ (last \/ strange)
        \/ thread'[r] = "ready"
    BY <1>5 DEF AnswerInv, IsolatedInv, TypeOK
  <2>4. place[r] \notin {"new", "polling", "checking"}
    BY <1>1 DEF AnswerInv, Counted
  <2>5. place[r] = "receiving" =>
          /\ thread'[r] = "ready" => Looks(r)' = number'[r]
          /\ thread'[r] = "done" /\ ~foul'[r] => got'[r] = Parts
    <3>1. place[r] = "receiving" => handle[r] = number[r]
      BY <1>1 DEF AnswerInv, Counted
    <3>2. thread'[r] = "ready" => Looks(r)' = handle[r]
      BY <1>5, <2>1 DEF Looks
    <3> QED BY <1>1, <2>1, <2>2, <2>3, <3>1, <3>2
  <2>6. Counted(r)'
    <3>1. ~(thread'[r] = "done" /\ got'[r] < Parts /\ ~foul'[r] /\ place[r] = "receiving")
      BY <2>5, PartsAreNumbers DEF AnswerInv, IsolatedInv
    <3>2. thread'[r] \in {"done", "ready"}
      BY <2>3
    <3> QED BY <1>1, <1>3, <2>4, <2>5, <3>1, <3>2 DEF Counted, AnswerInv
  <2>7. \A q \in Requests \ {r} : Bystander(q)
    <3>1. \A q \in Requests \ {r} : thread'[q] = thread[q] /\ got'[q] = got[q] /\ foul'[q] = foul[q]
      BY <1>5 DEF AnswerInv, IsolatedInv, TypeOK
    <3> QED BY <1>1, <1>2, <1>5, <3>1, LetsGoPipes DEF Bystander, AnswerInv, IsolatedInv
  <2> QED BY <1>1, <2>6, <2>7, StepKeepsAnswers
<1>6. \/ NoThread(r) /\ place[r] # "receiving"
      \/ /\ \/ thread' = [thread EXCEPT ![r] = "done"] /\ (last \/ strange)
            \/ thread' = [thread EXCEPT ![r] = "ready"]
         /\ got' = [got EXCEPT ![r] = next]
         /\ foul' = [foul EXCEPT ![r] = strange] /\ UNCHANGED handle
  BY DEF Fetch
<1> QED BY <1>4, <1>5, <1>6

(* The end of its own pipe is the only one that a request can be told.     *)
LEMMA EndOfFileKeepsAnswers ==
    ASSUME AnswerInv, IsolatedInv', NEW r \in Requests, EndOfFile(r)
    PROVE  AnswerInv'
<1>1. /\ UNCHANGED <<place, outcome, number, child>>
      /\ thread[r] = "reading" /\ LetsGo(r, 0) /\ taken[on[r]] = wrote[on[r]] /\ AtEnd(on[r])
      /\ ThreadEnds(r)
  BY DEF EndOfFile, parent
<1>2. /\ \A q \in Requests : PipeStep(q)
      /\ \A q \in Requests \ {r} : on'[q] = on[q]
      /\ number[on[r]] # Closed /\ on[r] \in Requests =>
           taken'[on[r]] = taken[on[r]] + 0 /\ wrote' = wrote
  BY <1>1, LetsGoPipes DEF AnswerInv, IsolatedInv
<1>3. taken'[r] <= wrote'[r]
  BY <1>2, PartsAreNumbers DEF PipeStep, AnswerInv, IsolatedInv, Counted
<1>4. place[r] \notin {"new", "polling", "checking"}
  BY <1>1 DEF AnswerInv, Counted
<1>5. CASE place[r] = "receiving"
  <2>1. on[r] = r /\ number[r] # Closed /\ taken[r] = wrote[r] /\ AtEnd(r)
    BY <1>1, <1>5 DEF AnswerInv, Counted
  <2>2. taken'[r] = wrote'[r] /\ wrote' = wrote
    BY <1>2, <2>1, PartsAreNumbers DEF AnswerInv, IsolatedInv
  <2>3. AtEnd(r)'
    BY <1>1, <2>1, <2>2 DEF AtEnd
  <2>4. thread' = [thread EXCEPT ![r] = "done"] /\ UNCHANGED <<handle, got, foul>>
    BY <1>1, <1>5 DEF ThreadEnds
  <2>5. thread'[r] = "done" /\ \A q \in Requests \ {r} : thread'[q] = thread[q]
    BY <2>4 DEF AnswerInv, IsolatedInv, TypeOK
  <2>6. Counted(r)'
    BY <1>1, <1>3, <1>4, <2>2, <2>3, <2>5 DEF Counted, AnswerInv
  <2>7. \A q \in Requests \ {r} : Bystander(q)
    BY <1>1, <1>2, <2>4, <2>5 DEF Bystander
  <2> QED BY <1>1, <2>6, <2>7, StepKeepsAnswers
<1>6. CASE place[r] # "receiving"
  <2>1. NoThread(r)
    BY <1>1, <1>6 DEF ThreadEnds
  <2>2. Counted(r)'
    BY <1>1, <1>3, <1>4, <1>6 DEF Counted, AnswerInv
  <2>3. \A q \in Requests \ {r} : Bystander(q)
    BY <1>1, <1>2, <2>1, AbandonIsOwn DEF Bystander, AnswerInv, IsolatedInv
  <2> QED BY <1>1, <2>2, <2>3, StepKeepsAnswers
<1> QED BY <1>5, <1>6

(* The child writes or ends.                                               *)
LEMMA ChildKeepsAnswers ==
    ASSUME AnswerInv, IsolatedInv', NEW r \in Requests, Writes(r) \/ Dies(r)
    PROVE  AnswerInv'
<1>1. UNCHANGED <<place, outcome, number, thread, handle, on, got, foul>> /\ child[r] = "running"
      /\ UNCHANGED taken
  BY DEF Writes, Dies, parent, receiver, pipe
<1>2. \/ wrote[r] < Parts /\ wrote' = [wrote EXCEPT ![r] = @ + 1] /\ UNCHANGED child
      \/ child' = [child EXCEPT ![r] = "gone"] /\ UNCHANGED wrote
  BY DEF Writes, Dies, pipe
<1>3. place[r] # "new"
  BY <1>1 DEF AnswerInv, Counted
<1>4. wrote'[r] >= wrote[r] /\ taken'[r] <= wrote'[r]
  BY <1>1, <1>2, PartsAreNumbers DEF AnswerInv, IsolatedInv, TypeOK, Counted
<1>5. AtEnd(r) => AtEnd(r)' /\ wrote'[r] = wrote[r]
  BY <1>1, <1>2, PartsAreNumbers DEF AtEnd, AnswerInv, IsolatedInv, TypeOK
<1>6. Counted(r)'
  BY <1>1, <1>3, <1>4, <1>5 DEF Counted, Looks, AnswerInv
<1>7. \A q \in Requests \ {r} : child'[q] = child[q] /\ wrote'[q] = wrote[q]
  BY <1>2 DEF AnswerInv, IsolatedInv, TypeOK
<1>8. \A q \in Requests \ {r} : Bystander(q)
  BY <1>1, <1>7 DEF Bystander, PipeStep
<1> QED BY <1>1, <1>6, <1>8, StepKeepsAnswers

(* AnswerInv is inductive.                                                 *)
LEMMA NextKeepsAnswers == AnswerInv /\ [Next]_vars => AnswerInv'
<1> SUFFICES ASSUME AnswerInv, [Next]_vars
             PROVE  AnswerInv'
  OBVIOUS
<1>1. IsolatedInv'
  BY NextKeepsInv DEF AnswerInv
<1>2. ASSUME NEW r \in Requests,
             \/ Steps(r) \/ Receiving(r) \/ Joining(r)
             \/ Cancel(r) \/ Elapse(r) \/ Writes(r) \/ Dies(r)
      PROVE  AnswerInv'
  <2>1. CASE Steps(r)
    BY <1>1, <2>1, StartKeepsAnswers, PollKeepsAnswers, CheckKeepsAnswers, LeavingKeepsAnswers
       DEF Steps
  <2>2. CASE Receiving(r)
    BY <1>1, <2>2, WaitingKeepsAnswers, ReadsKeepsAnswers, FetchKeepsAnswers,
       EndOfFileKeepsAnswers DEF Receiving
  <2>3. CASE Joining(r)
    BY <1>1, <2>3, WaitingKeepsAnswers, JoinReturnsKeepsAnswers DEF Joining
  <2>4. CASE Cancel(r)  BY <1>1, <2>4, LeavingKeepsAnswers
  <2>5. CASE Elapse(r)  BY <1>1, <2>5, WaitingKeepsAnswers
  <2>6. CASE Writes(r) \/ Dies(r)  BY <1>1, <2>6, ChildKeepsAnswers
  <2> QED BY <1>2, <2>1, <2>2, <2>3, <2>4, <2>5, <2>6
<1>3. CASE UNCHANGED vars
  <2> USE <1>3 DEF vars, parent, pipe, receiver
  <2>1. Distinct'
    BY DEF AnswerInv, Distinct
  <2>2. \A r \in Requests : Counted(r)'
    BY DEF AnswerInv, Counted, Looks, AtEnd
  <2> QED BY <1>1, <2>1, <2>2 DEF AnswerInv
<1> QED BY <1>2, <1>3 DEF Next

(* The account that every request can give of its answer.                  *)
THEOREM AnswerInvariance == Spec => []AnswerInv
<1>1. Init => AnswerInv
  <2>1. Init => Distinct
    BY DEF Init, Distinct
  <2>2. Init => \A r \in Requests : Counted(r)
    BY DEF Init, Counted
  <2> QED BY <2>1, <2>2, InitInv DEF AnswerInv
<1> QED BY <1>1, NextKeepsAnswers, PTL DEF Spec

(* One request refuses an answer of success, for one of the two reasons.   *)
LEMMA LossesAreExplained ==
    ASSUME AnswerInv, [Next]_vars, NEW r \in Requests,
           outcome[r] = "none", outcome'[r] \in {"refused", "error"},
           ok[r], wrote[r] = Parts, ~late[r]
    PROVE  place[r] = "checking" \/ taken[r] > got[r] \/ foul[r]
<1> SUFFICES ASSUME ~foul[r], place[r] # "checking"
             PROVE  taken[r] > got[r]
  OBVIOUS
<1>1. place[r] \in {"new", "polling", "receiving"} /\ (place[r] = "new" => wrote[r] = 0)
  BY DEF AnswerInv, Counted
<1>2. place[r] # "new"
  BY <1>1 DEF Parts
<1>3. PICK q \in Requests :
        \/ Steps(q) \/ Receiving(q) \/ Joining(q)
        \/ Cancel(q) \/ Elapse(q) \/ Writes(q) \/ Dies(q)
  BY DEF Next, vars, parent
<1>4. ~UNCHANGED outcome
  BY <1>1
<1>5. \/ Start(q) \/ Poll(q) \/ Check(q) \/ Received(q) \/ TimesOut(q) \/ Cancel(q)
      \/ JoinReturns(q)
  BY <1>3, <1>4 DEF Steps, Receiving, Joining, RecvStarts, JoinStarts, Reads, Fetch, EndOfFile,
                    Elapse, Writes, Dies, parent
<1>6. q = r
  <2>1. \A how : Finally(q, how) => outcome' = [outcome EXCEPT ![q] = how]
    BY DEF Finally
  <2>2. \E how : outcome' = [outcome EXCEPT ![q] = how]
    BY <1>4, <1>5, <2>1 DEF Start, Poll, Check, Received, TimesOut, Cancel, JoinReturns,
                            Escalate, Close
  <2> QED BY <1>4, <2>2 DEF AnswerInv, IsolatedInv, TypeOK
<1>7. \A how : Finally(r, how) => outcome'[r] = how
  BY DEF Finally, AnswerInv, IsolatedInv, TypeOK
<1>8. Received(r)
  <2>1. ~Start(r) /\ ~Poll(r) /\ ~Check(r) /\ ~TimesOut(r)
    BY <1>1, <1>2, <1>4 DEF Start, Poll, Check, TimesOut, LimitReached
  <2>2. ~Cancel(r)
    BY <1>1, <1>2, <1>7 DEF Cancel
  <2>3. ~JoinReturns(r)
    BY <1>1, <1>2, <1>4 DEF JoinReturns
  <2> QED BY <1>5, <1>6, <2>1, <2>2, <2>3
<1>9. PICK how \in Verdict(r) : Finally(r, how)
  BY <1>8 DEF Received
<1>10. got[r] # Parts
  BY <1>7, <1>9 DEF Verdict
<1>11. place[r] = "receiving" /\ thread[r] = "done"
  BY <1>8 DEF Received
<1> QED BY <1>10, <1>11, PartsAreNumbers DEF AnswerInv, IsolatedInv, Counted

(* An answer of success that came in time is lost only to a child that     *)
(* ended between two questions, or to a thread with a stale descriptor.    *)
THEOREM AnswersAreLostTwoWays == Spec => AnswersCount
<1>1. AnswerInv /\ [Next]_vars =>
        [\A r \in Requests :
           /\ outcome[r] = "none" /\ outcome'[r] \in {"refused", "error"}
           /\ ok[r] /\ wrote[r] = Parts /\ ~late[r]
           => place[r] = "checking" \/ taken[r] > got[r] \/ foul[r]]_vars
  BY LossesAreExplained
<1> QED BY <1>1, AnswerInvariance, PTL DEF Spec, AnswersCount
=============================================================================
