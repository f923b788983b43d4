------------------------ MODULE RestorationPromise -------------------------
(***************************************************************************)
(* What the gateway promises of a request, whatever happens inside: it is  *)
(* answered at most once, an answer never changes, and in an answer a tag  *)
(* is replaced only by a spelling that this request itself submitted under *)
(* that tag.  The vault, the threads and the clock do not appear.          *)
(***************************************************************************)
EXTENDS Integers, Sequences

CONSTANTS Requests, Scopes, Spellings, Tags,
          TagName,      \* [Scopes \X Spellings -> Tags]
          Verdicts      \* what stands in an answer for a refused tag

VARIABLES
    phase,      \* idle, open, answered or closed
    asked,      \* <<scope, spellings>> of the request
    answer      \* per match: the tag, and what the client sees for it

vars == <<phase, asked, answer>>

Init ==
    /\ phase = [r \in Requests |-> "idle"]
    /\ asked \in [Requests -> Scopes \X {<<>>}]
    /\ answer = [r \in Requests |-> <<>>]

Ask(r) ==
    /\ phase[r] = "idle"
    /\ phase' = [phase EXCEPT ![r] = "open"]
    /\ asked'[r] \in Scopes \X Seq(Spellings)
    /\ asked' = [asked EXCEPT ![r] = asked'[r]]
    /\ UNCHANGED answer

(* A match shows a verdict, or a spelling the request submitted under it.  *)
Faithful(question, match) ==
    \/ match.text \in Verdicts
    \/ \E j \in DOMAIN question[2] :
         /\ match.text = question[2][j]
         /\ match.tag = TagName[<<question[1], match.text>>]

Answer(r) ==
    /\ phase[r] = "open"
    /\ phase' = [phase EXCEPT ![r] = "answered"]
    /\ \A i \in DOMAIN answer'[r] : Faithful(asked[r], answer'[r][i])
    /\ answer' = [answer EXCEPT ![r] = answer'[r]]
    /\ UNCHANGED asked

Close(S) ==
    /\ S # {}
    /\ \A r \in S : phase[r] = "open"
    /\ phase' = [r \in Requests |-> IF r \in S THEN "closed" ELSE phase[r]]
    /\ UNCHANGED <<asked, answer>>

Next ==
    \/ \E r \in Requests : Ask(r) \/ Answer(r)
    \/ \E S \in SUBSET Requests : Close(S)

Spec == Init /\ [][Next]_vars
=============================================================================
