----------------------------- MODULE TokenText -----------------------------
(***************************************************************************)
(* A provider's text, its tokens, and IncrementalRestorer                  *)
(* (gateway/streaming/tokens.py), which restores a text that arrives in    *)
(* arbitrary pieces.                                                       *)
(*                                                                         *)
(* A character of the text is an opening bracket, a closing bracket or a   *)
(* body character.  A token is "<", 1 to Width body characters, ">": the   *)
(* bounded entity, the version and the tag of the real grammar are all     *)
(* body characters here.  The tokens of Width body characters were minted  *)
(* by this request and are confirmed by the vault; a shorter one is        *)
(* refused and stays as it is.                                             *)
(***************************************************************************)
EXTENDS Naturals, Sequences

CONSTANT Width          \* ENTITY_WIDTH and the tag: the longest body

ASSUME WidthAssumption == Width \in Nat \ {0}

Characters == {"<", "m", ">"}
Value == "v"            \* the original value a minted token stands for
Outputs == Characters \cup {Value}

MaxTokenLength == Width + 2

(* s[a .. b] is a body: what may stand between the brackets.               *)
IsBody(s, a, b) == b - a < Width /\ \A k \in a .. b : s[k] = "m"

(* TOKEN_PATTERN, where the request minted what it matches.                *)
MintedAt(s, i) ==
    LET close == i + Width + 1 IN
    /\ close <= Len(s) /\ s[i] = "<" /\ s[close] = ">"
    /\ IsBody(s, i + 1, close - 1)

(* RestorationEngine.restore on one text: each match from the left, then   *)
(* the rest.                                                               *)
Restore(s) ==
    LET from[i \in 1 .. Len(s) + 1] ==
          IF i > Len(s) THEN <<>>
          ELSE IF MintedAt(s, i) THEN <<Value>> \o from[i + MaxTokenLength]
          ELSE <<s[i]>> \o from[i + 1]
    IN from[1]

\* mutant: one character short of the longest token is no longer held
PrefixTooShort(s) ==
    /\ Len(s) + 1 < MaxTokenLength
    /\ s[1] = "<" /\ IsBody(s, 2, Len(s))

(* _possible_prefix: s may still become a token.                           *)
PossiblePrefix(s) ==
    /\ Len(s) < MaxTokenLength
    /\ s[1] = "<" /\ IsBody(s, 2, Len(s))

(* The bracket rfind looks at: the last one in the last MaxTokenLength     *)
(* characters, or 0.                                                       *)
LastBracket(s) ==
    LET starts == {k \in 1 .. Len(s) : k > Len(s) - MaxTokenLength /\ s[k] = "<"}
    IN IF starts = {} THEN 0 ELSE CHOOSE k \in starts : \A j \in starts : j <= k

(* How much of combined feed() lets go; the rest is the new suffix.        *)
Released(combined, final) ==
    LET k == LastBracket(combined) IN
    IF ~final /\ k > 0 /\ PossiblePrefix(SubSeq(combined, k, Len(combined)))
    THEN k - 1 ELSE Len(combined)

(* feed(delta, final): the text handed on and the suffix kept.             *)
Feed(suffix, delta, final) ==
    LET combined == suffix \o delta
        n == Released(combined, final)
    IN [text |-> Restore(SubSeq(combined, 1, n)),
        suffix |-> SubSeq(combined, n + 1, Len(combined))]
=============================================================================
