-------------------------- MODULE MCTextInspection --------------------------
(* Texts of every class of character, with every set of overlapping spans. *)
EXTENDS TextInspection

AllCharacters == {"plain", "wide", "twin", "mark", "hidden", "bidi"}
PlainCharacters == {"plain"}
TwoScores == {1, 2}
OneType == {1}
=============================================================================
