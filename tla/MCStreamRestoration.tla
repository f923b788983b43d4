------------------------ MODULE MCStreamRestoration ------------------------
(***************************************************************************)
(* Tokens of three characters in deltas of one, which cuts them in every   *)
(* way, and a delta that ends one possible prefix and begins another.  A   *)
(* restored value alone reaches the limit that the text read has to keep.  *)
(***************************************************************************)
EXTENDS StreamRestoration

MCChunks == {<<"<">>, <<"m">>, <<">">>, <<"m", "<">>}
=============================================================================
