--------------------------- MODULE MCPostReceive ---------------------------
(***************************************************************************)
(* The instances of PostReceive for TLC.                                   *)
(***************************************************************************)
EXTENDS PostReceive

\* Line ends, dots and text: enough for a header, an empty line and the mark.
LinePieces == {<<cr, lf>>, <<"dot">>, <<"x">>}

\* A buffer without room for a byte, and one that the shortest article with
\* an empty line just fits into, so that longer ones are too big.
AllConfs == [max : {1, 8}, tls : BOOLEAN, polite : BOOLEAN]
=============================================================================
