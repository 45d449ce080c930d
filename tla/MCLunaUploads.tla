--------------------------- MODULE MCLunaUploads ---------------------------
(***************************************************************************)
(* Small instances of LunaUploads for TLC.                                  *)
(***************************************************************************)
EXTENDS LunaUploads, TLC

CONSTANTS p1, p2, p3

TwoPuts == {p1, p2}
ThreePuts == {p1, p2, p3}
SymmetryTwo == Permutations(TwoPuts)
SymmetryThree == Permutations(ThreePuts)

\* A client that cuts the file in pieces of one length, as the web app does.
Pieces == {<<0, 1>>, <<1, 2>>}
\* ... one piece of two blocks and the rest.
UnevenPieces == {<<0, 2>>, <<2, 3>>}
Whole == {<<0, 1>>}

Member == {"user"}
Link == {"link"}
Anyone == {"user", "link"}
=============================================================================
