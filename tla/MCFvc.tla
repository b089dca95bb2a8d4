------------------------------- MODULE MCFvc -------------------------------
(* Small instances of Fvc for TLC: pages a and b besides the erased and the *)
(* torn one, two flash pages, images of two pages and of one.  An image of  *)
(* no pages, which every flash holds, is left to the liveness run: with it  *)
(* RunsWholeImage would say nothing.                                        *)
EXTENDS Fvc

CONSTANTS a, b

MCData      == {a, b, Blank, Torn}
MCImages    == {<<a, b>>, <<b>>}
MCAllImages == MCImages \cup {<<>>}
=============================================================================
