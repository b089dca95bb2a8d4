---------------------------- MODULE MCHostUpdate ----------------------------
(* Lists with and without the board on the line, and with the same board twice. *)
EXTENDS HostUpdate

MCLists  == {<<>>, <<1>>, <<2, 1>>, <<1, 1>>}
=============================================================================
