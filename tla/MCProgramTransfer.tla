-------------------------- MODULE MCProgramTransfer --------------------------
(* Programs of no, part of one, one, and up to three packets of four bytes. *)
EXTENDS ProgramTransfer

MCPrograms == {<<>>, <<171>>, <<0, 255, 171, 7>>, <<1, 2, 3, 4, 5, 6, 7>>,
               <<171, 0, 7, 1, 171, 0, 0, 0, 128>>}

\* All that a hit can do to up to eight neighbouring bits.
MCBursts == {p * 2^s : p \in 1..255, s \in 0..8}
=============================================================================
