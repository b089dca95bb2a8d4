---------------------------- MODULE MCProgramCopy ----------------------------
(* Two programs: one page, and two equal pages that are all zeros, as       *)
(* floating lines may read.                                                 *)
EXTENDS ProgramCopy

MCPrograms == {<<{1}>>, <<{1, 2}, {1, 2}>>}
==============================================================================
