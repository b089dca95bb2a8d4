----------------------------- MODULE MCEeprom ------------------------------
EXTENDS Eeprom, TLC

CONSTANTS u, v

MCValues == {u, v}
Symmetry == Permutations(MCValues)
=============================================================================
