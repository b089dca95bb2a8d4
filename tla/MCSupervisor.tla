---------------------------- MODULE MCSupervisor ----------------------------
(* Small instances of Supervisor for TLC: up to two variables, values and   *)
(* limits of two numbers, a timer of three ticks.                  *)
EXTENDS Supervisor

MCValues  == {0, 1}
MCPeriods == {1, 3}   \* below and above what the timer's 16 bits hold
=============================================================================
