---------------------------- MODULE EepromStore ----------------------------
(* What the controller expects of its emulated EEPROM, and what Fvc assumes *)
(* of it: a variable's write is atomic.  A write that is acknowledged is    *)
(* stored; one that is refused, or interrupted by a power loss, is stored   *)
(* or not, which the refusal or the next start decides for good; no other   *)
(* variable ever changes.                                                   *)
EXTENDS Naturals

CONSTANTS
  Addresses,  \* virtual addresses of the variables (enum eeprom_addr)
  Values,     \* their values
  NoData      \* a variable never written (EE_NO_DATA)

VARIABLES
  store,   \* the variables' values
  asked,   \* the write in progress or interrupted, or NoData
  mode,    \* "up", "busy" with a write, "down" from a power loss to the end of EE_Init
  answer   \* the result of the last fvc_eeprom_write

vars == <<store, asked, mode, answer>>

Stored(w) == IF w = NoData THEN store ELSE [store EXCEPT ![w.a] = w.d]

Init ==
  /\ store = [a \in Addresses |-> NoData]
  /\ asked = NoData
  /\ mode = "down"
  /\ answer = TRUE

Write ==
  /\ mode = "up" /\ mode' = "busy"
  /\ \E a \in Addresses, d \in Values : asked' = [a |-> a, d |-> d]
  /\ UNCHANGED <<store, answer>>

Acknowledge ==
  /\ mode = "busy" /\ mode' = "up"
  /\ store' = Stored(asked) /\ asked' = NoData
  /\ answer' = TRUE

Refuse ==
  /\ mode = "busy" /\ mode' = "up"
  /\ store' \in {store, Stored(asked)} /\ asked' = NoData
  /\ answer' = FALSE

RefuseAtOnce ==
  /\ mode = "up" /\ answer' = FALSE
  /\ UNCHANGED <<store, asked, mode>>

PowerLoss ==
  /\ mode' = "down"
  /\ UNCHANGED <<store, asked, answer>>

Restart ==
  /\ mode = "down" /\ mode' = "up"
  /\ store' \in {store, Stored(asked)} /\ asked' = NoData
  /\ UNCHANGED answer

Next == Write \/ Acknowledge \/ Refuse \/ RefuseAtOnce \/ PowerLoss \/ Restart

Spec == Init /\ [][Next]_vars
=============================================================================
