----------------------------- MODULE Supervisor -----------------------------
(***************************************************************************)
(* The supervisor (FVC/fvc_supervisor.c): the main thread's state machine, *)
(* which talks to the supervisee over SPI with blocking receives and       *)
(* transmits, and the supervision timer, whose interrupt writes the same   *)
(* state between any two steps of the main thread.                         *)
(*                                                                         *)
(* supervisor_loop serves one state per call: it reads sup->state once, in *)
(* the switch, and may block in it for seconds.  A call is divided where   *)
(* it blocks: receive, compute, respond, then the writes that follow the   *)
(* response.  The supervisee is arbitrary: it may send any byte at any     *)
(* time, or nothing.                                                       *)
(***************************************************************************)
EXTENDS Integers

CONSTANTS
  MaxVars,   \* the largest number of variables a supervisee asks for
  Values,    \* values of variables and of their limits
  Periods,   \* supervision periods, in ticks
  Initial,   \* INITIAL_RESET_TIMER_MS, in ticks
  Reload,    \* the timer's auto-reload value, 65535 in the code
  MaxNoMem   \* bound: allocations that fail

ASSUME VarsAssumption   == MaxVars \in 1..255
ASSUME ValuesAssumption == Values \subseteq Int /\ 0 \in Values
ASSUME TimerAssumption  == /\ Periods \subseteq Nat \ {0} /\ Reload \in Nat
                           /\ Initial \in 1..Reload
ASSUME NoMemAssumption  == MaxNoMem \in Nat

VARIABLES
  state,    \* sup->state
  pc,       \* where the main thread is
  at,       \* the state its current call serves
  cmd,      \* the command received
  ok,       \* the response: ACK or NACK
  var_nb,   \* sup->var_nb
  idx,      \* configured_var_nb
  block,    \* sup->supervision_variables: "null", "live", or "freed" and still pointed to
  min, max, checked,  \* what the block holds
  period,   \* sup->supervision_period
  timer,    \* the down-counter
  running,  \* the timer counts
  heard,    \* the last receive got something from the supervisee
  passed,   \* history: the variables found in range since the last refresh command
  noMem     \* what is left of the bound

conf  == <<var_nb, block, min, max, period>>
round == <<idx, checked, passed>>
clock == <<timer, running>>
vars  == <<state, pc, at, cmd, ok, conf, round, clock, heard, noMem>>

States == {"uninitialized", "awaiting_configuration", "setting_variables_nb",
           "setting_variables", "setting_period", "awaiting_refresh",
           "check_variables", "resetting"}
Listening == {"uninitialized", "awaiting_configuration", "awaiting_refresh"}

\* "none": a zero byte, supervision_command_top, or nothing within the timeout.
Commands == {"none", "init", "set_variable_nb", "set_variable", "set_period", "refresh",
             "reconfigure", "other"}
Accepts  == [s \in Listening |->
               CASE s = "uninitialized"          -> {"init"}
                 [] s = "awaiting_configuration" -> {"set_variable_nb", "set_period"}
                 [] s = "awaiting_refresh"       -> {"refresh", "reconfigure"}]

Slots == 0..(MaxVars - 1)
Vars  == 0..(var_nb - 1)
Zeros == [i \in Slots |-> 0]
None  == [i \in Slots |-> FALSE]

Goto(l)     == pc' = l
Serving(s)  == pc = "send" /\ at = s
\* Mutant: the counter is wider than it is.
Unclipped(p) == p
\* bsp_timer_start_refresh: the counter is clipped to its 16 bits.
Clip(p)     == IF p > Reload THEN Reload ELSE p
Refresh(p)  == timer' = Clip(p) /\ running' = TRUE
\* A byte or a word the supervisee sends, or 0 where nothing comes in time.
Receive(v)  == heard' = TRUE \/ (v = 0 /\ heard' = FALSE)

-----------------------------------------------------------------------------
(* supervisor_loop                                                         *)

Dispatch ==
  /\ pc = "loop" /\ state # "resetting"
  /\ at' = state /\ Goto("recv")
  /\ UNCHANGED <<state, cmd, ok, conf, round, clock, heard, noMem>>

\* A command that the state does not expect is answered with a NACK.
ReceiveCommand ==
  /\ pc = "recv" /\ at \in Listening
  /\ cmd' \in Commands
  /\ ok' = (cmd' \in Accepts[at])
  /\ IF cmd' = "none" THEN Goto("loop") /\ heard' = FALSE
                      ELSE Goto("send") /\ heard' = TRUE
  /\ UNCHANGED <<state, at, conf, round, clock, noMem>>

RefuseCommand ==
  /\ pc = "send" /\ at \in Listening /\ ~ok
  /\ Goto("loop")
  /\ UNCHANGED <<state, at, cmd, ok, conf, round, clock, heard, noMem>>

InitCommand ==
  /\ Serving("uninitialized") /\ ok
  /\ Refresh(Initial) /\ state' = "awaiting_configuration" /\ Goto("loop")
  /\ UNCHANGED <<at, cmd, ok, conf, round, heard, noMem>>

\* Mutant: the count of variables outlives them.
SetVariableNbKept ==
  /\ Serving("awaiting_configuration") /\ ok /\ cmd = "set_variable_nb"
  /\ Refresh(Initial)
  /\ block' = IF block = "null" THEN "null" ELSE "freed"
  /\ idx' = 0 /\ state' = "setting_variables_nb" /\ Goto("loop")
  /\ UNCHANGED <<at, cmd, ok, var_nb, min, max, period, checked, passed, heard, noMem>>

\* The block is freed but still pointed to.  Freeing it twice corrupts the heap: the
\* board goes on or ends in HardFault_Handler.
SetVariableNb ==
  /\ Serving("awaiting_configuration") /\ ok /\ cmd = "set_variable_nb"
  /\ Refresh(Initial)
  /\ block' = IF block = "null" THEN "null" ELSE "freed"
  /\ var_nb' = 0 /\ idx' = 0
  /\ state' = "setting_variables_nb"
  /\ \/ Goto("loop")
     \/ block = "freed" /\ Goto("fault")
  /\ UNCHANGED <<at, cmd, ok, min, max, period, checked, passed, heard, noMem>>

SetPeriod ==
  /\ Serving("awaiting_configuration") /\ ok /\ cmd = "set_period"
  /\ Refresh(Initial) /\ state' = "setting_period" /\ Goto("loop")
  /\ UNCHANGED <<at, cmd, ok, conf, round, heard, noMem>>

\* The number of variables, and calloc.
ReceiveVariableNb ==
  /\ pc = "recv" /\ at = "setting_variables_nb"
  /\ \E n \in 0..MaxVars : Receive(n) /\ var_nb' = n
  /\ \/ /\ var_nb' = 0 /\ ok' = FALSE
        /\ UNCHANGED <<block, min, max, checked, noMem>>
     \/ /\ var_nb' # 0 /\ ok' = TRUE
        /\ block' = "live" /\ min' = Zeros /\ max' = Zeros /\ checked' = None
        /\ UNCHANGED noMem
     \/ /\ var_nb' # 0 /\ ok' = FALSE
        /\ noMem > 0 /\ noMem' = noMem - 1
        /\ block' = "null" /\ UNCHANGED <<min, max, checked>>
  /\ Goto("send")
  /\ UNCHANGED <<state, at, cmd, idx, period, clock, passed>>

VariableNbAnswered ==
  /\ Serving("setting_variables_nb")
  /\ IF ok THEN Refresh(Initial) /\ state' = "setting_variables"
           ELSE UNCHANGED clock  /\ state' = "awaiting_configuration"
  /\ Goto("loop")
  /\ UNCHANGED <<at, cmd, ok, conf, round, heard, noMem>>

\* receive_variable_range.  configured_var_nb is a byte, incremented on entry.
Next8(i) == (i + 1) % 256

ReceiveMin ==
  /\ pc = "recv" /\ at = "setting_variables"
  /\ IF idx < var_nb
     THEN /\ \E v \in Values : Receive(v) /\ min' = [min EXCEPT ![idx] = v]
          /\ Goto("send") /\ UNCHANGED idx
     ELSE idx' = Next8(idx) /\ Goto("loop") /\ UNCHANGED <<min, heard>>
  /\ UNCHANGED <<state, at, cmd, ok, var_nb, block, max, period, checked, passed, clock, noMem>>

MinAnswered ==
  /\ Serving("setting_variables") /\ Goto("recv2")
  /\ UNCHANGED <<state, at, cmd, ok, conf, round, clock, heard, noMem>>

ReceiveMax ==
  /\ pc = "recv2"
  /\ \E v \in Values : Receive(v) /\ max' = [max EXCEPT ![idx] = v]
  /\ Goto("send2")
  /\ UNCHANGED <<state, at, cmd, ok, var_nb, block, min, period, round, clock, noMem>>

MaxAnswered ==
  /\ pc = "send2"
  /\ checked' = [checked EXCEPT ![idx] = FALSE]
  /\ idx' = Next8(idx)
  /\ Refresh(Initial)
  /\ state' = IF idx' >= var_nb THEN "awaiting_configuration" ELSE state
  /\ Goto("loop")
  /\ UNCHANGED <<at, cmd, ok, conf, passed, heard, noMem>>

ReceivePeriod ==
  /\ pc = "recv" /\ at = "setting_period"
  /\ \E p \in Periods \cup {0} :
       /\ Receive(p)
       /\ ok' = (p # 0)
       /\ period' = IF p # 0 THEN p ELSE period
  /\ Goto("send")
  /\ UNCHANGED <<state, at, cmd, var_nb, block, min, max, round, clock, noMem>>

\* Mutant: a period of 0 still refreshes the timer.
PeriodAnsweredAlways ==
  /\ Serving("setting_period")
  /\ IF ok THEN Refresh(period)  /\ state' = "awaiting_refresh"
           ELSE Refresh(Initial) /\ UNCHANGED state
  /\ Goto("loop")
  /\ UNCHANGED <<at, cmd, ok, conf, round, heard, noMem>>

PeriodAnswered ==
  /\ Serving("setting_period")
  /\ IF ok THEN Refresh(period)  /\ state' = "awaiting_refresh"
           ELSE UNCHANGED <<clock, state>>
  /\ Goto("loop")
  /\ UNCHANGED <<at, cmd, ok, conf, round, heard, noMem>>

\* A refresh opens a round of checks, or, without variables, is all there is to it.
RefreshCommand ==
  /\ Serving("awaiting_refresh") /\ ok /\ cmd = "refresh"
  /\ IF var_nb # 0
     THEN /\ state' = "check_variables" /\ idx' = 0 /\ passed' = {}
          /\ UNCHANGED clock
     ELSE Refresh(period) /\ UNCHANGED <<state, idx, passed>>
  /\ Goto("loop")
  /\ UNCHANGED <<at, cmd, ok, conf, checked, heard, noMem>>

Reconfigure ==
  /\ Serving("awaiting_refresh") /\ ok /\ cmd = "reconfigure"
  /\ Refresh(Initial) /\ state' = "awaiting_configuration" /\ Goto("loop")
  /\ UNCHANGED <<at, cmd, ok, conf, round, heard, noMem>>

\* receive_check_variable.  Without a block the limits are two words of the vector
\* table, and setting "checked" there faults.
InRange(v) == min[idx] <= v /\ v <= max[idx]

ReceiveVariable ==
  /\ pc = "recv" /\ at = "check_variables"
  /\ \/ /\ block # "null"
        /\ \E v \in Values :
             /\ Receive(v)
             /\ ok' = (idx < var_nb /\ InRange(v))
        /\ checked' = IF ok' THEN [checked EXCEPT ![idx] = TRUE] ELSE checked
        /\ passed'  = IF ok' THEN passed \cup {idx} ELSE passed
        /\ Goto("send")
     \/ /\ block = "null" /\ ok' = FALSE
        /\ Goto("send") \/ Goto("fault")
        /\ heard' \in BOOLEAN /\ UNCHANGED <<checked, passed>>
  /\ UNCHANGED <<state, at, cmd, conf, idx, clock, noMem>>

\* The response, then the look at every variable's flag.
AllChecked == block # "null" /\ \A i \in Vars : checked[i]

\* Mutant: the flags of a round outlive it.
VariableAnsweredKept ==
  /\ Serving("check_variables")
  /\ idx' = Next8(idx)
  /\ state' = IF AllChecked \/ ~ok THEN "awaiting_refresh" ELSE state
  /\ IF AllChecked THEN Refresh(period) ELSE UNCHANGED clock
  /\ Goto("loop")
  /\ UNCHANGED <<at, cmd, ok, conf, checked, passed, heard, noMem>>

VariableAnswered ==
  /\ Serving("check_variables")
  /\ idx' = Next8(idx)
  /\ state' = IF AllChecked \/ ~ok THEN "awaiting_refresh" ELSE state
  /\ IF AllChecked
     THEN Refresh(period) /\ checked' = [i \in Slots |-> IF i \in Vars THEN FALSE ELSE checked[i]]
     ELSE UNCHANGED <<clock, checked>>
  /\ Goto("loop")
  /\ UNCHANGED <<at, cmd, ok, conf, passed, heard, noMem>>

\* The supervisee is held in reset for 10 ms.
StartReset ==
  /\ pc = "loop" /\ state = "resetting"
  /\ Goto("reset")
  /\ UNCHANGED <<state, at, cmd, ok, conf, round, clock, heard, noMem>>

EndReset ==
  /\ pc = "reset"
  /\ state' = "uninitialized" /\ Refresh(Initial) /\ Goto("loop")
  /\ UNCHANGED <<at, cmd, ok, conf, round, heard, noMem>>

-----------------------------------------------------------------------------
(* The timer's interrupt, and the calls from fvc.c                         *)

Tick ==
  /\ running /\ timer > 0
  /\ timer' = timer - 1
  /\ UNCHANGED <<state, pc, at, cmd, ok, conf, round, running, heard, noMem>>

\* supervisor_timer_period_elapsed_callback; the counter starts again from its reload value.
Elapse ==
  /\ running /\ timer = 0
  /\ timer' = Reload /\ state' = "resetting"
  /\ UNCHANGED <<pc, at, cmd, ok, conf, round, running, heard, noMem>>

\* The main loop in MODE_UPDATER does not call supervisor_loop; an update leaves the
\* timer running, a restore stops it.
EnterUpdater ==
  /\ pc = "loop" /\ Goto("updater")
  /\ UNCHANGED <<state, at, cmd, ok, conf, round, clock, heard, noMem>>

StopTimer ==
  /\ pc = "updater" /\ running' = FALSE
  /\ UNCHANGED <<state, pc, at, cmd, ok, conf, round, timer, heard, noMem>>

\* supervisor_init, which keeps the variables of the supervisee before; the timer may
\* elapse between its two writes.
SupervisorInit ==
  /\ pc = "updater"
  /\ state' = "uninitialized" /\ Goto("arm")
  /\ UNCHANGED <<at, cmd, ok, conf, round, clock, heard, noMem>>

ArmTimer ==
  /\ pc = "arm" /\ Refresh(Initial) /\ Goto("loop")
  /\ UNCHANGED <<state, at, cmd, ok, conf, round, heard, noMem>>

\* HardFault_Handler.
Fault == pc = "fault" /\ UNCHANGED vars

Init ==
  /\ state = "uninitialized" /\ at = "uninitialized" /\ pc = "updater"
  /\ cmd = "none" /\ ok = FALSE
  /\ var_nb = 0 /\ idx = 0 /\ block = "null" /\ period = 0
  /\ min = Zeros /\ max = Zeros /\ checked = None
  /\ timer = Reload /\ running = FALSE
  /\ heard = FALSE /\ passed = {} /\ noMem = MaxNoMem

Idle      == Dispatch \/ ReceiveCommand \/ RefuseCommand \/ StartReset \/ EndReset \/ ArmTimer
Configure == InitCommand \/ SetVariableNb \/ SetPeriod \/ ReceiveVariableNb
             \/ VariableNbAnswered \/ ReceiveMin \/ MinAnswered \/ ReceiveMax
             \/ MaxAnswered \/ ReceivePeriod \/ PeriodAnswered \/ Reconfigure
Check     == RefreshCommand \/ ReceiveVariable \/ VariableAnswered
Thread    == Idle \/ Configure \/ Check
Clock     == Tick \/ Elapse
Caller    == EnterUpdater \/ StopTimer \/ SupervisorInit \/ Fault
Next      == Thread \/ Clock \/ Caller

Spec      == Init /\ [][Next]_vars
\* The main thread runs, its receives time out, and time passes.
FairSpec  == Spec /\ WF_vars(Thread) /\ WF_vars(Clock)

-----------------------------------------------------------------------------
(* Properties                                                              *)

\* Type invariant: every variable keeps its range.
TypeOK ==
  /\ state \in States /\ at \in States \ {"resetting"}
  /\ pc \in {"loop", "recv", "send", "recv2", "send2", "reset", "updater", "arm", "fault"}
  /\ cmd \in Commands /\ ok \in BOOLEAN
  /\ var_nb \in 0..MaxVars /\ idx \in 0..255
  /\ block \in {"null", "live", "freed"}
  /\ min \in [Slots -> Values] /\ max \in [Slots -> Values]
  /\ checked \in [Slots -> BOOLEAN]
  /\ period \in Periods \cup {0}
  /\ timer \in 0..Reload /\ running \in BOOLEAN
  /\ heard \in BOOLEAN /\ passed \subseteq Slots
  /\ noMem \in 0..MaxNoMem

\* Whenever the main thread sets or checks a variable, its index lies inside the block,
\* and the block is not one that set_variable_nb has freed (fvc_supervisor.c:72-105,
\* 145-155): a reset or an update that interrupts a configuration never leaves a count
\* of variables behind for a block that is gone.
BlockAccess ==
  pc # "loop" /\ pc \notin {"reset", "updater", "arm", "fault"} =>
    /\ at = "setting_variables" => idx < var_nb /\ block = "live"
    /\ at = "check_variables"   => idx < var_nb /\ block # "freed"

\* A round of checks puts off the supervisee's reset only if every variable was found in
\* its range since the refresh command that opened the round: flags left set by a round
\* that failed, or that a reset or an update cut short, do not count (fvc_supervisor.c:
\* 219, 244-268).
DeadlineEarned ==
  [][Serving("check_variables") /\ pc' = "loop" /\ timer' > timer => passed = Vars]_vars

\* A supervisee that stays silent is reset, again and again, in whatever state the
\* supervisor was: a timeout that the main thread overwrites, and limits or values read
\* as 0 from a silent line, only delay it (fvc_supervisor.c:31-42, 65-70, 286-290).
SilentIsReset ==
  <>[](~heard /\ pc \notin {"updater", "fault"}) => []<>(pc = "reset")

\* What the guard "if(sup->supervision_variables != NULL)" (fvc_supervisor.c:149) is
\* for: only a block that is allocated is freed.
FreedOnce ==
  [][Serving("awaiting_configuration") /\ ok /\ cmd = "set_variable_nb" /\ pc' # "send"
       => block # "freed"]_vars

-----------------------------------------------------------------------------
(* The inductive invariant behind BlockAccess and DeadlineEarned (proved   *)
(* in SupervisorProofs)                                                    *)

Busy   == pc \in {"recv", "send", "recv2", "send2"}
\* The main thread is in a call for s, or will be in its next one.
Cur(s) == state = s \/ (Busy /\ at = s)

\* Only the interrupt writes the state while a call is under way.
ControlInv ==
  /\ Busy => state \in {at, "resetting"}
  /\ pc \in {"recv2", "send2"} => at = "setting_variables"

\* No variables are counted in a freed block, and a configuration starts at 0.
BlockInv ==
  /\ block = "freed" => var_nb = 0
  /\ Cur("setting_variables_nb") => idx = 0
  /\ Serving("setting_variables_nb") /\ ok => block = "live" /\ var_nb # 0
  /\ Cur("setting_variables") => block = "live" /\ idx < var_nb
  /\ Cur("check_variables") => idx < var_nb

\* Variables pass in order, and the last one's flag is set only between finding it in
\* range and the look at all flags.
RoundInv ==
  /\ Cur("check_variables") =>
       passed = IF pc = "send" /\ ok THEN 0..idx ELSE 0..(idx - 1)
  /\ pc = "send" /\ at = "check_variables" /\ ok => block = "live"
  /\ Cur("check_variables") /\ block = "live" => \A i \in passed : checked[i]
  /\ block = "live" /\ var_nb # 0 /\ checked[var_nb - 1] =>
       Serving("check_variables") /\ ok /\ idx = var_nb - 1

SInv == TypeOK /\ ControlInv /\ BlockInv /\ RoundInv
=============================================================================
