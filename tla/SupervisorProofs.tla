-------------------------- MODULE SupervisorProofs --------------------------
(***************************************************************************)
(* Proofs about Supervisor for any number of variables up to 255, any      *)
(* values, periods and timer lengths, and any supervisee.                  *)
(***************************************************************************)
EXTENDS Supervisor, TLAPS

\* The type invariant, conjunct by conjunct: the main thread's, the block's and the timer's.
ThreadOK ==
  /\ state \in States /\ at \in States \ {"resetting"}
  /\ pc \in {"loop", "recv", "send", "recv2", "send2", "reset", "updater", "arm", "fault"}
  /\ cmd \in Commands /\ ok \in BOOLEAN /\ heard \in BOOLEAN

DataOK ==
  /\ var_nb \in 0..MaxVars /\ idx \in 0..255
  /\ block \in {"null", "live", "freed"}
  /\ min \in [Slots -> Values] /\ max \in [Slots -> Values]
  /\ checked \in [Slots -> BOOLEAN]
  /\ period \in Periods \cup {0}
  /\ passed \subseteq Slots /\ noMem \in 0..MaxNoMem

TimerOK == timer \in 0..Reload /\ running \in BOOLEAN

LEMMA TypeParts == TypeOK <=> ThreadOK /\ DataOK /\ TimerOK
BY DEF TypeOK, ThreadOK, DataOK, TimerOK

\* configured_var_nb does not wrap while it indexes a variable.
LEMMA NextIndex ==
  ASSUME NEW i \in 0..254
  PROVE  Next8(i) = i + 1
BY DEF Next8

LEMMA NextIndexType ==
  ASSUME NEW i \in 0..255
  PROVE  Next8(i) \in 0..255
BY DEF Next8

LEMMA RefreshType ==
  ASSUME NEW p \in Nat, Refresh(p)
  PROVE  timer' \in 0..Reload /\ running' \in BOOLEAN
BY TimerAssumption DEF Refresh, Clip

-----------------------------------------------------------------------------
(* Typing                                                                  *)

LEMMA ThreadStep == TypeOK /\ Next => ThreadOK'
<1> SUFFICES ASSUME TypeOK, Next PROVE ThreadOK'
  OBVIOUS
<1> USE DEF ThreadOK, TypeOK, States
<1>1. CASE Idle
  <2>1. CASE ReceiveCommand
    <3>1. ok' \in BOOLEAN
      <4>1. ok' = (cmd' \in Accepts[at])
        BY <2>1 DEF ReceiveCommand
      <4> QED
        BY ONLY <4>1, SMT
    <3> QED
      BY <2>1, <3>1 DEF ReceiveCommand, Goto
  <2>2. CASE ~ReceiveCommand
    BY <1>1, <2>2 DEF Idle, Dispatch, RefuseCommand, StartReset, EndReset, ArmTimer, Goto
  <2> QED
    BY <2>1, <2>2
<1>2. CASE Configure
  <2>1. CASE ReceiveVariableNb
    BY <2>1 DEF ReceiveVariableNb, Goto, Receive
  <2>2. CASE ReceivePeriod
    <3>1. ok' \in BOOLEAN
      <4>1. PICK p \in Periods \cup {0} : ok' = (p # 0)
        BY <2>2 DEF ReceivePeriod
      <4> QED
        BY ONLY <4>1, SMT
    <3> QED
      BY <2>2, <3>1 DEF ReceivePeriod, Goto, Receive
  <2>3. CASE InitCommand \/ SetVariableNb \/ SetPeriod \/ VariableNbAnswered
    BY <2>3 DEF InitCommand, SetVariableNb, SetPeriod, VariableNbAnswered, Goto
  <2>4. CASE ReceiveMin
    BY <2>4 DEF ReceiveMin, Goto, Receive
  <2>6. CASE MinAnswered \/ ReceiveMax
    BY <2>6 DEF MinAnswered, ReceiveMax, Goto, Receive
  <2>5. CASE MaxAnswered \/ PeriodAnswered \/ Reconfigure
    BY <2>5 DEF MaxAnswered, PeriodAnswered, Reconfigure, Goto
  <2> QED
    BY <1>2, <2>1, <2>2, <2>3, <2>4, <2>5, <2>6 DEF Configure
<1>3. CASE Check
  BY <1>3 DEF Check, RefreshCommand, ReceiveVariable, VariableAnswered, Goto, Receive
<1>4. CASE Clock
  BY <1>4 DEF Clock, Tick, Elapse
<1>5. CASE Caller
  BY <1>5 DEF Caller, EnterUpdater, StopTimer, SupervisorInit, Fault, Goto, vars, conf, round,
              clock
<1> QED
  BY <1>1, <1>2, <1>3, <1>4, <1>5 DEF Next, Thread

LEMMA TimerStep == TypeOK /\ Next => TimerOK'
<1> SUFFICES ASSUME TypeOK, Next PROVE TimerOK'
  OBVIOUS
<1>1. Initial \in Nat /\ period \in Nat
  BY TimerAssumption DEF TypeOK
<1>2. CASE UNCHANGED clock
  BY <1>2 DEF clock, TypeOK, TimerOK
<1>3. CASE Refresh(Initial) \/ Refresh(period)
  BY <1>1, <1>3, RefreshType DEF TimerOK
<1>4. CASE Clock
  BY <1>4, TimerAssumption DEF Clock, Tick, Elapse, TypeOK, TimerOK
<1>5. CASE StopTimer
  BY <1>5 DEF StopTimer, TypeOK, TimerOK
<1>6. CASE Idle
  BY <1>2, <1>3, <1>6 DEF Idle, Dispatch, ReceiveCommand, RefuseCommand, StartReset, EndReset,
                          ArmTimer
<1>7. CASE Configure
  BY <1>2, <1>3, <1>7 DEF Configure, InitCommand, SetVariableNb, SetPeriod, ReceiveVariableNb,
                          VariableNbAnswered, ReceiveMin, MinAnswered, ReceiveMax,
                          MaxAnswered, ReceivePeriod, PeriodAnswered, Reconfigure
<1>8. CASE Check
  BY <1>2, <1>3, <1>8 DEF Check, RefreshCommand, ReceiveVariable, VariableAnswered
<1>9. CASE EnterUpdater \/ SupervisorInit \/ Fault
  BY <1>2, <1>9 DEF EnterUpdater, SupervisorInit, Fault, vars
<1> QED
  BY <1>4, <1>5, <1>6, <1>7, <1>8, <1>9 DEF Next, Thread, Caller

LEMMA DataStep == SInv /\ Next => DataOK'
<1> SUFFICES ASSUME SInv, Next PROVE DataOK'
  OBVIOUS
<1>1. DataOK
  BY TypeParts DEF SInv
<1>2. CASE UNCHANGED <<conf, round, noMem>>
  BY <1>1, <1>2 DEF DataOK, conf, round
<1>3. CASE SetVariableNb
  BY <1>1, <1>3, VarsAssumption DEF DataOK, SetVariableNb
<1>4. CASE ReceiveVariableNb
  <2>1. Zeros \in [Slots -> Values] /\ None \in [Slots -> BOOLEAN]
    BY ValuesAssumption DEF Zeros, None
  <2>2. noMem' \in 0..MaxNoMem
    BY <1>1, <1>4, NoMemAssumption DEF DataOK, ReceiveVariableNb
  <2>3. var_nb' \in 0..MaxVars
    BY <1>4 DEF ReceiveVariableNb
  <2>4. block' \in {"null", "live", "freed"}
    BY <1>1, <1>4 DEF DataOK, ReceiveVariableNb
  <2>5. min' \in [Slots -> Values] /\ max' \in [Slots -> Values] /\ checked' \in [Slots -> BOOLEAN]
    BY <1>1, <1>4, <2>1 DEF DataOK, ReceiveVariableNb
  <2>6. UNCHANGED <<idx, period, passed>>
    BY <1>4 DEF ReceiveVariableNb
  <2> QED
    BY <1>1, <2>2, <2>3, <2>4, <2>5, <2>6 DEF DataOK
<1>5. CASE ReceiveMin
  <2>1. min' \in [Slots -> Values]
    BY <1>1, <1>5 DEF DataOK, ReceiveMin
  <2>2. idx' \in 0..255
    <3>1. idx' = idx \/ idx' = Next8(idx)
      BY <1>5 DEF ReceiveMin
    <3>2. idx \in 0..255
      BY <1>1 DEF DataOK
    <3> QED
      BY ONLY <3>1, <3>2, NextIndexType
  <2>3. UNCHANGED <<var_nb, block, max, period, checked, passed, noMem>>
    BY <1>5 DEF ReceiveMin
  <2> QED
    BY <1>1, <2>1, <2>2, <2>3 DEF DataOK
<1>6. CASE ReceiveMax
  BY <1>1, <1>6 DEF DataOK, ReceiveMax, round
<1>7. CASE MaxAnswered
  BY <1>1, <1>7, NextIndexType DEF DataOK, MaxAnswered, conf
<1>8. CASE ReceivePeriod
  BY <1>1, <1>8 DEF DataOK, ReceivePeriod, round
<1>9. CASE RefreshCommand
  BY <1>1, <1>9 DEF DataOK, RefreshCommand, conf
<1>10. CASE ReceiveVariable
  <2>1. ok' => idx \in Slots
    <3>1. ok' => idx < var_nb
      BY <1>10 DEF ReceiveVariable
    <3> QED
      BY <1>1, <3>1, VarsAssumption DEF DataOK, Slots
  <2>2. passed' \subseteq Slots
    BY <1>1, <1>10, <2>1 DEF DataOK, ReceiveVariable
  <2>3. checked' \in [Slots -> BOOLEAN]
    BY <1>1, <1>10 DEF DataOK, ReceiveVariable
  <2>4. UNCHANGED <<conf, idx, noMem>>
    BY <1>10 DEF ReceiveVariable
  <2> QED
    BY <1>1, <2>2, <2>3, <2>4 DEF DataOK, conf
<1>11. CASE VariableAnswered
  <2>1. checked' \in [Slots -> BOOLEAN]
    BY <1>1, <1>11 DEF DataOK, VariableAnswered
  <2>2. idx' \in 0..255
    BY <1>1, <1>11, NextIndexType DEF DataOK, VariableAnswered
  <2>3. UNCHANGED <<conf, passed, noMem>>
    BY <1>11 DEF VariableAnswered
  <2> QED
    BY <1>1, <2>1, <2>2, <2>3 DEF DataOK, conf
<1>12. CASE Idle \/ InitCommand \/ SetPeriod \/ VariableNbAnswered \/ MinAnswered
            \/ PeriodAnswered \/ Reconfigure \/ Clock \/ Caller
  BY <1>2, <1>12 DEF Idle, Dispatch, ReceiveCommand, RefuseCommand, StartReset, EndReset,
     ArmTimer, InitCommand, SetPeriod, VariableNbAnswered, MinAnswered, PeriodAnswered,
     Reconfigure, Clock, Tick, Elapse, Caller, EnterUpdater, StopTimer, SupervisorInit, Fault, vars
<1> QED
  BY <1>3, <1>4, <1>5, <1>6, <1>7, <1>8, <1>9, <1>10, <1>11, <1>12
     DEF Next, Thread, Configure, Check

LEMMA TypeStep == SInv /\ Next => TypeOK'
<1> SUFFICES ASSUME SInv, Next PROVE TypeOK'
  OBVIOUS
<1>1. ThreadOK' /\ TimerOK' /\ DataOK'
  BY ThreadStep, TimerStep, DataStep DEF SInv
<1> QED
  BY <1>1 DEF TypeOK, ThreadOK, DataOK, TimerOK

-----------------------------------------------------------------------------
(* The steps that leave configuration and checks alone                     *)

LEMMA ControlStep == SInv /\ Next => ControlInv'
<1> SUFFICES ASSUME SInv, Next PROVE ControlInv'
  OBVIOUS
<1> USE DEF SInv, TypeOK, ControlInv, Busy, Goto, Serving
<1>1. CASE Idle
  BY <1>1 DEF Idle, Dispatch, ReceiveCommand, RefuseCommand, StartReset, EndReset, ArmTimer,
              Listening
<1>2. CASE Configure
  BY <1>2 DEF Configure, InitCommand, SetVariableNb, SetPeriod, ReceiveVariableNb,
              VariableNbAnswered, ReceiveMin, MinAnswered, ReceiveMax, MaxAnswered,
              ReceivePeriod, PeriodAnswered, Reconfigure
<1>3. CASE Check
  BY <1>3 DEF Check, RefreshCommand, ReceiveVariable, VariableAnswered
<1>4. CASE Clock
  BY <1>4 DEF Clock, Tick, Elapse
<1>5. CASE Caller
  BY <1>5 DEF Caller, EnterUpdater, StopTimer, SupervisorInit, Fault, vars
<1> QED
  BY <1>1, <1>2, <1>3, <1>4, <1>5 DEF Next, Thread

\* Steps after which the main thread is in no configuration or check it was not in.
Quiet ==
  /\ \A s \in {"setting_variables_nb", "setting_variables", "check_variables"} :
       Cur(s)' => Cur(s)
  /\ pc  = "send" => at  \notin {"setting_variables_nb", "check_variables"}
  /\ pc' = "send" => at' \notin {"setting_variables_nb", "check_variables"}
  /\ UNCHANGED <<var_nb, block, idx, checked, passed>>

LEMMA QuietStep ==
  ASSUME SInv, Quiet, ControlInv'
  PROVE  BlockInv' /\ RoundInv'
<1> USE DEF Quiet, SInv, TypeOK, Serving
<1>1. BlockInv'
  BY DEF BlockInv
<1>2. Cur("check_variables")' =>
        Cur("check_variables") /\ pc # "send" /\ pc' # "send"
  BY DEF ControlInv, Busy, Cur
<1>3. RoundInv'
  <2>1. Cur("check_variables")' => passed' = 0..(idx' - 1)
    BY <1>2 DEF RoundInv
  <2>2. Cur("check_variables")' /\ block' = "live" => \A i \in passed' : checked'[i]
    BY <1>2 DEF RoundInv
  <2>3. ~(block' = "live" /\ var_nb' # 0 /\ checked'[var_nb' - 1])
    BY DEF RoundInv
  <2> QED
    BY <1>2, <2>1, <2>2, <2>3 DEF RoundInv
<1> QED
  BY <1>1, <1>3

\* The interrupt can only take the main thread out of a state.
LEMMA ClockStep ==
  ASSUME SInv, Clock, ControlInv'
  PROVE  BlockInv' /\ RoundInv'
<1>1. state' \in {state, "resetting"}
      /\ UNCHANGED <<pc, at, ok, var_nb, block, idx, checked, passed>>
  BY DEF Clock, Tick, Elapse, conf, round
<1>2. \A s \in {"setting_variables_nb", "setting_variables", "check_variables"} :
        Cur(s)' => Cur(s)
  BY <1>1 DEF Cur, Busy
<1>3. BlockInv'
  BY <1>1, <1>2 DEF SInv, BlockInv, Serving
<1>4. RoundInv'
  BY <1>1, <1>2 DEF SInv, RoundInv, Serving
<1> QED
  BY <1>3, <1>4

LEMMA QuietActions ==
  ASSUME SInv,
         \/ Idle \/ InitCommand \/ SetPeriod \/ Reconfigure \/ ReceivePeriod \/ PeriodAnswered
         \/ ReceiveMin \/ MinAnswered \/ ReceiveMax \/ Caller
  PROVE  Quiet
<1> USE DEF Quiet, Cur, Busy, Serving, Goto, SInv, ControlInv, conf, round
<1>1. CASE Idle
  BY <1>1 DEF Idle, Dispatch, ReceiveCommand, RefuseCommand, StartReset, EndReset, ArmTimer,
              Listening
<1>2. CASE InitCommand \/ SetPeriod \/ Reconfigure
  BY <1>2 DEF InitCommand, SetPeriod, Reconfigure
<1>3. CASE ReceivePeriod \/ PeriodAnswered
  BY <1>3 DEF ReceivePeriod, PeriodAnswered
<1>4. CASE ReceiveMin
  <2>1. idx < var_nb
    BY <1>4 DEF ReceiveMin, BlockInv
  <2> QED
    BY <1>4, <2>1 DEF ReceiveMin
<1>5. CASE MinAnswered \/ ReceiveMax
  BY <1>5 DEF MinAnswered, ReceiveMax
<1>6. CASE Caller
  BY <1>6 DEF Caller, EnterUpdater, StopTimer, SupervisorInit, Fault, vars
<1> QED
  BY <1>1, <1>2, <1>3, <1>4, <1>5, <1>6

-----------------------------------------------------------------------------
(* The steps that configure the variables                                  *)

LEMMA SetVariableNbStep ==
  ASSUME SInv, SetVariableNb
  PROVE  BlockInv' /\ RoundInv'
<1>1. /\ pc' # "send" /\ state' = "setting_variables_nb" /\ ~Busy'
      /\ var_nb' = 0 /\ idx' = 0
  BY DEF SetVariableNb, Goto, Busy
<1> QED
  BY <1>1 DEF BlockInv, RoundInv, Cur, Serving

LEMMA ReceiveVariableNbStep ==
  ASSUME SInv, ReceiveVariableNb
  PROVE  BlockInv' /\ RoundInv'
<1>1. /\ pc' = "send" /\ at' = "setting_variables_nb" /\ state' = state /\ idx' = idx
      /\ state \in {at, "resetting"} /\ idx = 0
  BY DEF ReceiveVariableNb, SInv, ControlInv, BlockInv, Busy, Cur, Goto
<1>2. /\ ~Cur("setting_variables")' /\ ~Cur("check_variables")'
      /\ at' # "check_variables"
  BY <1>1 DEF Cur, ReceiveVariableNb
<1>3. \/ var_nb' = 0 /\ ~ok'
      \/ var_nb' \in 1..MaxVars /\ ok' /\ block' = "live" /\ checked' = None
      \/ var_nb' # 0 /\ ~ok' /\ block' = "null"
  BY DEF ReceiveVariableNb
<1>4. BlockInv'
  BY <1>1, <1>2, <1>3 DEF BlockInv, Serving
<1>5. block' = "live" /\ var_nb' # 0 => ~checked'[var_nb' - 1]
  BY <1>3, VarsAssumption DEF None, Slots
<1> QED
  BY <1>2, <1>4, <1>5 DEF RoundInv

LEMMA VariableNbAnsweredStep ==
  ASSUME SInv, VariableNbAnswered
  PROVE  BlockInv' /\ RoundInv'
<1>1. /\ pc' = "loop" /\ UNCHANGED <<var_nb, block, idx, checked, passed>>
      /\ \/ ok /\ state' = "setting_variables"
         \/ state' = "awaiting_configuration"
  BY DEF VariableNbAnswered, conf, round, Goto
<1>2. pc = "send" /\ at = "setting_variables_nb"
  BY DEF VariableNbAnswered, Serving
<1>3. idx = 0 /\ (ok => block = "live" /\ var_nb # 0) /\ var_nb \in Nat
  BY <1>2 DEF SInv, TypeOK, BlockInv, Cur, Busy, Serving
<1>4. BlockInv'
  BY <1>1, <1>2, <1>3 DEF SInv, BlockInv, Cur, Busy, Serving
<1>5. RoundInv'
  BY <1>1, <1>2 DEF SInv, RoundInv, Cur, Busy, Serving
<1> QED
  BY <1>4, <1>5

LEMMA MaxAnsweredStep ==
  ASSUME SInv, MaxAnswered
  PROVE  BlockInv' /\ RoundInv'
<1>1. /\ pc' = "loop" /\ UNCHANGED <<var_nb, block, passed>>
      /\ checked' = [checked EXCEPT ![idx] = FALSE] /\ idx' = Next8(idx)
      /\ state' = IF idx' >= var_nb THEN "awaiting_configuration" ELSE state
  BY DEF MaxAnswered, conf, Goto
<1>2. pc = "send2" /\ at = "setting_variables" /\ state \in {at, "resetting"}
  BY DEF MaxAnswered, SInv, ControlInv, Busy
<1>3. block = "live" /\ idx < var_nb /\ var_nb \in 0..255 /\ idx \in 0..255
  BY <1>2, VarsAssumption DEF SInv, TypeOK, BlockInv, Cur, Busy
<1>4. idx' = idx + 1
  BY <1>1, <1>3, NextIndex
<1>5. BlockInv'
  BY <1>1, <1>2, <1>3, <1>4 DEF BlockInv, Cur, Busy, Serving
<1>6. ~checked[var_nb - 1]
  BY <1>2, <1>3 DEF SInv, RoundInv, Serving
<1>7. var_nb - 1 \in Slots /\ checked \in [Slots -> BOOLEAN]
  BY <1>3, VarsAssumption DEF SInv, TypeOK, Slots
<1>8. ~checked'[var_nb - 1]
  BY <1>1, <1>6, <1>7
<1> QED
  BY <1>1, <1>2, <1>5, <1>8 DEF RoundInv, Cur, Busy, Serving

-----------------------------------------------------------------------------
(* The steps of a round of checks                                          *)

LEMMA RefreshCommandStep ==
  ASSUME SInv, RefreshCommand, ControlInv'
  PROVE  BlockInv' /\ RoundInv'
<1>1. pc = "send" /\ at = "awaiting_refresh" /\ state \in {at, "resetting"}
  BY DEF RefreshCommand, Serving, SInv, ControlInv, Busy
<1>2. pc' = "loop" /\ UNCHANGED <<var_nb, block, checked>>
  BY DEF RefreshCommand, conf, Goto
<1>3. CASE var_nb = 0
  <2>1. UNCHANGED <<state, idx, passed>>
    BY <1>3 DEF RefreshCommand
  <2>2. Quiet
    BY <1>1, <1>2, <2>1 DEF Quiet, Cur, Busy
  <2> QED
    BY <2>2, QuietStep
<1>4. CASE var_nb # 0
  <2>1. state' = "check_variables" /\ idx' = 0 /\ passed' = {}
    BY <1>4 DEF RefreshCommand
  <2>2. BlockInv'
    BY <1>1, <1>2, <1>4, <2>1 DEF SInv, TypeOK, BlockInv, Cur, Busy, Serving
  <2>3. passed' = 0..(idx' - 1)
    BY <2>1
  <2>4. block = "live" => ~checked[var_nb - 1]
    BY <1>1, <1>4 DEF SInv, RoundInv, Serving
  <2> QED
    BY <1>2, <1>4, <2>1, <2>2, <2>3, <2>4 DEF RoundInv, Cur, Busy, Serving
<1> QED
  BY <1>3, <1>4

LEMMA ReceiveVariableStep ==
  ASSUME SInv, ReceiveVariable
  PROVE  BlockInv' /\ RoundInv'
<1>1. /\ pc = "recv" /\ at = "check_variables" /\ state \in {at, "resetting"}
      /\ idx < var_nb /\ passed = 0..(idx - 1)
      /\ var_nb \in 0..MaxVars /\ idx \in 0..255
  BY DEF ReceiveVariable, SInv, TypeOK, ControlInv, BlockInv, RoundInv, Busy, Cur
<1>2. pc' \in {"send", "fault"} /\ UNCHANGED <<state, at, var_nb, block, idx>>
  BY DEF ReceiveVariable, conf, Goto
<1>3. BlockInv'
  BY <1>1, <1>2 DEF SInv, BlockInv, Cur, Busy, Serving
<1>4. idx \in Slots /\ var_nb - 1 \in Slots
  BY <1>1, VarsAssumption DEF Slots
<1>5. checked \in [Slots -> BOOLEAN] /\ passed \subseteq Slots
  BY DEF SInv, TypeOK
<1>6. \/ /\ ok' /\ checked' = [checked EXCEPT ![idx] = TRUE] /\ passed' = passed \cup {idx}
         /\ block = "live" /\ pc' = "send"
      \/ ~ok' /\ checked' = checked /\ passed' = passed
  <2>1. CASE block # "null"
    BY <2>1, <1>1 DEF ReceiveVariable, Goto, SInv, BlockInv, TypeOK
  <2>2. CASE block = "null"
    BY <2>2 DEF ReceiveVariable
  <2> QED
    BY <2>1, <2>2
<1>7. block = "live" => (\A i \in passed : checked[i]) /\ ~checked[var_nb - 1]
  BY <1>1 DEF SInv, RoundInv, Cur, Busy, Serving
<1>8. CASE ok'
  <2>1. passed' = 0..idx
    <3>1. passed' = (0..(idx - 1)) \cup {idx}
      BY <1>1, <1>6, <1>8
    <3> QED
      BY ONLY <1>1, <3>1
  <2>2. \A i \in passed' : checked'[i]
    BY <1>4, <1>5, <1>6, <1>7, <1>8
  <2>3. checked'[var_nb - 1] => idx = var_nb - 1
    BY <1>4, <1>5, <1>6, <1>7, <1>8
  <2> QED
    BY <1>1, <1>2, <1>3, <1>6, <1>8, <2>1, <2>2, <2>3 DEF RoundInv, Cur, Serving
<1>9. CASE ~ok'
  BY <1>1, <1>2, <1>3, <1>6, <1>7, <1>9 DEF RoundInv, Cur, Serving
<1> QED
  BY <1>8, <1>9

\* The look at all flags finds them set only when the last variable has just passed.
LEMMA AllCheckedPassed ==
  ASSUME SInv, Serving("check_variables")
  PROVE  /\ AllChecked => ok /\ idx = var_nb - 1 /\ passed = Vars
         /\ ok /\ idx = var_nb - 1 => AllChecked
<1>1. /\ Cur("check_variables") /\ pc = "send" /\ at = "check_variables"
      /\ idx < var_nb /\ var_nb \in Nat /\ idx \in Nat
      /\ block \in {"null", "live", "freed"}
  BY DEF Serving, Cur, Busy, SInv, TypeOK, BlockInv
<1>2. block # "freed"
  BY <1>1 DEF SInv, BlockInv
<1>3. passed = IF ok THEN 0..idx ELSE 0..(idx - 1)
  BY <1>1 DEF SInv, RoundInv
<1>4. AllChecked => checked[var_nb - 1] /\ block = "live"
  BY <1>1, <1>2 DEF AllChecked, Vars
<1>5. AllChecked => ok /\ idx = var_nb - 1
  BY <1>1, <1>4 DEF SInv, RoundInv
<1>6. ok /\ idx = var_nb - 1 => passed = Vars
  BY <1>3 DEF Vars
<1>7. ok /\ idx = var_nb - 1 => AllChecked
  BY <1>1, <1>6 DEF AllChecked, SInv, RoundInv
<1> QED
  BY <1>5, <1>6, <1>7

LEMMA VariableAnsweredStep ==
  ASSUME SInv, VariableAnswered
  PROVE  BlockInv' /\ RoundInv'
<1>1. /\ Serving("check_variables") /\ pc' = "loop" /\ idx' = Next8(idx)
      /\ state' = IF AllChecked \/ ~ok THEN "awaiting_refresh" ELSE state
      /\ UNCHANGED <<var_nb, block, passed>>
  BY DEF VariableAnswered, conf, Goto
<1>2. /\ pc = "send" /\ at = "check_variables" /\ state \in {at, "resetting"}
      /\ idx < var_nb /\ var_nb \in 0..255 /\ idx \in 0..255 /\ Cur("check_variables")
  BY <1>1, VarsAssumption DEF Serving, SInv, TypeOK, ControlInv, BlockInv, Cur, Busy
<1>3. idx' = idx + 1
  BY <1>1, <1>2, NextIndex
<1>4. ~Busy' /\ pc' # "send"
  BY <1>1 DEF Busy
<1>5. state' \in {"awaiting_refresh", "check_variables", "resetting"}
  BY <1>1, <1>2
<1>6. state' = "check_variables" => ~AllChecked /\ ok /\ idx < var_nb - 1
  BY <1>1, <1>2, AllCheckedPassed
<1>7. BlockInv'
  BY <1>1, <1>2, <1>3, <1>4, <1>5, <1>6 DEF SInv, BlockInv, Cur, Serving
<1>8. state' = "check_variables" =>
        /\ passed' = 0..(idx' - 1)
        /\ checked' = checked /\ (block = "live" => \A i \in passed : checked[i])
  <2>1. state' = "check_variables" => passed = 0..idx
    BY <1>2, <1>6 DEF SInv, RoundInv
  <2>2. 0..idx = 0..(idx' - 1)
    BY <1>2, <1>3
  <2> QED
    BY <1>1, <1>2, <1>6, <2>1, <2>2 DEF VariableAnswered, SInv, RoundInv
<1>9. block = "live" => ~checked'[var_nb - 1]
  <2>1. var_nb - 1 \in Vars /\ var_nb - 1 \in Slots
    <3>1. var_nb \in 0..MaxVars
      BY DEF SInv, TypeOK
    <3> QED
      BY <1>2, <3>1, VarsAssumption DEF Vars, Slots
  <2>2. CASE AllChecked
    BY <2>1, <2>2 DEF VariableAnswered
  <2>3. CASE ~AllChecked
    <3>1. checked' = checked
      BY <2>3 DEF VariableAnswered
    <3>2. block = "live" /\ checked[var_nb - 1] => ok /\ idx = var_nb - 1
      BY <1>2 DEF SInv, RoundInv
    <3> QED
      BY <1>1, <2>3, <3>1, <3>2, AllCheckedPassed
  <2> QED
    BY <2>2, <2>3
<1> QED
  BY <1>1, <1>4, <1>7, <1>8, <1>9 DEF RoundInv, Cur, Serving

-----------------------------------------------------------------------------
(* The invariant, and the properties it implies                            *)

LEMMA BlockAndRoundStep == SInv /\ Next /\ ControlInv' => BlockInv' /\ RoundInv'
<1> SUFFICES ASSUME SInv, Next, ControlInv' PROVE BlockInv' /\ RoundInv'
  OBVIOUS
<1>1. CASE Idle \/ InitCommand \/ SetPeriod \/ Reconfigure \/ ReceivePeriod
           \/ PeriodAnswered \/ ReceiveMin \/ MinAnswered \/ ReceiveMax \/ Caller
  BY <1>1, QuietActions, QuietStep
<1>2. CASE SetVariableNb
  BY <1>2, SetVariableNbStep
<1>3. CASE ReceiveVariableNb
  BY <1>3, ReceiveVariableNbStep
<1>4. CASE VariableNbAnswered
  BY <1>4, VariableNbAnsweredStep
<1>5. CASE MaxAnswered
  BY <1>5, MaxAnsweredStep
<1>6. CASE RefreshCommand
  BY <1>6, RefreshCommandStep
<1>7. CASE ReceiveVariable
  BY <1>7, ReceiveVariableStep
<1>8. CASE VariableAnswered
  BY <1>8, VariableAnsweredStep
<1>9. CASE Clock
  BY <1>9, ClockStep
<1> QED
  BY <1>1, <1>2, <1>3, <1>4, <1>5, <1>6, <1>7, <1>8, <1>9
     DEF Next, Thread, Configure, Check

LEMMA SInvInit == Init => SInv
<1> SUFFICES ASSUME Init PROVE SInv
  OBVIOUS
<1>1. ThreadOK
  BY DEF Init, ThreadOK, States, Commands
<1>2. DataOK
  BY VarsAssumption, ValuesAssumption, NoMemAssumption DEF Init, DataOK, Zeros, None
<1>3. TimerOK
  <2>1. timer \in 0..Reload
    BY TimerAssumption DEF Init
  <2>2. running \in BOOLEAN
    BY Zenon DEF Init
  <2> QED
    BY <2>1, <2>2 DEF TimerOK
<1>4. ControlInv /\ BlockInv /\ RoundInv
  BY DEF Init, ControlInv, BlockInv, RoundInv, Cur, Busy, Serving
<1> QED
  BY <1>1, <1>2, <1>3, <1>4, TypeParts DEF SInv

LEMMA SInvStep == SInv /\ [Next]_vars => SInv'
<1>1. SInv /\ Next => SInv'
  BY TypeStep, ControlStep, BlockAndRoundStep DEF SInv
<1>2. SInv /\ UNCHANGED vars => SInv'
  <2> SUFFICES ASSUME SInv, UNCHANGED vars PROVE SInv'
    OBVIOUS
  <2> USE DEF vars, conf, round, clock
  <2>1. TypeOK'
    BY DEF SInv, TypeOK
  <2>2. ControlInv'
    BY DEF SInv, ControlInv, Busy
  <2>3. BlockInv'
    BY DEF SInv, BlockInv, Cur, Busy, Serving
  <2>4. RoundInv'
    BY DEF SInv, RoundInv, Cur, Busy, Serving
  <2> QED
    BY <2>1, <2>2, <2>3, <2>4 DEF SInv
<1> QED
  BY <1>1, <1>2

THEOREM SupervisorInvariant == Spec => []SInv
BY SInvInit, SInvStep, PTL DEF Spec

\* Every variable of the supervisor keeps its range; configured_var_nb stays a byte
\* without wrapping where it indexes the block.
THEOREM SupervisorTyped == Spec => []TypeOK
<1>1. SInv => TypeOK
  BY DEF SInv
<1> QED
  BY <1>1, SupervisorInvariant, PTL

\* No variable is set or checked outside its block or in a freed block, for any
\* supervisee and any moment of the timer's interrupt.
THEOREM BlockAccessed == Spec => []BlockAccess
<1>1. SInv => BlockAccess
  BY DEF SInv, TypeOK, BlockInv, BlockAccess, Cur, Busy
<1> QED
  BY <1>1, SupervisorInvariant, PTL

\* The deadline is put off by a round of checks only when every variable passed in it.
THEOREM RefreshEarned == Spec => DeadlineEarned
<1> DEFINE A == Serving("check_variables") /\ pc' = "loop" /\ timer' > timer => passed = Vars
<1>1. SInv /\ [Next]_vars => [A]_vars
  <2> SUFFICES ASSUME SInv, Next, Serving("check_variables"), pc' = "loop", timer' > timer
               PROVE  passed = Vars
    OBVIOUS
  <2>1. VariableAnswered
    BY DEF Next, Thread, Idle, Configure, Check, Clock, Caller, Dispatch, ReceiveCommand,
       RefuseCommand, StartReset, EndReset, ArmTimer, InitCommand, SetVariableNb, SetPeriod,
       ReceiveVariableNb, VariableNbAnswered, ReceiveMin, MinAnswered, ReceiveMax,
       MaxAnswered, ReceivePeriod, PeriodAnswered, Reconfigure, RefreshCommand,
       ReceiveVariable, Tick, Elapse, EnterUpdater, StopTimer, SupervisorInit, Fault,
       Serving, Listening, Goto, vars
  <2>2. AllChecked \/ timer' = timer
    BY <2>1 DEF VariableAnswered, clock
  <2>3. timer \in Int
    BY TimerAssumption DEF SInv, TypeOK
  <2> QED
    BY <2>2, <2>3, AllCheckedPassed
<1> QED
  BY <1>1, SupervisorInvariant, PTL DEF Spec, DeadlineEarned
=============================================================================
