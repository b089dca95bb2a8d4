------------------------------ MODULE Eeprom -------------------------------
(***************************************************************************)
(* The EEPROM emulation (EEPROM_Emul/eeprom_emul.c over flash_interface.c, *)
(* built with 64-bit flash lines and EE_ACCESS_32BITS) as fvc_eeprom.c     *)
(* uses it.                                                                *)
(*                                                                         *)
(* Variables live in a ring of flash pages.  The first four lines of a     *)
(* page are its header: line 1 programmed says RECEIVE, 2 ACTIVE, 3 VALID, *)
(* 4 ERASING, the last of these being the page's state.  The rest are      *)
(* elements, each one write of a variable, newest last.  When one half of  *)
(* the ring is full, the newest values are transferred to the other half.  *)
(*                                                                         *)
(* Every line programmed and every page erased is a step of its own.  The  *)
(* power may be lost before any of them and in the middle of it: an        *)
(* element is then left with a CRC that does not match, a page partly      *)
(* erased, or a line with a double error of the flash's ECC.               *)
(***************************************************************************)
EXTENDS Integers, FiniteSets, FiniteSetsExt

CONSTANTS
  NbOfVariables,  \* NB_OF_VARIABLES
  PageElements,   \* NB_MAX_ELEMENTS_BY_PAGE
  Values,         \* the data of a variable
  NoData,         \* EE_NO_DATA
  Erased,         \* an erased line
  Corrupt,        \* an element whose CRC does not match
  EccOnCut,       \* whether an interrupted operation may leave an ECC double error
  MaxCuts,        \* bound: power losses during EE_Init or a write
  MaxOffs,        \* bound: times the board is switched off between two writes
  MaxFaults       \* bound: flash operations that fail

ASSUME SizeAssumption  == NbOfVariables \in Nat \ {0} /\ PageElements \in Nat \ {0}
ASSUME ValueAssumption == 0 \notin Values /\ NoData \notin Values
ASSUME BoundAssumption ==
  /\ EccOnCut \in BOOLEAN
  /\ MaxCuts \in Nat /\ MaxOffs \in Nat /\ MaxFaults \in Nat

VARIABLES
  hdr,     \* flash: the header lines of each page that are programmed
  elem,    \* flash: the elements of each page
  ecc,     \* flash: some line has an ECC double error
  pc,      \* where EE_Init or fvc_eeprom_write is
  why,     \* which call writes an element: "write", "new", "copy" or "dummy"
  cur,     \* ubCurrentActivePage
  next,    \* uwAddressNextWrite, as the number of an element
  nb,      \* uhNbWrittenElements
  page,    \* the loop variable page
  idx,     \* the loop variable varidx of PagesTransfer
  recover, \* recoverytransfer, and the Type of PagesTransfer
  arg,     \* the variable being written, NoData in EE_Init
  cuts, offs, faults,      \* what is left of the three bounds
  last, asked, answer      \* history: the values when last up, the write since, its result

flash   == <<hdr, elem, ecc>>
globals == <<cur, next, nb>>
locals  == <<why, page, idx, recover, arg>>
history == <<last, asked, answer>>
env     == <<cuts, offs, faults>>
vars    == <<flash, pc, globals, locals, env, history>>

Addresses   == 1..NbOfVariables
PagesNumber == ((NbOfVariables + PageElements) \div PageElements) * 2 + 2
Half        == PagesNumber \div 2

\* Mutant: a page too many is filled before the transfer.
MaxWrittenLate == PageElements * (Half + 1)

MaxWritten  == PageElements * Half     \* NB_MAX_WRITTEN_ELEMENTS
Pages       == 0..(PagesNumber - 1)
Slots       == 1..PageElements
Dummy       == [a |-> 0, d |-> 0]      \* EE_Init and a recovery write one, read by nobody
Variables   == [a : Addresses, d : Values]
Elements    == Variables \cup {Dummy, Erased, Corrupt}

ASSUME LineAssumption ==
  /\ {NoData, Erased, Corrupt} \cap Variables = {}
  /\ Erased # Dummy /\ Erased # Corrupt /\ Corrupt # Dummy

Previous(p)  == (p + PagesNumber - 1) % PagesNumber
Following(p) == (p + 1) % PagesNumber
BlockStart(p) == IF p < Half THEN 0 ELSE Half
FirstOfBlock(p) == p = BlockStart(p)

\* GetPageState, of the header lines h that are programmed.
PageState(h) ==
  CASE 4 \in h -> "ERASING"
    [] 4 \notin h /\ 3 \in h -> "VALID"
    [] h \cap {3, 4} = {} /\ 2 \in h -> "ACTIVE"
    [] h = {1} -> "RECEIVE"
    [] h = {} -> "ERASED"

State(p)    == PageState(hdr[p])
InState(s)  == {p \in Pages : State(p) = s}
BlankPage   == [s \in Slots |-> Erased]

\* Mutant: the count stops one line before the end of the page.
LeadingShort(e, p) ==
  LET erased == {s \in Slots \ {PageElements} : e[p][s] = Erased}
  IN IF erased = {} THEN PageElements - 1 ELSE Min(erased) - 1

\* The elements in front of the first erased line of page p.
Leading(e, p) ==
  LET erased == {s \in Slots : e[p][s] = Erased}
  IN IF erased = {} THEN PageElements ELSE Min(erased) - 1

-----------------------------------------------------------------------------
(* Reading                                                                 *)

Back(p, k) == (p + PagesNumber - k) % PagesNumber

\* The pages that ReadVariable visits, newest first: from the page that FindPage gives
\* for a read, back as long as pages are active, valid or erasing.
ReadStart(h, c) ==
  CASE PageState(h[c]) = "ACTIVE" -> c
    [] PageState(h[c]) = "RECEIVE" -> Previous(c)
    [] OTHER -> -1

Stops(h, p, k) == PageState(h[Back(p, k)]) \notin {"ACTIVE", "VALID", "ERASING"}

Visited(h, c) ==
  LET p == ReadStart(h, c) IN
  {k \in 0..(PagesNumber - 1) : p # -1 /\ \A j \in 0..k : ~Stops(h, p, j)}

Occurrences(h, e, c, a) ==
  {o \in Visited(h, c) \X Slots :
     e[Back(ReadStart(h, c), o[1])][o[2]] \in [a : {a}, d : Values]}

\* ReadVariable: the newest element of a whose CRC matches.
ReadVariable(h, e, c, a) ==
  LET occ == Occurrences(h, e, c, a) IN
  IF occ = {} THEN NoData
  ELSE LET k == Min({o[1] : o \in occ})
           s == Max({o[2] : o \in {x \in occ : x[1] = k}})
       IN e[Back(ReadStart(h, c), k)][s].d

\* Its loop ends only at a page of another state or at an element found.
ReadEnds(a) ==
  \/ Occurrences(hdr, elem, cur, a) # {}
  \/ Visited(hdr, cur) # 0..(PagesNumber - 1)

Contents(h, e, c) == [a \in Addresses |-> ReadVariable(h, e, c, a)]

-----------------------------------------------------------------------------
(* Flash operations                                                        *)

Line(p, i)   == [op |-> "line", page |-> p, at |-> i, data |-> Erased]
Element(x)   == [op |-> "elem", page |-> cur, at |-> next, data |-> x]
PageErase(p) == [op |-> "erase", page |-> p, at |-> 0, data |-> Erased]
Nothing      == [op |-> "none", page |-> 0, at |-> 0, data |-> Erased]

\* Step 2 of EE_Init: neither an active nor a receive page, and the page in front of the
\* first valid one is erasing: a transfer was interrupted between two receive pages.
LastValid == IF InState("VALID") = {} THEN 0 ELSE Max(InState("VALID"))
Resumes   ==
  /\ InState("ACTIVE") \cup InState("RECEIVE") = {} /\ InState("VALID") # {}
  /\ State(Previous(Min(InState("VALID")))) = "ERASING"

\* Mutant: a header is believed whatever the pages next to it say.
ReliableAlways(s) == InState(s)

\* Steps 3 and 4: a page whose neighbour shows that its header is not corrupted.
Reliable(s) ==
  {p \in InState(s) : IF FirstOfBlock(p) THEN State(Following(p)) = "ERASED"
                                          ELSE State(Previous(p)) = "VALID"}

\* PagesTransfer marks the page in front of the receive page if active, those before it
\* if valid.
Marks(p) == State(p) = IF p = Previous(cur) THEN "ACTIVE" ELSE "VALID"

\* What a call of VerifyPagesFullWriteVariable writes.
Written ==
  CASE why = "write" -> arg
    [] why = "new"   -> IF recover THEN Dummy ELSE arg
    [] why = "copy"  -> [a |-> idx, d |-> ReadVariable(hdr, elem, cur, idx)]
    [] OTHER         -> Dummy

Full     == nb >= MaxWritten
PageFull == next > PageElements

\* The operation that the program is about to start.  The header lines of a page that is
\* being left tell an active page from a receive page.
Pending ==
  CASE pc = "find" /\ Resumes           -> Line(Following(LastValid), 1)
    [] pc = "format"                    -> PageErase(page)
    [] pc = "erase" /\ page # BlockStart(cur) -> PageErase(page)
    [] pc = "open"                      -> Line(0, 2)
    [] pc = "receive"                   -> Line(cur, 1)
    [] pc = "mark" /\ Marks(page)       -> Line(page, 4)
    [] pc = "put" /\ ~Full /\ PageFull  -> Line(cur, 3)
    [] pc = "put" /\ ~Full /\ ~PageFull -> Element(Written)
    [] pc = "turn"  -> Line(Following(cur), IF 2 \in hdr[cur] THEN 2 ELSE 1)
    [] pc = "close" -> Line(cur, 2)
    [] pc = "active" /\ Reliable("ACTIVE") = {} -> Line(Following(LastValid), 2)
    [] OTHER -> Nothing

Perform ==
  LET o == Pending IN
  /\ hdr'  = CASE o.op = "line"  -> [hdr EXCEPT ![o.page] = @ \cup {o.at}]
               [] o.op = "erase" -> [hdr EXCEPT ![o.page] = {}]
               [] OTHER          -> hdr
  /\ elem' = CASE o.op = "elem"  -> [elem EXCEPT ![o.page][o.at] = o.data]
               [] o.op = "erase" -> [elem EXCEPT ![o.page] = BlankPage]
               [] OTHER          -> elem
  /\ UNCHANGED ecc

\* What the operation leaves when the power is lost in it, where this differs from not
\* having started it and from having completed it.
TornElement(o) ==
  /\ o.op = "elem"
  /\ elem' = [elem EXCEPT ![o.page][o.at] = Corrupt]
  /\ UNCHANGED <<hdr, ecc>>

TornPage(p, kept, bad) ==
  [s \in Slots |-> IF s \in kept THEN elem[p][s] ELSE IF s \in bad THEN Corrupt ELSE Erased]

TornErase(o) ==
  /\ o.op = "erase"
  /\ \E h \in SUBSET hdr[o.page], kept, bad \in SUBSET Slots :
       /\ hdr' = [hdr EXCEPT ![o.page] = h]
       /\ elem' = [elem EXCEPT ![o.page] = TornPage(o.page, kept, bad)]
  /\ UNCHANGED ecc

TornEcc(o) == EccOnCut /\ o.op # "none" /\ ecc' = TRUE /\ UNCHANGED <<hdr, elem>>

Goto(l) == pc' = l

ResetLocals == why' = "dummy" /\ page' = 0 /\ idx' = 1 /\ recover' = FALSE /\ arg' = NoData

\* The end of EE_Init and of a write: what the reads give from here on.
Ready ==
  /\ Goto("ready") /\ ResetLocals
  /\ last' = Contents(hdr', elem', cur') /\ asked' = NoData

\* An error is returned: EE_Init's stops fvc_main, a write's is reported.
Fails ==
  IF arg = NoData
  THEN Goto("failed") /\ ResetLocals /\ UNCHANGED history
  ELSE Ready /\ answer' = FALSE

-----------------------------------------------------------------------------
(* EE_Init                                                                 *)

\* Step 1 reads every line.  A double error raises an NMI, whose handler does not return.
PowerOn ==
  /\ pc = "off"
  /\ Goto(IF ecc THEN "nmi" ELSE "find")
  /\ UNCHANGED <<flash, globals, locals, env, history>>

\* Step 2.
FindReceive ==
  /\ pc = "find" /\ InState("ACTIVE") \cup InState("RECEIVE") \cup InState("VALID") # {}
  /\ Perform
  /\ Goto("transfer")
  /\ UNCHANGED <<globals, locals, env, history>>

FindNothing ==
  /\ pc = "find" /\ InState("ACTIVE") \cup InState("RECEIVE") \cup InState("VALID") = {}
  /\ Goto("format") /\ page' = 0
  /\ UNCHANGED <<flash, globals, why, idx, recover, arg, env, history>>

\* EE_Format.
Format ==
  /\ pc = "format"
  /\ Perform
  /\ page' = Following(page)
  /\ Goto(IF page' = 0 THEN "open" ELSE "format")
  /\ UNCHANGED <<globals, why, idx, recover, arg, env, history>>

OpenFirstPage ==
  /\ pc = "open"
  /\ Perform
  /\ cur' = 0 /\ next' = 1 /\ nb' = 0
  /\ Ready
  /\ UNCHANGED <<answer, env>>

\* Step 3.
NoTransfer ==
  /\ pc = "transfer" /\ Reliable("RECEIVE") = {}
  /\ Goto("active")
  /\ UNCHANGED <<flash, globals, locals, env, history>>

ResumeTransfer ==
  /\ pc = "transfer" /\ Reliable("RECEIVE") # {}
  /\ cur' = Min(Reliable("RECEIVE")) /\ next' = 1 /\ nb' = 0
  /\ recover' = TRUE /\ page' = Previous(cur')
  /\ Goto("mark")
  /\ UNCHANGED <<flash, why, idx, arg, env, history>>

\* Step 4.
FindActive ==
  LET active == Reliable("ACTIVE") IN
  /\ pc = "active"
  /\ Perform
  /\ IF Cardinality(active) > 1
     THEN Fails /\ UNCHANGED cur
     ELSE /\ cur' = IF active = {} THEN Following(LastValid) ELSE Min(active)
          /\ Goto("count") /\ UNCHANGED <<locals, history>>
  /\ UNCHANGED <<next, nb, env>>

\* Steps 5 and 6: what is written in the active page, and the valid pages before it in
\* its half.
CountElements ==
  LET n == Leading(elem, cur)
      before == BlockStart(cur)..(cur - 1)
  IN
  /\ pc = "count"
  /\ next' = n + 1
  /\ nb' = n + PageElements * Cardinality(before)
  /\ IF \A p \in before : State(p) = "VALID"
     THEN Goto("erase") /\ page' = Following(cur)
          /\ UNCHANGED <<why, idx, recover, arg, history>>
     ELSE Fails
  /\ UNCHANGED <<flash, cur, env>>

\* Mutant: a page whose header reads erased is left as it is.
ErasePageConditionally ==
  /\ pc = "erase" /\ page # BlockStart(cur)
  /\ IF State(page) = "ERASED" THEN UNCHANGED flash ELSE Perform
  /\ page' = Following(page)
  /\ UNCHANGED <<pc, globals, why, idx, recover, arg, env, history>>

\* Step 7: every other page, used or not, is erased.
ErasePage ==
  /\ pc = "erase" /\ page # BlockStart(cur)
  /\ Perform
  /\ page' = Following(page)
  /\ UNCHANGED <<pc, globals, why, idx, recover, arg, env, history>>

\* Step 8: a dummy element, unless a transfer was resumed or the half is full.
EraseDone ==
  /\ pc = "erase" /\ page = BlockStart(cur)
  /\ UNCHANGED <<flash, globals, env>>
  /\ IF recover \/ Full
     THEN Ready /\ UNCHANGED answer
     ELSE Goto("put") /\ why' = "dummy" /\ UNCHANGED <<page, idx, recover, arg, history>>

-----------------------------------------------------------------------------
(* fvc_eeprom_write and WriteVariable                                      *)

\* A value that the variable does not have.  The read that comes first may not end.
Write(a, d) ==
  /\ pc = "ready" /\ ReadVariable(hdr, elem, cur, a) # d
  /\ IF ~ReadEnds(a)
     THEN Goto("spin") /\ asked' = [a |-> a, d |-> d]
          /\ UNCHANGED <<globals, locals, last, answer>>
     ELSE IF ReadStart(hdr, cur) = -1 \/ (Full /\ State(Following(cur)) # "ERASED")
     THEN answer' = FALSE /\ UNCHANGED <<pc, globals, locals, last, asked>>
     ELSE /\ arg' = [a |-> a, d |-> d] /\ asked' = arg'
          /\ IF Full
             THEN /\ cur' = Following(cur) /\ next' = 1 /\ nb' = 0
                  /\ Goto("receive") /\ UNCHANGED why
             ELSE Goto("put") /\ why' = "write" /\ UNCHANGED globals
          /\ UNCHANGED <<page, idx, last, answer>> /\ recover' = FALSE
  /\ UNCHANGED <<flash, env>>

-----------------------------------------------------------------------------
(* PagesTransfer                                                           *)

SetReceive ==
  /\ pc = "receive"
  /\ Perform
  /\ page' = Previous(cur)
  /\ Goto("mark")
  /\ UNCHANGED <<globals, why, idx, recover, arg, env, history>>

MarkErasing ==
  /\ pc = "mark" /\ (Marks(page) \/ State(page) = "ERASING")
  /\ Perform
  /\ page' = Previous(page)
  /\ UNCHANGED <<pc, globals, why, idx, recover, arg, env, history>>

\* The valid pages that a resumed transfer has already filled.
FilledBefore ==
  Cardinality({k \in 1..PagesNumber : \A j \in 1..k : State(Back(cur, j)) = "VALID"})

\* The pages are marked.  A resumed transfer goes on behind what it has written.
MarkDone ==
  LET n == Leading(elem, cur) IN
  /\ pc = "mark" /\ ~Marks(page) /\ State(page) # "ERASING"
  /\ UNCHANGED <<flash, env>>
  /\ IF page = Previous(cur) /\ ~(recover /\ State(page) = "VALID")
     THEN UNCHANGED globals /\ Fails
     ELSE /\ Goto("put") /\ why' = "new"
          /\ IF recover
             THEN nb' = n + PageElements * FilledBefore /\ next' = n + 1 /\ UNCHANGED cur
             ELSE UNCHANGED globals
          /\ UNCHANGED <<page, idx, recover, arg, history>>

\* The loop over varidx: the next variable that has a value and is not the one written.
ToCopy ==
  {i \in idx..NbOfVariables : (recover \/ i # arg.a) /\ ReadVariable(hdr, elem, cur, i) # NoData}

CopyNext ==
  /\ pc = "copy" /\ ToCopy # {}
  /\ idx' = Min(ToCopy) /\ why' = "copy"
  /\ Goto("put")
  /\ UNCHANGED <<flash, globals, page, recover, arg, env, history>>

CopyDone ==
  /\ pc = "copy" /\ ToCopy = {}
  /\ Goto("close")
  /\ UNCHANGED <<flash, globals, locals, env, history>>

\* EE_CLEANUP_REQUIRED, which fvc_eeprom_write reports as a failure.
Close ==
  /\ pc = "close"
  /\ Perform
  /\ UNCHANGED <<globals, env>>
  /\ IF recover
     THEN Goto("active") /\ UNCHANGED <<locals, history>>
     ELSE Ready /\ answer' = FALSE

-----------------------------------------------------------------------------
(* VerifyPagesFullWriteVariable with FindPage(FIND_WRITE_PAGE)             *)

\* The current page becomes valid.  Next to it is no page that waits for EE_CleanUp
\* (NoForcedCleanUp), so FindPage never calls it.
LeavePage ==
  /\ pc = "put" /\ ~Full /\ PageFull
  /\ Perform
  /\ Goto("turn")
  /\ UNCHANGED <<globals, locals, env, history>>

EnterPage ==
  /\ pc = "turn"
  /\ Perform
  /\ cur' = Following(cur) /\ next' = 1
  /\ Goto("put")
  /\ UNCHANGED <<nb, locals, env, history>>

\* Mutants: no lower limit; only the dummy is taken into account.
ResumeIndexUnlimited(n) == n - 2
ResumeIndexLate(n)      == IF n >= 3 THEN n - 1 ELSE 1

\* The index from which a transfer goes on: the last two elements are taken for a
\* corrupted one and the dummy just written.
ResumeIndex(n) == IF n >= 3 THEN n - 2 ELSE 1

ProgramElement ==
  /\ pc = "put" /\ ~Full /\ ~PageFull
  /\ Perform
  /\ next' = next + 1 /\ nb' = nb + 1 /\ UNCHANGED <<cur, env>>
  /\ CASE why = "write" -> Ready /\ answer' = TRUE
       [] why = "dummy" -> Ready /\ UNCHANGED answer
       [] OTHER ->
            /\ Goto("copy")
            /\ idx' = IF why = "new" THEN ResumeIndex(nb') ELSE idx + 1
            /\ UNCHANGED <<why, page, recover, arg, history>>

\* EE_PAGE_FULL inside a transfer is an error.
NoRoom ==
  /\ pc = "put" /\ Full
  /\ UNCHANGED <<flash, globals, env>>
  /\ Fails

-----------------------------------------------------------------------------
(* Faults                                                                  *)

\* HAL_FLASH_Program or HAL_FLASHEx_Erase returns an error, without effect.
FlashError ==
  /\ Pending # Nothing /\ faults > 0
  /\ faults' = faults - 1
  /\ UNCHANGED <<flash, globals, cuts, offs>>
  /\ Fails

ResetMemory == cur' = 0 /\ next' = 1 /\ nb' = 0 /\ ResetLocals

PowerLoss ==
  /\ pc \notin {"off", "ready"} /\ cuts > 0
  /\ cuts' = cuts - 1
  /\ \/ UNCHANGED flash
     \/ TornElement(Pending) \/ TornErase(Pending) \/ TornEcc(Pending)
  /\ Goto("off") /\ ResetMemory
  /\ UNCHANGED <<offs, faults, history>>

\* Switched off between two writes.
SwitchOff ==
  /\ pc = "ready" /\ offs > 0
  /\ offs' = offs - 1
  /\ Goto("off") /\ ResetMemory
  /\ UNCHANGED <<flash, cuts, faults, history>>

-----------------------------------------------------------------------------

\* A board whose EEPROM pages were never written.
Init ==
  /\ hdr = [p \in Pages |-> {}] /\ elem = [p \in Pages |-> BlankPage] /\ ecc = FALSE
  /\ pc = "off"
  /\ cur = 0 /\ next = 1 /\ nb = 0
  /\ why = "dummy" /\ page = 0 /\ idx = 1 /\ recover = FALSE /\ arg = NoData
  /\ cuts = MaxCuts /\ offs = MaxOffs /\ faults = MaxFaults
  /\ last = [a \in Addresses |-> NoData] /\ asked = NoData /\ answer = TRUE

Boot ==
  \/ PowerOn \/ FindReceive \/ FindNothing \/ Format \/ OpenFirstPage
  \/ NoTransfer \/ ResumeTransfer \/ FindActive \/ CountElements \/ ErasePage \/ EraseDone

Transfer == SetReceive \/ MarkErasing \/ MarkDone \/ CopyNext \/ CopyDone \/ Close

Put == LeavePage \/ EnterPage \/ ProgramElement \/ NoRoom

Running == Boot \/ Transfer \/ Put

Next ==
  \/ Running \/ FlashError \/ PowerLoss \/ SwitchOff
  \/ \E a \in Addresses, d \in Values : Write(a, d)

Spec == Init /\ [][Next]_vars

\* The program runs as long as it has power; the controller need not write.
FairSpec == Spec /\ WF_vars(Running)

-----------------------------------------------------------------------------
(* Properties                                                              *)

\* The flash, the driver's variables and the history have values of their types.
TypeOK ==
  /\ hdr \in [Pages -> SUBSET (1..4)] /\ elem \in [Pages -> [Slots -> Elements]]
  /\ ecc \in BOOLEAN
  /\ pc \in {"off", "nmi", "failed", "spin", "find", "format", "open", "transfer", "active",
             "count", "erase", "ready", "receive", "mark", "copy", "close", "put", "turn"}
  /\ cur \in Pages /\ next \in 1..(PageElements + 1) /\ nb \in 0..MaxWritten
  /\ why \in {"write", "new", "copy", "dummy"}
  /\ page \in Pages /\ idx \in 1..(MaxWritten + NbOfVariables) /\ recover \in BOOLEAN
  /\ arg \in Variables \cup {NoData}
  /\ cuts \in 0..MaxCuts /\ offs \in 0..MaxOffs /\ faults \in 0..MaxFaults
  /\ last \in [Addresses -> Values \cup {NoData}]
  /\ asked \in Variables \cup {NoData}
  /\ answer \in BOOLEAN

\* A line is programmed only when it is erased: the flash refuses any other.  The places
\* come from counts that EE_Init and PagesTransfer take of lines a power loss left.
ProgramsErasedLines ==
  CASE Pending.op = "line" -> Pending.at \notin hdr[Pending.page]
    [] Pending.op = "elem" -> elem[Pending.page][Pending.at] = Erased
    [] OTHER -> TRUE

\* FindPage meets no page that waits for EE_CleanUp when it leaves a full one: the other
\* half's pages are never next while there is room in this one.
NoForcedCleanUp == pc = "put" /\ ~Full /\ PageFull => State(Following(cur)) = "ERASED"

\* The emulation is the store that the controller takes it for, power losses included, as
\* long as the flash works.
Store == INSTANCE EepromStore WITH
  store  <- last,
  mode   <- CASE pc = "ready" -> "up"
              [] pc # "ready" /\ (pc = "spin" \/ arg # NoData) -> "busy"
              [] OTHER -> "down"
StoreSpec == Store!Init /\ [][faults' = MaxFaults => Store!Next]_(Store!vars)

\* EE_Init comes to an end, and with an EEPROM that works, whatever a power loss left of
\* the pages.
StartsUp == pc = "find" ~> pc \in {"ready", "off"} \/ faults < MaxFaults

\* EE_Init restores a known good state after a power loss: no variable loses its value.
NothingLost == [][\A a \in Addresses : last[a] # NoData => last'[a] # NoData]_last

\* The NMI's handler clears the corrupted line, so the start goes on past step 1.
PowerOnStarts == pc = "off" /\ cuts = 0 ~> pc = "ready"
=============================================================================
