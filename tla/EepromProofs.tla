---------------------------- MODULE EepromProofs ----------------------------
(***************************************************************************)
(* Proofs about Eeprom for any number of variables, elements in a page and *)
(* power losses, as long as no flash operation fails.                      *)
(***************************************************************************)
EXTENDS Eeprom, FiniteSetTheorems, WellFoundedInduction, TLAPS

-----------------------------------------------------------------------------
(* The shapes of the flash                                                 *)

\* The pages of the half of page c in front of it and behind it, and the other half.
OtherStart(c) == Half - BlockStart(c)
LastOther(c)  == OtherStart(c) + Half - 1
Before(c)     == BlockStart(c)..(c - 1)
Behind(c)     == (c + 1)..(BlockStart(c) + Half - 1)
Other(c)      == OtherStart(c)..LastOther(c)

Wiped(h, e, S)   == \A p \in S : h[p] = {} /\ e[p] = BlankPage
Blank(h)         == \A p \in Pages : h[p] = {}
Filled(e, c, n)  == \A s \in Slots : e[c][s] = Erased <=> s > n
AllErasing(h, c) == \A p \in Other(c) : PageState(h[p]) = "ERASING"

\* The half of page c is written up to c, and nothing behind it is in use.
Front(h, e, c) ==
  /\ \A p \in Before(c) : PageState(h[p]) = "VALID"
  /\ \A p \in Behind(c) : h[p] = {}
  /\ \E n \in 0..PageElements : Filled(e, c, n)

\* The other half as EE_Init's erasing leaves it: behind the first page with a header
\* line every page is still marked.
Torn(h, c) == \A p, q \in Other(c) : p < q /\ h[p] # {} => PageState(h[q]) = "ERASING"

\* The other half as PagesTransfer marks it, last page first.
Marked(h, c) ==
  /\ \A p \in Other(c) :
       \/ PageState(h[p]) = "ERASING"
       \/ /\ c = BlockStart(c)
          /\ PageState(h[p]) = IF p = LastOther(c) THEN "ACTIVE" ELSE "VALID"
  /\ \A p, q \in Other(c) :
       p < q /\ PageState(h[p]) = "ERASING" => PageState(h[q]) = "ERASING"

\* Page c is active; it receives a transfer; it is full and the next one not begun.
Settled(h, e, c) == Front(h, e, c) /\ PageState(h[c]) = "ACTIVE" /\ Torn(h, c)
Moving(h, e, c)  ==
  Front(h, e, c) /\ h[c] = {1} /\ Wiped(h, e, Behind(c)) /\ Marked(h, c)
Gap(h, e, c) ==
  /\ Front(h, e, c) /\ PageState(h[c]) = "VALID"
  /\ Behind(c) # {} /\ Wiped(h, e, Behind(c))
  /\ AllErasing(h, c) \/ Wiped(h, e, Other(c))

\* An active page in a ring with nothing left to erase but marked pages.
Ordered(h, e, c) ==
  /\ Settled(h, e, c) /\ Wiped(h, e, Behind(c))
  /\ AllErasing(h, c) \/ Wiped(h, e, Other(c))

\* All pages of the other half are marked.
Receiving(h, e, c) == Moving(h, e, c) /\ AllErasing(h, c)

\* What a power loss leaves.
Known(h, e) ==
  Blank(h) \/ \E c \in Pages : Settled(h, e, c) \/ Moving(h, e, c) \/ Gap(h, e, c)

\* The driver's counts are those of the flash.
Counted(e, c, nx, n) ==
  n = PageElements * (c - BlockStart(c)) + nx - 1 /\ Filled(e, c, nx - 1)

\* A page that reading in a transfer comes to holds an element of variable a.
Holds(e, c, a) ==
  \E p \in Before(c) \cup Other(c) : \E s \in Slots : e[p][s] \in [a : {a}, d : Values]

\* Nothing but page p differs.
Elsewhere(f, g, p) == \A q \in Pages \ {p} : g[q] = f[q]

\* The types of the flash.
Headers  == [Pages -> SUBSET (1..4)]
Contained == [Pages -> [Slots -> Elements]]

-----------------------------------------------------------------------------
(* Minimum and maximum                                                     *)

LEMMA Least ==
  ASSUME NEW T, T \subseteq Nat, T # {}
  PROVE  \E x \in T : \A y \in T : x <= y
<1>1. PICK x \in T : \A y \in T : ~(<<y, x>> \in OpToRel(<, Nat))
  BY NatLessThanWellFounded, WFMin
<1>2. \A y \in T : ~(y < x)
  BY <1>1 DEF OpToRel
<1> QED
  BY <1>2

LEMMA MinOf ==
  ASSUME NEW T, T \subseteq Nat, T # {}
  PROVE  Min(T) \in T /\ \A y \in T : Min(T) <= y
BY Least DEF Min

LEMMA MaxOf ==
  ASSUME NEW n \in Nat, NEW T, T \subseteq 0..n, T # {}
  PROVE  Max(T) \in T /\ \A y \in T : y <= Max(T)
<1> DEFINE D == {d \in Nat : n - d \in T}
<1>1. D \subseteq Nat /\ D # {}
  <2>1. PICK y \in T : TRUE
    OBVIOUS
  <2>2. n - y \in D
    BY <2>1, SMT
  <2> QED
    BY <2>2
<1>2. PICK d \in D : \A y \in D : d <= y
  BY <1>1, Least
<1>3. \A y \in T : y <= n - d
  <2> SUFFICES ASSUME NEW y \in T PROVE y <= n - d
    OBVIOUS
  <2>1. n - y \in D
    BY SMT
  <2> QED
    BY <2>1, <1>2, SMT
<1>4. n - d \in T /\ d \in Nat
  BY <1>2
<1> HIDE DEF D
<1>5. \A y \in T : n - d >= y
  <2> SUFFICES ASSUME NEW y \in T PROVE n - d >= y
    OBVIOUS
  <2> QED
    BY <1>3, <1>4, SMT
<1>6. Max(T) \in T /\ \A y \in T : Max(T) >= y
  BY <1>4, <1>5, Zenon DEF Max
<1> DEFINE m == Max(T)
<1> HIDE DEF m
<1>7. m \in T /\ \A y \in T : m >= y
  BY <1>6 DEF m
<1>8. \A y \in T : y <= m
  BY <1>7, SMT
<1> QED
  BY <1>7, <1>8 DEF m

-----------------------------------------------------------------------------
(* The ring of pages                                                       *)

LEMMA ModSmall == \A n \in Nat \ {0} : \A x \in 0..(n - 1) : x % n = x
BY SMT

LEMMA ModWrap == \A n \in Nat \ {0} : \A x \in 0..(n - 1) : (x + n) % n = x
BY SMT

LEMMA DivPos == \A b \in Nat \ {0}, a \in Nat : (a + b) \div b \in Nat /\ (a + b) \div b >= 1
BY SMT

LEMMA DivBound == \A b \in Nat \ {0}, a \in Nat : b * ((a + b) \div b) > a
BY SMT

\* The ring has two halves of at least two pages.
LEMMA Size ==
  PagesNumber \in Nat /\ Half \in Nat /\ Half >= 2 /\ PagesNumber = 2 * Half
BY SizeAssumption, DivPos DEF PagesNumber, Half

\* A half holds more elements than there are variables.
LEMMA Room == MaxWritten \in Nat /\ MaxWritten > NbOfVariables
<1> DEFINE d == (NbOfVariables + PageElements) \div PageElements
<1>1. d \in Nat /\ PageElements * d > NbOfVariables
  BY SizeAssumption, DivPos, DivBound
<1>2. PagesNumber = d * 2 + 2
  BY DEF PagesNumber
<1>3. Half = d + 1
  <2> HIDE DEF d
  <2> QED
    BY <1>1, <1>2, SMT DEF Half
<1>4. PageElements * (d + 1) = PageElements * d + PageElements
  <2> HIDE DEF d
  <2> QED
    BY <1>1, SizeAssumption, SMT
<1> HIDE DEF d
<1>5. MaxWritten = PageElements * d + PageElements
  BY <1>3, <1>4 DEF MaxWritten
<1>6. PageElements * d \in Nat
  BY <1>1, SizeAssumption, SMT
<1> QED
  BY <1>1, <1>5, <1>6, SizeAssumption, SMT

LEMMA Ring ==
  ASSUME NEW c \in Pages
  PROVE  /\ c \in Nat /\ c < 2 * Half
         /\ Following(c) = IF c = 2 * Half - 1 THEN 0 ELSE c + 1
         /\ Previous(c) = IF c = 0 THEN 2 * Half - 1 ELSE c - 1
         /\ Following(c) \in Pages /\ Previous(c) \in Pages
         /\ BlockStart(c) = IF c < Half THEN 0 ELSE Half
<1> USE Size
<1>1. c \in Nat /\ c < 2 * Half
  BY SMT DEF Pages
<1>2. Following(c) = IF c = 2 * Half - 1 THEN 0 ELSE c + 1
  <2>1. CASE c = 2 * Half - 1
    <3>1. (0 + PagesNumber) % PagesNumber = 0
      BY ModWrap, SMT
    <3>2. c + 1 = 0 + PagesNumber
      BY <2>1, SMT
    <3> QED
      BY <2>1, <3>1, <3>2 DEF Following
  <2>2. CASE c # 2 * Half - 1
    <3>1. c + 1 \in 0..(PagesNumber - 1)
      BY <1>1, <2>2, SMT
    <3> QED
      BY <2>2, <3>1, ModSmall, SMT DEF Following
  <2> QED
    BY <2>1, <2>2
<1>3. Previous(c) = IF c = 0 THEN 2 * Half - 1 ELSE c - 1
  <2>1. CASE c = 0
    <3>1. c + PagesNumber - 1 \in 0..(PagesNumber - 1)
      BY <2>1, SMT
    <3>2. c + PagesNumber - 1 = 2 * Half - 1
      BY <2>1, SMT
    <3> QED
      BY <2>1, <3>1, <3>2, ModSmall, SMT DEF Previous
  <2>2. CASE c # 0
    <3>1. c - 1 \in 0..(PagesNumber - 1)
      BY <1>1, <2>2, SMT
    <3>2. c + PagesNumber - 1 = (c - 1) + PagesNumber
      BY <1>1, SMT
    <3> QED
      BY <2>2, <3>1, <3>2, ModWrap, SMT DEF Previous
  <2> QED
    BY <2>1, <2>2
<1> QED
  BY <1>1, <1>2, <1>3, SMT DEF Pages, BlockStart

\* The pages are those of the two halves, in front of c, c itself and behind it.
LEMMA Halves ==
  ASSUME NEW c \in Pages
  PROVE  /\ Before(c) \subseteq Pages /\ Behind(c) \subseteq Pages /\ Other(c) \subseteq Pages
         /\ \A p \in Pages : p = c \/ p \in Before(c) \/ p \in Behind(c) \/ p \in Other(c)
         /\ c \notin Before(c) /\ c \notin Behind(c) /\ c \notin Other(c)
         /\ Before(c) \cap Behind(c) = {} /\ Before(c) \cap Other(c) = {}
         /\ Behind(c) \cap Other(c) = {}
         /\ BlockStart(c) \in Pages /\ OtherStart(c) \in Other(c) /\ LastOther(c) \in Other(c)
         /\ OtherStart(c) + 1 \in Other(c)
BY Size, Ring, SMT DEF Pages, Before, Behind, Other, OtherStart, LastOther

LEMMA BackFrom ==
  ASSUME NEW c \in Pages, NEW k \in 0..PagesNumber
  PROVE  Back(c, k) = (IF k <= c THEN c - k ELSE c - k + 2 * Half) /\ Back(c, k) \in Pages
<1> USE Size
<1>0. c \in Nat /\ k \in Nat /\ k <= 2 * Half /\ c < 2 * Half
  BY Ring, SMT
<1>1. CASE k <= c
  <2>1. c - k \in 0..(PagesNumber - 1)
    BY <1>0, <1>1, SMT
  <2>2. c + PagesNumber - k = (c - k) + PagesNumber
    BY <1>0, <1>1, SMT
  <2>3. Back(c, k) = c - k
    BY <2>1, <2>2, ModWrap, SMT DEF Back
  <2> QED
    BY <1>0, <1>1, <2>1, <2>3, SMT DEF Pages
<1>2. CASE ~(k <= c)
  <2>1. c + PagesNumber - k \in 0..(PagesNumber - 1)
    BY <1>0, <1>2, SMT
  <2>2. Back(c, k) = c + PagesNumber - k
    BY <2>1, ModSmall, SMT DEF Back
  <2> QED
    BY <1>0, <1>2, <2>1, <2>2, SMT DEF Pages
<1> QED
  BY <1>1, <1>2

-----------------------------------------------------------------------------
(* Page states and elements                                                *)

LEMMA StateOfLines ==
  \A h \in SUBSET (1..4) :
    /\ PageState(h) = "ERASING" <=> 4 \in h
    /\ PageState(h) = "VALID" <=> 4 \notin h /\ 3 \in h
    /\ PageState(h) = "ACTIVE" <=> 4 \notin h /\ 3 \notin h /\ 2 \in h
    /\ PageState(h) = "RECEIVE" <=> h = {1}
    /\ PageState(h) = "ERASED" <=> h = {}
BY SMT DEF PageState

LEMMA LeadingFilled ==
  ASSUME NEW e, NEW c, NEW n \in 0..PageElements, Filled(e, c, n)
  PROVE  Leading(e, c) = n
<1> DEFINE S == {s \in Slots : e[c][s] = Erased}
<1>1. \A s \in Slots : s \in S <=> s > n
  BY DEF Filled
<1>2. CASE n = PageElements
  <2>1. S = {}
    BY <1>1, <1>2, SizeAssumption, SMT DEF Slots
  <2> QED
    BY <1>2, <2>1 DEF Leading
<1>3. CASE n # PageElements
  <2>1. n + 1 \in Slots
    BY <1>3, SizeAssumption, SMT DEF Slots
  <2>2. n + 1 \in S
    BY <2>1, <1>1, SMT
  <2>3. S \subseteq Nat /\ S # {}
    BY <2>2, SizeAssumption, SMT DEF Slots
  <2>4. Min(S) \in S /\ Min(S) <= n + 1
    BY <2>2, <2>3, MinOf
  <2>5. Min(S) > n /\ Min(S) \in Nat
    BY <2>3, <2>4, <1>1
  <2>6. Min(S) - 1 = n
    <3> HIDE DEF S
    <3> QED
      BY <2>4, <2>5, SMT
  <2> QED
    BY <2>3, <2>6 DEF Leading
<1> QED
  BY <1>2, <1>3

LEMMA StateAt ==
  ASSUME NEW h \in Headers
  PROVE  \A p \in Pages :
           /\ PageState(h[p]) = "ERASING" <=> 4 \in h[p]
           /\ PageState(h[p]) = "VALID" <=> 4 \notin h[p] /\ 3 \in h[p]
           /\ PageState(h[p]) = "ACTIVE" <=> 4 \notin h[p] /\ 3 \notin h[p] /\ 2 \in h[p]
           /\ PageState(h[p]) = "RECEIVE" <=> h[p] = {1}
           /\ PageState(h[p]) = "ERASED" <=> h[p] = {}
BY StateOfLines DEF Headers

LEMMA NewerHeader ==
  ASSUME NEW h \in SUBSET (1..4)
  PROVE  /\ PageState(h \cup {4}) = "ERASING"
         /\ PageState(h) \in {"ACTIVE", "RECEIVE"} => PageState(h \cup {3}) = "VALID"
         /\ PageState({1}) = "RECEIVE" /\ PageState({2}) = "ACTIVE"
         /\ PageState({1, 2}) = "ACTIVE" /\ PageState({}) = "ERASED"
<1>1. h \cup {4} \in SUBSET (1..4) /\ h \cup {3} \in SUBSET (1..4)
  BY SMT
<1>2. {1} \in SUBSET (1..4) /\ {2} \in SUBSET (1..4) /\ {1, 2} \in SUBSET (1..4)
      /\ {} \in SUBSET (1..4)
  BY SMT
<1>3. PageState(h) \in {"ACTIVE", "RECEIVE"} => 4 \notin h
  BY StateOfLines
<1> QED
  BY <1>1, <1>2, <1>3, StateOfLines

-----------------------------------------------------------------------------
(* What EE_Init makes of each shape                                        *)

LEMMA TornUnreliable ==
  ASSUME hdr \in Headers, NEW c \in Pages, Torn(hdr, c), NEW p \in Other(c),
         NEW s \in {"RECEIVE", "ACTIVE"}
  PROVE  p \notin Reliable(s)
<1> SUFFICES ASSUME p \in Reliable(s)
             PROVE  FALSE
  OBVIOUS
<1>1. p \in Pages /\ PageState(hdr[p]) = s
  BY DEF Reliable, InState, State
<1>2. hdr[p] # {} /\ PageState(hdr[p]) # "ERASING"
  BY <1>1, StateAt
<1>3. BlockStart(p) = OtherStart(c) /\ p \in Nat
  BY <1>1, Ring, Size, SMT DEF Other, LastOther, OtherStart
<1>4. CASE p = OtherStart(c)
  <2>1. Following(p) = p + 1 /\ p + 1 \in Other(c)
    BY <1>1, <1>4, Ring, Halves, Size, SMT DEF OtherStart
  <2>2. PageState(hdr[p + 1]) = "ERASING"
    BY <1>2, <1>3, <2>1, SMT DEF Torn
  <2> QED
    BY <1>3, <1>4, <2>1, <2>2 DEF Reliable, State, FirstOfBlock
<1>5. CASE p # OtherStart(c)
  <2>1. Previous(p) = p - 1 /\ p - 1 \in Other(c)
    BY <1>1, <1>3, <1>5, Ring, Size, SMT DEF Other, LastOther, OtherStart
  <2>2. PageState(hdr[p - 1]) = "VALID"
    BY <1>3, <1>5, <2>1 DEF Reliable, State, FirstOfBlock
  <2>3. hdr[p - 1] # {}
    BY <2>1, <2>2, Halves, StateAt
  <2> QED
    BY <1>2, <1>3, <2>1, <2>3, SMT DEF Torn
<1> QED
  BY <1>4, <1>5

\* What is written up to page c in its half makes c reliable.
LEMMA FrontReliable ==
  ASSUME hdr \in Headers, NEW c \in Pages, Front(hdr, elem, c)
  PROVE  /\ c \in Reliable(State(c))
         /\ \A p \in Before(c) \cup Behind(c) :
              State(p) \notin {"RECEIVE", "ACTIVE"}
<1>1. \A p \in Before(c) \cup Behind(c) : State(p) \notin {"RECEIVE", "ACTIVE"}
  <2>1. \A p \in Behind(c) : State(p) = "ERASED"
    BY Halves, StateAt DEF Front, State
  <2> QED
    BY <2>1 DEF Front, State
<1>2. CASE c = BlockStart(c)
  <2>1. Following(c) = c + 1 /\ c + 1 \in Behind(c)
    BY <1>2, Ring, Size, SMT DEF Behind
  <2>2. State(c + 1) = "ERASED"
    BY <2>1, Halves, StateAt DEF Front, State
  <2> QED
    BY <1>1, <1>2, <2>1, <2>2 DEF Reliable, InState, FirstOfBlock
<1>3. CASE c # BlockStart(c)
  <2>1. Previous(c) = c - 1 /\ c - 1 \in Before(c)
    BY <1>3, Ring, Size, SMT DEF Before
  <2>2. State(c - 1) = "VALID"
    BY <2>1 DEF Front, State
  <2> QED
    BY <1>1, <1>3, <2>1, <2>2 DEF Reliable, InState, FirstOfBlock
<1> QED
  BY <1>2, <1>3

LEMMA SettledReliable ==
  ASSUME hdr \in Headers, NEW c \in Pages, Settled(hdr, elem, c)
  PROVE  Reliable("RECEIVE") = {} /\ Reliable("ACTIVE") = {c}
<1>1. State(c) = "ACTIVE" /\ Front(hdr, elem, c) /\ Torn(hdr, c)
  BY DEF Settled, State
<1>2. \A s \in {"RECEIVE", "ACTIVE"} : \A p \in Reliable(s) : p = c /\ s = "ACTIVE"
  <2> SUFFICES ASSUME NEW s \in {"RECEIVE", "ACTIVE"}, NEW p \in Reliable(s)
               PROVE  p = c /\ s = "ACTIVE"
    OBVIOUS
  <2>1. p \in Pages /\ State(p) = s
    BY DEF Reliable, InState
  <2>2. p \notin Other(c)
    BY <1>1, TornUnreliable
  <2>3. p \notin Before(c) \cup Behind(c)
    BY <1>1, <2>1, FrontReliable
  <2> QED
    BY <1>1, <2>1, <2>2, <2>3, Halves
<1>3. c \in Reliable("ACTIVE")
  BY <1>1, FrontReliable
<1> QED
  BY <1>2, <1>3

LEMMA MovingReliable ==
  ASSUME hdr \in Headers, NEW c \in Pages, Moving(hdr, elem, c)
  PROVE  Reliable("RECEIVE") = {c}
<1>1. State(c) = "RECEIVE" /\ Front(hdr, elem, c) /\ Marked(hdr, c)
  BY StateAt DEF Moving, State
<1>2. \A p \in Reliable("RECEIVE") : p = c
  <2> SUFFICES ASSUME NEW p \in Reliable("RECEIVE")
               PROVE  p = c
    OBVIOUS
  <2>1. p \in Pages /\ State(p) = "RECEIVE"
    BY DEF Reliable, InState
  <2>2. p \notin Other(c)
    BY <1>1, <2>1 DEF Marked, State
  <2>3. p \notin Before(c) \cup Behind(c)
    BY <1>1, <2>1, FrontReliable
  <2> QED
    BY <2>1, <2>2, <2>3, Halves
<1>3. c \in Reliable("RECEIVE")
  BY <1>1, FrontReliable
<1> QED
  BY <1>2, <1>3

\* The valid pages of a half that is full up to c.
LEMMA GapValid ==
  ASSUME hdr \in Headers, NEW c \in Pages, Gap(hdr, elem, c)
  PROVE  /\ InState("VALID") = Before(c) \cup {c}
         /\ InState("ACTIVE") = {} /\ InState("RECEIVE") = {}
         /\ LastValid = c /\ Min(InState("VALID")) = BlockStart(c)
         /\ Following(c) = c + 1 /\ c + 1 \in Behind(c)
<1>1. \A p \in Other(c) : State(p) \in {"ERASING", "ERASED"}
  BY Halves, StateAt DEF Gap, AllErasing, Wiped, State
<1>2. \A p \in Behind(c) : State(p) = "ERASED"
  BY Halves, StateAt DEF Gap, Wiped, State
<1>3. State(c) = "VALID" /\ \A p \in Before(c) : State(p) = "VALID"
  BY DEF Gap, Front, State
<1>4. InState("VALID") = Before(c) \cup {c}
  BY <1>1, <1>2, <1>3, Halves DEF InState
<1>5. InState("ACTIVE") = {} /\ InState("RECEIVE") = {}
  BY <1>1, <1>2, <1>3, Halves DEF InState
<1>6. Before(c) \cup {c} = BlockStart(c)..c /\ BlockStart(c) \in 0..c /\ c \in Nat
  BY Ring, Size, SMT DEF Before
<1>7. Max(BlockStart(c)..c) = c
  <2>1. BlockStart(c)..c \subseteq 0..c /\ BlockStart(c)..c # {} /\ c \in BlockStart(c)..c
    BY <1>6, SMT
  <2>2. Max(BlockStart(c)..c) \in BlockStart(c)..c /\ c <= Max(BlockStart(c)..c)
    BY <1>6, <2>1, MaxOf
  <2> QED
    BY <1>6, <2>2, SMT
<1>8. Min(BlockStart(c)..c) = BlockStart(c)
  <2>1. BlockStart(c)..c \subseteq Nat /\ BlockStart(c)..c # {}
        /\ BlockStart(c) \in BlockStart(c)..c
    BY <1>6, SMT
  <2>2. Min(BlockStart(c)..c) \in BlockStart(c)..c /\ Min(BlockStart(c)..c) <= BlockStart(c)
    BY <2>1, MinOf
  <2> QED
    BY <1>6, <2>2, SMT
<1>9. LastValid = c
  BY <1>4, <1>6, <1>7 DEF LastValid
<1>10. Following(c) = c + 1 /\ c + 1 \in Behind(c)
  <2>1. Behind(c) # {}
    BY DEF Gap
  <2> QED
    BY <2>1, Ring, Size, SMT DEF Behind
<1> QED
  BY <1>4, <1>5, <1>6, <1>8, <1>9, <1>10

LEMMA GapUnreliable ==
  ASSUME hdr \in Headers, NEW c \in Pages, Gap(hdr, elem, c)
  PROVE  Reliable("RECEIVE") = {} /\ Reliable("ACTIVE") = {}
BY GapValid DEF Reliable


-----------------------------------------------------------------------------
(* What a line programmed or a page erased makes of each shape             *)

LEMMA NextInHalf ==
  ASSUME NEW c \in Pages, Behind(c) # {}
  PROVE  /\ c + 1 \in Behind(c) /\ c + 1 \in Pages /\ Following(c) = c + 1
         /\ BlockStart(c + 1) = BlockStart(c)
         /\ Before(c + 1) = Before(c) \cup {c} /\ Other(c + 1) = Other(c)
         /\ Behind(c + 1) \subseteq Behind(c) \ {c + 1}
<1>1. c \in Nat /\ BlockStart(c) \in {0, Half} /\ BlockStart(c) <= c
  BY Ring, Size, SMT
<1>2. c + 1 <= BlockStart(c) + Half - 1
  BY <1>1, Size, SMT DEF Behind
<1>3. c + 1 \in Behind(c)
  BY <1>1, <1>2, Size, SMT DEF Behind
<1>4. c + 1 \in Pages
  BY <1>3, Halves
<1>5. BlockStart(c + 1) = BlockStart(c)
  BY <1>1, <1>2, Size, SMT DEF BlockStart
<1>6. Following(c) = c + 1
  BY <1>1, <1>2, Ring, Size, SMT
<1>7. Before(c + 1) = Before(c) \cup {c} /\ Behind(c + 1) \subseteq Behind(c) \ {c + 1}
  BY <1>1, <1>2, <1>5, Size, SMT DEF Before, Behind
<1>8. Other(c + 1) = Other(c)
  BY <1>5 DEF Other, OtherStart, LastOther
<1> QED
  BY <1>3, <1>4, <1>5, <1>6, <1>7, <1>8

\* The next page of the half is begun.
LEMMA GapBegins ==
  ASSUME NEW h \in Headers, NEW e, NEW c \in Pages, Gap(h, e, c),
         NEW g \in Headers, Elsewhere(h, g, c + 1)
  PROVE  /\ h[c + 1] = {} /\ Filled(e, c + 1, 0) /\ Front(g, e, c + 1)
         /\ Wiped(g, e, Behind(c + 1))
         /\ AllErasing(h, c) => AllErasing(g, c + 1)
         /\ Wiped(h, e, Other(c)) => Wiped(g, e, Other(c + 1))
<1>0. Behind(c) # {}
  BY DEF Gap
<1>1. c + 1 \in Behind(c) /\ c + 1 \in Pages
  BY <1>0, NextInHalf
<1>2. /\ Before(c + 1) = Before(c) \cup {c} /\ Behind(c + 1) \subseteq Behind(c) \ {c + 1}
      /\ Other(c + 1) = Other(c)
  BY <1>0, NextInHalf
<1>3. h[c + 1] = {} /\ e[c + 1] = BlankPage
  BY <1>1 DEF Gap, Wiped
<1>4. Filled(e, c + 1, 0)
  BY <1>3, SizeAssumption, SMT DEF Filled, BlankPage, Slots
<1>5. Front(g, e, c + 1)
  <2>1. 0 \in 0..PageElements
    BY SizeAssumption, SMT
  <2>2. \A p \in Before(c) \cup {c} : p \in Pages \ {c + 1}
    BY <1>1, Halves
  <2>3. \A p \in Behind(c + 1) : p \in Pages \ {c + 1} /\ p \in Behind(c)
    BY <1>1, <1>2, Halves
  <2> QED
    BY <1>2, <1>4, <2>1, <2>2, <2>3 DEF Front, Gap, Elsewhere
<1>6. Wiped(g, e, Behind(c + 1))
  BY <1>1, <1>2, Halves DEF Gap, Wiped, Elsewhere
<1>7. AllErasing(h, c) => AllErasing(g, c + 1)
  BY <1>1, <1>2, Halves DEF AllErasing, Elsewhere
<1>8. Wiped(h, e, Other(c)) => Wiped(g, e, Other(c + 1))
  BY <1>1, <1>2, Halves DEF Wiped, Elsewhere
<1> QED
  BY <1>3, <1>4, <1>5, <1>6, <1>7, <1>8

\* It takes part in a transfer.
LEMMA GapReceives ==
  ASSUME NEW h \in Headers, NEW e, NEW c \in Pages, Gap(h, e, c), AllErasing(h, c),
         NEW g \in Headers, g[c + 1] = h[c + 1] \cup {1}, Elsewhere(h, g, c + 1)
  PROVE  Receiving(g, e, c + 1)
<1>1. Marked(g, c + 1)
  BY GapBegins DEF Marked, AllErasing
<1> QED
  BY <1>1, GapBegins DEF Receiving, Moving

\* It becomes active.
LEMMA GapActivates ==
  ASSUME NEW h \in Headers, NEW e, NEW c \in Pages, Gap(h, e, c),
         NEW g \in Headers, g[c + 1] = h[c + 1] \cup {2}, Elsewhere(h, g, c + 1)
  PROVE  Ordered(g, e, c + 1)
<1>1. AllErasing(g, c + 1) \/ Wiped(g, e, Other(c + 1))
  BY GapBegins DEF Gap
<1>2. Torn(g, c + 1)
  BY <1>1 DEF Torn, AllErasing, Wiped
<1>3. PageState(g[c + 1]) = "ACTIVE"
  BY GapBegins, {} \in SUBSET (1..4), NewerHeader
<1> QED
  BY <1>1, <1>2, <1>3, GapBegins DEF Ordered, Settled

\* The first page of an erased ring becomes active.
LEMMA BlankActivates ==
  ASSUME NEW h \in Headers, NEW e, Wiped(h, e, Pages),
         NEW g \in Headers, g[0] = h[0] \cup {2}, Elsewhere(h, g, 0)
  PROVE  0 \in Pages /\ BlockStart(0) = 0 /\ Ordered(g, e, 0) /\ Filled(e, 0, 0)
<1>1. 0 \in Pages /\ BlockStart(0) = 0 /\ Before(0) = {}
  BY Size, SMT DEF Pages, BlockStart, Before
<1>2. Filled(e, 0, 0)
  BY <1>1, SizeAssumption, SMT DEF Wiped, Filled, BlankPage, Slots
<1>3. Wiped(g, e, Behind(0)) /\ Wiped(g, e, Other(0))
  BY <1>1, Halves DEF Wiped, Elsewhere
<1>4. Front(g, e, 0)
  <2>1. 0 \in 0..PageElements
    BY SizeAssumption, SMT
  <2> QED
    BY <1>1, <1>2, <1>3, <2>1 DEF Front, Wiped
<1>5. PageState(g[0]) = "ACTIVE"
  <2>1. g[0] = {2}
    BY <1>1 DEF Wiped
  <2> QED
    BY <2>1, {} \in SUBSET (1..4), NewerHeader
<1> QED
  BY <1>1, <1>2, <1>3, <1>4, <1>5 DEF Ordered, Settled, Torn, Wiped

\* EE_Init erases the pages in order, so a page half erased does no harm.
LEMMA ErasesOn ==
  ASSUME NEW h \in Headers, NEW e, NEW c \in Pages, Settled(h, e, c),
         NEW p \in Behind(c) \cup Other(c),
         p \in Other(c) => \A q \in Other(c) : q < p => h[q] = {},
         NEW g \in Headers, g[p] \subseteq h[p], Elsewhere(h, g, p),
         NEW f, Elsewhere(e, f, p)
  PROVE  Settled(g, f, c) /\ \A n : Filled(e, c, n) => Filled(f, c, n)
<1>1. p \in Pages /\ p # c /\ p \notin Before(c)
  BY Halves
<1>2. g[c] = h[c] /\ f[c] = e[c] /\ \A q \in Before(c) : g[q] = h[q]
  BY <1>1, Halves DEF Elsewhere
<1>3. \A n : Filled(e, c, n) => Filled(f, c, n)
  BY <1>2 DEF Filled
<1>4. Front(g, f, c)
  <2>1. \A q \in Behind(c) : g[q] = {}
    BY <1>1, Halves DEF Elsewhere, Settled, Front
  <2>2. \E n \in 0..PageElements : Filled(f, c, n)
    BY <1>3 DEF Settled, Front
  <2> QED
    BY <1>2, <2>1, <2>2 DEF Settled, Front
<1>5. Torn(g, c)
  <2> SUFFICES ASSUME NEW q \in Other(c), NEW r \in Other(c), q < r, g[q] # {}
               PROVE  PageState(g[r]) = "ERASING"
    BY DEF Torn
  <2>1. h[q] # {} /\ q \in Pages /\ r \in Pages
    BY <1>1, Halves DEF Elsewhere
  <2>2. PageState(h[r]) = "ERASING"
    BY <2>1 DEF Settled, Torn
  <2>3. r # p
    BY <2>1
  <2> QED
    BY <2>1, <2>2, <2>3 DEF Elsewhere
<1> QED
  BY <1>2, <1>3, <1>4, <1>5 DEF Settled

\* A transfer into the other half is begun.
LEMMA OrderedReceives ==
  ASSUME NEW h \in Headers, NEW e, NEW q \in Pages, Ordered(h, e, q),
         Wiped(h, e, Other(q)), NEW c, c = OtherStart(q), q = LastOther(c),
         NEW g \in Headers, g[c] = h[c] \cup {1}, Elsewhere(h, g, c)
  PROVE  Moving(g, e, c) /\ Filled(e, c, 0)
<1>1. /\ c \in Pages /\ c \in Other(q) /\ c = BlockStart(c)
      /\ Before(c) = {} /\ Behind(c) \subseteq Other(q) \ {c}
      /\ Other(c) = Before(q) \cup {q} /\ q \notin Before(q)
  <2>1. c \in Pages /\ c \in Other(q) /\ q \notin Before(q)
    BY Halves
  <2>2. q \in Nat /\ BlockStart(q) \in {0, Half} /\ c = Half - BlockStart(q)
    BY Ring, Size, SMT DEF OtherStart
  <2>3. BlockStart(c) = c
    BY <2>2, Size, SMT DEF BlockStart
  <2>4. q = BlockStart(q) + Half - 1
    BY <2>2, <2>3, Size, SMT DEF LastOther, OtherStart
  <2>5. Before(c) = {}
    BY <2>2, <2>3, Size, SMT DEF Before
  <2>6. Behind(c) \subseteq Other(q) \ {c}
    BY <2>2, <2>3, Size, SMT DEF Behind, Other, OtherStart, LastOther
  <2>7. Other(c) = Before(q) \cup {q}
    BY <2>2, <2>3, <2>4, Size, SMT DEF Before, Other, OtherStart, LastOther
  <2> QED
    BY <2>1, <2>3, <2>5, <2>6, <2>7
<1>2. h[c] = {} /\ e[c] = BlankPage
  BY <1>1 DEF Wiped
<1>3. Filled(e, c, 0)
  BY <1>2, SizeAssumption, SMT DEF Filled, BlankPage, Slots
<1>4. Wiped(g, e, Behind(c))
  BY <1>1, Halves DEF Wiped, Elsewhere
<1>5. Front(g, e, c)
  <2>1. 0 \in 0..PageElements
    BY SizeAssumption, SMT
  <2> QED
    BY <1>1, <1>3, <1>4, <2>1 DEF Front, Wiped
<1>6. Marked(g, c)
  <2>1. \A p \in Other(c) : p \in Pages \ {c}
    BY <1>1, Halves
  <2>2. \A p \in Other(c) : PageState(g[p]) = IF p = q THEN "ACTIVE" ELSE "VALID"
    BY <1>1, <2>1 DEF Elsewhere, Ordered, Settled, Front
  <2> QED
    BY <1>1, <2>2 DEF Marked
<1> QED
  BY <1>2, <1>3, <1>4, <1>5, <1>6 DEF Moving

\* A page of the other half is marked.
LEMMA MarksOn ==
  ASSUME NEW h \in Headers, NEW e, NEW c \in Pages, Moving(h, e, c), NEW p \in Other(c),
         \A q \in Other(c) : q > p => PageState(h[q]) = "ERASING",
         NEW g \in Headers, g[p] = h[p] \cup {4}, Elsewhere(h, g, p)
  PROVE  Moving(g, e, c) /\ \A q \in Other(c) : q >= p => PageState(g[q]) = "ERASING"
<1>1. p \in Pages /\ p # c /\ p \notin Before(c) /\ p \notin Behind(c)
  BY Halves
<1>2. PageState(g[p]) = "ERASING"
  <2>1. h[p] \in SUBSET (1..4)
    BY <1>1 DEF Headers
  <2> QED
    BY <2>1, NewerHeader
<1>3. \A q \in Before(c) \cup Behind(c) \cup {c} : g[q] = h[q]
  BY <1>1, Halves DEF Elsewhere
<1>4. \A q \in Other(c) : q # p => g[q] = h[q]
  BY <1>1, Halves DEF Elsewhere
<1>5. Front(g, e, c) /\ g[c] = {1} /\ Wiped(g, e, Behind(c))
  BY <1>3 DEF Moving, Front, Wiped
<1>6. \A q \in Other(c) : q \in Int
  BY Ring, Size, SMT DEF Other, OtherStart, LastOther
<1>7. \A q \in Other(c) : q >= p => PageState(g[q]) = "ERASING"
  BY <1>2, <1>4, <1>6, SMT
<1>8. Marked(g, c)
  <2>1. \A q \in Other(c) :
          \/ PageState(g[q]) = "ERASING"
          \/ /\ c = BlockStart(c)
             /\ PageState(g[q]) = IF q = LastOther(c) THEN "ACTIVE" ELSE "VALID"
    BY <1>2, <1>4 DEF Moving, Marked
  <2>2. ASSUME NEW q \in Other(c), NEW r \in Other(c), q < r, PageState(g[q]) = "ERASING"
        PROVE  PageState(g[r]) = "ERASING"
    <3>1. CASE q = p
      BY <3>1, <2>2, <1>6, <1>7, SMT
    <3>2. CASE q # p
      BY <3>2, <2>2, <1>2, <1>4 DEF Moving, Marked
    <3> QED
      BY <3>1, <3>2
  <2> QED
    BY <2>1, <2>2 DEF Marked
<1> QED
  BY <1>5, <1>7, <1>8 DEF Moving

\* A full page is left.
LEMMA LeavesPage ==
  ASSUME NEW h \in Headers, NEW e, NEW c \in Pages, Ordered(h, e, c) \/ Receiving(h, e, c),
         Behind(c) # {},
         NEW g \in Headers, g[c] = h[c] \cup {3}, Elsewhere(h, g, c)
  PROVE  Gap(g, e, c) /\ (AllErasing(h, c) => AllErasing(g, c))
<1>1. \A q \in Before(c) \cup Behind(c) \cup Other(c) : g[q] = h[q]
  BY Halves DEF Elsewhere
<1>2. PageState(h[c]) \in {"ACTIVE", "RECEIVE"}
  BY StateAt DEF Ordered, Settled, Receiving, Moving
<1>3. PageState(g[c]) = "VALID"
  <2>1. h[c] \in SUBSET (1..4)
    BY DEF Headers
  <2> QED
    BY <2>1, <1>2, NewerHeader
<1>4. Front(g, e, c)
  BY <1>1 DEF Ordered, Settled, Receiving, Moving, Front
<1>5. Wiped(g, e, Behind(c)) /\ (AllErasing(g, c) \/ Wiped(g, e, Other(c)))
  BY <1>1 DEF Ordered, Settled, Receiving, Moving, Wiped, AllErasing
<1>6. AllErasing(h, c) => AllErasing(g, c)
  BY <1>1 DEF AllErasing
<1> QED
  BY <1>3, <1>4, <1>5, <1>6 DEF Gap

\* A transfer is closed.
LEMMA ReceivingCloses ==
  ASSUME NEW h \in Headers, NEW e, NEW c \in Pages, Receiving(h, e, c),
         NEW g \in Headers, g[c] = h[c] \cup {2}, Elsewhere(h, g, c)
  PROVE  Ordered(g, e, c)
<1>1. \A q \in Before(c) \cup Behind(c) \cup Other(c) : g[q] = h[q]
  BY Halves DEF Elsewhere
<1>2. g[c] = {1, 2} /\ {} \in SUBSET (1..4)
  BY DEF Receiving, Moving
<1>3. PageState(g[c]) = "ACTIVE"
  BY <1>2, NewerHeader
<1>4. Front(g, e, c) /\ Wiped(g, e, Behind(c)) /\ AllErasing(g, c)
  BY <1>1 DEF Receiving, Moving, Front, Wiped, AllErasing
<1>5. Torn(g, c)
  BY <1>4 DEF Torn, AllErasing
<1> QED
  BY <1>3, <1>4, <1>5 DEF Ordered, Settled

\* An element is written to the current page, whole or with a wrong CRC.
LEMMA FillsOn ==
  ASSUME NEW e \in Contained, NEW c \in Pages, NEW n \in 0..(PageElements - 1),
         Filled(e, c, n), NEW x \in Elements, x # Erased,
         NEW f, f = [e EXCEPT ![c][n + 1] = x]
  PROVE  /\ n + 1 \in Slots /\ f \in Contained
         /\ Elsewhere(e, f, c) /\ Filled(f, c, n + 1)
<1>1. n + 1 \in Slots
  BY SizeAssumption, SMT DEF Slots
<1>2. f = [e EXCEPT ![c] = [e[c] EXCEPT ![n + 1] = x]]
  BY DEF Contained
<1>3. [e[c] EXCEPT ![n + 1] = x] \in [Slots -> Elements]
  BY <1>1 DEF Contained
<1>4. f \in Contained /\ Elsewhere(e, f, c) /\ f[c] = [e[c] EXCEPT ![n + 1] = x]
  BY <1>2, <1>3 DEF Contained, Elsewhere
<1>5. Filled(f, c, n + 1)
  <2> SUFFICES ASSUME NEW s \in Slots
               PROVE  f[c][s] = Erased <=> s > n + 1
    BY DEF Filled
  <2>1. e[c] \in [Slots -> Elements]
    BY DEF Contained
  <2>2. CASE s = n + 1
    BY <1>1, <1>4, <2>1, <2>2, SMT
  <2>3. CASE s # n + 1
    <3>1. f[c][s] = e[c][s]
      BY <1>4, <2>1, <2>3
    <3>2. s > n <=> s > n + 1
      BY <2>3, SizeAssumption, SMT DEF Slots
    <3> QED
      BY <3>1, <3>2 DEF Filled
  <2> QED
    BY <2>2, <2>3
<1> QED
  BY <1>1, <1>4, <1>5

LEMMA ShapesKept ==
  ASSUME NEW h, NEW e, NEW f, NEW c \in Pages, Elsewhere(e, f, c),
         NEW n \in 0..PageElements, Filled(f, c, n)
  PROVE  /\ Settled(h, e, c) => Settled(h, f, c)
         /\ Moving(h, e, c) => Moving(h, f, c)
         /\ Ordered(h, e, c) => Ordered(h, f, c)
         /\ Receiving(h, e, c) => Receiving(h, f, c)
<1>1. \A q \in Behind(c) \cup Other(c) : f[q] = e[q]
  BY Halves DEF Elsewhere
<1>2. Front(h, e, c) => Front(h, f, c)
  BY DEF Front
<1>3. /\ Wiped(h, e, Behind(c)) => Wiped(h, f, Behind(c))
      /\ Wiped(h, e, Other(c)) => Wiped(h, f, Other(c))
  BY <1>1 DEF Wiped
<1> QED
  BY <1>2, <1>3 DEF Settled, Moving, Ordered, Receiving


-----------------------------------------------------------------------------
(* Reading                                                                 *)

\* A read returns data of an element, or nothing when there is none.
LEMMA Reads ==
  ASSUME NEW h, NEW e, NEW c, NEW a
  PROVE  /\ Occurrences(h, e, c, a) = {} => ReadVariable(h, e, c, a) = NoData
         /\ Occurrences(h, e, c, a) # {} => ReadVariable(h, e, c, a) \in Values
<1> DEFINE occ == Occurrences(h, e, c, a)
           K   == {o[1] : o \in occ}
           k   == Min(K)
           S   == {o[2] : o \in {x \in occ : x[1] = k}}
           s   == Max(S)
<1>1. occ = {} => ReadVariable(h, e, c, a) = NoData
  BY DEF ReadVariable
<1>2. ASSUME occ # {}
      PROVE  ReadVariable(h, e, c, a) \in Values
  <2>1. \A o \in occ : o \in Nat \X Slots
    BY Size DEF Occurrences, Visited
  <2>2. K \subseteq Nat /\ K # {}
    BY <1>2, <2>1
  <2>3. k \in K
    BY <2>2, MinOf
  <2>4. S \subseteq 0..PageElements /\ S # {}
    <3>1. PICK o \in occ : o[1] = k
      BY <2>3
    <3>2. o[2] \in S
      BY <3>1
    <3>3. \A o1 \in occ : o1[2] \in Slots
      BY <2>1
    <3>4. Slots \subseteq 0..PageElements
      BY SizeAssumption, SMT DEF Slots
    <3>5. S \subseteq Slots
      <4> HIDE DEF k
      <4> QED
        BY <3>3
    <3> QED
      BY <3>2, <3>4, <3>5
  <2>5. s \in S
    BY <2>4, SizeAssumption, MaxOf
  <2>6. PICK o \in occ : o[1] = k /\ o[2] = s
    BY <2>5
  <2>7. e[Back(ReadStart(h, c), k)][s] \in [a : {a}, d : Values]
    BY <2>6 DEF Occurrences
  <2>8. ReadVariable(h, e, c, a) = e[Back(ReadStart(h, c), k)][s].d
    BY <1>2, Zenon DEF ReadVariable
  <2> HIDE DEF k, s
  <2> QED
    BY <2>7, <2>8
<1> QED
  BY <1>1, <1>2

LEMMA ContentsTyped ==
  ASSUME NEW h, NEW e, NEW c
  PROVE  Contents(h, e, c) \in [Addresses -> Values \cup {NoData}]
<1>1. \A a \in Addresses : ReadVariable(h, e, c, a) \in Values \cup {NoData}
  BY Reads
<1> QED
  BY <1>1 DEF Contents

\* The way back from a receive page: the pages in front of it, then the other half.
LEMMA WayBack ==
  ASSUME NEW c \in Pages, NEW p \in Before(c) \cup Other(c)
  PROVE  \E k \in 0..(PagesNumber - 1) :
           /\ Back(Previous(c), k) = p
           /\ \A j \in 0..k : Back(Previous(c), j) \in Before(c) \cup Other(c)
<1> DEFINE q == Previous(c)
           k == IF p <= q THEN q - p ELSE q - p + 2 * Half
<1>1. /\ c \in Nat /\ c < 2 * Half /\ q \in Pages
      /\ q = IF c = 0 THEN 2 * Half - 1 ELSE c - 1
      /\ BlockStart(c) = IF c < Half THEN 0 ELSE Half
  BY Ring
<1>2. p \in Nat /\ p < 2 * Half
  BY Halves, Ring
<1>3. \A j \in 0..PagesNumber : Back(q, j) = IF j <= q THEN q - j ELSE q - j + 2 * Half
  BY <1>1, BackFrom
<1> HIDE DEF q
<1>4. k \in 0..(PagesNumber - 1)
  BY <1>1, <1>2, Size, SMT
<1>5. Back(q, k) = p
  BY <1>1, <1>2, <1>3, <1>4, Size, SMT
<1>6. ASSUME NEW j \in 0..k
      PROVE  Back(q, j) \in Before(c) \cup Other(c)
  <2>1. j \in Nat /\ j <= k /\ Back(q, j) = IF j <= q THEN q - j ELSE q - j + 2 * Half
    BY <1>3, <1>4, Size, SMT
  <2>2. p \in BlockStart(c)..(c - 1) \/ p \in (Half - BlockStart(c))..(2 * Half - BlockStart(c) - 1)
    BY <1>1, Size, SMT DEF Before, Other, OtherStart, LastOther
  <2>3. \/ Back(q, j) \in BlockStart(c)..(c - 1)
        \/ Back(q, j) \in (Half - BlockStart(c))..(2 * Half - BlockStart(c) - 1)
    BY <1>1, <1>2, <2>1, <2>2, Size, SMT
  <2> QED
    BY <1>1, <2>3, Size, SMT DEF Before, Other, OtherStart, LastOther
<1> QED
  BY <1>4, <1>5, <1>6 DEF q

LEMMA ReadsInTransfer ==
  ASSUME NEW h \in Headers, NEW e, NEW c \in Pages, Receiving(h, e, c), NEW a
  PROVE  ReadVariable(h, e, c, a) # NoData <=> Holds(e, c, a)
<1>1. PageState(h[c]) = "RECEIVE"
  BY StateAt DEF Receiving, Moving
<1>2. ReadStart(h, c) = Previous(c) /\ Previous(c) \in Pages /\ Previous(c) # -1
  BY <1>1, Ring DEF ReadStart
<1>3. \A p \in Before(c) \cup Other(c) : PageState(h[p]) \in {"VALID", "ERASING"}
  BY DEF Receiving, Moving, Front, AllErasing
<1>4. \A p \in Behind(c) : PageState(h[p]) = "ERASED"
  BY StateAt, Halves DEF Receiving, Moving, Front
<1>5. ASSUME NEW o \in Occurrences(h, e, c, a)
      PROVE  Holds(e, c, a)
  <2>1. /\ o[1] \in 0..(PagesNumber - 1) /\ o[2] \in Slots /\ ~Stops(h, Previous(c), o[1])
        /\ e[Back(Previous(c), o[1])][o[2]] \in [a : {a}, d : Values]
    BY <1>2, Size DEF Occurrences, Visited
  <2>2. Back(Previous(c), o[1]) \in Pages
    BY <1>2, <2>1, BackFrom, Size
  <2>3. Back(Previous(c), o[1]) \in Before(c) \cup Other(c)
    BY <1>1, <1>4, <2>1, <2>2, Halves DEF Stops
  <2> QED
    BY <2>1, <2>3 DEF Holds
<1>6. ASSUME Holds(e, c, a)
      PROVE  Occurrences(h, e, c, a) # {}
  <2>1. PICK p \in Before(c) \cup Other(c), s \in Slots : e[p][s] \in [a : {a}, d : Values]
    BY <1>6 DEF Holds
  <2>2. PICK k \in 0..(PagesNumber - 1) :
           /\ Back(Previous(c), k) = p
           /\ \A j \in 0..k : Back(Previous(c), j) \in Before(c) \cup Other(c)
    BY WayBack
  <2>3. \A j \in 0..k : ~Stops(h, Previous(c), j)
    BY <1>3, <2>2 DEF Stops
  <2>4. k \in Visited(h, c)
    BY <1>2, <2>3 DEF Visited
  <2>5. <<k, s>> \in Occurrences(h, e, c, a)
    BY <1>2, <2>1, <2>2, <2>4 DEF Occurrences
  <2> QED
    BY <2>5
<1> QED
  BY <1>5, <1>6, Reads, ValueAssumption


-----------------------------------------------------------------------------
(* The operations                                                          *)

\* The operation of each step, and its effect.
LEMMA PendingIs ==
  /\ pc = "find" /\ Resumes           => Pending = Line(Following(LastValid), 1)
  /\ pc = "find" /\ ~Resumes          => Pending = Nothing
  /\ pc = "format"                    => Pending = PageErase(page)
  /\ pc = "erase" /\ page # BlockStart(cur) => Pending = PageErase(page)
  /\ pc = "open"                      => Pending = Line(0, 2)
  /\ pc = "receive"                   => Pending = Line(cur, 1)
  /\ pc = "mark" /\ Marks(page)       => Pending = Line(page, 4)
  /\ pc = "mark" /\ ~Marks(page)      => Pending = Nothing
  /\ pc = "put" /\ ~Full /\ PageFull  => Pending = Line(cur, 3)
  /\ pc = "put" /\ ~Full /\ ~PageFull => Pending = Element(Written)
  /\ pc = "turn"  => Pending = Line(Following(cur), IF 2 \in hdr[cur] THEN 2 ELSE 1)
  /\ pc = "close" => Pending = Line(cur, 2)
  /\ pc = "active" /\ Reliable("ACTIVE") = {} => Pending = Line(Following(LastValid), 2)
  /\ pc = "active" /\ Reliable("ACTIVE") # {} => Pending = Nothing
BY SMT DEF Pending

\* The other way round: who may be about to program an element, a line, to erase a page.
LEMMA PendingElement ==
  Pending.op = "elem" => pc = "put" /\ ~Full /\ ~PageFull
BY SMT DEF Pending, Line, PageErase, Nothing, Element

LEMMA PendingErase ==
  Pending.op = "erase" => pc = "format" \/ (pc = "erase" /\ page # BlockStart(cur))
BY SMT DEF Pending, Line, PageErase, Nothing, Element

LEMMA PendingLine ==
  Pending.op = "line" => 
    \/ pc \in {"open", "receive", "turn", "close"}
    \/ (pc = "find" /\ Resumes)
    \/ (pc = "mark" /\ Marks(page))
    \/ (pc = "put" /\ ~Full /\ PageFull)
    \/ (pc = "active" /\ Reliable("ACTIVE") = {})
BY SMT DEF Pending, Line, PageErase, Nothing, Element

LEMMA PerformsLine ==
  ASSUME hdr \in Headers, NEW p \in Pages, NEW i \in 1..4, Pending = Line(p, i), Perform
  PROVE  /\ hdr' \in Headers /\ hdr'[p] = hdr[p] \cup {i} /\ Elsewhere(hdr, hdr', p)
         /\ elem' = elem /\ ecc' = ecc
<1>1. hdr' = [hdr EXCEPT ![p] = @ \cup {i}] /\ elem' = elem /\ ecc' = ecc
  BY SMT DEF Perform, Line
<1> QED
  BY <1>1, SMT DEF Headers, Elsewhere

LEMMA PerformsErase ==
  ASSUME NEW p, Pending = PageErase(p), Perform
  PROVE  hdr' = [hdr EXCEPT ![p] = {}] /\ elem' = [elem EXCEPT ![p] = BlankPage] /\ ecc' = ecc
BY SMT DEF Perform, PageErase

LEMMA PerformsElement ==
  ASSUME NEW x, Pending = Element(x), Perform
  PROVE  hdr' = hdr /\ elem' = [elem EXCEPT ![cur][next] = x] /\ ecc' = ecc
BY SMT DEF Perform, Element

LEMMA PerformsNothing ==
  ASSUME Pending = Nothing, Perform
  PROVE  UNCHANGED flash
BY SMT DEF Perform, Nothing, flash

-----------------------------------------------------------------------------
(* Counting                                                                *)

LEMMA Monotone == \A m, x, y \in Nat : x <= y => m * x \in Nat /\ m * x <= m * y
BY SMT

LEMMA Successor == \A m, x \in Nat : m * (x + 1) = m * x + m
BY SMT

\* The number of elements up to a place in the half of page c.
LEMMA Counts ==
  ASSUME NEW c \in Pages, NEW nx \in 1..(PageElements + 1),
         NEW n, n = PageElements * (c - BlockStart(c)) + nx - 1
  PROVE  /\ n \in 0..MaxWritten
         /\ n < MaxWritten /\ nx = PageElements + 1 => Behind(c) # {}
         /\ n >= MaxWritten => Behind(c) = {}
<1> DEFINE d == c - BlockStart(c)
<1>1. d \in Nat /\ d + 1 <= Half
  BY Ring, Size, SMT
<1>2. Behind(c) = {} <=> d + 1 = Half
  <2>1. c \in Nat /\ BlockStart(c) \in {0, Half}
    BY Ring, Size, SMT
  <2>2. d + 1 = Half => Behind(c) = {}
    BY <2>1, Size, SMT DEF Behind
  <2>3. d + 1 # Half => c + 1 \in Behind(c)
    BY <1>1, <2>1, Size, SMT DEF Behind
  <2> QED
    BY <2>2, <2>3
<1>3. PageElements * d \in Nat /\ PageElements * (d + 1) = PageElements * d + PageElements
  <2> HIDE DEF d
  <2> QED
    BY <1>1, SizeAssumption, Monotone, Successor
<1>4. PageElements * d + PageElements <= MaxWritten
  <2> HIDE DEF d
  <2> QED
    BY <1>1, <1>3, SizeAssumption, Size, Monotone DEF MaxWritten
<1>5. d + 1 # Half => PageElements * d + PageElements + PageElements <= MaxWritten
  <2> HIDE DEF d
  <2> SUFFICES ASSUME d + 1 # Half
               PROVE  PageElements * d + PageElements + PageElements <= MaxWritten
    OBVIOUS
  <2>1. PageElements * ((d + 1) + 1) = PageElements * (d + 1) + PageElements
    BY <1>1, SizeAssumption, Successor
  <2>2. (d + 1) + 1 <= Half
    BY <1>1, Size, SMT
  <2>3. PageElements * ((d + 1) + 1) <= PageElements * Half
    BY <1>1, <2>2, Size, SizeAssumption, Monotone
  <2> QED
    BY <1>3, <2>1, <2>3 DEF MaxWritten
<1>6. d + 1 = Half => PageElements * d + PageElements = MaxWritten
  BY <1>3 DEF MaxWritten
<1> DEFINE m == PageElements * d
<1>7. n = m + nx - 1
  OBVIOUS
<1> HIDE DEF m, d
<1>8. m \in Nat /\ m + PageElements <= MaxWritten
      /\ (d + 1 # Half => m + PageElements + PageElements <= MaxWritten)
      /\ (d + 1 = Half => m + PageElements = MaxWritten)
  BY <1>3, <1>4, <1>5, <1>6 DEF m
<1> QED
  BY <1>2, <1>7, <1>8, Room, SizeAssumption, SMT

\* The valid pages in front of a receive page are those of its half.
LEMMA CountsBefore ==
  ASSUME hdr \in Headers, cur \in Pages, Receiving(hdr, elem, cur)
  PROVE  FilledBefore = cur - BlockStart(cur)
<1> DEFINE d == cur - BlockStart(cur)
           S == {k \in 1..PagesNumber : \A j \in 1..k : State(Back(cur, j)) = "VALID"}
<1>1. /\ d \in Nat /\ d + 1 <= Half /\ cur \in Nat /\ cur < 2 * Half
      /\ BlockStart(cur) \in {0, Half} /\ cur >= BlockStart(cur)
      /\ (BlockStart(cur) = 0 => cur < Half)
  BY Ring, Size, SMT
<1>2. \A j \in 1..PagesNumber :
        Back(cur, j) = IF j <= cur THEN cur - j ELSE cur - j + 2 * Half
  BY BackFrom, Size, SMT
<1>3. \A j \in 1..d : State(Back(cur, j)) = "VALID"
  <2> SUFFICES ASSUME NEW j \in 1..d PROVE State(Back(cur, j)) = "VALID"
    OBVIOUS
  <2>1. Back(cur, j) \in Before(cur)
    BY <1>1, <1>2, Size, SMT DEF Before
  <2> QED
    BY <2>1 DEF Receiving, Moving, Front, State
<1>4. State(Back(cur, d + 1)) # "VALID"
  <2>1. Back(cur, d + 1) \in Other(cur)
    BY <1>1, <1>2, Size, SMT DEF Other, OtherStart, LastOther
  <2> QED
    BY <2>1 DEF Receiving, AllErasing, State
<1> HIDE DEF d
<1>5. S = 1..d
  <2>1. \A k \in 1..d : k \in S
    BY <1>1, <1>3, Size, SMT
  <2>2. \A k \in S : k \in 1..d
    BY <1>1, <1>4, Size, SMT
  <2> QED
    BY <2>1, <2>2
<1>6. Cardinality(1..d) = d
  BY <1>1, FS_Interval
<1> QED
  BY <1>5, <1>6 DEF FilledBefore, d


-----------------------------------------------------------------------------
(* The inductive invariant                                                 *)

\* A transfer that EE_Init resumes has no variable to write, a write's has one.
Role == (recover /\ arg = NoData) \/ (~recover /\ arg # NoData)

\* What is written, outside of a transfer and in one.
Plain == why \in {"write", "dummy"} /\ (arg = NoData <=> why = "dummy") /\ ~Full
Moves ==
  /\ Role
  /\ \/ why = "new" /\ (~recover => nb = 0)
     \/ /\ why = "copy" /\ (~recover => nb <= idx)
        /\ idx <= NbOfVariables /\ Holds(elem, cur, idx)

\* Pages that EE_Init has erased when its loop is at page p.
Reached(c, p) ==
  {q \in Behind(c) : p \in Behind(c) => q < p}
  \cup {q \in Other(c) : p \notin Behind(c) /\ (p \in Other(c) => q < p)}

Here(n) == Counted(elem, cur, next, n)

AtFormat   == Blank(hdr) /\ \A p \in Pages : p < page => elem[p] = BlankPage
AtTransfer ==
  \E c \in Pages : \/ Settled(hdr, elem, c) \/ Moving(hdr, elem, c)
                  \/ (Gap(hdr, elem, c) /\ Wiped(hdr, elem, Other(c)))
AtActive   ==
  \E c \in Pages : \/ Settled(hdr, elem, c)
                  \/ (Gap(hdr, elem, c) /\ Wiped(hdr, elem, Other(c)))
AtErase    ==
  /\ Settled(hdr, elem, cur) /\ Here(nb)
  /\ page \in Behind(cur) \cup Other(cur) \cup {BlockStart(cur)}
  /\ Wiped(hdr, elem, Reached(cur, page))
AtReady    == Ordered(hdr, elem, cur) /\ Here(nb)
AtReceive  ==
  /\ ~recover /\ arg # NoData /\ next = 1 /\ nb = 0
  /\ Ordered(hdr, elem, Previous(cur)) /\ Wiped(hdr, elem, Other(Previous(cur)))
  /\ cur = OtherStart(Previous(cur)) /\ Previous(cur) = LastOther(cur)
AtMark     ==
  /\ Moving(hdr, elem, cur) /\ Role
  /\ ~recover => cur = BlockStart(cur) /\ next = 1 /\ nb = 0 /\ Filled(elem, cur, 0)
  /\ page # Previous(cur) =>
       /\ cur = BlockStart(cur) /\ page \in Other(cur) \cup {Previous(OtherStart(cur))}
       /\ \A p \in Other(cur) :
            (page \in Other(cur) => p > page) => PageState(hdr[p]) = "ERASING"
AtCopy     == Receiving(hdr, elem, cur) /\ Here(nb) /\ Role /\ (~recover => nb <= idx)
AtPut      ==
  /\ Here(nb)
  /\ \/ Plain /\ Ordered(hdr, elem, cur)
     \/ Moves /\ Receiving(hdr, elem, cur)
AtTurn     ==
  /\ Here(nb) /\ next = PageElements + 1 /\ Gap(hdr, elem, cur)
  /\ \/ Plain /\ 2 \in hdr[cur]
     \/ Moves /\ 2 \notin hdr[cur] /\ AllErasing(hdr, cur)

Places ==
  /\ pc \in {"off", "nmi", "failed", "find"} => Known(hdr, elem)
  /\ pc \in {"off", "nmi", "failed", "find", "format", "open", "transfer", "active",
            "count", "erase", "ready", "spin"} => arg = NoData
  /\ pc = "format"   => AtFormat
  /\ pc = "open"     => Wiped(hdr, elem, Pages)
  /\ pc = "transfer" => AtTransfer
  /\ pc = "active"   => AtActive
  /\ pc = "count"    => Settled(hdr, elem, cur)
  /\ pc = "erase"    => AtErase
  /\ pc \in {"ready", "spin"} => AtReady
  /\ pc = "receive"  => AtReceive
  /\ pc = "mark"     => AtMark
  /\ pc \in {"copy", "close"} => AtCopy
  /\ pc = "put"      => AtPut
  /\ pc = "turn"     => AtTurn

IInv == TypeOK /\ Places

LEMMA Typing ==
  ASSUME TypeOK
  PROVE  /\ hdr \in Headers /\ elem \in Contained
         /\ cur \in Pages /\ page \in Pages /\ next \in 1..(PageElements + 1)
         /\ nb \in 0..MaxWritten /\ idx \in Nat /\ idx >= 1
         /\ arg \in Variables \cup {NoData}
BY Room, SizeAssumption DEF TypeOK, Headers, Contained

\* Resetting the local variables leaves them typed.
LEMMA ResetTyped ==
  ASSUME ResetLocals
  PROVE  /\ why' \in {"write", "new", "copy", "dummy"} /\ page' \in Pages
         /\ idx' \in 1..(MaxWritten + NbOfVariables) /\ recover' \in BOOLEAN
         /\ arg' \in Variables \cup {NoData}
<1>1. 0 \in Pages /\ 1 \in 1..(MaxWritten + NbOfVariables)
  BY Size, Room, SizeAssumption, SMT DEF Pages
<1> QED
  BY <1>1 DEF ResetLocals

\* What a power loss finds, whatever the program was doing.
LEMMA AlwaysKnown ==
  ASSUME IInv
  PROVE  Known(hdr, elem)
<1>1. pc \in {"off", "nmi", "failed", "find", "format", "open", "transfer", "active", "count",
             "erase", "ready", "spin", "receive", "mark", "copy", "close", "put", "turn"}
  BY DEF IInv, TypeOK
<1>2. cur \in Pages /\ Previous(cur) \in Pages
  BY Typing, Ring DEF IInv
<1>3. CASE pc \in {"off", "nmi", "failed", "find"}
  BY <1>3 DEF IInv, Places
<1>4. CASE pc = "format"
  BY <1>4 DEF IInv, Places, AtFormat, Known
<1>5. CASE pc = "open"
  BY <1>5 DEF IInv, Places, Wiped, Known, Blank
<1>6. CASE pc \in {"transfer", "active"}
  BY <1>6 DEF IInv, Places, AtTransfer, AtActive, Known
<1>7. CASE pc \in {"count", "erase"}
  BY <1>2, <1>7 DEF IInv, Places, AtErase, Known
<1>8. CASE pc \in {"ready", "spin"}
  BY <1>2, <1>8 DEF IInv, Places, AtReady, Ordered, Known
<1>9. CASE pc = "receive"
  BY <1>2, <1>9 DEF IInv, Places, AtReceive, Ordered, Known
<1>10. CASE pc \in {"mark", "copy", "close"}
  BY <1>2, <1>10 DEF IInv, Places, AtMark, AtCopy, Receiving, Known
<1>11. CASE pc = "put"
  BY <1>2, <1>11 DEF IInv, Places, AtPut, Ordered, Receiving, Known
<1>12. CASE pc = "turn"
  BY <1>2, <1>12 DEF IInv, Places, AtTurn, Known
<1> QED
  BY <1>1, <1>3, <1>4, <1>5, <1>6, <1>7, <1>8, <1>9, <1>10, <1>11, <1>12

\* Outside of a write nothing is being written.
LEMMA PowerOnStep ==
  ASSUME IInv, PowerOn
  PROVE  IInv'
<1>1. TypeOK'
  BY DEF IInv, TypeOK, PowerOn, Goto, flash, globals, locals, env, history
<1>2. Known(hdr', elem')
  BY DEF IInv, Places, PowerOn, flash
<1>3. pc' \in {"nmi", "find"} /\ arg' = NoData
  BY DEF IInv, Places, PowerOn, Goto, locals
<1> QED
  BY <1>1, <1>2, <1>3 DEF IInv, Places

LEMMA FindReceiveStep ==
  ASSUME IInv, FindReceive
  PROVE  IInv'
<1>1. /\ hdr \in Headers /\ elem \in Contained /\ Known(hdr, elem) /\ arg = NoData
      /\ pc = "find" /\ pc' = "transfer" /\ UNCHANGED <<globals, locals, env, history>>
      /\ InState("ACTIVE") \cup InState("RECEIVE") \cup InState("VALID") # {} /\ Perform
  BY Typing DEF IInv, Places, FindReceive, Goto
<1>2. ~Blank(hdr)
  <2> SUFFICES ASSUME Blank(hdr) PROVE FALSE
    OBVIOUS
  <2>1. \A p \in Pages : State(p) = "ERASED"
    BY <1>1, StateAt DEF Blank, State
  <2> QED
    BY <1>1, <2>1 DEF InState
<1>3. hdr' \in Headers /\ elem' = elem /\ ecc' = ecc /\ AtTransfer'
  <2>1. PICK c \in Pages : Settled(hdr, elem, c) \/ Moving(hdr, elem, c) \/ Gap(hdr, elem, c)
    BY <1>1, <1>2 DEF Known
  <2>2. CASE Settled(hdr, elem, c) \/ Moving(hdr, elem, c)
    <3>1. State(c) \in {"ACTIVE", "RECEIVE"}
      BY <1>1, <2>2, StateAt DEF Settled, Moving, State
    <3>2. ~Resumes
      BY <3>1 DEF Resumes, InState
    <3>3. UNCHANGED flash
      BY <1>1, <3>2, PendingIs, PerformsNothing
    <3> QED
      BY <1>1, <2>2, <3>3 DEF AtTransfer, flash
  <2>3. CASE Gap(hdr, elem, c) /\ Wiped(hdr, elem, Other(c))
    <3>1. State(LastOther(c)) = "ERASED"
      BY <1>1, <2>3, Halves, StateAt DEF Wiped, State
    <3>2. Previous(Min(InState("VALID"))) = LastOther(c)
      <4>1. Min(InState("VALID")) = BlockStart(c) /\ BlockStart(c) \in Pages
        BY <1>1, <2>3, GapValid, Halves
      <4> QED
        BY <4>1, Ring, Size, SMT DEF LastOther, OtherStart
    <3>3. UNCHANGED flash
      BY <1>1, <3>1, <3>2, PendingIs, PerformsNothing DEF Resumes
    <3> QED
      BY <1>1, <2>3, <3>3 DEF AtTransfer, flash
  <2>4. CASE Gap(hdr, elem, c) /\ AllErasing(hdr, c)
    <3>1. State(LastOther(c)) = "ERASING"
      BY <2>4, Halves DEF AllErasing, State
    <3>2. Previous(Min(InState("VALID"))) = LastOther(c)
      <4>1. Min(InState("VALID")) = BlockStart(c) /\ BlockStart(c) \in Pages
        BY <1>1, <2>4, GapValid, Halves
      <4> QED
        BY <4>1, Ring, Size, SMT DEF LastOther, OtherStart
    <3>3. Resumes
      BY <1>1, <2>4, <3>1, <3>2, GapValid DEF Resumes
    <3>4. c + 1 \in Pages /\ Pending = Line(c + 1, 1)
      BY <1>1, <2>4, <3>3, PendingIs, GapValid, Halves
    <3>5. /\ hdr' \in Headers /\ hdr'[c + 1] = hdr[c + 1] \cup {1}
          /\ Elsewhere(hdr, hdr', c + 1) /\ elem' = elem /\ ecc' = ecc
      BY <1>1, <3>4, PerformsLine, SMT
    <3>6. Receiving(hdr', elem, c + 1)
      BY <1>1, <2>4, <3>5, GapReceives
    <3> QED
      BY <3>4, <3>5, <3>6 DEF AtTransfer, Receiving
  <2> QED
    BY <2>1, <2>2, <2>3, <2>4 DEF Gap
<1>4. TypeOK'
  BY <1>1, <1>3 DEF IInv, TypeOK, Headers, globals, locals, env, history
<1> QED
  BY <1>1, <1>3, <1>4 DEF IInv, Places, locals

LEMMA FindNothingStep ==
  ASSUME IInv, FindNothing
  PROVE  IInv'
<1>1. /\ hdr \in Headers /\ Known(hdr, elem) /\ arg = NoData /\ arg' = arg
      /\ pc' = "format" /\ page' = 0 /\ hdr' = hdr /\ elem' = elem
      /\ InState("ACTIVE") \cup InState("RECEIVE") \cup InState("VALID") = {}
  BY Typing DEF IInv, Places, FindNothing, Goto, flash
<1>2. TypeOK'
  <2>1. page' \in Pages
    BY <1>1, Size, SMT DEF Pages
  <2> QED
    BY <1>1, <2>1 DEF IInv, TypeOK, FindNothing, Goto, flash, globals, env, history
<1>3. Blank(hdr)
  <2> SUFFICES ASSUME NEW c \in Pages,
                      Settled(hdr, elem, c) \/ Moving(hdr, elem, c) \/ Gap(hdr, elem, c)
               PROVE  FALSE
    BY <1>1 DEF Known
  <2>1. State(c) \in {"ACTIVE", "RECEIVE", "VALID"}
    BY <1>1, StateAt DEF Settled, Moving, Gap, State
  <2> QED
    BY <1>1, <2>1 DEF InState
<1>4. AtFormat'
  <2>1. \A p \in Pages : ~(p < 0)
    BY Size, SMT DEF Pages
  <2> QED
    BY <1>1, <1>3, <2>1 DEF AtFormat
<1> QED
  BY <1>1, <1>2, <1>4 DEF IInv, Places

LEMMA FormatStep ==
  ASSUME IInv, Format
  PROVE  IInv'
<1>1. /\ hdr \in Headers /\ elem \in Contained /\ page \in Pages /\ AtFormat /\ arg' = NoData
      /\ hdr' = [hdr EXCEPT ![page] = {}] /\ elem' = [elem EXCEPT ![page] = BlankPage]
      /\ ecc' = ecc /\ page' = Following(page)
      /\ pc' = IF page' = 0 THEN "open" ELSE "format"
  BY Typing, PendingIs, PerformsErase DEF IInv, Places, Format, Goto
<1>2. BlankPage \in [Slots -> Elements]
  BY DEF BlankPage, Elements
<1>3. hdr' \in Headers /\ elem' \in Contained /\ page' \in Pages
  BY <1>1, <1>2, Ring DEF Headers, Contained
<1>4. TypeOK'
  BY <1>1, <1>3 DEF IInv, TypeOK, Headers, Contained, Format, globals, env, history
<1>5. Blank(hdr') /\ elem'[page] = BlankPage /\ Elsewhere(elem, elem', page)
  BY <1>1 DEF Blank, AtFormat, Headers, Contained, Elsewhere
<1>6. page \in Nat /\ page' = (IF page = 2 * Half - 1 THEN 0 ELSE page + 1)
      /\ \A p \in Pages : p \in Nat /\ p < 2 * Half
  BY <1>1, Ring
<1>7. \A p \in Pages : p <= page => elem'[p] = BlankPage
  <2> SUFFICES ASSUME NEW p \in Pages, p <= page PROVE elem'[p] = BlankPage
    OBVIOUS
  <2>1. CASE p = page
    BY <1>5, <2>1
  <2>2. CASE p # page
    <3>1. elem[p] = BlankPage
      BY <1>1, <1>6, <2>2, SMT DEF AtFormat
    <3> QED
      BY <1>5, <2>2, <3>1 DEF Elsewhere
  <2> QED
    BY <2>1, <2>2
<1>8. CASE page = 2 * Half - 1
  <2>1. \A p \in Pages : p <= page
    BY <1>6, <1>8, Size, SMT
  <2>2. Wiped(hdr', elem', Pages)
    BY <1>5, <1>7, <2>1 DEF Wiped, Blank
  <2>3. pc' = "open"
    BY <1>1, <1>6, <1>8
  <2> QED
    BY <1>1, <1>4, <2>2, <2>3 DEF IInv, Places
<1>9. CASE page # 2 * Half - 1
  <2>1. pc' = "format" /\ page' = page + 1
    BY <1>1, <1>6, <1>9, SMT
  <2>2. \A p \in Pages : p < page' => p <= page
    BY <1>6, <2>1, SMT
  <2>3. AtFormat'
    BY <1>5, <1>7, <2>2 DEF AtFormat
  <2> QED
    BY <1>1, <1>4, <2>1, <2>3 DEF IInv, Places
<1> QED
  BY <1>8, <1>9


\* The end of EE_Init and of a write, and a failure of EE_Init.
LEMMA BecomesReady ==
  ASSUME TypeOK, hdr' \in Headers, elem' \in Contained, ecc' \in BOOLEAN,
         cur' \in Pages, next' \in 1..(PageElements + 1), nb' \in 0..MaxWritten,
         UNCHANGED env, answer' \in BOOLEAN, Ready,
         Ordered(hdr', elem', cur'), Counted(elem', cur', next', nb')
  PROVE  IInv'
<1>1. ResetLocals /\ pc' = "ready" /\ asked' = NoData /\ last' = Contents(hdr', elem', cur')
  BY DEF Ready, Goto
<1>2. last' \in [Addresses -> Values \cup {NoData}]
  BY <1>1, ContentsTyped
<1>3. TypeOK'
  BY <1>1, <1>2, ResetTyped DEF TypeOK, Headers, Contained, env
<1>4. arg' = NoData /\ AtReady'
  BY <1>1 DEF ResetLocals, AtReady, Here
<1> QED
  BY <1>1, <1>3, <1>4 DEF IInv, Places

LEMMA BecomesFailed ==
  ASSUME TypeOK, hdr' \in Headers, elem' \in Contained, ecc' \in BOOLEAN,
         cur' \in Pages, next' \in 1..(PageElements + 1), nb' \in 0..MaxWritten,
         UNCHANGED env, UNCHANGED history, ResetLocals, pc' = "failed", Known(hdr', elem')
  PROVE  IInv'
<1>1. TypeOK'
  BY ResetTyped DEF TypeOK, Headers, Contained, env, history
<1>2. arg' = NoData
  BY DEF ResetLocals
<1> QED
  BY <1>1, <1>2 DEF IInv, Places

LEMMA OpenFirstPageStep ==
  ASSUME IInv, OpenFirstPage
  PROVE  IInv'
<1>1. /\ TypeOK /\ hdr \in Headers /\ elem \in Contained /\ Wiped(hdr, elem, Pages)
      /\ pc = "open" /\ Perform /\ cur' = 0 /\ next' = 1 /\ nb' = 0 /\ Ready
      /\ UNCHANGED env /\ answer' = answer /\ answer \in BOOLEAN /\ ecc \in BOOLEAN
  BY Typing DEF IInv, Places, OpenFirstPage, TypeOK
<1>2. 0 \in Pages
  BY Size, SMT DEF Pages
<1>3. /\ hdr' \in Headers /\ hdr'[0] = hdr[0] \cup {2} /\ Elsewhere(hdr, hdr', 0)
      /\ elem' = elem /\ ecc' = ecc
  <2>1. Pending = Line(0, 2) /\ 2 \in 1..4
    BY <1>1, PendingIs
  <2> QED
    BY <1>1, <1>2, <2>1, PerformsLine
<1>4. BlockStart(0) = 0 /\ Ordered(hdr', elem, 0) /\ Filled(elem, 0, 0)
  BY <1>1, <1>3, BlankActivates
<1>5. Ordered(hdr', elem', cur')
  BY <1>1, <1>3, <1>4
<1>6. Counted(elem', cur', next', nb')
  <2>1. PageElements * (0 - 0) = 0
    BY SizeAssumption, SMT
  <2>2. Counted(elem, 0, 1, 0)
    BY <1>4, <2>1 DEF Counted
  <2> QED
    BY <1>1, <1>3, <2>2
<1>7. 1 \in 1..(PageElements + 1) /\ 0 \in 0..MaxWritten
  BY SizeAssumption, Room, SMT
<1>8. next' \in 1..(PageElements + 1) /\ nb' \in 0..MaxWritten /\ cur' \in Pages
      /\ elem' \in Contained /\ ecc' \in BOOLEAN /\ answer' \in BOOLEAN
  BY <1>1, <1>2, <1>3, <1>7
<1> QED
  BY <1>1, <1>3, <1>5, <1>6, <1>8, BecomesReady

LEMMA NoTransferStep ==
  ASSUME IInv, NoTransfer
  PROVE  IInv'
<1>1. /\ hdr \in Headers /\ AtTransfer /\ arg' = NoData /\ pc' = "active"
      /\ UNCHANGED <<flash, globals, locals, env, history>> /\ Reliable("RECEIVE") = {}
  BY Typing DEF IInv, Places, NoTransfer, Goto, locals
<1>2. AtActive
  BY <1>1, MovingReliable DEF AtTransfer, AtActive
<1>3. AtActive'
  BY <1>1, <1>2 DEF AtActive, flash
<1>4. TypeOK'
  BY <1>1 DEF IInv, TypeOK, flash, globals, locals, env, history
<1> QED
  BY <1>1, <1>3, <1>4 DEF IInv, Places

LEMMA ResumeTransferStep ==
  ASSUME IInv, ResumeTransfer
  PROVE  IInv'
<1>1. /\ hdr \in Headers /\ AtTransfer /\ arg = NoData /\ arg' = arg /\ pc' = "mark"
      /\ hdr' = hdr /\ elem' = elem /\ Reliable("RECEIVE") # {}
      /\ cur' = Min(Reliable("RECEIVE")) /\ next' = 1 /\ nb' = 0 /\ recover' = TRUE
      /\ page' = Previous(cur')
  BY Typing DEF IInv, Places, ResumeTransfer, Goto, flash
<1>2. PICK c \in Pages : Moving(hdr, elem, c)
  BY <1>1, SettledReliable, GapUnreliable DEF AtTransfer
<1>3. cur' = c
  <2>1. Reliable("RECEIVE") = {c} /\ {c} \subseteq Nat
    BY <1>1, <1>2, MovingReliable, Ring
  <2> QED
    BY <1>1, <2>1, MinOf
<1>4. AtMark'
  BY <1>1, <1>2, <1>3 DEF AtMark, Role
<1>5. TypeOK'
  <2>1. 1 \in 1..(PageElements + 1) /\ 0 \in 0..MaxWritten
    BY SizeAssumption, Room, SMT
  <2>2. cur' \in Pages /\ page' \in Pages
    BY <1>1, <1>3, Ring
  <2> QED
    BY <1>1, <2>1, <2>2 DEF IInv, TypeOK, ResumeTransfer, flash, env, history
<1> QED
  BY <1>1, <1>4, <1>5 DEF IInv, Places

LEMMA FindActiveStep ==
  ASSUME IInv, FindActive
  PROVE  IInv'
<1>1. /\ TypeOK /\ hdr \in Headers /\ elem \in Contained /\ AtActive /\ arg = NoData
      /\ pc = "active" /\ Perform /\ UNCHANGED <<next, nb, env>>
      /\ ecc \in BOOLEAN /\ cur \in Pages /\ next \in 1..(PageElements + 1)
      /\ nb \in 0..MaxWritten /\ Known(hdr, elem)
  BY Typing, AlwaysKnown DEF IInv, Places, FindActive, TypeOK
<1>2. CASE Reliable("ACTIVE") # {}
  <2>1. PICK c \in Pages : Settled(hdr, elem, c)
    BY <1>1, <1>2, GapUnreliable DEF AtActive
  <2>2. Min(Reliable("ACTIVE")) = c
    <3>1. Reliable("ACTIVE") = {c} /\ {c} \subseteq Nat
      BY <1>1, <2>1, SettledReliable, Ring
    <3> QED
      BY <3>1, MinOf
  <2>3. hdr' = hdr /\ elem' = elem /\ ecc' = ecc
    BY <1>1, <1>2, PendingIs, PerformsNothing DEF flash
  <2>4. CASE Cardinality(Reliable("ACTIVE")) > 1
    <3>1. cur' = cur /\ pc' = "failed" /\ ResetLocals /\ UNCHANGED history
      BY <1>1, <2>4 DEF FindActive, Fails, Goto
    <3> QED
      BY <1>1, <2>3, <3>1, BecomesFailed
  <2>5. CASE ~(Cardinality(Reliable("ACTIVE")) > 1)
    <3>1. cur' = c /\ pc' = "count" /\ UNCHANGED <<locals, history>>
      BY <1>2, <2>2, <2>5 DEF FindActive, Goto
    <3>2. TypeOK'
      BY <1>1, <2>3, <3>1 DEF TypeOK, locals, env, history
    <3>3. Settled(hdr', elem', cur')
      BY <2>1, <2>3, <3>1
    <3> QED
      BY <1>1, <3>1, <3>2, <3>3 DEF IInv, Places, locals
  <2> QED
    BY <2>4, <2>5
<1>3. CASE Reliable("ACTIVE") = {}
  <2>1. PICK c \in Pages : Gap(hdr, elem, c)
    BY <1>1, <1>3, SettledReliable DEF AtActive
  <2>2. Following(LastValid) = c + 1 /\ c + 1 \in Pages
    BY <1>1, <2>1, GapValid, Halves
  <2>3. Pending = Line(c + 1, 2) /\ 2 \in 1..4
    BY <1>1, <1>3, <2>2, PendingIs
  <2>4. /\ hdr' \in Headers /\ hdr'[c + 1] = hdr[c + 1] \cup {2}
        /\ Elsewhere(hdr, hdr', c + 1) /\ elem' = elem /\ ecc' = ecc
    BY <1>1, <2>2, <2>3, PerformsLine
  <2>5. Settled(hdr', elem, c + 1)
    BY <1>1, <2>1, <2>4, GapActivates DEF Ordered
  <2>6. cur' = c + 1 /\ pc' = "count" /\ UNCHANGED <<locals, history>>
    <3>1. ~(Cardinality({}) > 1)
      BY FS_EmptySet, SMT
    <3> QED
      BY <1>3, <2>2, <3>1 DEF FindActive, Goto
  <2>7. TypeOK'
    BY <1>1, <2>2, <2>4, <2>6 DEF TypeOK, locals, env, history, Headers
  <2>8. Settled(hdr', elem', cur')
    BY <2>4, <2>5, <2>6
  <2> QED
    BY <1>1, <2>6, <2>7, <2>8 DEF IInv, Places, locals
<1> QED
  BY <1>2, <1>3

LEMMA CountElementsStep ==
  ASSUME IInv, CountElements
  PROVE  IInv'
<1> DEFINE n == Leading(elem, cur)
<1>1. /\ TypeOK /\ hdr \in Headers /\ elem \in Contained /\ Settled(hdr, elem, cur)
      /\ arg = NoData /\ ecc \in BOOLEAN /\ cur \in Pages
      /\ hdr' = hdr /\ elem' = elem /\ ecc' = ecc /\ cur' = cur /\ UNCHANGED env
      /\ next' = n + 1 /\ nb' = n + PageElements * Cardinality(Before(cur))
      /\ Known(hdr, elem)
  BY Typing, AlwaysKnown DEF IInv, Places, CountElements, TypeOK, flash, Before
<1>2. n \in 0..PageElements /\ Filled(elem, cur, n)
  BY <1>1, LeadingFilled DEF Settled, Front
<1>3. Cardinality(Before(cur)) = cur - BlockStart(cur)
  <2>1. /\ cur \in Int /\ cur - 1 \in Int /\ BlockStart(cur) \in Int
        /\ BlockStart(cur) <= cur
    BY <1>1, Ring, Size, SMT
  <2>2. Cardinality(Before(cur)) = IF BlockStart(cur) > cur - 1 THEN 0 ELSE cur - 1 - BlockStart(cur) + 1
    BY <2>1, FS_Interval DEF Before
  <2> QED
    BY <2>1, <2>2, SMT
<1> DEFINE m == PageElements * (cur - BlockStart(cur))
<1>4. m \in Nat
  <2>1. cur - BlockStart(cur) \in Nat
    BY <1>1, Ring, Size, SMT
  <2> QED
    BY <2>1, SizeAssumption, Monotone
<1>5. nb' = n + m
  BY <1>1, <1>3
<1> HIDE DEF n, m
<1>6. next' \in 1..(PageElements + 1) /\ nb' = m + next' - 1 /\ next' - 1 = n
  BY <1>1, <1>2, <1>4, <1>5, SizeAssumption, SMT
<1>7. nb' \in 0..MaxWritten
  BY <1>1, <1>6, Counts DEF m
<1>8. Counted(elem, cur, next', nb')
  BY <1>2, <1>6 DEF Counted, m
<1>9. CASE \A p \in Before(cur) : State(p) = "VALID"
  <2>1. pc' = "erase" /\ page' = Following(cur) /\ UNCHANGED <<why, idx, recover, arg, history>>
    BY <1>9 DEF CountElements, Before, Goto
  <2>2. page' \in Pages
    BY <1>1, <2>1, Ring
  <2>3. TypeOK'
    BY <1>1, <1>6, <1>7, <2>1, <2>2 DEF TypeOK, env, history
  <2>4. /\ page' \in Behind(cur) \cup Other(cur) \cup {BlockStart(cur)}
        /\ Reached(cur, page') = {}
    <3>1. CASE Behind(cur) # {}
      <4>1. page' = cur + 1 /\ cur + 1 \in Behind(cur)
        BY <1>1, <2>1, <3>1, NextInHalf
      <4>2. \A q \in Behind(cur) : ~(q < cur + 1)
        BY <1>1, Ring, Size, SMT DEF Behind
      <4> QED
        BY <4>1, <4>2 DEF Reached
    <3>2. CASE Behind(cur) = {}
      <4>1. cur = BlockStart(cur) + Half - 1
        <5>1. cur + 1 \notin Behind(cur)
          BY <3>2
        <5> QED
          BY <1>1, <5>1, Ring, Size, SMT DEF Behind
      <4>2. page' = OtherStart(cur)
        BY <1>1, <2>1, <4>1, Ring, Size, SMT DEF OtherStart
      <4>3. \A q \in Other(cur) : ~(q < OtherStart(cur))
        BY <1>1, Ring, Size, SMT DEF Other, OtherStart, LastOther
      <4> QED
        BY <1>1, <3>2, <4>2, <4>3, Halves DEF Reached
    <3> QED
      BY <3>1, <3>2
  <2>5. AtErase'
    <3>1. Wiped(hdr, elem, {})
      BY DEF Wiped
    <3> QED
      BY <1>1, <1>8, <2>4, <3>1 DEF AtErase, Here
  <2> QED
    BY <1>1, <2>1, <2>3, <2>5 DEF IInv, Places
<1>10. CASE ~(\A p \in Before(cur) : State(p) = "VALID")
  <2>1. pc' = "failed" /\ ResetLocals /\ UNCHANGED history
    BY <1>1, <1>10 DEF CountElements, Fails, Before, Goto
  <2> QED
    BY <1>1, <1>6, <1>7, <2>1, BecomesFailed
<1> QED
  BY <1>9, <1>10


\* The page that EE_Init's loop goes to.
LEMMA ReachesOn ==
  ASSUME NEW c \in Pages, NEW p \in Behind(c) \cup Other(c)
  PROVE  /\ Following(p) \in Behind(c) \cup Other(c) \cup {BlockStart(c)}
         /\ Reached(c, Following(p)) \subseteq Reached(c, p) \cup {p}
         /\ p \in Other(c) => \A q \in Other(c) : q < p => q \in Reached(c, p)
<1>1. /\ c \in Nat /\ c < 2 * Half /\ BlockStart(c) = (IF c < Half THEN 0 ELSE Half)
      /\ p \in Pages
  BY Ring, Halves
<1>2. p \in Nat /\ p < 2 * Half /\ Following(p) = IF p = 2 * Half - 1 THEN 0 ELSE p + 1
  BY <1>1, Ring
<1>3. /\ Behind(c) = (c + 1)..(BlockStart(c) + Half - 1)
      /\ Other(c) = (Half - BlockStart(c))..(2 * Half - BlockStart(c) - 1)
  BY <1>1, Size, SMT DEF Behind, Other, OtherStart, LastOther
<1>4. Following(p) \in Behind(c) \cup Other(c) \cup {BlockStart(c)}
  BY <1>1, <1>2, <1>3, Size, SMT
<1>5. ASSUME NEW q \in Reached(c, Following(p))
      PROVE  q \in Reached(c, p) \cup {p}
  <2>1. q \in Behind(c) \/ q \in Other(c)
    BY DEF Reached
  <2>2. CASE q \in Behind(c)
    <3>1. Following(p) \in Behind(c) => q < Following(p)
      BY <2>2, Halves DEF Reached
    <3>2. q = p \/ (p \in Behind(c) => q < p)
      BY <1>1, <1>2, <1>3, <2>2, <3>1, Size, SMT
    <3> QED
      BY <2>2, <3>2 DEF Reached
  <2>3. CASE q \in Other(c)
    <3>1. Following(p) \notin Behind(c) /\ (Following(p) \in Other(c) => q < Following(p))
      BY <2>3, Halves DEF Reached
    <3>2. q = p \/ (p \notin Behind(c) /\ (p \in Other(c) => q < p))
      BY <1>1, <1>2, <1>3, <2>3, <3>1, Size, SMT
    <3> QED
      BY <2>3, <3>2 DEF Reached
  <2> QED
    BY <2>1, <2>2, <2>3
<1>6. p \in Other(c) => \A q \in Other(c) : q < p => q \in Reached(c, p)
  BY Halves DEF Reached
<1> QED
  BY <1>4, <1>5, <1>6

\* Pages erased stay erased when another one is erased or half erased.
LEMMA WipesOn ==
  ASSUME NEW h \in Headers, NEW e \in Contained, NEW p \in Pages, NEW S, S \subseteq Pages,
         Wiped(h, e, S)
  PROVE  Wiped([h EXCEPT ![p] = {}], [e EXCEPT ![p] = BlankPage], S \cup {p})
BY DEF Wiped, Headers, Contained

LEMMA ErasePageStep ==
  ASSUME IInv, ErasePage
  PROVE  IInv'
<1>1. /\ TypeOK /\ hdr \in Headers /\ elem \in Contained /\ AtErase /\ cur \in Pages
      /\ page \in Pages /\ page # BlockStart(cur) /\ arg = NoData /\ arg' = arg
      /\ pc = "erase" /\ pc' = pc /\ page' = Following(page)
      /\ UNCHANGED <<globals, why, idx, recover, env, history>>
      /\ hdr' = [hdr EXCEPT ![page] = {}] /\ elem' = [elem EXCEPT ![page] = BlankPage]
      /\ ecc' = ecc
  BY Typing, PendingIs, PerformsErase DEF IInv, Places, ErasePage
<1>2. BlankPage \in [Slots -> Elements]
  BY DEF BlankPage, Elements
<1>3. hdr' \in Headers /\ elem' \in Contained /\ page' \in Pages
  BY <1>1, <1>2, Ring DEF Headers, Contained
<1>4. TypeOK'
  BY <1>1, <1>3 DEF TypeOK, Headers, Contained, globals, env, history
<1>5. page \in Behind(cur) \cup Other(cur)
  BY <1>1 DEF AtErase
<1>6. hdr'[page] \subseteq hdr[page] /\ Elsewhere(hdr, hdr', page) /\ Elsewhere(elem, elem', page)
  BY <1>1 DEF Headers, Contained, Elsewhere
<1>7. page \in Other(cur) => \A q \in Other(cur) : q < page => hdr[q] = {}
  BY <1>1, <1>5, ReachesOn DEF AtErase, Wiped
<1>8. Settled(hdr', elem', cur) /\ \A n : Filled(elem, cur, n) => Filled(elem', cur, n)
  BY <1>1, <1>3, <1>5, <1>6, <1>7, ErasesOn DEF AtErase
<1>9. Wiped(hdr', elem', Reached(cur, page) \cup {page})
  <2>1. Reached(cur, page) \subseteq Pages
    BY <1>1, Halves DEF Reached
  <2> QED
    BY <1>1, <2>1, WipesOn DEF AtErase
<1>10. AtErase'
  <2>1. Wiped(hdr', elem', Reached(cur, page'))
    BY <1>1, <1>5, <1>9, ReachesOn DEF Wiped
  <2>2. Counted(elem', cur, next, nb)
    BY <1>1, <1>8 DEF AtErase, Here, Counted
  <2> QED
    BY <1>1, <1>5, <1>8, <2>1, <2>2, ReachesOn DEF AtErase, Here, globals
<1> QED
  BY <1>1, <1>4, <1>10 DEF IInv, Places

LEMMA EraseDoneStep ==
  ASSUME IInv, EraseDone
  PROVE  IInv'
<1>1. /\ TypeOK /\ hdr \in Headers /\ elem \in Contained /\ AtErase /\ cur \in Pages
      /\ page = BlockStart(cur) /\ arg = NoData /\ UNCHANGED <<flash, globals, env>>
      /\ next \in 1..(PageElements + 1) /\ nb \in 0..MaxWritten
      /\ ecc \in BOOLEAN /\ answer \in BOOLEAN
  BY Typing DEF IInv, Places, EraseDone, TypeOK
<1>2. Ordered(hdr, elem, cur)
  <2>1. page \notin Behind(cur) /\ page \notin Other(cur)
    BY <1>1, Ring, Size, SMT DEF Behind, Other, OtherStart, LastOther
  <2>2. Wiped(hdr, elem, Behind(cur)) /\ Wiped(hdr, elem, Other(cur))
    BY <1>1, <2>1 DEF AtErase, Reached, Wiped
  <2> QED
    BY <1>1, <2>2 DEF AtErase, Ordered
<1>3. Ordered(hdr', elem', cur') /\ Counted(elem', cur', next', nb')
  BY <1>1, <1>2 DEF AtErase, Here, flash, globals
<1>4. CASE Ready /\ answer' = answer
  BY <1>1, <1>3, <1>4, BecomesReady DEF flash, globals
<1>5. CASE ~Full /\ pc' = "put" /\ why' = "dummy" /\ UNCHANGED <<page, idx, recover, arg, history>>
  <2>1. TypeOK'
    BY <1>1, <1>5 DEF TypeOK, flash, globals, env, history
  <2>2. AtPut'
    BY <1>1, <1>3, <1>5 DEF AtPut, Here, Plain, Full, globals
  <2> QED
    BY <1>5, <2>1, <2>2 DEF IInv, Places
<1> QED
  BY <1>4, <1>5 DEF EraseDone, Goto

-----------------------------------------------------------------------------
(* The steps of a write                                                    *)

LEMMA WriteStep ==
  ASSUME IInv, NEW a \in Addresses, NEW d \in Values, Write(a, d)
  PROVE  IInv'
<1>1. /\ TypeOK /\ hdr \in Headers /\ elem \in Contained /\ AtReady /\ cur \in Pages
      /\ arg = NoData /\ pc = "ready" /\ UNCHANGED <<flash, env>>
      /\ next \in 1..(PageElements + 1) /\ nb \in 0..MaxWritten
  BY Typing DEF IInv, Places, Write, TypeOK
<1> DEFINE x == [a |-> a, d |-> d]
<1>2. x \in Variables /\ x # NoData
  <2>1. x \in Variables
    BY DEF Variables
  <2> QED
    BY <2>1, LineAssumption
<1> HIDE DEF x
<1>3. CASE ~ReadEnds(a)
  <2>1. pc' = "spin" /\ asked' = x /\ UNCHANGED <<globals, locals, last, answer>>
    BY <1>3 DEF Write, Goto, x
  <2>2. TypeOK'
    BY <1>1, <1>2, <2>1 DEF TypeOK, flash, globals, locals, env
  <2>3. AtReady'
    BY <1>1, <2>1 DEF AtReady, Here, flash, globals
  <2> QED
    BY <1>1, <2>1, <2>2, <2>3 DEF IInv, Places, locals
<1>4. CASE ReadEnds(a) /\ (ReadStart(hdr, cur) = -1 \/ (Full /\ State(Following(cur)) # "ERASED"))
  <2>1. answer' = FALSE /\ UNCHANGED <<pc, globals, locals, last, asked>>
    BY <1>4 DEF Write
  <2>2. TypeOK'
    BY <1>1, <2>1 DEF TypeOK, flash, globals, locals, env
  <2>3. AtReady'
    BY <1>1, <2>1 DEF AtReady, Here, flash, globals
  <2> QED
    BY <1>1, <2>1, <2>2, <2>3 DEF IInv, Places, locals
<1>5. CASE ReadEnds(a) /\ ~(ReadStart(hdr, cur) = -1 \/ (Full /\ State(Following(cur)) # "ERASED"))
  <2>1. arg' = x /\ asked' = arg' /\ UNCHANGED <<page, idx, last, answer>> /\ recover' = FALSE
    BY <1>5 DEF Write, x
  <2>2. CASE ~Full
    <3>1. pc' = "put" /\ why' = "write" /\ UNCHANGED globals
      BY <1>5, <2>2 DEF Write, Goto
    <3>2. TypeOK'
      BY <1>1, <1>2, <2>1, <3>1 DEF TypeOK, flash, globals, env
    <3>3. AtPut'
      BY <1>1, <1>2, <2>1, <2>2, <3>1 DEF AtReady, AtPut, Here, Plain, Full, flash, globals
    <3> QED
      BY <3>1, <3>2, <3>3 DEF IInv, Places
  <2>3. CASE Full
    <3>1. cur' = Following(cur) /\ next' = 1 /\ nb' = 0 /\ pc' = "receive" /\ why' = why
      BY <1>5, <2>3 DEF Write, Goto
    <3>2. State(Following(cur)) = "ERASED"
      BY <1>5, <2>3
    <3>3. Behind(cur) = {}
      BY <1>1, <2>3, Counts DEF AtReady, Here, Counted, Full
    <3>4. /\ Following(cur) = OtherStart(cur) /\ Following(cur) \in Pages
          /\ Previous(Following(cur)) = cur /\ cur = LastOther(Following(cur))
      <4>1. cur = BlockStart(cur) + Half - 1
        <5>1. cur + 1 \notin Behind(cur)
          BY <3>3
        <5> QED
          BY <1>1, <5>1, Ring, Size, SMT DEF Behind
      <4>2. Following(cur) = OtherStart(cur) /\ Following(cur) \in Pages
        BY <1>1, <4>1, Ring, Size, SMT DEF OtherStart
      <4>3. Previous(Following(cur)) = cur
        BY <1>1, <4>1, <4>2, Ring, Size, SMT DEF OtherStart
      <4>4. cur = LastOther(Following(cur))
        BY <1>1, <4>1, <4>2, Ring, Size, SMT DEF OtherStart, LastOther
      <4> QED
        BY <4>2, <4>3, <4>4
    <3>5. Wiped(hdr, elem, Other(cur))
      <4>1. PageState(hdr[OtherStart(cur)]) # "ERASING"
        BY <3>2, <3>4 DEF State
      <4>2. OtherStart(cur) \in Other(cur)
        BY <1>1, Halves
      <4> QED
        BY <1>1, <4>1, <4>2 DEF AtReady, Ordered, AllErasing
    <3>6. AtReceive'
      BY <1>1, <1>2, <2>1, <3>1, <3>4, <3>5 DEF AtReceive, AtReady, flash
    <3>7. TypeOK'
      <4>1. 1 \in 1..(PageElements + 1) /\ 0 \in 0..MaxWritten
        BY SizeAssumption, Room, SMT
      <4> QED
        BY <1>1, <1>2, <2>1, <3>1, <3>4, <4>1 DEF TypeOK, flash, env
    <3> QED
      BY <3>1, <3>6, <3>7 DEF IInv, Places
  <2> QED
    BY <2>2, <2>3
<1> QED
  BY <1>3, <1>4, <1>5

LEMMA SetReceiveStep ==
  ASSUME IInv, SetReceive
  PROVE  IInv'
<1>1. /\ TypeOK /\ hdr \in Headers /\ elem \in Contained /\ AtReceive /\ cur \in Pages
      /\ pc = "receive" /\ Perform /\ page' = Previous(cur) /\ pc' = "mark"
      /\ UNCHANGED <<globals, why, idx, recover, arg, env, history>>
  BY Typing DEF IInv, Places, SetReceive, Goto
<1>2. /\ hdr' \in Headers /\ hdr'[cur] = hdr[cur] \cup {1} /\ Elsewhere(hdr, hdr', cur)
      /\ elem' = elem /\ ecc' = ecc
  <2>1. Pending = Line(cur, 1) /\ 1 \in 1..4
    BY <1>1, PendingIs
  <2> QED
    BY <1>1, <2>1, PerformsLine
<1>3. Previous(cur) \in Pages /\ BlockStart(cur) = cur
  <2>1. Previous(cur) \in Pages
    BY <1>1, Ring
  <2>2. cur \in {0, Half}
    BY <1>1, <2>1, Ring, Size, SMT DEF AtReceive, OtherStart
  <2> QED
    BY <2>1, <2>2, Size, SMT DEF BlockStart
<1>4. Moving(hdr', elem, cur) /\ Filled(elem, cur, 0)
  BY <1>1, <1>2, <1>3, OrderedReceives DEF AtReceive
<1>5. TypeOK'
  BY <1>1, <1>2, <1>3 DEF TypeOK, Headers, globals, env, history
<1>6. AtMark'
  <2>1. Role' /\ page' = Previous(cur')
    BY <1>1 DEF AtReceive, Role, globals
  <2>2. cur' = BlockStart(cur') /\ next' = 1 /\ nb' = 0 /\ Filled(elem', cur', 0)
    BY <1>1, <1>2, <1>3, <1>4 DEF AtReceive, globals
  <2>3. Moving(hdr', elem', cur')
    BY <1>1, <1>2, <1>4 DEF globals
  <2> QED
    BY <2>1, <2>2, <2>3 DEF AtMark
<1> QED
  BY <1>1, <1>5, <1>6 DEF IInv, Places


\* Where marking can be: at the page in front of the receive page, if that is the first of
\* its half at the last page of the other half, and from there on down the other half.
LEMMA MarksAt ==
  ASSUME IInv, pc = "mark", Marks(page) \/ State(page) = "ERASING"
  PROVE  /\ cur = BlockStart(cur) /\ page \in Other(cur)
         /\ \A q \in Other(cur) : q > page => PageState(hdr[q]) = "ERASING"
<1>1. hdr \in Headers /\ AtMark /\ cur \in Pages /\ page \in Pages
  BY Typing DEF IInv, Places
<1>2. CASE page = Previous(cur)
  <2>1. State(page) \in {"ACTIVE", "ERASING"}
    BY <1>2 DEF Marks
  <2>2. cur = BlockStart(cur)
    <3> SUFFICES ASSUME cur # BlockStart(cur) PROVE FALSE
      OBVIOUS
    <3>1. page \in Before(cur)
      BY <1>1, <1>2, Ring, Size, SMT DEF Before
    <3>2. State(page) = "VALID"
      BY <1>1, <3>1 DEF AtMark, Moving, Front, State
    <3> QED
      BY <2>1, <3>2
  <2>3. page = LastOther(cur)
    BY <1>1, <1>2, <2>2, Ring, Size, SMT DEF LastOther, OtherStart
  <2>4. \A q \in Other(cur) : ~(q > page)
    BY <1>1, <2>3, Ring, Size, SMT DEF Other, LastOther, OtherStart
  <2> QED
    BY <1>1, <2>2, <2>3, <2>4, Halves
<1>3. CASE page # Previous(cur)
  <2>1. /\ cur = BlockStart(cur) /\ page \in Other(cur) \cup {Previous(OtherStart(cur))}
        /\ \A p \in Other(cur) :
             (page \in Other(cur) => p > page) => PageState(hdr[p]) = "ERASING"
    BY <1>1, <1>3 DEF AtMark
  <2>2. page \in Other(cur)
    <3> SUFFICES ASSUME page = Previous(OtherStart(cur)) PROVE FALSE
      BY <2>1
    <3>1. OtherStart(cur) \in Pages
      BY <1>1, Halves
    <3>2. page \in Behind(cur)
      BY <1>1, <2>1, <3>1, Ring, Size, SMT DEF Behind, OtherStart
    <3>3. State(page) = "ERASED"
      BY <1>1, <3>2, StateAt DEF AtMark, Moving, Wiped, State
    <3> QED
      BY <1>3, <3>3 DEF Marks
  <2> QED
    BY <2>1, <2>2
<1> QED
  BY <1>2, <1>3

LEMMA MarkErasingStep ==
  ASSUME IInv, MarkErasing
  PROVE  IInv'
<1>1. /\ TypeOK /\ hdr \in Headers /\ elem \in Contained /\ AtMark /\ cur \in Pages
      /\ page \in Pages /\ pc = "mark" /\ Perform /\ page' = Previous(page)
      /\ UNCHANGED <<pc, globals, why, idx, recover, arg, env, history>>
      /\ (Marks(page) \/ State(page) = "ERASING")
  BY Typing DEF IInv, Places, MarkErasing
<1>2. /\ cur = BlockStart(cur) /\ page \in Other(cur)
      /\ \A q \in Other(cur) : q > page => PageState(hdr[q]) = "ERASING"
  BY <1>1, MarksAt
<1>3. /\ hdr' \in Headers /\ elem' = elem /\ ecc' = ecc /\ Moving(hdr', elem, cur)
      /\ \A q \in Other(cur) : q >= page => PageState(hdr'[q]) = "ERASING"
  <2>1. CASE Marks(page)
    <3>1. Pending = Line(page, 4) /\ 4 \in 1..4
      BY <1>1, <2>1, PendingIs
    <3>2. /\ hdr' \in Headers /\ hdr'[page] = hdr[page] \cup {4} /\ Elsewhere(hdr, hdr', page)
          /\ elem' = elem /\ ecc' = ecc
      BY <1>1, <3>1, PerformsLine
    <3> QED
      BY <1>1, <1>2, <3>2, MarksOn DEF AtMark
  <2>2. CASE ~Marks(page)
    <3>1. UNCHANGED flash
      BY <1>1, <2>2, PendingIs, PerformsNothing
    <3>2. PageState(hdr[page]) = "ERASING"
      BY <1>1, <2>2 DEF State
    <3>3. page \in Int /\ \A q \in Other(cur) : q \in Int
      BY <1>1, Halves, Ring
    <3>4. \A q \in Other(cur) : q >= page => PageState(hdr[q]) = "ERASING"
      <4> SUFFICES ASSUME NEW q \in Other(cur), q >= page PROVE PageState(hdr[q]) = "ERASING"
        OBVIOUS
      <4>1. q = page \/ q > page
        BY <3>3, SMT
      <4> QED
        BY <1>2, <3>2, <4>1
    <3> QED
      BY <1>1, <3>1, <3>4 DEF AtMark, flash
  <2> QED
    BY <2>1, <2>2
<1>4. page' \in Pages /\ page' # Previous(cur)
      /\ page' \in Other(cur) \cup {Previous(OtherStart(cur))}
      /\ \A p \in Other(cur) : (page' \in Other(cur) => p > page') => p >= page
  <2>1. page' \in Pages
    BY <1>1, Ring
  <2>2. /\ cur \in {0, Half} /\ page \in Nat /\ Other(cur) = (Half - cur)..(2 * Half - cur - 1)
        /\ page' = IF page = 0 THEN 2 * Half - 1 ELSE page - 1
        /\ Previous(cur) = IF cur = 0 THEN 2 * Half - 1 ELSE cur - 1
    BY <1>1, <1>2, Ring, Size, SMT DEF Other, OtherStart, LastOther
  <2>3. page' # Previous(cur)
    BY <1>2, <2>2, Size, SMT
  <2>4. page' \in Other(cur) \cup {Previous(OtherStart(cur))}
    <3>1. CASE page = OtherStart(cur)
      BY <1>1, <3>1
    <3>2. CASE page # OtherStart(cur)
      BY <1>2, <2>2, <3>2, Size, SMT DEF OtherStart
    <3> QED
      BY <3>1, <3>2
  <2>5. \A p \in Other(cur) : (page' \in Other(cur) => p > page') => p >= page
    BY <1>2, <2>2, Size, SMT
  <2> QED
    BY <2>1, <2>3, <2>4, <2>5
<1>5. TypeOK'
  BY <1>1, <1>3, <1>4 DEF TypeOK, Headers, globals, env, history
<1>6. AtMark'
  <2>1. Role' /\ cur' = cur
    BY <1>1 DEF AtMark, Role, globals
  <2>2. ~recover' => cur = BlockStart(cur) /\ next' = 1 /\ nb' = 0 /\ Filled(elem, cur, 0)
    BY <1>1 DEF AtMark, globals
  <2>3. \A p \in Other(cur) :
          (page' \in Other(cur) => p > page') => PageState(hdr'[p]) = "ERASING"
    BY <1>3, <1>4
  <2> QED
    BY <1>2, <1>3, <1>4, <2>1, <2>2, <2>3 DEF AtMark
<1> QED
  BY <1>1, <1>5, <1>6 DEF IInv, Places

\* When there is no page left to mark the other half is erasing, or the transfer fails.
LEMMA MarksDone ==
  ASSUME IInv, pc = "mark", ~Marks(page), State(page) # "ERASING"
  PROVE  /\ page = Previous(cur) /\ ~(recover /\ State(page) = "VALID") => recover
         /\ ~(page = Previous(cur) /\ ~(recover /\ State(page) = "VALID"))
              => Receiving(hdr, elem, cur)
<1>1. hdr \in Headers /\ AtMark /\ cur \in Pages /\ page \in Pages
  BY Typing DEF IInv, Places
<1>2. CASE page = Previous(cur)
  <2>1. cur # BlockStart(cur)
    <3> SUFFICES ASSUME cur = BlockStart(cur) PROVE FALSE
      OBVIOUS
    <3>1. page = LastOther(cur)
      BY <1>1, <1>2, Ring, Size, SMT DEF LastOther, OtherStart
    <3>2. LastOther(cur) \in Other(cur)
      BY <1>1, Halves
    <3>3. State(page) \in {"ACTIVE", "ERASING"}
      BY <1>1, <3>1, <3>2 DEF AtMark, Moving, Marked, State
    <3> QED
      BY <1>2, <3>3 DEF Marks
  <2>2. recover
    BY <1>1, <2>1 DEF AtMark
  <2>3. Receiving(hdr, elem, cur)
    BY <1>1, <2>1 DEF AtMark, Moving, Marked, Receiving, AllErasing
  <2> QED
    BY <2>2, <2>3
<1>3. CASE page # Previous(cur)
  <2>1. /\ cur = BlockStart(cur) /\ page \in Other(cur) \cup {Previous(OtherStart(cur))}
        /\ \A p \in Other(cur) :
             (page \in Other(cur) => p > page) => PageState(hdr[p]) = "ERASING"
    BY <1>1, <1>3 DEF AtMark
  <2>2. page \notin Other(cur)
    <3> SUFFICES ASSUME page \in Other(cur) PROVE FALSE
      OBVIOUS
    <3>1. page # LastOther(cur)
      BY <1>1, <1>3, <2>1, Ring, Size, SMT DEF LastOther, OtherStart
    <3>2. State(page) \in {"VALID", "ERASING"}
      BY <1>1, <3>1 DEF AtMark, Moving, Marked, State
    <3> QED
      BY <1>3, <3>2 DEF Marks
  <2> QED
    BY <1>1, <1>3, <2>1, <2>2 DEF AtMark, Receiving, AllErasing
<1> QED
  BY <1>2, <1>3

LEMMA MarkDoneStep ==
  ASSUME IInv, MarkDone
  PROVE  IInv'
<1> DEFINE n == Leading(elem, cur)
           failing == page = Previous(cur) /\ ~(recover /\ State(page) = "VALID")
<1>1. /\ TypeOK /\ hdr \in Headers /\ elem \in Contained /\ AtMark /\ cur \in Pages
      /\ page \in Pages /\ pc = "mark" /\ ~Marks(page) /\ State(page) # "ERASING"
      /\ UNCHANGED <<flash, env>> /\ Known(hdr, elem) /\ ecc \in BOOLEAN
      /\ next \in 1..(PageElements + 1) /\ nb \in 0..MaxWritten
  BY Typing, AlwaysKnown DEF IInv, Places, MarkDone, TypeOK
<1>2. CASE failing
  <2>1. recover
    BY <1>1, <1>2, MarksDone
  <2>2. arg = NoData
    BY <1>1, <2>1 DEF AtMark, Role
  <2>3. UNCHANGED globals /\ pc' = "failed" /\ ResetLocals /\ UNCHANGED history
    BY <1>2, <2>2 DEF MarkDone, Fails, Goto
  <2> QED
    BY <1>1, <2>3, BecomesFailed DEF flash, globals
<1>3. CASE ~failing
  <2>1. Receiving(hdr, elem, cur)
    BY <1>1, <1>3, MarksDone
  <2>2. /\ pc' = "put" /\ why' = "new" /\ UNCHANGED <<page, idx, recover, arg, history>>
        /\ IF recover
           THEN nb' = n + PageElements * FilledBefore /\ next' = n + 1 /\ cur' = cur
           ELSE UNCHANGED globals
    BY <1>3 DEF MarkDone, Goto
  <2>3. cur' = cur /\ next' \in 1..(PageElements + 1) /\ Counted(elem, cur, next', nb')
        /\ (~recover => nb' = 0)
    <3>1. CASE recover
      <4>1. n \in 0..PageElements /\ Filled(elem, cur, n)
        BY <1>1, LeadingFilled DEF AtMark, Moving, Front
      <4>2. FilledBefore = cur - BlockStart(cur)
        BY <1>1, <2>1, CountsBefore
      <4> DEFINE m == PageElements * (cur - BlockStart(cur))
      <4>3. m \in Nat
        <5>1. cur - BlockStart(cur) \in Nat
          BY <1>1, Ring, Size, SMT
        <5> QED
          BY <5>1, SizeAssumption, Monotone
      <4>4. nb' = n + m /\ next' = n + 1 /\ cur' = cur
        BY <2>2, <3>1, <4>2
      <4> HIDE DEF n, m
      <4>5. next' \in 1..(PageElements + 1) /\ nb' = m + next' - 1 /\ next' - 1 = n
        BY <4>1, <4>3, <4>4, SizeAssumption, SMT
      <4> QED
        BY <3>1, <4>1, <4>4, <4>5 DEF Counted, m
    <3>2. CASE ~recover
      <4>1. /\ cur = BlockStart(cur) /\ next = 1 /\ nb = 0 /\ Filled(elem, cur, 0)
            /\ cur \in Nat
        BY <1>1, <3>2, Ring DEF AtMark
      <4>2. PageElements * (cur - BlockStart(cur)) = 0
        BY <4>1, SizeAssumption, SMT
      <4>3. Counted(elem, cur, next, nb)
        BY <4>1, <4>2 DEF Counted
      <4> QED
        BY <1>1, <2>2, <3>2, <4>1, <4>3 DEF globals
    <3> QED
      BY <3>1, <3>2
  <2>4. nb' \in 0..MaxWritten
    BY <1>1, <2>3, Counts DEF Counted
  <2>5. TypeOK'
    BY <1>1, <2>2, <2>3, <2>4 DEF TypeOK, flash, env, history
  <2>6. AtPut'
    <3>1. Moves'
      BY <1>1, <2>2, <2>3 DEF AtMark, Moves, Role
    <3>2. Receiving(hdr', elem', cur') /\ Here(nb)'
      BY <1>1, <2>1, <2>3 DEF Here, flash
    <3> QED
      BY <3>1, <3>2 DEF AtPut
  <2> QED
    BY <2>2, <2>5, <2>6 DEF IInv, Places
<1> QED
  BY <1>2, <1>3

LEMMA CopyNextStep ==
  ASSUME IInv, CopyNext
  PROVE  IInv'
<1>1. /\ TypeOK /\ hdr \in Headers /\ AtCopy /\ cur \in Pages /\ idx \in Nat /\ idx >= 1
      /\ ToCopy # {} /\ idx' = Min(ToCopy) /\ why' = "copy" /\ pc' = "put"
      /\ UNCHANGED <<flash, globals, page, recover, arg, env, history>> /\ nb \in Nat
  BY Typing DEF IInv, Places, CopyNext, Goto
<1>2. idx' \in ToCopy
  <2>1. ToCopy \subseteq Nat
    BY <1>1, SizeAssumption, SMT DEF ToCopy
  <2> QED
    BY <1>1, <2>1, MinOf
<1>3. idx' \in idx..NbOfVariables /\ ReadVariable(hdr, elem, cur, idx') # NoData
  BY <1>2 DEF ToCopy
<1>4. idx' \in Nat /\ idx' >= idx /\ idx' <= NbOfVariables
      /\ idx' \in 1..(MaxWritten + NbOfVariables)
  BY <1>1, <1>3, SizeAssumption, Room, SMT
<1>5. Holds(elem, cur, idx')
  BY <1>1, <1>3, ReadsInTransfer DEF AtCopy
<1>6. ~recover => nb <= idx'
  BY <1>1, <1>4 DEF AtCopy
<1>7. TypeOK'
  BY <1>1, <1>4 DEF TypeOK, flash, globals, env, history
<1>8. AtPut'
  <2>1. Moves'
    BY <1>1, <1>4, <1>5, <1>6 DEF AtCopy, Moves, Role, flash, globals
  <2>2. Receiving(hdr', elem', cur') /\ Here(nb)'
    BY <1>1 DEF AtCopy, Here, flash, globals
  <2> QED
    BY <2>1, <2>2 DEF AtPut
<1> QED
  BY <1>1, <1>7, <1>8 DEF IInv, Places

LEMMA CopyDoneStep ==
  ASSUME IInv, CopyDone
  PROVE  IInv'
<1>1. /\ TypeOK /\ AtCopy /\ pc' = "close"
      /\ UNCHANGED <<flash, globals, locals, env, history>>
  BY DEF IInv, Places, CopyDone, Goto
<1>2. TypeOK'
  BY <1>1 DEF TypeOK, flash, globals, locals, env, history
<1>3. AtCopy'
  BY <1>1 DEF AtCopy, Here, Role, flash, globals, locals
<1> QED
  BY <1>1, <1>2, <1>3 DEF IInv, Places

LEMMA CloseStep ==
  ASSUME IInv, Close
  PROVE  IInv'
<1>1. /\ TypeOK /\ hdr \in Headers /\ elem \in Contained /\ AtCopy /\ cur \in Pages
      /\ pc = "close" /\ Perform /\ UNCHANGED <<globals, env>> /\ ecc \in BOOLEAN
      /\ next \in 1..(PageElements + 1) /\ nb \in 0..MaxWritten
  BY Typing DEF IInv, Places, Close, TypeOK
<1>2. /\ hdr' \in Headers /\ hdr'[cur] = hdr[cur] \cup {2} /\ Elsewhere(hdr, hdr', cur)
      /\ elem' = elem /\ ecc' = ecc
  <2>1. Pending = Line(cur, 2) /\ 2 \in 1..4
    BY <1>1, PendingIs
  <2> QED
    BY <1>1, <2>1, PerformsLine
<1>3. Ordered(hdr', elem, cur)
  BY <1>1, <1>2, ReceivingCloses DEF AtCopy
<1>4. CASE recover
  <2>1. pc' = "active" /\ UNCHANGED <<locals, history>>
    BY <1>4 DEF Close, Goto
  <2>2. arg' = NoData
    BY <1>1, <1>4, <2>1 DEF AtCopy, Role, locals
  <2>3. TypeOK'
    BY <1>1, <1>2, <2>1 DEF TypeOK, Headers, globals, locals, env, history
  <2>4. AtActive'
    BY <1>1, <1>2, <1>3 DEF AtActive, Ordered
  <2> QED
    BY <2>1, <2>2, <2>3, <2>4 DEF IInv, Places
<1>5. CASE ~recover
  <2>1. Ready /\ answer' = FALSE
    BY <1>5 DEF Close
  <2>2. Ordered(hdr', elem', cur') /\ Counted(elem', cur', next', nb')
    BY <1>1, <1>2, <1>3 DEF AtCopy, Here, globals
  <2> QED
    BY <1>1, <1>2, <2>1, <2>2, BecomesReady DEF globals
<1> QED
  BY <1>4, <1>5


LEMMA LeavePageStep ==
  ASSUME IInv, LeavePage
  PROVE  IInv'
<1>1. /\ TypeOK /\ hdr \in Headers /\ elem \in Contained /\ AtPut /\ cur \in Pages
      /\ pc = "put" /\ pc' = "turn" /\ Perform /\ ~Full /\ PageFull
      /\ UNCHANGED <<globals, locals, env, history>>
      /\ next \in 1..(PageElements + 1) /\ nb \in 0..MaxWritten
  BY Typing DEF IInv, Places, LeavePage, Goto
<1>2. next = PageElements + 1 /\ nb < MaxWritten
  BY <1>1, SizeAssumption, Room, SMT DEF PageFull, Full
<1>3. Behind(cur) # {}
  BY <1>1, <1>2, Counts DEF AtPut, Here, Counted
<1>4. /\ hdr' \in Headers /\ hdr'[cur] = hdr[cur] \cup {3} /\ Elsewhere(hdr, hdr', cur)
      /\ elem' = elem /\ ecc' = ecc
  <2>1. Pending = Line(cur, 3) /\ 3 \in 1..4
    BY <1>1, PendingIs
  <2> QED
    BY <1>1, <2>1, PerformsLine
<1>5. Gap(hdr', elem, cur) /\ (AllErasing(hdr, cur) => AllErasing(hdr', cur))
  BY <1>1, <1>3, <1>4, LeavesPage DEF AtPut
<1>6. TypeOK'
  BY <1>1, <1>4 DEF TypeOK, Headers, globals, locals, env, history
<1>7. AtTurn'
  <2>1. Here(nb)' /\ next' = PageElements + 1 /\ Gap(hdr', elem', cur')
    BY <1>1, <1>2, <1>4, <1>5 DEF AtPut, Here, globals
  <2>2. CASE Plain /\ Ordered(hdr, elem, cur)
    <3>1. Plain'
      BY <1>1, <2>2 DEF Plain, Full, globals, locals
    <3>2. 2 \in hdr'[cur]
      BY <1>1, <1>4, <2>2, StateAt DEF Ordered, Settled
    <3> QED
      BY <1>1, <2>1, <3>1, <3>2 DEF AtTurn, globals
  <2>3. CASE Moves /\ Receiving(hdr, elem, cur)
    <3>1. Moves'
      BY <1>1, <1>4, <2>3 DEF Moves, Role, globals, locals
    <3>2. 2 \notin hdr'[cur] /\ AllErasing(hdr', cur)
      BY <1>4, <1>5, <2>3 DEF Receiving, Moving
    <3> QED
      BY <1>1, <2>1, <3>1, <3>2 DEF AtTurn, globals
  <2> QED
    BY <1>1, <2>2, <2>3 DEF AtPut
<1> QED
  BY <1>1, <1>6, <1>7 DEF IInv, Places

\* The count of a full page is that of the next one with nothing in it.
LEMMA CountsNextPage ==
  ASSUME NEW c \in Pages, NEW e, NEW n, Counted(e, c, PageElements + 1, n),
         BlockStart(c + 1) = BlockStart(c), Filled(e, c + 1, 0)
  PROVE  Counted(e, c + 1, 1, n)
<1> DEFINE d == c - BlockStart(c)
           m == PageElements * d
           k == PageElements * ((c + 1) - BlockStart(c + 1))
<1>1. d \in Nat /\ (c + 1) - BlockStart(c + 1) = d + 1
  BY Ring, Size, SMT
<1>2. k = m + PageElements /\ m \in Nat
  <2> HIDE DEF d
  <2> QED
    BY <1>1, SizeAssumption, Successor, Monotone
<1>3. n = m + (PageElements + 1) - 1
  BY DEF Counted
<1> HIDE DEF d, m
<1>4. n = k + 1 - 1
  <2> HIDE DEF k
  <2> QED
    BY <1>2, <1>3, SizeAssumption, SMT
<1>5. Filled(e, c + 1, 1 - 1)
  OBVIOUS
<1> QED
  BY <1>4, <1>5 DEF Counted

LEMMA EnterPageStep ==
  ASSUME IInv, EnterPage
  PROVE  IInv'
<1>1. /\ TypeOK /\ hdr \in Headers /\ elem \in Contained /\ AtTurn /\ cur \in Pages
      /\ pc = "turn" /\ pc' = "put" /\ Perform /\ cur' = Following(cur) /\ next' = 1
      /\ UNCHANGED <<nb, locals, env, history>>
  BY Typing DEF IInv, Places, EnterPage, Goto
<1>2. /\ Following(cur) = cur + 1 /\ cur + 1 \in Pages /\ cur \in Nat
      /\ BlockStart(cur + 1) = BlockStart(cur) /\ Before(cur) \subseteq Before(cur + 1)
      /\ Other(cur + 1) = Other(cur) /\ BlockStart(cur) \in Nat /\ BlockStart(cur) <= cur
  <2>1. Behind(cur) # {}
    BY <1>1 DEF AtTurn, Gap
  <2> QED
    BY <1>1, <2>1, NextInHalf, Ring, Size, SMT
<1> DEFINE i == IF 2 \in hdr[cur] THEN 2 ELSE 1
<1>3. /\ hdr' \in Headers /\ hdr'[cur + 1] = hdr[cur + 1] \cup {i}
      /\ Elsewhere(hdr, hdr', cur + 1) /\ elem' = elem /\ ecc' = ecc
  <2>1. Pending = Line(cur + 1, i) /\ i \in 1..4
    BY <1>1, <1>2, PendingIs
  <2> HIDE DEF i
  <2> QED
    BY <1>1, <1>2, <2>1, PerformsLine
<1>4. Counted(elem, cur + 1, 1, nb)
  <2>1. Filled(elem, cur + 1, 0)
    BY <1>1, <1>3, GapBegins DEF AtTurn
  <2> QED
    BY <1>1, <1>2, <2>1, CountsNextPage DEF AtTurn, Here
<1>5. TypeOK'
  <2>1. 1 \in 1..(PageElements + 1)
    BY SizeAssumption, SMT
  <2> QED
    BY <1>1, <1>2, <1>3, <2>1 DEF TypeOK, Headers, locals, env, history
<1>6. AtPut'
  <2>1. Here(nb)' /\ cur' = cur + 1
    BY <1>1, <1>2, <1>3, <1>4 DEF Here
  <2>2. CASE Plain /\ 2 \in hdr[cur]
    <3>1. Plain'
      BY <1>1, <2>2 DEF Plain, Full, locals
    <3>2. Ordered(hdr', elem, cur + 1)
      BY <1>1, <1>3, <2>2, GapActivates DEF AtTurn
    <3> QED
      BY <1>3, <2>1, <3>1, <3>2 DEF AtPut
  <2>3. CASE Moves /\ 2 \notin hdr[cur] /\ AllErasing(hdr, cur)
    <3>1. Moves'
      BY <1>1, <1>2, <1>3, <2>3 DEF Moves, Role, Holds, locals
    <3>2. Receiving(hdr', elem, cur + 1)
      BY <1>1, <1>3, <2>3, GapReceives DEF AtTurn
    <3> QED
      BY <1>3, <2>1, <3>1, <3>2 DEF AtPut
  <2> QED
    BY <1>1, <2>2, <2>3 DEF AtTurn
<1> QED
  BY <1>1, <1>5, <1>6 DEF IInv, Places

\* What is written is an element, and not one that reads as an erased line.
LEMMA WritesElements ==
  ASSUME IInv, pc = "put"
  PROVE  Written \in Elements /\ Written # Erased
<1>1. hdr \in Headers /\ AtPut /\ cur \in Pages /\ arg \in Variables \cup {NoData}
      /\ idx \in Nat /\ idx >= 1
  BY Typing DEF IInv, Places
<1>2. \A x \in Variables \cup {Dummy} : x \in Elements /\ x # Erased
  BY LineAssumption DEF Elements
<1>3. CASE why = "write"
  <2>1. arg # NoData
    BY <1>1, <1>3 DEF AtPut, Plain, Moves
  <2> QED
    BY <1>1, <1>2, <1>3, <2>1 DEF Written
<1>4. CASE why = "dummy"
  BY <1>2, <1>4 DEF Written
<1>5. CASE why = "new"
  <2>1. Role
    BY <1>1, <1>5 DEF AtPut, Plain, Moves
  <2>2. CASE recover
    BY <1>2, <1>5, <2>2 DEF Written
  <2>3. CASE ~recover
    <3>1. arg \in Variables
      BY <1>1, <2>1, <2>3 DEF Role
    <3> QED
      BY <1>2, <1>5, <2>3, <3>1 DEF Written
  <2> QED
    BY <2>2, <2>3
<1>6. CASE why = "copy"
  <2>1. Holds(elem, cur, idx) /\ idx <= NbOfVariables /\ Receiving(hdr, elem, cur)
    BY <1>1, <1>6 DEF AtPut, Plain, Moves
  <2>2. ReadVariable(hdr, elem, cur, idx) \in Values
    <3>1. ReadVariable(hdr, elem, cur, idx) # NoData
      BY <1>1, <2>1, ReadsInTransfer
    <3> QED
      BY <3>1, Reads
  <2>3. idx \in Addresses
    BY <1>1, <2>1, SizeAssumption, SMT DEF Addresses
  <2>4. Written = [a |-> idx, d |-> ReadVariable(hdr, elem, cur, idx)]
    BY <1>6 DEF Written
  <2>5. Written \in Variables
    BY <2>2, <2>3, <2>4 DEF Variables
  <2> QED
    BY <1>2, <2>5
<1> QED
  BY <1>3, <1>4, <1>5, <1>6 DEF IInv, TypeOK

\* An element written, whole or with a wrong CRC, where the counts say.
LEMMA PutsElement ==
  ASSUME IInv, pc = "put", ~PageFull, NEW x \in Elements, x # Erased,
         elem' = [elem EXCEPT ![cur][next] = x]
  PROVE  /\ next \in Slots /\ elem' \in Contained /\ Filled(elem', cur, next)
         /\ Ordered(hdr, elem, cur) => Ordered(hdr, elem', cur)
         /\ Receiving(hdr, elem, cur) => Receiving(hdr, elem', cur)
<1>1. /\ elem \in Contained /\ AtPut /\ cur \in Pages /\ next \in 1..(PageElements + 1)
  BY Typing DEF IInv, Places
<1> DEFINE n == next - 1
<1>2. n \in 0..(PageElements - 1) /\ n + 1 = next /\ next \in 0..PageElements
  BY <1>1, SizeAssumption, SMT DEF PageFull
<1>3. Filled(elem, cur, n)
  BY <1>1 DEF AtPut, Here, Counted
<1>4. elem' = [elem EXCEPT ![cur][n + 1] = x]
  BY <1>2
<1> HIDE DEF n
<1>5. /\ n + 1 \in Slots /\ elem' \in Contained
      /\ Elsewhere(elem, elem', cur) /\ Filled(elem', cur, n + 1)
  BY <1>1, <1>2, <1>3, <1>4, FillsOn
<1> QED
  BY <1>1, <1>2, <1>5, ShapesKept

LEMMA ProgramElementStep ==
  ASSUME IInv, ProgramElement
  PROVE  IInv'
<1>1. /\ TypeOK /\ hdr \in Headers /\ elem \in Contained /\ AtPut /\ cur \in Pages
      /\ pc = "put" /\ Perform /\ ~Full /\ ~PageFull /\ ecc \in BOOLEAN
      /\ next' = next + 1 /\ nb' = nb + 1 /\ UNCHANGED <<cur, env>>
      /\ next \in 1..(PageElements + 1) /\ nb \in 0..MaxWritten /\ answer \in BOOLEAN
      /\ idx \in Nat /\ idx >= 1
  BY Typing DEF IInv, Places, ProgramElement, TypeOK
<1>2. /\ hdr' = hdr /\ elem' \in Contained /\ ecc' = ecc /\ Filled(elem', cur, next)
      /\ Ordered(hdr, elem, cur) => Ordered(hdr, elem', cur)
      /\ Receiving(hdr, elem, cur) => Receiving(hdr, elem', cur)
  <2>1. Written \in Elements /\ Written # Erased
    BY <1>1, WritesElements
  <2>2. hdr' = hdr /\ elem' = [elem EXCEPT ![cur][next] = Written] /\ ecc' = ecc
    BY <1>1, PendingIs, PerformsElement
  <2> QED
    BY <1>1, <2>1, <2>2, PutsElement
<1>3. /\ next' \in 1..(PageElements + 1) /\ nb' \in 0..MaxWritten /\ next' - 1 = next
      /\ nb' >= 1
  BY <1>1, SizeAssumption, Room, SMT DEF PageFull, Full
<1>4. Counted(elem', cur', next', nb')
  <2> DEFINE m == PageElements * (cur - BlockStart(cur))
  <2>1. nb = m + next - 1
    BY <1>1 DEF AtPut, Here, Counted
  <2>2. m \in Nat
    <3>1. cur - BlockStart(cur) \in Nat
      BY <1>1, Ring, Size, SMT
    <3> QED
      BY <3>1, SizeAssumption, Monotone
  <2> HIDE DEF m
  <2>3. nb' = m + next' - 1
    BY <1>1, <2>1, <2>2, SMT
  <2> QED
    BY <1>1, <1>2, <1>3, <2>3 DEF Counted, m
<1>5. CASE Plain /\ Ordered(hdr, elem, cur)
  <2>1. Ready /\ answer' \in BOOLEAN
    BY <1>1, <1>5 DEF ProgramElement, Plain
  <2>2. Ordered(hdr', elem', cur')
    BY <1>1, <1>2, <1>5
  <2> QED
    BY <1>1, <1>2, <1>3, <1>4, <2>1, <2>2, BecomesReady
<1>6. CASE Moves /\ Receiving(hdr, elem, cur)
  <2>1. /\ pc' = "copy" /\ UNCHANGED <<why, page, recover, arg, history>>
        /\ idx' = IF why = "new" THEN ResumeIndex(nb') ELSE idx + 1
    BY <1>6 DEF ProgramElement, Moves, Goto
  <2>2. idx' \in 1..(MaxWritten + NbOfVariables) /\ (~recover => nb' <= idx')
    <3>1. CASE why = "new"
      <4>1. idx' = IF nb' >= 3 THEN nb' - 2 ELSE 1
        BY <2>1, <3>1 DEF ResumeIndex
      <4>2. ~recover => nb = 0
        BY <1>6, <3>1 DEF Moves
      <4>3. idx' \in 1..(MaxWritten + NbOfVariables)
        BY <1>1, <1>3, <4>1, Room, SizeAssumption, SMT
      <4>4. nb = 0 => nb' <= idx'
        BY <1>1, <4>1, SMT
      <4> QED
        BY <4>2, <4>3, <4>4
    <3>2. CASE why = "copy"
      <4>1. idx' = idx + 1 /\ idx <= NbOfVariables /\ (~recover => nb <= idx)
        BY <1>6, <2>1, <3>2 DEF Moves
      <4>2. idx' \in 1..(MaxWritten + NbOfVariables)
        BY <1>1, <4>1, Room, SizeAssumption, SMT
      <4>3. nb <= idx => nb' <= idx'
        BY <1>1, <4>1, SMT
      <4> QED
        BY <4>1, <4>2, <4>3
    <3> QED
      BY <1>6, <3>1, <3>2 DEF Moves
  <2>3. TypeOK'
    BY <1>1, <1>2, <1>3, <2>1, <2>2 DEF TypeOK, Contained, env, history
  <2>4. AtCopy'
    <3>1. Receiving(hdr', elem', cur') /\ Here(nb)'
      BY <1>1, <1>2, <1>4, <1>6 DEF Here
    <3>2. Role' /\ (~recover' => nb' <= idx')
      BY <1>6, <2>1, <2>2 DEF Moves, Role
    <3> QED
      BY <3>1, <3>2 DEF AtCopy
  <2> QED
    BY <2>1, <2>3, <2>4 DEF IInv, Places
<1> QED
  BY <1>1, <1>5, <1>6 DEF AtPut

\* A transfer that a write started has room for every variable.
LEMMA NoRoomStep ==
  ASSUME IInv, NoRoom
  PROVE  IInv'
<1>1. /\ TypeOK /\ hdr \in Headers /\ elem \in Contained /\ AtPut /\ Full /\ cur \in Pages
      /\ UNCHANGED <<flash, globals, env>> /\ Known(hdr, elem) /\ ecc \in BOOLEAN
      /\ next \in 1..(PageElements + 1) /\ nb \in 0..MaxWritten /\ idx \in Nat
  BY Typing, AlwaysKnown DEF IInv, Places, NoRoom, TypeOK
<1>2. Moves
  BY <1>1 DEF AtPut, Plain
<1>3. nb > NbOfVariables
  BY <1>1, Room, SizeAssumption, SMT DEF Full
<1>4. recover
  <2> SUFFICES ASSUME ~recover PROVE FALSE
    OBVIOUS
  <2>1. nb = 0 \/ (nb <= idx /\ idx <= NbOfVariables)
    BY <1>2 DEF Moves
  <2> QED
    BY <1>1, <1>3, <2>1, SizeAssumption, SMT
<1>5. arg = NoData
  BY <1>2, <1>4 DEF Moves, Role
<1>6. pc' = "failed" /\ ResetLocals /\ UNCHANGED history
  BY <1>5 DEF NoRoom, Fails, Goto
<1> QED
  BY <1>1, <1>6, BecomesFailed DEF flash, globals

-----------------------------------------------------------------------------
(* Power losses                                                            *)

LEMMA BecomesOff ==
  ASSUME TypeOK, hdr' \in Headers, elem' \in Contained, ecc' \in BOOLEAN, ResetMemory,
         cuts' \in 0..MaxCuts, offs' \in 0..MaxOffs, faults' = faults, UNCHANGED history,
         pc' = "off", Known(hdr', elem')
  PROVE  IInv'
<1>1. cur' = 0 /\ next' = 1 /\ nb' = 0 /\ ResetLocals
  BY DEF ResetMemory
<1>2. 0 \in Pages /\ 1 \in 1..(PageElements + 1) /\ 0 \in 0..MaxWritten
  BY Size, SizeAssumption, Room, SMT DEF Pages
<1>3. TypeOK'
  BY <1>1, <1>2, ResetTyped DEF TypeOK, Headers, Contained, history
<1>4. arg' = NoData
  BY <1>1 DEF ResetLocals
<1> QED
  BY <1>3, <1>4 DEF IInv, Places

\* An element cut short is one with a wrong CRC, behind the others.
LEMMA TornElementKnown ==
  ASSUME IInv, TornElement(Pending)
  PROVE  hdr' = hdr /\ ecc' = ecc /\ elem' \in Contained /\ Known(hdr', elem')
<1>1. pc = "put" /\ ~Full /\ ~PageFull
  BY PendingElement DEF TornElement
<1>2. elem' = [elem EXCEPT ![cur][next] = Corrupt] /\ hdr' = hdr /\ ecc' = ecc
  <2>1. Pending = Element(Written)
    BY <1>1, PendingIs
  <2> QED
    BY <2>1 DEF TornElement, Element
<1>3. Corrupt \in Elements /\ Corrupt # Erased
  BY LineAssumption DEF Elements
<1>4. /\ elem' \in Contained
      /\ Ordered(hdr, elem, cur) => Ordered(hdr, elem', cur)
      /\ Receiving(hdr, elem, cur) => Receiving(hdr, elem', cur)
  BY <1>1, <1>2, <1>3, PutsElement
<1>5. AtPut /\ cur \in Pages
  BY <1>1, Typing DEF IInv, Places
<1> QED
  BY <1>2, <1>4, <1>5 DEF AtPut, Ordered, Receiving, Known

\* A page erased in part keeps some of its header, which its place makes harmless.
LEMMA TornEraseKnown ==
  ASSUME IInv, TornErase(Pending)
  PROVE  hdr' \in Headers /\ ecc' = ecc /\ elem' \in Contained /\ Known(hdr', elem')
<1>1. /\ pc = "format" \/ (pc = "erase" /\ page # BlockStart(cur))
      /\ Pending = PageErase(page)
  BY PendingErase, PendingIs DEF TornErase
<1>2. hdr \in Headers /\ elem \in Contained /\ page \in Pages /\ cur \in Pages
  BY Typing DEF IInv
<1>3. PICK h \in SUBSET hdr[page], kept \in SUBSET Slots, bad \in SUBSET Slots :
        /\ hdr' = [hdr EXCEPT ![page] = h]
        /\ elem' = [elem EXCEPT ![page] = TornPage(page, kept, bad)]
        /\ ecc' = ecc
  BY <1>1 DEF TornErase, PageErase
<1>4. TornPage(page, kept, bad) \in [Slots -> Elements]
  BY <1>2 DEF TornPage, Contained, Elements
<1>5. hdr' \in Headers /\ hdr'[page] \subseteq hdr[page] /\ Elsewhere(hdr, hdr', page)
  BY <1>2, <1>3 DEF Headers, Elsewhere
<1>6. elem' \in Contained /\ Elsewhere(elem, elem', page)
  BY <1>2, <1>3, <1>4 DEF Contained, Elsewhere
<1>7. CASE pc = "format"
  <2>1. Blank(hdr)
    BY <1>7 DEF IInv, Places, AtFormat
  <2>2. Blank(hdr')
    BY <1>2, <1>5, <2>1 DEF Blank, Elsewhere
  <2> QED
    BY <1>3, <1>5, <1>6, <2>2 DEF Known
<1>8. CASE pc = "erase" /\ page # BlockStart(cur)
  <2>1. Settled(hdr, elem, cur) /\ page \in Behind(cur) \cup Other(cur)
        /\ Wiped(hdr, elem, Reached(cur, page))
    BY <1>8 DEF IInv, Places, AtErase
  <2>2. page \in Other(cur) => \A q \in Other(cur) : q < page => hdr[q] = {}
    BY <1>2, <2>1, ReachesOn DEF Wiped
  <2>3. Settled(hdr', elem', cur)
    BY <1>2, <1>5, <1>6, <2>1, <2>2, ErasesOn
  <2> QED
    BY <1>2, <1>3, <1>5, <1>6, <2>3 DEF Known
<1> QED
  BY <1>1, <1>7, <1>8

LEMMA PowerLossStep ==
  ASSUME IInv, PowerLoss
  PROVE  IInv'
<1>1. /\ TypeOK /\ hdr \in Headers /\ elem \in Contained /\ ecc \in BOOLEAN
      /\ cuts \in 0..MaxCuts /\ cuts > 0 /\ cuts' = cuts - 1 /\ offs \in 0..MaxOffs
      /\ pc' = "off" /\ ResetMemory /\ UNCHANGED <<offs, faults, history>>
      /\ \/ UNCHANGED flash
         \/ TornElement(Pending) \/ TornErase(Pending) \/ TornEcc(Pending)
  BY Typing DEF IInv, PowerLoss, TypeOK, Goto
<1>2. cuts' \in 0..MaxCuts
  BY <1>1, BoundAssumption, SMT
<1>3. hdr' \in Headers /\ elem' \in Contained /\ ecc' \in BOOLEAN /\ Known(hdr', elem')
  <2>1. CASE UNCHANGED flash
    BY <1>1, <2>1, AlwaysKnown DEF flash
  <2>2. CASE TornElement(Pending)
    BY <1>1, <2>2, TornElementKnown
  <2>3. CASE TornErase(Pending)
    BY <1>1, <2>3, TornEraseKnown
  <2>4. CASE TornEcc(Pending)
    BY <1>1, <2>4, AlwaysKnown DEF TornEcc
  <2> QED
    BY <1>1, <2>1, <2>2, <2>3, <2>4
<1> QED
  BY <1>1, <1>2, <1>3, BecomesOff

LEMMA SwitchOffStep ==
  ASSUME IInv, SwitchOff
  PROVE  IInv'
<1>1. /\ TypeOK /\ hdr \in Headers /\ elem \in Contained /\ ecc \in BOOLEAN
      /\ offs \in 0..MaxOffs /\ offs > 0 /\ offs' = offs - 1 /\ cuts \in 0..MaxCuts
      /\ pc' = "off" /\ ResetMemory /\ UNCHANGED <<flash, cuts, faults, history>>
      /\ Known(hdr, elem)
  BY Typing, AlwaysKnown DEF IInv, SwitchOff, TypeOK, Goto
<1>2. offs' \in 0..MaxOffs
  BY <1>1, BoundAssumption, SMT
<1> QED
  BY <1>1, <1>2, BecomesOff DEF flash

-----------------------------------------------------------------------------
(* The theorems                                                            *)

LEMMA InitInv ==
  ASSUME Init
  PROVE  IInv
<1>1. 0 \in Pages /\ 1 \in 1..(PageElements + 1) /\ 0 \in 0..MaxWritten
      /\ 1 \in 1..(MaxWritten + NbOfVariables)
  BY Size, SizeAssumption, Room, SMT DEF Pages
<1>2. BlankPage \in [Slots -> Elements]
  BY DEF BlankPage, Elements
<1>3. MaxCuts \in 0..MaxCuts /\ MaxOffs \in 0..MaxOffs /\ MaxFaults \in 0..MaxFaults
  BY BoundAssumption, SMT
<1>4. TypeOK
  BY <1>1, <1>2, <1>3 DEF Init, TypeOK
<1>5. Known(hdr, elem) /\ arg = NoData /\ pc = "off"
  BY DEF Init, Known, Blank
<1> QED
  BY <1>4, <1>5 DEF IInv, Places

LEMMA StutterStep ==
  ASSUME IInv, UNCHANGED vars
  PROVE  IInv'
BY DEF IInv, Places, TypeOK, AtFormat, AtTransfer, AtActive, AtErase, AtReady, AtReceive,
       AtMark, AtCopy, AtPut, AtTurn, Here, Role, Plain, Moves, Full,
       vars, flash, globals, locals, env, history

LEMMA StepInv ==
  ASSUME IInv, [Next]_vars, ~FlashError
  PROVE  IInv'
<1>1. CASE Boot
  BY <1>1, PowerOnStep, FindReceiveStep, FindNothingStep, FormatStep, OpenFirstPageStep,
     NoTransferStep, ResumeTransferStep, FindActiveStep, CountElementsStep, ErasePageStep,
     EraseDoneStep DEF Boot
<1>2. CASE Transfer
  BY <1>2, SetReceiveStep, MarkErasingStep, MarkDoneStep, CopyNextStep, CopyDoneStep, CloseStep
     DEF Transfer
<1>3. CASE Put
  BY <1>3, LeavePageStep, EnterPageStep, ProgramElementStep, NoRoomStep DEF Put
<1>4. CASE PowerLoss \/ SwitchOff
  BY <1>4, PowerLossStep, SwitchOffStep
<1>5. CASE \E a \in Addresses, d \in Values : Write(a, d)
  BY <1>5, WriteStep
<1>6. CASE UNCHANGED vars
  BY <1>6, StutterStep
<1> QED
  BY <1>1, <1>2, <1>3, <1>4, <1>5, <1>6 DEF Next, Running

\* A page that is full, in a half that is not, has an erased one behind it.
LEMMA NextErased ==
  ASSUME IInv
  PROVE  NoForcedCleanUp
<1> SUFFICES ASSUME IInv, pc = "put", ~Full, PageFull
             PROVE  State(Following(cur)) = "ERASED"
  BY DEF NoForcedCleanUp
<1>1. /\ hdr \in Headers /\ AtPut /\ cur \in Pages /\ next \in 1..(PageElements + 1)
      /\ nb \in 0..MaxWritten
  BY Typing DEF IInv, Places
<1>2. next = PageElements + 1 /\ nb < MaxWritten
  BY <1>1, SizeAssumption, Room, SMT DEF PageFull, Full
<1>3. Behind(cur) # {}
  BY <1>1, <1>2, Counts DEF AtPut, Here, Counted
<1>4. Following(cur) = cur + 1 /\ cur + 1 \in Behind(cur) /\ cur + 1 \in Pages
  BY <1>1, <1>3, NextInHalf
<1>5. hdr[cur + 1] = {}
  BY <1>1, <1>4 DEF AtPut, Ordered, Receiving, Moving, Wiped
<1> QED
  BY <1>1, <1>4, <1>5, StateAt DEF State

\* The line that is about to be programmed, case by case.
LEMMA LinesErased ==
  ASSUME IInv, Pending.op = "line"
  PROVE  Pending.at \notin hdr[Pending.page]
<1>1. hdr \in Headers /\ cur \in Pages /\ page \in Pages /\ Known(hdr, elem)
  BY Typing, AlwaysKnown DEF IInv
<1>2. \E p \in Pages, i \in 1..4 : Pending = Line(p, i) /\ i \notin hdr[p]
  <2>1. CASE pc = "find" /\ Resumes
    <3>1. Pending = Line(Following(LastValid), 1)
      BY <2>1, PendingIs
    <3>2. ~Blank(hdr)
      <4> SUFFICES ASSUME Blank(hdr) PROVE FALSE
        OBVIOUS
      <4>1. \A q \in Pages : State(q) = "ERASED"
        BY <1>1, StateAt DEF Blank, State
      <4> QED
        BY <2>1, <4>1 DEF Resumes, InState
    <3>3. PICK c \in Pages : Settled(hdr, elem, c) \/ Moving(hdr, elem, c) \/ Gap(hdr, elem, c)
      BY <1>1, <3>2 DEF Known
    <3>4. Gap(hdr, elem, c)
      <4>1. State(c) \notin {"ACTIVE", "RECEIVE"}
        BY <2>1 DEF Resumes, InState
      <4> QED
        BY <1>1, <3>3, <4>1, StateAt DEF Settled, Moving, State
    <3>5. Following(LastValid) = c + 1 /\ c + 1 \in Pages /\ hdr[c + 1] = {}
      BY <1>1, <3>4, GapValid, Halves DEF Gap, Wiped
    <3> QED
      BY <3>1, <3>5
  <2>2. CASE pc = "open"
    <3>1. Pending = Line(0, 2) /\ 0 \in Pages
      BY <2>2, PendingIs, Size, SMT DEF Pages
    <3>2. hdr[0] = {}
      BY <2>2, <3>1 DEF IInv, Places, Wiped
    <3> QED
      BY <3>1, <3>2
  <2>3. CASE pc = "receive"
    <3>1. Pending = Line(cur, 1) /\ AtReceive
      BY <2>3, PendingIs DEF IInv, Places
    <3>2. cur \in Other(Previous(cur))
      BY <1>1, <3>1, Ring, Halves DEF AtReceive
    <3>3. hdr[cur] = {}
      BY <3>1, <3>2 DEF AtReceive, Wiped
    <3> QED
      BY <1>1, <3>1, <3>3
  <2>4. CASE pc = "turn"
    <3>1. /\ Pending = Line(Following(cur), IF 2 \in hdr[cur] THEN 2 ELSE 1)
          /\ Gap(hdr, elem, cur)
      BY <2>4, PendingIs DEF IInv, Places, AtTurn
    <3>2. Following(cur) \in Pages /\ hdr[Following(cur)] = {}
      BY <1>1, <3>1, GapValid, Halves DEF Gap, Wiped
    <3> QED
      BY <3>1, <3>2
  <2>5. CASE pc = "close"
    <3>1. Pending = Line(cur, 2) /\ hdr[cur] = {1}
      BY <2>5, PendingIs DEF IInv, Places, AtCopy, Receiving, Moving
    <3> QED
      BY <1>1, <3>1
  <2>6. CASE pc = "mark" /\ Marks(page)
    <3>1. Pending = Line(page, 4)
      BY <2>6, PendingIs
    <3>2. PageState(hdr[page]) \in {"ACTIVE", "VALID"}
      BY <2>6 DEF Marks, State
    <3>3. 4 \notin hdr[page]
      BY <1>1, <3>2, StateAt
    <3> QED
      BY <1>1, <3>1, <3>3
  <2>7. CASE pc = "put" /\ ~Full /\ PageFull
    <3>1. Pending = Line(cur, 3) /\ AtPut
      BY <2>7, PendingIs DEF IInv, Places
    <3>2. 3 \notin hdr[cur]
      BY <1>1, <3>1, StateAt DEF AtPut, Ordered, Settled, Receiving, Moving
    <3> QED
      BY <1>1, <3>1, <3>2
  <2>8. CASE pc = "active" /\ Reliable("ACTIVE") = {}
    <3>1. Pending = Line(Following(LastValid), 2) /\ AtActive
      BY <2>8, PendingIs DEF IInv, Places
    <3>2. PICK c \in Pages : Gap(hdr, elem, c)
      BY <1>1, <2>8, <3>1, SettledReliable DEF AtActive
    <3>3. Following(LastValid) = c + 1 /\ c + 1 \in Pages /\ hdr[c + 1] = {}
      BY <1>1, <3>2, GapValid, Halves DEF Gap, Wiped
    <3> QED
      BY <3>1, <3>3
  <2> QED
    BY PendingLine, <2>1, <2>2, <2>3, <2>4, <2>5, <2>6, <2>7, <2>8
<1>3. PICK p \in Pages, i \in 1..4 : Pending = Line(p, i) /\ i \notin hdr[p]
  BY <1>2
<1> QED
  BY <1>3 DEF Line

LEMMA ElementsErased ==
  ASSUME IInv, Pending.op = "elem"
  PROVE  elem[Pending.page][Pending.at] = Erased
<1>1. pc = "put" /\ ~Full /\ ~PageFull
  BY PendingElement
<1>2. Pending.page = cur /\ Pending.at = next
  BY <1>1, PendingIs DEF Element
<1>3. next \in Slots /\ next > next - 1
  <2>1. next \in 1..(PageElements + 1)
    BY Typing DEF IInv
  <2> QED
    BY <1>1, <2>1, SizeAssumption, SMT DEF PageFull, Slots
<1>4. Filled(elem, cur, next - 1)
  BY <1>1 DEF IInv, Places, AtPut, Here, Counted
<1> QED
  BY <1>2, <1>3, <1>4 DEF Filled

\* Only an operation that fails takes from the number of them.
LEMMA FaultsLeft ==
  ASSUME [Next]_vars
  PROVE  faults' = faults \/ (FlashError /\ faults' = faults - 1 /\ faults > 0)
<1>1. CASE Boot
  BY <1>1 DEF Boot, PowerOn, FindReceive, FindNothing, Format, OpenFirstPage, NoTransfer,
     ResumeTransfer, FindActive, CountElements, ErasePage, EraseDone, env
<1>2. CASE Transfer
  BY <1>2 DEF Transfer, SetReceive, MarkErasing, MarkDone, CopyNext, CopyDone, Close, env
<1>3. CASE Put
  BY <1>3 DEF Put, LeavePage, EnterPage, ProgramElement, NoRoom, env
<1>4. CASE PowerLoss \/ SwitchOff \/ FlashError
  BY <1>4 DEF PowerLoss, SwitchOff, FlashError
<1>5. CASE \E a \in Addresses, d \in Values : Write(a, d)
  BY <1>5 DEF Write, env
<1>6. CASE UNCHANGED vars
  BY <1>6 DEF vars, env
<1> QED
  BY <1>1, <1>2, <1>3, <1>4, <1>5, <1>6 DEF Next, Running

\* What holds whether flash operations fail or not.
Working == faults \in 0..MaxFaults /\ (faults = MaxFaults => IInv)

\* Whatever the number of variables and of elements in a page, and wherever the power is
\* lost, in a transfer, in the recovery of one or in the recovery of that: until a flash
\* operation fails the flash has one of the shapes that EE_Init tells apart, and the
\* driver's counts are those of the flash.
THEOREM Invariant == Spec => []Working
<1>1. Init => Working
  <2> SUFFICES ASSUME Init PROVE Working
    OBVIOUS
  <2>1. faults = MaxFaults /\ faults \in 0..MaxFaults
    BY BoundAssumption, SMT DEF Init
  <2> QED
    BY <2>1, InitInv DEF Working
<1>2. Working /\ [Next]_vars => Working'
  <2> SUFFICES ASSUME Working, [Next]_vars PROVE Working'
    OBVIOUS
  <2>1. faults \in 0..MaxFaults /\ (faults = MaxFaults => IInv)
    BY DEF Working
  <2>2. CASE faults' = faults /\ ~FlashError
    <3>1. faults = MaxFaults => IInv'
      BY <2>1, <2>2, StepInv
    <3> QED
      BY <2>1, <2>2, <3>1 DEF Working
  <2>3. CASE faults' = faults - 1 /\ faults > 0
    <3>1. faults' \in 0..MaxFaults /\ faults' # MaxFaults
      BY <2>1, <2>3, BoundAssumption, SMT
    <3> QED
      BY <3>1 DEF Working
  <2>4. FlashError => faults' = faults - 1 /\ faults > 0
    BY DEF FlashError
  <2> QED
    BY <2>2, <2>3, <2>4, FaultsLeft
<1> QED
  BY <1>1, <1>2, PTL DEF Spec

\* The flash, the driver's variables and the history keep their types, until a flash
\* operation fails.
THEOREM TypeCorrect == Spec => [](faults = MaxFaults => TypeOK)
<1>1. Working => (faults = MaxFaults => TypeOK)
  BY DEF Working, IInv
<1> QED
  BY <1>1, Invariant, PTL

\* VerifyPagesFullWriteVariable leaves a full page only for an erased one, until a flash
\* operation fails.
THEOREM CleanUpNotForced == Spec => [](faults = MaxFaults => NoForcedCleanUp)
<1>1. Working => (faults = MaxFaults => NoForcedCleanUp)
  BY NextErased DEF Working
<1> QED
  BY <1>1, Invariant, PTL

\* EE_Init, PagesTransfer and a write find a place to program in what a power loss left,
\* and a flash none of whose operations has failed never refuses it.
THEOREM OnlyErasedLines == Spec => [](faults = MaxFaults => ProgramsErasedLines)
<1>1. IInv => ProgramsErasedLines
  BY LinesErased, ElementsErased DEF ProgramsErasedLines
<1>2. Working => (faults = MaxFaults => ProgramsErasedLines)
  BY <1>1 DEF Working
<1> QED
  BY <1>2, Invariant, PTL

\* On a flash that works all three hold in every state.
THEOREM FlashWorks ==
  ASSUME MaxFaults = 0
  PROVE  Spec => [](TypeOK /\ NoForcedCleanUp /\ ProgramsErasedLines)
<1>1. Working => TypeOK /\ NoForcedCleanUp /\ ProgramsErasedLines
  <2> SUFFICES ASSUME Working
               PROVE  TypeOK /\ NoForcedCleanUp /\ ProgramsErasedLines
    OBVIOUS
  <2>1. faults \in 0..0
    BY DEF Working
  <2>2. faults = MaxFaults
    BY <2>1, SMT
  <2> QED
    BY <2>2, NextErased, LinesErased, ElementsErased DEF Working, IInv, ProgramsErasedLines
<1> QED
  BY <1>1, Invariant, PTL

=============================================================================
