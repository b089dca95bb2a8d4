-------------------------- MODULE EepromStoreProofs -------------------------
(***************************************************************************)
(* Eeprom implements EepromStore: proof, step by step, that no variable is *)
(* lost or mixed up by writes, transfers and power losses.                 *)
(***************************************************************************)
EXTENDS EepromProofs

-----------------------------------------------------------------------------
(* The newest element of a variable                                        *)

\* The elements that hold variable i, and whether some page of P has one.
Of(i)        == [a : {i}, d : Values]
Has(e, P, i) == \E p \in P : \E s \in Slots : e[p][s] \in Of(i)

\* x is the data of the newest of them: last in the page of the greatest number.
IsLatest(e, P, i, x) ==
  \E p \in P : \E s \in Slots :
    /\ e[p][s] \in Of(i) /\ e[p][s].d = x
    /\ \A q \in P : \A t \in Slots : e[q][t] \in Of(i) => q < p \/ (q = p /\ t <= s)
Latest(e, P, i) == IF Has(e, P, i) THEN CHOOSE x : IsLatest(e, P, i, x) ELSE NoData

\* What a reader finds who goes through the pages of B before those of O.
Source(e, B, O, i) == IF Has(e, B, i) THEN Latest(e, B, i) ELSE Latest(e, O, i)

LEMMA LatestUnique ==
  ASSUME NEW e, NEW P, P \subseteq Nat, NEW i, NEW x, NEW y,
         IsLatest(e, P, i, x), IsLatest(e, P, i, y)
  PROVE  x = y
<1>1. PICK p \in P : \E s \in Slots :
        /\ e[p][s] \in Of(i) /\ e[p][s].d = x
        /\ \A q \in P : \A t \in Slots : e[q][t] \in Of(i) => q < p \/ (q = p /\ t <= s)
  BY DEF IsLatest
<1>2. PICK s \in Slots :
        /\ e[p][s] \in Of(i) /\ e[p][s].d = x
        /\ \A q \in P : \A t \in Slots : e[q][t] \in Of(i) => q < p \/ (q = p /\ t <= s)
  BY <1>1
<1>3. PICK r \in P : \E t \in Slots :
        /\ e[r][t] \in Of(i) /\ e[r][t].d = y
        /\ \A q \in P : \A u \in Slots : e[q][u] \in Of(i) => q < r \/ (q = r /\ u <= t)
  BY DEF IsLatest
<1>4. PICK t \in Slots :
        /\ e[r][t] \in Of(i) /\ e[r][t].d = y
        /\ \A q \in P : \A u \in Slots : e[q][u] \in Of(i) => q < r \/ (q = r /\ u <= t)
  BY <1>3
<1>5. p < r \/ (p = r /\ s <= t)
  BY <1>2, <1>4
<1>6. r < p \/ (r = p /\ t <= s)
  BY <1>2, <1>4
<1>7. p \in Nat /\ r \in Nat /\ s \in Nat /\ t \in Nat
  BY SizeAssumption, SMT DEF Slots
<1>8. p = r /\ s = t
  BY <1>5, <1>6, <1>7, SMT
<1> QED
  BY <1>2, <1>4, <1>8

\* There is a newest element if there is any.
LEMMA LatestExists ==
  ASSUME NEW e, NEW P, P \subseteq Pages, NEW i, Has(e, P, i)
  PROVE  \E x : IsLatest(e, P, i, x)
<1> DEFINE Q == {p \in P : \E s \in Slots : e[p][s] \in Of(i)}
           p == Max(Q)
           S == {s \in Slots : e[p][s] \in Of(i)}
           t == Max(S)
<1>1. PagesNumber \in Nat /\ Pages \subseteq 0..PagesNumber
  BY Size, SMT DEF Pages
<1>2. Q # {} /\ Q \subseteq 0..PagesNumber
  BY <1>1 DEF Has
<1>3. p \in Q /\ \A q \in Q : q <= p
  BY <1>1, <1>2, MaxOf
<1>4. S # {} /\ S \subseteq 0..PageElements /\ PageElements \in Nat
  <2>1. Slots \subseteq 0..PageElements
    BY SizeAssumption, SMT DEF Slots
  <2>2. PICK s \in Slots : e[p][s] \in Of(i)
    BY <1>3
  <2> QED
    BY <2>1, <2>2, SizeAssumption
<1>5. t \in S /\ \A s \in S : s <= t
  BY <1>4, MaxOf
<1> HIDE DEF p, t
<1>6. ASSUME NEW q \in P, NEW s \in Slots, e[q][s] \in Of(i)
      PROVE  q < p \/ (q = p /\ s <= t)
  <2>1. q <= p
    BY <1>3, <1>6
  <2>2. q \in Nat /\ p \in Nat
    BY <1>1, <1>2, <1>3, SMT
  <2>3. q = p => s <= t
    BY <1>5, <1>6
  <2> QED
    BY <2>1, <2>2, <2>3, SMT
<1>7. IsLatest(e, P, i, e[p][t].d)
  BY <1>3, <1>5, <1>6 DEF IsLatest
<1> QED
  BY <1>7

LEMMA LatestIs ==
  ASSUME NEW e, NEW P, P \subseteq Pages, NEW i
  PROVE  /\ Has(e, P, i) => IsLatest(e, P, i, Latest(e, P, i)) /\ Latest(e, P, i) \in Values
         /\ \A x : IsLatest(e, P, i, x) => Has(e, P, i) /\ Latest(e, P, i) = x
         /\ ~Has(e, P, i) => Latest(e, P, i) = NoData
<1>1. P \subseteq Nat
  BY Size, SMT DEF Pages
<1>2. Has(e, P, i) => IsLatest(e, P, i, Latest(e, P, i))
  <2> SUFFICES ASSUME Has(e, P, i) PROVE IsLatest(e, P, i, CHOOSE x : IsLatest(e, P, i, x))
    BY DEF Latest
  <2>1. PICK x : IsLatest(e, P, i, x)
    BY LatestExists
  <2> QED
    BY <2>1
<1>3. \A x : IsLatest(e, P, i, x) => Has(e, P, i)
  BY DEF IsLatest, Has
<1>4. \A x : IsLatest(e, P, i, x) => Latest(e, P, i) = x
  BY <1>1, <1>2, <1>3, LatestUnique
<1>5. \A x : IsLatest(e, P, i, x) => x \in Values
  BY DEF IsLatest, Of
<1> QED
  BY <1>2, <1>3, <1>4, <1>5 DEF Latest

\* Two sets of pages with the same elements of a variable.
LEMMA SameLatest ==
  ASSUME NEW e, NEW f, NEW P, P \subseteq Pages, NEW Q, Q \subseteq Pages, NEW i,
         \A p \in P : \A s \in Slots : e[p][s] \in Of(i) => p \in Q /\ f[p][s] = e[p][s],
         \A p \in Q : \A s \in Slots : f[p][s] \in Of(i) => p \in P /\ f[p][s] = e[p][s]
  PROVE  (Has(f, Q, i) <=> Has(e, P, i)) /\ Latest(f, Q, i) = Latest(e, P, i)
<1>1. Has(f, Q, i) <=> Has(e, P, i)
  BY DEF Has
<1>2. ASSUME Has(e, P, i)
      PROVE  Latest(f, Q, i) = Latest(e, P, i)
  <2>1. IsLatest(e, P, i, Latest(e, P, i))
    BY <1>2, LatestIs
  <2>2. PICK p \in P, s \in Slots :
          /\ e[p][s] \in Of(i) /\ e[p][s].d = Latest(e, P, i)
          /\ \A q \in P : \A t \in Slots : e[q][t] \in Of(i) => q < p \/ (q = p /\ t <= s)
    BY <2>1 DEF IsLatest
  <2>3. p \in Q /\ f[p][s] = e[p][s]
    BY <2>2
  <2>4. \A q \in Q : \A t \in Slots : f[q][t] \in Of(i) => q < p \/ (q = p /\ t <= s)
    BY <2>2
  <2>5. IsLatest(f, Q, i, Latest(e, P, i))
    BY <2>2, <2>3, <2>4 DEF IsLatest
  <2> QED
    BY <2>5, LatestIs
<1>3. ~Has(e, P, i) => Latest(f, Q, i) = Latest(e, P, i)
  BY <1>1 DEF Latest
<1> QED
  BY <1>1, <1>2, <1>3

LEMMA SamePages ==
  ASSUME NEW e, NEW f, NEW P, P \subseteq Pages, NEW i, \A p \in P : f[p] = e[p]
  PROVE  (Has(f, P, i) <=> Has(e, P, i)) /\ Latest(f, P, i) = Latest(e, P, i)
BY SameLatest

\* What a line can hold besides variables.
LEMMA NoVariable ==
  ASSUME NEW i \in Addresses
  PROVE  /\ Of(i) \subseteq Variables
         /\ Erased \notin Of(i) /\ Corrupt \notin Of(i) /\ Dummy \notin Of(i)
<1>1. Of(i) \subseteq Variables
  BY DEF Of, Variables
<1>2. Dummy \notin Of(i)
  <2>1. Dummy.a = 0 /\ i # 0
    BY SizeAssumption, SMT DEF Dummy, Addresses
  <2> QED
    BY <2>1 DEF Of
<1> QED
  BY <1>1, <1>2, LineAssumption

LEMMA NoneInBlank ==
  ASSUME NEW e, NEW P, NEW i \in Addresses, \A p \in P : e[p] = BlankPage
  PROVE  ~Has(e, P, i)
<1> SUFFICES ASSUME NEW p \in P, NEW s \in Slots, e[p][s] \in Of(i)
             PROVE  FALSE
  BY DEF Has
<1>1. e[p][s] = Erased
  BY DEF BlankPage
<1> QED
  BY <1>1, NoVariable

\* Blank pages more or less make no difference.
LEMMA BlankAdded ==
  ASSUME NEW e, NEW P, P \subseteq Pages, NEW Q, Q \subseteq Pages, NEW i \in Addresses,
         P \subseteq Q, \A p \in Q \ P : e[p] = BlankPage
  PROVE  (Has(e, Q, i) <=> Has(e, P, i)) /\ Latest(e, Q, i) = Latest(e, P, i)
<1>1. \A p \in Q \ P : \A s \in Slots : e[p][s] \notin Of(i)
  BY NoVariable DEF BlankPage
<1> QED
  BY <1>1, SameLatest

\* Page c with element x behind the n others.
Added(e, c, n, x) == [e EXCEPT ![c][n + 1] = x]

\* An element behind the others of the last page is the newest.
LEMMA NewestAdded ==
  ASSUME NEW e \in Contained, NEW c \in Pages, NEW n \in 0..(PageElements - 1),
         Filled(e, c, n), NEW x \in Elements,
         NEW f, f = Added(e, c, n, x),
         NEW P, P \subseteq Pages, c \in P, \A p \in P : p <= c, NEW i \in Addresses
  PROVE  /\ x \in Of(i) => Has(f, P, i) /\ Latest(f, P, i) = x.d
         /\ x \notin Of(i) =>
              (Has(f, P, i) <=> Has(e, P, i)) /\ Latest(f, P, i) = Latest(e, P, i)
<1>1. n + 1 \in Slots
  BY SizeAssumption, SMT DEF Slots
<1>2. f = [e EXCEPT ![c] = [e[c] EXCEPT ![n + 1] = x]]
  BY DEF Contained, Added
<1>3. f[c] = [e[c] EXCEPT ![n + 1] = x] /\ \A p \in Pages : p # c => f[p] = e[p]
  BY <1>2 DEF Contained
<1>4. f[c][n + 1] = x /\ \A s \in Slots : s # n + 1 => f[c][s] = e[c][s]
  BY <1>1, <1>3 DEF Contained
<1>5. \A s \in Slots : s > n => e[c][s] = Erased
  BY DEF Filled
<1>6. e[c][n + 1] \notin Of(i)
  <2>1. n + 1 > n
    BY SMT
  <2> QED
    BY <1>1, <1>5, <2>1, NoVariable
<1>7. ASSUME x \in Of(i)
      PROVE  Has(f, P, i) /\ Latest(f, P, i) = x.d
  <2>1. ASSUME NEW q \in P, NEW t \in Slots, f[q][t] \in Of(i)
        PROVE  q < c \/ (q = c /\ t <= n + 1)
    <3>1. CASE q = c
      <4>1. t = n + 1 \/ e[c][t] # Erased
        BY <1>4, <2>1, <3>1, NoVariable
      <4>2. t \in Nat /\ (t = n + 1 \/ ~(t > n))
        BY <1>5, <4>1, SizeAssumption, SMT DEF Slots
      <4> QED
        BY <3>1, <4>2, SMT
    <3>2. CASE q # c
      <4>1. q <= c /\ q \in Nat /\ c \in Nat
        BY Size, SMT DEF Pages
      <4> QED
        BY <3>2, <4>1, SMT
    <3> QED
      BY <3>1, <3>2
  <2>2. IsLatest(f, P, i, x.d)
    BY <1>1, <1>4, <1>7, <2>1 DEF IsLatest
  <2> QED
    BY <2>2, LatestIs
<1>8. ASSUME x \notin Of(i)
      PROVE  (Has(f, P, i) <=> Has(e, P, i)) /\ Latest(f, P, i) = Latest(e, P, i)
  <2>1. \A p \in P : \A s \in Slots : e[p][s] \in Of(i) => p \in P /\ f[p][s] = e[p][s]
    BY <1>3, <1>4, <1>6
  <2>2. \A p \in P : \A s \in Slots : f[p][s] \in Of(i) => p \in P /\ f[p][s] = e[p][s]
    BY <1>3, <1>4, <1>8
  <2> QED
    BY ONLY P \subseteq Pages, <2>1, <2>2, SameLatest
<1> QED
  BY <1>7, <1>8

-----------------------------------------------------------------------------
(* Reading                                                                 *)

\* ReadVariable, of a ring whose pages it visits in the order of B, then O.
LEMMA ReadsFrom ==
  ASSUME NEW h, NEW e, NEW c, NEW i, NEW r, r = ReadStart(h, c),
         NEW B, B \subseteq Pages, NEW O, O \subseteq Pages,
         \A k \in Visited(h, c) : \A s \in Slots :
           e[Back(r, k)][s] \in Of(i) => Back(r, k) \in B \cup O,
         \A p \in B \cup O : \A s \in Slots :
           e[p][s] \in Of(i) => \E k \in Visited(h, c) : Back(r, k) = p,
         \A k, l \in 0..(PagesNumber - 1) :
           /\ Back(r, k) = Back(r, l) => k = l
           /\ k <= l /\ Back(r, k) \in B /\ Back(r, l) \in B => Back(r, l) <= Back(r, k)
           /\ k <= l /\ Back(r, k) \in O /\ Back(r, l) \in O => Back(r, l) <= Back(r, k)
           /\ k <= l /\ Back(r, k) \in O => Back(r, l) \notin B
  PROVE  ReadVariable(h, e, c, i) = Source(e, B, O, i)
<1> DEFINE occ == Occurrences(h, e, c, i)
           K   == {o[1] : o \in occ}
           k   == Min(K)
           S   == {o[2] : o \in {x \in occ : x[1] = k}}
           s   == Max(S)
<1>0. \A j, t : <<j, t>> \in occ <=>
        j \in Visited(h, c) /\ t \in Slots /\ e[Back(r, j)][t] \in Of(i)
  BY DEF Occurrences, Of
<1>1. \A o \in occ : o[1] \in 0..(PagesNumber - 1) /\ o[2] \in Slots /\ o = <<o[1], o[2]>>
  BY DEF Occurrences, Visited
<1>2. Visited(h, c) \subseteq 0..(PagesNumber - 1)
  BY DEF Visited
<1>3. CASE occ = {}
  <2>1. ~Has(e, B, i) /\ ~Has(e, O, i)
    BY <1>0, <1>3 DEF Has
  <2>2. ReadVariable(h, e, c, i) = NoData
    BY <1>3 DEF ReadVariable
  <2> QED
    BY <2>1, <2>2 DEF Source, Latest
<1>4. CASE occ # {}
  <2>1. K \subseteq Nat /\ K # {}
    <3>1. \A o \in occ : o[1] \in Nat
      BY <1>1, Size, SMT
    <3> QED
      BY <1>4, <3>1
  <2>2. k \in K /\ \A j \in K : k <= j
    BY <2>1, MinOf
  <2>3. S \subseteq 0..PageElements /\ S # {}
    <3>1. PICK o \in occ : o[1] = k
      BY <2>2
    <3>2. o[2] \in S
      BY <3>1
    <3>3. \A o1 \in occ : o1[2] \in Slots
      BY <1>1
    <3>4. Slots \subseteq 0..PageElements
      BY SizeAssumption, SMT DEF Slots
    <3>5. S \subseteq Slots
      <4> HIDE DEF k, occ
      <4> QED
        BY <3>3
    <3> QED
      BY <3>2, <3>4, <3>5
  <2>4. s \in S /\ \A t \in S : t <= s
    BY <2>3, SizeAssumption, MaxOf
  <2>5. PICK o \in occ : o[1] = k /\ o[2] = s
    BY <2>4
  <2>6. ReadVariable(h, e, c, i) = e[Back(r, k)][s].d
    BY <1>4, Zenon DEF ReadVariable
  <2> HIDE DEF s
  <2>7. k \in Visited(h, c) /\ s \in Slots /\ e[Back(r, k)][s] \in Of(i)
    BY <1>0, <1>1, <2>5
  <2>8. ASSUME NEW q \in B \cup O, NEW t \in Slots, e[q][t] \in Of(i)
        PROVE  \E l \in 0..(PagesNumber - 1) :
                 /\ k \in 0..(PagesNumber - 1) /\ Back(r, l) = q /\ k <= l
                 /\ l = k => t <= s
    <3>1. PICK l \in Visited(h, c) : Back(r, l) = q
      BY <2>8
    <3>2. <<l, t>> \in occ
      BY <1>0, <2>8, <3>1
    <3>3. l \in K
      BY <3>2
    <3>4. ASSUME l = k PROVE t <= s
      <4>1. t \in S
        <5> HIDE DEF k, occ
        <5>1. <<l, t>>[1] = l /\ <<l, t>>[2] = t
          OBVIOUS
        <5> QED
          BY <3>2, <3>4, <5>1
      <4> QED
        BY <2>4, <4>1
    <3> QED
      BY <1>2, <2>2, <2>7, <3>1, <3>3, <3>4
  <2> HIDE DEF k
  <2> DEFINE p == Back(r, k)
  <2>9. ASSUME NEW R \in {B, O}, p \in R
        PROVE  Has(e, R, i) /\ Latest(e, R, i) = e[p][s].d
    <3>1. ASSUME NEW q \in R, NEW t \in Slots, e[q][t] \in Of(i)
          PROVE  q < p \/ (q = p /\ t <= s)
      <4>1. PICK l \in 0..(PagesNumber - 1) :
                 /\ k \in 0..(PagesNumber - 1) /\ Back(r, l) = q /\ k <= l
                 /\ l = k => t <= s
        BY <2>8, <3>1
      <4>2. q <= p /\ (q = p => t <= s)
        <5>1. CASE R = B
          BY <2>9, <4>1, <5>1
        <5>2. CASE R = O
          BY <2>9, <4>1, <5>2
        <5> QED
          BY <5>1, <5>2
      <4>3. p \in Nat /\ q \in Nat
        <5>1. p \in Pages /\ q \in Pages
          BY <2>9
        <5>2. Pages \subseteq Nat
          BY Size, SMT DEF Pages
        <5> QED
          BY <5>1, <5>2
      <4> QED
        BY <4>2, <4>3, SMT
    <3>2. IsLatest(e, R, i, e[p][s].d)
      BY <2>7, <2>9, <3>1 DEF IsLatest
    <3> QED
      BY <3>2, LatestIs
  <2>10. CASE p \in B
    BY <2>6, <2>9, <2>10 DEF Source
  <2>11. CASE p \notin B
    <3>1. p \in O
      BY <2>7, <2>11
    <3>2. ~Has(e, B, i)
      <4> SUFFICES ASSUME NEW q \in B, NEW t \in Slots, e[q][t] \in Of(i) PROVE FALSE
        BY DEF Has
      <4>1. PICK l \in 0..(PagesNumber - 1) :
                 k \in 0..(PagesNumber - 1) /\ Back(r, l) = q /\ k <= l
        BY <2>8
      <4> QED
        BY <3>1, <4>1
    <3> QED
      BY <2>6, <2>9, <3>1, <3>2 DEF Source
  <2> QED
    BY <2>10, <2>11
<1> QED
  BY <1>3, <1>4

\* The pages of the half of c up to c.
Upto(c) == BlockStart(c)..c

LEMMA UptoIs ==
  ASSUME NEW c \in Pages
  PROVE  /\ Upto(c) = Before(c) \cup {c} /\ Upto(c) \subseteq Pages /\ c \in Upto(c)
         /\ \A p \in Upto(c) : p <= c
         /\ Upto(c) \cap Behind(c) = {} /\ Upto(c) \cap Other(c) = {}
BY Ring, Size, SMT DEF Upto, Before, Behind, Other, OtherStart, LastOther, Pages

\* From an active page: the pages of its half, then those of the other.
LEMMA ReadsReady ==
  ASSUME NEW h \in Headers, NEW e, NEW c \in Pages, Ordered(h, e, c), NEW i \in Addresses
  PROVE  ReadVariable(h, e, c, i) = Source(e, Upto(c), Other(c), i)
<1> DEFINE b == BlockStart(c)
<1>1. ReadStart(h, c) = c
  BY DEF Ordered, Settled, ReadStart
<1>2. /\ c \in Nat /\ c < 2 * Half /\ b = (IF c < Half THEN 0 ELSE Half)
      /\ PagesNumber = 2 * Half /\ Half \in Nat /\ Half >= 2
  BY Ring, Size
<1>3. \A k \in 0..(PagesNumber - 1) :
        Back(c, k) = (IF k <= c THEN c - k ELSE c - k + 2 * Half) /\ Back(c, k) \in Pages
  BY BackFrom, Size, SMT
<1>4. Upto(c) = b..c /\ Other(c) = (Half - b)..(2 * Half - b - 1)
  BY <1>2, SMT DEF Upto, Other, OtherStart, LastOther
<1>5. Upto(c) \subseteq Pages /\ Other(c) \subseteq Pages
  BY UptoIs, Halves
<1>6. \A p \in Behind(c) : PageState(h[p]) = "ERASED"
  BY StateAt, Halves DEF Ordered, Wiped
<1>7. ASSUME NEW k \in Visited(h, c), NEW s \in Slots, e[Back(c, k)][s] \in Of(i)
      PROVE  Back(c, k) \in Upto(c) \cup Other(c)
  <2>1. k \in 0..(PagesNumber - 1) /\ ~Stops(h, c, k)
    <3>1. k \in 0..(PagesNumber - 1) /\ \A j \in 0..k : ~Stops(h, c, j)
      BY <1>1 DEF Visited
    <3> QED
      BY <1>2, <3>1, SMT
  <2>2. Back(c, k) \in Pages /\ Back(c, k) \notin Behind(c)
    BY <1>3, <1>6, <2>1 DEF Stops
  <2> QED
    BY <2>2, Halves, UptoIs
<1>8. ASSUME NEW p \in Upto(c) \cup Other(c), NEW s \in Slots, e[p][s] \in Of(i)
      PROVE  \E k \in Visited(h, c) : Back(c, k) = p
  <2> DEFINE k == IF p <= c THEN c - p ELSE c - p + 2 * Half
  <2>1. p \in Nat /\ p < 2 * Half
    BY <1>5, Ring
  <2>2. k \in 0..(PagesNumber - 1) /\ Back(c, k) = p
    <3>1. k \in 0..(PagesNumber - 1)
      BY <1>2, <2>1, SMT
    <3>2. Back(c, k) = IF k <= c THEN c - k ELSE c - k + 2 * Half
      BY <1>3, <3>1
    <3> QED
      BY <1>2, <2>1, <3>1, <3>2, SMT
  <2>3. \A q \in Upto(c) : PageState(h[q]) \in {"ACTIVE", "VALID", "ERASING"}
    BY UptoIs DEF Ordered, Settled, Front
  <2>4. ASSUME NEW j \in 0..k
        PROVE  PageState(h[Back(c, j)]) \in {"ACTIVE", "VALID", "ERASING"}
    <3>1. j \in Nat /\ j <= k /\ j \in 0..(PagesNumber - 1)
      BY <1>2, <2>2, SMT
    <3>2. Back(c, j) = IF j <= c THEN c - j ELSE c - j + 2 * Half
      BY <1>3, <3>1
    <3>3. CASE p \in Upto(c)
      <4>1. Back(c, j) \in b..c
        BY <1>2, <1>4, <2>1, <3>1, <3>2, <3>3, SMT
      <4> QED
        BY <1>4, <2>3, <4>1
    <3>4. CASE p \in Other(c)
      <4>1. AllErasing(h, c)
        <5>1. ~Wiped(h, e, Other(c))
          BY <1>8, <3>4, NoVariable DEF Wiped, BlankPage
        <5> QED
          BY <5>1 DEF Ordered
      <4>2. Back(c, j) \in b..c \/ Back(c, j) \in (Half - b)..(2 * Half - b - 1)
        BY <1>2, <1>4, <2>1, <3>1, <3>2, <3>4, SMT
      <4> QED
        BY <1>4, <2>3, <4>1, <4>2 DEF AllErasing
    <3> QED
      BY <3>3, <3>4
  <2>5. k \in Visited(h, c)
    <3>1. c # -1
      BY <1>2, SMT
    <3> QED
      BY <1>1, <2>2, <2>4, <3>1 DEF Visited, Stops
  <2> QED
    BY <2>2, <2>5
<1>9. ASSUME NEW k \in 0..(PagesNumber - 1), NEW l \in 0..(PagesNumber - 1)
      PROVE  /\ Back(c, k) = Back(c, l) => k = l
             /\ k <= l /\ Back(c, k) \in Upto(c) /\ Back(c, l) \in Upto(c)
                  => Back(c, l) <= Back(c, k)
             /\ k <= l /\ Back(c, k) \in Other(c) /\ Back(c, l) \in Other(c)
                  => Back(c, l) <= Back(c, k)
             /\ k <= l /\ Back(c, k) \in Other(c) => Back(c, l) \notin Upto(c)
  <2>1. /\ Back(c, k) = IF k <= c THEN c - k ELSE c - k + 2 * Half
        /\ Back(c, l) = IF l <= c THEN c - l ELSE c - l + 2 * Half
    BY <1>3
  <2> QED
    BY <1>2, <1>4, <2>1, SMT
<1> QED
  BY <1>1, <1>5, <1>7, <1>8, <1>9, ReadsFrom

\* In a transfer: the pages in front of the receive page, then those of the other half.
LEMMA ReadsMoving ==
  ASSUME NEW h \in Headers, NEW e, NEW c \in Pages, Receiving(h, e, c), NEW i \in Addresses
  PROVE  ReadVariable(h, e, c, i) = Source(e, Before(c), Other(c), i)
<1> DEFINE b == BlockStart(c)
           r == Previous(c)
<1>1. PageState(h[c]) = "RECEIVE"
  BY StateAt DEF Receiving, Moving
<1>2. ReadStart(h, c) = r /\ r \in Pages /\ r # -1
  BY <1>1, Ring DEF ReadStart
<1>3. /\ c \in Nat /\ c < 2 * Half /\ b = (IF c < Half THEN 0 ELSE Half)
      /\ PagesNumber = 2 * Half /\ Half \in Nat /\ Half >= 2
      /\ r = IF c = 0 THEN 2 * Half - 1 ELSE c - 1
  BY Ring, Size
<1>4. \A k \in 0..(PagesNumber - 1) :
        Back(r, k) = (IF k <= r THEN r - k ELSE r - k + 2 * Half) /\ Back(r, k) \in Pages
  BY <1>2, BackFrom, Size, SMT
<1>5. Before(c) = b..(c - 1) /\ Other(c) = (Half - b)..(2 * Half - b - 1)
  BY <1>3, SMT DEF Before, Other, OtherStart, LastOther
<1>6. Before(c) \subseteq Pages /\ Other(c) \subseteq Pages
  BY Halves
<1>7. \A p \in Before(c) \cup Other(c) : PageState(h[p]) \in {"VALID", "ERASING"}
  BY DEF Receiving, Moving, Front, AllErasing
<1>8. \A p \in Behind(c) : PageState(h[p]) = "ERASED"
  BY StateAt, Halves DEF Receiving, Moving, Front
<1>9. ASSUME NEW k \in Visited(h, c), NEW s \in Slots, e[Back(r, k)][s] \in Of(i)
      PROVE  Back(r, k) \in Before(c) \cup Other(c)
  <2>1. k \in 0..(PagesNumber - 1) /\ ~Stops(h, r, k)
    <3>1. k \in 0..(PagesNumber - 1) /\ \A j \in 0..k : ~Stops(h, r, j)
      BY <1>2 DEF Visited
    <3> QED
      BY <1>3, <3>1, SMT
  <2>2. Back(r, k) \in Pages /\ Back(r, k) \notin Behind(c) /\ Back(r, k) # c
    BY <1>1, <1>4, <1>8, <2>1 DEF Stops
  <2> QED
    BY <2>2, Halves
<1>10. ASSUME NEW p \in Before(c) \cup Other(c), NEW s \in Slots, e[p][s] \in Of(i)
       PROVE  \E k \in Visited(h, c) : Back(r, k) = p
  <2>1. PICK k \in 0..(PagesNumber - 1) :
           /\ Back(r, k) = p
           /\ \A j \in 0..k : Back(r, j) \in Before(c) \cup Other(c)
    BY WayBack
  <2>2. k \in Visited(h, c)
    BY <1>2, <1>7, <2>1 DEF Visited, Stops
  <2> QED
    BY <2>1, <2>2
<1>11. ASSUME NEW k \in 0..(PagesNumber - 1), NEW l \in 0..(PagesNumber - 1)
       PROVE  /\ Back(r, k) = Back(r, l) => k = l
              /\ k <= l /\ Back(r, k) \in Before(c) /\ Back(r, l) \in Before(c)
                   => Back(r, l) <= Back(r, k)
              /\ k <= l /\ Back(r, k) \in Other(c) /\ Back(r, l) \in Other(c)
                   => Back(r, l) <= Back(r, k)
              /\ k <= l /\ Back(r, k) \in Other(c) => Back(r, l) \notin Before(c)
  <2>1. /\ Back(r, k) = IF k <= r THEN r - k ELSE r - k + 2 * Half
        /\ Back(r, l) = IF l <= r THEN r - l ELSE r - l + 2 * Half
    BY <1>4
  <2> HIDE DEF r
  <2> QED
    BY <1>3, <1>5, <2>1, SMT
<1> HIDE DEF r
<1> QED
  BY <1>2, <1>6, <1>9, <1>10, <1>11, ReadsFrom

-----------------------------------------------------------------------------
(* One shape at a time                                                     *)

Shape(h, e, c) == Settled(h, e, c) \/ Moving(h, e, c) \/ Gap(h, e, c)

\* The two halves of the ring, seen from pages in different ones.
LEMMA Across ==
  ASSUME NEW c \in Pages, NEW d \in Other(c)
  PROVE  /\ c \in Other(d) /\ c \in Nat /\ d \in Nat /\ d \in Pages
         /\ \A p \in Other(c) : p \in Before(d) \/ p = d \/ p \in Behind(d)
         /\ Before(d) \subseteq Other(c) /\ Behind(d) \subseteq Other(c)
         /\ Before(d) # {} => d - 1 \in Before(d)
         /\ Behind(d) # {} => d + 1 \in Behind(d)
         /\ Before(d) # {} \/ Behind(d) # {}
         /\ Behind(d) = {} => d = LastOther(c)
         /\ d = LastOther(c) => Behind(d) = {}
<1>1. d \in Pages
  BY Halves
<1>2. c \in Nat /\ d \in Nat /\ c < 2 * Half /\ d < 2 * Half
  BY <1>1, Ring
<1> DEFINE b == BlockStart(c)
           a == BlockStart(d)
<1>3. b = (IF c < Half THEN 0 ELSE Half) /\ a = (IF d < Half THEN 0 ELSE Half)
  BY <1>1, Ring
<1>4. Other(c) = (Half - b)..(2 * Half - b - 1) /\ Other(d) = (Half - a)..(2 * Half - a - 1)
  BY <1>2, <1>3, Size, SMT DEF Other, OtherStart, LastOther
<1>5. Before(d) = a..(d - 1) /\ Behind(d) = (d + 1)..(a + Half - 1)
      /\ LastOther(c) = Half - b + Half - 1
  BY DEF Before, Behind, LastOther, OtherStart
<1> HIDE DEF a, b
<1>6. d >= Half - b /\ d <= 2 * Half - b - 1 /\ (b = 0 \/ b = Half)
  BY <1>2, <1>3, <1>4, Size, SMT
<1>7. a = Half - b
  BY <1>2, <1>3, <1>6, Size, SMT
<1>8. c >= b /\ c <= b + Half - 1
  BY <1>2, <1>3, Size, SMT
<1>9. c \in Other(d)
  BY <1>2, <1>4, <1>6, <1>7, <1>8, Size, SMT
<1>10. /\ \A p \in Other(c) : p \in Before(d) \/ p = d \/ p \in Behind(d)
       /\ Before(d) \subseteq Other(c) /\ Behind(d) \subseteq Other(c)
  BY <1>2, <1>4, <1>5, <1>6, <1>7, Size, SMT
<1>11. /\ Before(d) # {} => d - 1 \in Before(d)
       /\ Behind(d) # {} => d + 1 \in Behind(d)
  BY <1>2, <1>5, <1>6, <1>7, Size, SMT
<1>12. /\ Before(d) # {} \/ Behind(d) # {}
       /\ Behind(d) = {} => d = LastOther(c)
       /\ d = LastOther(c) => Behind(d) = {}
  <2>1. d = LastOther(c) => Behind(d) = {}
    BY <1>2, <1>5, <1>6, <1>7, Size, SMT
  <2>2. d # LastOther(c) => d + 1 \in Behind(d)
    BY <1>2, <1>5, <1>6, <1>7, Size, SMT
  <2>3. d = LastOther(c) => d - 1 \in Before(d)
    BY <1>2, <1>5, <1>6, <1>7, Size, SMT
  <2> QED
    BY <2>1, <2>2, <2>3
<1> QED
  BY <1>1, <1>2, <1>9, <1>10, <1>11, <1>12

LEMMA SettledAlone ==
  ASSUME NEW h \in Headers, NEW e, NEW c \in Pages, Settled(h, e, c),
         NEW d \in Other(c), Shape(h, e, d)
  PROVE  FALSE
<1>1. d \in Pages /\ h[d] # {} /\ PageState(h[d]) # "ERASING"
  BY Across, StateAt DEF Shape, Settled, Moving, Gap
<1>2. \A q \in Other(c) : d < q => PageState(h[q]) = "ERASING"
  BY <1>1 DEF Settled, Torn
<1>3. Behind(d) = {}
  <2> SUFFICES ASSUME Behind(d) # {} PROVE FALSE
    OBVIOUS
  <2>0. d + 1 \in Behind(d) /\ d + 1 \in Other(c) /\ d \in Nat
    BY Across
  <2>1. d + 1 \in Behind(d) /\ d + 1 \in Other(c) /\ d < d + 1 /\ d + 1 \in Pages
    BY <2>0, Halves
  <2>2. h[d + 1] = {}
    BY <2>1 DEF Shape, Settled, Moving, Gap, Front
  <2> QED
    BY <1>2, <2>1, <2>2, StateAt
<1>4. d - 1 \in Before(d) /\ d - 1 \in Other(c) /\ d - 1 < d /\ d - 1 \in Pages
  <2>1. d - 1 \in Before(d) /\ d - 1 \in Other(c) /\ d \in Nat
    BY <1>3, Across
  <2>2. d - 1 < d
    BY <2>1, SMT
  <2> QED
    BY <2>1, <2>2, Halves
<1>5. PageState(h[d - 1]) = "VALID"
  BY <1>4 DEF Shape, Settled, Moving, Gap, Front
<1>6. h[d - 1] # {}
  BY <1>4, <1>5, StateAt
<1> QED
  BY <1>1, <1>4, <1>6 DEF Settled, Torn

LEMMA OneShape ==
  ASSUME NEW h \in Headers, NEW e, NEW c \in Pages, Shape(h, e, c),
         NEW d \in Pages, Shape(h, e, d)
  PROVE  c = d
<1> SUFFICES ASSUME c # d PROVE FALSE
  OBVIOUS
<1>1. h[c] # {} /\ h[d] # {} /\ PageState(h[d]) # "ERASING"
  BY StateAt DEF Shape, Settled, Moving, Gap
<1>2. d \notin Behind(c)
  BY <1>1 DEF Shape, Settled, Moving, Gap, Front
<1>3. d \notin Before(c)
  <2> SUFFICES ASSUME d \in Before(c) PROVE FALSE
    OBVIOUS
  <2>1. c \in Behind(d)
    BY Ring, Size, SMT DEF Before, Behind
  <2> QED
    BY <1>1, <2>1 DEF Shape, Settled, Moving, Gap, Front
<1>4. d \in Other(c)
  BY <1>2, <1>3, Halves
<1>5. c \in Other(d)
  BY <1>4, Across
<1>6. CASE Settled(h, e, c)
  BY <1>4, <1>6, SettledAlone
<1>7. CASE Gap(h, e, c)
  BY <1>1, <1>4, <1>7 DEF Gap, AllErasing, Wiped
<1>8. CASE Moving(h, e, c)
  <2>1. \A p \in Other(c) : \/ PageState(h[p]) = "ERASING"
                            \/ PageState(h[p]) = IF p = LastOther(c) THEN "ACTIVE" ELSE "VALID"
    BY <1>8 DEF Moving, Marked
  <2>2. \A p \in Other(c) : h[p] # {}
    BY <2>1, Halves, StateAt
  <2>3. Behind(d) = {}
    <3> SUFFICES ASSUME Behind(d) # {} PROVE FALSE
      OBVIOUS
    <3>1. d + 1 \in Behind(d) /\ d + 1 \in Other(c)
      BY <1>4, Across
    <3> QED
      BY <2>2, <3>1 DEF Shape, Settled, Moving, Gap, Front
  <2>4. PageState(h[d]) = "ACTIVE"
    BY <1>1, <1>4, <2>1, <2>3, Across
  <2>5. Settled(h, e, d)
    BY <2>4, StateAt DEF Shape, Moving, Gap
  <2> QED
    BY <1>5, <2>5, SettledAlone
<1> QED
  BY <1>6, <1>7, <1>8 DEF Shape

\* A page has one shape, and no ring with one is blank.
LEMMA OneKind ==
  ASSUME NEW h \in Headers, NEW e, NEW c \in Pages
  PROVE  /\ Settled(h, e, c) => ~Moving(h, e, c) /\ ~Gap(h, e, c)
         /\ Moving(h, e, c) => ~Gap(h, e, c)
         /\ Shape(h, e, c) => ~Blank(h)
<1>1. Shape(h, e, c) => h[c] # {}
  BY StateAt DEF Shape, Settled, Moving, Gap
<1> QED
  BY <1>1, StateAt DEF Shape, Settled, Moving, Gap, Blank

-----------------------------------------------------------------------------
(* What the flash says of the variables                                    *)

\* Data x of variable i is that of the store l, or that of the write w under way.
Good(l, w, i, x) == x = l[i] \/ (w # NoData /\ i = w.a /\ x = w.d)

\* Reading the half of page c gives the store; or the store with or without the write.
Exact(e, c, l)   == \A i \in Addresses : Latest(e, Upto(c), i) = l[i]
Kept(e, c, l, w) == \A i \in Addresses : Good(l, w, i, Latest(e, Upto(c), i))

\* The half of page c no longer needs the other for variable i, for all below n, for any.
Copied(e, c, i)   == Has(e, Other(c), i) => Has(e, Upto(c), i)
CopiedTo(e, c, n) == \A i \in Addresses : i < n => Copied(e, c, i)
AllCopied(e, c)   == \A i \in Addresses : Copied(e, c, i)

\* In a transfer to page c: what is read, and what has been written, is good.
Fresh(e, c, l, w) ==
  \A i \in Addresses :
    /\ Good(l, w, i, Source(e, Before(c), Other(c), i))
    /\ Has(e, Upto(c), i) => Good(l, w, i, Latest(e, Upto(c), i))
Sourced(e, c, l, w) == \A i \in Addresses : Good(l, w, i, Source(e, Upto(c), Other(c), i))

\* A transfer that is resumed behind page c, unless its half is full, steps over no
\* variable that is still to be copied.
Resumable(e, c) ==
  \A n \in 0..PageElements :
    /\ Filled(e, c, n)
    /\ PageElements * (c - BlockStart(c)) + n < MaxWritten
    => CopiedTo(e, c, PageElements * (c - BlockStart(c)) + n - 1)

\* What EE_Init may count on, whatever the power loss left.
FlashData(h, e, l, w) ==
  /\ Blank(h) => \A i \in Addresses : Good(l, w, i, NoData)
  /\ \A c \in Pages :
       /\ Settled(h, e, c) => Kept(e, c, l, w)
       /\ Moving(h, e, c)  => Fresh(e, c, l, w) /\ Resumable(e, c)
       /\ Gap(h, e, c)     => /\ Sourced(e, c, l, w) /\ Resumable(e, c)
                              /\ Filled(e, c, PageElements)

LEMMA FlashSettled ==
  ASSUME NEW h \in Headers, NEW e, NEW c \in Pages, NEW l, NEW w,
         Settled(h, e, c), Kept(e, c, l, w)
  PROVE  FlashData(h, e, l, w)
BY OneShape, OneKind DEF FlashData, Shape

LEMMA FlashMoving ==
  ASSUME NEW h \in Headers, NEW e, NEW c \in Pages, NEW l, NEW w,
         Moving(h, e, c), Fresh(e, c, l, w), Resumable(e, c)
  PROVE  FlashData(h, e, l, w)
BY OneShape, OneKind DEF FlashData, Shape

LEMMA FlashGap ==
  ASSUME NEW h \in Headers, NEW e, NEW c \in Pages, NEW l, NEW w,
         Gap(h, e, c), Sourced(e, c, l, w), Resumable(e, c), Filled(e, c, PageElements)
  PROVE  FlashData(h, e, l, w)
BY OneShape, OneKind DEF FlashData, Shape

LEMMA FlashBlank ==
  ASSUME NEW h \in Headers, NEW e, NEW l, NEW w,
         Blank(h), \A i \in Addresses : Good(l, w, i, NoData)
  PROVE  FlashData(h, e, l, w)
BY OneKind DEF FlashData, Shape

-----------------------------------------------------------------------------
(* What a step does to it                                                  *)

\* f holds the variables that e does, in the half of page c and in the other.
Alike(e, f, c) ==
  \A i \in Addresses : \A P \in {Upto(c), Before(c), Other(c)} :
    (Has(f, P, i) <=> Has(e, P, i)) /\ Latest(f, P, i) = Latest(e, P, i)

LEMMA AlikeKeeps ==
  ASSUME NEW e, NEW f, NEW c, Alike(e, f, c), NEW l, NEW w
  PROVE  /\ Exact(e, c, l) => Exact(f, c, l)
         /\ Kept(e, c, l, w) => Kept(f, c, l, w)
         /\ AllCopied(e, c) => AllCopied(f, c)
         /\ \A n : CopiedTo(e, c, n) => CopiedTo(f, c, n)
         /\ Fresh(e, c, l, w) => Fresh(f, c, l, w)
         /\ Sourced(e, c, l, w) => Sourced(f, c, l, w)
<1>1. \A i \in Addresses :
        /\ (Has(f, Upto(c), i) <=> Has(e, Upto(c), i))
        /\ Latest(f, Upto(c), i) = Latest(e, Upto(c), i)
  BY DEF Alike
<1>2. \A i \in Addresses :
        /\ (Has(f, Before(c), i) <=> Has(e, Before(c), i))
        /\ Latest(f, Before(c), i) = Latest(e, Before(c), i)
  BY DEF Alike
<1>3. \A i \in Addresses :
        /\ (Has(f, Other(c), i) <=> Has(e, Other(c), i))
        /\ Latest(f, Other(c), i) = Latest(e, Other(c), i)
  BY DEF Alike
<1>4. \A i \in Addresses :
        /\ Source(f, Before(c), Other(c), i) = Source(e, Before(c), Other(c), i)
        /\ Source(f, Upto(c), Other(c), i) = Source(e, Upto(c), Other(c), i)
  BY <1>1, <1>2, <1>3 DEF Source
<1>5. \A i \in Addresses : Copied(e, c, i) <=> Copied(f, c, i)
  BY <1>1, <1>3 DEF Copied
<1> QED
  BY <1>1, <1>4, <1>5 DEF Exact, Kept, AllCopied, CopiedTo, Fresh, Sourced

\* An element is written behind the others of page c.
LEMMA AddedUpto ==
  ASSUME NEW e \in Contained, NEW c \in Pages, NEW n \in 0..(PageElements - 1),
         Filled(e, c, n), NEW x \in Elements,
         NEW f, f = Added(e, c, n, x), NEW i \in Addresses
  PROVE  /\ x \in Of(i) => Has(f, Upto(c), i) /\ Latest(f, Upto(c), i) = x.d
         /\ x \notin Of(i) => /\ (Has(f, Upto(c), i) <=> Has(e, Upto(c), i))
                              /\ Latest(f, Upto(c), i) = Latest(e, Upto(c), i)
<1> DEFINE P == Upto(c)
<1>1. P \subseteq Pages /\ c \in P /\ \A p \in P : p <= c
  BY UptoIs
<1> HIDE DEF P
<1>2. /\ x \in Of(i) => Has(f, P, i) /\ Latest(f, P, i) = x.d
      /\ x \notin Of(i) => /\ (Has(f, P, i) <=> Has(e, P, i))
                           /\ Latest(f, P, i) = Latest(e, P, i)
  BY <1>1, NewestAdded
<1> QED
  BY <1>2 DEF P

\* The pages in front of c and the other half are not written.
LEMMA OthersAlike ==
  ASSUME NEW e, NEW f, NEW c \in Pages, Elsewhere(e, f, c), NEW i
  PROVE  /\ (Has(f, Before(c), i) <=> Has(e, Before(c), i))
         /\ Latest(f, Before(c), i) = Latest(e, Before(c), i)
         /\ (Has(f, Other(c), i) <=> Has(e, Other(c), i))
         /\ Latest(f, Other(c), i) = Latest(e, Other(c), i)
<1>1. /\ Before(c) \subseteq Pages /\ Other(c) \subseteq Pages
      /\ c \notin Before(c) /\ c \notin Other(c)
  BY Halves
<1>2. \A p \in Before(c) : f[p] = e[p]
  BY <1>1 DEF Elsewhere
<1>3. \A p \in Other(c) : f[p] = e[p]
  BY <1>1 DEF Elsewhere
<1> DEFINE B == Before(c)
           O == Other(c)
<1>4. B \subseteq Pages /\ O \subseteq Pages /\ (\A p \in B : f[p] = e[p])
      /\ \A p \in O : f[p] = e[p]
  BY <1>1, <1>2, <1>3
<1> HIDE DEF B, O
<1>5. (Has(f, B, i) <=> Has(e, B, i)) /\ Latest(f, B, i) = Latest(e, B, i)
  BY <1>4, SamePages
<1>6. (Has(f, O, i) <=> Has(e, O, i)) /\ Latest(f, O, i) = Latest(e, O, i)
  BY <1>4, SamePages
<1> QED
  BY <1>5, <1>6 DEF B, O

\* An element that is no variable is written: a dummy, or one with a wrong CRC.
LEMMA MarkAdded ==
  ASSUME NEW e \in Contained, NEW c \in Pages, NEW n \in 0..(PageElements - 1),
         Filled(e, c, n), NEW x \in {Dummy, Corrupt},
         NEW f, f = Added(e, c, n, x)
  PROVE  Alike(e, f, c)
<1> SUFFICES ASSUME NEW i \in Addresses
             PROVE  \A P \in {Upto(c), Before(c), Other(c)} :
                      /\ (Has(f, P, i) <=> Has(e, P, i))
                      /\ Latest(f, P, i) = Latest(e, P, i)
  BY DEF Alike
<1>1. x \in Elements /\ x \notin Of(i)
  BY NoVariable DEF Elements
<1>2. /\ (Has(f, Upto(c), i) <=> Has(e, Upto(c), i))
      /\ Latest(f, Upto(c), i) = Latest(e, Upto(c), i)
  BY <1>1, AddedUpto
<1>3. Elsewhere(e, f, c)
  BY DEF Elsewhere, Contained, Added
<1> QED
  BY <1>2, <1>3, OthersAlike

\* A variable is written.
LEMMA VariableAdded ==
  ASSUME NEW e \in Contained, NEW c \in Pages, NEW n \in 0..(PageElements - 1),
         Filled(e, c, n), NEW x \in Variables,
         NEW f, f = Added(e, c, n, x), NEW l, NEW w
  PROVE  /\ Has(f, Upto(c), x.a)
         /\ \A i \in Addresses :
              Latest(f, Upto(c), i) = IF i = x.a THEN x.d ELSE Latest(e, Upto(c), i)
         /\ AllCopied(e, c) => AllCopied(f, c)
         /\ \A k : CopiedTo(e, c, k) => CopiedTo(f, c, k)
         /\ \A i \in Addresses : Has(e, Upto(c), i) => Has(f, Upto(c), i)
         /\ Fresh(e, c, l, w) /\ Good(l, w, x.a, x.d) => Fresh(f, c, l, w)
<1>1. x \in Elements /\ x.a \in Addresses /\ \A i \in Addresses : x \in Of(i) <=> i = x.a
  BY DEF Elements, Variables, Of
<1>2. \A i \in Addresses :
        /\ i = x.a => Has(f, Upto(c), i) /\ Latest(f, Upto(c), i) = x.d
        /\ i # x.a => /\ (Has(f, Upto(c), i) <=> Has(e, Upto(c), i))
                      /\ Latest(f, Upto(c), i) = Latest(e, Upto(c), i)
  <2> SUFFICES ASSUME NEW i \in Addresses
               PROVE  /\ i = x.a => Has(f, Upto(c), i) /\ Latest(f, Upto(c), i) = x.d
                      /\ i # x.a => /\ (Has(f, Upto(c), i) <=> Has(e, Upto(c), i))
                                    /\ Latest(f, Upto(c), i) = Latest(e, Upto(c), i)
    OBVIOUS
  <2>1. x \in Of(i) <=> i = x.a
    BY <1>1
  <2>2. /\ x \in Of(i) => Has(f, Upto(c), i) /\ Latest(f, Upto(c), i) = x.d
        /\ x \notin Of(i) => /\ (Has(f, Upto(c), i) <=> Has(e, Upto(c), i))
                             /\ Latest(f, Upto(c), i) = Latest(e, Upto(c), i)
    BY <1>1, AddedUpto
  <2> QED
    BY <2>1, <2>2
<1>3. Elsewhere(e, f, c)
  BY DEF Elsewhere, Contained, Added
<1>5. \A i : /\ (Has(f, Before(c), i) <=> Has(e, Before(c), i))
             /\ Latest(f, Before(c), i) = Latest(e, Before(c), i)
  BY <1>3, OthersAlike
<1>6. \A i : /\ (Has(f, Other(c), i) <=> Has(e, Other(c), i))
             /\ Latest(f, Other(c), i) = Latest(e, Other(c), i)
  BY <1>3, OthersAlike
<1>7. \A i \in Addresses : Copied(e, c, i) => Copied(f, c, i)
  BY <1>2, <1>6 DEF Copied
<1>8. \A i : Source(f, Before(c), Other(c), i) = Source(e, Before(c), Other(c), i)
  BY <1>5, <1>6 DEF Source
<1>9. Fresh(e, c, l, w) /\ Good(l, w, x.a, x.d) => Fresh(f, c, l, w)
  BY <1>2, <1>8 DEF Fresh
<1> QED
  BY <1>1, <1>2, <1>7, <1>9 DEF AllCopied, CopiedTo

\* The next page of the half, still blank, becomes the current one.
LEMMA PageTurned ==
  ASSUME NEW e, NEW c \in Pages, Behind(c) # {}, e[c + 1] = BlankPage, NEW l, NEW w
  PROVE  /\ Exact(e, c, l) => Exact(e, c + 1, l)
         /\ Kept(e, c, l, w) => Kept(e, c + 1, l, w)
         /\ AllCopied(e, c) => AllCopied(e, c + 1)
         /\ \A n : CopiedTo(e, c, n) => CopiedTo(e, c + 1, n)
         /\ \A i \in Addresses : Has(e, Upto(c), i) => Has(e, Upto(c + 1), i)
         /\ Sourced(e, c, l, w) => Fresh(e, c + 1, l, w)
<1>1. c + 1 \in Pages /\ Before(c + 1) = Before(c) \cup {c} /\ Other(c + 1) = Other(c)
  BY NextInHalf
<1>2. Before(c + 1) = Upto(c) /\ Upto(c + 1) = Upto(c) \cup {c + 1}
      /\ Upto(c) \subseteq Pages /\ Upto(c + 1) \subseteq Pages
  BY <1>1, UptoIs
<1>3. \A i \in Addresses :
        /\ (Has(e, Upto(c + 1), i) <=> Has(e, Upto(c), i))
        /\ Latest(e, Upto(c + 1), i) = Latest(e, Upto(c), i)
  BY <1>2, BlankAdded
<1>4. \A i \in Addresses : Copied(e, c, i) <=> Copied(e, c + 1, i)
  BY <1>1, <1>3 DEF Copied
<1>5. Sourced(e, c, l, w) => Fresh(e, c + 1, l, w)
  <2> SUFFICES ASSUME Sourced(e, c, l, w), NEW i \in Addresses
               PROVE  /\ Good(l, w, i, Source(e, Before(c + 1), Other(c + 1), i))
                      /\ Has(e, Upto(c + 1), i) => Good(l, w, i, Latest(e, Upto(c + 1), i))
    BY DEF Fresh
  <2>1. Good(l, w, i, Source(e, Upto(c), Other(c), i))
    BY DEF Sourced
  <2>2. Has(e, Upto(c), i) => Good(l, w, i, Latest(e, Upto(c), i))
    BY <2>1 DEF Source
  <2> QED
    BY <1>1, <1>2, <1>3, <2>1, <2>2
<1> QED
  BY <1>3, <1>4, <1>5 DEF Exact, Kept, AllCopied, CopiedTo

\* The count from which a resumed transfer reckons goes on with the page.
LEMMA ResumableTurned ==
  ASSUME NEW e, NEW c \in Pages, Behind(c) # {}, e[c + 1] = BlankPage,
         Filled(e, c, PageElements), Resumable(e, c)
  PROVE  Resumable(e, c + 1)
<1> DEFINE m == PageElements * (c - BlockStart(c))
           k == PageElements * ((c + 1) - BlockStart(c + 1))
<1>1. m \in Nat /\ k = m + PageElements
  <2>1. (c + 1) - BlockStart(c + 1) = (c - BlockStart(c)) + 1 /\ c - BlockStart(c) \in Nat
    BY NextInHalf, Ring, Size, SMT
  <2> QED
    BY <2>1, Monotone, Successor, SizeAssumption
<1>2. m + PageElements < MaxWritten => CopiedTo(e, c, m + PageElements - 1)
  <2>1. PageElements \in 0..PageElements
    BY SizeAssumption, SMT
  <2> QED
    BY <2>1 DEF Resumable
<1>3. \A n \in 0..PageElements : Filled(e, c + 1, n) => n = 0
  <2> SUFFICES ASSUME NEW n \in 0..PageElements, Filled(e, c + 1, n), n # 0 PROVE FALSE
    OBVIOUS
  <2>1. 1 \in Slots /\ ~(1 > n)
    BY SizeAssumption, SMT DEF Slots
  <2> QED
    BY <2>1 DEF Filled, BlankPage
<1>4. CopiedTo(e, c, m + PageElements - 1) => CopiedTo(e, c + 1, m + PageElements - 1)
  BY PageTurned
<1>5. k < MaxWritten => CopiedTo(e, c + 1, k - 1)
  <2>1. k - 1 = m + PageElements - 1
    <3> HIDE DEF m, k
    <3> QED
      BY <1>1, SizeAssumption, SMT
  <2> HIDE DEF m, k
  <2> QED
    BY ONLY <1>1, <1>2, <1>4, <2>1
<1>6. k + 0 = k /\ k + 0 - 1 = k - 1
  <2>1. k \in Nat
    <3> HIDE DEF m, k
    <3> QED
      BY <1>1, SizeAssumption, SMT
  <2> HIDE DEF k
  <2> QED
    BY <2>1, SMT
<1>7. \A n \in 0..PageElements :
        Filled(e, c + 1, n) /\ k + n < MaxWritten => CopiedTo(e, c + 1, k + n - 1)
  <2> SUFFICES ASSUME NEW n \in 0..PageElements, Filled(e, c + 1, n), k + n < MaxWritten
               PROVE  CopiedTo(e, c + 1, k + n - 1)
    OBVIOUS
  <2>1. n = 0
    BY <1>3
  <2>2. k < MaxWritten
    BY <1>6, <2>1
  <2>3. CopiedTo(e, c + 1, k + 0 - 1)
    BY <1>5, <1>6, <2>2
  <2>4. k + n - 1 = k + 0 - 1
    BY <2>1
  <2> HIDE DEF k
  <2> QED
    BY ONLY <2>3, <2>4
<1> QED
  BY <1>7 DEF Resumable

\* A page in another place is erased or partly erased.
LEMMA OtherErased ==
  ASSUME NEW e, NEW f, NEW c \in Pages, \A p \in Upto(c) : f[p] = e[p], NEW l, NEW w
  PROVE  Kept(e, c, l, w) => Kept(f, c, l, w)
BY UptoIs, SamePages DEF Kept

\* The end of a transfer, and of the need for the other half.
LEMMA FreshIsKept ==
  ASSUME NEW e, NEW c \in Pages, NEW l, NEW w, Fresh(e, c, l, w), AllCopied(e, c)
  PROVE  Kept(e, c, l, w)
<1> SUFFICES ASSUME NEW i \in Addresses
             PROVE  Good(l, w, i, Latest(e, Upto(c), i))
  BY DEF Kept
<1>1. CASE Has(e, Upto(c), i)
  BY <1>1 DEF Fresh
<1>2. CASE ~Has(e, Upto(c), i)
  <2>1. ~Has(e, Other(c), i)
    BY <1>2 DEF AllCopied, Copied
  <2>2. ~Has(e, Before(c), i)
    BY <1>2, UptoIs DEF Has
  <2>3. Source(e, Before(c), Other(c), i) = NoData /\ Latest(e, Upto(c), i) = NoData
    BY <1>2, <2>1, <2>2 DEF Source, Latest
  <2> QED
    BY <2>3 DEF Fresh
<1> QED
  BY <1>1, <1>2

LEMMA KeptIsSourced ==
  ASSUME NEW e, NEW c \in Pages, NEW l, NEW w, AllCopied(e, c)
  PROVE  /\ Kept(e, c, l, w) => Sourced(e, c, l, w)
         /\ \A i \in Addresses : Source(e, Upto(c), Other(c), i) = Latest(e, Upto(c), i)
<1>1. \A i \in Addresses : Source(e, Upto(c), Other(c), i) = Latest(e, Upto(c), i)
  BY DEF Source, Latest, AllCopied, Copied
<1> QED
  BY <1>1 DEF Kept, Sourced

LEMMA FreshIsSourced ==
  ASSUME NEW e, NEW c \in Pages, NEW l, NEW w, Fresh(e, c, l, w)
  PROVE  Sourced(e, c, l, w)
<1> SUFFICES ASSUME NEW i \in Addresses
             PROVE  Good(l, w, i, Source(e, Upto(c), Other(c), i))
  BY DEF Sourced
<1>1. ~Has(e, Upto(c), i) => ~Has(e, Before(c), i)
  BY UptoIs DEF Has
<1> QED
  BY <1>1 DEF Fresh, Source

\* A ring that is ready or has been erased needs no other half.
LEMMA WipedIsCopied ==
  ASSUME NEW h, NEW e, NEW c, Wiped(h, e, Other(c))
  PROVE  AllCopied(e, c)
BY NoneInBlank DEF Wiped, AllCopied, Copied

LEMMA AllIsResumable ==
  ASSUME NEW e, NEW c, AllCopied(e, c)
  PROVE  Resumable(e, c) /\ \A n : CopiedTo(e, c, n)
BY DEF Resumable, CopiedTo, AllCopied

\* What EE_Init and a write leave for the reads.
LEMMA ContentsAre ==
  ASSUME NEW h \in Headers, NEW e, NEW c \in Pages, Ordered(h, e, c), AllCopied(e, c)
  PROVE  \A i \in Addresses : Contents(h, e, c)[i] = Latest(e, Upto(c), i)
BY ReadsReady, KeptIsSourced DEF Contents

-----------------------------------------------------------------------------
(* The invariant                                                           *)

\* A write's value is written before the others are transferred.
WrittenFirst == ~recover => Has(elem, Upto(cur), arg.a)

\* What PagesTransfer has done when it writes an element.
Progress ==
  /\ why = "copy" => CopiedTo(elem, cur, idx) /\ WrittenFirst
  /\ why = "new" /\ recover /\ ~Full => CopiedTo(elem, cur, nb - 1)

\* Where the program depends on the flash alone.
Starting == {"off", "nmi", "failed", "find", "transfer", "active"}

Data ==
  /\ arg # NoData => asked = arg
  /\ pc = "ready" => asked = NoData
  /\ pc \in Starting => FlashData(hdr, elem, last, asked)
  /\ pc \in {"format", "open"} => \A i \in Addresses : Good(last, asked, i, NoData)
  /\ pc \in {"count", "erase"} => Kept(elem, cur, last, asked)
  /\ pc \in {"ready", "spin"} => Exact(elem, cur, last) /\ AllCopied(elem, cur)
  /\ pc = "receive" => Exact(elem, Previous(cur), last)
  /\ pc = "mark" => Fresh(elem, cur, last, asked) /\ Resumable(elem, cur)
  /\ pc = "copy" => Fresh(elem, cur, last, asked) /\ CopiedTo(elem, cur, idx) /\ WrittenFirst
  /\ pc = "close" => Fresh(elem, cur, last, asked) /\ AllCopied(elem, cur)
  /\ pc \in {"put", "turn"} /\ why \in {"write", "dummy"} =>
       /\ Kept(elem, cur, last, asked) /\ AllCopied(elem, cur)
       /\ why = "write" => Exact(elem, cur, last)
  /\ pc = "put" /\ why \in {"new", "copy"} => Fresh(elem, cur, last, asked) /\ Progress
  /\ pc = "turn" /\ why \in {"new", "copy"} => Sourced(elem, cur, last, asked) /\ Progress

\* A step that the store does not see, or one of the store.
Seen == Store!Next \/ UNCHANGED Store!vars

LEMMA Quiet ==
  ASSUME pc \notin {"ready", "spin"}, pc' \notin {"ready", "spin"}, arg' = arg,
         UNCHANGED history
  PROVE  Seen
BY DEF Seen, Store!vars, history

\* A power loss, whatever the program was doing.
LEMMA GoesOff ==
  ASSUME pc' = "off", arg' = NoData, UNCHANGED history
  PROVE  Seen
BY DEF Seen, Store!Next, Store!PowerLoss, history

\* Data that is good for each variable is the store with or without the write.
LEMMA WithOrWithout ==
  ASSUME TypeOK, NEW l \in [Addresses -> Values \cup {NoData}],
         \A i \in Addresses : Good(last, asked, i, l[i])
  PROVE  l \in {last, Store!Stored(asked)}
<1>1. last \in [Addresses -> Values \cup {NoData}] /\ asked \in Variables \cup {NoData}
  BY DEF TypeOK
<1>2. CASE asked = NoData
  BY <1>1, <1>2 DEF Good
<1>3. CASE asked # NoData
  <2>1. asked \in Variables /\ asked.a \in Addresses
    BY <1>1, <1>3 DEF Variables
  <2> DEFINE f == [last EXCEPT ![asked.a] = asked.d]
  <2>2. Store!Stored(asked) = f
    BY <1>3 DEF Store!Stored
  <2>3. CASE l[asked.a] = last[asked.a]
    <3>1. \A i \in Addresses : l[i] = last[i]
      BY <2>3 DEF Good
    <3> QED
      BY <1>1, <3>1
  <2>4. CASE l[asked.a] = asked.d
    <3>1. \A i \in Addresses : l[i] = f[i]
      BY <1>1, <2>1, <2>4 DEF Good
    <3>2. f \in [Addresses -> Values \cup {NoData}]
      BY <1>1, <2>1 DEF Variables
    <3>3. l = f
      <4> HIDE DEF f
      <4> QED
        BY <3>1, <3>2
    <3> QED
      BY <2>2, <3>3
  <2> QED
    BY <1>3, <2>1, <2>3, <2>4 DEF Good
<1> QED
  BY <1>2, <1>3

\* A ring that is ready: the reads give what its half holds.
LEMMA ReadyData ==
  ASSUME TypeOK, IInv', Ready, AllCopied(elem', cur'), Kept(elem', cur', last, asked)
  PROVE  /\ Data' /\ last' \in {last, Store!Stored(asked)} /\ asked' = NoData
         /\ \A i \in Addresses : last'[i] = Latest(elem', Upto(cur'), i)
<1>1. /\ pc' = "ready" /\ arg' = NoData /\ asked' = NoData
      /\ last' = Contents(hdr', elem', cur')
  BY DEF Ready, Goto, ResetLocals
<1>2. hdr' \in Headers /\ cur' \in Pages /\ Ordered(hdr', elem', cur')
      /\ last' \in [Addresses -> Values \cup {NoData}]
  BY <1>1 DEF IInv, Places, AtReady, TypeOK, Headers
<1>3. \A i \in Addresses : last'[i] = Latest(elem', Upto(cur'), i)
  BY <1>1, <1>2, ContentsAre
<1>4. Exact(elem', cur', last')
  BY <1>3 DEF Exact
<1>5. last' \in {last, Store!Stored(asked)}
  BY <1>2, <1>3, WithOrWithout DEF Kept
<1>6. Data'
  BY <1>1, <1>4 DEF Data, Starting
<1> QED
  BY <1>1, <1>3, <1>5, <1>6

LEMMA ExactIsKept ==
  ASSUME NEW e, NEW c, NEW l, NEW w, Exact(e, c, l)
  PROVE  Kept(e, c, l, w)
BY DEF Exact, Kept, Good

\* The count of a page tells from where a transfer would be resumed.
LEMMA ResumableAt ==
  ASSUME NEW e, NEW c, NEW n \in 0..PageElements, Filled(e, c, n),
         NEW k, k = PageElements * (c - BlockStart(c)) + n,
         k < MaxWritten => CopiedTo(e, c, k - 1), k \in Nat, c - BlockStart(c) \in Nat
  PROVE  Resumable(e, c)
<1> DEFINE m == PageElements * (c - BlockStart(c))
<1>1. ASSUME NEW j \in 0..PageElements, Filled(e, c, j), m + j < MaxWritten
      PROVE  CopiedTo(e, c, m + j - 1)
  <2>1. j = n
    BY <1>1, LeadingFilled
  <2>2. m \in Nat
    BY SizeAssumption, Monotone
  <2>3. k = m + n
    OBVIOUS
  <2> HIDE DEF m
  <2>4. k < MaxWritten /\ k - 1 = m + j - 1
    BY <1>1, <2>1, <2>2, <2>3, SizeAssumption, SMT
  <2> QED
    BY <2>4
<1> QED
  BY <1>1 DEF Resumable

\* The variables that were before where a transfer is: a smaller number is no less true.
LEMMA CopiedToLess ==
  ASSUME NEW e, NEW c, NEW n \in Int, NEW k \in Int, k <= n, CopiedTo(e, c, n)
  PROVE  CopiedTo(e, c, k)
<1>1. \A i \in Addresses : i \in Nat
  BY SizeAssumption, SMT DEF Addresses
<1> QED
  BY <1>1 DEF CopiedTo

LEMMA NoneBefore ==
  ASSUME NEW e, NEW c, NEW n \in Int, n <= 1
  PROVE  CopiedTo(e, c, n)
BY SizeAssumption DEF CopiedTo, Addresses

-----------------------------------------------------------------------------
(* The steps of EE_Init                                                    *)

LEMMA PowerOnData ==
  ASSUME IInv, Data, PowerOn
  PROVE  Data' /\ Seen
<1>1. /\ pc = "off" /\ pc' \in {"nmi", "find"} /\ arg = NoData /\ arg' = NoData
      /\ UNCHANGED <<hdr, elem, last, asked>> /\ UNCHANGED history
  BY DEF IInv, Places, PowerOn, Goto, flash, locals, history
<1>2. FlashData(hdr', elem', last', asked')
  BY <1>1 DEF Data, Starting
<1> QED
  BY <1>1, <1>2, Quiet DEF Data, Starting

LEMMA FindReceiveData ==
  ASSUME IInv, IInv', Data, FindReceive
  PROVE  Data' /\ Seen
<1>1. /\ hdr \in Headers /\ elem \in Contained /\ Known(hdr, elem) /\ arg = NoData /\ arg' = NoData
      /\ pc = "find" /\ pc' = "transfer" /\ UNCHANGED history /\ UNCHANGED <<last, asked>>
      /\ InState("ACTIVE") \cup InState("RECEIVE") \cup InState("VALID") # {} /\ Perform
      /\ hdr' \in Headers /\ FlashData(hdr, elem, last, asked)
  BY Typing DEF IInv, Places, FindReceive, Goto, locals, history, TypeOK, Headers, Data, Starting
<1>2. CASE ~Resumes
  <2>1. hdr' = hdr /\ elem' = elem
    BY <1>1, <1>2, PendingIs, PerformsNothing DEF flash
  <2>2. FlashData(hdr', elem', last', asked')
    BY <1>1, <2>1
  <2> QED
    BY <1>1, <2>2, Quiet DEF Data, Starting
<1>3. CASE Resumes
  <2>1. ~Blank(hdr)
    <3> SUFFICES ASSUME Blank(hdr) PROVE FALSE
      OBVIOUS
    <3>1. \A p \in Pages : State(p) = "ERASED"
      BY <1>1, StateAt DEF Blank, State
    <3> QED
      BY <1>1, <3>1 DEF InState
  <2>2. PICK c \in Pages : Settled(hdr, elem, c) \/ Moving(hdr, elem, c) \/ Gap(hdr, elem, c)
    BY <1>1, <2>1 DEF Known
  <2>3. Gap(hdr, elem, c)
    <3>1. State(c) \notin {"ACTIVE", "RECEIVE"}
      BY <1>3 DEF Resumes, InState
    <3> QED
      BY <1>1, <2>2, <3>1, StateAt DEF Settled, Moving, State
  <2>4. AllErasing(hdr, c)
    <3>1. Previous(Min(InState("VALID"))) = LastOther(c)
      <4>1. Min(InState("VALID")) = BlockStart(c) /\ BlockStart(c) \in Pages
        BY <1>1, <2>3, GapValid, Halves
      <4> QED
        BY <4>1, Ring, Size, SMT DEF LastOther, OtherStart
    <3>2. PageState(hdr[LastOther(c)]) = "ERASING"
      BY <1>3, <3>1 DEF Resumes, State
    <3>3. ~Wiped(hdr, elem, Other(c))
      BY <1>1, <3>2, Halves, StateAt DEF Wiped
    <3> QED
      BY <2>3, <3>3 DEF Gap
  <2>5. c + 1 \in Pages /\ c + 1 \in Behind(c) /\ Pending = Line(c + 1, 1)
    BY <1>1, <1>3, <2>3, PendingIs, GapValid, Halves
  <2>6. hdr'[c + 1] = hdr[c + 1] \cup {1} /\ Elsewhere(hdr, hdr', c + 1) /\ elem' = elem
    BY <1>1, <2>5, PerformsLine, SMT
  <2>7. Moving(hdr', elem, c + 1)
    BY <1>1, <2>3, <2>4, <2>6, GapReceives DEF Receiving
  <2>8. Sourced(elem, c, last, asked) /\ Resumable(elem, c) /\ Filled(elem, c, PageElements)
    BY <1>1, <2>3 DEF FlashData
  <2>9. Behind(c) # {} /\ elem[c + 1] = BlankPage
    BY <2>3, <2>5 DEF Gap, Wiped
  <2>10. Fresh(elem, c + 1, last, asked) /\ Resumable(elem, c + 1)
    BY <2>8, <2>9, PageTurned, ResumableTurned
  <2>11. FlashData(hdr', elem', last', asked')
    BY <1>1, <2>5, <2>6, <2>7, <2>10, FlashMoving
  <2> QED
    BY <1>1, <2>11, Quiet DEF Data, Starting
<1> QED
  BY <1>2, <1>3

LEMMA FindNothingData ==
  ASSUME IInv, IInv', Data, FindNothing
  PROVE  Data' /\ Seen
<1>1. /\ pc = "find" /\ pc' = "format" /\ arg = NoData /\ arg' = NoData /\ UNCHANGED history
      /\ UNCHANGED <<hdr, elem, last, asked>>
  BY DEF IInv, Places, FindNothing, Goto, history, flash
<1>2. Blank(hdr)
  BY <1>1 DEF IInv, Places, AtFormat
<1>3. \A i \in Addresses : Good(last, asked, i, NoData)
  BY <1>1, <1>2 DEF Data, Starting, FlashData
<1>4. \A i \in Addresses : Good(last', asked', i, NoData)
  BY <1>1, <1>3
<1> QED
  BY <1>1, <1>4, Quiet DEF Data, Starting

LEMMA FormatData ==
  ASSUME IInv, Data, Format
  PROVE  Data' /\ Seen
<1>1. /\ pc = "format" /\ pc' \in {"format", "open"} /\ arg = NoData /\ arg' = NoData
      /\ UNCHANGED history /\ UNCHANGED <<last, asked>>
  BY DEF IInv, Places, Format, Goto, history
<1>2. \A i \in Addresses : Good(last', asked', i, NoData)
  BY <1>1 DEF Data
<1> QED
  BY <1>1, <1>2, Quiet DEF Data, Starting

\* The end of EE_Init settles the write that the power loss interrupted.
LEMMA Restarts ==
  ASSUME IInv, IInv', Ready, UNCHANGED answer, pc \notin {"ready", "spin"}, arg = NoData,
         AllCopied(elem', cur'), Kept(elem', cur', last, asked)
  PROVE  Data' /\ Seen
<1>1. Data' /\ last' \in {last, Store!Stored(asked)} /\ asked' = NoData
  BY ReadyData DEF IInv
<1>2. pc' = "ready"
  BY DEF Ready, Goto
<1>3. Store!Restart
  BY <1>1, <1>2 DEF Store!Restart
<1> QED
  BY <1>1, <1>3 DEF Seen, Store!Next

LEMMA OpenFirstPageData ==
  ASSUME IInv, IInv', Data, OpenFirstPage
  PROVE  Data' /\ Seen
<1>1. /\ hdr \in Headers /\ Wiped(hdr, elem, Pages) /\ pc = "open" /\ Perform /\ cur' = 0
      /\ Ready /\ UNCHANGED answer /\ arg = NoData
  BY Typing DEF IInv, Places, OpenFirstPage
<1>2. 0 \in Pages
  BY Size, SMT DEF Pages
<1>3. elem' = elem
  <2>1. Pending = Line(0, 2) /\ 2 \in 1..4
    BY <1>1, PendingIs
  <2> QED
    BY <1>1, <1>2, <2>1, PerformsLine
<1>4. \A P \in SUBSET Pages : \A i \in Addresses : ~Has(elem, P, i)
  BY <1>1, NoneInBlank DEF Wiped
<1>5. Upto(0) \subseteq Pages /\ Other(0) \subseteq Pages
  BY <1>2, UptoIs, Halves
<1>6. AllCopied(elem, 0)
  BY <1>4, <1>5 DEF AllCopied, Copied
<1>7. Kept(elem, 0, last, asked)
  <2>1. \A i \in Addresses : Latest(elem, Upto(0), i) = NoData
    BY <1>4, <1>5 DEF Latest
  <2> QED
    BY <1>1, <2>1 DEF Kept, Data
<1> QED
  BY <1>1, <1>3, <1>6, <1>7, Restarts

LEMMA NoTransferData ==
  ASSUME IInv, Data, NoTransfer
  PROVE  Data' /\ Seen
<1>1. /\ pc = "transfer" /\ pc' = "active" /\ arg = NoData /\ arg' = NoData
      /\ UNCHANGED <<hdr, elem, last, asked>> /\ UNCHANGED history
  BY DEF IInv, Places, NoTransfer, Goto, flash, locals, history
<1>2. FlashData(hdr', elem', last', asked')
  BY <1>1 DEF Data, Starting
<1> QED
  BY <1>1, <1>2, Quiet DEF Data, Starting

LEMMA ResumeTransferData ==
  ASSUME IInv, IInv', Data, ResumeTransfer
  PROVE  Data' /\ Seen
<1>1. /\ pc = "transfer" /\ pc' = "mark" /\ arg = NoData /\ arg' = NoData
      /\ UNCHANGED <<hdr, elem, last, asked>> /\ UNCHANGED history
  BY DEF IInv, Places, ResumeTransfer, Goto, flash, history
<1>2. Moving(hdr, elem, cur') /\ cur' \in Pages
  BY <1>1 DEF IInv, Places, AtMark, TypeOK
<1>3. Fresh(elem, cur', last, asked) /\ Resumable(elem, cur')
  BY <1>1, <1>2 DEF Data, Starting, FlashData
<1>4. Fresh(elem', cur', last', asked') /\ Resumable(elem', cur')
  BY <1>1, <1>3
<1> QED
  BY <1>1, <1>4, Quiet DEF Data, Starting

LEMMA FindActiveData ==
  ASSUME IInv, IInv', Data, FindActive
  PROVE  Data' /\ Seen
<1>1. /\ hdr \in Headers /\ AtActive /\ arg = NoData /\ pc = "active" /\ Perform
      /\ FlashData(hdr, elem, last, asked)
  BY Typing DEF IInv, Places, FindActive, Data, Starting
<1>2. arg' = NoData /\ pc' \in {"failed", "count"} /\ UNCHANGED history /\ UNCHANGED <<last, asked>>
  BY <1>1 DEF FindActive, Fails, Goto, ResetLocals, history, locals
<1>3. CASE Reliable("ACTIVE") # {}
  <2>1. hdr' = hdr /\ elem' = elem
    BY <1>1, <1>3, PendingIs, PerformsNothing DEF flash
  <2>2. FlashData(hdr', elem', last', asked')
    BY <1>1, <1>2, <2>1
  <2>3. pc' = "count" => Kept(elem', cur', last', asked')
    BY <2>2 DEF IInv, Places, FlashData, TypeOK
  <2> QED
    BY <1>1, <1>2, <2>2, <2>3, Quiet DEF Data, Starting
<1>4. CASE Reliable("ACTIVE") = {}
  <2>1. PICK c \in Pages : Gap(hdr, elem, c) /\ Wiped(hdr, elem, Other(c))
    BY <1>1, <1>4, SettledReliable DEF AtActive
  <2>2. Following(LastValid) = c + 1 /\ c + 1 \in Pages /\ c + 1 \in Behind(c)
    BY <1>1, <2>1, GapValid, Halves
  <2>3. Pending = Line(c + 1, 2) /\ 2 \in 1..4
    BY <1>1, <1>4, <2>2, PendingIs
  <2>4. elem' = elem
    BY <1>1, <2>2, <2>3, PerformsLine
  <2>5. cur' = c + 1 /\ pc' = "count"
    <3>1. ~(Cardinality({}) > 1)
      BY FS_EmptySet, SMT
    <3> QED
      BY <1>4, <2>2, <3>1 DEF FindActive, Goto
  <2>6. AllCopied(elem, c) /\ Behind(c) # {} /\ elem[c + 1] = BlankPage
    BY <2>1, <2>2, WipedIsCopied DEF Gap, Wiped
  <2>7. Kept(elem, c, last, asked)
    <3>1. Sourced(elem, c, last, asked)
      BY <1>1, <2>1 DEF FlashData
    <3> QED
      BY <2>6, <3>1, KeptIsSourced DEF Sourced, Kept
  <2>8. Kept(elem, c + 1, last, asked)
    BY <2>6, <2>7, PageTurned
  <2>9. Kept(elem', cur', last', asked')
    BY <1>2, <2>4, <2>5, <2>8
  <2> QED
    BY <1>1, <1>2, <2>5, <2>9, Quiet DEF Data, Starting
<1> QED
  BY <1>3, <1>4

LEMMA CountElementsData ==
  ASSUME IInv, Data, CountElements
  PROVE  Data' /\ Seen
<1>1. /\ hdr \in Headers /\ Settled(hdr, elem, cur) /\ arg = NoData /\ cur \in Pages
      /\ pc = "count" /\ hdr' = hdr /\ elem' = elem /\ cur' = cur
      /\ Kept(elem, cur, last, asked)
  BY Typing DEF IInv, Places, CountElements, flash, Data
<1>2. /\ arg' = NoData /\ pc' \in {"failed", "erase"} /\ UNCHANGED history
      /\ UNCHANGED <<last, asked>>
  BY <1>1 DEF CountElements, Fails, Goto, ResetLocals, history
<1>3. Kept(elem', cur', last', asked')
  BY <1>1, <1>2
<1>4. FlashData(hdr, elem, last, asked)
  BY <1>1, FlashSettled
<1>5. FlashData(hdr', elem', last', asked')
  BY <1>1, <1>2, <1>4
<1> QED
  BY <1>1, <1>2, <1>3, <1>5, Quiet DEF Data, Starting

LEMMA ErasePageData ==
  ASSUME IInv, Data, ErasePage
  PROVE  Data' /\ Seen
<1>1. /\ hdr \in Headers /\ elem \in Contained /\ AtErase /\ cur \in Pages /\ page \in Pages
      /\ pc = "erase" /\ pc' = "erase" /\ page # BlockStart(cur) /\ arg = NoData /\ arg' = NoData
      /\ cur' = cur /\ UNCHANGED history /\ UNCHANGED <<last, asked>>
      /\ elem' = [elem EXCEPT ![page] = BlankPage] /\ Kept(elem, cur, last, asked)
  BY Typing, PendingIs, PerformsErase DEF IInv, Places, ErasePage, Data, globals, history
<1>2. page \notin Upto(cur)
  <2>1. page \in Behind(cur) \cup Other(cur)
    BY <1>1 DEF AtErase
  <2> QED
    BY <1>1, <2>1, UptoIs
<1>3. \A p \in Upto(cur) : elem'[p] = elem[p]
  BY <1>1, <1>2, UptoIs DEF Contained
<1>4. Kept(elem', cur, last, asked)
  BY <1>1, <1>3, OtherErased
<1>5. Kept(elem', cur', last', asked')
  BY <1>1, <1>4
<1> QED
  BY <1>1, <1>5, Quiet DEF Data, Starting

LEMMA EraseDoneData ==
  ASSUME IInv, IInv', Data, EraseDone
  PROVE  Data' /\ Seen
<1>1. /\ AtErase /\ cur \in Pages /\ page = BlockStart(cur) /\ arg = NoData
      /\ pc = "erase" /\ elem' = elem /\ cur' = cur /\ Kept(elem, cur, last, asked)
  BY Typing DEF IInv, Places, EraseDone, Data, flash, globals
<1>2. AllCopied(elem, cur)
  <2>1. page \notin Behind(cur) /\ page \notin Other(cur)
    BY <1>1, Ring, Size, SMT DEF Behind, Other, OtherStart, LastOther
  <2>2. Wiped(hdr, elem, Other(cur))
    BY <1>1, <2>1 DEF AtErase, Reached, Wiped
  <2> QED
    BY <2>2, WipedIsCopied
<1>3. AllCopied(elem', cur') /\ Kept(elem', cur', last, asked)
  BY <1>1, <1>2
<1>4. CASE Ready /\ UNCHANGED answer
  BY <1>1, <1>3, <1>4, Restarts
<1>5. CASE pc' = "put" /\ why' = "dummy" /\ UNCHANGED <<page, idx, recover, arg, history>>
  <2>1. arg' = NoData /\ UNCHANGED <<last, asked>> /\ UNCHANGED history
    BY <1>1, <1>5 DEF history
  <2>2. Kept(elem', cur', last', asked')
    BY <1>3, <2>1
  <2> QED
    BY <1>1, <1>3, <1>5, <2>1, <2>2, Quiet DEF Data, Starting
<1> QED
  BY <1>4, <1>5 DEF EraseDone, Goto

-----------------------------------------------------------------------------
(* The steps of a write                                                    *)

LEMMA WriteData ==
  ASSUME IInv, IInv', Data, NEW a \in Addresses, NEW d \in Values, Write(a, d)
  PROVE  Data' /\ Seen
<1> DEFINE x == [a |-> a, d |-> d]
<1>1. /\ cur \in Pages /\ pc = "ready" /\ arg = NoData /\ elem' = elem /\ hdr' = hdr
      /\ Exact(elem, cur, last) /\ AllCopied(elem, cur) /\ asked = NoData
  BY Typing DEF IInv, Places, Write, Data, flash
<1>2. x \in Variables /\ x # NoData
  <2>1. x \in Variables
    BY DEF Variables
  <2> QED
    BY <2>1, LineAssumption
<1>3. CASE ~ReadEnds(a)
  <2>1. pc' = "spin" /\ asked' = x /\ UNCHANGED <<globals, locals, last, answer>>
    BY <1>3 DEF Write, Goto
  <2>2. cur' = cur /\ arg' = NoData /\ last' = last
    BY <1>1, <2>1 DEF globals, locals
  <2>3. Exact(elem', cur', last') /\ AllCopied(elem', cur')
    BY <1>1, <2>2
  <2>4. Data'
    BY <2>1, <2>2, <2>3 DEF Data, Starting
  <2>5. Store!Write
    BY <1>1, <2>1 DEF Store!Write
  <2> QED
    BY <2>4, <2>5 DEF Seen, Store!Next
<1>4. CASE ReadEnds(a) /\ (ReadStart(hdr, cur) = -1 \/ (Full /\ State(Following(cur)) # "ERASED"))
  <2>1. answer' = FALSE /\ UNCHANGED <<pc, globals, locals, last, asked>>
    BY <1>4 DEF Write
  <2>2. cur' = cur /\ arg' = NoData /\ last' = last /\ asked' = NoData /\ pc' = "ready"
    BY <1>1, <2>1 DEF globals, locals
  <2>3. Exact(elem', cur', last') /\ AllCopied(elem', cur')
    BY <1>1, <2>2
  <2>4. Data'
    BY <2>2, <2>3 DEF Data, Starting
  <2>5. Store!RefuseAtOnce
    BY <1>1, <2>1, <2>2 DEF Store!RefuseAtOnce
  <2> QED
    BY <2>4, <2>5 DEF Seen, Store!Next
<1>5. CASE ReadEnds(a) /\ ~(ReadStart(hdr, cur) = -1 \/ (Full /\ State(Following(cur)) # "ERASED"))
  <2>1. arg' = x /\ asked' = x /\ last' = last /\ answer' = answer
    BY <1>5 DEF Write
  <2>2. pc' \in {"put", "receive"}
    BY <1>5 DEF Write, Goto
  <2>3. Store!Write
    BY <1>1, <1>2, <2>1, <2>2 DEF Store!Write
  <2>4. CASE ~Full
    <3>1. pc' = "put" /\ why' = "write" /\ cur' = cur
      BY <1>5, <2>4 DEF Write, Goto, globals
    <3>2. Kept(elem, cur, last, x)
      BY <1>1, ExactIsKept
    <3>3. Kept(elem', cur', last', asked') /\ AllCopied(elem', cur') /\ Exact(elem', cur', last')
      <4> HIDE DEF x
      <4> QED
        BY <1>1, <2>1, <3>1, <3>2
    <3>4. Data'
      BY <2>1, <3>1, <3>3 DEF Data, Starting
    <3> QED
      BY <2>3, <3>4 DEF Seen, Store!Next
  <2>5. CASE Full
    <3>1. pc' = "receive" /\ cur' = Following(cur)
      BY <1>5, <2>5 DEF Write, Goto
    <3>2. Previous(Following(cur)) = cur
      BY <1>1, Ring, Size, SMT
    <3>3. Exact(elem', Previous(cur'), last')
      BY <1>1, <2>1, <3>1, <3>2
    <3>4. Data'
      BY <2>1, <3>1, <3>3 DEF Data, Starting
    <3> QED
      BY <2>3, <3>4 DEF Seen, Store!Next
  <2> QED
    BY <2>4, <2>5
<1> QED
  BY <1>3, <1>4, <1>5

\* A step inside a write or EE_Init.
LEMMA GoesOn ==
  ASSUME pc \in {"receive", "mark", "copy", "close", "put", "turn"},
         pc' \in {"receive", "mark", "copy", "close", "put", "turn"}, arg' = arg,
         UNCHANGED history
  PROVE  Seen
BY Quiet

LEMMA SetReceiveData ==
  ASSUME IInv, IInv', Data, SetReceive
  PROVE  Data' /\ Seen
<1>1. /\ hdr \in Headers /\ AtReceive /\ cur \in Pages /\ pc = "receive" /\ Perform
      /\ pc' = "mark" /\ cur' = cur /\ arg' = arg /\ UNCHANGED history /\ UNCHANGED <<last, asked>>
      /\ Exact(elem, Previous(cur), last) /\ (arg # NoData => asked = arg)
  BY Typing DEF IInv, Places, SetReceive, Goto, globals, history, Data
<1>2. elem' = elem
  <2>1. Pending = Line(cur, 1) /\ 1 \in 1..4
    BY <1>1, PendingIs
  <2> QED
    BY <1>1, <2>1, PerformsLine
<1> DEFINE q == Previous(cur)
<1>3. /\ q \in Pages /\ BlockStart(cur) = cur /\ cur \in Other(q)
      /\ Other(cur) = Upto(q) /\ Before(cur) = {} /\ Upto(cur) = {cur}
  <2>1. q \in Pages /\ q \in Nat /\ cur \in Nat /\ q < 2 * Half /\ cur < 2 * Half
    BY <1>1, Ring
  <2>2. cur = Half - BlockStart(q) /\ BlockStart(q) = IF q < Half THEN 0 ELSE Half
    BY <1>1, <2>1, Ring DEF AtReceive, OtherStart
  <2>3. BlockStart(cur) = cur
    BY <2>1, <2>2, Size, SMT DEF BlockStart
  <2>4. q = 2 * Half - cur - 1
    <3>1. q = LastOther(cur)
      BY <1>1 DEF AtReceive
    <3> QED
      BY <2>1, <2>3, <3>1, Size, SMT DEF LastOther, OtherStart
  <2> HIDE DEF q
  <2>5. cur \in Other(q)
    BY <2>1, <2>2, Size, SMT DEF Other, OtherStart, LastOther
  <2>6. Other(cur) = Upto(q)
    BY <2>1, <2>2, <2>3, <2>4, Size, SMT DEF Other, Upto, OtherStart, LastOther
  <2>7. Before(cur) = {} /\ Upto(cur) = {cur}
    BY <2>1, <2>3, SMT DEF Before, Upto
  <2> QED
    BY <2>1, <2>3, <2>5, <2>6, <2>7
<1>4. elem[cur] = BlankPage
  BY <1>1, <1>3 DEF AtReceive, Wiped
<1>5. \A i \in Addresses : ~Has(elem, Before(cur), i) /\ ~Has(elem, Upto(cur), i)
  BY <1>3, <1>4, NoneInBlank
<1>6. Fresh(elem, cur, last, asked)
  <2> SUFFICES ASSUME NEW i \in Addresses
               PROVE  Good(last, asked, i, Source(elem, Before(cur), Other(cur), i))
    BY <1>5 DEF Fresh
  <2>1. Source(elem, Before(cur), Other(cur), i) = Latest(elem, Upto(q), i)
    BY <1>3, <1>5 DEF Source
  <2> QED
    BY <1>1, <2>1 DEF Exact, Good
<1>7. Resumable(elem, cur)
  <2>1. Filled(elem, cur, 0)
    BY <1>4, SizeAssumption, SMT DEF Filled, BlankPage, Slots
  <2>2. PageElements * (cur - BlockStart(cur)) + 0 = 0 /\ cur - BlockStart(cur) \in Nat
    <3>1. cur - BlockStart(cur) = 0
      BY <1>1, <1>3, Ring, SMT
    <3> QED
      BY <3>1, SizeAssumption, SMT
  <2>3. CopiedTo(elem, cur, 0 - 1)
    BY NoneBefore
  <2>4. 0 \in 0..PageElements /\ 0 \in Nat
    BY SizeAssumption, SMT
  <2> QED
    BY <2>1, <2>2, <2>3, <2>4, ResumableAt
<1>8. Fresh(elem', cur', last', asked') /\ Resumable(elem', cur')
  BY <1>1, <1>2, <1>6, <1>7
<1>9. arg' # NoData => asked' = arg'
  BY <1>1
<1> QED
  BY <1>1, <1>8, <1>9, GoesOn DEF Data, Starting

LEMMA MarkErasingData ==
  ASSUME IInv, Data, MarkErasing
  PROVE  Data' /\ Seen
<1>1. /\ hdr \in Headers /\ pc = "mark" /\ pc' = "mark" /\ cur' = cur /\ arg' = arg
      /\ page \in Pages /\ Perform
      /\ UNCHANGED history /\ UNCHANGED <<last, asked>>
      /\ Fresh(elem, cur, last, asked) /\ Resumable(elem, cur) /\ (arg # NoData => asked = arg)
  BY Typing DEF IInv, MarkErasing, globals, history, Data
<1>2. elem' = elem
  <2>1. CASE Marks(page)
    <3>1. Pending = Line(page, 4) /\ 4 \in 1..4
      BY <1>1, <2>1, PendingIs
    <3> QED
      BY <1>1, <3>1, PerformsLine
  <2>2. CASE ~Marks(page)
    BY <1>1, <2>2, PendingIs, PerformsNothing DEF flash
  <2> QED
    BY <2>1, <2>2
<1>3. Fresh(elem', cur', last', asked') /\ Resumable(elem', cur')
  BY <1>1, <1>2
<1>4. arg' # NoData => asked' = arg'
  BY <1>1
<1> QED
  BY <1>1, <1>3, <1>4, GoesOn DEF Data, Starting

LEMMA MarkDoneData ==
  ASSUME IInv, IInv', Data, MarkDone
  PROVE  Data' /\ Seen
<1> DEFINE failing == page = Previous(cur) /\ ~(recover /\ State(page) = "VALID")
<1>1. /\ hdr \in Headers /\ AtMark /\ cur \in Pages /\ pc = "mark" /\ ~Marks(page)
      /\ State(page) # "ERASING" /\ elem' = elem /\ hdr' = hdr
      /\ Fresh(elem, cur, last, asked) /\ Resumable(elem, cur) /\ (arg # NoData => asked = arg)
  BY Typing DEF IInv, Places, MarkDone, flash, Data
<1>2. CASE failing
  <2>1. recover
    BY <1>1, <1>2, MarksDone
  <2>2. arg = NoData
    BY <1>1, <2>1 DEF AtMark, Role
  <2>3. pc' = "failed" /\ arg' = NoData /\ UNCHANGED history /\ UNCHANGED <<last, asked>>
    BY <1>2, <2>2 DEF MarkDone, Fails, Goto, ResetLocals, history
  <2>4. FlashData(hdr, elem, last, asked)
    BY <1>1, FlashMoving DEF AtMark
  <2>5. FlashData(hdr', elem', last', asked')
    BY <1>1, <2>3, <2>4
  <2> QED
    BY <1>1, <2>2, <2>3, <2>5, Quiet DEF Data, Starting
<1>3. CASE ~failing
  <2>1. /\ pc' = "put" /\ why' = "new" /\ recover' = recover /\ arg' = arg /\ cur' = cur
        /\ UNCHANGED history /\ UNCHANGED <<last, asked>>
    BY <1>3 DEF MarkDone, Goto, globals, history
  <2>2. Counted(elem, cur, next', nb') /\ nb' \in Nat /\ next' \in 1..(PageElements + 1)
    BY <1>1, <2>1, Room DEF IInv, Places, AtPut, Here, TypeOK
  <2>3. recover' /\ ~Full' => CopiedTo(elem', cur', nb' - 1)
    <3> DEFINE n == next' - 1
               m == PageElements * (cur - BlockStart(cur))
    <3>0. n \in 0..PageElements
      <4>1. \A x \in 1..(PageElements + 1) : x - 1 \in 0..PageElements
        BY SizeAssumption, SMT
      <4> QED
        BY <2>2, <4>1
    <3>1. n \in 0..PageElements /\ Filled(elem, cur, n) /\ nb' = m + next' - 1
      BY <2>2, <3>0 DEF Counted
    <3>2. m \in Nat
      <4>1. cur - BlockStart(cur) \in Nat
        BY <1>1, Ring, Size, SMT
      <4> QED
        BY <4>1, SizeAssumption, Monotone
    <3>3. m + n < MaxWritten => CopiedTo(elem, cur, m + n - 1)
      BY <1>1, <3>1 DEF Resumable
    <3>4. m + n = nb' /\ m + n - 1 = nb' - 1
      <4> HIDE DEF m
      <4> QED
        BY <2>2, <3>1, <3>2, SMT
    <3>5. ~Full' => nb' < MaxWritten
      BY <2>2, Room, SMT DEF Full
    <3> HIDE DEF m, n
    <3> QED
      BY <1>1, <2>1, <3>3, <3>4, <3>5
  <2>4. Fresh(elem', cur', last', asked')
    BY <1>1, <2>1
  <2>5. arg' # NoData => asked' = arg'
    BY <1>1, <2>1
  <2>6. Progress'
    BY <2>1, <2>3 DEF Progress
  <2> QED
    BY <1>1, <2>1, <2>4, <2>5, <2>6, GoesOn DEF Data, Starting
<1> QED
  BY <1>2, <1>3

-----------------------------------------------------------------------------
(* The steps of PagesTransfer and VerifyPagesFullWriteVariable             *)

\* A variable that the loop over varidx passes by needs no copy.
LEMMA PassedBy ==
  ASSUME IInv, Data, pc = "copy", NEW i \in Addresses, i \notin ToCopy
  PROVE  Copied(elem, cur, i)
<1>1. /\ hdr \in Headers /\ cur \in Pages /\ Receiving(hdr, elem, cur) /\ idx \in Nat
      /\ CopiedTo(elem, cur, idx) /\ WrittenFirst
  BY Typing DEF IInv, Places, AtCopy, Data
<1>2. i \in Nat /\ i <= NbOfVariables
  BY SizeAssumption, SMT DEF Addresses
<1>3. CASE i < idx
  BY <1>1, <1>3 DEF CopiedTo
<1>4. CASE ~(i < idx) /\ ~(recover \/ i # arg.a)
  BY <1>1, <1>4 DEF WrittenFirst, Copied
<1>5. CASE ~(i < idx) /\ (recover \/ i # arg.a)
  <2>1. i \in idx..NbOfVariables
    BY <1>1, <1>2, <1>5, SizeAssumption, SMT
  <2>2. ReadVariable(hdr, elem, cur, i) = NoData
    BY <1>5, <2>1 DEF ToCopy
  <2>3. ~Holds(elem, cur, i)
    BY <1>1, <2>2, ReadsInTransfer
  <2> QED
    BY <2>3 DEF Holds, Copied, Has, Of
<1> QED
  BY <1>3, <1>4, <1>5

LEMMA CopyNextData ==
  ASSUME IInv, Data, CopyNext
  PROVE  Data' /\ Seen
<1>1. /\ pc = "copy" /\ ToCopy # {} /\ idx' = Min(ToCopy) /\ why' = "copy" /\ pc' = "put"
      /\ UNCHANGED <<elem, cur, recover, arg, last, asked>> /\ UNCHANGED history
      /\ Fresh(elem, cur, last, asked) /\ WrittenFirst /\ (arg # NoData => asked = arg)
      /\ idx \in Nat
  BY Typing DEF IInv, CopyNext, Goto, flash, globals, history, Data
<1>2. ToCopy \subseteq Nat
  BY <1>1, SizeAssumption, SMT DEF ToCopy
<1>3. \A j \in ToCopy : idx' <= j
  BY <1>1, <1>2, MinOf
<1>4. idx' \in Nat
  BY <1>1, <1>2, MinOf
<1>5. CopiedTo(elem, cur, idx')
  <2> SUFFICES ASSUME NEW i \in Addresses, i < idx' PROVE Copied(elem, cur, i)
    BY DEF CopiedTo
  <2>1. i \in Nat
    BY SizeAssumption, SMT DEF Addresses
  <2>2. i \notin ToCopy
    BY <1>3, <1>4, <2>1, SMT
  <2> QED
    BY <1>1, <2>2, PassedBy
<1>6. WrittenFirst'
  BY <1>1 DEF WrittenFirst
<1>7. Progress'
  BY <1>1, <1>5, <1>6 DEF Progress
<1>8. Fresh(elem', cur', last', asked') /\ (arg' # NoData => asked' = arg')
  BY <1>1
<1> QED
  BY <1>1, <1>7, <1>8, GoesOn DEF Data, Starting

LEMMA CopyDoneData ==
  ASSUME IInv, Data, CopyDone
  PROVE  Data' /\ Seen
<1>1. /\ pc = "copy" /\ ToCopy = {} /\ pc' = "close"
      /\ UNCHANGED <<elem, cur, arg, last, asked>> /\ UNCHANGED history
      /\ Fresh(elem, cur, last, asked) /\ (arg # NoData => asked = arg)
  BY DEF CopyDone, Goto, flash, globals, locals, history, Data
<1>2. AllCopied(elem, cur)
  BY <1>1, PassedBy DEF AllCopied
<1>3. /\ Fresh(elem', cur', last', asked') /\ AllCopied(elem', cur')
      /\ (arg' # NoData => asked' = arg')
  BY <1>1, <1>2
<1> QED
  BY <1>1, <1>3, GoesOn DEF Data, Starting

LEMMA CloseData ==
  ASSUME IInv, IInv', Data, Close
  PROVE  Data' /\ Seen
<1>1. /\ TypeOK /\ hdr \in Headers /\ hdr' \in Headers /\ AtCopy /\ cur \in Pages /\ pc = "close"
      /\ Perform /\ cur' = cur /\ Fresh(elem, cur, last, asked) /\ AllCopied(elem, cur)
      /\ (arg # NoData => asked = arg)
  BY Typing DEF IInv, Places, Close, globals, Data, TypeOK, Headers
<1>2. hdr'[cur] = hdr[cur] \cup {2} /\ Elsewhere(hdr, hdr', cur) /\ elem' = elem
  <2>1. Pending = Line(cur, 2) /\ 2 \in 1..4
    BY <1>1, PendingIs
  <2> QED
    BY <1>1, <2>1, PerformsLine
<1>3. Kept(elem, cur, last, asked)
  BY <1>1, FreshIsKept
<1>4. CASE recover
  <2>1. /\ pc' = "active" /\ arg' = arg /\ arg = NoData /\ UNCHANGED history
        /\ UNCHANGED <<last, asked>>
    BY <1>1, <1>4 DEF Close, Goto, locals, history, AtCopy, Role
  <2>2. Settled(hdr', elem, cur)
    BY <1>1, <1>2, ReceivingCloses DEF AtCopy, Ordered
  <2>3. FlashData(hdr', elem, last, asked)
    BY <1>1, <1>3, <2>2, FlashSettled
  <2>4. FlashData(hdr', elem', last', asked')
    BY <1>2, <2>1, <2>3
  <2> QED
    BY <1>1, <2>1, <2>4, Quiet DEF Data, Starting
<1>5. CASE ~recover
  <2>1. Ready /\ answer' = FALSE /\ arg # NoData
    BY <1>1, <1>5 DEF Close, AtCopy, Role
  <2>2. AllCopied(elem', cur') /\ Kept(elem', cur', last, asked)
    BY <1>1, <1>2, <1>3
  <2>3. Data' /\ last' \in {last, Store!Stored(asked)} /\ asked' = NoData
    BY <1>1, <2>1, <2>2, ReadyData
  <2>4. pc' = "ready"
    BY <2>1 DEF Ready, Goto
  <2>5. Store!Refuse
    BY <1>1, <2>1, <2>3, <2>4 DEF Store!Refuse
  <2> QED
    BY <2>3, <2>5 DEF Seen, Store!Next
<1> QED
  BY <1>4, <1>5

LEMMA LeavePageData ==
  ASSUME IInv, Data, LeavePage
  PROVE  Data' /\ Seen
<1>1. /\ hdr \in Headers /\ pc = "put" /\ pc' = "turn" /\ Perform /\ ~Full /\ PageFull
      /\ UNCHANGED <<why, idx, recover, arg, cur, nb, last, asked>> /\ UNCHANGED history
      /\ cur \in Pages /\ (arg # NoData => asked = arg)
      /\ why \in {"write", "new", "copy", "dummy"}
  BY Typing DEF IInv, LeavePage, Goto, globals, locals, history, TypeOK, Data
<1>2. elem' = elem
  <2>1. Pending = Line(cur, 3) /\ 3 \in 1..4
    BY <1>1, PendingIs
  <2> QED
    BY <1>1, <2>1, PerformsLine
<1>3. arg' # NoData => asked' = arg'
  BY <1>1
<1>4. CASE why \in {"write", "dummy"}
  <2>1. /\ Kept(elem, cur, last, asked) /\ AllCopied(elem, cur)
        /\ why = "write" => Exact(elem, cur, last)
    BY <1>1, <1>4 DEF Data
  <2>2. /\ Kept(elem', cur', last', asked') /\ AllCopied(elem', cur')
        /\ why' = "write" => Exact(elem', cur', last')
    BY <1>1, <1>2, <2>1
  <2> QED
    BY <1>1, <1>3, <1>4, <2>2, GoesOn DEF Data, Starting
<1>5. CASE why \in {"new", "copy"}
  <2>1. Fresh(elem, cur, last, asked) /\ Progress
    BY <1>1, <1>5 DEF Data
  <2>2. Sourced(elem, cur, last, asked)
    BY <1>1, <2>1, FreshIsSourced
  <2>3. Sourced(elem', cur', last', asked') /\ Progress'
    BY <1>1, <1>2, <2>1, <2>2 DEF Progress, WrittenFirst, Full
  <2> QED
    BY <1>1, <1>3, <1>5, <2>3, GoesOn DEF Data, Starting
<1> QED
  BY <1>1, <1>4, <1>5

LEMMA EnterPageData ==
  ASSUME IInv, Data, EnterPage
  PROVE  Data' /\ Seen
<1>1. /\ hdr \in Headers /\ pc = "turn" /\ pc' = "put" /\ Perform /\ cur' = Following(cur)
      /\ UNCHANGED <<why, idx, recover, arg, nb, last, asked>> /\ UNCHANGED history
      /\ cur \in Pages /\ Gap(hdr, elem, cur) /\ (arg # NoData => asked = arg)
      /\ why \in {"write", "new", "copy", "dummy"}
  BY Typing DEF IInv, Places, AtTurn, EnterPage, Goto, locals, history, TypeOK, Data
<1>2. /\ cur' = cur + 1 /\ cur + 1 \in Pages /\ Behind(cur) # {} /\ elem[cur + 1] = BlankPage
  <2>1. Behind(cur) # {}
    BY <1>1 DEF Gap
  <2> QED
    BY <1>1, <2>1, NextInHalf DEF Gap, Wiped
<1> DEFINE i == IF 2 \in hdr[cur] THEN 2 ELSE 1
<1>3. elem' = elem
  <2>1. Pending = Line(cur + 1, i) /\ i \in 1..4
    BY <1>1, <1>2, PendingIs
  <2> HIDE DEF i
  <2> QED
    BY <1>1, <1>2, <2>1, PerformsLine
<1>4. arg' # NoData => asked' = arg'
  BY <1>1
<1>5. CASE why \in {"write", "dummy"}
  <2>1. /\ Kept(elem, cur, last, asked) /\ AllCopied(elem, cur)
        /\ why = "write" => Exact(elem, cur, last)
    BY <1>1, <1>5 DEF Data
  <2>2. /\ Kept(elem, cur + 1, last, asked) /\ AllCopied(elem, cur + 1)
        /\ why = "write" => Exact(elem, cur + 1, last)
    BY <1>1, <1>2, <2>1, PageTurned
  <2>3. /\ Kept(elem', cur', last', asked') /\ AllCopied(elem', cur')
        /\ why' = "write" => Exact(elem', cur', last')
    BY <1>1, <1>2, <1>3, <2>2
  <2> QED
    BY <1>1, <1>4, <1>5, <2>3, GoesOn DEF Data, Starting
<1>6. CASE why \in {"new", "copy"}
  <2>1. Sourced(elem, cur, last, asked) /\ Progress
    BY <1>1, <1>6 DEF Data
  <2>2. Fresh(elem, cur + 1, last, asked)
    BY <1>1, <1>2, <2>1, PageTurned
  <2>3. why = "copy" => CopiedTo(elem, cur + 1, idx)
    BY <1>1, <1>2, <2>1, PageTurned DEF Progress
  <2>4. why = "new" /\ recover /\ ~Full => CopiedTo(elem, cur + 1, nb - 1)
    BY <1>1, <1>2, <2>1, PageTurned DEF Progress
  <2>5. why = "copy" /\ ~recover => Has(elem, Upto(cur + 1), arg.a)
    <3>1. ASSUME why = "copy", ~recover PROVE Has(elem, Upto(cur + 1), arg.a)
      <4>1. arg.a \in Addresses
        <5>1. Moves
          BY <1>1, <1>6 DEF IInv, Places, AtTurn, Plain
        <5>2. arg \in Variables
          BY <3>1, <5>1, Typing DEF Moves, Role, IInv
        <5> QED
          BY <5>2 DEF Variables
      <4>2. Has(elem, Upto(cur), arg.a)
        BY <2>1, <3>1 DEF Progress, WrittenFirst
      <4> QED
        BY <1>1, <1>2, <4>1, <4>2, PageTurned
    <3> QED
      BY <3>1
  <2>6. Progress'
    BY <1>1, <1>2, <1>3, <2>3, <2>4, <2>5 DEF Progress, WrittenFirst, Full
  <2>7. Fresh(elem', cur', last', asked')
    BY <1>1, <1>2, <1>3, <2>2
  <2> QED
    BY <1>1, <1>4, <1>6, <2>6, <2>7, GoesOn DEF Data, Starting
<1> QED
  BY <1>1, <1>5, <1>6

\* The place where an element is written, and what is then in memory.
LEMMA PutsAt ==
  ASSUME IInv, pc = "put", ~PageFull
  PROVE  /\ next - 1 \in 0..(PageElements - 1) /\ Filled(elem, cur, next - 1)
         /\ \A x : [elem EXCEPT ![cur][next] = x] = Added(elem, cur, next - 1, x)
<1>1. /\ AtPut /\ next \in 1..(PageElements + 1)
  BY Typing DEF IInv, Places
<1>2. next - 1 \in 0..(PageElements - 1) /\ next - 1 + 1 = next
  BY <1>1, SizeAssumption, SMT DEF PageFull
<1> QED
  BY <1>1, <1>2 DEF AtPut, Here, Counted, Added

LEMMA ElementAdded ==
  ASSUME IInv, ProgramElement
  PROVE  /\ elem' = Added(elem, cur, next - 1, Written)
         /\ next - 1 \in 0..(PageElements - 1) /\ Filled(elem, cur, next - 1)
         /\ elem \in Contained /\ cur \in Pages /\ hdr \in Headers /\ AtPut
         /\ cur' = cur /\ nb' = nb + 1 /\ pc = "put" /\ ~Full /\ TypeOK /\ nb \in Nat
         /\ idx \in Nat /\ arg \in Variables \cup {NoData}
<1>1. pc = "put" /\ ~Full /\ ~PageFull /\ Perform /\ cur' = cur /\ nb' = nb + 1
  BY DEF ProgramElement
<1>2. elem' = [elem EXCEPT ![cur][next] = Written]
  BY <1>1, PendingIs, PerformsElement
<1>3. elem \in Contained /\ cur \in Pages /\ hdr \in Headers /\ AtPut /\ nb \in 0..MaxWritten
      /\ TypeOK /\ idx \in Nat /\ arg \in Variables \cup {NoData}
  BY <1>1, Typing DEF IInv, Places
<1>4. nb \in Nat
  BY <1>3, Room, SMT
<1>5. next - 1 \in 0..(PageElements - 1) /\ Filled(elem, cur, next - 1)
      /\ elem' = Added(elem, cur, next - 1, Written)
  BY <1>1, <1>2, PutsAt
<1> QED
  BY <1>1, <1>3, <1>4, <1>5

\* A write that needs no transfer, and the dummy at the end of EE_Init.
LEMMA PlainData ==
  ASSUME IInv, IInv', Data, ProgramElement, Plain
  PROVE  Data' /\ Seen
<1>1. /\ elem' = Added(elem, cur, next - 1, Written)
      /\ next - 1 \in 0..(PageElements - 1) /\ Filled(elem, cur, next - 1)
      /\ elem \in Contained /\ cur \in Pages /\ cur' = cur /\ pc = "put" /\ TypeOK
      /\ arg \in Variables \cup {NoData}
  BY ElementAdded
<1>2. /\ Kept(elem, cur, last, asked) /\ AllCopied(elem, cur)
      /\ why = "write" => Exact(elem, cur, last)
      /\ arg # NoData => asked = arg
  BY <1>1 DEF Data, Plain
<1>3. CASE why = "dummy"
  <2>1. Written = Dummy /\ arg = NoData
    BY <1>3 DEF Written, Plain
  <2>2. Alike(elem, elem', cur)
    BY <1>1, <2>1, MarkAdded
  <2>3. Kept(elem', cur, last, asked) /\ AllCopied(elem', cur)
    BY <1>2, <2>2, AlikeKeeps
  <2>4. Kept(elem', cur', last, asked) /\ AllCopied(elem', cur')
    BY <1>1, <2>3
  <2>5. Ready /\ UNCHANGED answer
    BY <1>3 DEF ProgramElement
  <2> QED
    BY <1>1, <2>1, <2>4, <2>5, Restarts
<1>4. CASE why = "write"
  <2>1. Written = arg /\ arg \in Variables /\ asked = arg /\ arg # NoData
    BY <1>1, <1>2, <1>4 DEF Written, Plain
  <2>2. /\ AllCopied(elem', cur)
        /\ \A i \in Addresses :
             Latest(elem', Upto(cur), i) = IF i = arg.a THEN arg.d ELSE Latest(elem, Upto(cur), i)
    BY <1>1, <1>2, <2>1, VariableAdded
  <2>3. \A i \in Addresses : Latest(elem', Upto(cur), i) = IF i = arg.a THEN arg.d ELSE last[i]
    BY <1>2, <1>4, <2>2 DEF Exact
  <2>4. Kept(elem', cur, last, asked)
    BY <2>1, <2>3 DEF Kept, Good
  <2>5. Ready /\ answer' = TRUE
    BY <1>4 DEF ProgramElement
  <2>6. AllCopied(elem', cur') /\ Kept(elem', cur', last, asked)
    BY <1>1, <2>2, <2>4
  <2>7. /\ Data' /\ asked' = NoData
        /\ \A i \in Addresses : last'[i] = Latest(elem', Upto(cur'), i)
    BY <1>1, <2>5, <2>6, ReadyData
  <2>8. last' = Store!Stored(asked)
    <3>1. last \in [Addresses -> Values \cup {NoData}]
          /\ last' \in [Addresses -> Values \cup {NoData}]
      BY <1>1 DEF IInv, TypeOK
    <3> DEFINE g == [last EXCEPT ![arg.a] = arg.d]
    <3>2. Store!Stored(asked) = g
      BY <2>1 DEF Store!Stored
    <3>3. arg.a \in Addresses /\ arg.d \in Values
      BY <2>1 DEF Variables
    <3>4. g \in [Addresses -> Values \cup {NoData}] /\ \A i \in Addresses : last'[i] = g[i]
      BY <1>1, <2>3, <2>7, <3>1, <3>3
    <3> HIDE DEF g
    <3> QED
      BY <3>1, <3>2, <3>4
  <2>9. pc' = "ready"
    BY <2>5 DEF Ready, Goto
  <2>10. Store!Acknowledge
    BY <1>1, <2>1, <2>5, <2>7, <2>8, <2>9 DEF Store!Acknowledge
  <2> QED
    BY <2>7, <2>10 DEF Seen, Store!Next
<1> QED
  BY <1>3, <1>4 DEF Plain

\* What a transfer copies is the newest value of the variable.
LEMMA CopiesGood ==
  ASSUME IInv, pc = "put", why = "copy", Moves, Receiving(hdr, elem, cur),
         Fresh(elem, cur, last, asked)
  PROVE  Written \in Variables /\ Written.a = idx /\ Good(last, asked, idx, Written.d)
<1>1. /\ hdr \in Headers /\ cur \in Pages /\ idx \in Nat /\ idx >= 1
      /\ Holds(elem, cur, idx) /\ idx <= NbOfVariables
  BY Typing DEF IInv, Moves
<1>2. idx \in Addresses
  BY <1>1, SizeAssumption, SMT DEF Addresses
<1>3. Written = [a |-> idx, d |-> ReadVariable(hdr, elem, cur, idx)]
  BY DEF Written
<1>4. ReadVariable(hdr, elem, cur, idx) = Source(elem, Before(cur), Other(cur), idx)
  BY <1>1, <1>2, ReadsMoving
<1>5. ReadVariable(hdr, elem, cur, idx) \in Values
  <2>1. ReadVariable(hdr, elem, cur, idx) # NoData
    BY <1>1, ReadsInTransfer
  <2> QED
    BY <2>1, Reads
<1>6. Good(last, asked, idx, ReadVariable(hdr, elem, cur, idx))
  BY <1>2, <1>4 DEF Fresh
<1> QED
  BY <1>2, <1>3, <1>5, <1>6 DEF Variables

\* An element of a transfer: the variable written, the dummy of a resumed one, a copy.
LEMMA MovesData ==
  ASSUME IInv, IInv', Data, ProgramElement, Moves, Receiving(hdr, elem, cur)
  PROVE  Data' /\ Seen
<1>1. /\ elem' = Added(elem, cur, next - 1, Written)
      /\ next - 1 \in 0..(PageElements - 1) /\ Filled(elem, cur, next - 1)
      /\ elem \in Contained /\ cur \in Pages /\ cur' = cur /\ pc = "put" /\ ~Full
      /\ nb' = nb + 1 /\ nb \in Nat /\ idx \in Nat /\ arg \in Variables \cup {NoData}
  BY ElementAdded
<1>2. /\ pc' = "copy" /\ UNCHANGED <<recover, arg, last, asked>> /\ UNCHANGED history
      /\ idx' = IF why = "new" THEN ResumeIndex(nb') ELSE idx + 1
  BY DEF ProgramElement, Moves, Goto, history
<1>3. Fresh(elem, cur, last, asked) /\ Progress /\ (arg # NoData => asked = arg)
  BY <1>1 DEF Data, Moves
<1>4. Fresh(elem', cur, last, asked) /\ CopiedTo(elem', cur, idx')
      /\ (~recover => Has(elem', Upto(cur), arg.a))
  <2>1. CASE why = "new" /\ ~recover
    <3>1. nb = 0 /\ arg # NoData /\ arg \in Variables /\ Written = arg /\ asked = arg
      BY <1>1, <1>3, <2>1 DEF Moves, Role, Written
    <3>2. idx' = 1
      <4>1. nb' = 1
        BY <1>1, <3>1
      <4> QED
        BY <1>2, <2>1, <4>1, SMT DEF ResumeIndex
    <3>3. CopiedTo(elem', cur, idx')
      BY <3>2, NoneBefore
    <3>4. Good(last, asked, arg.a, arg.d)
      BY <3>1 DEF Good
    <3>5. Fresh(elem', cur, last, asked) /\ Has(elem', Upto(cur), arg.a)
      BY <1>1, <1>3, <3>1, <3>4, VariableAdded
    <3> QED
      BY <3>3, <3>5
  <2>2. CASE why = "new" /\ recover
    <3>1. Written = Dummy
      BY <2>2 DEF Written
    <3>2. Alike(elem, elem', cur)
      BY <1>1, <3>1, MarkAdded
    <3>3. CopiedTo(elem, cur, nb - 1)
      BY <1>1, <1>3, <2>2 DEF Progress
    <3>4. CopiedTo(elem, cur, idx')
      <4>1. idx' = IF nb + 1 >= 3 THEN (nb + 1) - 2 ELSE 1
        BY <1>1, <1>2, <2>2 DEF ResumeIndex
      <4>2. idx' = nb - 1 \/ idx' = 1
        BY <1>1, <4>1, SMT
      <4>3. CopiedTo(elem, cur, 1)
        BY NoneBefore
      <4> QED
        BY <3>3, <4>2, <4>3
    <3> QED
      BY <1>3, <2>2, <3>2, <3>4, AlikeKeeps
  <2>3. CASE why = "copy"
    <3>1. Written \in Variables /\ Written.a = idx /\ Good(last, asked, idx, Written.d)
      BY <1>1, <1>3, <2>3, CopiesGood
    <3>2. CopiedTo(elem, cur, idx) /\ (~recover => Has(elem, Upto(cur), arg.a))
      BY <1>3, <2>3 DEF Progress, WrittenFirst
    <3>3. /\ Has(elem', Upto(cur), idx) /\ CopiedTo(elem', cur, idx)
          /\ Fresh(elem', cur, last, asked)
          /\ \A i \in Addresses : Has(elem, Upto(cur), i) => Has(elem', Upto(cur), i)
      <4> HIDE DEF Written
      <4> QED
        BY <1>1, <1>3, <3>1, <3>2, VariableAdded
    <3>4. CopiedTo(elem', cur, idx')
      <4>1. idx' = idx + 1
        BY <1>2, <2>3
      <4>2. \A i \in Addresses : i < idx + 1 => i < idx \/ i = idx
        BY <1>1, SizeAssumption, SMT DEF Addresses
      <4>3. Copied(elem', cur, idx)
        BY <3>3 DEF Copied
      <4> QED
        BY <3>3, <4>1, <4>2, <4>3 DEF CopiedTo
    <3>5. ~recover => arg.a \in Addresses
      BY <1>1 DEF Moves, Role, Variables
    <3> QED
      BY <3>2, <3>3, <3>4, <3>5
  <2> QED
    BY <2>1, <2>2, <2>3 DEF Moves
<1>5. /\ Fresh(elem', cur', last', asked') /\ CopiedTo(elem', cur', idx') /\ WrittenFirst'
      /\ (arg' # NoData => asked' = arg')
  BY <1>1, <1>2, <1>3, <1>4 DEF WrittenFirst
<1> QED
  BY <1>1, <1>2, <1>5, GoesOn DEF Data, Starting

LEMMA ProgramElementData ==
  ASSUME IInv, IInv', Data, ProgramElement
  PROVE  Data' /\ Seen
<1>1. AtPut
  BY ElementAdded
<1> QED
  BY <1>1, PlainData, MovesData DEF AtPut

-----------------------------------------------------------------------------
(* Power losses                                                            *)

LEMMA CountIs ==
  ASSUME IInv, Here(nb)
  PROVE  /\ next - 1 \in 0..PageElements /\ Filled(elem, cur, next - 1)
         /\ nb = PageElements * (cur - BlockStart(cur)) + (next - 1)
         /\ nb \in Nat /\ cur \in Pages /\ cur - BlockStart(cur) \in Nat
<1>1. cur \in Pages /\ next \in 1..(PageElements + 1) /\ nb \in 0..MaxWritten
  BY Typing DEF IInv
<1>2. cur - BlockStart(cur) \in Nat
  BY <1>1, Ring, Size, SMT
<1>3. \A x \in 1..(PageElements + 1) : x - 1 \in 0..PageElements
  BY SizeAssumption, SMT
<1>4. nb \in Nat
  BY <1>1, Room, SMT
<1> QED
  BY <1>1, <1>2, <1>3, <1>4 DEF Here, Counted

LEMMA ResumableHere ==
  ASSUME IInv, Here(nb), nb < MaxWritten => CopiedTo(elem, cur, nb - 1)
  PROVE  Resumable(elem, cur)
BY CountIs, ResumableAt

\* In a transfer that a write started no more elements have been written than there are
\* variables passed.
LEMMA CopiedBehind ==
  ASSUME IInv, Data, ~recover, nb \in Nat,
         \/ pc = "copy"
         \/ (pc \in {"put", "turn"} /\ Moves)
  PROVE  CopiedTo(elem, cur, nb) /\ CopiedTo(elem, cur, nb - 1)
<1>1. idx \in Nat /\ nb - 1 <= nb /\ nb - 1 \in Int
  BY Typing, SMT DEF IInv
<1>2. CopiedTo(elem, cur, nb)
  <2>1. CASE nb = 0
    BY <2>1, NoneBefore
  <2>2. CASE nb # 0
    <3>1. nb <= idx /\ CopiedTo(elem, cur, idx)
      BY <2>2 DEF IInv, Places, AtCopy, Moves, Data, Progress
    <3> QED
      BY <1>1, <3>1, CopiedToLess
  <2> QED
    BY <2>1, <2>2
<1> QED
  BY <1>1, <1>2, CopiedToLess

\* A resumed transfer has written its dummy and is not through with the variables.
Recopies == recover /\ (pc = "copy" \/ (pc \in {"put", "turn"} /\ why = "copy"))

\* A power loss there, or in the middle of an element, leaves more elements than the index
\* from which the next start goes on allows for.
RecoveryCut == PowerLoss /\ (Recopies \/ (recover /\ TornElement(Pending)))

\* Outside of them the count tells from where to resume.
LEMMA CopiedSoFar ==
  ASSUME IInv, Data, Here(nb), ~Recopies,
         \/ pc = "copy"
         \/ (pc \in {"put", "turn"} /\ Moves)
  PROVE  Resumable(elem, cur)
<1>1. nb \in Nat
  BY CountIs
<1>2. CASE ~recover
  BY <1>1, <1>2, CopiedBehind, ResumableHere
<1>3. CASE recover
  <2>1. pc \in {"put", "turn"} /\ why = "new"
    BY <1>3 DEF Recopies, Moves
  <2>2. ~Full => CopiedTo(elem, cur, nb - 1)
    BY <1>3, <2>1 DEF Data, Progress
  <2>3. nb < MaxWritten => ~Full
    BY <1>1, Room, SMT DEF Full
  <2> QED
    BY <2>2, <2>3, ResumableHere
<1> QED
  BY <1>2, <1>3

\* What a power loss finds, whatever the program was doing.
LEMMA AlwaysData ==
  ASSUME IInv, Data, ~Recopies
  PROVE  FlashData(hdr, elem, last, asked)
<1>1. pc \in Starting \cup {"format", "open", "count", "erase", "ready", "spin", "receive",
                            "mark", "copy", "close", "put", "turn"}
  BY DEF IInv, TypeOK, Starting
<1>2. hdr \in Headers /\ cur \in Pages /\ Previous(cur) \in Pages
  BY Typing, Ring DEF IInv
<1>3. CASE pc \in Starting
  BY <1>3 DEF Data
<1>4. CASE pc \in {"format", "open"}
  <2>1. Blank(hdr)
    BY <1>4 DEF IInv, Places, AtFormat, Wiped, Blank
  <2> QED
    BY <1>2, <1>4, <2>1, FlashBlank DEF Data
<1>5. CASE pc \in {"count", "erase"}
  <2>1. Settled(hdr, elem, cur) /\ Kept(elem, cur, last, asked)
    BY <1>5 DEF IInv, Places, AtErase, Data
  <2> QED
    BY <1>2, <2>1, FlashSettled
<1>6. CASE pc \in {"ready", "spin"}
  <2>1. Settled(hdr, elem, cur) /\ Exact(elem, cur, last)
    BY <1>6 DEF IInv, Places, AtReady, Ordered, Data
  <2> QED
    BY <1>2, <2>1, ExactIsKept, FlashSettled
<1>7. CASE pc = "receive"
  <2>1. Settled(hdr, elem, Previous(cur)) /\ Exact(elem, Previous(cur), last)
    BY <1>7 DEF IInv, Places, AtReceive, Ordered, Data
  <2> QED
    BY <1>2, <2>1, ExactIsKept, FlashSettled
<1>8. CASE pc = "mark"
  BY <1>2, <1>8, FlashMoving DEF IInv, Places, AtMark, Data
<1>9. CASE pc = "copy"
  <2>1. Moving(hdr, elem, cur) /\ Here(nb) /\ Fresh(elem, cur, last, asked)
    BY <1>9 DEF IInv, Places, AtCopy, Receiving, Data
  <2>2. Resumable(elem, cur)
    BY <1>9, <2>1, CopiedSoFar
  <2> QED
    BY <1>2, <2>1, <2>2, FlashMoving
<1>10. CASE pc = "close"
  <2>1. Moving(hdr, elem, cur) /\ Fresh(elem, cur, last, asked) /\ AllCopied(elem, cur)
    BY <1>10 DEF IInv, Places, AtCopy, Receiving, Data
  <2> QED
    BY <1>2, <2>1, AllIsResumable, FlashMoving
<1>11. CASE pc = "put"
  <2>1. CASE Plain /\ Ordered(hdr, elem, cur)
    <3>1. Kept(elem, cur, last, asked)
      BY <1>11, <2>1 DEF Data, Plain
    <3> QED
      BY <1>2, <2>1, <3>1, FlashSettled DEF Ordered
  <2>2. CASE Moves /\ Receiving(hdr, elem, cur)
    <3>1. Here(nb) /\ Fresh(elem, cur, last, asked)
      BY <1>11, <2>2 DEF IInv, Places, AtPut, Data, Moves
    <3>2. Resumable(elem, cur)
      BY <1>11, <2>2, <3>1, CopiedSoFar
    <3> QED
      BY <1>2, <2>2, <3>1, <3>2, FlashMoving DEF Receiving
  <2> QED
    BY <1>11, <2>1, <2>2 DEF IInv, Places, AtPut
<1>12. CASE pc = "turn"
  <2>1. AtTurn
    BY <1>12 DEF IInv, Places
  <2>2. Gap(hdr, elem, cur) /\ Filled(elem, cur, PageElements) /\ Here(nb)
    <3>1. next - 1 = PageElements
      BY <2>1, SizeAssumption, SMT DEF AtTurn
    <3> QED
      BY <2>1, <3>1, CountIs DEF AtTurn
  <2>3. CASE Plain
    <3>1. Kept(elem, cur, last, asked) /\ AllCopied(elem, cur)
      BY <1>12, <2>3 DEF Data, Plain
    <3> QED
      BY <1>2, <2>2, <3>1, KeptIsSourced, AllIsResumable, FlashGap
  <2>4. CASE Moves
    <3>1. Sourced(elem, cur, last, asked)
      BY <1>12, <2>4 DEF Data, Moves
    <3>2. Resumable(elem, cur)
      BY <1>12, <2>2, <2>4, CopiedSoFar
    <3> QED
      BY <1>2, <2>2, <3>1, <3>2, FlashGap
  <2> QED
    BY <2>1, <2>3, <2>4 DEF AtTurn
<1> QED
  BY <1>1, <1>3, <1>4, <1>5, <1>6, <1>7, <1>8, <1>9, <1>10, <1>11, <1>12

\* An element cut short is no variable.
LEMMA TornElementData ==
  ASSUME IInv, Data, TornElement(Pending), ~recover
  PROVE  FlashData(hdr', elem', last, asked)
<1>1. pc = "put" /\ ~Full /\ ~PageFull
  BY PendingElement DEF TornElement
<1>2. elem' = [elem EXCEPT ![cur][next] = Corrupt] /\ hdr' = hdr
  <2>1. Pending = Element(Written)
    BY <1>1, PendingIs
  <2> QED
    BY <2>1 DEF TornElement, Element
<1>3. Corrupt \in Elements /\ Corrupt # Erased
  BY LineAssumption DEF Elements
<1>4. /\ Filled(elem', cur, next) /\ next \in Slots
      /\ Ordered(hdr, elem, cur) => Ordered(hdr, elem', cur)
      /\ Receiving(hdr, elem, cur) => Receiving(hdr, elem', cur)
  BY <1>1, <1>2, <1>3, PutsElement
<1>5. /\ hdr \in Headers /\ elem \in Contained /\ cur \in Pages /\ AtPut /\ ~recover
      /\ recover \in BOOLEAN
  BY <1>1, Typing DEF IInv, Places, TypeOK
<1>6. Alike(elem, elem', cur)
  <2>1. /\ next - 1 \in 0..(PageElements - 1) /\ Filled(elem, cur, next - 1)
        /\ elem' = Added(elem, cur, next - 1, Corrupt)
    BY <1>1, <1>2, PutsAt
  <2> QED
    BY <1>5, <2>1, MarkAdded
<1>7. CASE Plain /\ Ordered(hdr, elem, cur)
  <2>1. Kept(elem, cur, last, asked)
    BY <1>1, <1>7 DEF Data, Plain
  <2>2. Kept(elem', cur, last, asked)
    BY <1>6, <2>1, AlikeKeeps
  <2>3. FlashData(hdr, elem', last, asked)
    BY <1>4, <1>5, <1>7, <2>2, FlashSettled DEF Ordered
  <2> QED
    BY <1>2, <2>3
<1>8. CASE Moves /\ Receiving(hdr, elem, cur)
  <2>1. Fresh(elem, cur, last, asked) /\ Here(nb)
    BY <1>1, <1>5, <1>8 DEF Data, Moves, AtPut
  <2>2. /\ next - 1 \in 0..PageElements
        /\ nb = PageElements * (cur - BlockStart(cur)) + (next - 1)
        /\ nb \in Nat /\ cur - BlockStart(cur) \in Nat
    BY <2>1, CountIs
  <2>3. CopiedTo(elem, cur, nb)
    BY <1>1, <1>5, <1>8, <2>2, CopiedBehind
  <2>4. CopiedTo(elem', cur, nb) /\ Fresh(elem', cur, last, asked)
    BY <1>6, <2>1, <2>3, AlikeKeeps
  <2>5. /\ nb + 1 = PageElements * (cur - BlockStart(cur)) + next
        /\ (nb + 1) - 1 = nb /\ nb + 1 \in Nat /\ next \in 0..PageElements
    <3> DEFINE m == PageElements * (cur - BlockStart(cur))
    <3>1. m \in Nat
      BY <2>2, SizeAssumption, Monotone
    <3>2. nb = m + (next - 1)
      BY <2>2
    <3> HIDE DEF m
    <3>3. nb + 1 = m + next /\ (nb + 1) - 1 = nb /\ nb + 1 \in Nat /\ next \in 0..PageElements
      BY <1>4, <2>2, <3>1, <3>2, SizeAssumption, SMT DEF Slots
    <3> QED
      BY <3>3 DEF m
  <2>6. Resumable(elem', cur)
    BY <1>4, <2>2, <2>4, <2>5, ResumableAt
  <2>7. FlashData(hdr, elem', last, asked)
    BY <1>4, <1>5, <1>8, <2>4, <2>6, FlashMoving DEF Receiving
  <2> QED
    BY <1>2, <2>7
<1> QED
  BY <1>5, <1>7, <1>8 DEF AtPut

\* A page erased in part is not one that is read.
LEMMA TornEraseData ==
  ASSUME IInv, Data, TornErase(Pending), hdr' \in Headers
  PROVE  FlashData(hdr', elem', last, asked)
<1>1. /\ pc = "format" \/ (pc = "erase" /\ page # BlockStart(cur))
      /\ Pending = PageErase(page)
  BY PendingErase, PendingIs DEF TornErase
<1>2. hdr \in Headers /\ elem \in Contained /\ page \in Pages /\ cur \in Pages
  BY Typing DEF IInv
<1>3. PICK h \in SUBSET hdr[page], kept \in SUBSET Slots, bad \in SUBSET Slots :
        /\ hdr' = [hdr EXCEPT ![page] = h]
        /\ elem' = [elem EXCEPT ![page] = TornPage(page, kept, bad)]
        /\ ecc' = ecc
  BY <1>1 DEF TornErase, PageErase
<1>4. hdr'[page] \subseteq hdr[page] /\ Elsewhere(hdr, hdr', page)
  BY <1>2, <1>3 DEF Headers, Elsewhere
<1>5. Elsewhere(elem, elem', page)
  BY <1>2, <1>3 DEF Contained, Elsewhere
<1>6. CASE pc = "format"
  <2>1. Blank(hdr)
    BY <1>6 DEF IInv, Places, AtFormat
  <2>2. Blank(hdr')
    BY <1>2, <1>4, <2>1 DEF Blank, Elsewhere
  <2>3. \A i \in Addresses : Good(last, asked, i, NoData)
    BY <1>6 DEF Data
  <2> QED
    BY <2>2, <2>3, FlashBlank
<1>7. CASE pc = "erase" /\ page # BlockStart(cur)
  <2>1. Settled(hdr, elem, cur) /\ page \in Behind(cur) \cup Other(cur)
        /\ Wiped(hdr, elem, Reached(cur, page))
    BY <1>7 DEF IInv, Places, AtErase
  <2>2. page \in Other(cur) => \A q \in Other(cur) : q < page => hdr[q] = {}
    BY <1>2, <2>1, ReachesOn DEF Wiped
  <2>3. Settled(hdr', elem', cur)
    BY <1>2, <1>4, <1>5, <2>1, <2>2, ErasesOn
  <2>4. Kept(elem, cur, last, asked)
    BY <1>7 DEF Data
  <2>5. \A p \in Upto(cur) : elem'[p] = elem[p]
    BY <1>2, <1>5, <2>1, UptoIs DEF Elsewhere
  <2>6. Kept(elem', cur, last, asked)
    BY <1>2, <2>4, <2>5, OtherErased
  <2> QED
    BY <1>2, <2>3, <2>6, FlashSettled
<1> QED
  BY <1>1, <1>6, <1>7

LEMMA OffData ==
  ASSUME FlashData(hdr', elem', last, asked), pc' = "off", ResetMemory, UNCHANGED history
  PROVE  Data' /\ Seen
<1>1. arg' = NoData /\ last' = last /\ asked' = asked
  BY DEF ResetMemory, ResetLocals, history
<1>2. FlashData(hdr', elem', last', asked')
  BY <1>1
<1>3. Data'
  BY <1>1, <1>2 DEF Data, Starting
<1> QED
  BY <1>1, <1>3, GoesOff

LEMMA PowerLossData ==
  ASSUME IInv, IInv', Data, PowerLoss, ~RecoveryCut
  PROVE  Data' /\ Seen
<1>1. /\ pc' = "off" /\ ResetMemory /\ UNCHANGED history
      /\ \/ UNCHANGED flash
         \/ TornElement(Pending) \/ TornErase(Pending) \/ TornEcc(Pending)
      /\ ~Recopies /\ ~(recover /\ TornElement(Pending)) /\ hdr' \in Headers
  BY Typing DEF IInv, TypeOK, Headers, PowerLoss, Goto, RecoveryCut, history
<1>2. CASE UNCHANGED <<hdr, elem>>
  <2>1. FlashData(hdr, elem, last, asked)
    BY <1>1, AlwaysData
  <2>2. FlashData(hdr', elem', last, asked)
    BY <1>2, <2>1
  <2> QED
    BY <1>1, <2>2, OffData
<1>3. CASE TornElement(Pending)
  BY <1>1, <1>3, TornElementData, OffData
<1>4. CASE TornErase(Pending)
  BY <1>1, <1>4, TornEraseData, OffData
<1> QED
  BY <1>1, <1>2, <1>3, <1>4 DEF flash, TornEcc

LEMMA SwitchOffData ==
  ASSUME IInv, Data, SwitchOff
  PROVE  Data' /\ Seen
<1>1. /\ pc = "ready" /\ pc' = "off" /\ ResetMemory /\ UNCHANGED history
      /\ UNCHANGED <<hdr, elem>>
  BY DEF SwitchOff, Goto, flash, history
<1>2. FlashData(hdr, elem, last, asked)
  BY <1>1, AlwaysData DEF Recopies
<1>3. FlashData(hdr', elem', last, asked)
  BY <1>1, <1>2
<1> QED
  BY <1>1, <1>3, OffData

\* A resumed transfer that finds no room: EE_Init fails.
LEMMA NoRoomData ==
  ASSUME IInv, Data, NoRoom
  PROVE  Data' /\ Seen
<1>1. /\ hdr \in Headers /\ AtPut /\ Full /\ cur \in Pages /\ pc = "put" /\ idx \in Nat
      /\ UNCHANGED <<hdr, elem>> /\ nb \in 0..MaxWritten
  BY Typing DEF IInv, Places, NoRoom, flash
<1>2. Moves /\ Receiving(hdr, elem, cur) /\ Here(nb)
  BY <1>1 DEF AtPut, Plain
<1>3. nb > NbOfVariables /\ ~(nb < MaxWritten)
  BY <1>1, Room, SizeAssumption, SMT DEF Full
<1>4. recover
  <2> SUFFICES ASSUME ~recover PROVE FALSE
    OBVIOUS
  <2>1. nb = 0 \/ (nb <= idx /\ idx <= NbOfVariables)
    BY <1>2 DEF Moves
  <2> QED
    BY <1>1, <1>3, <2>1, Room, SizeAssumption, SMT
<1>5. arg = NoData
  BY <1>2, <1>4 DEF Moves, Role
<1>6. pc' = "failed" /\ arg' = NoData /\ UNCHANGED history /\ UNCHANGED <<last, asked>>
  BY <1>5 DEF NoRoom, Fails, Goto, ResetLocals, history
<1>7. Fresh(elem, cur, last, asked)
  BY <1>1, <1>2 DEF Data, Moves
<1>8. Resumable(elem, cur)
  BY <1>2, <1>3, ResumableHere
<1>9. FlashData(hdr, elem, last, asked)
  BY <1>1, <1>2, <1>7, <1>8, FlashMoving DEF Receiving
<1>10. FlashData(hdr', elem', last', asked')
  BY <1>1, <1>6, <1>9
<1> QED
  BY <1>1, <1>5, <1>6, <1>10, Quiet DEF Data, Starting

LEMMA StutterData ==
  ASSUME Data, UNCHANGED vars
  PROVE  Data' /\ Seen
<1>1. /\ UNCHANGED <<hdr, elem, pc, cur, nb, why, idx, recover, arg, last, asked>>
      /\ UNCHANGED <<pc, arg, last, asked, answer>>
  BY DEF vars, flash, globals, locals, history
<1>2. Data'
  BY <1>1 DEF Data, Progress, WrittenFirst, Full
<1>3. UNCHANGED Store!vars
  BY <1>1 DEF Store!vars
<1> QED
  BY <1>2, <1>3 DEF Seen

-----------------------------------------------------------------------------
(* The theorems                                                            *)

LEMMA StepData ==
  ASSUME IInv, Data, [Next]_vars, ~FlashError, ~RecoveryCut
  PROVE  IInv' /\ Data' /\ Seen
<1>1. IInv'
  BY StepInv
<1>2. CASE Boot
  BY <1>1, <1>2, PowerOnData, FindReceiveData, FindNothingData, FormatData, OpenFirstPageData,
     NoTransferData, ResumeTransferData, FindActiveData, CountElementsData, ErasePageData,
     EraseDoneData DEF Boot
<1>3. CASE Transfer
  BY <1>1, <1>3, SetReceiveData, MarkErasingData, MarkDoneData, CopyNextData, CopyDoneData,
     CloseData DEF Transfer
<1>4. CASE Put
  BY <1>1, <1>4, LeavePageData, EnterPageData, ProgramElementData, NoRoomData DEF Put
<1>5. CASE PowerLoss \/ SwitchOff
  BY <1>1, <1>5, PowerLossData, SwitchOffData
<1>6. CASE \E a \in Addresses, d \in Values : Write(a, d)
  BY <1>1, <1>6, WriteData
<1>7. CASE UNCHANGED vars
  BY <1>1, <1>7, StutterData
<1> QED
  BY <1>2, <1>3, <1>4, <1>5, <1>6, <1>7 DEF Next, Running

LEMMA InitData ==
  ASSUME Init
  PROVE  Data /\ Store!Init
<1>1. /\ arg = NoData /\ asked = NoData /\ pc = "off" /\ hdr \in Headers /\ Blank(hdr)
      /\ last = [i \in Addresses |-> NoData] /\ answer = TRUE
  BY DEF Init, Headers, Blank
<1>2. \A i \in Addresses : Good(last, asked, i, NoData)
  BY <1>1 DEF Good
<1>3. FlashData(hdr, elem, last, asked)
  BY <1>1, <1>2, FlashBlank
<1> QED
  BY <1>1, <1>3 DEF Data, Starting, Store!Init

\* What holds of the data whether flash operations fail or not.
WorkingData == Working /\ (faults = MaxFaults => Data)

LEMMA InitWorks ==
  ASSUME Init
  PROVE  WorkingData
<1>1. faults = MaxFaults /\ faults \in 0..MaxFaults
  BY BoundAssumption, SMT DEF Init
<1> QED
  BY <1>1, InitInv, InitData DEF WorkingData, Working

LEMMA StepWorks ==
  ASSUME WorkingData, [Next]_vars, faults = MaxFaults => ~RecoveryCut
  PROVE  WorkingData' /\ (faults' = MaxFaults => Seen)
<1>1. faults \in 0..MaxFaults /\ (faults = MaxFaults => IInv /\ Data)
  BY DEF WorkingData, Working
<1>2. CASE faults' = faults /\ ~FlashError
  <2>1. faults = MaxFaults => IInv' /\ Data' /\ Seen
    BY <1>1, <1>2, StepData
  <2> QED
    BY <1>1, <1>2, <2>1 DEF WorkingData, Working
<1>3. CASE faults' = faults - 1 /\ faults > 0
  <2>1. faults' \in 0..MaxFaults /\ faults' # MaxFaults
    BY <1>1, <1>3, BoundAssumption, SMT
  <2> QED
    BY <2>1 DEF WorkingData, Working
<1>4. FlashError => faults' = faults - 1 /\ faults > 0
  BY DEF FlashError
<1> QED
  BY <1>2, <1>3, <1>4, FaultsLeft

LEMMA WorksUnchanged ==
  ASSUME WorkingData, UNCHANGED vars
  PROVE  WorkingData' /\ (faults' = MaxFaults => Seen)
<1>1. faults = MaxFaults => ~RecoveryCut
  <2> SUFFICES ASSUME faults = MaxFaults, RecoveryCut PROVE FALSE
    OBVIOUS
  <2>1. cuts \in 0..MaxCuts /\ cuts' = cuts - 1 /\ cuts' = cuts
    BY DEF WorkingData, Working, IInv, TypeOK, RecoveryCut, PowerLoss, vars, env
  <2> QED
    BY <2>1, BoundAssumption, SMT
<1> QED
  BY <1>1, StepWorks

\* The emulation is the store that the controller takes it for, with any number of
\* variables, pages and power losses at any line that is programmed or page that is erased,
\* in EE_Init and in PagesTransfer, as long as no flash operation fails and the power is not
\* lost again while EE_Init writes elements for a transfer that it resumed.
THEOREM ImplementsStore == Spec /\ [][~RecoveryCut]_vars => StoreSpec
<1>1. Init => WorkingData /\ Store!Init
  BY InitWorks, InitData
<1>2. WorkingData /\ [Next]_vars /\ [~RecoveryCut]_vars
        => WorkingData' /\ [faults' = MaxFaults => Store!Next]_(Store!vars)
  <2> SUFFICES ASSUME WorkingData, [Next]_vars, [~RecoveryCut]_vars
               PROVE  WorkingData' /\ (faults' = MaxFaults => Seen)
    BY DEF Seen
  <2>1. CASE ~RecoveryCut
    BY <2>1, StepWorks
  <2>2. CASE UNCHANGED vars
    BY <2>2, WorksUnchanged
  <2> QED
    BY <2>1, <2>2
<1> QED
  BY <1>1, <1>2, PTL DEF Spec, StoreSpec

\* Until the power is lost for the first time there is no transfer to resume: EE_Init finds
\* the pages blank, or one active page.
Clean ==
  /\ ~recover
  /\ pc \in {"off", "find"} => Blank(hdr) \/ \E c \in Pages : Settled(hdr, elem, c)
  /\ pc = "transfer" => \E c \in Pages : Settled(hdr, elem, c)

\* Only EE_Init's step 3 resumes a transfer, and only three steps lead to it.
LEMMA OthersUnresumed ==
  ASSUME [Next]_vars, ~UNCHANGED vars, ~FlashError, ~PowerLoss, ~SwitchOff,
         ~PowerOn, ~FindReceive, ~ResumeTransfer
  PROVE  (recover' => recover) /\ pc' \notin {"off", "find", "transfer"}
<1>1. CASE Boot
  BY <1>1 DEF Boot, FindNothing, Format, OpenFirstPage, NoTransfer, FindActive, CountElements,
     ErasePage, EraseDone, Ready, Fails, Goto, ResetLocals, locals
<1>2. CASE Transfer
  BY <1>2 DEF Transfer, SetReceive, MarkErasing, MarkDone, CopyNext, CopyDone, Close, Ready,
     Fails, Goto, ResetLocals, locals
<1>3. CASE Put
  BY <1>3 DEF Put, LeavePage, EnterPage, ProgramElement, NoRoom, Ready, Fails, Goto,
     ResetLocals, locals
<1>4. CASE \E a \in Addresses, d \in Values : Write(a, d)
  BY <1>4 DEF Write, Goto, locals
<1> QED
  BY <1>1, <1>2, <1>3, <1>4 DEF Next, Running

LEMMA StaysClean ==
  ASSUME IInv, Clean, [Next]_vars, ~FlashError, ~PowerLoss
  PROVE  Clean'
<1>1. hdr \in Headers /\ ~recover
  BY Typing DEF IInv, Clean
<1>2. CASE UNCHANGED vars
  BY <1>2 DEF Clean, vars, flash, locals
<1>3. CASE SwitchOff
  <2>1. Settled(hdr, elem, cur) /\ cur \in Pages /\ UNCHANGED <<hdr, elem>>
    BY <1>3, Typing DEF IInv, Places, AtReady, Ordered, SwitchOff, flash
  <2>2. pc' = "off" /\ ~recover'
    BY <1>3 DEF SwitchOff, Goto, ResetMemory, ResetLocals
  <2> QED
    BY <2>1, <2>2 DEF Clean
<1>4. CASE PowerOn
  BY <1>4 DEF Clean, PowerOn, Goto, flash, locals
<1>5. CASE FindReceive
  <2>1. pc = "find" /\ pc' = "transfer" /\ recover' = recover /\ Perform
        /\ InState("ACTIVE") \cup InState("RECEIVE") \cup InState("VALID") # {}
    BY <1>5 DEF FindReceive, Goto, locals
  <2>2. ~Blank(hdr)
    <3> SUFFICES ASSUME Blank(hdr) PROVE FALSE
      OBVIOUS
    <3>1. \A p \in Pages : State(p) = "ERASED"
      BY <1>1, StateAt DEF Blank, State
    <3> QED
      BY <2>1, <3>1 DEF InState
  <2>3. PICK c \in Pages : Settled(hdr, elem, c)
    BY <2>1, <2>2 DEF Clean
  <2>4. ~Resumes
    <3>1. c \in InState("ACTIVE")
      BY <2>3 DEF Settled, InState, State
    <3> QED
      BY <3>1 DEF Resumes
  <2>5. UNCHANGED <<hdr, elem>>
    BY <2>1, <2>4, PendingIs, PerformsNothing DEF flash
  <2> QED
    BY <1>1, <2>1, <2>3, <2>5 DEF Clean
<1>6. CASE ResumeTransfer
  <2>1. PICK c \in Pages : Settled(hdr, elem, c)
    BY <1>6 DEF Clean, ResumeTransfer
  <2>2. Reliable("RECEIVE") = {}
    BY <1>1, <2>1, SettledReliable
  <2> QED
    BY <1>6, <2>2 DEF ResumeTransfer
<1>7. CASE ~UNCHANGED vars /\ ~SwitchOff /\ ~PowerOn /\ ~FindReceive /\ ~ResumeTransfer
  BY <1>1, <1>7, OthersUnresumed DEF Clean
<1> QED
  BY <1>2, <1>3, <1>4, <1>5, <1>6, <1>7

\* Nothing but a power loss takes from the number of them.
LEMMA CutsLeft ==
  ASSUME [Next]_vars, ~PowerLoss
  PROVE  cuts' = cuts
<1>1. CASE Boot
  BY <1>1 DEF Boot, PowerOn, FindReceive, FindNothing, Format, OpenFirstPage, NoTransfer,
     ResumeTransfer, FindActive, CountElements, ErasePage, EraseDone, env
<1>2. CASE Transfer
  BY <1>2 DEF Transfer, SetReceive, MarkErasing, MarkDone, CopyNext, CopyDone, Close, env
<1>3. CASE Put
  BY <1>3 DEF Put, LeavePage, EnterPage, ProgramElement, NoRoom, env
<1>4. CASE SwitchOff \/ FlashError
  BY <1>4 DEF SwitchOff, FlashError
<1>5. CASE \E a \in Addresses, d \in Values : Write(a, d)
  BY <1>5 DEF Write, env
<1>6. CASE UNCHANGED vars
  BY <1>6 DEF vars, env
<1> QED
  BY <1>1, <1>2, <1>3, <1>4, <1>5, <1>6 DEF Next, Running

\* The power may be lost once, anywhere: the emulation is then the store without any
\* condition on where.
THEOREM OneCut ==
  ASSUME MaxCuts <= 1
  PROVE  Spec => StoreSpec
<1> DEFINE I == WorkingData /\ (faults = MaxFaults /\ cuts = MaxCuts => Clean)
<1>1. Init => I /\ Store!Init
  <2> SUFFICES ASSUME Init PROVE Clean
    BY InitWorks, InitData
  <2> QED
    BY DEF Init, Clean, Blank
<1>2. I /\ [Next]_vars => I' /\ [faults' = MaxFaults => Store!Next]_(Store!vars)
  <2> SUFFICES ASSUME I, [Next]_vars PROVE I' /\ (faults' = MaxFaults => Seen)
    BY DEF Seen
  <2>1. /\ faults \in 0..MaxFaults
        /\ faults = MaxFaults => IInv /\ cuts \in 0..MaxCuts
    BY DEF WorkingData, Working, IInv, TypeOK
  <2>2. faults = MaxFaults => ~RecoveryCut
    <3> SUFFICES ASSUME faults = MaxFaults, RecoveryCut PROVE FALSE
      OBVIOUS
    <3>1. cuts = MaxCuts
      <4>1. cuts \in 0..MaxCuts /\ cuts > 0
        BY <2>1 DEF RecoveryCut, PowerLoss
      <4> QED
        BY <4>1, BoundAssumption, SMT
    <3> QED
      BY <3>1 DEF Clean, RecoveryCut, Recopies
  <2>3. WorkingData' /\ (faults' = MaxFaults => Seen)
    BY <2>2, StepWorks
  <2>4. faults' = MaxFaults => faults = MaxFaults /\ ~FlashError
    <3>1. CASE FlashError
      <4>1. faults' = faults - 1
        BY <3>1 DEF FlashError
      <4>2. faults' # MaxFaults
        BY <2>1, <4>1, BoundAssumption, SMT
      <4> QED
        BY <4>2
    <3>2. CASE ~FlashError
      BY <3>2, FaultsLeft
    <3> QED
      BY <3>1, <3>2
  <2>5. faults' = MaxFaults /\ cuts' = MaxCuts => Clean'
    <3> SUFFICES ASSUME faults' = MaxFaults, cuts' = MaxCuts PROVE Clean'
      OBVIOUS
    <3>1. faults = MaxFaults /\ ~FlashError /\ IInv /\ cuts \in 0..MaxCuts
      BY <2>1, <2>4
    <3>2. ~PowerLoss
      <4> SUFFICES ASSUME PowerLoss PROVE FALSE
        OBVIOUS
      <4>1. cuts' = cuts - 1
        BY DEF PowerLoss
      <4> QED
        BY <3>1, <4>1, BoundAssumption, SMT
    <3>3. cuts = MaxCuts
      BY <3>2, CutsLeft
    <3> QED
      BY <3>1, <3>2, <3>3, StaysClean
  <2> QED
    BY <2>3, <2>5
<1> HIDE DEF I
<1> QED
  BY <1>1, <1>2, PTL DEF Spec, StoreSpec

\* A store whose writes are atomic loses nothing.
LEMMA StoreLosesNothing ==
  ASSUME MaxFaults = 0
  PROVE  Spec /\ StoreSpec => NothingLost
<1>1. Working /\ Working' /\ [faults' = MaxFaults => Store!Next]_(Store!vars)
        => [\A a \in Addresses : last[a] # NoData => last'[a] # NoData]_last
  <2> SUFFICES ASSUME Working, Working', [faults' = MaxFaults => Store!Next]_(Store!vars)
               PROVE  \/ last' = last
                      \/ \A a \in Addresses : last[a] # NoData => last'[a] # NoData
    OBVIOUS
  <2>1. TypeOK
    <3>1. faults \in 0..0 /\ (faults = MaxFaults => IInv)
      BY DEF Working
    <3>2. faults = MaxFaults
      BY <3>1, SMT
    <3> QED
      BY <3>1, <3>2 DEF IInv
  <2>2. Store!Next \/ UNCHANGED Store!vars
    <3>1. faults' \in 0..0
      BY DEF Working
    <3>2. faults' = MaxFaults
      BY <3>1, SMT
    <3> QED
      BY <3>2
  <2>3. last' \in {last, Store!Stored(asked)}
    BY <2>2 DEF Store!vars, Store!Next, Store!Write, Store!Acknowledge, Store!Refuse,
       Store!RefuseAtOnce, Store!PowerLoss, Store!Restart
  <2> QED
    BY <2>1, <2>3, ValueAssumption DEF Store!Stored, TypeOK, Variables
<1> QED
  BY <1>1, Invariant, PTL DEF StoreSpec, NothingLost

\* EE_Init's promise, as far as it is kept: on a flash that works no variable loses its
\* value, however often the power is lost, unless it is lost again while EE_Init writes
\* elements for a transfer that it resumed.
THEOREM NothingIsLost ==
  ASSUME MaxFaults = 0
  PROVE  Spec /\ [][~RecoveryCut]_vars => NothingLost
BY ImplementsStore, StoreLosesNothing, PTL

\* After a single power loss it is kept without exception.
THEOREM OneCutLosesNothing ==
  ASSUME MaxFaults = 0, MaxCuts <= 1
  PROVE  Spec => NothingLost
BY OneCut, StoreLosesNothing, PTL
=============================================================================
