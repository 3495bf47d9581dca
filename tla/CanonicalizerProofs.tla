------------------------ MODULE CanonicalizerProofs ------------------------
(***************************************************************************)
(* What holds of every registry construction can accept, and of every fill *)
(* canonicalized against one, whatever the widths, scales and inputs: one  *)
(* economy per instrument, fills the keeper accepts and that fit their     *)
(* integers, a fee to the nearest micro-dollar, and one fill for the two   *)
(* tellings of a trade.  The module extends Fixtures so that its last part *)
(* can be about the generator, whose texts go through the canonicalizer:   *)
(* the streams it lays out, whatever their lengths and cadences, the texts *)
(* it writes, and the rounds of trades it matches.                         *)
(***************************************************************************)
EXTENDS Fixtures, FiniteSetTheorems, WellFoundedInduction, TLAPS

(* A stored spec: positive, on the venue its kind belongs to, and with     *)
(* ticks that divide a hundredth of a dollar if it is a binary.            *)
Stored(d) ==
    /\ d \in InstrumentSpec
    /\ PositiveSpec(d)
    /\ d.kind = "Perp" => d.venue = "Hl"
    /\ d.kind = "Binary" =>
          d.venue = "Pm" /\ Dollar % d.tick_micro = 0 /\ Full(d) % 100 = 0

(* Every stored spec agrees with the first one of its instrument. *)
RegistryInv ==
    /\ \A s \in DOMAIN by_symbol :
          /\ Stored(by_symbol[s])
          /\ SymbolOf(by_symbol[s]) = s
          /\ by_symbol[s].instrument \in DOMAIN by_instrument
          /\ SameEconomics(by_instrument[by_symbol[s].instrument], by_symbol[s])
    /\ \A i \in DOMAIN by_instrument : Stored(by_instrument[i])

LEMMA AcceptedIsStored ==
    ASSUME NEW spec \in CandidateSpec, SpecError(spec) = "Ok"
    PROVE  /\ Stored(Derived(spec))
           /\ Derived(spec).instrument = spec.instrument
           /\ SymbolOf(Derived(spec)) = SymbolOf(spec)
           /\ SymbolOf(spec) \notin DOMAIN by_symbol
<1> DEFINE d == Derived(spec)
<1>1. spec \in InstrumentSpec
  BY CandidateAssumption
<1>2. /\ ~(spec.tick_micro <= 0 \/ spec.lot_qty_e9 <= 0)
      /\ FitsVenue(spec)
      /\ ~(d.micro_per_tick_lot <= 0)
      /\ SymbolOf(spec) \notin DOMAIN by_symbol
  BY DEF SpecError
<1>3. Product(spec) \in Int
  BY <1>1 DEF Product, InstrumentSpec
<1>4. Product(spec) \div Whole \in Int
  BY <1>3, WholeAssumption
<1>5. /\ d \in InstrumentSpec
      /\ d.venue = spec.venue /\ d.symbol = spec.symbol
      /\ d.instrument = spec.instrument /\ d.kind = spec.kind
      /\ d.tick_micro = spec.tick_micro /\ d.lot_qty_e9 = spec.lot_qty_e9
  BY <1>1, <1>4 DEF Derived, InstrumentSpec
<1> HIDE DEF d
<1>6. PositiveSpec(d)
  BY <1>1, <1>2, <1>5 DEF PositiveSpec, InstrumentSpec
<1>7. Full(d) = Full(spec)
  BY <1>5 DEF Full
<1>8. /\ d.kind = "Perp" => d.venue = "Hl"
      /\ d.kind = "Binary" =>
            d.venue = "Pm" /\ Dollar % d.tick_micro = 0 /\ Full(d) % 100 = 0
  BY <1>2, <1>5, <1>7 DEF FitsVenue
<1>9. Stored(d)
  BY <1>5, <1>6, <1>8 DEF Stored
<1> QED
  BY <1>2, <1>5, <1>9 DEF SymbolOf, d

LEMMA AddPreserves ==
    ASSUME RegistryInv, NEW spec \in CandidateSpec, Add(spec)
    PROVE  RegistryInv'
<1> DEFINE d == Derived(spec)
           s0 == SymbolOf(spec)
<1>1. /\ SpecError(spec) = "Ok"
      /\ Stored(d) /\ d.instrument = spec.instrument /\ SymbolOf(d) = s0
      /\ s0 \notin DOMAIN by_symbol
  BY AcceptedIsStored DEF Add
<1>2. spec.instrument \in DOMAIN by_instrument =>
          SameEconomics(by_instrument[spec.instrument], d)
  BY <1>1 DEF SpecError
<1>3. SameEconomics(d, d)
  BY DEF SameEconomics
<1> HIDE DEF d, s0
<1>4. /\ by_symbol' = [s \in DOMAIN by_symbol \cup {s0} |->
                          IF s = s0 THEN d ELSE by_symbol[s]]
      /\ by_instrument' = [i \in DOMAIN by_instrument \cup {spec.instrument} |->
                          IF i \in DOMAIN by_instrument THEN by_instrument[i] ELSE d]
  BY DEF Add, d, s0
<1>5. \A i \in DOMAIN by_instrument' : Stored(by_instrument'[i])
  BY <1>1, <1>4 DEF RegistryInv
<1>6. \A i \in DOMAIN by_instrument :
          i \in DOMAIN by_instrument' /\ by_instrument'[i] = by_instrument[i]
  BY <1>4
<1>7. ASSUME NEW s \in DOMAIN by_symbol'
      PROVE  /\ Stored(by_symbol'[s])
             /\ SymbolOf(by_symbol'[s]) = s
             /\ by_symbol'[s].instrument \in DOMAIN by_instrument'
             /\ SameEconomics(by_instrument'[by_symbol'[s].instrument], by_symbol'[s])
  <2>1. CASE s = s0
    <3>1. by_symbol'[s] = d
      BY <1>4, <2>1
    <3>2. /\ spec.instrument \in DOMAIN by_instrument'
          /\ SameEconomics(by_instrument'[spec.instrument], d)
      BY <1>2, <1>3, <1>4
    <3> QED
      BY <1>1, <2>1, <3>1, <3>2
  <2>2. CASE s # s0
    <3>1. s \in DOMAIN by_symbol /\ by_symbol'[s] = by_symbol[s]
      BY <1>4, <1>7, <2>2
    <3> QED
      BY <1>6, <3>1 DEF RegistryInv
  <2> QED
    BY <2>1, <2>2
<1> QED
  BY <1>5, <1>7 DEF RegistryInv, Stored, SymbolOf, SameEconomics, PositiveSpec, Full

LEMMA RegistryInductive == Spec => []RegistryInv
<1>1. Init => RegistryInv
  <2>1. DOMAIN << >> = {}
    OBVIOUS
  <2> QED
    BY <2>1, Zenon DEF Init, RegistryInit, RegistryInv
<1>2. RegistryInv /\ [Next]_vars => RegistryInv'
  <2> SUFFICES ASSUME RegistryInv, [Next]_vars
               PROVE  RegistryInv'
    OBVIOUS
  <2>1. ASSUME UNCHANGED <<by_symbol, by_instrument>>
        PROVE  RegistryInv'
    BY <2>1 DEF RegistryInv, Stored, SymbolOf, SameEconomics, PositiveSpec, Full
  <2>2. ASSUME NEW spec \in CandidateSpec, Add(spec)
        PROVE  RegistryInv'
    BY <2>2, AddPreserves
  <2>3. CASE Build
    BY <2>1, <2>2, <2>3 DEF Build, RegistryNext, Refuse, Finish
  <2>4. CASE ~Build
    BY <2>1, <2>4 DEF Next, Canonicalize, vars, rvars
  <2> QED
    BY <2>3, <2>4
<1> QED
  BY <1>1, <1>2, PTL DEF Spec

(* Two symbols that carry one instrument differ in nothing else: not in    *)
(* the economics, though each was compared with the first of them only,    *)
(* and not in the venue, which the kind decides.                           *)
THEOREM OneEconomy == Spec => []OneEconomyPerInstrument
<1>1. RegistryInv => OneEconomyPerInstrument
  <2> SUFFICES ASSUME RegistryInv,
                      NEW s \in DOMAIN by_symbol, NEW t \in DOMAIN by_symbol,
                      by_symbol[s].instrument = by_symbol[t].instrument
               PROVE  by_symbol[s]
                         = [by_symbol[t] EXCEPT !.symbol = by_symbol[s].symbol]
    BY DEF OneEconomyPerInstrument
  <2> DEFINE a == by_symbol[s]
             b == by_symbol[t]
  <2>1. Stored(a) /\ Stored(b)
    BY DEF RegistryInv
  <2>2. SameEconomics(a, b)
    BY DEF RegistryInv, SameEconomics
  <2>3. a.instrument = b.instrument
    OBVIOUS
  <2> HIDE DEF a, b
  <2>4. a \in InstrumentSpec /\ b \in InstrumentSpec /\ a.venue = b.venue
    BY <2>1, <2>2 DEF Stored, SameEconomics, InstrumentSpec
  <2>5. a = [b EXCEPT !.symbol = a.symbol]
    BY <2>2, <2>3, <2>4 DEF SameEconomics, InstrumentSpec
  <2> QED
    BY <2>5 DEF a, b
<1> QED
  BY <1>1, RegistryInductive, PTL

-----------------------------------------------------------------------------
(* Division. *)

LEMMA Quotient ==
    ASSUME NEW a \in Int, NEW b \in Int, b > 0
    PROVE  /\ a \div b \in Int
           /\ a % b \in 0 .. b - 1
           /\ a = b * (a \div b) + (a % b)
  BY SMT

LEMMA PositiveQuotient ==
    ASSUME NEW a \in Int, NEW b \in Int, a > 0, b > 0, a % b = 0
    PROVE  a \div b \in Int /\ a \div b > 0
<1>1. a \div b \in Int /\ a = b * (a \div b)
  BY Quotient
<1> DEFINE q == a \div b
<1> HIDE DEF q
<1>2. q \in Int /\ a = b * q
  BY <1>1 DEF q
<1>3. q > 0
  BY <1>2, SMT
<1> QED
  BY <1>2, <1>3 DEF q

LEMMA Products ==
    ASSUME NEW a \in Int, NEW b \in Int, a >= 0, b >= 0
    PROVE  a * b \in Int /\ a * b >= 0
  BY SMT

LEMMA AtLeast ==
    ASSUME NEW b \in Int, NEW d \in Int, b > 0, d >= 1
    PROVE  b * d \in Int /\ b * d >= b
  BY SMT

LEMMA QuotientIsUnique ==
    ASSUME NEW b \in Int, NEW q \in Int, NEW r \in Int, b > 0, 0 <= r, r < b
    PROVE  (b * q + r) \div b = q
<1> DEFINE a == b * q + r
           p == a \div b
           s == a % b
<1>1. a \in Int
  BY SMT
<1> HIDE DEF a
<1>2. p \in Int /\ s \in 0 .. b - 1 /\ a = b * p + s
  BY <1>1, Quotient
<1> HIDE DEF p, s
<1>3. b * q + r = b * p + s
  BY <1>2 DEF a
<1>4. ASSUME p - q >= 1 PROVE FALSE
  <2>1. b * (p - q) >= b
    BY <1>2, <1>4, AtLeast
  <2>2. b * (p - q) = r - s
    BY <1>2, <1>3, SMT
  <2> QED
    BY <1>2, <2>1, <2>2
<1>5. ASSUME q - p >= 1 PROVE FALSE
  <2>1. b * (q - p) >= b
    BY <1>2, <1>5, AtLeast
  <2>2. b * (q - p) = s - r
    BY <1>2, <1>3, SMT
  <2> QED
    BY <1>2, <2>1, <2>2
<1>6. p = q
  BY <1>2, <1>4, <1>5
<1> QED
  BY <1>6 DEF p, a

-----------------------------------------------------------------------------
(* Decimals: what parse_fixed computes. *)

LEMMA LeastOfNaturals ==
    ASSUME NEW T, T \subseteq Nat, T # {}
    PROVE  \E x \in T : \A y \in T : x <= y
<1> DEFINE R == OpToRel(<, Nat)
<1>1. IsWellFoundedOn(R, Nat)
  BY NatLessThanWellFounded
<1>2. \A x, y \in Nat : y < x => <<y, x>> \in R
  BY DEF OpToRel
<1> HIDE DEF R
<1>3. PICK x \in T : \A y \in T : ~(<<y, x>> \in R)
  BY <1>1, WFMin
<1>4. ASSUME NEW y \in T
      PROVE  x <= y
  <2>1. x \in Nat /\ y \in Nat
    OBVIOUS
  <2>2. ~(y < x)
    BY <1>2, <1>3, <2>1
  <2> QED
    BY <2>1, <2>2
<1> QED
  BY <1>4

(* g is the sequence that starts at base and goes on with a * g + b. *)
Solves(g, a, b, base, n) ==
    /\ g \in [0 .. n -> Nat]
    /\ g[0] = base
    /\ \A i \in 1 .. n : g[i] = a[i] * g[i - 1] + b[i]

LEMMA ProductOfNaturals ==
    ASSUME NEW a \in Nat, NEW b \in Nat
    PROVE  a * b \in Nat
  BY SMT

LEMMA RecurrenceHasSolution ==
    ASSUME NEW n \in Nat, NEW a \in [1 .. n -> Nat], NEW b \in [1 .. n -> Nat], NEW base \in Nat
    PROVE  \E g : Solves(g, a, b, base, n)
<1> DEFINE Has(m) == \E g : Solves(g, a, b, base, m)
           T == {m \in 0 .. n : ~Has(m)}
<1> SUFFICES ASSUME T # {}
             PROVE  FALSE
  <2>1. n \in 0 .. n
    OBVIOUS
  <2>2. T = {} => Has(n)
    <3> HIDE DEF Has
    <3> QED
      BY <2>1
  <2> QED
    BY <2>2
<1>1. PICK x \in T : \A y \in T : x <= y
  <2>1. T \subseteq Nat
    OBVIOUS
  <2> HIDE DEF T
  <2> QED
    BY <2>1, LeastOfNaturals
<1>2. x # 0
  <2>1. Solves([i \in 0 .. 0 |-> base], a, b, base, 0)
    BY DEF Solves
  <2> QED
    BY <2>1
<1>3. x \in Nat /\ x - 1 \in 0 .. n /\ x \in 1 .. n /\ Has(x - 1)
  <2> HIDE DEF Has
  <2>1. x \in Nat /\ x - 1 \in 0 .. n /\ x \in 1 .. n
    BY <1>2
  <2>2. x - 1 \notin T
    <3>1. ~(x <= x - 1)
      BY <2>1
    <3> QED
      BY <1>1, <3>1
  <2> QED
    BY <2>1, <2>2
<1>4. PICK g : Solves(g, a, b, base, x - 1)
  BY <1>3
<1> DEFINE next == a[x] * g[x - 1] + b[x]
           h    == [i \in 0 .. x |-> IF i = x THEN next ELSE g[i]]
<1>5. next \in Nat
  <2>1. a[x] \in Nat /\ b[x] \in Nat /\ g[x - 1] \in Nat
    BY <1>3, <1>4 DEF Solves
  <2>2. a[x] * g[x - 1] \in Nat
    BY <2>1, ProductOfNaturals
  <2> QED
    BY <2>1, <2>2
<1>6. \A i \in 0 .. x : i # x => i \in 0 .. x - 1 /\ g[i] \in Nat
  BY <1>3, <1>4 DEF Solves
<1> HIDE DEF next
<1>7. h \in [0 .. x -> Nat] /\ h[0] = base
  <2>1. h \in [0 .. x -> Nat]
    BY <1>5, <1>6
  <2>2. 0 \in 0 .. x /\ 0 # x
    BY <1>2, <1>3
  <2> QED
    BY <1>4, <2>1, <2>2 DEF Solves
<1>8. ASSUME NEW i \in 1 .. x
      PROVE  h[i] = a[i] * h[i - 1] + b[i]
  <2>1. i - 1 \in 0 .. x /\ i - 1 # x /\ i \in 0 .. x
    BY <1>3
  <2>2. h[i - 1] = g[i - 1]
    BY <2>1
  <2>3. CASE i = x
    BY <2>1, <2>2, <2>3 DEF next
  <2>4. CASE i # x
    <3>1. i \in 1 .. x - 1
      BY <1>3, <2>4
    <3>2. g[i] = a[i] * g[i - 1] + b[i]
      BY <1>4, <3>1 DEF Solves
    <3> QED
      BY <2>1, <2>2, <2>4, <3>2
  <2> QED
    BY <2>3, <2>4
<1> HIDE DEF h
<1>9. Solves(h, a, b, base, x)
  BY <1>7, <1>8 DEF Solves
<1> QED
  BY <1>9

LEMMA SolutionsAgree ==
    ASSUME NEW m \in Nat, NEW n \in Nat, m <= n, NEW a, NEW b, NEW c, NEW d, NEW base,
           NEW g, Solves(g, a, b, base, n), NEW h, Solves(h, c, d, base, m),
           \A i \in 1 .. m : c[i] = a[i] /\ d[i] = b[i]
    PROVE  \A i \in 0 .. m : h[i] = g[i]
<1> DEFINE T == {i \in 0 .. m : h[i] # g[i]}
<1> SUFFICES ASSUME T # {}
             PROVE  FALSE
  OBVIOUS
<1>1. PICK x \in T : \A y \in T : x <= y
  <2>1. T \subseteq Nat
    OBVIOUS
  <2> HIDE DEF T
  <2> QED
    BY <2>1, LeastOfNaturals
<1>2. x # 0
  BY DEF Solves
<1>3. x \in 1 .. m /\ x \in 1 .. n /\ x - 1 \in 0 .. m /\ x - 1 \notin T
  BY <1>1, <1>2
<1>4. h[x - 1] = g[x - 1]
  BY <1>3
<1>5. h[x] = c[x] * h[x - 1] + d[x] /\ g[x] = a[x] * g[x - 1] + b[x]
  BY <1>3 DEF Solves
<1> QED
  BY <1>3, <1>4, <1>5

LEMMA TensValues ==
    /\ Tens[0] = 1
    /\ \A n \in Nat : Tens[n] \in Nat /\ Tens[n] > 0 /\ Tens[n + 1] = 10 * Tens[n]
<1> DEFINE ten(n)  == [i \in 1 .. n |-> 10]
           zero(n) == [i \in 1 .. n |-> 0]
           P(g)    == g = [n \in Nat |-> IF n = 0 THEN 1 ELSE 10 * g[n - 1]]
           to(n)   == CHOOSE g : Solves(g, ten(n), zero(n), 1, n)
           G       == [n \in Nat |-> to(n)[n]]
<1>1. ASSUME NEW n \in Nat
      PROVE  Solves(to(n), ten(n), zero(n), 1, n)
  <2>1. ten(n) \in [1 .. n -> Nat] /\ zero(n) \in [1 .. n -> Nat]
    OBVIOUS
  <2> HIDE DEF ten, zero
  <2>2. \E g : Solves(g, ten(n), zero(n), 1, n)
    BY <2>1, RecurrenceHasSolution
  <2> QED
    BY <2>2, Zenon
<1>2. ASSUME NEW n \in Nat
      PROVE  to(n)[n] \in Nat /\ to(n + 1)[n + 1] = 10 * to(n)[n]
  <2> DEFINE g == to(n)
             h == to(n + 1)
  <2>1. Solves(g, ten(n), zero(n), 1, n) /\ Solves(h, ten(n + 1), zero(n + 1), 1, n + 1)
    <3> HIDE DEF to, ten, zero
    <3>1. n + 1 \in Nat
      OBVIOUS
    <3> QED
      BY <1>1, <3>1
  <2> HIDE DEF g, h
  <2>2. \A i \in 1 .. n : ten(n)[i] = ten(n + 1)[i] /\ zero(n)[i] = zero(n + 1)[i]
    OBVIOUS
  <2>3. n + 1 \in 1 .. n + 1 /\ ten(n + 1)[n + 1] = 10 /\ zero(n + 1)[n + 1] = 0
    OBVIOUS
  <2> HIDE DEF ten, zero
  <2>4. n \in 0 .. n /\ g[n] = h[n]
    <3>1. \A i \in 0 .. n : g[i] = h[i]
      <4>1. n \in Nat /\ n + 1 \in Nat /\ n <= n + 1
        OBVIOUS
      <4> QED
        BY <2>1, <2>2, <4>1, SolutionsAgree
    <3> QED
      BY <3>1
  <2>5. g[n] \in Nat /\ h[n + 1] = ten(n + 1)[n + 1] * h[(n + 1) - 1] + zero(n + 1)[n + 1]
    BY <2>1, <2>3, <2>4 DEF Solves
  <2>6. (n + 1) - 1 = n
    OBVIOUS
  <2>7. h[n + 1] = 10 * g[n]
    BY <2>3, <2>4, <2>5, <2>6
  <2> QED
    BY <2>5, <2>7 DEF g, h
<1>3. to(0)[0] = 1
  BY <1>1 DEF Solves
<1> HIDE DEF to
<1>4. P(G)
  <2>1. ASSUME NEW n \in Nat
        PROVE  G[n] = IF n = 0 THEN 1 ELSE 10 * G[n - 1]
    <3>1. CASE n = 0
      BY <1>3, <3>1
    <3>2. CASE n # 0
      <4>1. n - 1 \in Nat /\ (n - 1) + 1 = n
        BY <3>2
      <4> QED
        BY <1>2, <3>2, <4>1
    <3> QED
      BY <3>1, <3>2
  <2> QED
    BY <2>1
<1>5. P(Tens)
  <2>1. Tens = CHOOSE g : P(g)
    BY Zenon DEF Tens
  <2> HIDE DEF P
  <2> QED
    BY <1>4, <2>1, Zenon
<1>6. Tens[0] = 1 /\ \A n \in Nat : Tens[n + 1] = 10 * Tens[n]
  <2>1. Tens[0] = 1
    BY <1>5
  <2>2. ASSUME NEW n \in Nat
        PROVE  Tens[n + 1] = 10 * Tens[n]
    <3>1. n + 1 \in Nat /\ n + 1 # 0 /\ (n + 1) - 1 = n
      OBVIOUS
    <3>2. Tens[n + 1] = 10 * Tens[(n + 1) - 1]
      BY <1>5, <3>1
    <3> QED
      BY <3>1, <3>2
  <2> QED
    BY <2>1, <2>2
<1> HIDE DEF P, G
<1>7. \A n \in Nat : Tens[n] \in Nat /\ Tens[n] > 0
  <2> DEFINE T == {n \in Nat : ~(Tens[n] \in Nat /\ Tens[n] > 0)}
  <2> SUFFICES ASSUME T # {}
               PROVE  FALSE
    OBVIOUS
  <2>1. PICK x \in T : \A y \in T : x <= y
    <3>1. T \subseteq Nat
      OBVIOUS
    <3> HIDE DEF T
    <3> QED
      BY <3>1, LeastOfNaturals
  <2>2. x \in Nat /\ x # 0
    BY <1>6
  <2>3. x - 1 \in Nat /\ x - 1 \notin T /\ (x - 1) + 1 = x
    BY <2>1, <2>2
  <2>4. Tens[x - 1] \in Nat /\ Tens[x - 1] > 0 /\ Tens[x] = 10 * Tens[x - 1]
    BY <1>6, <2>3
  <2> QED
    BY <2>4
<1> QED
  BY <1>6, <1>7

LEMMA TensOfSum ==
    ASSUME NEW m \in Nat, NEW n \in Nat
    PROVE  Tens[m + n] = Tens[m] * Tens[n]
<1> DEFINE T == {k \in Nat : Tens[m + k] # Tens[m] * Tens[k]}
<1> SUFFICES ASSUME T # {}
             PROVE  FALSE
  OBVIOUS
<1>1. PICK x \in T : \A y \in T : x <= y
  <2>1. T \subseteq Nat
    OBVIOUS
  <2> HIDE DEF T
  <2> QED
    BY <2>1, LeastOfNaturals
<1>2. x # 0
  <2>1. Tens[m] \in Nat /\ Tens[0] = 1
    BY TensValues
  <2>2. Tens[m + 0] = Tens[m] * Tens[0]
    BY <2>1
  <2> QED
    BY <2>2
<1>3. x - 1 \in Nat /\ x - 1 \notin T /\ (x - 1) + 1 = x /\ m + (x - 1) \in Nat
      /\ (m + (x - 1)) + 1 = m + x
  BY <1>1, <1>2
<1> DEFINE a == Tens[m]
           b == Tens[x - 1]
           c == Tens[m + (x - 1)]
<1>4. a \in Nat /\ b \in Nat /\ c \in Nat /\ Tens[x] = 10 * b /\ Tens[m + x] = 10 * c
  BY <1>3, TensValues
<1>5. c = a * b
  BY <1>3
<1> HIDE DEF a, b, c
<1>6. 10 * (a * b) = a * (10 * b)
  BY <1>4, SMT
<1>7. Tens[m + x] = a * Tens[x]
  BY <1>4, <1>5, <1>6
<1> QED
  BY <1>7 DEF a

(* The values the parse loop goes through. *)
Run(g, digits) == Solves(g, [i \in 1 .. Len(digits) |-> 10], digits, 0, Len(digits))

LEMMA HornerRuns ==
    ASSUME NEW digits \in Seq(Nat)
    PROVE  \E g : Run(g, digits) /\ Horner(digits) = g[Len(digits)]
<1> DEFINE n    == Len(digits)
           P(g) == g = [i \in 0 .. n |-> IF i = 0 THEN 0 ELSE 10 * g[i - 1] + digits[i]]
           h    == CHOOSE g : P(g)
<1>1. n \in Nat /\ digits \in [1 .. n -> Nat] /\ [i \in 1 .. n |-> 10] \in [1 .. n -> Nat]
  OBVIOUS
<1>2. PICK g : Run(g, digits)
  <2>1. 0 \in Nat
    OBVIOUS
  <2>2. \E g : Solves(g, [i \in 1 .. n |-> 10], digits, 0, n)
    <3> HIDE DEF n
    <3> QED
      BY <1>1, <2>1, RecurrenceHasSolution
  <2> QED
    BY <2>2 DEF Run
<1>3. P(g)
  BY <1>1, <1>2 DEF Run, Solves
<1>4. Horner(digits) = h[n]
  BY Zenon DEF Horner
<1>5. P(h)
  <2> HIDE DEF P
  <2> QED
    BY <1>3, Zenon
<1> HIDE DEF h
<1>6. \A i \in 0 .. n : h[i] = IF i = 0 THEN 0 ELSE 10 * h[i - 1] + digits[i]
  BY <1>5
<1>7. \A i \in 0 .. n : h[i] = g[i]
  <2> DEFINE T == {i \in 0 .. n : h[i] # g[i]}
  <2> SUFFICES ASSUME T # {}
               PROVE  FALSE
    OBVIOUS
  <2>1. PICK x \in T : \A y \in T : x <= y
    <3>1. T \subseteq Nat
      BY <1>1
    <3> HIDE DEF T
    <3> QED
      BY <3>1, LeastOfNaturals
  <2>2. x # 0
    BY <1>1, <1>3, <1>6
  <2>3. x - 1 \in 0 .. n /\ x - 1 \notin T
    BY <1>1, <2>1, <2>2
  <2>4. h[x - 1] = g[x - 1]
    BY <2>3
  <2> QED
    BY <1>3, <1>6, <2>2, <2>4
<1>8. Horner(digits) = g[n]
  BY <1>1, <1>4, <1>7
<1> QED
  BY <1>2, <1>8

LEMMA RunTypes ==
    ASSUME NEW digits \in Seq(Nat), NEW g, Run(g, digits)
    PROVE  /\ g[0] = 0
           /\ \A i \in 0 .. Len(digits) : g[i] \in Nat
           /\ \A i \in 1 .. Len(digits) : g[i] = 10 * g[i - 1] + digits[i]
BY DEF Run, Solves

(* Runs over a text and over a prefix of it agree on the prefix.           *)
LEMMA RunsAgree ==
    ASSUME NEW s \in Seq(Nat), NEW u \in Seq(Nat), Len(s) <= Len(u),
           \A i \in 1 .. Len(s) : s[i] = u[i],
           NEW h, Run(h, s), NEW g, Run(g, u)
    PROVE  \A i \in 0 .. Len(s) : h[i] = g[i]
<1> DEFINE T == {i \in 0 .. Len(s) : h[i] # g[i]}
<1> SUFFICES ASSUME T # {}
             PROVE  FALSE
  OBVIOUS
<1>1. PICK x \in T : \A y \in T : x <= y
  <2>1. T \subseteq Nat
    OBVIOUS
  <2> HIDE DEF T
  <2> QED
    BY <2>1, LeastOfNaturals
<1>2. x # 0
  BY RunTypes
<1>3. /\ x \in 1 .. Len(s) /\ x \in 1 .. Len(u)
      /\ x - 1 \in 0 .. Len(s) /\ x - 1 \notin T
  BY <1>1, <1>2
<1>4. h[x - 1] = g[x - 1]
  BY <1>3
<1>5. h[x] = 10 * h[x - 1] + s[x] /\ g[x] = 10 * g[x - 1] + u[x]
  BY <1>3, RunTypes
<1> QED
  BY <1>3, <1>4, <1>5

(* The places of the digits, added up, are what Horner's scheme computes.  *)
LEMMA NumeralIsHorner ==
    ASSUME NEW digits \in Seq(Nat)
    PROVE  Numeral(digits) = Horner(digits)
<1> DEFINE n     == Len(digits)
           one   == [i \in 1 .. n |-> 1]
           place == [i \in 1 .. n |-> digits[i] * Tens[n - i]]
           P(g)  == g = [i \in 0 .. n |-> IF i = 0 THEN 0 ELSE g[i - 1] + digits[i] * Tens[n - i]]
           h     == CHOOSE g : P(g)
<1>1. n \in Nat /\ \A i \in 1 .. n : digits[i] \in Nat /\ n - i \in Nat
  OBVIOUS
<1>2. PICK g : Run(g, digits) /\ Horner(digits) = g[n]
  BY HornerRuns
<1>3. one \in [1 .. n -> Nat] /\ place \in [1 .. n -> Nat]
  <2>1. \A i \in 1 .. n : digits[i] * Tens[n - i] \in Nat
    BY <1>1, TensValues, ProductOfNaturals
  <2> QED
    BY <2>1
<1>4. PICK s : Solves(s, one, place, 0, n)
  <2> HIDE DEF one, place, n
  <2> QED
    BY <1>1, <1>3, RecurrenceHasSolution
<1>5. /\ s \in [0 .. n -> Nat] /\ s[0] = 0
      /\ \A i \in 1 .. n : s[i] = s[i - 1] + digits[i] * Tens[n - i]
  <2>1. s \in [0 .. n -> Nat] /\ s[0] = 0
    BY <1>4 DEF Solves
  <2>2. ASSUME NEW i \in 1 .. n
        PROVE  s[i] = s[i - 1] + digits[i] * Tens[n - i]
    <3>1. one[i] = 1 /\ place[i] = digits[i] * Tens[n - i] /\ s[i - 1] \in Nat
      BY <2>1
    <3> HIDE DEF one, place
    <3>2. s[i] = one[i] * s[i - 1] + place[i]
      BY <1>4 DEF Solves
    <3> QED
      BY <3>1, <3>2
  <2> QED
    BY <2>1, <2>2
<1>6. P(s)
  <2>1. \A i \in 0 .. n : s[i] = IF i = 0 THEN 0 ELSE s[i - 1] + digits[i] * Tens[n - i]
    BY <1>1, <1>5
  <2>2. s = [i \in 0 .. n |-> s[i]]
    BY <1>5
  <2> QED
    BY <2>1, <2>2
<1>7. Numeral(digits) = h[n]
  BY Zenon DEF Numeral
<1>8. P(h)
  <2> HIDE DEF P
  <2> QED
    BY <1>6, Zenon
<1> HIDE DEF h
<1>9. \A i \in 0 .. n : h[i] = IF i = 0 THEN 0 ELSE h[i - 1] + digits[i] * Tens[n - i]
  BY <1>8
<1> HIDE DEF P, one, place
<1>10. \A i \in 0 .. n : h[i] = g[i] * Tens[n - i]
  <2> DEFINE T == {i \in 0 .. n : h[i] # g[i] * Tens[n - i]}
  <2> SUFFICES ASSUME T # {}
               PROVE  FALSE
    OBVIOUS
  <2>1. PICK x \in T : \A y \in T : x <= y
    <3>1. T \subseteq Nat
      BY <1>1
    <3> HIDE DEF T
    <3> QED
      BY <3>1, LeastOfNaturals
  <2>2. x # 0
    <3>1. 0 \in 0 .. n /\ n - 0 \in Nat /\ h[0] = 0 /\ g[0] = 0
      BY <1>1, <1>2, <1>9, RunTypes
    <3>2. Tens[n - 0] \in Nat
      BY <3>1, TensValues
    <3> QED
      BY <3>1, <3>2
  <2>3. x \in 1 .. n /\ x - 1 \in 0 .. n /\ x - 1 \notin T
    BY <1>1, <2>1, <2>2
  <2> DEFINE t == Tens[n - x]
             a == g[x - 1]
             d == digits[x]
  <2>4. t \in Nat /\ Tens[n - (x - 1)] = 10 * t
    <3>1. n - x \in Nat /\ (n - x) + 1 = n - (x - 1)
      BY <1>1, <2>3
    <3> QED
      BY <3>1, TensValues
  <2>5. a \in Nat /\ d \in Nat /\ g[x] = 10 * a + d
    BY <1>1, <1>2, <2>3, RunTypes
  <2>6. h[x] = a * (10 * t) + d * t
    BY <1>9, <2>2, <2>3, <2>4
  <2>7. h[x] # g[x] * t
    OBVIOUS
  <2> HIDE DEF t, a, d
  <2>8. a * (10 * t) + d * t = (10 * a + d) * t
    BY <2>4, <2>5, SMT
  <2> QED
    BY <2>5, <2>6, <2>7, <2>8
<1>11. h[n] = g[n]
  <2>1. n \in 0 .. n /\ n - n = 0 /\ Tens[0] = 1 /\ g[n] \in Nat
    BY <1>1, <1>2, RunTypes, TensValues
  <2>2. h[n] = g[n] * 1
    BY <1>10, <2>1
  <2> QED
    BY <2>1, <2>2
<1> QED
  BY <1>2, <1>7, <1>11

(* Digits after the k-th shift what was read so far, and add a remainder   *)
(* that is zero just when they are all zero.                               *)
LEMMA RunRemainder ==
    ASSUME NEW digits \in Seq(Nat), NEW g, Run(g, digits), NEW k \in 0 .. Len(digits),
           \A i \in DOMAIN digits : digits[i] \in Digit
    PROVE  \E r \in Nat :
              /\ g[Len(digits)] = g[k] * Tens[Len(digits) - k] + r
              /\ r < Tens[Len(digits) - k]
              /\ r = 0 <=> \A i \in k + 1 .. Len(digits) : digits[i] = 0
<1> DEFINE n == Len(digits)
           Q(m, r) == /\ g[m] = g[k] * Tens[m - k] + r
                      /\ r < Tens[m - k]
                      /\ r = 0 <=> \A i \in k + 1 .. m : digits[i] = 0
           Has(m) == \E r \in Nat : Q(m, r)
           T == {m \in k .. n : ~Has(m)}
<1>1. n \in Nat /\ k \in Nat /\ k <= n /\ n \in k .. n
  OBVIOUS
<1>2. ASSUME T # {}
      PROVE  FALSE
  <2>1. PICK x \in T : \A y \in T : x <= y
    <3>1. T \subseteq Nat
      BY <1>1
    <3> HIDE DEF T
    <3> QED
      BY <1>2, <3>1, LeastOfNaturals
  <2>2. x \in k .. n /\ ~Has(x)
    OBVIOUS
  <2>3. x # k
    <3>1. k - k = 0 /\ k + 1 .. k = {} /\ g[k] \in Nat
      BY <1>1, RunTypes
    <3>2. Q(k, 0)
      <4>1. Tens[k - k] = 1
        BY <3>1, TensValues
      <4>2. g[k] = g[k] * Tens[k - k] + 0
        BY <3>1, <4>1
      <4> QED
        BY <3>1, <4>1, <4>2
    <3>3. Has(k)
      <4> HIDE DEF Q
      <4> QED
        BY <3>2
    <3> QED
      BY <2>2, <3>3
  <2>4. x - 1 \in k .. n /\ x \in 1 .. n /\ x \in k + 1 .. x /\ x \in DOMAIN digits
    BY <1>1, <2>2, <2>3
  <2>5. Has(x - 1)
    <3> HIDE DEF Has
    <3>1. ~(x <= x - 1)
      BY <2>4
    <3> QED
      BY <2>1, <2>4, <3>1
  <2>6. PICK r \in Nat : Q(x - 1, r)
    BY <2>5
  <2> DEFINE t == Tens[(x - 1) - k]
             a == g[k]
             d == digits[x]
  <2>7. t \in Nat /\ t > 0 /\ Tens[x - k] = 10 * t
    <3>1. (x - 1) - k \in Nat /\ ((x - 1) - k) + 1 = x - k
      BY <1>1, <2>4
    <3> QED
      BY <3>1, TensValues
  <2>8. a \in Nat /\ d \in 0 .. 9 /\ g[x] = 10 * g[x - 1] + d
    BY <1>1, <2>4, RunTypes DEF Digit
  <2>9. g[x - 1] = a * t + r /\ r < t
    BY <2>6
  <2>10. \A i \in k + 1 .. x : i # x => i \in k + 1 .. x - 1
    BY <1>1, <2>4
  <2>11. \A i \in k + 1 .. x - 1 : i \in k + 1 .. x
    BY <1>1, <2>4
  <2>12. 10 * r + d = 0 <=> \A i \in k + 1 .. x : digits[i] = 0
    <3>1. r = 0 <=> \A i \in k + 1 .. x - 1 : digits[i] = 0
      BY <2>6
    <3>2. 10 * r + d = 0 <=> r = 0 /\ d = 0
      BY <2>8
    <3> QED
      BY <2>4, <2>10, <2>11, <3>1, <3>2
  <2> HIDE DEF t, a, d
  <2>13. g[x] = a * (10 * t) + (10 * r + d)
    <3>1. 10 * (a * t + r) + d = a * (10 * t) + (10 * r + d)
      BY <2>7, <2>8, SMT
    <3> QED
      BY <2>8, <2>9, <3>1
  <2>14. 10 * r + d \in Nat /\ 10 * r + d < 10 * t
    BY <2>7, <2>8, <2>9
  <2>15. Q(x, 10 * r + d)
    BY <2>7, <2>12, <2>13, <2>14 DEF a
  <2>16. Has(x)
    <3> HIDE DEF Q
    <3> QED
      BY <2>14, <2>15
  <2> QED
    BY <2>2, <2>16
<1>3. Has(n)
  <2> HIDE DEF Has
  <2> QED
    BY <1>1, <1>2
<1> QED
  BY <1>3

IsText(t) == t.neg \in BOOLEAN /\ t.int \in Seq(Nat) /\ t.frac \in Seq(Nat)

LEMMA JoinedDigits ==
    ASSUME NEW s \in Seq(Nat), NEW u \in Seq(Nat)
    PROVE  /\ s \o u \in Seq(Nat)
           /\ Len(s) \in Nat /\ Len(u) \in Nat
           /\ Len(s \o u) = Len(s) + Len(u)
           /\ DOMAIN s = 1 .. Len(s) /\ DOMAIN u = 1 .. Len(u)
           /\ DOMAIN (s \o u) = 1 .. Len(s) + Len(u)
           /\ \A i \in 1 .. Len(s) : (s \o u)[i] = s[i]
           /\ \A i \in 1 .. Len(u) : (s \o u)[Len(s) + i] = u[i]
<1>1. s \o u \in Seq(Nat) /\ Len(s) \in Nat /\ Len(u) \in Nat
  OBVIOUS
<1>2. Len(s \o u) = Len(s) + Len(u)
  OBVIOUS
<1>3. DOMAIN s = 1 .. Len(s) /\ DOMAIN u = 1 .. Len(u)
  OBVIOUS
<1>4. DOMAIN (s \o u) = 1 .. Len(s) + Len(u)
  BY <1>1, <1>2
<1>5. \A i \in 1 .. Len(s) : (s \o u)[i] = s[i]
  OBVIOUS
<1>6. ASSUME NEW i \in 1 .. Len(u)
      PROVE  (s \o u)[Len(s) + i] = u[i]
  <2>1. Len(s) + i \in 1 .. Len(s) + Len(u) /\ ~(Len(s) + i <= Len(s))
        /\ (Len(s) + i) - Len(s) = i
    BY <1>1
  <2> QED
    BY <2>1
<1> QED
  BY <1>1, <1>2, <1>3, <1>4, <1>5, <1>6

LEMMA TextDigits ==
    ASSUME NEW t, IsText(t)
    PROVE  /\ t.int \o t.frac \in Seq(Nat)
           /\ Len(t.int) \in Nat /\ Len(t.frac) \in Nat
           /\ Len(t.int \o t.frac) = Len(t.int) + Len(t.frac)
           /\ DOMAIN t.int = 1 .. Len(t.int) /\ DOMAIN t.frac = 1 .. Len(t.frac)
           /\ DOMAIN (t.int \o t.frac) = 1 .. Len(t.int) + Len(t.frac)
           /\ \A i \in 1 .. Len(t.int) : (t.int \o t.frac)[i] = t.int[i]
           /\ \A i \in 1 .. Len(t.frac) : (t.int \o t.frac)[Len(t.int) + i] = t.frac[i]
<1> DEFINE s == t.int
           u == t.frac
<1>1. s \in Seq(Nat) /\ u \in Seq(Nat)
  BY DEF IsText
<1> SUFFICES /\ s \o u \in Seq(Nat)
             /\ Len(s) \in Nat /\ Len(u) \in Nat
             /\ Len(s \o u) = Len(s) + Len(u)
             /\ DOMAIN s = 1 .. Len(s) /\ DOMAIN u = 1 .. Len(u)
             /\ DOMAIN (s \o u) = 1 .. Len(s) + Len(u)
             /\ \A i \in 1 .. Len(s) : (s \o u)[i] = s[i]
             /\ \A i \in 1 .. Len(u) : (s \o u)[Len(s) + i] = u[i]
  OBVIOUS
<1> HIDE DEF s, u
<1> QED
  BY <1>1, JoinedDigits

(* The digits kept of u, and the text they end.                            *)
LEMMA KeptDigits ==
    ASSUME NEW s \in Seq(Nat), NEW u \in Seq(Nat), NEW m \in Nat, m <= Len(u)
    PROVE  /\ Len(SubSeq(u, 1, m)) = m
           /\ s \o SubSeq(u, 1, m) \in Seq(Nat)
           /\ Len(s \o SubSeq(u, 1, m)) = Len(s) + m
           /\ \A i \in 1 .. Len(s) + m : (s \o SubSeq(u, 1, m))[i] = (s \o u)[i]
<1> DEFINE v == SubSeq(u, 1, m)
<1>1. Len(s) \in Nat /\ Len(u) \in Nat
  OBVIOUS
<1>2. v \in Seq(Nat) /\ Len(v) = m /\ \A i \in 1 .. m : v[i] = u[i]
  <2>1. \A i \in 1 .. m : i \in 1 .. Len(u)
    BY <1>1
  <2>2. v \in Seq(Nat)
    BY <1>1
  <2>3. Len(v) = m
    BY <1>1
  <2>4. \A i \in 1 .. m : v[i] = u[i]
    BY <1>1
  <2> QED
    BY <2>2, <2>3, <2>4
<1> HIDE DEF v
<1>3. s \o v \in Seq(Nat) /\ Len(s \o v) = Len(s) + m
  BY <1>2, JoinedDigits
<1>4. ASSUME NEW i \in 1 .. Len(s) + m
      PROVE  (s \o v)[i] = (s \o u)[i]
  <2>1. CASE i <= Len(s)
    <3>1. i \in 1 .. Len(s)
      BY <1>1, <2>1
    <3> QED
      BY <1>2, <3>1, JoinedDigits
  <2>2. CASE ~(i <= Len(s))
    <3> DEFINE j == i - Len(s)
    <3>1. j \in 1 .. m /\ j \in 1 .. Len(u) /\ i = Len(s) + j
      BY <1>1, <2>2
    <3> HIDE DEF j
    <3>2. (s \o v)[Len(s) + j] = v[j]
      BY <1>2, <3>1, JoinedDigits
    <3>3. (s \o u)[Len(s) + j] = u[j]
      BY <3>1, JoinedDigits
    <3> QED
      BY <1>2, <3>1, <3>2, <3>3
  <2> QED
    BY <2>1, <2>2
<1> QED
  BY <1>2, <1>3, <1>4 DEF v

(* The loop reads the digits of the whole text up to the last one kept.    *)
LEMMA MagnitudeValue ==
    ASSUME NEW t, IsText(t), NEW scale \in Nat, NEW g, Run(g, t.int \o t.frac),
           NEW m, m = IF Len(t.frac) < scale THEN Len(t.frac) ELSE scale
    PROVE  Magnitude(t, scale) = g[Len(t.int) + m] * Tens[scale - m]
<1> DEFINE s     == t.int
           u     == t.frac
           whole == s \o u
           kept  == SubSeq(u, 1, m)
           part  == s \o kept
           n     == Len(s) + m
<1>1. s \in Seq(Nat) /\ u \in Seq(Nat)
  BY DEF IsText
<1>2. Magnitude(t, scale) = Horner(part) * Tens[scale - Len(kept)]
  BY DEF Magnitude
<1>3. Run(g, whole) /\ m = IF Len(u) < scale THEN Len(u) ELSE scale
  OBVIOUS
<1> HIDE DEF s, u
<1>4. Len(s) \in Nat /\ Len(u) \in Nat /\ m \in Nat /\ m <= Len(u) /\ n \in Nat
  <2>1. Len(s) \in Nat /\ Len(u) \in Nat
    BY <1>1
  <2> QED
    BY <1>3, <2>1
<1>5. Len(kept) = m /\ part \in Seq(Nat) /\ Len(part) = n
      /\ \A i \in 1 .. n : part[i] = whole[i]
  BY <1>1, <1>4, KeptDigits
<1>6. whole \in Seq(Nat) /\ Len(whole) \in Nat /\ n <= Len(whole)
  <2>1. whole \in Seq(Nat) /\ Len(whole) = Len(s) + Len(u)
    BY <1>1, JoinedDigits
  <2> QED
    BY <1>4, <2>1
<1> HIDE DEF part, whole, kept, n
<1>7. PICK h : Run(h, part) /\ Horner(part) = h[n]
  BY <1>5, HornerRuns
<1>8. \A i \in 0 .. n : h[i] = g[i]
  BY <1>3, <1>5, <1>6, <1>7, RunsAgree
<1>9. h[n] = g[n]
  BY <1>4, <1>8
<1>10. Magnitude(t, scale) = g[n] * Tens[scale - m]
  BY <1>2, <1>5, <1>7, <1>9
<1> QED
  BY <1>10 DEF n, s

LEMMA MagnitudeIsNatural ==
    ASSUME NEW t, IsText(t), NEW scale \in Nat
    PROVE  Magnitude(t, scale) \in Nat
<1> DEFINE D == t.int \o t.frac
           I == Len(t.int)
           L == Len(t.frac)
           m == IF L < scale THEN L ELSE scale
<1>1. D \in Seq(Nat) /\ I \in Nat /\ L \in Nat /\ Len(D) = I + L
  BY TextDigits
<1>2. PICK g : Run(g, D)
  <2> HIDE DEF D
  <2> QED
    BY <1>1, HornerRuns
<1>3. Magnitude(t, scale) = g[I + m] * Tens[scale - m]
  BY <1>2, MagnitudeValue
<1> HIDE DEF D, I, L
<1>4. m \in Nat /\ scale - m \in Nat /\ I + m \in 0 .. Len(D)
  BY <1>1
<1>5. g[I + m] \in Nat /\ Tens[scale - m] \in Nat
  BY <1>1, <1>2, <1>4, RunTypes, TensValues
<1> QED
  BY <1>3, <1>5, ProductOfNaturals

(* A decimal is its magnitude and a remainder finer than the scale, which  *)
(* is zero just when only zeros follow the last digit kept.                *)
LEMMA DecimalRemainder ==
    ASSUME NEW t, IsText(t), NEW scale \in Nat, IsDecimal(t)
    PROVE  \E r \in Nat :
              /\ Above(t, scale) = Tens[Len(t.frac)] * Magnitude(t, scale) + r
              /\ r < Tens[Len(t.frac)]
              /\ r = 0 <=> \A i \in DOMAIN t.frac : i > scale => t.frac[i] = 0
<1> DEFINE D == t.int \o t.frac
           I == Len(t.int)
           L == Len(t.frac)
           m == IF L < scale THEN L ELSE scale
<1>1. /\ D \in Seq(Nat) /\ I \in Nat /\ L \in Nat /\ Len(D) = I + L
      /\ DOMAIN t.frac = 1 .. L /\ \A i \in 1 .. L : D[I + i] = t.frac[i]
  BY TextDigits
<1>2. PICK g : Run(g, D) /\ Horner(D) = g[I + L]
  BY <1>1, HornerRuns
<1>3. Above(t, scale) = g[I + L] * Tens[scale]
  BY <1>1, <1>2, NumeralIsHorner DEF Above
<1>4. Magnitude(t, scale) = g[I + m] * Tens[scale - m]
  BY <1>2, MagnitudeValue
<1>5. /\ g[I + L] \in Nat /\ I + m \in 0 .. Len(D) /\ g[I + m] \in Nat
      /\ Tens[scale] \in Nat /\ Tens[scale] > 0 /\ Tens[L] \in Nat /\ Tens[L] > 0
  <2> HIDE DEF D, I, L
  <2>1. I + L \in 0 .. Len(D) /\ I + m \in 0 .. Len(D)
    BY <1>1
  <2> QED
    BY <1>1, <1>2, <2>1, RunTypes, TensValues
<1>6. CASE L <= scale
  <2>1. m = L /\ scale - L \in Nat /\ (scale - L) + L = scale
    BY <1>1, <1>6
  <2>2. Tens[scale] = Tens[scale - L] * Tens[L] /\ Tens[scale - L] \in Nat
    <3>1. Tens[(scale - L) + L] = Tens[scale - L] * Tens[L]
      BY <1>1, <2>1, TensOfSum
    <3> QED
      BY <2>1, <3>1, TensValues
  <2> DEFINE x == g[I + L]
             a == Tens[scale - L]
             b == Tens[L]
  <2>3. x \in Nat /\ a \in Nat /\ b \in Nat
    BY <1>5, <2>2
  <2>4. Above(t, scale) = x * (a * b) /\ Magnitude(t, scale) = x * a
    BY <1>3, <1>4, <2>1, <2>2
  <2> HIDE DEF x, a, b
  <2>5. x * (a * b) = b * (x * a) + 0
    BY <2>3, SMT
  <2>6. Above(t, scale) = b * Magnitude(t, scale) + 0
    BY <2>4, <2>5
  <2>7. \A i \in DOMAIN t.frac : ~(i > scale)
    BY <1>1, <1>6
  <2> QED
    BY <1>5, <2>6, <2>7 DEF b
<1>7. CASE ~(L <= scale)
  <2>1. /\ m = scale /\ scale - m = 0 /\ L - scale \in Nat /\ (L - scale) + scale = L
        /\ I + scale \in 0 .. Len(D) /\ Len(D) - (I + scale) = L - scale
    <3> HIDE DEF D, I, L
    <3> QED
      BY <1>1, <1>7
  <2>2. \A i \in DOMAIN D : D[i] \in Digit
    BY DEF IsDecimal, Range
  <2> DEFINE k == I + scale
  <2> HIDE DEF D, I, L, k
  <2>3. PICK r \in Nat :
           /\ g[Len(D)] = g[k] * Tens[Len(D) - k] + r
           /\ r < Tens[Len(D) - k]
           /\ r = 0 <=> \A i \in k + 1 .. Len(D) : D[i] = 0
    <3>1. k \in 0 .. Len(D)
      BY <2>1 DEF k
    <3> QED
      BY <1>1, <1>2, <2>2, <3>1, RunRemainder
  <2> DEFINE x == g[k]
             a == Tens[L - scale]
             b == Tens[scale]
  <2>4. g[I + L] = x * a + r /\ r < a
    <3>1. Len(D) = I + L /\ Len(D) - k = L - scale
      BY <1>1, <2>1 DEF k
    <3> QED
      BY <2>3, <3>1
  <2>5. Tens[L] = a * b
    <3>1. Tens[(L - scale) + scale] = Tens[L - scale] * Tens[scale]
      BY <2>1, TensOfSum
    <3> QED
      BY <2>1, <3>1
  <2>6. x \in Nat /\ a \in Nat /\ b \in Nat /\ b > 0
    <3>1. Tens[L - scale] \in Nat
      BY <2>1, TensValues
    <3> QED
      BY <1>5, <2>1, <3>1 DEF k
  <2>7. Magnitude(t, scale) = x
    <3>1. Tens[0] = 1
      BY TensValues
    <3>2. Magnitude(t, scale) = x * 1
      BY <1>4, <2>1, <3>1 DEF k
    <3> QED
      BY <2>6, <3>2
  <2>8. r = 0 <=> \A i \in DOMAIN t.frac : i > scale => t.frac[i] = 0
    <3> USE DEF k
    <3>1. ASSUME \A i \in k + 1 .. Len(D) : D[i] = 0, NEW i \in 1 .. L, i > scale
          PROVE  t.frac[i] = 0
      <4>1. I + i \in k + 1 .. Len(D)
        BY <1>1, <3>1
      <4>2. D[I + i] = 0
        BY <3>1, <4>1
      <4> QED
        BY <1>1, <4>2
    <3>2. ASSUME \A i \in 1 .. L : i > scale => t.frac[i] = 0, NEW i \in k + 1 .. Len(D)
          PROVE  D[i] = 0
      <4>1. i - I \in 1 .. L /\ i - I > scale /\ I + (i - I) = i
        BY <1>1, <3>2
      <4>2. t.frac[i - I] = 0
        BY <3>2, <4>1
      <4> QED
        BY <1>1, <4>1, <4>2
    <3> QED
      BY <1>1, <2>3, <3>1, <3>2
  <2>9. Above(t, scale) = (x * a + r) * b
    BY <1>3, <2>4
  <2> HIDE DEF x, a, b
  <2>10. (x * a + r) * b = (a * b) * x + r * b
    BY <2>6, SMT
  <2>11. r * b \in Nat /\ r * b < a * b /\ (r * b = 0 <=> r = 0)
    <3>1. r * b \in Nat
      BY <2>6, ProductOfNaturals
    <3>2. r * b < a * b
      BY <2>4, <2>6, SMT
    <3>3. r * b = 0 <=> r = 0
      BY <2>6, SMT
    <3> QED
      BY <3>1, <3>2, <3>3
  <2> DEFINE rest == r * b
  <2>12. /\ Above(t, scale) = Tens[L] * Magnitude(t, scale) + rest
         /\ rest \in Nat /\ rest < Tens[L]
    BY <2>5, <2>7, <2>9, <2>10, <2>11
  <2>13. rest = 0 <=> \A i \in DOMAIN t.frac : i > scale => t.frac[i] = 0
    BY <2>8, <2>11
  <2> HIDE DEF rest
  <2> QED
    BY <2>12, <2>13 DEF L
<1> QED
  BY <1>6, <1>7

(* parse_fixed accepts a decimal exactly when it is a whole number of      *)
(* units of its scale that fits an i128, and then returns that number.     *)
LEMMA ParsesExactly ==
    ASSUME NEW t, IsText(t), NEW scale \in Nat
    PROVE  /\ Tens[Len(t.frac)] \in Int /\ Tens[Len(t.frac)] > 0
           /\ IsDecimal(t) => Above(t, scale) \in Int /\ Above(t, scale) >= 0
           /\ Parses(t, scale) <=>
                 /\ IsDecimal(t)
                 /\ Above(t, scale) % Tens[Len(t.frac)] = 0
                 /\ Above(t, scale) \div Tens[Len(t.frac)] <= I128Max
           /\ Parses(t, scale) => Above(t, scale) = Tens[Len(t.frac)] * Magnitude(t, scale)
<1> DEFINE V == Magnitude(t, scale)
           B == Tens[Len(t.frac)]
           A == Above(t, scale)
<1>1. V \in Nat /\ B \in Nat /\ B > 0 /\ B \in Int
  <2>1. V \in Nat
    BY MagnitudeIsNatural
  <2> DEFINE L == Len(t.frac)
  <2>2. L \in Nat
    BY TextDigits
  <2>3. Tens[L] \in Nat /\ Tens[L] > 0
    <3> HIDE DEF L
    <3> QED
      BY <2>2, TensValues
  <2> HIDE DEF V
  <2> QED
    BY <2>1, <2>3
<1>2. IsDecimal(t) <=> /\ t.int \o t.frac # << >>
                       /\ \A i \in DOMAIN t.int : t.int[i] \in Digit
                       /\ \A i \in DOMAIN t.frac : t.frac[i] \in Digit
  <2> DEFINE D == t.int \o t.frac
             I == Len(t.int)
             L == Len(t.frac)
  <2>1. IsDecimal(t) <=> D # << >> /\ \A i \in DOMAIN D : D[i] \in Digit
    BY DEF IsDecimal, Range
  <2>2. /\ I \in Nat /\ L \in Nat /\ DOMAIN D = 1 .. I + L
        /\ DOMAIN t.int = 1 .. I /\ DOMAIN t.frac = 1 .. L
        /\ \A i \in 1 .. I : D[i] = t.int[i]
        /\ \A i \in 1 .. L : D[I + i] = t.frac[i]
    BY TextDigits
  <2> HIDE DEF D, I, L
  <2>3. ASSUME \A i \in DOMAIN D : D[i] \in Digit
        PROVE  /\ \A i \in 1 .. I : t.int[i] \in Digit
               /\ \A i \in 1 .. L : t.frac[i] \in Digit
    <3>1. \A i \in 1 .. I : i \in DOMAIN D
      BY <2>2
    <3>2. \A i \in 1 .. L : I + i \in DOMAIN D
      BY <2>2
    <3>3. \A i \in 1 .. I : t.int[i] \in Digit
      BY <2>2, <2>3, <3>1
    <3>4. \A i \in 1 .. L : t.frac[i] \in Digit
      BY <2>2, <2>3, <3>2
    <3> QED
      BY <3>3, <3>4
  <2>4. ASSUME \A i \in 1 .. I : t.int[i] \in Digit, \A i \in 1 .. L : t.frac[i] \in Digit,
               NEW i \in DOMAIN D
        PROVE  D[i] \in Digit
    <3>1. CASE i <= I
      <4>1. i \in 1 .. I
        BY <2>2, <2>4, <3>1
      <4> QED
        BY <2>2, <2>4, <4>1
    <3>2. CASE ~(i <= I)
      <4>1. i - I \in 1 .. L /\ I + (i - I) = i
        BY <2>2, <2>4, <3>2
      <4>2. D[I + (i - I)] = t.frac[i - I]
        BY <2>2, <4>1
      <4> QED
        BY <2>4, <4>1, <4>2
    <3> QED
      BY <3>1, <3>2
  <2> QED
    BY <2>1, <2>2, <2>3, <2>4 DEF D
<1>3. Parses(t, scale) <=> /\ IsDecimal(t)
                           /\ \A i \in DOMAIN t.frac : i > scale => t.frac[i] = 0
                           /\ V <= I128Max
  BY <1>1, <1>2, WidthAssumption DEF Parses, Fits128
<1>4. ASSUME IsDecimal(t)
      PROVE  /\ A \in Int /\ A >= 0 /\ A \div B = V
             /\ A % B = 0 <=> \A i \in DOMAIN t.frac : i > scale => t.frac[i] = 0
             /\ A % B = 0 => A = B * V
  <2>1. PICK r \in Nat :
           /\ A = B * V + r /\ r < B
           /\ r = 0 <=> \A i \in DOMAIN t.frac : i > scale => t.frac[i] = 0
    BY <1>4, DecimalRemainder
  <2> HIDE DEF A, B, V
  <2>2. B * V \in Nat
    BY <1>1, ProductOfNaturals
  <2>3. A \in Int /\ A >= 0
    BY <2>1, <2>2
  <2>4. A \div B = V
    <3>1. (B * V + r) \div B = V
      BY <1>1, <2>1, QuotientIsUnique
    <3> QED
      BY <2>1, <3>1
  <2>5. A = B * (A \div B) + (A % B) /\ A % B \in Int
    BY <1>1, <2>3, Quotient
  <2>6. A % B = r
    BY <2>1, <2>2, <2>4, <2>5
  <2> QED
    BY <2>1, <2>2, <2>3, <2>4, <2>6
<1> HIDE DEF A, B, V
<1>5. Parses(t, scale) <=> IsDecimal(t) /\ A % B = 0 /\ A \div B <= I128Max
  BY <1>3, <1>4
<1>6. Parses(t, scale) => A = B * V
  BY <1>4, <1>5
<1>7. IsDecimal(t) => A \in Int /\ A >= 0
  BY <1>4
<1>8. B \in Int /\ B > 0
  BY <1>1
<1> QED
  BY <1>5, <1>6, <1>7, <1>8 DEF A, B, V

LEMMA ScaledDivision ==
    ASSUME NEW a \in Int, NEW b \in Int, NEW unit \in Int, b > 0, unit > 0
    PROVE  /\ unit * b \in Int /\ unit * b > 0
           /\ a % (unit * b) = 0 <=> a % b = 0 /\ (a \div b) % unit = 0
           /\ a % (unit * b) = 0 => a \div (unit * b) = (a \div b) \div unit
<1> DEFINE w == unit * b
           v == a \div b
<1>1. w \in Int /\ w > 0
  BY SMT
<1>2. v \in Int /\ a = b * v + (a % b)
  BY Quotient
<1> HIDE DEF w, v
<1>3. ASSUME a % w = 0
      PROVE  a % b = 0 /\ v % unit = 0 /\ a \div w = v \div unit
  <2> DEFINE q == a \div w
  <2>1. q \in Int /\ a = w * q
    <3>1. a \div w \in Int /\ a = w * (a \div w) + (a % w)
      BY <1>1, Quotient
    <3>2. w * (a \div w) \in Int
      BY <1>1, <3>1, SMT
    <3> QED
      BY <1>3, <3>1, <3>2
  <2> HIDE DEF q
  <2>2. unit * q \in Int /\ a = b * (unit * q) + 0
    BY <2>1, SMT DEF w
  <2>3. v = unit * q
    <3> DEFINE p == unit * q
    <3>1. p \in Int /\ a = b * p + 0
      BY <2>2
    <3> HIDE DEF p
    <3>2. (b * p + 0) \div b = p
      BY <3>1, QuotientIsUnique
    <3> QED
      BY <3>1, <3>2 DEF p, v
  <2>4. a % b = 0
    <3>1. a = b * v + 0 /\ b * v \in Int /\ a % b \in Int
      <4>1. a % b \in 0 .. b - 1
        BY Quotient
      <4> QED
        BY <2>2, <2>3, <4>1
    <3> QED
      BY <1>2, <3>1
  <2>5. v \div unit = q
    <3>1. (unit * q + 0) \div unit = q
      BY <2>1, QuotientIsUnique
    <3>2. unit * q + 0 = v
      BY <2>2, <2>3
    <3> QED
      BY <3>1, <3>2
  <2>6. v % unit = 0
    <3> DEFINE r == v % unit
               p == unit * q
    <3>1. r \in 0 .. unit - 1 /\ v = unit * (v \div unit) + r
      BY <1>2, Quotient
    <3>2. p \in Int /\ v = p /\ v = p + r
      BY <2>2, <2>3, <2>5, <3>1
    <3> HIDE DEF r, p
    <3>3. r = 0
      BY <3>1, <3>2
    <3> QED
      BY <3>3 DEF r
  <2> QED
    BY <2>4, <2>5, <2>6 DEF q
<1>4. ASSUME a % b = 0, v % unit = 0
      PROVE  a % w = 0
  <2> DEFINE q == v \div unit
             r == a % w
  <2>1. q \in Int /\ unit * q \in Int /\ v = unit * q
    <3>1. q \in Int /\ v = unit * q + (v % unit)
      BY <1>2, Quotient
    <3> HIDE DEF q
    <3>2. unit * q \in Int
      BY <3>1, SMT
    <3> QED
      BY <1>4, <3>1, <3>2
  <2> HIDE DEF q
  <2>2. a = w * q + 0
    <3>1. b * v \in Int
      BY <1>2, SMT
    <3>2. a = b * v
      BY <1>2, <1>4, <3>1
    <3>3. b * (unit * q) = (unit * b) * q /\ (unit * b) * q \in Int
      BY <2>1, SMT
    <3> QED
      BY <2>1, <3>2, <3>3 DEF w
  <2>3. r \in 0 .. w - 1 /\ a = w * (a \div w) + r
    BY <1>1, Quotient
  <2>4. a \div w = q
    <3>1. (w * q + 0) \div w = q
      BY <1>1, <2>1, QuotientIsUnique
    <3> QED
      BY <2>2, <3>1
  <2> HIDE DEF r
  <2>5. w * q \in Int
    BY <1>1, <2>1, SMT
  <2>6. r = 0
    BY <2>2, <2>3, <2>4, <2>5
  <2> QED
    BY <2>6 DEF r
<1>5. a % w = 0 <=> a % b = 0 /\ v % unit = 0
  BY <1>3, <1>4
<1> QED
  BY <1>1, <1>3, <1>5 DEF w, v

(* A text denotes a multiple of the unit exactly when it parses, and its   *)
(* magnitude is one.                                                       *)
LEMMA MultipleExactly ==
    ASSUME NEW t, IsText(t), NEW scale \in Nat, NEW unit \in Int, unit > 0, NEW limit \in Int
    PROVE  /\ IsMultiple(t, scale, unit, limit) <=>
                 /\ Parses(t, scale)
                 /\ t.neg => Magnitude(t, scale) = 0
                 /\ Magnitude(t, scale) % unit = 0
                 /\ Magnitude(t, scale) \div unit <= limit
           /\ Parses(t, scale) => (Above(t, scale) > 0 <=> Magnitude(t, scale) > 0)
           /\ Parses(t, scale) /\ Magnitude(t, scale) % unit = 0 =>
                 (Magnitude(t, scale) \div unit) * Below(t, unit) = Above(t, scale)
<1> DEFINE A == Above(t, scale)
           V == Magnitude(t, scale)
           B == Tens[Len(t.frac)]
<1>1. V \in Nat
  BY MagnitudeIsNatural
<1>2. B \in Int /\ B > 0 /\ (IsDecimal(t) => A \in Int /\ A >= 0)
  BY ParsesExactly
<1>3. Parses(t, scale) <=> IsDecimal(t) /\ A % B = 0 /\ A \div B <= I128Max
  BY ParsesExactly
<1>4. Parses(t, scale) => A = B * V
  BY ParsesExactly
<1>5. Below(t, unit) = unit * B /\ Below(t, 1) = 1 * B
  BY DEF Below
<1>6. IsMultiple(t, scale, unit, limit) <=>
         /\ IsDecimal(t)
         /\ t.neg => A = 0
         /\ A % Below(t, unit) = 0
         /\ A \div Below(t, unit) <= limit
         /\ A \div Below(t, 1) <= I128Max
  BY DEF IsMultiple
<1> HIDE DEF A, V, B
<1>7. Below(t, 1) = B
  BY <1>2, <1>5
<1>8. ASSUME IsDecimal(t)
      PROVE  /\ A % (unit * B) = 0 <=> A % B = 0 /\ (A \div B) % unit = 0
             /\ A % (unit * B) = 0 => A \div (unit * B) = (A \div B) \div unit
  BY <1>2, <1>8, ScaledDivision
<1>9. ASSUME Parses(t, scale)
      PROVE  A \div B = V /\ (A = 0 <=> V = 0) /\ (A > 0 <=> V > 0)
  <2>1. A = B * V
    BY <1>4, <1>9
  <2>2. (B * V + 0) \div B = V
    BY <1>1, <1>2, QuotientIsUnique
  <2>3. B * V \in Int /\ (B * V = 0 <=> V = 0) /\ (B * V > 0 <=> V > 0)
    <3>1. B * V \in Int
      BY <1>1, <1>2, SMT
    <3>2. V > 0 => B * V > 0
      BY <1>1, <1>2, SMT
    <3>3. V = 0 => B * V = 0
      BY <1>1, <1>2, SMT
    <3> QED
      BY <1>1, <3>1, <3>2, <3>3
  <2> QED
    BY <2>1, <2>2, <2>3
<1>10. IsMultiple(t, scale, unit, limit) <=>
          /\ Parses(t, scale)
          /\ t.neg => V = 0
          /\ V % unit = 0
          /\ V \div unit <= limit
  BY <1>3, <1>5, <1>6, <1>7, <1>8, <1>9
<1>11. ASSUME Parses(t, scale), V % unit = 0
       PROVE  (V \div unit) * Below(t, unit) = A
  <2> DEFINE q == V \div unit
  <2>1. q \in Int /\ V = unit * q + (V % unit)
    BY <1>1, Quotient
  <2> HIDE DEF q
  <2>2. unit * q \in Int /\ V = unit * q
    <3>1. unit * q \in Int
      BY <2>1, SMT
    <3> QED
      BY <1>11, <2>1, <3>1
  <2>3. B * (unit * q) = q * (unit * B)
    BY <1>2, <2>1, SMT
  <2> QED
    BY <1>4, <1>5, <1>11, <2>2, <2>3 DEF q
<1> QED
  BY <1>9, <1>10, <1>11 DEF A, V

-----------------------------------------------------------------------------
(* Fills. *)

LEMMA HlTexts ==
    ASSUME NEW e \in HlEvent
    PROVE  /\ IsText(e.px) /\ IsText(e.qty) /\ IsText(e.fee)
           /\ Magnitude(e.px, PriceDigits) \in Nat
           /\ Magnitude(e.qty, QtyDigits) \in Nat
           /\ Magnitude(e.fee, PriceDigits) \in Nat
<1>1. IsText(e.px) /\ IsText(e.qty) /\ IsText(e.fee)
  BY TextAssumption DEF IsText
<1>2. PriceDigits \in Nat /\ QtyDigits \in Nat
  BY ScaleAssumption
<1> QED
  BY <1>1, <1>2, MagnitudeIsNatural

LEMMA HlFillIsValid ==
    ASSUME RegistryInv, NEW e \in HlEvent, HlError(e) = "Ok"
    PROVE  /\ <<"Hl", e.symbol>> \in DOMAIN by_symbol
           /\ FillError(HlFill(e), by_symbol[<<"Hl", e.symbol>>]) = "Ok"
<1> DEFINE spec == by_symbol[<<"Hl", e.symbol>>]
           f == HlFill(e)
<1>1. /\ <<"Hl", e.symbol>> \in DOMAIN by_symbol
      /\ spec.venue = "Hl"
      /\ PositiveSpec(spec)
      /\ ~(PxMicro(e) <= 0) /\ PxMicro(e) % spec.tick_micro = 0
      /\ ~(QtyE9(e) <= 0) /\ QtyE9(e) % spec.lot_qty_e9 = 0
      /\ ~(FeeMicro(e) < 0)
  BY DEF HlError
<1>2. Stored(spec)
  BY <1>1 DEF RegistryInv
<1>3. /\ f.venue = "Hl" /\ f.instrument = spec.instrument /\ f.kind = spec.kind
      /\ f.price = PxMicro(e) \div spec.tick_micro
      /\ f.qty = QtyE9(e) \div spec.lot_qty_e9
      /\ f.fee = FeeMicro(e)
  BY DEF HlFill
<1>4. PxMicro(e) \in Int /\ QtyE9(e) \in Int /\ FeeMicro(e) \in Int
  BY HlTexts DEF PxMicro, QtyE9, FeeMicro, ParsedValue
<1> HIDE DEF spec, f
<1>5. /\ spec.tick_micro \in Int /\ spec.tick_micro > 0
      /\ spec.lot_qty_e9 \in Int /\ spec.lot_qty_e9 > 0
      /\ spec.kind # "Binary"
  BY <1>1, <1>2 DEF Stored, PositiveSpec, InstrumentSpec
<1>6. f.price \in Int /\ f.price > 0 /\ f.qty \in Int /\ f.qty > 0
  BY <1>1, <1>3, <1>4, <1>5, PositiveQuotient
<1>7. FillError(f, spec) = "Ok"
  BY <1>1, <1>3, <1>4, <1>5, <1>6 DEF FillError
<1> QED
  BY <1>1, <1>7 DEF spec, f

(* What an accepted Pm event, its spec and its price in ticks are known by. *)
LEMMA PmAccepted ==
    ASSUME RegistryInv, NEW e \in PmEvent, PmError(e) = "Ok",
           NEW spec, spec = by_symbol[<<"Pm", e.market>>]
    PROVE  /\ <<"Pm", e.market>> \in DOMAIN by_symbol
           /\ spec.venue = "Pm" /\ spec.kind = "Binary" /\ PositiveSpec(spec)
           /\ spec.tick_micro \in Int /\ spec.tick_micro > 0
           /\ Dollar % spec.tick_micro = 0
           /\ Full(spec) \in Int /\ Fits64(Full(spec))
           /\ Lowest(spec) \in Int /\ Lowest(spec) > 0
           /\ Highest(spec) = Full(spec) - Lowest(spec)
           /\ e.price \in Int /\ e.price > 0 /\ ~OffTick(e, spec)
           /\ e.size \in Int /\ e.size > 0 /\ Fits64(e.size)
           /\ e.fee_bps \in Int /\ e.fee_bps >= 0
           /\ e.action \in {"BUY", "SELL"} /\ e.outcome \in {"YES", "NO"}
           /\ GrainsPerTick(spec) \in Int /\ GrainsPerTick(spec) > 0
           /\ RawTicks(e, spec) \in Int
           /\ Lowest(spec) <= RawTicks(e, spec)
           /\ RawTicks(e, spec) <= Highest(spec)
           /\ NotionalMicro(e, spec) \in Int /\ NotionalMicro(e, spec) >= 0
           /\ ~FeeOverflows(e, spec)
<1> DEFINE raw == RawTicks(e, spec)
           full == Full(spec)
<1>1. /\ <<"Pm", e.market>> \in DOMAIN by_symbol
      /\ spec.venue = "Pm"
      /\ PositiveSpec(spec)
      /\ ~(e.size <= 0) /\ ~(e.fee_bps < 0)
      /\ PriceError(e, spec) = "Ok"
      /\ Fits64(full)
      /\ ~(raw < Lowest(spec) \/ raw > Highest(spec))
      /\ ~FeeOverflows(e, spec)
      /\ e.action \in {"BUY", "SELL"} /\ e.outcome \in {"YES", "NO"}
  BY DEF PmError
<1>2. Stored(spec)
  BY <1>1 DEF RegistryInv
<1>3. /\ e.size \in Int /\ e.size > 0 /\ Fits64(e.size)
      /\ e.fee_bps \in Int /\ e.fee_bps >= 0
      /\ e.price \in Int /\ e.price > 0 /\ ~OffTick(e, spec)
  BY <1>1, PmAssumption DEF PriceError
<1>4. /\ spec.tick_micro \in Int /\ spec.tick_micro > 0
      /\ spec.micro_per_tick_lot \in Int /\ spec.micro_per_tick_lot > 0
      /\ spec.kind = "Binary" => Dollar % spec.tick_micro = 0 /\ full % 100 = 0
  BY <1>1, <1>2 DEF Stored, PositiveSpec, InstrumentSpec
<1>5. spec.kind = "Binary"
  BY <1>1, <1>2 DEF Stored, InstrumentSpec
<1>6. full \in Int /\ full > 0
  BY <1>4, <1>5, WidthAssumption, PositiveQuotient DEF Full
<1>7. /\ Lowest(spec) \in Int /\ Lowest(spec) > 0
      /\ Highest(spec) = full - Lowest(spec)
  BY <1>4, <1>5, <1>6, PositiveQuotient DEF Lowest, Highest
<1>8. GrainsPerTick(spec) \in Int /\ GrainsPerTick(spec) > 0
  BY <1>4, ScaleAssumption, SMT DEF GrainsPerTick
<1>9. raw \in Int
  <2>1. /\ 2 * e.price + GrainsPerTick(spec) \in Int
        /\ 2 * GrainsPerTick(spec) \in Int /\ 2 * GrainsPerTick(spec) > 0
    BY <1>3, <1>8
  <2> QED
    BY <2>1, Quotient DEF RawTicks
<1> HIDE DEF raw, full
<1>10. Lowest(spec) <= raw /\ raw <= Highest(spec)
  BY <1>1, <1>6, <1>7, <1>9
<1>11. NotionalMicro(e, spec) \in Int /\ NotionalMicro(e, spec) >= 0
  <2>1. raw * e.size \in Int /\ raw * e.size >= 0
    BY <1>3, <1>7, <1>9, <1>10, Products
  <2>2. (raw * e.size) * spec.micro_per_tick_lot \in Int
        /\ (raw * e.size) * spec.micro_per_tick_lot >= 0
    BY <1>4, <2>1, Products
  <2> QED
    BY <2>2 DEF NotionalMicro, raw
<1>12. /\ Full(spec) \in Int /\ Fits64(Full(spec))
       /\ Highest(spec) = Full(spec) - Lowest(spec)
       /\ RawTicks(e, spec) \in Int
       /\ Lowest(spec) <= RawTicks(e, spec)
       /\ RawTicks(e, spec) <= Highest(spec)
  BY <1>1, <1>6, <1>7, <1>9, <1>10 DEF raw, full
<1> QED
  BY <1>1, <1>3, <1>4, <1>5, <1>7, <1>8, <1>11, <1>12

LEMMA PmFeeIsNearest ==
    ASSUME RegistryInv, NEW e \in PmEvent, PmError(e) = "Ok",
           NEW spec, spec = by_symbol[<<"Pm", e.market>>],
           NEW charged, charged = NotionalMicro(e, spec) * e.fee_bps
    PROVE  /\ charged \in Int
           /\ PmFee(e, spec) \in Int /\ PmFee(e, spec) >= 0
           /\ PmFee(e, spec) <= I128Max
           /\ 10000 * PmFee(e, spec) - charged <= 5000
           /\ charged - 10000 * PmFee(e, spec) < 5000
<1>1. /\ NotionalMicro(e, spec) \in Int /\ NotionalMicro(e, spec) >= 0
      /\ e.fee_bps \in Int /\ e.fee_bps >= 0
      /\ ~FeeOverflows(e, spec)
  BY PmAccepted
<1>2. charged \in Int /\ charged >= 0
  BY <1>1, Products
<1>3. Fits128(charged + 5000)
  BY <1>1 DEF FeeOverflows
<1>4. PmFee(e, spec) = (charged + 5000) \div 10000
  BY DEF PmFee
<1> QED
  BY <1>2, <1>3, <1>4, WidthAssumption DEF Fits128

LEMMA PmFillIsValid ==
    ASSUME RegistryInv, NEW e \in PmEvent, PmError(e) = "Ok"
    PROVE  /\ <<"Pm", e.market>> \in DOMAIN by_symbol
           /\ FillError(PmFill(e), by_symbol[<<"Pm", e.market>>]) = "Ok"
<1> DEFINE spec == by_symbol[<<"Pm", e.market>>]
           f == PmFill(e)
<1>1. /\ f.venue = "Pm" /\ f.instrument = spec.instrument /\ f.kind = spec.kind
      /\ f.price \in {RawTicks(e, spec), Full(spec) - RawTicks(e, spec)}
      /\ f.qty = e.size
      /\ f.fee = PmFee(e, spec)
  BY DEF PmFill, Folded
<1>2. spec = by_symbol[<<"Pm", e.market>>]
  OBVIOUS
<1> HIDE DEF spec, f
<1>3. /\ <<"Pm", e.market>> \in DOMAIN by_symbol
      /\ spec.venue = "Pm" /\ spec.kind = "Binary" /\ PositiveSpec(spec)
      /\ Dollar % spec.tick_micro = 0
      /\ Full(spec) \in Int /\ Fits64(Full(spec))
      /\ Lowest(spec) \in Int /\ Lowest(spec) > 0
      /\ Highest(spec) = Full(spec) - Lowest(spec)
      /\ e.size \in Int /\ e.size > 0
      /\ RawTicks(e, spec) \in Int
      /\ Lowest(spec) <= RawTicks(e, spec)
      /\ RawTicks(e, spec) <= Highest(spec)
  BY <1>2, PmAccepted
<1>4. /\ f.price \in Int /\ f.price > 0
      /\ Lowest(spec) <= f.price /\ f.price <= Highest(spec)
  BY <1>1, <1>3
<1>5. f.fee \in Int /\ f.fee >= 0
  BY <1>1, <1>2, PmFeeIsNearest
<1>6. FillError(f, spec) = "Ok"
  BY <1>1, <1>3, <1>4, <1>5 DEF FillError
<1> QED
  BY <1>3, <1>6 DEF spec, f

(* Nothing is canonicalized before construction is over, and the registry  *)
(* never changes after, so a fill stays valid against it.                  *)
FillsInv ==
    Accepted => verdict = "Ok" /\ CanonicalFillsAreValid

LEMMA CanonicalizePreserves ==
    ASSUME RegistryInv,
           \/ \E e \in HlEvent : Canonicalize(e, CanonicalizeHl(e))
           \/ \E e \in PmEvent : Canonicalize(e, CanonicalizePm(e))
    PROVE  FillsInv'
<1> SUFFICES ASSUME Accepted'
             PROVE  /\ verdict' = "Ok"
                    /\ FillError(outcome'.fill,
                          by_symbol'[<<outcome'.fill.venue, outcome'.fill.symbol>>])
                       = "Ok"
  BY Zenon DEF FillsInv, CanonicalFillsAreValid, FillError,
               PositiveSpec, Full, Lowest, Highest, Fits64
<1>1. CASE \E e \in HlEvent : Canonicalize(e, CanonicalizeHl(e))
  <2>1. PICK e \in HlEvent : Canonicalize(e, CanonicalizeHl(e))
    BY <1>1
  <2>2. /\ verdict' = "Ok" /\ by_symbol' = by_symbol
        /\ outcome' = CanonicalizeHl(e)
    BY <2>1 DEF Canonicalize, rvars
  <2>3. HlError(e) = "Ok" /\ outcome'.fill = HlFill(e)
    BY <2>2 DEF CanonicalizeHl, NoFill, Accepted
  <2>4. HlFill(e).venue = "Hl" /\ HlFill(e).symbol = e.symbol
    BY DEF HlFill
  <2> QED
    BY <2>2, <2>3, <2>4, HlFillIsValid
<1>2. CASE \E e \in PmEvent : Canonicalize(e, CanonicalizePm(e))
  <2>1. PICK e \in PmEvent : Canonicalize(e, CanonicalizePm(e))
    BY <1>2
  <2>2. /\ verdict' = "Ok" /\ by_symbol' = by_symbol
        /\ outcome' = CanonicalizePm(e)
    BY <2>1 DEF Canonicalize, rvars
  <2>3. PmError(e) = "Ok" /\ outcome'.fill = PmFill(e)
    BY <2>2 DEF CanonicalizePm, NoFill, Accepted
  <2>4. PmFill(e).venue = "Pm" /\ PmFill(e).symbol = e.market
    BY DEF PmFill
  <2> QED
    BY <2>2, <2>3, <2>4, PmFillIsValid
<1> QED
  BY <1>1, <1>2

(* The keeper never refuses what the canonicalizer accepted as invalid or  *)
(* out of range: both checks agree on every registry construction accepts. *)
THEOREM FillsAreValid == Spec => []CanonicalFillsAreValid
<1>1. Init => FillsInv
  <2>1. NoFill("none yet").error # "Ok"
    BY DEF NoFill
  <2> QED
    BY <2>1, Zenon DEF Init, FillsInv, Accepted
<1>2. RegistryInv /\ FillsInv /\ [Next]_vars => FillsInv'
  <2> SUFFICES ASSUME RegistryInv, FillsInv, [Next]_vars
               PROVE  FillsInv'
    OBVIOUS
  <2>1. CASE UNCHANGED vars
    BY <2>1 DEF FillsInv, CanonicalFillsAreValid, Accepted, vars, rvars,
                FillError, PositiveSpec, Full, Lowest, Highest, Fits64
  <2>2. CASE Build
    BY <2>2 DEF Build, RegistryNext, Add, Refuse, Finish, FillsInv, Accepted
  <2>3. CASE \/ \E e \in HlEvent : Canonicalize(e, CanonicalizeHl(e))
             \/ \E e \in PmEvent : Canonicalize(e, CanonicalizePm(e))
    BY <2>3, CanonicalizePreserves
  <2> QED
    BY <2>1, <2>2, <2>3 DEF Next
<1>3. FillsInv => CanonicalFillsAreValid
  BY DEF FillsInv, CanonicalFillsAreValid
<1> QED
  BY <1>1, <1>2, <1>3, RegistryInductive, PTL DEF Spec

-----------------------------------------------------------------------------
(* Types. *)

LEMMA RegistryTypesStep ==
    ASSUME RegistryTypeOK, RegistryNext
    PROVE  RegistryTypeOK'
<1>1. ASSUME NEW spec \in CandidateSpec, Add(spec)
      PROVE  RegistryTypeOK'
  <2>1. /\ Derived(spec).instrument = spec.instrument
        /\ SymbolOf(Derived(spec)) = SymbolOf(spec)
    BY <1>1, AcceptedIsStored DEF Add
  <2>2. /\ by_symbol' = [s \in DOMAIN by_symbol \cup {SymbolOf(spec)} |->
                            IF s = SymbolOf(spec) THEN Derived(spec) ELSE by_symbol[s]]
        /\ by_instrument' = [i \in DOMAIN by_instrument \cup {spec.instrument} |->
                            IF i \in DOMAIN by_instrument THEN by_instrument[i]
                                                          ELSE Derived(spec)]
        /\ verdict' = verdict
    BY <1>1 DEF Add
  <2>3. \A s \in DOMAIN by_symbol' :
            /\ by_symbol'[s] \in {Derived(c) : c \in CandidateSpec}
            /\ SymbolOf(by_symbol'[s]) = s
    BY <2>1, <2>2 DEF RegistryTypeOK
  <2>4. \A i \in DOMAIN by_instrument' : by_instrument'[i].instrument = i
    BY <2>1, <2>2 DEF RegistryTypeOK
  <2> QED
    BY <2>2, <2>3, <2>4 DEF RegistryTypeOK, SymbolOf, Derived, Product
<1>2. ASSUME NEW spec \in CandidateSpec, Refuse(spec)
      PROVE  RegistryTypeOK'
  <2>1. verdict' \in {"Open", "Ok", "InvalidSpec", "ArithmeticOverflow",
                      "DuplicateSymbol", "InconsistentInstrument"}
    BY <1>2 DEF Refuse, SpecError
  <2> QED
    BY <1>2, <2>1 DEF Refuse, RegistryTypeOK, SymbolOf, Derived, Product
<1>3. CASE Finish
  BY <1>3 DEF Finish, RegistryTypeOK, SymbolOf, Derived, Product
<1> QED
  BY <1>1, <1>2, <1>3 DEF RegistryNext

FillTypes(f) ==
    /\ f.price \in -I64Max - 1 .. I64Max
    /\ f.qty \in -I64Max - 1 .. I64Max
    /\ f.fee \in -I128Max - 1 .. I128Max

LEMMA HlFillTypes ==
    ASSUME RegistryInv, NEW e \in HlEvent, HlError(e) = "Ok"
    PROVE  FillTypes(HlFill(e))
<1> DEFINE spec == by_symbol[<<"Hl", e.symbol>>]
           f == HlFill(e)
<1>1. /\ <<"Hl", e.symbol>> \in DOMAIN by_symbol
      /\ PositiveSpec(spec)
      /\ Fits64(PxMicro(e) \div spec.tick_micro)
      /\ Fits64(QtyE9(e) \div spec.lot_qty_e9)
      /\ ~(FeeMicro(e) < 0) /\ Parses(e.fee, PriceDigits)
  BY DEF HlError
<1>2. Stored(spec)
  BY <1>1 DEF RegistryInv
<1>3. /\ f.price = PxMicro(e) \div spec.tick_micro
      /\ f.qty = QtyE9(e) \div spec.lot_qty_e9
      /\ f.fee = FeeMicro(e)
  BY DEF HlFill
<1>4. PxMicro(e) \in Int /\ QtyE9(e) \in Int
  BY HlTexts DEF PxMicro, QtyE9, ParsedValue
<1>5. /\ spec.tick_micro \in Int /\ spec.tick_micro > 0
      /\ spec.lot_qty_e9 \in Int /\ spec.lot_qty_e9 > 0
  BY <1>1, <1>2 DEF Stored, PositiveSpec, InstrumentSpec
<1> HIDE DEF spec, f
<1>6. /\ PxMicro(e) \div spec.tick_micro \in Int
      /\ QtyE9(e) \div spec.lot_qty_e9 \in Int
  BY <1>4, <1>5, Quotient
<1>7. FeeMicro(e) \in -I128Max - 1 .. I128Max
  <2>1. Magnitude(e.fee, PriceDigits) \in Nat
    BY HlTexts
  <2>2. Fits128(Magnitude(e.fee, PriceDigits))
    BY <1>1 DEF Parses
  <2> QED
    BY <1>1, <2>1, <2>2, WidthAssumption DEF FeeMicro, ParsedValue, Fits128
<1>8. FillTypes(f)
  BY <1>1, <1>3, <1>6, <1>7, WidthAssumption DEF FillTypes, Fits64
<1> QED
  BY <1>8 DEF f

LEMMA PmFillTypes ==
    ASSUME RegistryInv, NEW e \in PmEvent, PmError(e) = "Ok"
    PROVE  FillTypes(PmFill(e))
<1> DEFINE spec == by_symbol[<<"Pm", e.market>>]
           f == PmFill(e)
<1>1. /\ f.price \in {RawTicks(e, spec), Full(spec) - RawTicks(e, spec)}
      /\ f.qty = e.size
      /\ f.fee = PmFee(e, spec)
  BY DEF PmFill, Folded
<1>2. spec = by_symbol[<<"Pm", e.market>>]
  OBVIOUS
<1> HIDE DEF spec, f
<1>3. /\ Full(spec) \in Int /\ Fits64(Full(spec))
      /\ Lowest(spec) \in Int /\ Lowest(spec) > 0
      /\ Highest(spec) = Full(spec) - Lowest(spec)
      /\ e.size \in Int /\ Fits64(e.size)
      /\ RawTicks(e, spec) \in Int
      /\ Lowest(spec) <= RawTicks(e, spec)
      /\ RawTicks(e, spec) <= Highest(spec)
  BY <1>2, PmAccepted
<1>4. PmFee(e, spec) \in Int /\ PmFee(e, spec) >= 0 /\ PmFee(e, spec) <= I128Max
  BY <1>2, PmFeeIsNearest
<1>5. f.price \in -I64Max - 1 .. I64Max
  BY <1>1, <1>3, WidthAssumption DEF Fits64
<1>6. f.qty \in -I64Max - 1 .. I64Max
  BY <1>1, <1>3, WidthAssumption DEF Fits64
<1>7. f.fee \in -I128Max - 1 .. I128Max
  BY <1>1, <1>4, WidthAssumption
<1>8. FillTypes(f)
  BY <1>5, <1>6, <1>7 DEF FillTypes
<1> QED
  BY <1>8 DEF f

(* Every fill fits the integers the code keeps it in, although prices and  *)
(* fees are computed from wider ones, and a registry holds derived specs   *)
(* of listed ones only (convert.rs:98-236).                                *)
THEOREM CanonicalizerTypes == Spec => []TypeOK
<1>1. Init => TypeOK
  <2>1. DOMAIN << >> = {} /\ NoFill("none yet").error = "none yet"
    BY DEF NoFill
  <2>2. ASSUME Init PROVE RegistryTypeOK
    BY <2>1, <2>2 DEF Init, RegistryInit, RegistryTypeOK
  <2> QED
    BY <2>1, <2>2 DEF Init, TypeOK, Error
<1>2. RegistryInv /\ TypeOK /\ [Next]_vars => TypeOK'
  <2> SUFFICES ASSUME RegistryInv, TypeOK, [Next]_vars
               PROVE  TypeOK'
    OBVIOUS
  <2>1. CASE UNCHANGED vars
    BY <2>1 DEF TypeOK, RegistryTypeOK, SymbolOf, Derived, Product, vars, rvars
  <2>2. CASE Build
    <3>1. RegistryTypeOK'
      BY <2>2, RegistryTypesStep DEF Build, TypeOK
    <3> QED
      BY <2>2, <3>1 DEF Build, TypeOK
  <2>3. ASSUME outcome'.error \in Error,
               outcome'.error = "Ok" => FillTypes(outcome'.fill),
               UNCHANGED rvars
        PROVE  TypeOK'
    <3>1. RegistryTypeOK'
      BY <2>3 DEF TypeOK, RegistryTypeOK, SymbolOf, Derived, Product, rvars
    <3> QED
      BY <2>3, <3>1 DEF TypeOK, FillTypes
  <2>4. ASSUME NEW e \in HlEvent, Canonicalize(e, CanonicalizeHl(e))
        PROVE  TypeOK'
    <3>1. outcome' = CanonicalizeHl(e) /\ UNCHANGED rvars
      BY <2>4 DEF Canonicalize
    <3>2. HlError(e) \in Error
      BY DEF HlError, Error
    <3>3. outcome'.error = HlError(e)
      BY <3>1 DEF CanonicalizeHl, NoFill
    <3>4. HlError(e) = "Ok" => FillTypes(outcome'.fill)
      BY <3>1, HlFillTypes DEF CanonicalizeHl
    <3> QED
      BY <2>3, <3>1, <3>2, <3>3, <3>4
  <2>5. ASSUME NEW e \in PmEvent, Canonicalize(e, CanonicalizePm(e))
        PROVE  TypeOK'
    <3>1. outcome' = CanonicalizePm(e) /\ UNCHANGED rvars
      BY <2>5 DEF Canonicalize
    <3>2. PmError(e) \in Error
      BY DEF PmError, PriceError, Error
    <3>3. outcome'.error = PmError(e)
      BY <3>1 DEF CanonicalizePm, NoFill
    <3>4. PmError(e) = "Ok" => FillTypes(outcome'.fill)
      BY <3>1, PmFillTypes DEF CanonicalizePm
    <3> QED
      BY <2>3, <3>1, <3>2, <3>3, <3>4
  <2> QED
    BY <2>1, <2>2, <2>4, <2>5 DEF Next
<1> QED
  BY <1>1, <1>2, RegistryInductive, PTL DEF Spec

-----------------------------------------------------------------------------
(* Hl fills. *)

(* A spec that Hl events are converted with has positive units, and the    *)
(* event is refused for its numbers only.                                  *)
LEMMA HlOkExactly ==
    ASSUME RegistryInv, NEW e \in HlEvent, <<"Hl", e.symbol>> \in DOMAIN by_symbol,
           e.side \in {"buy", "sell"},
           NEW spec, spec = by_symbol[<<"Hl", e.symbol>>]
    PROVE  /\ spec.tick_micro \in Int /\ spec.tick_micro > 0
           /\ spec.lot_qty_e9 \in Int /\ spec.lot_qty_e9 > 0
           /\ HlError(e) = "Ok" <=>
                 /\ Parses(e.px, PriceDigits) /\ PxMicro(e) > 0
                 /\ PxMicro(e) % spec.tick_micro = 0
                 /\ Fits64(PxMicro(e) \div spec.tick_micro)
                 /\ Parses(e.qty, QtyDigits) /\ QtyE9(e) > 0
                 /\ QtyE9(e) % spec.lot_qty_e9 = 0
                 /\ Fits64(QtyE9(e) \div spec.lot_qty_e9)
                 /\ Parses(e.fee, PriceDigits) /\ FeeMicro(e) >= 0
<1>1. Stored(spec) /\ SymbolOf(spec) = <<"Hl", e.symbol>>
  BY DEF RegistryInv
<1>2. PositiveSpec(spec) /\ spec.venue = "Hl"
  BY <1>1 DEF Stored, SymbolOf
<1>3. /\ spec.tick_micro \in Int /\ spec.tick_micro > 0
      /\ spec.lot_qty_e9 \in Int /\ spec.lot_qty_e9 > 0
  BY <1>1, <1>2 DEF Stored, PositiveSpec, InstrumentSpec
<1>4. PxMicro(e) \in Int /\ QtyE9(e) \in Int /\ FeeMicro(e) \in Int
  BY HlTexts DEF PxMicro, QtyE9, FeeMicro, ParsedValue
<1> DEFINE good ==
              /\ Parses(e.px, PriceDigits) /\ ~(PxMicro(e) <= 0)
              /\ PxMicro(e) % spec.tick_micro = 0
              /\ Fits64(PxMicro(e) \div spec.tick_micro)
              /\ Parses(e.qty, QtyDigits) /\ ~(QtyE9(e) <= 0)
              /\ QtyE9(e) % spec.lot_qty_e9 = 0
              /\ Fits64(QtyE9(e) \div spec.lot_qty_e9)
              /\ Parses(e.fee, PriceDigits) /\ ~(FeeMicro(e) < 0)
<1>5. HlError(e) = "Ok" <=> good
  BY <1>2 DEF HlError
<1>6. good <=>
        /\ Parses(e.px, PriceDigits) /\ PxMicro(e) > 0
        /\ PxMicro(e) % spec.tick_micro = 0
        /\ Fits64(PxMicro(e) \div spec.tick_micro)
        /\ Parses(e.qty, QtyDigits) /\ QtyE9(e) > 0
        /\ QtyE9(e) % spec.lot_qty_e9 = 0
        /\ Fits64(QtyE9(e) \div spec.lot_qty_e9)
        /\ Parses(e.fee, PriceDigits) /\ FeeMicro(e) >= 0
  BY <1>4
<1> QED
  BY <1>3, <1>5, <1>6

(* Of a positive decimal: the value is the magnitude, and the division by  *)
(* the unit fits exactly when the quotient is below the limit.             *)
LEMMA PositiveMultiple ==
    ASSUME NEW t, IsText(t), t.neg \in BOOLEAN, NEW scale \in Nat,
           NEW unit \in Int, unit > 0,
           NEW value, value = ParsedValue(t, scale)
    PROVE  /\ (/\ Parses(t, scale) /\ value > 0
               /\ value % unit = 0 /\ Fits64(value \div unit)) <=>
                 IsMultiple(t, scale, unit, I64Max) /\ Above(t, scale) > 0
           /\ (Parses(t, scale) /\ value > 0 /\ value % unit = 0) =>
                 (value \div unit) * Below(t, unit) = Above(t, scale)
<1> DEFINE V == Magnitude(t, scale)
           M == IsMultiple(t, scale, unit, I64Max)
           A == Above(t, scale)
<1>1. V \in Nat
  BY MagnitudeIsNatural
<1>2. value = IF t.neg THEN -V ELSE V
  BY DEF ParsedValue
<1>3. I64Max \in Nat
  BY WidthAssumption
<1>4. M <=> /\ Parses(t, scale) /\ (t.neg => V = 0)
            /\ V % unit = 0 /\ V \div unit <= I64Max
  BY <1>3, MultipleExactly
<1>5. Parses(t, scale) => (A > 0 <=> V > 0)
  BY <1>3, MultipleExactly
<1>6. Parses(t, scale) /\ V % unit = 0 => (V \div unit) * Below(t, unit) = A
  BY <1>3, MultipleExactly
<1> HIDE DEF V, M, A
<1>7. value > 0 <=> ~t.neg /\ V > 0
  BY <1>1, <1>2
<1>8. value > 0 => value = V
  BY <1>1, <1>2
<1>9. ASSUME V > 0, V % unit = 0
      PROVE  Fits64(V \div unit) <=> V \div unit <= I64Max
  <2>1. V \div unit \in Int /\ V \div unit > 0
    BY <1>1, <1>9, PositiveQuotient
  <2> QED
    BY <1>3, <2>1 DEF Fits64
<1>10. (/\ Parses(t, scale) /\ value > 0
        /\ value % unit = 0 /\ Fits64(value \div unit)) <=> M /\ A > 0
  <2>1. ASSUME Parses(t, scale), value > 0, value % unit = 0, Fits64(value \div unit)
        PROVE  M /\ A > 0
    BY <1>4, <1>5, <1>7, <1>8, <1>9, <2>1
  <2>2. ASSUME M, A > 0
        PROVE  /\ Parses(t, scale) /\ value > 0
               /\ value % unit = 0 /\ Fits64(value \div unit)
    <3>1. Parses(t, scale) /\ V > 0 /\ (t.neg => V = 0) /\ V % unit = 0 /\ V \div unit <= I64Max
      BY <1>4, <1>5, <2>2
    <3>2. ~t.neg
      BY <1>1, <3>1
    <3>3. value > 0 /\ value = V
      BY <1>7, <1>8, <3>1, <3>2
    <3> QED
      BY <1>9, <3>1, <3>3
  <2> QED
    BY <2>1, <2>2
<1>11. (Parses(t, scale) /\ value > 0 /\ value % unit = 0) =>
          (value \div unit) * Below(t, unit) = A
  BY <1>6, <1>8
<1> QED
  BY <1>10, <1>11 DEF M, A

(* Of a fee: zero may be written with a sign, and the unit is one.         *)
LEMMA NonnegativeValue ==
    ASSUME NEW t, IsText(t), t.neg \in BOOLEAN, NEW scale \in Nat,
           NEW value, value = ParsedValue(t, scale)
    PROVE  /\ Parses(t, scale) /\ value >= 0 <=> IsMultiple(t, scale, 1, I128Max)
           /\ Parses(t, scale) /\ value >= 0 => value * Below(t, 1) = Above(t, scale)
<1> DEFINE V == Magnitude(t, scale)
           M == IsMultiple(t, scale, 1, I128Max)
           A == Above(t, scale)
<1>1. V \in Nat
  BY MagnitudeIsNatural
<1>2. value = IF t.neg THEN -V ELSE V
  BY DEF ParsedValue
<1>3. I128Max \in Nat /\ 1 \in Int /\ 1 > 0
  BY WidthAssumption
<1>4. M <=> /\ Parses(t, scale) /\ (t.neg => V = 0)
            /\ V % 1 = 0 /\ V \div 1 <= I128Max
  BY <1>3, MultipleExactly
<1>5. Parses(t, scale) /\ V % 1 = 0 => (V \div 1) * Below(t, 1) = A
  BY <1>3, MultipleExactly
<1>6. Parses(t, scale) => V <= I128Max
  BY DEF Parses, Fits128
<1> HIDE DEF V, M, A
<1>7. V % 1 = 0 /\ V \div 1 = V
  BY <1>1
<1>8. value >= 0 <=> (t.neg => V = 0)
  BY <1>1, <1>2
<1>9. value >= 0 => value = V
  BY <1>1, <1>2
<1>10. Parses(t, scale) /\ value >= 0 <=> M
  BY <1>4, <1>6, <1>7, <1>8
<1>11. Parses(t, scale) /\ value >= 0 => value * Below(t, 1) = A
  BY <1>5, <1>7, <1>9
<1> QED
  BY <1>10, <1>11 DEF M, A

(* An Hl event and its outcome, fill or refusal, stay with the registry.   *)
HlInv ==
    IsHl =>
        /\ verdict = "Ok"
        /\ event \in HlEvent
        /\ outcome = CanonicalizeHl(event)

LEMMA HlInductive == Spec => []HlInv
<1>1. Init => HlInv
  <2>1. DOMAIN << >> = {}
    OBVIOUS
  <2> QED
    BY <2>1, Zenon DEF Init, HlInv, IsHl
<1>2. HlInv /\ [Next]_vars => HlInv'
  <2> SUFFICES ASSUME HlInv, [Next]_vars, IsHl'
               PROVE  /\ verdict' = "Ok"
                      /\ event' \in HlEvent
                      /\ outcome' = (CanonicalizeHl(event))'
    BY DEF HlInv
  <2>1. ASSUME UNCHANGED by_symbol, NEW e \in HlEvent, event' = e
        PROVE  (CanonicalizeHl(event))' = CanonicalizeHl(e)
    BY <2>1, Zenon DEF CanonicalizeHl, HlError, HlFill, NoFill
  <2>2. CASE UNCHANGED vars
    BY <2>1, <2>2 DEF HlInv, IsHl, vars, rvars
  <2>3. CASE Build
    BY <2>3 DEF HlInv, IsHl, Build, RegistryNext, Add, Refuse, Finish
  <2>4. CASE \E e \in PmEvent : Canonicalize(e, CanonicalizePm(e))
    BY <2>4, EventAssumption DEF Canonicalize, IsHl
  <2>5. ASSUME NEW e \in HlEvent, Canonicalize(e, CanonicalizeHl(e))
        PROVE  /\ verdict' = "Ok"
               /\ event' \in HlEvent
               /\ outcome' = (CanonicalizeHl(event))'
    <3>1. /\ verdict' = "Ok" /\ event' = e /\ UNCHANGED by_symbol
          /\ outcome' = CanonicalizeHl(e)
      BY <2>5 DEF Canonicalize, rvars
    <3> QED
      BY <2>1, <3>1
  <2> QED
    BY <2>2, <2>3, <2>4, <2>5 DEF Next
<1> QED
  BY <1>1, <1>2, PTL DEF Spec

(* Whatever the digits, the scales and the widths, an Hl event is accepted *)
(* exactly when its decimals denote whole ticks, whole lots and a fee, and *)
(* the fill then holds those numbers: the loop that reads the digits and   *)
(* the divisions by tick and lot lose nothing (convert.rs:20-74, 115-148). *)
THEOREM HlFillsExact == Spec => []HlFillsAreExact
<1>1. RegistryInv /\ HlInv => HlFillsAreExact
  <2> SUFFICES ASSUME RegistryInv, HlInv, IsHl,
                      <<"Hl", event.symbol>> \in DOMAIN by_symbol,
                      event.side \in {"buy", "sell"},
                      NEW spec, spec = by_symbol[<<"Hl", event.symbol>>]
               PROVE  /\ Accepted <=>
                            /\ IsMultiple(event.px, PriceDigits, spec.tick_micro, I64Max)
                            /\ IsMultiple(event.qty, QtyDigits, spec.lot_qty_e9, I64Max)
                            /\ IsMultiple(event.fee, PriceDigits, 1, I128Max)
                            /\ Above(event.px, PriceDigits) > 0
                            /\ Above(event.qty, QtyDigits) > 0
                      /\ Accepted =>
                            /\ outcome.fill.price * Below(event.px, spec.tick_micro)
                                  = Above(event.px, PriceDigits)
                            /\ outcome.fill.qty * Below(event.qty, spec.lot_qty_e9)
                                  = Above(event.qty, QtyDigits)
                            /\ outcome.fill.fee * Below(event.fee, 1)
                                  = Above(event.fee, PriceDigits)
    BY DEF HlFillsAreExact
  <2>1. event \in HlEvent /\ outcome = CanonicalizeHl(event)
    BY DEF HlInv
  <2>2. Accepted <=> HlError(event) = "Ok"
    BY <2>1 DEF Accepted, CanonicalizeHl, NoFill
  <2>3. Accepted => /\ outcome.fill.price = PxMicro(event) \div spec.tick_micro
                    /\ outcome.fill.qty = QtyE9(event) \div spec.lot_qty_e9
                    /\ outcome.fill.fee = FeeMicro(event)
    BY <2>1, <2>2 DEF CanonicalizeHl, HlFill
  <2>4. /\ spec.tick_micro \in Int /\ spec.tick_micro > 0
        /\ spec.lot_qty_e9 \in Int /\ spec.lot_qty_e9 > 0
    BY <2>1, HlOkExactly
  <2>5. HlError(event) = "Ok" <=>
           /\ Parses(event.px, PriceDigits) /\ PxMicro(event) > 0
           /\ PxMicro(event) % spec.tick_micro = 0
           /\ Fits64(PxMicro(event) \div spec.tick_micro)
           /\ Parses(event.qty, QtyDigits) /\ QtyE9(event) > 0
           /\ QtyE9(event) % spec.lot_qty_e9 = 0
           /\ Fits64(QtyE9(event) \div spec.lot_qty_e9)
           /\ Parses(event.fee, PriceDigits) /\ FeeMicro(event) >= 0
    BY <2>1, HlOkExactly
  <2> DEFINE px    == event.px
             qty   == event.qty
             fee   == event.fee
             tick  == spec.tick_micro
             lot   == spec.lot_qty_e9
             price == PxMicro(event)
             size  == QtyE9(event)
             cost  == FeeMicro(event)
  <2>6. /\ IsText(px) /\ IsText(qty) /\ IsText(fee)
        /\ px.neg \in BOOLEAN /\ qty.neg \in BOOLEAN /\ fee.neg \in BOOLEAN
    BY <2>1, HlTexts DEF IsText
  <2>7. /\ price = ParsedValue(px, PriceDigits)
        /\ size = ParsedValue(qty, QtyDigits)
        /\ cost = ParsedValue(fee, PriceDigits)
    BY DEF PxMicro, QtyE9, FeeMicro
  <2>8. PriceDigits \in Nat /\ QtyDigits \in Nat /\ tick \in Int /\ lot \in Int
        /\ tick > 0 /\ lot > 0
    BY <2>4, ScaleAssumption
  <2> HIDE DEF px, qty, fee, tick, lot, price, size, cost
  <2>9. /\ (/\ Parses(px, PriceDigits) /\ price > 0
            /\ price % tick = 0 /\ Fits64(price \div tick)) <=>
              IsMultiple(px, PriceDigits, tick, I64Max) /\ Above(px, PriceDigits) > 0
        /\ (Parses(px, PriceDigits) /\ price > 0 /\ price % tick = 0) =>
              (price \div tick) * Below(px, tick) = Above(px, PriceDigits)
    BY <2>6, <2>7, <2>8, PositiveMultiple
  <2>10. /\ (/\ Parses(qty, QtyDigits) /\ size > 0
             /\ size % lot = 0 /\ Fits64(size \div lot)) <=>
               IsMultiple(qty, QtyDigits, lot, I64Max) /\ Above(qty, QtyDigits) > 0
         /\ (Parses(qty, QtyDigits) /\ size > 0 /\ size % lot = 0) =>
               (size \div lot) * Below(qty, lot) = Above(qty, QtyDigits)
    BY <2>6, <2>7, <2>8, PositiveMultiple
  <2>11. /\ Parses(fee, PriceDigits) /\ cost >= 0 <=> IsMultiple(fee, PriceDigits, 1, I128Max)
         /\ Parses(fee, PriceDigits) /\ cost >= 0 =>
               cost * Below(fee, 1) = Above(fee, PriceDigits)
    BY <2>6, <2>7, <2>8, NonnegativeValue
  <2>12. Accepted <=>
            /\ Parses(px, PriceDigits) /\ price > 0
            /\ price % tick = 0 /\ Fits64(price \div tick)
            /\ Parses(qty, QtyDigits) /\ size > 0
            /\ size % lot = 0 /\ Fits64(size \div lot)
            /\ Parses(fee, PriceDigits) /\ cost >= 0
    BY <2>2, <2>5 DEF px, qty, fee, tick, lot, price, size, cost
  <2>13. Accepted <=>
            /\ IsMultiple(px, PriceDigits, tick, I64Max)
            /\ IsMultiple(qty, QtyDigits, lot, I64Max)
            /\ IsMultiple(fee, PriceDigits, 1, I128Max)
            /\ Above(px, PriceDigits) > 0 /\ Above(qty, QtyDigits) > 0
    BY <2>9, <2>10, <2>11, <2>12
  <2>14. Accepted =>
            /\ outcome.fill.price * Below(px, tick) = Above(px, PriceDigits)
            /\ outcome.fill.qty * Below(qty, lot) = Above(qty, QtyDigits)
            /\ outcome.fill.fee * Below(fee, 1) = Above(fee, PriceDigits)
    <3>1. Accepted => /\ outcome.fill.price = price \div tick
                      /\ outcome.fill.qty = size \div lot
                      /\ outcome.fill.fee = cost
      BY <2>3 DEF tick, lot, price, size, cost
    <3> QED
      BY <2>9, <2>10, <2>11, <2>12, <3>1
  <2> QED
    BY <2>13, <2>14 DEF px, qty, fee, tick, lot
<1> QED
  BY <1>1, RegistryInductive, HlInductive, PTL

-----------------------------------------------------------------------------
(* Pm fills. *)

(* An accepted Pm event and its fill stay with the registry they were      *)
(* checked against.                                                        *)
PmInv ==
    (IsPm /\ Accepted) =>
        /\ verdict = "Ok"
        /\ event \in PmEvent
        /\ PmError(event) = "Ok"
        /\ outcome.fill = PmFill(event)

LEMMA PmInductive == Spec => []PmInv
<1>1. Init => PmInv
  <2>1. NoFill("none yet").error # "Ok"
    BY DEF NoFill
  <2> QED
    BY <2>1, Zenon DEF Init, PmInv, Accepted
<1>2. PmInv /\ [Next]_vars => PmInv'
  <2> SUFFICES ASSUME PmInv, [Next]_vars, (IsPm /\ Accepted)'
               PROVE  /\ verdict' = "Ok"
                      /\ event' \in PmEvent
                      /\ (PmError(event))' = "Ok"
                      /\ outcome'.fill = (PmFill(event))'
    BY DEF PmInv
  <2>1. ASSUME UNCHANGED by_symbol, NEW e \in PmEvent, event' = e
        PROVE  (PmError(event))' = PmError(e) /\ (PmFill(event))' = PmFill(e)
    BY <2>1, Zenon DEF PmError, PmFill
  <2>2. CASE UNCHANGED vars
    BY <2>1, <2>2 DEF PmInv, IsPm, Accepted, vars, rvars
  <2>3. CASE Build
    BY <2>3 DEF PmInv, IsPm, Accepted, Build, RegistryNext, Add, Refuse, Finish
  <2>4. CASE \E e \in HlEvent : Canonicalize(e, CanonicalizeHl(e))
    BY <2>4, EventAssumption DEF Canonicalize, IsPm
  <2>5. ASSUME NEW e \in PmEvent, Canonicalize(e, CanonicalizePm(e))
        PROVE  /\ verdict' = "Ok"
               /\ event' \in PmEvent
               /\ (PmError(event))' = "Ok"
               /\ outcome'.fill = (PmFill(event))'
    <3>1. /\ verdict' = "Ok" /\ event' = e /\ UNCHANGED by_symbol
          /\ outcome' = CanonicalizePm(e)
      BY <2>5 DEF Canonicalize, rvars
    <3>2. PmError(e) = "Ok" /\ outcome'.fill = PmFill(e)
      BY <3>1 DEF CanonicalizePm, NoFill, Accepted
    <3> QED
      BY <2>1, <3>1, <3>2
  <2> QED
    BY <2>2, <2>3, <2>4, <2>5 DEF Next
<1> QED
  BY <1>1, <1>2, PTL DEF Spec

(* The fee is the rate times the money that changed hands, to the nearest  *)
(* micro-dollar, whatever the sizes and the scale: the sum before the last *)
(* division is one that fits (convert.rs:204-212).                         *)
THEOREM NearestFee == Spec => []FeeIsNearest
<1>1. RegistryInv /\ PmInv => FeeIsNearest
  <2> SUFFICES ASSUME RegistryInv, PmInv, IsPm, Accepted,
                      NEW f, f = outcome.fill,
                      NEW spec, spec = by_symbol[<<"Pm", event.market>>],
                      NEW paid, paid = IF event.outcome = "YES" THEN f.price
                                       ELSE Full(spec) - f.price,
                      NEW exact, exact = paid * f.qty * spec.micro_per_tick_lot
                                            * event.fee_bps
               PROVE  /\ 10000 * f.fee - exact <= 5000
                      /\ exact - 10000 * f.fee < 5000
    BY DEF FeeIsNearest
  <2>1. event \in PmEvent /\ PmError(event) = "Ok" /\ f = PmFill(event)
    BY DEF PmInv
  <2>2. /\ f.price = IF event.outcome = "YES" THEN RawTicks(event, spec)
                     ELSE Full(spec) - RawTicks(event, spec)
        /\ f.qty = event.size /\ f.fee = PmFee(event, spec)
    BY <2>1 DEF PmFill, Folded
  <2>3. RawTicks(event, spec) \in Int /\ Full(spec) \in Int
    BY <2>1, PmAccepted
  <2>4. paid = RawTicks(event, spec)
    BY <2>2, <2>3
  <2>5. exact = NotionalMicro(event, spec) * event.fee_bps
    BY <2>2, <2>4 DEF NotionalMicro
  <2> QED
    BY <2>1, <2>2, <2>5, PmFeeIsNearest
<1> QED
  BY <1>1, RegistryInductive, PmInductive, PTL

-----------------------------------------------------------------------------
(* The two tellings of a trade. *)

(* Rounding commutes with the complement, except half way between ticks.   *)
LEMMA RoundsSymmetrically ==
    ASSUME NEW p \in Int, NEW u \in Int, NEW full \in Int, u > 0,
           (2 * p + u) % (2 * u) # 0
    PROVE  (2 * (full * u - p) + u) \div (2 * u) = full - (2 * p + u) \div (2 * u)
<1> DEFINE w == 2 * u
           raw == (2 * p + u) \div w
           r == (2 * p + u) % w
<1>1. w \in Int /\ w > 0 /\ 2 * p + u \in Int
  OBVIOUS
<1>2. raw \in Int /\ r \in 0 .. w - 1 /\ 2 * p + u = w * raw + r /\ r # 0
  <2>1. 2 * p + u = w * raw + r /\ raw \in Int /\ r \in 0 .. w - 1
    BY <1>1, Quotient
  <2> QED
    BY <2>1
<1> HIDE DEF raw, r
<1>3. 2 * (full * u - p) + u = w * (full - raw) + (w - r)
  <2>1. full * u \in Int /\ full * w = 2 * (full * u)
    BY SMT
  <2>2. w * (full - raw) = full * w - w * raw
    BY <1>1, <1>2, SMT
  <2>3. w * raw = 2 * p + u - r
    BY <1>1, <1>2
  <2>4. w * (full - raw) + (w - r) = 2 * (full * u) - 2 * p - u + w
    BY <1>1, <1>2, <2>1, <2>2, <2>3
  <2> QED
    BY <2>1, <2>4
<1>4. (w * (full - raw) + (w - r)) \div w = full - raw
  <2>1. full - raw \in Int /\ w - r \in Int /\ 0 <= w - r /\ w - r < w
    BY <1>1, <1>2
  <2> QED
    BY <1>1, <2>1, QuotientIsUnique
<1>5. (2 * (full * u - p) + u) \div w = full - raw
  BY <1>3, <1>4
<1> QED
  BY <1>5 DEF raw

LEMMA RoundingBounds ==
    ASSUME NEW p \in Int, NEW u \in Int, u > 0,
           NEW raw, raw = (2 * p + u) \div (2 * u)
    PROVE  /\ raw \in Int /\ raw * u \in Int
           /\ 2 * (p - raw * u) >= -u /\ 2 * (p - raw * u) < u
<1>1. 2 * u \in Int /\ 2 * u > 0 /\ 2 * p + u \in Int
  OBVIOUS
<1>2. /\ raw \in Int
      /\ (2 * p + u) % (2 * u) \in 0 .. 2 * u - 1
      /\ 2 * p + u = (2 * u) * raw + ((2 * p + u) % (2 * u))
  BY <1>1, Quotient
<1>3. raw * u \in Int /\ (2 * u) * raw = 2 * (raw * u)
  BY <1>2, SMT
<1> QED
  BY <1>2, <1>3

(* The tolerance is finer than half a tick of any price below a dollar.    *)
LEMMA NeverHalfWay ==
    ASSUME Precision >= 2 * Dollar, RegistryInv,
           NEW e \in PmEvent, PmError(e) = "Ok",
           NEW spec, spec = by_symbol[<<"Pm", e.market>>],
           NEW u, u = GrainsPerTick(spec)
    PROVE  /\ Full(spec) * u = Dollar * Grain
           /\ e.price < Full(spec) * u
           /\ (2 * e.price + u) % (2 * u) # 0
<1> DEFINE raw == RawTicks(e, spec)
           p == e.price
           full == Full(spec)
           tick == spec.tick_micro
<1>1. /\ tick \in Int /\ tick > 0 /\ Dollar % tick = 0
      /\ full \in Int
      /\ Lowest(spec) \in Int /\ Lowest(spec) > 0
      /\ Highest(spec) = full - Lowest(spec)
      /\ p \in Int /\ p > 0 /\ ~OffTick(e, spec)
      /\ u \in Int /\ u > 0
      /\ raw \in Int /\ Lowest(spec) <= raw /\ raw <= Highest(spec)
  BY PmAccepted
<1>2. u = Grain * tick /\ raw = (2 * p + u) \div (2 * u) /\ full = Dollar \div tick
  BY DEF GrainsPerTick, RawTicks, Full
<1>3. Precision * (IF p - raw * u < 0 THEN -(p - raw * u) ELSE p - raw * u)
          <= (IF p > u THEN p ELSE u)
  <2>1. ~(Precision * (IF p - raw * u < 0 THEN -(p - raw * u) ELSE p - raw * u)
             > (IF p > u THEN p ELSE u))
    BY <1>1 DEF OffTick
  <2>2. p - raw * u \in Int
    BY <1>1, SMT
  <2> DEFINE off == p - raw * u
             size == IF off < 0 THEN -off ELSE off
  <2>3. off \in Int /\ size \in Int
    BY <2>2
  <2> HIDE DEF size
  <2>4. Precision * size \in Int
    BY <2>3, ScaleAssumption, SMT
  <2>5. ~(Precision * size > (IF p > u THEN p ELSE u))
    BY <2>1 DEF size
  <2>6. Precision * size <= (IF p > u THEN p ELSE u)
    BY <1>1, <2>4, <2>5
  <2> QED
    BY <2>6 DEF size
<1> HIDE DEF raw, p, full, tick
<1>4. full * u = Dollar * Grain
  <2>1. Dollar = tick * full
    BY <1>1, <1>2, Quotient, WidthAssumption
  <2> QED
    BY <1>1, <1>2, <2>1, ScaleAssumption, SMT
<1>5. /\ raw * u \in Int
      /\ 2 * (p - raw * u) >= -u /\ 2 * (p - raw * u) < u
  <2>1. p \in Int /\ u \in Int /\ u > 0 /\ raw = (2 * p + u) \div (2 * u)
    BY <1>1, <1>2
  <2>2. raw * u \in Int
    BY <2>1, RoundingBounds
  <2>3. 2 * (p - raw * u) >= -u
    BY <2>1, RoundingBounds
  <2>4. 2 * (p - raw * u) < u
    BY <2>1, RoundingBounds
  <2> QED
    BY <2>2, <2>3, <2>4
<1>6. full * u \in Int /\ raw * u + u <= full * u /\ u <= raw * u
  <2>1. u * (full - raw) >= u /\ u * raw >= u
    BY <1>1, AtLeast
  <2>2. u * (full - raw) = full * u - raw * u /\ u * raw = raw * u
    BY <1>1, SMT
  <2>3. full * u \in Int
    BY <1>1, SMT
  <2> QED
    BY <1>1, <1>5, <2>1, <2>2, <2>3
<1>7. p < full * u
  BY <1>1, <1>5, <1>6
<1>8. ASSUME (2 * p + u) % (2 * u) = 0
      PROVE  FALSE
  <2> DEFINE half == -(p - raw * u)
             largest == IF p > u THEN p ELSE u
  <2>1. 2 * half = u /\ half \in Int /\ half > 0
    <3>1. 2 * u \in Int /\ 2 * u > 0 /\ 2 * p + u \in Int
      BY <1>1
    <3>2. 2 * p + u = (2 * u) * raw + ((2 * p + u) % (2 * u))
      BY <1>2, <3>1, Quotient
    <3>3. 2 * p + u = (2 * u) * raw
      BY <1>1, <1>8, <3>1, <3>2
    <3>4. (2 * u) * raw = 2 * (raw * u)
      BY <1>1, SMT
    <3> DEFINE near == raw * u
    <3>5. near \in Int /\ 2 * p + u = 2 * near
      BY <1>5, <3>3, <3>4
    <3> HIDE DEF near
    <3>6. 2 * (-(p - near)) = u /\ -(p - near) \in Int /\ -(p - near) > 0
      BY <1>1, <3>5
    <3> QED
      BY <3>6 DEF near
  <2>2. Precision * half <= largest
    BY <1>3, <2>1, <1>1, <1>5
  <2>3. largest < full * u /\ largest \in Int
    BY <1>1, <1>5, <1>6, <1>7
  <2> HIDE DEF half, largest
  <2>4. Precision \in Int /\ Dollar \in Int /\ Dollar > 0 /\ Grain \in Int /\ Grain > 0
    BY ScaleAssumption, WidthAssumption
  <2>5. Precision * half >= (2 * Dollar) * half
    BY <2>1, <2>4, SMT
  <2>6. (2 * Dollar) * half = Dollar * u
    <3>1. (2 * Dollar) * half = Dollar * (2 * half)
      BY <2>1, <2>4, SMT
    <3> QED
      BY <2>1, <3>1
  <2>7. u >= Grain
    BY <1>1, <1>2, <2>4, AtLeast
  <2>8. Dollar * u >= Dollar * Grain
    BY <1>1, <2>4, <2>7, SMT
  <2>9. Precision * half \in Int /\ Dollar * u \in Int /\ Dollar * Grain \in Int
    BY <1>1, <2>1, <2>4, SMT
  <2> QED
    BY <1>4, <1>6, <2>2, <2>3, <2>5, <2>6, <2>8, <2>9
<1> QED
  BY <1>4, <1>7, <1>8 DEF p, full

LEMMA ComplementFacts ==
    ASSUME Precision >= 2 * Dollar, RegistryInv,
           NEW e \in PmEvent, PmError(e) = "Ok",
           NEW spec, spec = by_symbol[<<"Pm", e.market>>],
           NEW c, c = Complement(e)
    PROVE  /\ c.market = e.market /\ c.size = e.size /\ c.fee_bps = e.fee_bps
           /\ c.outcome = (IF e.outcome = "YES" THEN "NO" ELSE "YES")
           /\ c.action = (IF e.action = "BUY" THEN "SELL" ELSE "BUY")
           /\ c.price = Full(spec) * GrainsPerTick(spec) - e.price
           /\ c.price \in Int /\ c.price > 0
           /\ RawTicks(c, spec) = Full(spec) - RawTicks(e, spec)
<1> DEFINE u == GrainsPerTick(spec)
           full == Full(spec)
<1>1. DOMAIN e = {"market", "outcome", "action", "price", "size", "fee_bps"}
  BY EventAssumption
<1>2. /\ c.market = e.market /\ c.size = e.size /\ c.fee_bps = e.fee_bps
      /\ c.outcome = (IF e.outcome = "YES" THEN "NO" ELSE "YES")
      /\ c.action = (IF e.action = "BUY" THEN "SELL" ELSE "BUY")
      /\ c.price = Dollar * Grain - e.price
  BY <1>1 DEF Complement
<1>3. e.price \in Int /\ u \in Int /\ u > 0 /\ full \in Int
  BY PmAccepted
<1>4. /\ full * u = Dollar * Grain /\ e.price < full * u
      /\ (2 * e.price + u) % (2 * u) # 0
  BY NeverHalfWay
<1>5. RawTicks(e, spec) = (2 * e.price + u) \div (2 * u)
  BY DEF RawTicks
<1>6. RawTicks(c, spec) = (2 * c.price + u) \div (2 * u)
  BY DEF RawTicks
<1> HIDE DEF u, full
<1>7. c.price = full * u - e.price
  BY <1>2, <1>4
<1>8. (2 * (full * u - e.price) + u) \div (2 * u)
          = full - (2 * e.price + u) \div (2 * u)
  BY <1>3, <1>4, RoundsSymmetrically
<1>9. c.price \in Int /\ c.price > 0
  <2>1. full * u \in Int
    BY <1>3, SMT
  <2> QED
    BY <1>3, <1>4, <1>7, <2>1
<1>10. RawTicks(c, spec) = full - RawTicks(e, spec)
  BY <1>5, <1>6, <1>7, <1>8
<1> QED
  BY <1>2, <1>7, <1>9, <1>10 DEF u, full

LEMMA ComplementFill ==
    ASSUME Precision >= 2 * Dollar, RegistryInv,
           NEW e \in PmEvent, PmError(e) = "Ok",
           NEW c, c = Complement(e)
    PROVE  [PmFill(c) EXCEPT !.fee = PmFill(e).fee] = PmFill(e)
<1> DEFINE spec == by_symbol[<<"Pm", e.market>>]
<1>1. spec = by_symbol[<<"Pm", e.market>>]
  OBVIOUS
<1> HIDE DEF spec
<1>2. /\ c.market = e.market /\ c.size = e.size
      /\ c.outcome = (IF e.outcome = "YES" THEN "NO" ELSE "YES")
      /\ c.action = (IF e.action = "BUY" THEN "SELL" ELSE "BUY")
      /\ RawTicks(c, spec) = Full(spec) - RawTicks(e, spec)
  BY <1>1, ComplementFacts
<1>3. /\ e.action \in {"BUY", "SELL"} /\ e.outcome \in {"YES", "NO"}
      /\ RawTicks(e, spec) \in Int /\ Full(spec) \in Int
  BY <1>1, PmAccepted
<1>4. Folded(c, spec)[1] = Folded(e, spec)[1]
  BY <1>2, <1>3 DEF Folded, Flip
<1>5. Folded(c, spec)[2] = Folded(e, spec)[2]
  BY <1>2, <1>3 DEF Folded
<1>6. PmFill(c) = [PmFill(e) EXCEPT !.fee = PmFill(c).fee]
  BY <1>1, <1>2, <1>4, <1>5 DEF PmFill
<1> QED
  BY <1>6 DEF PmFill

LEMMA ComplementAccepted ==
    ASSUME Precision >= 2 * Dollar, RegistryInv,
           NEW e \in PmEvent, PmError(e) = "Ok",
           NEW spec, spec = by_symbol[<<"Pm", e.market>>],
           NEW c, c = Complement(e),
           e.price % GrainsPerTick(spec) = 0, ~FeeOverflows(c, spec)
    PROVE  PmError(c) = "Ok"
<1> DEFINE u == GrainsPerTick(spec)
           full == Full(spec)
           raw == RawTicks(e, spec)
           praw == RawTicks(c, spec)
<1>1. /\ c.market = e.market /\ c.size = e.size /\ c.fee_bps = e.fee_bps
      /\ c.outcome \in {"YES", "NO"} /\ c.action \in {"BUY", "SELL"}
      /\ c.price = full * u - e.price
      /\ c.price \in Int /\ c.price > 0
      /\ praw = full - raw
  BY ComplementFacts
<1>2. /\ <<"Pm", e.market>> \in DOMAIN by_symbol
      /\ spec.venue = "Pm" /\ PositiveSpec(spec)
      /\ spec.tick_micro \in Int /\ spec.tick_micro > 0
      /\ full \in Int /\ Fits64(full)
      /\ Lowest(spec) \in Int /\ Lowest(spec) > 0
      /\ Highest(spec) = full - Lowest(spec)
      /\ e.price \in Int /\ e.size \in Int /\ e.size > 0
      /\ e.fee_bps \in Int /\ e.fee_bps >= 0
      /\ u \in Int /\ u > 0
      /\ raw \in Int /\ Lowest(spec) <= raw /\ raw <= Highest(spec)
  BY PmAccepted
<1>3. raw = (2 * e.price + u) \div (2 * u)
  BY DEF RawTicks
<1> HIDE DEF u, full, raw, praw
<1>4. e.price = raw * u
  <2> DEFINE k == e.price \div u
  <2>1. k \in Int /\ e.price = u * k
    BY <1>2, Quotient DEF u
  <2> HIDE DEF k
  <2>2. 2 * e.price + u = (2 * u) * k + u
    BY <1>2, <2>1, SMT
  <2>3. ((2 * u) * k + u) \div (2 * u) = k
    BY <1>2, <2>1, QuotientIsUnique
  <2> QED
    BY <1>2, <1>3, <2>1, <2>2, <2>3, SMT
<1>5. c.price - praw * u = 0
  <2>1. praw * u = full * u - raw * u
    BY <1>1, <1>2, SMT
  <2>2. full * u \in Int /\ raw * u \in Int
    BY <1>2, SMT
  <2> QED
    BY <1>1, <1>4, <2>1, <2>2
<1>6. /\ praw \in Int /\ praw >= Lowest(spec) /\ praw <= Highest(spec)
      /\ praw <= I64Max
  BY <1>1, <1>2, WidthAssumption DEF Fits64
<1>7. ~OffTick(c, spec)
  <2>1. c.price - RawTicks(c, spec) * GrainsPerTick(spec) = 0
    BY <1>5 DEF praw, u
  <2>2. OffTick(c, spec) <=> Precision * 0 > (IF c.price > u THEN c.price ELSE u)
    BY <2>1 DEF OffTick, u
  <2> QED
    BY <1>1, <1>2, <2>2, ScaleAssumption
<1>8. PriceError(c, spec) = "Ok"
  BY <1>1, <1>2, <1>6, <1>7, ScaleAssumption, WidthAssumption DEF PriceError, praw
<1>9. by_symbol[<<"Pm", c.market>>] = spec /\ <<"Pm", c.market>> \in DOMAIN by_symbol
  BY <1>1, <1>2
<1>10. /\ ~(c.size <= 0) /\ ~(c.fee_bps < 0)
       /\ ~(RawTicks(c, spec) < Lowest(spec)) /\ ~(RawTicks(c, spec) > Highest(spec))
       /\ Fits64(Full(spec))
  BY <1>1, <1>2, <1>6 DEF praw, full
<1> QED
  BY <1>1, <1>2, <1>8, <1>9, <1>10 DEF PmError

(* A trade may be told from either outcome: where both tellings are        *)
(* accepted they become the same fill but for the fee, and one on a tick   *)
(* is accepted in both.  That rests on the tolerance alone: a price is     *)
(* never accepted half way between two ticks, where rounding up would send *)
(* the two tellings to different prices.  The code's tolerance is 2 ^ -49  *)
(* and its dollar 10 ^ 6 (convert.rs:193-217).                             *)
THEOREM TellingsAgree ==
    ASSUME Precision >= 2 * Dollar
    PROVE  Spec => []ComplementsAgree
<1>1. RegistryInv /\ PmInv => ComplementsAgree
  <2> SUFFICES ASSUME RegistryInv, PmInv, IsPm, Accepted,
                      NEW c, c = Complement(event),
                      NEW spec, spec = by_symbol[<<"Pm", event.market>>]
               PROVE  /\ CanonicalizePm(c).error = "Ok" =>
                            [CanonicalizePm(c).fill EXCEPT !.fee = outcome.fill.fee]
                                = outcome.fill
                      /\ (event.price % GrainsPerTick(spec) = 0
                            /\ ~FeeOverflows(c, spec)) =>
                            CanonicalizePm(c).error = "Ok"
    BY DEF ComplementsAgree
  <2>1. event \in PmEvent /\ PmError(event) = "Ok" /\ outcome.fill = PmFill(event)
    BY DEF PmInv
  <2>2. CanonicalizePm(c).error = PmError(c)
    BY DEF CanonicalizePm, NoFill
  <2>3. PmError(c) = "Ok" => CanonicalizePm(c).fill = PmFill(c)
    BY DEF CanonicalizePm
  <2>4. [PmFill(c) EXCEPT !.fee = PmFill(event).fee] = PmFill(event)
    BY <2>1, ComplementFill
  <2>5. (event.price % GrainsPerTick(spec) = 0 /\ ~FeeOverflows(c, spec)) =>
            PmError(c) = "Ok"
    BY <2>1, ComplementAccepted
  <2> QED
    BY <2>1, <2>2, <2>3, <2>4, <2>5
<1> QED
  BY <1>1, RegistryInductive, PmInductive, PTL

-----------------------------------------------------------------------------
(* The streams of the fixture generator.                                   *)

Event == [seq : Int, id : Int]

(* When an event was first pushed: the planted ones come after all others. *)
Place(e) == IF e.id >= 0 THEN e.id ELSE ordinal - e.id

LastPlace == IF file = "matched" THEN ordinal - 1
             ELSE ordinal + (IF planted < 3 THEN planted ELSE 3)

(* Those a swap has put behind their successor. *)
Behind == {m \in 1 .. ordinal - 1 : (m + 1) % SwapEvery[file] = 0}

GeneratorTypes ==
    /\ file \in Stream \cup {"matched"}
    /\ events \in Seq(Event)
    /\ last_seq \in Int /\ ordinal \in Nat /\ planted \in 0 .. 4
    /\ file = "matched" => planted = 0

Numbered ==
    /\ \A i \in DOMAIN events :
          /\ events[i].seq <= last_seq /\ Place(events[i]) <= LastPlace
          /\ events[i].seq < last_seq <=> Place(events[i]) < LastPlace
          /\ events[i].id < 0 => planted # 0
          /\ events[i].id <= ordinal
    /\ \A i, j \in DOMAIN events :
          events[i].seq < events[j].seq <=> Place(events[i]) < Place(events[j])

(* No event is overtaken but those behind their successors. *)
NoOtherOvertaken ==
    \A i, j \in DOMAIN events :
        i < j /\ Place(events[j]) < Place(events[i]) => Place(events[j]) \in Behind

SwappedAreOvertaken ==
    \A m \in Behind :
        /\ \E j \in DOMAIN events : events[j].id = m
        /\ \E i \in DOMAIN events :
              /\ events[i].id = m + 1
              /\ \A j \in DOMAIN events : events[j].id = m => i < j

(* The next swap finds a single copy of the last event at the end. *)
LastIsLast ==
    (planted = 0 /\ ordinal > 0 /\ ordinal % SwapEvery[file] # 0) =>
        /\ events # << >> /\ events[Len(events)].id = ordinal
        /\ ordinal % DupEvery[file] # 0 =>
              \A i \in DOMAIN events : events[i].id = ordinal => i = Len(events)

Filled ==
    IF planted = 0 THEN ordinal <= Len(events) /\ Len(events) <= Lines[file] - 4
                   ELSE Len(events) = Lines[file] - 4 + planted

Laid ==
    /\ GeneratorTypes
    /\ Numbered
    /\ file \in Stream => NoOtherOvertaken /\ SwappedAreOvertaken /\ LastIsLast /\ Filled

(* k copies of e behind s. *)
Extended(t, s, e, k) ==
    /\ Len(t) = Len(s) + k
    /\ \A i \in 1 .. Len(s) : t[i] = s[i]
    /\ \A i \in Len(s) + 1 .. Len(s) + k : t[i] = e

(* e in front of the last of s. *)
PutBefore(t, s, e) ==
    /\ Len(s) >= 1 /\ Len(t) = Len(s) + 1
    /\ \A i \in 1 .. Len(s) - 1 : t[i] = s[i]
    /\ t[Len(s)] = e /\ t[Len(s) + 1] = s[Len(s)]

LEMMA AppendExtends ==
    ASSUME NEW s \in Seq(Event), NEW e \in Event
    PROVE  /\ Append(s, e) \in Seq(Event) /\ Len(s) \in Nat
           /\ DOMAIN Append(s, e) = 1 .. Len(s) + 1
           /\ Extended(Append(s, e), s, e, 1)
<1> DEFINE t == Append(s, e)
<1>1. t \in Seq(Event) /\ Len(s) \in Nat /\ Len(t) = Len(s) + 1
  OBVIOUS
<1>2. DOMAIN t = 1 .. Len(s) + 1
  BY <1>1
<1>3. \A i \in 1 .. Len(s) : t[i] = s[i]
  OBVIOUS
<1>4. t[Len(s) + 1] = e
  OBVIOUS
<1> HIDE DEF t
<1>5. Extended(t, s, e, 1)
  BY <1>1, <1>3, <1>4 DEF Extended
<1> QED
  BY <1>1, <1>2, <1>5 DEF t

(* A drawn event stands at the end, once or twice, or before the last one. *)
LEMMA DefectsLaid ==
    ASSUME file \in Stream, events \in Seq(Event), NEW e \in Event, NEW n \in Nat,
           n % SwapEvery[file] = 0 => n % DupEvery[file] # 0 /\ events # << >>,
           NEW t, t = WithDefects(events, e, n)
    PROVE  /\ t \in Seq(Event)
           /\ n % SwapEvery[file] = 0 => PutBefore(t, events, e)
           /\ n % SwapEvery[file] # 0 =>
                 \/ Extended(t, events, e, 1)
                 \/ /\ Extended(t, events, e, 2)
                    /\ n % DupEvery[file] = 0 /\ Len(events) + 1 < Lines[file] - 4
<1> DEFINE s == events
           L == Len(s)
           p == Append(s, e)
<1>1. /\ p \in Seq(Event) /\ L \in Nat /\ Len(p) = L + 1
      /\ DOMAIN p = 1 .. L + 1
      /\ \A i \in 1 .. L : p[i] = s[i]
      /\ p[L + 1] = e
  BY AppendExtends DEF Extended
<1>2. CASE n % SwapEvery[file] = 0
  <2> DEFINE w == [p EXCEPT ![L] = e, ![L + 1] = s[L]]
  <2>1. L >= 1 /\ s[L] \in Event
    <3>1. L # 0
      BY <1>2
    <3> QED
      BY <1>1, <3>1
  <2>2. p[L] = s[L]
    BY <1>1, <2>1
  <2>3. Swapped(p) = w
    <3>1. ~(Len(p) < 2) /\ Len(p) - 1 = L
      BY <1>1, <2>1
    <3> HIDE DEF p
    <3> QED
      BY <1>1, <2>2, <3>1 DEF Swapped
  <2>4. t = w
    BY <1>2, <2>3 DEF WithDefects
  <2> HIDE DEF p
  <2>5. w \in [1 .. L + 1 -> Event]
    <3>1. p \in [1 .. L + 1 -> Event]
      BY <1>1
    <3> HIDE DEF L
    <3> QED
      BY <2>1, <3>1
  <2>6. w \in Seq(Event) /\ Len(w) = L + 1
    <3>1. L + 1 \in Nat
      BY <1>1
    <3> HIDE DEF w, L
    <3> QED
      BY <2>5, <3>1
  <2>7. /\ \A i \in 1 .. L - 1 : w[i] = s[i]
        /\ w[L] = e /\ w[L + 1] = s[L]
    BY <1>1, <2>1
  <2> HIDE DEF w, L
  <2>8. PutBefore(w, s, e)
    BY <2>1, <2>6, <2>7 DEF PutBefore, L
  <2> QED
    BY <1>2, <2>4, <2>6, <2>8
<1>3. CASE n % SwapEvery[file] # 0
  <2>1. Extended(p, s, e, 1)
    BY AppendExtends
  <2>2. t = IF n % DupEvery[file] = 0 /\ L + 1 < Lines[file] - 4 THEN Append(p, e) ELSE p
    BY <1>1, <1>3 DEF WithDefects
  <2> HIDE DEF p
  <2>3. /\ Append(p, e) \in Seq(Event) /\ Len(Append(p, e)) = L + 2
        /\ \A i \in 1 .. L + 1 : Append(p, e)[i] = p[i]
        /\ Append(p, e)[L + 2] = e
    <3>1. Extended(Append(p, e), p, e, 1) /\ Append(p, e) \in Seq(Event)
      BY <1>1, AppendExtends
    <3> QED
      BY <1>1, <3>1 DEF Extended
  <2> DEFINE q == Append(p, e)
  <2> HIDE DEF q
  <2>4. Extended(q, s, e, 2)
    <3>1. Len(q) = L + 2
      BY <2>3 DEF q
    <3>2. \A i \in 1 .. L : q[i] = s[i]
      BY <1>1, <2>3 DEF q
    <3>3. \A i \in L + 1 .. L + 2 : q[i] = e
      BY <1>1, <2>3 DEF q
    <3> QED
      BY <3>1, <3>2, <3>3 DEF Extended
  <2>5. q \in Seq(Event) /\ t = IF n % DupEvery[file] = 0 /\ L + 1 < Lines[file] - 4 THEN q ELSE p
    BY <2>2, <2>3 DEF q
  <2> QED
    BY <1>1, <1>3, <2>1, <2>4, <2>5
<1> QED
  BY <1>2, <1>3

LEMMA ZeroIsMultiple ==
    ASSUME NEW k \in Int, k > 0
    PROVE  0 % k = 0
<1>1. (k * 0 + 0) \div k = 0
  BY QuotientIsUnique
<1>2. k * 0 + 0 = 0
  OBVIOUS
<1>3. 0 = k * (0 \div k) + (0 % k) /\ 0 % k \in Int
  BY Quotient
<1> QED
  BY <1>1, <1>2, <1>3

(* Of two neighbours at most one is a multiple. *)
LEMMA MultiplesApart ==
    ASSUME NEW k \in Int, k >= 2, NEW m \in Int, (m + 1) % k = 0
    PROVE  m % k # 0
<1> SUFFICES ASSUME m % k = 0
             PROVE  FALSE
  OBVIOUS
<1> DEFINE a == m \div k
           b == (m + 1) \div k
<1>1. a \in Int /\ b \in Int /\ m = k * a /\ m + 1 = k * b
  <2>1. a \in Int /\ m = k * a + (m % k)
    BY Quotient
  <2>2. b \in Int /\ m + 1 = k * b + ((m + 1) % k)
    BY Quotient
  <2> HIDE DEF a, b
  <2>3. k * a \in Int /\ k * b \in Int
    BY <2>1, <2>2, SMT
  <2> QED
    BY <2>1, <2>2, <2>3
<1> HIDE DEF a, b
<1>2. k * (b - a) = 1
  BY <1>1, SMT
<1>3. CASE b - a >= 1
  <2>1. k * (b - a) >= k
    BY <1>1, <1>3, AtLeast
  <2> QED
    BY <1>2, <2>1
<1>4. CASE a - b >= 0
  <2>1. k * (a - b) >= 0
    BY <1>1, <1>4, Products
  <2>2. k * (a - b) = -1
    BY <1>1, SMTT(30)
  <2> QED
    BY <2>1, <2>2
<1> QED
  BY <1>1, <1>3, <1>4

(* The premises of one turn of a venue's loop.                             *)
Drawn(e) ==
    /\ file \in Stream /\ planted = 0 /\ Len(events) < Lines[file] - 4
    /\ ordinal' = ordinal + 1
    /\ last_seq' \in Int /\ last_seq < last_seq'
    /\ e = [seq |-> last_seq', id |-> ordinal']
    /\ events' = WithDefects(events, e, ordinal')
    /\ file' = file /\ planted' = planted

LEMMA DrawnFacts ==
    ASSUME Laid, NEW e, Drawn(e)
    PROVE  /\ e \in Event /\ e.id = ordinal' /\ e.seq = last_seq'
           /\ ordinal \in Nat /\ ordinal' \in Nat /\ ordinal' = ordinal + 1
           /\ Len(events) \in Nat /\ Len(events') \in Nat /\ events' \in Seq(Event)
           /\ DOMAIN events = 1 .. Len(events) /\ DOMAIN events' = 1 .. Len(events')
           /\ \A i \in 1 .. Len(events) :
                 /\ events[i].id \in 0 .. ordinal /\ events[i].seq \in Int
                 /\ events[i].seq <= last_seq
                 /\ Place(events[i]) = events[i].id
           /\ ordinal' % SwapEvery[file] = 0 =>
                 /\ PutBefore(events', events, e)
                 /\ events[Len(events)].id = ordinal
                 /\ \A i \in 1 .. Len(events) : events[i].id = ordinal => i = Len(events)
                 /\ ordinal > 0 /\ ordinal % SwapEvery[file] # 0
           /\ ordinal' % SwapEvery[file] # 0 =>
                 \/ Extended(events', events, e, 1)
                 \/ /\ Extended(events', events, e, 2)
                    /\ ordinal' % DupEvery[file] = 0 /\ Len(events) + 1 < Lines[file] - 4
<1> DEFINE n == ordinal'
<1>1. /\ ordinal \in Nat /\ n \in Nat /\ n = ordinal + 1 /\ n >= 1
      /\ e \in Event /\ e.id = n /\ e.seq = last_seq'
      /\ events \in Seq(Event) /\ last_seq \in Int
  BY DEF Laid, GeneratorTypes, Drawn, Event
<1>2. Len(events) \in Nat /\ DOMAIN events = 1 .. Len(events)
  BY <1>1
<1>3. ordinal <= Len(events) /\ Len(events) < Lines[file] - 4 /\ file \in Stream
      /\ file # "matched"
  BY DEF Laid, Filled, Drawn, Stream
<1>4. /\ Lines[file] \in Nat /\ SwapEvery[file] \in Nat /\ SwapEvery[file] >= 2
      /\ DupEvery[file] \in Nat \ {0}
      /\ \A m \in 2 .. Lines[file] - 4 : m % SwapEvery[file] = 0 =>
            m % DupEvery[file] # 0 /\ (m - 1) % DupEvery[file] # 0
  BY <1>3, CadenceAssumption
<1>5. ASSUME n % SwapEvery[file] = 0
      PROVE  /\ n % DupEvery[file] # 0 /\ ordinal % DupEvery[file] # 0
             /\ ordinal > 0 /\ ordinal % SwapEvery[file] # 0
  <2> DEFINE k == SwapEvery[file]
  <2>1. k \in Nat /\ k >= 2 /\ n % k = 0
    BY <1>4, <1>5
  <2> HIDE DEF k
  <2>3. ordinal % k # 0
    BY <1>1, <2>1, MultiplesApart
  <2>2. n # 1
    <3>1. 0 % k = 0
      BY <2>1, ZeroIsMultiple
    <3> QED
      BY <1>1, <2>3, <3>1
  <2>4. n \in 2 .. Lines[file] - 4 /\ n - 1 = ordinal
    BY <1>1, <1>2, <1>3, <1>4, <2>2
  <2>5. n % DupEvery[file] # 0 /\ (n - 1) % DupEvery[file] # 0
    BY <1>4, <1>5, <2>4
  <2> QED
    BY <1>1, <2>3, <2>4, <2>5 DEF k
<1>6. /\ \A i \in 1 .. Len(events) :
            /\ events[i].seq <= last_seq /\ Place(events[i]) <= LastPlace
            /\ events[i].id < 0 => planted # 0
      /\ events \in [1 .. Len(events) -> Event]
  BY <1>1, <1>2 DEF Laid, Numbered
<1>7. LastPlace = ordinal
  BY <1>1, <1>3 DEF LastPlace, Drawn
<1>8. ASSUME NEW i \in 1 .. Len(events)
      PROVE  /\ events[i].id \in 0 .. ordinal /\ events[i].seq \in Int
             /\ events[i].seq <= last_seq
             /\ Place(events[i]) = events[i].id
  <2>1. events[i].id \in Int /\ events[i].seq \in Int
    BY <1>6 DEF Event
  <2>2. events[i].id >= 0
    BY <1>6, <2>1 DEF Drawn
  <2> QED
    BY <1>1, <1>6, <1>7, <2>1, <2>2 DEF Place
<1>9. n % SwapEvery[file] = 0 =>
        /\ events # << >> /\ events[Len(events)].id = ordinal
        /\ \A i \in DOMAIN events : events[i].id = ordinal => i = Len(events)
  BY <1>3, <1>5 DEF Laid, LastIsLast, Drawn
<1>10. n % SwapEvery[file] = 0 => n % DupEvery[file] # 0 /\ events # << >>
  BY <1>5, <1>9
<1>11. /\ events' \in Seq(Event)
       /\ n % SwapEvery[file] = 0 => PutBefore(events', events, e)
       /\ n % SwapEvery[file] # 0 =>
             \/ Extended(events', events, e, 1)
             \/ /\ Extended(events', events, e, 2)
                /\ n % DupEvery[file] = 0 /\ Len(events) + 1 < Lines[file] - 4
  <2>1. events' = WithDefects(events, e, n)
    BY DEF Drawn
  <2> HIDE DEF n
  <2> QED
    BY <1>1, <1>3, <1>10, <2>1, DefectsLaid
<1>12. Len(events') \in Nat /\ DOMAIN events' = 1 .. Len(events')
  BY <1>11
<1> QED
  BY <1>1, <1>2, <1>5, <1>8, <1>9, <1>11, <1>12

LEMMA DrawnElements ==
    ASSUME Laid, NEW e, Drawn(e), NEW i \in DOMAIN events'
    PROVE  \/ events'[i] = e
           \/ \E j \in 1 .. Len(events) : events'[i] = events[j]
<1> DEFINE L == Len(events)
<1>1. L \in Nat /\ i \in 1 .. Len(events')
  BY DrawnFacts
<1>2. CASE ordinal' % SwapEvery[file] = 0
  <2>1. PutBefore(events', events, e)
    BY <1>2, DrawnFacts
  <2>2. i \in 1 .. L - 1 \/ i = L \/ (i = L + 1 /\ L \in 1 .. L)
    BY <1>1, <2>1 DEF PutBefore
  <2>3. i \in 1 .. L - 1 => i \in 1 .. L
    BY <1>1
  <2> QED
    BY <2>1, <2>2, <2>3 DEF PutBefore
<1>3. CASE ordinal' % SwapEvery[file] # 0
  <2>1. Extended(events', events, e, 1) \/ Extended(events', events, e, 2)
    BY <1>3, DrawnFacts
  <2>2. \A k \in 1 .. 2 : Extended(events', events, e, k) =>
           i \in 1 .. L \/ i \in L + 1 .. L + k
    BY <1>1 DEF Extended
  <2> QED
    BY <2>1, <2>2 DEF Extended
<1> QED
  BY <1>2, <1>3

LEMMA DrawnNumbered ==
    ASSUME Laid, NEW e, Drawn(e)
    PROVE  Numbered'
<1> DEFINE n == ordinal'
           L == Len(events)
           old(x) == \E j \in 1 .. L : x = events[j]
<1>1. /\ e \in Event /\ e.id = n /\ e.seq = last_seq' /\ n = ordinal + 1 /\ ordinal \in Nat
      /\ DOMAIN events = 1 .. L
      /\ \A i \in 1 .. L :
            /\ events[i].id \in 0 .. ordinal /\ events[i].seq \in Int
            /\ events[i].seq <= last_seq
            /\ Place(events[i]) = events[i].id
  BY DrawnFacts
<1>2. file' # "matched" /\ planted' = 0 /\ planted = 0 /\ last_seq < last_seq'
      /\ last_seq \in Int /\ last_seq' \in Int
  BY DEF Drawn, Stream, Laid, GeneratorTypes
<1>3. LastPlace' = n
  BY <1>1, <1>2 DEF LastPlace
<1>4. \A i \in DOMAIN events' : events'[i] = e \/ old(events'[i])
  BY DrawnElements
<1>5. \A i, j \in 1 .. L : events[i].seq < events[j].seq <=> events[i].id < events[j].id
  BY <1>1 DEF Laid, Numbered
<1>6. ASSUME NEW x, old(x)
      PROVE  x.id \in 0 .. ordinal /\ x.seq \in Int /\ x.seq <= last_seq
  BY <1>1, <1>6
<1>7. ASSUME NEW x, NEW y, old(x), old(y)
      PROVE  x.seq < y.seq <=> x.id < y.id
  BY <1>5, <1>7
<1> HIDE DEF old, n
<1>8. \A i \in DOMAIN events' : events'[i].id >= 0
  BY <1>1, <1>4, <1>6
<1>9. \A i \in DOMAIN events' : Place(events[i])' = events'[i].id
  BY <1>8 DEF Place
<1>10. ASSUME NEW i \in DOMAIN events'
       PROVE  /\ events'[i].seq <= last_seq' /\ events'[i].id <= n
              /\ events'[i].seq < last_seq' <=> events'[i].id < n
  <2>1. CASE events'[i] = e
    BY <1>1, <1>2, <2>1
  <2>2. CASE old(events'[i])
    BY <1>1, <1>2, <1>6, <2>2
  <2> QED
    BY <1>4, <2>1, <2>2
<1>11. ASSUME NEW i \in DOMAIN events', NEW j \in DOMAIN events'
       PROVE  events'[i].seq < events'[j].seq <=> events'[i].id < events'[j].id
  <2>1. CASE events'[i] = e
    BY <1>1, <1>2, <1>4, <1>6, <2>1
  <2>2. CASE old(events'[i]) /\ events'[j] = e
    BY <1>1, <1>2, <1>6, <2>2
  <2>3. CASE old(events'[i]) /\ old(events'[j])
    BY <1>7, <2>3
  <2> QED
    BY <1>4, <2>1, <2>2, <2>3
<1>12. \A i \in DOMAIN events' :
          /\ events'[i].seq <= last_seq' /\ Place(events[i])' <= LastPlace'
          /\ events'[i].seq < last_seq' <=> Place(events[i])' < LastPlace'
          /\ events'[i].id < 0 => planted' # 0
          /\ events'[i].id <= ordinal'
  <2> SUFFICES ASSUME NEW i \in DOMAIN events'
               PROVE  /\ events'[i].seq <= last_seq' /\ Place(events[i])' <= LastPlace'
                      /\ events'[i].seq < last_seq' <=> Place(events[i])' < LastPlace'
                      /\ events'[i].id < 0 => planted' # 0
                      /\ events'[i].id <= ordinal'
    OBVIOUS
  <2>1. events'[i].id \in Int
    BY <1>1, <1>4, <1>6 DEF n
  <2>2. ~(events'[i].id < 0)
    BY <1>8, <2>1
  <2>3. Place(events[i])' = events'[i].id
    BY <1>9
  <2> QED
    BY <1>3, <1>10, <2>2, <2>3 DEF n
<1>13. \A i, j \in DOMAIN events' :
          events'[i].seq < events'[j].seq <=> Place(events[i])' < Place(events[j])'
  BY <1>9, <1>11
<1> QED
  BY <1>12, <1>13 DEF Numbered

LEMMA BehindGrows ==
    ASSUME Laid, NEW e, Drawn(e)
    PROVE  /\ \A m \in Behind : m \in Behind' /\ m \in 1 .. ordinal - 1
           /\ \A m \in Behind' : m \in Behind \/ (m = ordinal /\ ordinal' % SwapEvery[file] = 0)
           /\ ordinal' % SwapEvery[file] = 0 => ordinal \in Behind'
<1>1. ordinal \in Nat /\ ordinal' = ordinal + 1
      /\ (ordinal' % SwapEvery[file] = 0 => ordinal > 0)
  BY DrawnFacts
<1>2. file' = file
  BY DEF Drawn
<1> QED
  BY <1>1, <1>2 DEF Behind

LEMMA DrawnNoOtherOvertaken ==
    ASSUME Laid, NEW e, Drawn(e)
    PROVE  NoOtherOvertaken'
<1> DEFINE n == ordinal'
           L == Len(events)
           t == events'
<1>1. /\ e.id = n /\ n = ordinal + 1 /\ ordinal \in Nat /\ L \in Nat
      /\ DOMAIN events = 1 .. L /\ DOMAIN t = 1 .. Len(t) /\ Len(t) \in Nat
      /\ \A i \in 1 .. L :
            events[i].id \in 0 .. ordinal /\ Place(events[i]) = events[i].id
  BY DrawnFacts
<1>2. \A i, j \in 1 .. L : i < j /\ events[j].id < events[i].id => events[j].id \in Behind'
  <2>1. NoOtherOvertaken
    BY DEF Laid, Drawn
  <2> QED
    BY <1>1, <2>1, BehindGrows DEF NoOtherOvertaken
<1>3. \A i \in DOMAIN t : t[i].id \in 0 .. n
  <2>1. ASSUME NEW i \in DOMAIN t
        PROVE  t[i] = e \/ \E j \in 1 .. L : t[i] = events[j]
    BY DrawnElements
  <2> QED
    BY <1>1, <2>1
<1>4. \A i \in DOMAIN t : Place(events[i])' = t[i].id
  BY <1>3 DEF Place
<1>5. ASSUME NEW i \in DOMAIN t, NEW j \in DOMAIN t, i < j, t[j].id < t[i].id
      PROVE  t[j].id \in Behind'
  <2>1. CASE n % SwapEvery[file] = 0
    <3>1. PutBefore(t, events, e) /\ events[L].id = ordinal /\ ordinal \in Behind'
      BY <2>1, DrawnFacts, BehindGrows
    <3>2. L >= 1 /\ i \in 1 .. L + 1 /\ j \in 1 .. L + 1
      BY <1>1, <3>1 DEF PutBefore
    <3>3. CASE j = L + 1
      BY <3>1, <3>3 DEF PutBefore
    <3>4. CASE j = L
      BY <1>1, <1>3, <1>5, <3>1, <3>4 DEF PutBefore
    <3>5. CASE j \in 1 .. L - 1
      <4>1. i \in 1 .. L - 1 /\ i \in 1 .. L /\ j \in 1 .. L
        BY <1>1, <1>5, <3>2, <3>5
      <4>2. t[i] = events[i] /\ t[j] = events[j]
        BY <3>1, <3>5, <4>1 DEF PutBefore
      <4> QED
        BY <1>2, <1>5, <4>1, <4>2
    <3> QED
      BY <1>1, <3>2, <3>3, <3>4, <3>5
  <2>2. CASE n % SwapEvery[file] # 0
    <3>1. PICK k \in 1 .. 2 : Extended(t, events, e, k)
      <4>1. Extended(t, events, e, 1) \/ Extended(t, events, e, 2)
        BY <2>2, DrawnFacts
      <4> QED
        BY <4>1
    <3>2. /\ i \in 1 .. L \/ i \in L + 1 .. L + k
          /\ j \in 1 .. L \/ j \in L + 1 .. L + k
      BY <1>1, <3>1 DEF Extended
    <3>3. j \in 1 .. L
      <4>1. j \in L + 1 .. L + k => t[j].id = n
        BY <1>1, <3>1 DEF Extended
      <4> QED
        BY <1>1, <1>3, <1>5, <3>2, <4>1
    <3>4. i \in 1 .. L
      BY <1>1, <1>5, <3>2, <3>3
    <3>5. t[i] = events[i] /\ t[j] = events[j]
      BY <3>1, <3>3, <3>4 DEF Extended
    <3> QED
      BY <1>2, <1>5, <3>3, <3>4, <3>5
  <2> QED
    BY <2>1, <2>2
<1> QED
  BY <1>4, <1>5 DEF NoOtherOvertaken

LEMMA DrawnSwappedAreOvertaken ==
    ASSUME Laid, NEW e, Drawn(e)
    PROVE  SwappedAreOvertaken'
<1> DEFINE n == ordinal'
           L == Len(events)
           t == events'
<1>1. /\ e.id = n /\ n = ordinal + 1 /\ ordinal \in Nat /\ L \in Nat
      /\ DOMAIN events = 1 .. L /\ DOMAIN t = 1 .. Len(t) /\ Len(t) \in Nat
      /\ \A i \in 1 .. L : events[i].id \in 0 .. ordinal
  BY DrawnFacts
<1>2. SwappedAreOvertaken
  BY DEF Laid, Drawn
<1> SUFFICES ASSUME NEW m \in Behind'
             PROVE  /\ \E j \in DOMAIN t : t[j].id = m
                    /\ \E i \in DOMAIN t :
                          /\ t[i].id = m + 1
                          /\ \A j \in DOMAIN t : t[j].id = m => i < j
  BY DEF SwappedAreOvertaken
<1>3. CASE m \in Behind
  <2>1. m \in 1 .. ordinal - 1
    BY <1>3, BehindGrows
  <2>2. PICK i \in 1 .. L : /\ events[i].id = m + 1
                            /\ \A j \in 1 .. L : events[j].id = m => i < j
    BY <1>1, <1>2, <1>3 DEF SwappedAreOvertaken
  <2>3. PICK j \in 1 .. L : events[j].id = m
    BY <1>1, <1>2, <1>3 DEF SwappedAreOvertaken
  <2>4. i < j
    BY <2>2, <2>3
  <2>5. CASE n % SwapEvery[file] = 0
    <3>1. PutBefore(t, events, e) /\ events[L].id = ordinal
      BY <2>5, DrawnFacts
    <3>2. j \in 1 .. L - 1
      BY <1>1, <2>1, <2>3, <3>1
    <3>3. i \in 1 .. L - 1
      BY <1>1, <2>4, <3>2
    <3>4. t[i] = events[i] /\ t[j] = events[j] /\ i \in DOMAIN t /\ j \in DOMAIN t
      BY <1>1, <3>1, <3>2, <3>3 DEF PutBefore
    <3>5. ASSUME NEW x \in DOMAIN t, t[x].id = m
          PROVE  i < x
      <4>1. x \in 1 .. L + 1
        BY <1>1, <3>1 DEF PutBefore
      <4>2. x # L /\ x # L + 1
        BY <1>1, <2>1, <3>1, <3>5 DEF PutBefore
      <4>3. x \in 1 .. L - 1 /\ x \in 1 .. L
        <5> HIDE DEF L, n, t
        <5> QED
          BY <1>1, <4>1, <4>2
      <4>4. t[x] = events[x]
        BY <3>1, <4>3 DEF PutBefore
      <4> QED
        BY <2>2, <3>5, <4>3, <4>4
    <3> QED
      BY <2>2, <2>3, <3>4, <3>5
  <2>6. CASE n % SwapEvery[file] # 0
    <3>1. PICK k \in 1 .. 2 : Extended(t, events, e, k)
      <4>1. Extended(t, events, e, 1) \/ Extended(t, events, e, 2)
        BY <2>6, DrawnFacts
      <4> QED
        BY <4>1
    <3>2. t[i] = events[i] /\ t[j] = events[j] /\ i \in DOMAIN t /\ j \in DOMAIN t
      BY <1>1, <3>1 DEF Extended
    <3>3. ASSUME NEW x \in DOMAIN t, t[x].id = m
          PROVE  i < x
      <4>1. x \in 1 .. L \/ x \in L + 1 .. L + k
        BY <1>1, <3>1 DEF Extended
      <4>2. x \in L + 1 .. L + k => t[x].id = n
        BY <1>1, <3>1 DEF Extended
      <4>3. x \in 1 .. L
        BY <1>1, <2>1, <3>3, <4>1, <4>2
      <4>4. t[x] = events[x]
        BY <3>1, <4>3 DEF Extended
      <4> QED
        BY <2>2, <3>3, <4>3, <4>4
    <3> QED
      BY <2>2, <2>3, <3>2, <3>3
  <2> QED
    BY <2>5, <2>6
<1>4. CASE m \notin Behind
  <2>1. m = ordinal /\ n % SwapEvery[file] = 0
    BY <1>4, BehindGrows
  <2>2. /\ PutBefore(t, events, e) /\ events[L].id = ordinal
        /\ \A i \in 1 .. L : events[i].id = ordinal => i = L
    BY <2>1, DrawnFacts
  <2>3. /\ L \in DOMAIN t /\ L + 1 \in DOMAIN t
        /\ t[L].id = m + 1 /\ t[L + 1].id = m
    BY <1>1, <2>1, <2>2 DEF PutBefore
  <2>4. ASSUME NEW x \in DOMAIN t, t[x].id = m
        PROVE  L < x
    <3> DEFINE all == Len(t)
    <3>4. L >= 1 /\ all = L + 1 /\ x \in 1 .. all /\ \A i \in 1 .. L - 1 : t[i] = events[i]
      BY <1>1, <2>2 DEF PutBefore
    <3> HIDE DEF all
    <3>1. x \in 1 .. L - 1 \/ x = L \/ x = L + 1
      <4> HIDE DEF L
      <4> QED
        BY <1>1, <3>4
    <3>2. x # L
      BY <1>1, <2>1, <2>3, <2>4
    <3>3. ~(x \in 1 .. L - 1)
      <4> SUFFICES ASSUME x \in 1 .. L - 1
                   PROVE  FALSE
        OBVIOUS
      <4>1. t[x] = events[x] /\ x \in 1 .. L
        <5> HIDE DEF L, t, n
        <5> QED
          BY <1>1, <3>4
      <4>2. events[x].id = ordinal
        BY <2>1, <2>4, <4>1
      <4>3. x = L
        BY <2>2, <4>1, <4>2
      <4>4. ~(x <= L - 1)
        <5> HIDE DEF L
        <5> QED
          BY <1>1, <4>3
      <4> QED
        <5> HIDE DEF L
        <5> QED
          BY <1>1, <4>4
    <3> QED
      BY <1>1, <3>1, <3>2, <3>3, SMTT(30)
  <2> QED
    BY <2>3, <2>4
<1> QED
  BY <1>3, <1>4

LEMMA DrawnLastIsLast ==
    ASSUME Laid, NEW e, Drawn(e)
    PROVE  LastIsLast' /\ Filled'
<1> DEFINE n == ordinal'
           L == Len(events)
           t == events'
<1>1. /\ e.id = n /\ n = ordinal + 1 /\ ordinal \in Nat /\ L \in Nat
      /\ t \in Seq(Event) /\ DOMAIN t = 1 .. Len(t) /\ Len(t) \in Nat
      /\ \A i \in 1 .. L : events[i].id \in 0 .. ordinal
  BY DrawnFacts
<1>2. file' = file /\ planted' = 0 /\ ordinal <= L /\ L < Lines[file] - 4
      /\ Lines[file] \in Nat
  BY CadenceAssumption DEF Laid, Filled, Drawn
<1>3. CASE n % SwapEvery[file] = 0
  <2>1. PutBefore(t, events, e)
    BY <1>3, DrawnFacts
  <2>2. Filled'
    BY <1>1, <1>2, <2>1 DEF PutBefore, Filled
  <2> QED
    BY <1>2, <1>3, <2>2 DEF LastIsLast
<1>4. CASE n % SwapEvery[file] # 0
  <2>1. PICK k \in 1 .. 2 : /\ Extended(t, events, e, k)
                            /\ k = 2 => n % DupEvery[file] = 0 /\ L + 1 < Lines[file] - 4
    <3>1. \/ Extended(t, events, e, 1)
          \/ /\ Extended(t, events, e, 2)
             /\ n % DupEvery[file] = 0 /\ L + 1 < Lines[file] - 4
      BY <1>4, DrawnFacts
    <3> QED
      BY <3>1
  <2>2. Len(t) = L + k /\ L + k \in L + 1 .. L + k
    BY <1>1, <2>1 DEF Extended
  <2>3. Filled'
    BY <1>1, <1>2, <2>1, <2>2 DEF Filled
  <2>4. t # << >> /\ t[Len(t)].id = n
    BY <1>1, <2>1, <2>2 DEF Extended
  <2>5. ASSUME n % DupEvery[file] # 0, NEW i \in DOMAIN t, t[i].id = n
        PROVE  i = Len(t)
    <3>1. k = 1
      BY <2>1, <2>5
    <3>2. i \in 1 .. L => t[i] = events[i]
      BY <2>1 DEF Extended
    <3>3. ~(i \in 1 .. L)
      BY <1>1, <2>5, <3>2
    <3> QED
      BY <1>1, <2>2, <3>1, <3>3
  <2>6. LastIsLast'
    BY <1>2, <2>4, <2>5 DEF LastIsLast
  <2> QED
    BY <2>3, <2>6
<1> QED
  BY <1>3, <1>4

LEMMA DrawnKeeps ==
    ASSUME Laid, NEW e, Drawn(e)
    PROVE  Laid'
<1>1. GeneratorTypes'
  <2>1. events' \in Seq(Event) /\ ordinal' \in Nat
    BY DrawnFacts
  <2> QED
    BY <2>1 DEF Laid, GeneratorTypes, Drawn, Event, Stream
<1> QED
  BY <1>1, DrawnNumbered, DrawnNoOtherOvertaken, DrawnSwappedAreOvertaken,
     DrawnLastIsLast DEF Laid

(* One more event in the last place, or after it. *)
LEMMA AppendedNumbered ==
    ASSUME Laid, NEW e \in Event, events' = Append(events, e),
           last_seq' \in Int, e.seq = last_seq',
           LastPlace \in Int, LastPlace' \in Int,
           \/ last_seq' = last_seq /\ LastPlace' = LastPlace
           \/ last_seq < last_seq' /\ LastPlace < LastPlace',
           NEW last, last = Len(events) + 1, Place(events[last])' = LastPlace',
           \A i \in DOMAIN events : /\ Place(events[i]) \in Int
                                    /\ Place(events[i])' = Place(events[i]),
           e.id < 0 => planted' # 0, planted # 0 => planted' # 0,
           e.id <= ordinal', ordinal \in Int, ordinal' \in Int, ordinal <= ordinal'
    PROVE  Numbered'
<1> DEFINE L == Len(events)
<1>1. /\ L \in Nat /\ DOMAIN events = 1 .. L /\ DOMAIN events' = 1 .. L + 1
      /\ events'[L + 1] = e /\ \A i \in 1 .. L : events'[i] = events[i]
      /\ last_seq \in Int
      /\ \A i \in 1 .. L : events[i] \in Event
  <2>1. events \in Seq(Event) /\ last_seq \in Int
    BY DEF Laid, GeneratorTypes
  <2>2. /\ L \in Nat /\ DOMAIN Append(events, e) = 1 .. L + 1
        /\ Extended(Append(events, e), events, e, 1)
    BY <2>1, AppendExtends
  <2>3. DOMAIN events = 1 .. L /\ \A i \in 1 .. L : events[i] \in Event
    BY <2>1
  <2> QED
    BY <2>1, <2>2, <2>3 DEF Extended
<1>2. \A i \in 1 .. L :
        /\ events[i].seq \in Int
        /\ events[i].seq <= last_seq /\ Place(events[i]) <= LastPlace
        /\ events[i].seq < last_seq <=> Place(events[i]) < LastPlace
        /\ events[i].id < 0 => planted # 0
        /\ events[i].id \in Int /\ events[i].id <= ordinal
  BY <1>1 DEF Laid, Numbered, Event
<1>3. \A i, j \in 1 .. L :
        events[i].seq < events[j].seq <=> Place(events[i]) < Place(events[j])
  BY <1>1 DEF Laid, Numbered
<1> DEFINE place(i) == Place(events[i])'
<1>4. last = L + 1 /\ place(last) = LastPlace'
      /\ \A i \in 1 .. L : place(i) = Place(events[i]) /\ Place(events[i]) \in Int
  BY <1>1
<1> HIDE DEF place, L
<1>5. ASSUME NEW i \in 1 .. L + 1
      PROVE  /\ events'[i].seq <= last_seq' /\ place(i) <= LastPlace'
             /\ events'[i].seq < last_seq' <=> place(i) < LastPlace'
             /\ events'[i].id < 0 => planted' # 0
             /\ events'[i].id <= ordinal'
  <2>1. CASE i = L + 1
    <3>1. events'[i] = e /\ place(i) = LastPlace'
      BY <1>1, <1>4, <2>1
    <3> QED
      BY <3>1
  <2>2. CASE i \in 1 .. L
    <3>1. /\ events'[i] = events[i] /\ place(i) = Place(events[i]) /\ Place(events[i]) \in Int
          /\ events[i].seq \in Int
          /\ events[i].seq <= last_seq /\ Place(events[i]) <= LastPlace
          /\ events[i].seq < last_seq <=> Place(events[i]) < LastPlace
          /\ events[i].id < 0 => planted # 0
          /\ events[i].id \in Int /\ events[i].id <= ordinal
      BY <1>1, <1>2, <1>4, <2>2
    <3> QED
      BY <1>1, <3>1, SMTT(30)
  <2> QED
    BY <1>1, <2>1, <2>2
<1>6. ASSUME NEW i \in 1 .. L + 1, NEW j \in 1 .. L + 1
      PROVE  events'[i].seq < events'[j].seq <=> place(i) < place(j)
  <2>1. CASE i \in 1 .. L /\ j \in 1 .. L
    BY <1>1, <1>3, <1>4, <2>1
  <2>2. CASE j = L + 1
    BY <1>1, <1>4, <1>5, <2>2
  <2>3. CASE i = L + 1 /\ j \in 1 .. L
    <3>1. /\ events'[j] = events[j] /\ place(j) = Place(events[j]) /\ Place(events[j]) \in Int
          /\ events[j].seq \in Int
          /\ events[j].seq <= last_seq /\ Place(events[j]) <= LastPlace
      BY <1>1, <1>2, <1>4, <2>3
    <3> QED
      BY <1>1, <1>4, <2>3, <3>1
  <2> QED
    BY <1>1, <2>1, <2>2, <2>3
<1> QED
  BY <1>1, <1>5, <1>6 DEF Numbered, place

LEMMA PlantKeeps ==
    ASSUME Laid, PlantEvent
    PROVE  Laid'
<1> DEFINE L == Len(events)
           e == [seq |-> last_seq', id |-> <<-1, -2, -3, -3>>[planted']]
<1>1. /\ file \in Stream /\ file' = file /\ file # "matched" /\ ordinal' = ordinal
      /\ L >= Lines[file] - 4 /\ planted < 4 /\ planted' = planted + 1
      /\ last_seq' = IF planted = 3 THEN last_seq ELSE last_seq + 1
      /\ events' = Append(events, e)
  BY DEF PlantEvent, Running, Stream
<1>2. /\ events \in Seq(Event) /\ last_seq \in Int /\ ordinal \in Nat /\ planted \in 0 .. 3
      /\ Lines[file] \in Nat
  BY <1>1, CadenceAssumption DEF Laid, GeneratorTypes
<1>3. /\ e \in Event /\ e.seq = last_seq' /\ e.id < 0 /\ e.id \in Int
      /\ ordinal - e.id = ordinal + (IF planted' < 3 THEN planted' ELSE 3)
  <2>1. planted' = 1 \/ planted' = 2 \/ planted' = 3 \/ planted' = 4
    BY <1>1, <1>2
  <2>2. last_seq' \in Int
    BY <1>1, <1>2
  <2>3. /\ <<-1, -2, -3, -3>>[1] = -1 /\ <<-1, -2, -3, -3>>[2] = -2
        /\ <<-1, -2, -3, -3>>[3] = -3 /\ <<-1, -2, -3, -3>>[4] = -3
    OBVIOUS
  <2>4. e.id \in Int /\ e.id < 0 /\ -e.id = IF planted' < 3 THEN planted' ELSE 3
    BY <2>1, <2>3
  <2>5. e \in Event /\ e.seq = last_seq'
    BY <2>2, <2>4 DEF Event
  <2> HIDE DEF e
  <2> QED
    BY <1>2, <2>4, <2>5
<1> HIDE DEF e
<1>4. /\ L \in Nat /\ DOMAIN events = 1 .. L /\ DOMAIN events' = 1 .. L + 1
      /\ Len(events') = L + 1 /\ events' \in Seq(Event)
      /\ events'[L + 1] = e /\ \A i \in 1 .. L : events'[i] = events[i] /\ events[i] \in Event
  <2>1. /\ L \in Nat /\ DOMAIN Append(events, e) = 1 .. L + 1
        /\ Append(events, e) \in Seq(Event) /\ Extended(Append(events, e), events, e, 1)
    BY <1>2, <1>3, AppendExtends
  <2>2. DOMAIN events = 1 .. L /\ \A i \in 1 .. L : events[i] \in Event
    BY <1>2
  <2> QED
    BY <1>1, <2>1, <2>2 DEF Extended
<1>5. LastPlace \in Int /\ LastPlace' \in Int
      /\ (\/ last_seq' = last_seq /\ LastPlace' = LastPlace
          \/ last_seq < last_seq' /\ LastPlace < LastPlace')
  BY <1>1, <1>2 DEF LastPlace
<1> PICK last \in Nat : last = L + 1
  BY <1>4
<1>6. Place(events[last])' = LastPlace'
  BY <1>1, <1>3, <1>4 DEF Place, LastPlace
<1>7. \A i \in DOMAIN events : /\ Place(events[i]) \in Int
                               /\ Place(events[i])' = Place(events[i])
  BY <1>1, <1>2, <1>4 DEF Place, Event
<1>8. planted' # 0 /\ last_seq' \in Int
  BY <1>1, <1>2
<1>9. Numbered'
  <2>1. last = Len(events) + 1 /\ Place(events[last])' = LastPlace'
    BY <1>6
  <2> QED
    <3>1. e.id <= ordinal' /\ ordinal \in Int /\ ordinal' \in Int /\ ordinal <= ordinal'
      BY <1>1, <1>2, <1>3
    <3> QED
      BY <1>1, <1>3, <1>5, <1>7, <1>8, <2>1, <3>1, AppendedNumbered
<1>10. Behind' = Behind /\ \A m \in Behind : m \in Nat
  BY <1>1, <1>2 DEF Behind
<1>11. NoOtherOvertaken'
  <2>1. \A i, j \in 1 .. L :
          i < j /\ Place(events[j]) < Place(events[i]) => Place(events[j]) \in Behind
    BY <1>1, <1>4 DEF Laid, NoOtherOvertaken
  <2>2. \A i \in 1 .. L : Place(events[i]) \in Int /\ Place(events[i]) <= LastPlace
    BY <1>4, <1>7 DEF Laid, Numbered
  <2> DEFINE place(i) == Place(events[i])'
  <2>3. last = L + 1 /\ place(last) = LastPlace' /\ \A i \in 1 .. L : place(i) = Place(events[i])
    BY <1>4, <1>6, <1>7
  <2> HIDE DEF place, L
  <2>4. ASSUME NEW i \in 1 .. L + 1, NEW j \in 1 .. L + 1, i < j, place(j) < place(i)
        PROVE  place(j) \in Behind'
    <3>1. i \in 1 .. L
      BY <1>4, <2>4
    <3>2. CASE j = L + 1
      <4>1. place(i) <= LastPlace /\ place(i) \in Int /\ LastPlace <= LastPlace'
        BY <1>2, <1>5, <2>2, <2>3, <3>1
      <4> QED
        BY <1>5, <2>3, <2>4, <3>2, <4>1
    <3>3. CASE j \in 1 .. L
      BY <1>10, <2>1, <2>3, <2>4, <3>1, <3>3
    <3> QED
      BY <1>4, <3>2, <3>3
  <2> QED
    BY <1>4, <2>4 DEF NoOtherOvertaken, place
<1>12. SwappedAreOvertaken'
  <2> SUFFICES ASSUME NEW m \in Behind
               PROVE  /\ \E j \in DOMAIN events' : events'[j].id = m
                      /\ \E i \in DOMAIN events' :
                            /\ events'[i].id = m + 1
                            /\ \A j \in DOMAIN events' : events'[j].id = m => i < j
    BY <1>10 DEF SwappedAreOvertaken
  <2>1. PICK i \in 1 .. L : /\ events[i].id = m + 1
                            /\ \A j \in 1 .. L : events[j].id = m => i < j
    BY <1>1, <1>4 DEF Laid, SwappedAreOvertaken
  <2>2. PICK j \in 1 .. L : events[j].id = m
    BY <1>1, <1>4 DEF Laid, SwappedAreOvertaken
  <2>3. i \in 1 .. L + 1 /\ j \in 1 .. L + 1 /\ events'[i].id = m + 1 /\ events'[j].id = m
    BY <1>4, <2>1, <2>2
  <2>4. ASSUME NEW x \in 1 .. L + 1, events'[x].id = m
        PROVE  i < x
    <3>1. x # L + 1
      BY <1>3, <1>4, <1>10, <2>4
    <3>2. x \in 1 .. L
      BY <1>4, <3>1
    <3> QED
      BY <1>4, <2>1, <2>4, <3>2
  <2> QED
    BY <1>4, <2>3, <2>4
<1>13. LastIsLast'
  BY <1>8 DEF LastIsLast
<1>14. Filled'
  <2>1. planted = 0 => L = Lines[file] - 4
    BY <1>1, <1>2, <1>4 DEF Laid, Filled
  <2>2. planted # 0 => L = Lines[file] - 4 + planted
    BY <1>1 DEF Laid, Filled
  <2> QED
    BY <1>1, <1>2, <1>4, <1>8, <2>1, <2>2 DEF Filled
<1>15. GeneratorTypes'
  BY <1>1, <1>2, <1>4, <1>8 DEF GeneratorTypes
<1> QED
  BY <1>9, <1>11, <1>12, <1>13, <1>14, <1>15 DEF Laid

LEMMA MatchKeeps ==
    ASSUME Laid, MatchTrade
    PROVE  Laid'
<1> DEFINE L == Len(events)
           e == [seq |-> last_seq', id |-> ordinal]
<1>1. /\ file = "matched" /\ file' = file /\ ordinal' = ordinal + 1
      /\ last_seq' = last_seq + 1 /\ planted' = planted
      /\ events' = Append(events, e)
  BY DEF MatchTrade, Running
<1>2. /\ events \in Seq(Event) /\ last_seq \in Int /\ ordinal \in Nat /\ planted = 0
  BY <1>1 DEF Laid, GeneratorTypes
<1>3. e \in Event /\ e.seq = last_seq' /\ e.id = ordinal /\ last_seq' \in Int
  BY <1>1, <1>2 DEF Event
<1> HIDE DEF e
<1>4. /\ L \in Nat /\ DOMAIN events = 1 .. L
      /\ events' \in Seq(Event)
      /\ events'[L + 1] = e /\ \A i \in 1 .. L : events'[i] = events[i] /\ events[i] \in Event
  <2>1. /\ L \in Nat /\ Append(events, e) \in Seq(Event)
        /\ Extended(Append(events, e), events, e, 1)
    BY <1>2, <1>3, AppendExtends
  <2>2. DOMAIN events = 1 .. L /\ \A i \in 1 .. L : events[i] \in Event
    BY <1>2
  <2> QED
    BY <1>1, <2>1, <2>2 DEF Extended
<1>5. /\ LastPlace \in Int /\ LastPlace' \in Int
      /\ last_seq < last_seq' /\ LastPlace < LastPlace'
  BY <1>1, <1>2 DEF LastPlace
<1> PICK last \in Nat : last = L + 1
  BY <1>4
<1>6. Place(events[last])' = LastPlace'
  BY <1>1, <1>2, <1>3, <1>4 DEF Place, LastPlace
<1>7. \A i \in DOMAIN events : events[i].id >= 0 /\ events[i].id \in Int
  BY <1>2, <1>4 DEF Laid, Numbered, Event
<1>8. \A i \in DOMAIN events : /\ Place(events[i]) \in Int
                               /\ Place(events[i])' = Place(events[i])
  BY <1>4, <1>7 DEF Place
<1>9. Numbered'
  <2>1. last = Len(events) + 1 /\ Place(events[last])' = LastPlace'
    BY <1>6
  <2>2. ~(e.id < 0) /\ planted' = 0
    BY <1>1, <1>2, <1>3
  <2> QED
    <3>1. e.id <= ordinal' /\ ordinal \in Int /\ ordinal' \in Int /\ ordinal <= ordinal'
      BY <1>1, <1>2, <1>3
    <3> QED
      BY <1>1, <1>2, <1>3, <1>5, <1>8, <2>1, <2>2, <3>1, AppendedNumbered
<1>10. GeneratorTypes'
  BY <1>1, <1>2, <1>3, <1>4 DEF GeneratorTypes
<1> QED
  BY <1>1, <1>9, <1>10 DEF Laid, Stream

LEMMA LaidInit == GeneratorInit => Laid
<1> SUFFICES ASSUME GeneratorInit
             PROVE  Laid
  OBVIOUS
<1>1. /\ events = << >> /\ ordinal = 0 /\ planted = 0
      /\ file \in Stream \cup {"matched"}
      /\ last_seq = [hl |-> 999, pm |-> 87999, matched |-> 199999][file]
  BY DEF GeneratorInit
<1>2. last_seq \in Int
  BY <1>1 DEF Stream
<1>3. events \in Seq(Event) /\ DOMAIN events = {} /\ Len(events) = 0
  BY <1>1
<1>4. GeneratorTypes
  BY <1>1, <1>2, <1>3 DEF GeneratorTypes
<1>5. Numbered
  BY <1>3 DEF Numbered
<1>6. Behind = {}
  BY <1>1 DEF Behind
<1>7. file \in Stream => NoOtherOvertaken /\ SwappedAreOvertaken /\ LastIsLast
  BY <1>1, <1>3, <1>6 DEF NoOtherOvertaken, SwappedAreOvertaken, LastIsLast
<1>8. file \in Stream => Filled
  BY <1>1, <1>3, CadenceAssumption DEF Filled
<1> QED
  BY <1>4, <1>5, <1>7, <1>8 DEF Laid

LEMMA LaidStep == Laid /\ [GeneratorNext]_<<vars, gvars>> => Laid'
<1> SUFFICES ASSUME Laid, [GeneratorNext]_<<vars, gvars>>
             PROVE  Laid'
  OBVIOUS
<1>1. CASE UNCHANGED gvars
  <2>1. /\ file' = file /\ events' = events /\ last_seq' = last_seq
        /\ ordinal' = ordinal /\ planted' = planted
    BY <1>1 DEF gvars
  <2> QED
    BY <2>1 DEF Laid, GeneratorTypes, Numbered, NoOtherOvertaken, SwappedAreOvertaken,
                LastIsLast, Filled, Place, LastPlace, Behind
<1>2. CASE file \in Stream /\ \E order \in Draws[file] : DrawEvent(order)
  <2>1. PICK order : DrawEvent(order)
    BY <1>2
  <2> DEFINE e == [seq |-> last_seq', id |-> ordinal']
  <2>2. last_seq' \in Int /\ last_seq < last_seq'
    BY <2>1 DEF DrawEvent, Steps, Laid, GeneratorTypes
  <2>3. Drawn(e)
    BY <2>1, <2>2 DEF DrawEvent, Running, Drawn
  <2> QED
    BY <2>3, DrawnKeeps
<1>3. CASE PlantEvent
  BY <1>3, PlantKeeps
<1>4. CASE MatchTrade
  BY <1>4, MatchKeeps
<1>5. BuildStandard \/ Return => UNCHANGED gvars
  BY DEF BuildStandard, Return
<1> QED
  BY <1>1, <1>2, <1>3, <1>4, <1>5 DEF GeneratorNext

LEMMA LaidIsPlanted == Laid => StreamIsAsPlanted
<1> SUFFICES ASSUME Laid
             PROVE  StreamIsAsPlanted
  OBVIOUS
<1> DEFINE S == DOMAIN events
<1>1. /\ ordinal \in Nat /\ events \in [S -> Event]
      /\ file \in Stream \cup {"matched"} /\ (file = "matched" => planted = 0)
  BY DEF Laid, GeneratorTypes
<1>2. /\ \A i \in S : /\ events[i].seq \in Int /\ events[i].id \in Int
                      /\ events[i].id <= ordinal
      /\ \A i, j \in S :
            events[i].seq < events[j].seq <=> Place(events[i]) < Place(events[j])
  BY <1>1 DEF Laid, Numbered, Event
<1>3. \A i \in S : /\ Place(events[i]) \in Int
                  /\ Place(events[i]) = IF events[i].id >= 0 THEN events[i].id
                                         ELSE ordinal - events[i].id
  BY <1>1, <1>2 DEF Place
<1> HIDE DEF S
<1>4. ASSUME NEW i \in S, NEW j \in S
      PROVE  (events[i].seq = events[j].seq) <=> (events[i].id = events[j].id)
  <2>1. events[i].seq = events[j].seq <=> Place(events[i]) = Place(events[j])
    BY <1>2, <1>3
  <2>2. Place(events[i]) = Place(events[j]) <=> events[i].id = events[j].id
    BY <1>1, <1>2, <1>3
  <2> QED
    BY <2>1, <2>2
<1>5. ASSUME file \in Stream
      PROVE  {e.id : e \in Overtaken}
                 = {n - 1 : n \in {m \in 2 .. ordinal : m % SwapEvery[file] = 0}}
  <2> DEFINE due == {n - 1 : n \in {m \in 2 .. ordinal : m % SwapEvery[file] = 0}}
             ids == {e.id : e \in Overtaken}
  <2>1. \A m : m \in due <=> m \in Behind
    <3>1. ASSUME NEW m \in due
          PROVE  m \in Behind
      <4>1. PICK n \in 2 .. ordinal : n % SwapEvery[file] = 0 /\ m = n - 1
        OBVIOUS
      <4>2. m \in 1 .. ordinal - 1 /\ m + 1 = n
        BY <1>1, <4>1
      <4> QED
        BY <4>1, <4>2 DEF Behind
    <3>2. ASSUME NEW m \in Behind
          PROVE  m \in due
      <4>1. m \in 1 .. ordinal - 1 /\ (m + 1) % SwapEvery[file] = 0
        BY DEF Behind
      <4>2. m + 1 \in 2 .. ordinal /\ m = (m + 1) - 1
        BY <1>1, <4>1
      <4> QED
        BY <4>1, <4>2
    <3> QED
      BY <3>1, <3>2
  <2>2. ASSUME NEW e \in Overtaken
        PROVE  e.id \in Behind
    <3>1. PICK i \in S : events[i].seq > e.seq /\ \A j \in S : events[j] = e => i < j
      BY DEF Overtaken, S
    <3>2. PICK k \in S : events[k] = e
      BY DEF Overtaken, Range, S
    <3>3. i < k /\ Place(e) < Place(events[i])
      BY <1>2, <3>1, <3>2
    <3>4. Place(e) \in Behind
      BY <1>5, <3>2, <3>3 DEF Laid, NoOtherOvertaken, S
    <3>5. Place(e) <= ordinal - 1
      BY <1>1, <3>4 DEF Behind
    <3>6. Place(e) = e.id
      BY <1>1, <1>2, <1>3, <3>2, <3>5
    <3> QED
      BY <3>4, <3>6
  <2>3. ASSUME NEW m \in Behind
        PROVE  \E e \in Overtaken : e.id = m
    <3>1. m \in Nat
      BY <1>1 DEF Behind
    <3>2. PICK k \in S : events[k].id = m
      BY <1>5 DEF Laid, SwappedAreOvertaken, S
    <3>3. PICK i \in S : events[i].id = m + 1 /\ \A j \in S : events[j].id = m => i < j
      BY <1>5 DEF Laid, SwappedAreOvertaken, S
    <3>4. Place(events[k]) < Place(events[i])
      BY <1>3, <3>1, <3>2, <3>3
    <3>5. events[i].seq > events[k].seq
      BY <1>2, <3>4
    <3>6. \A j \in S : events[j] = events[k] => i < j
      BY <3>2, <3>3
    <3>7. events[k] \in Overtaken
      BY <3>5, <3>6 DEF Overtaken, Range, S
    <3> QED
      BY <3>2, <3>7
  <2>4. \A m : m \in ids <=> m \in Behind
    BY <2>2, <2>3
  <2> HIDE DEF due, ids
  <2>5. ids = due
    BY <2>1, <2>4
  <2> QED
    BY <2>5 DEF due, ids
<1>6. planted = 4 => Len(events) = Lines[file]
  <2> SUFFICES ASSUME planted = 4
               PROVE  Len(events) = Lines[file]
    OBVIOUS
  <2>1. file \in Stream
    BY <1>1
  <2>2. Lines[file] \in Nat /\ Len(events) = Lines[file] - 4 + 4
    BY <2>1, CadenceAssumption DEF Laid, Filled
  <2> QED
    BY <2>2
<1> QED
  BY <1>4, <1>5, <1>6 DEF StreamIsAsPlanted, S

(* StreamIsAsPlanted (fixtures.rs:91-185): for streams of any length and   *)
(* cadences that keep their distance, a number belongs to one id, and the  *)
(* events overtaken in file order are those just before a swap.            *)
THEOREM StreamPlanted == GeneratorSpec => []StreamIsAsPlanted
<1>1. Laid /\ [GeneratorNext]_<<vars, gvars>> => Laid'
  BY LaidStep
<1> QED
  BY <1>1, LaidInit, LaidIsPlanted, PTL DEF GeneratorSpec

-----------------------------------------------------------------------------
(* What format_scaled writes. *)

LEMMA NestedQuotient ==
    ASSUME NEW a \in Nat, NEW b \in Nat, NEW c \in Nat, b > 0, c > 0
    PROVE  /\ b * c \in Nat /\ b * c > 0
           /\ (a \div b) \div c = a \div (b * c)
<1> DEFINE q == a \div b
           r == a % b
           p == q \div c
           s == q % c
<1>1. b * c \in Nat /\ b * c > 0
  BY SMT
<1>2. q \in Int /\ r \in 0 .. b - 1 /\ a = b * q + r
  BY Quotient
<1> HIDE DEF q, r
<1>3. p \in Int /\ s \in 0 .. c - 1 /\ q = c * p + s
  BY <1>2, Quotient
<1> HIDE DEF p, s
<1> DEFINE w == b * c
           t == b * s + r
<1>4. a = w * p + t
  <2>1. b * (c * p + s) + r = (b * c) * p + (b * s + r)
    BY <1>2, <1>3, SMT
  <2> QED
    BY <1>2, <1>3, <2>1
<1>5. t \in Int /\ 0 <= t /\ t < w
  <2>1. b * s \in Int /\ b * s >= 0
    BY <1>3, Products
  <2>2. b * (c - s) >= b
    BY <1>3, AtLeast
  <2>3. b * (c - s) = b * c - b * s
    BY <1>3, SMT
  <2> DEFINE bs == b * s
             bc == b * c
             d  == b * (c - s)
  <2>4. bs \in Int /\ bs >= 0 /\ bc \in Int /\ d = bc - bs /\ d >= b
    BY <1>1, <2>1, <2>2, <2>3
  <2> HIDE DEF bs, bc, d
  <2>5. bs + r \in Int /\ 0 <= bs + r /\ bs + r < bc
    BY <1>2, <2>4
  <2> QED
    BY <2>5 DEF bs, bc
<1> HIDE DEF t, w
<1>6. w \in Int /\ w > 0
  BY <1>1 DEF w
<1>7. (w * p + t) \div w = p
  BY <1>3, <1>5, <1>6, QuotientIsUnique
<1>8. a \div w = p
  BY <1>4, <1>7
<1> QED
  BY <1>1, <1>8 DEF w, p, q

(* A whole number of tens more does not change the last digit. *)
LEMMA LastDigit ==
    ASSUME NEW k \in Int, NEW n \in Int
    PROVE  (10 * k + n) % 10 = n % 10
<1> DEFINE q == n \div 10
           r == n % 10
           m == 10 * k + n
<1>1. q \in Int /\ r \in 0 .. 9 /\ n = 10 * q + r
  BY Quotient
<1> HIDE DEF q, r
<1>2. m = 10 * (k + q) + r /\ k + q \in Int /\ m \in Int
  BY <1>1
<1> HIDE DEF m
<1>3. m \div 10 = k + q
  <2>1. (10 * (k + q) + r) \div 10 = k + q
    BY <1>1, <1>2, QuotientIsUnique
  <2> QED
    BY <1>2, <2>1
<1>4. m = 10 * (m \div 10) + (m % 10) /\ m % 10 \in Int
  <2>1. m \in Int
    BY <1>2
  <2> QED
    BY <2>1, Quotient
<1>5. m % 10 = r
  BY <1>1, <1>2, <1>3, <1>4
<1> QED
  BY <1>5 DEF m, r

(* The digit of v at a place counted from the right is that of the part    *)
(* below a higher place, and of the part from a lower one on.              *)
LEMMA DigitOfPart ==
    ASSUME NEW v \in Nat, NEW d \in Nat, NEW j \in Nat, j < d
    PROVE  ((v % Tens[d]) \div Tens[j]) % 10 = (v \div Tens[j]) % 10
<1> DEFINE T == Tens[d]
           U == Tens[j]
           K == Tens[d - j - 1]
           q == v \div T
           r == v % T
<1>1. d - j - 1 \in Nat /\ j + 1 \in Nat /\ (j + 1) + (d - j - 1) = d
  OBVIOUS
<1>2. /\ T \in Nat /\ T > 0 /\ U \in Nat /\ U > 0 /\ K \in Nat /\ K > 0
      /\ Tens[j + 1] = 10 * U
  BY <1>1, TensValues
<1>3. T = (10 * U) * K
  BY <1>1, <1>2, TensOfSum
<1> HIDE DEF T, U, K
<1>4. q \in Int /\ r \in 0 .. T - 1 /\ v = T * q + r
  BY <1>2, Quotient
<1> HIDE DEF q, r
<1> DEFINE p == r \div U
           s == r % U
<1>5. p \in Int /\ s \in 0 .. U - 1 /\ r = U * p + s
  BY <1>2, <1>4, Quotient
<1> HIDE DEF p, s
<1> DEFINE kq == K * q
           high == 10 * kq + p
<1>6. kq \in Int
  BY <1>2, <1>4, SMT
<1>7. v = U * high + s
  <2>1. ((10 * U) * K) * q + (U * p + s) = U * (10 * (K * q) + p) + s
    BY <1>2, <1>4, <1>5, SMT
  <2> QED
    BY <1>3, <1>4, <1>5, <2>1
<1> HIDE DEF kq
<1>8. high \in Int
  BY <1>5, <1>6
<1>9. v \div U = high
  <2> HIDE DEF high
  <2>1. (U * high + s) \div U = high
    BY <1>2, <1>5, <1>8, QuotientIsUnique
  <2> QED
    BY <1>7, <2>1
<1>10. high % 10 = p % 10
  BY <1>5, <1>6, LastDigit
<1>11. (r \div U) % 10 = (v \div U) % 10
  BY <1>9, <1>10 DEF p
<1> QED
  BY <1>11 DEF r, U, T

LEMMA FormattedDigits ==
    ASSUME NEW n \in Nat, NEW width \in Nat, n < Tens[width], NEW s, s = DigitsOf(n, width)
    PROVE  /\ s \in Seq(Nat) /\ Len(s) = width /\ DOMAIN s = 1 .. width
           /\ \A i \in 1 .. width : s[i] \in Digit /\ s[i] = (n \div Tens[width - i]) % 10
<1>1. s = [i \in 1 .. width |-> (n \div Tens[width - i]) % 10]
  BY DEF DigitsOf
<1>2. ASSUME NEW i \in 1 .. width
      PROVE  (n \div Tens[width - i]) % 10 \in Digit
  <2> DEFINE p == Tens[width - i]
             q == n \div p
  <2>1. p \in Nat /\ p > 0
    <3>1. width - i \in Nat
      OBVIOUS
    <3> QED
      BY <3>1, TensValues
  <2>2. q \in Int
    <3> HIDE DEF p
    <3> QED
      BY <2>1, Quotient
  <2> HIDE DEF q
  <2>3. q % 10 \in 0 .. 9
    BY <2>2
  <2> QED
    BY <2>3 DEF q, Digit
<1>3. \A i \in 1 .. width : s[i] \in Digit /\ s[i] = (n \div Tens[width - i]) % 10
  BY <1>1, <1>2
<1>4. s \in [1 .. width -> Nat]
  <2>1. Digit \subseteq Nat
    BY DEF Digit
  <2>2. DOMAIN s = 1 .. width /\ s = [i \in 1 .. width |-> s[i]]
    BY <1>1
  <2> QED
    BY <1>3, <2>1, <2>2
<1>5. s \in Seq(Nat) /\ Len(s) = width
  BY <1>4
<1> QED
  BY <1>1, <1>3, <1>5

LEMMA WidthIsEnough ==
    ASSUME NEW n \in Nat, n < Tens[9]
    PROVE  WidthOf(n) \in 1 .. 10 /\ n < Tens[WidthOf(n)]
<1> DEFINE T == {w \in 1 .. 10 : n < Tens[w]}
           P(w) == (w = 1 \/ n >= Tens[w - 1]) /\ n < Tens[w]
<1>1. PICK w \in T : \A y \in T : w <= y
  <2>1. 9 \in T /\ T \subseteq Nat
    OBVIOUS
  <2> HIDE DEF T
  <2> QED
    BY <2>1, LeastOfNaturals
<1>2. P(w)
  <2>1. CASE w = 1
    BY <1>1, <2>1
  <2>2. CASE w # 1
    <3>1. w - 1 \in 1 .. 10 /\ w - 1 \notin T
      BY <1>1, <2>2
    <3>2. Tens[w - 1] \in Nat
      BY <3>1, TensValues
    <3> QED
      BY <1>1, <3>1, <3>2
  <2> QED
    BY <2>1, <2>2
<1>3. WidthOf(n) = CHOOSE x \in 1 .. 10 : P(x)
  BY Zenon DEF WidthOf
<1>4. w \in 1 .. 10
  OBVIOUS
<1> HIDE DEF P
<1>5. WidthOf(n) \in 1 .. 10 /\ P(WidthOf(n))
  BY <1>2, <1>3, <1>4, Zenon
<1> QED
  BY <1>5 DEF P

(* The digits of a number, most significant first, run to the number. *)
LEMMA DigitsRunToNumber ==
    ASSUME NEW v \in Nat, NEW n \in Nat, v < Tens[n],
           NEW s \in Seq(Nat), Len(s) = n,
           \A i \in 1 .. n : s[i] = (v \div Tens[n - i]) % 10,
           NEW g, Run(g, s)
    PROVE  g[n] = v
<1> DEFINE h == [i \in 0 .. n |-> v \div Tens[n - i]]
           T == {i \in 0 .. n : g[i] # h[i]}
<1>1. \A i \in 0 .. n : n - i \in Nat /\ Tens[n - i] \in Nat /\ Tens[n - i] > 0
  BY TensValues
<1>2. h[0] = 0
  <2> DEFINE p == Tens[n]
  <2>1. p \in Nat /\ p > 0 /\ v < p
    BY TensValues
  <2> HIDE DEF p
  <2>2. (p * 0 + v) \div p = 0
    BY <2>1, QuotientIsUnique
  <2>3. p * 0 + v = v
    BY <2>1
  <2>4. v \div p = 0
    BY <2>2, <2>3
  <2>5. h[0] = v \div p
    BY DEF p
  <2> QED
    BY <2>4, <2>5
<1>3. ASSUME NEW i \in 1 .. n
      PROVE  h[i] = 10 * h[i - 1] + s[i]
  <2> DEFINE p == Tens[n - i]
             q == v \div p
  <2>1. n - i \in Nat /\ p \in Nat /\ p > 0 /\ (n - i) + 1 = n - (i - 1)
    BY <1>1
  <2>2. Tens[n - (i - 1)] = 10 * p
    BY <2>1, TensValues
  <2>3. i \in 0 .. n /\ i - 1 \in 0 .. n
    OBVIOUS
  <2>4. h[i] = q /\ h[i - 1] = v \div (10 * p) /\ s[i] = q % 10
    BY <2>2, <2>3
  <2> HIDE DEF h, p
  <2>5. (v \div p) \div 10 = v \div (p * 10)
    <3>1. p \in Nat /\ p > 0 /\ 10 \in Nat /\ 10 > 0
      BY <2>1
    <3> QED
      BY <3>1, NestedQuotient
  <2>6. q \in Int
    BY <2>1, Quotient
  <2>7. p * 10 = 10 * p
    BY <2>1
  <2>8. h[i - 1] = q \div 10
    BY <2>4, <2>5, <2>7
  <2> HIDE DEF q
  <2>9. q = 10 * (q \div 10) + (q % 10)
    BY <2>6, Quotient
  <2> QED
    BY <2>4, <2>8, <2>9
<1> SUFFICES ASSUME T # {}
             PROVE  FALSE
  <2>1. T = {} => g[n] = h[n]
    <3> HIDE DEF h
    <3> QED
      OBVIOUS
  <2>2. h[n] = v
    <3>1. h[n] = v \div Tens[n - n] /\ n - n = 0
      OBVIOUS
    <3>2. Tens[0] = 1
      BY TensValues
    <3>3. v \div 1 = v
      OBVIOUS
    <3> QED
      BY <3>1, <3>2, <3>3
  <2> QED
    BY <2>1, <2>2
<1> HIDE DEF h
<1>4. PICK x \in T : \A y \in T : x <= y
  <2>1. T \subseteq Nat
    OBVIOUS
  <2> HIDE DEF T
  <2> QED
    BY <2>1, LeastOfNaturals
<1>5. x # 0
  BY <1>2, RunTypes
<1>6. x \in 1 .. n /\ x - 1 \in 0 .. n /\ x - 1 \notin T
  BY <1>4, <1>5
<1>7. g[x - 1] = h[x - 1]
  BY <1>6
<1>8. g[x] = 10 * g[x - 1] + s[x]
  BY <1>6, RunTypes
<1> QED
  BY <1>3, <1>6, <1>7, <1>8

LEMMA QuotientSmaller ==
    ASSUME NEW a \in Nat, NEW b \in Nat, b > 0
    PROVE  a \div b \in Nat /\ a \div b <= a
<1> DEFINE q == a \div b
           r == a % b
<1>1. q \in Int /\ r \in 0 .. b - 1 /\ a = b * q + r
  BY Quotient
<1> HIDE DEF q, r
<1>2. q >= 0
  <2> SUFFICES ASSUME -q >= 1
               PROVE  FALSE
    BY <1>1
  <2>1. b * (-q) >= b
    BY <1>1, AtLeast
  <2>2. b * (-q) = -(b * q)
    BY <1>1, SMT
  <2> DEFINE p == b * q
  <2>3. p \in Int
    BY <1>1, SMT
  <2>4. a = p + r /\ -p >= b
    BY <1>1, <2>1, <2>2
  <2> HIDE DEF p
  <2> QED
    BY <1>1, <2>3, <2>4
<1>3. q <= a
  <2>1. (b - 1) * q >= 0
    BY <1>1, <1>2, Products
  <2>2. (b - 1) * q = b * q - q
    BY <1>1, SMT
  <2> DEFINE p == b * q
  <2>3. p \in Int
    BY <1>1, SMT
  <2>4. a = p + r /\ p - q >= 0
    BY <1>1, <2>1, <2>2
  <2> HIDE DEF p
  <2> QED
    BY <1>1, <2>3, <2>4
<1> QED
  BY <1>1, <1>2, <1>3 DEF q

(* t is v with d of its digits behind the dot. *)
Writes(t, v, d) ==
    /\ t.neg = FALSE /\ IsText(t) /\ Len(t.frac) = d
    /\ t.int \o t.frac # << >>
    /\ \A i \in DOMAIN t.int : t.int[i] \in Digit
    /\ \A i \in DOMAIN t.frac : t.frac[i] \in Digit
    /\ \A g : Run(g, t.int \o t.frac) => g[Len(t.int) + d] = v

(* The digits before and after the dot, together, are those of the value.  *)
LEMMA FormattedText ==
    ASSUME NEW v \in Nat, NEW d \in Nat, v < Tens[9], NEW t, t = FormatScaled(v, d)
    PROVE  Writes(t, v, d)
<1> DEFINE T == Tens[d]
           whole == v \div T
           rest == v % T
           w == WidthOf(whole)
           x == DigitsOf(whole, w)
           f == DigitsOf(rest, d)
           D == x \o f
<1>1. T \in Nat /\ T > 0
  BY TensValues
<1>2. whole \in Nat /\ whole < Tens[9] /\ rest \in 0 .. T - 1 /\ v = T * whole + rest
  <2> HIDE DEF T
  <2>1. whole \in Nat /\ whole <= v
    BY <1>1, QuotientSmaller
  <2>2. rest \in 0 .. T - 1 /\ v = T * whole + rest
    BY <1>1, Quotient
  <2>3. Tens[9] \in Nat
    BY TensValues
  <2> HIDE DEF whole, rest
  <2> QED
    BY <2>1, <2>2, <2>3
<1>3. w \in 1 .. 10 /\ whole < Tens[w]
  <2> HIDE DEF whole
  <2> QED
    BY <1>2, WidthIsEnough
<1>4. t.neg = FALSE /\ t.int = x /\ t.frac = f
  BY DEF FormatScaled
<1>5. /\ x \in Seq(Nat) /\ Len(x) = w /\ DOMAIN x = 1 .. w
      /\ \A i \in 1 .. w : x[i] \in Digit /\ x[i] = (whole \div Tens[w - i]) % 10
  <2>1. w \in Nat /\ whole \in Nat /\ whole < Tens[w]
    BY <1>2, <1>3
  <2> HIDE DEF whole, w
  <2> QED
    BY <2>1, FormattedDigits
<1>6. /\ f \in Seq(Nat) /\ Len(f) = d /\ DOMAIN f = 1 .. d
      /\ \A i \in 1 .. d : f[i] \in Digit /\ f[i] = (rest \div Tens[d - i]) % 10
  <2>1. rest \in Nat /\ rest < Tens[d]
    BY <1>1, <1>2
  <2> HIDE DEF rest
  <2> QED
    BY <2>1, FormattedDigits
<1> HIDE DEF x, f, w
<1>7. /\ D \in Seq(Nat) /\ Len(D) = w + d
      /\ \A i \in 1 .. w : D[i] = x[i]
      /\ \A i \in 1 .. d : D[w + i] = f[i]
  BY <1>5, <1>6, JoinedDigits
<1> HIDE DEF D
<1>8. w \in Nat /\ w >= 1 /\ w + d \in Nat
  BY <1>3
<1>9. v < Tens[w + d]
  <2> DEFINE U == Tens[w]
  <2>1. U \in Nat /\ Tens[w + d] = U * T
    BY <1>8, TensValues, TensOfSum
  <2>2. whole < U
    BY <1>3
  <2> HIDE DEF T, U, whole, rest
  <2>3. T * (U - whole) >= T
    BY <1>1, <1>2, <2>1, <2>2, AtLeast
  <2>4. T * (U - whole) = U * T - T * whole
    BY <1>1, <1>2, <2>1, SMT
  <2> DEFINE tw == T * whole
             ut == U * T
  <2>5. tw \in Int /\ ut \in Int
    BY <1>1, <1>2, <2>1, SMT
  <2>6. v = tw + rest /\ ut - tw >= T
    BY <1>2, <2>3, <2>4
  <2> HIDE DEF tw, ut
  <2>7. v < ut
    BY <1>1, <1>2, <2>5, <2>6
  <2> QED
    BY <2>1, <2>7 DEF ut
<1>10. ASSUME NEW i \in 1 .. w + d
       PROVE  D[i] = (v \div Tens[(w + d) - i]) % 10
  <2>1. CASE i <= w
    <3> DEFINE U == Tens[w - i]
    <3>1. i \in 1 .. w /\ w - i \in Nat /\ d + (w - i) = (w + d) - i
      BY <1>8, <2>1
    <3>2. U \in Nat /\ U > 0 /\ Tens[(w + d) - i] = T * U
      <4>1. Tens[d + (w - i)] = Tens[d] * Tens[w - i]
        BY <3>1, TensOfSum
      <4> QED
        BY <3>1, <4>1, TensValues
    <3>3. D[i] = (whole \div U) % 10
      BY <1>5, <1>7, <3>1
    <3> HIDE DEF T, U
    <3>4. (v \div T) \div U = v \div (T * U)
      BY <1>1, <3>2, NestedQuotient
    <3> QED
      BY <3>2, <3>3, <3>4
  <2>2. CASE ~(i <= w)
    <3> DEFINE j == i - w
    <3>1. j \in 1 .. d /\ i = w + j /\ d - j \in Nat /\ d - j < d /\ (w + d) - i = d - j
      BY <1>8, <2>2
    <3> HIDE DEF j
    <3>2. D[i] = (rest \div Tens[d - j]) % 10
      <4>1. D[w + j] = f[j]
        BY <1>7, <3>1
      <4> QED
        BY <1>6, <3>1, <4>1
    <3>3. ((v % Tens[d]) \div Tens[d - j]) % 10 = (v \div Tens[d - j]) % 10
      BY <3>1, DigitOfPart
    <3> QED
      BY <3>1, <3>2, <3>3
  <2> QED
    BY <2>1, <2>2
<1>11. ASSUME NEW g, Run(g, D)
       PROVE  g[w + d] = v
  <2> DEFINE n == w + d
  <2>1. n \in Nat /\ v < Tens[n] /\ Len(D) = n
        /\ \A i \in 1 .. n : D[i] = (v \div Tens[n - i]) % 10
    BY <1>7, <1>8, <1>9, <1>10
  <2> HIDE DEF n
  <2>2. g[n] = v
    BY <1>7, <1>11, <2>1, DigitsRunToNumber
  <2> QED
    BY <2>2 DEF n
<1>12. D # << >>
  <2>1. Len(D) # 0
    BY <1>7, <1>8
  <2> QED
    BY <2>1
<1>13. t.int \o t.frac = D
  BY <1>4 DEF D
<1>14. IsText(t)
  BY <1>4, <1>5, <1>6 DEF IsText
<1> HIDE DEF whole, rest, T
<1> QED
  BY <1>4, <1>5, <1>6, <1>11, <1>12, <1>13, <1>14 DEF Writes

(* A text with no more decimals than the scale is read to its end. *)
LEMMA WholeMagnitude ==
    ASSUME NEW t, IsText(t), NEW scale \in Nat, NEW d \in Nat, d <= scale, Len(t.frac) = d,
           NEW g, Run(g, t.int \o t.frac)
    PROVE  Magnitude(t, scale) = g[Len(t.int) + d] * Tens[scale - d]
<1>1. d = IF Len(t.frac) < scale THEN Len(t.frac) ELSE scale
  OBVIOUS
<1> QED
  BY <1>1, MagnitudeValue, ZenonT(30)

LEMMA WrittenMagnitude ==
    ASSUME NEW v \in Nat, NEW d \in Nat, NEW scale \in Nat, d <= scale, NEW t, Writes(t, v, d)
    PROVE  Magnitude(t, scale) = v * Tens[scale - d]
<1> DEFINE D == t.int \o t.frac
<1>1. IsText(t) /\ Len(t.frac) = d /\ \A g : Run(g, D) => g[Len(t.int) + d] = v
  BY DEF Writes
<1>2. D \in Seq(Nat)
  BY <1>1, TextDigits
<1>3. PICK g : Run(g, D)
  <2> HIDE DEF D
  <2> QED
    BY <1>2, HornerRuns
<1>4. g[Len(t.int) + d] = v
  BY <1>1, <1>3
<1>5. Magnitude(t, scale) = g[Len(t.int) + d] * Tens[scale - d]
  <2>1. IsText(t) /\ Len(t.frac) = d
    BY <1>1
  <2> QED
    BY <1>3, <2>1, WholeMagnitude
<1> QED
  BY <1>4, <1>5

(* parse_fixed reads what format_scaled wrote: value / 10^d, in units of   *)
(* its own scale.                                                          *)
LEMMA FormattedParses ==
    ASSUME NEW v \in Nat, NEW d \in Nat, NEW scale \in Nat, d <= scale,
           v < Tens[9], v * Tens[scale - d] <= I128Max,
           NEW t, t = FormatScaled(v, d)
    PROVE  Parses(t, scale) /\ ParsedValue(t, scale) = v * Tens[scale - d]
<1>0. Writes(t, v, d)
  BY FormattedText
<1>1. /\ t.neg = FALSE /\ IsText(t) /\ Len(t.frac) = d
      /\ t.int \o t.frac # << >>
      /\ \A i \in DOMAIN t.int : t.int[i] \in Digit
      /\ \A i \in DOMAIN t.frac : t.frac[i] \in Digit
      /\ \A g : Run(g, t.int \o t.frac) => g[Len(t.int) + d] = v
  BY <1>0 DEF Writes
<1>2. DOMAIN t.frac = 1 .. d
  BY <1>1, TextDigits
<1>3. Magnitude(t, scale) = v * Tens[scale - d]
  BY <1>0, WrittenMagnitude
<1> DEFINE V == v * Tens[scale - d]
<1>4. V \in Nat /\ Fits128(V)
  <2>1. scale - d \in Nat
    OBVIOUS
  <2>2. Tens[scale - d] \in Nat
    BY <2>1, TensValues
  <2>3. V \in Nat
    BY <2>2, ProductOfNaturals
  <2>4. V <= I128Max
    OBVIOUS
  <2> HIDE DEF V
  <2> QED
    BY <2>3, <2>4, WidthAssumption DEF Fits128
<1>5. \A i \in DOMAIN t.frac : ~(i > scale)
  BY <1>2
<1>6. Fits128(Magnitude(t, scale))
  BY <1>3, <1>4
<1>7. Parses(t, scale)
  BY <1>1, <1>5, <1>6 DEF Parses
<1>8. ParsedValue(t, scale) = Magnitude(t, scale)
  BY <1>1 DEF ParsedValue
<1> QED
  BY <1>3, <1>7, <1>8

-----------------------------------------------------------------------------
(* The standard registry. *)

LEMMA StandardUnits ==
    /\ Dollar = 1000000
    /\ QtyDigits - 4 \in Nat /\ QtyDigits - 3 \in Nat
    /\ Tens[QtyDigits - 4] \in Nat /\ Tens[QtyDigits - 4] > 0
    /\ Tens[QtyDigits - 3] = 10 * Tens[QtyDigits - 4]
    /\ Whole = 10000 * Tens[QtyDigits - 4]
    /\ Whole \div 10000 = Tens[QtyDigits - 4]
    /\ Whole \div 1000 = Tens[QtyDigits - 3]
<1>1. Dollar = 1000000
  <2>1. Dollar = Tens[6]
    BY ScaleAssumption, DrawAssumption
  <2>2. Tens[1] = 10
    BY TensValues
  <2>3. Tens[2] = 100
    BY <2>2, TensValues
  <2>4. Tens[3] = 1000
    BY <2>3, TensValues
  <2>5. Tens[4] = 10000
    BY <2>4, TensValues
  <2>6. Tens[5] = 100000
    BY <2>5, TensValues
  <2>7. Tens[6] = 1000000
    BY <2>6, TensValues
  <2> QED
    BY <2>1, <2>7
<1> DEFINE q == QtyDigits - 4
           t == Tens[q]
<1>2. /\ q \in Nat /\ q + 1 \in Nat /\ q + 2 \in Nat /\ q + 3 \in Nat
      /\ (q + 1) + 1 = q + 2 /\ (q + 2) + 1 = q + 3 /\ (q + 3) + 1 = QtyDigits
      /\ q + 1 = QtyDigits - 3
  BY ScaleAssumption, DrawAssumption
<1> HIDE DEF q
<1>3. t \in Nat /\ t > 0 /\ Tens[q + 1] = 10 * t
  BY <1>2, TensValues
<1>4. Tens[q + 2] = 100 * t
  <2>1. Tens[q + 2] = 10 * Tens[q + 1]
    BY <1>2, TensValues
  <2> QED
    BY <1>3, <2>1
<1>5. Tens[q + 3] = 1000 * t
  <2>1. Tens[q + 3] = 10 * Tens[q + 2]
    BY <1>2, TensValues
  <2> QED
    BY <1>3, <1>4, <2>1
<1>6. Whole = 10000 * t
  <2>1. Tens[QtyDigits] = 10 * Tens[q + 3]
    BY <1>2, TensValues
  <2> QED
    BY <1>3, <1>5, <2>1, ScaleAssumption
<1> HIDE DEF t
<1>7. Whole \div 10000 = t /\ Whole \div 1000 = 10 * t
  BY <1>3, <1>6
<1> QED
  BY <1>1, <1>2, <1>3, <1>6, <1>7 DEF q, t

StandardSymbol(i) == SymbolOf(StandardSpecs[i])

(* The first specs are in the registry, and in the end they all are. *)
StandardRegistry ==
    \E k \in 0 .. 4 :
        /\ DOMAIN by_symbol = {StandardSymbol(i) : i \in 1 .. k}
        /\ \A i \in 1 .. k : by_symbol[StandardSymbol(i)] = Derived(StandardSpecs[i])
        /\ verdict = "Ok" => k = 4

LEMMA StandardSymbols ==
    /\ StandardSymbol(1) = <<"Hl", "BTC-PERP">> /\ StandardSymbol(2) = <<"Hl", "ETH-PERP">>
    /\ StandardSymbol(3) = <<"Pm", "FED-CUT-SEP">>
    /\ StandardSymbol(4) = <<"Pm", "CPI-ABOVE-AUG">>
    /\ Len(StandardSpecs) = 4
BY DEF StandardSymbol, StandardSpecs, SymbolOf, Listed

LEMMA StandardCounts ==
    ASSUME NEW k \in 0 .. 4
    PROVE  Cardinality({StandardSymbol(i) : i \in 1 .. k}) = k
<1> DEFINE S(n) == {StandardSymbol(i) : i \in 1 .. n}
<1>1. IsFiniteSet(S(0)) /\ Cardinality(S(0)) = 0
  <2>1. S(0) = {}
    OBVIOUS
  <2> QED
    BY <2>1, FS_EmptySet
<1>2. ASSUME NEW n \in 0 .. 3, IsFiniteSet(S(n)), Cardinality(S(n)) = n
      PROVE  IsFiniteSet(S(n + 1)) /\ Cardinality(S(n + 1)) = n + 1
  <2>1. S(n + 1) = S(n) \cup {StandardSymbol(n + 1)}
    OBVIOUS
  <2>2. StandardSymbol(n + 1) \notin S(n)
    <3>1. \A i, j \in 1 .. 4 : i # j => StandardSymbol(i) # StandardSymbol(j)
      BY StandardSymbols
    <3> QED
      BY <3>1
  <2> HIDE DEF S
  <2> QED
    BY <1>2, <2>1, <2>2, FS_AddElement
<1> HIDE DEF S
<1>3. IsFiniteSet(S(1)) /\ Cardinality(S(1)) = 1
  BY <1>1, <1>2
<1>4. IsFiniteSet(S(2)) /\ Cardinality(S(2)) = 2
  BY <1>2, <1>3
<1>5. IsFiniteSet(S(3)) /\ Cardinality(S(3)) = 3
  BY <1>2, <1>4
<1>6. IsFiniteSet(S(4)) /\ Cardinality(S(4)) = 4
  BY <1>2, <1>5
<1>7. Cardinality(S(k)) = k
  BY <1>1, <1>3, <1>4, <1>5, <1>6
<1> QED
  BY <1>7 DEF S

LEMMA StandardInit == GeneratorInit => StandardRegistry
<1> SUFFICES ASSUME GeneratorInit
             PROVE  StandardRegistry
  OBVIOUS
<1>1. by_symbol = << >> /\ verdict = "Open"
  <2>1. Init
    BY DEF GeneratorInit
  <2> QED
    BY <2>1 DEF Init, RegistryInit
<1>2. 0 \in 0 .. 4 /\ DOMAIN by_symbol = {StandardSymbol(i) : i \in 1 .. 0}
  BY <1>1
<1> QED
  BY <1>1, <1>2 DEF StandardRegistry

LEMMA StandardStep ==
    StandardRegistry /\ [GeneratorNext]_<<vars, gvars>> => StandardRegistry'
<1> SUFFICES ASSUME StandardRegistry, [GeneratorNext]_<<vars, gvars>>
             PROVE  StandardRegistry'
  OBVIOUS
<1>1. PICK k \in 0 .. 4 :
        /\ DOMAIN by_symbol = {StandardSymbol(i) : i \in 1 .. k}
        /\ \A i \in 1 .. k : by_symbol[StandardSymbol(i)] = Derived(StandardSpecs[i])
        /\ verdict = "Ok" => k = 4
  BY DEF StandardRegistry
<1>2. CASE UNCHANGED rvars
  BY <1>1, <1>2 DEF StandardRegistry, rvars
<1>3. CASE BuildStandard
  <2>1. verdict = "Open" /\ Taken = k
    BY <1>1, <1>3, StandardCounts DEF BuildStandard, Taken
  <2>2. CASE k < 4 /\ Add(StandardSpecs[k + 1])
    <3> DEFINE s == StandardSpecs[k + 1]
    <3>1. /\ DOMAIN by_symbol' = DOMAIN by_symbol \cup {StandardSymbol(k + 1)}
          /\ \A x \in DOMAIN by_symbol' :
                by_symbol'[x] = IF x = StandardSymbol(k + 1) THEN Derived(s) ELSE by_symbol[x]
          /\ verdict' = "Open"
      BY <2>1, <2>2 DEF Add, StandardSymbol
    <3>2. k + 1 \in 0 .. 4 /\ DOMAIN by_symbol' = {StandardSymbol(i) : i \in 1 .. k + 1}
      BY <1>1, <2>2, <3>1
    <3>3. ASSUME NEW i \in 1 .. k + 1
          PROVE  by_symbol'[StandardSymbol(i)] = Derived(StandardSpecs[i])
      <4>1. \A m, n \in 1 .. 4 : m # n => StandardSymbol(m) # StandardSymbol(n)
        BY StandardSymbols
      <4>2. i \in 1 .. 4 /\ k + 1 \in 1 .. 4
        BY <2>2
      <4>3. StandardSymbol(i) \in DOMAIN by_symbol'
        BY <3>2
      <4>4. CASE i = k + 1
        BY <3>1, <4>3, <4>4
      <4>5. CASE i # k + 1
        <5>1. i \in 1 .. k /\ StandardSymbol(i) # StandardSymbol(k + 1)
          BY <4>1, <4>2, <4>5
        <5> QED
          BY <1>1, <3>1, <4>3, <5>1
      <4> QED
        BY <4>4, <4>5
    <3> QED
      BY <3>1, <3>2, <3>3 DEF StandardRegistry
  <2>3. CASE k < 4 /\ Refuse(StandardSpecs[k + 1])
    <3>1. by_symbol' = by_symbol /\ verdict' # "Ok"
      BY <2>3 DEF Refuse
    <3> QED
      BY <1>1, <3>1 DEF StandardRegistry
  <2>4. CASE ~(k < 4) /\ Finish
    <3>1. by_symbol' = by_symbol /\ k = 4
      BY <2>4 DEF Finish
    <3> QED
      BY <1>1, <3>1 DEF StandardRegistry
  <2> QED
    BY <1>3, <2>1, <2>2, <2>3, <2>4, StandardSymbols DEF BuildStandard
<1>4. BuildStandard \/ UNCHANGED rvars
  BY DEF GeneratorNext, DrawEvent, PlantEvent, MatchTrade, Return, Running, vars
<1> QED
  BY <1>2, <1>3, <1>4

(* What the generator's users look up. *)
PerpIs(symbol, tick, lot) ==
    /\ <<"Hl", symbol>> \in DOMAIN by_symbol
    /\ LET spec == by_symbol[<<"Hl", symbol>>]
       IN  /\ spec.venue = "Hl" /\ PositiveSpec(spec)
           /\ spec.tick_micro = tick /\ spec.lot_qty_e9 = lot

BinaryIs(market) ==
    /\ <<"Pm", market>> \in DOMAIN by_symbol
    /\ LET spec == by_symbol[<<"Pm", market>>]
       IN  /\ spec.venue = "Pm" /\ PositiveSpec(spec)
           /\ spec.tick_micro = 100 /\ spec.micro_per_tick_lot = 100

LEMMA ExactMultiple ==
    ASSUME NEW u \in Nat, NEW n \in Nat, u > 0
    PROVE  (u * n) % u = 0 /\ (u * n) \div u = n
<1> DEFINE a == u * n
<1>1. a \in Int /\ u * n + 0 = a
  BY SMT
<1>2. (u * n + 0) \div u = n
  BY QuotientIsUnique
<1>3. a \div u = n
  BY <1>1, <1>2
<1>4. a = u * (a \div u) + (a % u) /\ a % u \in Int
  <2> HIDE DEF a
  <2> QED
    BY <1>1, Quotient
<1>5. a = a + (a % u)
  BY <1>3, <1>4
<1> HIDE DEF a
<1>6. a % u = 0
  BY <1>1, <1>4, <1>5
<1> QED
  BY <1>3, <1>6 DEF a

LEMMA StandardBook ==
    ASSUME StandardRegistry, verdict = "Ok"
    PROVE  /\ PerpIs("BTC-PERP", 500000, Tens[QtyDigits - 4])
           /\ PerpIs("ETH-PERP", 50000, Tens[QtyDigits - 3])
           /\ BinaryIs("FED-CUT-SEP") /\ BinaryIs("CPI-ABOVE-AUG")
           /\ <<"Hl", "DOGE-PERP">> \notin DOMAIN by_symbol
           /\ <<"Pm", "UNKNOWN-MKT">> \notin DOMAIN by_symbol
<1>1. /\ DOMAIN by_symbol = {StandardSymbol(i) : i \in 1 .. 4}
      /\ \A i \in 1 .. 4 : by_symbol[StandardSymbol(i)] = Derived(StandardSpecs[i])
  BY DEF StandardRegistry
<1> DEFINE t == Tens[QtyDigits - 4]
<1>2. /\ Dollar \div 2 = 500000 /\ Dollar \div 20 = 50000 /\ Dollar \div 10000 = 100
      /\ t \in Nat /\ t > 0 /\ Whole = 10000 * t
      /\ Whole \div 10000 = t /\ Whole \div 1000 = 10 * t /\ Tens[QtyDigits - 3] = 10 * t
  BY StandardUnits
<1> HIDE DEF t
<1>3. Whole \in Nat /\ Whole > 0
  BY <1>2
<1>4. /\ (500000 * t) \div Whole = 50 /\ (50000 * (10 * t)) \div Whole = 50
      /\ (100 * Whole) \div Whole = 100
  <2>1. (Whole * 50) \div Whole = 50 /\ (Whole * 100) \div Whole = 100
    BY <1>3, ExactMultiple
  <2>2. Whole * 50 = 500000 * t /\ Whole * 50 = 50000 * (10 * t) /\ Whole * 100 = 100 * Whole
    BY <1>2
  <2> QED
    BY <2>1, <2>2
<1>5. PerpIs("BTC-PERP", 500000, t)
  <2> DEFINE d == Derived(StandardSpecs[1])
  <2>1. /\ d.venue = "Hl" /\ d.tick_micro = 500000 /\ d.lot_qty_e9 = t
        /\ d.micro_per_tick_lot = 50
    BY <1>2, <1>4 DEF StandardSpecs, Listed, Derived, Product
  <2>2. <<"Hl", "BTC-PERP">> \in DOMAIN by_symbol /\ by_symbol[<<"Hl", "BTC-PERP">>] = d
    BY <1>1, StandardSymbols
  <2> HIDE DEF d
  <2> QED
    BY <1>2, <2>1, <2>2 DEF PerpIs, PositiveSpec
<1>6. PerpIs("ETH-PERP", 50000, Tens[QtyDigits - 3])
  <2> DEFINE d == Derived(StandardSpecs[2])
  <2>1. /\ d.venue = "Hl" /\ d.tick_micro = 50000 /\ d.lot_qty_e9 = 10 * t
        /\ d.micro_per_tick_lot = 50
    BY <1>2, <1>4 DEF StandardSpecs, Listed, Derived, Product
  <2>2. <<"Hl", "ETH-PERP">> \in DOMAIN by_symbol /\ by_symbol[<<"Hl", "ETH-PERP">>] = d
    BY <1>1, StandardSymbols
  <2> HIDE DEF d
  <2> QED
    BY <1>2, <2>1, <2>2 DEF PerpIs, PositiveSpec
<1>7. BinaryIs("FED-CUT-SEP")
  <2> DEFINE d == Derived(StandardSpecs[3])
  <2>1. /\ d.venue = "Pm" /\ d.tick_micro = 100 /\ d.lot_qty_e9 = Whole
        /\ d.micro_per_tick_lot = 100
    BY <1>2, <1>4 DEF StandardSpecs, Listed, Derived, Product
  <2>2. <<"Pm", "FED-CUT-SEP">> \in DOMAIN by_symbol /\ by_symbol[<<"Pm", "FED-CUT-SEP">>] = d
    BY <1>1, StandardSymbols
  <2> HIDE DEF d
  <2> QED
    BY <1>3, <2>1, <2>2 DEF BinaryIs, PositiveSpec
<1>8. BinaryIs("CPI-ABOVE-AUG")
  <2> DEFINE d == Derived(StandardSpecs[4])
  <2>1. /\ d.venue = "Pm" /\ d.tick_micro = 100 /\ d.lot_qty_e9 = Whole
        /\ d.micro_per_tick_lot = 100
    BY <1>2, <1>4 DEF StandardSpecs, Listed, Derived, Product
  <2>2. <<"Pm", "CPI-ABOVE-AUG">> \in DOMAIN by_symbol /\ by_symbol[<<"Pm", "CPI-ABOVE-AUG">>] = d
    BY <1>1, StandardSymbols
  <2> HIDE DEF d
  <2> QED
    BY <1>3, <2>1, <2>2 DEF BinaryIs, PositiveSpec
<1>9. /\ <<"Hl", "DOGE-PERP">> \notin DOMAIN by_symbol
      /\ <<"Pm", "UNKNOWN-MKT">> \notin DOMAIN by_symbol
  <2>1. DOMAIN by_symbol = {<<"Hl", "BTC-PERP">>, <<"Hl", "ETH-PERP">>,
                            <<"Pm", "FED-CUT-SEP">>, <<"Pm", "CPI-ABOVE-AUG">>}
    BY <1>1, StandardSymbols
  <2> QED
    BY <2>1
<1> QED
  BY <1>5, <1>6, <1>7, <1>8, <1>9 DEF t

-----------------------------------------------------------------------------
(* The events drawn. *)

PriceFits(ticks) ==
    /\ ticks \in Nat \ {0} /\ ticks <= I64Max
    /\ 5 * ticks < Tens[9] /\ 500000 * ticks <= I128Max

QtyFits(lots) ==
    /\ lots \in Nat \ {0} /\ lots <= I64Max
    /\ lots < Tens[9] /\ lots * Tens[QtyDigits - 3] <= I128Max

FeeFits(micro) == micro \in Nat /\ micro < Tens[9] /\ micro <= I128Max

SizeFits(size) ==
    /\ size \in Nat \ {0} /\ size <= I64Max
    /\ 9900 * size * 100 * 30 + 5000 <= I128Max

LEMMA DrawsFit ==
    /\ \A ticks \in BtcTicks \cup EthTicks \cup {1, PoisonTicks}
                   \cup (MatchedBase .. MatchedBase + 4 * Rounds + 6) : PriceFits(ticks)
    /\ \A lots \in Lots \cup 1 .. 40 : QtyFits(lots)
    /\ \A micro \in Fees \cup 1 .. 4 * Rounds + 300 : FeeFits(micro)
    /\ \A size \in Sizes \cup 1 .. 5 : SizeFits(size)
BY DrawAssumption DEF PriceFits, QtyFits, FeeFits, SizeFits

(* An event that is written and meant that way. *)
LEMMA HlAccepted ==
    ASSUME NEW e, NEW spec, spec = by_symbol[<<"Hl", e.symbol>>],
           <<"Hl", e.symbol>> \in DOMAIN by_symbol, spec.venue = "Hl", PositiveSpec(spec),
           spec.tick_micro \in Nat, spec.lot_qty_e9 \in Nat, e.side \in {"buy", "sell"},
           NEW ticks, PriceFits(ticks), NEW lots, QtyFits(lots), NEW fee \in Nat,
           Parses(e.px, PriceDigits), PxMicro(e) = spec.tick_micro * ticks,
           Parses(e.qty, QtyDigits), QtyE9(e) = spec.lot_qty_e9 * lots,
           Parses(e.fee, PriceDigits), FeeMicro(e) = fee
    PROVE  /\ HlError(e) = "Ok"
           /\ HlFill(e).side = IF e.side = "buy" THEN "Buy" ELSE "Sell"
           /\ HlFill(e).price = ticks /\ HlFill(e).qty = lots /\ HlFill(e).fee = fee
<1> DEFINE u == spec.tick_micro
           l == spec.lot_qty_e9
<1>1. u \in Nat /\ u > 0 /\ l \in Nat /\ l > 0
  BY DEF PositiveSpec
<1>2. /\ ticks \in Nat /\ ticks >= 1 /\ ticks <= I64Max
      /\ lots \in Nat /\ lots >= 1 /\ lots <= I64Max
  BY DEF PriceFits, QtyFits
<1> HIDE DEF u, l
<1>3. u * ticks >= u /\ l * lots >= l /\ u * ticks \in Int /\ l * lots \in Int
  BY <1>1, <1>2, AtLeast
<1>4. /\ (u * ticks) % u = 0 /\ (u * ticks) \div u = ticks
      /\ (l * lots) % l = 0 /\ (l * lots) \div l = lots
  BY <1>1, <1>2, ExactMultiple
<1>5. PxMicro(e) = u * ticks /\ QtyE9(e) = l * lots
  BY DEF u, l
<1>6. /\ PxMicro(e) \in Int /\ ~(PxMicro(e) <= 0) /\ PxMicro(e) % u = 0
      /\ PxMicro(e) \div u = ticks
  <2>1. ~(u * ticks <= 0)
    <3> DEFINE p == u * ticks
    <3> HIDE DEF p
    <3>1. p \in Int /\ p >= u
      BY <1>3 DEF p
    <3>2. ~(p <= 0)
      BY <1>1, <3>1
    <3> QED
      BY <3>2 DEF p
  <2> QED
    BY <1>3, <1>4, <1>5, <2>1
<1>7. /\ QtyE9(e) \in Int /\ ~(QtyE9(e) <= 0) /\ QtyE9(e) % l = 0
      /\ QtyE9(e) \div l = lots
  <2>1. ~(l * lots <= 0)
    <3> DEFINE p == l * lots
    <3> HIDE DEF p
    <3>1. p \in Int /\ p >= l
      BY <1>3 DEF p
    <3>2. ~(p <= 0)
      BY <1>1, <3>1
    <3> QED
      BY <3>2 DEF p
  <2> QED
    BY <1>3, <1>4, <1>5, <2>1
<1>8. Fits64(ticks) /\ Fits64(lots) /\ ~(fee < 0)
  BY <1>2, WidthAssumption DEF Fits64
<1>9. HlError(e) = "Ok"
  BY <1>6, <1>7, <1>8 DEF HlError, u, l
<1>10. /\ HlFill(e).side = IF e.side = "buy" THEN "Buy" ELSE "Sell"
       /\ HlFill(e).price = ticks /\ HlFill(e).qty = lots /\ HlFill(e).fee = fee
  BY <1>6, <1>7 DEF HlFill, u, l
<1> QED
  BY <1>9, <1>10

(* The texts of an Hl event, as the converter reads them. *)
LEMMA HlTextsParse ==
    ASSUME NEW symbol \in {"BTC-PERP", "ETH-PERP"},
           NEW ticks, PriceFits(ticks), NEW lots, QtyFits(lots), NEW fee, FeeFits(fee),
           NEW tick, tick = IF symbol = "BTC-PERP" THEN 500000 ELSE 50000,
           NEW lot, lot = IF symbol = "BTC-PERP" THEN Tens[QtyDigits - 4] ELSE Tens[QtyDigits - 3]
    PROVE  /\ Parses(TicksToPx(symbol, ticks), PriceDigits)
           /\ ParsedValue(TicksToPx(symbol, ticks), PriceDigits) = tick * ticks
           /\ Parses(LotsToQty(symbol, lots), QtyDigits)
           /\ ParsedValue(LotsToQty(symbol, lots), QtyDigits) = lot * lots
           /\ Parses(MicroToFee(fee), PriceDigits)
           /\ ParsedValue(MicroToFee(fee), PriceDigits) = fee
<1> DEFINE t == Tens[QtyDigits - 4]
<1>1. /\ ticks \in Nat /\ 5 * ticks < Tens[9] /\ 500000 * ticks <= I128Max
      /\ lots \in Nat /\ lots < Tens[9] /\ lots * Tens[QtyDigits - 3] <= I128Max
      /\ fee \in Nat /\ fee < Tens[9] /\ fee <= I128Max
      /\ I128Max \in Nat /\ PriceDigits = 6 /\ QtyDigits \in Nat /\ QtyDigits >= 4
  BY WidthAssumption, DrawAssumption, ScaleAssumption DEF PriceFits, QtyFits, FeeFits
<1>2. Tens[6 - 6] = 1 /\ Tens[6 - 2] = 10000 /\ Tens[6 - 1] = 100000
  <2>1. Tens[0] = 1 /\ Tens[1] = 10
    BY TensValues
  <2>2. Tens[2] = 100
    BY <2>1, TensValues
  <2>3. Tens[3] = 1000
    BY <2>2, TensValues
  <2>4. Tens[4] = 10000
    BY <2>3, TensValues
  <2>5. Tens[5] = 100000
    BY <2>4, TensValues
  <2> QED
    BY <2>1, <2>4, <2>5
<1>3. t \in Nat /\ Tens[QtyDigits - 3] = 10 * t
  BY StandardUnits
<1> HIDE DEF t
<1>4. /\ Parses(MicroToFee(fee), PriceDigits)
      /\ ParsedValue(MicroToFee(fee), PriceDigits) = fee
  <2> DEFINE x == FormatScaled(fee, 6)
  <2>1. 6 \in Nat /\ fee * Tens[6 - 6] = fee
    BY <1>1, <1>2
  <2>2. Parses(x, 6) /\ ParsedValue(x, 6) = fee * Tens[6 - 6]
    <3> HIDE DEF x
    <3>1. 6 <= 6 /\ fee * Tens[6 - 6] <= I128Max
      BY <1>1, <2>1
    <3> QED
      BY <1>1, <2>1, <3>1, FormattedParses DEF x
  <2>3. MicroToFee(fee) = x
    BY <1>1 DEF MicroToFee
  <2> HIDE DEF x
  <2> QED
    BY <1>1, <2>1, <2>2, <2>3
<1>5. CASE symbol = "BTC-PERP"
  <2> DEFINE x == FormatScaled(5 * ticks, 1)
             y == FormatScaled(lots, 4)
             v == 5 * ticks
  <2>1. TicksToPx(symbol, ticks) = x /\ LotsToQty(symbol, lots) = y /\ tick = 500000 /\ lot = t
    BY <1>5 DEF TicksToPx, LotsToQty, t
  <2>2. /\ v \in Nat /\ v < Tens[9] /\ v * Tens[6 - 1] = 500000 * ticks
        /\ 1 \in Nat /\ 6 \in Nat /\ 1 <= 6
    BY <1>1, <1>2
  <2>3. Parses(x, 6) /\ ParsedValue(x, 6) = 500000 * ticks
    <3>1. x = FormatScaled(v, 1)
      OBVIOUS
    <3> HIDE DEF x, v
    <3>2. v * Tens[6 - 1] <= I128Max
      BY <1>1, <2>2
    <3>3. Parses(x, 6) /\ ParsedValue(x, 6) = v * Tens[6 - 1]
      BY <2>2, <3>1, <3>2, FormattedParses
    <3> QED
      BY <2>2, <3>3
  <2>4. Parses(y, QtyDigits) /\ ParsedValue(y, QtyDigits) = lots * t
    <3>1. lots * Tens[QtyDigits - 4] <= I128Max
      <4>1. lots * (10 * t) <= I128Max
        BY <1>1, <1>3
      <4>2. lots * t \in Nat /\ lots * (10 * t) = 10 * (lots * t)
        BY <1>1, <1>3, SMT
      <4> DEFINE p == lots * t
      <4>3. p \in Nat /\ 10 * p <= I128Max
        BY <4>1, <4>2
      <4> HIDE DEF p
      <4>4. p <= I128Max
        BY <1>1, <4>3
      <4> QED
        BY <4>4 DEF p, t
    <3>2. 4 \in Nat /\ 4 <= QtyDigits
      BY <1>1
    <3> HIDE DEF y
    <3>3. Parses(y, QtyDigits) /\ ParsedValue(y, QtyDigits) = lots * Tens[QtyDigits - 4]
      BY <1>1, <3>1, <3>2, FormattedParses DEF y
    <3> QED
      BY <3>3 DEF t
  <2>5. lots * t = t * lots
    BY <1>1, <1>3, SMT
  <2> HIDE DEF x, y
  <2> QED
    BY <1>1, <1>4, <2>1, <2>3, <2>4, <2>5
<1>6. CASE symbol = "ETH-PERP"
  <2> DEFINE x == FormatScaled(5 * ticks, 2)
             y == FormatScaled(lots, 3)
             v == 5 * ticks
             z == Tens[QtyDigits - 3]
  <2>1. TicksToPx(symbol, ticks) = x /\ LotsToQty(symbol, lots) = y /\ tick = 50000 /\ lot = z
    BY <1>6 DEF TicksToPx, LotsToQty
  <2>2. /\ v \in Nat /\ v < Tens[9] /\ v * Tens[6 - 2] = 50000 * ticks
        /\ 2 \in Nat /\ 6 \in Nat /\ 2 <= 6
    BY <1>1, <1>2
  <2>3. Parses(x, 6) /\ ParsedValue(x, 6) = 50000 * ticks
    <3>1. x = FormatScaled(v, 2)
      OBVIOUS
    <3> HIDE DEF x, v
    <3>2. v * Tens[6 - 2] <= I128Max
      BY <1>1, <2>2
    <3>3. Parses(x, 6) /\ ParsedValue(x, 6) = v * Tens[6 - 2]
      BY <2>2, <3>1, <3>2, FormattedParses
    <3> QED
      BY <2>2, <3>3
  <2>4. Parses(y, QtyDigits) /\ ParsedValue(y, QtyDigits) = lots * z
    <3>2. 3 \in Nat /\ 3 <= QtyDigits
      BY <1>1
    <3> HIDE DEF y
    <3>3. Parses(y, QtyDigits) /\ ParsedValue(y, QtyDigits) = lots * Tens[QtyDigits - 3]
      BY <1>1, <3>2, FormattedParses DEF y
    <3> QED
      BY <3>3
  <2>5. z \in Nat /\ lots * z = z * lots
    <3>1. z \in Nat
      BY <1>3
    <3> HIDE DEF z
    <3> QED
      BY <1>1, <3>1, SMT
  <2> HIDE DEF x, y, z
  <2> QED
    BY <1>1, <1>4, <2>1, <2>3, <2>4, <2>5
<1> QED
  BY <1>5, <1>6

(* An Hl event as drawn becomes the fill that was meant. *)
LEMMA HlMeansWhatWasDrawn ==
    ASSUME StandardRegistry, verdict = "Ok",
           NEW symbol \in {"BTC-PERP", "ETH-PERP"}, NEW side \in {"buy", "sell"},
           NEW ticks, PriceFits(ticks), NEW lots, QtyFits(lots), NEW fee, FeeFits(fee),
           NEW e, e = HlOrder(symbol, side, ticks, lots, fee).event
    PROVE  /\ HlError(e) = "Ok"
           /\ HlFill(e).side = IF side = "buy" THEN "Buy" ELSE "Sell"
           /\ HlFill(e).price = ticks /\ HlFill(e).qty = lots /\ HlFill(e).fee = fee
<1>1. /\ e.symbol = symbol /\ e.side = side /\ e.px = TicksToPx(symbol, ticks)
      /\ e.qty = LotsToQty(symbol, lots) /\ e.fee = MicroToFee(fee)
  BY DEF HlOrder
<1>2. PICK tick : tick = IF symbol = "BTC-PERP" THEN 500000 ELSE 50000
  OBVIOUS
<1>3. PICK lot : lot = IF symbol = "BTC-PERP" THEN Tens[QtyDigits - 4] ELSE Tens[QtyDigits - 3]
  OBVIOUS
<1>4. /\ Parses(e.px, PriceDigits) /\ PxMicro(e) = tick * ticks
      /\ Parses(e.qty, QtyDigits) /\ QtyE9(e) = lot * lots
      /\ Parses(e.fee, PriceDigits) /\ FeeMicro(e) = fee
  BY <1>1, <1>2, <1>3, HlTextsParse DEF PxMicro, QtyE9, FeeMicro
<1>5. PerpIs(symbol, tick, lot)
  BY <1>2, <1>3, StandardBook
<1>6. tick \in Nat /\ lot \in Nat
  <2>1. Tens[QtyDigits - 4] \in Nat /\ Tens[QtyDigits - 3] = 10 * Tens[QtyDigits - 4]
    BY StandardUnits
  <2> QED
    BY <1>2, <1>3, <2>1
<1>7. PICK spec : spec = by_symbol[<<"Hl", e.symbol>>]
  OBVIOUS
<1>8. /\ <<"Hl", e.symbol>> \in DOMAIN by_symbol /\ spec.venue = "Hl" /\ PositiveSpec(spec)
      /\ spec.tick_micro = tick /\ spec.lot_qty_e9 = lot
  BY <1>1, <1>5, <1>7 DEF PerpIs
<1>9. fee \in Nat
  BY DEF FeeFits
<1>10. e.side = side
  BY <1>1
<1>11. /\ spec.tick_micro \in Nat /\ spec.lot_qty_e9 \in Nat
       /\ PxMicro(e) = spec.tick_micro * ticks /\ QtyE9(e) = spec.lot_qty_e9 * lots
  BY <1>4, <1>6, <1>8
<1>12. Parses(e.px, PriceDigits) /\ Parses(e.qty, QtyDigits) /\ Parses(e.fee, PriceDigits)
       /\ FeeMicro(e) = fee
  BY <1>4
<1>13. /\ <<"Hl", e.symbol>> \in DOMAIN by_symbol /\ spec.venue = "Hl" /\ PositiveSpec(spec)
  BY <1>8
<1>14. e.side \in {"buy", "sell"}
  BY <1>10
<1>15. /\ HlError(e) = "Ok"
       /\ HlFill(e).side = IF e.side = "buy" THEN "Buy" ELSE "Sell"
       /\ HlFill(e).price = ticks /\ HlFill(e).qty = lots /\ HlFill(e).fee = fee
  BY <1>7, <1>9, <1>11, <1>12, <1>13, <1>14, HlAccepted
<1> QED
  BY <1>10, <1>15

LEMMA GrainsPerTickIs ==
    ASSUME NEW spec, spec.tick_micro = 100
    PROVE  /\ GrainsPerTick(spec) \in Nat /\ GrainsPerTick(spec) > 0
           /\ (Grain * Dollar) \div 10000 = GrainsPerTick(spec)
<1>1. Grain \in Nat /\ Grain > 0 /\ Dollar = 1000000
  BY ScaleAssumption, StandardUnits
<1>2. PICK u : u = Grain * 100
  OBVIOUS
<1>3. u \in Nat /\ u > 0
  BY <1>1, <1>2
<1>4. GrainsPerTick(spec) = u
  BY <1>2 DEF GrainsPerTick
<1>5. PICK g : g = Grain * Dollar
  OBVIOUS
<1>6. g = 10000 * u
  BY <1>1, <1>2, <1>5
<1>7. (10000 * u) \div 10000 = u
  BY <1>3, ExactMultiple
<1>8. g \div 10000 = u
  BY <1>6, <1>7
<1>9. (Grain * Dollar) \div 10000 = u
  BY <1>5, <1>8, SMT
<1> QED
  BY <1>3, <1>4, <1>9, SMT

(* A Pm price is on its tick. *)
LEMMA PmPriced ==
    ASSUME NEW spec, spec.tick_micro = 100,
           NEW ticks \in Nat, 1 <= ticks, ticks <= 10000,
           NEW e, e.price = ticks * GrainsPerTick(spec)
    PROVE  RawTicks(e, spec) = ticks /\ PriceError(e, spec) = "Ok"
<1> DEFINE u == GrainsPerTick(spec)
           p == u * ticks
<1>1. /\ Precision \in Nat /\ NotFinite \notin Int /\ I64Max \in Nat /\ 10000 <= I64Max
      /\ u \in Nat /\ u > 0
  <2>1. Precision \in Nat /\ NotFinite \notin Int /\ I64Max \in Nat
    BY ScaleAssumption, WidthAssumption, SMT
  <2>2. 10000 <= I64Max
    BY DrawAssumption, SMT
  <2>3. u \in Nat /\ u > 0
    BY GrainsPerTickIs, SMT
  <2> QED
    BY <2>1, <2>2, <2>3, SMT
<1>2. e.price = ticks * u
  OBVIOUS
<1> HIDE DEF u
<1>3. p \in Int /\ p >= u /\ (2 * u) * ticks = 2 * p /\ ticks * u = p
  <2>1. u * ticks >= u /\ u * ticks \in Int
    BY <1>1, AtLeast
  <2>2. ticks * u = u * ticks /\ (2 * u) * ticks = 2 * (u * ticks)
    BY <1>1, SMT
  <2> QED
    BY <2>1, <2>2
<1> HIDE DEF p
<1>4. e.price = p
  BY <1>2, <1>3
<1>5. (2 * p + u) \div (2 * u) = ticks
  <2> DEFINE w == 2 * u
  <2>1. w \in Int /\ w > 0 /\ 0 <= u /\ u < w /\ ticks \in Int /\ w * ticks = 2 * p
    BY <1>1, <1>3
  <2> HIDE DEF w
  <2>2. (w * ticks + u) \div w = ticks
    BY <1>1, <2>1, QuotientIsUnique
  <2> QED
    BY <2>1, <2>2 DEF w
<1>6. RawTicks(e, spec) = ticks
  BY <1>4, <1>5 DEF RawTicks, u
<1>7. ~OffTick(e, spec)
  <2>1. p - p = 0 /\ Precision * 0 = 0 /\ p > 0 /\ ~(0 < 0)
    BY <1>1, <1>3
  <2>2. OffTick(e, spec) <=>
          Precision * (IF p - p < 0 THEN -(p - p) ELSE p - p) > (IF p > u THEN p ELSE u)
    BY <1>3, <1>4, <1>6 DEF OffTick, u
  <2> QED
    BY <1>1, <1>3, <2>1, <2>2
<1>8. PriceError(e, spec) = "Ok"
  <2>1. p # NotFinite /\ ~(p <= 0) /\ ~(ticks > I64Max)
    BY <1>1, <1>3
  <2> QED
    BY <1>4, <1>6, <1>7, <2>1 DEF PriceError
<1> QED
  BY <1>6, <1>8

LEMMA PmMeansWhatWasDrawn ==
    ASSUME StandardRegistry, verdict = "Ok",
           NEW market \in {"FED-CUT-SEP", "CPI-ABOVE-AUG"}, NEW outcome_ \in {"YES", "NO"},
           NEW action \in {"BUY", "SELL"},
           NEW ticks \in Nat, 100 <= ticks, ticks <= 9900,
           NEW size, SizeFits(size), NEW fee_bps \in {10, 20, 30},
           NEW e, e = PmOrder(market, outcome_, action, ticks, size, fee_bps).event
    PROVE  /\ PmError(e) = "Ok" /\ PmFill(e).qty = size
           /\ PmFill(e).price = IF outcome_ = "YES" THEN ticks ELSE 10000 - ticks
<1>1. /\ e.market = market /\ e.outcome = outcome_ /\ e.action = action
      /\ e.size = size /\ e.fee_bps = fee_bps
  BY DEF PmOrder
<1>2. PICK spec : spec = by_symbol[<<"Pm", e.market>>]
  OBVIOUS
<1>3. /\ <<"Pm", e.market>> \in DOMAIN by_symbol /\ spec.venue = "Pm" /\ PositiveSpec(spec)
      /\ spec.tick_micro = 100 /\ spec.micro_per_tick_lot = 100
  BY <1>1, <1>2, StandardBook DEF BinaryIs
<1>4. RawTicks(e, spec) = ticks /\ PriceError(e, spec) = "Ok"
  <2> DEFINE grains == (Grain * Dollar) \div 10000
  <2>1. e.price = ticks * grains
    BY DEF PmOrder
  <2>2. grains = GrainsPerTick(spec)
    BY <1>3, GrainsPerTickIs
  <2> HIDE DEF grains
  <2>3. ticks \in Nat /\ 1 <= ticks /\ ticks <= 10000
        /\ e.price = ticks * GrainsPerTick(spec)
    BY <2>1, <2>2
  <2>4. spec.tick_micro = 100
    BY <1>3, SMT
  <2> QED
    BY <2>3, <2>4, PmPriced, SMT
<1>5. Full(spec) = 10000 /\ Lowest(spec) = 100 /\ Highest(spec) = 9900 /\ Fits64(Full(spec))
  <2>1. Full(spec) = 10000
    BY <1>3, StandardUnits DEF Full
  <2>2. Fits64(10000)
    BY DrawAssumption, WidthAssumption DEF Fits64
  <2> QED
    BY <2>1, <2>2 DEF Lowest, Highest
<1>6. size \in Nat /\ size > 0 /\ 9900 * size * 100 * 30 + 5000 <= I128Max /\ I128Max \in Nat
  BY WidthAssumption DEF SizeFits
<1>7. ~FeeOverflows(e, spec)
  <2> DEFINE a == ticks * size
  <2>1. a \in Int /\ a >= 0 /\ (9900 - ticks) * size >= 0
    BY <1>6, Products
  <2>2. (9900 - ticks) * size = 9900 * size - a
    BY <1>6, SMT
  <2>3. NotionalMicro(e, spec) = a * 100 /\ RawTicks(e, spec) * e.size = a
    BY <1>1, <1>3, <1>4 DEF NotionalMicro
  <2> HIDE DEF a
  <2> DEFINE b == (9900 - ticks) * size
  <2>4. a <= 9900 * size /\ a \in Nat
    <3>1. b >= 0 /\ b = 9900 * size - a
      BY <2>1, <2>2
    <3> HIDE DEF b
    <3>2. 9900 * size \in Int
      BY <1>6
    <3> QED
      BY <2>1, <3>1, <3>2
  <2>5. /\ Fits128(a) /\ Fits128(a * 100) /\ Fits128((a * 100) * fee_bps)
        /\ Fits128((a * 100) * fee_bps + 5000)
    BY <1>6, <2>4 DEF Fits128
  <2> QED
    BY <1>1, <2>3, <2>5 DEF FeeOverflows
<1>8. /\ ~(e.size <= 0) /\ ~(e.fee_bps < 0)
      /\ ~(RawTicks(e, spec) < Lowest(spec) \/ RawTicks(e, spec) > Highest(spec))
  BY <1>1, <1>4, <1>5, <1>6
<1>9. PmError(e) = "Ok"
  BY <1>1, <1>2, <1>3, <1>4, <1>5, <1>7, <1>8 DEF PmError
<1>10. PmFill(e).qty = size /\ PmFill(e).price = Folded(e, spec)[2]
  BY <1>1, <1>2 DEF PmFill
<1>11. Folded(e, spec)[2] = IF outcome_ = "YES" THEN ticks ELSE 10000 - ticks
  BY <1>1, <1>4, <1>5 DEF Folded
<1> QED
  BY <1>9, <1>10, <1>11

LEMMA FourPlaces == Tens[PriceDigits - 2] = 10000 /\ PriceDigits = 6
<1>1. PriceDigits = 6
  BY DrawAssumption, SMT
<1>2. Tens[0] = 1 /\ Tens[1] = 10
  BY TensValues, SMT
<1>3. Tens[2] = 100
  BY <1>2, TensValues, SMT
<1>4. Tens[3] = 1000
  BY <1>3, TensValues, SMT
<1>5. Tens[4] = 10000
  BY <1>4, TensValues, SMT
<1> QED
  BY <1>1, <1>5, SMT

LEMMA RunThroughPrefix ==
    ASSUME NEW s \in Seq(Nat), NEW u \in Seq(Nat), NEW g, Run(g, s \o u)
    PROVE  g[Len(s)] = Horner(s)
<1>1. PICK h : Run(h, s) /\ Horner(s) = h[Len(s)]
  BY HornerRuns
<1> DEFINE w == s \o u
<1>2. /\ w \in Seq(Nat) /\ Len(s) \in Nat /\ Len(s) <= Len(w)
      /\ \A i \in 1 .. Len(s) : s[i] = w[i]
  BY JoinedDigits
<1> HIDE DEF w
<1>3. Run(g, w)
  BY DEF w
<1>4. \A i \in 0 .. Len(s) : h[i] = g[i]
  BY <1>1, <1>2, <1>3, RunsAgree
<1> QED
  BY <1>1, <1>2, <1>4

LEMMA TextRun ==
    ASSUME NEW t, IsText(t), NEW scale \in Nat, Len(t.frac) <= scale
    PROVE  \E g : /\ g[Len(t.int)] = Horner(t.int) /\ Horner(t.int) \in Nat
                  /\ \A i \in 1 .. Len(t.frac) :
                        g[Len(t.int) + i] = 10 * g[Len(t.int) + i - 1] + t.frac[i]
                  /\ Magnitude(t, scale)
                        = g[Len(t.int) + Len(t.frac)] * Tens[scale - Len(t.frac)]
<1> DEFINE w == t.int \o t.frac
           n == Len(t.int)
           d == Len(t.frac)
<1>1. /\ w \in Seq(Nat) /\ n \in Nat /\ d \in Nat /\ Len(w) = n + d
      /\ \A i \in 1 .. d : w[n + i] = t.frac[i]
  BY TextDigits
<1>2. PICK g : Run(g, w)
  <2> HIDE DEF w
  <2> QED
    BY <1>1, HornerRuns
<1>3. g[n] = Horner(t.int)
  BY <1>2, RunThroughPrefix DEF IsText
<1>4. Magnitude(t, scale) = g[n + d] * Tens[scale - d]
  BY <1>1, <1>2, WholeMagnitude
<1> HIDE DEF w, n, d
<1>5. /\ \A i \in 0 .. n + d : g[i] \in Nat
      /\ \A i \in 1 .. n + d : g[i] = 10 * g[i - 1] + w[i]
  <2>1. /\ \A i \in 0 .. Len(w) : g[i] \in Nat
        /\ \A i \in 1 .. Len(w) : g[i] = 10 * g[i - 1] + w[i]
    BY <1>1, <1>2, RunTypes
  <2> QED
    BY <1>1, <2>1
<1>6. ASSUME NEW i \in 1 .. d
      PROVE  g[n + i] = 10 * g[n + i - 1] + t.frac[i]
  <2>1. PICK k : k = n + i
    OBVIOUS
  <2>2. k \in 1 .. n + d /\ w[k] = t.frac[i]
    BY <1>1, <2>1
  <2>3. g[k] = 10 * g[k - 1] + t.frac[i]
    BY <1>5, <2>2
  <2>4. k - 1 = n + i - 1
    BY <1>1, <2>1
  <2> QED
    BY <2>1, <2>3, <2>4
<1>7. g[n] \in Nat
  BY <1>1, <1>5
<1> QED
  BY <1>3, <1>4, <1>6, <1>7 DEF n, d

LEMMA CentsMagnitude ==
    ASSUME NEW t, IsText(t), Len(t.frac) = 2, t.frac[1] = 3, t.frac[2] = 0
    PROVE  /\ Horner(t.int) \in Nat
           /\ Magnitude(t, PriceDigits) = 1000000 * Horner(t.int) + 300000
<1> DEFINE n == Len(t.int)
           H == Horner(t.int)
<1>1. PriceDigits \in Nat /\ Len(t.frac) <= PriceDigits
  BY FourPlaces
<1>2. PICK g : /\ g[n] = H /\ H \in Nat
               /\ \A i \in 1 .. 2 : g[n + i] = 10 * g[n + i - 1] + t.frac[i]
               /\ Magnitude(t, PriceDigits) = g[n + 2] * Tens[PriceDigits - 2]
  BY <1>1, TextRun
<1>3. n \in Nat
  BY DEF IsText
<1> HIDE DEF n, H
<1>4. (n + 1) - 1 = n /\ (n + 2) - 1 = n + 1
  BY <1>3
<1>5. g[n + 1] = 10 * g[n] + 3 /\ g[n + 2] = 10 * g[n + 1] + 0
  BY <1>2, <1>4
<1>6. g[n + 2] = 100 * H + 30
  BY <1>2, <1>5
<1> QED
  BY <1>2, <1>6, FourPlaces DEF H

Cents(t) == t.neg = FALSE /\ t.int = PoisonDollars /\ t.frac = <<3, 0>>

(* The planted price of so many dollars and thirty cents is read as it is  *)
(* written: between two ticks.                                             *)
LEMMA PoisonText ==
    ASSUME NEW t, Cents(t)
    PROVE  /\ Parses(t, PriceDigits)
           /\ ParsedValue(t, PriceDigits) = 1000000 * Horner(PoisonDollars) + 300000
           /\ Horner(PoisonDollars) \in Nat
<1> DEFINE H == Horner(PoisonDollars)
<1>0. t.neg = FALSE /\ t.int = PoisonDollars /\ t.frac = <<3, 0>>
  BY DEF Cents
<1>1. PoisonDollars \in Seq(Digit) /\ PoisonDollars # << >>
  BY DrawAssumption, SMT
<1>2. t.int \in Seq(Nat) /\ t.int # << >> /\ \A i \in DOMAIN t.int : t.int[i] \in Digit
  BY <1>0, <1>1 DEF Digit
<1>3. /\ t.frac \in Seq(Nat) /\ Len(t.frac) = 2 /\ t.frac[1] = 3 /\ t.frac[2] = 0
      /\ \A i \in DOMAIN t.frac : t.frac[i] \in Digit /\ i <= 2
  BY <1>0 DEF Digit
<1>4. IsText(t)
  BY <1>0, <1>2, <1>3 DEF IsText
<1>5. H \in Nat /\ Magnitude(t, PriceDigits) = 1000000 * H + 300000
  <2>1. Horner(t.int) \in Nat /\ Magnitude(t, PriceDigits) = 1000000 * Horner(t.int) + 300000
    BY <1>3, <1>4, CentsMagnitude
  <2> QED
    BY <1>0, <2>1
<1> HIDE DEF H
<1>6. Fits128(Magnitude(t, PriceDigits))
  <2>1. 500000 * PoisonTicks <= I128Max /\ I128Max \in Nat
    BY DrawsFit, WidthAssumption DEF PriceFits
  <2>2. PoisonTicks = 2 * H + 1
    BY DEF PoisonTicks, H
  <2> QED
    BY <1>5, <2>1, <2>2, SMT DEF Fits128
<1>7. Parses(t, PriceDigits)
  <2>1. t.int \o t.frac # << >>
    <3>1. Len(t.int \o t.frac) = Len(t.int) + 2 /\ Len(t.int) \in Nat
      BY <1>3, <1>4, TextDigits
    <3>2. PICK x : x = t.int \o t.frac
      OBVIOUS
    <3>3. Len(x) = Len(t.int) + 2 /\ Len(t.int) \in Nat
      BY <3>1, <3>2, Zenon
    <3>4. Len(x) # 0
      BY <3>3, SMT
    <3>5. x # << >>
      BY <3>4
    <3> QED
      BY <3>2, <3>5, Zenon
  <2>2. \A i \in DOMAIN t.frac : t.frac[i] \in Digit /\ ~(i > PriceDigits)
    BY <1>3, FourPlaces
  <2> QED
    BY <1>2, <1>6, <2>1, <2>2 DEF Parses
<1> QED
  BY <1>0, <1>5, <1>7 DEF ParsedValue, H

-----------------------------------------------------------------------------
(* What an event with its meaning owes. *)
Meant(order) ==
    LET result == Canonical(order)
    IN  /\ result.error = order.error
        /\ result.error = "Ok" =>
              /\ result.fill.qty = order.qty
              /\ IF "px" \in DOMAIN order.event
                 THEN result.fill.price = order.ticks /\ result.fill.fee = order.fee
                 ELSE result.fill.price = IF order.event.outcome = "YES"
                                          THEN order.ticks ELSE 10000 - order.ticks

LEMMA HlOrderMeant ==
    ASSUME StandardRegistry, verdict = "Ok",
           NEW symbol \in {"BTC-PERP", "ETH-PERP"}, NEW side \in {"buy", "sell"},
           NEW ticks, PriceFits(ticks), NEW lots, QtyFits(lots), NEW fee, FeeFits(fee)
    PROVE  Meant(HlOrder(symbol, side, ticks, lots, fee))
<1>1. PICK o : o = HlOrder(symbol, side, ticks, lots, fee)
  OBVIOUS
<1>2. PICK e : e = o.event
  OBVIOUS
<1>3. /\ HlError(e) = "Ok" /\ HlFill(e).price = ticks
      /\ HlFill(e).qty = lots /\ HlFill(e).fee = fee
  BY <1>1, <1>2, HlMeansWhatWasDrawn
<1>4. /\ "px" \in DOMAIN o.event /\ o.error = "Ok"
      /\ o.ticks = ticks /\ o.qty = lots /\ o.fee = fee
  BY <1>1 DEF HlOrder
<1>5. Canonical(o) = [error |-> "Ok", fill |-> HlFill(e)]
  BY <1>2, <1>3, <1>4, SMT DEF Canonical, CanonicalizeHl
<1>6. Meant(o)
  BY <1>3, <1>4, <1>5, SMT DEF Meant
<1> QED
  BY <1>1, <1>6

LEMMA PmOrderMeant ==
    ASSUME StandardRegistry, verdict = "Ok",
           NEW market \in {"FED-CUT-SEP", "CPI-ABOVE-AUG"}, NEW outcome_ \in {"YES", "NO"},
           NEW action \in {"BUY", "SELL"},
           NEW ticks \in Nat, 100 <= ticks, ticks <= 9900,
           NEW size, SizeFits(size), NEW fee_bps \in {10, 20, 30}
    PROVE  Meant(PmOrder(market, outcome_, action, ticks, size, fee_bps))
<1>1. PICK o : o = PmOrder(market, outcome_, action, ticks, size, fee_bps)
  OBVIOUS
<1>2. PICK e : e = o.event
  OBVIOUS
<1>3. /\ PmError(e) = "Ok" /\ PmFill(e).qty = size
      /\ PmFill(e).price = IF outcome_ = "YES" THEN ticks ELSE 10000 - ticks
  <2>1. e = PmOrder(market, outcome_, action, ticks, size, fee_bps).event
    BY <1>1, <1>2
  <2> QED
    BY <2>1, PmMeansWhatWasDrawn, SMT
<1>4. /\ ~("px" \in DOMAIN o.event) /\ o.error = "Ok" /\ o.event.outcome = outcome_
      /\ o.ticks = ticks /\ o.qty = size
  BY <1>1 DEF PmOrder
<1>5. Canonical(o) = [error |-> "Ok", fill |-> PmFill(e)]
  BY <1>2, <1>3, <1>4, SMT DEF Canonical, CanonicalizePm
<1>6. Meant(o)
  BY <1>3, <1>4, <1>5, SMT DEF Meant
<1> QED
  BY <1>1, <1>6

LEMMA RejectedMeant ==
    ASSUME NEW o, o.error # "Ok",
           IF "px" \in DOMAIN o.event THEN HlError(o.event) = o.error
                                      ELSE PmError(o.event) = o.error
    PROVE  Meant(o)
<1>1. Canonical(o) = [error |-> o.error]
  BY SMT DEF Canonical, CanonicalizeHl, CanonicalizePm, NoFill
<1>2. PICK error : error = o.error
  OBVIOUS
<1> QED
  BY <1>1, SMT DEF Meant

LEMMA PlantedHlMeant ==
    ASSUME StandardRegistry, verdict = "Ok", NEW i \in 1 .. 4
    PROVE  Meant(PlantedHl[i])
<1>1. Meant(PlantedHl[1])
  <2>1. PICK o : o = PlantedHl[1]
    OBVIOUS
  <2>2. "px" \in DOMAIN o.event /\ o.event.symbol = "DOGE-PERP" /\ o.error = "UnknownSymbol"
    <3>1. PICK b : b = HlOrder("BTC-PERP", "buy", 1, 10000, 100)
      OBVIOUS
    <3>2. /\ DOMAIN b = {"event", "error", "ticks", "qty", "fee"}
          /\ DOMAIN b.event = {"symbol", "side", "px", "qty", "fee"}
      BY <3>1 DEF HlOrder
    <3>3. o = [b EXCEPT !.event.symbol = "DOGE-PERP", !.error = "UnknownSymbol"]
      BY <2>1, <3>1 DEF PlantedHl
    <3> QED
      BY <3>2, <3>3
  <2>3. HlError(o.event) = "UnknownSymbol"
    BY <2>2, StandardBook DEF HlError
  <2> QED
    BY <2>1, <2>2, <2>3, RejectedMeant
<1>2. Meant(PlantedHl[2])
  <2>1. PICK o : o = PlantedHl[2]
    OBVIOUS
  <2>2. PICK e : e = o.event
    OBVIOUS
  <2>3. /\ "px" \in DOMAIN e /\ e.symbol = "BTC-PERP" /\ e.side = "sell"
        /\ e.px = [neg |-> FALSE, int |-> PoisonDollars, frac |-> <<3, 0>>]
        /\ o.error = "OffTick"
    <3>1. PICK b : b = HlOrder("BTC-PERP", "sell", 1, 30, 200)
      OBVIOUS
    <3>2. /\ DOMAIN b = {"event", "error", "ticks", "qty", "fee"}
          /\ DOMAIN b.event = {"symbol", "side", "px", "qty", "fee"}
          /\ b.event.symbol = "BTC-PERP" /\ b.event.side = "sell"
      BY <3>1 DEF HlOrder
    <3>3. PICK px : px = [neg |-> FALSE, int |-> PoisonDollars, frac |-> <<3, 0>>]
      OBVIOUS
    <3>4. o = [b EXCEPT !.event.px = px, !.error = "OffTick"]
      BY <2>1, <3>1, <3>3 DEF PlantedHl
    <3>5. /\ "px" \in DOMAIN e /\ e.symbol = "BTC-PERP" /\ e.side = "sell"
          /\ e.px = px /\ o.error = "OffTick"
      BY <2>2, <3>2, <3>4
    <3> QED
      BY <3>3, <3>5
  <2>4. PICK H : H = Horner(PoisonDollars)
    OBVIOUS
  <2>5. H \in Nat /\ Parses(e.px, PriceDigits) /\ PxMicro(e) = 1000000 * H + 300000
    <3>1. PICK t : t = e.px
      OBVIOUS
    <3>2. Cents(t)
      BY <2>3, <3>1 DEF Cents
    <3>3. H \in Nat /\ Parses(t, PriceDigits) /\ ParsedValue(t, PriceDigits) = 1000000 * H + 300000
      BY <2>4, <3>2, PoisonText
    <3> QED
      BY <3>1, <3>3 DEF PxMicro
  <2>6. PICK px : px = PxMicro(e)
    OBVIOUS
  <2>7. px \in Int /\ ~(px <= 0) /\ px % 500000 # 0
    <3>1. px \in Int /\ px = 1000000 * H + 300000
      BY <2>5, <2>6, SMT
    <3>2. PICK q \in Int, r \in Int : q = px \div 500000 /\ r = px % 500000
      BY <3>1, Quotient, SMT
    <3>3. px = 500000 * q + r
      BY <3>1, <3>2, Quotient, SMT
    <3> QED
      BY <2>5, <3>1, <3>2, <3>3, SMT
  <2>8. PICK spec : spec = by_symbol[<<"Hl", e.symbol>>]
    OBVIOUS
  <2>9. /\ <<"Hl", e.symbol>> \in DOMAIN by_symbol /\ spec.venue = "Hl"
        /\ PositiveSpec(spec) /\ spec.tick_micro = 500000
    BY <2>3, <2>8, StandardBook, SMT DEF PerpIs
  <2>10. HlError(e) = "OffTick"
    BY <2>3, <2>5, <2>6, <2>7, <2>8, <2>9, SMT DEF HlError
  <2> QED
    BY <2>1, <2>2, <2>3, <2>10, RejectedMeant, SMT
<1>3. PriceFits(PoisonTicks) /\ QtyFits(20) /\ QtyFits(40) /\ FeeFits(300)
  <2>1. Rounds \in Nat /\ 20 \in 1 .. 40 /\ 40 \in 1 .. 40
    BY DrawAssumption, SMT
  <2>2. 300 \in 1 .. 4 * Rounds + 300
    BY <2>1, SMT
  <2> QED
    BY <2>1, <2>2, DrawsFit, SMT
<1>4. Meant(PlantedHl[3])
  <2>1. PlantedHl[3] = HlOrder("BTC-PERP", "buy", PoisonTicks, 20, 300)
    BY SMT DEF PlantedHl
  <2>2. Meant(HlOrder("BTC-PERP", "buy", PoisonTicks, 20, 300))
    BY <1>3, HlOrderMeant, SMT
  <2> QED
    BY <2>1, <2>2, SMT
<1>5. Meant(PlantedHl[4])
  <2>1. PlantedHl[4] = HlOrder("BTC-PERP", "buy", PoisonTicks, 40, 300)
    BY SMT DEF PlantedHl
  <2>2. Meant(HlOrder("BTC-PERP", "buy", PoisonTicks, 40, 300))
    BY <1>3, HlOrderMeant, SMT
  <2> QED
    BY <2>1, <2>2, SMT
<1> QED
  BY <1>1, <1>2, <1>4, <1>5, SMT

LEMMA PlantedPmMeant ==
    ASSUME StandardRegistry, verdict = "Ok", NEW i \in 1 .. 4
    PROVE  Meant(PlantedPm[i])
<1>1. Meant(PlantedPm[1])
  <2>1. PICK o : o = PlantedPm[1]
    OBVIOUS
  <2>2. ~("px" \in DOMAIN o.event) /\ o.event.market = "UNKNOWN-MKT" /\ o.error = "UnknownSymbol"
    <3>1. PICK b : b = PmOrder("UNKNOWN-MKT", "YES", "BUY", 5000, 3, 10)
      OBVIOUS
    <3>2. /\ DOMAIN b = {"event", "error", "ticks", "qty", "fee"}
          /\ DOMAIN b.event = {"market", "outcome", "action", "price", "size", "fee_bps"}
          /\ b.event.market = "UNKNOWN-MKT"
      BY <3>1, SMT DEF PmOrder
    <3>3. o = [b EXCEPT !.error = "UnknownSymbol"]
      BY <2>1, <3>1, SMT DEF PlantedPm
    <3> QED
      BY <3>2, <3>3, SMT
  <2>3. PICK e : e = o.event
    OBVIOUS
  <2>4. PmError(e) = "UnknownSymbol"
    BY <2>2, <2>3, StandardBook, SMT DEF PmError
  <2> QED
    BY <2>1, <2>2, <2>3, <2>4, RejectedMeant, SMT
<1>2. Meant(PlantedPm[2])
  <2>1. PICK o : o = PlantedPm[2]
    OBVIOUS
  <2>2. PICK e : e = o.event
    OBVIOUS
  <2>3. PICK grains : grains = (Grain * Dollar) \div 10000
    OBVIOUS
  <2>4. /\ ~("px" \in DOMAIN e) /\ e.market = "FED-CUT-SEP" /\ e.action = "SELL"
        /\ e.size = 4 /\ e.fee_bps = 20 /\ e.price = 50 * grains
        /\ o.error = "PriceOutOfRange"
    <3>1. PICK b : b = PmOrder("FED-CUT-SEP", "YES", "SELL", 50, 4, 20)
      OBVIOUS
    <3>2. /\ DOMAIN b = {"event", "error", "ticks", "qty", "fee"}
          /\ DOMAIN b.event = {"market", "outcome", "action", "price", "size", "fee_bps"}
          /\ b.event.market = "FED-CUT-SEP" /\ b.event.action = "SELL"
          /\ b.event.size = 4 /\ b.event.fee_bps = 20
      BY <3>1, SMT DEF PmOrder
    <3>3. b.event.price = 50 * grains
      BY <2>3, <3>1, SMT DEF PmOrder
    <3>4. o = [b EXCEPT !.error = "PriceOutOfRange"]
      BY <2>1, <3>1, SMT DEF PlantedPm
    <3> QED
      BY <2>2, <3>2, <3>3, <3>4, SMT
  <2>5. PICK spec : spec = by_symbol[<<"Pm", e.market>>]
    OBVIOUS
  <2>6. /\ <<"Pm", e.market>> \in DOMAIN by_symbol /\ spec.venue = "Pm"
        /\ PositiveSpec(spec) /\ spec.tick_micro = 100
    BY <2>4, <2>5, StandardBook, SMT DEF BinaryIs
  <2>7. RawTicks(e, spec) = 50 /\ PriceError(e, spec) = "Ok"
    <3>1. PICK ticks \in Nat : ticks = 50 /\ 1 <= ticks /\ ticks <= 10000
      BY SMT
    <3>2. spec.tick_micro = 100
      BY <2>6, SMT
    <3>3. grains = GrainsPerTick(spec)
      BY <2>3, <3>2, GrainsPerTickIs, SMT
    <3>4. e.price = ticks * GrainsPerTick(spec)
      BY <2>4, <3>1, <3>3, SMT
    <3> QED
      BY <3>1, <3>2, <3>4, PmPriced, SMT
  <2>8. Full(spec) = 10000 /\ Lowest(spec) = 100 /\ Fits64(Full(spec))
    <3>1. Full(spec) = 10000
      BY <2>6, StandardUnits, SMT DEF Full
    <3>2. Fits64(10000)
      BY DrawAssumption, WidthAssumption, SMT DEF Fits64
    <3> QED
      BY <3>1, <3>2, SMT DEF Lowest
  <2>9. PmError(e) = "PriceOutOfRange"
    BY <2>4, <2>5, <2>6, <2>7, <2>8, SMT DEF PmError
  <2> QED
    BY <2>1, <2>2, <2>4, <2>9, RejectedMeant, SMT
<1>3. SizeFits(2) /\ SizeFits(5)
  BY DrawsFit, SMT
<1>4. \A size \in {2, 5} : Meant(PmOrder("CPI-ABOVE-AUG", "NO", "BUY", 3000, size, 30))
  <2>1. PICK ticks \in Nat : ticks = 3000 /\ 100 <= ticks /\ ticks <= 9900
    BY SMT
  <2>2. ASSUME NEW size \in {2, 5}
        PROVE  Meant(PmOrder("CPI-ABOVE-AUG", "NO", "BUY", ticks, size, 30))
    BY <1>3, <2>1, PmOrderMeant, SMT
  <2> QED
    BY <2>1, <2>2, SMT
<1>5. /\ PlantedPm[3] = PmOrder("CPI-ABOVE-AUG", "NO", "BUY", 3000, 2, 30)
      /\ PlantedPm[4] = PmOrder("CPI-ABOVE-AUG", "NO", "BUY", 3000, 5, 30)
  BY SMT DEF PlantedPm
<1>6. Meant(PlantedPm[3]) /\ Meant(PlantedPm[4])
  BY <1>4, <1>5, SMT
<1> QED
  BY <1>1, <1>2, <1>6, SMT

(* The legs of a round, and what is traded in them. *)
RoundLots(round)  == 10 + (round % 21)
RoundOpen(round)  == MatchedBase + 4 * round
RoundClose(round) == RoundOpen(round) + 2 + (round % 5)

LegSide(n)  == IF n % 4 \in {0, 3} THEN "buy" ELSE "sell"
LegTicks(n) == IF n % 4 \in {0, 1} THEN RoundOpen(n \div 4) ELSE RoundClose(n \div 4)
LegFee(n)   == 100 + 4 * (n \div 4) + (n % 4)

LEMMA LegOrder ==
    ASSUME NEW n
    PROVE  /\ MatchedLeg(n).order = HlOrder("BTC-PERP", LegSide(n), LegTicks(n),
                                            RoundLots(n \div 4), LegFee(n))
           /\ MatchedLeg(n).account = IF n % 4 \in {0, 2} THEN "mm-A" ELSE "mm-B"
BY DEF MatchedLeg, LegSide, LegTicks, LegFee, RoundLots, RoundOpen, RoundClose

LEMMA LegFits ==
    ASSUME NEW n \in Nat, n < 4 * Rounds
    PROVE  /\ LegSide(n) \in {"buy", "sell"} /\ PriceFits(LegTicks(n))
           /\ QtyFits(RoundLots(n \div 4)) /\ FeeFits(LegFee(n))
<1> DEFINE round == n \div 4
           leg   == n % 4
<1>1. Rounds \in Nat /\ MatchedBase \in Nat
  BY DrawAssumption, SMT
<1>2. /\ round \in Nat /\ leg \in 0 .. 3 /\ n = 4 * round + leg
      /\ (round % 5) \in 0 .. 4 /\ (round % 21) \in 0 .. 20
  BY SMT
<1>3. LegSide(n) \in {"buy", "sell"}
  BY DEF LegSide
<1>4. LegTicks(n) = IF leg \in {0, 1} THEN RoundOpen(round) ELSE RoundClose(round)
  BY DEF LegTicks
<1>5. LegFee(n) = 100 + 4 * round + leg
  BY DEF LegFee
<1> HIDE DEF round, leg
<1>6. LegTicks(n) \in MatchedBase .. MatchedBase + 4 * Rounds + 6
  BY <1>1, <1>2, <1>4, SMT DEF RoundOpen, RoundClose
<1>7. RoundLots(round) \in 1 .. 40
  BY <1>2, SMT DEF RoundLots
<1>8. LegFee(n) \in 1 .. 4 * Rounds + 300
  BY <1>1, <1>2, <1>5, SMT
<1>9. PriceFits(LegTicks(n)) /\ QtyFits(RoundLots(round)) /\ FeeFits(LegFee(n))
  BY <1>6, <1>7, <1>8, DrawsFit, SMT
<1> QED
  BY <1>3, <1>9 DEF round

LEMMA LegMeant ==
    ASSUME StandardRegistry, verdict = "Ok", NEW n \in Nat, n < 4 * Rounds
    PROVE  Meant(MatchedLeg(n).order)
<1>1. PICK side, ticks, lots, fee :
         /\ side \in {"buy", "sell"}
         /\ MatchedLeg(n).order = HlOrder("BTC-PERP", side, ticks, lots, fee)
         /\ PriceFits(ticks) /\ QtyFits(lots) /\ FeeFits(fee)
  BY LegOrder, LegFits, SMT
<1>2. Meant(HlOrder("BTC-PERP", side, ticks, lots, fee))
  BY <1>1, HlOrderMeant, SMT
<1> QED
  BY <1>1, <1>2

LEMMA HlDrawMeant ==
    ASSUME StandardRegistry, verdict = "Ok", NEW order \in HlDraws
    PROVE  Meant(order)
<1>1. PICK symbol \in {"BTC-PERP", "ETH-PERP"}, side \in {"buy", "sell"},
           ticks \in BtcTicks \cup EthTicks, lots \in Lots, fee \in Fees :
         order = HlOrder(symbol, side, ticks, lots, fee)
  BY DEF HlDraws
<1>2. PriceFits(ticks) /\ QtyFits(lots) /\ FeeFits(fee)
  BY DrawsFit, SMT
<1>3. Meant(HlOrder(symbol, side, ticks, lots, fee))
  BY <1>2, HlOrderMeant, SMT
<1> QED
  BY <1>1, <1>3

LEMMA PmDrawMeant ==
    ASSUME StandardRegistry, verdict = "Ok", NEW order \in PmDraws
    PROVE  Meant(order)
<1>1. PICK market \in {"FED-CUT-SEP", "CPI-ABOVE-AUG"}, outcome_ \in {"YES", "NO"},
           action \in {"BUY", "SELL"}, ticks \in PmTicks, size \in Sizes,
           fee_bps \in {10, 20, 30} :
         order = PmOrder(market, outcome_, action, ticks, size, fee_bps)
  BY DEF PmDraws
<1>2. SizeFits(size)
  BY DrawsFit, SMT
<1>3. ticks \in Nat /\ 100 <= ticks /\ ticks <= 9900
  BY DrawAssumption, SMT
<1>4. Meant(PmOrder(market, outcome_, action, ticks, size, fee_bps))
  BY <1>2, <1>3, PmOrderMeant, SMT
<1> QED
  BY <1>1, <1>4

(* The event last pushed means what was drawn, against the full registry. *)
Meaning ==
    /\ StandardRegistry
    /\ ordinal \in Nat
    /\ file \in Stream \cup {"matched"} /\ planted \in 0 .. 4
    /\ latest # << >> => verdict = "Ok" /\ Meant(latest)

LEMMA MeantAgain ==
    ASSUME NEW o, Meant(o), by_symbol' = by_symbol
    PROVE  Meant(o)'
<1> DEFINE e == o.event
<1>1. HlError(e)' = HlError(e)
  BY SMT DEF HlError
<1>2. HlFill(e)' = HlFill(e)
  BY SMT DEF HlFill
<1>3. PmError(e)' = PmError(e)
  BY SMT DEF PmError
<1>4. PmFill(e)' = PmFill(e)
  BY SMT DEF PmFill
<1>5. Canonical(o)' = Canonical(o)
  BY <1>1, <1>2, <1>3, <1>4, SMT DEF Canonical, CanonicalizeHl, CanonicalizePm
<1> QED
  BY <1>5, SMT DEF Meant

LEMMA PushMeaning ==
    ASSUME Meaning, Running, NEW o, latest' = o, Meant(o), StandardRegistry',
           ordinal' \in Nat, planted' \in 0 .. 4
    PROVE  Meaning'
<1>1. by_symbol' = by_symbol /\ verdict' = "Ok" /\ file' = file
  BY DEF Running, rvars
<1>2. Meant(o)'
  BY <1>1, MeantAgain
<1>3. Meant(latest)'
  BY <1>2 DEF Meant
<1> QED
  BY <1>1, <1>3 DEF Meaning

LEMMA MeaningStep == Meaning /\ [GeneratorNext]_<<vars, gvars>> => Meaning'
<1> SUFFICES ASSUME Meaning, [GeneratorNext]_<<vars, gvars>>
             PROVE  Meaning'
  OBVIOUS
<1>1. StandardRegistry /\ StandardRegistry'
  BY StandardStep DEF Meaning
<1>2. CASE BuildStandard
  <2>1. latest = << >> /\ UNCHANGED gvars
    BY <1>2 DEF BuildStandard, Meaning
  <2> QED
    BY <1>1, <2>1 DEF Meaning, gvars
<1>3. ASSUME file \in Stream, NEW order \in Draws[file], DrawEvent(order)
      PROVE  Meaning'
  <2>1. Running /\ latest' = order /\ ordinal' = ordinal + 1 /\ planted' = planted
    BY <1>3 DEF DrawEvent
  <2>2. verdict = "Ok" /\ (order \in HlDraws \/ order \in PmDraws)
    BY <1>3, <2>1 DEF Running, Draws, Stream
  <2>3. Meant(order)
    BY <1>1, <2>2, HlDrawMeant, PmDrawMeant
  <2>4. ordinal' \in Nat /\ planted' \in 0 .. 4
    BY <2>1 DEF Meaning
  <2> QED
    BY <1>1, <2>1, <2>3, <2>4, PushMeaning
<1>4. CASE PlantEvent
  <2>1. /\ Running /\ latest' = Planted[file][planted'] /\ ordinal' = ordinal
        /\ planted' \in 1 .. 4 /\ file \in Stream
    BY <1>4 DEF PlantEvent, Meaning
  <2>2. PICK i \in 1 .. 4 : i = planted'
    BY <2>1
  <2>3. verdict = "Ok" /\ (latest' = PlantedHl[i] \/ latest' = PlantedPm[i])
    BY <2>1, <2>2 DEF Running, Planted, Stream
  <2>4. Meant(PlantedHl[i]) /\ Meant(PlantedPm[i])
    BY <1>1, <2>3, PlantedHlMeant, PlantedPmMeant
  <2>5. PICK o : o = latest'
    OBVIOUS
  <2>6. Meant(o) /\ ordinal' \in Nat /\ planted' \in 0 .. 4
    BY <2>1, <2>3, <2>4, <2>5 DEF Meaning
  <2> QED
    BY <1>1, <2>1, <2>5, <2>6, PushMeaning
<1>5. CASE MatchTrade
  <2>1. /\ Running /\ latest' = MatchedLeg(ordinal).order /\ ordinal' = ordinal + 1
        /\ ordinal < 4 * Rounds /\ planted' = planted
    BY <1>5 DEF MatchTrade
  <2>2. verdict = "Ok" /\ ordinal \in Nat
    BY <2>1 DEF Running, Meaning
  <2>3. PICK n \in Nat : n = ordinal /\ n < 4 * Rounds
    BY <2>1, <2>2
  <2>4. Meant(MatchedLeg(n).order)
    BY <1>1, <2>2, <2>3, LegMeant
  <2>5. PICK o : o = latest'
    OBVIOUS
  <2>6. Meant(o) /\ ordinal' \in Nat /\ planted' \in 0 .. 4
    BY <2>1, <2>3, <2>4, <2>5 DEF Meaning
  <2> QED
    BY <1>1, <2>1, <2>5, <2>6, PushMeaning
<1>6. CASE UNCHANGED <<vars, gvars>>
  <2>1. UNCHANGED <<by_symbol, verdict, file, ordinal, planted, latest>>
    BY <1>6 DEF vars, rvars, gvars
  <2>2. latest # << >> => Meant(latest)'
    <3>1. PICK o : o = latest
      OBVIOUS
    <3>2. latest # << >> => Meant(o)'
      BY <2>1, <3>1, MeantAgain DEF Meaning
    <3> QED
      BY <2>1, <3>1, <3>2 DEF Meant
  <2> QED
    BY <1>1, <2>1, <2>2 DEF Meaning
<1> QED
  BY <1>2, <1>3, <1>4, <1>5, <1>6 DEF GeneratorNext, Return

LEMMA MeaningKept == GeneratorSpec => []Meaning
<1>1. GeneratorInit => Meaning
  BY StandardInit DEF GeneratorInit, Meaning
<1> QED
  BY <1>1, MeaningStep, PTL DEF GeneratorSpec

(* What is written is what was drawn, for every price, size and fee that   *)
(* can be drawn: the converter reads the formatted text of an event back   *)
(* to the ticks, lots and fee it was made of, on every scale the units     *)
(* allow, a NO price comes back from the other end, and each planted event *)
(* is rejected for the reason the manifest records (fixtures.rs:53-76,     *)
(* 117-133, 204-216, 310-336; convert.rs:20-74, 109-236).                  *)
THEOREM WrittenIsDrawn == GeneratorSpec => []EventsMeanWhatWasDrawn
<1>1. Meaning => EventsMeanWhatWasDrawn
  BY DEF Meaning, Meant, EventsMeanWhatWasDrawn
<1> QED
  BY <1>1, MeaningKept, PTL

-----------------------------------------------------------------------------
(* The matched trades. *)

(* g runs along the sums of f. *)
Sums(g, f, m) == g[0] = 0 /\ \A i \in 1 .. m : g[i] = g[i - 1] + f[i - 1]

LEMMA SumIs ==
    ASSUME NEW m \in Nat, NEW f, NEW g, Sums(g, f, m)
    PROVE  SumOver(f, m) = g[m]
<1>0. g[0] = 0 /\ \A i \in 1 .. m : g[i] = g[i - 1] + f[i - 1]
  BY DEF Sums
<1> DEFINE P(h) == h = [n \in 0 .. m |-> IF n = 0 THEN 0 ELSE h[n - 1] + f[n - 1]]
           G    == [n \in 0 .. m |-> g[n]]
           h    == CHOOSE x : P(x)
<1>1. P(G)
  <2>1. \A n \in 0 .. m : n # 0 => n \in 1 .. m /\ n - 1 \in 0 .. m
    OBVIOUS
  <2>2. \A n \in 0 .. m : G[n] = IF n = 0 THEN 0 ELSE G[n - 1] + f[n - 1]
    BY <1>0, <2>1
  <2> QED
    BY <2>2
<1>2. SumOver(f, m) = h[m]
  BY Zenon DEF SumOver
<1>3. P(h)
  <2> HIDE DEF P
  <2> QED
    BY <1>1, Zenon
<1> HIDE DEF h
<1>4. \A n \in 0 .. m : h[n] = IF n = 0 THEN 0 ELSE h[n - 1] + f[n - 1]
  BY <1>3
<1>5. \A n \in 0 .. m : h[n] = g[n]
  <2> DEFINE T == {n \in 0 .. m : h[n] # g[n]}
  <2> SUFFICES ASSUME T # {}
               PROVE  FALSE
    OBVIOUS
  <2>1. PICK x \in T : \A y \in T : x <= y
    <3>1. T \subseteq Nat
      OBVIOUS
    <3> HIDE DEF T
    <3> QED
      BY <3>1, LeastOfNaturals
  <2>2. x # 0
    BY <1>0, <1>4
  <2>3. x \in 1 .. m /\ x - 1 \in 0 .. m /\ x - 1 \notin T
    BY <2>1, <2>2
  <2>4. h[x - 1] = g[x - 1]
    BY <2>3
  <2> QED
    BY <1>0, <1>4, <2>2, <2>3, <2>4
<1> QED
  BY <1>2, <1>5

LEMMA LegBefore ==
    ASSUME NEW i \in Nat, i > 0
    PROVE  \/ (i - 1) % 4 = 0 /\ i % 4 = 1 /\ i \div 4 = (i - 1) \div 4
           \/ (i - 1) % 4 = 1 /\ i % 4 = 2 /\ i \div 4 = (i - 1) \div 4
           \/ (i - 1) % 4 = 2 /\ i % 4 = 3 /\ i \div 4 = (i - 1) \div 4
           \/ (i - 1) % 4 = 3 /\ i % 4 = 0
BY SMT

(* In every round one maker is given u and takes v back, the other v and u. *)
Gives(f, m, u, v) ==
    \A n \in 0 .. m - 1 :
        f[n] = IF n % 4 = 0 THEN u[n \div 4] ELSE IF n % 4 = 2 THEN -v[n \div 4] ELSE 0

Takes(f, m, u, v) ==
    \A n \in 0 .. m - 1 :
        f[n] = IF n % 4 = 1 THEN -u[n \div 4] ELSE IF n % 4 = 3 THEN v[n \div 4] ELSE 0

(* What a maker gains in the rounds. *)
Drift(s, m, u, v) ==
    /\ s[0] = 0
    /\ \A i \in 0 .. m : s[i] \in Int
    /\ \A i \in 1 .. m :
          s[i] = s[i - 1] + IF i % 4 = 3 THEN v[i \div 4] - u[i \div 4] ELSE 0

LEMMA GivesSum ==
    ASSUME NEW m \in Nat, NEW u, NEW v, \A r \in Nat : u[r] \in Nat /\ v[r] \in Nat,
           NEW f, Gives(f, m, u, v), m % 4 = 0,
           NEW s, Drift(s, m, u, v)
    PROVE  SumOver(f, m) = 0 - s[m]
<1> DEFINE off(n) == IF n % 4 \in {1, 2} THEN u[n \div 4] ELSE 0
           g == [n \in 0 .. m |-> off(n) - s[n]]
<1>1. g[0] = 0 /\ g[m] = 0 - s[m]
  <2>1. off(0) = 0 /\ off(m) = 0 /\ s[m] \in Int /\ s[0] = 0
    BY DEF Drift
  <2> HIDE DEF off
  <2> QED
    BY <2>1
<1>2. ASSUME NEW i \in 1 .. m
      PROVE  g[i] = g[i - 1] + f[i - 1]
  <2>1. PICK r \in Nat : r = i \div 4
    OBVIOUS
  <2>2. PICK k \in Nat : k = i - 1 /\ k \in 0 .. m - 1
    OBVIOUS
  <2>3. /\ u[r] \in Nat /\ v[r] \in Nat /\ s[k] \in Int
        /\ s[i] = s[k] + IF i % 4 = 3 THEN v[r] - u[r] ELSE 0
    BY <2>1, <2>2 DEF Drift
  <2>4. off(i) - s[i] = (off(k) - s[k]) + f[k]
    <3>1. f[k] = IF k % 4 = 0 THEN u[k \div 4] ELSE IF k % 4 = 2 THEN -v[k \div 4] ELSE 0
      BY <2>2 DEF Gives
    <3>2. \/ k % 4 = 0 /\ i % 4 = 1 /\ r = k \div 4
          \/ k % 4 = 1 /\ i % 4 = 2 /\ r = k \div 4
          \/ k % 4 = 2 /\ i % 4 = 3 /\ r = k \div 4
          \/ k % 4 = 3 /\ i % 4 = 0
      BY <2>1, <2>2, LegBefore
    <3>3. CASE k % 4 = 0 /\ i % 4 = 1 /\ r = k \div 4
      BY <2>1, <2>3, <3>1, <3>3
    <3>4. CASE k % 4 = 1 /\ i % 4 = 2 /\ r = k \div 4
      BY <2>1, <2>3, <3>1, <3>4
    <3>5. CASE k % 4 = 2 /\ i % 4 = 3 /\ r = k \div 4
      BY <2>1, <2>3, <3>1, <3>5
    <3>6. CASE k % 4 = 3 /\ i % 4 = 0
      BY <2>1, <2>3, <3>1, <3>6
    <3> QED
      BY <3>2, <3>3, <3>4, <3>5, <3>6
  <2> HIDE DEF off
  <2> QED
    BY <2>2, <2>4
<1> HIDE DEF g
<1>3. Sums(g, f, m)
  BY <1>1, <1>2 DEF Sums
<1>4. SumOver(f, m) = g[m]
  BY <1>3, SumIs, Zenon
<1> QED
  BY <1>1, <1>4

LEMMA TakesSum ==
    ASSUME NEW m \in Nat, NEW u, NEW v, \A r \in Nat : u[r] \in Nat /\ v[r] \in Nat,
           NEW f, Takes(f, m, u, v), m % 4 = 0,
           NEW s, Drift(s, m, u, v)
    PROVE  SumOver(f, m) = s[m]
<1> DEFINE off(n) == IF n % 4 = 2 THEN u[n \div 4] ELSE IF n % 4 = 3 THEN v[n \div 4] ELSE 0
           g == [n \in 0 .. m |-> s[n] - off(n)]
<1>1. g[0] = 0 /\ g[m] = s[m]
  <2>1. off(0) = 0 /\ off(m) = 0 /\ s[m] \in Int /\ s[0] = 0
    BY DEF Drift
  <2> HIDE DEF off
  <2> QED
    BY <2>1
<1>2. ASSUME NEW i \in 1 .. m
      PROVE  g[i] = g[i - 1] + f[i - 1]
  <2>1. PICK r \in Nat : r = i \div 4
    OBVIOUS
  <2>2. PICK k \in Nat : k = i - 1 /\ k \in 0 .. m - 1
    OBVIOUS
  <2>3. /\ u[r] \in Nat /\ v[r] \in Nat /\ s[k] \in Int
        /\ s[i] = s[k] + IF i % 4 = 3 THEN v[r] - u[r] ELSE 0
    BY <2>1, <2>2 DEF Drift
  <2>4. s[i] - off(i) = (s[k] - off(k)) + f[k]
    <3>1. f[k] = IF k % 4 = 1 THEN -u[k \div 4] ELSE IF k % 4 = 3 THEN v[k \div 4] ELSE 0
      BY <2>2 DEF Takes
    <3>2. \/ k % 4 = 0 /\ i % 4 = 1 /\ r = k \div 4
          \/ k % 4 = 1 /\ i % 4 = 2 /\ r = k \div 4
          \/ k % 4 = 2 /\ i % 4 = 3 /\ r = k \div 4
          \/ k % 4 = 3 /\ i % 4 = 0
      BY <2>1, <2>2, LegBefore
    <3>3. CASE k % 4 = 0 /\ i % 4 = 1 /\ r = k \div 4
      BY <2>1, <2>3, <3>1, <3>3
    <3>4. CASE k % 4 = 1 /\ i % 4 = 2 /\ r = k \div 4
      BY <2>1, <2>3, <3>1, <3>4
    <3>5. CASE k % 4 = 2 /\ i % 4 = 3 /\ r = k \div 4
      BY <2>1, <2>3, <3>1, <3>5
    <3>6. CASE k % 4 = 3 /\ i % 4 = 0
      <4>1. PICK q \in Nat : q = k \div 4
        BY <2>2
      <4>2. v[q] \in Nat
        BY <4>1
      <4>3. f[k] = v[q] /\ off(k) = v[q] /\ off(i) = 0 /\ s[i] = s[k]
        BY <2>3, <3>1, <3>6, <4>1
      <4> HIDE DEF off
      <4> QED
        BY <2>3, <4>2, <4>3
    <3> QED
      BY <3>2, <3>3, <3>4, <3>5, <3>6
  <2> HIDE DEF off
  <2> QED
    BY <2>2, <2>4
<1> HIDE DEF g
<1>3. Sums(g, f, m)
  BY <1>1, <1>2 DEF Sums
<1>4. SumOver(f, m) = g[m]
  BY <1>3, SumIs, Zenon
<1> QED
  BY <1>1, <1>4

LEMMA DriftExists ==
    ASSUME NEW m \in Nat, NEW u, NEW v,
           \A r \in Nat : u[r] \in Nat /\ v[r] \in Nat /\ u[r] <= v[r]
    PROVE  \E s : Drift(s, m, u, v)
<1> DEFINE a == [i \in 1 .. m |-> 1]
           b == [i \in 1 .. m |-> IF i % 4 = 3 THEN v[i \div 4] - u[i \div 4] ELSE 0]
<1>1. a \in [1 .. m -> Nat] /\ b \in [1 .. m -> Nat] /\ 0 \in Nat
  <2>1. ASSUME NEW i \in 1 .. m
        PROVE  (IF i % 4 = 3 THEN v[i \div 4] - u[i \div 4] ELSE 0) \in Nat
    <3>1. PICK r \in Nat : r = i \div 4
      OBVIOUS
    <3>2. v[r] - u[r] \in Nat
      BY <3>1
    <3> QED
      BY <3>1, <3>2
  <2> QED
    BY <2>1
<1>2. \A i \in 1 .. m : a[i] = 1 /\ b[i] = IF i % 4 = 3 THEN v[i \div 4] - u[i \div 4] ELSE 0
  OBVIOUS
<1> HIDE DEF a, b
<1>3. PICK s : Solves(s, a, b, 0, m)
  BY <1>1, RecurrenceHasSolution
<1>4. /\ s[0] = 0 /\ \A i \in 0 .. m : s[i] \in Nat
      /\ \A i \in 1 .. m : s[i] = a[i] * s[i - 1] + b[i]
  BY <1>3 DEF Solves
<1>5. ASSUME NEW i \in 1 .. m
      PROVE  s[i] = s[i - 1] + IF i % 4 = 3 THEN v[i \div 4] - u[i \div 4] ELSE 0
  <2>1. s[i] = a[i] * s[i - 1] + b[i] /\ a[i] = 1 /\ s[i - 1] \in Nat
    BY <1>2, <1>4
  <2>2. s[i] = s[i - 1] + b[i]
    BY <1>1, <2>1
  <2> QED
    BY <1>2, <2>2
<1> QED
  BY <1>4, <1>5 DEF Drift

(* What one gives the other takes. *)
LEMMA RoundsBalance ==
    ASSUME NEW m \in Nat, m % 4 = 0, NEW u, NEW v,
           \A r \in Nat : u[r] \in Nat /\ v[r] \in Nat /\ u[r] <= v[r],
           NEW f, Gives(f, m, u, v), NEW h, Takes(h, m, u, v)
    PROVE  SumOver(f, m) + SumOver(h, m) = 0
<1>1. PICK s : Drift(s, m, u, v)
  BY DriftExists
<1>2. \A r \in Nat : u[r] \in Nat /\ v[r] \in Nat
  OBVIOUS
<1>3. SumOver(f, m) = 0 - s[m]
  BY <1>1, <1>2, GivesSum
<1>4. SumOver(h, m) = s[m]
  BY <1>1, <1>2, TakesSum
<1>5. s[m] \in Int
  BY <1>1 DEF Drift
<1> QED
  BY <1>3, <1>4, <1>5

LEMMA RoundsFlat ==
    ASSUME NEW m \in Nat, m % 4 = 0, NEW u, \A r \in Nat : u[r] \in Nat,
           NEW f, Gives(f, m, u, u), NEW h, Takes(h, m, u, u)
    PROVE  SumOver(f, m) = 0 /\ SumOver(h, m) = 0
<1> DEFINE s == [i \in 0 .. m |-> 0]
<1>1. Drift(s, m, u, u)
  <2>1. s[0] = 0 /\ \A i \in 0 .. m : s[i] \in Int
    OBVIOUS
  <2>2. ASSUME NEW i \in 1 .. m
        PROVE  s[i] = s[i - 1] + IF i % 4 = 3 THEN u[i \div 4] - u[i \div 4] ELSE 0
    <3>1. PICK r \in Nat : r = i \div 4
      OBVIOUS
    <3>2. u[r] - u[r] = 0
      OBVIOUS
    <3> QED
      BY <3>1, <3>2
  <2> HIDE DEF s
  <2> QED
    BY <2>1, <2>2 DEF Drift
<1>2. s[m] = 0
  OBVIOUS
<1> HIDE DEF s
<1>3. \A r \in Nat : u[r] \in Nat /\ u[r] \in Nat
  OBVIOUS
<1>4. SumOver(f, m) = 0 - s[m]
  BY <1>1, <1>3, GivesSum
<1>5. SumOver(h, m) = s[m]
  BY <1>1, <1>3, TakesSum
<1>6. 0 - 0 = 0
  OBVIOUS
<1> QED
  BY <1>2, <1>4, <1>5, <1>6, Zenon

(* The fill of a leg. *)
LEMMA LegFillIs ==
    ASSUME StandardRegistry, verdict = "Ok", NEW n \in Nat, n < 4 * Rounds
    PROVE  /\ LegFill(n).side = IF n % 4 \in {0, 3} THEN "Buy" ELSE "Sell"
           /\ LegFill(n).price = LegTicks(n) /\ LegFill(n).qty = RoundLots(n \div 4)
           /\ LegFill(n).fee = LegFee(n)
<1>1. PICK side \in {"buy", "sell"} : side = LegSide(n)
  BY LegFits
<1>2. PICK ticks : ticks = LegTicks(n)
  OBVIOUS
<1>3. PICK lots : lots = RoundLots(n \div 4)
  OBVIOUS
<1>4. PICK fee : fee = LegFee(n)
  OBVIOUS
<1>5. PriceFits(ticks) /\ QtyFits(lots) /\ FeeFits(fee)
  BY <1>2, <1>3, <1>4, LegFits, SMT
<1>6. PICK o : o = HlOrder("BTC-PERP", side, ticks, lots, fee)
  OBVIOUS
<1>7. PICK e : e = o.event
  OBVIOUS
<1>8. /\ HlError(e) = "Ok"
      /\ HlFill(e).side = IF side = "buy" THEN "Buy" ELSE "Sell"
      /\ HlFill(e).price = ticks /\ HlFill(e).qty = lots /\ HlFill(e).fee = fee
  <2>1. e = HlOrder("BTC-PERP", side, ticks, lots, fee).event
    BY <1>6, <1>7
  <2> QED
    BY <1>5, <2>1, HlMeansWhatWasDrawn, SMT
<1>9. "px" \in DOMAIN e
  BY <1>6, <1>7 DEF HlOrder
<1>10. MatchedLeg(n).order = o
  BY <1>1, <1>2, <1>3, <1>4, <1>6, LegOrder
<1>11. Canonical(o).fill = HlFill(e)
  BY <1>7, <1>8, <1>9, SMT DEF Canonical, CanonicalizeHl
<1>12. LegFill(n) = HlFill(e)
  BY <1>10, <1>11 DEF LegFill
<1>13. side = "buy" <=> n % 4 \in {0, 3}
  BY <1>1 DEF LegSide
<1> QED
  BY <1>2, <1>3, <1>4, <1>8, <1>12, <1>13, SMT

LEMMA LegCharge ==
    ASSUME NEW n
    PROVE  MatchedLeg(n).order.fee = LegFee(n)
BY DEF MatchedLeg, HlOrder, LegFee

(* The fees add up as the legs are pushed. *)
Charged(fees) ==
    Sums(fees, [n \in Legs |-> LegFee(n)], ordinal) /\ sum_fees = fees[ordinal]

Matched ==
    /\ Meaning
    /\ file = "matched" => ordinal <= 4 * Rounds /\ \E fees : Charged(fees)

LEMMA MatchedInit == GeneratorInit => Matched
<1> SUFFICES ASSUME GeneratorInit
             PROVE  Matched
  OBVIOUS
<1>1. Meaning /\ ordinal = 0 /\ sum_fees = 0
  BY StandardInit DEF GeneratorInit, Meaning
<1>2. Rounds \in Nat
  BY DrawAssumption, SMT
<1>3. Charged([n \in 0 .. 0 |-> 0])
  BY <1>1 DEF Charged, Sums
<1>4. ordinal <= 4 * Rounds
  BY <1>1, <1>2
<1> QED
  BY <1>1, <1>3, <1>4 DEF Matched

LEMMA ChargedStep ==
    ASSUME Matched, MatchTrade
    PROVE  ordinal' <= 4 * Rounds /\ \E fees : Charged(fees)'
<1>1. /\ ordinal \in Nat /\ ordinal < 4 * Rounds /\ ordinal' = ordinal + 1
      /\ sum_fees' = sum_fees + MatchedLeg(ordinal).order.fee /\ file = "matched"
  BY DEF Matched, Meaning, MatchTrade
<1>2. PICK fees : Charged(fees)
  BY <1>1 DEF Matched
<1>3. PICK fee : fee = LegFee(ordinal)
  OBVIOUS
<1>4. sum_fees' = sum_fees + fee
  <2>1. MatchedLeg(ordinal).order.fee = LegFee(ordinal)
    BY LegCharge, Zenon
  <2> QED
    BY <1>1, <1>3, <2>1
<1>5. Rounds \in Nat
  BY DrawAssumption, SMT
<1> DEFINE more == [i \in 0 .. ordinal + 1 |->
                       IF i = ordinal + 1 THEN sum_fees' ELSE fees[i]]
           f == [n \in 0 .. ordinal - 1 |-> LegFee(n)]
           h == [n \in 0 .. ordinal |-> LegFee(n)]
<1>6. fees[0] = 0 /\ sum_fees = fees[ordinal] /\ \A i \in 1 .. ordinal : fees[i] = fees[i - 1] + f[i - 1]
  BY <1>2 DEF Charged, Sums, Legs
<1>7. Sums(more, h, ordinal + 1)
  <2>1. more[0] = 0
    BY <1>1, <1>6
  <2>2. ASSUME NEW i \in 1 .. ordinal + 1
        PROVE  more[i] = more[i - 1] + h[i - 1]
    <3>1. CASE i = ordinal + 1
      <4>1. more[i] = sum_fees' /\ more[i - 1] = sum_fees /\ h[i - 1] = fee
        BY <1>1, <1>3, <1>6, <3>1
      <4> HIDE DEF more, h
      <4> QED
        BY <1>4, <4>1
    <3>2. CASE i # ordinal + 1
      <4>1. i \in 1 .. ordinal /\ i - 1 \in 0 .. ordinal - 1
        BY <1>1, <3>2
      <4>2. more[i] = fees[i] /\ more[i - 1] = fees[i - 1] /\ h[i - 1] = f[i - 1]
        BY <1>1, <4>1
      <4> HIDE DEF more, f, h
      <4> QED
        BY <1>6, <4>1, <4>2
    <3> QED
      BY <3>1, <3>2
  <2> HIDE DEF more, h
  <2> QED
    BY <2>1, <2>2 DEF Sums
<1>8. more[ordinal'] = sum_fees' /\ ordinal' - 1 = ordinal
  BY <1>1
<1> HIDE DEF more
<1>9. PICK w : w = more
  OBVIOUS
<1>10. Charged(w)'
  <2>1. Sums(w, [n \in 0 .. ordinal' - 1 |-> LegFee(n)], ordinal')
    BY <1>1, <1>7, <1>8, <1>9
  <2> QED
    BY <1>8, <1>9, <2>1 DEF Charged, Legs, Sums
<1> QED
  BY <1>1, <1>5, <1>10

LEMMA MatchedStep == Matched /\ [GeneratorNext]_<<vars, gvars>> => Matched'
<1> SUFFICES ASSUME Matched, [GeneratorNext]_<<vars, gvars>>
             PROVE  Matched'
  OBVIOUS
<1>1. Meaning'
  BY MeaningStep DEF Matched
<1>2. CASE MatchTrade
  BY <1>1, <1>2, ChargedStep DEF Matched
<1>3. CASE UNCHANGED <<file, ordinal, sum_fees>>
  BY <1>1, <1>3 DEF Matched, Charged, Legs
<1>4. CASE file \in Stream /\ file' = file
  BY <1>1, <1>4 DEF Matched, Stream
<1>5. MatchTrade \/ UNCHANGED <<file, ordinal, sum_fees>> \/ (file \in Stream /\ file' = file)
  BY DEF GeneratorNext, BuildStandard, DrawEvent, PlantEvent, Return, Running, vars, gvars
<1> QED
  BY <1>2, <1>3, <1>4, <1>5

(* One maker buys at the opening and sells at the closing of a round, the  *)
(* other the reverse, for the same lots.                                   *)
LEMMA MakersTrade ==
    ASSUME Matched, file = "matched", verdict = "Ok",
           NEW u, u = [r \in Nat |-> RoundOpen(r) * RoundLots(r)],
           NEW v, v = [r \in Nat |-> RoundClose(r) * RoundLots(r)],
           NEW q, q = [r \in Nat |-> RoundLots(r)],
           NEW lots, lots = [n \in Legs |-> Signed(n, LegFill(n).qty)],
           NEW paid, paid = [n \in Legs |-> Signed(n, LegFill(n).price * LegFill(n).qty)]
    PROVE  /\ Gives(OfAccount("mm-A", lots), ordinal, q, q)
           /\ Takes(OfAccount("mm-B", lots), ordinal, q, q)
           /\ Gives(OfAccount("mm-A", paid), ordinal, u, v)
           /\ Takes(OfAccount("mm-B", paid), ordinal, u, v)
<1>1. ordinal \in Nat /\ ordinal <= 4 * Rounds /\ StandardRegistry
  BY DEF Matched, Meaning
<1>2. Rounds \in Nat
  BY DrawAssumption, SMT
<1>3. ASSUME NEW n \in 0 .. ordinal - 1, NEW r \in Nat, r = n \div 4
      PROVE  /\ lots[n] = IF n % 4 \in {0, 3} THEN q[r] ELSE -q[r]
             /\ paid[n] = IF n % 4 = 0 THEN u[r] ELSE IF n % 4 = 1 THEN -u[r]
                          ELSE IF n % 4 = 2 THEN -v[r] ELSE v[r]
             /\ OfAccount("mm-A", lots)[n] = IF n % 4 \in {0, 2} THEN lots[n] ELSE 0
             /\ OfAccount("mm-B", lots)[n] = IF n % 4 \in {0, 2} THEN 0 ELSE lots[n]
             /\ OfAccount("mm-A", paid)[n] = IF n % 4 \in {0, 2} THEN paid[n] ELSE 0
             /\ OfAccount("mm-B", paid)[n] = IF n % 4 \in {0, 2} THEN 0 ELSE paid[n]
  <2>1. n \in Nat /\ n < 4 * Rounds /\ n % 4 \in 0 .. 3 /\ n \in Legs
    BY <1>1, <1>2 DEF Legs
  <2>2. PICK leg : leg = n % 4
    OBVIOUS
  <2>3. PICK fill : fill = LegFill(n)
    OBVIOUS
  <2>4. /\ fill.side = IF leg \in {0, 3} THEN "Buy" ELSE "Sell"
        /\ fill.price = LegTicks(n) /\ fill.qty = RoundLots(r)
    BY <1>1, <1>3, <2>1, <2>2, <2>3, LegFillIs
  <2>5. fill.price = IF leg \in {0, 1} THEN RoundOpen(r) ELSE RoundClose(r)
    BY <1>3, <2>2, <2>4 DEF LegTicks
  <2>6. PICK x : x = RoundOpen(r) * RoundLots(r)
    OBVIOUS
  <2>7. PICK y : y = RoundClose(r) * RoundLots(r)
    OBVIOUS
  <2>8. u[r] = x /\ v[r] = y /\ q[r] = RoundLots(r)
    BY <2>6, <2>7
  <2>9. PICK z : z = fill.price * fill.qty
    OBVIOUS
  <2>10. z = IF leg \in {0, 1} THEN x ELSE y
    BY <2>4, <2>5, <2>6, <2>7, <2>9, Zenon
  <2>11. lots[n] = IF leg \in {0, 3} THEN q[r] ELSE -q[r]
    <3>1. lots[n] = Signed(n, fill.qty)
      BY <2>1, <2>3
    <3> QED
      BY <2>3, <2>4, <2>8, <3>1 DEF Signed
  <2>12. paid[n] = IF leg \in {0, 3} THEN z ELSE -z
    <3>1. paid[n] = Signed(n, z)
      BY <2>1, <2>3, <2>9
    <3> QED
      BY <2>3, <2>4, <3>1 DEF Signed
  <2>13. MatchedLeg(n).account = IF leg \in {0, 2} THEN "mm-A" ELSE "mm-B"
    BY <2>2, LegOrder
  <2>14. \A a, f : OfAccount(a, f)[n] = IF MatchedLeg(n).account = a THEN f[n] ELSE 0
    BY <2>1 DEF OfAccount
  <2>15. /\ OfAccount("mm-A", lots)[n] = IF leg \in {0, 2} THEN lots[n] ELSE 0
         /\ OfAccount("mm-B", lots)[n] = IF leg \in {0, 2} THEN 0 ELSE lots[n]
         /\ OfAccount("mm-A", paid)[n] = IF leg \in {0, 2} THEN paid[n] ELSE 0
         /\ OfAccount("mm-B", paid)[n] = IF leg \in {0, 2} THEN 0 ELSE paid[n]
    BY <2>13, <2>14
  <2>16. paid[n] = IF leg = 0 THEN u[r] ELSE IF leg = 1 THEN -u[r]
                   ELSE IF leg = 2 THEN -v[r] ELSE v[r]
    <3>1. leg = 0 \/ leg = 1 \/ leg = 2 \/ leg = 3
      BY <2>1, <2>2
    <3> QED
      BY <2>8, <2>10, <2>12, <3>1
  <2> QED
    BY <2>2, <2>11, <2>15, <2>16
<1>4. \A n \in 0 .. ordinal - 1 : n \div 4 \in Nat /\ n % 4 \in 0 .. 3
  BY <1>1
<1>5. \A n \in 0 .. ordinal - 1 :
        /\ OfAccount("mm-A", lots)[n] = IF n % 4 = 0 THEN q[n \div 4]
                                        ELSE IF n % 4 = 2 THEN -q[n \div 4] ELSE 0
        /\ OfAccount("mm-B", lots)[n] = IF n % 4 = 1 THEN -q[n \div 4]
                                        ELSE IF n % 4 = 3 THEN q[n \div 4] ELSE 0
        /\ OfAccount("mm-A", paid)[n] = IF n % 4 = 0 THEN u[n \div 4]
                                        ELSE IF n % 4 = 2 THEN -v[n \div 4] ELSE 0
        /\ OfAccount("mm-B", paid)[n] = IF n % 4 = 1 THEN -u[n \div 4]
                                        ELSE IF n % 4 = 3 THEN v[n \div 4] ELSE 0
  <2> TAKE n \in 0 .. ordinal - 1
  <2>1. PICK r \in Nat : r = n \div 4
    BY <1>4
  <2>2. PICK leg \in 0 .. 3 : leg = n % 4
    BY <1>4
  <2>3. /\ lots[n] = IF leg \in {0, 3} THEN q[r] ELSE -q[r]
        /\ paid[n] = IF leg = 0 THEN u[r] ELSE IF leg = 1 THEN -u[r]
                     ELSE IF leg = 2 THEN -v[r] ELSE v[r]
        /\ OfAccount("mm-A", lots)[n] = IF leg \in {0, 2} THEN lots[n] ELSE 0
        /\ OfAccount("mm-B", lots)[n] = IF leg \in {0, 2} THEN 0 ELSE lots[n]
        /\ OfAccount("mm-A", paid)[n] = IF leg \in {0, 2} THEN paid[n] ELSE 0
        /\ OfAccount("mm-B", paid)[n] = IF leg \in {0, 2} THEN 0 ELSE paid[n]
    BY <1>3, <2>1, <2>2
  <2>4. leg = 0 \/ leg = 1 \/ leg = 2 \/ leg = 3
    BY <2>2
  <2> QED
    BY <2>1, <2>2, <2>3, <2>4
<1> QED
  BY <1>5 DEF Gives, Takes

LEMMA RoundNumbers ==
    ASSUME NEW r \in Nat
    PROVE  /\ RoundOpen(r) * RoundLots(r) \in Nat /\ RoundClose(r) * RoundLots(r) \in Nat
           /\ RoundOpen(r) * RoundLots(r) <= RoundClose(r) * RoundLots(r)
           /\ RoundLots(r) \in Nat
<1>1. MatchedBase \in Nat
  BY DrawAssumption, SMT
<1>2. PICK d \in Nat : d = 2 + (r % 5)
  BY SMT
<1>3. PICK l \in Nat : l = RoundLots(r)
  BY SMT DEF RoundLots
<1>4. PICK x \in Nat : x = RoundOpen(r)
  BY <1>1, SMT DEF RoundOpen
<1>5. RoundClose(r) = x + d
  BY <1>1, <1>2, <1>4, SMT DEF RoundClose
<1>6. /\ x * l \in Nat /\ d * l \in Nat /\ (x + d) * l \in Nat
      /\ (x + d) * l = x * l + d * l
  BY SMT
<1>7. x * l <= (x + d) * l
  BY <1>6, SMT
<1> QED
  BY <1>3, <1>4, <1>5, <1>6, <1>7

(* Whatever the first price and the number of rounds, both makers are flat *)
(* after every round, what one paid the other received, and the generator's *)
(* sum_fees is what the canonical fills are charged (fixtures.rs:275-308;  *)
(* the conserved sums of ingester/tests/pipeline.rs:143-168).              *)
THEOREM RoundsConserve == GeneratorSpec => []MatchedConserves
<1>1. ASSUME Matched, file = "matched", verdict = "Ok", ordinal % 4 = 0
      PROVE  LET lots    == [n \in Legs |-> Signed(n, LegFill(n).qty)]
                 paid    == [n \in Legs |-> Signed(n, LegFill(n).price * LegFill(n).qty)]
                 Held(a) == SumOver(OfAccount(a, lots), ordinal)
                 Paid(a) == SumOver(OfAccount(a, paid), ordinal)
             IN  /\ Held("mm-A") = 0 /\ Held("mm-B") = 0
                 /\ Paid("mm-A") + Paid("mm-B") = 0
                 /\ sum_fees = SumOver([n \in Legs |-> LegFill(n).fee], ordinal)
  <2> DEFINE lots == [n \in Legs |-> Signed(n, LegFill(n).qty)]
             paid == [n \in Legs |-> Signed(n, LegFill(n).price * LegFill(n).qty)]
             fees == [n \in Legs |-> LegFill(n).fee]
  <2>1. PICK u : u = [r \in Nat |-> RoundOpen(r) * RoundLots(r)]
    OBVIOUS
  <2>2. PICK v : v = [r \in Nat |-> RoundClose(r) * RoundLots(r)]
    OBVIOUS
  <2>3. PICK q : q = [r \in Nat |-> RoundLots(r)]
    OBVIOUS
  <2>4. /\ Gives(OfAccount("mm-A", lots), ordinal, q, q)
        /\ Takes(OfAccount("mm-B", lots), ordinal, q, q)
        /\ Gives(OfAccount("mm-A", paid), ordinal, u, v)
        /\ Takes(OfAccount("mm-B", paid), ordinal, u, v)
    BY <1>1, <2>1, <2>2, <2>3, MakersTrade
  <2>5. \A r \in Nat : u[r] \in Nat /\ v[r] \in Nat /\ u[r] <= v[r] /\ q[r] \in Nat
    BY <2>1, <2>2, <2>3, RoundNumbers
  <2>6. PICK m \in Nat : m = ordinal /\ m % 4 = 0 /\ m <= 4 * Rounds
    BY <1>1 DEF Matched, Meaning
  <2>7. fees = [n \in Legs |-> LegFee(n)]
    <3>1. Rounds \in Nat
      BY DrawAssumption, SMT
    <3>2. ASSUME NEW n \in Legs
          PROVE  LegFill(n).fee = LegFee(n)
      <4>1. n \in Nat /\ n < 4 * Rounds
        BY <2>6, <3>1 DEF Legs
      <4> QED
        BY <1>1, <4>1, LegFillIs DEF Matched, Meaning
    <3> QED
      BY <3>2
  <2>8. sum_fees = SumOver(fees, m)
    <3>1. PICK g : Sums(g, fees, m) /\ sum_fees = g[m]
      BY <1>1, <2>6, <2>7 DEF Matched, Charged
    <3> HIDE DEF fees
    <3> QED
      BY <3>1, SumIs
  <2> HIDE DEF lots, paid, fees
  <2>9. SumOver(OfAccount("mm-A", lots), m) = 0 /\ SumOver(OfAccount("mm-B", lots), m) = 0
    BY <2>4, <2>5, <2>6, RoundsFlat
  <2>10. SumOver(OfAccount("mm-A", paid), m) + SumOver(OfAccount("mm-B", paid), m) = 0
    <3>1. PICK f : f = OfAccount("mm-A", paid)
      OBVIOUS
    <3>2. PICK h : h = OfAccount("mm-B", paid)
      OBVIOUS
    <3>3. \A r \in Nat : u[r] \in Nat /\ v[r] \in Nat /\ u[r] <= v[r]
      BY <2>5
    <3>4. Gives(f, m, u, v) /\ Takes(h, m, u, v)
      BY <2>4, <2>6, <3>1, <3>2
    <3>5. SumOver(f, m) + SumOver(h, m) = 0
      BY <2>6, <3>3, <3>4, RoundsBalance
    <3> QED
      BY <3>1, <3>2, <3>5
  <2> QED
    BY <2>6, <2>8, <2>9, <2>10 DEF lots, paid, fees
<1>2. Matched => MatchedConserves
  BY <1>1 DEF MatchedConserves
<1>3. GeneratorSpec => []Matched
  BY MatchedInit, MatchedStep, PTL DEF GeneratorSpec
<1> QED
  BY <1>2, <1>3, PTL

=============================================================================
