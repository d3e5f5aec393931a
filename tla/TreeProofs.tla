----------------------------- MODULE TreeProofs -----------------------------
(***************************************************************************)
(* The radix tree of the Dhara map: proofs about trace_path, for every     *)
(* depth and every set of sectors.  The operators below are those of Map   *)
(* with the pages as a parameter (en), so that a lemma can speak of the    *)
(* pages before and after a step.                                          *)
(***************************************************************************)
EXTENDS Map, RingProofs, WellFoundedInduction

-----------------------------------------------------------------------------
(* Induction.  Every recursive function of the model has a bounded domain: *)
(* that it is defined everywhere follows from the least number up to which *)
(* it is not.                                                              *)

\* A set of numbers that has 0 and with each number the next has all.
LEMMA SetInduction ==
  ASSUME NEW T \in SUBSET Nat, 0 \in T, \A n \in T : n + 1 \in T
  PROVE  T = Nat
<1> SUFFICES ASSUME Nat \ T # {} PROVE FALSE
  OBVIOUS
<1> DEFINE R == {ss \in Nat \X Nat : ss[1] < ss[2]}
           U == Nat \ T
<1>1. IsWellFoundedOn(R, Nat)
  BY NatLessThanWellFounded, Zenon DEF OpToRel
<1>2. PICK x \in U : \A y \in U : ~(<<y, x>> \in R)
  <2>1. U \in SUBSET Nat /\ U # {}
    OBVIOUS
  <2> HIDE DEF R, U
  <2> QED BY <1>1, <2>1, WFMin
<1>3. x # 0 /\ x - 1 \in Nat
  BY <1>2
<1>4. x - 1 \in T
  <2> SUFFICES ASSUME x - 1 \in U PROVE FALSE
    BY <1>3
  <2>1. <<x - 1, x>> \in R
    BY <1>2, <1>3
  <2> QED BY <1>2, <2>1
<1> QED BY <1>2, <1>3, <1>4

\* The same up to a bound.
LEMMA BoundedInduction ==
  ASSUME NEW m \in Nat, NEW T, 0 \in T, \A n \in 0 .. (m - 1) : n \in T => n + 1 \in T
  PROVE  \A n \in 0 .. m : n \in T
<1> DEFINE U == {n \in Nat : n <= m => n \in T}
<1>1. 0 \in U /\ \A n \in U : n + 1 \in U
  OBVIOUS
<1>2. U = Nat
  <2> HIDE DEF U
  <2> QED BY <1>1, SetInduction DEF U
<1> QED BY <1>2

-----------------------------------------------------------------------------
(* Bits of a sector number                                                 *)

\* The weight of each bit: the last one is 1, and each is twice the next.
LEMMA BitWeights ==
  /\ DEPTH \in Nat \ {0}
  /\ \A d \in Levels :
       /\ d_bit[d] \in Nat \ {0}
       /\ d_bit[d] = IF d = DEPTH - 1 THEN 1 ELSE 2 * d_bit[d + 1]
<1>1. DEPTH \in Nat \ {0}
  BY MapAssumption
<1> DEFINE Def(f) == f = [d \in Levels |-> IF d = DEPTH - 1 THEN 1 ELSE 2 * f[d + 1]]
           From(n) == (DEPTH - 1 - n) .. (DEPTH - 1)
           Part(n, f) == f = [d \in From(n) |-> IF d = DEPTH - 1 THEN 1 ELSE 2 * f[d + 1]]
           T == {n \in Nat : \E f : Part(n, f)}
<1>2. 0 \in T
  <2>1. Part(0, [d \in From(0) |-> 1])
    BY <1>1
  <2> QED BY <2>1
<1>3. ASSUME NEW n \in 0 .. (DEPTH - 2), n \in T
      PROVE  n + 1 \in T
  <2>1. PICK f : Part(n, f)
    BY <1>3
  <2> DEFINE g == [d \in From(n + 1) |-> IF d = DEPTH - 1 - (n + 1)
                                         THEN 2 * f[d + 1] ELSE f[d]]
  <2>2. From(n + 1) = From(n) \cup {DEPTH - 2 - n} /\ DEPTH - 2 - n # DEPTH - 1
    BY <1>1
  <2>3. ASSUME NEW d \in From(n + 1)
        PROVE  g[d] = IF d = DEPTH - 1 THEN 1 ELSE 2 * g[d + 1]
    <3>1. CASE d = DEPTH - 2 - n
      BY <1>1, <3>1
    <3>2. CASE d \in From(n)
      <4>1. f[d] = IF d = DEPTH - 1 THEN 1 ELSE 2 * f[d + 1]
        BY <2>1, <3>2
      <4>2. g[d] = f[d]
        BY <1>1, <3>2
      <4>3. d # DEPTH - 1 => g[d + 1] = f[d + 1]
        BY <1>1, <3>2
      <4> QED BY <4>1, <4>2, <4>3
    <3> QED BY <2>2, <3>1, <3>2
  <2>4. Part(n + 1, g)
    <3>1. g = [d \in From(n + 1) |-> g[d]]
      OBVIOUS
    <3> DEFINE G == From(n + 1)
               h == [d \in G |-> IF d = DEPTH - 1 THEN 1 ELSE 2 * g[d + 1]]
    <3>2. \A d \in G : g[d] = h[d]
      <4> HIDE DEF g, From
      <4> QED BY <2>3
    <3>3. g = [d \in G |-> h[d]]
      <4> HIDE DEF g, h, G
      <4> QED BY <3>1, <3>2 DEF G
    <3>4. h = [d \in G |-> h[d]]
      OBVIOUS
    <3>5. g = h
      <4> HIDE DEF g, h, G
      <4> QED BY <3>3, <3>4
    <3> HIDE DEF g
    <3> QED BY <3>5
  <2>5. \E ff : Part(n + 1, ff)
    <3> HIDE DEF g, Part
    <3> QED BY <2>4
  <2> HIDE DEF Part
  <2> QED BY <2>5
<1>4. DEPTH - 1 \in T
  <2>1. DEPTH - 1 \in Nat /\ (DEPTH - 1) - 1 = DEPTH - 2
    BY <1>1
  <2> HIDE DEF T
  <2>2. \A n \in 0 .. (DEPTH - 1) : n \in T
    BY <1>2, <1>3, <2>1, BoundedInduction
  <2> QED BY <2>1, <2>2
<1>5. \E f : Def(f)
  <2>1. PICK f : Part(DEPTH - 1, f)
    BY <1>4
  <2>2. From(DEPTH - 1) = Levels
    BY <1>1 DEF Levels
  <2> QED BY <2>1, <2>2
<1>6. Def(d_bit)
  <2> DEFINE c == CHOOSE f : Def(f)
  <2>1. Def(c)
    BY <1>5
  <2>2. d_bit = c
    BY DEF d_bit
  <2> QED BY <2>1, <2>2
<1>7. \A d \in Levels : d_bit[d] = IF d = DEPTH - 1 THEN 1 ELSE 2 * d_bit[d + 1]
  BY <1>6
<1> DEFINE P == {n \in Nat : d_bit[DEPTH - 1 - n] \in Nat \ {0}}
<1>8. \A n \in 0 .. (DEPTH - 1) : n \in P
  <2>1. 0 \in P
    BY <1>1, <1>7 DEF Levels
  <2>2. \A n \in 0 .. ((DEPTH - 1) - 1) : n \in P => n + 1 \in P
    BY <1>1, <1>7 DEF Levels
  <2> HIDE DEF P
  <2> QED BY <1>1, <2>1, <2>2, BoundedInduction
<1>9. ASSUME NEW d \in Levels PROVE d_bit[d] \in Nat \ {0}
  <2>1. DEPTH - 1 - d \in 0 .. (DEPTH - 1) /\ DEPTH - 1 - (DEPTH - 1 - d) = d
    BY <1>1 DEF Levels
  <2> QED BY <1>8, <2>1
<1> QED BY <1>1, <1>7, <1>9

\* Halving a quotient.
LEMMA HalfQuotient ==
  ASSUME NEW x \in Nat, NEW z \in Nat \ {0}
  PROVE  /\ x \div z \in Nat
         /\ x \div z = 2 * (x \div (2 * z)) + ((x \div z) % 2)
<1> DEFINE q == x \div z
           r == x % z
           h == q \div 2
           b == q % 2
<1>1. q \in Nat /\ r \in 0 .. (z - 1) /\ x = q * z + r
  OBVIOUS
<1>2. h \in Nat /\ b \in 0 .. 1 /\ q = 2 * h + b
  BY <1>1
<1>3. x = h * (2 * z) + (b * z + r)
  <2>1. q * z = h * (2 * z) + b * z
    <3> HIDE DEF q, h, b
    <3> QED BY <1>1, <1>2
  <2> HIDE DEF q, h, b, r
  <2> QED BY <1>1, <1>2, <2>1
<1>4. b * z + r \in 0 .. (2 * z - 1)
  <2> HIDE DEF q, h, b, r
  <2>1. b = 0 \/ b = 1
    BY <1>2
  <2> QED BY <1>1, <2>1
<1>5. x \div (2 * z) = h
  <2>1. ASSUME NEW y \in Nat \ {0}, NEW e \in 0 .. (y - 1)
        PROVE  (h * y + e) \div y = h
    <3> HIDE DEF h
    <3> QED BY <1>2
  <2> DEFINE y == 2 * z
             e == b * z + r
  <2>2. y \in Nat \ {0} /\ e \in 0 .. (y - 1) /\ x = h * y + e
    BY <1>3, <1>4
  <2> HIDE DEF y, e, h
  <2>3. x \div y = h
    BY <2>1, <2>2
  <2> QED BY <2>3 DEF y
<1> QED BY <1>1, <1>2, <1>5

\* Sector numbers with the same bits are the same.
LEMMA SameBits ==
  ASSUME NEW s \in Sectors, NEW t \in Sectors, \A k \in Levels : ~differs(s, t, k)
  PROVE  s = t
<1>1. DEPTH \in Nat \ {0} /\ DEPTH - 1 \in Nat
  BY BitWeights
<1>2. s \in 0 .. (2 * d_bit[0] - 1) /\ t \in 0 .. (2 * d_bit[0] - 1)
  BY MapAssumption
<1>3. s \in Nat /\ t \in Nat
  BY <1>1, <1>2, BitWeights DEF Levels
<1> DEFINE P == {n \in Nat : s \div d_bit[n] = t \div d_bit[n]}
<1>4. 0 \in P
  <2>1. 0 \in Levels /\ d_bit[0] \in Nat \ {0}
    BY <1>1, BitWeights DEF Levels
  <2>2. ASSUME NEW x \in 0 .. (2 * d_bit[0] - 1)
        PROVE  x \div d_bit[0] \in 0 .. 1
    BY <2>1
  <2>3. s \div d_bit[0] \in 0 .. 1 /\ t \div d_bit[0] \in 0 .. 1
    BY <1>2, <2>2
  <2>4. (s \div d_bit[0]) % 2 = (t \div d_bit[0]) % 2
    BY <2>1 DEF differs
  <2> QED BY <2>3, <2>4
<1>5. ASSUME NEW n \in 0 .. ((DEPTH - 1) - 1), n \in P
      PROVE  n + 1 \in P
  <2>1. n \in Levels /\ n + 1 \in Levels /\ d_bit[n] = 2 * d_bit[n + 1]
        /\ d_bit[n + 1] \in Nat \ {0} /\ n + 1 \in Nat
    BY <1>1, BitWeights DEF Levels
  <2> DEFINE z == d_bit[n + 1]
  <2>2. s \div (2 * z) = t \div (2 * z)
    BY <1>5, <2>1
  <2>3. (s \div z) % 2 = (t \div z) % 2
    BY <2>1 DEF differs
  <2>4. /\ s \div z = 2 * (s \div (2 * z)) + ((s \div z) % 2)
        /\ t \div z = 2 * (t \div (2 * z)) + ((t \div z) % 2)
    BY <1>3, <2>1, HalfQuotient
  <2>5. s \div z = t \div z
    BY <2>2, <2>3, <2>4, Zenon
  <2> QED BY <2>1, <2>5
<1>6. DEPTH - 1 \in P
  <2>1. DEPTH - 1 \in 0 .. (DEPTH - 1)
    BY <1>1
  <2> HIDE DEF P
  <2> QED BY <1>1, <1>4, <1>5, <2>1, BoundedInduction
<1>7. d_bit[DEPTH - 1] = 1
  BY <1>1, BitWeights DEF Levels
<1> QED BY <1>3, <1>6, <1>7

\* Sectors agree on the levels above depth d.
Agree(s, t, d) == \A k \in 0 .. (d - 1) : ~differs(s, t, k)

\* Two sectors agree up to the first level on which they differ.
LEMMA FirstDifference ==
  ASSUME NEW s \in Sectors, NEW t \in Sectors, s # t
  PROVE  \E k \in Levels : Agree(s, t, k) /\ differs(s, t, k)
<1>1. DEPTH \in Nat \ {0}
  BY BitWeights
<1> DEFINE P == {n \in Nat : Agree(s, t, n)}
<1>2. SUFFICES ASSUME \A k \in Levels : Agree(s, t, k) => ~differs(s, t, k)
      PROVE FALSE
  OBVIOUS
<1>3. 0 \in P
  BY DEF Agree
<1>4. ASSUME NEW n \in 0 .. (DEPTH - 1), n \in P
      PROVE  n + 1 \in P
  BY <1>1, <1>2, <1>4 DEF Agree, Levels
<1>5. DEPTH \in P
  <2>1. DEPTH \in 0 .. DEPTH
    BY <1>1
  <2> HIDE DEF P
  <2> QED BY <1>1, <1>3, <1>4, <2>1, BoundedInduction
<1> QED BY <1>5, <1>1, SameBits DEF Agree, Levels

-----------------------------------------------------------------------------
(* Walks                                                                   *)

\* What alt-pointers hold, and what pages hold.
Links == UPages \cup {PAGE_NONE}
Alts == [Levels -> Links]
Entries == [UPages -> [id : Sectors \cup {SECTOR_NONE}, alt : Alts,
                       data : Data \cup {MISSING}]]

\* trace_step and trace_path in the pages en.
step(en, w, target, depth) ==
  LET e == en[w.p]
  IN  IF ~w.ok \/ e.id = SECTOR_NONE THEN [w EXCEPT !.ok = FALSE]
      ELSE IF differs(target, e.id, depth)
        THEN [p |-> e.alt[depth], ok |-> e.alt[depth] # PAGE_NONE,
              alt |-> [w.alt EXCEPT ![depth] = w.p]]
      ELSE [w EXCEPT !.alt[depth] = e.alt[depth]]
walk(en, root, target) ==
  LET wk[d \in 0 .. DEPTH] ==
        IF d = 0 THEN [p |-> root, ok |-> root # PAGE_NONE, alt |-> NoAlts]
        ELSE step(en, wk[d - 1], target, d - 1)
  IN  wk
trace(en, root, target) == walk(en, root, target)[DEPTH]

\* trace_path is trace in the pages of the map.
LEMMA TracePath ==
  ASSUME NEW r, NEW s
  PROVE  trace_path(r, s) = trace(entry, r, s)
  BY Zenon DEF trace_path, trace_step, trace, walk, step

\* Where a walk starts, and each of its steps.
origin(root) == [p |-> root, ok |-> root # PAGE_NONE, alt |-> NoAlts]

\* A walk from a page starts on it.
LEMMA StartsAt ==
  ASSUME NEW n \in UPages
  PROVE  origin(n).ok /\ origin(n).p = n
<1>1. n # PAGE_NONE
  BY PageNone
<1>2. origin(n) = [p |-> n, ok |-> TRUE, alt |-> NoAlts]
  BY <1>1 DEF origin
<1> QED BY <1>2

\* A walk, one level after the other.
LEMMA WalkSteps ==
  ASSUME NEW en, NEW r, NEW s
  PROVE  /\ walk(en, r, s)[0] = origin(r)
         /\ \A d \in Levels :
              walk(en, r, s)[d + 1] = step(en, walk(en, r, s)[d], s, d)
<1>1. DEPTH \in Nat \ {0}
  BY BitWeights
<1> DEFINE Val(f, d) == IF d = 0 THEN origin(r) ELSE step(en, f[d - 1], s, d - 1)
           Part(n, f) == f = [d \in 0 .. n |-> Val(f, d)]
           T == {n \in Nat : \E f : Part(n, f)}
<1>2. 0 \in T
  <2>1. Part(0, [d \in 0 .. 0 |-> origin(r)])
    OBVIOUS
  <2>2. \E f : Part(0, f)
    <3> HIDE DEF Part
    <3> QED BY <2>1
  <2> HIDE DEF Part
  <2> QED BY <2>2
<1>3. ASSUME NEW n \in 0 .. (DEPTH - 1), n \in T
      PROVE  n + 1 \in T
  <2>1. PICK f : Part(n, f)
    BY <1>3
  <2> DEFINE G == 0 .. (n + 1)
             g == [d \in G |-> IF d = n + 1 THEN Val(f, d) ELSE f[d]]
             h == [d \in G |-> Val(g, d)]
  <2>2. ASSUME NEW d \in G PROVE g[d] = h[d]
    <3>1. d \in 0 .. (n + 1) /\ (d # 0 => d - 1 \in 0 .. n)
      OBVIOUS
    <3>2. d # 0 => g[d - 1] = f[d - 1]
      BY <3>1
    <3>3. Val(g, d) = Val(f, d)
      <4> HIDE DEF g
      <4> QED BY <3>2
    <3>4. d # n + 1 => f[d] = Val(f, d)
      <4> HIDE DEF Val
      <4> QED BY <2>1, <3>1
    <3>5. g[d] = Val(f, d)
      <4> HIDE DEF Val
      <4> QED BY <3>4
    <3>6. h[d] = Val(g, d)
      <4> HIDE DEF g, Val
      <4> QED OBVIOUS
    <3> HIDE DEF g, h, Val
    <3> QED BY <3>3, <3>5, <3>6
  <2>3. g = h
    <3>1. g = [d \in G |-> g[d]] /\ h = [d \in G |-> h[d]]
      <4> HIDE DEF Val
      <4> QED OBVIOUS
    <3> HIDE DEF g, h, G
    <3> QED BY <2>2, <3>1
  <2>4. Part(n + 1, g)
    <3> HIDE DEF g, Val
    <3> QED BY <2>3
  <2>5. \E ff : Part(n + 1, ff)
    <3> HIDE DEF g, Part
    <3> QED BY <2>4
  <2> HIDE DEF Part
  <2> QED BY <2>5
<1>4. DEPTH \in T
  <2>1. DEPTH \in 0 .. DEPTH
    BY <1>1
  <2> HIDE DEF T
  <2> QED BY <1>1, <1>2, <1>3, <2>1, BoundedInduction
<1> DEFINE w == walk(en, r, s)
<1>5. w = [d \in 0 .. DEPTH |-> Val(w, d)]
  <2>1. \E f : Part(DEPTH, f)
    <3> HIDE DEF Part
    <3> QED BY <1>4
  <2> DEFINE c == CHOOSE f : Part(DEPTH, f)
  <2>2. Part(DEPTH, c)
    <3> HIDE DEF Part
    <3> QED BY <2>1
  <2>3. w = c
    BY Zenon DEF walk, origin
  <2> HIDE DEF c, w
  <2> QED BY <2>2, <2>3
<1>6. \A d \in 0 .. DEPTH : w[d] = Val(w, d)
  <2> HIDE DEF w, Val
  <2> QED BY <1>5
<1>7. w[0] = origin(r)
  <2> HIDE DEF w
  <2> QED BY <1>1, <1>6
<1>8. ASSUME NEW d \in Levels PROVE w[d + 1] = step(en, w[d], s, d)
  <2>1. d + 1 \in 0 .. DEPTH /\ d + 1 # 0 /\ (d + 1) - 1 = d
    BY <1>1 DEF Levels
  <2>2. w[d + 1] = Val(w, d + 1)
    <3> HIDE DEF w, Val
    <3> QED BY <1>6, <2>1
  <2> HIDE DEF w
  <2> QED BY <2>1, <2>2
<1> QED BY <1>7, <1>8

\* A point on a walk: the page it has come to, unless it is lost.
Points == {w \in [p : Links, ok : BOOLEAN, alt : Alts] : w.ok => w.p \in UPages}

\* The page a step puts on the path to a cousin.
cousin(en, w, s, d) ==
  IF ~w.ok \/ en[w.p].id = SECTOR_NONE THEN w.alt[d]
  ELSE IF differs(s, en[w.p].id, d) THEN w.p ELSE en[w.p].alt[d]

\* The three things a step may do.
LEMMA StepCases ==
  ASSUME NEW en \in Entries, NEW w \in Points, NEW s, NEW d \in Levels,
         NEW v, v = step(en, w, s, d)
  PROVE  /\ v \in Points
         /\ v.alt = [w.alt EXCEPT ![d] = cousin(en, w, s, d)]
         /\ v.ok => w.ok /\ en[w.p].id # SECTOR_NONE
         /\ w.ok /\ en[w.p].id # SECTOR_NONE /\ differs(s, en[w.p].id, d) =>
              v.p = en[w.p].alt[d] /\ (v.ok <=> v.p # PAGE_NONE)
         /\ w.ok /\ en[w.p].id # SECTOR_NONE /\ ~differs(s, en[w.p].id, d) =>
              v.p = w.p /\ v.ok
<1>1. /\ w = [p |-> w.p, ok |-> w.ok, alt |-> w.alt]
      /\ w.p \in Links /\ w.ok \in BOOLEAN /\ w.alt \in Alts /\ (w.ok => w.p \in UPages)
  BY DEF Points
<1>2. w.ok => en[w.p].alt \in Alts /\ en[w.p].alt[d] \in Links
  BY <1>1 DEF Entries, Alts
<1>3. \A q \in Links : [w.alt EXCEPT ![d] = q] \in Alts
  BY <1>1 DEF Alts
<1>4. CASE ~w.ok \/ en[w.p].id = SECTOR_NONE
  <2>1. v = [p |-> w.p, ok |-> FALSE, alt |-> w.alt]
    BY <1>1, <1>4 DEF step
  <2>2. w.alt = [w.alt EXCEPT ![d] = w.alt[d]]
    BY <1>1 DEF Alts
  <2> QED BY <1>1, <1>4, <2>1, <2>2 DEF cousin, Points
<1>5. CASE w.ok /\ en[w.p].id # SECTOR_NONE /\ differs(s, en[w.p].id, d)
  <2>1. v = [p |-> en[w.p].alt[d], ok |-> en[w.p].alt[d] # PAGE_NONE,
             alt |-> [w.alt EXCEPT ![d] = w.p]]
    BY <1>5 DEF step
  <2>2. cousin(en, w, s, d) = w.p
    BY <1>5 DEF cousin
  <2> DEFINE q == en[w.p].alt[d]
  <2>3. q \in Links /\ (q # PAGE_NONE => q \in UPages)
    BY <1>2, <1>5 DEF Links
  <2>4. [w.alt EXCEPT ![d] = w.p] \in Alts
    BY <1>1, <1>3
  <2> HIDE DEF q
  <2>5. v = [p |-> q, ok |-> q # PAGE_NONE, alt |-> [w.alt EXCEPT ![d] = w.p]]
    BY <2>1 DEF q
  <2>6. CASE q = PAGE_NONE
    <3>1. v = [p |-> q, ok |-> FALSE, alt |-> [w.alt EXCEPT ![d] = w.p]]
      BY <2>5, <2>6
    <3>2. v \in Points /\ v.p = q /\ ~v.ok /\ v.alt = [w.alt EXCEPT ![d] = w.p]
      BY <2>3, <2>4, <3>1 DEF Points
    <3> QED BY <1>5, <2>2, <2>6, <3>2 DEF q
  <2>7. CASE q # PAGE_NONE
    <3>1. v = [p |-> q, ok |-> TRUE, alt |-> [w.alt EXCEPT ![d] = w.p]]
      BY <2>5, <2>7
    <3>2. v \in Points /\ v.p = q /\ v.ok /\ v.alt = [w.alt EXCEPT ![d] = w.p]
      BY <2>3, <2>4, <2>7, <3>1 DEF Points
    <3> QED BY <1>5, <2>2, <2>7, <3>2 DEF q
  <2> QED BY <2>6, <2>7
<1>6. CASE w.ok /\ en[w.p].id # SECTOR_NONE /\ ~differs(s, en[w.p].id, d)
  <2>1. v = [p |-> w.p, ok |-> TRUE, alt |-> [w.alt EXCEPT ![d] = en[w.p].alt[d]]]
    BY <1>1, <1>6 DEF step
  <2>2. cousin(en, w, s, d) = en[w.p].alt[d]
    BY <1>6 DEF cousin
  <2> QED BY <1>1, <1>2, <1>3, <1>6, <2>1, <2>2 DEF Points
<1> QED BY <1>1, <1>4, <1>5, <1>6

\* A walk over pages: it stays on user pages, and has put nothing yet on the
\* levels it has not come to.
LEMMA WalkTyped ==
  ASSUME NEW en \in Entries, NEW r \in Links, NEW s
  PROVE  \A d \in 0 .. DEPTH :
           /\ walk(en, r, s)[d] \in Points
           /\ \A k \in Levels : k >= d => walk(en, r, s)[d].alt[k] = PAGE_NONE
<1> DEFINE w == walk(en, r, s)
           P == {d \in Nat : /\ w[d] \in Points
                             /\ \A k \in Levels : k >= d => w[d].alt[k] = PAGE_NONE}
<1>1. DEPTH \in Nat \ {0}
  BY BitWeights
<1>2. 0 \in P
  <2>1. origin(r) \in Points
    BY DEF origin, Points, Links, Alts, NoAlts
  <2>2. \A k \in Levels : origin(r).alt[k] = PAGE_NONE
    BY DEF origin, NoAlts
  <2>3. w[0] = origin(r)
    BY WalkSteps
  <2> HIDE DEF w
  <2> QED BY <2>1, <2>2, <2>3
<1>3. ASSUME NEW d \in 0 .. (DEPTH - 1), d \in P PROVE d + 1 \in P
  <2>1. d \in Levels /\ d + 1 \in Nat
    BY DEF Levels
  <2>2. w[d + 1] = step(en, w[d], s, d)
    BY <2>1, WalkSteps
  <2> HIDE DEF w
  <2>3. /\ w[d + 1] \in Points
        /\ w[d + 1].alt = [w[d].alt EXCEPT ![d] = cousin(en, w[d], s, d)]
    BY <1>3, <2>1, <2>2, StepCases
  <2>4. w[d].alt \in Alts
    BY <1>3 DEF Points
  <2>5. ASSUME NEW k \in Levels, k >= d + 1 PROVE w[d + 1].alt[k] = PAGE_NONE
    <3>1. k # d /\ k >= d
      BY <2>1, <2>5 DEF Levels
    <3> QED BY <1>3, <2>3, <2>4, <3>1 DEF Alts
  <2> QED BY <2>1, <2>3, <2>5
<1>4. \A d \in 0 .. DEPTH : d \in P
  <2> HIDE DEF P
  <2> QED BY <1>1, <1>2, <1>3, BoundedInduction
<1> QED BY <1>4

\* One step of a walk, from w to v.
StepOf(en, s, d, w, v) ==
  /\ w \in Points /\ v \in Points
  /\ v.alt = [w.alt EXCEPT ![d] = cousin(en, w, s, d)]
  /\ v.ok => w.ok /\ en[w.p].id # SECTOR_NONE
  /\ w.ok /\ en[w.p].id # SECTOR_NONE /\ differs(s, en[w.p].id, d) =>
       v.p = en[w.p].alt[d] /\ (v.ok <=> v.p # PAGE_NONE)
  /\ w.ok /\ en[w.p].id # SECTOR_NONE /\ ~differs(s, en[w.p].id, d) =>
       v.p = w.p /\ v.ok

\* The steps of a walk are such steps.
LEMMA WalkStep ==
  ASSUME NEW en \in Entries, NEW r \in Links, NEW s, NEW d \in Levels
  PROVE  StepOf(en, s, d, walk(en, r, s)[d], walk(en, r, s)[d + 1])
<1> DEFINE w == walk(en, r, s)[d]
           v == walk(en, r, s)[d + 1]
<1>1. d \in 0 .. DEPTH
  BY BitWeights DEF Levels
<1>2. w \in Points
  BY <1>1, WalkTyped
<1>3. v = step(en, w, s, d)
  BY WalkSteps
<1> HIDE DEF w, v
<1>4. /\ v \in Points
      /\ v.alt = [w.alt EXCEPT ![d] = cousin(en, w, s, d)]
      /\ v.ok => w.ok /\ en[w.p].id # SECTOR_NONE
      /\ w.ok /\ en[w.p].id # SECTOR_NONE /\ differs(s, en[w.p].id, d) =>
           v.p = en[w.p].alt[d] /\ (v.ok <=> v.p # PAGE_NONE)
      /\ w.ok /\ en[w.p].id # SECTOR_NONE /\ ~differs(s, en[w.p].id, d) =>
           v.p = w.p /\ v.ok
  BY <1>2, <1>3, StepCases
<1> QED BY <1>2, <1>4 DEF w, v, StepOf

\* The path that trace_path finds: at each level the cousin of that step.
LEMMA TraceAlt ==
  ASSUME NEW en \in Entries, NEW r \in Links, NEW s, NEW k \in Levels
  PROVE  /\ trace(en, r, s) \in Points
         /\ trace(en, r, s).alt[k] = cousin(en, walk(en, r, s)[k], s, k)
<1> DEFINE w == walk(en, r, s)
           P == {d \in Nat : d > k => w[d].alt[k] = cousin(en, w[k], s, k)}
<1>1. DEPTH \in Nat \ {0} /\ DEPTH > k /\ DEPTH \in 0 .. DEPTH /\ k \in Nat
  BY BitWeights DEF Levels
<1>2. 0 \in P
  BY <1>1
<1>3. ASSUME NEW d \in 0 .. (DEPTH - 1), d \in P PROVE d + 1 \in P
  <2>1. d \in Levels
    BY DEF Levels
  <2>0. StepOf(en, s, d, w[d], w[d + 1])
    BY <2>1, WalkStep
  <2> HIDE DEF w
  <2>2. /\ w[d] \in Points
        /\ w[d + 1].alt = [w[d].alt EXCEPT ![d] = cousin(en, w[d], s, d)]
    BY <2>0 DEF StepOf
  <2>3. w[d + 1].alt[k] = IF k = d THEN cousin(en, w[d], s, d) ELSE w[d].alt[k]
    BY <2>1, <2>2 DEF Points, Alts
  <2> QED BY <1>1, <1>3, <2>1, <2>3
<1>4. DEPTH \in P
  <2> HIDE DEF P
  <2> QED BY <1>1, <1>2, <1>3, BoundedInduction
<1> QED BY <1>1, <1>4, WalkTyped DEF trace

-----------------------------------------------------------------------------
(* Trees                                                                   *)

\* The page a walk to s is on at depth d holds a sector that agrees with s so
\* far.  Only the root may hold none: filler, on which every walk is lost.
OnPath(en, s, d, p) ==
  /\ p \in UPages
  /\ \/ en[p].id \in Sectors /\ Agree(s, en[p].id, d)
     \/ d = 0 /\ en[p].id = SECTOR_NONE

\* Every walk from root r is on such pages.
Walkable(en, r) ==
  /\ r \in Links
  /\ \A s \in Sectors : \A d \in 0 .. DEPTH :
       walk(en, r, s)[d].ok => OnPath(en, s, d, walk(en, r, s)[d].p)

\* The sectors on the tree, their pages, the pages that walks pass, and what
\* dhara_map_read returns.
Mapped(en, r) == {s \in Sectors : trace(en, r, s).ok}
Live(en, r) == {trace(en, r, s).p : s \in Mapped(en, r)}
Nodes(en, r) == Live(en, r) \cup {r}
Value(en, r) ==
  [s \in Sectors |->
     IF trace(en, r, s).ok THEN en[trace(en, r, s).p].data ELSE MISSING]

\* The pages em hold what the pages en hold on P.
Same(en, em, P) == \A p \in P \cap UPages : em[p] = en[p]

\* Of three sectors two have the same bit.
LEMMA Bits ==
  ASSUME NEW s \in Sectors, NEW t \in Sectors, NEW u \in Sectors, NEW k \in Levels
  PROVE  /\ ~differs(s, s, k)
         /\ differs(s, t, k) <=> differs(t, s, k)
         /\ ~differs(s, t, k) => (differs(s, u, k) <=> differs(t, u, k))
         /\ differs(s, t, k) => (differs(s, u, k) <=> ~differs(t, u, k))
<1>1. d_bit[k] \in Nat \ {0} /\ DEPTH \in Nat \ {0}
  BY BitWeights
<1>2. \A x \in Sectors : x \in Nat
  <2>1. 0 \in Levels
    BY <1>1 DEF Levels
  <2>2. d_bit[0] \in Nat
    BY <2>1, BitWeights
  <2> QED BY <2>2, MapAssumption
<1>3. \A x \in Sectors : (x \div d_bit[k]) % 2 \in {0, 1}
  <2> TAKE x \in Sectors
  <2>1. x \div d_bit[k] \in Nat
    BY <1>1, <1>2
  <2> QED BY <2>1
<1> QED BY <1>3 DEF differs

\* Walks to sectors that agree are the same so far.
LEMMA SameWalk ==
  ASSUME NEW en, NEW r, NEW s \in Sectors, NEW t \in Sectors,
         NEW n \in 0 .. DEPTH, Agree(s, t, n)
  PROVE  walk(en, r, s)[n] = walk(en, r, t)[n]
<1> DEFINE P == {d \in Nat : d <= n => walk(en, r, s)[d] = walk(en, r, t)[d]}
<1>1. DEPTH \in Nat \ {0}
  BY BitWeights
<1>2. 0 \in P
  BY WalkSteps
<1>3. ASSUME NEW d \in 0 .. (n - 1), d \in P PROVE d + 1 \in P
  <2>1. d \in Levels /\ walk(en, r, s)[d] = walk(en, r, t)[d]
    BY <1>1, <1>3 DEF Levels
  <2>2. \A x : differs(s, x, d) <=> differs(t, x, d)
    BY <1>3 DEF Agree, differs
  <2>3. /\ walk(en, r, s)[d + 1] = step(en, walk(en, r, s)[d], s, d)
        /\ walk(en, r, t)[d + 1] = step(en, walk(en, r, t)[d], t, d)
    BY <2>1, WalkSteps
  <2>4. \A w : step(en, w, s, d) = step(en, w, t, d)
    BY <2>2 DEF step
  <2> QED BY <2>1, <2>3, <2>4
<1>4. n \in P
  <2>1. n \in Nat /\ n \in 0 .. n
    BY <1>1
  <2> HIDE DEF P
  <2> QED BY <1>2, <1>3, <2>1, BoundedInduction
<1> QED BY <1>4, <1>1

\* A walk that is lost stays lost.
LEMMA Lost ==
  ASSUME NEW en \in Entries, NEW r \in Links, NEW s,
         NEW n \in 0 .. DEPTH, ~walk(en, r, s)[n].ok,
         NEW e \in n .. DEPTH
  PROVE  ~walk(en, r, s)[e].ok
<1> DEFINE P == {d \in Nat : d >= n => ~walk(en, r, s)[d].ok}
<1>1. DEPTH \in Nat \ {0} /\ n \in Nat
  BY BitWeights
<1>2. 0 \in P
  BY <1>1
<1>3. ASSUME NEW d \in 0 .. (DEPTH - 1), d \in P PROVE d + 1 \in P
  <2>1. d \in Levels
    BY DEF Levels
  <2>2. walk(en, r, s)[d + 1].ok => walk(en, r, s)[d].ok
    BY <2>1, WalkStep DEF StepOf
  <2> QED BY <1>1, <1>3, <2>2
<1>4. e \in P
  <2>1. e \in 0 .. DEPTH
    BY <1>1
  <2> HIDE DEF P
  <2> QED BY <1>1, <1>2, <1>3, <2>1, BoundedInduction
<1> QED BY <1>4

\* A walk to the sector of the page it is on stays there, and takes the path
\* from that page's metadata.
LEMMA OwnWalk ==
  ASSUME NEW en \in Entries, NEW r \in Links, NEW p \in UPages, en[p].id \in Sectors,
         NEW n \in 0 .. DEPTH,
         walk(en, r, en[p].id)[n].ok, walk(en, r, en[p].id)[n].p = p
  PROVE  /\ \A e \in n .. DEPTH : walk(en, r, en[p].id)[e].ok /\ walk(en, r, en[p].id)[e].p = p
         /\ \A k \in Levels : k >= n => trace(en, r, en[p].id).alt[k] = en[p].alt[k]
<1> DEFINE s == en[p].id
           w(d) == walk(en, r, s)[d]
           P == {d \in Nat : d >= n => w(d).ok /\ w(d).p = p}
<1>1. DEPTH \in Nat \ {0} /\ n \in Nat
  BY BitWeights
<1>2. 0 \in P
  BY <1>1
<1>3. ASSUME NEW d \in 0 .. (DEPTH - 1), d \in P PROVE d + 1 \in P
  <2>1. d \in Levels
    BY DEF Levels
  <2>2. CASE d >= n
    <3>1. w(d).ok /\ w(d).p = p /\ en[p].id # SECTOR_NONE /\ ~differs(s, en[p].id, d)
      BY <1>3, <2>1, <2>2, MapAssumption DEF differs
    <3>2. w(d).ok /\ en[w(d).p].id # SECTOR_NONE /\ ~differs(s, en[w(d).p].id, d) =>
            w(d + 1).p = w(d).p /\ w(d + 1).ok
      BY <2>1, WalkStep DEF StepOf
    <3>3. w(d + 1).p = p /\ w(d + 1).ok
      <4> HIDE DEF w, s
      <4> QED BY <3>1, <3>2
    <3> QED BY <3>3
  <2>3. CASE d + 1 = n
    BY <2>3
  <2>4. CASE d + 1 < n
    BY <1>1, <2>4
  <2> QED BY <1>1, <2>2, <2>3, <2>4
<1>4. \A e \in 0 .. DEPTH : e \in P
  <2> HIDE DEF P
  <2> QED BY <1>1, <1>2, <1>3, BoundedInduction
<1>5. \A e \in n .. DEPTH : w(e).ok /\ w(e).p = p
  BY <1>1, <1>4
<1>6. ASSUME NEW k \in Levels, k >= n PROVE trace(en, r, s).alt[k] = en[p].alt[k]
  <2>1. k \in n .. DEPTH
    BY <1>1, <1>6 DEF Levels
  <2>2. w(k).ok /\ w(k).p = p
    BY <1>5, <2>1
  <2>3. en[p].id # SECTOR_NONE /\ ~differs(s, en[p].id, k)
    BY MapAssumption DEF differs
  <2>4. cousin(en, w(k), s, k) = en[p].alt[k]
    BY <2>2, <2>3 DEF cousin
  <2> QED BY <2>4, TraceAlt
<1> QED BY <1>5, <1>6

\* The page of a mapped sector holds that sector.
LEMMA MappedPage ==
  ASSUME NEW en \in Entries, NEW r, Walkable(en, r), NEW s \in Mapped(en, r)
  PROVE  /\ s \in Sectors /\ trace(en, r, s).p \in UPages
         /\ en[trace(en, r, s).p].id = s
         /\ trace(en, r, s).p \in Live(en, r)
<1> DEFINE p == trace(en, r, s).p
<1>1. DEPTH \in Nat \ {0} /\ DEPTH \in 0 .. DEPTH
  BY BitWeights
<1>2. s \in Sectors /\ trace(en, r, s).ok /\ p \in Live(en, r)
  BY DEF Mapped, Live
<1>3. OnPath(en, s, DEPTH, p)
  BY <1>1, <1>2 DEF Walkable, trace
<1>4. p \in UPages /\ en[p].id \in Sectors /\ Agree(s, en[p].id, DEPTH)
  BY <1>1, <1>3 DEF OnPath
<1>5. s = en[p].id
  <2>1. \A k \in Levels : ~differs(s, en[p].id, k)
    BY <1>1, <1>4 DEF Agree, Levels
  <2> HIDE DEF p
  <2> QED BY <1>2, <1>4, <2>1, SameBits
<1> QED BY <1>2, <1>4, <1>5

\* A page that holds a sector and is on the way to another is on the tree.
LEMMA VisitedIsLive ==
  ASSUME NEW en \in Entries, NEW r, Walkable(en, r),
         NEW s \in Sectors, NEW d \in 0 .. DEPTH, walk(en, r, s)[d].ok,
         NEW p, p = walk(en, r, s)[d].p, en[p].id # SECTOR_NONE
  PROVE  /\ p \in UPages /\ en[p].id \in Mapped(en, r)
         /\ trace(en, r, en[p].id).p = p /\ p \in Live(en, r)
         /\ Agree(s, en[p].id, d)
<1>1. DEPTH \in Nat \ {0} /\ DEPTH \in d .. DEPTH /\ r \in Links
  BY BitWeights DEF Walkable
<1>2. p \in UPages /\ en[p].id \in Sectors /\ Agree(s, en[p].id, d)
  BY DEF Walkable, OnPath
<1>3. walk(en, r, en[p].id)[d] = walk(en, r, s)[d]
  BY <1>2, SameWalk
<1>4. trace(en, r, en[p].id).ok /\ trace(en, r, en[p].id).p = p
  BY <1>1, <1>2, <1>3, OwnWalk DEF trace
<1> QED BY <1>2, <1>4 DEF Mapped, Live

\* What a walk visits is among the nodes.
LEMMA VisitedIsNode ==
  ASSUME NEW en \in Entries, NEW r, Walkable(en, r),
         NEW s \in Sectors, NEW d \in 0 .. DEPTH, walk(en, r, s)[d].ok
  PROVE  walk(en, r, s)[d].p \in Nodes(en, r) \cap UPages
<1> DEFINE p == walk(en, r, s)[d].p
<1>1. OnPath(en, s, d, p)
  BY DEF Walkable
<1>2. CASE en[p].id # SECTOR_NONE
  BY <1>1, <1>2, VisitedIsLive DEF Nodes, OnPath
<1>3. CASE en[p].id = SECTOR_NONE
  <2>1. d = 0 /\ p \in UPages
    BY <1>1, <1>3, MapAssumption DEF OnPath
  <2>2. walk(en, r, s)[0].p = r
    <3>1. walk(en, r, s)[0] = origin(r)
      BY WalkSteps
    <3> QED BY <3>1 DEF origin
  <2> QED BY <2>1, <2>2 DEF Nodes
<1> QED BY <1>2, <1>3

\* A tree has as many pages as sectors.
LEMMA LiveCount ==
  ASSUME NEW en \in Entries, NEW r, Walkable(en, r)
  PROVE  /\ IsFiniteSet(Mapped(en, r)) /\ IsFiniteSet(Live(en, r))
         /\ Cardinality(Live(en, r)) = Cardinality(Mapped(en, r))
         /\ Cardinality(Mapped(en, r)) \in 0 .. Cardinality(Sectors)
         /\ Live(en, r) \subseteq UPages
<1>1. IsFiniteSet(Sectors)
  <2>1. 0 \in Levels
    BY BitWeights DEF Levels
  <2>2. 2 * d_bit[0] - 1 \in Int
    BY <2>1, BitWeights
  <2>3. IsFiniteSet(0 .. (2 * d_bit[0] - 1))
    BY <2>2, FS_Interval
  <2> QED BY <2>3, FS_Subset, MapAssumption
<1>2. /\ IsFiniteSet(Mapped(en, r))
      /\ Cardinality(Mapped(en, r)) \in 0 .. Cardinality(Sectors)
  <2>1. Mapped(en, r) \subseteq Sectors
    BY DEF Mapped
  <2>2. IsFiniteSet(Mapped(en, r)) /\ Cardinality(Mapped(en, r)) <= Cardinality(Sectors)
    BY <1>1, <2>1, FS_Subset
  <2> QED BY <1>1, <2>2, FS_CardinalityType
<1> DEFINE f == [s \in Mapped(en, r) |-> trace(en, r, s).p]
<1>3. f \in Bijection(Mapped(en, r), Live(en, r))
  <2>1. f \in [Mapped(en, r) -> Live(en, r)]
    BY DEF Live
  <2>2. ASSUME NEW a \in Mapped(en, r), NEW b \in Mapped(en, r), f[a] = f[b]
        PROVE  a = b
    BY <2>2, MappedPage
  <2>3. ASSUME NEW p \in Live(en, r) PROVE \E s \in Mapped(en, r) : f[s] = p
    BY DEF Live
  <2> HIDE DEF f
  <2> QED BY <2>1, <2>2, <2>3 DEF Bijection, Injection, Surjection, IsInjective
<1>4. IsFiniteSet(Live(en, r)) /\ Cardinality(Live(en, r)) = Cardinality(Mapped(en, r))
  <2> HIDE DEF f
  <2> QED BY <1>2, <1>3, FS_Bijection DEF ExistsBijection
<1>5. Live(en, r) \subseteq UPages
  BY MappedPage DEF Live
<1> QED BY <1>2, <1>4, <1>5

\* Walks on the same page make the same step.
LEMMA StepsMatch ==
  ASSUME NEW en, NEW em, NEW s, NEW d, NEW w, NEW w2, NEW v, NEW v2,
         StepOf(en, s, d, w, w2), StepOf(em, s, d, v, v2),
         w.ok, v.ok, v.p = w.p, em[w.p] = en[w.p]
  PROVE  (v2.ok <=> w2.ok) /\ (w2.ok => v2.p = w2.p)
  BY DEF StepOf, Points

\* Two walks that have met on a tree stay together, when the pages of the tree
\* are the same for both.
LEMMA SameFrom ==
  ASSUME NEW en \in Entries, NEW em \in Entries, NEW r, Walkable(en, r),
         Same(en, em, Nodes(en, r)),
         NEW q \in Links, NEW s \in Sectors, NEW n \in 0 .. DEPTH,
         walk(em, q, s)[n].ok <=> walk(en, r, s)[n].ok,
         walk(en, r, s)[n].ok => walk(em, q, s)[n].p = walk(en, r, s)[n].p,
         NEW e \in n .. DEPTH
  PROVE  /\ walk(em, q, s)[e].ok <=> walk(en, r, s)[e].ok
         /\ walk(en, r, s)[e].ok => walk(em, q, s)[e].p = walk(en, r, s)[e].p
<1> DEFINE v(d) == walk(em, q, s)[d]
           w(d) == walk(en, r, s)[d]
           P == {d \in Nat : d >= n => /\ v(d).ok <=> w(d).ok
                                       /\ w(d).ok => v(d).p = w(d).p}
<1>1. DEPTH \in Nat \ {0} /\ n \in Nat /\ r \in Links
  BY BitWeights DEF Walkable
<1>2. 0 \in P
  BY <1>1
<1>3. ASSUME NEW d \in 0 .. (DEPTH - 1), d \in P PROVE d + 1 \in P
  <2>1. d \in Levels /\ d \in 0 .. DEPTH
    BY <1>1 DEF Levels
  <2>2. CASE d >= n
    <3>1. /\ v(d + 1).ok => v(d).ok
          /\ w(d + 1).ok => w(d).ok
      BY <1>1, <2>1, WalkStep DEF StepOf
    <3>2. CASE ~w(d).ok
      BY <1>3, <2>1, <2>2, <3>1, <3>2
    <3>3. CASE w(d).ok
      <4>1. v(d).ok /\ v(d).p = w(d).p /\ em[w(d).p] = en[w(d).p]
        BY <1>3, <2>1, <2>2, <3>3, VisitedIsNode DEF Same
      <4>2. StepOf(en, s, d, w(d), w(d + 1)) /\ StepOf(em, s, d, v(d), v(d + 1))
        BY <1>1, <2>1, WalkStep
      <4> HIDE DEF v, w
      <4>3. /\ v(d + 1).ok <=> w(d + 1).ok
            /\ w(d + 1).ok => v(d + 1).p = w(d + 1).p
        BY <3>3, <4>1, <4>2, StepsMatch
      <4> QED BY <2>1, <4>3 DEF Levels
    <3> QED BY <3>2, <3>3
  <2>3. CASE d + 1 = n
    BY <2>3
  <2>4. CASE d + 1 < n
    BY <1>1, <2>4
  <2> QED BY <1>1, <2>2, <2>3, <2>4
<1>4. e \in P
  <2>1. e \in 0 .. DEPTH
    BY <1>1
  <2> HIDE DEF P
  <2> QED BY <1>1, <1>2, <1>3, <2>1, BoundedInduction
<1> QED BY <1>4, <1>1

\* A tree stays when the pages it consists of do.
LEMMA Stable ==
  ASSUME NEW en \in Entries, NEW em \in Entries, NEW r, Walkable(en, r),
         Same(en, em, Nodes(en, r))
  PROVE  /\ Walkable(em, r)
         /\ \A s \in Sectors : /\ trace(em, r, s).ok <=> trace(en, r, s).ok
                               /\ trace(en, r, s).ok => trace(em, r, s).p = trace(en, r, s).p
         /\ Mapped(em, r) = Mapped(en, r)
         /\ Live(em, r) = Live(en, r)
         /\ Value(em, r) = Value(en, r)
<1>1. DEPTH \in Nat \ {0} /\ r \in Links
  BY BitWeights DEF Walkable
<1>2. ASSUME NEW s \in Sectors, NEW e \in 0 .. DEPTH
      PROVE  /\ walk(em, r, s)[e].ok <=> walk(en, r, s)[e].ok
             /\ walk(en, r, s)[e].ok => walk(em, r, s)[e].p = walk(en, r, s)[e].p
  <2>1. walk(em, r, s)[0] = walk(en, r, s)[0]
    BY WalkSteps
  <2> QED BY <1>1, <2>1, SameFrom
<1>3. Walkable(em, r)
  <2> SUFFICES ASSUME NEW s \in Sectors, NEW d \in 0 .. DEPTH, walk(em, r, s)[d].ok
               PROVE  OnPath(em, s, d, walk(em, r, s)[d].p)
    BY <1>1 DEF Walkable
  <2> DEFINE p == walk(en, r, s)[d].p
  <2>1. walk(en, r, s)[d].ok /\ walk(em, r, s)[d].p = p
    BY <1>2
  <2>2. OnPath(en, s, d, p) /\ p \in Nodes(en, r) \cap UPages
    BY <2>1, VisitedIsNode DEF Walkable
  <2> QED BY <2>1, <2>2 DEF OnPath, Same
<1>4. \A s \in Sectors : /\ trace(em, r, s).ok <=> trace(en, r, s).ok
                         /\ trace(en, r, s).ok => trace(em, r, s).p = trace(en, r, s).p
  BY <1>1, <1>2 DEF trace
<1>5. Mapped(em, r) = Mapped(en, r)
  BY <1>4 DEF Mapped
<1>6. Live(em, r) = Live(en, r)
  BY <1>4, <1>5 DEF Live, Mapped
<1>7. Value(em, r) = Value(en, r)
  <2> SUFFICES ASSUME NEW s \in Sectors, trace(en, r, s).ok
               PROVE  em[trace(em, r, s).p].data = en[trace(en, r, s).p].data
    BY <1>4 DEF Value
  <2>1. trace(en, r, s).p \in Nodes(en, r) \cap UPages
    BY MappedPage DEF Mapped, Nodes
  <2> QED BY <1>4, <2>1 DEF Same
<1> QED BY <1>3, <1>4, <1>5, <1>6, <1>7

\* Page n is the new root for sector c, and at each level it has the path of c
\* on the old tree or no page: the walk to another sector, which leaves the new
\* root at level k, goes on as on the old tree or is lost.
LEMMA GraftedWalk ==
  ASSUME NEW en \in Entries, NEW em \in Entries, NEW r, Walkable(en, r),
         Same(en, em, Nodes(en, r)),
         NEW n \in UPages, NEW c \in Sectors, em[n].id = c,
         NEW s \in Sectors, NEW k \in Levels, Agree(s, c, k), differs(s, c, k),
         em[n].alt[k] \in {trace(en, r, c).alt[k], PAGE_NONE}
  PROVE  /\ \A d \in 0 .. k : walk(em, n, s)[d].ok /\ walk(em, n, s)[d].p = n
         /\ \A e \in (k + 1) .. DEPTH :
              IF em[n].alt[k] = trace(en, r, c).alt[k]
                THEN /\ walk(em, n, s)[e].ok <=> walk(en, r, s)[e].ok
                     /\ walk(en, r, s)[e].ok => walk(em, n, s)[e].p = walk(en, r, s)[e].p
                ELSE ~walk(em, n, s)[e].ok
<1>1. /\ DEPTH \in Nat \ {0} /\ r \in Links /\ n \in Links /\ k \in 0 .. DEPTH
      /\ k + 1 \in 0 .. DEPTH /\ k \in Nat
  BY BitWeights DEF Walkable, Levels, Links
<1>2. ASSUME NEW d \in 0 .. k
      PROVE  walk(em, n, s)[d].ok /\ walk(em, n, s)[d].p = n
  <2>1. Agree(s, c, d) /\ d \in 0 .. DEPTH
    BY <1>1 DEF Agree
  <2>2. walk(em, n, s)[d] = walk(em, n, c)[d]
    BY <2>1, SameWalk
  <2>3. walk(em, n, c)[0] = origin(n)
    BY WalkSteps
  <2>4. walk(em, n, c)[0].ok /\ walk(em, n, c)[0].p = n
    BY <2>3, StartsAt
  <2>5. walk(em, n, c)[d].ok /\ walk(em, n, c)[d].p = n
    BY <1>1, <2>1, <2>4, OwnWalk
  <2> QED BY <2>2, <2>5
<1> DEFINE v == walk(em, n, s)[k]
           v2 == walk(em, n, s)[k + 1]
           w == walk(en, r, s)[k]
           w2 == walk(en, r, s)[k + 1]
           a == em[n].alt[k]
           b == trace(en, r, c).alt[k]
<1>3. v2.p = a /\ (v2.ok <=> a # PAGE_NONE)
  <2>1. StepOf(em, s, k, v, v2)
    BY <1>1, WalkStep
  <2>2. v.ok /\ v.p = n
    BY <1>1, <1>2
  <2>3. c # SECTOR_NONE
    BY MapAssumption
  <2> HIDE DEF v, v2
  <2> QED BY <2>1, <2>2, <2>3 DEF StepOf
<1>4. (w2.ok <=> b # PAGE_NONE) /\ (w2.ok => w2.p = b)
  <2>1. StepOf(en, s, k, w, w2)
    BY <1>1, WalkStep
  <2>2. b = cousin(en, walk(en, r, c)[k], c, k)
    BY <1>1, TraceAlt
  <2>3. walk(en, r, c)[k] = w
    BY <1>1, SameWalk
  <2>4. w.alt[k] = PAGE_NONE
    BY <1>1, WalkTyped
  <2>5. w.ok => /\ w.p \in UPages /\ w.p # PAGE_NONE
                /\ en[w.p].id \in Sectors \cup {SECTOR_NONE}
    BY <2>1, PageNone DEF StepOf, Points, Entries
  <2>6. b = cousin(en, w, c, k)
    BY <2>2, <2>3
  <2> HIDE DEF w, w2, b
  <2>7. CASE ~w.ok \/ en[w.p].id = SECTOR_NONE
    BY <2>1, <2>4, <2>6, <2>7 DEF StepOf, cousin
  <2>8. CASE w.ok /\ en[w.p].id # SECTOR_NONE
    <3>1. differs(s, en[w.p].id, k) <=> ~differs(c, en[w.p].id, k)
      BY <2>5, <2>8, Bits
    <3> QED BY <2>1, <2>5, <2>6, <2>8, <3>1 DEF StepOf, cousin
  <2> QED BY <2>7, <2>8
<1>5. ASSUME NEW e \in (k + 1) .. DEPTH, a = b
      PROVE  /\ walk(em, n, s)[e].ok <=> walk(en, r, s)[e].ok
             /\ walk(en, r, s)[e].ok => walk(em, n, s)[e].p = walk(en, r, s)[e].p
  <2>1. (v2.ok <=> w2.ok) /\ (w2.ok => v2.p = w2.p)
    <3> HIDE DEF a, b, v2, w2
    <3> QED BY <1>3, <1>4, <1>5
  <2> QED BY <1>1, <2>1, SameFrom
<1>6. ASSUME NEW e \in (k + 1) .. DEPTH, a # b
      PROVE  ~walk(em, n, s)[e].ok
  <2>1. a = PAGE_NONE
    BY <1>6
  <2>2. ~v2.ok
    <3> HIDE DEF a, v2
    <3> QED BY <1>3, <2>1
  <2> QED BY <1>1, <2>2, Lost
<1> QED BY <1>2, <1>5, <1>6

\* The new root's tree.
LEMMA Graft ==
  ASSUME NEW en \in Entries, NEW em \in Entries, NEW r, Walkable(en, r),
         Same(en, em, Nodes(en, r)),
         NEW n \in UPages, NEW c \in Sectors, em[n].id = c,
         \A k \in Levels : em[n].alt[k] \in {trace(en, r, c).alt[k], PAGE_NONE}
  PROVE  /\ Walkable(em, n)
         /\ trace(em, n, c).ok /\ trace(em, n, c).p = n
         /\ \A s \in Sectors : \A k \in Levels :
              Agree(s, c, k) /\ differs(s, c, k) =>
                IF em[n].alt[k] = trace(en, r, c).alt[k]
                  THEN /\ trace(em, n, s).ok <=> trace(en, r, s).ok
                       /\ trace(en, r, s).ok => trace(em, n, s).p = trace(en, r, s).p
                  ELSE ~trace(em, n, s).ok
<1>1. DEPTH \in Nat \ {0} /\ r \in Links /\ n \in Links
  BY BitWeights DEF Walkable, Links
<1>2. \A d \in 0 .. DEPTH : walk(em, n, c)[d].ok /\ walk(em, n, c)[d].p = n
  <2>1. walk(em, n, c)[0] = origin(n)
    BY WalkSteps
  <2>2. walk(em, n, c)[0].ok /\ walk(em, n, c)[0].p = n
    BY <2>1, StartsAt
  <2> QED BY <1>1, <2>2, OwnWalk
<1>3. ASSUME NEW s \in Sectors, NEW d \in 0 .. DEPTH, walk(em, n, s)[d].ok
      PROVE  OnPath(em, s, d, walk(em, n, s)[d].p)
  <2>1. CASE s = c
    <3>1. Agree(c, c, d)
      BY DEF Agree, differs
    <3> QED BY <1>2, <2>1, <3>1 DEF OnPath
  <2>2. CASE s # c
    <3>1. PICK k \in Levels : Agree(s, c, k) /\ differs(s, c, k)
      BY <2>2, FirstDifference
    <3>2. CASE d <= k
      <4>1. walk(em, n, s)[d].p = n
        BY <3>1, <3>2, GraftedWalk DEF Levels
      <4>2. Agree(s, c, d)
        BY <3>1, <3>2 DEF Agree, Levels
      <4> QED BY <4>1, <4>2 DEF OnPath
    <3>3. CASE d > k
      <4>1. d \in (k + 1) .. DEPTH /\ d # 0
        BY <1>1, <3>3 DEF Levels
      <4>2. walk(en, r, s)[d].ok /\ walk(em, n, s)[d].p = walk(en, r, s)[d].p
        BY <1>3, <3>1, <4>1, GraftedWalk
      <4>3. /\ OnPath(en, s, d, walk(en, r, s)[d].p)
            /\ walk(en, r, s)[d].p \in Nodes(en, r) \cap UPages
        BY <4>2, VisitedIsNode DEF Walkable
      <4> QED BY <4>2, <4>3 DEF OnPath, Same
    <3> QED BY <1>1, <3>2, <3>3 DEF Levels
  <2> QED BY <2>1, <2>2
<1>4. Walkable(em, n)
  BY <1>1, <1>3 DEF Walkable
<1>5. ASSUME NEW s \in Sectors, NEW k \in Levels, Agree(s, c, k), differs(s, c, k)
      PROVE  IF em[n].alt[k] = trace(en, r, c).alt[k]
               THEN /\ trace(em, n, s).ok <=> trace(en, r, s).ok
                    /\ trace(en, r, s).ok => trace(em, n, s).p = trace(en, r, s).p
               ELSE ~trace(em, n, s).ok
  <2>1. DEPTH \in (k + 1) .. DEPTH
    BY <1>1 DEF Levels
  <2> QED BY <1>5, <2>1, GraftedWalk DEF trace
<1> QED BY <1>1, <1>2, <1>4, <1>5 DEF trace

\* Page q is on the other side of level d than sector s.
Cousin(en, s, d, q) ==
  q \in UPages /\ en[q].id \in Sectors /\ Agree(s, en[q].id, d) /\ differs(s, en[q].id, d)

\* The pages en hold a tree at root r: every walk goes over its pages, and the
\* path that trace_path finds consists of cousins.
IsTree(en, r) ==
  /\ Walkable(en, r)
  /\ \A s \in Sectors : \A d \in Levels :
       trace(en, r, s).alt[d] # PAGE_NONE => Cousin(en, s, d, trace(en, r, s).alt[d])

\* A cousin is on the tree.
LEMMA CousinIsLive ==
  ASSUME NEW en \in Entries, NEW r, IsTree(en, r), NEW s \in Sectors, NEW d \in Levels,
         NEW q, q = trace(en, r, s).alt[d], q # PAGE_NONE
  PROVE  /\ Cousin(en, s, d, q)
         /\ en[q].id \in Mapped(en, r) /\ trace(en, r, en[q].id).p = q
         /\ q \in Live(en, r)
         /\ walk(en, r, s)[d].ok
         /\ walk(en, r, en[q].id)[d + 1].ok /\ walk(en, r, en[q].id)[d + 1].p = q
<1>1. Cousin(en, s, d, q)
  BY DEF IsTree
<1>2. /\ DEPTH \in Nat \ {0} /\ r \in Links /\ d \in 0 .. DEPTH /\ d + 1 \in 0 .. DEPTH
      /\ Walkable(en, r)
  BY BitWeights DEF IsTree, Walkable, Levels
<1> DEFINE c == en[q].id
           w == walk(en, r, s)[d]
           v == walk(en, r, c)[d + 1]
<1>3. c \in Sectors /\ Agree(s, c, d) /\ differs(s, c, d) /\ q \in UPages
  BY <1>1 DEF Cousin
<1>4. walk(en, r, c)[d] = w
  BY <1>2, <1>3, SameWalk
<1>5. q = cousin(en, w, s, d) /\ w.alt[d] = PAGE_NONE
  BY <1>2, TraceAlt, WalkTyped
<1>6. StepOf(en, c, d, w, v)
  <2>1. StepOf(en, c, d, walk(en, r, c)[d], v)
    BY <1>2, WalkStep
  <2> QED BY <1>4, <2>1
<1>7. w.ok /\ en[w.p].id # SECTOR_NONE
  <2> HIDE DEF w
  <2> QED BY <1>5 DEF cousin
<1>8. v.ok /\ v.p = q
  <2>1. w.p \in UPages /\ en[w.p].id \in Sectors
    <3> HIDE DEF w, v
    <3> QED BY <1>6, <1>7 DEF StepOf, Points, Entries
  <2>2. differs(s, en[w.p].id, d) <=> ~differs(c, en[w.p].id, d)
    <3> HIDE DEF w, c
    <3> QED BY <1>3, <2>1, Bits
  <2> HIDE DEF w, v, c
  <2> QED BY <1>5, <1>6, <1>7, <2>2 DEF StepOf, cousin
<1>9. c \in Mapped(en, r) /\ trace(en, r, c).p = q /\ q \in Live(en, r)
  <2>1. c # SECTOR_NONE
    BY <1>3, MapAssumption
  <2> QED BY <1>2, <1>3, <1>8, <2>1, VisitedIsLive
<1> QED BY <1>1, <1>7, <1>8, <1>9

\* Where two walks are on the same page, the paths get the same page.
LEMMA SamePath ==
  ASSUME NEW en \in Entries, NEW em \in Entries, NEW r \in Links, NEW q \in Links,
         NEW s, NEW d \in Levels,
         walk(em, q, s)[d].ok <=> walk(en, r, s)[d].ok,
         walk(en, r, s)[d].ok => /\ walk(em, q, s)[d].p = walk(en, r, s)[d].p
                                 /\ em[walk(en, r, s)[d].p] = en[walk(en, r, s)[d].p]
  PROVE  trace(em, q, s).alt[d] = trace(en, r, s).alt[d]
<1>1. d \in 0 .. DEPTH
  BY BitWeights DEF Levels
<1> DEFINE v == walk(em, q, s)[d]
           w == walk(en, r, s)[d]
<1>2. /\ trace(em, q, s).alt[d] = cousin(em, v, s, d)
      /\ trace(en, r, s).alt[d] = cousin(en, w, s, d)
  BY TraceAlt
<1>3. v.alt[d] = PAGE_NONE /\ w.alt[d] = PAGE_NONE
  BY <1>1, WalkTyped
<1>4. (v.ok <=> w.ok) /\ (w.ok => v.p = w.p /\ em[w.p] = en[w.p])
  OBVIOUS
<1>5. cousin(em, v, s, d) = cousin(en, w, s, d)
  <2> HIDE DEF v, w
  <2> QED BY <1>3, <1>4 DEF cousin
<1> QED BY <1>2, <1>5

\* A tree stays when the pages it consists of do.
LEMMA StableTree ==
  ASSUME NEW en \in Entries, NEW em \in Entries, NEW r, IsTree(en, r),
         Same(en, em, Nodes(en, r))
  PROVE  /\ IsTree(em, r)
         /\ \A s \in Sectors : /\ trace(em, r, s).ok <=> trace(en, r, s).ok
                               /\ trace(en, r, s).ok => trace(em, r, s).p = trace(en, r, s).p
         /\ Mapped(em, r) = Mapped(en, r)
         /\ Live(em, r) = Live(en, r)
         /\ Value(em, r) = Value(en, r)
<1>1. Walkable(en, r) /\ r \in Links
  BY DEF IsTree, Walkable
<1>2. ASSUME NEW s \in Sectors, NEW d \in Levels
      PROVE  trace(em, r, s).alt[d] = trace(en, r, s).alt[d]
  <2>1. d \in 0 .. DEPTH /\ 0 \in 0 .. DEPTH /\ d \in 0 .. DEPTH
    BY BitWeights DEF Levels
  <2>2. walk(em, r, s)[0] = walk(en, r, s)[0]
    BY WalkSteps
  <2>3. /\ walk(em, r, s)[d].ok <=> walk(en, r, s)[d].ok
        /\ walk(en, r, s)[d].ok => walk(em, r, s)[d].p = walk(en, r, s)[d].p
    BY <1>1, <2>1, <2>2, SameFrom
  <2>4. walk(en, r, s)[d].ok => em[walk(en, r, s)[d].p] = en[walk(en, r, s)[d].p]
    BY <1>1, <2>1, VisitedIsNode DEF Same
  <2> QED BY <1>1, <2>3, <2>4, SamePath
<1>3. ASSUME NEW s \in Sectors, NEW d \in Levels, trace(em, r, s).alt[d] # PAGE_NONE
      PROVE  Cousin(em, s, d, trace(em, r, s).alt[d])
  <2> DEFINE q == trace(en, r, s).alt[d]
  <2>1. trace(em, r, s).alt[d] = q /\ q # PAGE_NONE
    BY <1>2, <1>3
  <2>2. Cousin(en, s, d, q) /\ q \in Live(en, r)
    BY <2>1, CousinIsLive
  <2>3. em[q] = en[q]
    BY <2>2 DEF Cousin, Same, Nodes
  <2> HIDE DEF q
  <2> QED BY <2>1, <2>2, <2>3 DEF Cousin
<1> QED BY <1>1, <1>3, Stable DEF IsTree

\* The new root's tree is a tree.
LEMMA GraftTree ==
  ASSUME NEW en \in Entries, NEW em \in Entries, NEW r, IsTree(en, r),
         Same(en, em, Nodes(en, r)),
         NEW n \in UPages, NEW c \in Sectors, em[n].id = c,
         \A k \in Levels : em[n].alt[k] \in {trace(en, r, c).alt[k], PAGE_NONE}
  PROVE  IsTree(em, n)
<1>1. /\ Walkable(en, r) /\ r \in Links /\ n \in Links /\ DEPTH \in Nat \ {0}
      /\ \A k \in Levels : k \in 0 .. DEPTH /\ k \in Nat
  BY BitWeights DEF IsTree, Walkable, Links, Levels
<1>2. Walkable(em, n)
  BY <1>1, Graft
<1>3. ASSUME NEW d \in Levels, em[n].alt[d] # PAGE_NONE
      PROVE  Cousin(em, c, d, em[n].alt[d])
  <2> DEFINE q == em[n].alt[d]
  <2>1. q = trace(en, r, c).alt[d]
    BY <1>3
  <2>2. Cousin(en, c, d, q) /\ q \in Live(en, r)
    <3> HIDE DEF q
    <3> QED BY <1>3, <2>1, CousinIsLive DEF q
  <2>3. em[q] = en[q]
    BY <2>2 DEF Cousin, Same, Nodes
  <2> HIDE DEF q
  <2>4. Cousin(em, c, d, q)
    BY <2>2, <2>3 DEF Cousin
  <2> QED BY <2>4 DEF q
<1>4. ASSUME NEW d \in Levels PROVE trace(em, n, c).alt[d] = em[n].alt[d]
  <2>1. walk(em, n, c)[0] = origin(n)
    BY WalkSteps
  <2>2. walk(em, n, c)[0].ok /\ walk(em, n, c)[0].p = n
    BY <2>1, StartsAt
  <2>3. d >= 0 /\ 0 \in 0 .. DEPTH
    BY <1>1
  <2> QED BY <1>1, <2>2, <2>3, OwnWalk
<1>5. ASSUME NEW s \in Sectors, NEW d \in Levels, trace(em, n, s).alt[d] # PAGE_NONE
      PROVE  Cousin(em, s, d, trace(em, n, s).alt[d])
  <2> DEFINE q == trace(em, n, s).alt[d]
  <2>1. CASE s = c
    BY <1>3, <1>4, <1>5, <2>1
  <2>2. CASE s # c
    <3>1. PICK k \in Levels : Agree(s, c, k) /\ differs(s, c, k)
      BY <2>2, FirstDifference
    <3>2. /\ \A e \in 0 .. k : walk(em, n, s)[e].ok /\ walk(em, n, s)[e].p = n
          /\ \A e \in (k + 1) .. DEPTH :
               IF em[n].alt[k] = trace(en, r, c).alt[k]
                 THEN /\ walk(em, n, s)[e].ok <=> walk(en, r, s)[e].ok
                      /\ walk(en, r, s)[e].ok => walk(em, n, s)[e].p = walk(en, r, s)[e].p
                 ELSE ~walk(em, n, s)[e].ok
      BY <1>1, <3>1, GraftedWalk
    <3>3. q = cousin(em, walk(em, n, s)[d], s, d)
      BY <1>1, TraceAlt
    <3>4. c # SECTOR_NONE
      BY MapAssumption
    <3>5. CASE d < k
      <4>1. walk(em, n, s)[d].ok /\ walk(em, n, s)[d].p = n
        BY <1>1, <3>2, <3>5
      <4>2. ~differs(s, c, d) /\ (\A x : differs(s, x, d) <=> differs(c, x, d))
        BY <1>1, <3>1, <3>5 DEF Agree, differs
      <4>3. q = em[n].alt[d]
        BY <3>3, <3>4, <4>1, <4>2 DEF cousin
      <4>4. Cousin(em, c, d, q)
        BY <1>3, <1>5, <4>3
      <4>5. \A x : Agree(c, x, d) => Agree(s, x, d)
        <5>1. \A e \in 0 .. (d - 1) : ~differs(s, c, e)
          BY <1>1, <3>1, <3>5 DEF Agree
        <5> QED BY <5>1 DEF Agree, differs
      <4> HIDE DEF q
      <4> QED BY <4>2, <4>4, <4>5 DEF Cousin, q
    <3>6. CASE d = k
      <4>1. walk(em, n, s)[d].ok /\ walk(em, n, s)[d].p = n
        BY <1>1, <3>2, <3>6
      <4>2. q = n
        BY <3>1, <3>3, <3>4, <3>6, <4>1 DEF cousin
      <4> QED BY <3>1, <3>6, <4>2 DEF Cousin
    <3>7. CASE d > k
      <4>1. d \in (k + 1) .. DEPTH
        BY <1>1, <3>7
      <4>2. walk(em, n, s)[d].ok
        <5>1. walk(em, n, s)[d].alt[d] = PAGE_NONE
          BY <1>1, WalkTyped
        <5> QED BY <1>5, <3>3, <5>1 DEF cousin
      <4>3. /\ walk(en, r, s)[d].ok
            /\ walk(em, n, s)[d].p = walk(en, r, s)[d].p
        BY <3>2, <4>1, <4>2
      <4>4. em[walk(en, r, s)[d].p] = en[walk(en, r, s)[d].p]
        BY <1>1, <4>3, VisitedIsNode DEF Same
      <4>5. q = trace(en, r, s).alt[d]
        BY <1>1, <4>2, <4>3, <4>4, SamePath
      <4>6. Cousin(en, s, d, q) /\ q \in Live(en, r)
        <5> HIDE DEF q
        <5> QED BY <1>5, <4>5, CousinIsLive DEF q
      <4>7. em[q] = en[q]
        BY <4>6 DEF Cousin, Same, Nodes
      <4> HIDE DEF q
      <4>8. Cousin(em, s, d, q)
        BY <4>6, <4>7 DEF Cousin
      <4> QED BY <4>8 DEF q
    <3> QED BY <1>1, <3>5, <3>6, <3>7
  <2> QED BY <2>1, <2>2
<1> QED BY <1>2, <1>5 DEF IsTree

-----------------------------------------------------------------------------
(* What the map does to its tree                                           *)

\* A page that takes the path of its sector becomes the root: the sector is
\* mapped to it, the other sectors keep their pages.
LEMMA Rewrite ==
  ASSUME NEW en \in Entries, NEW em \in Entries, NEW r, IsTree(en, r),
         Same(en, em, Nodes(en, r)),
         NEW n \in UPages, NEW c \in Sectors, em[n].id = c,
         em[n].alt = trace(en, r, c).alt
  PROVE  /\ IsTree(em, n)
         /\ Mapped(em, n) = Mapped(en, r) \cup {c}
         /\ n \in Live(em, n)
         /\ Live(em, n) \subseteq {n} \cup {q \in Live(en, r) : en[q].id # c}
         /\ Value(em, n) = [Value(en, r) EXCEPT ![c] = em[n].data]
<1>1. Walkable(en, r) /\ \A k \in Levels : em[n].alt[k] = trace(en, r, c).alt[k]
  BY DEF IsTree
<1>2. IsTree(em, n)
  BY <1>1, GraftTree
<1>3. trace(em, n, c).ok /\ trace(em, n, c).p = n
  BY <1>1, Graft
<1>4. ASSUME NEW s \in Sectors, s # c
      PROVE  /\ trace(em, n, s).ok <=> trace(en, r, s).ok
             /\ trace(en, r, s).ok => trace(em, n, s).p = trace(en, r, s).p
  <2>1. PICK k \in Levels : Agree(s, c, k) /\ differs(s, c, k)
    BY <1>4, FirstDifference
  <2> QED BY <1>1, <2>1, Graft
<1>5. Mapped(em, n) = Mapped(en, r) \cup {c}
  BY <1>3, <1>4 DEF Mapped
<1>6. n \in Live(em, n)
  BY <1>3 DEF Mapped, Live
<1>7. ASSUME NEW q \in Live(em, n), q # n
      PROVE  q \in Live(en, r) /\ en[q].id # c
  <2>1. PICK s \in Mapped(em, n) : q = trace(em, n, s).p
    BY DEF Live
  <2>2. s # c /\ s \in Mapped(en, r)
    BY <1>3, <1>5, <1>7, <2>1
  <2>3. q = trace(en, r, s).p
    BY <1>4, <2>1, <2>2 DEF Mapped
  <2> QED BY <1>1, <2>2, <2>3, MappedPage
<1>8. Value(em, n) = [Value(en, r) EXCEPT ![c] = em[n].data]
  <2>1. ASSUME NEW s \in Sectors
        PROVE  Value(em, n)[s] = IF s = c THEN em[n].data ELSE Value(en, r)[s]
    <3>1. CASE s = c
      BY <1>3, <3>1 DEF Value
    <3>2. CASE s # c
      <4>1. trace(en, r, s).ok => em[trace(en, r, s).p] = en[trace(en, r, s).p]
        BY <1>1, MappedPage DEF Mapped, Same, Nodes
      <4> QED BY <1>4, <3>2, <4>1 DEF Value
    <3> QED BY <3>1, <3>2
  <2> QED BY <2>1 DEF Value
<1> QED BY <1>2, <1>5, <1>6, <1>7, <1>8

\* The path to the root's own sector is the one in its metadata.
LEMMA OwnRoot ==
  ASSUME NEW en \in Entries, NEW r \in UPages, IsTree(en, r), en[r].id # SECTOR_NONE
  PROVE  /\ en[r].id \in Mapped(en, r)
         /\ trace(en, r, en[r].id).p = r
         /\ en[r].alt = trace(en, r, en[r].id).alt
<1>1. DEPTH \in Nat \ {0} /\ 0 \in 0 .. DEPTH /\ r \in Links /\ en[r].id \in Sectors
  BY BitWeights DEF Links, Entries
<1>2. walk(en, r, en[r].id)[0] = origin(r)
  BY WalkSteps
<1>3. walk(en, r, en[r].id)[0].ok /\ walk(en, r, en[r].id)[0].p = r
  BY <1>2, StartsAt
<1>4. Walkable(en, r)
  BY DEF IsTree
<1>5. en[r].id \in Mapped(en, r) /\ trace(en, r, en[r].id).p = r
  BY <1>1, <1>3, <1>4, VisitedIsLive
<1>6. \A k \in Levels : trace(en, r, en[r].id).alt[k] = en[r].alt[k]
  <2>1. \A k \in Levels : k >= 0
    BY DEF Levels
  <2> QED BY <1>1, <1>3, <2>1, OwnWalk
<1>7. trace(en, r, en[r].id).alt \in Alts /\ en[r].alt \in Alts
  BY <1>1, TraceAlt, BitWeights DEF Points, Entries, Levels
<1> QED BY <1>5, <1>6, <1>7 DEF Alts

\* Without a root, or with filler as the root, no sector is mapped.
LEMMA NoTree ==
  ASSUME NEW en \in Entries, NEW r \in Links,
         r \in UPages => en[r].id = SECTOR_NONE
  PROVE  /\ IsTree(en, r) /\ Mapped(en, r) = {} /\ Live(en, r) = {}
         /\ Value(en, r) = [s \in Sectors |-> MISSING]
         /\ \A s \in Sectors : trace(en, r, s).alt = NoAlts
<1>1. /\ DEPTH \in Nat \ {0} /\ 0 \in Levels /\ 0 + 1 = 1 /\ 1 \in 0 .. DEPTH
      /\ \A d \in 0 .. DEPTH : d = 0 \/ d \in 1 .. DEPTH
      /\ \A d \in Levels : d = 0 \/ d \in 1 .. DEPTH
  BY BitWeights DEF Levels
<1>2. ASSUME NEW s \in Sectors
      PROVE  /\ walk(en, r, s)[0].p = r /\ (walk(en, r, s)[0].ok => r # PAGE_NONE)
             /\ \A d \in 1 .. DEPTH : ~walk(en, r, s)[d].ok
  <2>1. walk(en, r, s)[0] = origin(r)
    BY WalkSteps
  <2>2. walk(en, r, s)[0].p = r /\ (walk(en, r, s)[0].ok => r # PAGE_NONE)
    <3>1. CASE r = PAGE_NONE
      <4>1. origin(r) = [p |-> r, ok |-> FALSE, alt |-> NoAlts]
        BY <3>1 DEF origin
      <4> QED BY <2>1, <4>1
    <3>2. CASE r # PAGE_NONE
      BY <2>1, <3>2 DEF origin
    <3> QED BY <3>1, <3>2
  <2>3. StepOf(en, s, 0, walk(en, r, s)[0], walk(en, r, s)[1])
    BY <1>1, WalkStep
  <2>4. ~walk(en, r, s)[1].ok
    BY <2>2, <2>3 DEF StepOf, Links
  <2> QED BY <1>1, <2>2, <2>4, Lost
<1>3. Walkable(en, r)
  <2> SUFFICES ASSUME NEW s \in Sectors, NEW d \in 0 .. DEPTH, walk(en, r, s)[d].ok
               PROVE  OnPath(en, s, d, walk(en, r, s)[d].p)
    BY DEF Walkable
  <2> QED BY <1>1, <1>2 DEF OnPath, Links
<1>4. ASSUME NEW s \in Sectors, NEW d \in Levels
      PROVE  trace(en, r, s).alt[d] = PAGE_NONE
  <2> DEFINE w == walk(en, r, s)[d]
  <2>1. trace(en, r, s).alt[d] = cousin(en, w, s, d)
    BY TraceAlt
  <2>2. w.alt[d] = PAGE_NONE
    BY WalkTyped, <1>1 DEF Levels
  <2>3. ~w.ok \/ en[w.p].id = SECTOR_NONE
    BY <1>1, <1>2 DEF Links
  <2> HIDE DEF w
  <2> QED BY <2>1, <2>2, <2>3 DEF cousin
<1>5. Mapped(en, r) = {} /\ \A s \in Sectors : ~trace(en, r, s).ok
  BY <1>1, <1>2 DEF Mapped, trace
<1>6. Live(en, r) = {}
  BY <1>5 DEF Live
<1>7. ASSUME NEW s \in Sectors PROVE trace(en, r, s).alt = NoAlts
  <2>1. trace(en, r, s).alt \in Alts
    BY <1>1, TraceAlt DEF Points
  <2> QED BY <1>4, <2>1 DEF Alts, NoAlts
<1> QED BY <1>3, <1>4, <1>5, <1>6, <1>7 DEF IsTree, Value

\* A sector that leaves another's path at a level without a cousin is not
\* mapped.
LEMMA LostBeyond ==
  ASSUME NEW en \in Entries, NEW r, IsTree(en, r),
         NEW c \in Sectors, NEW s \in Sectors, NEW k \in Levels,
         Agree(s, c, k), differs(s, c, k), trace(en, r, c).alt[k] = PAGE_NONE
  PROVE  ~trace(en, r, s).ok
<1>1. /\ DEPTH \in Nat \ {0} /\ r \in Links /\ k \in 0 .. DEPTH /\ k + 1 \in 0 .. DEPTH
      /\ DEPTH \in (k + 1) .. DEPTH
  BY BitWeights DEF IsTree, Walkable, Levels
<1> DEFINE w == walk(en, r, c)[k]
           v == walk(en, r, s)[k + 1]
<1>2. walk(en, r, s)[k] = w
  BY <1>1, SameWalk
<1>3. StepOf(en, s, k, w, v)
  <2>1. StepOf(en, s, k, walk(en, r, s)[k], v)
    BY <1>1, WalkStep
  <2> QED BY <1>2, <2>1
<1>4. cousin(en, w, c, k) = PAGE_NONE
  BY <1>1, TraceAlt
<1>5. ~v.ok
  <2>1. w.ok => /\ w.p \in UPages /\ w.p # PAGE_NONE
                /\ en[w.p].id \in Sectors \cup {SECTOR_NONE}
    <3> HIDE DEF w, v
    <3> QED BY <1>3, PageNone DEF StepOf, Points, Entries
  <2>2. w.ok /\ en[w.p].id # SECTOR_NONE =>
          (differs(s, en[w.p].id, k) <=> ~differs(c, en[w.p].id, k))
    <3> HIDE DEF w
    <3> QED BY <2>1, Bits
  <2> HIDE DEF w, v
  <2> QED BY <1>3, <1>4, <2>1, <2>2 DEF StepOf, cousin
<1> QED BY <1>1, <1>5, Lost DEF trace

\* A sector without cousins is the only one.
LEMMA OnlySector ==
  ASSUME NEW en \in Entries, NEW r, IsTree(en, r), NEW c \in Mapped(en, r),
         \A k \in Levels : trace(en, r, c).alt[k] = PAGE_NONE
  PROVE  Mapped(en, r) = {c}
<1> SUFFICES ASSUME NEW s \in Mapped(en, r), s # c PROVE FALSE
  OBVIOUS
<1>1. s \in Sectors /\ c \in Sectors
  BY DEF Mapped
<1>2. PICK k \in Levels : Agree(s, c, k) /\ differs(s, c, k)
  BY <1>1, FirstDifference
<1> QED BY <1>1, <1>2, LostBeyond DEF Mapped

\* Sectors that agree up to a level have the same path up to there.
LEMMA AgreePath ==
  ASSUME NEW en \in Entries, NEW r \in Links, NEW s \in Sectors, NEW t \in Sectors,
         NEW d \in Levels, NEW e \in Levels, d < e, Agree(s, t, e)
  PROVE  trace(en, r, s).alt[d] = trace(en, r, t).alt[d]
<1>1. /\ d \in 0 .. DEPTH /\ Agree(s, t, d)
      /\ \A x : differs(s, x, d) <=> differs(t, x, d)
  BY BitWeights DEF Agree, Levels, differs
<1>2. walk(en, r, s)[d] = walk(en, r, t)[d]
  BY <1>1, SameWalk
<1>3. \A w : cousin(en, w, s, d) = cousin(en, w, t, d)
  BY <1>1 DEF cousin
<1> QED BY <1>2, <1>3, TraceAlt

\* try_delete: the closest cousin of a sector, with the path of the sector above
\* the level where they part, its own below, and no page there, becomes the
\* root.  The sector is not mapped any more, the others are.
LEMMA Unmap ==
  ASSUME NEW en \in Entries, NEW em \in Entries, NEW r, IsTree(en, r),
         Same(en, em, Nodes(en, r)),
         NEW dst \in Mapped(en, r), NEW t, t = trace(en, r, dst).alt,
         NEW level \in Levels, NEW q, q = t[level], q # PAGE_NONE,
         \A k \in Levels : k > level => t[k] = PAGE_NONE,
         NEW n \in UPages, em[n].id = en[q].id,
         \A l \in Levels : em[n].alt[l] = IF l < level THEN t[l]
                                          ELSE IF l = level THEN PAGE_NONE
                                          ELSE en[q].alt[l]
  PROVE  /\ IsTree(em, n)
         /\ q \in Live(en, r) /\ en[q].id \in Sectors
         /\ Mapped(em, n) = Mapped(en, r) \ {dst}
         /\ n \in Live(em, n)
         /\ Live(em, n) \subseteq {n} \cup {x \in Live(en, r) : en[x].id \notin {dst, en[q].id}}
         /\ em[n].data = en[q].data =>
              Value(em, n) = [Value(en, r) EXCEPT ![dst] = MISSING]
<1> DEFINE c == en[q].id
<1>1. /\ DEPTH \in Nat \ {0} /\ r \in Links /\ dst \in Sectors
      /\ Walkable(en, r)
      /\ \A l \in Levels : l \in Nat /\ l + 1 \in 0 .. DEPTH
  BY BitWeights DEF IsTree, Walkable, Mapped, Levels
<1>2. /\ q \in UPages /\ c \in Sectors /\ Agree(dst, c, level) /\ differs(dst, c, level)
      /\ c \in Mapped(en, r) /\ trace(en, r, c).p = q
      /\ q \in Live(en, r)
      /\ walk(en, r, c)[level + 1].ok /\ walk(en, r, c)[level + 1].p = q
  BY <1>1, CousinIsLive DEF Cousin
<1> HIDE DEF c
<1>3. ASSUME NEW l \in Levels, l # level
      PROVE  em[n].alt[l] = trace(en, r, c).alt[l]
  <2>1. CASE l < level
    BY <1>1, <1>2, <2>1, AgreePath
  <2>2. CASE l > level
    <3>1. l >= level + 1
      BY <1>1, <2>2
    <3>2. en[q].id = c
      BY DEF c
    <3>3. trace(en, r, c).alt[l] = en[q].alt[l]
      BY <1>1, <1>2, <3>1, <3>2, OwnWalk
    <3> QED BY <1>1, <2>2, <3>3
  <2> QED BY <1>1, <1>3, <2>1, <2>2
<1>4. em[n].alt[level] = PAGE_NONE
  BY <1>1
<1>5. em[n].id = c /\ \A k \in Levels : em[n].alt[k] \in {trace(en, r, c).alt[k], PAGE_NONE}
  BY <1>3, <1>4 DEF c
<1>6. IsTree(em, n)
  BY <1>2, <1>5, GraftTree
<1>7. trace(em, n, c).ok /\ trace(em, n, c).p = n
  BY <1>1, <1>2, <1>5, Graft
<1>8. ASSUME NEW s \in Sectors, NEW k \in Levels, Agree(s, c, k), differs(s, c, k)
      PROVE  IF em[n].alt[k] = trace(en, r, c).alt[k]
               THEN /\ trace(em, n, s).ok <=> trace(en, r, s).ok
                    /\ trace(en, r, s).ok => trace(em, n, s).p = trace(en, r, s).p
               ELSE ~trace(em, n, s).ok
  BY <1>1, <1>2, <1>5, <1>8, Graft
<1>9. trace(en, r, c).alt[level] # PAGE_NONE
  BY <1>2, <1>1, LostBeyond DEF Mapped
<1>10. ~trace(em, n, dst).ok
  BY <1>1, <1>2, <1>4, <1>8, <1>9
<1>11. ASSUME NEW s \in Sectors, s # c, s # dst
       PROVE  /\ trace(em, n, s).ok <=> trace(en, r, s).ok
              /\ trace(en, r, s).ok => trace(em, n, s).p = trace(en, r, s).p
  <2>1. PICK k \in Levels : Agree(s, c, k) /\ differs(s, c, k)
    BY <1>2, <1>11, FirstDifference
  <2>2. CASE k # level
    BY <1>3, <1>8, <2>1, <2>2
  <2>3. CASE k = level
    <3>1. ~trace(em, n, s).ok
      BY <1>4, <1>8, <1>9, <2>1, <2>3
    <3>2. PICK i \in Levels : Agree(s, dst, i) /\ differs(s, dst, i)
      BY <1>1, <1>11, FirstDifference
    <3>3. i # level
      BY <1>1, <1>2, <2>1, <2>3, <3>2, Bits
    <3>4. ~(i < level)
      <4>1. SUFFICES ASSUME i < level PROVE FALSE
        OBVIOUS
      <4>2. ~differs(s, c, i) /\ ~differs(dst, c, i)
        BY <1>1, <1>2, <2>1, <2>3, <4>1 DEF Agree
      <4> QED BY <3>2, <4>2 DEF differs
    <3>5. t[i] = PAGE_NONE
      BY <1>1, <3>3, <3>4
    <3>6. ~trace(en, r, s).ok
      BY <1>1, <3>2, <3>5, LostBeyond
    <3> QED BY <3>1, <3>6
  <2> QED BY <2>2, <2>3
<1>12. Mapped(em, n) = Mapped(en, r) \ {dst}
  <2>1. c # dst
    BY <1>2 DEF differs
  <2> QED BY <1>2, <1>7, <1>10, <1>11, <2>1 DEF Mapped
<1>13. n \in Live(em, n)
  BY <1>2, <1>7 DEF Mapped, Live
<1>14. ASSUME NEW x \in Live(em, n), x # n
       PROVE  x \in Live(en, r) /\ en[x].id \notin {dst, c}
  <2>1. PICK s \in Mapped(em, n) : x = trace(em, n, s).p
    BY DEF Live
  <2>2. s # c /\ s # dst /\ s \in Mapped(en, r)
    BY <1>7, <1>12, <1>14, <2>1
  <2>3. x = trace(en, r, s).p
    BY <1>11, <2>1, <2>2 DEF Mapped
  <2> QED BY <1>1, <2>2, <2>3, MappedPage
<1>15. ASSUME em[n].data = en[q].data
       PROVE  Value(em, n) = [Value(en, r) EXCEPT ![dst] = MISSING]
  <2>1. ASSUME NEW s \in Sectors
        PROVE  Value(em, n)[s] = IF s = dst THEN MISSING ELSE Value(en, r)[s]
    <3>1. CASE s = dst
      BY <1>10, <3>1 DEF Value
    <3>2. CASE s = c /\ s # dst
      BY <1>2, <1>7, <1>15, <3>2 DEF Value, Mapped
    <3>3. CASE s # dst /\ s # c
      <4>1. trace(en, r, s).ok => em[trace(en, r, s).p] = en[trace(en, r, s).p]
        BY <1>1, MappedPage DEF Mapped, Same, Nodes
      <4> QED BY <1>11, <3>3, <4>1 DEF Value
    <3> QED BY <3>1, <3>2, <3>3
  <2> QED BY <2>1 DEF Value
<1> QED BY <1>2, <1>6, <1>12, <1>13, <1>14, <1>15 DEF c

=============================================================================
