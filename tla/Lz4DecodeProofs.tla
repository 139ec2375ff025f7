------------------------- MODULE Lz4DecodeProofs -------------------------
EXTENDS Lz4Decode, WellFoundedInduction, TLAPS

\* Induction over a set: the form of it that needs no operator as a parameter.
LEMMA SetInduction ==
    ASSUME NEW S, 0 \in S, \A n \in Nat : n \in S => n + 1 \in S
    PROVE  \A n \in Nat : n \in S
<1>1. SUFFICES ASSUME NEW k \in Nat, k \notin S PROVE FALSE
  OBVIOUS
<1> DEFINE T == {n \in Nat : n \notin S}
<1>2. T \subseteq Nat /\ T # {}
  BY <1>1
<1>3. PICK x \in T : \A y \in T : <<y, x>> \notin OpToRel(<, Nat)
  BY <1>2, WFMin, NatLessThanWellFounded, Zenon
<1>4. \A y \in T : ~(y < x)
  BY <1>3 DEF OpToRel
<1>5. x - 1 \in Nat /\ x \notin S
  OBVIOUS
<1>6. x - 1 \in S
  BY <1>4, <1>5
<1> QED
  BY <1>5, <1>6

\* The copies one after the other: there is such a function.
StepsTo(step, m, d, s, unit, n) ==
    step = [i \in 0..n |-> IF i = 0 THEN m
                           ELSE Copied(step[i - 1], d + unit * (i - 1), s + unit * (i - 1), unit)]

LEMMA StepsExist ==
    ASSUME NEW m, NEW d, NEW s, NEW unit, NEW n \in Nat
    PROVE  \E step : StepsTo(step, m, d, s, unit, n)
<1> DEFINE S == {k \in Nat : \E step : StepsTo(step, m, d, s, unit, k)}
<1>1. 0 \in S
  <2>1. StepsTo([i \in 0..0 |-> m], m, d, s, unit, 0)
    BY DEF StepsTo
  <2> QED
    BY <2>1
<1>2. ASSUME NEW k \in Nat, k \in S PROVE k + 1 \in S
  <2>1. PICK step : StepsTo(step, m, d, s, unit, k)
    BY <1>2
  <2> DEFINE next == [i \in 0..(k + 1) |-> IF i = k + 1 THEN Copied(step[k], d + unit * k, s + unit * k, unit) ELSE step[i]]
  <2>2. StepsTo(next, m, d, s, unit, k + 1)
    <3> SUFFICES next = [i \in 0..(k + 1) |-> IF i = 0 THEN m
                           ELSE Copied(next[i - 1], d + unit * (i - 1), s + unit * (i - 1), unit)]
      BY DEF StepsTo
    <3> SUFFICES ASSUME NEW i \in 0..(k + 1)
                 PROVE  next[i] = IF i = 0 THEN m
                           ELSE Copied(next[i - 1], d + unit * (i - 1), s + unit * (i - 1), unit)
      OBVIOUS
    <3>1. step[0] = m
      BY <2>1 DEF StepsTo
    <3>2. ASSUME NEW j \in 1..k
          PROVE  step[j] = Copied(step[j - 1], d + unit * (j - 1), s + unit * (j - 1), unit)
      BY <2>1 DEF StepsTo
    <3> QED
      BY <3>1, <3>2
  <2> QED
    BY <2>2
<1> HIDE DEF S
<1>3. \A k \in Nat : k \in S
  BY <1>1, <1>2, SetInduction
<1> QED
  BY <1>3 DEF S

LEMMA ChunksSteps ==
    ASSUME NEW m, NEW d, NEW s, NEW unit, NEW n \in Nat
    PROVE  \E step : /\ StepsTo(step, m, d, s, unit, n)
                     /\ Chunks(m, d, s, unit, n) = step[n]
<1> DEFINE f == CHOOSE step : StepsTo(step, m, d, s, unit, n)
<1>1. StepsTo(f, m, d, s, unit, n)
  BY StepsExist, Zenon
<1>2. Chunks(m, d, s, unit, n) = f[n]
  BY Zenon DEF Chunks, StepsTo
<1> QED
  BY <1>1, <1>2

-----------------------------------------------------------------------------
(* What the copies do                                                      *)

SmallSizes == oend \in Nat /\ iend \in Nat /\ src.available \in Nat

\* Nothing below d has changed, and each byte from d to e is the one dist
\* bytes before it.
Follows(m, r, d, e, dist) ==
    /\ \A a \in 0..(oend - 1) : a < d => r.out[a] = m.out[a]
    /\ \A a \in d..(e - 1) : r.out[a] = Cell(r, a - dist)

LEMMA CellType ==
    ASSUME NEW m \in Memory, NEW a \in Int
    PROVE  Cell(m, a) \in Int
<1>1. m.out \in [0..(oend - 1) -> Int] /\ DOMAIN m.out = 0..(oend - 1)
  BY DEF Memory
<1>2. UNWRITTEN \in Int
  BY DEF UNWRITTEN
<1> QED
  BY <1>1, <1>2 DEF Cell

LEMMA MemoryFields ==
    ASSUME NEW m \in Memory
    PROVE  /\ m = [out |-> m.out, top |-> m.top, stray |-> m.stray]
           /\ m.out \in [0..(oend - 1) -> Int] /\ DOMAIN m.out = 0..(oend - 1)
           /\ m.top \in Int /\ m.stray \in BOOLEAN
  BY DEF Memory

LEMMA CopiedIs ==
    ASSUME SmallSizes, NEW m \in Memory, NEW d \in Int, NEW s \in Int, NEW k \in Int
    PROVE  LET r == Copied(m, d, s, k)
           IN  /\ r \in Memory
               /\ r.top = Higher(m.top, d + k)
               /\ r.stray = (m.stray \/ s < 0 - src.available \/ (s < d /\ s + k > d))
               /\ \A a \in 0..(oend - 1) :
                    r.out[a] = IF a \in d..(d + k - 1) THEN Cell(m, s + (a - d)) ELSE m.out[a]
<1> DEFINE o == [a \in DOMAIN m.out |-> IF a \in d..(d + k - 1) THEN Cell(m, s + (a - d)) ELSE m.out[a]]
           st == m.stray \/ s < 0 - src.available \/ (s < d /\ s + k > d)
           t == Higher(m.top, d + k)
           r == [[m EXCEPT !.out = o, !.top = t] EXCEPT !.stray = st]
<1>1. Copied(m, d, s, k) = r
  BY Zenon DEF Copied, Stored
<1>2. o \in [0..(oend - 1) -> Int]
  <2>1. \A a \in 0..(oend - 1) : Cell(m, s + (a - d)) \in Int
    BY CellType
  <2>2. m.out \in [0..(oend - 1) -> Int] /\ DOMAIN m.out = 0..(oend - 1)
    BY MemoryFields
  <2> QED
    BY <2>1, <2>2
<1>3. t \in Int /\ st \in BOOLEAN
  BY MemoryFields DEF Higher, SmallSizes
<1>4. \A a \in 0..(oend - 1) :
          o[a] = IF a \in d..(d + k - 1) THEN Cell(m, s + (a - d)) ELSE m.out[a]
  BY MemoryFields
<1> HIDE DEF st, o, t
<1>5. r \in Memory /\ r.out = o /\ r.top = t /\ r.stray = st
  BY <1>2, <1>3 DEF Memory
<1> HIDE DEF r
<1> QED
  BY <1>1, <1>4, <1>5 DEF t, st

LEMMA TakenIs ==
    ASSUME SmallSizes, NEW m, Sound(m), NEW d \in 0..oend, NEW i \in Nat, NEW k \in Nat,
           d + k <= oend, i + k <= iend
    PROVE  LET r == Taken(m, d, i, k)
           IN  /\ Sound(r)
               /\ \A a \in 0..(d - 1) : r.out[a] = m.out[a]
               /\ \A a \in d..(d + k - 1) : r.out[a] = i + (a - d) + 1
<1> DEFINE o == [a \in DOMAIN m.out |-> IF a \in d..(d + k - 1) THEN i + (a - d) + 1 ELSE m.out[a]]
           st == m.stray \/ i + k > iend
           t == Higher(m.top, d + k)
           r == [[m EXCEPT !.out = o, !.top = t] EXCEPT !.stray = st]
<1>m. m \in Memory /\ m.top <= oend /\ ~m.stray
  BY DEF Sound
<1>1. Taken(m, d, i, k) = r
  BY Zenon DEF Taken, Stored
<1>2. o \in [0..(oend - 1) -> Int]
  <2>1. m.out \in [0..(oend - 1) -> Int] /\ i \in Nat
    BY <1>m, MemoryFields
  <2> QED
    BY <2>1 DEF SmallSizes
<1>3. t \in Int /\ t <= oend /\ st = FALSE
  BY <1>m, MemoryFields DEF Higher, SmallSizes
<1>4. \A a \in 0..(oend - 1) : o[a] = IF a \in d..(d + k - 1) THEN i + (a - d) + 1 ELSE m.out[a]
  BY <1>m, MemoryFields
<1> HIDE DEF st, o, t
<1>5. r \in Memory /\ r.out = o /\ r.top = t /\ r.stray = st
  BY <1>m, <1>2, <1>3 DEF Memory
<1> HIDE DEF r
<1> QED
  BY <1>1, <1>3, <1>4, <1>5 DEF SmallSizes, Sound

\* One memcpy that does not overlap itself.
LEMMA CopiedFollows ==
    ASSUME SmallSizes, NEW m, Sound(m), NEW d \in 0..oend, NEW s \in Int, NEW k \in Nat,
           s >= 0 - src.available, s + k <= d, d + k <= oend
    PROVE  LET r == Copied(m, d, s, k) IN Sound(r) /\ Follows(m, r, d, d + k, d - s)
<1> DEFINE r == Copied(m, d, s, k)
<1>1. m \in Memory /\ m.top <= oend /\ m.stray = FALSE /\ m.top \in Int /\ d \in Int /\ k \in Int
  BY MemoryFields DEF Sound, SmallSizes
<1>2. /\ r \in Memory
      /\ r.top = Higher(m.top, d + k)
      /\ r.stray = (m.stray \/ s < 0 - src.available \/ (s < d /\ s + k > d))
      /\ \A a \in 0..(oend - 1) :
           r.out[a] = IF a \in d..(d + k - 1) THEN Cell(m, s + (a - d)) ELSE m.out[a]
  BY <1>1, CopiedIs
<1> HIDE DEF r
<1>3. r.top <= oend
  BY <1>1, <1>2 DEF Higher, SmallSizes
<1>4. r.stray = FALSE
  <2>1. ~(s < 0 - src.available \/ (s < d /\ s + k > d))
    BY DEF SmallSizes
  <2> QED
    BY <1>1, <1>2, <2>1
<1>5. \A a \in 0..(oend - 1) : a < d => r.out[a] = m.out[a]
  BY <1>2
<1>6. ASSUME NEW a \in d..(d + k - 1) PROVE r.out[a] = Cell(r, a - (d - s))
  <2>1. r.out[a] = Cell(m, s + (a - d)) /\ s + (a - d) = a - (d - s) /\ a - (d - s) < d
    BY <1>2 DEF SmallSizes
  <2>2. DOMAIN r.out = 0..(oend - 1) /\ DOMAIN m.out = 0..(oend - 1)
    BY <1>1, <1>2 DEF Memory
  <2> QED
    BY <2>1, <2>2, <1>5 DEF Cell
<1> QED
  BY <1>2, <1>3, <1>4, <1>5, <1>6 DEF Sound, Follows, r
\* Two copies at the same distance, the second from within the first.
LEMMA FollowsOn ==
    ASSUME SmallSizes, NEW m \in Memory, NEW r1 \in Memory, NEW r2 \in Memory,
           NEW d \in Nat, NEW e1 \in Int, NEW d2 \in Nat, NEW e2 \in Int, NEW dist \in Nat,
           d <= d2, d2 <= e1, d2 <= oend, e2 <= oend, dist >= 1,
           Follows(m, r1, d, e1, dist), Follows(r1, r2, d2, e2, dist)
    PROVE  Follows(m, r2, d, e2, dist)
<1>1. DOMAIN r1.out = 0..(oend - 1) /\ DOMAIN r2.out = 0..(oend - 1)
  BY MemoryFields
<1>2. \A a \in 0..(oend - 1) : a < d2 => r2.out[a] = r1.out[a]
  BY DEF Follows
<1>3. \A a \in 0..(oend - 1) : a < d => r2.out[a] = m.out[a]
  BY <1>2 DEF Follows
<1>4. \A a \in Int : a < d2 => Cell(r2, a) = Cell(r1, a)
  BY <1>1, <1>2 DEF Cell, SmallSizes
<1>5. ASSUME NEW a \in d..(e2 - 1) PROVE r2.out[a] = Cell(r2, a - dist)
  <2>1. CASE a < d2
    <3>1. a \in d..(e1 - 1) /\ a \in 0..(oend - 1) /\ a - dist \in Int /\ a - dist < d2
      BY <2>1 DEF SmallSizes
    <3>2. r1.out[a] = Cell(r1, a - dist)
      BY <3>1 DEF Follows
    <3> QED
      BY <3>1, <3>2, <1>2, <1>4, <2>1
  <2>2. CASE a >= d2
    <3>1. a \in d2..(e2 - 1)
      BY <2>2
    <3> QED
      BY <3>1 DEF Follows
  <2> QED
    BY <2>1, <2>2
<1> QED
  BY <1>3, <1>5 DEF Follows

LEMMA FollowsNothing ==
    ASSUME NEW m, NEW d \in Int, NEW e \in Int, e <= d, NEW dist PROVE Follows(m, m, d, e, dist)
  BY DEF Follows

LEMMA FollowsLess ==
    ASSUME NEW m, NEW r, NEW d \in Int, NEW e \in Int, NEW f \in Int, f <= e, NEW dist,
           Follows(m, r, d, e, dist)
    PROVE  Follows(m, r, d, f, dist)
  BY DEF Follows

LEMMA Units ==
    ASSUME NEW unit \in {1, 8, 16}, NEW k \in Nat, NEW n \in Nat, k + 1 <= n
    PROVE  /\ unit * k \in Nat /\ unit * n \in Nat /\ unit \in Nat
           /\ unit * (k + 1) = unit * k + unit /\ unit * (k + 1) <= unit * n
           /\ unit * 0 = 0
<1>1. CASE unit = 1
  BY <1>1
<1>2. CASE unit = 8
  BY <1>2
<1>3. CASE unit = 16
  BY <1>3
<1> QED
  BY <1>1, <1>2, <1>3

\* Copies of 1, 8 or 16 bytes one after the other, from at least as far back.
LEMMA ChunksFollow ==
    ASSUME SmallSizes, NEW m, Sound(m), NEW d \in 0..oend, NEW s \in Int, NEW unit \in {1, 8, 16},
           NEW n \in Nat, d + unit * n <= oend, s >= 0 - src.available, s + unit <= d
    PROVE  LET r == Chunks(m, d, s, unit, n)
           IN  Sound(r) /\ Follows(m, r, d, d + unit * n, d - s)
<1>1. PICK step : StepsTo(step, m, d, s, unit, n) /\ Chunks(m, d, s, unit, n) = step[n]
  BY ChunksSteps
<1>2. step[0] = m
  BY <1>1 DEF StepsTo
<1>3. ASSUME NEW k \in Nat, k + 1 <= n
      PROVE  step[k + 1] = Copied(step[k], d + unit * k, s + unit * k, unit)
  <2>1. k + 1 \in 0..n /\ k + 1 # 0 /\ (k + 1) - 1 = k
    BY <1>3
  <2> QED
    BY <1>1, <2>1 DEF StepsTo
<1> DEFINE P(k) == Sound(step[k]) /\ Follows(m, step[k], d, d + unit * k, d - s)
           S == {k \in Nat : k <= n => P(k)}
<1>4. 0 \in S
  <2>1. d \in Int /\ d + unit * 0 \in Int /\ d + unit * 0 <= d
    BY DEF SmallSizes
  <2> QED
    BY <1>2, <2>1, FollowsNothing
<1>5. ASSUME NEW k \in Nat, k \in S PROVE k + 1 \in S
  <2> SUFFICES ASSUME k + 1 <= n PROVE P(k + 1)
    OBVIOUS
  <2>1. P(k)
    BY <1>5
  <2>2. /\ unit * k \in Nat /\ unit * n \in Nat /\ unit \in Nat
        /\ unit * (k + 1) = unit * k + unit /\ unit * (k + 1) <= unit * n
    BY Units
  <2> DEFINE dk == d + unit * k
             sk == s + unit * k
             r  == Copied(step[k], dk, sk, unit)
  <2>3. step[k + 1] = r
    BY <1>3
  <2>4. /\ dk \in 0..oend /\ sk \in Int /\ sk >= 0 - src.available /\ sk + unit <= dk
        /\ dk + unit <= oend /\ dk - sk = d - s /\ dk + unit = d + unit * (k + 1)
    BY <2>2 DEF SmallSizes
  <2> HIDE DEF dk, sk
  <2>5. Sound(r) /\ Follows(step[k], r, dk, dk + unit, d - s)
    BY <2>1, <2>2, <2>4, CopiedFollows
  <2> HIDE DEF r
  <2>6. Follows(m, r, d, dk + unit, d - s)
    <3>1. m \in Memory /\ step[k] \in Memory /\ r \in Memory
      BY <2>1, <2>5 DEF Sound
    <3>2. d \in Nat /\ dk \in Nat /\ dk + unit \in Int /\ d - s \in Nat /\ d - s >= 1 /\ d <= dk /\ dk <= oend
      BY <2>2, <2>4 DEF SmallSizes, dk
    <3>3. Follows(m, step[k], d, dk, d - s)
      BY <2>1 DEF dk
    <3> QED
      BY <2>4, <2>5, <3>1, <3>2, <3>3, FollowsOn
  <2> QED
    BY <2>3, <2>4, <2>5, <2>6
<1> HIDE DEF S
<1>6. n \in S
  BY <1>4, <1>5, SetInduction
<1> QED
  BY <1>1, <1>6 DEF S

\* Bytes copied onto themselves stay what they are.
LEMMA ChunksStay ==
    ASSUME SmallSizes, NEW m, Sound(m), NEW d \in 0..oend, NEW n \in Nat, d + n <= oend
    PROVE  LET r == Chunks(m, d, d, 1, n)
           IN  Sound(r) /\ \A a \in 0..(oend - 1) : r.out[a] = m.out[a]
<1>1. PICK step : StepsTo(step, m, d, d, 1, n) /\ Chunks(m, d, d, 1, n) = step[n]
  BY ChunksSteps
<1>2. step[0] = m
  BY <1>1 DEF StepsTo
<1>3. ASSUME NEW k \in Nat, k + 1 <= n PROVE step[k + 1] = Copied(step[k], d + k, d + k, 1)
  <2>1. k + 1 \in 0..n /\ k + 1 # 0 /\ (k + 1) - 1 = k /\ 1 * k = k
    BY <1>3
  <2> QED
    BY <1>1, <2>1 DEF StepsTo
<1> DEFINE P(k) == Sound(step[k]) /\ \A a \in 0..(oend - 1) : step[k].out[a] = m.out[a]
           S == {k \in Nat : k <= n => P(k)}
<1>4. 0 \in S
  BY <1>2
<1>5. ASSUME NEW k \in Nat, k \in S PROVE k + 1 \in S
  <2> SUFFICES ASSUME k + 1 <= n PROVE P(k + 1)
    OBVIOUS
  <2>1. P(k)
    BY <1>5
  <2> DEFINE w == step[k]
             r == Copied(w, d + k, d + k, 1)
  <2>2. w \in Memory /\ w.top <= oend /\ w.stray = FALSE /\ w.top \in Int
    BY <2>1, MemoryFields DEF Sound
  <2>3. /\ r \in Memory
        /\ r.top = Higher(w.top, d + k + 1)
        /\ r.stray = (w.stray \/ d + k < 0 - src.available \/ (d + k < d + k /\ d + k + 1 > d + k))
        /\ \A a \in 0..(oend - 1) :
             r.out[a] = IF a \in (d + k)..(d + k + 1 - 1) THEN Cell(w, d + k + (a - (d + k))) ELSE w.out[a]
    BY <2>2, CopiedIs DEF SmallSizes
  <2> HIDE DEF r, w
  <2>4. r.top <= oend /\ r.stray = FALSE
    <3>1. ~(d + k < 0 - src.available \/ (d + k < d + k /\ d + k + 1 > d + k))
      BY DEF SmallSizes
    <3>2. r.top <= oend
      BY <2>2, <2>3 DEF Higher, SmallSizes
    <3> QED
      BY <2>2, <2>3, <3>1, <3>2
  <2>5. ASSUME NEW a \in 0..(oend - 1) PROVE r.out[a] = w.out[a]
    <3>1. DOMAIN w.out = 0..(oend - 1)
      BY <2>2, MemoryFields
    <3>2. Cell(w, a) = w.out[a]
      BY <3>1 DEF Cell, SmallSizes
    <3>3. d + k + (a - (d + k)) = a
      BY DEF SmallSizes
    <3> QED
      BY <2>3, <3>2, <3>3
  <2>6. step[k + 1] = r
    BY <1>3 DEF r, w
  <2> QED
    BY <2>1, <2>3, <2>4, <2>5, <2>6 DEF Sound, w
<1> HIDE DEF S
<1>6. n \in S
  BY <1>4, <1>5, SetInduction
<1> QED
  BY <1>1, <1>6 DEF S
-----------------------------------------------------------------------------
(* Matches that overlap themselves                                         *)

\* dist is a multiple of off, and room bytes hold all of it but off.
Multiple(dist, off, room) == \E c \in 1..8 : dist = c * off /\ (c - 1) * off <= room

\* The bytes from lo to hi repeat at a distance.
Repeating(r, lo, hi, dist) == \A a \in lo..(hi - 1) : Cell(r, a) = Cell(r, a - dist)

\* Bytes that repeat at a multiple of a distance, behind enough that repeat at
\* the distance itself, do so too.
LEMMA Period ==
    ASSUME NEW r, NEW d \in Int, NEW x \in Int, NEW e \in Int, NEW off \in Nat, off >= 1,
           NEW dist \in Int, NEW room \in Nat, d + room <= x, Multiple(dist, off, room),
           Repeating(r, d, x, off), Repeating(r, x, e, dist)
    PROVE  Repeating(r, d, e, off)
<1>d. /\ \A a \in d..(x - 1) : Cell(r, a) = Cell(r, a - off)
      /\ \A a \in x..(e - 1) : Cell(r, a) = Cell(r, a - dist)
  BY DEF Repeating
<1>c. PICK c \in 1..8 : dist = c * off /\ x - (c - 1) * off >= d
  BY DEF Multiple
<1> DEFINE P(k) == \A a \in d..(d + k - 1) : a < e => Cell(r, a) = Cell(r, a - off)
           S == {k \in Nat : P(k)}
<1>1. 0 \in S
  OBVIOUS
<1>2. ASSUME NEW k \in Nat, k \in S PROVE k + 1 \in S
  <2> SUFFICES ASSUME NEW a \in Int, a = d + k, a < e PROVE Cell(r, a) = Cell(r, a - off)
    <3> \A a \in d..(d + (k + 1) - 1) : a \in d..(d + k - 1) \/ a = d + k
      OBVIOUS
    <3> QED
      BY <1>2
  <2>1. CASE a < x
    BY <1>d, <2>1
  <2>2. CASE a >= x
    <3>1. Cell(r, a) = Cell(r, a - c * off)
      BY <1>c, <1>d, <2>2
    <3>2. \A b \in d..(a - 1) : Cell(r, b) = Cell(r, b - off)
      BY <1>2
    <3> DEFINE T == {i \in Nat : i < c => Cell(r, a - off) = Cell(r, a - off - i * off)}
    <3>3. 0 \in T
      OBVIOUS
    <3>4. ASSUME NEW i \in Nat, i \in T PROVE i + 1 \in T
      <4> SUFFICES ASSUME i + 1 < c
                   PROVE  Cell(r, a - off) = Cell(r, a - off - (i + 1) * off)
        OBVIOUS
      <4>1. (i + 1) * off = i * off + off /\ i * off \in Nat
        OBVIOUS
      <4>2. i * off + off <= (c - 1) * off
        <5>1. i + 1 \in 1..7 /\ i \in 0..6
          OBVIOUS
        <5> QED
          BY <5>1
      <4>3. a - off - i * off \in d..(a - 1)
        BY <1>c, <2>2, <4>1, <4>2
      <4>4. (a - off - i * off) - off = a - off - (i + 1) * off
        BY <4>1
      <4> QED
        BY <3>2, <3>4, <4>3, <4>4
    <3> HIDE DEF T
    <3>5. c - 1 \in T
      BY <3>3, <3>4, SetInduction
    <3>6. a - off - (c - 1) * off = a - c * off
      OBVIOUS
    <3> QED
      BY <3>1, <3>5, <3>6 DEF T
  <2> QED
    BY <2>1, <2>2
<1> HIDE DEF S
<1>3. \A k \in Nat : k \in S
  BY <1>1, <1>2, SetInduction
<1> QED
  <2> SUFFICES ASSUME NEW a \in d..(e - 1) PROVE Cell(r, a) = Cell(r, a - off)
    BY DEF Repeating
  <2>1. a - d + 1 \in Nat
    OBVIOUS
  <2>2. a - d + 1 \in S
    BY <1>3, <2>1
  <2> QED
    BY <2>2 DEF S
\* How far behind d + 8 a match goes on when its first eight bytes are at d.
Back(off) == IF off >= 8 THEN off ELSE <<8, 8, 8, 9, 8, 10, 12, 14>>[off + 1]

\* The tables make both copies of a short match go a multiple of its offset
\* back.
LEMMA Tables ==
    ASSUME NEW off \in 0..7
    PROVE  /\ inc32table[off + 1] \in 0..off
           /\ inc32table[off + 1] - dec64table[off + 1] - off = 8 - Back(off)
           /\ Back(off) \in 8..(8 + off)
           /\ off >= 1 => Multiple(4 + off - inc32table[off + 1], off, 4)
           /\ off >= 1 => Multiple(Back(off), off, 8)
<1>0. CASE off = 0
  BY <1>0 DEF inc32table, dec64table, Back, Multiple
<1>1. CASE off = 1
  <2> 4 + off - inc32table[off + 1] = 4 * off /\ Back(off) = 8 * off
    BY <1>1 DEF inc32table, Back
  <2> QED
    BY <1>1 DEF inc32table, dec64table, Back, Multiple
<1>2. CASE off = 2
  <2> 4 + off - inc32table[off + 1] = 2 * off /\ Back(off) = 4 * off
    BY <1>2 DEF inc32table, Back
  <2> QED
    BY <1>2 DEF inc32table, dec64table, Back, Multiple
<1>3. CASE off = 3
  <2> 4 + off - inc32table[off + 1] = 2 * off /\ Back(off) = 3 * off
    BY <1>3 DEF inc32table, Back
  <2> QED
    BY <1>3 DEF inc32table, dec64table, Back, Multiple
<1>4. CASE off = 4
  <2> 4 + off - inc32table[off + 1] = 2 * off /\ Back(off) = 2 * off
    BY <1>4 DEF inc32table, Back
  <2> QED
    BY <1>4 DEF inc32table, dec64table, Back, Multiple
<1>5. CASE off \in 5..7
  <2>1. 4 + off - inc32table[off + 1] = 1 * off /\ Back(off) = 2 * off
    <3>1. CASE off = 5
      BY <3>1 DEF inc32table, Back
    <3>2. CASE off = 6
      BY <3>2 DEF inc32table, Back
    <3>3. CASE off = 7
      BY <3>3 DEF inc32table, Back
    <3> QED
      BY <1>5, <3>1, <3>2, <3>3
  <2>2. inc32table[off + 1] = 4 /\ inc32table[off + 1] - dec64table[off + 1] - off = 8 - Back(off)
    <3>1. CASE off = 5
      BY <3>1 DEF inc32table, dec64table, Back, Multiple
    <3>2. CASE off = 6
      BY <3>2 DEF inc32table, dec64table, Back, Multiple
    <3>3. CASE off = 7
      BY <3>3 DEF inc32table, dec64table, Back, Multiple
    <3> QED
      BY <1>5, <3>1, <3>2, <3>3
  <2> QED
    BY <1>5, <2>1, <2>2 DEF Multiple
<1> QED
  BY <1>0, <1>1, <1>2, <1>3, <1>4, <1>5

\* m with zeros, or the bytes of a register, from d on.
LEMMA BlankIs ==
    ASSUME SmallSizes, NEW m, Sound(m), NEW d \in 0..oend, NEW k \in Nat, d + k <= oend
    PROVE  LET Zero(i) == 0
               r == Stored(m, d, k, Zero)
           IN  /\ Sound(r)
               /\ \A a \in 0..(d - 1) : r.out[a] = m.out[a]
               /\ \A a \in d..(d + k - 1) : r.out[a] = 0
<1> DEFINE o == [a \in DOMAIN m.out |-> IF a \in d..(d + k - 1) THEN 0 ELSE m.out[a]]
           t == Higher(m.top, d + k)
           r == [m EXCEPT !.out = o, !.top = t]
<1>1. m \in Memory /\ m.top <= oend
  BY DEF Sound
<1>2. o \in [0..(oend - 1) -> Int] /\ DOMAIN m.out = 0..(oend - 1)
  <2>1. m.out \in [0..(oend - 1) -> Int] /\ DOMAIN m.out = 0..(oend - 1)
    BY <1>1, MemoryFields
  <2> QED
    BY <2>1 DEF SmallSizes
<1>3. t \in Int /\ t <= oend
  BY <1>1, MemoryFields DEF Higher, SmallSizes
<1>4. /\ \A a \in 0..(d - 1) : o[a] = m.out[a]
      /\ \A a \in d..(d + k - 1) : o[a] = 0
  BY <1>2 DEF SmallSizes
<1> HIDE DEF o, t
<1>5. Sound(r) /\ r.out = o
  <2>1. r \in Memory /\ r.out = o /\ r.top = t /\ r.stray = m.stray
    BY <1>1, <1>2, <1>3 DEF Memory
  <2> QED
    BY <1>3, <2>1 DEF Sound
<1> QED
  BY <1>4, <1>5 DEF Stored, o, t

Register(m, w, d, k, s, off) ==
    [m EXCEPT
       !.out = [a \in DOMAIN @ |-> IF a \in d..(d + k - 1) THEN Cell(w, s + ((a - d) % off)) ELSE @[a]],
       !.top = Higher(@, d + k)]

HoldsRegister(r, m, w, d, k, s, off) ==
    /\ \A a \in 0..(d - 1) : r.out[a] = m.out[a]
    /\ \A a \in d..(d + k - 1) : r.out[a] = Cell(w, s + ((a - d) % off))

LEMMA RegisterIs ==
    ASSUME SmallSizes, NEW m, NEW w, w \in Memory, Sound(m), NEW d \in 0..oend, NEW k \in Nat, d + k <= oend,
           NEW s \in Int, NEW off \in {1, 2, 4}
    PROVE  LET r == Register(m, w, d, k, s, off)
           IN  Sound(r) /\ HoldsRegister(r, m, w, d, k, s, off)
<1> DEFINE r == Register(m, w, d, k, s, off)
<1> DEFINE o == [a \in DOMAIN m.out |-> IF a \in d..(d + k - 1) THEN Cell(w, s + ((a - d) % off)) ELSE m.out[a]]
           t == Higher(m.top, d + k)
<1>1. m \in Memory /\ m.top <= oend
  BY DEF Sound
<1>2. o \in [0..(oend - 1) -> Int] /\ DOMAIN m.out = 0..(oend - 1)
  <2>1. \A a \in 0..(oend - 1) : s + ((a - d) % off) \in Int
    BY DEF SmallSizes
  <2>2. \A a \in 0..(oend - 1) : Cell(w, s + ((a - d) % off)) \in Int
    BY <2>1, CellType
  <2>3. m.out \in [0..(oend - 1) -> Int] /\ DOMAIN m.out = 0..(oend - 1)
    BY <1>1, MemoryFields
  <2> QED
    BY <2>2, <2>3
<1>3. t \in Int /\ t <= oend
  BY <1>1, MemoryFields DEF Higher, SmallSizes
<1>4. /\ \A a \in 0..(d - 1) : o[a] = m.out[a]
      /\ \A a \in d..(d + k - 1) : o[a] = Cell(w, s + ((a - d) % off))
  BY <1>2 DEF SmallSizes
<1>r. r = [m EXCEPT !.out = o, !.top = t]
  BY DEF Register
<1> HIDE DEF o, t, r
<1>5. Sound(r) /\ r.out = o
  <2>1. r \in Memory /\ r.out = o /\ r.top = t /\ r.stray = m.stray
    BY <1>1, <1>2, <1>3, <1>r DEF Memory
  <2> QED
    BY <1>3, <2>1 DEF Sound
<1> QED
  BY <1>4, <1>5 DEF r, HoldsRegister

\* The first eight bytes of a match are there, and the copy goes on at the
\* right place.
Eight(m, f, d, off) ==
    /\ Sound(f.mem)
    /\ \A a \in 0..(d - 1) : f.mem.out[a] = m.out[a]
    /\ \A a \in d..(d + 7) : f.mem.out[a] = IF off = 0 THEN 0 ELSE Cell(f.mem, a - off)
    /\ f.match = d + 8 - Back(off)

LEMMA CellOut ==
    ASSUME SmallSizes, NEW m \in Memory, NEW a \in 0..(oend - 1)
    PROVE  Cell(m, a) = m.out[a]
  BY MemoryFields DEF Cell, SmallSizes

\* Below a byte that neither has changed, both hold the same.
LEMMA CellsBelow ==
    ASSUME SmallSizes, NEW m \in Memory, NEW r \in Memory, NEW d \in Int, d <= oend,
           \A a \in 0..(d - 1) : r.out[a] = m.out[a]
    PROVE  \A a \in Int : a < d => Cell(r, a) = Cell(m, a)
<1> DOMAIN m.out = 0..(oend - 1) /\ DOMAIN r.out = 0..(oend - 1)
  BY MemoryFields
<1> QED
  BY DEF Cell, SmallSizes

LEMMA FirstEightIs ==
    ASSUME SmallSizes, NEW m, Sound(m), NEW d \in Nat, d + 8 <= oend, NEW off \in Nat,
           d - off >= 0 - src.available
    PROVE  Eight(m, FirstEight(m, d, d - off, off), d, off)
<1> DEFINE s == d - off
<1>1. CASE off >= 8
  <2> DEFINE r == Copied(m, d, s, 8)
  <2>1. FirstEight(m, d, s, off) = [mem |-> r, match |-> s + 8]
    BY <1>1, Zenon DEF FirstEight
  <2>2. d \in 0..oend /\ s \in Int /\ s >= 0 - src.available /\ s + 8 <= d /\ d - s = off
    BY <1>1 DEF SmallSizes
  <2> HIDE DEF s
  <2>3. Sound(r) /\ Follows(m, r, d, d + 8, d - s)
    BY <2>2, CopiedFollows
  <2> HIDE DEF r
  <2>4. s + 8 = d + 8 - Back(off)
    BY <1>1, <2>2 DEF Back
  <2>5. /\ \A a \in 0..(d - 1) : r.out[a] = m.out[a]
        /\ \A a \in d..(d + 7) : r.out[a] = IF off = 0 THEN 0 ELSE Cell(r, a - off)
    BY <1>1, <2>2, <2>3 DEF Follows, SmallSizes
  <2> QED
    BY <2>1, <2>3, <2>4, <2>5 DEF Eight, s
<1>2. CASE off \in 0..7
  <2> DEFINE Zero(i) == 0
             inc   == inc32table[off + 1]
             blank == Stored(m, d, 4, Zero)
             first == Repeated(blank, d, s, 4)
             low   == s + inc
             r     == Copied(first, d + 4, low, 4)
  <2>1. FirstEight(m, d, s, off) = [mem |-> r, match |-> low - dec64table[off + 1]]
    <3>1. ~(off >= 8)
      BY <1>2
    <3> QED
      BY <3>1, Zenon DEF FirstEight
  <2>2. /\ Sound(blank)
        /\ \A a \in 0..(d - 1) : blank.out[a] = m.out[a]
        /\ \A a \in d..(d + 3) : blank.out[a] = 0
    <3>1. d \in 0..oend /\ 4 \in Nat /\ d + 4 <= oend /\ d + 4 - 1 = d + 3
      BY DEF SmallSizes
    <3>2. /\ Sound(blank)
          /\ \A a \in 0..(d - 1) : blank.out[a] = m.out[a]
          /\ \A a \in d..(d + 4 - 1) : blank.out[a] = 0
      BY <3>1, BlankIs, Zenon
    <3> HIDE DEF blank
    <3> QED
      BY <3>1, <3>2
  <2> HIDE DEF blank
  <2>3. inc \in 0..off /\ low - dec64table[off + 1] = d + 8 - Back(off)
    BY <1>2, Tables DEF dec64table
  <2>4. off >= 1 => Multiple(4 + off - inc, off, 4)
    BY <1>2, Tables
  <2>5. /\ Sound(first)
        /\ \A a \in 0..(d - 1) : first.out[a] = m.out[a]
        /\ \A a \in d..(d + 3) : first.out[a] = IF off = 0 THEN 0 ELSE Cell(first, a - off)
    <3>1. d \in 0..oend /\ d + 4 <= oend /\ s \in Int /\ 1 * 4 = 4 /\ d - s = off
      BY DEF SmallSizes
    <3>2. CASE off = 0
      <4>1. s = d
        BY <3>2
      <4>2. Sound(first) /\ \A a \in 0..(oend - 1) : first.out[a] = blank.out[a]
        BY <2>2, <3>1, <4>1, ChunksStay DEF Repeated
      <4> HIDE DEF first
      <4> QED
        BY <2>2, <3>1, <3>2, <4>2 DEF SmallSizes
    <3>3. CASE off >= 1
      <4>1. s + 1 <= d
        BY <3>3
      <4>2. Sound(first) /\ Follows(blank, first, d, d + 1 * 4, d - s)
        BY <2>2, <3>1, <4>1, ChunksFollow DEF Repeated
      <4> HIDE DEF first, s
      <4> QED
        BY <2>2, <3>1, <3>3, <4>2 DEF Follows, SmallSizes
    <3> QED
      BY <1>2, <3>2, <3>3
  <2> HIDE DEF first
  <2>6. Sound(r) /\ Follows(first, r, d + 4, d + 8, 4 + off - inc)
    <3>1. /\ d + 4 \in 0..oend /\ low \in Int /\ low >= 0 - src.available /\ low + 4 <= d + 4
          /\ d + 4 + 4 <= oend /\ d + 4 - low = 4 + off - inc /\ d + 4 + 4 = d + 8
      BY <2>3 DEF SmallSizes
    <3> HIDE DEF low, inc
    <3> QED
      BY <2>5, <3>1, CopiedFollows
  <2> HIDE DEF r, inc
  <2>7. first \in Memory /\ r \in Memory
    BY <2>5, <2>6 DEF Sound
  <2>8. \A a \in 0..(d + 3) : r.out[a] = first.out[a]
    BY <2>6 DEF Follows, SmallSizes
  <2>9. \A a \in Int : a < d + 4 => Cell(r, a) = Cell(first, a)
    <3>1. d + 4 \in Int /\ d + 4 <= oend /\ d + 4 - 1 = d + 3
      BY DEF SmallSizes
    <3> QED
      BY <2>7, <2>8, <3>1, CellsBelow
  <2>10. \A a \in 0..(d - 1) : r.out[a] = m.out[a]
    BY <2>5, <2>8
  <2>11. \A a \in d..(d + 7) : r.out[a] = IF off = 0 THEN 0 ELSE Cell(r, a - off)
    <3>1. \A a \in d..(d + 3) : r.out[a] = IF off = 0 THEN 0 ELSE Cell(r, a - off)
      BY <1>2, <2>5, <2>8, <2>9
    <3>2. \A a \in (d + 4)..(d + 7) : r.out[a] = Cell(r, a - (4 + off - inc))
      BY <2>6 DEF Follows
    <3>3. \A a \in d..(d + 7) : Cell(r, a) = r.out[a]
      BY <2>7, CellOut DEF SmallSizes
    <3>4. CASE off = 0
      <4>1. 4 + off - inc = 4
        BY <2>3, <3>4
      <4>2. \A a \in (d + 4)..(d + 7) : a - 4 \in d..(d + 3)
        OBVIOUS
      <4>3. \A a \in (d + 4)..(d + 7) : r.out[a] = 0
        BY <3>1, <3>2, <3>3, <3>4, <4>1, <4>2
      <4> QED
        BY <3>1, <3>4, <4>3
    <3>5. CASE off >= 1
      <4> DEFINE dist == 4 + off - inc
                 x == d + 4
      <4>1. Multiple(dist, off, 4) /\ dist \in Int
        BY <2>3, <2>4, <3>5
      <4>2. d \in Int /\ x \in Int /\ d + 8 \in Int /\ d + 4 <= x
        OBVIOUS
      <4>3. Repeating(r, d, x, off)
        BY <3>1, <3>3, <3>5 DEF Repeating
      <4>4. Repeating(r, x, d + 8, dist)
        BY <3>2, <3>3 DEF Repeating
      <4> HIDE DEF dist, x
      <4>5. Repeating(r, d, d + 8, off)
        BY <3>5, <4>1, <4>2, <4>3, <4>4, Period
      <4> QED
        BY <3>3, <3>5, <4>5 DEF Repeating
    <3> QED
      BY <1>2, <3>4, <3>5
  <2> QED
    BY <2>1, <2>3, <2>6, <2>10, <2>11 DEF Eight
<1> QED
  BY <1>1, <1>2

\* What a match of len bytes, off back, has to leave.
MatchCopied(m, r, d, len, off) ==
    /\ \A a \in 0..(d - 1) : r.out[a] = m.out[a]
    /\ \A a \in d..(d + len - 1) :
         IF off = 0 THEN r.out[a] = 0 \/ src.partial ELSE r.out[a] = Cell(r, a - off)

LEMMA FollowsCopied ==
    ASSUME SmallSizes, NEW m, NEW r, NEW d \in 0..oend, NEW len \in Int, NEW e \in Int,
           NEW off \in Nat, off >= 1, d + len <= e, Follows(m, r, d, e, off)
    PROVE  MatchCopied(m, r, d, len, off)
  BY DEF Follows, MatchCopied, SmallSizes

\* Behind its first eight bytes a match may be copied eight at a time.
LEMMA EightAndMore ==
    ASSUME SmallSizes, NEW m, NEW f, NEW r, NEW d \in Nat, NEW off \in Nat, NEW e \in Int, NEW len \in Int,
           Eight(m, f, d, off), r \in Memory, d + 8 <= oend, e <= oend, d + len <= d + 8 \/ d + len <= e,
           Follows(f.mem, r, d + 8, e, Back(off))
    PROVE  MatchCopied(m, r, d, len, off)
<1>1. /\ \A a \in 0..(d + 7) : r.out[a] = f.mem.out[a]
      /\ \A a \in (d + 8)..(e - 1) : r.out[a] = Cell(r, a - Back(off))
  BY DEF Follows, SmallSizes
<1>2. f.mem \in Memory
  BY DEF Eight, Sound
<1>3. \A a \in Int : a < d + 8 => Cell(r, a) = Cell(f.mem, a)
  <2>1. d + 8 \in Int /\ d + 8 <= oend /\ d + 8 - 1 = d + 7
    OBVIOUS
  <2> QED
    BY <1>1, <1>2, <2>1, CellsBelow
<1>4. \A a \in d..(d + 7) : r.out[a] = IF off = 0 THEN 0 ELSE Cell(r, a - off)
  BY <1>1, <1>3 DEF Eight
<1>5. \A a \in 0..(d - 1) : r.out[a] = m.out[a]
  BY <1>1 DEF Eight
<1>6. /\ \A a \in d..(d + 7) : Cell(r, a) = r.out[a]
      /\ \A a \in (d + 8)..(e - 1) : Cell(r, a) = r.out[a]
  BY CellOut DEF SmallSizes
<1>7. CASE off = 0
  <2>1. Back(off) = 8
    BY <1>7 DEF Back
  <2> DEFINE S == {k \in Nat : \A a \in (d + 8)..(d + 8 + k - 1) : a < e => Cell(r, a) = 0}
  <2>2. 0 \in S
    OBVIOUS
  <2>3. ASSUME NEW k \in Nat, k \in S PROVE k + 1 \in S
    <3> SUFFICES ASSUME NEW a \in Int, a = d + 8 + k, a < e PROVE Cell(r, a) = 0
      <4> \A a \in (d + 8)..(d + 8 + (k + 1) - 1) : a \in (d + 8)..(d + 8 + k - 1) \/ a = d + 8 + k
        OBVIOUS
      <4> QED
        BY <2>3
    <3>1. Cell(r, a) = Cell(r, a - 8)
      BY <1>1, <1>6, <2>1
    <3>2. a - 8 \in d..(d + 7) \/ a - 8 \in (d + 8)..(d + 8 + k - 1)
      OBVIOUS
    <3> QED
      BY <1>4, <1>6, <1>7, <2>3, <3>1, <3>2
  <2> HIDE DEF S
  <2>4. \A k \in Nat : k \in S
    BY <2>2, <2>3, SetInduction
  <2>5. ASSUME NEW a \in (d + 8)..(e - 1) PROVE r.out[a] = 0
    <3>1. a - (d + 8) + 1 \in Nat
      OBVIOUS
    <3>2. a - (d + 8) + 1 \in S
      BY <2>4, <3>1
    <3> QED
      BY <1>6, <3>2 DEF S
  <2> QED
    BY <1>4, <1>5, <1>7, <2>5 DEF MatchCopied
<1>8. CASE off >= 1
  <2> DEFINE x == d + 8
  <2>1. Multiple(Back(off), off, 8) /\ Back(off) \in Int
    <3>1. CASE off >= 8
      BY <3>1 DEF Back, Multiple
    <3>2. CASE off \in 1..7
      <4>1. off \in 0..7
        BY <3>2
      <4> QED
        BY <1>8, <4>1, Tables
    <3> QED
      BY <1>8, <3>1, <3>2
  <2>2. d \in Int /\ x \in Int /\ d + 8 <= x
    OBVIOUS
  <2>3. Repeating(r, d, x, off)
    BY <1>4, <1>6, <1>8 DEF Repeating
  <2>4. Repeating(r, x, e, Back(off))
    BY <1>1, <1>6 DEF Repeating
  <2> HIDE DEF x
  <2>5. Repeating(r, d, e, off)
    BY <1>8, <2>1, <2>2, <2>3, <2>4, Period
  <2>6. \A a \in d..(e - 1) : r.out[a] = Cell(r, a - off)
    BY <1>4, <1>6, <2>5 DEF Repeating
  <2> QED
    BY <1>4, <1>5, <1>8, <2>6 DEF MatchCopied
<1> QED
  BY <1>7, <1>8
-----------------------------------------------------------------------------
(* The ways to copy a match                                                *)

LEMMA Wild8Follows ==
    ASSUME SmallSizes, NEW m, Sound(m), NEW d \in 0..oend, NEW s \in Int, NEW e \in Int,
           s >= 0 - src.available, s + 8 <= d,
           e <= d => d + 8 <= oend, e > d => e + 7 <= oend
    PROVE  LET r == LZ4_wildCopy8(m, d, s, e) IN Sound(r) /\ Follows(m, r, d, e, d - s)
<1> DEFINE n == IF e <= d THEN 1 ELSE (e - d + 8 - 1) \div 8
           r == Chunks(m, d, s, 8, n)
<1>1. LZ4_wildCopy8(m, d, s, e) = r
  BY DEF LZ4_wildCopy8, WildCopy
<1>2. n \in Nat /\ d + 8 * n <= oend /\ e <= d + 8 * n /\ d + 8 * n \in Int
  BY DEF SmallSizes
<1> HIDE DEF n
<1>3. Sound(r) /\ Follows(m, r, d, d + 8 * n, d - s)
  BY <1>2, ChunksFollow
<1> HIDE DEF r
<1>4. Follows(m, r, d, e, d - s)
  BY <1>2, <1>3, FollowsLess DEF SmallSizes
<1> QED
  BY <1>1, <1>3, <1>4

LEMMA Wild32Follows ==
    ASSUME SmallSizes, NEW m, Sound(m), NEW d \in 0..oend, NEW s \in Int, NEW e \in Int,
           s >= 0 - src.available, s + 16 <= d, e > d, e + 31 <= oend
    PROVE  LET r == LZ4_wildCopy32(m, d, s, e) IN Sound(r) /\ Follows(m, r, d, e, d - s)
<1> DEFINE n == (e - d + 31) \div 32
           r == Chunks(m, d, s, 16, 2 * n)
<1>1. n \in Nat /\ n >= 1 /\ d + 32 * n <= oend /\ e <= d + 32 * n
  BY DEF SmallSizes
<1>2. LZ4_wildCopy32(m, d, s, e) = r
  <2>1. ~(e <= d)
    BY DEF SmallSizes
  <2>2. LZ4_wildCopy32(m, d, s, e) = WildCopy(m, d, s, d + 32 * n, 16)
    BY <2>1 DEF LZ4_wildCopy32
  <2> HIDE DEF n
  <2> DEFINE x == d + 32 * n
             c == IF x <= d THEN 1 ELSE (x - d + 16 - 1) \div 16
  <2>3. c = 2 * n
    BY <1>1 DEF SmallSizes
  <2>4. WildCopy(m, d, s, x, 16) = Chunks(m, d, s, 16, c)
    BY DEF WildCopy
  <2> HIDE DEF x, c
  <2> QED
    BY <2>2, <2>3, <2>4 DEF x
<1> HIDE DEF n
<1>3. 2 * n \in Nat /\ d + 16 * (2 * n) = d + 32 * n /\ d + 32 * n \in Int
  BY <1>1 DEF SmallSizes
<1>4. Sound(r) /\ Follows(m, r, d, d + 16 * (2 * n), d - s)
  BY <1>1, <1>3, ChunksFollow
<1> HIDE DEF r
<1>5. Follows(m, r, d, e, d - s)
  BY <1>1, <1>3, <1>4, FollowsLess DEF SmallSizes
<1> QED
  BY <1>2, <1>4, <1>5

LEMMA RepeatedFollows ==
    ASSUME SmallSizes, NEW m, Sound(m), NEW d \in 0..oend, NEW s \in Int, NEW k \in Nat,
           s >= 0 - src.available, s < d, d + k <= oend
    PROVE  LET r == Repeated(m, d, s, k) IN Sound(r) /\ Follows(m, r, d, d + k, d - s)
<1>1. 1 * k = k /\ s + 1 <= d
  BY DEF SmallSizes
<1> QED
  BY <1>1, ChunksFollow DEF Repeated

\* The tables never make a match go on before its start.
LEMMA BackIs ==
    ASSUME NEW off \in Nat
    PROVE  Back(off) \in Nat /\ Back(off) >= 8 /\ Back(off) <= 8 + off
<1>1. CASE off >= 8
  BY <1>1 DEF Back
<1>2. CASE off \in 0..7
  BY <1>2, Tables
<1> QED
  BY <1>1, <1>2

LEMMA ShortMatchCopied ==
    ASSUME SmallSizes, NEW m, Sound(m), NEW d \in Nat, NEW off \in Nat, off >= 8,
           NEW len \in Nat, len <= 18, d + 18 <= oend, d - off >= 0 - src.available
    PROVE  LET s == d - off
               r == Copied(Copied(Copied(m, d, s, 8), d + 8, s + 8, 8), d + 16, s + 16, 2)
           IN  Sound(r) /\ MatchCopied(m, r, d, len, off)
<1> DEFINE s == d - off
           m1 == Copied(m, d, s, 8)
           d1 == d + 8
           s1 == s + 8
           m2 == Copied(m1, d1, s1, 8)
           d2 == d + 16
           s2 == s + 16
           r == Copied(m2, d2, s2, 2)
<1>1. /\ d \in 0..oend /\ s \in Int /\ s >= 0 - src.available /\ s + 8 <= d /\ d + 8 <= oend
      /\ d1 \in 0..oend /\ s1 \in Int /\ s1 >= 0 - src.available /\ s1 + 8 <= d1 /\ d1 + 8 <= oend
      /\ d2 \in 0..oend /\ s2 \in Int /\ s2 >= 0 - src.available /\ s2 + 2 <= d2 /\ d2 + 2 <= oend
      /\ d - s = off /\ d1 - s1 = off /\ d2 - s2 = off
      /\ d + 8 = d1 /\ d1 + 8 = d2 /\ d2 + 2 = d + 18 /\ d <= d1 /\ d <= d2 /\ d1 \in Nat /\ d2 \in Nat
  BY DEF SmallSizes
<1> HIDE DEF s, d1, s1, d2, s2
<1>2. Sound(m1) /\ Follows(m, m1, d, d1, off)
  BY <1>1, CopiedFollows
<1> HIDE DEF m1
<1>3. Sound(m2) /\ Follows(m1, m2, d1, d2, off)
  BY <1>1, <1>2, CopiedFollows
<1> HIDE DEF m2
<1>4. Sound(r) /\ Follows(m2, r, d2, d + 18, off)
  BY <1>1, <1>3, CopiedFollows
<1> HIDE DEF r
<1>m. m \in Memory /\ m1 \in Memory /\ m2 \in Memory /\ r \in Memory
  BY <1>2, <1>3, <1>4 DEF Sound
<1>5. Follows(m, m2, d, d2, off)
  BY <1>1, <1>2, <1>3, <1>m, FollowsOn DEF SmallSizes
<1>6. Follows(m, r, d, d + 18, off)
  BY <1>1, <1>4, <1>5, <1>m, FollowsOn DEF SmallSizes
<1>7. MatchCopied(m, r, d, len, off)
  BY <1>1, <1>6, FollowsCopied
<1> QED
  BY <1>4, <1>7 DEF r, m1, m2, s, d1, s1, d2, s2

LEMMA Wild32Copied ==
    ASSUME SmallSizes, NEW m, Sound(m), NEW d \in Nat, NEW off \in Nat, off >= 16,
           NEW len \in Nat, len >= 1, d + len + 31 <= oend, d - off >= 0 - src.available
    PROVE  LET r == LZ4_wildCopy32(m, d, d - off, d + len)
           IN  Sound(r) /\ MatchCopied(m, r, d, len, off)
<1> DEFINE s == d - off
           e == d + len
           r == LZ4_wildCopy32(m, d, s, e)
<1>1. /\ d \in 0..oend /\ s \in Int /\ s >= 0 - src.available /\ s + 16 <= d /\ e > d /\ e + 31 <= oend
      /\ d - s = off /\ e \in Int /\ d + len <= e
  BY DEF SmallSizes
<1> HIDE DEF s, e
<1>2. Sound(r) /\ Follows(m, r, d, e, off)
  BY <1>1, Wild32Follows
<1> HIDE DEF r
<1>3. MatchCopied(m, r, d, len, off)
  BY <1>1, <1>2, FollowsCopied
<1> QED
  BY <1>2, <1>3 DEF r, s, e

LEMMA ModStep ==
    ASSUME NEW b \in Nat, NEW off \in {1, 2, 4}, b >= off
    PROVE  (b - off) % off = b % off
<1>1. (b - 1) % 1 = b % 1
  OBVIOUS
<1>2. (b - 2) % 2 = b % 2
  OBVIOUS
<1>3. (b - 4) % 4 = b % 4
  OBVIOUS
<1> QED
  BY <1>1, <1>2, <1>3

LEMMA UsingOffsetCopied ==
    ASSUME SmallSizes, NEW m, Sound(m), NEW d \in Nat, NEW off \in Nat,
           NEW len \in Nat, d + len + 7 <= oend, d + 16 <= oend, d - off >= 0 - src.available
    PROVE  LET r == LZ4_memcpy_using_offset(m, d, d - off, d + len, off)
           IN  Sound(r) /\ MatchCopied(m, r, d, len, off)
<1> DEFINE s == d - off
           e == d + len
           r == LZ4_memcpy_using_offset(m, d, s, e, off)
<1>m. m \in Memory
  BY DEF Sound
<1>1. CASE off \in {1, 2, 4}
  <2> DEFINE F(i) == Cell(m, s + (i % off))
             k == 8 * Higher(1, (e - d + 7) \div 8)
             m1 == Copied(m, d, s, off)
  <2>1. r = Stored(m1, d, k, F)
    BY <1>1, Zenon DEF LZ4_memcpy_using_offset
  <2>2. k \in Nat /\ d + k <= oend /\ len <= k
    BY DEF Higher, SmallSizes
  <2>3. d \in 0..oend /\ s \in Int /\ s >= 0 - src.available /\ s + off <= d /\ d + off <= oend /\ d - s = off
    BY <1>1 DEF SmallSizes
  <2> HIDE DEF k
  <2>4. Sound(m1) /\ Follows(m, m1, d, d + off, off)
    <3> HIDE DEF s
    <3> QED
      BY <2>3, CopiedFollows
  <2> HIDE DEF m1
  <2>5. Sound(r) /\ HoldsRegister(r, m1, m, d, k, s, off)
    <3> HIDE DEF s, r
    <3>1. r = Register(m1, m, d, k, s, off)
      BY <2>1, Zenon DEF Stored, Register
    <3> HIDE DEF F
    <3> QED
      BY <1>m, <1>1, <2>2, <2>3, <2>4, <3>1, RegisterIs
  <2> HIDE DEF r
  <2>6. \A a \in 0..(d - 1) : r.out[a] = m.out[a]
    BY <2>4, <2>5 DEF Follows, HoldsRegister, SmallSizes
  <2>7. \A a \in Int : a < d => Cell(r, a) = Cell(m, a)
    BY <1>m, <2>3, <2>5, <2>6, CellsBelow DEF Sound, SmallSizes
  <2>8. \A a \in d..(d + k - 1) : r.out[a] = Cell(r, a)
    <3>1. \A a \in d..(d + k - 1) : a \in 0..(oend - 1)
      BY <2>2 DEF SmallSizes
    <3> QED
      BY <2>5, <3>1, CellOut DEF Sound
  <2>9. ASSUME NEW a \in d..(d + len - 1) PROVE r.out[a] = Cell(r, a - off)
    <3>1. a \in d..(d + k - 1)
      BY <2>2
    <3>2. CASE a < d + off
      <4>1. (a - d) % off = a - d /\ s + (a - d) = a - off /\ a - off < d /\ a - off \in Int
        <5>1. CASE off = 1
          BY <3>2, <5>1
        <5>2. CASE off = 2
          BY <3>2, <5>2
        <5>3. CASE off = 4
          BY <3>2, <5>3
        <5> QED
          BY <1>1, <5>1, <5>2, <5>3
      <4> HIDE DEF s
      <4> QED
        BY <2>5, <2>7, <3>1, <4>1 DEF HoldsRegister
    <3>3. CASE a >= d + off
      <4>1. a - off \in d..(d + k - 1) /\ ((a - off) - d) % off = (a - d) % off
        <5>1. a - d \in Nat /\ a - d >= off /\ (a - off) - d = (a - d) - off
          BY <1>1, <3>1, <3>3
        <5>2. ((a - d) - off) % off = (a - d) % off
          BY <1>1, <5>1, ModStep
        <5>3. a - off \in d..(d + k - 1)
          BY <1>1, <2>2, <3>1, <3>3
        <5> QED
          BY <5>1, <5>2, <5>3
      <4> HIDE DEF s
      <4> QED
        BY <2>5, <2>8, <3>1, <4>1 DEF HoldsRegister
    <3> QED
      BY <3>2, <3>3
  <2>10. MatchCopied(m, r, d, len, off)
    BY <1>1, <2>6, <2>9 DEF MatchCopied
  <2> QED
    BY <2>5, <2>10 DEF r
<1>2. CASE off \notin {1, 2, 4}
  <2> DEFINE f == FirstEight(m, d, s, off)
             d1 == d + 8
             w == LZ4_wildCopy8(f.mem, d1, f.match, e)
  <2>1. r = w
    BY <1>2 DEF LZ4_memcpy_using_offset
  <2>2. Eight(m, f, d, off)
    BY FirstEightIs DEF SmallSizes
  <2> HIDE DEF f
  <2>3. /\ f.match \in Int /\ f.match >= 0 - src.available /\ f.match + 8 <= d1 /\ d1 - f.match = Back(off)
        /\ Sound(f.mem) /\ d1 \in 0..oend /\ e \in Int
        /\ (e <= d1 => d1 + 8 <= oend) /\ (e > d1 => e + 7 <= oend)
    BY <2>2, BackIs DEF Eight, SmallSizes
  <2> HIDE DEF d1
  <2>4. Sound(w) /\ Follows(f.mem, w, d1, e, Back(off))
    BY <2>3, Wild8Follows
  <2> HIDE DEF w
  <2>5. MatchCopied(m, w, d, len, off)
    <3>1. w \in Memory /\ d + 8 <= oend /\ e <= oend /\ d + len <= e
      BY <2>4 DEF Sound, SmallSizes
    <3> QED
      BY <2>2, <2>4, <3>1, EightAndMore DEF d1
  <2> QED
    BY <2>1, <2>4, <2>5
<1> QED
  BY <1>1, <1>2
LEMMA DictMatchCopied ==
    ASSUME SmallSizes, NEW m, Sound(m), NEW d \in 0..oend, NEW off \in Nat, NEW len \in Nat,
           d + len <= oend, d - off >= 0 - src.available, src.prefix \in Nat, d - off < lowPrefix
    PROVE  LET r == DictMatch(m, d, d - off, len)
           IN  Sound(r) /\ MatchCopied(m, r, d, len, off)
<1> DEFINE s == d - off
           copySize == lowPrefix - s
           restSize == len - copySize
           d1 == d + copySize
           first == Copied(m, d, s, copySize)
           r == DictMatch(m, d, s, len)
<1>1. /\ s \in Int /\ s >= 0 - src.available /\ d - s = off /\ off >= 1
      /\ copySize \in Nat /\ copySize >= 1 /\ s + copySize <= d /\ d1 = d + copySize
      /\ d1 \in Nat /\ d1 - lowPrefix = off /\ lowPrefix \in Int /\ lowPrefix >= 0 - src.available
      /\ lowPrefix < d1 /\ s + copySize = lowPrefix /\ restSize \in Int /\ d1 + restSize = d + len
      /\ d + copySize - lowPrefix = off /\ d \in Nat /\ d + len \in Int /\ d <= d1
  BY DEF lowPrefix, SmallSizes
<1>2. CASE len <= copySize
  <2> DEFINE w == Copied(m, d, s, len)
  <2>1. r = w
    BY <1>2 DEF DictMatch
  <2> HIDE DEF s, copySize, r, restSize, d1
  <2>2. s + len <= d
    BY <1>1, <1>2 DEF SmallSizes
  <2>3. Sound(w) /\ Follows(m, w, d, d + len, off)
    BY <1>1, <2>2, CopiedFollows
  <2> HIDE DEF w
  <2>4. MatchCopied(m, w, d, len, off)
    BY <1>1, <2>3, FollowsCopied
  <2> QED
    BY <2>1, <2>3, <2>4 DEF r, s
<1>3. CASE ~(len <= copySize)
  <2> DEFINE w == IF restSize > d + copySize - lowPrefix THEN Repeated(first, d1, lowPrefix, restSize)
                  ELSE Copied(first, d1, lowPrefix, restSize)
  <2>1. r = w
    <3>1. r = IF len <= copySize THEN Copied(m, d, s, len) ELSE w
      BY Zenon DEF DictMatch
    <3> HIDE DEF r, w, copySize
    <3> QED
      BY <1>3, <3>1
  <2>2. restSize \in Nat /\ d1 \in 0..oend /\ d1 + restSize <= oend /\ d + copySize <= oend
    BY <1>1, <1>3 DEF SmallSizes
  <2> HIDE DEF s, copySize, r, restSize, d1
  <2>3. Sound(first) /\ Follows(m, first, d, d1, off)
    BY <1>1, <2>2, CopiedFollows
  <2> HIDE DEF first
  <2>4. Sound(w) /\ Follows(first, w, d1, d + len, off)
    <3>1. CASE restSize > d + copySize - lowPrefix
      BY <1>1, <2>2, <2>3, <3>1, RepeatedFollows
    <3>2. CASE ~(restSize > d + copySize - lowPrefix)
      <4>1. lowPrefix + restSize <= d1
        BY <1>1, <2>2, <3>2 DEF SmallSizes
      <4>2. w = Copied(first, d1, lowPrefix, restSize)
        BY <3>2
      <4> HIDE DEF w
      <4>3. LET q == Copied(first, d1, lowPrefix, restSize)
            IN  Sound(q) /\ Follows(first, q, d1, d1 + restSize, d1 - lowPrefix)
        BY <1>1, <2>2, <2>3, <4>1, CopiedFollows
      <4> QED
        BY <1>1, <4>2, <4>3
    <3> QED
      BY <3>1, <3>2
  <2> HIDE DEF w
  <2>5. Follows(m, w, d, d + len, off)
    <3>1. m \in Memory /\ first \in Memory /\ w \in Memory
      BY <2>3, <2>4 DEF Sound
    <3>2. d1 <= oend
      BY <2>2
    <3> QED
      BY <1>1, <2>3, <2>4, <3>1, <3>2, FollowsOn
  <2>6. MatchCopied(m, w, d, len, off)
    BY <1>1, <2>5, FollowsCopied
  <2> QED
    BY <2>1, <2>4, <2>6 DEF r, s
<1> QED
  BY <1>2, <1>3

LEMMA PartialCopied ==
    ASSUME SmallSizes, NEW m, Sound(m), NEW d \in 0..oend, NEW off \in Nat, NEW len \in Nat,
           d + len <= oend, d - off >= 0 - src.available, src.partial
    PROVE  LET s == d - off
               r == IF s + len > d THEN Repeated(m, d, s, len) ELSE Copied(m, d, s, len)
           IN  Sound(r) /\ MatchCopied(m, r, d, len, off)
<1> DEFINE s == d - off
           r == IF s + len > d THEN Repeated(m, d, s, len) ELSE Copied(m, d, s, len)
<1>1. s \in Int /\ s >= 0 - src.available /\ d - s = off
  BY DEF SmallSizes
<1>m. m \in Memory
  BY DEF Sound
<1>2. CASE off = 0
  <2>1. s = d
    BY <1>2 DEF SmallSizes
  <2>2. Sound(r) /\ \A a \in 0..(d - 1) : r.out[a] = m.out[a]
    <3>1. CASE s + len > d
      <4> DEFINE w == Chunks(m, d, d, 1, len)
      <4>1. r = w
        BY <2>1, <3>1 DEF Repeated
      <4>2. Sound(w) /\ \A a \in 0..(oend - 1) : w.out[a] = m.out[a]
        BY ChunksStay
      <4> HIDE DEF r, w
      <4> QED
        BY <4>1, <4>2 DEF SmallSizes
    <3>2. CASE ~(s + len > d)
      <4> DEFINE w == Copied(m, d, s, len)
      <4>1. r = w
        BY <3>2
      <4>2. s + len <= d
        BY <1>1, <3>2 DEF SmallSizes
      <4> HIDE DEF s, r
      <4>3. Sound(w) /\ Follows(m, w, d, d + len, d - s)
        BY <1>1, <4>2, CopiedFollows
      <4> HIDE DEF w
      <4> QED
        BY <4>1, <4>3 DEF Follows, SmallSizes
    <3> QED
      BY <3>1, <3>2
  <2> HIDE DEF r
  <2>3. MatchCopied(m, r, d, len, off)
    BY <1>2, <2>2 DEF MatchCopied
  <2> QED
    BY <2>2, <2>3 DEF r
<1>3. CASE off >= 1
  <2>1. s < d
    BY <1>3 DEF SmallSizes
  <2>2. Sound(r) /\ Follows(m, r, d, d + len, off)
    <3>1. CASE s + len > d
      <4> DEFINE w == Repeated(m, d, s, len)
      <4>1. r = w
        BY <3>1
      <4> HIDE DEF s, r
      <4>2. Sound(w) /\ Follows(m, w, d, d + len, d - s)
        BY <1>1, <2>1, RepeatedFollows
      <4> HIDE DEF w
      <4> QED
        BY <1>1, <4>1, <4>2
    <3>2. CASE ~(s + len > d)
      <4> DEFINE w == Copied(m, d, s, len)
      <4>1. r = w
        BY <3>2
      <4>2. s + len <= d
        BY <1>1, <3>2 DEF SmallSizes
      <4> HIDE DEF s, r
      <4>3. Sound(w) /\ Follows(m, w, d, d + len, d - s)
        BY <1>1, <4>2, CopiedFollows
      <4> HIDE DEF w
      <4> QED
        BY <1>1, <4>1, <4>3
    <3> QED
      BY <3>1, <3>2
  <2> HIDE DEF r
  <2>3. MatchCopied(m, r, d, len, off)
    <3>1. d + len \in Int /\ d + len <= d + len
      BY DEF SmallSizes
    <3> QED
      BY <1>3, <2>2, <3>1, FollowsCopied
  <2> QED
    BY <2>2, <2>3 DEF r
<1> QED
  BY <1>2, <1>3

\* A match within the block, with the room the checks before it have left.
LEMMA BlockMatchCopied ==
    ASSUME SmallSizes, NEW m, Sound(m), op \in Nat, offset \in Nat, length \in Nat, length >= MINMATCH,
           op + length <= oend - LASTLITERALS, op + 8 <= oend, op - offset >= 0 - src.available
    PROVE  LET r == BlockMatch(m, op - offset, op + length)
           IN  Sound(r) /\ MatchCopied(m, r, op, length, offset)
<1> DEFINE s == op - offset
           cpy == op + length
           f == FirstEight(m, op, s, offset)
           oCopyLimit == oend - (WILDCOPYLENGTH - 1)
           next == op + 8
           r == BlockMatch(m, s, cpy)
           dist == Back(offset)
<1>1. Eight(m, f, op, offset)
  BY FirstEightIs
<1> DEFINE fm == f.mem
           fs == f.match
<1>2. /\ Sound(fm) /\ fs \in Int /\ fs >= 0 - src.available /\ fs + 8 <= next /\ next - fs = dist
      /\ next \in 0..oend /\ next \in Nat /\ cpy \in Int /\ dist \in Nat /\ dist >= 8
      /\ oCopyLimit = oend - 7 /\ cpy <= oend - 5 /\ next <= cpy + 4
  BY <1>1, BackIs DEF Eight, SmallSizes, WILDCOPYLENGTH, LASTLITERALS, MINMATCH
<1> HIDE DEF f
<1>3. CASE cpy > oend - MATCH_SAFEGUARD_DISTANCE /\ next < oCopyLimit
  <2> DEFINE wild == LZ4_wildCopy8(fm, next, fs, oCopyLimit)
             more == fs + oCopyLimit - next
             k == Higher(cpy - oCopyLimit, 0)
             w == Repeated(wild, oCopyLimit, more, k)
  <2>1. r = w
    BY <1>3, Zenon DEF BlockMatch, f
  <2>2. /\ oCopyLimit > next /\ oCopyLimit + 7 <= oend /\ oCopyLimit \in Nat /\ oCopyLimit \in 0..oend
        /\ more \in Int /\ more >= 0 - src.available /\ more < oCopyLimit /\ oCopyLimit - more = dist
        /\ k \in Nat /\ oCopyLimit + k <= oend /\ cpy <= oCopyLimit + k /\ oCopyLimit + k \in Int
        /\ oCopyLimit \in Int /\ dist >= 1
    BY <1>2, <1>3 DEF Higher, SmallSizes
  <2> HIDE DEF more, k, oCopyLimit, fm, fs, next, r, dist, cpy
  <2>3. Sound(wild) /\ Follows(fm, wild, next, oCopyLimit, dist)
    <3>1. ~(oCopyLimit <= next)
      BY <1>2, <2>2 DEF SmallSizes
    <3> QED
      BY <1>2, <2>2, <3>1, Wild8Follows
  <2> HIDE DEF wild
  <2>4. Sound(w) /\ Follows(wild, w, oCopyLimit, oCopyLimit + k, dist)
    BY <2>2, <2>3, RepeatedFollows
  <2> HIDE DEF w
  <2>5. Follows(fm, w, next, oCopyLimit + k, dist)
    <3> DEFINE e2 == oCopyLimit + k
    <3>0. e2 \in Int /\ e2 <= oend /\ Follows(wild, w, oCopyLimit, e2, dist)
      BY <2>2, <2>4
    <3>1. fm \in Memory /\ wild \in Memory /\ w \in Memory
      BY <1>2, <2>3, <2>4 DEF Sound
    <3>2. next <= oCopyLimit /\ oCopyLimit <= oCopyLimit /\ oCopyLimit <= oend
      BY <1>2, <2>2 DEF SmallSizes
    <3> HIDE DEF e2
    <3>3. Follows(fm, w, next, e2, dist)
      <4>1. /\ fm \in Memory /\ wild \in Memory /\ w \in Memory /\ next \in Nat /\ oCopyLimit \in Int
            /\ oCopyLimit \in Nat /\ e2 \in Int /\ dist \in Nat /\ next <= oCopyLimit
            /\ oCopyLimit <= oCopyLimit /\ oCopyLimit <= oend /\ e2 <= oend /\ dist >= 1
            /\ Follows(fm, wild, next, oCopyLimit, dist) /\ Follows(wild, w, oCopyLimit, e2, dist)
        BY <1>2, <2>2, <2>3, <3>0, <3>1, <3>2
      <4> QED
        BY <4>1, FollowsOn
    <3> QED
      BY <3>3 DEF e2
  <2>6. MatchCopied(m, w, op, length, offset)
    <3>1. w \in Memory /\ op + length <= oCopyLimit + k
      BY <2>2, <2>4 DEF Sound, cpy
    <3> QED
      BY <1>1, <2>2, <2>5, <3>1, EightAndMore DEF fm, next, dist
  <2> QED
    BY <2>1, <2>4, <2>6 DEF r, s, cpy
<1>4. CASE cpy > oend - MATCH_SAFEGUARD_DISTANCE /\ ~(next < oCopyLimit)
  <2> DEFINE k == Higher(cpy - next, 0)
             w == Repeated(fm, next, fs, k)
  <2>1. r = w
    BY <1>4, Zenon DEF BlockMatch, f
  <2>2. k \in Nat /\ next + k <= oend /\ cpy <= next + k /\ next + k \in Int /\ fs < next
    BY <1>2 DEF Higher, SmallSizes
  <2> HIDE DEF k, fm, fs, next, r, dist, cpy
  <2>3. Sound(w) /\ Follows(fm, w, next, next + k, dist)
    BY <1>2, <2>2, RepeatedFollows
  <2> HIDE DEF w
  <2>4. MatchCopied(m, w, op, length, offset)
    <3>1. w \in Memory /\ op + length <= next + k
      BY <2>2, <2>3 DEF Sound, cpy
    <3> QED
      BY <1>1, <2>2, <2>3, <3>1, EightAndMore DEF fm, next, dist
  <2> QED
    BY <2>1, <2>3, <2>4 DEF r, s, cpy
<1>5. CASE ~(cpy > oend - MATCH_SAFEGUARD_DISTANCE)
  <2> DEFINE next2 == next + 8
             fs2 == fs + 8
             second == Copied(fm, next, fs, 8)
             w == IF length > 16 THEN LZ4_wildCopy8(second, next2, fs2, cpy) ELSE second
  <2>1. r = w
    BY <1>5, Zenon DEF BlockMatch, f
  <2>2. /\ next2 \in 0..oend /\ next + 8 <= oend /\ next2 = next + 8 /\ fs2 \in Int /\ fs2 >= 0 - src.available
        /\ fs2 + 8 <= next2 /\ next2 - fs2 = dist /\ cpy + 7 <= oend /\ (length > 16 => cpy > next2)
        /\ next2 \in Nat /\ next2 \in Int /\ (~(length > 16) => cpy <= next2) /\ 8 \in Nat
    BY <1>2, <1>5 DEF SmallSizes, MATCH_SAFEGUARD_DISTANCE, WILDCOPYLENGTH, MINMATCH
  <2> HIDE DEF next2, fs2, fm, fs, next, r, dist, cpy
  <2>3. Sound(second) /\ Follows(fm, second, next, next2, dist)
    BY <1>2, <2>2, CopiedFollows
  <2> HIDE DEF second
  <2>4. Sound(w) /\ \E e \in Int : cpy <= e /\ e <= oend /\ Follows(fm, w, next, e, dist)
    <3>1. CASE length > 16
      <4> DEFINE q == LZ4_wildCopy8(second, next2, fs2, cpy)
      <4>1. ~(cpy <= next2)
        BY <1>2, <2>2, <3>1
      <4>2. Sound(q) /\ Follows(second, q, next2, cpy, dist)
        BY <1>2, <2>2, <2>3, <4>1, Wild8Follows
      <4>3. w = q
        BY <3>1
      <4> HIDE DEF q, w
      <4>4. fm \in Memory /\ second \in Memory /\ q \in Memory
        BY <1>2, <2>3, <4>2 DEF Sound
      <4>5. next <= next2 /\ next2 <= next2 /\ next2 <= oend /\ cpy <= oend /\ dist >= 1
        BY <1>2, <2>2 DEF SmallSizes
      <4>6. Follows(fm, q, next, cpy, dist)
        BY <1>2, <2>2, <2>3, <4>2, <4>4, <4>5, FollowsOn
      <4> QED
        BY <1>2, <4>2, <4>3, <4>5, <4>6
    <3>2. CASE ~(length > 16)
      <4>1. w = second
        BY <3>2
      <4> HIDE DEF w
      <4> QED
        BY <2>2, <2>3, <3>2, <4>1
    <3> QED
      BY <3>1, <3>2
  <2> HIDE DEF w
  <2>5. PICK e \in Int : cpy <= e /\ e <= oend /\ Follows(fm, w, next, e, dist)
    BY <2>4
  <2>6. MatchCopied(m, w, op, length, offset)
    <3>1. w \in Memory /\ op + length <= e
      BY <2>4, <2>5 DEF Sound, cpy
    <3> QED
      BY <1>1, <2>5, <3>1, EightAndMore DEF fm, next, dist
  <2> QED
    BY <2>1, <2>4, <2>6 DEF r, s, cpy
<1> QED
  BY <1>3, <1>4, <1>5
-----------------------------------------------------------------------------
(* The output is what is wanted                                            *)

LEMMA Remainder ==
    ASSUME NEW j \in Nat, NEW off \in Nat, off >= 1, NEW q \in Int, NEW t \in Int,
           j = off * q + t, 0 <= t, t < off
    PROVE  j % off = t
  OBVIOUS

LEMMA ModBack ==
    ASSUME NEW j \in Nat, NEW off \in Nat, off >= 1
    PROVE  /\ j % off \in 0..(off - 1)
           /\ j < off => j % off = j
           /\ j >= off => (j - off) % off = j % off
<1> DEFINE S == {i \in Nat : \E q \in Int, t \in 0..(off - 1) : i = off * q + t}
<1>1. 0 \in S
  <2>1. 0 = off * 0 + 0 /\ 0 \in 0..(off - 1)
    OBVIOUS
  <2> QED
    BY <2>1
<1>2. ASSUME NEW i \in Nat, i \in S PROVE i + 1 \in S
  <2>1. PICK q \in Int, t \in 0..(off - 1) : i = off * q + t
    BY <1>2
  <2>2. CASE t < off - 1
    <3>1. t + 1 \in 0..(off - 1) /\ i + 1 = off * q + (t + 1)
      BY <2>1, <2>2
    <3> QED
      BY <3>1
  <2>3. CASE t = off - 1
    <3>1. off * (q + 1) = off * q + off
      OBVIOUS
    <3>2. i + 1 = off * (q + 1) + 0 /\ 0 \in 0..(off - 1) /\ q + 1 \in Int
      BY <2>1, <2>3, <3>1
    <3> QED
      BY <3>2
  <2> QED
    BY <2>2, <2>3
<1> HIDE DEF S
<1>3. j \in S
  BY <1>1, <1>2, SetInduction
<1>4. PICK q \in Int, t \in 0..(off - 1) : j = off * q + t
  BY <1>3 DEF S
<1>5. j % off = t
  BY <1>4, Remainder
<1>6. j < off => j % off = j
  <2> SUFFICES ASSUME j < off PROVE j % off = j
    OBVIOUS
  <2>1. j = off * 0 + j
    OBVIOUS
  <2> QED
    BY <2>1, Remainder
<1>7. j >= off => (j - off) % off = j % off
  <2> SUFFICES ASSUME j >= off PROVE (j - off) % off = t
    BY <1>5
  <2>1. off * (q - 1) = off * q - off
    OBVIOUS
  <2>2. j - off \in Nat /\ q - 1 \in Int /\ j - off = off * (q - 1) + t
    BY <1>4, <2>1
  <2> QED
    BY <2>2, Remainder
<1> QED
  BY <1>4, <1>5, <1>6, <1>7

LEMMA HistoryType ==
    ASSUME NEW w \in Seq(Int), NEW p \in Int, p < Len(w)
    PROVE  History(w, p) \in Int
  BY DEF History

\* What a match is to add to the output repeats from its offset on.
LEMMA MatchedRepeats ==
    ASSUME NEW w \in Seq(Int), NEW off \in Nat, NEW len \in Nat
    PROVE  LET v == Matched(w, off, len)
           IN  /\ v \in Seq(Int) /\ Len(v) = Len(w) + len
               /\ \A i \in 1..Len(w) : v[i] = w[i]
               /\ Repeats(v, Len(w), len, off)
<1> DEFINE v == Matched(w, off, len)
<1>0. Len(w) \in Nat
  OBVIOUS
<1>1. CASE off = 0
  <2> DEFINE t == [k \in 1..len |-> 0]
  <2>1. v = w \o t
    BY <1>1 DEF Matched
  <2>2. t \in Seq(Int) /\ Len(t) = len /\ \A k \in 1..len : t[k] = 0
    OBVIOUS
  <2> HIDE DEF v, t
  <2>3. /\ v \in Seq(Int) /\ Len(v) = Len(w) + len
        /\ \A i \in 1..Len(w) : v[i] = w[i]
        /\ \A i \in (Len(w) + 1)..(Len(w) + len) : v[i] = t[i - Len(w)]
    BY <2>1, <2>2
  <2>4. Repeats(v, Len(w), len, off)
    BY <1>0, <1>1, <2>2, <2>3, SMTT(30) DEF Repeats
  <2> QED
    BY <2>3, <2>4 DEF v
<1>2. CASE off >= 1
  <2> DEFINE base == Len(w) - off
             t == [k \in 1..len |-> History(w, base + ((k - 1) % off))]
  <2>1. v = w \o t
    BY <1>2 DEF Matched
  <2>2. \A k \in 1..len : (k - 1) % off \in 0..(off - 1)
    BY <1>2, ModBack
  <2>3. \A k \in 1..len : History(w, base + ((k - 1) % off)) \in Int
    <3> SUFFICES ASSUME NEW k \in 1..len PROVE History(w, base + ((k - 1) % off)) \in Int
      OBVIOUS
    <3>1. (k - 1) % off \in 0..(off - 1)
      BY <2>2
    <3>2. base + ((k - 1) % off) \in Int /\ base + ((k - 1) % off) < Len(w)
      BY <1>0, <3>1
    <3> QED
      BY <3>2, HistoryType
  <2>4. t \in Seq(Int) /\ Len(t) = len
    BY <2>3
  <2>5. \A k \in 1..len : t[k] = History(w, base + ((k - 1) % off))
    OBVIOUS
  <2> HIDE DEF v, t
  <2>6. /\ v \in Seq(Int) /\ Len(v) = Len(w) + len
        /\ \A i \in 1..Len(w) : v[i] = w[i]
        /\ \A i \in (Len(w) + 1)..(Len(w) + len) : v[i] = t[i - Len(w)]
    BY <2>1, <2>4
  <2>7. ASSUME NEW p \in Len(w)..(Len(w) + len - 1) PROVE v[p + 1] = History(v, p - off)
    <3> DEFINE j == p - Len(w)
    <3>1. j \in Nat /\ j + 1 \in 1..len /\ (j + 1) - 1 = j /\ (p + 1) - Len(w) = j + 1
      BY <1>0
    <3>2. v[p + 1] = History(w, base + (j % off))
      <4>1. p + 1 \in (Len(w) + 1)..(Len(w) + len)
        BY <1>0
      <4>2. v[p + 1] = t[j + 1]
        BY <2>6, <3>1, <4>1
      <4> QED
        BY <2>5, <3>1, <4>2
    <3>3. CASE j < off
      <4>1. j % off = j
        <5> HIDE DEF j
        <5> QED
          BY <1>2, <3>1, <3>3, ModBack
      <4> DEFINE c == p - off
      <4>3. base + j = c /\ c < Len(w) /\ c \in Int
        BY <1>0, <1>2, <3>1, <3>3
      <4> HIDE DEF c
      <4>2. History(v, c) = History(w, c)
        <5>1. CASE c < 0
          BY <5>1, <4>3 DEF History
        <5>2. CASE c >= 0
          <6>1. c + 1 \in 1..Len(w)
            BY <1>0, <4>3, <5>2
          <6>2. v[c + 1] = w[c + 1]
            BY <2>6, <6>1
          <6> QED
            BY <6>2, <4>3, <5>2 DEF History
        <5> QED
          BY <5>1, <5>2, <4>3
      <4> HIDE DEF j, base
      <4> QED
        BY <3>2, <4>1, <4>2, <4>3 DEF c
    <3>4. CASE j >= off
      <4>1. (j - off) % off = j % off
        BY <1>2, <3>1, <3>4, ModBack
      <4>2. /\ p - off + 1 \in (Len(w) + 1)..(Len(w) + len) /\ p - off >= 0
            /\ (p - off + 1) - Len(w) = (j - off) + 1 /\ (j - off) + 1 \in 1..len /\ ((j - off) + 1) - 1 = j - off
        BY <1>0, <1>2, <3>1, <3>4
      <4>3. v[p - off + 1] = t[(j - off) + 1]
        <5> DEFINE i == p - off + 1
        <5>1. i \in (Len(w) + 1)..(Len(w) + len) /\ i - Len(w) = (j - off) + 1
          BY <4>2
        <5> HIDE DEF i
        <5>2. v[i] = t[i - Len(w)]
          BY <2>6, <5>1
        <5> QED
          BY <5>1, <5>2 DEF i
      <4>4. t[(j - off) + 1] = History(w, base + ((j - off) % off))
        BY <2>5, <4>2
      <4> HIDE DEF j
      <4>5. History(v, p - off) = v[p - off + 1]
        BY <4>2 DEF History
      <4> QED
        BY <3>2, <4>1, <4>3, <4>4, <4>5
    <3> QED
      BY <3>1, <3>3, <3>4
  <2>8. Repeats(v, Len(w), len, off)
    BY <1>2, <2>7 DEF Repeats
  <2> QED
    BY <2>6, <2>8 DEF v
<1> QED
  BY <1>1, <1>2

LEMMA WantedIs ==
    ASSUME want \in Seq(Int), NEW i \in Nat, NEW lit \in Nat
    PROVE  LET v == Wanted(i, lit)
           IN  /\ v \in Seq(Int) /\ Len(v) = Len(want) + lit
               /\ \A k \in 1..Len(want) : v[k] = want[k]
               /\ \A k \in 1..lit : v[Len(want) + k] = i + k
<1> DEFINE t == [k \in 1..lit |-> i + k]
           v == Wanted(i, lit)
<1>1. v = want \o t
  BY DEF Wanted
<1>2. t \in Seq(Int) /\ Len(t) = lit /\ \A k \in 1..lit : t[k] = i + k
  OBVIOUS
<1> HIDE DEF t, v
<1>3. /\ v \in Seq(Int) /\ Len(v) = Len(want) + lit
      /\ \A k \in 1..Len(want) : v[k] = want[k]
  BY <1>1, <1>2
<1>4. ASSUME NEW k \in 1..lit PROVE v[Len(want) + k] = i + k
  <2>1. Len(want) \in Nat /\ Len(want) + k \in (Len(want) + 1)..(Len(want) + Len(t))
        /\ (Len(want) + k) - Len(want) = k
    BY <1>2
  <2>2. v[Len(want) + k] = t[(Len(want) + k) - Len(want)]
    BY <1>1, <1>2, <2>1
  <2> QED
    BY <1>2, <2>1, <2>2
<1> QED
  BY <1>3, <1>4 DEF v

\* A match that is copied as it should be makes the output agree further on.
LEMMA SameFurther ==
    ASSUME SmallSizes, NEW m \in Memory, NEW r \in Memory, NEW d \in 0..oend, NEW len \in Nat, d + len <= oend,
           NEW off \in Nat, NEW w \in Seq(Int), NEW long \in Nat, len <= long,
           MatchCopied(m, r, d, len, off), Same(m, w, d), Repeats(w, d, long, off)
    PROVE  Same(r, w, d + len)
<1> DEFINE S == {k \in Nat : k <= len => Same(r, w, d + k)}
<1>1. 0 \in S
  <2>1. Same(r, w, d)
    BY DEF Same, MatchCopied
  <2> QED
    BY <2>1 DEF SmallSizes
<1>2. ASSUME NEW k \in Nat, k \in S PROVE k + 1 \in S
  <2> SUFFICES ASSUME k + 1 <= len PROVE Same(r, w, d + (k + 1))
    OBVIOUS
  <2> DEFINE a == d + k
  <2>1. Same(r, w, a)
    BY <1>2
  <2>2. a \in d..(d + len - 1) /\ a \in d..(d + long - 1) /\ a \in 0..(oend - 1) /\ a \in Nat
        /\ d + (k + 1) = a + 1
    BY DEF SmallSizes
  <2>3. IF off = 0 THEN r.out[a] = 0 \/ src.partial ELSE r.out[a] = Cell(r, a - off)
    BY <2>2 DEF MatchCopied
  <2>4. w[a + 1] = IF off = 0 THEN 0 ELSE History(w, a - off)
    BY <2>2 DEF Repeats
  <2> HIDE DEF a
  <2>5. r.out[a] = w[a + 1] \/ (src.partial /\ w[a + 1] = 0)
    <3>1. CASE off = 0
      BY <2>3, <2>4, <3>1
    <3>2. CASE off # 0
      <4>1. CASE a - off < 0
        BY <2>3, <2>4, <3>2, <4>1 DEF Cell, History
      <4>2. CASE a - off >= 0
        <5>1. a - off \in 0..(a - 1) /\ a - off \in 0..(oend - 1) /\ ~(a - off < 0)
          BY <2>2, <3>2, <4>2 DEF SmallSizes
        <5>2. Cell(r, a - off) = r.out[a - off]
          BY <5>1, CellOut
        <5>3. History(w, a - off) = w[a - off + 1]
          BY <5>1 DEF History
        <5>4. r.out[a - off] = w[a - off + 1] \/ (src.partial /\ w[a - off + 1] = 0)
          BY <2>1, <5>1 DEF Same
        <5> QED
          BY <2>3, <2>4, <3>2, <5>2, <5>3, <5>4
      <4> QED
        BY <2>2, <4>1, <4>2
    <3> QED
      BY <3>1, <3>2
  <2>6. Same(r, w, a + 1)
    BY <2>1, <2>2, <2>5, SMTT(30) DEF Same
  <2> QED
    BY <2>2, <2>6
<1> HIDE DEF S
<1>3. len \in S
  BY <1>1, <1>2, SetInduction
<1> QED
  BY <1>3 DEF S
-----------------------------------------------------------------------------
(* What an action reads and what it leaves                                 *)

LEMMA Sizes ==
    ASSUME Types
    PROVE  SmallSizes /\ src.prefix \in Nat /\ src.dictSize \in Nat
  BY DEF Types, SmallSizes, oend, iend

LEMMA ReadsIs ==
    ASSUME NEW m, Sound(m), NEW from \in Nat, NEW k \in Nat, iend \in Nat, from + k <= iend
    PROVE  Sound(Reads(m, from, k)) /\ Reads(m, from, k).out = m.out
<1>1. ~(from + k > iend)
  OBVIOUS
<1> QED
  BY <1>1 DEF Sound, Memory, Reads

LEMMA SameAs ==
    ASSUME NEW m, NEW r, NEW w, NEW v, NEW n \in Int, Same(m, w, n),
           \A a \in 0..(n - 1) : r.out[a] = m.out[a],
           \A i \in 1..n : v[i] = w[i]
    PROVE  Same(r, v, n)
<1> SUFFICES ASSUME NEW a \in 0..(n - 1)
             PROVE  r.out[a] = v[a + 1] \/ (src.partial /\ v[a + 1] = 0)
  BY DEF Same
<1>1. m.out[a] = w[a + 1] \/ (src.partial /\ w[a + 1] = 0)
  BY DEF Same
<1>2. r.out[a] = m.out[a] /\ v[a + 1] = w[a + 1]
  OBVIOUS
<1> QED
  BY <1>1, <1>2

LEMMA LengthBytesIs ==
    ASSUME NEW n \in Nat
    PROVE  /\ LengthBytes(n, RUN_MASK) \in Nat /\ LengthBytes(n, ML_MASK) \in Nat
           /\ n < RUN_MASK => LengthBytes(n, RUN_MASK) = 0
           /\ n < ML_MASK => LengthBytes(n, ML_MASK) = 0
           /\ n >= RUN_MASK => LengthBytes(n, RUN_MASK) >= 1
  BY DEF LengthBytes, RUN_MASK, ML_MASK

LEMMA NextLiteralsType ==
    ASSUME iend \in Nat, ip \in Nat, NEW lit \in NextLiterals
    PROVE  lit \in Nat
  BY DecodeAssumption DEF NextLiterals, RUN_MASK

\* How much of the literals at position at the input holds.
Held(at, lit) == IF at + lit > iend THEN Higher(iend - at, 0) ELSE lit

LiteralsWanted(at, k) ==
    /\ want' \in Seq(Int) /\ Len(want') = Len(want) + k
    /\ \A i \in 1..Len(want) : want'[i] = want[i]
    /\ \A i \in 1..k : want'[Len(want) + i] = at + i

LEMMA LiteralsRead ==
    ASSUME Types, NEW at \in Nat, NEW lit \in Nat, ReadLiterals(lit, at)
    PROVE  /\ Held(at, lit) \in Nat /\ LiteralsWanted(at, Held(at, lit))
           /\ sequences' \in Nat
           /\ bad' \in BOOLEAN /\ (LiteralsBad(at, lit) => bad')
<1> DEFINE k == Held(at, lit)
<1>1. k \in Nat
  BY Sizes DEF Held, Higher, SmallSizes
<1>2. want' = Wanted(at, k)
  BY DEF ReadLiterals, Held
<1>3. want \in Seq(Int) /\ sequences \in Nat /\ bad \in BOOLEAN
  BY DEF Types
<1> HIDE DEF k
<1>4. LiteralsWanted(at, k)
  <2> DEFINE w == Wanted(at, k)
  <2>1. /\ w \in Seq(Int) /\ Len(w) = Len(want) + k
        /\ \A i \in 1..Len(want) : w[i] = want[i]
        /\ \A i \in 1..k : w[Len(want) + i] = at + i
    BY <1>1, <1>3, WantedIs
  <2>2. want' = w
    BY <1>2
  <2> HIDE DEF w
  <2> QED
    BY <2>1, <2>2 DEF LiteralsWanted
<1>5. sequences' \in Nat
  BY <1>3 DEF ReadLiterals
<1>6. bad' \in BOOLEAN /\ (LiteralsBad(at, lit) => bad')
  BY <1>3 DEF ReadLiterals, LiteralsBad
<1> QED
  BY <1>1, <1>4, <1>5, <1>6 DEF k

\* The literals a copy leaves in the output.
Literal(v, at, k) ==
    /\ \A i \in 1..op : v[i] = want[i]
    /\ \A i \in 1..k : v[op + i] = at + i

LEMMA LiteralsCopied ==
    ASSUME SmallSizes, Sound(mem), Same(mem, want, op), op \in 0..oend, NEW at \in Nat,
           NEW room \in Nat, op + room <= oend, at + room <= iend,
           NEW k \in Nat, k <= room, NEW v, Literal(v, at, k)
    PROVE  Sound(Taken(mem, op, at, room)) /\ Same(Taken(mem, op, at, room), v, op + k)
<1> DEFINE r == Taken(mem, op, at, room)
<1>1. /\ Sound(r)
      /\ \A a \in 0..(op - 1) : r.out[a] = mem.out[a]
      /\ \A a \in op..(op + room - 1) : r.out[a] = at + (a - op) + 1
  BY TakenIs
<1> HIDE DEF r
<1>2. Same(r, v, op + k)
  <2> SUFFICES ASSUME NEW a \in 0..(op + k - 1)
               PROVE  r.out[a] = v[a + 1] \/ (src.partial /\ v[a + 1] = 0)
    BY DEF Same
  <2>1. CASE a < op
    <3>1. a \in 0..(op - 1) /\ a + 1 \in 1..op
      BY <2>1 DEF SmallSizes
    <3>2. r.out[a] = mem.out[a] /\ v[a + 1] = want[a + 1]
      BY <1>1, <3>1 DEF Literal
    <3> QED
      BY <3>1, <3>2 DEF Same
  <2>2. CASE a >= op
    <3> DEFINE i == (a - op) + 1
    <3>1. /\ i \in 1..k /\ op + i = a + 1 /\ a \in op..(op + room - 1)
          /\ at + (a - op) + 1 = at + i
      BY <2>2 DEF SmallSizes
    <3> HIDE DEF i
    <3>2. v[op + i] = at + i
      BY <3>1 DEF Literal
    <3>3. r.out[a] = at + (a - op) + 1
      BY <1>1, <3>1
    <3> QED
      BY <3>1, <3>2, <3>3
  <2> QED
    BY <2>1, <2>2 DEF SmallSizes
<1> QED
  BY <1>1, <1>2 DEF r

\* What reading a match adds to what is wanted.
MatchWanted(len, off) ==
    IF off <= src.available + Len(want)
    THEN Len(want') = Len(want) + len /\ Repeats(want', Len(want), len, off)
    ELSE bad' /\ Len(want') = Len(want)

LEMMA MatchRead ==
    ASSUME Types, NEW code \in MatchCodes, NEW off \in Offsets, ReadMatch(code, off)
    PROVE  /\ code \in Nat /\ off \in Nat /\ off <= KB64 - 1
           /\ offset' = off /\ offset' \in {0} \union Offsets
           /\ want' \in Seq(Int) /\ \A i \in 1..Len(want) : want'[i] = want[i]
           /\ MatchWanted(MINMATCH + code, off)
           /\ bad' \in BOOLEAN /\ (MatchBad(ip + 2, code, off) => bad')
<1>1. code \in Nat /\ off \in Nat /\ off <= KB64 - 1 /\ KB64 \in Nat
  BY DecodeAssumption
<1>2. want \in Seq(Int) /\ bad \in BOOLEAN /\ src.available \in Nat /\ Len(want) \in Nat
  BY DEF Types
<1>3. offset' = off /\ offset' \in {0} \union Offsets
  BY DEF ReadMatch
<1>4. bad' \in BOOLEAN /\ (MatchBad(ip + 2, code, off) => bad')
  BY <1>2 DEF ReadMatch, MatchBad
<1>5. CASE off <= src.available + Len(want)
  <2>1. off \in 0..(src.available + Len(want))
    BY <1>1, <1>2, <1>5
  <2> DEFINE len == MINMATCH + code
  <2>2. want' = Matched(want, off, len)
    BY <2>1 DEF ReadMatch
  <2>3. len \in Nat
    BY <1>1 DEF MINMATCH
  <2> HIDE DEF len
  <2>4. /\ want' \in Seq(Int) /\ Len(want') = Len(want) + len
        /\ \A i \in 1..Len(want) : want'[i] = want[i]
        /\ Repeats(want', Len(want), len, off)
    <3> DEFINE v == Matched(want, off, len)
    <3>1. /\ v \in Seq(Int) /\ Len(v) = Len(want) + len
          /\ \A i \in 1..Len(want) : v[i] = want[i]
          /\ Repeats(v, Len(want), len, off)
      BY <1>1, <1>2, <2>3, MatchedRepeats
    <3>2. want' = v
      BY <2>2
    <3> HIDE DEF v
    <3> QED
      BY <3>1, <3>2
  <2>5. MatchWanted(len, off)
    BY <1>5, <2>4 DEF MatchWanted
  <2> QED
    BY <1>1, <1>3, <1>4, <2>4, <2>5 DEF len
<1>6. CASE ~(off <= src.available + Len(want))
  <2>1. off > src.available + Len(want) /\ off \notin 0..(src.available + Len(want))
    BY <1>1, <1>2, <1>6
  <2>2. want' = want
    BY <2>1 DEF ReadMatch
  <2>3. bad'
    BY <1>4, <2>1 DEF MatchBad
  <2>4. MatchWanted(MINMATCH + code, off)
    BY <1>6, <2>2, <2>3 DEF MatchWanted
  <2> QED
    BY <1>1, <1>2, <1>3, <1>4, <2>2, <2>4
<1> QED
  BY <1>5, <1>6

\* A match the decoder lets pass starts in the bytes the caller has, ...
LEMMA InRange ==
    ASSUME Types, Reach, NEW off \in {0} \union Offsets,
           \/ ~OutsideBuffers(op - off)
           \/ src.dict = "withPrefix64k" \/ op - off >= lowPrefix
    PROVE  off \in Nat /\ off <= src.available + op /\ op - off >= 0 - src.available
<1>1. off = 0 \/ (off \in Nat /\ off <= KB64 - 1)
  BY DecodeAssumption
<1>2. /\ src.available \in Nat /\ src.prefix \in Nat /\ src.dictSize \in Nat /\ op \in Nat
      /\ KB64 \in Nat
  BY DecodeAssumption DEF Types, oend
<1>3. CASE src.dict = "withPrefix64k"
  BY <1>1, <1>2, <1>3 DEF Reach
<1>4. CASE src.dict # "withPrefix64k"
  <2>1. src.available = src.prefix + src.dictSize
    BY <1>4 DEF Reach
  <2> QED
    BY <1>1, <1>2, <1>4, <2>1 DEF OutsideBuffers, checkOffset, lowPrefix
<1> QED
  BY <1>3, <1>4

\* ... and one it refuses does not.
LEMMA OutsideBad ==
    ASSUME Types, Reach, NEW off \in {0} \union Offsets, OutsideBuffers(op - off)
    PROVE  ~(off <= src.available + op)
<1>1. off = 0 \/ (off \in Nat /\ off <= KB64 - 1)
  BY DecodeAssumption
<1>2. /\ src.available \in Nat /\ src.prefix \in Nat /\ src.dictSize \in Nat /\ op \in Nat
      /\ KB64 \in Nat
  BY DecodeAssumption DEF Types, oend
<1>3. op - off + src.dictSize < 0 - src.prefix
  BY DEF OutsideBuffers, lowPrefix
<1>4. CASE src.dict = "withPrefix64k"
  BY <1>1, <1>2, <1>3, <1>4 DEF Reach
<1>5. CASE src.dict # "withPrefix64k"
  <2>1. src.available = src.prefix + src.dictSize
    BY <1>5 DEF Reach
  <2> QED
    BY <1>1, <1>2, <1>3, <2>1
<1> QED
  BY <1>4, <1>5
-----------------------------------------------------------------------------
(* Every step keeps the invariant                                          *)

\* A step that leaves the call's parameters, the memory in order and the
\* output as wanted has only the positions left to get right.
LEMMA Carried ==
    ASSUME IInv, src' = src,
           Sound(mem'), Same(mem', want', op'), op' <= Len(want'),
           ip' \in Nat, op' \in 0..oend, length' \in Nat, offset' \in {0} \union Offsets,
           want' \in Seq(Int), bad' \in BOOLEAN, sequences' \in Nat, result' \in Int,
           pc' \in {"start", "fast", "fastMatch", "safe", "shortcut", "literals",
                    "offset", "matchLength", "match", "done"},
           Distance', Pending', MatchPending', Blamed', Finished'
    PROVE  IInv'
<1>1. Types /\ Reach
  BY DEF IInv
<1>2. Reach'
  BY <1>1 DEF Reach
<1>3. oend' = oend /\ iend' = iend
  BY DEF oend, iend
<1>4. Types'
  BY <1>1, <1>3 DEF Types, Sound, Memory
<1>5. Sound(mem)'
  BY <1>3 DEF Sound, Memory
<1>6. Same(mem, want, op)'
  BY DEF Same
<1> QED
  BY <1>2, <1>4, <1>5, <1>6 DEF IInv

\* What a refusal leaves: the output so far is as it was.
LEMMA Refused ==
    ASSUME IInv, src' = src, Reject, bad', bad' \in BOOLEAN,
           Sound(mem'), \A a \in 0..(op - 1) : mem'.out[a] = mem.out[a],
           want' \in Seq(Int), \A i \in 1..Len(want) : want'[i] = want[i], Len(want') >= Len(want),
           op' = op, ip' \in Nat, length' \in Nat, offset' \in {0} \union Offsets, sequences' \in Nat
    PROVE  IInv'
<1>1. Types /\ Same(mem, want, op) /\ op <= Len(want)
  BY DEF IInv
<1>2. op \in Nat /\ op' \in 0..oend /\ Len(want) \in Nat /\ Len(want') \in Nat
  BY <1>1, Sizes DEF Types, SmallSizes
<1>3. op' <= Len(want')
  BY <1>1, <1>2
<1>4. Same(mem', want', op')
  <2>1. \A i \in 1..op : want'[i] = want[i]
    BY <1>1, <1>2
  <2> QED
    BY <1>1, <1>2, <2>1, SameAs, SMTT(30)
<1>5. Distance' /\ Pending' /\ MatchPending' /\ Blamed' /\ Finished'
  BY DEF Reject, Distance, Pending, MatchPending, Blamed, Finished
<1>6. result' \in Int /\ pc' = "done"
  BY DEF Reject
<1> QED
  BY <1>2, <1>3, <1>4, <1>5, <1>6, Carried

LEMMA StartKeeps ==
    ASSUME IInv, Start PROVE IInv'
<1>1. /\ Types /\ Reach /\ Sound(mem) /\ Same(mem, want, op)
      /\ pc = "start" /\ ip = 0 /\ op = 0 /\ want = <<>>
  BY DEF IInv, Distance, Start
<1>2. /\ src' = src /\ op' = 0 /\ mem' = mem /\ length' = length /\ offset' = offset
      /\ want' = <<>> /\ sequences' = sequences
  BY <1>1 DEF Start
<1>3. Len(want') = 0 /\ op' <= Len(want') /\ want' \in Seq(Int)
  BY <1>2
<1>4. Sound(mem') /\ Same(mem', want', op')
  BY <1>1, <1>2
<1>5. /\ op' \in 0..oend /\ length' \in Nat /\ offset' \in {0} \union Offsets /\ sequences' \in Nat
      /\ result \in Int /\ bad \in BOOLEAN /\ iend \in Nat /\ oend \in Nat
  BY <1>1, <1>2, Sizes DEF Types, SmallSizes
<1>6. CASE oend = 0
  <2>1. PICK empty \in BOOLEAN :
          /\ pc' = "done"
          /\ result' = IF src.partial \/ (iend = 1 /\ empty) THEN 0 ELSE -1
          /\ ip' = IF result' = 0 THEN iend ELSE 0
          /\ bad' = ~(iend = 1 /\ empty)
    BY <1>6 DEF Start
  <2>2. /\ ip' \in Nat /\ result' \in Int /\ bad' \in BOOLEAN
        /\ Distance' /\ Pending' /\ MatchPending' /\ Blamed'
    BY <1>5, <2>1 DEF Distance, Pending, MatchPending, Blamed
  <2>3. Finished'
    <3>1. CASE src.partial \/ (iend = 1 /\ empty)
      <4>1. result' = 0 /\ ip' = iend
        BY <2>1, <3>1
      <4>2. iend' = iend /\ src'.partial = src.partial
        BY <1>2 DEF iend
      <4> QED
        BY <1>2, <1>3, <4>1, <4>2 DEF Finished
    <3>2. CASE ~(src.partial \/ (iend = 1 /\ empty))
      <4>1. result' = -1 /\ bad'
        BY <2>1, <3>2
      <4> QED
        BY <4>1 DEF Finished
    <3> QED
      BY <3>1, <3>2
  <2> QED
    BY <1>2, <1>3, <1>4, <1>5, <2>1, <2>2, <2>3, Carried
<1>7. CASE oend # 0 /\ iend = 0
  <2>1. Reject /\ bad' = TRUE /\ ip' = ip
    BY <1>7 DEF Start
  <2> QED
    BY <1>1, <1>2, <1>3, <1>4, <1>5, <2>1, Refused
<1>8. CASE oend # 0 /\ iend # 0
  <2>1. /\ pc' = IF src.fastLoop /\ oend >= FASTLOOP_SAFE_DISTANCE THEN "fast" ELSE "safe"
        /\ ip' = 0 /\ bad' = bad /\ result' = result
    BY <1>1, <1>8 DEF Start
  <2>2. Distance' /\ Pending' /\ MatchPending' /\ Blamed' /\ Finished'
    <3>1. pc' \in {"fast", "safe"} /\ (pc' = "fast" => oend >= FASTLOOP_SAFE_DISTANCE)
      BY <2>1
    <3>2. oend' = oend /\ iend' = iend
      BY <1>2 DEF oend, iend
    <3>3. Distance'
      BY <1>2, <1>5, <1>8, <2>1, <3>1, <3>2 DEF Distance, FASTLOOP_SAFE_DISTANCE
    <3> QED
      BY <1>2, <1>3, <3>1, <3>3 DEF Pending, MatchPending, Blamed, Finished
  <2> QED
    BY <1>2, <1>3, <1>4, <1>5, <2>1, <2>2, Carried
<1> QED
  BY <1>6, <1>7, <1>8

\* The literals of both loops that a short copy does not serve.
LEMMA LiteralsLeft ==
    ASSUME IInv, src' = src, NEW at \in Nat, NEW lit \in Nat, ReadLiterals(lit, at), at <= iend,
           pc \in {"fast", "safe"}, pc' = "literals", length' = lit, ip' = at, op' = op,
           offset' = offset, result' = result, mem' = Reads(mem, ip, 1)
    PROVE  IInv'
<1>1. /\ Types /\ Sound(mem) /\ Same(mem, want, op) /\ op <= Len(want) /\ ip < iend
      /\ (Len(want) = op \/ Full) /\ SmallSizes /\ ip \in Nat
  BY Sizes DEF IInv, Distance, Pending, Types
<1> DEFINE k == Held(at, lit)
<1>2. /\ k \in Nat /\ LiteralsWanted(at, k) /\ sequences' \in Nat
      /\ bad' \in BOOLEAN /\ (LiteralsBad(at, lit) => bad')
  BY <1>1, LiteralsRead
<1>3. k = Readable'
  BY <1>1 DEF Held, Higher, Readable, iend, SmallSizes
<1> HIDE DEF k
<1>4. Sound(mem') /\ mem'.out = mem.out
  <2>1. ip + 1 <= iend /\ iend \in Nat /\ 1 \in Nat
    BY <1>1 DEF SmallSizes
  <2>2. Sound(Reads(mem, ip, 1)) /\ Reads(mem, ip, 1).out = mem.out
    BY <1>1, <2>1, ReadsIs
  <2> QED
    BY <2>2
<1>5. /\ op \in Nat /\ op' \in 0..oend /\ Len(want) \in Nat /\ Len(want') = Len(want) + k
      /\ want' \in Seq(Int) /\ result' \in Int /\ offset' \in {0} \union Offsets
  BY <1>1, <1>2 DEF Types, SmallSizes, LiteralsWanted
<1>6. op' <= Len(want')
  BY <1>1, <1>2, <1>5
<1>7. Same(mem', want', op')
  <2>1. \A i \in 1..op : want'[i] = want[i]
    BY <1>1, <1>2, <1>5 DEF LiteralsWanted
  <2> QED
    BY <1>1, <1>4, <1>5, <2>1, SameAs
<1>8. Distance'
  BY DEF Distance, iend
<1>9. Pending'
  <2>1. CASE Full
    <3>1. Full'
      BY <1>2, <1>5, <2>1 DEF Full, oend
    <3> QED
      BY <3>1 DEF Pending
  <2>2. CASE Len(want) = op
    <3>1. Len(want') = op' + Readable' /\ \A i \in 1..k : want'[op' + i] = ip' + i
      BY <1>2, <1>3, <1>5, <2>2 DEF LiteralsWanted
    <3> QED
      BY <1>3, <3>1 DEF Pending
  <2> QED
    BY <1>1, <2>1, <2>2
<1>10. Blamed'
  <2> SUFFICES ASSUME ~src.partial, ~bad'
               PROVE  /\ op + lit <= oend
                      /\ \/ at + lit = iend
                         \/ at + lit + 2 + 1 + LASTLITERALS <= iend /\ op + lit + MFLIMIT <= oend
    BY DEF Blamed, iend, oend
  <2>1. Len(want) = op
    BY <1>1 DEF Full
  <2>2. ~LiteralsBad(at, lit)
    BY <1>2
  <2> QED
    BY <1>1, <1>5, <2>1, <2>2 DEF LiteralsBad, LASTLITERALS, MFLIMIT, SmallSizes
<1>11. MatchPending' /\ Finished'
  BY DEF MatchPending, Finished
<1> QED
  BY <1>2, <1>4, <1>5, <1>6, <1>7, <1>8, <1>9, <1>10, <1>11, Carried

\* ... and the literals that are too long for their length bytes.
LEMMA LiteralsRefused ==
    ASSUME IInv, src' = src, NEW lit \in Nat, lit >= RUN_MASK, pc \in {"fast", "safe"},
           ReadLiterals(lit, ip + 1 + LengthBytes(lit, RUN_MASK)),
           VariableLengthFails(ip + 1, lit, iend - RUN_MASK, TRUE),
           Reject, ip' = ip, op' = op, length' = length, offset' = offset, mem' = Reads(mem, ip, 1)
    PROVE  IInv'
<1> DEFINE at == ip + 1 + LengthBytes(lit, RUN_MASK)
<1>1. /\ Types /\ Sound(mem) /\ ip < iend /\ SmallSizes /\ ip \in Nat
  BY Sizes DEF IInv, Distance, Types
<1>2. at \in Nat /\ at >= ip + 2 /\ at + lit > iend
  BY <1>1, LengthBytesIs DEF VariableLengthFails, RUN_MASK, SmallSizes
<1> HIDE DEF at
<1>3. /\ Held(at, lit) \in Nat /\ LiteralsWanted(at, Held(at, lit)) /\ sequences' \in Nat
      /\ bad' \in BOOLEAN /\ (LiteralsBad(at, lit) => bad')
  BY <1>1, <1>2, LiteralsRead DEF at
<1>4. bad'
  BY <1>2, <1>3 DEF LiteralsBad
<1>5. Sound(mem') /\ mem'.out = mem.out
  BY <1>1, ReadsIs, SMTT(30) DEF SmallSizes
<1>6. length' \in Nat /\ offset' \in {0} \union Offsets /\ ip' \in Nat
  BY <1>1 DEF Types
<1>7. /\ want' \in Seq(Int) /\ \A i \in 1..Len(want) : want'[i] = want[i]
      /\ Len(want') >= Len(want)
  BY <1>1, <1>3 DEF LiteralsWanted, Types
<1> QED
  BY <1>3, <1>4, <1>5, <1>6, <1>7, Refused
\* ... and those that a copy of fixed length moves at once.
LEMMA LiteralsTaken ==
    ASSUME IInv, NEW at \in Nat, NEW lit \in Nat, ReadLiterals(lit, at), Len(want) = op,
           NEW room \in Nat, lit <= room, op + room <= oend, at + room <= iend,
           mem' = Taken(mem, op, at, room), op' = op + lit
    PROVE  /\ Sound(mem') /\ Same(mem', want', op') /\ Len(want') = op' /\ op' \in 0..oend
           /\ want' \in Seq(Int) /\ bad' \in BOOLEAN /\ sequences' \in Nat
<1>1. Types /\ Sound(mem) /\ Same(mem, want, op) /\ SmallSizes
  BY Sizes DEF IInv
<1>2. op \in Nat /\ op \in 0..oend
  BY <1>1 DEF Types, SmallSizes
<1>3. Held(at, lit) = lit
  BY <1>1 DEF Held, SmallSizes
<1>4. LiteralsWanted(at, lit) /\ bad' \in BOOLEAN /\ sequences' \in Nat
  BY <1>1, <1>3, LiteralsRead
<1>5. want' \in Seq(Int) /\ Len(want') = op + lit /\ Literal(want', at, lit)
  BY <1>4 DEF LiteralsWanted, Literal
<1>6. Sound(mem') /\ Same(mem', want', op + lit)
  BY <1>1, <1>2, <1>5, LiteralsCopied
<1> QED
  BY <1>1, <1>2, <1>4, <1>5, <1>6 DEF SmallSizes

LEMMA FastLiteralsKeeps ==
    ASSUME IInv, NEW lit \in NextLiterals, FastLiterals(lit) PROVE IInv'
<1> DEFINE at == ip + 1 + LengthBytes(lit, RUN_MASK)
           long == lit >= RUN_MASK
           fails == VariableLengthFails(ip + 1, lit, iend - RUN_MASK, TRUE)
           near == \/ long /\ (op + lit > oend - 32 \/ at + lit > iend - 32)
                   \/ ~long /\ at > iend - (16 + 1)
           room == IF long THEN 32 * ((lit + 31) \div 32) ELSE 16
<1>1. /\ Types /\ SmallSizes /\ pc = "fast" /\ ip \in Nat /\ ip < iend /\ op \in Nat
      /\ op <= oend - 64 /\ (Len(want) = op \/ Full)
  BY Sizes DEF IInv, Distance, Pending, Types, FastLiterals, FASTLOOP_SAFE_DISTANCE
<1>2. lit \in Nat
  BY <1>1, NextLiteralsType DEF SmallSizes
<1>3. Len(want) = op
  BY <1>1 DEF Full, SmallSizes
<1>4. at \in Nat /\ (~long => at = ip + 1)
  <2>1. /\ LengthBytes(lit, RUN_MASK) \in Nat
        /\ lit < RUN_MASK => LengthBytes(lit, RUN_MASK) = 0
    BY <1>2, LengthBytesIs
  <2> QED
    BY <1>1, <1>2, <2>1 DEF RUN_MASK
<1>5. /\ src' = src /\ offset' = offset /\ ReadLiterals(lit, at)
  BY DEF FastLiterals
<1>6. \/ /\ long /\ fails /\ Reject /\ mem' = Reads(mem, ip, 1)
         /\ ip' = ip /\ op' = op /\ length' = length
      \/ /\ long => ~fails
         /\ near /\ pc' = "literals" /\ length' = lit /\ ip' = at /\ mem' = Reads(mem, ip, 1)
         /\ op' = op /\ result' = result
      \/ /\ long => ~fails
         /\ ~near /\ pc' = "fastMatch" /\ mem' = Taken(mem, op, at, room)
         /\ ip' = at + lit /\ op' = op + lit /\ length' = length /\ result' = result
  BY DEF FastLiterals
<1>7. CASE long /\ fails /\ Reject
  BY <1>1, <1>2, <1>5, <1>6, <1>7, LiteralsRefused DEF Reject
<1>8. CASE (long => ~fails) /\ pc' = "literals"
  <2>1. at <= iend
    BY <1>1, <1>2, <1>4, <1>8 DEF VariableLengthFails, RUN_MASK, SmallSizes
  <2>2. length' = lit /\ ip' = at /\ mem' = Reads(mem, ip, 1) /\ op' = op /\ result' = result
    BY <1>6, <1>8 DEF Reject
  <2> HIDE DEF at, long, fails, near, room
  <2> QED
    BY <1>1, <1>2, <1>4, <1>5, <1>8, <2>1, <2>2, LiteralsLeft
<1>9. CASE pc' = "fastMatch"
  <2>1. /\ ~near /\ mem' = Taken(mem, op, at, room) /\ ip' = at + lit /\ op' = op + lit
        /\ length' = length /\ result' = result
    BY <1>6, <1>9 DEF Reject
  <2>2. room \in Nat /\ lit <= room /\ op + room <= oend /\ at + room <= iend
    <3>1. CASE long
      <4>1. room = 32 * ((lit + 31) \div 32)
        BY <3>1
      <4>2. op + lit <= oend - 32 /\ at + lit <= iend - 32
        BY <1>1, <1>2, <1>4, <2>1, <3>1 DEF SmallSizes
      <4>3. lit <= 32 * ((lit + 31) \div 32) /\ 32 * ((lit + 31) \div 32) <= lit + 31
            /\ 32 * ((lit + 31) \div 32) \in Nat
        BY <1>2
      <4> HIDE DEF at, long, fails, near, room
      <4> QED
        BY <1>1, <1>2, <1>4, <4>1, <4>2, <4>3 DEF SmallSizes
    <3>2. CASE ~long
      <4>1. room = 16 /\ at <= iend - 17 /\ lit <= 14
        BY <1>1, <1>2, <1>4, <2>1, <3>2 DEF SmallSizes, RUN_MASK
      <4> HIDE DEF at, long, fails, near, room
      <4> QED
        BY <1>1, <1>2, <1>4, <4>1 DEF SmallSizes
    <3> QED
      BY <3>1, <3>2
  <2>3. ip' <= iend - 3 /\ op' <= oend - 32 /\ ip' \in Nat
    BY <1>1, <1>2, <1>4, <2>1 DEF SmallSizes, RUN_MASK
  <2> HIDE DEF at, long, fails, near, room
  <2>4. /\ Sound(mem') /\ Same(mem', want', op') /\ Len(want') = op' /\ op' \in 0..oend
        /\ want' \in Seq(Int) /\ bad' \in BOOLEAN /\ sequences' \in Nat
    BY <1>2, <1>3, <1>4, <1>5, <2>1, <2>2, LiteralsTaken
  <2>5. op' <= Len(want') /\ length' \in Nat /\ offset' \in {0} \union Offsets /\ result' \in Int
    BY <1>1, <1>5, <2>1, <2>4 DEF Types, SmallSizes
  <2>6. iend' = iend /\ oend' = oend
    BY <1>5 DEF iend, oend
  <2>7. Distance' /\ Pending' /\ MatchPending' /\ Blamed' /\ Finished'
    BY <1>9, <2>3, <2>4, <2>6 DEF Distance, Pending, MatchPending, Blamed, Finished
  <2> QED
    BY <1>5, <1>9, <2>3, <2>4, <2>5, <2>7, Carried
<1> HIDE DEF at, long, fails, near, room
<1> QED
  BY <1>6, <1>7, <1>8, <1>9

LEMMA SafeLiteralsKeeps ==
    ASSUME IInv, NEW lit \in NextLiterals, SafeLiterals(lit) PROVE IInv'
<1> DEFINE at == ip + 1 + LengthBytes(lit, RUN_MASK)
           short == ip + 1 < iend - 14 - 2 /\ op <= oend - 14 - 18
           fails == lit >= RUN_MASK /\ VariableLengthFails(ip + 1, lit, iend - RUN_MASK, TRUE)
<1>1. /\ Types /\ SmallSizes /\ pc = "safe" /\ ip \in Nat /\ ip < iend /\ op \in Nat
      /\ (Len(want) = op \/ Full)
  BY Sizes DEF IInv, Distance, Pending, Types, SafeLiterals
<1>2. lit \in Nat
  BY <1>1, NextLiteralsType DEF SmallSizes
<1>3. at \in Nat /\ (lit < RUN_MASK => at = ip + 1)
  <2>1. /\ LengthBytes(lit, RUN_MASK) \in Nat
        /\ lit < RUN_MASK => LengthBytes(lit, RUN_MASK) = 0
    BY <1>2, LengthBytesIs
  <2> QED
    BY <1>1, <1>2, <2>1 DEF RUN_MASK
<1>4. src' = src /\ offset' = offset /\ ReadLiterals(lit, at)
  BY DEF SafeLiterals
<1>5. \/ /\ lit < RUN_MASK /\ short /\ mem' = Taken(mem, op, at, 16)
         /\ op' = op + lit /\ ip' = at + lit /\ pc' = "shortcut"
         /\ length' = length /\ result' = result
      \/ /\ mem' = Reads(mem, ip, 1) /\ fails /\ Reject
         /\ ip' = ip /\ length' = length /\ op' = op
      \/ /\ mem' = Reads(mem, ip, 1) /\ ~fails
         /\ ip' = at /\ length' = lit /\ pc' = "literals" /\ result' = result /\ op' = op
  BY DEF SafeLiterals
<1>6. CASE lit < RUN_MASK /\ short /\ pc' = "shortcut"
  <2>1. /\ mem' = Taken(mem, op, at, 16) /\ op' = op + lit /\ ip' = at + lit
        /\ length' = length /\ result' = result
    BY <1>5, <1>6 DEF Reject
  <2>2. lit <= 14 /\ at = ip + 1 /\ ip + 1 < iend - 16 /\ op <= oend - 32
    BY <1>1, <1>2, <1>3, <1>6 DEF RUN_MASK, SmallSizes
  <2> HIDE DEF at, short, fails
  <2>3. /\ Len(want) = op /\ lit <= 16 /\ op + 16 <= oend /\ at + 16 <= iend
        /\ ip' \in Nat /\ ip' <= iend - 3 /\ op' <= oend - 18
    BY <1>1, <1>2, <1>3, <2>1, <2>2 DEF SmallSizes, Full
  <2>4. /\ Sound(mem') /\ Same(mem', want', op') /\ Len(want') = op' /\ op' \in 0..oend
        /\ want' \in Seq(Int) /\ bad' \in BOOLEAN /\ sequences' \in Nat
    BY <1>2, <1>3, <1>4, <2>1, <2>3, LiteralsTaken
  <2>5. op' <= Len(want') /\ length' \in Nat /\ offset' \in {0} \union Offsets /\ result' \in Int
    BY <1>1, <1>4, <2>1, <2>4 DEF Types, SmallSizes
  <2>6. iend' = iend /\ oend' = oend
    BY <1>4 DEF iend, oend
  <2>7. Distance' /\ Pending' /\ MatchPending' /\ Blamed' /\ Finished'
    BY <1>6, <2>3, <2>4, <2>6 DEF Distance, Pending, MatchPending, Blamed, Finished
  <2> QED
    BY <1>4, <1>6, <2>3, <2>4, <2>5, <2>7, Carried
<1>7. CASE fails /\ Reject
  BY <1>1, <1>2, <1>4, <1>5, <1>7, LiteralsRefused DEF Reject
<1>8. CASE ~fails /\ pc' = "literals"
  <2>1. at <= iend
    BY <1>1, <1>2, <1>3, <1>8 DEF VariableLengthFails, RUN_MASK, SmallSizes
  <2>2. length' = lit /\ ip' = at /\ mem' = Reads(mem, ip, 1) /\ op' = op /\ result' = result
    BY <1>5, <1>8 DEF Reject
  <2> HIDE DEF at, short, fails
  <2> QED
    BY <1>1, <1>2, <1>3, <1>4, <1>8, <2>1, <2>2, LiteralsLeft
<1> HIDE DEF at, short, fails
<1> QED
  BY <1>5, <1>6, <1>7, <1>8
LEMMA SafeLiteralCopyKeeps ==
    ASSUME IInv, SafeLiteralCopy PROVE IInv'
<1> DEFINE end == op + length > oend - MFLIMIT \/ ip + length > iend - (2 + 1 + LASTLITERALS)
           kept == IF op + Readable > oend THEN oend - op ELSE Readable
           refused == ~src.partial /\ (ip + length # iend \/ op + length > oend)
           done == ~src.partial \/ op' = oend \/ ip' >= iend - 2
<1>1. /\ Types /\ SmallSizes /\ Sound(mem) /\ Same(mem, want, op) /\ pc = "literals"
      /\ op <= Len(want)
      /\ ip \in Nat /\ ip <= iend /\ op \in Nat /\ op \in 0..oend /\ length \in Nat
      /\ (Full \/ (Len(want) = op + Readable /\ \A k \in 1..Readable : want[op + k] = ip + k))
  BY Sizes DEF IInv, Distance, Pending, Types, SafeLiteralCopy, SmallSizes
<1>2. /\ src' = src /\ length' = length /\ offset' = offset /\ want' = want /\ bad' = bad
      /\ sequences' = sequences
  BY DEF SafeLiteralCopy
<1>3. \/ /\ end /\ refused /\ Reject /\ ip' = ip /\ op' = op /\ mem' = mem
      \/ /\ end /\ ~refused /\ mem' = Taken(mem, op, ip, kept)
         /\ ip' = ip + kept /\ op' = op + kept
         /\ IF done THEN pc' = "done" /\ result' = op' ELSE pc' = "offset" /\ result' = result
      \/ /\ ~end /\ mem' = Taken(mem, op, ip, WildEnd(0, length))
         /\ ip' = ip + length /\ op' = op + length /\ pc' = "offset" /\ result' = result
  BY DEF SafeLiteralCopy, Readable
<1>4. /\ want' \in Seq(Int) /\ length' \in Nat /\ offset' \in {0} \union Offsets
      /\ bad' \in BOOLEAN /\ sequences' \in Nat /\ result \in Int /\ Len(want) \in Nat
  BY <1>1, <1>2 DEF Types
<1>5. Readable \in Nat /\ Readable <= length /\ ip + Readable <= iend
  BY <1>1 DEF Readable, SmallSizes
<1>6. iend' = iend /\ oend' = oend
  BY <1>2 DEF iend, oend
<1>7. ~Full => Literal(want, ip, Readable)
  BY <1>1 DEF Literal
<1>8. CASE end /\ refused /\ Reject /\ ip' = ip /\ op' = op /\ mem' = mem
  <2>1. bad
    <3>1. \/ bad
          \/ /\ op + length <= oend
             /\ \/ ip + length = iend
                \/ ip + length + 2 + 1 + LASTLITERALS <= iend /\ op + length + MFLIMIT <= oend
      BY <1>1, <1>8 DEF IInv, Blamed
    <3> QED
      BY <1>1, <1>8, <3>1 DEF LASTLITERALS, MFLIMIT, SmallSizes
  <2> HIDE DEF end, refused
  <2> QED
    BY <1>1, <1>2, <1>4, <1>8, <2>1, Refused
<1>9. CASE end /\ ~refused /\ pc' \in {"done", "offset"}
  <2>1. /\ mem' = Taken(mem, op, ip, kept) /\ ip' = ip + kept /\ op' = op + kept
        /\ IF done THEN pc' = "done" /\ result' = op' ELSE pc' = "offset" /\ result' = result
    BY <1>3, <1>9 DEF Reject
  <2>2. /\ kept \in Nat /\ kept <= Readable /\ op + kept <= oend /\ ip + kept <= iend
        /\ (kept = Readable \/ op + kept = oend)
    BY <1>1, <1>5 DEF SmallSizes
  <2>3. Full => kept = 0
    BY <1>1, <1>5 DEF SmallSizes, Full
  <2>4. ~src.partial => ip + length = iend /\ op + length <= oend
    <3>1. ~refused
      BY <1>9
    <3> QED
      BY <1>1, <3>1 DEF SmallSizes
  <2>5. ~src.partial => Readable = length /\ kept = length
    BY <1>1, <2>4 DEF Readable, SmallSizes
  <2> HIDE DEF end, refused, kept
  <2>6. Sound(mem') /\ Same(mem', want, op + kept)
    <3>1. CASE Full
      <4>1. Literal(want, ip, 0) /\ 0 \in Nat
        BY DEF Literal
      <4> QED
        BY <1>1, <2>1, <2>2, <2>3, <3>1, <4>1, LiteralsCopied
    <3>2. CASE ~Full
      <4>1. Literal(want, ip, kept)
        BY <1>1, <1>5, <1>7, <2>2, <3>2 DEF Literal
      <4> QED
        BY <1>1, <2>1, <2>2, <4>1, LiteralsCopied
    <3> QED
      BY <3>1, <3>2
  <2>7. /\ op' \in Nat /\ op' \in 0..oend /\ ip' \in Nat /\ op' <= Len(want)
        /\ result' \in Int
    BY <1>1, <1>4, <1>5, <2>1, <2>2, <2>3 DEF SmallSizes, Full
  <2>8. Len(want) = op' \/ (src.partial /\ op' = oend)
    BY <1>1, <1>5, <2>1, <2>2, <2>3, <2>5 DEF Full
  <2>9. CASE done
    <3>1. pc' = "done" /\ result' = op'
      BY <2>1, <2>9
    <3>2. Full' \/ Len(want) = op'
      BY <1>2, <1>6, <2>7, <2>8 DEF Full
    <3>3. ~src.partial => ip' = iend
      BY <1>1, <2>1, <2>4, <2>5
    <3>4. ~src.partial => Len(want) = op'
      BY <2>8
    <3>5. Finished'
      BY <1>2, <1>6, <2>7, <3>1, <3>2, <3>3, <3>4 DEF Finished
    <3>6. Distance' /\ Pending' /\ MatchPending' /\ Blamed'
      BY <3>1 DEF Distance, Pending, MatchPending, Blamed
    <3> QED
      BY <1>2, <1>4, <2>1, <2>6, <2>7, <3>1, <3>5, <3>6, Carried
  <2>10. CASE ~done
    <3>1. pc' = "offset" /\ result' = result /\ src.partial /\ op' # oend /\ ip' < iend - 2
      BY <1>1, <2>1, <2>7, <2>10 DEF SmallSizes
    <3>2. Len(want) = op' /\ ip' <= iend - 3
      BY <1>1, <2>7, <2>8, <3>1 DEF SmallSizes
    <3>3. Distance' /\ Pending' /\ MatchPending' /\ Blamed' /\ Finished'
      BY <1>2, <1>6, <3>1, <3>2 DEF Distance, Pending, MatchPending, Blamed, Finished
    <3> QED
      BY <1>2, <1>4, <2>1, <2>6, <2>7, <3>1, <3>3, Carried
  <2> HIDE DEF done
  <2> QED
    BY <2>9, <2>10
<1>10. CASE ~end /\ pc' = "offset"
  <2> DEFINE room == WildEnd(0, length)
  <2>1. /\ mem' = Taken(mem, op, ip, room) /\ ip' = ip + length /\ op' = op + length
        /\ result' = result
    BY <1>3, <1>10 DEF Reject
  <2>2. op + length <= oend - 12 /\ ip + length <= iend - 8
    BY <1>1, <1>10 DEF MFLIMIT, LASTLITERALS, SmallSizes
  <2>3. room \in Nat /\ length <= room /\ room <= length + 8
    BY <1>1 DEF WildEnd
  <2> HIDE DEF end, refused, kept, done, room
  <2>4. /\ op + room <= oend /\ ip + room <= iend /\ ~Full /\ Readable = length
    BY <1>1, <2>2, <2>3 DEF SmallSizes, Full, Readable
  <2>5. Sound(mem') /\ Same(mem', want, op + length)
    BY <1>1, <1>7, <2>1, <2>3, <2>4, LiteralsCopied
  <2>6. /\ op' \in 0..oend /\ ip' \in Nat /\ Len(want) = op' /\ ip' <= iend - 3
        /\ op' <= oend - 12 /\ op' <= Len(want)
    BY <1>1, <2>1, <2>2, <2>4 DEF SmallSizes
  <2>7. Distance' /\ Pending' /\ MatchPending' /\ Blamed' /\ Finished'
    BY <1>2, <1>6, <1>10, <2>6 DEF Distance, Pending, MatchPending, Blamed, Finished, MFLIMIT
  <2> QED
    BY <1>2, <1>4, <1>10, <2>1, <2>5, <2>6, <2>7, Carried
<1> HIDE DEF end, refused, kept, done
<1> QED
  BY <1>3, <1>8, <1>9, <1>10

LEMMA MatchLengthKeeps ==
    ASSUME IInv, MatchLength PROVE IInv'
<1> DEFINE fails == length >= ML_MASK /\ VariableLengthFails(ip, length, iend - LASTLITERALS + 1, FALSE)
<1>1. /\ Types /\ SmallSizes /\ Sound(mem) /\ Same(mem, want, op) /\ pc = "matchLength"
      /\ op <= Len(want) /\ ip \in Nat /\ ip < iend /\ op \in Nat /\ op \in 0..oend /\ length \in Nat
      /\ (~src.partial => op <= oend - MFLIMIT)
  BY Sizes DEF IInv, Distance, Types, MatchLength, SmallSizes
<1>2. /\ src' = src /\ op' = op /\ offset' = offset /\ want' = want /\ bad' = bad
      /\ sequences' = sequences
  BY DEF MatchLength
<1>3. /\ want' \in Seq(Int) /\ offset' \in {0} \union Offsets
      /\ bad' \in BOOLEAN /\ sequences' \in Nat /\ result \in Int /\ Len(want) \in Nat
  BY <1>1, <1>2 DEF Types
<1>4. bad \/ ip + LengthBytes(length, ML_MASK) + 1 + LASTLITERALS <= iend
  BY <1>1 DEF IInv, Blamed
<1>5. LengthBytes(length, ML_MASK) \in Nat /\ (length < ML_MASK => LengthBytes(length, ML_MASK) = 0)
  BY <1>1, LengthBytesIs
<1>6. CASE fails
  <2>1. Reject /\ mem' = Reads(mem, ip, 1) /\ ip' = ip /\ length' = length
    BY <1>6 DEF MatchLength
  <2>2. bad
    BY <1>1, <1>4, <1>5, <1>6 DEF VariableLengthFails, RUN_MASK, ML_MASK, LASTLITERALS, SmallSizes
  <2>3. Sound(mem') /\ mem'.out = mem.out
    <3>1. ip + 1 <= iend /\ iend \in Nat /\ 1 \in Nat
      BY <1>1 DEF SmallSizes
    <3>2. Sound(Reads(mem, ip, 1)) /\ Reads(mem, ip, 1).out = mem.out
      BY <1>1, <3>1, ReadsIs
    <3> QED
      BY <2>1, <3>2
  <2> QED
    BY <1>1, <1>2, <1>3, <2>1, <2>2, <2>3, Refused
<1>7. CASE ~fails
  <2>1. /\ ip' = ip + LengthBytes(length, ML_MASK) /\ length' = length + MINMATCH
        /\ pc' = "match" /\ mem' = mem /\ result' = result
    BY <1>7 DEF MatchLength
  <2>2. ip' \in Nat /\ ip' < iend /\ length' \in Nat /\ length' >= MINMATCH
    BY <1>1, <1>5, <1>7, <2>1
       DEF VariableLengthFails, RUN_MASK, ML_MASK, LASTLITERALS, SmallSizes, MINMATCH
  <2>3. iend' = iend /\ oend' = oend
    BY <1>2 DEF iend, oend
  <2>4. Distance' /\ Pending' /\ Finished'
    BY <1>1, <1>2, <2>1, <2>2, <2>3 DEF Distance, Pending, Finished
  <2>5. MatchLen' = MatchLen
    BY <1>1, <2>1 DEF MatchLen
  <2>6. MatchPending'
    BY <1>1, <1>2, <2>5 DEF IInv, MatchPending, Repeats
  <2>7. Blamed'
    BY <1>1, <1>2, <2>1, <2>3, <2>5 DEF IInv, Blamed
  <2> QED
    BY <1>1, <1>2, <1>3, <2>1, <2>2, <2>4, <2>6, <2>7, Carried
<1> QED
  BY <1>6, <1>7
\* The prefix of what is wanted is still what the output holds.
LEMMA StillSame ==
    ASSUME IInv, \A i \in 1..Len(want) : want'[i] = want[i]
    PROVE  Same(mem, want', op)
<1>1. Types /\ SmallSizes /\ Same(mem, want, op) /\ op <= Len(want) /\ op \in Nat /\ Len(want) \in Nat
  BY Sizes DEF IInv, Types, SmallSizes
<1>2. \A i \in 1..op : want'[i] = want[i]
  BY <1>1
<1>3. \A a \in 0..(op - 1) : mem.out[a] = mem.out[a]
  OBVIOUS
<1> QED
  BY <1>1, <1>2, <1>3, SameAs

\* A match whose place and length are known but whose length bytes are not.
LEMMA MatchLeft ==
    ASSUME IInv, src' = src, NEW code \in MatchCodes, NEW off \in Offsets, ReadMatch(code, off),
           pc \in {"shortcut", "offset"}, pc' = "matchLength", length' = code, ip' = ip + 2,
           op' = op, sequences' = sequences, result' = result, mem' = Reads(mem, ip, 2)
    PROVE  IInv'
<1>1. /\ Types /\ SmallSizes /\ Sound(mem) /\ Same(mem, want, op)
      /\ Len(want) = op /\ ip \in Nat /\ ip <= iend - 3 /\ op \in Nat /\ op \in 0..oend
      /\ (~src.partial => op <= oend - MFLIMIT)
  BY Sizes, SMTT(30) DEF IInv, Distance, Pending, Types, SmallSizes, MFLIMIT
<1>2. /\ code \in Nat /\ off \in Nat /\ off <= KB64 - 1
      /\ offset' = off /\ offset' \in {0} \union Offsets
      /\ want' \in Seq(Int) /\ \A i \in 1..Len(want) : want'[i] = want[i]
      /\ MatchWanted(MINMATCH + code, off)
      /\ bad' \in BOOLEAN /\ (MatchBad(ip + 2, code, off) => bad')
  BY <1>1, MatchRead
<1>3. Sound(mem') /\ mem'.out = mem.out
  <2>1. ip + 2 <= iend /\ iend \in Nat /\ 2 \in Nat
    BY <1>1 DEF SmallSizes
  <2>2. Sound(Reads(mem, ip, 2)) /\ Reads(mem, ip, 2).out = mem.out
    BY <1>1, <2>1, ReadsIs
  <2> QED
    BY <2>2
<1>4. Same(mem', want', op')
  <2>1. Same(mem, want', op)
    <3>1. \A i \in 1..Len(want) : want'[i] = want[i]
      BY <1>2
    <3> QED
      BY <3>1, StillSame
  <2>2. Same(mem', want', op)
    BY <1>3, <2>1 DEF Same
  <2> QED
    BY <2>2
<1>5. /\ ip' \in Nat /\ op' \in 0..oend /\ sequences' \in Nat /\ result' \in Int /\ length' \in Nat
      /\ ip' < iend /\ op' <= Len(want')
  <2>1. Len(want') = op + (MINMATCH + code) \/ Len(want') = op
    BY <1>1, <1>2 DEF MatchWanted
  <2>2. op' <= Len(want')
    BY <1>1, <1>2, <2>1 DEF MINMATCH
  <2>3. ip' \in Nat /\ ip' < iend /\ length' \in Nat /\ op' \in 0..oend
    BY <1>1, <1>2 DEF SmallSizes
  <2> QED
    BY <1>1, <2>2, <2>3 DEF Types
<1>6. iend' = iend /\ oend' = oend
  BY DEF iend, oend
<1>7. Distance' /\ Pending' /\ Finished'
  BY <1>1, <1>5, <1>6 DEF Distance, Pending, Finished
<1>8. MatchLen' = MINMATCH + code
  BY <1>2 DEF MatchLen, MINMATCH
<1>9. MatchPending'
  BY <1>1, <1>2, <1>8 DEF MatchPending, MatchWanted, Repeats
<1>10. Blamed'
  <2> SUFFICES ASSUME ~bad'
               PROVE  /\ ~src.partial => op + (MINMATCH + code) + LASTLITERALS <= oend
                      /\ ip' + LengthBytes(code, ML_MASK) + 1 + LASTLITERALS <= iend
    BY <1>6, <1>8 DEF Blamed
  <2>1. ~MatchBad(ip + 2, code, off)
    BY <1>2
  <2> DEFINE n == LengthBytes(code, ML_MASK)
  <2>2. n \in Nat
    BY <1>2, LengthBytesIs
  <2>3. /\ ~(ip + 2 + n + 1 + LASTLITERALS > iend)
        /\ ~src.partial => ~(Len(want) + MINMATCH + code + LASTLITERALS > oend)
    BY <2>1 DEF MatchBad
  <2> HIDE DEF n
  <2> QED
    BY <1>1, <1>2, <2>2, <2>3, SMTT(30) DEF n, SmallSizes, LASTLITERALS, MINMATCH
<1> QED
  BY <1>2, <1>3, <1>4, <1>5, <1>7, <1>9, <1>10, Carried

\* A match that was copied: loop is the one that goes on.
LEMMA MatchMade ==
    ASSUME IInv, src' = src, NEW m, Sound(m), m.out = mem.out, Sound(mem'),
           NEW len \in Nat, NEW kept \in Nat, kept <= len, op + kept <= oend, NEW off \in Nat,
           MatchCopied(m, mem', op, kept, off), op' = op + kept,
           want' \in Seq(Int), Same(mem, want', op),
           Len(want') = op + len, Repeats(want', op, len, off)
    PROVE  /\ Same(mem', want', op') /\ op' \in 0..oend /\ op' <= Len(want')
           /\ Len(want') - op' = len - kept
<1>1. Types /\ SmallSizes /\ op \in Nat /\ op \in 0..oend
  BY Sizes DEF IInv, Types, SmallSizes
<1>2. m \in Memory /\ mem' \in Memory
  BY DEF Sound
<1>3. Same(m, want', op)
  BY DEF Same
<1>4. Same(mem', want', op + kept)
  BY <1>1, <1>2, <1>3, SameFurther
<1> QED
  BY <1>1, <1>4 DEF SmallSizes

LEMMA SafeOffsetKeeps ==
    ASSUME IInv, NEW code \in MatchCodes, NEW off \in Offsets, SafeOffset(code, off) PROVE IInv'
  BY MatchLeft DEF SafeOffset

LEMMA ShortcutMatchKeeps ==
    ASSUME IInv, NEW code \in MatchCodes, NEW off \in Offsets, ShortcutMatch(code, off) PROVE IInv'
<1> DEFINE m == Reads(mem, ip, 2)
           match == op - off
           inside == src.dict = "withPrefix64k" \/ match >= lowPrefix
           short == code < ML_MASK /\ off >= 8 /\ inside
           copy == Copied(Copied(Copied(m, op, match, 8), op + 8, match + 8, 8),
                          op + 16, match + 16, 2)
<1>1. /\ Types /\ Reach /\ SmallSizes /\ Sound(mem) /\ pc = "shortcut"
      /\ Len(want) = op /\ ip \in Nat /\ ip <= iend - 3 /\ op \in Nat /\ op <= oend - 18
  BY Sizes DEF IInv, Distance, Pending, Types, SmallSizes, ShortcutMatch
<1>2. /\ src' = src /\ sequences' = sequences /\ result' = result /\ ip' = ip + 2
      /\ ReadMatch(code, off)
  BY DEF ShortcutMatch
<1>3. CASE ~short
  <2>1. mem' = m /\ length' = code /\ pc' = "matchLength" /\ op' = op
    BY <1>3 DEF ShortcutMatch
  <2> HIDE DEF short
  <2> QED
    BY <1>1, <1>2, <2>1, MatchLeft
<1>4. CASE short
  <2>1. /\ mem' = copy /\ op' = op + MINMATCH + code /\ pc' = "safe" /\ length' = length
    BY <1>4 DEF ShortcutMatch
  <2>2. /\ code \in Nat /\ off \in Nat /\ off <= KB64 - 1
        /\ offset' = off /\ offset' \in {0} \union Offsets
        /\ want' \in Seq(Int) /\ \A i \in 1..Len(want) : want'[i] = want[i]
        /\ MatchWanted(MINMATCH + code, off)
        /\ bad' \in BOOLEAN /\ (MatchBad(ip + 2, code, off) => bad')
    BY <1>1, <1>2, MatchRead
  <2>3. code < ML_MASK /\ off >= 8 /\ inside
    BY <1>4
  <2>4. off <= src.available + op /\ op - off >= 0 - src.available
    BY <1>1, <2>3, InRange
  <2>5. Sound(m) /\ m.out = mem.out
    <3>1. ip + 2 <= iend /\ iend \in Nat /\ 2 \in Nat
      BY <1>1 DEF SmallSizes
    <3> QED
      BY <1>1, <3>1, ReadsIs
  <2> DEFINE len == MINMATCH + code
  <2>6. len \in Nat /\ len <= 18 /\ op + 18 <= oend /\ op' = op + len /\ op + len <= oend
    <3>1. op' = op + MINMATCH + code /\ code < 15
      BY <2>1, <2>3 DEF ML_MASK
    <3>2. op \in Nat /\ oend \in Nat /\ op <= oend - 18
      BY <1>1 DEF SmallSizes
    <3>3. code \in Nat
      BY <2>2
    <3> QED
      BY <3>1, <3>2, <3>3 DEF MINMATCH
  <2> HIDE DEF m, short, inside, len
  <2>7. Sound(mem') /\ MatchCopied(m, mem', op, len, off)
    BY <1>1, <2>1, <2>2, <2>3, <2>4, <2>5, <2>6, ShortMatchCopied
  <2>8. Len(want') = op + len /\ Repeats(want', op, len, off)
    BY <1>1, <2>2, <2>4 DEF MatchWanted, len
  <2>9. /\ Same(mem', want', op') /\ op' \in 0..oend /\ op' <= Len(want') /\ Len(want') - op' = len - len
    BY <1>2, <2>2, <2>5, <2>6, <2>7, <2>8, StillSame, MatchMade, SMTT(30)
  <2>10. /\ length' \in Nat /\ ip' \in Nat /\ ip' < iend /\ sequences' \in Nat /\ result' \in Int
         /\ Len(want') = op'
    BY <1>1, <1>2, <2>1, <2>6, <2>8, SMTT(30) DEF Types, SmallSizes
  <2>11. iend' = iend /\ oend' = oend
    BY <1>2 DEF iend, oend
  <2>12. Distance' /\ Pending' /\ MatchPending' /\ Blamed' /\ Finished'
    BY <2>1, <2>10, <2>11 DEF Distance, Pending, MatchPending, Blamed, Finished
  <2> QED
    BY <1>2, <2>1, <2>2, <2>7, <2>9, <2>10, <2>12, Carried
<1> HIDE DEF short
<1> QED
  BY <1>3, <1>4
LEMMA FastMatchKeeps ==
    ASSUME IInv, NEW code \in MatchCodes, NEW off \in Offsets, FastMatch(code, off) PROVE IInv'
<1> DEFINE m == Reads(mem, ip, 2)
           match == op - off
           len == MINMATCH + code
           inside == src.dict = "withPrefix64k" \/ match >= lowPrefix
           fails == code >= ML_MASK /\ VariableLengthFails(ip + 2, code, iend - LASTLITERALS + 1, FALSE)
           late == op + len >= oend - FASTLOOP_SAFE_DISTANCE
           short == code < ML_MASK /\ inside /\ off >= 8
           copy == Copied(Copied(Copied(m, op, match, 8), op + 8, match + 8, 8),
                          op + 16, match + 16, 2)
           external == src.dict = "usingExtDict" /\ match < lowPrefix
           wild == IF off < 16 THEN LZ4_memcpy_using_offset(m, op, match, op + len, off)
                   ELSE LZ4_wildCopy32(m, op, match, op + len)
<1>1. /\ Types /\ Reach /\ SmallSizes /\ Sound(mem) /\ pc = "fastMatch"
      /\ Len(want) = op /\ ip \in Nat /\ ip <= iend - 3 /\ op \in Nat /\ op <= oend - 32
  BY Sizes DEF IInv, Distance, Pending, Types, SmallSizes, FastMatch
<1>2. /\ src' = src /\ sequences' = sequences /\ ip' = ip + 2 + LengthBytes(code, ML_MASK)
      /\ length' = len /\ ReadMatch(code, off)
  BY DEF FastMatch
<1>3. \/ fails /\ Reject /\ mem' = m /\ op' = op
      \/ /\ ~fails /\ late /\ pc' = "match" /\ mem' = m /\ op' = op /\ result' = result
      \/ /\ ~fails /\ ~late /\ short
         /\ mem' = copy /\ op' = op + len /\ pc' = "fast" /\ result' = result
      \/ /\ ~fails /\ ~late /\ OutsideBuffers(match) /\ Reject /\ mem' = m /\ op' = op
      \/ /\ ~fails /\ ~late /\ ~OutsideBuffers(match) /\ external
         /\ FromDictionary(m, match, len, "fast")
      \/ /\ ~fails /\ ~late /\ ~OutsideBuffers(match) /\ ~external
         /\ mem' = wild /\ op' = op + len /\ pc' = "fast" /\ result' = result
  BY DEF FastMatch
<1>4. /\ code \in Nat /\ off \in Nat /\ off <= KB64 - 1
      /\ offset' = off /\ offset' \in {0} \union Offsets
      /\ want' \in Seq(Int) /\ \A i \in 1..Len(want) : want'[i] = want[i]
      /\ MatchWanted(MINMATCH + code, off)
      /\ bad' \in BOOLEAN /\ (MatchBad(ip + 2, code, off) => bad')
  BY <1>1, <1>2, MatchRead
<1>5. Sound(m) /\ m.out = mem.out
  <2>1. ip + 2 <= iend /\ iend \in Nat /\ 2 \in Nat
    BY <1>1 DEF SmallSizes
  <2> QED
    BY <1>1, <2>1, ReadsIs
<1>6. LengthBytes(code, ML_MASK) \in Nat /\ (code < ML_MASK => LengthBytes(code, ML_MASK) = 0)
  BY <1>4, LengthBytesIs
<1>7. ~fails => ip' < iend
  <2> DEFINE n == LengthBytes(code, ML_MASK)
  <2>1. ip' = ip + 2 + n /\ n \in Nat /\ (code < ML_MASK => n = 0)
    BY <1>2, <1>6
  <2>2. ~fails /\ code >= ML_MASK => ip + 2 + n <= iend - LASTLITERALS + 1
    BY <1>1, <1>4, <2>1
       DEF VariableLengthFails, RUN_MASK, ML_MASK, LASTLITERALS, SmallSizes
  <2> HIDE DEF n, fails
  <2> QED
    BY <1>1, <1>4, <2>1, <2>2 DEF ML_MASK, LASTLITERALS, SmallSizes
<1>8. fails => bad'
  <2> SUFFICES ASSUME fails PROVE MatchBad(ip + 2, code, off)
    BY <1>4
  <2> DEFINE n == LengthBytes(code, RUN_MASK)
  <2>1. ip + 2 + n > iend - LASTLITERALS + 1
    BY DEF VariableLengthFails
  <2>2. LengthBytes(code, ML_MASK) = n /\ n \in Nat
    BY <1>6 DEF RUN_MASK, ML_MASK
  <2> HIDE DEF n, fails
  <2>3. ip + 2 + n + 1 + LASTLITERALS > iend
    BY <1>1, <2>1, <2>2 DEF LASTLITERALS, SmallSizes
  <2> QED
    BY <2>2, <2>3 DEF MatchBad
<1>9. Same(mem, want', op)
  <2>1. \A i \in 1..Len(want) : want'[i] = want[i]
    BY <1>4
  <2> QED
    BY <2>1, StillSame
<1>10. /\ ip' \in Nat /\ length' \in Nat /\ length' >= MINMATCH /\ sequences' \in Nat
       /\ result \in Int /\ op \in 0..oend /\ len \in Nat /\ len >= 1
  BY <1>1, <1>2, <1>4, <1>6 DEF Types, SmallSizes, MINMATCH
<1>11. /\ off <= src.available + op => Len(want') = op + len /\ Repeats(want', op, len, off)
       /\ ~(off <= src.available + op) => bad' /\ Len(want') = op
  BY <1>1, <1>4 DEF MatchWanted
<1>12. iend' = iend /\ oend' = oend
  BY <1>2 DEF iend, oend
<1>13. Len(want') \in Nat /\ Len(want') >= op
  BY <1>1, <1>4, <1>10, <1>11
<1>14. ~MatchBad(ip + 2, code, off) => (~src.partial => op + len + LASTLITERALS <= oend)
  BY <1>1, <1>4 DEF MatchBad, MINMATCH, LASTLITERALS, SmallSizes
<1> HIDE DEF m, len, inside, fails, late, short, copy, external, wild
<1>15. ASSUME Reject, bad', mem' = m, op' = op PROVE IInv'
  BY <1>1, <1>2, <1>4, <1>5, <1>10, <1>13, <1>15, Refused
<1>16. CASE ~fails /\ pc' = "match" /\ mem' = m /\ op' = op /\ result' = result
  <2>1. Sound(mem') /\ Same(mem', want', op')
    BY <1>5, <1>9, <1>16 DEF Same
  <2>2. Distance' /\ Pending' /\ Finished'
    BY <1>1, <1>7, <1>10, <1>12, <1>16 DEF Distance, Pending, Finished, MFLIMIT, SmallSizes
  <2>3. MatchLen' = len
    BY <1>2, <1>16 DEF MatchLen
  <2>4. MatchPending'
    BY <1>2, <1>4, <1>11, <1>13, <1>16, <2>3 DEF MatchPending, Repeats
  <2>5. Blamed'
    BY <1>2, <1>4, <1>12, <1>14, <1>16, <2>3 DEF Blamed
  <2> QED
    BY <1>2, <1>4, <1>10, <1>13, <1>16, <2>1, <2>2, <2>4, <2>5, Carried
<1>17. ASSUME ~fails, ~late, op' = op + len, pc' = "fast", result' = result,
              off <= src.available + op, Sound(mem'), MatchCopied(m, mem', op, len, off)
       PROVE  IInv'
  <2>1. op + len < oend - 64
    BY <1>1, <1>10, <1>17 DEF late, FASTLOOP_SAFE_DISTANCE, SmallSizes
  <2>2. op + len <= oend
    BY <1>1, <1>10, <2>1 DEF SmallSizes
  <2>3. /\ Same(mem', want', op') /\ op' \in 0..oend /\ op' <= Len(want')
        /\ Len(want') - op' = len - len
    BY <1>2, <1>4, <1>5, <1>9, <1>10, <1>11, <1>17, <2>2, MatchMade
  <2>4. Len(want') = op'
    BY <1>11, <1>17
  <2>5. Distance' /\ Pending' /\ MatchPending' /\ Blamed' /\ Finished'
    BY <1>1, <1>7, <1>10, <1>12, <1>17, <2>1, <2>4
       DEF Distance, Pending, MatchPending, Blamed, Finished, FASTLOOP_SAFE_DISTANCE, SmallSizes
  <2> QED
    BY <1>2, <1>4, <1>10, <1>17, <2>3, <2>5, Carried
<1>18. CASE fails /\ Reject /\ mem' = m /\ op' = op
  BY <1>8, <1>15, <1>18
<1>19. CASE ~fails /\ ~late /\ short
            /\ mem' = copy /\ op' = op + len /\ pc' = "fast" /\ result' = result
  <2>1. code < ML_MASK /\ inside /\ off >= 8
    BY <1>19 DEF short
  <2>2. off <= src.available + op /\ op - off >= 0 - src.available
    BY <1>1, <2>1, InRange DEF inside
  <2>3. len <= 18 /\ op + 18 <= oend
    BY <1>1, <1>4, <2>1 DEF len, MINMATCH, ML_MASK, SmallSizes
  <2>4. Sound(mem') /\ MatchCopied(m, mem', op, len, off)
    BY <1>1, <1>4, <1>5, <1>10, <1>19, <2>1, <2>2, <2>3, ShortMatchCopied DEF copy
  <2> QED
    BY <1>17, <1>19, <2>2, <2>4
<1>20. CASE ~fails /\ ~late /\ OutsideBuffers(match) /\ Reject /\ mem' = m /\ op' = op
  <2>1. ~(off <= src.available + op)
    BY <1>1, <1>20, OutsideBad
  <2> QED
    BY <1>11, <1>15, <1>20, <2>1
<1>21. CASE ~fails /\ ~late /\ ~OutsideBuffers(match) /\ external
            /\ FromDictionary(m, match, len, "fast")
  <2>1. off <= src.available + op /\ op - off >= 0 - src.available
    BY <1>1, <1>21, InRange
  <2>2. op + len < oend - 64
    BY <1>1, <1>10, <1>21 DEF late, FASTLOOP_SAFE_DISTANCE, SmallSizes
  <2>3. ~(op + len > oend - LASTLITERALS)
    BY <1>1, <1>10, <2>2 DEF LASTLITERALS, SmallSizes
  <2>4. /\ mem' = DictMatch(m, op, match, len) /\ op' = op + len /\ pc' = "fast"
        /\ result' = result
    BY <1>21, <2>3 DEF FromDictionary
  <2>5. op + len <= oend /\ match < lowPrefix /\ src.prefix \in Nat
    BY <1>1, <1>10, <1>21, <2>2, Sizes DEF external, SmallSizes
  <2>6. Sound(mem') /\ MatchCopied(m, mem', op, len, off)
    BY <1>1, <1>4, <1>5, <1>10, <2>1, <2>4, <2>5, DictMatchCopied
  <2> QED
    BY <1>17, <1>21, <2>1, <2>4, <2>6
<1>22. CASE ~fails /\ ~late /\ ~OutsideBuffers(match) /\ ~external
            /\ mem' = wild /\ op' = op + len /\ pc' = "fast" /\ result' = result
  <2>1. off <= src.available + op /\ op - off >= 0 - src.available
    BY <1>1, <1>22, InRange
  <2>2. op + len < oend - 64
    BY <1>1, <1>10, <1>22 DEF late, FASTLOOP_SAFE_DISTANCE, SmallSizes
  <2>3. op + len + 31 <= oend /\ op + len + 7 <= oend /\ op + 16 <= oend
    BY <1>1, <1>10, <2>2 DEF SmallSizes
  <2>4. CASE off < 16
    <3>1. mem' = LZ4_memcpy_using_offset(m, op, op - off, op + len, off)
      BY <1>22, <2>4 DEF wild
    <3>2. Sound(mem') /\ MatchCopied(m, mem', op, len, off)
      BY <1>1, <1>4, <1>5, <1>10, <2>1, <2>3, <3>1, UsingOffsetCopied
    <3> QED
      BY <1>17, <1>22, <2>1, <3>2
  <2>5. CASE ~(off < 16)
    <3>1. mem' = LZ4_wildCopy32(m, op, op - off, op + len) /\ off >= 16
      BY <1>4, <1>22, <2>5 DEF wild
    <3>2. Sound(mem') /\ MatchCopied(m, mem', op, len, off)
      BY <1>1, <1>4, <1>5, <1>10, <2>1, <2>3, <3>1, Wild32Copied
    <3> QED
      BY <1>17, <1>22, <2>1, <3>2
  <2> QED
    BY <2>4, <2>5
<1> HIDE DEF match
<1> QED
  BY <1>3, <1>16, <1>18, <1>19, <1>20, <1>21, <1>22
LEMMA SafeMatchCopyKeeps ==
    ASSUME IInv, SafeMatchCopy PROVE IInv'
<1> DEFINE match == op - offset
           cpy == op + length
           mlen == IF cpy > oend THEN oend - op ELSE length
           external == src.dict = "usingExtDict" /\ match < lowPrefix
           close == src.partial /\ cpy > oend - MATCH_SAFEGUARD_DISTANCE
           single == IF match + mlen > op THEN Repeated(mem, op, match, mlen)
                     ELSE Copied(mem, op, match, mlen)
<1>1. /\ Types /\ Reach /\ SmallSizes /\ Sound(mem) /\ Same(mem, want, op) /\ pc = "match"
      /\ op <= Len(want) /\ ip \in Nat /\ ip < iend /\ op \in Nat /\ op \in 0..oend
      /\ length \in Nat /\ length >= MINMATCH /\ offset \in {0} \union Offsets
      /\ (~src.partial => op <= oend - MFLIMIT)
  BY Sizes DEF IInv, Distance, Types, SafeMatchCopy, SmallSizes
<1>2. /\ src' = src /\ ip' = ip /\ length' = length /\ offset' = offset /\ want' = want
      /\ bad' = bad /\ sequences' = sequences
  BY DEF SafeMatchCopy
<1>3. \/ OutsideBuffers(match) /\ Reject /\ mem' = mem /\ op' = op
      \/ /\ ~OutsideBuffers(match) /\ external /\ FromDictionary(mem, match, length, "safe")
      \/ /\ ~OutsideBuffers(match) /\ ~external /\ close
         /\ mem' = single /\ op' = op + mlen
         /\ IF op' = oend THEN pc' = "done" /\ result' = op' ELSE pc' = "safe" /\ result' = result
      \/ /\ ~OutsideBuffers(match) /\ ~external /\ ~close /\ cpy > oend - LASTLITERALS
         /\ Reject /\ mem' = FirstEight(mem, op, match, offset).mem /\ op' = op
      \/ /\ ~OutsideBuffers(match) /\ ~external /\ ~close /\ ~(cpy > oend - LASTLITERALS)
         /\ mem' = BlockMatch(mem, match, cpy)
         /\ op' = cpy /\ pc' = "safe" /\ result' = result
  BY DEF SafeMatchCopy
<1>4. /\ want' \in Seq(Int) /\ ip' \in Nat /\ length' \in Nat /\ offset' \in {0} \union Offsets
      /\ bad' \in BOOLEAN /\ sequences' \in Nat /\ result \in Int /\ Len(want) \in Nat
  BY <1>1, <1>2 DEF Types
<1>5. /\ offset <= src.available + op =>
           Len(want) = op + length /\ Repeats(want, op, length, offset)
      /\ ~(offset <= src.available + op) => bad
  BY <1>1 DEF IInv, MatchPending, MatchLen
<1>6. ~src.partial => bad \/ op + length + LASTLITERALS <= oend
  BY <1>1 DEF IInv, Blamed, MatchLen
<1>7. ~OutsideBuffers(match) =>
        offset \in Nat /\ offset <= src.available + op /\ op - offset >= 0 - src.available
  BY <1>1, InRange
<1>8. iend' = iend /\ oend' = oend
  BY <1>2 DEF iend, oend
<1>9. ASSUME Reject, bad, Sound(mem'), \A a \in 0..(op - 1) : mem'.out[a] = mem.out[a], op' = op
      PROVE  IInv'
  BY <1>1, <1>2, <1>4, <1>9, Refused
<1> HIDE DEF external, close, single, mlen
<1>10. ASSUME ~OutsideBuffers(match), NEW kept \in Nat, kept <= length, op + kept <= oend,
              kept = length \/ (src.partial /\ op + kept = oend),
              Sound(mem'), MatchCopied(mem, mem', op, kept, offset), op' = op + kept,
              \/ pc' = "safe" /\ result' = result
              \/ pc' = "done" /\ result' = op' /\ src.partial
       PROVE  IInv'
  <2>1. /\ offset \in Nat /\ Len(want) = op + length /\ Repeats(want', op, length, offset)
        /\ Len(want') = op + length /\ Same(mem, want', op)
    BY <1>1, <1>2, <1>5, <1>7, <1>10
  <2>2. /\ Same(mem', want', op') /\ op' \in 0..oend /\ op' <= Len(want')
        /\ Len(want') - op' = length - kept
    BY <1>1, <1>2, <1>4, <1>10, <2>1, MatchMade
  <2>3. Len(want') = op' \/ Full'
    BY <1>1, <1>2, <1>8, <1>10, <2>1, <2>2 DEF Full
  <2>4. Distance' /\ MatchPending' /\ Blamed' /\ Pending'
    BY <1>1, <1>2, <1>8, <1>10, <2>3 DEF Distance, MatchPending, Blamed, Pending
  <2>5. Finished' /\ result' \in Int
    BY <1>1, <1>2, <1>4, <1>10, <2>2, <2>3 DEF Finished, SmallSizes
  <2> QED
    BY <1>2, <1>4, <1>10, <2>2, <2>4, <2>5, Carried
<1>11. CASE OutsideBuffers(match) /\ Reject /\ mem' = mem /\ op' = op
  <2>1. bad
    BY <1>1, <1>5, <1>11, OutsideBad
  <2> QED
    BY <1>1, <1>9, <1>11, <2>1
<1>12. CASE ~OutsideBuffers(match) /\ external /\ FromDictionary(mem, match, length, "safe")
  <2>1. CASE op + length > oend - LASTLITERALS /\ ~src.partial
    <3>1. Reject /\ mem' = mem /\ op' = op
      BY <1>12, <2>1 DEF FromDictionary
    <3>2. bad
      BY <1>1, <1>6, <2>1 DEF LASTLITERALS, SmallSizes
    <3> QED
      BY <1>1, <1>9, <3>1, <3>2
  <2>2. CASE ~(op + length > oend - LASTLITERALS /\ ~src.partial)
    <3> DEFINE kept == IF op + length > oend - LASTLITERALS /\ op + length > oend THEN oend - op ELSE length
    <3>1. /\ mem' = DictMatch(mem, op, match, kept) /\ op' = op + kept /\ pc' = "safe"
          /\ result' = result
      BY <1>12, <2>2 DEF FromDictionary
    <3>2. /\ kept \in Nat /\ kept <= length /\ op + kept <= oend
          /\ kept = length \/ (src.partial /\ op + kept = oend)
      BY <1>1, <2>2 DEF LASTLITERALS, SmallSizes
    <3> HIDE DEF kept
    <3>3. match < lowPrefix /\ src.prefix \in Nat
      BY <1>1, <1>12, Sizes DEF external
    <3>4. Sound(mem') /\ MatchCopied(mem, mem', op, kept, offset)
      BY <1>1, <1>7, <1>12, <3>1, <3>2, <3>3, DictMatchCopied
    <3> QED
      BY <1>10, <1>12, <3>1, <3>2, <3>4
  <2> QED
    BY <2>1, <2>2
<1>13. CASE /\ ~OutsideBuffers(match) /\ ~external /\ close /\ mem' = single /\ op' = op + mlen
            /\ IF op' = oend THEN pc' = "done" /\ result' = op' ELSE pc' = "safe" /\ result' = result
  <2>1. src.partial
    BY <1>13 DEF close
  <2>2. /\ mlen \in Nat /\ mlen <= length /\ op + mlen <= oend
        /\ mlen = length \/ (src.partial /\ op + mlen = oend)
    BY <1>1, <2>1 DEF mlen, SmallSizes
  <2>3. Sound(mem') /\ MatchCopied(mem, mem', op, mlen, offset)
    BY <1>1, <1>7, <1>13, <2>1, <2>2, PartialCopied DEF single
  <2> QED
    BY <1>10, <1>13, <2>1, <2>2, <2>3
<1>14. CASE /\ ~OutsideBuffers(match) /\ ~external /\ ~close /\ cpy > oend - LASTLITERALS
            /\ Reject /\ mem' = FirstEight(mem, op, match, offset).mem /\ op' = op
  <2>1. ~src.partial
    BY <1>1, <1>14
       DEF close, MATCH_SAFEGUARD_DISTANCE, LASTLITERALS, MINMATCH, WILDCOPYLENGTH, SmallSizes
  <2>2. bad
    BY <1>1, <1>6, <1>14, <2>1 DEF LASTLITERALS, SmallSizes
  <2>3. op + 8 <= oend
    BY <1>1, <2>1 DEF MFLIMIT, SmallSizes
  <2>4. Eight(mem, FirstEight(mem, op, op - offset, offset), op, offset)
    BY <1>1, <1>7, <1>14, <2>3, FirstEightIs
  <2>5. Sound(mem') /\ \A a \in 0..(op - 1) : mem'.out[a] = mem.out[a]
    BY <1>14, <2>4 DEF Eight
  <2> QED
    BY <1>9, <1>14, <2>2, <2>5
<1>15. CASE /\ ~OutsideBuffers(match) /\ ~external /\ ~close /\ ~(cpy > oend - LASTLITERALS)
            /\ mem' = BlockMatch(mem, match, cpy)
            /\ op' = cpy /\ pc' = "safe" /\ result' = result
  <2>1. /\ op + length <= oend - LASTLITERALS /\ op + 8 <= oend /\ op + length <= oend
        /\ length <= length
    BY <1>1, <1>15 DEF LASTLITERALS, MINMATCH, SmallSizes
  <2>2. Sound(mem') /\ MatchCopied(mem, mem', op, length, offset)
    BY <1>1, <1>7, <1>15, <2>1, BlockMatchCopied
  <2> QED
    BY <1>1, <1>10, <1>15, <2>1, <2>2
<1> HIDE DEF match, cpy
<1> QED
  BY <1>3, <1>11, <1>12, <1>13, <1>14, <1>15

LEMMA InitIInv ==
    ASSUME Init PROVE IInv
<1> PICK i \in Instances, size \in SrcSizes, room \in DstSizes,
          partial \in BOOLEAN, fastLoop \in BOOLEAN :
         /\ src = [dict |-> i.dict, prefix |-> i.prefix, dictSize |-> i.dictSize,
                   available |-> i.available, size |-> size, room |-> room,
                   partial |-> partial, fastLoop |-> fastLoop]
         /\ mem = [out |-> [a \in 0..(room - 1) |-> UNWRITTEN], top |-> 0, stray |-> FALSE]
  BY DEF Init
<1>1. /\ ip = 0 /\ op = 0 /\ length = 0 /\ offset = 0
      /\ want = <<>> /\ bad = FALSE /\ sequences = 0 /\ pc = "start" /\ result = 0
  BY DEF Init
<1>2. size \in Nat /\ room \in Nat /\ KB64 \in Nat
  BY DecodeAssumption
<1>3. i \in [dict : {"noDict", "withPrefix64k", "usingExtDict"},
             prefix : Nat, dictSize : Nat, available : Nat]
  BY DecodeAssumption
     DEF Instances, LZ4_decompress_safe_usingDict, NoDict, WithPrefix64k, WithSmallPrefix,
         ForceExtDict, DoubleDict
<1>4. IF i.dict = "withPrefix64k"
      THEN i.prefix = KB64 /\ i.dictSize = 0 /\ i.available >= KB64 - 1
      ELSE /\ i.available = i.prefix + i.dictSize
           /\ i.dict = "noDict" => i.dictSize = 0
  BY DecodeAssumption
     DEF Instances, LZ4_decompress_safe_usingDict, NoDict, WithPrefix64k, WithSmallPrefix,
         ForceExtDict, DoubleDict
<1>5. oend = room /\ oend \in Nat
  BY <1>2 DEF oend
<1>6. mem \in Memory
  BY <1>5 DEF Memory, UNWRITTEN
<1>7. Types
  <2>1. src \in [dict : {"noDict", "withPrefix64k", "usingExtDict"},
                 prefix : Nat, dictSize : Nat, available : Nat,
                 size : Nat, room : Nat, partial : BOOLEAN, fastLoop : BOOLEAN]
    BY <1>2, <1>3
  <2>2. op \in 0..oend
    BY <1>1, <1>5
  <2>3. want \in Seq(Int)
    BY <1>1
  <2>4. /\ ip \in Nat /\ length \in Nat /\ offset \in {0} \union Offsets
        /\ sequences \in Nat /\ result \in Int
    BY <1>1
  <2>6. bad \in BOOLEAN
    BY <1>1, Zenon
  <2>5. pc \in {"start", "fast", "fastMatch", "safe", "shortcut", "literals",
               "offset", "matchLength", "match", "done"}
    BY <1>1
  <2> QED
    BY <1>6, <2>1, <2>2, <2>3, <2>4, <2>5, <2>6, Zenon DEF Types
<1>8. Reach
  BY <1>4 DEF Reach
<1>9. Sound(mem) /\ Same(mem, want, op) /\ op <= Len(want)
  BY <1>1, <1>5, <1>6 DEF Sound, Same
<1>10. Distance /\ Pending /\ MatchPending /\ Blamed /\ Finished
  BY <1>1 DEF Distance, Pending, MatchPending, Blamed, Finished
<1> QED
  BY <1>7, <1>8, <1>9, <1>10 DEF IInv

LEMMA IInvKept ==
    ASSUME IInv, [Next]_vars PROVE IInv'
<1>1. CASE UNCHANGED vars
  BY <1>1 DEF vars, IInv, Types, Memory, Reach, Distance, Full, Readable, Pending, MatchLen,
              Repeats, History, MatchPending, Same, Blamed, Finished, Sound, iend, oend
<1>2. CASE Next
  BY <1>2, StartKeeps, FastLiteralsKeeps, SafeLiteralsKeeps, FastMatchKeeps, ShortcutMatchKeeps,
     SafeOffsetKeeps, SafeLiteralCopyKeeps, MatchLengthKeeps, SafeMatchCopyKeeps DEF Next
<1> QED
  BY <1>1, <1>2

\* The invariant the four theorems rest on.
THEOREM Invariant == Spec => []IInv
  BY InitIInv, IInvKept, PTL DEF Spec

(* No copy of the decoder writes behind the output, and none reads behind  *)
(* the input, before the dictionary or what it is writing: with every size *)
(* of the buffers, prefix and dictionary, and every block, however it was  *)
(* made.                                                                   *)
THEOREM StaysInBounds == Spec => [](NoStrayWrite /\ NoStrayRead)
<1>1. IInv => NoStrayWrite /\ NoStrayRead
  BY DEF IInv, Sound, NoStrayWrite, NoStrayRead
<1> QED
  BY <1>1, Invariant, PTL

(* What the decoder returns is what the block stands for: copies of 4, 8,  *)
(* 16 and 32 bytes that overlap themselves leave what copying byte by byte *)
(* would have.                                                             *)
THEOREM OutputIsRight == Spec => []DecodesRight
<1>1. IInv => DecodesRight
  <2> SUFFICES ASSUME IInv, pc = "done", result >= 0
               PROVE  /\ \A i \in 0..(result - 1) :
                            mem.out[i] = want[i + 1] \/ (src.partial /\ want[i + 1] = 0)
                      /\ IF src.partial THEN result = Len(want) \/ result = oend
                                        ELSE result = Len(want) /\ ip = iend
    BY DEF DecodesRight
  <2>1. result = op /\ IF src.partial THEN Len(want) = op \/ Full ELSE Len(want) = op /\ ip = iend
    BY DEF IInv, Finished
  <2>2. Same(mem, want, op)
    BY DEF IInv
  <2> QED
    BY <2>1, <2>2 DEF Same, Full
<1> QED
  BY <1>1, Invariant, PTL

(* The decoder refuses a block only if no encoder makes it or it does not  *)
(* fit: at every size the limits of the fast loop, of the shortcut and of  *)
(* the safe loop never turn away a block that is in order.                 *)
THEOREM RefusalDeserved == Spec => []RefusesOnlyBad
<1>1. IInv => RefusesOnlyBad
  BY DEF IInv, Finished, RefusesOnlyBad
<1> QED
  BY <1>1, Invariant, PTL
=============================================================================
