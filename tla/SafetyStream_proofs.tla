------------------------- MODULE SafetyStream_proofs -------------------------
(***************************************************************************)
(* The two ends of a safety connection count the roll-overs of the time    *)
(* stamp alike, for any width of the words and any bounds that keep the    *)
(* frames close enough: the consumer can only tell a wrap from the time    *)
(* stamps of the frames that arrive.                                       *)
(***************************************************************************)
EXTENDS SafetyStream, TLAPS

\* Between two frames that arrive less than three quarters of a wrap pass.
Paced == (MaxLost + 1) * Pace < Word - Quarter

---------------------------------------------------------------------------
\* The frames in order, as points in the producer's time.  Place 0 is the frame that was
\* received last, and the places up to Len(network) are in flight.
Point(ts, roll) == [ts |-> ts, roll |-> roll]
Idle == Point(0, 0)
At(i) == IF i = 0 THEN Point(last_ts, tracked) ELSE Point(network[i].ts, network[i].roll)

\* The frames from place i to the next place that is still there.
Between(i) == IF i = 0 THEN lost + 1 ELSE 1

\* b is at most n frames after a.
Reach(a, b, n) ==
  \E d \in 0..(n * Pace) : \/ b.ts = a.ts + d /\ b.roll = a.roll
                           \/ b.ts = a.ts + d - Word /\ b.roll = (a.roll + 1) % Word

\* b is at most n frames after the producer became active, and before a wrap.
Early(b, n) == b.roll = 0 /\ b.ts <= initial.ts + n * Pace

\* The frames up to place k were idle; b comes n frames after place i.
Link(k, i, b, n) ==
  /\ i = k => Early(b, n)
  /\ i > k => Reach(At(i), b, n)

\* The originator's next frame; the target's last.
Front ==
  IF direction = "server" THEN Point(timestamp, rollover_count)
  ELSE Point(last_sent_ticks % Word, (initial.roll + last_sent_ticks \div Word) % Word)
Ahead == IF direction = "server" THEN 0 ELSE 1

\* What comes after place i, and how many frames later at most.
Beyond(i) == IF i = Len(network) THEN Front ELSE At(i + 1)
Steps(i) == IF i = Len(network) THEN Between(i) - Ahead ELSE Between(i)

Chain(k) == \A i \in 0..Len(network) :
  /\ i <= k => At(i) = Idle
  /\ Link(k, i, Beyond(i), Steps(i))

AllIdle == \A i \in 0..Len(network) : At(i) = Idle

\* No run frame has been stamped.
Fresh ==
  IF direction = "server" THEN ~consumer_active ELSE ~start \/ producer = "idle"

PhaseInv ==
  /\ consumer_active <=> tcoo # "none"
  /\ start <=> direction = "client" /\ tcoo = "done"
  /\ direction = "server" => tcoo \in {"none", "run", "done"} /\ producer = "sleep"
  /\ direction = "client" => tcoo \in {"none", "rollover", "start", "done"}
  /\ ~initialized => last_ts = 0 /\ tracked = 0 /\ ~heard.run
  /\ heard.ts = last_ts

FreshInv ==
  Fresh =>
    /\ AllIdle /\ rollover_count = 0
    /\ direction = "server" => timestamp = initial.ts
    /\ direction = "client" => last_sent_ticks = 0 /\ elapsed = 0

\* The target never goes back behind the time that has elapsed.
ElapsedInv ==
  direction = "client" =>
    \/ initial.ts + elapsed <= last_sent_ticks
    \/ last_sent_ticks = 0 /\ elapsed = 0 /\ AllIdle

ChainInv == crc_valid /\ \E k \in -1..Len(network) : Chain(k)

\* The parts that concern a connection from zero.
ZeroInv == FromZero /\ ~missed_start => FreshInv /\ ElapsedInv /\ ChainInv

---------------------------------------------------------------------------
\* Division by w.
LEMMA DivMod ==
  ASSUME NEW w \in Nat \ {0}, NEW x \in Nat
  PROVE  x = w * (x \div w) + (x % w) /\ x % w \in 0..(w - 1) /\ x \div w \in Nat
  OBVIOUS

\* A further multiple of w is at least w further.
LEMMA Multiples ==
  ASSUME NEW w \in Nat \ {0}, NEW p \in Nat, NEW q \in Nat, p < q
  PROVE  w * p + w <= w * q
  <1>1. w * q = w * p + w * (q - p) /\ q - p >= 1
    OBVIOUS
  <1>2. \A k \in Nat : k >= 1 => w * k >= w
    OBVIOUS
  <1> QED
    BY <1>1, <1>2

\* Quotient and remainder are unique.
LEMMA DivModUnique ==
  ASSUME NEW w \in Nat \ {0}, NEW x \in Nat, NEW q \in Nat, NEW r \in 0..(w - 1),
         x = w * q + r
  PROVE  x \div w = q /\ x % w = r
  <1> DEFINE y == x \div w
             z == x % w
  <1>1. x = w * y + z /\ z \in 0..(w - 1) /\ y \in Nat
    BY DivMod
  <1> HIDE DEF y, z
  <1>2. ~(q < y)
    <2>1. ASSUME q < y PROVE FALSE
      <3>1. w * q + w <= w * y
        BY <1>1, <2>1, Multiples
      <3> QED
        BY <1>1, <3>1
    <2> QED
      BY <2>1
  <1>3. ~(y < q)
    <2>1. ASSUME y < q PROVE FALSE
      <3>1. w * y + w <= w * q
        BY <1>1, <2>1, Multiples
      <3> QED
        BY <1>1, <3>1
    <2> QED
      BY <2>1
  <1>4. y = q
    BY <1>1, <1>2, <1>3
  <1>5. z = r
    BY <1>1, <1>4
  <1> QED
    BY <1>4, <1>5 DEF y, z

\* Less than w added wraps at most once.
LEMMA PlusMod ==
  ASSUME NEW w \in Nat \ {0}, NEW x \in Nat, NEW d \in 0..(w - 1)
  PROVE  \/ (x + d) % w = (x % w) + d /\ (x + d) \div w = x \div w
         \/ (x + d) % w = (x % w) + d - w /\ (x + d) \div w = (x \div w) + 1
  <1> DEFINE q == x \div w
             r == x % w
  <1>1. x = w * q + r /\ r \in 0..(w - 1) /\ q \in Nat
    BY DivMod
  <1> HIDE DEF q, r
  <1>2. CASE r + d < w
    <2>1. x + d = w * q + (r + d) /\ r + d \in 0..(w - 1) /\ x + d \in Nat
      BY <1>1, <1>2
    <2>2. (x + d) \div w = q /\ (x + d) % w = r + d
      BY <1>1, <2>1, DivModUnique
    <2> QED
      BY <2>2 DEF q, r
  <1>3. CASE ~(r + d < w)
    <2>1. w * (q + 1) = w * q + w
      BY <1>1
    <2>2. x + d = w * (q + 1) + (r + d - w) /\ r + d - w \in 0..(w - 1) /\ x + d \in Nat
      BY <1>1, <1>3, <2>1
    <2>3. (x + d) \div w = q + 1 /\ (x + d) % w = r + d - w
      BY <1>1, <2>2, DivModUnique
    <2> QED
      BY <2>3 DEF q, r
  <1> QED
    BY <1>2, <1>3

\* A word is its own remainder.
LEMMA SmallMod ==
  ASSUME NEW w \in Nat \ {0}, NEW x \in 0..(w - 1)
  PROVE  x % w = x /\ x \div w = 0
  <1>1. x = w * 0 + x
    OBVIOUS
  <1> QED
    BY <1>1, DivModUnique

\* The count after x \div w, as a word.
LEMMA SuccMod ==
  ASSUME NEW w \in Nat, w > 1, NEW x \in Nat
  PROVE  (x + 1) % w = ((x % w) + 1) % w
  <1> DEFINE r == x % w
  <1>0. w \in Nat \ {0} /\ 1 \in 0..(w - 1)
    OBVIOUS
  <1>1. r \in 0..(w - 1)
    BY DivMod
  <1>2. (x + 1) % w = r + 1 \/ (x + 1) % w = r + 1 - w
    BY <1>0, PlusMod
  <1>3. (x + 1) % w \in 0..(w - 1)
    BY DivMod
  <1>4. r % w = r
    BY <1>1, SmallMod
  <1> HIDE DEF r
  <1>5. (r + 1) % w = r + 1 \/ (r + 1) % w = r + 1 - w
    <2>1. r \in Nat
      BY <1>1
    <2>2. \/ (r + 1) % w = (r % w) + 1
          \/ (r + 1) % w = (r % w) + 1 - w
      BY <1>0, <2>1, PlusMod
    <2> QED
      BY <1>4, <2>2
  <1>6. (r + 1) % w \in 0..(w - 1)
    BY <1>1, DivMod
  <1> QED
    BY <1>1, <1>2, <1>3, <1>5, <1>6 DEF r

\* The constants: what the steps of either producer are bounded by.
LEMMA Paces ==
  ASSUME Paced
  PROVE  /\ Word \in Nat \ {0} /\ Word > 4 /\ Pace \in Nat \ {0}
         /\ SendTicks \in Nat /\ SendTicks <= Pace /\ Pace < Word
         /\ \A e \in 0..MaxElapse, c \in 0..MaxCorrection : e + c <= Pace
         /\ Quarter \in Nat /\ Quarter < Word
         /\ \A n \in 0..(MaxLost + 1) : n * Pace \in Nat /\ n * Pace < Word - Quarter
         /\ \A n \in 0..(MaxLost + 1) : n * Pace <= (MaxLost + 1) * Pace
         /\ (MaxLost + 1) * Pace \in Nat
         /\ \A i \in Initials : i.ts \in Nat /\ i.ts < Word /\ i.roll \in Nat
  <1>1. /\ Word \in Nat \ {0} /\ Word > 4 /\ SendTicks \in Nat /\ MaxElapse \in Nat
        /\ MaxCorrection \in Nat /\ MaxLost \in Nat
        /\ \A i \in Initials : i.ts \in Nat /\ i.ts < Word /\ i.roll \in Nat
    BY StreamAssumption DEF Words
  <1>2. Pace \in Nat \ {0} /\ SendTicks <= Pace /\ MaxElapse + MaxCorrection <= Pace
    BY <1>1 DEF Pace
  <1>3. Quarter \in Nat /\ Quarter < Word
    BY <1>1 DEF Quarter
  <1>4. ASSUME NEW n \in 0..(MaxLost + 1) PROVE n * Pace \in Nat /\ n * Pace <= (MaxLost + 1) * Pace
    <2> DEFINE p == Pace
               l == MaxLost + 1
    <2>1. p \in Nat /\ l \in Nat /\ n \in Nat /\ n <= l
      BY <1>1, <1>2
    <2> HIDE DEF p, l
    <2>2. l * p = n * p + (l - n) * p /\ (l - n) * p \in Nat /\ n * p \in Nat
      BY <2>1
    <2> QED
      BY <2>1, <2>2 DEF p, l
  <1>5. (MaxLost + 1) * Pace < Word - Quarter /\ (MaxLost + 1) * Pace \in Nat
    BY <1>1, <1>2 DEF Paced
  <1>6. Pace < Word
    <2>1. 1 \in 0..(MaxLost + 1) /\ 1 * Pace = Pace
      BY <1>1, <1>2
    <2>2. Pace <= (MaxLost + 1) * Pace
      BY <1>4, <2>1
    <2> QED
      BY <1>1, <1>2, <1>3, <1>5, <2>2
  <1>7. \A n \in 0..(MaxLost + 1) : n * Pace < Word - Quarter
    BY <1>1, <1>3, <1>4, <1>5
  <1> QED
    BY <1>1, <1>2, <1>3, <1>4, <1>5, <1>6, <1>7

\* A connection from zero: its first run frame to arrive is from before a wrap.
LEMMA Zero ==
  ASSUME Paced, FromZero, initial \in Initials
  PROVE  /\ initial.roll = 0 /\ initial.ts \in Nat
         /\ \A n \in 0..(MaxLost + 1) : initial.ts + n * Pace < Word
  <1>1. initial.roll = 0 /\ initial.ts + (MaxLost + 1) * Pace < Word
    BY DEF FromZero
  <1>2. initial.ts \in Nat /\ Word \in Nat
    BY Paces
  <1> QED
    BY <1>1, <1>2, Paces

---------------------------------------------------------------------------
Points == [ts : Words, roll : Words]

\* Two reaches make one, unless they go round.
LEMMA ReachTrans ==
  ASSUME Paced, NEW a \in Points, NEW b \in Points, NEW c \in Points,
         NEW n \in Nat, NEW m \in Nat, n + m <= MaxLost + 1,
         Reach(a, b, n), Reach(b, c, m)
  PROVE  Reach(a, c, n + m)
  <1>1. PICK d \in 0..(n * Pace) : \/ b.ts = a.ts + d /\ b.roll = a.roll
                                   \/ b.ts = a.ts + d - Word /\ b.roll = (a.roll + 1) % Word
    BY DEF Reach
  <1>2. PICK e \in 0..(m * Pace) : \/ c.ts = b.ts + e /\ c.roll = b.roll
                                   \/ c.ts = b.ts + e - Word /\ c.roll = (b.roll + 1) % Word
    BY DEF Reach
  <1>3. /\ a.ts \in Nat /\ b.ts \in Nat /\ c.ts \in Nat /\ Word \in Nat
        /\ a.ts < Word /\ b.ts < Word /\ c.ts < Word
    BY Paces DEF Points, Words
  <1>4. /\ n * Pace \in Nat /\ m * Pace \in Nat /\ (n + m) * Pace = n * Pace + m * Pace
        /\ (n + m) * Pace < Word
    <2>1. n + m \in 0..(MaxLost + 1) /\ Pace \in Nat
      BY Paces, StreamAssumption
    <2>2. n * Pace \in Nat /\ m * Pace \in Nat /\ (n + m) * Pace = n * Pace + m * Pace
      <3> DEFINE p == Pace
      <3>1. p \in Nat
        BY <2>1
      <3> HIDE DEF p
      <3> QED
        BY <3>1 DEF p
    <2>3. (n + m) * Pace < Word - Quarter /\ Quarter \in Nat
      BY <2>1, Paces
    <2> QED
      BY <1>3, <2>2, <2>3
  <1>5. d + e \in 0..((n + m) * Pace)
    BY <1>4
  <1>6. d \in Nat /\ e \in Nat /\ d + e < Word
    BY <1>3, <1>4
  <1>7. \/ c.ts = a.ts + (d + e) /\ c.roll = a.roll
        \/ c.ts = a.ts + (d + e) - Word /\ c.roll = (a.roll + 1) % Word
    BY <1>1, <1>2, <1>3, <1>6
  <1> QED
    BY <1>5, <1>7 DEF Reach

\* What is early stays so for as many frames as may be lost.
LEMMA EarlyReach ==
  ASSUME Paced, FromZero, initial \in Initials, NEW b \in Points, NEW c \in Points,
         NEW n \in Nat, NEW m \in Nat, n + m <= MaxLost + 1,
         Early(b, n), Reach(b, c, m)
  PROVE  Early(c, n + m)
  <1>1. PICK e \in 0..(m * Pace) : \/ c.ts = b.ts + e /\ c.roll = b.roll
                                   \/ c.ts = b.ts + e - Word /\ c.roll = (b.roll + 1) % Word
    BY DEF Reach
  <1>2. /\ b.ts \in Nat /\ c.ts \in Nat /\ Word \in Nat /\ initial.ts \in Nat
        /\ b.ts < Word /\ c.ts < Word /\ b.ts <= initial.ts + n * Pace /\ b.roll = 0
    BY Paces DEF Points, Words, Early
  <1>3. /\ n * Pace \in Nat /\ m * Pace \in Nat /\ (n + m) * Pace = n * Pace + m * Pace
        /\ initial.ts + (n + m) * Pace < Word
    <2>1. n + m \in 0..(MaxLost + 1) /\ Pace \in Nat
      BY Paces, StreamAssumption
    <2>2. n * Pace \in Nat /\ m * Pace \in Nat /\ (n + m) * Pace = n * Pace + m * Pace
      <3> DEFINE p == Pace
      <3>1. p \in Nat
        BY <2>1
      <3> HIDE DEF p
      <3> QED
        BY <3>1 DEF p
    <2>3. initial.ts + (n + m) * Pace < Word
      BY <2>1, Zero
    <2> QED
      BY <2>2, <2>3
  <1>4. b.ts + e < Word
    BY <1>2, <1>3
  <1>5. c.ts = b.ts + e /\ c.roll = b.roll
    BY <1>1, <1>2, <1>4
  <1> QED
    BY <1>2, <1>3, <1>5 DEF Early

\* So a link can be drawn further.
LEMMA LinkTrans ==
  ASSUME Paced, FromZero, initial \in Initials, NEW k, NEW i, At(i) \in Points,
         NEW b \in Points, NEW c \in Points, NEW n \in Nat, NEW m \in Nat,
         n + m <= MaxLost + 1, Link(k, i, b, n), Reach(b, c, m)
  PROVE  Link(k, i, c, n + m)
  BY EarlyReach, ReachTrans DEF Link

\* A point is where it is.
LEMMA ReachItself ==
  ASSUME Paced, NEW a \in Points, NEW n \in 0..(MaxLost + 1) PROVE Reach(a, a, n)
  <1>1. 0 \in 0..(n * Pace)
    BY Paces
  <1>2. a.ts = a.ts + 0
    BY DEF Points, Words
  <1> QED
    BY <1>1, <1>2 DEF Reach

\* More frames allow more.
LEMMA EarlyLater ==
  ASSUME Paced, FromZero, initial \in Initials, NEW b \in Points, NEW n \in Nat, NEW m \in Nat,
         n + m <= MaxLost + 1, Early(b, n)
  PROVE  Early(b, n + m)
  <1>1. m \in 0..(MaxLost + 1)
    BY StreamAssumption
  <1> QED
    BY <1>1, EarlyReach, ReachItself

\* The places are words.
LEMMA Places ==
  ASSUME TypeOK, Paced
  PROVE  /\ \A i \in 0..Len(network) : At(i) \in Points /\ Between(i) \in 1..(MaxLost + 1)
         /\ Front \in Points /\ Idle \in Points /\ Len(network) \in Nat
         /\ Ahead \in {0, 1}
  <1>1. Word \in Nat \ {0} /\ 0 \in Words /\ MaxLost \in Nat
    BY Paces, StreamAssumption DEF Words
  <1>2. Len(network) \in Nat /\ \A i \in 1..Len(network) : network[i] \in Frames
    BY DEF TypeOK
  <1>3. ASSUME NEW i \in 0..Len(network)
        PROVE  At(i) \in Points /\ Between(i) \in 1..(MaxLost + 1)
    <2>1. CASE i = 0
      BY <1>1, <2>1 DEF TypeOK, At, Point, Points, Between
    <2>2. CASE i \in 1..Len(network)
      BY <1>1, <1>2, <2>2 DEF At, Point, Points, Between, Frames
    <2> QED
      BY <1>2, <2>1, <2>2
  <1>4. Front \in Points
    <2>1. /\ last_sent_ticks \in Nat /\ timestamp \in Words /\ rollover_count \in Words
          /\ initial.roll \in Nat
      BY StreamAssumption, Paces DEF TypeOK
    <2>2. last_sent_ticks \div Word \in Nat /\ last_sent_ticks % Word \in Words
      BY <1>1, <2>1, DivMod DEF Words
    <2>3. (initial.roll + last_sent_ticks \div Word) % Word \in Words
      <3>1. initial.roll + last_sent_ticks \div Word \in Nat
        BY <2>1, <2>2
      <3> QED
        BY <1>1, <3>1, DivMod DEF Words
    <2> QED
      BY <2>1, <2>2, <2>3 DEF Front, Point, Points
  <1> QED
    BY <1>1, <1>2, <1>3, <1>4 DEF Idle, Point, Points, Ahead

---------------------------------------------------------------------------
\* The types and the phases when the connection opens.
LEMMA TypeInit == Paced /\ Init => TypeOK /\ PhaseInv
  <1> SUFFICES ASSUME Paced, Init PROVE TypeOK /\ PhaseInv
    OBVIOUS
  <1>1. TypeOK
    <2>1. 0 \in Words /\ initial.ts \in Words /\ initial.roll \in Words
      BY Paces, StreamAssumption DEF Init, Words
    <2>2. timestamp \in Words /\ rollover_count \in Words
      BY <2>1 DEF Init
    <2>3. network \in Seq(Frames) /\ elapsed \in Nat /\ last_sent_ticks \in 0..MaxTicks
      BY StreamAssumption DEF Init
    <2>4. lost \in 0..MaxLost /\ last_ts \in Words /\ tracked \in Words
      BY <2>1, StreamAssumption DEF Init
    <2>5. heard \in Frames
      BY <2>1 DEF Init, Frames
    <2> QED
      BY <2>2, <2>3, <2>4, <2>5 DEF Init, TypeOK
  <1>2. PhaseInv
    BY StreamAssumption DEF Init, PhaseInv
  <1> QED
    BY <1>1, <1>2

\* The rest, of a connection from zero.
LEMMA ZeroInit == Paced /\ Init => ZeroInv
  <1> SUFFICES ASSUME Paced, Init, FromZero PROVE FreshInv /\ ElapsedInv /\ ChainInv
    BY DEF ZeroInv
  <1>3. initial \in Initials /\ initial.roll = 0 /\ rollover_count = 0 /\ initial.ts \in Nat
    BY Zero DEF Init
  <1>4. Len(network) = 0 /\ At(0) = Idle
    BY DEF Init, At, Idle
  <1>5. FreshInv /\ ElapsedInv
    BY <1>3, <1>4 DEF Init, FreshInv, ElapsedInv, AllIdle
  <1>6. Chain(0)
    <2>1. Early(Front, 1 - Ahead)
      <3>1. CASE direction = "server"
        <4>1. Front = Point(initial.ts, 0) /\ 1 - Ahead = 1
          BY <1>3, <3>1 DEF Front, Ahead, Init
        <4>2. initial.ts <= initial.ts + 1 * Pace
          BY <1>3, Paces
        <4> QED
          BY <4>1, <4>2 DEF Early, Point
      <3>2. CASE direction # "server"
        <4>1. 0 % Word = 0 /\ 0 \div Word = 0
          BY Paces, SmallMod
        <4>2. Front = Point(0, 0) /\ 1 - Ahead = 0
          BY <1>3, <3>2, <4>1 DEF Front, Ahead, Init
        <4>3. 0 <= initial.ts + 0 * Pace
          BY <1>3, Paces
        <4> QED
          BY <4>2, <4>3 DEF Early, Point
      <3> QED
        BY <3>1, <3>2
    <2>2. Between(0) = 1
      BY DEF Between, Init
    <2> QED
      BY <1>4, <2>1, <2>2 DEF Chain, Link, Beyond, Steps
  <1>7. ChainInv
    BY <1>4, <1>6 DEF ChainInv, Init
  <1> QED
    BY <1>5, <1>7

\* The remainders that the producers compute are words.
LEMMA Remainders ==
  ASSUME Paced, NEW x \in Nat
  PROVE  x % Word \in Words /\ x \div Word \in Nat
  BY DivMod, Paces DEF Words

\* Every step keeps the types.
LEMMA TypeStep == Paced /\ TypeOK /\ PhaseInv /\ [Next]_vars => TypeOK'
  <1> SUFFICES ASSUME Paced, TypeOK, PhaseInv, [Next]_vars PROVE TypeOK'
    OBVIOUS
  <1> USE DEF TypeOK, producerVars, consumerVars
  <1>0. /\ initial \in [ts : Words, roll : Words] /\ Words \subseteq Nat /\ 0 \in Words
        /\ SendTicks \in Nat /\ MaxLost \in Nat /\ MaxTicks \in Nat /\ MaxElapse \in Nat
        /\ MaxCorrection \in Nat
    BY StreamAssumption, Paces DEF Words
  <1>9. initial.ts \in Nat /\ initial.roll \in Nat
    BY <1>0
  <1>1. ASSUME OriginatorActivate PROVE TypeOK'
    BY <1>1 DEF OriginatorActivate
  <1>2. ASSUME OriginatorProduce PROVE TypeOK'
    <2>0. timestamp \in Nat /\ rollover_count \in Nat
      BY <1>0
    <2>1. timestamp' \in Words
      <3>1. Advanced \in Words
        BY <1>0, <2>0, Remainders DEF Advanced
      <3> QED
        BY <1>2, <3>1 DEF OriginatorProduce
    <2>3. rollover_count' \in Words
      <3>1. (rollover_count + 1) % Word \in Words
        BY <2>0, Remainders
      <3> QED
        BY <1>2, <3>1 DEF OriginatorProduce
    <2>2. network' \in Seq(Frames)
      BY <1>0, <1>2 DEF OriginatorProduce, Send, Frames
    <2> QED
      BY <1>2, <2>1, <2>2, <2>3 DEF OriginatorProduce
  <1>3. ASSUME TargetActivate \/ TargetRollover \/ TargetStart \/ TargetWake PROVE TypeOK'
    BY <1>0, <1>3 DEF TargetActivate, TargetRollover, TargetStart, TargetWake, TargetUnchanged
  <1>4. ASSUME TargetProduceIdle PROVE TypeOK'
    <2>1. network' \in Seq(Frames)
      BY <1>0, <1>4 DEF TargetProduceIdle, Send, Frames
    <2> QED
      BY <1>4, <2>1 DEF TargetProduceIdle
  <1>5. ASSUME NEW e \in 0..MaxElapse, NEW c \in 0..MaxCorrection, TargetProduce(e, c)
        PROVE  TypeOK'
    <2>1. elapsed' \in Nat
      BY <1>0, <1>5 DEF TargetProduce
    <2>2. PICK raw \in Nat : last_sent_ticks' = ForwardOnly(initial.ts + raw + c)
      BY <1>5, <2>1, StreamAssumption DEF TargetProduce
    <2>3. last_sent_ticks' \in Nat /\ last_sent_ticks' <= MaxTicks
      <3>0. c \in Nat /\ last_sent_ticks \in Nat
        BY <1>0
      <3>1. initial.ts + raw + c \in Nat /\ last_sent_ticks \in Nat
        BY <1>9, <3>0
      <3>2. last_sent_ticks' \in Nat
        BY <2>2, <3>1 DEF ForwardOnly
      <3> QED
        BY <1>5, <3>2 DEF TargetProduce
    <2>4. last_sent_ticks' \div Word \in Nat /\ last_sent_ticks' % Word \in Words
      BY <2>3, Remainders
    <2>5. rollover_count' \in Words
      <3>0. initial.roll \in Nat
        BY <1>0
      <3>1. initial.roll + (last_sent_ticks' \div Word) \in Nat
        BY <2>4, <3>0
      <3> QED
        BY <1>5, <3>1, Remainders DEF TargetProduce
    <2>6. network' \in Seq(Frames)
      <3>1. [ts |-> last_sent_ticks' % Word, roll |-> rollover_count', run |-> TRUE] \in Frames
        BY <2>4, <2>5 DEF Frames
      <3> QED
        BY <1>5, <3>1 DEF TargetProduce, Send
    <2> QED
      BY <1>0, <1>5, <2>1, <2>3, <2>5, <2>6 DEF TargetProduce
  <1>6. ASSUME Lose PROVE TypeOK'
    BY <1>0, <1>6 DEF Lose
  <1>7. ASSUME Receive PROVE TypeOK'
    <2>1. Head(network) \in Frames /\ Tail(network) \in Seq(Frames)
      BY <1>7 DEF Receive
    <2>2. (tracked + 1) % Word \in Words
      BY <1>0, Remainders
    <2>3. last_ts' \in Words /\ tracked' \in Words /\ crc_valid' \in BOOLEAN /\ heard' \in Frames
      BY <1>7, <2>1, <2>2 DEF Receive, Frames, Decodes
    <2> QED
      BY <1>0, <1>7, <2>1, <2>3 DEF Receive
  <1>8. CASE UNCHANGED vars
    BY <1>8 DEF vars
  <1> QED
    BY <1>1, <1>2, <1>3, <1>4, <1>5, <1>6, <1>7, <1>8 DEF Next

\* Every step keeps the phases.
LEMMA PhaseStep == TypeOK /\ PhaseInv /\ [Next]_vars => PhaseInv'
  <1> SUFFICES ASSUME TypeOK, PhaseInv, [Next]_vars PROVE PhaseInv'
    OBVIOUS
  <1> USE DEF PhaseInv, producerVars, consumerVars
  <1>1. direction \in {"server", "client"}
    BY StreamAssumption DEF TypeOK
  <1>2. CASE OriginatorActivate \/ OriginatorProduce
    BY <1>1, <1>2 DEF OriginatorActivate, OriginatorProduce
  <1>3. CASE TargetActivate \/ TargetRollover \/ TargetStart \/ TargetWake
    BY <1>1, <1>3 DEF TargetActivate, TargetRollover, TargetStart, TargetWake, TargetUnchanged
  <1>4. CASE TargetProduceIdle
    BY <1>1, <1>4 DEF TargetProduceIdle
  <1>5. ASSUME NEW e, NEW c, TargetProduce(e, c) PROVE PhaseInv'
    BY <1>1, <1>5 DEF TargetProduce
  <1>6. CASE Lose \/ Receive \/ UNCHANGED vars
    BY <1>1, <1>6 DEF Lose, Receive, vars
  <1> QED
    BY <1>2, <1>3, <1>4, <1>5, <1>6 DEF Next

---------------------------------------------------------------------------
\* The frames up to the next place.
LEMMA Forward ==
  ASSUME TypeOK, Paced
  PROVE  \A i \in 0..Len(network) : Beyond(i) \in Points /\ Steps(i) \in 0..(MaxLost + 1)
  BY Places, StreamAssumption DEF Beyond, Steps

\* Sending: the places that there were stay.
LEMMA Appended ==
  ASSUME TypeOK, NEW n \in Nat, n = Len(network), NEW f \in Frames,
         network' = Append(network, f), UNCHANGED <<last_ts, tracked, lost, direction>>
  PROVE  /\ Len(network') = n + 1
         /\ \A i \in 0..n : At(i)' = At(i)
         /\ At(n + 1)' = Point(f.ts, f.roll)
         /\ \A i \in 0..(n - 1) : Beyond(i)' = Beyond(i) /\ Steps(i)' = Steps(i)
         /\ Beyond(n)' = Point(f.ts, f.roll) /\ Steps(n)' = Between(n)
         /\ Beyond(n + 1)' = Front' /\ Steps(n + 1)' = 1 - Ahead
  <1>1. /\ network \in Seq(Frames) /\ Len(network') = n + 1
        /\ \A i \in 1..n : network'[i] = network[i]
        /\ network'[n + 1] = f
    BY DEF TypeOK
  <1>2. /\ \A i \in 0..n : At(i)' = At(i) /\ Between(i)' = Between(i)
        /\ At(n + 1)' = Point(f.ts, f.roll) /\ Between(n + 1)' = 1
        /\ Ahead' = Ahead
    BY <1>1 DEF At, Between, Ahead, Point
  <1>3. ASSUME NEW i \in 0..(n - 1)
        PROVE  Beyond(i)' = Beyond(i) /\ Steps(i)' = Steps(i)
    <2>1. i # n /\ i # n + 1 /\ i \in 0..n /\ i + 1 \in 0..n
      OBVIOUS
    <2>2. Beyond(i)' = At(i + 1)' /\ Beyond(i) = At(i + 1)
      BY <1>1, <2>1 DEF Beyond
    <2>3. Steps(i)' = Between(i)' /\ Steps(i) = Between(i)
      BY <1>1, <2>1 DEF Steps
    <2> QED
      BY <1>2, <2>1, <2>2, <2>3
  <1>4. Beyond(n)' = Point(f.ts, f.roll) /\ Steps(n)' = Between(n)
    <2>1. n # n + 1 /\ n \in 0..n
      OBVIOUS
    <2>2. Beyond(n)' = At(n + 1)' /\ Steps(n)' = Between(n)'
      BY <1>1, <2>1 DEF Beyond, Steps
    <2> QED
      BY <1>2, <2>1, <2>2
  <1>5. Beyond(n + 1)' = Front' /\ Steps(n + 1)' = 1 - Ahead
    BY <1>1, <1>2 DEF Beyond, Steps
  <1> QED
    BY <1>1, <1>2, <1>3, <1>4, <1>5

\* Dropping the first frame: the other places move up.
LEMMA Dropped ==
  ASSUME TypeOK, NEW n \in Nat, n = Len(network), network # <<>>, network' = Tail(network),
         UNCHANGED <<direction, initial, timestamp, rollover_count, last_sent_ticks>>
  PROVE  /\ n >= 1 /\ Len(network') = n - 1
         /\ At(1) = Point(Head(network).ts, Head(network).roll) /\ Head(network) \in Frames
         /\ \A i \in 1..(n - 1) :
              At(i)' = At(i + 1) /\ Beyond(i)' = Beyond(i + 1) /\ Steps(i)' = Steps(i + 1)
         /\ Beyond(0) = At(1) /\ Beyond(0)' = Beyond(1) /\ Steps(0) = lost + 1
         /\ Steps(1) = (IF n = 1 THEN 1 - Ahead ELSE 1)
         /\ Steps(0)' = (IF n = 1 THEN (lost' + 1) - Ahead ELSE lost' + 1)
  <1>1. /\ network \in Seq(Frames) /\ n >= 1 /\ Len(network') = n - 1
        /\ \A i \in 1..(n - 1) : network'[i] = network[i + 1]
        /\ Head(network) = network[1] /\ Head(network) \in Frames
    BY DEF TypeOK
  <1>2. ASSUME NEW i \in 1..(n - 1) PROVE At(i)' = At(i + 1)
    BY <1>1 DEF At, Point
  <1>3. Front' = Front /\ Ahead' = Ahead
    BY DEF Front, Ahead, Point
  <1>4. ASSUME NEW i \in 1..(n - 1)
        PROVE  Beyond(i)' = Beyond(i + 1) /\ Steps(i)' = Steps(i + 1)
    <2>1. Between(i)' = 1 /\ Between(i + 1) = 1
      BY DEF Between
    <2>2. CASE i = n - 1
      <3>1. i + 1 = n /\ i = Len(network')
        BY <1>1, <2>2
      <3> QED
        BY <1>3, <2>1, <3>1 DEF Beyond, Steps
    <2>3. CASE i # n - 1
      <3>1. i + 1 \in 1..(n - 1) /\ i + 1 # n /\ i # Len(network')
        BY <1>1, <2>3
      <3>2. Beyond(i)' = At(i + 1)' /\ Beyond(i + 1) = At((i + 1) + 1)
        BY <3>1 DEF Beyond
      <3>3. Steps(i)' = Between(i)' /\ Steps(i + 1) = Between(i + 1)
        BY <3>1 DEF Steps
      <3> QED
        BY <1>2, <2>1, <3>1, <3>2, <3>3
    <2> QED
      BY <2>2, <2>3
  <1>5. At(1) = Point(Head(network).ts, Head(network).roll) /\ Beyond(0) = At(1)
    BY <1>1 DEF At, Beyond, Point
  <1>6. Beyond(0)' = Beyond(1)
    <2>1. CASE n = 1
      BY <1>1, <1>3, <2>1 DEF Beyond
    <2>2. CASE n # 1
      <3>1. 1 \in 1..(n - 1) /\ Len(network') # 0 /\ Len(network) # 1
        BY <1>1, <2>2
      <3>2. Beyond(0)' = At(1)' /\ Beyond(1) = At(1 + 1)
        BY <3>1 DEF Beyond
      <3> QED
        BY <1>2, <3>1, <3>2
    <2> QED
      BY <2>1, <2>2
  <1>7. Steps(0) = lost + 1 /\ Steps(1) = (IF n = 1 THEN 1 - Ahead ELSE 1)
    BY <1>1 DEF Steps, Between
  <1>8. Steps(0)' = (IF n = 1 THEN (lost' + 1) - Ahead ELSE lost' + 1)
    <2>1. Len(network') = 0 <=> n = 1
      BY <1>1
    <2>2. Between(0)' = lost' + 1
      BY DEF Between
    <2>3. Steps(0)' = IF 0 = Len(network') THEN Between(0)' - Ahead' ELSE Between(0)'
      BY DEF Steps
    <2>4. CASE n = 1
      <3>1. Steps(0)' = Between(0)' - Ahead'
        BY <2>1, <2>3, <2>4
      <3>2. Steps(0)' = (lost' + 1) - Ahead
        BY <1>3, <2>2, <3>1, Zenon
      <3> QED
        BY <2>4, <3>2
    <2>5. CASE n # 1
      BY <2>1, <2>2, <2>3, <2>5
    <2> QED
      BY <2>4, <2>5
  <1> QED
    BY <1>1, <1>2, <1>4, <1>5, <1>6, <1>7, <1>8

\* A frame sent at the front, with the front moved on from it, goes on with the chain.
LEMMA ChainSent ==
  ASSUME TypeOK, NEW n \in Nat, n = Len(network), NEW f \in Frames,
         network' = Append(network, f),
         UNCHANGED <<last_ts, tracked, lost, direction, initial>>,
         NEW k \in -1..n, Chain(k),
         Link(k, n, Point(f.ts, f.roll), Between(n)),
         Reach(Point(f.ts, f.roll), Front', 1 - Ahead)
  PROVE  Chain(k)'
  <1> DEFINE p == Point(f.ts, f.roll)
  <1>1. /\ Len(network') = n + 1
        /\ \A i \in 0..n : At(i)' = At(i)
        /\ At(n + 1)' = p
        /\ \A i \in 0..(n - 1) : Beyond(i)' = Beyond(i) /\ Steps(i)' = Steps(i)
        /\ Beyond(n)' = p /\ Steps(n)' = Between(n)
        /\ Beyond(n + 1)' = Front' /\ Steps(n + 1)' = 1 - Ahead
    BY Appended
  <1>2. Link(k, n, p, Between(n)) /\ Reach(p, Front', 1 - Ahead)
    OBVIOUS
  <1> HIDE DEF p
  <1>3. ASSUME NEW i \in 0..(n + 1) PROVE (i <= k => At(i) = Idle)' /\ Link(k, i, Beyond(i), Steps(i))'
    <2>1. i \in 0..(n - 1) \/ i = n \/ i = n + 1
      OBVIOUS
    <2>2. CASE i \in 0..(n - 1)
      <3>1. i \in 0..Len(network) /\ i \in 0..n
        BY <2>2
      <3>2. (i <= k => At(i) = Idle) /\ Link(k, i, Beyond(i), Steps(i))
        BY <3>1 DEF Chain
      <3>3. At(i)' = At(i) /\ Beyond(i)' = Beyond(i) /\ Steps(i)' = Steps(i)
        BY <1>1, <2>2, <3>1
      <3>4. Link(k, i, Beyond(i), Steps(i))'
        BY <3>2, <3>3 DEF Link, Early, Reach
      <3> QED
        BY <3>2, <3>3, <3>4 DEF Idle, Point
    <2>3. CASE i = n
      <3>1. i <= k => At(i) = Idle
        BY <2>3 DEF Chain
      <3>2. At(i)' = At(i) /\ Beyond(i)' = p /\ Steps(i)' = Between(n)
        BY <1>1, <2>3
      <3>3. Link(k, i, Beyond(i), Steps(i))'
        BY <1>2, <2>3, <3>2 DEF Link, Early, Reach
      <3> QED
        BY <3>1, <3>2, <3>3 DEF Idle, Point
    <2>4. CASE i = n + 1
      <3>1. k \in Int /\ k <= n /\ i > k /\ ~(i <= k) /\ i # k
        BY <2>4
      <3>2. At(i)' = p /\ Beyond(i)' = Front' /\ Steps(i)' = 1 - Ahead
        BY <1>1, <2>4
      <3>3. Link(k, i, Beyond(i), Steps(i))'
        BY <1>2, <3>1, <3>2 DEF Link, Reach
      <3> QED
        BY <3>1, <3>3
    <2> QED
      BY <2>1, <2>2, <2>3, <2>4
  <1> QED
    BY <1>1, <1>3 DEF Chain

\* The consumer decodes the first frame with the right count.
LEMMA CountedRight ==
  ASSUME TypeOK, Paced, PhaseInv, Receive,
         NEW n \in Nat, n = Len(network), NEW k \in -1..n, Chain(k)
  PROVE  crc_valid' /\ At(0)' = At(1)
  <1> DEFINE f == Head(network)
             count == IF initialized /\ WrapSeen(f.ts) THEN (tracked + 1) % Word ELSE tracked
  <1>1. /\ n >= 1 /\ At(1) = Point(f.ts, f.roll) /\ f \in Frames
        /\ Beyond(0) = At(1) /\ Steps(0) = lost + 1
    BY Dropped DEF Receive, producerVars
  <1>2. At(0) = Point(last_ts, tracked)
    BY DEF At
  <1>3. /\ f.ts \in Nat /\ last_ts \in Nat /\ tracked \in Nat /\ Word \in Nat
        /\ f.ts < Word /\ last_ts < Word /\ Quarter \in Nat
    <2>1. Word \in Nat /\ Quarter \in Nat
      BY Paces
    <2>2. f.ts \in Words /\ last_ts \in Words /\ tracked \in Words
      BY <1>1 DEF TypeOK, Frames
    <2> QED
      BY <2>1, <2>2 DEF Words
  <1>4. (0 <= k => At(0) = Idle) /\ Link(k, 0, At(1), lost + 1)
    BY <1>1 DEF Chain
  <1>5. tracked' = count /\ last_ts' = f.ts /\ crc_valid' = Decodes(f, count)
    BY DEF Receive
  <1>6. count = f.roll
    <2>1. CASE k >= 1
      <3>1. At(1) = Idle
        BY <1>1, <2>1 DEF Chain
      <3>2. f.ts = 0 /\ f.roll = 0 /\ last_ts = 0 /\ tracked = 0
        BY <1>1, <1>2, <1>4, <2>1, <3>1 DEF Idle, Point
      <3> QED
        BY <1>3, <3>2 DEF WrapSeen
    <2>2. CASE k = 0
      <3>1. last_ts = 0 /\ tracked = 0
        BY <1>2, <1>4, <2>2 DEF Idle, Point
      <3>2. f.roll = 0
        BY <1>1, <1>4, <2>2 DEF Link, Early, Point
      <3>3. ~WrapSeen(f.ts)
        BY <1>3, <3>1 DEF WrapSeen
      <3> QED
        BY <3>1, <3>2, <3>3
    <2>3. CASE k = -1
      <3>1. Reach(At(0), At(1), lost + 1)
        BY <1>4, <2>3 DEF Link
      <3>2. PICK d \in 0..((lost + 1) * Pace) :
               \/ f.ts = last_ts + d /\ f.roll = tracked
               \/ f.ts = last_ts + d - Word /\ f.roll = (tracked + 1) % Word
        BY <1>1, <1>2, <3>1 DEF Reach, Point
      <3>3. (lost + 1) * Pace \in Nat /\ (lost + 1) * Pace < Word - Quarter
        <4>1. lost + 1 \in 0..(MaxLost + 1)
          BY StreamAssumption DEF TypeOK
        <4> QED
          BY <4>1, Paces
      <3>4. d \in Nat /\ d < Word - Quarter
        BY <1>3, <3>3
      <3>5. CASE f.ts = last_ts + d /\ f.roll = tracked
        <4>1. ~WrapSeen(f.ts)
          BY <1>3, <3>4, <3>5 DEF WrapSeen
        <4> QED
          BY <3>5, <4>1
      <3>6. CASE f.ts = last_ts + d - Word /\ f.roll = (tracked + 1) % Word
        <4>1. WrapSeen(f.ts)
          BY <1>3, <3>4, <3>6 DEF WrapSeen
        <4>2. initialized
          <5>1. last_ts # 0
            BY <1>3, <3>4, <3>6
          <5> QED
            BY <5>1 DEF PhaseInv
        <4> QED
          BY <3>6, <4>1, <4>2
      <3> QED
        BY <3>2, <3>5, <3>6
    <2>4. k >= 1 \/ k = 0 \/ k = -1
      OBVIOUS
    <2> QED
      BY <2>1, <2>2, <2>3, <2>4
  <1> HIDE DEF f, count
  <1>7. crc_valid'
    BY <1>5, <1>6 DEF Decodes
  <1>8. At(0)' = At(1)
    BY <1>1, <1>5, <1>6 DEF At, Point
  <1> QED
    BY <1>7, <1>8

\* A frame received: all places move up.
LEMMA ChainReceived ==
  ASSUME TypeOK, Paced, PhaseInv, Receive,
         NEW n \in Nat, n = Len(network), NEW k \in -1..n, Chain(k)
  PROVE  \E l \in -1..Len(network') : Chain(l)'
  <1>1. /\ n >= 1 /\ Len(network') = n - 1
        /\ \A i \in 1..(n - 1) :
             At(i)' = At(i + 1) /\ Beyond(i)' = Beyond(i + 1) /\ Steps(i)' = Steps(i + 1)
        /\ Beyond(0)' = Beyond(1)
        /\ Steps(1) = (IF n = 1 THEN 1 - Ahead ELSE 1)
        /\ Steps(0)' = (IF n = 1 THEN (lost' + 1) - Ahead ELSE lost' + 1)
    BY Dropped DEF Receive, producerVars
  <1>2. At(0)' = At(1)
    BY CountedRight
  <1>3. lost' = 0 /\ Ahead \in {0, 1}
    BY Places DEF Receive
  <1>4. ASSUME NEW i \in 0..(n - 1)
        PROVE  At(i)' = At(i + 1) /\ Beyond(i)' = Beyond(i + 1) /\ Steps(i)' = Steps(i + 1)
    <2>1. CASE i = 0
      BY <1>1, <1>2, <1>3, <2>1
    <2>2. CASE i # 0
      <3>1. i \in 1..(n - 1)
        BY <2>2
      <3> QED
        BY <1>1, <3>1
    <2> QED
      BY <2>1, <2>2
  <1>5. PICK l \in -1..(n - 1) : l = IF k >= 0 THEN k - 1 ELSE -1
    BY <1>1
  <1>6. ASSUME NEW i \in 0..(n - 1)
        PROVE  (i <= l => At(i) = Idle)' /\ Link(l, i, Beyond(i), Steps(i))'
    <2>1. (i <= l => i + 1 <= k) /\ (i = l => i + 1 = k) /\ (i > l => i + 1 > k)
      BY <1>5
    <2>2. i + 1 \in 0..Len(network)
      BY <1>1
    <2>3. (i + 1 <= k => At(i + 1) = Idle) /\ Link(k, i + 1, Beyond(i + 1), Steps(i + 1))
      BY <2>2 DEF Chain
    <2>4. Link(l, i, Beyond(i), Steps(i))'
      BY <1>4, <2>1, <2>3 DEF Link, Early, Reach, Receive
    <2> QED
      BY <1>4, <2>1, <2>3, <2>4 DEF Idle, Point
  <1>7. Chain(l)'
    BY <1>1, <1>6 DEF Chain
  <1> QED
    BY <1>1, <1>7

\* A frame lost: the place before it is linked to the one after it.
LEMMA ChainLost ==
  ASSUME TypeOK, Paced, FromZero, Lose,
         NEW n \in Nat, n = Len(network), NEW k \in -1..n, Chain(k)
  PROVE  \E l \in -1..Len(network') : Chain(l)'
  <1>0. /\ network' = Tail(network) /\ lost' = lost + 1 /\ lost \in Nat /\ lost < MaxLost
        /\ MaxLost \in Nat /\ initial' = initial /\ initial \in Initials
    BY StreamAssumption DEF Lose, TypeOK
  <1>1. /\ n >= 1 /\ Len(network') = n - 1
        /\ \A i \in 1..(n - 1) :
             At(i)' = At(i + 1) /\ Beyond(i)' = Beyond(i + 1) /\ Steps(i)' = Steps(i + 1)
        /\ Beyond(0) = At(1) /\ Beyond(0)' = Beyond(1) /\ Steps(0) = lost + 1
        /\ Steps(1) = (IF n = 1 THEN 1 - Ahead ELSE 1)
        /\ Steps(0)' = (IF n = 1 THEN (lost' + 1) - Ahead ELSE lost' + 1)
    BY Dropped DEF Lose, producerVars
  <1>2. At(0)' = At(0)
    BY DEF Lose, At, Point, consumerVars
  <1>3. /\ At(0) \in Points /\ At(1) \in Points /\ Beyond(1) \in Points
        /\ Ahead \in {0, 1} /\ Steps(1) \in Nat
    BY <1>1, Places, Forward
  <1>4. Steps(0)' = (lost + 1) + Steps(1) /\ (lost + 1) + Steps(1) <= MaxLost + 1
    BY <1>0, <1>1, <1>3
  <1>5. /\ 0 <= k => At(0) = Idle
        /\ 1 <= k => At(1) = Idle
        /\ Link(k, 0, At(1), lost + 1) /\ Link(k, 1, Beyond(1), Steps(1))
    BY <1>1 DEF Chain
  <1>6. PICK l \in -1..(n - 1) : l = IF k >= 1 THEN k - 1 ELSE k
    BY <1>1
  <1>7. (0 <= l => At(0) = Idle) /\ Link(l, 0, Beyond(1), (lost + 1) + Steps(1))
    <2>1. CASE k > 1
      BY <1>5, <1>6, <2>1 DEF Link
    <2>2. CASE k = 1
      <3>1. Early(Beyond(1), Steps(1)) /\ l = 0
        BY <1>5, <1>6, <2>2 DEF Link
      <3>2. Early(Beyond(1), Steps(1) + (lost + 1))
        BY <1>0, <1>3, <1>4, <3>1, EarlyLater
      <3>3. Steps(1) + (lost + 1) = (lost + 1) + Steps(1)
        BY <1>0, <1>3
      <3> QED
        BY <1>5, <2>2, <3>1, <3>2, <3>3 DEF Link
    <2>3. CASE k < 1
      <3>1. Reach(At(1), Beyond(1), Steps(1)) /\ l = k
        BY <1>5, <1>6, <2>3 DEF Link
      <3>2. lost + 1 \in Nat /\ (lost + 1) + Steps(1) <= MaxLost + 1 /\ Steps(1) \in Nat
        BY <1>0, <1>3, <1>4
      <3>3. At(0) \in Points /\ At(1) \in Points /\ Beyond(1) \in Points
        BY <1>3
      <3>4. Link(k, 0, At(1), lost + 1) /\ Reach(At(1), Beyond(1), Steps(1))
        BY <1>5, <3>1
      <3>5. initial \in Initials
        BY <1>0
      <3>6. Link(k, 0, Beyond(1), (lost + 1) + Steps(1))
        BY <3>2, <3>3, <3>4, <3>5, LinkTrans
      <3> QED
        BY <1>5, <3>1, <3>6
    <2> QED
      BY <2>1, <2>2, <2>3
  <1>8. ASSUME NEW i \in 0..(n - 1)
        PROVE  (i <= l => At(i) = Idle)' /\ Link(l, i, Beyond(i), Steps(i))'
    <2>1. CASE i = 0
      BY <1>0, <1>1, <1>2, <1>4, <1>7, <2>1 DEF Link, Early, Reach, Idle, Point
    <2>2. CASE i # 0
      <3>1. (i <= l => i + 1 <= k) /\ (i = l => i + 1 = k) /\ (i > l => i + 1 > k)
        BY <1>6, <2>2
      <3>2. i + 1 \in 0..Len(network) /\ i \in 1..(n - 1)
        BY <2>2
      <3>3. (i + 1 <= k => At(i + 1) = Idle) /\ Link(k, i + 1, Beyond(i + 1), Steps(i + 1))
        BY <3>2 DEF Chain
      <3>4. At(i)' = At(i + 1) /\ Beyond(i)' = Beyond(i + 1) /\ Steps(i)' = Steps(i + 1)
        BY <1>1, <3>2
      <3>5. Link(l, i, Beyond(i), Steps(i))'
        BY <1>0, <3>1, <3>3, <3>4 DEF Link, Early, Reach
      <3> QED
        BY <3>1, <3>3, <3>4, <3>5 DEF Idle, Point
    <2> QED
      BY <2>1, <2>2
  <1>9. Chain(l)'
    BY <1>1, <1>8 DEF Chain
  <1> QED
    BY <1>1, <1>9

---------------------------------------------------------------------------
\* As long as all the frames are idle, the next one may be the first that is not.
LEMMA IdleChain ==
  ASSUME NEW n \in Nat, n = Len(network), AllIdle, Early(Front, Steps(n))
  PROVE  Chain(n)
  <1> SUFFICES ASSUME NEW i \in 0..n PROVE At(i) = Idle /\ Link(n, i, Beyond(i), Steps(i))
    BY DEF Chain
  <1>1. At(i) = Idle
    BY DEF AllIdle
  <1>2. ~(i > n)
    OBVIOUS
  <1>3. i = n => Beyond(i) = Front
    BY DEF Beyond
  <1> QED
    BY <1>1, <1>2, <1>3 DEF Link

\* The same after a step.
LEMMA IdleChainNext ==
  ASSUME NEW n \in Nat, n = Len(network'), AllIdle', Early(Front, Steps(n))'
  PROVE  Chain(n)'
  <1> SUFFICES ASSUME NEW i \in 0..n PROVE (At(i) = Idle)' /\ Link(n, i, Beyond(i), Steps(i))'
    BY DEF Chain
  <1>1. (At(i) = Idle)'
    BY DEF AllIdle
  <1>2. ~(i > n)
    OBVIOUS
  <1>3. i = n => Beyond(i)' = Front'
    BY DEF Beyond
  <1> QED
    BY <1>1, <1>2, <1>3 DEF Link, Early

\* Another idle frame.
LEMMA IdleSent ==
  ASSUME TypeOK, AllIdle, NEW f \in Frames, f.ts = 0, f.roll = 0,
         network' = Append(network, f), UNCHANGED <<last_ts, tracked, lost, direction>>
  PROVE  AllIdle'
  <1> DEFINE n == Len(network)
  <1>0. PICK m \in Nat : m = n
    BY DEF TypeOK
  <1> HIDE DEF n
  <1>1. Len(network') = m + 1 /\ (\A i \in 0..m : At(i)' = At(i)) /\ At(m + 1)' = Idle
    BY <1>0, Appended DEF n, Idle
  <1>2. \A i \in 0..m : At(i) = Idle
    BY <1>0 DEF AllIdle, n
  <1>3. \A i \in 0..(m + 1) : i \in 0..m \/ i = m + 1
    OBVIOUS
  <1> QED
    BY <1>1, <1>2, <1>3 DEF AllIdle, Idle, Point

\* One idle frame less.
LEMMA IdleDropped ==
  ASSUME TypeOK, Paced, PhaseInv, AllIdle, Lose \/ Receive
  PROVE  AllIdle'
  <1>0. PICK n \in Nat : n = Len(network)
    BY DEF TypeOK
  <1>1. /\ n >= 1 /\ Len(network') = n - 1 /\ \A i \in 1..(n - 1) : At(i)' = At(i + 1)
    BY <1>0, Dropped DEF Lose, Receive, producerVars
  <1>2. \A i \in 0..n : At(i) = Idle
    BY <1>0 DEF AllIdle
  <1>3. At(0)' = Idle
    <2>1. CASE Lose
      <3>1. At(0) = Idle
        BY <1>1, <1>2
      <3>2. last_ts' = last_ts /\ tracked' = tracked
        BY <2>1 DEF Lose, consumerVars
      <3> QED
        BY <3>1, <3>2 DEF At, Point
    <2>2. CASE Receive
      <3>1. At(1) = Point(Head(network).ts, Head(network).roll)
        BY <1>0, <2>2, Dropped DEF Receive, producerVars
      <3>2. At(1) = Idle /\ At(0) = Idle
        BY <1>1, <1>2
      <3>3. Head(network).ts = 0 /\ Head(network).roll = 0 /\ last_ts = 0 /\ tracked = 0
        BY <3>1, <3>2 DEF Idle, Point, At
      <3>4. ~WrapSeen(0)
        BY <3>3, Paces DEF WrapSeen
      <3>5. tracked' = 0 /\ last_ts' = 0
        BY <2>2, <3>3, <3>4 DEF Receive
      <3> QED
        BY <3>5 DEF At, Idle
    <2> QED
      BY <2>1, <2>2
  <1>4. ASSUME NEW i \in 0..(n - 1) PROVE At(i)' = Idle
    <2>1. i = 0 \/ (i \in 1..(n - 1) /\ i + 1 \in 0..n)
      OBVIOUS
    <2> QED
      BY <1>1, <1>2, <1>3, <2>1
  <1> QED
    BY <1>1, <1>4 DEF AllIdle, Idle, Point

\* A step that moves no frame and not the front keeps the chain.
LEMMA NothingSent ==
  ASSUME UNCHANGED <<direction, initial, network, lost, consumerVars>>, Front' = Front
  PROVE  ChainInv => ChainInv'
  <1>1. /\ \A i : At(i)' = At(i) /\ Between(i)' = Between(i)
        /\ Ahead' = Ahead /\ Len(network') = Len(network) /\ Idle' = Idle
    BY DEF At, Between, Ahead, consumerVars, Idle, Point
  <1>2. \A i : Beyond(i)' = Beyond(i) /\ Steps(i)' = Steps(i)
    BY <1>1 DEF Beyond, Steps
  <1>3. ASSUME NEW k, Chain(k) PROVE Chain(k)'
    BY <1>1, <1>2, <1>3 DEF Chain, Link, Early, Reach
  <1> QED
    BY <1>1, <1>3 DEF ChainInv, consumerVars

\* The same for the idle frames.
LEMMA NothingIdle ==
  ASSUME UNCHANGED <<network, consumerVars>>
  PROVE  AllIdle => AllIdle'
  BY DEF AllIdle, At, Idle, Point, consumerVars

---------------------------------------------------------------------------
\* What the steps start from: the counts are reliable.
Good == Paced /\ FromZero /\ TypeOK /\ PhaseInv /\ FreshInv /\ ElapsedInv /\ ChainInv

\* The parameters of the connection.
LEMMA Parameters ==
  ASSUME Good
  PROVE  /\ direction \in {"server", "client"} /\ initial \in Initials
         /\ initial.roll = 0 /\ initial.ts \in Nat /\ Word \in Nat \ {0} /\ Pace \in Nat
         /\ 1 * Pace = Pace /\ 0 * Pace = 0 /\ 1 \in 0..(MaxLost + 1)
         /\ initial.ts + Pace < Word
  <1>1. direction \in {"server", "client"} /\ initial \in Initials /\ MaxLost \in Nat
    BY StreamAssumption DEF Good, TypeOK
  <1>2. initial.roll = 0 /\ initial.ts \in Nat /\ Word \in Nat \ {0} /\ Pace \in Nat
    BY <1>1, Paces, Zero DEF Good
  <1>3. 1 \in 0..(MaxLost + 1) /\ 1 * Pace = Pace /\ 0 * Pace = 0
    BY <1>1, <1>2
  <1>4. initial.ts + 1 * Pace < Word
    BY <1>1, <1>3, Zero DEF Good
  <1> QED
    BY <1>1, <1>2, <1>3, <1>4

\* The flag and run_idle_: no frame is sent.
LEMMA StepActivate ==
  ASSUME Good, OriginatorActivate PROVE FreshInv' /\ ElapsedInv' /\ ChainInv'
  <1>1. direction = "server" /\ direction' = "server" /\ consumer_active'
    BY DEF Good, OriginatorActivate, PhaseInv, TypeOK
  <1>2. Front' = Front
    BY DEF OriginatorActivate, Front, Point
  <1>3. ChainInv'
    BY <1>2, NothingSent DEF Good, OriginatorActivate
  <1> QED
    BY <1>1, <1>3 DEF FreshInv, Fresh, ElapsedInv

\* The originator moves on by SendTicks.
LEMMA OriginatorMoves ==
  ASSUME TypeOK, Paced, OriginatorProduce, consumer_active
  PROVE  /\ Front = Point(timestamp, rollover_count)
         /\ Front' = Point(timestamp', rollover_count')
         /\ Reach(Front, Front', 1)
  <1>1. /\ timestamp \in Words /\ SendTicks \in Nat /\ SendTicks < Word
        /\ Word \in Nat \ {0} /\ SendTicks \in 0..(1 * Pace)
    BY Paces DEF TypeOK
  <1>2. Front = Point(timestamp, rollover_count) /\ Front' = Point(timestamp', rollover_count')
    BY DEF Front, OriginatorProduce
  <1>3. timestamp \in Nat /\ timestamp < Word /\ timestamp % Word = timestamp
    BY <1>1, SmallMod DEF Words
  <1>4. Advanced = timestamp + SendTicks \/ Advanced = timestamp + SendTicks - Word
    <2>1. SendTicks \in 0..(Word - 1)
      BY <1>1
    <2> QED
      BY <1>1, <1>3, <2>1, PlusMod DEF Advanced
  <1>5. CASE Advanced = timestamp + SendTicks
    <2>1. ~(Advanced < timestamp)
      BY <1>1, <1>3, <1>5
    <2> QED
      BY <1>1, <1>2, <1>5, <2>1 DEF OriginatorProduce, Reach, Point
  <1>6. CASE Advanced = timestamp + SendTicks - Word
    <2>1. Advanced < timestamp
      BY <1>1, <1>3, <1>6
    <2> QED
      BY <1>1, <1>2, <1>6, <2>1 DEF OriginatorProduce, Reach, Point
  <1> QED
    BY <1>2, <1>4, <1>5, <1>6

\* The originator sends what its counters say.
LEMMA StepOriginator ==
  ASSUME Good, OriginatorProduce PROVE FreshInv' /\ ElapsedInv' /\ ChainInv'
  <1> USE DEF Good
  <1>0. PICK n \in Nat : n = Len(network)
    BY DEF TypeOK
  <1>1. /\ direction = "server" /\ direction' = direction /\ initial' = initial
        /\ UNCHANGED <<last_ts, tracked, lost, crc_valid>>
    BY DEF OriginatorProduce, consumerVars
  <1>2. /\ timestamp \in Words /\ rollover_count \in Words /\ SendTicks \in Nat
        /\ SendTicks <= Pace /\ SendTicks < Word /\ Word \in Nat \ {0} /\ Pace \in Nat
    BY Paces DEF TypeOK
  <1>3. Front = Point(timestamp, rollover_count) /\ Front' = Point(timestamp', rollover_count')
    BY <1>1 DEF Front
  <1>4. ElapsedInv'
    BY <1>1 DEF ElapsedInv
  <1>5. Ahead = 0 /\ Ahead' = 0
    BY <1>1 DEF Ahead
  <1>6. CASE ~consumer_active
    <2> DEFINE f == [ts |-> 0, roll |-> 0, run |-> tcoo = "done"]
    <2>1. AllIdle /\ rollover_count = 0 /\ timestamp = initial.ts
      BY <1>1, <1>6 DEF FreshInv, Fresh
    <2>2. network' = Append(network, f) /\ UNCHANGED <<timestamp, rollover_count, consumer_active>>
      BY <1>6, <2>1 DEF OriginatorProduce, Send
    <2>3. f \in Frames /\ f.ts = 0 /\ f.roll = 0
      BY <1>2, <2>1 DEF Frames, Words
    <2> HIDE DEF f
    <2>4. AllIdle'
      BY <1>1, <2>1, <2>2, <2>3, IdleSent
    <2>5. Len(network') = n + 1 /\ Steps(n + 1)' = 1 - Ahead
      BY <1>0, <1>1, <2>2, <2>3, Appended
    <2>6. Early(Front, 1)'
      <3>1. initial.ts <= initial.ts + 1 * Pace
        BY Parameters
      <3> QED
        BY <1>1, <1>3, <2>1, <2>2, <3>1 DEF Early, Point
    <2>7. Early(Front, Steps(n + 1))'
      BY <1>5, <2>5, <2>6
    <2>8. Chain(n + 1)'
      <3>1. n + 1 \in Nat
        OBVIOUS
      <3> QED
        BY <2>4, <2>5, <2>7, <3>1, IdleChainNext
    <2>9. ChainInv'
      BY <1>1, <2>5, <2>8 DEF ChainInv
    <2> QED
      BY <1>1, <1>4, <2>1, <2>2, <2>4, <2>9 DEF FreshInv
  <1>7. CASE consumer_active
    <2> DEFINE f == [ts |-> timestamp, roll |-> rollover_count, run |-> tcoo = "done"]
    <2>1. network' = Append(network, f)
      BY <1>7 DEF OriginatorProduce, Send
    <2>2. f \in Frames /\ f.ts = timestamp /\ f.roll = rollover_count
      BY <1>2 DEF Frames
    <2>3. Point(f.ts, f.roll) = Front
      BY <1>3, <2>2
    <2>4. consumer_active'
      BY <1>7 DEF OriginatorProduce
    <2> HIDE DEF f
    <2>5. Reach(Front, Front', 1)
      BY <1>7, OriginatorMoves
    <2>6. PICK k \in -1..n : Chain(k)
      BY <1>0 DEF ChainInv
    <2>7. Link(k, n, Front, Between(n))
      <3>1. Between(n) \in Nat
        BY <1>0, Places, StreamAssumption
      <3>2. Link(k, n, Front, Between(n) - 0)
        BY <1>0, <1>5, <2>6 DEF Chain, Beyond, Steps
      <3> QED
        BY <3>1, <3>2
    <2>8. Reach(Front, Front', 1 - Ahead)
      BY <1>5, <2>5
    <2>9. Chain(k)'
      BY <1>0, <1>1, <2>1, <2>2, <2>3, <2>7, <2>8, <2>6, ChainSent
    <2>10. Len(network') = n + 1
      BY <1>0, <2>1 DEF TypeOK
    <2>11. ChainInv'
      <3>1. k \in -1..(n + 1)
        OBVIOUS
      <3> QED
        BY <1>1, <2>9, <2>10, <3>1 DEF ChainInv
    <2> QED
      BY <1>1, <1>4, <2>4, <2>11 DEF FreshInv, Fresh
  <1> QED
    BY <1>6, <1>7

\* The first coordination message, and the production thread waking up.
LEMMA StepTarget ==
  ASSUME Good, TargetActivate \/ TargetRollover \/ TargetStart \/ TargetWake
  PROVE  FreshInv' /\ ElapsedInv' /\ ChainInv'
  <1> USE DEF Good
  <1>0. direction = "client"
    BY Parameters DEF TargetActivate, TargetRollover, TargetStart, TargetWake, PhaseInv
  <1>1. UNCHANGED <<direction, initial, timestamp, network, lost, consumerVars,
                    last_sent_ticks, elapsed>>
    BY DEF TargetActivate, TargetRollover, TargetStart, TargetWake, TargetUnchanged
  <1>2. Front' = Front
    BY <1>0, <1>1 DEF Front, Point
  <1>3. ChainInv'
    BY <1>1, <1>2, NothingSent
  <1>4. AllIdle => AllIdle'
    BY <1>1, NothingIdle
  <1>5. ElapsedInv'
    BY <1>1, <1>4 DEF ElapsedInv
  <1>6. FreshInv'
    <2>1. Fresh' => Fresh
      BY <1>0, <1>1 DEF Fresh, PhaseInv, TargetActivate, TargetRollover, TargetStart, TargetWake
    <2>2. rollover_count' = rollover_count \/ rollover_count' = 0
      BY Parameters DEF TargetActivate, TargetRollover, TargetStart, TargetWake
    <2> QED
      BY <1>0, <1>1, <1>4, <2>1, <2>2 DEF FreshInv
  <1> QED
    BY <1>3, <1>5, <1>6

\* The target sends an idle frame: it has sent no other.
LEMMA StepTargetIdle ==
  ASSUME Good, TargetProduceIdle PROVE FreshInv' /\ ElapsedInv' /\ ChainInv'
  <1> USE DEF Good
  <1> DEFINE f == [ts |-> 0, roll |-> rollover_count, run |-> FALSE]
  <1>0. PICK n \in Nat : n = Len(network)
    BY DEF TypeOK
  <1>1. /\ direction = "client"
        /\ UNCHANGED <<direction, initial, last_ts, tracked, lost, crc_valid>>
    BY Parameters DEF TargetProduceIdle, PhaseInv, consumerVars
  <1>2. AllIdle /\ rollover_count = 0 /\ last_sent_ticks = 0 /\ elapsed = 0
    BY <1>1 DEF FreshInv, Fresh, TargetProduceIdle
  <1>3. network' = Append(network, f) /\ f \in Frames /\ f.ts = 0 /\ f.roll = 0
    BY <1>2, Parameters DEF TargetProduceIdle, Send, Frames, Words
  <1>4. UNCHANGED <<rollover_count, last_sent_ticks, elapsed>>
    BY DEF TargetProduceIdle
  <1> HIDE DEF f
  <1>5. AllIdle'
    BY <1>1, <1>2, <1>3, IdleSent
  <1>6. Len(network') = n + 1 /\ Steps(n + 1)' = 0
    BY <1>0, <1>1, <1>3, Appended DEF Ahead
  <1>7. Early(Front, Steps(n + 1))'
    <2>1. 0 % Word = 0 /\ 0 \div Word = 0
      BY SmallMod, Parameters
    <2>2. Front' = Point(0, 0)
      <3>1. last_sent_ticks' = 0 /\ initial'.roll = 0 /\ direction' = "client"
        BY <1>1, <1>2, <1>4, Parameters
      <3>2. Front' = Point(0, 0 % Word)
        BY <2>1, <3>1 DEF Front
      <3> QED
        BY <2>1, <3>2
    <2>3. 0 <= initial.ts + 0 * Pace
      BY Parameters
    <2> QED
      BY <1>1, <1>6, <2>2, <2>3 DEF Early, Point
  <1>8. Chain(n + 1)'
    <2>1. n + 1 \in Nat
      OBVIOUS
    <2> QED
      BY <1>5, <1>6, <1>7, <2>1, IdleChainNext
  <1>9. ChainInv'
    BY <1>1, <1>6, <1>8 DEF ChainInv
  <1> QED
    BY <1>1, <1>2, <1>4, <1>5, <1>9 DEF FreshInv, ElapsedInv

\* The target's clock in its two words, from an initial roll-over count of c.
LEMMA Ticks ==
  ASSUME Paced, NEW c \in Nat, NEW l \in Nat, NEW t \in Nat, l <= t, t <= l + Pace
  PROVE  Reach(Point(l % Word, (c + l \div Word) % Word),
               Point(t % Word, (c + t \div Word) % Word), 1)
  <1> DEFINE d == t - l
             q == l \div Word
             r == l % Word
  <1>1. Word \in Nat \ {0} /\ Word > 1 /\ Pace \in Nat /\ Pace < Word /\ 1 * Pace = Pace
    BY Paces
  <1>2. d \in 0..(Word - 1) /\ d \in 0..(1 * Pace) /\ t = l + d
    BY <1>1
  <1>3. q \in Nat /\ r \in 0..(Word - 1)
    BY <1>1, DivMod
  <1> HIDE DEF d
  <1>4. \/ t % Word = r + d /\ t \div Word = q
        \/ t % Word = r + d - Word /\ t \div Word = q + 1
    BY <1>1, <1>2, PlusMod
  <1> HIDE DEF q, r
  <1>5. c + q \in Nat /\ c + (q + 1) = (c + q) + 1
    BY <1>3
  <1>6. (c + (q + 1)) % Word = (((c + q) % Word) + 1) % Word
    BY <1>1, <1>5, SuccMod
  <1>7. Reach(Point(r, (c + q) % Word), Point(t % Word, (c + t \div Word) % Word), 1)
    BY <1>2, <1>4, <1>6 DEF Reach, Point
  <1> QED
    BY <1>7 DEF q, r

\* The target sends the time that has elapsed, never going back.
LEMMA StepTargetProduce ==
  ASSUME Good, NEW e \in 0..MaxElapse, NEW c \in 0..MaxCorrection, TargetProduce(e, c),
         ~missed_start'
  PROVE  FreshInv' /\ ElapsedInv' /\ ChainInv'
  <1> USE DEF Good
  <1>0. PICK n \in Nat : n = Len(network)
    BY DEF TypeOK
  <1>1. /\ start /\ start' /\ producer' = "sleep"
        /\ UNCHANGED <<direction, initial, last_ts, tracked, lost, crc_valid>>
    BY DEF TargetProduce, consumerVars
  <1>2. direction = "client"
    BY <1>1 DEF PhaseInv
  <1>3. FreshInv'
    BY <1>1, <1>2 DEF FreshInv, Fresh
  <1>4. e \in Nat /\ c \in Nat /\ e + c <= Pace /\ elapsed \in Nat /\ last_sent_ticks \in Nat
    <2>1. MaxElapse \in Nat /\ MaxCorrection \in Nat
      BY StreamAssumption
    <2>2. e \in Nat /\ c \in Nat /\ e + c <= Pace
      BY <2>1, Paces
    <2>3. elapsed \in Nat /\ last_sent_ticks \in Nat
      BY StreamAssumption DEF TypeOK
    <2> QED
      BY <2>2, <2>3
  <1>5. elapsed' = elapsed + e /\ last_sent_ticks' = ForwardOnly(initial.ts + elapsed + e + c)
    <2>1. elapsed' = elapsed + e /\ last_sent_ticks' = ForwardOnly(initial.ts + elapsed' + c)
      BY <1>1 DEF TargetProduce
    <2>2. initial.ts + elapsed' + c = initial.ts + elapsed + e + c
      BY <1>4, <2>1, Parameters
    <2> QED
      BY <2>1, <2>2
  <1>6. PICK t \in Nat : t = last_sent_ticks'
    <2>1. initial.ts + elapsed + e + c \in Nat
      BY <1>4, Parameters
    <2> QED
      BY <1>4, <1>5, <2>1 DEF ForwardOnly
  <1>7. initial.ts + elapsed' <= t
    BY <1>4, <1>5, <1>6, Parameters DEF ForwardOnly
  <1>8. ElapsedInv'
    BY <1>1, <1>6, <1>7 DEF ElapsedInv
  <1> DEFINE f == [ts |-> t % Word, roll |-> (initial.roll + t \div Word) % Word, run |-> TRUE]
  <1>9. network' = Append(network, f)
    BY <1>6 DEF TargetProduce, Send
  <1>10. f \in Frames
    <2>1. initial.roll + t \div Word \in Nat /\ t % Word \in Words
      BY Remainders, Parameters
    <2> QED
      BY <2>1, Remainders DEF Frames
  <1>11. Point(f.ts, f.roll) = Front'
    BY <1>1, <1>2, <1>6 DEF Front, Point
  <1>12. Front = Point(last_sent_ticks % Word, (initial.roll + last_sent_ticks \div Word) % Word)
    BY <1>2 DEF Front
  <1>13. Ahead = 1
    BY <1>2 DEF Ahead
  <1>14. Front' \in Points
    BY <1>10, <1>11 DEF Frames, Point, Points
  <1>15. f.ts = t % Word /\ f.roll = (initial.roll + t \div Word) % Word
    OBVIOUS
  <1> HIDE DEF f
  <1>16. Between(n) \in Nat /\ Between(n) \in 1..(MaxLost + 1) /\ Front \in Points /\ At(n) \in Points
    BY <1>0, Places, StreamAssumption
  <1>17. \E k \in -1..n : Chain(k) /\ Link(k, n, Front', Between(n))
    <2>1. CASE initial.ts + elapsed <= last_sent_ticks
      <3>1. last_sent_ticks <= t /\ t <= last_sent_ticks + Pace
        <4>1. Pace >= 1
          BY Paces
        <4> QED
          BY <1>4, <1>5, <1>6, <2>1, <4>1, Parameters DEF ForwardOnly
      <3>2. Reach(Front, Front', 1)
        BY <1>4, <1>11, <1>12, <1>15, <3>1, Ticks, Parameters
      <3>3. PICK k \in -1..n : Chain(k)
        BY <1>0 DEF ChainInv
      <3>4. Link(k, n, Front, Between(n) - 1)
        BY <1>0, <1>13, <3>3 DEF Chain, Beyond, Steps
      <3>5. /\ Between(n) - 1 \in Nat /\ 1 \in Nat /\ (Between(n) - 1) + 1 = Between(n)
            /\ (Between(n) - 1) + 1 <= MaxLost + 1
        BY <1>16
      <3>6. Link(k, n, Front', (Between(n) - 1) + 1)
        BY <1>14, <1>16, <3>2, <3>4, <3>5, LinkTrans, Parameters
      <3> QED
        BY <3>3, <3>5, <3>6
    <2>2. CASE last_sent_ticks = 0 /\ elapsed = 0 /\ AllIdle
      <3>1. t <= initial.ts + Pace /\ t < Word
        BY <1>4, <1>5, <1>6, <2>2, Parameters DEF ForwardOnly
      <3>2. /\ t % Word = t /\ (initial.roll + t \div Word) % Word = 0
            /\ 0 % Word = 0 /\ (initial.roll + 0 \div Word) % Word = 0
        <4>1. t \in 0..(Word - 1) /\ 0 \in 0..(Word - 1)
          BY <3>1, Parameters
        <4>2. t % Word = t /\ t \div Word = 0 /\ 0 % Word = 0 /\ 0 \div Word = 0
          BY <4>1, SmallMod, Parameters
        <4>3. initial.roll = 0
          BY Parameters
        <4>4. initial.roll + t \div Word = 0 /\ initial.roll + 0 \div Word = 0
          BY <4>2, <4>3
        <4> QED
          BY <4>2, <4>4
      <3>3. Early(Front', 1)
        BY <1>11, <1>15, <3>1, <3>2, Parameters DEF Early, Point
      <3>4. Early(Front', Between(n))
        <4>1. Between(n) - 1 \in Nat /\ 1 + (Between(n) - 1) = Between(n) /\ 1 \in Nat
          BY <1>16
        <4>2. 1 + (Between(n) - 1) <= MaxLost + 1
          BY <1>16, <4>1, StreamAssumption
        <4>3. Early(Front', 1 + (Between(n) - 1))
          BY <1>14, <3>3, <4>1, <4>2, EarlyLater, Parameters
        <4> QED
          BY <4>1, <4>3
      <3>5. Early(Front, Steps(n))
        <4>1. Front = Point(0, 0)
          BY <1>12, <2>2, <3>2
        <4>2. Steps(n) \in 0..(MaxLost + 1)
          BY <1>0, Forward
        <4>3. Steps(n) * Pace \in Nat
          BY <4>2, Paces
        <4>4. 0 <= initial.ts + Steps(n) * Pace
          BY <4>3, Parameters
        <4> QED
          BY <4>1, <4>4 DEF Early, Point
      <3>6. Chain(n)
        BY <1>0, <2>2, <3>5, IdleChain
      <3>7. Link(n, n, Front', Between(n))
        BY <3>4 DEF Link
      <3>8. n \in -1..n
        OBVIOUS
      <3> QED
        BY <3>6, <3>7, <3>8
    <2> QED
      BY <1>2, <2>1, <2>2 DEF ElapsedInv
  <1>18. PICK k \in -1..n : Chain(k) /\ Link(k, n, Front', Between(n))
    BY <1>17
  <1>19. Reach(Front', Front', 1 - Ahead)
    <2>1. 0 \in 0..(MaxLost + 1)
      BY StreamAssumption
    <2>2. Reach(Front', Front', 0)
      BY <1>14, <2>1, ReachItself
    <2> QED
      BY <1>13, <2>2
  <1>20. Chain(k)'
    BY <1>0, <1>1, <1>9, <1>10, <1>11, <1>18, <1>19, ChainSent
  <1>21. ChainInv'
    <2>1. Len(network') = n + 1 /\ k \in -1..(n + 1)
      BY <1>0, <1>9 DEF TypeOK
    <2> QED
      BY <1>1, <1>20, <2>1 DEF ChainInv
  <1> QED
    BY <1>3, <1>8, <1>21

\* A frame leaves the network.
LEMMA StepArrives ==
  ASSUME Good, Lose \/ Receive PROVE FreshInv' /\ ElapsedInv' /\ ChainInv'
  <1> USE DEF Good
  <1>0. PICK n \in Nat : n = Len(network)
    BY DEF TypeOK
  <1>1. PICK k \in -1..n : Chain(k)
    BY <1>0 DEF ChainInv
  <1>2. AllIdle => AllIdle'
    BY IdleDropped
  <1>3. UNCHANGED <<direction, initial, producerVars>>
    BY DEF Lose, Receive
  <1>4. FreshInv' /\ ElapsedInv'
    BY <1>2, <1>3 DEF FreshInv, Fresh, ElapsedInv, producerVars
  <1>5. CASE Lose
    <2>1. \E l \in -1..Len(network') : Chain(l)'
      BY <1>0, <1>1, <1>5, ChainLost
    <2>2. crc_valid'
      BY <1>5 DEF ChainInv, Lose, consumerVars
    <2> QED
      BY <1>4, <2>1, <2>2 DEF ChainInv
  <1>6. CASE Receive
    <2>1. \E l \in -1..Len(network') : Chain(l)'
      BY <1>0, <1>1, <1>6, ChainReceived
    <2>2. crc_valid'
      BY <1>0, <1>1, <1>6, CountedRight
    <2> QED
      BY <1>4, <2>1, <2>2 DEF ChainInv
  <1> QED
    BY <1>5, <1>6

\* A frame stamped before the start stays the exception.
LEMMA Missed == [Next]_vars /\ ~missed_start' => ~missed_start /\ initial' = initial
  <1> SUFFICES ASSUME [Next]_vars, ~missed_start' PROVE ~missed_start /\ initial' = initial
    OBVIOUS
  <1> USE DEF producerVars, TargetUnchanged
  <1>1. CASE OriginatorActivate \/ OriginatorProduce
    BY <1>1 DEF OriginatorActivate, OriginatorProduce
  <1>2. CASE TargetActivate \/ TargetRollover \/ TargetStart \/ TargetWake
    BY <1>2 DEF TargetActivate, TargetRollover, TargetStart, TargetWake
  <1>3. ASSUME NEW e, NEW c, TargetProduce(e, c) PROVE ~missed_start /\ initial' = initial
    BY <1>3, Zenon DEF TargetProduce
  <1>4. CASE TargetProduceIdle
    BY <1>4 DEF TargetProduceIdle
  <1>5. CASE Lose \/ Receive \/ UNCHANGED vars
    BY <1>5 DEF Lose, Receive, vars
  <1> QED
    BY <1>1, <1>2, <1>3, <1>4, <1>5 DEF Next

\* Every step keeps the invariant of a connection from zero.
LEMMA ZeroStep == Paced /\ TypeOK /\ PhaseInv /\ ZeroInv /\ [Next]_vars => ZeroInv'
  <1> SUFFICES ASSUME Paced, TypeOK, PhaseInv, ZeroInv, [Next]_vars, FromZero', ~missed_start'
               PROVE  FreshInv' /\ ElapsedInv' /\ ChainInv'
    BY DEF ZeroInv
  <1>1. Good
    BY Missed DEF Good, ZeroInv, FromZero
  <1>2. CASE Next
    BY <1>1, <1>2, StepActivate, StepOriginator, StepTarget, StepTargetIdle,
       StepTargetProduce, StepArrives DEF Next
  <1>3. CASE UNCHANGED vars
    <2>1. UNCHANGED <<direction, initial, producerVars, network, lost, consumerVars>>
      BY <1>3 DEF vars
    <2>2. Front' = Front
      BY <2>1 DEF Front, Point, producerVars
    <2>3. ChainInv' /\ (AllIdle => AllIdle')
      BY <1>1, <2>1, <2>2, NothingSent, NothingIdle DEF Good
    <2> QED
      BY <1>1, <2>1, <2>3 DEF Good, FreshInv, Fresh, ElapsedInv, producerVars
  <1> QED
    BY <1>2, <1>3

\* A connection that starts from a roll-over count of zero, and whose first run frame to
\* arrive comes from before a wrap, decodes every frame that arrives
\* (SafetyDevice::handle_received_io_data and produce_io_data,
\* SafetyScannerConnection::on_client_data and produce_server_data): if less than three
\* quarters of a wrap pass between two frames that arrive.
THEOREM RollOversAreCountedAlike == Paced => (Spec => []RolloverAgrees)
  <1> SUFFICES ASSUME Paced PROVE Spec => []RolloverAgrees
    OBVIOUS
  <1> DEFINE Inv == TypeOK /\ PhaseInv /\ ZeroInv
  <1>1. Init => Inv
    BY TypeInit, ZeroInit
  <1>2. Inv /\ [Next]_vars => Inv'
    BY TypeStep, PhaseStep, ZeroStep
  <1>3. Inv => RolloverAgrees
    BY DEF ZeroInv, ChainInv, RolloverAgrees
  <1> QED
    BY <1>1, <1>2, <1>3, PTL DEF Spec

---------------------------------------------------------------------------
(* Whatever the initial values: from the first run frame on                *)

\* The producer's time at place i, as the frame at it says, and whether that is a run
\* frame.  Place 0 is the frame received last.
Stamp(i) == IF i = 0 THEN Point(heard.ts, heard.roll) ELSE At(i)
Run(i) == IF i = 0 THEN heard.run ELSE network[i].run

NoRun == \A i \in 0..Len(network) : ~Run(i)

\* From a run frame on, all are run frames, each within its reach of the one before.
RunChain == \A i \in 0..Len(network) :
  Run(i) => /\ i < Len(network) => Run(i + 1)
            /\ Reach(Stamp(i), Beyond(i), Steps(i))

\* The producer cannot stamp a run frame yet, or not next.
Unstarted ==
  IF direction = "server" THEN tcoo # "done" ELSE ~start \/ producer = "idle"

\* The target never goes back behind the time that has elapsed.
TimeInv ==
  direction = "client" =>
    \/ initial.ts + elapsed <= last_sent_ticks
    \/ last_sent_ticks = 0 /\ elapsed = 0 /\ NoRun

RunInv == ~missed_start => (Unstarted => NoRun) /\ TimeInv /\ RunChain

\* A frame sent at the front.
LEMMA RunSent ==
  ASSUME TypeOK, NEW n \in Nat, n = Len(network), NEW f \in Frames,
         network' = Append(network, f),
         UNCHANGED <<last_ts, tracked, heard, lost, direction>>, RunChain,
         Run(n) => f.run /\ Reach(Stamp(n), Point(f.ts, f.roll), Between(n)),
         f.run => Reach(Point(f.ts, f.roll), Front', 1 - Ahead)
  PROVE  RunChain' /\ (NoRun /\ ~f.run => NoRun')
  <1>1. /\ Len(network') = n + 1
        /\ \A i \in 0..n : At(i)' = At(i)
        /\ At(n + 1)' = Point(f.ts, f.roll)
        /\ \A i \in 0..(n - 1) : Beyond(i)' = Beyond(i) /\ Steps(i)' = Steps(i)
        /\ Beyond(n)' = Point(f.ts, f.roll) /\ Steps(n)' = Between(n)
        /\ Beyond(n + 1)' = Front' /\ Steps(n + 1)' = 1 - Ahead
    BY Appended
  <1>2. /\ \A i \in 0..n : Stamp(i)' = Stamp(i)
        /\ Stamp(n + 1)' = Point(f.ts, f.roll)
    BY <1>1 DEF Stamp, Point
  <1>3. /\ \A i \in 0..n : Run(i)' <=> Run(i)
        /\ Run(n + 1)' <=> f.run
    BY DEF Run, TypeOK
  <1>4. ASSUME NEW i \in 0..(n + 1), Run(i)'
        PROVE  (i < n + 1 => Run(i + 1)') /\ Reach(Stamp(i), Beyond(i), Steps(i))'
    <2>1. CASE i \in 0..(n - 1)
      <3>1. i \in 0..n /\ i + 1 \in 0..n /\ i < Len(network) /\ i \in 0..Len(network)
        BY <2>1
      <3>2. Run(i + 1) /\ Reach(Stamp(i), Beyond(i), Steps(i))
        BY <1>3, <1>4, <3>1 DEF RunChain
      <3> QED
        BY <1>1, <1>2, <1>3, <2>1, <3>1, <3>2 DEF Reach
    <2>2. CASE i = n
      <3>1. n \in 0..n
        OBVIOUS
      <3>2. f.run /\ Reach(Stamp(n), Point(f.ts, f.roll), Between(n))
        BY <1>3, <1>4, <2>2, <3>1
      <3> QED
        BY <1>1, <1>2, <1>3, <2>2, <3>1, <3>2 DEF Reach
    <2>3. CASE i = n + 1
      BY <1>1, <1>2, <1>3, <1>4, <2>3 DEF Reach
    <2>4. i \in 0..(n - 1) \/ i = n \/ i = n + 1
      OBVIOUS
    <2> QED
      BY <2>1, <2>2, <2>3, <2>4
  <1>5. RunChain'
    BY <1>1, <1>4 DEF RunChain
  <1>6. ASSUME NoRun, ~f.run PROVE NoRun'
    <2>1. \A i \in 0..(n + 1) : i \in 0..n \/ i = n + 1
      OBVIOUS
    <2> QED
      BY <1>1, <1>3, <1>6, <2>1 DEF NoRun
  <1> QED
    BY <1>5, <1>6

\* A frame that leaves the network, received or lost.
LEMMA RunArrives ==
  ASSUME TypeOK, Paced, PhaseInv, RunChain, Lose \/ Receive
  PROVE  RunChain' /\ (NoRun => NoRun')
  <1>0. PICK n \in Nat : n = Len(network)
    BY DEF TypeOK
  <1>1. /\ n >= 1 /\ Len(network') = n - 1
        /\ At(1) = Point(Head(network).ts, Head(network).roll)
        /\ \A i \in 1..(n - 1) :
             At(i)' = At(i + 1) /\ Beyond(i)' = Beyond(i + 1) /\ Steps(i)' = Steps(i + 1)
        /\ Beyond(0) = At(1) /\ Beyond(0)' = Beyond(1) /\ Steps(0) = lost + 1
        /\ Steps(1) = (IF n = 1 THEN 1 - Ahead ELSE 1)
        /\ Steps(0)' = (IF n = 1 THEN (lost' + 1) - Ahead ELSE lost' + 1)
    BY <1>0, Dropped DEF Lose, Receive, producerVars
  <1>2. /\ \A i \in 1..(n - 1) : Stamp(i)' = Stamp(i + 1) /\ (Run(i)' <=> Run(i + 1))
        /\ Run(1) = Head(network).run
    <2>0. network' = Tail(network) /\ network \in Seq(Frames)
      BY DEF TypeOK, Lose, Receive
    <2>1. \A i \in 1..(n - 1) : network'[i] = network[i + 1]
      BY <1>0, <1>1, <2>0
    <2>2. Head(network) = network[1]
      BY <1>0, <1>1, <2>0
    <2> QED
      BY <1>1, <2>1, <2>2 DEF Stamp, Run
  <1>3. /\ At(1) \in Points /\ Beyond(1) \in Points /\ Steps(1) \in Nat
        /\ Ahead \in {0, 1} /\ lost \in Nat /\ MaxLost \in Nat
        /\ Stamp(0) \in Points /\ Stamp(1) = At(1)
    BY <1>0, <1>1, Places, Forward, StreamAssumption DEF TypeOK, Stamp, Point, Points, Frames
  <1>4. ASSUME NEW i \in 1..(n - 1), Run(i)'
        PROVE  (i < n - 1 => Run(i + 1)') /\ Reach(Stamp(i), Beyond(i), Steps(i))'
    <2>1. i + 1 \in 0..Len(network) /\ Run(i + 1)
      BY <1>0, <1>2, <1>4
    <2>2. (i + 1 < n => Run((i + 1) + 1)) /\ Reach(Stamp(i + 1), Beyond(i + 1), Steps(i + 1))
      BY <1>0, <2>1 DEF RunChain
    <2> QED
      BY <1>1, <1>2, <2>2 DEF Reach
  <1>5. Run(1) => (1 < n => Run(1 + 1)) /\ Reach(At(1), Beyond(1), Steps(1))
    BY <1>0, <1>1, <1>3 DEF RunChain
  <1>6. Run(1) /\ 0 < n - 1 => Run(1)'
    BY <1>1, <1>2, <1>5
  <1>7. CASE Receive
    <2>1. Stamp(0)' = At(1) /\ (Run(0)' <=> Run(1)) /\ lost' = 0
      BY <1>1, <1>2, <1>7 DEF Receive, Stamp, Run, Point
    <2>2. Steps(0)' = Steps(1)
      BY <1>1, <1>3, <2>1
    <2>3. Run(0)' => (0 < n - 1 => Run(1)') /\ Reach(Stamp(0), Beyond(0), Steps(0))'
      BY <1>1, <1>5, <1>6, <2>1, <2>2 DEF Reach
    <2>4. RunChain'
      BY <1>1, <1>4, <2>3 DEF RunChain
    <2>5. ASSUME NoRun PROVE NoRun'
      <3>1. \A i \in 0..n : ~Run(i)
        BY <1>0, <2>5 DEF NoRun
      <3> QED
        BY <1>1, <1>2, <2>1, <3>1 DEF NoRun
    <2> QED
      BY <2>4, <2>5
  <1>8. CASE Lose
    <2>1. /\ Stamp(0)' = Stamp(0) /\ (Run(0)' <=> Run(0))
          /\ lost' = lost + 1 /\ lost < MaxLost
      BY <1>8 DEF Lose, Stamp, Run, At, Point, consumerVars
    <2>2. Steps(0)' = (lost + 1) + Steps(1) /\ (lost + 1) + Steps(1) <= MaxLost + 1
      BY <1>1, <1>3, <2>1
    <2>3. ASSUME Run(0) PROVE Run(1) /\ Reach(Stamp(0), Beyond(1), (lost + 1) + Steps(1))
      <3>1. Run(1) /\ Reach(Stamp(0), At(1), lost + 1)
        BY <1>0, <1>1, <2>3 DEF RunChain
      <3>2. Reach(At(1), Beyond(1), Steps(1)) /\ lost + 1 \in Nat
        BY <1>3, <1>5, <3>1
      <3> QED
        BY <1>3, <2>2, <3>1, <3>2, ReachTrans
    <2>4. Run(0)' => (0 < n - 1 => Run(1)') /\ Reach(Stamp(0), Beyond(0), Steps(0))'
      BY <1>1, <1>6, <2>1, <2>2, <2>3 DEF Reach
    <2>5. RunChain'
      BY <1>1, <1>4, <2>4 DEF RunChain
    <2>6. ASSUME NoRun PROVE NoRun'
      <3>1. \A i \in 0..n : ~Run(i)
        BY <1>0, <2>6 DEF NoRun
      <3> QED
        BY <1>1, <1>2, <2>1, <3>1 DEF NoRun
    <2> QED
      BY <2>5, <2>6
  <1> QED
    BY <1>7, <1>8

\* When the connection opens no frame has been sent.
LEMMA RunInit == Paced /\ Init => RunInv
  <1> SUFFICES ASSUME Init PROVE (Unstarted => NoRun) /\ TimeInv /\ RunChain
    BY DEF RunInv
  <1>1. Len(network) = 0 /\ ~Run(0)
    BY DEF Init, Run
  <1>2. NoRun /\ RunChain
    BY <1>1 DEF NoRun, RunChain
  <1> QED
    BY <1>2 DEF Init, TimeInv

\* What the steps start from.
Begun == Paced /\ TypeOK /\ PhaseInv /\ (Unstarted => NoRun) /\ TimeInv /\ RunChain

\* A step that moves no frame and not the front.
LEMMA RunStands ==
  ASSUME UNCHANGED <<direction, initial, network, lost, consumerVars>>, Front' = Front
  PROVE  (RunChain => RunChain') /\ (NoRun => NoRun')
  <1>1. /\ \A i : At(i)' = At(i) /\ Between(i)' = Between(i) /\ (Run(i)' <=> Run(i))
        /\ Ahead' = Ahead /\ Len(network') = Len(network)
    BY DEF At, Between, Ahead, Run, consumerVars, Point
  <1>2. \A i : Beyond(i)' = Beyond(i) /\ Steps(i)' = Steps(i) /\ Stamp(i)' = Stamp(i)
    BY <1>1 DEF Beyond, Steps, Stamp, consumerVars, Point
  <1> QED
    BY <1>1, <1>2 DEF RunChain, NoRun, Reach

\* The originator's frame is where its counters are, and they move on.
LEMMA RunOriginator ==
  ASSUME Begun, OriginatorProduce PROVE (Unstarted => NoRun)' /\ TimeInv' /\ RunChain'
  <1> USE DEF Begun
  <1>0. PICK n \in Nat : n = Len(network)
    BY DEF TypeOK
  <1>1. /\ direction = "server"
        /\ UNCHANGED <<direction, last_ts, tracked, heard, lost, tcoo, consumer_active>>
    BY DEF OriginatorProduce, consumerVars
  <1> DEFINE f == [ts |-> IF consumer_active THEN timestamp ELSE 0, roll |-> rollover_count,
                   run |-> tcoo = "done"]
  <1>2. network' = Append(network, f)
    BY DEF OriginatorProduce, Send
  <1>3. f \in Frames
    BY Paces DEF TypeOK, Frames, Words
  <1>4. (f.run => consumer_active) /\ (f.run <=> ~Unstarted)
    BY <1>1 DEF PhaseInv, Unstarted
  <1>5. consumer_active => Point(f.ts, f.roll) = Front /\ Reach(Front, Front', 1)
    BY OriginatorMoves
  <1>6. /\ f.ts = (IF consumer_active THEN timestamp ELSE 0) /\ f.roll = rollover_count
    OBVIOUS
  <1> HIDE DEF f
  <1>7. Ahead = 0 /\ n \in 0..Len(network) /\ Between(n) \in Nat
    BY <1>0, <1>1, Places, StreamAssumption DEF Ahead
  <1>8. Run(n) => f.run /\ Reach(Stamp(n), Point(f.ts, f.roll), Between(n))
    <2>1. SUFFICES ASSUME Run(n) PROVE f.run /\ Reach(Stamp(n), Point(f.ts, f.roll), Between(n))
      OBVIOUS
    <2>2. f.run
      BY <1>4, <1>7, <2>1 DEF NoRun
    <2>3. Reach(Stamp(n), Front, Between(n) - 0)
      BY <1>0, <1>7, <2>1 DEF RunChain, Beyond, Steps
    <2> QED
      BY <1>4, <1>5, <1>7, <2>2, <2>3
  <1>9. f.run => Reach(Point(f.ts, f.roll), Front', 1 - Ahead)
    BY <1>4, <1>5, <1>7
  <1>10. RunChain' /\ (NoRun /\ ~f.run => NoRun')
    BY <1>0, <1>1, <1>2, <1>3, <1>8, <1>9, RunSent
  <1> QED
    BY <1>1, <1>4, <1>10 DEF Unstarted, TimeInv

\* The flags of either end: no frame is sent.
LEMMA RunFlags ==
  ASSUME Begun,
         OriginatorActivate \/ TargetActivate \/ TargetRollover \/ TargetStart \/ TargetWake
  PROVE  (Unstarted => NoRun)' /\ TimeInv' /\ RunChain'
  <1> USE DEF Begun
  <1>1. /\ UNCHANGED <<direction, initial, timestamp, network, lost, consumerVars>>
        /\ UNCHANGED <<last_sent_ticks, elapsed>>
        /\ direction = "server" => UNCHANGED rollover_count
    BY DEF OriginatorActivate, TargetActivate, TargetRollover, TargetStart, TargetWake,
           TargetUnchanged, PhaseInv
  <1>2. Front' = Front
    BY <1>1 DEF Front, Point
  <1>3. RunChain' /\ (NoRun => NoRun')
    BY <1>1, <1>2, RunStands
  <1>4. Unstarted' => Unstarted
    <2>1. CASE OriginatorActivate
      BY <2>1 DEF OriginatorActivate, Unstarted
    <2>2. CASE TargetActivate \/ TargetRollover
      BY <1>1, <2>2 DEF TargetActivate, TargetRollover, Unstarted, PhaseInv
    <2>3. CASE TargetStart \/ TargetWake
      BY <1>1, <2>3 DEF TargetStart, TargetWake, Unstarted, PhaseInv
    <2> QED
      BY <2>1, <2>2, <2>3
  <1>5. TimeInv'
    BY <1>1, <1>3 DEF TimeInv
  <1> QED
    BY <1>3, <1>4, <1>5

\* The target's idle frame: it has sent no other.
LEMMA RunTargetIdle ==
  ASSUME Begun, TargetProduceIdle PROVE (Unstarted => NoRun)' /\ TimeInv' /\ RunChain'
  <1> USE DEF Begun
  <1>0. PICK n \in Nat : n = Len(network)
    BY DEF TypeOK
  <1>1. /\ direction = "client" /\ Unstarted
        /\ UNCHANGED <<direction, initial, last_ts, tracked, heard, lost, last_sent_ticks, elapsed>>
    BY StreamAssumption DEF TargetProduceIdle, PhaseInv, consumerVars, Unstarted, TypeOK
  <1> DEFINE f == [ts |-> 0, roll |-> rollover_count, run |-> FALSE]
  <1>2. network' = Append(network, f) /\ f \in Frames /\ ~f.run
    BY Paces DEF TargetProduceIdle, Send, Frames, Words, TypeOK
  <1> HIDE DEF f
  <1>3. NoRun /\ ~Run(n)
    BY <1>0, <1>1 DEF NoRun
  <1>4. RunChain' /\ NoRun'
    BY <1>0, <1>1, <1>2, <1>3, RunSent
  <1> QED
    BY <1>1, <1>4 DEF TimeInv

\* The target's run frame: the time is at most a pace later than that of the one before.
LEMMA RunTarget ==
  ASSUME Begun, NEW e \in 0..MaxElapse, NEW c \in 0..MaxCorrection, TargetProduce(e, c),
         ~missed_start'
  PROVE  (Unstarted => NoRun)' /\ TimeInv' /\ RunChain'
  <1> USE DEF Begun
  <1>0. PICK n \in Nat : n = Len(network)
    BY DEF TypeOK
  <1>1. /\ start /\ start' /\ producer' = "sleep"
        /\ UNCHANGED <<direction, initial, last_ts, tracked, heard, lost>>
    BY DEF TargetProduce, consumerVars
  <1>2. direction = "client" /\ ~Unstarted'
    BY <1>1 DEF PhaseInv, Unstarted
  <1>3. /\ e \in Nat /\ c \in Nat /\ e + c <= Pace /\ elapsed \in Nat /\ last_sent_ticks \in Nat
        /\ initial.ts \in Nat /\ initial.roll \in Nat /\ Pace \in Nat /\ Pace >= 1
    <2>1. MaxElapse \in Nat /\ MaxCorrection \in Nat
      BY StreamAssumption
    <2>2. e + c <= Pace /\ Pace \in Nat \ {0}
      BY Paces
    <2>3. e \in Nat /\ c \in Nat /\ elapsed \in Nat /\ last_sent_ticks \in Nat
      BY <2>1, StreamAssumption DEF TypeOK
    <2>4. initial.ts \in Nat /\ initial.roll \in Nat
      BY Paces DEF TypeOK
    <2> QED
      BY <2>2, <2>3, <2>4
  <1>4. elapsed' = elapsed + e /\ last_sent_ticks' = ForwardOnly(initial.ts + elapsed' + c)
    BY <1>1 DEF TargetProduce
  <1>5. PICK t \in Nat : t = last_sent_ticks'
    <2>1. initial.ts + elapsed' + c \in Nat
      BY <1>3, <1>4
    <2> QED
      BY <1>3, <1>4, <2>1 DEF ForwardOnly
  <1>6. initial.ts + elapsed' <= t
    BY <1>3, <1>4, <1>5 DEF ForwardOnly
  <1>7. TimeInv'
    BY <1>1, <1>5, <1>6 DEF TimeInv
  <1> DEFINE f == [ts |-> t % Word, roll |-> (initial.roll + t \div Word) % Word, run |-> TRUE]
  <1>8. network' = Append(network, f)
    BY <1>5 DEF TargetProduce, Send
  <1>9. f \in Frames
    <2>1. initial.roll + t \div Word \in Nat /\ t % Word \in Words
      BY <1>3, Remainders
    <2> QED
      BY <2>1, Remainders DEF Frames
  <1>10. f.run /\ Point(f.ts, f.roll) = Front'
    BY <1>1, <1>2, <1>5 DEF Front, Point
  <1>11. Point(f.ts, f.roll) = Point(t % Word, (initial.roll + t \div Word) % Word)
    OBVIOUS
  <1> HIDE DEF f
  <1>12. Front' \in Points
    BY <1>9, <1>10 DEF Frames, Point, Points
  <1>13. /\ n \in 0..Len(network) /\ Ahead = 1 /\ Between(n) \in 1..(MaxLost + 1)
         /\ Front \in Points /\ Stamp(n) \in Points /\ MaxLost \in Nat
    BY <1>0, <1>2, Places, StreamAssumption DEF Ahead, Stamp, TypeOK, Point, Points, Frames
  <1>14. Run(n) => Reach(Stamp(n), Front', Between(n))
    <2>1. SUFFICES ASSUME Run(n) PROVE Reach(Stamp(n), Front', Between(n))
      OBVIOUS
    <2>2. initial.ts + elapsed <= last_sent_ticks
      BY <1>2, <1>13, <2>1 DEF TimeInv, NoRun
    <2>3. last_sent_ticks <= t /\ t <= last_sent_ticks + Pace
      BY <1>3, <1>4, <1>5, <2>2 DEF ForwardOnly
    <2>4. Front = Point(last_sent_ticks % Word, (initial.roll + last_sent_ticks \div Word) % Word)
      BY <1>2 DEF Front
    <2>5. Reach(Front, Front', 1)
      BY <1>3, <1>10, <1>11, <2>3, <2>4, Ticks
    <2>6. Reach(Stamp(n), Front, Between(n) - 1)
      BY <1>0, <1>13, <2>1 DEF RunChain, Beyond, Steps
    <2>7. Between(n) - 1 \in Nat /\ (Between(n) - 1) + 1 = Between(n) /\ 1 \in Nat
      BY <1>13
    <2>8. Reach(Stamp(n), Front', (Between(n) - 1) + 1)
      BY <1>12, <1>13, <2>5, <2>6, <2>7, ReachTrans
    <2> QED
      BY <2>7, <2>8
  <1>15. Reach(Front', Front', 1 - Ahead)
    <2>1. 0 \in 0..(MaxLost + 1)
      BY <1>13
    <2>2. Reach(Front', Front', 0)
      BY <1>12, <2>1, ReachItself
    <2> QED
      BY <1>13, <2>2
  <1>16. RunChain'
    BY <1>0, <1>1, <1>8, <1>9, <1>10, <1>14, <1>15, RunSent
  <1> QED
    BY <1>2, <1>7, <1>16

\* Every step keeps the invariant.
LEMMA RunStep == Paced /\ TypeOK /\ PhaseInv /\ RunInv /\ [Next]_vars => RunInv'
  <1> SUFFICES ASSUME Paced, TypeOK, PhaseInv, RunInv, [Next]_vars, ~missed_start'
               PROVE  (Unstarted => NoRun)' /\ TimeInv' /\ RunChain'
    BY DEF RunInv
  <1>1. Begun
    BY Missed DEF Begun, RunInv
  <1>2. CASE OriginatorActivate \/ TargetActivate \/ TargetRollover \/ TargetStart \/ TargetWake
    BY <1>1, <1>2, RunFlags
  <1>3. CASE OriginatorProduce
    BY <1>1, <1>3, RunOriginator
  <1>4. CASE TargetProduceIdle
    BY <1>1, <1>4, RunTargetIdle
  <1>5. ASSUME NEW e \in 0..MaxElapse, NEW c \in 0..MaxCorrection, TargetProduce(e, c)
        PROVE  (Unstarted => NoRun)' /\ TimeInv' /\ RunChain'
    BY <1>1, <1>5, RunTarget
  <1>6. CASE Lose \/ Receive
    <2>1. RunChain' /\ (NoRun => NoRun')
      BY <1>1, <1>6, RunArrives DEF Begun
    <2>2. UNCHANGED <<direction, initial, producerVars>>
      BY <1>6 DEF Lose, Receive
    <2> QED
      BY <1>1, <2>1, <2>2 DEF Begun, Unstarted, TimeInv, producerVars
  <1>7. CASE UNCHANGED vars
    <2>1. UNCHANGED <<direction, initial, producerVars, network, lost, consumerVars>>
      BY <1>7 DEF vars
    <2>2. Front' = Front
      BY <2>1 DEF Front, Point, producerVars
    <2>3. RunChain' /\ (NoRun => NoRun')
      BY <1>1, <2>1, <2>2, RunStands DEF Begun
    <2> QED
      BY <1>1, <2>1, <2>3 DEF Begun, Unstarted, TimeInv, producerVars
  <1> QED
    BY <1>2, <1>3, <1>4, <1>5, <1>6, <1>7 DEF Next

Alike ==
  \/ tracked' = tracked /\ heard'.roll = heard.roll
  \/ tracked' = (tracked + 1) % Word /\ heard'.roll = (heard.roll + 1) % Word

\* The consumer tells a wrap from the time stamps of two run frames.
LEMMA RunCounted ==
  ASSUME Paced, TypeOK, PhaseInv, RunChain, heard.run, Receive PROVE Alike
  <1> DEFINE f == Head(network)
  <1>0. PICK n \in Nat : n = Len(network)
    BY DEF TypeOK
  <1>1. /\ n >= 1 /\ At(1) = Point(f.ts, f.roll) /\ f \in Frames
        /\ Beyond(0) = At(1) /\ Steps(0) = lost + 1
    BY <1>0, Dropped DEF Receive, producerVars
  <1>2. Reach(Point(heard.ts, heard.roll), Point(f.ts, f.roll), lost + 1)
    <2>1. 0 \in 0..Len(network) /\ Run(0)
      BY <1>0 DEF Run
    <2>2. Reach(Stamp(0), Beyond(0), Steps(0))
      BY <2>1 DEF RunChain
    <2> QED
      BY <1>1, <2>2 DEF Stamp
  <1>3. PICK d \in 0..((lost + 1) * Pace) :
           \/ f.ts = last_ts + d /\ f.roll = heard.roll
           \/ f.ts = last_ts + d - Word /\ f.roll = (heard.roll + 1) % Word
    BY <1>2 DEF Reach, Point, PhaseInv
  <1>4. (lost + 1) * Pace \in Nat /\ (lost + 1) * Pace < Word - Quarter
    <2>1. lost + 1 \in 0..(MaxLost + 1)
      BY StreamAssumption DEF TypeOK
    <2> QED
      BY <2>1, Paces
  <1>5. /\ f.ts \in Nat /\ last_ts \in Nat /\ Word \in Nat /\ Quarter \in Nat
        /\ f.ts < Word /\ d \in Nat /\ d < Word - Quarter
    <2>1. Word \in Nat /\ Quarter \in Nat /\ f.ts \in Words /\ last_ts \in Words
      BY <1>1, Paces DEF TypeOK, Frames
    <2> QED
      BY <1>4, <2>1 DEF Words
  <1>6. initialized
    BY DEF PhaseInv
  <1>7. heard' = f /\ tracked' = (IF WrapSeen(f.ts) THEN (tracked + 1) % Word ELSE tracked)
    BY <1>6 DEF Receive
  <1>8. CASE f.ts = last_ts + d /\ f.roll = heard.roll
    <2>1. ~WrapSeen(f.ts)
      BY <1>5, <1>8 DEF WrapSeen
    <2> QED
      BY <1>7, <1>8, <2>1 DEF Alike
  <1>9. CASE f.ts = last_ts + d - Word /\ f.roll = (heard.roll + 1) % Word
    <2>1. WrapSeen(f.ts)
      BY <1>5, <1>9 DEF WrapSeen
    <2> QED
      BY <1>7, <1>9, <2>1 DEF Alike
  <1> QED
    BY <1>3, <1>8, <1>9

\* Whatever the initial time stamp and roll-over count, and in both directions: once a run
\* frame has arrived, the consumer counts a wrap exactly when the producer has
\* (SafetyDevice::handle_received_io_data and produce_io_data,
\* SafetyScannerConnection::on_client_data and produce_server_data), if less than three
\* quarters of a wrap pass between two frames that arrive.  So the connection decodes all
\* of its run frames or none.
THEOREM WrapsAreCountedAlike == Paced => (Spec => WrapsCountedAlike)
  <1> SUFFICES ASSUME Paced PROVE Spec => WrapsCountedAlike
    OBVIOUS
  <1> DEFINE Inv == TypeOK /\ PhaseInv /\ RunInv
  <1>1. Init => Inv
    BY TypeInit, RunInit
  <1>2. Inv /\ [Next]_vars => Inv'
    BY TypeStep, PhaseStep, RunStep
  <1>3. Inv /\ [Next]_vars => [heard.run /\ ~missed_start' => Alike]_vars
    <2>1. SUFFICES ASSUME Inv, [Next]_vars, heard.run, ~missed_start', ~UNCHANGED vars PROVE Alike
      OBVIOUS
    <2>2. RunChain
      BY <2>1, Missed DEF RunInv
    <2>3. CASE Receive
      BY <2>1, <2>2, <2>3, RunCounted
    <2>4. CASE ~Receive
      <3>1. UNCHANGED consumerVars
        BY <2>1, <2>4 DEF Next, OriginatorActivate, OriginatorProduce, TargetActivate,
           TargetRollover, TargetStart, TargetWake, TargetUnchanged, TargetProduceIdle,
           TargetProduce, Lose
      <3> QED
        BY <3>1 DEF consumerVars, Alike
    <2> QED
      BY <2>3, <2>4
  <1> QED
    BY <1>1, <1>2, <1>3, PTL DEF Spec, WrapsCountedAlike, Alike
=============================================================================
