----------------------------- MODULE WireProofs -----------------------------
(***************************************************************************)
(* What the writers of Wire put into a buffer, the readers take out again, *)
(* wherever in the buffer it is and whatever else is there, for every Base *)
(* from 14 on.  The code has Base = 256.                                   *)
(***************************************************************************)
EXTENDS Wire, NaturalsInduction, WellFoundedInduction, TLAPS

\* A reader that stands at offset k.
At(data, k, v) == [data |-> data, off |-> k, st |-> "ok", v |-> v]

\* The bytes m are in the buffer, after the first k.
Holds(data, k, m) ==
  /\ k + Len(m) <= Len(data)
  /\ \A i \in 1 .. Len(m) : data[k + i] = m[i]

(* What a reader that stands at a place is. *)
LEMMA AtIs ==
  ASSUME NEW data, NEW k, NEW v
  PROVE  /\ At(data, k, v).st = "ok" /\ At(data, k, v).v = v /\ At(data, k, v).off = k
         /\ At(data, k, v).data = data
         /\ \A x : Return(At(data, k, v), x) = At(data, k, x)
  BY DEF At, Return

-----------------------------------------------------------------------------
(* Division.                                                               *)

(* A number is made of its quotient and remainder. *)
LEMMA Division ==
  ASSUME NEW b \in Nat, b > 0, NEW v \in Nat
  PROVE  /\ v \div b \in Nat
         /\ v % b \in 0 .. b - 1
         /\ v = b * (v \div b) + (v % b)
  BY Z3T(30)

(* No other numbers are quotient and remainder. *)
LEMMA QuotientUnique ==
  ASSUME NEW b \in Nat, b > 0, NEW v \in Nat, NEW q \in Nat, NEW r \in Nat,
         r < b, v = b * q + r
  PROVE  v \div b = q /\ v % b = r
  BY Z3T(30)

(* The same for numbers that may be negative: division rounds down. *)
LEMMA SignedDivision ==
  ASSUME NEW b \in Nat, b > 0, NEW v \in Int
  PROVE  /\ v \div b \in Int
         /\ v % b \in 0 .. b - 1
         /\ v = b * (v \div b) + (v % b)
  BY Z3T(30)

(* The same for the division of a negative number. *)
LEMMA SignedQuotientUnique ==
  ASSUME NEW b \in Nat, b > 0, NEW v \in Int, NEW q \in Int, NEW r \in Nat,
         r < b, v = b * q + r
  PROVE  v \div b = q /\ v % b = r
  BY Z3T(30)

(* The weights of the digits, as products. *)
LEMMA Weights ==
  /\ Weight[0] = 1 /\ Weight[1] = Base /\ Weight[2] = Base * Base
  /\ Weight[3] = Base * Base * Base /\ Weight[4] = Base * Base * Base * Base
<1>1. Base \in Nat
  BY BaseAssumption
<1>2. Square \in Nat
  BY <1>1 DEF Square
<1>3. /\ Weight[0] = 1 /\ Weight[1] = Base /\ Weight[2] = Square
      /\ Weight[3] = Square * Base /\ Weight[4] = Square * Square
  BY DEF Weight
<1>4. Square * Square = Base * Base * Base * Base
  BY <1>1 DEF Square
<1> QED
  BY <1>3, <1>4 DEF Square

(* The digits of a number below Base^2. *)
LEMMA TwoDigits ==
  ASSUME NEW v \in Nat, v < Base * Base
  PROVE  \E a \in Bytes, b \in Bytes : v = a * Base + b /\ WriteIntBE(v, 2) = <<a, b>>
<1> DEFINE a == v \div Base
           b == v % Base
<1>1. Base \in Nat /\ Base > 0
  BY BaseAssumption
<1>2. a \in Nat /\ b \in Bytes /\ v = Base * a + b
  BY <1>1, Division DEF Bytes
<1>3. a < Base
  <2> HIDE DEF a, b
  <2> QED
    BY <1>1, <1>2 DEF Bytes
<1>4. a % Base = a /\ v \div 1 = v
  BY <1>1, <1>2, <1>3
<1>5. WriteIntBE(v, 2) = <<a, b>>
  <2>1. WriteIntBE(v, 2) = [i \in 1 .. 2 |-> (v \div Weight[2 - i]) % Base]
    BY DEF WriteIntBE
  <2>2. (v \div Weight[2 - 1]) % Base = a /\ (v \div Weight[2 - 2]) % Base = b
    BY <1>4, Weights
  <2> HIDE DEF a, b
  <2> QED
    BY <2>1, <2>2
<1> HIDE DEF a, b
<1>6. a \in Bytes /\ v = a * Base + b
  BY <1>1, <1>2, <1>3 DEF Bytes
<1> QED
  BY <1>2, <1>5, <1>6

(* The digits of a number below Base^4. *)
LEMMA FourDigits ==
  ASSUME NEW v \in Nat, v < Base * Base * Base * Base
  PROVE  \E a \in Bytes, b \in Bytes, c \in Bytes, d \in Bytes :
           /\ v = a * (Base * Base * Base) + ((b * Base + c) * Base + d)
           /\ WriteIntBE(v, 4) = <<a, b, c, d>>
<1> DEFINE B2 == Base * Base
           B3 == B2 * Base
<1>1. Base \in Nat /\ Base > 0
  BY BaseAssumption
<1>2. B2 \in Nat /\ B2 > 0 /\ B3 \in Nat /\ B3 > 0
  BY <1>1
<1>3. PICK p \in Nat, d \in Bytes : v = Base * p + d /\ p = v \div Base /\ d = v % Base
  BY <1>1, Division DEF Bytes
<1>4. PICK q \in Nat, c \in Bytes : p = Base * q + c /\ c = p % Base
  BY <1>1, Division DEF Bytes
<1>5. PICK a \in Nat, b \in Bytes : q = Base * a + b /\ b = q % Base
  BY <1>1, Division DEF Bytes
<1>6. v \div B2 = q
  <2>1. Base * c + d \in Nat /\ v = B2 * q + (Base * c + d)
    BY <1>1, <1>3, <1>4 DEF Bytes
  <2>2. Base * c + d < B2
    <3>1. Base * c <= Base * (Base - 1)
      BY <1>1, <1>4 DEF Bytes
    <3> QED
      BY <1>1, <1>3, <1>4, <3>1 DEF Bytes
  <2> HIDE DEF B2
  <2> QED
    BY <1>2, <2>1, <2>2, QuotientUnique
<1>7. v \div B3 = a
  <2> DEFINE e == B2 * b + (Base * c + d)
  <2>1. e \in Nat /\ v = B3 * a + e
    BY <1>1, <1>3, <1>4, <1>5 DEF Bytes
  <2>2. e < B3
    <3>1. Base * c <= Base * (Base - 1)
      BY <1>1, <1>4 DEF Bytes
    <3>2. B2 * b <= B2 * (Base - 1)
      BY <1>1, <1>2, <1>5 DEF Bytes
    <3>3. Base * c + d < B2
      BY <1>1, <1>3, <1>4, <3>1 DEF Bytes
    <3>4. B2 * (Base - 1) + B2 = B3
      BY <1>1
    <3>5. Base * c + d \in Nat /\ B2 * b \in Nat /\ B2 * (Base - 1) \in Int
      BY <1>1, <1>2, <1>3, <1>4, <1>5 DEF Bytes
    <3> HIDE DEF B2, B3
    <3> QED
      BY <1>2, <3>2, <3>3, <3>4, <3>5
  <2> HIDE DEF B3, e
  <2> QED
    BY <1>2, <2>1, <2>2, QuotientUnique
<1>8. a < Base
  <2>1. B3 * a <= v
    BY <1>1, <1>2, <1>3, <1>4, <1>5 DEF Bytes
  <2>2. v < B3 * Base
    OBVIOUS
  <2> HIDE DEF B3
  <2> QED
    BY <1>1, <1>2, <1>5, <2>1, <2>2
<1>9. a % Base = a /\ v \div 1 = v
  BY <1>1, <1>5, <1>8
<1>10. WriteIntBE(v, 4) = <<a, b, c, d>>
  <2>1. WriteIntBE(v, 4) = [i \in 1 .. 4 |-> (v \div Weight[4 - i]) % Base]
    BY DEF WriteIntBE
  <2>2. /\ (v \div Weight[4 - 1]) % Base = a
        /\ (v \div Weight[4 - 2]) % Base = b
    BY <1>5, <1>6, <1>7, <1>9, Weights
  <2>3. Weight[4 - 3] = Base /\ Weight[4 - 4] = 1
    BY Weights
  <2>4. /\ (v \div Weight[4 - 3]) % Base = c
        /\ (v \div Weight[4 - 4]) % Base = d
    BY <1>3, <1>4, <1>9, <2>3, Zenon
  <2> QED
    BY <2>1, <2>2, <2>4
<1>11. v = a * (Base * Base * Base) + ((b * Base + c) * Base + d)
  BY <1>1, <1>3, <1>4, <1>5 DEF Bytes
<1>12. a \in Bytes
  BY <1>1, <1>5, <1>8 DEF Bytes
<1> QED
  BY <1>10, <1>11, <1>12

(* The limits of the fields, as products. *)
LEMMA Limits ==
  /\ Base \in Nat /\ Base >= 14
  /\ Square = Base * Base /\ Square \in Nat /\ Square >= 196
  /\ IntLimit = (Base \div 2) * (Base * Base * Base)
  /\ IntLimit \in Nat /\ IntLimit >= 19208 /\ IntLimit > Square
<1>1. Base \in Nat /\ Base >= 14
  BY BaseAssumption
<1>2. Square = Base * Base /\ Square \in Nat
  BY <1>1 DEF Square
<1> DEFINE half == Base \div 2
<1>3. half \in Nat /\ half >= 7
  BY <1>1
<1>4. IntLimit = half * (Square * Base)
  BY DEF IntLimit
<1>5. Square >= 196
  <2>1. Base * Base >= 14 * Base
    BY <1>1
  <2> QED
    BY <1>1, <1>2, <2>1
<1>6. Square * Base >= 2744 /\ Square * Base \in Nat /\ Square * Base >= Square
  <2>1. Square * Base >= Square * 14 /\ Square * Base \in Nat
    BY <1>1, <1>2
  <2> QED
    BY <1>2, <1>5, <2>1
<1> DEFINE b3 == Square * Base
<1>7. half * b3 >= 7 * b3 /\ half * b3 \in Nat
  <2> HIDE DEF half, b3
  <2>1. b3 \in Nat
    BY <1>6 DEF b3
  <2> QED
    BY <1>3, <2>1
<1>8. IntLimit >= 19208 /\ IntLimit > Square /\ IntLimit \in Nat
  <2> DEFINE x == half * b3
  <2>1. IntLimit = x /\ x >= 7 * b3 /\ x \in Nat
    BY <1>4, <1>7
  <2>2. b3 >= 2744 /\ b3 \in Nat /\ b3 >= Square
    BY <1>6
  <2> HIDE DEF x, b3
  <2> QED
    BY <1>2, <2>1, <2>2
<1>9. Square * Base = Base * Base * Base
  BY <1>2
<1> QED
  BY <1>1, <1>2, <1>4, <1>5, <1>8, <1>9

(* What is written of a number is bytes, as many as its field is wide. *)
LEMMA Written ==
  ASSUME NEW v \in Int, NEW w \in {1, 2, 4}
  PROVE  WriteIntBE(v, w) \in Seq(Bytes) /\ Len(WriteIntBE(v, w)) = w
<1>1. Base \in Nat /\ Base > 0
  BY BaseAssumption
<1>2. ASSUME NEW i \in 1 .. w PROVE (v \div Weight[w - i]) % Base \in Bytes
  <2>1. w - i \in {0, 1, 2, 3}
    OBVIOUS
  <2>2. Weight[w - i] \in Nat /\ Weight[w - i] > 0
    <3>1. Base * Base \in Nat /\ Base * Base > 0
      BY <1>1
    <3>2. Base * Base * Base \in Nat /\ Base * Base * Base > 0
      BY <1>1, <3>1
    <3> QED
      BY <1>1, <2>1, <3>1, <3>2, Weights
  <2> DEFINE q == Weight[w - i]
  <2>3. v \div q \in Int
    <3> HIDE DEF q
    <3>1. q \in Nat /\ q > 0
      BY <2>2 DEF q
    <3> QED
      BY <3>1
  <2> DEFINE d == v \div q
  <2> HIDE DEF d
  <2>4. d \in Int
    BY <2>3 DEF d
  <2>5. d % Base \in Bytes
    BY <1>1, <2>4 DEF Bytes
  <2> QED
    BY <2>5 DEF d
<1>3. WriteIntBE(v, w) = [i \in 1 .. w |-> (v \div Weight[w - i]) % Base]
  BY DEF WriteIntBE
<1>4. WriteIntBE(v, w) \in [1 .. w -> Bytes] /\ w \in Nat
  BY <1>2, <1>3
<1> HIDE DEF WriteIntBE
<1> QED
  BY <1>4

-----------------------------------------------------------------------------
(* Reading numbers.                                                        *)

(* The value that Unsigned adds up is what any function computes that agrees
   with its recursion. *)
LEMMA UnsignedIs ==
  ASSUME NEW s, NEW f,
         f = [i \in 0 .. Len(s) |-> IF i = 0 THEN 0 ELSE f[i - 1] * Base + s[i]]
  PROVE  \E g : /\ g = [i \in 0 .. Len(s) |-> IF i = 0 THEN 0 ELSE g[i - 1] * Base + s[i]]
                /\ Unsigned(s) = g[Len(s)]
<1> DEFINE Is(g) == g = [i \in 0 .. Len(s) |-> IF i = 0 THEN 0 ELSE g[i - 1] * Base + s[i]]
           g == CHOOSE g : Is(g)
<1>1. Is(g)
  BY Zenon
<1>2. Unsigned(s) = g[Len(s)]
  BY Zenon DEF Unsigned
<1> QED
  BY <1>1, <1>2, Zenon

(* What two bytes are worth. *)
LEMMA UnsignedTwo ==
  ASSUME NEW a \in Bytes, NEW b \in Bytes
  PROVE  Unsigned(<<a, b>>) = a * Base + b
<1> DEFINE s == <<a, b>>
           f == [i \in 0 .. 2 |-> IF i = 0 THEN 0 ELSE IF i = 1 THEN a ELSE a * Base + b]
<1>1. Base \in Nat /\ a \in Nat /\ b \in Nat /\ Len(s) = 2
  BY BaseAssumption DEF Bytes
<1>2. f = [i \in 0 .. Len(s) |-> IF i = 0 THEN 0 ELSE f[i - 1] * Base + s[i]]
  <2>1. ASSUME NEW i \in 0 .. 2
        PROVE  f[i] = IF i = 0 THEN 0 ELSE f[i - 1] * Base + s[i]
    BY <1>1, <2>1
  <2> QED
    BY <1>1, <2>1, Zenon
<1> HIDE DEF f
<1>3. PICK g : /\ g = [i \in 0 .. Len(s) |-> IF i = 0 THEN 0 ELSE g[i - 1] * Base + s[i]]
               /\ Unsigned(s) = g[Len(s)]
  BY <1>2, UnsignedIs, Zenon
<1>4. g[0] = 0
  BY <1>1, <1>3
<1>5. g[1] = a
  BY <1>1, <1>3, <1>4
<1>6. g[2] = g[1] * Base + s[2]
  BY <1>1, <1>3
<1> QED
  BY <1>1, <1>3, <1>5, <1>6

(* What three bytes are worth. *)
LEMMA UnsignedThree ==
  ASSUME NEW a \in Bytes, NEW b \in Bytes, NEW c \in Bytes
  PROVE  Unsigned(<<a, b, c>>) = (a * Base + b) * Base + c
<1> DEFINE s == <<a, b, c>>
           f == [i \in 0 .. 3 |-> IF i = 0 THEN 0 ELSE IF i = 1 THEN a
                                  ELSE IF i = 2 THEN a * Base + b
                                  ELSE (a * Base + b) * Base + c]
<1>1. Base \in Nat /\ a \in Nat /\ b \in Nat /\ c \in Nat /\ Len(s) = 3
  BY BaseAssumption DEF Bytes
<1>2. f = [i \in 0 .. Len(s) |-> IF i = 0 THEN 0 ELSE f[i - 1] * Base + s[i]]
  <2>1. ASSUME NEW i \in 0 .. 3
        PROVE  f[i] = IF i = 0 THEN 0 ELSE f[i - 1] * Base + s[i]
    BY <1>1, <2>1
  <2> QED
    BY <1>1, <2>1, Zenon
<1> HIDE DEF f
<1>3. PICK g : /\ g = [i \in 0 .. Len(s) |-> IF i = 0 THEN 0 ELSE g[i - 1] * Base + s[i]]
               /\ Unsigned(s) = g[Len(s)]
  BY <1>2, UnsignedIs, Zenon
<1>4. g[0] = 0
  BY <1>1, <1>3
<1>5. g[1] = a
  BY <1>1, <1>3, <1>4
<1>6. g[2] = g[1] * Base + s[2] /\ g[3] = g[2] * Base + s[3]
  BY <1>1, <1>3
<1> QED
  BY <1>1, <1>3, <1>5, <1>6

(* An [int] whose upper half is not used is read as it was written. *)
LEMMA SignedFour ==
  ASSUME NEW a \in Bytes, NEW b \in Bytes, NEW c \in Bytes, NEW d \in Bytes,
         a < Base \div 2
  PROVE  Signed(<<a, b, c, d>>) = a * (Base * Base * Base) + ((b * Base + c) * Base + d)
<1>1. Tail(<<a, b, c, d>>) = <<b, c, d>> /\ Len(<<a, b, c, d>>) = 4
  OBVIOUS
<1>2. Unsigned(<<b, c, d>>) = (b * Base + c) * Base + d
  BY UnsignedThree
<1>3. Weight[4 - 1] = Base * Base * Base
  BY Weights
<1>4. <<a, b, c, d>>[1] = a
  OBVIOUS
<1> QED
  BY <1>1, <1>2, <1>3, <1>4, Zenon DEF Signed

-----------------------------------------------------------------------------
(* Reading a buffer.                                                       *)

(* Bytes after bytes are bytes. *)
LEMMA Joined ==
  ASSUME NEW m \in Seq(Bytes), NEW n \in Seq(Bytes)
  PROVE  m \o n \in Seq(Bytes) /\ Len(m \o n) = Len(m) + Len(n)
  OBVIOUS

(* A buffer that holds two pieces one after the other holds both. *)
LEMMA HoldsParts ==
  ASSUME NEW data \in Seq(Nat), NEW k \in Nat,
         NEW m \in Seq(Bytes), NEW n \in Seq(Bytes), Holds(data, k, m \o n)
  PROVE  Holds(data, k, m) /\ Holds(data, k + Len(m), n)
<1>1. /\ Len(m) \in Nat /\ Len(n) \in Nat /\ Len(data) \in Nat
      /\ Len(m \o n) = Len(m) + Len(n)
  OBVIOUS
<1>2. Holds(data, k, m)
  <2>1. ASSUME NEW i \in 1 .. Len(m) PROVE data[k + i] = m[i]
    <3>1. i \in 1 .. Len(m \o n) /\ (m \o n)[i] = m[i]
      BY <1>1
    <3> QED
      BY <3>1 DEF Holds
  <2> QED
    BY <1>1, <2>1 DEF Holds
<1>3. Holds(data, k + Len(m), n)
  <2>1. ASSUME NEW i \in 1 .. Len(n) PROVE data[k + Len(m) + i] = n[i]
    <3>1. Len(m) + i \in 1 .. Len(m \o n) /\ (m \o n)[Len(m) + i] = n[i]
      BY <1>1
    <3>2. data[k + (Len(m) + i)] = n[i]
      BY <3>1 DEF Holds
    <3>3. k + (Len(m) + i) = k + Len(m) + i
      BY <1>1
    <3> QED
      BY <3>2, <3>3
  <2> QED
    BY <1>1, <2>1 DEF Holds
<1> QED
  BY <1>2, <1>3

(* Bytes that are there are taken, and the reader stands behind them. *)
LEMMA TakeHeld ==
  ASSUME NEW data \in Seq(Nat), NEW k \in Nat, NEW m \in Seq(Bytes),
         Holds(data, k, m), NEW v, NEW beyond \in {"throw", "over"}
  PROVE  Take(At(data, k, v), Len(m), beyond) = At(data, k + Len(m), m)
<1>1. /\ Len(m) \in Nat /\ Len(data) \in Nat
      /\ k + Len(m) <= Len(data)
  BY DEF Holds
<1> DEFINE t == SubSeq(data, k + 1, k + Len(m))
<1>2. t = m
  <2>1. t \in Seq(Nat) /\ Len(t) = Len(m)
    BY <1>1
  <2>2. ASSUME NEW i \in 1 .. Len(m) PROVE t[i] = m[i]
    <3>1. t[i] = data[k + i]
      BY <1>1
    <3> QED
      BY <3>1 DEF Holds
  <2> HIDE DEF t
  <2> QED
    BY <2>1, <2>2, SMTT(60)
<1>3. ~(k + Len(m) > Len(data))
  BY <1>1
<1>4. /\ At(data, k, v).st = "ok" /\ At(data, k, v).off = k
      /\ At(data, k, v).data = data
  BY DEF At
<1>5. Take(At(data, k, v), Len(m), beyond) =
        [At(data, k, v) EXCEPT !.off = @ + Len(m), !.v = t]
  BY <1>3, <1>4 DEF Take
<1> HIDE DEF t
<1> QED
  BY <1>2, <1>5 DEF At

(* A [short] that is there is read as it was written. *)
LEMMA ShortHeld ==
  ASSUME NEW data \in Seq(Nat), NEW k \in Nat, NEW v,
         NEW n \in Nat, n < Base * Base, Holds(data, k, WriteIntBE(n, 2))
  PROVE  /\ WriteIntBE(n, 2) \in Seq(Bytes) /\ Len(WriteIntBE(n, 2)) = 2
         /\ ReadShort(At(data, k, v)) = At(data, k + 2, n)
<1>1. PICK a \in Bytes, b \in Bytes : n = a * Base + b /\ WriteIntBE(n, 2) = <<a, b>>
  BY TwoDigits
<1>2. <<a, b>> \in Seq(Bytes) /\ Len(<<a, b>>) = 2
  OBVIOUS
<1>3. Take(At(data, k, v), 2, "throw") = At(data, k + 2, <<a, b>>)
  <2>1. PICK m \in Seq(Bytes) : m = <<a, b>> /\ Len(m) = 2 /\ Holds(data, k, m)
    BY <1>1, <1>2
  <2>2. Take(At(data, k, v), Len(m), "throw") = At(data, k + Len(m), m)
    BY <2>1, TakeHeld
  <2> QED
    BY <2>1, <2>2
<1>4. Unsigned(<<a, b>>) = n
  BY <1>1, UnsignedTwo
<1>5. ReadShort(At(data, k, v)) = AsUnsigned(At(data, k + 2, <<a, b>>))
  BY <1>3 DEF ReadShort, ReadUnsigned, EnsureSize, Width
<1>6. AsUnsigned(At(data, k + 2, <<a, b>>)) = At(data, k + 2, n)
  BY <1>4 DEF AsUnsigned, Return, At
<1> QED
  BY <1>1, <1>2, <1>5, <1>6

(* Four bytes hold every number below the limit of [int]. *)
LEMMA IntIsFour ==
  ASSUME NEW n \in Nat, n < (Base \div 2) * (Base * Base * Base)
  PROVE  /\ n < Base * Base * Base * Base
         /\ WriteIntBE(n, 4) \in Seq(Bytes) /\ Len(WriteIntBE(n, 4)) = 4
<1> DEFINE B3 == Base * Base * Base
           half == Base \div 2
<1>1. Base \in Nat /\ B3 \in Nat /\ B3 > 0 /\ half \in Nat /\ half <= Base
  BY BaseAssumption
<1>2. n < Base * Base * Base * Base
  <2>1. half * B3 <= Base * B3
    <3> HIDE DEF B3, half
    <3> QED
      BY <1>1
  <2>2. Base * B3 = Base * Base * Base * Base
    BY <1>1
  <2>3. half * B3 \in Nat /\ Base * B3 \in Nat
    <3> HIDE DEF B3, half
    <3> QED
      BY <1>1
  <2>4. n < half * B3
    OBVIOUS
  <2> HIDE DEF B3, half
  <2> QED
    BY <2>1, <2>2, <2>3, <2>4
<1>3. PICK a \in Bytes, b \in Bytes, c \in Bytes, d \in Bytes :
        WriteIntBE(n, 4) = <<a, b, c, d>>
  BY <1>2, FourDigits
<1>4. <<a, b, c, d>> \in Seq(Bytes) /\ Len(<<a, b, c, d>>) = 4
  OBVIOUS
<1> QED
  BY <1>2, <1>3, <1>4, Zenon

(* An [int] that is there, below its limit, is read as it was written. *)
LEMMA IntHeld ==
  ASSUME NEW data \in Seq(Nat), NEW k \in Nat, NEW v,
         NEW n \in Nat, n < (Base \div 2) * (Base * Base * Base),
         Holds(data, k, WriteIntBE(n, 4))
  PROVE  ReadInt(At(data, k, v)) = At(data, k + 4, n)
<1> DEFINE B3 == Base * Base * Base
           half == Base \div 2
<1>1. Base \in Nat /\ B3 \in Nat /\ B3 > 0 /\ half \in Nat /\ half <= Base
  BY BaseAssumption
<1>2. n < Base * Base * Base * Base
  BY IntIsFour
<1>3. PICK a \in Bytes, b \in Bytes, c \in Bytes, d \in Bytes :
        /\ n = a * (Base * Base * Base) + ((b * Base + c) * Base + d)
        /\ WriteIntBE(n, 4) = <<a, b, c, d>>
  BY <1>2, FourDigits
<1>4. a < half
  <2>1. (b * Base + c) * Base + d \in Nat /\ a \in Nat
    BY <1>1 DEF Bytes
  <2>2. a * B3 <= n /\ n < half * B3
    BY <1>1, <1>3, <2>1
  <2> HIDE DEF B3, half
  <2> QED
    BY <1>1, <2>1, <2>2
<1>5. <<a, b, c, d>> \in Seq(Bytes) /\ Len(<<a, b, c, d>>) = 4
  OBVIOUS
<1>6. Take(At(data, k, v), 4, "throw") = At(data, k + 4, <<a, b, c, d>>)
  <2>1. PICK m \in Seq(Bytes) : m = <<a, b, c, d>> /\ Len(m) = 4 /\ Holds(data, k, m)
    BY <1>3, <1>5
  <2>2. Take(At(data, k, v), Len(m), "throw") = At(data, k + Len(m), m)
    BY <2>1, TakeHeld
  <2> QED
    BY <2>1, <2>2
<1>7. Signed(<<a, b, c, d>>) = n
  BY <1>3, <1>4, SignedFour
<1>8. ReadInt(At(data, k, v)) = AsSigned(At(data, k + 4, <<a, b, c, d>>))
  BY <1>6 DEF ReadInt, ReadSigned, EnsureSize, Width
<1>9. AsSigned(At(data, k + 4, <<a, b, c, d>>)) = At(data, k + 4, n)
  BY <1>7 DEF AsSigned, Return, At
<1> QED
  BY <1>3, <1>5, <1>8, <1>9

-----------------------------------------------------------------------------
(* Strings and byte strings.                                               *)

(* The parts of a [string]: its length, narrowed to the width of the length
   field, and that many bytes. *)
LEMMA StringForm ==
  ASSUME NEW s \in Seq(Bytes)
  PROVE  \E n \in Nat, head \in Seq(Bytes), m \in Seq(Bytes) :
           /\ n = Len(s) % (Base * Base) /\ n < Base * Base
           /\ head = WriteIntBE(n, 2) /\ Len(head) = 2
           /\ m = SubSeq(s, 1, n) /\ Len(m) = n
           /\ WriteString(s) = head \o m
           /\ WriteString(s) \in Seq(Bytes) /\ Len(WriteString(s)) = 2 + n
<1> DEFINE n == Len(s) % (Base * Base)
           head == WriteIntBE(n, 2)
           m == SubSeq(s, 1, n)
<1>1. Base * Base \in Nat /\ Base * Base > 0 /\ Len(s) \in Nat
  BY BaseAssumption
<1>2. n \in Nat /\ n < Base * Base /\ n <= Len(s)
  <2> DEFINE b == Base * Base
             d == Len(s) \div b
  <2>1. b \in Nat /\ b > 0
    BY <1>1
  <2>2. d \in Nat /\ n \in 0 .. b - 1 /\ Len(s) = b * d + n
    <3> HIDE DEF b
    <3> QED
      BY <1>1, <2>1, Division DEF b
  <2>3. b * d >= 0
    <3> HIDE DEF b, d
    <3> QED
      BY <2>1, <2>2
  <2> HIDE DEF d, n
  <2> QED
    BY <1>1, <2>1, <2>2, <2>3
<1>3. WriteString(s) = head \o m
  BY Weights DEF WriteString, WriteSized, Width
<1>4. n = Len(s) % (Base * Base)
  OBVIOUS
<1> HIDE DEF n
<1>5. m \in Seq(Bytes) /\ Len(m) = n
  BY <1>1, <1>2
<1>6. head \in Seq(Bytes) /\ Len(head) = 2
  <2>1. PICK a \in Bytes, b \in Bytes : WriteIntBE(n, 2) = <<a, b>>
    BY <1>2, TwoDigits
  <2>2. <<a, b>> \in Seq(Bytes) /\ Len(<<a, b>>) = 2
    OBVIOUS
  <2> QED
    BY <2>1, <2>2, Zenon
<1>7. head = WriteIntBE(n, 2) /\ m = SubSeq(s, 1, n)
  OBVIOUS
<1> HIDE DEF head, m
<1>8. head \o m \in Seq(Bytes) /\ Len(head \o m) = 2 + n
  BY <1>5, <1>6, Joined, Zenon
<1> QED
  BY <1>2, <1>3, <1>4, <1>5, <1>6, <1>7, <1>8, Zenon

(* A [string] of any length, narrowed to the width of its length field, is
   then what it says: the reader finds the bytes that were written and stands
   behind them, so that what follows is read from where it was written. *)
THEOREM StringStaysDelimited ==
  ASSUME NEW data \in Seq(Nat), NEW k \in Nat, NEW v,
         NEW s \in Seq(Bytes), Holds(data, k, WriteString(s))
  PROVE  ReadString(At(data, k, v)) =
           At(data, k + Len(WriteString(s)), SubSeq(s, 1, Len(s) % (Base * Base)))
<1>1. PICK n \in Nat, head \in Seq(Bytes), m \in Seq(Bytes) :
        /\ n = Len(s) % (Base * Base) /\ n < Base * Base
        /\ head = WriteIntBE(n, 2) /\ Len(head) = 2
        /\ m = SubSeq(s, 1, n) /\ Len(m) = n
        /\ WriteString(s) = head \o m
        /\ WriteString(s) \in Seq(Bytes) /\ Len(WriteString(s)) = 2 + n
  BY StringForm, Zenon
<1>2. Holds(data, k, head) /\ Holds(data, k + 2, m)
  <2>1. Holds(data, k, head \o m) /\ Len(head) = 2
    BY <1>1, Zenon
  <2> QED
    BY <2>1, HoldsParts
<1>3. ReadShort(At(data, k, v)) = At(data, k + 2, n)
  <2>1. n < Base * Base /\ Holds(data, k, WriteIntBE(n, 2))
    BY <1>1, <1>2, Zenon
  <2> QED
    BY <2>1, ShortHeld
<1>4. Take(At(data, k + 2, n), n, "over") = At(data, k + 2 + n, m)
  <2>1. Len(m) = n
    BY <1>1, Zenon
  <2>2. k + 2 \in Nat
    OBVIOUS
  <2>3. Take(At(data, k + 2, n), Len(m), "over") = At(data, k + 2 + Len(m), m)
    BY <1>2, <2>2, TakeHeld
  <2> QED
    BY <2>1, <2>3
<1>5. Copied(At(data, k + 2, n)) = Take(At(data, k + 2, n), n, "over")
  BY DEF Copied, At
<1>6. k + 2 + n = k + Len(WriteString(s))
  <2>1. Len(WriteString(s)) = 2 + n
    BY <1>1, Zenon
  <2> QED
    BY <2>1
<1>7. m = SubSeq(s, 1, Len(s) % (Base * Base))
  BY <1>1, Zenon
<1> QED
  BY <1>3, <1>4, <1>5, <1>6, <1>7, Zenon DEF ReadString

(* A [bytes] value shorter than the limit of a signed [int], the empty one
   included, comes back as it was: ReadBytes takes the length WriteBytes put
   before it for a positive one and copies exactly the bytes that follow. *)
THEOREM BytesComeBack ==
  ASSUME NEW data \in Seq(Nat), NEW k \in Nat, NEW v,
         NEW s \in Seq(Bytes), Len(s) < (Base \div 2) * (Base * Base * Base),
         Holds(data, k, WriteBytes(s))
  PROVE  /\ WriteBytes(s) \in Seq(Bytes)
         /\ ReadBytes(At(data, k, v)) = At(data, k + Len(WriteBytes(s)), s)
<1> DEFINE n == Len(s)
           head == WriteIntBE(n, 4)
<1>1. n \in Nat /\ n < (Base \div 2) * (Base * Base * Base)
  OBVIOUS
<1>2. WriteBytes(s) = head \o s
  BY DEF WriteBytes, Width
<1>3. head \in Seq(Bytes) /\ Len(head) = 4
  BY <1>1, IntIsFour
<1> HIDE DEF head
<1>4. Holds(data, k, head) /\ Holds(data, k + 4, s)
  BY <1>2, <1>3, HoldsParts
<1>5. ReadInt(At(data, k, v)) = At(data, k + 4, n)
  BY <1>1, <1>4, IntHeld DEF head
<1>6. head \o s \in Seq(Bytes) /\ Len(head \o s) = 4 + n
  BY <1>3, Joined, Zenon
<1>7. k + 4 + n = k + Len(WriteBytes(s)) /\ WriteBytes(s) \in Seq(Bytes)
  BY <1>2, <1>6
<1>8. Counted(At(data, k + 4, n)) = At(data, k + 4 + n, s)
  <2>1. At(data, k + 4, n).st = "ok" /\ At(data, k + 4, n).v = n
    BY DEF At
  <2>2. CASE n > 0
    <3>1. Take(At(data, k + 4, n), n, "over") = At(data, k + 4 + n, s)
      BY <1>4, TakeHeld
    <3> QED
      BY <2>1, <2>2, <3>1 DEF Counted
  <2>3. CASE n = 0
    <3>1. s = <<>> /\ k + 4 + n = k + 4
      BY <2>3
    <3>2. Counted(At(data, k + 4, n)) = Return(At(data, k + 4, n), <<>>)
      BY <2>1, <2>3 DEF Counted
    <3> QED
      BY <3>1, <3>2 DEF Return, At
  <2> QED
    BY <1>1, <2>2, <2>3
<1> QED
  BY <1>5, <1>7, <1>8 DEF ReadBytes

(* A [string] shorter than the limit of [short] comes back as it was:
   ReadString finds all of what WriteString was given. *)
THEOREM StringComesBack ==
  ASSUME NEW data \in Seq(Nat), NEW k \in Nat, NEW v,
         NEW s \in Seq(Bytes), Len(s) < Base * Base, Holds(data, k, WriteString(s))
  PROVE  ReadString(At(data, k, v)) = At(data, k + Len(WriteString(s)), s)
<1> DEFINE b == Base * Base
<1>1. b \in Nat /\ b > 0 /\ Len(s) \in Nat /\ Len(s) < b
  BY BaseAssumption
<1>2. Len(s) % b = Len(s)
  <2> HIDE DEF b
  <2>1. Len(s) = b * 0 + Len(s)
    BY <1>1
  <2> QED
    BY <1>1, <2>1, QuotientUnique
<1>3. SubSeq(s, 1, Len(s)) = s
  OBVIOUS
<1>4. ReadString(At(data, k, v)) = At(data, k + Len(WriteString(s)), SubSeq(s, 1, Len(s) % (Base * Base)))
  BY StringStaysDelimited
<1> QED
  BY <1>2, <1>3, <1>4, Zenon

-----------------------------------------------------------------------------
(* Lists.                                                                  *)

(* Induction, over a set instead of a predicate. *)
LEMMA Induction ==
  ASSUME NEW S, 0 \in S, \A n \in Nat : n \in S => n + 1 \in S
  PROVE  Nat \subseteq S
<1> DEFINE Less == {nn \in Nat \X Nat : nn[1] < nn[2]}
           T == Nat \ S
<1>1. SUFFICES ASSUME T # {} PROVE FALSE
  OBVIOUS
<1>2. IsWellFoundedOn(Less, Nat)
  BY NatLessThanWellFounded, Zenon DEF OpToRel
<1>3. PICK m \in T : \A n \in T : <<n, m>> \notin Less
  <2>1. T \subseteq Nat
    OBVIOUS
  <2> HIDE DEF T, Less
  <2> QED
    BY <1>1, <1>2, <2>1, WFMin
<1>4. m \in Nat /\ m # 0 /\ m - 1 \in Nat /\ m - 1 < m
  BY <1>3
<1>5. m - 1 \notin T
  <2>1. <<m - 1, m>> \in Less
    BY <1>4
  <2> QED
    BY <1>3, <2>1
<1>6. (m - 1) + 1 = m
  BY <1>4
<1> QED
  BY <1>3, <1>4, <1>5, <1>6

(* Concat adds up its parts from the left. *)
LEMMA ConcatIs ==
  ASSUME NEW ss \in Seq(Seq(Bytes))
  PROVE  \E g : /\ g = [i \in 0 .. Len(ss) |-> IF i = 0 THEN <<>> ELSE g[i - 1] \o ss[i]]
                /\ Concat(ss) = g[Len(ss)]
                /\ \A i \in 0 .. Len(ss) : g[i] \in Seq(Bytes)
<1> DEFINE Sums(g, n) == g = [i \in 0 .. n |-> IF i = 0 THEN <<>> ELSE g[i - 1] \o ss[i]]
           S == {n \in Nat : \E g : Sums(g, n)}
<1>1. 0 \in S
  <2> DEFINE f == [i \in 0 .. 0 |-> <<>>]
  <2>1. Sums(f, 0)
    OBVIOUS
  <2> HIDE DEF f
  <2> QED
    BY <2>1, Zenon
<1>2. ASSUME NEW n \in Nat, n \in S PROVE n + 1 \in S
  <2>1. PICK g : Sums(g, n)
    BY <1>2
  <2> DEFINE f == [i \in 0 .. n + 1 |-> IF i = n + 1 THEN g[n] \o ss[n + 1] ELSE g[i]]
  <2>2. ASSUME NEW i \in 0 .. n + 1
        PROVE  f[i] = IF i = 0 THEN <<>> ELSE f[i - 1] \o ss[i]
    <3>1. CASE i = n + 1
      <4>1. i # 0 /\ i - 1 = n /\ n \in 0 .. n + 1 /\ n # n + 1
        BY <3>1
      <4>2. f[i] = g[n] \o ss[n + 1] /\ f[n] = g[n]
        BY <3>1, <4>1
      <4> HIDE DEF f
      <4> QED
        BY <3>1, <4>1, <4>2
    <3>2. CASE i # n + 1
      <4>1. i \in 0 .. n /\ f[i] = g[i]
        BY <3>2
      <4>2. i # 0 => i - 1 \in 0 .. n /\ f[i - 1] = g[i - 1]
        BY <3>2
      <4> HIDE DEF f
      <4> QED
        BY <2>1, <4>1, <4>2
    <3> QED
      BY <3>1, <3>2
  <2>3. Sums(f, n + 1)
    BY <2>2, Zenon
  <2> HIDE DEF f, Sums
  <2> QED
    BY <2>3
<1>3. Len(ss) \in S
  <2> HIDE DEF S
  <2> QED
    BY <1>1, <1>2, Induction
<1> DEFINE g == CHOOSE g : Sums(g, Len(ss))
<1>4. Sums(g, Len(ss)) /\ Concat(ss) = g[Len(ss)]
  BY <1>3, Zenon DEF Concat
<1> HIDE DEF g
<1> DEFINE R == {n \in Nat : n <= Len(ss) => g[n] \in Seq(Bytes)}
<1>5. 0 \in R
  BY <1>4
<1>6. ASSUME NEW n \in Nat, n \in R PROVE n + 1 \in R
  <2>1. SUFFICES ASSUME n + 1 <= Len(ss) PROVE g[n + 1] \in Seq(Bytes)
    OBVIOUS
  <2>2. g[n] \in Seq(Bytes) /\ ss[n + 1] \in Seq(Bytes)
    BY <1>6, <2>1
  <2>3. g[n + 1] = g[n] \o ss[n + 1]
    <3>1. n + 1 \in 0 .. Len(ss) /\ n + 1 # 0 /\ (n + 1) - 1 = n
      BY <2>1
    <3>2. g[n + 1] = g[(n + 1) - 1] \o ss[n + 1]
      BY <1>4, <3>1, Zenon
    <3> QED
      BY <3>1, <3>2
  <2> QED
    BY <2>2, <2>3, Joined, Zenon
<1>7. Nat \subseteq R
  <2> HIDE DEF R
  <2> QED
    BY <1>5, <1>6, Induction
<1>8. \A i \in 0 .. Len(ss) : g[i] \in Seq(Bytes)
  BY <1>7
<1> QED
  BY <1>4, <1>8, Zenon

(* Concat of byte strings is a byte string. *)
LEMMA ConcatBytes ==
  ASSUME NEW ss \in Seq(Seq(Bytes))
  PROVE  Concat(ss) \in Seq(Bytes)
<1>1. PICK g : /\ Concat(ss) = g[Len(ss)]
               /\ \A i \in 0 .. Len(ss) : g[i] \in Seq(Bytes)
  BY ConcatIs, Zenon
<1>2. Len(ss) \in 0 .. Len(ss)
  OBVIOUS
<1> QED
  BY <1>1, <1>2, Zenon

(* A buffer that holds the parts of a list one after the other holds each of
   them, at the offset where the one before it ends. *)
LEMMA Layout ==
  ASSUME NEW data \in Seq(Nat), NEW j \in Nat, NEW ws \in Seq(Seq(Bytes)),
         Holds(data, j, Concat(ws))
  PROVE  \E off \in [0 .. Len(ws) -> Nat] :
           /\ off[0] = j /\ off[Len(ws)] = j + Len(Concat(ws))
           /\ \A i \in 1 .. Len(ws) : off[i] = off[i - 1] + Len(ws[i]) /\ Holds(data, off[i - 1], ws[i])
           /\ (\A i \in 1 .. Len(ws) : Len(ws[i]) > 0) => Len(ws) <= Len(data)
<1> DEFINE N == Len(ws)
<1>1. N \in Nat /\ N = Len(ws)
  OBVIOUS
<1> HIDE DEF N
<1>2. PICK g : /\ g = [i \in 0 .. N |-> IF i = 0 THEN <<>> ELSE g[i - 1] \o ws[i]]
               /\ Concat(ws) = g[N]
               /\ \A i \in 0 .. N : g[i] \in Seq(Bytes)
  BY <1>1, ConcatIs, Zenon
<1>3. /\ g[0] = <<>>
      /\ \A i \in 0 .. N : g[i] \in Seq(Bytes) /\ Len(g[i]) \in Nat
  <2>1. \A x \in Seq(Bytes) : Len(x) \in Nat
    OBVIOUS
  <2>2. 0 \in 0 .. N
    BY <1>1
  <2> QED
    BY <1>2, <2>1, <2>2, Zenon
<1>4. ASSUME NEW i \in 1 .. N
      PROVE  /\ i - 1 \in 0 .. N /\ i \in 0 .. N
             /\ g[i] = g[i - 1] \o ws[i]
             /\ g[i - 1] \in Seq(Bytes) /\ ws[i] \in Seq(Bytes)
             /\ Len(ws[i]) \in Nat /\ Len(g[i - 1]) \in Nat
             /\ Len(g[i]) = Len(g[i - 1]) + Len(ws[i])
  <2>1. i \in 0 .. N /\ i - 1 \in 0 .. N /\ i # 0
    BY <1>1
  <2>2. g[i] = g[i - 1] \o ws[i]
    BY <1>2, <2>1, Zenon
  <2>3. ws[i] \in Seq(Bytes)
    BY <1>1
  <2>4. Len(ws[i]) \in Nat
    BY <2>3
  <2> QED
    BY <1>3, <2>1, <2>2, <2>3, <2>4, Joined, Zenon
<1>5. \A i \in 0 .. N : Holds(data, j, g[i])
  <2> DEFINE S == {d \in Nat : d <= N => Holds(data, j, g[N - d])}
  <2>1. 0 \in S
    <3>1. N - 0 = N
      BY <1>1
    <3> QED
      BY <1>2, <3>1
  <2>2. ASSUME NEW d \in Nat, d \in S PROVE d + 1 \in S
    <3>1. SUFFICES ASSUME d + 1 <= N PROVE Holds(data, j, g[N - (d + 1)])
      OBVIOUS
    <3> DEFINE i == N - d
    <3>2. i \in 1 .. N /\ N - (d + 1) = i - 1 /\ d <= N
      BY <1>1, <3>1
    <3> HIDE DEF i
    <3>3. Holds(data, j, g[i])
      BY <2>2, <3>2 DEF i
    <3>4. Holds(data, j, g[i - 1] \o ws[i]) /\ g[i - 1] \in Seq(Bytes) /\ ws[i] \in Seq(Bytes)
      BY <1>4, <3>2, <3>3
    <3>5. Holds(data, j, g[i - 1])
      BY <3>4, HoldsParts
    <3> QED
      BY <3>2, <3>5
  <2>3. Nat \subseteq S
    <3> HIDE DEF S
    <3> QED
      BY <2>1, <2>2, Induction
  <2>4. ASSUME NEW i \in 0 .. N PROVE Holds(data, j, g[i])
    <3>1. N - i \in Nat /\ N - i <= N /\ N - (N - i) = i
      BY <1>1
    <3>2. N - i \in S
      BY <2>3, <3>1
    <3> QED
      BY <3>1, <3>2
  <2> QED
    BY <2>4
<1> DEFINE off == [i \in 0 .. N |-> j + Len(g[i])]
<1>6. off \in [0 .. N -> Nat]
  <2>1. ASSUME NEW i \in 0 .. N PROVE j + Len(g[i]) \in Nat
    BY <1>3
  <2> QED
    BY <2>1
<1>7. off[0] = j /\ off[N] = j + Len(Concat(ws))
  <2>1. 0 \in 0 .. N /\ N \in 0 .. N
    BY <1>1
  <2>2. off[0] = j + Len(g[0]) /\ off[N] = j + Len(g[N])
    BY <2>1
  <2>3. j + Len(<<>>) = j
    OBVIOUS
  <2> HIDE DEF off
  <2> QED
    BY <1>2, <1>3, <2>2, <2>3, Zenon
<1>8. ASSUME NEW i \in 1 .. N
      PROVE  off[i] = off[i - 1] + Len(ws[i]) /\ Holds(data, off[i - 1], ws[i])
  <2>1. off[i] = j + Len(g[i]) /\ off[i - 1] = j + Len(g[i - 1])
    BY <1>4
  <2> HIDE DEF off
  <2>2. off[i] = off[i - 1] + Len(ws[i])
    <3> DEFINE x == Len(g[i - 1])
               y == Len(ws[i])
    <3>1. x \in Nat /\ y \in Nat /\ Len(g[i]) = x + y
      BY <1>4, Zenon
    <3> HIDE DEF x, y
    <3>2. j + (x + y) = (j + x) + y
      BY <3>1
    <3> QED
      BY <2>1, <3>1, <3>2, Zenon DEF x, y
  <2>3. Holds(data, j, g[i - 1] \o ws[i])
    BY <1>4, <1>5
  <2>4. Holds(data, j + Len(g[i - 1]), ws[i])
    BY <1>4, <2>3, HoldsParts
  <2> QED
    BY <2>1, <2>2, <2>4
<1>9. ASSUME \A i \in 1 .. N : Len(ws[i]) > 0 PROVE N <= Len(data)
  <2> DEFINE S == {i \in Nat : i <= N => i <= Len(g[i])}
  <2>1. 0 \in S
    BY <1>3
  <2>2. ASSUME NEW i \in Nat, i \in S PROVE i + 1 \in S
    <3>1. SUFFICES ASSUME i + 1 <= N PROVE i + 1 <= Len(g[i + 1])
      OBVIOUS
    <3>2. i + 1 \in 1 .. N /\ (i + 1) - 1 = i
      BY <1>1, <3>1
    <3>3. i <= Len(g[i])
      BY <1>1, <2>2, <3>1
    <3>4. /\ Len(g[i + 1]) = Len(g[i]) + Len(ws[i + 1]) /\ Len(ws[i + 1]) > 0
          /\ Len(g[i]) \in Nat /\ Len(ws[i + 1]) \in Nat
      BY <1>4, <1>9, <3>2
    <3> DEFINE x == Len(g[i])
               y == Len(ws[i + 1])
    <3>5. i <= x /\ y > 0 /\ x \in Nat /\ y \in Nat
      BY <3>3, <3>4, Zenon
    <3> HIDE DEF x, y
    <3>6. i + 1 <= x + y
      BY <3>5
    <3> QED
      BY <3>4, <3>6, Zenon DEF x, y
  <2>3. N \in S
    <3> HIDE DEF S
    <3> QED
      BY <1>1, <2>1, <2>2, Induction
  <2>4. N \in 0 .. N
    BY <1>1
  <2>5. Len(g[N]) \in Nat /\ j + Len(g[N]) <= Len(data) /\ Len(data) \in Nat
    BY <1>3, <1>5, <2>4 DEF Holds
  <2>6. N <= Len(g[N])
    BY <1>1, <2>3
  <2> QED
    BY <1>1, <2>5, <2>6
<1> HIDE DEF off
<1> QED
  BY <1>1, <1>6, <1>7, <1>8, <1>9

(* What a turn of the loop of Repeat makes of what it had before and what it
   has read. *)
Turn(before, next) ==
  IF next.st = "ok" THEN Return(next, Append(before.v, next.v)) ELSE next

(* What the loop has after each of its turns when it reads the values vs and
   stands at the offsets off between them. *)
Gather(data, off, vs) == [i \in 0 .. Len(vs) |-> At(data, off[i], SubSeq(vs, 1, i))]

(* Every turn adds a value. *)
LEMMA Gathered ==
  ASSUME NEW data, NEW off, NEW S, NEW vs \in Seq(S)
  PROVE  /\ Gather(data, off, vs) = [i \in 0 .. Len(vs) |-> Gather(data, off, vs)[i]]
         /\ Gather(data, off, vs)[0] = At(data, off[0], <<>>)
         /\ Gather(data, off, vs)[Len(vs)] = At(data, off[Len(vs)], vs)
         /\ \A i \in 1 .. Len(vs) :
              /\ Gather(data, off, vs)[i - 1] = At(data, off[i - 1], SubSeq(vs, 1, i - 1))
              /\ Turn(Gather(data, off, vs)[i - 1], At(data, off[i], vs[i])) = Gather(data, off, vs)[i]
<1>1. Len(vs) \in Nat /\ SubSeq(vs, 1, 0) = <<>> /\ SubSeq(vs, 1, Len(vs)) = vs
  OBVIOUS
<1>2. /\ Gather(data, off, vs)[0] = At(data, off[0], <<>>)
      /\ Gather(data, off, vs)[Len(vs)] = At(data, off[Len(vs)], vs)
  <2>1. 0 \in 0 .. Len(vs) /\ Len(vs) \in 0 .. Len(vs)
    BY <1>1
  <2> QED
    BY <1>1, <2>1, Zenon DEF Gather
<1>3. ASSUME NEW i \in 1 .. Len(vs)
      PROVE  /\ Gather(data, off, vs)[i - 1] = At(data, off[i - 1], SubSeq(vs, 1, i - 1))
             /\ Turn(Gather(data, off, vs)[i - 1], At(data, off[i], vs[i])) = Gather(data, off, vs)[i]
  <2>1. /\ Gather(data, off, vs)[i - 1] = At(data, off[i - 1], SubSeq(vs, 1, i - 1))
        /\ Gather(data, off, vs)[i] = At(data, off[i], SubSeq(vs, 1, i))
    <3>1. i \in 0 .. Len(vs) /\ i - 1 \in 0 .. Len(vs)
      BY <1>1
    <3> QED
      BY <3>1, Zenon DEF Gather
  <2>2. Append(SubSeq(vs, 1, i - 1), vs[i]) = SubSeq(vs, 1, i)
    BY <1>1
  <2> QED
    <3> DEFINE a == off[i - 1]
               b == SubSeq(vs, 1, i - 1)
               c == off[i]
               d == vs[i]
    <3>1. /\ Gather(data, off, vs)[i - 1] = At(data, a, b)
          /\ Gather(data, off, vs)[i] = At(data, c, Append(b, d))
      BY <2>1, <2>2, Zenon
    <3> HIDE DEF a, b, c, d
    <3>2. Turn(At(data, a, b), At(data, c, d)) = At(data, c, Append(b, d))
      BY DEF Turn, Return, At
    <3>3. Turn(Gather(data, off, vs)[i - 1], At(data, c, d)) = Gather(data, off, vs)[i]
      BY <3>1, <3>2, Zenon
    <3> QED
      BY <2>1, <3>3, Zenon DEF c, d
<1>4. Gather(data, off, vs) = [i \in 0 .. Len(vs) |-> Gather(data, off, vs)[i]]
  BY DEF Gather
<1> QED
  BY <1>2, <1>3, <1>4

(* Two loops that start alike and whose turns keep them alike end alike. *)
LEMMA SameLoop ==
  ASSUME NEW n \in Nat, NEW u, NEW h, u[0] = h[0],
         \A i \in 1 .. n : u[i - 1] = h[i - 1] => u[i] = h[i]
  PROVE  u[n] = h[n]
<1> DEFINE S == {i \in Nat : i <= n => u[i] = h[i]}
<1>1. 0 \in S
  OBVIOUS
<1>2. ASSUME NEW i \in Nat, i \in S PROVE i + 1 \in S
  <2>1. SUFFICES ASSUME i + 1 <= n PROVE u[i + 1] = h[i + 1]
    OBVIOUS
  <2>2. i + 1 \in 1 .. n /\ (i + 1) - 1 = i /\ u[i] = h[i]
    BY <1>2, <2>1
  <2> QED
    BY <2>2
<1>3. n \in S
  <2> HIDE DEF S
  <2> QED
    BY <1>1, <1>2, Induction
<1> QED
  BY <1>3

(* Reading n strings, byte strings one after the other. *)
Strings(r, n) == Repeat(r, n, ReadString)
ByteStrings(r, n) == Repeat(r, n, ReadBytes)

(* The loop over strings reads them all. *)
LEMMA StringsLoop ==
  ASSUME NEW data \in Seq(Nat), NEW S, NEW vs \in Seq(S), NEW off, NEW v,
         Len(vs) <= Len(data),
         \A i \in 1 .. Len(vs) : \A x :
           ReadString(At(data, off[i - 1], x)) = At(data, off[i], vs[i])
  PROVE  Strings(At(data, off[0], v), Len(vs)) = At(data, off[Len(vs)], vs)
<1> DEFINE N == Len(vs)
           h == Gather(data, off, vs)
           Is(u) == u = [i \in 0 .. N |-> IF i = 0 THEN At(data, off[0], <<>>)
                                          ELSE Turn(u[i - 1], ReadString(u[i - 1]))]
<1>1. N \in Nat /\ N <= Len(data)
  OBVIOUS
<1>2. /\ h = [i \in 0 .. N |-> h[i]]
      /\ h[0] = At(data, off[0], <<>>) /\ h[N] = At(data, off[N], vs)
      /\ \A i \in 1 .. N : /\ h[i - 1] = At(data, off[i - 1], SubSeq(vs, 1, i - 1))
                            /\ Turn(h[i - 1], At(data, off[i], vs[i])) = h[i]
  BY Gathered
<1>3. \A i \in 1 .. N : ReadString(h[i - 1]) = At(data, off[i], vs[i])
  BY <1>2, Zenon
<1>4. Is(h)
  <2>1. \A i \in 0 .. N : i = 0 \/ i \in 1 .. N
    BY <1>1
  <2> HIDE DEF h, N
  <2>2. \A i \in 0 .. N : h[i] = IF i = 0 THEN At(data, off[0], <<>>)
                                 ELSE Turn(h[i - 1], ReadString(h[i - 1]))
    BY <1>2, <1>3, <2>1, Zenon
  <2> QED
    BY <1>2, <2>2, Zenon
<1> DEFINE u == CHOOSE u : Is(u)
<1>5. Is(u)
  BY <1>4, Zenon
<1>6. Strings(At(data, off[0], v), N) = u[N]
  <2>1. /\ Return(At(data, off[0], v), <<>>) = At(data, off[0], <<>>)
        /\ At(data, off[0], v).st = "ok" /\ At(data, off[0], v).data = data
    BY DEF Return, At
  <2> QED
    BY <1>1, <2>1, Zenon DEF Strings, Repeat, Turn
<1> HIDE DEF u
<1>7. u[0] = h[0] /\ \A i \in 1 .. N : u[i - 1] = h[i - 1] => u[i] = h[i]
  <2>1. 0 \in 0 .. N /\ \A i \in 1 .. N : i \in 0 .. N /\ i # 0
    BY <1>1
  <2> HIDE DEF h, N
  <2> QED
    BY <1>4, <1>5, <2>1, Zenon
<1>8. u[N] = h[N]
  <2> HIDE DEF h, N, Is
  <2> QED
    BY <1>1, <1>7, SameLoop
<1> QED
  BY <1>2, <1>6, <1>8, Zenon

(* The loop over byte strings reads them all. *)
LEMMA BytesLoop ==
  ASSUME NEW data \in Seq(Nat), NEW S, NEW vs \in Seq(S), NEW off, NEW v,
         Len(vs) <= Len(data),
         \A i \in 1 .. Len(vs) : \A x :
           ReadBytes(At(data, off[i - 1], x)) = At(data, off[i], vs[i])
  PROVE  ByteStrings(At(data, off[0], v), Len(vs)) = At(data, off[Len(vs)], vs)
<1> DEFINE N == Len(vs)
           h == Gather(data, off, vs)
           Is(u) == u = [i \in 0 .. N |-> IF i = 0 THEN At(data, off[0], <<>>)
                                          ELSE Turn(u[i - 1], ReadBytes(u[i - 1]))]
<1>1. N \in Nat /\ N <= Len(data)
  OBVIOUS
<1>2. /\ h = [i \in 0 .. N |-> h[i]]
      /\ h[0] = At(data, off[0], <<>>) /\ h[N] = At(data, off[N], vs)
      /\ \A i \in 1 .. N : /\ h[i - 1] = At(data, off[i - 1], SubSeq(vs, 1, i - 1))
                            /\ Turn(h[i - 1], At(data, off[i], vs[i])) = h[i]
  BY Gathered
<1>3. \A i \in 1 .. N : ReadBytes(h[i - 1]) = At(data, off[i], vs[i])
  BY <1>2, Zenon
<1>4. Is(h)
  <2>1. \A i \in 0 .. N : i = 0 \/ i \in 1 .. N
    BY <1>1
  <2> HIDE DEF h, N
  <2>2. \A i \in 0 .. N : h[i] = IF i = 0 THEN At(data, off[0], <<>>)
                                 ELSE Turn(h[i - 1], ReadBytes(h[i - 1]))
    BY <1>2, <1>3, <2>1, Zenon
  <2> QED
    BY <1>2, <2>2, Zenon
<1> DEFINE u == CHOOSE u : Is(u)
<1>5. Is(u)
  BY <1>4, Zenon
<1>6. ByteStrings(At(data, off[0], v), N) = u[N]
  <2>1. /\ Return(At(data, off[0], v), <<>>) = At(data, off[0], <<>>)
        /\ At(data, off[0], v).st = "ok" /\ At(data, off[0], v).data = data
    BY DEF Return, At
  <2> QED
    BY <1>1, <2>1, Zenon DEF ByteStrings, Repeat, Turn
<1> HIDE DEF u
<1>7. u[0] = h[0] /\ \A i \in 1 .. N : u[i - 1] = h[i - 1] => u[i] = h[i]
  <2>1. 0 \in 0 .. N /\ \A i \in 1 .. N : i \in 0 .. N /\ i # 0
    BY <1>1
  <2> HIDE DEF h, N
  <2> QED
    BY <1>4, <1>5, <2>1, Zenon
<1>8. u[N] = h[N]
  <2> HIDE DEF h, N, Is
  <2> QED
    BY <1>1, <1>7, SameLoop
<1> QED
  BY <1>2, <1>6, <1>8, Zenon

(* A list that is there starts with its count, and its parts come after it. *)
LEMMA CountHeld ==
  ASSUME NEW data \in Seq(Nat), NEW k \in Nat, NEW v, NEW n \in Nat, n < Square,
         NEW ws \in Seq(Seq(Bytes)), Holds(data, k, WriteIntBE(n, 2) \o Concat(ws))
  PROVE  /\ ReadShort(At(data, k, v)) = At(data, k + 2, n)
         /\ Holds(data, k + 2, Concat(ws))
         /\ k + Len(WriteIntBE(n, 2) \o Concat(ws)) = (k + 2) + Len(Concat(ws))
<1> DEFINE c == Concat(ws)
           m == WriteIntBE(n, 2)
<1>1. c \in Seq(Bytes)
  BY ConcatBytes
<1>2. m \in Seq(Bytes) /\ Len(m) = 2
  BY Written
<1>3. ReadShort(At(data, k, v)) = At(data, k + 2, n) /\ Holds(data, k + 2, c)
  <2> HIDE DEF c
  <2>1. Holds(data, k, m) /\ Holds(data, k + Len(m), c)
    <3> HIDE DEF m
    <3> QED
      BY <1>1, <1>2, HoldsParts DEF m, c
  <2>2. n < Base * Base
    BY Limits
  <2> QED
    BY <1>2, <2>1, <2>2, ShortHeld, ZenonT(60)
<1> HIDE DEF c, m
<1>4. Len(m \o c) = 2 + Len(c)
  BY <1>1, <1>2, Joined, Zenon
<1>5. Len(c) \in Nat
  BY <1>1
<1>6. k + Len(m \o c) = (k + 2) + Len(c)
  BY <1>4, <1>5
<1> QED
  BY <1>3, <1>6 DEF c, m

(* A list of at most as many strings as a [short] can count, each within the
   limit of its own length field, comes back string by string: the sizes that
   ReadString takes from the buffer lead it from each string to the next. *)
THEOREM StringListComesBack ==
  ASSUME NEW data \in Seq(Nat), NEW k \in Nat, NEW v,
         NEW ss \in Seq(Seq(Bytes)), Len(ss) < Base * Base,
         \A i \in 1 .. Len(ss) : Len(ss[i]) < Base * Base,
         Holds(data, k, WriteList(ss, WriteString))
  PROVE  ReadStringList(At(data, k, v)) =
           At(data, k + Len(WriteList(ss, WriteString)), ss)
<1> DEFINE N == Len(ss)
           ws == [i \in 1 .. N |-> WriteString(ss[i])]
<1>1. N \in Nat /\ N < Square /\ N = Len(ss)
  BY Limits
<1>2. ASSUME NEW i \in 1 .. N
      PROVE  /\ ss[i] \in Seq(Bytes) /\ Len(ss[i]) < Base * Base
             /\ WriteString(ss[i]) \in Seq(Bytes) /\ Len(WriteString(ss[i])) > 0
  <2>1. ss[i] \in Seq(Bytes) /\ Len(ss[i]) < Base * Base
    OBVIOUS
  <2>2. PICK n \in Nat : WriteString(ss[i]) \in Seq(Bytes) /\ Len(WriteString(ss[i])) = 2 + n
    BY <2>1, StringForm, Zenon
  <2> QED
    BY <2>1, <2>2
<1>3. ws \in Seq(Seq(Bytes)) /\ Len(ws) = N /\ \A i \in 1 .. N : ws[i] = WriteString(ss[i])
  BY <1>1, <1>2
<1>4. WriteList(ss, WriteString) = WriteIntBE(N, 2) \o Concat(ws)
  BY Zenon DEF WriteList, Width
<1> HIDE DEF ws, N
<1>5. /\ ReadShort(At(data, k, v)) = At(data, k + 2, N)
      /\ Holds(data, k + 2, Concat(ws))
      /\ k + Len(WriteList(ss, WriteString)) = (k + 2) + Len(Concat(ws))
  <2>1. Holds(data, k, WriteIntBE(N, 2) \o Concat(ws))
    BY <1>4
  <2> QED
    BY <1>1, <1>3, <1>4, <2>1, CountHeld, ZenonT(60)
<1>6. PICK off \in [0 .. N -> Nat] :
        /\ off[0] = k + 2 /\ off[N] = (k + 2) + Len(Concat(ws))
        /\ \A i \in 1 .. N : off[i] = off[i - 1] + Len(ws[i]) /\ Holds(data, off[i - 1], ws[i])
        /\ (\A i \in 1 .. N : Len(ws[i]) > 0) => N <= Len(data)
  <2>1. k + 2 \in Nat
    OBVIOUS
  <2> QED
    BY <1>3, <1>5, <2>1, Layout, ZenonT(60)
<1>7. N <= Len(data)
  BY <1>2, <1>3, <1>6
<1>8. ASSUME NEW i \in 1 .. N, NEW x
      PROVE  ReadString(At(data, off[i - 1], x)) = At(data, off[i], ss[i])
  <2>1. i - 1 \in 0 .. N
    BY <1>1
  <2>2. off[i - 1] \in Nat
    BY <1>6, <2>1
  <2>3. Holds(data, off[i - 1], WriteString(ss[i])) /\ off[i] = off[i - 1] + Len(WriteString(ss[i]))
    BY <1>3, <1>6
  <2> QED
    BY <1>2, <2>2, <2>3, StringComesBack
<1>9. Strings(At(data, off[0], N), N) = At(data, off[N], ss)
  BY <1>1, <1>7, <1>8, StringsLoop
<1>10. ReadStringList(At(data, k, v)) = Strings(At(data, k + 2, N), N)
  <2>1. At(data, k + 2, N).st = "ok" /\ At(data, k + 2, N).v = N /\ N >= 0
    BY <1>1 DEF At
  <2> QED
    BY <1>5, <2>1, Zenon DEF ReadStringList, ReadList, Strings
<1> QED
  BY <1>5, <1>6, <1>9, <1>10

-----------------------------------------------------------------------------
(* Numbers of every width.                                                 *)

(* A multiple of the base more does not change a digit. *)
LEMMA SameDigit ==
  ASSUME NEW n \in Int, NEW w \in Nat, w > 0, NEW q \in Nat
  PROVE  ((n + w * (q * Base)) \div w) % Base = (n \div w) % Base
<1>1. Base \in Nat /\ Base > 0
  BY BaseAssumption
<1>2. PICK d \in Int, e \in Nat : e < w /\ n = w * d + e /\ d = n \div w
  BY SignedDivision
<1>3. PICK x \in Int, y \in Nat : y < Base /\ d = Base * x + y /\ y = d % Base
  BY <1>1, SignedDivision
<1> DEFINE b == q * Base
<1>4. b \in Nat /\ d + b \in Int
  BY <1>1
<1>5. (n + w * b) \div w = d + b
  <2> HIDE DEF b
  <2>1. n + w * b \in Int /\ n + w * b = w * (d + b) + e
    BY <1>2, <1>4
  <2> QED
    BY <1>2, <1>4, <2>1, SignedQuotientUnique
<1>6. (d + b) % Base = y
  <2>1. d + b = Base * (x + q) + y /\ x + q \in Int
    BY <1>1, <1>3
  <2> HIDE DEF b
  <2> QED
    BY <1>1, <1>3, <1>4, <2>1, SignedQuotientUnique
<1> QED
  BY <1>2, <1>3, <1>5, <1>6

(* A negative number has the digits of its two's complement. *)
LEMMA Complement ==
  ASSUME NEW n \in Int
  PROVE  WriteIntBE(n + Base * Base * Base * Base, 4) = WriteIntBE(n, 4)
<1> DEFINE B4 == Base * Base * Base * Base
<1>1. Base \in Nat /\ Base > 0
  BY BaseAssumption
<1>2. ASSUME NEW i \in 1 .. 4
      PROVE  ((n + B4) \div Weight[4 - i]) % Base = (n \div Weight[4 - i]) % Base
  <2>1. PICK w \in Nat, q \in Nat : w > 0 /\ w = Weight[4 - i] /\ B4 = w * (q * Base)
    <3>1. CASE i = 1
      <4>1. Weight[4 - i] = Base * Base * Base
        BY <3>1, Weights
      <4>2. Base * Base * Base \in Nat /\ Base * Base * Base > 0 /\ B4 = (Base * Base * Base) * (1 * Base)
        BY <1>1
      <4> QED
        BY <4>1, <4>2
    <3>2. CASE i = 2
      <4>1. Weight[4 - i] = Base * Base
        BY <3>2, Weights
      <4>2. Base * Base \in Nat /\ Base * Base > 0 /\ B4 = (Base * Base) * (Base * Base)
        BY <1>1
      <4> QED
        BY <1>1, <4>1, <4>2
    <3>3. CASE i = 3
      <4>1. Weight[4 - i] = Base
        BY <3>3, Weights
      <4>2. Base * Base \in Nat /\ B4 = Base * ((Base * Base) * Base)
        BY <1>1
      <4> QED
        BY <1>1, <4>1, <4>2
    <3>4. CASE i = 4
      <4>1. Weight[4 - i] = 1
        BY <3>4, Weights
      <4>2. Base * Base * Base \in Nat /\ B4 = 1 * ((Base * Base * Base) * Base)
        BY <1>1
      <4> QED
        BY <4>1, <4>2
    <3> QED
      BY <3>1, <3>2, <3>3, <3>4
  <2> HIDE DEF B4
  <2>2. ((n + w * (q * Base)) \div w) % Base = (n \div w) % Base
    BY <2>1, SameDigit
  <2> QED
    BY <2>1, <2>2, Zenon
<1> HIDE DEF B4
<1>3. WriteIntBE(n + B4, 4) = WriteIntBE(n, 4)
  BY <1>2, Zenon DEF WriteIntBE
<1> QED
  BY <1>3 DEF B4

(* The value of four bytes of which the first has its upper half used. *)
LEMMA SignedFourNegative ==
  ASSUME NEW a \in Bytes, NEW b \in Bytes, NEW c \in Bytes, NEW d \in Bytes,
         ~(a < Base \div 2)
  PROVE  Signed(<<a, b, c, d>>) = (a - Base) * (Base * Base * Base) + ((b * Base + c) * Base + d)
<1>1. Tail(<<a, b, c, d>>) = <<b, c, d>> /\ Len(<<a, b, c, d>>) = 4
  OBVIOUS
<1>2. Unsigned(<<b, c, d>>) = (b * Base + c) * Base + d
  BY UnsignedThree
<1>3. Weight[4 - 1] = Base * Base * Base
  BY Weights
<1>4. <<a, b, c, d>>[1] = a
  OBVIOUS
<1> QED
  BY <1>1, <1>2, <1>3, <1>4, Zenon DEF Signed

(* An [int] of either sign is read as it was written. *)
LEMMA SignedHeld ==
  ASSUME NEW data \in Seq(Nat), NEW k \in Nat, NEW v, NEW n \in Ints,
         Holds(data, k, WriteIntBE(n, 4))
  PROVE  ReadInt(At(data, k, v)) = At(data, k + 4, n)
<1> DEFINE B3 == Base * Base * Base
           half == Base \div 2
           p == n + Base * Base * Base * Base
<1>1. /\ Base \in Nat /\ B3 \in Nat /\ B3 > 0 /\ half \in Nat /\ 2 * half <= Base
      /\ IntLimit = half * B3 /\ n \in Int
  BY BaseAssumption, Limits DEF Ints
<1>2. CASE n >= 0
  <2>1. n \in Nat /\ n < half * B3
    <3> HIDE DEF half, B3
    <3> QED
      BY <1>1, <1>2, Limits DEF Ints
  <2> QED
    BY <2>1, IntHeld
<1>3. CASE n < 0
  <2>1. Base * B3 = Base * Base * Base * Base /\ Base * B3 \in Nat
    BY <1>1
  <2>2. p \in Nat /\ p < Base * B3 /\ p = n + Base * B3 /\ p >= Base * B3 - half * B3
    <3>1. half * B3 <= Base * B3 /\ half * B3 \in Nat
      <4> HIDE DEF half, B3
      <4> QED
        BY <1>1
    <3>2. n >= -(half * B3)
      BY <1>1, Limits DEF Ints
    <3>3. p = n + Base * B3
      BY <1>1, <2>1
    <3> DEFINE x == half * B3
               y == Base * B3
    <3> HIDE DEF x, y, p
    <3> QED
      BY <1>1, <1>3, <2>1, <3>1, <3>2, <3>3 DEF x, y
  <2>3. WriteIntBE(p, 4) = WriteIntBE(n, 4)
    BY <1>1, Complement
  <2> HIDE DEF p
  <2>4. PICK a \in Bytes, b \in Bytes, c \in Bytes, d \in Bytes :
          /\ p = a * (Base * Base * Base) + ((b * Base + c) * Base + d)
          /\ WriteIntBE(p, 4) = <<a, b, c, d>>
    BY <2>1, <2>2, FourDigits
  <2> DEFINE r == (b * Base + c) * Base + d
  <2>5. r \in Nat /\ r < B3 /\ a \in Nat
    <3>1. b * Base + c <= (Base - 1) * Base + (Base - 1) /\ b * Base + c \in Nat
      BY <1>1 DEF Bytes
    <3> DEFINE e == b * Base + c
    <3>2. e <= Base * Base - 1 /\ e \in Nat
      BY <1>1, <3>1
    <3> HIDE DEF e
    <3>3. e * Base <= (Base * Base - 1) * Base
      BY <1>1, <3>2
    <3>4. (Base * Base - 1) * Base = B3 - Base
      BY <1>1
    <3>5. e * Base + d < B3 /\ e * Base + d \in Nat
      BY <1>1, <3>2, <3>3, <3>4 DEF Bytes
    <3> QED
      BY <3>5 DEF e, Bytes
  <2>6. ~(a < half)
    <3>1. a * B3 + r >= Base * B3 - half * B3 /\ r < B3
      BY <2>2, <2>4, <2>5
    <3> HIDE DEF B3, r, half
    <3>2. (a + 1) * B3 > (Base - half) * B3
      BY <1>1, <2>5, <3>1
    <3>3. a + 1 > Base - half
      BY <1>1, <2>5, <3>2
    <3> QED
      BY <1>1, <2>5, <3>3
  <2>7. (a - Base) * B3 + r = n
    <3>1. p = a * B3 + r
      BY <2>4
    <3> HIDE DEF B3, r
    <3>2. (a - Base) * B3 = a * B3 - Base * B3
      BY <1>1, <2>5
    <3>3. a * B3 \in Int /\ Base * B3 \in Int
      BY <1>1, <2>5
    <3> QED
      BY <1>1, <2>2, <2>5, <3>1, <3>2, <3>3
  <2>8. Signed(<<a, b, c, d>>) = n
    BY <2>6, <2>7, SignedFourNegative
  <2>9. <<a, b, c, d>> \in Seq(Bytes) /\ Len(<<a, b, c, d>>) = 4
    OBVIOUS
  <2>10. Take(At(data, k, v), 4, "throw") = At(data, k + 4, <<a, b, c, d>>)
    <3>1. PICK m \in Seq(Bytes) : m = <<a, b, c, d>> /\ Len(m) = 4 /\ Holds(data, k, m)
      BY <2>3, <2>4, <2>9
    <3>2. Take(At(data, k, v), Len(m), "throw") = At(data, k + Len(m), m)
      BY <3>1, TakeHeld
    <3> QED
      BY <3>1, <3>2
  <2>11. ReadInt(At(data, k, v)) = AsSigned(At(data, k + 4, <<a, b, c, d>>))
    BY <2>10 DEF ReadInt, ReadSigned, EnsureSize, Width
  <2>12. AsSigned(At(data, k + 4, <<a, b, c, d>>)) = At(data, k + 4, n)
    BY <2>8 DEF AsSigned, Return, At
  <2> QED
    BY <2>11, <2>12
<1> QED
  BY <1>1, <1>2, <1>3

(* What one byte is worth. *)
LEMMA UnsignedOne ==
  ASSUME NEW a \in Bytes
  PROVE  Unsigned(<<a>>) = a
<1> DEFINE s == <<a>>
           f == [i \in 0 .. 1 |-> IF i = 0 THEN 0 ELSE a]
<1>1. Base \in Nat /\ a \in Nat /\ Len(s) = 1
  BY BaseAssumption DEF Bytes
<1>2. f = [i \in 0 .. Len(s) |-> IF i = 0 THEN 0 ELSE f[i - 1] * Base + s[i]]
  <2>1. ASSUME NEW i \in 0 .. 1
        PROVE  f[i] = IF i = 0 THEN 0 ELSE f[i - 1] * Base + s[i]
    BY <1>1, <2>1
  <2> QED
    BY <1>1, <2>1, Zenon
<1> HIDE DEF f
<1>3. PICK g : /\ g = [i \in 0 .. Len(s) |-> IF i = 0 THEN 0 ELSE g[i - 1] * Base + s[i]]
               /\ Unsigned(s) = g[Len(s)]
  BY <1>2, UnsignedIs, Zenon
<1>4. g[0] = 0
  BY <1>1, <1>3
<1> QED
  BY <1>1, <1>3, <1>4

(* A byte that is there is read as it was written. *)
LEMMA ByteHeld ==
  ASSUME NEW data \in Seq(Nat), NEW k \in Nat, NEW v, NEW n \in Bytes,
         Holds(data, k, WriteIntBE(n, 1))
  PROVE  ReadByte(At(data, k, v)) = At(data, k + 1, n)
<1>1. Base \in Nat /\ Base > 0 /\ n \in Nat /\ n < Base
  BY BaseAssumption DEF Bytes
<1>2. WriteIntBE(n, 1) = <<n>>
  <2>1. WriteIntBE(n, 1) = [i \in 1 .. 1 |-> (n \div Weight[1 - i]) % Base]
    BY DEF WriteIntBE
  <2>2. (n \div Weight[1 - 1]) % Base = n
    <3>1. Weight[1 - 1] = 1
      BY Weights
    <3>2. n \div 1 = n /\ n % Base = n
      BY <1>1
    <3> QED
      BY <3>1, <3>2, Zenon
  <2> QED
    BY <2>1, <2>2
<1>3. Take(At(data, k, v), 1, "throw") = At(data, k + 1, <<n>>)
  <2>1. <<n>> \in Seq(Bytes) /\ Len(<<n>>) = 1
    OBVIOUS
  <2>2. PICK m \in Seq(Bytes) : m = <<n>> /\ Len(m) = 1 /\ Holds(data, k, m)
    BY <1>2, <2>1
  <2>3. Take(At(data, k, v), Len(m), "throw") = At(data, k + Len(m), m)
    BY <2>2, TakeHeld
  <2> QED
    BY <2>2, <2>3
<1>4. Unsigned(<<n>>) = n
  BY UnsignedOne
<1>5. ReadByte(At(data, k, v)) = AsUnsigned(At(data, k + 1, <<n>>))
  BY <1>3 DEF ReadByte, ReadUnsigned, EnsureSize, Width
<1>6. AsUnsigned(At(data, k + 1, <<n>>)) = At(data, k + 1, n)
  BY <1>4 DEF AsUnsigned, Return, At
<1> QED
  BY <1>5, <1>6

(* So is a signed [short] that is not negative: the stream of a frame. *)
LEMMA SignedShortHeld ==
  ASSUME NEW data \in Seq(Nat), NEW k \in Nat, NEW v,
         NEW n \in Nat, n < (Base \div 2) * Base, Holds(data, k, WriteIntBE(n, 2))
  PROVE  ReadSigned(At(data, k, v), 2) = At(data, k + 2, n)
<1> DEFINE half == Base \div 2
<1>1. Base \in Nat /\ Base > 0 /\ half \in Nat /\ half <= Base
  BY BaseAssumption
<1>2. n < Base * Base
  <2>1. half * Base <= Base * Base /\ half * Base \in Nat /\ Base * Base \in Nat
    <3> HIDE DEF half
    <3> QED
      BY <1>1
  <2> HIDE DEF half
  <2>2. n < half * Base
    BY DEF half
  <2> QED
    BY <2>1, <2>2
<1>3. PICK a \in Bytes, b \in Bytes : n = a * Base + b /\ WriteIntBE(n, 2) = <<a, b>>
  BY <1>2, TwoDigits
<1>4. a < half
  <2>1. a \in Nat /\ b \in Nat /\ a * Base <= n /\ n < half * Base
    BY <1>1, <1>3 DEF Bytes
  <2> HIDE DEF half
  <2> QED
    BY <1>1, <2>1
<1>5. Signed(<<a, b>>) = n
  <2>1. Tail(<<a, b>>) = <<b>> /\ Len(<<a, b>>) = 2 /\ <<a, b>>[1] = a
    OBVIOUS
  <2>2. Unsigned(<<b>>) = b
    BY UnsignedOne
  <2>3. Weight[2 - 1] = Base
    BY Weights
  <2>4. Signed(<<a, b>>) = a * Base + b
    BY <1>4, <2>1, <2>2, <2>3, Zenon DEF Signed
  <2> QED
    BY <1>3, <2>4
<1>6. Take(At(data, k, v), 2, "throw") = At(data, k + 2, <<a, b>>)
  <2>1. <<a, b>> \in Seq(Bytes) /\ Len(<<a, b>>) = 2
    OBVIOUS
  <2>2. PICK m \in Seq(Bytes) : m = <<a, b>> /\ Len(m) = 2 /\ Holds(data, k, m)
    BY <1>3, <2>1
  <2>3. Take(At(data, k, v), Len(m), "throw") = At(data, k + Len(m), m)
    BY <2>2, TakeHeld
  <2> QED
    BY <2>2, <2>3
<1>7. ReadSigned(At(data, k, v), 2) = AsSigned(At(data, k + 2, <<a, b>>))
  BY <1>6 DEF ReadSigned, EnsureSize
<1>8. AsSigned(At(data, k + 2, <<a, b>>)) = At(data, k + 2, n)
  BY <1>5 DEF AsSigned, Return, At
<1> QED
  BY <1>7, <1>8

(* What follows two pieces of a buffer follows their concatenation. *)
LEMMA After ==
  ASSUME NEW k \in Nat, NEW m \in Seq(Bytes), NEW n \in Seq(Bytes)
  PROVE  /\ k + Len(m) \in Nat
         /\ (k + Len(m)) + Len(n) = k + Len(m \o n)
<1>1. Len(m) \in Nat /\ Len(n) \in Nat
  OBVIOUS
<1>2. Len(m \o n) = Len(m) + Len(n)
  BY Joined
<1> DEFINE x == Len(m)
           y == Len(n)
<1>3. x \in Nat /\ y \in Nat /\ Len(m \o n) = x + y
  BY <1>1, <1>2, Zenon
<1> HIDE DEF x, y
<1>4. k + x \in Nat /\ (k + x) + y = k + (x + y)
  BY <1>3
<1> QED
  BY <1>3, <1>4, Zenon DEF x, y

(* What is written of a [string] or a [bytes] is bytes, the length first. *)
LEMMA TextsWritten ==
  ASSUME NEW s \in Seq(Bytes)
  PROVE  /\ WriteString(s) \in Seq(Bytes) /\ Len(WriteString(s)) >= 2
         /\ WriteShortBytes(s) = WriteString(s)
         /\ WriteBytes(s) \in Seq(Bytes) /\ Len(WriteBytes(s)) = 4 + Len(s)
         /\ WriteLongString(s) = WriteBytes(s)
<1>1. PICK n \in Nat : WriteString(s) \in Seq(Bytes) /\ Len(WriteString(s)) = 2 + n
  BY StringForm, Zenon
<1>2. Len(WriteString(s)) >= 2
  BY <1>1
<1>3. WriteShortBytes(s) = WriteString(s) /\ WriteLongString(s) = WriteBytes(s)
  BY DEF WriteShortBytes, WriteString, WriteLongString, WriteBytes
<1> DEFINE m == WriteIntBE(Len(s), 4)
<1>4. m \in Seq(Bytes) /\ Len(m) = 4
  <2>1. Len(s) \in Int
    OBVIOUS
  <2> QED
    BY <2>1, Written
<1>5. WriteBytes(s) = m \o s
  BY DEF WriteBytes, Width
<1> HIDE DEF m
<1>6. m \o s \in Seq(Bytes) /\ Len(m \o s) = 4 + Len(s)
  BY <1>4, Joined, Zenon
<1> QED
  BY <1>1, <1>2, <1>3, <1>5, <1>6, Zenon

(* A [short bytes] value comes back as it was: the id of a statement. *)
LEMMA ShortBytesComeBack ==
  ASSUME NEW data \in Seq(Nat), NEW k \in Nat, NEW v,
         NEW s \in Seq(Bytes), Len(s) < Base * Base, Holds(data, k, WriteShortBytes(s))
  PROVE  ReadShortBytes(At(data, k, v)) = At(data, k + Len(WriteShortBytes(s)), s)
<1>1. PICK n \in Nat, head \in Seq(Bytes), m \in Seq(Bytes) :
        /\ n = Len(s) % (Base * Base) /\ n < Base * Base
        /\ head = WriteIntBE(n, 2) /\ Len(head) = 2
        /\ m = SubSeq(s, 1, n) /\ Len(m) = n
        /\ WriteString(s) = head \o m
        /\ WriteString(s) \in Seq(Bytes) /\ Len(WriteString(s)) = 2 + n
  BY StringForm, Zenon
<1>2. WriteShortBytes(s) = WriteString(s)
  BY TextsWritten
<1>3. n = Len(s) /\ m = s
  <2> DEFINE b == Base * Base
  <2>1. b \in Nat /\ b > 0 /\ Len(s) \in Nat /\ Len(s) < b
    BY BaseAssumption
  <2>2. n = Len(s) % b
    BY <1>1, Zenon
  <2> HIDE DEF b
  <2>3. Len(s) = b * 0 + Len(s)
    BY <2>1
  <2>4. n = Len(s)
    BY <2>1, <2>2, <2>3, QuotientUnique
  <2>5. SubSeq(s, 1, Len(s)) = s
    OBVIOUS
  <2> QED
    BY <1>1, <2>4, <2>5, Zenon
<1>4. Holds(data, k, head) /\ Holds(data, k + 2, m)
  <2>1. Holds(data, k, head \o m) /\ Len(head) = 2
    BY <1>1, <1>2, Zenon
  <2> QED
    BY <2>1, HoldsParts
<1>5. ReadShort(At(data, k, v)) = At(data, k + 2, n)
  <2>1. n < Base * Base /\ Holds(data, k, WriteIntBE(n, 2))
    BY <1>1, <1>4, Zenon
  <2> QED
    BY <2>1, ShortHeld
<1>6. Len(s) \in Nat /\ k + 2 \in Nat /\ Holds(data, k + 2, s)
  BY <1>3, <1>4
<1>7. Counted(At(data, k + 2, n)) = At(data, k + 2 + n, s)
  <2>1. At(data, k + 2, n).st = "ok" /\ At(data, k + 2, n).v = n
    BY DEF At
  <2>2. CASE n > 0
    <3>1. Take(At(data, k + 2, n), n, "over") = At(data, k + 2 + n, s)
      BY <1>3, <1>6, TakeHeld, ZenonT(60)
    <3> QED
      BY <2>1, <2>2, <3>1 DEF Counted
  <2>3. CASE n = 0
    <3>1. Len(s) = 0
      BY <1>3, <2>3
    <3>2. s = <<>> /\ k + 2 + n = k + 2
      BY <2>3, <3>1
    <3>3. Counted(At(data, k + 2, n)) = Return(At(data, k + 2, n), <<>>)
      BY <2>1, <2>3 DEF Counted
    <3> QED
      BY <3>2, <3>3 DEF Return, At
  <2> QED
    BY <2>2, <2>3
<1>8. k + 2 + n = k + Len(WriteShortBytes(s))
  <2>1. Len(WriteShortBytes(s)) = 2 + n
    BY <1>1, <1>2, Zenon
  <2> QED
    BY <2>1
<1> QED
  BY <1>5, <1>7, <1>8 DEF ReadShortBytes

-----------------------------------------------------------------------------
(* Lists of byte strings and maps of strings.                              *)

(* A list of byte strings, as the parameters of a query are read. *)
ReadBytesList(r) == ReadList(ReadShort(r), ReadBytes)

(* A [bytes] value takes at least its length field. *)
LEMMA BytesWritten ==
  ASSUME NEW s \in Texts
  PROVE  WriteBytes(s) \in Seq(Bytes) /\ Len(WriteBytes(s)) > 0
<1>1. s \in Seq(Bytes)
  BY DEF Texts
<1>2. Len(s) \in Nat
  BY <1>1
<1> QED
  BY <1>1, <1>2, TextsWritten

(* A byte string comes back, wherever in the buffer it is. *)
LEMMA BytesReadBack ==
  ASSUME NEW data \in Seq(Nat), NEW k \in Nat, NEW v, NEW s \in Texts, Holds(data, k, WriteBytes(s))
  PROVE  ReadBytes(At(data, k, v)) = At(data, k + Len(WriteBytes(s)), s)
  BY BytesComeBack, Limits DEF Texts

(* A list of at most as many byte strings as a [short] can count, each within the
   limit of [int], comes back. *)
LEMMA BytesListComesBack ==
  ASSUME NEW data \in Seq(Nat), NEW k \in Nat, NEW v,
         NEW ss \in Seq(Texts), Len(ss) < Square,
         Holds(data, k, WriteList(ss, WriteBytes))
  PROVE  ReadBytesList(At(data, k, v)) =
           At(data, k + Len(WriteList(ss, WriteBytes)), ss)
<1> DEFINE N == Len(ss)
           ws == [i \in 1 .. N |-> WriteBytes(ss[i])]
<1>1. N \in Nat /\ N < Square /\ N = Len(ss)
  BY Limits
<1>2. ASSUME NEW i \in 1 .. N
      PROVE  /\ ss[i] \in Texts
             /\ WriteBytes(ss[i]) \in Seq(Bytes) /\ Len(WriteBytes(ss[i])) > 0
  <2>1. ss[i] \in Texts
    OBVIOUS
  <2>2. WriteBytes(ss[i]) \in Seq(Bytes) /\ Len(WriteBytes(ss[i])) > 0
    BY <2>1, BytesWritten
  <2> QED
    BY <2>1, <2>2
<1>3. ws \in Seq(Seq(Bytes)) /\ Len(ws) = N /\ \A i \in 1 .. N : ws[i] = WriteBytes(ss[i])
  BY <1>1, <1>2
<1>4. WriteList(ss, WriteBytes) = WriteIntBE(N, 2) \o Concat(ws)
  BY Zenon DEF WriteList, Width
<1> HIDE DEF ws, N
<1>5. /\ ReadShort(At(data, k, v)) = At(data, k + 2, N)
      /\ Holds(data, k + 2, Concat(ws))
      /\ k + Len(WriteList(ss, WriteBytes)) = (k + 2) + Len(Concat(ws))
  <2>1. Holds(data, k, WriteIntBE(N, 2) \o Concat(ws))
    BY <1>4
  <2> QED
    BY <1>1, <1>3, <1>4, <2>1, CountHeld, ZenonT(60)
<1>6. PICK off \in [0 .. N -> Nat] :
        /\ off[0] = k + 2 /\ off[N] = (k + 2) + Len(Concat(ws))
        /\ \A i \in 1 .. N : off[i] = off[i - 1] + Len(ws[i]) /\ Holds(data, off[i - 1], ws[i])
        /\ (\A i \in 1 .. N : Len(ws[i]) > 0) => N <= Len(data)
  <2>1. k + 2 \in Nat
    OBVIOUS
  <2> QED
    BY <1>3, <1>5, <2>1, Layout, ZenonT(60)
<1>7. N <= Len(data)
  BY <1>2, <1>3, <1>6
<1>8. ASSUME NEW i \in 1 .. N, NEW x
      PROVE  ReadBytes(At(data, off[i - 1], x)) = At(data, off[i], ss[i])
  <2>1. i - 1 \in 0 .. N
    BY <1>1
  <2>2. off[i - 1] \in Nat
    BY <1>6, <2>1
  <2>3. Holds(data, off[i - 1], WriteBytes(ss[i])) /\ off[i] = off[i - 1] + Len(WriteBytes(ss[i]))
    BY <1>3, <1>6
  <2> QED
    BY <1>2, <2>2, <2>3, BytesReadBack
<1>9. ByteStrings(At(data, off[0], N), N) = At(data, off[N], ss)
  BY <1>1, <1>7, <1>8, BytesLoop
<1>10. ReadBytesList(At(data, k, v)) = ByteStrings(At(data, k + 2, N), N)
  <2>1. At(data, k + 2, N).st = "ok" /\ At(data, k + 2, N).v = N /\ N >= 0
    BY <1>1 DEF At
  <2> QED
    BY <1>5, <2>1, Zenon DEF ReadList, ByteStrings, ReadBytesList
<1> QED
  BY <1>5, <1>6, <1>9, <1>10

(* An entry of a map of strings, as a node reads it. *)
ReadPair(r) ==
  LET key == ReadString(r) value == ReadString(key) IN Return(value, <<key.v, value.v>>)
Pairs(r, n) == Repeat(r, n, ReadPair)
ReadStringMap(r) == ReadList(ReadShort(r), ReadPair)

(* The loop over entries reads them all. *)
LEMMA PairsLoop ==
  ASSUME NEW data \in Seq(Nat), NEW S, NEW vs \in Seq(S), NEW off, NEW v,
         Len(vs) <= Len(data),
         \A i \in 1 .. Len(vs) : \A x :
           ReadPair(At(data, off[i - 1], x)) = At(data, off[i], vs[i])
  PROVE  Pairs(At(data, off[0], v), Len(vs)) = At(data, off[Len(vs)], vs)
<1> DEFINE N == Len(vs)
           h == Gather(data, off, vs)
           Is(u) == u = [i \in 0 .. N |-> IF i = 0 THEN At(data, off[0], <<>>)
                                          ELSE Turn(u[i - 1], ReadPair(u[i - 1]))]
<1>1. N \in Nat /\ N <= Len(data)
  OBVIOUS
<1>2. /\ h = [i \in 0 .. N |-> h[i]]
      /\ h[0] = At(data, off[0], <<>>) /\ h[N] = At(data, off[N], vs)
      /\ \A i \in 1 .. N : /\ h[i - 1] = At(data, off[i - 1], SubSeq(vs, 1, i - 1))
                            /\ Turn(h[i - 1], At(data, off[i], vs[i])) = h[i]
  BY Gathered
<1>3. \A i \in 1 .. N : ReadPair(h[i - 1]) = At(data, off[i], vs[i])
  BY <1>2, Zenon
<1>4. Is(h)
  <2>1. \A i \in 0 .. N : i = 0 \/ i \in 1 .. N
    BY <1>1
  <2> HIDE DEF h, N
  <2>2. \A i \in 0 .. N : h[i] = IF i = 0 THEN At(data, off[0], <<>>)
                                 ELSE Turn(h[i - 1], ReadPair(h[i - 1]))
    BY <1>2, <1>3, <2>1, Zenon
  <2> QED
    BY <1>2, <2>2, Zenon
<1> DEFINE u == CHOOSE u : Is(u)
<1>5. Is(u)
  BY <1>4, Zenon
<1>6. Pairs(At(data, off[0], v), N) = u[N]
  <2>1. /\ Return(At(data, off[0], v), <<>>) = At(data, off[0], <<>>)
        /\ At(data, off[0], v).st = "ok" /\ At(data, off[0], v).data = data
    BY DEF Return, At
  <2> QED
    BY <1>1, <2>1, Zenon DEF Pairs, Repeat, Turn
<1> HIDE DEF u
<1>7. u[0] = h[0] /\ \A i \in 1 .. N : u[i - 1] = h[i - 1] => u[i] = h[i]
  <2>1. 0 \in 0 .. N /\ \A i \in 1 .. N : i \in 0 .. N /\ i # 0
    BY <1>1
  <2> HIDE DEF h, N
  <2> QED
    BY <1>4, <1>5, <2>1, Zenon
<1>8. u[N] = h[N]
  <2> HIDE DEF h, N, Is
  <2> QED
    BY <1>1, <1>7, SameLoop
<1> QED
  BY <1>2, <1>6, <1>8, Zenon

(* An entry of a map of strings is written as bytes. *)
LEMMA PairWritten ==
  ASSUME NEW p \in ShortTexts \X ShortTexts
  PROVE  WritePair(p) \in Seq(Bytes) /\ Len(WritePair(p)) > 0
<1>1. p[1] \in Seq(Bytes) /\ p[2] \in Seq(Bytes)
  BY DEF ShortTexts
<1> DEFINE a == WriteString(p[1])
           b == WriteString(p[2])
<1>2. a \in Seq(Bytes) /\ b \in Seq(Bytes) /\ Len(a) >= 2
  BY <1>1, TextsWritten
<1>3. WritePair(p) = a \o b
  BY DEF WritePair
<1> HIDE DEF a, b
<1>4. Len(a) \in Nat /\ Len(b) \in Nat
  BY <1>2
<1>5. a \o b \in Seq(Bytes) /\ Len(a \o b) = Len(a) + Len(b)
  BY <1>2, Joined
<1> QED
  BY <1>2, <1>3, <1>4, <1>5

(* A node reads back the entry of a map of strings. *)
LEMMA PairReadBack ==
  ASSUME NEW data \in Seq(Nat), NEW k \in Nat, NEW v, NEW p \in ShortTexts \X ShortTexts,
         Holds(data, k, WritePair(p))
  PROVE  ReadPair(At(data, k, v)) = At(data, k + Len(WritePair(p)), p)
<1>1. /\ p[1] \in Seq(Bytes) /\ Len(p[1]) < Base * Base
      /\ p[2] \in Seq(Bytes) /\ Len(p[2]) < Base * Base /\ <<p[1], p[2]>> = p
  BY Limits DEF ShortTexts
<1> DEFINE a == WriteString(p[1])
           b == WriteString(p[2])
           j == k + Len(a)
<1>2. a \in Seq(Bytes) /\ b \in Seq(Bytes)
  BY <1>1, TextsWritten
<1>3. Holds(data, k, a) /\ Holds(data, j, b) /\ j \in Nat /\ j + Len(b) = k + Len(a \o b)
  <2>1. Holds(data, k, a \o b)
    BY DEF WritePair
  <2> HIDE DEF a, b
  <2> QED
    BY <1>2, <2>1, HoldsParts, After
<1> HIDE DEF j
<1>4. ReadString(At(data, k, v)) = At(data, j, p[1])
  BY <1>1, <1>3, StringComesBack DEF j
<1>5. ReadString(At(data, j, p[1])) = At(data, j + Len(b), p[2])
  BY <1>1, <1>3, StringComesBack
<1>6. ReadPair(At(data, k, v)) = Return(At(data, j + Len(b), p[2]), <<p[1], p[2]>>)
  <2>1. At(data, j, p[1]).v = p[1] /\ At(data, j + Len(b), p[2]).v = p[2]
    BY DEF At
  <2> QED
    BY <1>4, <1>5, <2>1, Zenon DEF ReadPair
<1>7. Return(At(data, j + Len(b), p[2]), p) = At(data, j + Len(b), p)
  BY DEF Return, At
<1> QED
  BY <1>1, <1>3, <1>6, <1>7, Zenon DEF WritePair

(* A map of strings within the limits of [short], written in whatever order it is
   iterated, is read by a node entry by entry: the options of STARTUP. *)
THEOREM StringMapComesBack ==
  ASSUME NEW data \in Seq(Nat), NEW k \in Nat, NEW v,
         NEW ss \in Seq(ShortTexts \X ShortTexts), Len(ss) < Square,
         Holds(data, k, WriteStringMap(ss))
  PROVE  ReadStringMap(At(data, k, v)) =
           At(data, k + Len(WriteStringMap(ss)), ss)
<1> DEFINE N == Len(ss)
           ws == [i \in 1 .. N |-> WritePair(ss[i])]
<1>1. N \in Nat /\ N < Square /\ N = Len(ss)
  BY Limits
<1>2. ASSUME NEW i \in 1 .. N
      PROVE  /\ ss[i] \in ShortTexts \X ShortTexts
             /\ WritePair(ss[i]) \in Seq(Bytes) /\ Len(WritePair(ss[i])) > 0
  <2>1. ss[i] \in ShortTexts \X ShortTexts
    OBVIOUS
  <2>2. WritePair(ss[i]) \in Seq(Bytes) /\ Len(WritePair(ss[i])) > 0
    BY <2>1, PairWritten
  <2> QED
    BY <2>1, <2>2
<1>3. ws \in Seq(Seq(Bytes)) /\ Len(ws) = N /\ \A i \in 1 .. N : ws[i] = WritePair(ss[i])
  BY <1>1, <1>2
<1>4. WriteStringMap(ss) = WriteIntBE(N, 2) \o Concat(ws)
  BY Zenon DEF WriteList, Width, WriteStringMap
<1> HIDE DEF ws, N
<1>5. /\ ReadShort(At(data, k, v)) = At(data, k + 2, N)
      /\ Holds(data, k + 2, Concat(ws))
      /\ k + Len(WriteStringMap(ss)) = (k + 2) + Len(Concat(ws))
  <2>1. Holds(data, k, WriteIntBE(N, 2) \o Concat(ws))
    BY <1>4
  <2> QED
    BY <1>1, <1>3, <1>4, <2>1, CountHeld, ZenonT(60)
<1>6. PICK off \in [0 .. N -> Nat] :
        /\ off[0] = k + 2 /\ off[N] = (k + 2) + Len(Concat(ws))
        /\ \A i \in 1 .. N : off[i] = off[i - 1] + Len(ws[i]) /\ Holds(data, off[i - 1], ws[i])
        /\ (\A i \in 1 .. N : Len(ws[i]) > 0) => N <= Len(data)
  <2>1. k + 2 \in Nat
    OBVIOUS
  <2> QED
    BY <1>3, <1>5, <2>1, Layout
<1>7. N <= Len(data)
  BY <1>2, <1>3, <1>6
<1>8. ASSUME NEW i \in 1 .. N, NEW x
      PROVE  ReadPair(At(data, off[i - 1], x)) = At(data, off[i], ss[i])
  <2>1. i - 1 \in 0 .. N
    BY <1>1
  <2>2. off[i - 1] \in Nat
    BY <1>6, <2>1
  <2>3. Holds(data, off[i - 1], WritePair(ss[i])) /\ off[i] = off[i - 1] + Len(WritePair(ss[i]))
    BY <1>3, <1>6
  <2> QED
    BY <1>2, <2>2, <2>3, PairReadBack
<1>9. Pairs(At(data, off[0], N), N) = At(data, off[N], ss)
  BY <1>1, <1>7, <1>8, PairsLoop
<1>10. ReadStringMap(At(data, k, v)) = Pairs(At(data, k + 2, N), N)
  <2>1. At(data, k + 2, N).st = "ok" /\ At(data, k + 2, N).v = N /\ N >= 0
    BY <1>1 DEF At
  <2> QED
    BY <1>5, <2>1, Zenon DEF ReadList, Pairs, ReadStringMap
<1> QED
  BY <1>5, <1>6, <1>9, <1>10

-----------------------------------------------------------------------------
(* Parts of a buffer.                                                      *)

(* Three and more parts, one after the other. *)
LEMMA Joined3 ==
  ASSUME NEW a \in Seq(Bytes), NEW b \in Seq(Bytes), NEW c \in Seq(Bytes)
  PROVE  /\ a \o b \o c \in Seq(Bytes)
         /\ Len(a \o b \o c) = Len(a) + Len(b) + Len(c)
<1> DEFINE m == a \o b
<1>1. m \in Seq(Bytes) /\ Len(m) = Len(a) + Len(b)
  BY Joined
<1> HIDE DEF m
<1>2. m \o c \in Seq(Bytes) /\ Len(m \o c) = Len(m) + Len(c)
  BY <1>1, Joined
<1> QED
  BY <1>1, <1>2, Zenon DEF m

(* A buffer that holds three parts holds each of them. *)
LEMMA HoldsParts3 ==
  ASSUME NEW data \in Seq(Nat), NEW k \in Nat, NEW a \in Seq(Bytes), NEW b \in Seq(Bytes),
         NEW c \in Seq(Bytes), Holds(data, k, a \o b \o c)
  PROVE  /\ Holds(data, k, a) /\ Holds(data, k + Len(a), b)
         /\ Holds(data, k + (Len(a) + Len(b)), c)
<1> DEFINE m == a \o b
<1>1. m \in Seq(Bytes) /\ Len(m) = Len(a) + Len(b)
  BY Joined
<1>2. Holds(data, k, m \o c)
  OBVIOUS
<1> HIDE DEF m
<1>3. Holds(data, k, m) /\ Holds(data, k + Len(m), c)
  BY <1>1, <1>2, HoldsParts
<1>4. Holds(data, k, a) /\ Holds(data, k + Len(a), b)
  BY <1>3, HoldsParts DEF m
<1> QED
  BY <1>1, <1>3, <1>4, Zenon

(* A buffer that holds the five fields of a header holds each of them. *)
LEMMA HoldsParts5 ==
  ASSUME NEW data \in Seq(Nat), NEW k \in Nat, NEW a \in Seq(Bytes), NEW b \in Seq(Bytes),
         NEW c \in Seq(Bytes), NEW d \in Seq(Bytes), NEW e \in Seq(Bytes),
         Holds(data, k, a \o b \o c \o d \o e)
  PROVE  /\ Holds(data, k, a) /\ Holds(data, k + Len(a), b)
         /\ Holds(data, k + (Len(a) + Len(b)), c)
         /\ Holds(data, k + ((Len(a) + Len(b)) + Len(c)), d)
         /\ Holds(data, k + (((Len(a) + Len(b)) + Len(c)) + Len(d)), e)
<1> DEFINE m == a \o b \o c
<1>1. m \in Seq(Bytes) /\ Len(m) = (Len(a) + Len(b)) + Len(c)
  BY Joined3
<1>2. Holds(data, k, m \o d \o e)
  OBVIOUS
<1> HIDE DEF m
<1>3. /\ Holds(data, k, m) /\ Holds(data, k + Len(m), d)
      /\ Holds(data, k + (Len(m) + Len(d)), e)
  BY <1>1, <1>2, HoldsParts3
<1>4. /\ Holds(data, k, a) /\ Holds(data, k + Len(a), b)
      /\ Holds(data, k + (Len(a) + Len(b)), c)
  BY <1>3, HoldsParts3 DEF m
<1> QED
  BY <1>1, <1>3, <1>4, Zenon

(* Where one sequence follows another, both are found again. *)
LEMMA Cut ==
  ASSUME NEW m \in Seq(Nat), NEW n \in Seq(Nat)
  PROVE  /\ Len(m) \in Nat /\ Len(n) \in Nat
         /\ m \o n \in Seq(Nat) /\ Len(m \o n) = Len(m) + Len(n)
         /\ \A i \in 1 .. Len(m) : (m \o n)[i] = m[i]
         /\ \A i \in 1 .. Len(n) : (m \o n)[Len(m) + i] = n[i]
         /\ Holds(m \o n, 0, m)
         /\ SubSeq(m \o n, 1, Len(m)) = m
         /\ SubSeq(m \o n, Len(m) + 1, Len(m \o n)) = n
<1>1. Len(m) \in Nat /\ Len(n) \in Nat /\ m \o n \in Seq(Nat) /\ Len(m \o n) = Len(m) + Len(n)
  OBVIOUS
<1>2. /\ \A i \in 1 .. Len(m) : (m \o n)[i] = m[i]
      /\ \A i \in 1 .. Len(n) : (m \o n)[Len(m) + i] = n[i]
  OBVIOUS
<1>3. Holds(m \o n, 0, m)
  BY <1>1, <1>2 DEF Holds
<1>4. SubSeq(m \o n, 1, Len(m)) = m
  OBVIOUS
<1>5. SubSeq(m \o n, Len(m) + 1, Len(m \o n)) = n
  OBVIOUS
<1> QED
  BY <1>1, <1>2, <1>3, <1>4, <1>5

(* Sequences over a set are sequences over a larger one. *)
LEMMA Widened ==
  ASSUME NEW S, NEW T, S \subseteq T, NEW m \in Seq(S)
  PROVE  m \in Seq(T)
<1>1. Len(m) \in Nat /\ \A i \in 1 .. Len(m) : m[i] \in T
  OBVIOUS
<1>2. m = [i \in 1 .. Len(m) |-> m[i]]
  OBVIOUS
<1>3. [i \in 1 .. Len(m) |-> m[i]] \in Seq(T)
  BY <1>1
<1> QED
  BY <1>2, <1>3, Zenon

(* What a frame is made of: bytes, and the mark of LZ4. *)
Cells == 0 .. Base

(* Bytes are numbers, and what a frame may be made of. *)
LEMMA BytesAreNumbers ==
  ASSUME NEW m \in Seq(Bytes)
  PROVE  m \in Seq(Nat) /\ m \in Seq(Cells)
<1>1. Bytes \subseteq Nat /\ Bytes \subseteq Cells
  BY Limits DEF Bytes, Cells
<1> HIDE DEF Bytes
<1> QED
  BY <1>1, Widened

(* What a frame is made of are numbers. *)
LEMMA CellsAreNumbers ==
  ASSUME NEW m \in Seq(Cells)
  PROVE  m \in Seq(Nat)
<1>1. Cells \subseteq Nat
  BY Limits DEF Cells
<1> QED
  BY <1>1, Widened

(* Two parts of a frame make a frame. *)
LEMMA JoinedCells ==
  ASSUME NEW m \in Seq(Cells), NEW n \in Seq(Cells)
  PROVE  m \o n \in Seq(Cells) /\ Len(m \o n) = Len(m) + Len(n) /\ Len(m) \in Nat /\ Len(n) \in Nat
  OBVIOUS

(* One and two parts put together. *)
LEMMA ConcatFew ==
  /\ Concat(<<>>) = <<>>
  /\ \A a \in Seq(Bytes) : Concat(<<a>>) = a
  /\ \A a, b \in Seq(Bytes) : Concat(<<a, b>>) = a \o b
<1>1. Concat(<<>>) = <<>>
  <2> DEFINE ss == <<>>
  <2>1. ss \in Seq(Seq(Bytes)) /\ Len(ss) = 0
    OBVIOUS
  <2>2. PICK g : /\ g = [i \in 0 .. Len(ss) |-> IF i = 0 THEN <<>> ELSE g[i - 1] \o ss[i]]
                 /\ Concat(ss) = g[Len(ss)]
    BY <2>1, ConcatIs
  <2>3. 0 \in 0 .. 0
    OBVIOUS
  <2> QED
    BY <2>1, <2>2, <2>3, Zenon
<1>2. ASSUME NEW a \in Seq(Bytes) PROVE Concat(<<a>>) = a
  <2> DEFINE ss == <<a>>
  <2>1. ss \in Seq(Seq(Bytes)) /\ Len(ss) = 1 /\ ss[1] = a
    OBVIOUS
  <2> HIDE DEF ss
  <2>2. PICK g : /\ g = [i \in 0 .. Len(ss) |-> IF i = 0 THEN <<>> ELSE g[i - 1] \o ss[i]]
                 /\ Concat(ss) = g[Len(ss)]
    BY <2>1, ConcatIs
  <2>3. 0 \in 0 .. 1 /\ 1 \in 0 .. 1 /\ 1 # 0 /\ 1 - 1 = 0
    OBVIOUS
  <2>4. g[0] = <<>> /\ g[1] = g[1 - 1] \o ss[1]
    BY <2>1, <2>2, <2>3, Zenon
  <2>5. <<>> \o a = a
    OBVIOUS
  <2> QED
    BY <2>1, <2>2, <2>3, <2>4, <2>5, Zenon DEF ss
<1>3. ASSUME NEW a \in Seq(Bytes), NEW b \in Seq(Bytes) PROVE Concat(<<a, b>>) = a \o b
  <2> DEFINE ss == <<a, b>>
  <2>1. ss \in Seq(Seq(Bytes)) /\ Len(ss) = 2 /\ ss[1] = a /\ ss[2] = b
    OBVIOUS
  <2> HIDE DEF ss
  <2>2. PICK g : /\ g = [i \in 0 .. Len(ss) |-> IF i = 0 THEN <<>> ELSE g[i - 1] \o ss[i]]
                 /\ Concat(ss) = g[Len(ss)]
    BY <2>1, ConcatIs
  <2>3. /\ 0 \in 0 .. 2 /\ 1 \in 0 .. 2 /\ 2 \in 0 .. 2 /\ 1 # 0 /\ 2 # 0
        /\ 1 - 1 = 0 /\ 2 - 1 = 1
    OBVIOUS
  <2>4. g[0] = <<>> /\ g[1] = g[1 - 1] \o ss[1] /\ g[2] = g[2 - 1] \o ss[2]
    BY <2>1, <2>2, <2>3, Zenon
  <2>5. <<>> \o a = a
    OBVIOUS
  <2> QED
    BY <2>1, <2>2, <2>3, <2>4, <2>5, Zenon DEF ss
<1> QED
  BY <1>1, <1>2, <1>3

(* A list of byte strings is made of bytes, whatever its count is narrowed to. *)
LEMMA ListsWritten ==
  ASSUME NEW ss \in Seq(Texts)
  PROVE  WriteList(ss, WriteBytes) \in Seq(Bytes)
<1> DEFINE ws == [i \in 1 .. Len(ss) |-> WriteBytes(ss[i])]
<1>1. Len(ss) \in Nat /\ \A i \in 1 .. Len(ss) : ss[i] \in Texts
  OBVIOUS
<1>2. \A i \in 1 .. Len(ss) : WriteBytes(ss[i]) \in Seq(Bytes)
  BY <1>1, BytesWritten
<1>3. ws \in Seq(Seq(Bytes))
  BY <1>1, <1>2
<1>4. Concat(ws) \in Seq(Bytes)
  BY <1>3, ConcatBytes
<1>5. WriteIntBE(Len(ss), 2) \in Seq(Bytes)
  BY <1>1, Written
<1>6. WriteList(ss, WriteBytes) = WriteIntBE(Len(ss), 2) \o Concat(ws)
  BY Zenon DEF WriteList, Width
<1> QED
  BY <1>4, <1>5, <1>6, Joined

(* A string within the limit of [short] takes two bytes more than it has. *)
LEMMA StringSize ==
  ASSUME NEW s \in ShortTexts
  PROVE  WriteString(s) \in Seq(Bytes) /\ Len(WriteString(s)) = 2 + Len(s)
<1>1. s \in Seq(Bytes) /\ Len(s) \in Nat /\ Len(s) < Square /\ Square = Base * Base
  BY Limits DEF ShortTexts
<1>2. PICK n \in Nat : /\ n = Len(s) % (Base * Base)
                       /\ WriteString(s) \in Seq(Bytes) /\ Len(WriteString(s)) = 2 + n
  BY <1>1, StringForm, Zenon
<1>3. Len(s) % Square = Len(s)
  <2> DEFINE len == Len(s)
  <2>1. len \in Nat /\ len < Square /\ Square \in Nat /\ Square > 0
    BY <1>1, Limits
  <2> HIDE DEF len
  <2>2. len = Square * 0 + len /\ 0 \in Nat
    BY <2>1
  <2>3. len % Square = len
    BY <2>1, <2>2, QuotientUnique
  <2> QED
    BY <2>3 DEF len
<1> QED
  BY <1>1, <1>2, <1>3, Zenon

-----------------------------------------------------------------------------
(* Reading what may not be there.                                          *)

(* Bytes 5 to 8 of the buffer are the ones UpdateLength overwrites. *)
LEMMA Updated ==
  ASSUME NEW h \in Seq(Nat), NEW z \in Seq(Nat), NEW b \in Seq(Nat), Len(h) = 5, Len(z) = 4
  PROVE  /\ SubSeq(h \o z \o b, 1, 5) = h
         /\ SubSeq(h \o z \o b, 10, Len(h \o z \o b)) = b
         /\ Len(h \o z \o b) = 9 + Len(b)
<1> DEFINE m == h \o z
           x == m \o b
<1>1. 5 + 4 = 9 /\ 9 + 1 = 10
  OBVIOUS
<1>2. /\ m \in Seq(Nat) /\ Len(m) = Len(h) + Len(z)
      /\ \A i \in 1 .. Len(h) : m[i] = h[i]
  BY Cut
<1>3. Len(m) = 9 /\ \A i \in 1 .. 5 : m[i] = h[i]
  BY <1>1, <1>2, Zenon
<1> HIDE DEF m
<1>4. /\ x \in Seq(Nat) /\ Len(x) = 9 + Len(b)
      /\ \A i \in 1 .. 9 : x[i] = m[i]
      /\ SubSeq(x, 9 + 1, Len(x)) = b
  <2>1. /\ x \in Seq(Nat) /\ Len(x) = Len(m) + Len(b)
        /\ \A i \in 1 .. Len(m) : x[i] = m[i]
        /\ SubSeq(x, Len(m) + 1, Len(x)) = b
    BY <1>2, Cut
  <2> HIDE DEF x
  <2> QED
    BY <1>3, <2>1, Zenon
<1>5. SubSeq(x, 1, 5) = h
  <2> HIDE DEF x
  <2>1. \A i \in 1 .. 5 : x[i] = h[i]
    <3>1. \A i \in 1 .. 5 : i \in 1 .. 9
      OBVIOUS
    <3> QED
      BY <1>3, <1>4, <3>1, Zenon
  <2>2. h = [i \in 1 .. 5 |-> h[i]]
    OBVIOUS
  <2>3. SubSeq(x, 1, 5) = [i \in 1 .. 5 |-> x[i]]
    BY <1>4
  <2> QED
    BY <2>1, <2>2, <2>3, Zenon
<1> QED
  BY <1>1, <1>4, <1>5, Zenon DEF m

(* What is there can be taken. *)
LEMMA Taken ==
  ASSUME NEW data \in Seq(Nat), NEW k \in Nat, NEW n \in Nat, NEW v, k + n <= Len(data)
  PROVE  EnsureSize(At(data, k, v), n) = At(data, k + n, SubSeq(data, k + 1, k + n))
<1>1. ~(k + n > Len(data))
  OBVIOUS
<1> DEFINE s == SubSeq(data, k + 1, k + n)
<1>2. /\ At(data, k, v).st = "ok" /\ At(data, k, v).off = k
      /\ At(data, k, v).data = data
  BY DEF At
<1>3. EnsureSize(At(data, k, v), n) = [At(data, k, v) EXCEPT !.off = @ + n, !.v = s]
  BY <1>1, <1>2 DEF EnsureSize, Take
<1> HIDE DEF s
<1> QED
  BY <1>2, <1>3 DEF At, s

(* EnsureSize throws when fewer bytes are left than are asked for. *)
LEMMA TooFew ==
  ASSUME NEW data, NEW k \in Nat, NEW n \in Nat, NEW v, Len(data) \in Nat, k + n > Len(data)
  PROVE  EnsureSize(At(data, k, v), n).st = "throw"
  BY DEF EnsureSize, Take, At, Fail

(* Whatever the bytes of a header are, the fifth of them is the opcode, and the
   length is a number. *)
LEMMA AnyByte ==
  ASSUME NEW data \in Seq(Bytes), NEW k \in Nat, NEW v, k + 1 <= Len(data)
  PROVE  ReadByte(At(data, k, v)) = At(data, k + 1, data[k + 1])
<1>1. data \in Seq(Nat) /\ 1 \in Nat
  BY BytesAreNumbers
<1>2. EnsureSize(At(data, k, v), 1) = At(data, k + 1, SubSeq(data, k + 1, k + 1))
  BY <1>1, Taken
<1> DEFINE j == k + 1
           x == data[j]
<1>3. j \in 1 .. Len(data)
  OBVIOUS
<1> HIDE DEF j
<1>4. SubSeq(data, j, j) = <<x>> /\ x \in Bytes
  <2>1. x \in Bytes /\ Len(SubSeq(data, j, j)) = 1 /\ SubSeq(data, j, j)[1] = x
    BY <1>3
  <2>2. SubSeq(data, j, j) \in Seq(Bytes)
    BY <1>3
  <2> HIDE DEF x
  <2> DEFINE s == SubSeq(data, j, j)
  <2> HIDE DEF s
  <2>3. Len(s) = 1 /\ s[1] = x /\ s \in Seq(Bytes) => s = <<x>>
    OBVIOUS
  <2> QED
    BY <2>1, <2>2, <2>3 DEF s
<1> HIDE DEF x
<1>5. EnsureSize(At(data, k, v), 1) = At(data, j, <<x>>)
  BY <1>2, <1>4, Zenon DEF j
<1>6. Unsigned(<<x>>) = x
  BY <1>4, UnsignedOne
<1>7. AsUnsigned(At(data, j, <<x>>)) = At(data, j, x)
  <2>1. At(data, j, <<x>>).st = "ok" /\ At(data, j, <<x>>).v = <<x>>
    BY DEF At
  <2>2. AsUnsigned(At(data, j, <<x>>)) = Return(At(data, j, <<x>>), x)
    BY <1>6, <2>1, Zenon DEF AsUnsigned
  <2>3. Return(At(data, j, <<x>>), x) = At(data, j, x)
    BY DEF Return, At
  <2> QED
    BY <2>2, <2>3, Zenon
<1>8. Width.Byte = 1
  BY DEF Width
<1> QED
  BY <1>5, <1>7, <1>8, Zenon DEF ReadByte, ReadUnsigned, j, x

(* Where four bytes are left, ReadInt reads some number. *)
LEMMA AnyInt ==
  ASSUME NEW data \in Seq(Bytes), NEW k \in Nat, NEW v, k + 4 <= Len(data)
  PROVE  \E x \in Int : ReadInt(At(data, k, v)) = At(data, k + 4, x)
<1>1. data \in Seq(Nat) /\ 4 \in Nat
  BY BytesAreNumbers
<1>2. EnsureSize(At(data, k, v), 4) = At(data, k + 4, SubSeq(data, k + 1, k + 4))
  BY <1>1, Taken
<1> DEFINE a == data[k + 1]
           b == data[k + 2]
           c == data[k + 3]
           d == data[k + 4]
           s == SubSeq(data, k + 1, k + 4)
           j == k + 4
<1>3. k + 1 \in 1 .. Len(data) /\ k + 2 \in 1 .. Len(data) /\ k + 3 \in 1 .. Len(data) /\ k + 4 \in 1 .. Len(data)
  OBVIOUS
<1>4. a \in Bytes /\ b \in Bytes /\ c \in Bytes /\ d \in Bytes
  BY <1>3
<1>5. s = <<a, b, c, d>>
  <2>1. Len(s) = 4 /\ s[1] = a /\ s[2] = b /\ s[3] = c /\ s[4] = d /\ s \in Seq(Bytes)
    BY <1>3
  <2> HIDE DEF a, b, c, d, s
  <2> QED
    BY <2>1
<1> HIDE DEF a, b, c, d, s, j
<1>6. Signed(s) \in Int
  <2>1. a \in Int /\ b \in Int /\ c \in Int /\ d \in Int /\ Base \in Int
    BY <1>4, Limits DEF Bytes
  <2>2. a * (Base * Base * Base) + ((b * Base + c) * Base + d) \in Int
    BY <2>1
  <2>3. (a - Base) * (Base * Base * Base) + ((b * Base + c) * Base + d) \in Int
    BY <2>1
  <2>4. CASE a < Base \div 2
    <3>1. Signed(<<a, b, c, d>>) = a * (Base * Base * Base) + ((b * Base + c) * Base + d)
      BY <1>4, <2>4, SignedFour
    <3> QED
      BY <1>5, <2>2, <3>1, Zenon
  <2>5. CASE ~(a < Base \div 2)
    <3>1. Signed(<<a, b, c, d>>) = (a - Base) * (Base * Base * Base) + ((b * Base + c) * Base + d)
      BY <1>4, <2>5, SignedFourNegative
    <3> QED
      BY <1>5, <2>3, <3>1, Zenon
  <2> QED
    BY <2>4, <2>5
<1>7. AsSigned(At(data, j, s)) = At(data, j, Signed(s))
  BY DEF AsSigned, Return, At
<1>8. Width.Int = 4
  BY DEF Width
<1> QED
  BY <1>2, <1>6, <1>7, <1>8, Zenon DEF ReadInt, ReadSigned, j, s

(* ReadShort throws or reads some number, whatever the bytes are. *)
LEMMA AnyShort ==
  ASSUME NEW data \in Seq(Bytes), NEW k \in Nat, NEW v
  PROVE  \/ ReadShort(At(data, k, v)).st = "throw"
         \/ \E x \in Nat : ReadShort(At(data, k, v)) = At(data, k + 2, x)
<1>1. Width.Short = 2 /\ data \in Seq(Nat) /\ Len(data) \in Nat
  BY BytesAreNumbers DEF Width
<1>2. CASE k + 2 > Len(data)
  <2>1. EnsureSize(At(data, k, v), 2).st = "throw"
    <3>1. 2 \in Nat
      OBVIOUS
    <3> QED
      BY <1>1, <1>2, <3>1, TooFew
  <2> QED
    BY <1>1, <2>1 DEF ReadShort, ReadUnsigned, AsUnsigned
<1>3. CASE k + 2 <= Len(data)
  <2> DEFINE a == data[k + 1]
             b == data[k + 2]
             s == SubSeq(data, k + 1, k + 2)
             j == k + 2
  <2>1. EnsureSize(At(data, k, v), 2) = At(data, j, s)
    <3>1. 2 \in Nat
      OBVIOUS
    <3> QED
      BY <1>1, <1>3, <3>1, Taken
  <2>2. k + 1 \in 1 .. Len(data) /\ k + 2 \in 1 .. Len(data)
    BY <1>1, <1>3
  <2>3. a \in Bytes /\ b \in Bytes
    BY <2>2
  <2>4. s = <<a, b>>
    <3>1. Len(s) = 2 /\ s[1] = a /\ s[2] = b /\ s \in Seq(Bytes)
      BY <2>2
    <3> HIDE DEF a, b, s
    <3> QED
      BY <3>1
  <2> HIDE DEF a, b, s, j
  <2> DEFINE x == a * Base + b
  <2>5. x \in Nat
    <3>1. a \in Nat /\ b \in Nat /\ Base \in Nat
      BY <2>3, Limits DEF Bytes
    <3> QED
      BY <3>1
  <2>6. Unsigned(s) = x
    BY <2>3, <2>4, UnsignedTwo
  <2> HIDE DEF x
  <2>7. /\ At(data, j, s).st = "ok" /\ At(data, j, s).v = s
        /\ Return(At(data, j, s), x) = At(data, j, x)
    BY AtIs
  <2>8. ReadShort(At(data, k, v)) = At(data, j, x)
    BY <1>1, <2>1, <2>6, <2>7, Zenon DEF ReadShort, ReadUnsigned, AsUnsigned
  <2> QED
    BY <2>5, <2>8 DEF j
<1> QED
  BY <1>1, <1>2, <1>3

(* A reader that is not "ok" reads no further. *)
LEMMA StuckStays ==
  ASSUME NEW r, r.st # "ok"
  PROVE  /\ \A n : EnsureSize(r, n) = r
         /\ ReadByte(r) = r /\ ReadShort(r) = r /\ ReadInt(r) = r /\ ReadString(r) = r
         /\ ReadBytes(r) = r /\ ReadShortBytes(r) = r
<1>1. \A n : EnsureSize(r, n) = r
  BY DEF EnsureSize, Take
<1>2. ReadByte(r) = r /\ ReadShort(r) = r /\ ReadInt(r) = r
  BY <1>1 DEF ReadByte, ReadShort, ReadInt, ReadUnsigned, ReadSigned, AsUnsigned, AsSigned
<1> QED
  BY <1>1, <1>2 DEF ReadString, ReadBytes, ReadShortBytes, Copied, Counted

(* The elements of a sequence. *)
LEMMA Elements ==
  ASSUME NEW S, NEW s \in Seq(S), NEW n, Len(s) = n
  PROVE  \A i \in 1 .. n : s[i] \in S
  OBVIOUS

(* Parts that are made of bytes, put together, are. *)
LEMMA PartsWritten ==
  ASSUME NEW n \in Nat, NEW ws, ws = [i \in 1 .. n |-> ws[i]], \A i \in 1 .. n : ws[i] \in Seq(Bytes)
  PROVE  ws \in Seq(Seq(Bytes)) /\ Len(ws) = n /\ Concat(ws) \in Seq(Bytes)
<1>1. [i \in 1 .. n |-> ws[i]] \in Seq(Seq(Bytes)) /\ Len([i \in 1 .. n |-> ws[i]]) = n
  OBVIOUS
<1>2. ws \in Seq(Seq(Bytes)) /\ Len(ws) = n
  BY <1>1, Zenon
<1> QED
  BY <1>2, ConcatBytes

(* Four and more parts, one after the other. *)
LEMMA JoinedBytes ==
  ASSUME NEW a \in Seq(Bytes), NEW b \in Seq(Bytes)
  PROVE  a \o b \in Seq(Bytes)
  BY Joined

(* Five byte strings make one. *)
LEMMA Joined5 ==
  ASSUME NEW a \in Seq(Bytes), NEW b \in Seq(Bytes), NEW c \in Seq(Bytes),
         NEW d \in Seq(Bytes), NEW e \in Seq(Bytes)
  PROVE  a \o b \o c \o d \o e \in Seq(Bytes)
<1> DEFINE m == a \o b \o c
<1>1. m \in Seq(Bytes)
  BY Joined3
<1> HIDE DEF m
<1>2. m \o d \o e \in Seq(Bytes)
  BY <1>1, Joined3
<1> QED
  BY <1>2 DEF m

(* A list of strings takes at least its count. *)
LEMMA StringListWritten ==
  ASSUME NEW ss \in Seq(ShortTexts)
  PROVE  WriteList(ss, WriteString) \in Seq(Bytes) /\ Len(WriteList(ss, WriteString)) >= 2
<1> DEFINE ws == [i \in 1 .. Len(ss) |-> WriteString(ss[i])]
           c == WriteIntBE(Len(ss), 2)
<1>1. Len(ss) \in Nat /\ \A i \in 1 .. Len(ss) : ss[i] \in Seq(Bytes)
  BY DEF ShortTexts
<1>2. ws = [i \in 1 .. Len(ss) |-> ws[i]] /\ \A i \in 1 .. Len(ss) : ws[i] \in Seq(Bytes)
  <2>1. \A i \in 1 .. Len(ss) : WriteString(ss[i]) \in Seq(Bytes)
    BY <1>1, TextsWritten
  <2> QED
    BY <2>1, Zenon
<1>3. WriteList(ss, WriteString) = c \o Concat(ws)
  BY Zenon DEF WriteList, Width
<1>4. c \in Seq(Bytes) /\ Len(c) = 2
  BY <1>1, Written
<1> HIDE DEF ws, c
<1>5. Concat(ws) \in Seq(Bytes)
  BY <1>1, <1>2, PartsWritten
<1> DEFINE d == Concat(ws)
<1> HIDE DEF d
<1>6. c \o d \in Seq(Bytes) /\ Len(c \o d) = 2 + Len(d)
  BY <1>4, <1>5, Joined, Zenon DEF d
<1>7. 2 + Len(d) >= 2
  <2>1. Len(d) \in Nat
    BY <1>5 DEF d
  <2> QED
    BY <2>1
<1> QED
  BY <1>3, <1>6, <1>7, Zenon DEF d

(* A list of one string. *)
LEMMA OneString ==
  ASSUME NEW s \in ShortTexts
  PROVE  /\ WriteList(<<s>>, WriteString) = WriteIntBE(1, 2) \o WriteString(s)
         /\ <<s>> \in Seq(ShortTexts) /\ Len(<<s>>) = 1
<1> DEFINE ss == <<s>>
           w == WriteString(s)
           ws == [i \in 1 .. 1 |-> WriteString(ss[i])]
<1>1. w \in Seq(Bytes)
  BY StringSize
<1>2. ws = <<w>>
  <2>1. ss[1] = s
    OBVIOUS
  <2>2. ws = [i \in 1 .. 1 |-> w]
    <3>1. \A i \in 1 .. 1 : i = 1
      OBVIOUS
    <3> HIDE DEF ss
    <3> QED
      BY <2>1, <3>1, Zenon
  <2> HIDE DEF w, ws
  <2> QED
    BY <2>2
<1>3. Concat(ws) = w
  <2> HIDE DEF w, ws
  <2> QED
    BY <1>1, <1>2, ConcatFew
<1>4. Len(ss) = 1 /\ ss \in Seq(ShortTexts) /\ Width.Short = 2
  BY DEF Width
<1> HIDE DEF w, ss
<1>5. WriteList(ss, WriteString) = WriteIntBE(1, 2) \o w
  BY <1>3, <1>4, Zenon DEF WriteList, w
<1> QED
  BY <1>4, <1>5 DEF w, ss

-----------------------------------------------------------------------------
(* Reading from one place of a buffer to another.                          *)

\* The bytes m are in the buffer from offset k up to offset j.
Spans(data, k, m, j) == Holds(data, k, m) /\ j = k + Len(m)

(* Two parts that follow each other meet at some offset. *)
LEMMA SpansParts ==
  ASSUME NEW data \in Seq(Nat), NEW k \in Nat, NEW j, NEW m \in Seq(Bytes), NEW n \in Seq(Bytes),
         Spans(data, k, m \o n, j)
  PROVE  \E i \in Nat : Spans(data, k, m, i) /\ Spans(data, i, n, j)
<1> DEFINE i == k + Len(m)
<1>1. Holds(data, k, m) /\ Holds(data, i, n)
  BY HoldsParts DEF Spans
<1>2. i \in Nat /\ i + Len(n) = k + Len(m \o n)
  BY After
<1> HIDE DEF i
<1>3. j = i + Len(n)
  BY <1>2 DEF Spans
<1>4. i = k + Len(m)
  BY DEF i
<1> QED
  BY <1>1, <1>2, <1>3, <1>4 DEF Spans

(* Three parts that follow each other. *)
LEMMA SpansParts3 ==
  ASSUME NEW data \in Seq(Nat), NEW k \in Nat, NEW j, NEW a \in Seq(Bytes), NEW b \in Seq(Bytes),
         NEW c \in Seq(Bytes), Spans(data, k, a \o b \o c, j)
  PROVE  \E i \in Nat, h \in Nat : Spans(data, k, a, i) /\ Spans(data, i, b, h) /\ Spans(data, h, c, j)
<1> DEFINE x == a \o b
<1>1. x \in Seq(Bytes)
  BY Joined
<1>2. Spans(data, k, x \o c, j)
  OBVIOUS
<1> HIDE DEF x
<1>3. PICK h \in Nat : Spans(data, k, x, h) /\ Spans(data, h, c, j)
  BY <1>1, <1>2, SpansParts
<1>4. PICK i \in Nat : Spans(data, k, a, i) /\ Spans(data, i, b, h)
  BY <1>3, SpansParts DEF x
<1> QED
  BY <1>3, <1>4

(* Four parts that follow each other. *)
LEMMA SpansParts4 ==
  ASSUME NEW data \in Seq(Nat), NEW k \in Nat, NEW j, NEW a \in Seq(Bytes), NEW b \in Seq(Bytes),
         NEW c \in Seq(Bytes), NEW d \in Seq(Bytes), Spans(data, k, a \o b \o c \o d, j)
  PROVE  \E i \in Nat, h \in Nat, g \in Nat :
           Spans(data, k, a, i) /\ Spans(data, i, b, h) /\ Spans(data, h, c, g) /\ Spans(data, g, d, j)
<1> DEFINE x == a \o b \o c
<1>1. x \in Seq(Bytes)
  BY Joined3
<1>2. PICK g \in Nat : Spans(data, k, x, g) /\ Spans(data, g, d, j)
  <2> HIDE DEF x
  <2>1. Spans(data, k, x \o d, j)
    BY DEF x
  <2> QED
    BY <1>1, <2>1, SpansParts
<1>3. PICK i \in Nat, h \in Nat : Spans(data, k, a, i) /\ Spans(data, i, b, h) /\ Spans(data, h, c, g)
  BY <1>2, SpansParts3
<1> QED
  BY <1>2, <1>3

(* A reader of a buffer starts at its first byte. *)
LEMMA SpansAll ==
  ASSUME NEW data \in Seq(Bytes)
  PROVE  /\ data \in Seq(Nat) /\ Reader(data) = At(data, 0, <<>>)
         /\ Spans(data, 0, data, Len(data))
<1>1. data \in Seq(Nat)
  BY BytesAreNumbers
<1>2. Reader(data) = At(data, 0, <<>>)
  BY DEF Reader, At
<1>3. Holds(data, 0, data) /\ Len(data) = 0 + Len(data)
  BY DEF Holds
<1> QED
  BY <1>1, <1>2, <1>3, Zenon DEF Spans

(* An [int] comes back, and the reader stands behind it. *)
LEMMA IntSpan ==
  ASSUME NEW data \in Seq(Nat), NEW k \in Nat, NEW j, NEW n \in Ints, Spans(data, k, WriteIntBE(n, 4), j)
  PROVE  \A v : ReadInt(At(data, k, v)) = At(data, j, n)
<1>1. n \in Int
  BY Limits DEF Ints
<1>2. Len(WriteIntBE(n, 4)) = 4
  BY <1>1, Written
<1>3. j = k + 4 /\ Holds(data, k, WriteIntBE(n, 4))
  BY <1>2 DEF Spans
<1> QED
  BY <1>3, SignedHeld, Zenon

(* A [short] comes back, and the reader stands behind it. *)
LEMMA ShortSpan ==
  ASSUME NEW data \in Seq(Nat), NEW k \in Nat, NEW j, NEW n \in Nat, n < Square,
         Spans(data, k, WriteIntBE(n, 2), j)
  PROVE  \A v : ReadShort(At(data, k, v)) = At(data, j, n)
<1>1. Len(WriteIntBE(n, 2)) = 2
  BY Written
<1>2. j = k + 2 /\ Holds(data, k, WriteIntBE(n, 2))
  BY <1>1 DEF Spans
<1>3. n < Base * Base
  BY Limits
<1> QED
  BY <1>2, <1>3, ShortHeld, Zenon

(* A [byte] comes back, and the reader stands behind it. *)
LEMMA ByteSpan ==
  ASSUME NEW data \in Seq(Nat), NEW k \in Nat, NEW j, NEW n \in Bytes,
         Spans(data, k, WriteIntBE(n, 1), j)
  PROVE  \A v : ReadByte(At(data, k, v)) = At(data, j, n)
<1>1. n \in Int
  BY Limits DEF Bytes
<1>2. Len(WriteIntBE(n, 1)) = 1
  BY <1>1, Written
<1>3. j = k + 1 /\ Holds(data, k, WriteIntBE(n, 1))
  BY <1>2 DEF Spans
<1> QED
  BY <1>3, ByteHeld, Zenon

(* A [string] comes back, and the reader stands behind it. *)
LEMMA StringSpan ==
  ASSUME NEW data \in Seq(Nat), NEW k \in Nat, NEW j, NEW s \in ShortTexts, Spans(data, k, WriteString(s), j)
  PROVE  \A v : ReadString(At(data, k, v)) = At(data, j, s)
<1>1. s \in Seq(Bytes) /\ Len(s) < Base * Base
  BY Limits DEF ShortTexts
<1> QED
  BY <1>1, StringComesBack, Zenon DEF Spans

(* A [bytes] value comes back, and the reader stands behind it. *)
LEMMA BytesSpan ==
  ASSUME NEW data \in Seq(Nat), NEW k \in Nat, NEW j, NEW s \in Texts, Spans(data, k, WriteBytes(s), j)
  PROVE  \A v : ReadBytes(At(data, k, v)) = At(data, j, s)
  BY BytesReadBack, Zenon DEF Spans

(* A [short bytes] value comes back, and the reader stands behind it. *)
LEMMA ShortBytesSpan ==
  ASSUME NEW data \in Seq(Nat), NEW k \in Nat, NEW j, NEW s \in ShortTexts,
         Spans(data, k, WriteShortBytes(s), j)
  PROVE  \A v : ReadShortBytes(At(data, k, v)) = At(data, j, s)
<1>1. s \in Seq(Bytes) /\ Len(s) < Base * Base
  BY Limits DEF ShortTexts
<1> QED
  BY <1>1, ShortBytesComeBack, Zenon DEF Spans

(* A [string list] comes back, and the reader stands behind it. *)
LEMMA StringListSpan ==
  ASSUME NEW data \in Seq(Nat), NEW k \in Nat, NEW j, NEW ss \in Seq(ShortTexts), Len(ss) < Square,
         Spans(data, k, WriteList(ss, WriteString), j)
  PROVE  \A v : ReadStringList(At(data, k, v)) = At(data, j, ss)
<1>1. ss \in Seq(Seq(Bytes)) /\ Len(ss) < Base * Base
  <2>1. ShortTexts \subseteq Seq(Bytes)
    BY DEF ShortTexts
  <2> QED
    BY <2>1, Limits, Widened
<1>2. \A i \in 1 .. Len(ss) : Len(ss[i]) < Base * Base
  <2>1. \A i \in 1 .. Len(ss) : ss[i] \in ShortTexts
    OBVIOUS
  <2>2. \A s \in ShortTexts : Len(s) < Base * Base
    BY Limits DEF ShortTexts
  <2> QED
    BY <2>1, <2>2, Zenon
<1> QED
  BY <1>1, <1>2, StringListComesBack, Zenon DEF Spans

(* The two bytes of a [short] in a buffer. *)
LEMMA TwoHeld ==
  ASSUME NEW data \in Seq(Nat), NEW k \in Nat, NEW x \in Bytes, NEW y \in Bytes, Holds(data, k, <<x, y>>)
  PROVE  data[k + 1] = x /\ data[k + 2] = y
BY DEF Holds

-----------------------------------------------------------------------------
(* However reading goes, it ends well, in an exception or beyond the end.  *)

Ends == {"ok", "throw", "over"}
Cursor(r) == DOMAIN r = {"data", "off", "st", "v"} /\ r.st \in Ends

(* A reader in good order is a cursor. *)
LEMMA CursorAt ==
  ASSUME NEW data, NEW k, NEW v
  PROVE  Cursor(At(data, k, v))
  BY DEF Cursor, At, Ends

(* Putting a value into a cursor leaves a cursor. *)
LEMMA CursorReturns ==
  ASSUME NEW r, Cursor(r), NEW v
  PROVE  Cursor(Return(r, v))
  BY DEF Cursor, Return

(* Taking bytes from a cursor leaves a cursor, whether they are there or not. *)
LEMMA CursorTakes ==
  ASSUME NEW r, Cursor(r), NEW n, NEW beyond \in {"throw", "over"}
  PROVE  Cursor(Take(r, n, beyond))
<1> DEFINE o == r.off + n
           x == SubSeq(r.data, r.off + 1, r.off + n)
           beyondEnd == r.off + n > Len(r.data)
<1>1. Take(r, n, beyond) = IF r.st # "ok" THEN r
                           ELSE IF beyondEnd THEN [r EXCEPT !.st = beyond, !.v = <<>>]
                           ELSE [r EXCEPT !.off = o, !.v = x]
  BY Zenon DEF Take, Fail
<1> HIDE DEF o, x, beyondEnd
<1>2. Cursor([r EXCEPT !.st = beyond, !.v = <<>>])
  BY DEF Cursor, Ends
<1>3. Cursor([r EXCEPT !.off = o, !.v = x])
  BY DEF Cursor
<1> QED
  BY <1>1, <1>2, <1>3

(* The parsers of numbers and strings leave a cursor. *)
LEMMA CursorReads ==
  ASSUME NEW r, Cursor(r)
  PROVE  Cursor(ReadShort(r)) /\ Cursor(ReadInt(r)) /\ Cursor(ReadString(r))
<1>1. \A c : Cursor(c) => Cursor(AsUnsigned(c)) /\ Cursor(AsSigned(c))
  BY CursorReturns, Zenon DEF AsUnsigned, AsSigned
<1>2. \A n : Cursor(EnsureSize(r, n))
  BY CursorTakes DEF EnsureSize
<1>3. Cursor(ReadShort(r)) /\ Cursor(ReadInt(r))
  BY <1>1, <1>2, Zenon DEF ReadShort, ReadInt, ReadUnsigned, ReadSigned
<1>4. \A c : Cursor(c) => Cursor(Copied(c))
  BY CursorTakes DEF Copied
<1> QED
  BY <1>3, <1>4 DEF ReadString

(* What the loop over strings is given by after each of its turns exists. *)
IsStrings(f, n, r) == f = [i \in 0 .. n |-> IF i = 0 THEN Return(r, <<>>) ELSE Turn(f[i - 1], ReadString(f[i - 1]))]

(* The loop over strings has a value after each of its turns. *)
LEMMA StringsExist ==
  ASSUME NEW r, NEW n \in Nat
  PROVE  \E f : IsStrings(f, n, r)
<1> DEFINE S == {m \in Nat : \E f : IsStrings(f, m, r)}
<1>1. 0 \in S
  <2> DEFINE f == [i \in 0 .. 0 |-> Return(r, <<>>)]
  <2>1. \A i \in 0 .. 0 : i = 0
    OBVIOUS
  <2>2. IsStrings(f, 0, r)
    BY <2>1, Zenon DEF IsStrings
  <2> HIDE DEF f
  <2> QED
    BY <2>2
<1>2. ASSUME NEW m \in Nat, m \in S PROVE m + 1 \in S
  <2>1. PICK f : IsStrings(f, m, r)
    BY <1>2
  <2> DEFINE g == [i \in 0 .. m + 1 |-> IF i = 0 THEN Return(r, <<>>) ELSE Turn(f[i - 1], ReadString(f[i - 1]))]
  <2>2. ASSUME NEW i \in 0 .. m + 1, i # 0 PROVE f[i - 1] = g[i - 1]
    <3>1. i - 1 \in 0 .. m /\ i - 1 \in 0 .. m + 1
      BY <2>2
    <3> QED
      BY <2>1, <3>1, Zenon DEF IsStrings
  <2>3. IsStrings(g, m + 1, r)
    BY <2>2, Zenon DEF IsStrings
  <2> HIDE DEF g
  <2> QED
    BY <2>3
<1>3. Nat \subseteq S
  <2> HIDE DEF S
  <2> QED
    BY <1>1, <1>2, Induction
<1> QED
  BY <1>3

(* Reading n strings of whatever bytes leaves a cursor. *)
LEMMA CursorStrings ==
  ASSUME NEW r, Cursor(r), NEW n \in Nat, Len(r.data) \in Nat
  PROVE  Cursor(Strings(r, n))
<1>1. CASE r.st # "ok"
  BY <1>1 DEF Strings, Repeat
<1>2. CASE r.st = "ok"
  <2> DEFINE last == IF n <= Len(r.data) THEN n ELSE Len(r.data) + 1
             P(u) == u = [i \in 0 .. last |-> IF i = 0 THEN Return(r, <<>>)
                                              ELSE Turn(u[i - 1], ReadString(u[i - 1]))]
             u == CHOOSE u : P(u)
  <2>1. last \in Nat
    OBVIOUS
  <2>2. Strings(r, n) = u[last]
    BY <1>2, Zenon DEF Strings, Repeat, Turn
  <2> HIDE DEF last
  <2>3. \E f : P(f)
    BY <2>1, StringsExist, ZenonT(60) DEF IsStrings
  <2>4. P(u)
    BY <2>3, Zenon
  <2> HIDE DEF u
  <2> DEFINE S == {m \in Nat : m <= last => Cursor(u[m])}
  <2>5. 0 \in S
    <3>1. 0 \in 0 .. last /\ 0 \in Nat
      BY <2>1
    <3>2. u[0] = Return(r, <<>>)
      BY <2>4, <3>1, Zenon
    <3>3. Cursor(u[0])
      BY <3>2, CursorReturns
    <3> QED
      BY <3>1, <3>3
  <2>6. ASSUME NEW m \in Nat, m \in S PROVE m + 1 \in S
    <3>1. m + 1 \in Nat /\ (m + 1 <= last => m <= last /\ m + 1 \in 0 .. last /\ m + 1 # 0 /\ (m + 1) - 1 = m)
      BY <2>1
    <3>2. ASSUME m + 1 <= last PROVE Cursor(u[m + 1])
      <4>1. Cursor(u[m])
        BY <2>6, <3>1, <3>2
      <4>2. u[m + 1] = Turn(u[m], ReadString(u[m]))
        BY <2>4, <3>1, <3>2, Zenon
      <4>3. Cursor(ReadString(u[m]))
        BY <4>1, CursorReads
      <4>4. Cursor(Turn(u[m], ReadString(u[m])))
        BY <4>3, CursorReturns, Zenon DEF Turn
      <4> QED
        BY <4>2, <4>4
    <3> QED
      BY <3>1, <3>2
  <2>7. Nat \subseteq S
    <3> HIDE DEF S
    <3> QED
      BY <2>5, <2>6, Induction
  <2>8. last \in S /\ last <= last
    BY <2>1, <2>7
  <2> QED
    BY <2>2, <2>8
<1> QED
  BY <1>1, <1>2

(* Reading a list of strings out of whatever bytes leaves a cursor. *)
LEMMA CursorStringList ==
  ASSUME NEW data \in Seq(Bytes), NEW k \in Nat, NEW v
  PROVE  Cursor(ReadStringList(At(data, k, v)))
<1> DEFINE count == ReadShort(At(data, k, v))
<1>1. Cursor(count)
  BY CursorAt, CursorReads
<1>2. ReadStringList(At(data, k, v)) =
        Strings(count, IF count.st = "ok" /\ count.v >= 0 THEN count.v ELSE Len(count.data) + 1)
  BY Zenon DEF ReadStringList, ReadList, Strings
<1>3. CASE count.st # "ok"
  <2>1. ReadStringList(At(data, k, v)) = count
    <3> HIDE DEF count
    <3> QED
      BY <1>2, <1>3, Zenon DEF Strings, Repeat
  <2> QED
    BY <1>1, <2>1
<1>4. CASE count.st = "ok"
  <2>1. PICK x \in Nat : count = At(data, k + 2, x)
    BY <1>4, AnyShort
  <2>2. At(data, k + 2, x).v = x /\ At(data, k + 2, x).data = data
    BY AtIs
  <2> HIDE DEF count
  <2>3. count.v \in Nat /\ count.v >= 0 /\ Len(count.data) \in Nat
    BY <2>1, <2>2
  <2>4. ReadStringList(At(data, k, v)) = Strings(count, count.v)
    BY <1>2, <1>4, <2>3, Zenon
  <2>5. Cursor(Strings(count, count.v))
    BY <1>1, <2>3, CursorStrings
  <2> QED
    BY <2>4, <2>5
<1> QED
  BY <1>3, <1>4

-----------------------------------------------------------------------------
(* How the parts of a concatenation are laid out.                          *)

(* Offsets that never go back stay between the first and the last. *)
LEMMA Climbs ==
  ASSUME NEW N \in Nat, NEW off \in [0 .. N -> Nat], \A i \in 1 .. N : off[i - 1] <= off[i]
  PROVE  \A i \in 0 .. N : off[0] <= off[i] /\ off[i] <= off[N]
<1> DEFINE U == {n \in Nat : n <= N => off[0] <= off[n]}
           D == {n \in Nat : n <= N => off[N - n] <= off[N]}
<1>1. 0 \in U /\ 0 \in D
  <2>1. 0 \in 0 .. N /\ N \in 0 .. N /\ N - 0 = N
    OBVIOUS
  <2>2. off[0] \in Nat /\ off[N] \in Nat
    BY <2>1
  <2> QED
    BY <2>1, <2>2
<1>2. ASSUME NEW n \in Nat, n \in U PROVE n + 1 \in U
  <2>1. SUFFICES ASSUME n + 1 <= N PROVE off[0] <= off[n + 1]
    OBVIOUS
  <2>2. n + 1 \in 1 .. N /\ (n + 1) - 1 = n /\ n \in 0 .. N /\ n + 1 \in 0 .. N /\ 0 \in 0 .. N
    BY <2>1
  <2>3. off[n] <= off[n + 1]
    BY <2>2
  <2>4. off[0] <= off[n]
    BY <1>2, <2>1
  <2>5. off[0] \in Nat /\ off[n] \in Nat /\ off[n + 1] \in Nat
    BY <2>2
  <2> QED
    BY <2>3, <2>4, <2>5
<1>3. ASSUME NEW n \in Nat, n \in D PROVE n + 1 \in D
  <2>1. SUFFICES ASSUME n + 1 <= N PROVE off[N - (n + 1)] <= off[N]
    OBVIOUS
  <2>2. /\ N - n \in 1 .. N /\ (N - n) - 1 = N - (n + 1) /\ N - n \in 0 .. N
        /\ N - (n + 1) \in 0 .. N /\ N \in 0 .. N
    BY <2>1
  <2>3. off[N - (n + 1)] <= off[N - n]
    BY <2>2
  <2>4. off[N - n] <= off[N]
    BY <1>3, <2>1
  <2>5. off[N] \in Nat /\ off[N - n] \in Nat /\ off[N - (n + 1)] \in Nat
    BY <2>2
  <2> QED
    BY <2>3, <2>4, <2>5
<1>4. Nat \subseteq U /\ Nat \subseteq D
  <2> HIDE DEF U, D
  <2> QED
    BY <1>1, <1>2, <1>3, Induction
<1>5. ASSUME NEW i \in 0 .. N PROVE off[0] <= off[i] /\ off[i] <= off[N]
  <2>1. i \in Nat /\ N - i \in Nat /\ i <= N /\ N - i <= N /\ N - (N - i) = i
    OBVIOUS
  <2>2. i \in U /\ N - i \in D
    BY <1>4, <2>1
  <2>3. off[N - (N - i)] <= off[N]
    BY <2>1, <2>2
  <2> QED
    BY <2>1, <2>2, <2>3
<1> QED
  BY <1>5

(* Each part of a concatenation has its place. *)
Laid(data, k, ws, j, off) ==
  /\ off \in [0 .. Len(ws) -> Nat] /\ off[0] = k /\ off[Len(ws)] = j
  /\ \A i \in 1 .. Len(ws) : /\ Spans(data, off[i - 1], ws[i], off[i])
                             /\ off[i - 1] \in Nat /\ k <= off[i - 1]
                             /\ off[i] \in Nat /\ off[i] <= j

(* A concatenation in a buffer has a place for each of its parts, and no more
   parts than the buffer has bytes when none is empty. *)
LEMMA LaidOut ==
  ASSUME NEW data \in Seq(Nat), NEW k \in Nat, NEW j, NEW ws \in Seq(Seq(Bytes)),
         Spans(data, k, Concat(ws), j)
  PROVE  /\ \E off : Laid(data, k, ws, j, off)
         /\ (\A i \in 1 .. Len(ws) : Len(ws[i]) > 0) => Len(ws) <= Len(data)
<1> DEFINE N == Len(ws)
<1>1. N \in Nat
  OBVIOUS
<1>2. PICK off \in [0 .. N -> Nat] :
           /\ off[0] = k /\ off[N] = k + Len(Concat(ws))
           /\ \A i \in 1 .. N : off[i] = off[i - 1] + Len(ws[i]) /\ Holds(data, off[i - 1], ws[i])
           /\ (\A i \in 1 .. N : Len(ws[i]) > 0) => N <= Len(data)
  BY Layout DEF Spans
<1>3. off[N] = j
  BY <1>2 DEF Spans
<1>4. ASSUME NEW i \in 1 .. N
      PROVE  off[i - 1] \in Nat /\ off[i] \in Nat /\ off[i - 1] <= off[i] /\ i - 1 \in 0 .. N /\ i \in 0 .. N
  <2>1. i - 1 \in 0 .. N /\ i \in 0 .. N
    BY <1>1
  <2>2. off[i - 1] \in Nat /\ off[i] \in Nat
    BY <1>2, <2>1
  <2>3. Len(ws[i]) \in Nat /\ off[i] = off[i - 1] + Len(ws[i])
    BY <1>2
  <2> QED
    BY <2>1, <2>2, <2>3
<1>5. \A i \in 0 .. N : off[0] <= off[i] /\ off[i] <= off[N]
  BY <1>1, <1>2, <1>4, Climbs
<1>6. \A i \in 1 .. N : Spans(data, off[i - 1], ws[i], off[i])
  BY <1>2, Zenon DEF Spans
<1>7. \A i \in 1 .. N : /\ off[i - 1] \in Nat /\ k <= off[i - 1]
                        /\ off[i] \in Nat /\ off[i] <= j
  BY <1>2, <1>3, <1>4, <1>5, Zenon
<1>8. Laid(data, k, ws, j, off)
  BY <1>2, <1>3, <1>6, <1>7, Zenon DEF Laid
<1> QED
  BY <1>2, <1>8

(* A function on 1 .. n is a sequence of length n. *)
LEMMA MadeOf ==
  ASSUME NEW n \in Nat, NEW vs, vs = [m \in 1 .. n |-> vs[m]]
  PROVE  vs \in Seq({vs[m] : m \in 1 .. n}) /\ Len(vs) = n
<1> DEFINE S == {vs[m] : m \in 1 .. n}
<1>1. \A m \in 1 .. n : vs[m] \in S
  OBVIOUS
<1> HIDE DEF S
<1>2. vs \in Seq(S) /\ Len(vs) = n
  BY <1>1
<1> QED
  BY <1>2 DEF S
=============================================================================
