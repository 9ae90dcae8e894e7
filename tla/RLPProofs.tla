----------------------------- MODULE RLPProofs -----------------------------
(***************************************************************************)
(* Numbers come back from their bytes and their text, and the keys of a    *)
(* database are in the order of the numbers they are made of, for words of *)
(* any width.                                                              *)
(***************************************************************************)
EXTENDS RLP, SumTheorems

-----------------------------------------------------------------------------
(* Powers of two, and of the radix. *)

IsPower(f, n) == f = [k \in 0 .. n |-> IF k = 0 THEN 1 ELSE 2 * f[k - 1]]

LEMMA PowerAt ==
    ASSUME NEW n \in Nat, NEW f, IsPower(f, n)
    PROVE  /\ DOMAIN f = 0 .. n
           /\ f[0] = 1 /\ \A k \in 0 .. n : k > 0 => f[k] = 2 * f[k - 1]
<1> DEFINE value(k) == IF k = 0 THEN 1 ELSE 2 * f[k - 1]
<1>1. f = [k \in 0 .. n |-> value(k)]
  BY DEF IsPower
<1>2. DOMAIN f = 0 .. n /\ \A k \in 0 .. n : f[k] = value(k)
  <2> HIDE DEF value
  <2> QED
    BY <1>1
<1> QED
  BY <1>2

(* There is such a function up to any exponent. *)
LEMMA PowerExists ==
    ASSUME NEW m \in Nat
    PROVE  \E f : IsPower(f, m)
<1> DEFINE Bad == {n \in 0 .. m : ~(\E f : IsPower(f, n))}
<1> SUFFICES ASSUME Bad # {} PROVE FALSE
  OBVIOUS
<1>1. PICK x \in Bad : \A y \in Bad : x <= y
  <2>1. Bad \in SUBSET (0 .. m)
    OBVIOUS
  <2> HIDE DEF Bad
  <2> QED
    BY <2>1, Least
<1>2. x \in Nat /\ x <= m
  BY <1>1
<1>3. PICK g : x > 0 => IsPower(g, x - 1)
  <2>1. CASE x > 0
    <3>1. x - 1 \in 0 .. m /\ ~(x <= x - 1)
      BY <1>2, <2>1
    <3>2. x - 1 \notin Bad
      BY <1>1, <3>1
    <3> QED
      BY <3>1, <3>2
  <2> QED
    BY <2>1
<1> DEFINE value(k) == IF k = 0 THEN 1 ELSE 2 * g[k - 1]
           f == [k \in 0 .. x |-> value(k)]
           again(k) == IF k = 0 THEN 1 ELSE 2 * f[k - 1]
<1>4. ASSUME NEW k \in 0 .. x, k # 0 PROVE f[k - 1] = g[k - 1]
  <2>1. x > 0 /\ k - 1 \in 0 .. (x - 1) /\ k - 1 \in 0 .. x /\ x - 1 \in Nat
    BY <1>2, <1>4
  <2>2. g[k - 1] = value(k - 1)
    <3>1. IsPower(g, x - 1)
      BY <1>3, <2>1
    <3>2. /\ g[0] = 1 /\ \A j \in 0 .. (x - 1) : j > 0 => g[j] = 2 * g[j - 1]
      BY <2>1, <3>1, PowerAt
    <3>3. k - 1 = 0 \/ k - 1 > 0
      BY <2>1
    <3> QED
      BY <2>1, <3>2, <3>3
  <2> HIDE DEF value
  <2>3. f[k - 1] = value(k - 1)
    BY <2>1
  <2> QED
    BY <2>2, <2>3
<1>5. \A k \in 0 .. x : value(k) = again(k)
  <2> HIDE DEF f
  <2> QED
    BY <1>4
<1>6. f = [k \in 0 .. x |-> again(k)]
  <2> HIDE DEF value, again
  <2> QED
    BY <1>5
<1>7. IsPower(f, x)
  <2>1. \A F : F = f => F = [k \in 0 .. x |-> IF k = 0 THEN 1 ELSE 2 * F[k - 1]]
    BY <1>6
  <2> HIDE DEF f
  <2> QED
    BY <2>1 DEF IsPower
<1>8. \E h : IsPower(h, x)
  <2> HIDE DEF f
  <2> QED
    BY <1>7
<1> QED
  BY <1>1, <1>8

(* The powers up to a word. *)
LEMMA TwoPowers ==
    /\ TwoPower[0] = 1
    /\ \A k \in 1 .. 8 * Width : TwoPower[k] = 2 * TwoPower[k - 1]
<1>1. Width \in Nat /\ 8 * Width \in Nat
  BY WidthAssumption
<1>2. \E f : IsPower(f, 8 * Width)
  BY <1>1, PowerExists
<1>3. IsPower(CHOOSE f : IsPower(f, 8 * Width), 8 * Width)
  BY <1>2, Zenon
<1>4. TwoPower = CHOOSE f : IsPower(f, 8 * Width)
  BY Zenon DEF TwoPower, IsPower
<1>5. IsPower(TwoPower, 8 * Width)
  BY <1>3, <1>4
<1>6. /\ TwoPower[0] = 1
      /\ \A k \in 0 .. 8 * Width : k > 0 => TwoPower[k] = 2 * TwoPower[k - 1]
  BY <1>1, <1>5, PowerAt
<1>7. \A k \in 1 .. 8 * Width : k \in 0 .. 8 * Width /\ k > 0
  BY <1>1
<1> QED
  BY <1>6, <1>7

(* Powers grow. *)
LEMMA TwoPowersGrow ==
    \A k \in 0 .. 8 * Width :
        /\ TwoPower[k] \in Nat /\ TwoPower[k] > 0
        /\ \A j \in 0 .. k : TwoPower[j] <= TwoPower[k]
<1> DEFINE m == 8 * Width
           Grown(k) == /\ TwoPower[k] \in Nat /\ TwoPower[k] > 0
                       /\ \A j \in 0 .. k : TwoPower[j] <= TwoPower[k]
           Bad == {k \in 0 .. m : ~Grown(k)}
<1> SUFFICES ASSUME Bad # {} PROVE FALSE
  OBVIOUS
<1>1. m \in Nat
  BY WidthAssumption
<1>0. TwoPower[0] = 1 /\ \A k \in 1 .. m : TwoPower[k] = 2 * TwoPower[k - 1]
  BY TwoPowers
<1> HIDE DEF m
<1>2. PICK x \in Bad : \A y \in Bad : x <= y
  <2>1. Bad \in SUBSET (0 .. m)
    OBVIOUS
  <2> HIDE DEF Bad
  <2> QED
    BY <1>1, <2>1, Least
<1>3. x \in Nat /\ x <= m /\ ~Grown(x)
  BY <1>1, <1>2
<1>4. Grown(0)
  <2>1. \A j \in 0 .. 0 : j = 0
    OBVIOUS
  <2> QED
    BY <2>1, <1>0
<1>5. x > 0
  BY <1>3, <1>4
<1>6. x - 1 \in 0 .. m /\ ~(x <= x - 1)
  BY <1>1, <1>3, <1>5
<1>7. Grown(x - 1)
  BY <1>2, <1>6
<1>8. PICK p \in Nat : p = TwoPower[x - 1] /\ p > 0
  BY <1>7
<1>9. TwoPower[x] = 2 * p
  BY <1>0, <1>1, <1>3, <1>5, <1>8
<1>10. TwoPower[x] \in Nat /\ TwoPower[x] > 0 /\ p <= TwoPower[x]
  BY <1>8, <1>9
<1>11. ASSUME NEW j \in 0 .. x PROVE TwoPower[j] <= TwoPower[x]
  <2>1. CASE j = x
    BY <1>10, <2>1
  <2>2. CASE j # x
    <3>1. j \in 0 .. (x - 1) /\ j \in 0 .. m
      BY <1>1, <1>3, <2>2
    <3>2. TwoPower[j] <= p
      BY <1>7, <1>8, <3>1
    <3>3. TwoPower[j] \in Nat
      <4>1. j \notin Bad
        BY <1>2, <1>3, <2>2, <3>1
      <4> QED
        BY <3>1, <4>1
    <3> QED
      BY <1>8, <1>10, <3>2, <3>3
  <2> QED
    BY <2>1, <2>2
<1>12. Grown(x)
  BY <1>10, <1>11
<1> QED
  BY <1>3, <1>12

LEMMA Powers ==
    /\ RadixPower(0) = 1
    /\ \A k \in 1 .. Width : RadixPower(k) = 256 * RadixPower(k - 1)
<1>1. Width \in Nat
  BY WidthAssumption
<1>2. RadixPower(0) = 1
  <2>1. 8 * 0 = 0
    OBVIOUS
  <2> QED
    BY <2>1, TwoPowers DEF RadixPower
<1>3. ASSUME NEW k \in 1 .. Width PROVE RadixPower(k) = 256 * RadixPower(k - 1)
  <2>1. PICK n \in Nat : n = 8 * (k - 1) /\ n + 8 = 8 * k /\ n + 8 <= 8 * Width
    <3>1. 8 * (k - 1) \in Nat /\ 8 * (k - 1) + 8 = 8 * k /\ 8 * k <= 8 * Width
      BY <1>1
    <3> QED
      BY <3>1
  <2>2. PICK p \in Nat : p = TwoPower[n]
    BY <1>1, <2>1, TwoPowersGrow
  <2>3. ASSUME NEW i \in 1 .. 8 PROVE TwoPower[n + i] = 2 * TwoPower[n + i - 1]
    <3>1. n + i \in 1 .. 8 * Width /\ (n + i) - 1 = n + i - 1
      BY <1>1, <2>1
    <3> QED
      BY <3>1, TwoPowers
  <2>4. /\ n + 1 - 1 = n /\ n + 2 - 1 = n + 1 /\ n + 3 - 1 = n + 2 /\ n + 4 - 1 = n + 3
        /\ n + 5 - 1 = n + 4 /\ n + 6 - 1 = n + 5 /\ n + 7 - 1 = n + 6 /\ n + 8 - 1 = n + 7
    OBVIOUS
  <2>5. /\ TwoPower[n + 1] = 2 * p /\ TwoPower[n + 2] = 2 * TwoPower[n + 1]
        /\ TwoPower[n + 3] = 2 * TwoPower[n + 2] /\ TwoPower[n + 4] = 2 * TwoPower[n + 3]
        /\ TwoPower[n + 5] = 2 * TwoPower[n + 4] /\ TwoPower[n + 6] = 2 * TwoPower[n + 5]
        /\ TwoPower[n + 7] = 2 * TwoPower[n + 6] /\ TwoPower[n + 8] = 2 * TwoPower[n + 7]
    BY <2>2, <2>3, <2>4
  <2>6. TwoPower[n + 8] = 256 * p
    BY <2>5
  <2> QED
    BY <2>1, <2>2, <2>6 DEF RadixPower
<1> QED
  BY <1>2, <1>3

LEMMA PowersGrow ==
    \A k \in 0 .. Width :
        /\ RadixPower(k) \in Nat /\ RadixPower(k) > 0
        /\ \A j \in 0 .. k : RadixPower(j) <= RadixPower(k)
<1>1. Width \in Nat
  BY WidthAssumption
<1>2. ASSUME NEW k \in 0 .. Width
      PROVE  /\ RadixPower(k) \in Nat /\ RadixPower(k) > 0
             /\ \A j \in 0 .. k : RadixPower(j) <= RadixPower(k)
  <2>1. 8 * k \in 0 .. 8 * Width /\ \A j \in 0 .. k : 8 * j \in 0 .. 8 * k
    BY <1>1
  <2> QED
    BY <2>1, TwoPowersGrow DEF RadixPower
<1> QED
  BY <1>2

-----------------------------------------------------------------------------
(* Division. *)

LEMMA DivIs ==
    ASSUME NEW p \in Nat, p > 0, NEW v \in Nat
    PROVE  v \div p \in Nat /\ p * (v \div p) <= v /\ v < p * (v \div p) + p
BY Z3T(30)

LEMMA DivUnique ==
    ASSUME NEW p \in Nat, p > 0, NEW v \in Nat, NEW q \in Nat, p * q <= v, v < p * q + p
    PROVE  v \div p = q
<1>1. PICK d \in Nat : d = v \div p /\ p * d <= v /\ v < p * d + p
  BY DivIs
<1>2. ~(d < q)
  <2>1. ASSUME d < q PROVE p * d + p <= p * q
    <3>1. PICK e \in Nat : q = d + 1 + e
      <4>1. q - d - 1 \in Nat /\ q = d + 1 + (q - d - 1)
        BY <2>1
      <4> QED
        BY <4>1
    <3>2. p * (d + 1 + e) = p * d + p + p * e
      BY Z3T(30)
    <3>3. p * e \in Nat
      BY Z3T(30)
    <3>4. p * d \in Nat /\ p * q \in Nat
      BY Z3T(30)
    <3> QED
      BY <3>1, <3>2, <3>3, <3>4
  <2>2. p * d \in Nat /\ p * q \in Nat
    BY Z3T(30)
  <2> QED
    BY <1>1, <2>1, <2>2
<1>3. ~(q < d)
  <2>1. ASSUME q < d PROVE p * q + p <= p * d
    <3>1. PICK e \in Nat : d = q + 1 + e
      <4>1. d - q - 1 \in Nat /\ d = q + 1 + (d - q - 1)
        BY <2>1
      <4> QED
        BY <4>1
    <3>2. p * (q + 1 + e) = p * q + p + p * e
      BY Z3T(30)
    <3>3. p * e \in Nat
      BY Z3T(30)
    <3>4. p * d \in Nat /\ p * q \in Nat
      BY Z3T(30)
    <3> QED
      BY <3>1, <3>2, <3>3, <3>4
  <2>2. p * d \in Nat /\ p * q \in Nat
    BY Z3T(30)
  <2> QED
    BY <1>1, <2>1, <2>2
<1> QED
  BY <1>1, <1>2, <1>3

(* Dividing by 256 more takes the last digit away. *)
LEMMA DivTwice ==
    ASSUME NEW p \in Nat, p > 0, NEW v \in Nat
    PROVE  v \div p = 256 * (v \div (256 * p)) + ((v \div p) % 256)
<1>1. PICK a \in Nat : a = v \div p /\ p * a <= v /\ v < p * a + p
  BY DivIs
<1>2. PICK b \in Nat, r \in 0 .. 255 : a = 256 * b + r /\ r = a % 256
  <2>1. a \div 256 \in Nat /\ a % 256 \in 0 .. 255 /\ a = 256 * (a \div 256) + (a % 256)
    OBVIOUS
  <2> QED
    BY <2>1
<1>3. PICK pb \in Nat, pr \in Nat : pb = p * b /\ pr = p * r
  <2>1. p * b \in Nat /\ p * r \in Nat
    BY Z3T(30)
  <2> QED
    BY <2>1
<1>4. p * a = 256 * pb + pr
  BY <1>2, <1>3, Z3T(30)
<1>5. pr + p <= 256 * p
  <2>1. p * r <= p * 255
    BY Z3T(30)
  <2> QED
    BY <1>3, <2>1
<1>6. (256 * p) * b = 256 * pb
  BY <1>3, Z3T(30)
<1>7. 256 * p \in Nat /\ 256 * p > 0
  OBVIOUS
<1>8. (256 * p) * b <= v /\ v < (256 * p) * b + 256 * p
  BY <1>1, <1>3, <1>4, <1>5, <1>6
<1>9. v \div (256 * p) = b
  BY <1>7, <1>8, DivUnique
<1> QED
  BY <1>1, <1>2, <1>9

LEMMA DivLeq ==
    ASSUME NEW p \in Nat, p > 0, NEW u \in Nat, NEW v \in Nat, u <= v
    PROVE  u \div p <= v \div p
<1>1. PICK a \in Nat : a = u \div p /\ p * a <= u /\ u < p * a + p
  BY DivIs
<1>2. PICK b \in Nat : b = v \div p /\ p * b <= v /\ v < p * b + p
  BY DivIs
<1>3. ~(b < a)
  <2> SUFFICES ASSUME b < a PROVE FALSE
    OBVIOUS
  <2>1. PICK e \in Nat : a = b + 1 + e
    <3>1. a - b - 1 \in Nat /\ a = b + 1 + (a - b - 1)
      OBVIOUS
    <3> QED
      BY <3>1
  <2>2. p * (b + 1 + e) = p * b + p + p * e
    BY Z3T(30)
  <2>3. p * e \in Nat /\ p * b \in Nat /\ p * a \in Nat
    BY Z3T(30)
  <2> QED
    BY <1>1, <1>2, <2>1, <2>2, <2>3
<1> QED
  BY <1>1, <1>2, <1>3

-----------------------------------------------------------------------------
(* Keys. *)

(* byte i of a key, and the number its first i bytes make *)
Digit(v, i) == (v \div RadixPower(Width - i)) % 256
Leading(v, i) == v \div RadixPower(Width - i)

LEMMA Padded ==
    ASSUME NEW n \in Nat, NEW bs \in Seq(0 .. 255), Len(bs) <= n,
           NEW k, k = [i \in 1 .. n - Len(bs) |-> 0] \o bs
    PROVE  /\ k \in Seq(0 .. 255) /\ Len(k) = n
           /\ \A i \in 1 .. n : i <= n - Len(bs) => k[i] = 0
           /\ \A i \in 1 .. n : ~(i <= n - Len(bs)) => k[i] = bs[i - (n - Len(bs))]
<1>1. PICK m \in Nat : m = n - Len(bs)
  <2>1. n - Len(bs) \in Nat
    OBVIOUS
  <2> QED
    BY <2>1
<1>2. PICK z : z = [i \in 1 .. m |-> 0]
  OBVIOUS
<1>3. z \in Seq(0 .. 255) /\ Len(z) = m /\ \A i \in 1 .. m : z[i] = 0
  BY <1>2
<1>4. k = z \o bs
  BY <1>1, <1>2
<1>5. k \in Seq(0 .. 255) /\ Len(k) = m + Len(bs)
  <2>1. PICK S : S = 0 .. 255
    OBVIOUS
  <2>2. z \in Seq(S) /\ bs \in Seq(S)
    BY <1>3, <2>1
  <2>3. z \o bs \in Seq(S)
    BY <2>2
  <2>4. Len(z \o bs) = Len(z) + Len(bs)
    BY <2>2
  <2>5. z \o bs \in Seq(0 .. 255) /\ Len(z \o bs) = Len(z) + Len(bs)
    BY <2>1, <2>3, <2>4
  <2> QED
    BY <1>3, <1>4, <2>5
<1>6. \A i \in 1 .. m + Len(bs) : k[i] = IF i <= m THEN z[i] ELSE bs[i - m]
  BY <1>3, <1>4
<1>7. m + Len(bs) = n
  BY <1>1
<1>8. \A i \in 1 .. n : i <= m => i \in 1 .. m
  BY <1>1
<1> QED
  BY <1>1, <1>3, <1>5, <1>6, <1>7, <1>8

(* A key has the digits of its number. *)
LEMMA IDIs ==
    ASSUME NEW v \in UintRange(Width)
    PROVE  /\ ID(v) \in Seq(0 .. 255) /\ Len(ID(v)) = Width
           /\ \A i \in 1 .. Width : ID(v)[i] = Digit(v, i)
<1>1. Width \in Nat /\ Width > 0
  BY WidthAssumption
<1>2. v \in Nat /\ v < RadixPower(Width)
  <2>1. RadixPower(Width) \in Nat
    BY <1>1, PowersGrow
  <2> QED
    BY <2>1 DEF UintRange
<1>3. PICK bs : bs = Uint64ToBytes(v)
  OBVIOUS
<1>4. ID(v) = [i \in 1 .. Width - Len(bs) |-> 0] \o bs
  BY <1>3 DEF ID
<1>5. \A i \in 1 .. Width : Width - i \in 0 .. Width
  BY <1>1
<1>6. \A i \in 1 .. Width : RadixPower(Width - i) \in Nat /\ RadixPower(Width - i) > 0
  BY <1>5, PowersGrow
<1>7. CASE v = 0
  <2>1. bs = <<>>
    BY <1>3, <1>7 DEF Uint64ToBytes
  <2>2. bs \in Seq(0 .. 255) /\ Len(bs) = 0 /\ Len(bs) <= Width
    BY <1>1, <2>1
  <2>3. /\ ID(v) \in Seq(0 .. 255) /\ Len(ID(v)) = Width
        /\ \A i \in 1 .. Width : i <= Width - Len(bs) => ID(v)[i] = 0
    BY <1>1, <1>4, <2>2, Padded
  <2>4. \A i \in 1 .. Width : i <= Width - Len(bs)
    BY <1>1, <2>2
  <2>5. ASSUME NEW i \in 1 .. Width PROVE Digit(v, i) = 0
    <3>1. PICK p \in Nat : p = RadixPower(Width - i) /\ p > 0
      BY <1>6
    <3>2. 0 \div p = 0
      BY <3>1, DivUnique, Z3T(30)
    <3> QED
      BY <1>7, <3>1, <3>2 DEF Digit
  <2> QED
    BY <2>3, <2>4, <2>5
<1>8. CASE v # 0
  <2> DEFINE Fits == {n \in 1 .. Width : v \in UintRange(n)}
  <2>1. PICK n \in Fits : n = Min(Fits)
    <3>1. Width \in Fits
      BY <1>1
    <3>2. Fits \in SUBSET (0 .. Width)
      OBVIOUS
    <3> HIDE DEF Fits
    <3>3. \E x \in Fits : \A y \in Fits : x <= y
      BY <1>1, <3>1, <3>2, Least
    <3>4. Min(Fits) \in Fits
      BY <3>3, Zenon DEF Min
    <3> QED
      BY <3>4
  <2>2. bs = Bytes(v, n)
    BY <1>3, <1>8, <2>1 DEF Uint64ToBytes
  <2>3. n \in Nat /\ n <= Width /\ n >= 1
    BY <1>1, <2>1
  <2>4. v < RadixPower(n)
    <3>1. v \in UintRange(n)
      BY <2>1
    <3>2. RadixPower(n) \in Nat
      BY <2>3, PowersGrow
    <3> QED
      BY <3>1, <3>2 DEF UintRange
  <2>5. \A i \in 1 .. n : bs[i] = (v \div RadixPower(n - i)) % 256
    BY <2>2 DEF Bytes, Radix
  <2>6. bs \in Seq(0 .. 255) /\ Len(bs) = n
    <3>1. ASSUME NEW i \in 1 .. n PROVE (v \div RadixPower(n - i)) % 256 \in 0 .. 255
      <4>1. n - i \in 0 .. Width
        BY <1>1, <2>3
      <4>2. PICK p \in Nat : p = RadixPower(n - i) /\ p > 0
        BY <4>1, PowersGrow
      <4>3. v \div p \in Nat
        BY <1>2, <4>2, DivIs
      <4>4. \A x \in Nat : x % 256 \in 0 .. 255
        OBVIOUS
      <4> QED
        BY <4>2, <4>3, <4>4
    <3>2. bs = [i \in 1 .. n |-> (v \div RadixPower(n - i)) % 256]
      BY <2>2 DEF Bytes, Radix
    <3>3. bs \in [1 .. n -> 0 .. 255]
      BY <3>1, <3>2
    <3> QED
      BY <2>3, <3>3
  <2>7. /\ ID(v) \in Seq(0 .. 255) /\ Len(ID(v)) = Width
        /\ \A i \in 1 .. Width : i <= Width - n => ID(v)[i] = 0
        /\ \A i \in 1 .. Width : ~(i <= Width - n) => ID(v)[i] = bs[i - (Width - n)]
    <3>1. Len(bs) <= Width
      BY <2>3, <2>6
    <3>2. /\ ID(v) \in Seq(0 .. 255) /\ Len(ID(v)) = Width
          /\ \A i \in 1 .. Width : i <= Width - Len(bs) => ID(v)[i] = 0
          /\ \A i \in 1 .. Width :
                ~(i <= Width - Len(bs)) => ID(v)[i] = bs[i - (Width - Len(bs))]
      <4> HIDE DEF Fits
      <4>1. bs \in Seq(0 .. 255)
        BY <2>6
      <4> QED
        BY <1>1, <1>4, <3>1, <4>1, Padded
    <3> QED
      BY <2>6, <3>2
  <2>8. ASSUME NEW i \in 1 .. Width, i <= Width - n PROVE Digit(v, i) = 0
    <3>1. n \in 0 .. (Width - i) /\ Width - i \in 0 .. Width
      BY <1>1, <2>3, <2>8
    <3>2. PICK p \in Nat : p = RadixPower(Width - i) /\ p > 0 /\ RadixPower(n) <= p
      BY <3>1, PowersGrow
    <3>3. v < p
      <4>1. RadixPower(n) \in Nat
        BY <2>3, PowersGrow
      <4> QED
        BY <1>2, <2>4, <3>2, <4>1
    <3>4. v \div p = 0
      <4>1. p * 0 <= v /\ v < p * 0 + p
        BY <1>2, <3>3
      <4> QED
        BY <1>2, <3>2, <4>1, DivUnique
    <3> QED
      BY <3>2, <3>4 DEF Digit
  <2>9. ASSUME NEW i \in 1 .. Width, ~(i <= Width - n) PROVE bs[i - (Width - n)] = Digit(v, i)
    <3>1. i - (Width - n) \in 1 .. n /\ n - (i - (Width - n)) = Width - i
      BY <1>1, <2>3, <2>9
    <3> QED
      BY <2>5, <3>1 DEF Digit
  <2> QED
    BY <2>7, <2>8, <2>9
<1> QED
  BY <1>7, <1>8

(* The first bytes of a key. *)
LEMMA LeadingIs ==
    ASSUME NEW v \in UintRange(Width)
    PROVE  /\ Leading(v, 0) = 0 /\ Leading(v, Width) = v
           /\ \A i \in 0 .. Width : Leading(v, i) \in Nat
           /\ \A i \in 1 .. Width : /\ Digit(v, i) \in 0 .. 255
                                    /\ Leading(v, i) = 256 * Leading(v, i - 1) + Digit(v, i)
<1>1. Width \in Nat /\ Width > 0
  BY WidthAssumption
<1>2. v \in Nat /\ v < RadixPower(Width)
  <2>1. RadixPower(Width) \in Nat
    BY <1>1, PowersGrow
  <2> QED
    BY <2>1 DEF UintRange
<1>3. Leading(v, 0) = 0
  <2>1. PICK p \in Nat : p = RadixPower(Width) /\ p > 0
    BY <1>1, PowersGrow
  <2>2. p * 0 <= v /\ v < p * 0 + p
    BY <1>2, <2>1
  <2>3. v \div p = 0
    BY <1>2, <2>1, <2>2, DivUnique
  <2>4. Width - 0 = Width
    BY <1>1
  <2> QED
    BY <2>1, <2>3, <2>4 DEF Leading
<1>4. Leading(v, Width) = v
  <2>1. Width - Width = 0 /\ v \div 1 = v
    BY <1>1, <1>2
  <2> QED
    BY <2>1, Powers DEF Leading
<1>5. ASSUME NEW i \in 0 .. Width PROVE Leading(v, i) \in Nat
  <2>1. Width - i \in 0 .. Width
    BY <1>1
  <2>2. PICK p \in Nat : p = RadixPower(Width - i) /\ p > 0
    BY <2>1, PowersGrow
  <2> QED
    BY <1>2, <2>2, DivIs DEF Leading
<1>6. ASSUME NEW i \in 1 .. Width
      PROVE  /\ Digit(v, i) \in 0 .. 255
             /\ Leading(v, i) = 256 * Leading(v, i - 1) + Digit(v, i)
  <2>1. /\ Width - i \in 0 .. Width /\ Width - (i - 1) \in 1 .. Width
        /\ (Width - (i - 1)) - 1 = Width - i
    BY <1>1
  <2>2. PICK p \in Nat : p = RadixPower(Width - i) /\ p > 0
    BY <2>1, PowersGrow
  <2>3. RadixPower(Width - (i - 1)) = 256 * p
    BY <2>1, <2>2, Powers
  <2>4. v \div p = 256 * (v \div (256 * p)) + ((v \div p) % 256)
    <3>1. p \in Nat /\ p > 0 /\ v \in Nat
      BY <1>2, <2>2
    <3> QED
      BY <3>1, DivTwice, Zenon
  <2>5. v \div p \in Nat
    BY <1>2, <2>2, DivIs
  <2>6. \A x \in Nat : x % 256 \in 0 .. 255
    OBVIOUS
  <2> QED
    BY <2>2, <2>3, <2>4, <2>5, <2>6 DEF Digit, Leading
<1> QED
  BY <1>3, <1>4, <1>5, <1>6

LEMMA NextDigit ==
    ASSUME NEW v \in UintRange(Width), NEW i \in 1 .. Width
    PROVE  Leading(v, i) = 256 * Leading(v, i - 1) + Digit(v, i) /\ Digit(v, i) \in Int
<1>1. Digit(v, i) \in 0 .. 255 /\ Leading(v, i) = 256 * Leading(v, i - 1) + Digit(v, i)
  BY LeadingIs
<1>2. \A x \in 0 .. 255 : x \in Int
  OBVIOUS
<1> QED
  BY <1>1, <1>2

LEMMA LeadingLeq ==
    ASSUME NEW u \in UintRange(Width), NEW v \in UintRange(Width), u <= v,
           NEW i \in 0 .. Width
    PROVE  Leading(u, i) <= Leading(v, i)
<1>1. Width \in Nat
  BY WidthAssumption
<1>2. u \in Nat /\ v \in Nat
  BY DEF UintRange
<1>3. Width - i \in 0 .. Width
  BY <1>1
<1>4. PICK p \in Nat : p = RadixPower(Width - i) /\ p > 0
  BY <1>3, PowersGrow
<1>5. u \div p <= v \div p
  BY <1>2, <1>4, DivLeq
<1> QED
  BY <1>4, <1>5 DEF Leading

(* Of two numbers the smaller one has the smaller digit where they first differ. *)
LEMMA FirstDifference ==
    ASSUME NEW u \in UintRange(Width), NEW v \in UintRange(Width), u < v
    PROVE  \E i \in 1 .. Width : /\ Digit(u, i) < Digit(v, i)
                                 /\ \A j \in 1 .. i - 1 : Digit(u, j) = Digit(v, j)
<1>1. Width \in Nat /\ Width > 0
  BY WidthAssumption
<1>2. u \in Nat /\ v \in Nat
  BY DEF UintRange
<1> DEFINE Differ == {i \in 0 .. Width : Leading(u, i) # Leading(v, i)}
<1>3. PICK i \in Differ : \A j \in Differ : i <= j
  <2>1. Width \in Differ
    BY <1>1, <1>2, LeadingIs
  <2>2. Differ \in SUBSET (0 .. Width)
    OBVIOUS
  <2> HIDE DEF Differ
  <2> QED
    BY <1>1, <2>1, <2>2, Least
<1>4. i \in 0 .. Width /\ Leading(u, i) # Leading(v, i)
  BY <1>3
<1>5. i \in 1 .. Width
  <2>1. i # 0
    BY <1>4, LeadingIs
  <2> QED
    BY <1>1, <1>4, <2>1
<1>6. ASSUME NEW j \in 0 .. (i - 1) PROVE Leading(u, j) = Leading(v, j)
  <2>1. j \in 0 .. Width /\ ~(i <= j)
    BY <1>1, <1>5
  <2> QED
    BY <1>3, <2>1
<1>7. ASSUME NEW j \in 1 .. i - 1 PROVE Digit(u, j) = Digit(v, j)
  <2>1. j \in 1 .. Width /\ j \in 0 .. (i - 1) /\ j - 1 \in 0 .. (i - 1) /\ j - 1 \in 0 .. Width
    BY <1>1, <1>5
  <2>2. PICK x \in Nat, y \in Nat : x = Leading(u, j) /\ y = Leading(u, j - 1)
    BY <2>1, LeadingIs
  <2>3. x = Leading(v, j) /\ y = Leading(v, j - 1)
    BY <1>6, <2>1, <2>2
  <2>4. x = 256 * y + Digit(u, j) /\ Digit(u, j) \in Int
    BY <2>1, <2>2, NextDigit, Zenon
  <2>5. x = 256 * y + Digit(v, j) /\ Digit(v, j) \in Int
    BY <2>1, <2>3, NextDigit, Zenon
  <2> QED
    BY <2>4, <2>5
<1>8. Digit(u, i) < Digit(v, i)
  <2>1. i - 1 \in 0 .. (i - 1) /\ i - 1 \in 0 .. Width
    BY <1>1, <1>5
  <2>2. PICK y \in Nat : y = Leading(u, i - 1) /\ y = Leading(v, i - 1)
    BY <1>6, <2>1, LeadingIs
  <2>3. PICK a \in Nat, b \in Nat : a = Leading(u, i) /\ b = Leading(v, i) /\ a # b
    BY <1>4, LeadingIs
  <2> HIDE DEF Differ
  <2>4. a = 256 * y + Digit(u, i) /\ Digit(u, i) \in Int
    <3>1. Leading(u, i) = 256 * Leading(u, i - 1) + Digit(u, i) /\ Digit(u, i) \in Int
      BY <1>5, NextDigit
    <3> QED
      BY <2>2, <2>3, <3>1
  <2>5. b = 256 * y + Digit(v, i) /\ Digit(v, i) \in Int
    <3>1. Leading(v, i) = 256 * Leading(v, i - 1) + Digit(v, i) /\ Digit(v, i) \in Int
      BY <1>5, NextDigit
    <3> QED
      BY <2>2, <2>3, <3>1
  <2>6. a <= b
    BY <1>2, <1>4, <2>3, LeadingLeq
  <2> QED
    BY <2>3, <2>4, <2>5, <2>6
<1> QED
  BY <1>5, <1>7, <1>8

(* Sequences with the same first elements. *)
LEMMA SameStart ==
    ASSUME NEW S, NEW k \in Seq(S), NEW l \in Seq(S), NEW n \in Nat, n <= Len(k), n <= Len(l)
    PROVE  SubSeq(k, 1, n) = SubSeq(l, 1, n) <=> \A j \in 1 .. n : k[j] = l[j]
<1>1. /\ SubSeq(k, 1, n) = [j \in 1 .. n |-> k[j]]
      /\ SubSeq(l, 1, n) = [j \in 1 .. n |-> l[j]]
  BY SMT
<1>2. ASSUME SubSeq(k, 1, n) = SubSeq(l, 1, n), NEW j \in 1 .. n PROVE k[j] = l[j]
  BY <1>1, <1>2
<1>3. ASSUME \A j \in 1 .. n : k[j] = l[j] PROVE SubSeq(k, 1, n) = SubSeq(l, 1, n)
  BY <1>1, <1>3
<1> QED
  BY <1>2, <1>3

(* Keys are in the order of numbers. *)
LEMMA KeyOrder ==
    ASSUME NEW u \in UintRange(Width), NEW v \in UintRange(Width)
    PROVE  u < v <=> Before(ID(u), ID(v))
<1>1. Width \in Nat /\ Width > 0 /\ u \in Nat /\ v \in Nat
  BY WidthAssumption DEF UintRange
<1>2. PICK k \in Seq(0 .. 255), l \in Seq(0 .. 255) :
         /\ k = ID(u) /\ Len(k) = Width /\ \A i \in 1 .. Width : k[i] = Digit(u, i)
         /\ l = ID(v) /\ Len(l) = Width /\ \A i \in 1 .. Width : l[i] = Digit(v, i)
  BY IDIs
<1>3. DOMAIN k = 1 .. Width /\ DOMAIN l = 1 .. Width
  BY <1>2
<1>4. ASSUME NEW i \in 1 .. Width
      PROVE  SubSeq(k, 1, i - 1) = SubSeq(l, 1, i - 1) <=>
                \A j \in 1 .. i - 1 : Digit(u, j) = Digit(v, j)
  <2>1. PICK n \in Nat : n = i - 1 /\ n <= Width
    <3>1. i - 1 \in Nat /\ i - 1 <= Width
      BY <1>1
    <3> QED
      BY <3>1
  <2>2. SubSeq(k, 1, n) = SubSeq(l, 1, n) <=> \A j \in 1 .. n : k[j] = l[j]
    BY <1>2, <2>1, SameStart
  <2>3. \A j \in 1 .. n : j \in 1 .. Width
    BY <1>1, <2>1
  <2> QED
    BY <1>2, <2>1, <2>2, <2>3
<1>5. ASSUME u < v PROVE Before(k, l)
  <2>1. PICK i \in 1 .. Width : /\ Digit(u, i) < Digit(v, i)
                                /\ \A j \in 1 .. i - 1 : Digit(u, j) = Digit(v, j)
    BY <1>5, FirstDifference
  <2> QED
    BY <1>2, <1>3, <1>4, <2>1 DEF Before
<1>6. ASSUME Before(k, l) PROVE u < v
  <2>1. ~(k # l /\ IsPrefix(k, l))
    <3> SUFFICES ASSUME IsPrefix(k, l) PROVE k = l
      OBVIOUS
    <3>1. SubSeq(k, 1, Len(k)) = SubSeq(l, 1, Len(k))
      BY DEF IsPrefix
    <3>2. \A j \in 1 .. Width : k[j] = l[j]
      BY <1>1, <1>2, <3>1, SameStart
    <3> QED
      BY <1>2, <1>3, <3>2
  <2>2. PICK i \in 1 .. Width :
           k[i] < l[i] /\ SubSeq(k, 1, i - 1) = SubSeq(l, 1, i - 1)
    BY <1>3, <1>6, <2>1 DEF Before
  <2>3. /\ Digit(u, i) < Digit(v, i)
        /\ \A j \in 1 .. i - 1 : Digit(u, j) = Digit(v, j)
    BY <1>2, <1>4, <2>2
  <2>4. \A j \in 1 .. Width : Digit(u, j) \in Int /\ Digit(v, j) \in Int
    <3>1. \A j \in 1 .. Width : Digit(u, j) \in 0 .. 255
      BY LeadingIs
    <3>2. \A j \in 1 .. Width : Digit(v, j) \in 0 .. 255
      BY LeadingIs
    <3>3. \A x \in 0 .. 255 : x \in Int
      OBVIOUS
    <3> QED
      BY <3>1, <3>2, <3>3, Zenon
  <2>5. u # v
    BY <2>3, <2>4
  <2>6. ~(v < u)
    <3> SUFFICES ASSUME v < u PROVE FALSE
      OBVIOUS
    <3>1. PICK m \in 1 .. Width : /\ Digit(v, m) < Digit(u, m)
                                  /\ \A j \in 1 .. m - 1 : Digit(v, j) = Digit(u, j)
      BY FirstDifference
    <3>2. m \in Int /\ i \in Int
      OBVIOUS
    <3>3. CASE m < i
      <4>1. m \in 1 .. i - 1
        BY <3>3
      <4> QED
        BY <2>3, <2>4, <3>1, <4>1
    <3>4. CASE i < m
      <4>1. i \in 1 .. m - 1
        BY <3>4
      <4> QED
        BY <2>3, <2>4, <3>1, <4>1
    <3>5. CASE m = i
      BY <2>3, <2>4, <3>1, <3>5
    <3> QED
      BY <3>2, <3>3, <3>4, <3>5
  <2> QED
    BY <1>1, <2>5, <2>6
<1> QED
  BY <1>2, <1>5, <1>6

-----------------------------------------------------------------------------
(* Folds over sequences. *)

(* A fold over 1 .. n that takes the elements of a set from the largest one down. *)
Folds(g, A, n) ==
    /\ g \in [SUBSET (1 .. n) -> Int]
    /\ \A s \in SUBSET (1 .. n) :
          g[s] = IF s = {} THEN 0 ELSE A[<<g[s \ {Max(s)}], Max(s)>>]

LEMMA MaxBelow ==
    ASSUME NEW n \in Nat, NEW s \in SUBSET (1 .. n), s # {}
    PROVE  Max(s) \in s /\ \A j \in s : Max(s) >= j
<1>1. IsFiniteSet(1 .. n)
  BY FS_Interval
<1>2. IsFiniteSet(s)
  BY <1>1, FS_Subset
<1>3. s \subseteq Int
  OBVIOUS
<1> QED
  BY <1>2, <1>3, MaxOfFinite

(* There is such a fold for any step A. *)
LEMMA FoldExists ==
    ASSUME NEW m \in Nat, NEW A \in [Int \X (1 .. m) -> Int]
    PROVE  \E g : Folds(g, A, m)
<1> DEFINE Bad == {n \in 0 .. m : ~(\E g : Folds(g, A, n))}
<1> SUFFICES ASSUME Bad # {} PROVE FALSE
  OBVIOUS
<1>1. PICK x \in Bad : \A y \in Bad : x <= y
  <2>1. Bad \in SUBSET (0 .. m)
    OBVIOUS
  <2> HIDE DEF Bad
  <2> QED
    BY <2>1, Least
<1>2. x \in Nat /\ x <= m /\ ~(\E g : Folds(g, A, x))
  BY <1>1
<1>3. CASE x = 0
  <2> DEFINE g == [s \in SUBSET (1 .. 0) |-> 0]
  <2>1. \A s \in SUBSET (1 .. 0) : s = {}
    OBVIOUS
  <2>2. g \in [SUBSET (1 .. 0) -> Int] /\ \A s \in SUBSET (1 .. 0) : g[s] = 0
    OBVIOUS
  <2> HIDE DEF g
  <2>3. Folds(g, A, 0)
    BY <2>1, <2>2 DEF Folds
  <2> QED
    BY <1>2, <1>3, <2>3
<1>4. CASE x > 0
  <2>1. PICK y \in Nat : x = y + 1
    <3>1. x - 1 \in Nat /\ x = (x - 1) + 1
      BY <1>2, <1>4
    <3> QED
      BY <3>1
  <2>2. PICK f : Folds(f, A, y)
    <3>1. y \in 0 .. m /\ ~(x <= y)
      BY <1>2, <2>1
    <3>2. y \notin Bad
      BY <1>1, <3>1
    <3> QED
      BY <3>1, <3>2
  <2>3. /\ f \in [SUBSET (1 .. y) -> Int]
        /\ \A s \in SUBSET (1 .. y) :
              f[s] = IF s = {} THEN 0 ELSE A[<<f[s \ {Max(s)}], Max(s)>>]
    BY <2>2 DEF Folds
  <2> DEFINE S == SUBSET (1 .. x)
             value(s) == IF x \in s THEN A[<<f[s \ {x}], x>>] ELSE f[s]
             g == [s \in S |-> value(s)]
  <2>4. \A s \in S : s \ {x} \in SUBSET (1 .. y) /\ (x \notin s => s \in SUBSET (1 .. y))
    BY <1>2, <2>1
  <2>5. ASSUME NEW v \in Int PROVE A[<<v, x>>] \in Int
    <3>1. x \in 1 .. m
      BY <1>2, <1>4
    <3> QED
      BY <3>1
  <2>6. \A s \in S : value(s) \in Int
    BY <2>3, <2>4, <2>5
  <2>7. g \in [S -> Int] /\ \A s \in S : g[s] = value(s)
    <3> HIDE DEF S, value
    <3> QED
      BY <2>6
  <2>8. \A s \in SUBSET (1 .. y) : s \in S /\ g[s] = f[s]
    <3>1. \A s \in SUBSET (1 .. y) : s \in S /\ x \notin s
      BY <1>2, <2>1
    <3> HIDE DEF S, g
    <3> QED
      BY <2>7, <3>1
  <2>9. ASSUME NEW s \in S
        PROVE  g[s] = IF s = {} THEN 0 ELSE A[<<g[s \ {Max(s)}], Max(s)>>]
    <3>1. CASE x \in s
      <4>1. Max(s) = x
        <5>1. s \subseteq Int /\ \A j \in s : x >= j
          BY <1>2
        <5> HIDE DEF S
        <5> QED
          BY <3>1, <5>1, MaxIs
      <4>2. s \ {x} \in SUBSET (1 .. y)
        BY <2>4
      <4>3. g[s \ {x}] = f[s \ {x}] /\ g[s] = A[<<f[s \ {x}], x>>] /\ s # {}
        <5> HIDE DEF S, g
        <5> QED
          BY <2>7, <2>8, <3>1, <4>2
      <4> HIDE DEF S, g
      <4> QED
        BY <4>1, <4>3
    <3>2. CASE x \notin s
      <4>1. s \in SUBSET (1 .. y)
        BY <2>4, <3>2
      <4>2. s \ {Max(s)} \in SUBSET (1 .. y)
        BY <4>1
      <4> HIDE DEF S, g
      <4>3. g[s] = f[s] /\ g[s \ {Max(s)}] = f[s \ {Max(s)}]
        BY <2>8, <4>1, <4>2
      <4> QED
        BY <2>3, <4>1, <4>3
    <3> QED
      BY <3>1, <3>2
  <2>10. Folds(g, A, x)
    <3> HIDE DEF g
    <3> QED
      BY <2>7, <2>9 DEF Folds
  <2> QED
    BY <1>2, <2>10
<1> QED
  BY <1>2, <1>3, <1>4

(* The library's fold of an operator: a recursive function over sets of indexes. *)
ShiftFold(g, bs) ==
    g = [s \in SUBSET DOMAIN bs |->
            IF s = {} THEN 0 ELSE Shift(g[s \ {Max(s)}], bs[Max(s)])]
FlipFold(g, bs) ==
    g = [s \in SUBSET DOMAIN bs |->
            IF s = {} THEN 0 ELSE Shift(g[s \ {Max(s)}], Radix - 1 - bs[Max(s)])]
HexFold(g, ds) ==
    g = [s \in SUBSET DOMAIN ds |->
            IF s = {} THEN 0 ELSE 16 * g[s \ {Max(s)}] + ds[Max(s)]]

LEMMA ShiftIsFold ==
    ASSUME NEW bs
    PROVE  FoldLeft(Shift, 0, bs) = (CHOOSE g : ShiftFold(g, bs))[DOMAIN bs]
BY DEF FoldLeft, MapThenFoldSet, ShiftFold

LEMMA FlipIsFold ==
    ASSUME NEW bs
    PROVE  FoldLeft(LAMBDA v, b : Shift(v, Radix - 1 - b), 0, bs)
               = (CHOOSE g : FlipFold(g, bs))[DOMAIN bs]
BY DEF FoldLeft, MapThenFoldSet, FlipFold

LEMMA HexIsFold ==
    ASSUME NEW ds
    PROVE  FoldLeft(LAMBDA u, d : 16 * u + d, 0, ds)
               = (CHOOSE g : HexFold(g, ds))[DOMAIN ds]
BY DEF FoldLeft, MapThenFoldSet, HexFold

LEMMA ShiftInt ==
    ASSUME NEW v \in Int, NEW b \in Int
    PROVE  Shift(v, b) \in Int
<1>1. Width - 1 \in 0 .. Width
  BY WidthAssumption
<1>2. PICK p \in Nat : p = RadixPower(Width - 1) /\ p > 0
  BY <1>1, PowersGrow
<1>3. v % p \in Int
  BY <1>2
<1> QED
  BY <1>2, <1>3 DEF Shift, Radix

(* The sets 1 .. k that a fold goes through. *)
LEMMA Initial ==
    ASSUME NEW n \in Nat, NEW k \in 1 .. n
    PROVE  /\ 1 .. k \in SUBSET (1 .. n) /\ 1 .. k # {} /\ Max(1 .. k) = k
           /\ (1 .. k) \ {k} = 1 .. k - 1
<1> DEFINE s == 1 .. k
<1>1. s \subseteq Int /\ k \in s /\ \A j \in s : k >= j
  OBVIOUS
<1>2. s \ {k} = 1 .. k - 1 /\ s \in SUBSET (1 .. n)
  OBVIOUS
<1> HIDE DEF s
<1>3. Max(s) = k
  BY <1>1, MaxIs
<1> QED
  BY <1>1, <1>2, <1>3 DEF s

(* What is read from bytes, byte by byte. *)
LEMMA ShiftRuns ==
    ASSUME NEW n \in Nat, NEW bs \in [1 .. n -> Int]
    PROVE  \E h : /\ h[0] = 0 /\ h[n] = FoldLeft(Shift, 0, bs)
                  /\ \A k \in 1 .. n : h[k] = Shift(h[k - 1], bs[k])
<1> DEFINE A == [p \in Int \X (1 .. n) |-> Shift(p[1], bs[p[2]])]
<1>1. A \in [Int \X (1 .. n) -> Int] /\ \A v \in Int, k \in 1 .. n : A[<<v, k>>] = Shift(v, bs[k])
  <2>1. ASSUME NEW v \in Int, NEW k \in 1 .. n PROVE Shift(v, bs[k]) \in Int
    BY ShiftInt
  <2>2. \A p \in Int \X (1 .. n) : p[1] \in Int /\ p[2] \in 1 .. n
    OBVIOUS
  <2>3. \A p \in Int \X (1 .. n) : Shift(p[1], bs[p[2]]) \in Int
    BY <2>1, <2>2
  <2> QED
    BY <2>3
<1>2. PICK f : Folds(f, A, n)
  <2> HIDE DEF A
  <2> QED
    BY <1>1, FoldExists
<1> DEFINE S == SUBSET (1 .. n)
           body(g, s) == IF s = {} THEN 0 ELSE Shift(g[s \ {Max(s)}], bs[Max(s)])
<1>3. ShiftFold(f, bs)
  <2>1. ASSUME NEW s \in S PROVE f[s] = body(f, s)
    <3>1. CASE s = {}
      BY <1>2, <3>1 DEF Folds
    <3>2. CASE s # {}
      <4>1. Max(s) \in 1 .. n
        BY <3>2, MaxBelow
      <4>2. s \ {Max(s)} \in S
        OBVIOUS
      <4> HIDE DEF S, A
      <4>3. f[s \ {Max(s)}] \in Int /\ f[s] = A[<<f[s \ {Max(s)}], Max(s)>>]
        BY <1>2, <3>2, <4>2 DEF Folds, S
      <4>4. A[<<f[s \ {Max(s)}], Max(s)>>] = Shift(f[s \ {Max(s)}], bs[Max(s)])
        BY <1>1, <4>1, <4>3
      <4> QED
        BY <3>2, <4>3, <4>4
    <3> QED
      BY <3>1, <3>2
  <2>2. f = [s \in S |-> f[s]]
    BY <1>2 DEF Folds
  <2>3. f = [s \in S |-> body(f, s)]
    <3> HIDE DEF S, body
    <3> QED
      BY <2>1, <2>2
  <2>4. DOMAIN bs = 1 .. n
    OBVIOUS
  <2> QED
    BY <2>3, <2>4 DEF ShiftFold
<1>4. PICK g : g = (CHOOSE x : ShiftFold(x, bs))
  OBVIOUS
<1>5. ShiftFold(g, bs)
  BY <1>3, <1>4
<1>6. \A s \in S : g[s] = body(g, s)
  <2>1. g = [s \in S |-> body(g, s)]
    BY <1>5 DEF ShiftFold
  <2> HIDE DEF S, body
  <2> QED
    BY <2>1
<1> DEFINE h == [k \in 0 .. n |-> g[1 .. k]]
<1>7. \A k \in 0 .. n : h[k] = g[1 .. k]
  OBVIOUS
<1>8. h[0] = 0
  <2>1. 1 .. 0 = {} /\ {} \in S /\ 0 \in 0 .. n
    OBVIOUS
  <2> HIDE DEF h, S
  <2> QED
    BY <1>6, <1>7, <2>1
<1>9. h[n] = FoldLeft(Shift, 0, bs)
  <2>1. FoldLeft(Shift, 0, bs) = (CHOOSE x : ShiftFold(x, bs))[DOMAIN bs]
    BY ShiftIsFold
  <2>2. DOMAIN bs = 1 .. n /\ n \in 0 .. n
    OBVIOUS
  <2> HIDE DEF h
  <2> QED
    BY <1>4, <1>7, <2>1, <2>2
<1>10. ASSUME NEW k \in 1 .. n PROVE h[k] = Shift(h[k - 1], bs[k])
  <2>1. k \in 0 .. n /\ k - 1 \in 0 .. n
    OBVIOUS
  <2>2. /\ 1 .. k \in S /\ 1 .. k # {} /\ Max(1 .. k) = k
        /\ (1 .. k) \ {k} = 1 .. k - 1
    BY Initial
  <2> HIDE DEF h, S
  <2>3. g[1 .. k] = Shift(g[1 .. k - 1], bs[k])
    BY <1>6, <2>2
  <2> QED
    BY <1>7, <2>1, <2>3
<1> HIDE DEF h
<1> QED
  BY <1>8, <1>9, <1>10

LEMMA FlipRuns ==
    ASSUME NEW n \in Nat, NEW bs \in [1 .. n -> Int]
    PROVE  \E h : /\ h[0] = 0 /\ h[n] = FoldLeft(LAMBDA v, b : Shift(v, Radix - 1 - b), 0, bs)
                  /\ \A k \in 1 .. n : h[k] = Shift(h[k - 1], Radix - 1 - bs[k])
<1> DEFINE A == [p \in Int \X (1 .. n) |-> Shift(p[1], Radix - 1 - bs[p[2]])]
<1>1. A \in [Int \X (1 .. n) -> Int] /\ \A v \in Int, k \in 1 .. n : A[<<v, k>>] = Shift(v, Radix - 1 - bs[k])
  <2>1. ASSUME NEW v \in Int, NEW k \in 1 .. n PROVE Shift(v, Radix - 1 - bs[k]) \in Int
    <3>1. Radix - 1 - bs[k] \in Int
      BY DEF Radix
    <3> QED
      BY <3>1, ShiftInt
  <2>2. \A p \in Int \X (1 .. n) : p[1] \in Int /\ p[2] \in 1 .. n
    OBVIOUS
  <2>3. \A p \in Int \X (1 .. n) : Shift(p[1], Radix - 1 - bs[p[2]]) \in Int
    BY <2>1, <2>2
  <2> QED
    BY <2>3
<1>2. PICK f : Folds(f, A, n)
  <2> HIDE DEF A
  <2> QED
    BY <1>1, FoldExists
<1> DEFINE S == SUBSET (1 .. n)
           body(g, s) == IF s = {} THEN 0 ELSE Shift(g[s \ {Max(s)}], Radix - 1 - bs[Max(s)])
<1>3. FlipFold(f, bs)
  <2>1. ASSUME NEW s \in S PROVE f[s] = body(f, s)
    <3>1. CASE s = {}
      BY <1>2, <3>1 DEF Folds
    <3>2. CASE s # {}
      <4>1. Max(s) \in 1 .. n
        BY <3>2, MaxBelow
      <4>2. s \ {Max(s)} \in S
        OBVIOUS
      <4> HIDE DEF S, A
      <4>3. f[s \ {Max(s)}] \in Int /\ f[s] = A[<<f[s \ {Max(s)}], Max(s)>>]
        BY <1>2, <3>2, <4>2 DEF Folds, S
      <4>4. A[<<f[s \ {Max(s)}], Max(s)>>] = Shift(f[s \ {Max(s)}], Radix - 1 - bs[Max(s)])
        BY <1>1, <4>1, <4>3
      <4> QED
        BY <3>2, <4>3, <4>4
    <3> QED
      BY <3>1, <3>2
  <2>2. f = [s \in S |-> f[s]]
    BY <1>2 DEF Folds
  <2>3. f = [s \in S |-> body(f, s)]
    <3> HIDE DEF S, body
    <3> QED
      BY <2>1, <2>2
  <2>4. DOMAIN bs = 1 .. n
    OBVIOUS
  <2> QED
    BY <2>3, <2>4 DEF FlipFold
<1>4. PICK g : g = (CHOOSE x : FlipFold(x, bs))
  OBVIOUS
<1>5. FlipFold(g, bs)
  BY <1>3, <1>4
<1>6. \A s \in S : g[s] = body(g, s)
  <2>1. g = [s \in S |-> body(g, s)]
    BY <1>5 DEF FlipFold
  <2> HIDE DEF S, body
  <2> QED
    BY <2>1
<1> DEFINE h == [k \in 0 .. n |-> g[1 .. k]]
<1>7. \A k \in 0 .. n : h[k] = g[1 .. k]
  OBVIOUS
<1>8. h[0] = 0
  <2>1. 1 .. 0 = {} /\ {} \in S /\ 0 \in 0 .. n
    OBVIOUS
  <2> HIDE DEF h, S
  <2> QED
    BY <1>6, <1>7, <2>1
<1>9. h[n] = FoldLeft(LAMBDA v, b : Shift(v, Radix - 1 - b), 0, bs)
  <2>1. FoldLeft(LAMBDA v, b : Shift(v, Radix - 1 - b), 0, bs) = (CHOOSE x : FlipFold(x, bs))[DOMAIN bs]
    BY FlipIsFold
  <2>2. DOMAIN bs = 1 .. n /\ n \in 0 .. n
    OBVIOUS
  <2> HIDE DEF h
  <2> QED
    BY <1>4, <1>7, <2>1, <2>2
<1>10. ASSUME NEW k \in 1 .. n PROVE h[k] = Shift(h[k - 1], Radix - 1 - bs[k])
  <2>1. k \in 0 .. n /\ k - 1 \in 0 .. n
    OBVIOUS
  <2>2. /\ 1 .. k \in S /\ 1 .. k # {} /\ Max(1 .. k) = k
        /\ (1 .. k) \ {k} = 1 .. k - 1
    BY Initial
  <2> HIDE DEF h, S
  <2>3. g[1 .. k] = Shift(g[1 .. k - 1], Radix - 1 - bs[k])
    BY <1>6, <2>2
  <2> QED
    BY <1>7, <2>1, <2>3
<1> HIDE DEF h
<1> QED
  BY <1>8, <1>9, <1>10

(* What is read from hexadecimal digits. *)
LEMMA HexRuns ==
    ASSUME NEW n \in Nat, NEW ds \in [1 .. n -> Int]
    PROVE  \E h : /\ h[0] = 0 /\ h[n] = FoldLeft(LAMBDA u, d : 16 * u + d, 0, ds)
                  /\ \A k \in 1 .. n : h[k] = 16 * h[k - 1] + ds[k]
<1> DEFINE A == [p \in Int \X (1 .. n) |-> 16 * p[1] + ds[p[2]]]
<1>1. A \in [Int \X (1 .. n) -> Int] /\ \A v \in Int, k \in 1 .. n : A[<<v, k>>] = 16 * v + ds[k]
  <2>1. ASSUME NEW v \in Int, NEW k \in 1 .. n PROVE 16 * v + ds[k] \in Int
    OBVIOUS
  <2>2. \A p \in Int \X (1 .. n) : p[1] \in Int /\ p[2] \in 1 .. n
    OBVIOUS
  <2>3. \A p \in Int \X (1 .. n) : 16 * p[1] + ds[p[2]] \in Int
    BY <2>1, <2>2
  <2> QED
    BY <2>3
<1>2. PICK f : Folds(f, A, n)
  <2> HIDE DEF A
  <2> QED
    BY <1>1, FoldExists
<1> DEFINE S == SUBSET (1 .. n)
           body(g, s) == IF s = {} THEN 0 ELSE 16 * g[s \ {Max(s)}] + ds[Max(s)]
<1>3. HexFold(f, ds)
  <2>1. ASSUME NEW s \in S PROVE f[s] = body(f, s)
    <3>1. CASE s = {}
      BY <1>2, <3>1 DEF Folds
    <3>2. CASE s # {}
      <4>1. Max(s) \in 1 .. n
        BY <3>2, MaxBelow
      <4>2. s \ {Max(s)} \in S
        OBVIOUS
      <4> HIDE DEF S, A
      <4>3. f[s \ {Max(s)}] \in Int /\ f[s] = A[<<f[s \ {Max(s)}], Max(s)>>]
        BY <1>2, <3>2, <4>2 DEF Folds, S
      <4>4. A[<<f[s \ {Max(s)}], Max(s)>>] = 16 * f[s \ {Max(s)}] + ds[Max(s)]
        BY <1>1, <4>1, <4>3
      <4> QED
        BY <3>2, <4>3, <4>4
    <3> QED
      BY <3>1, <3>2
  <2>2. f = [s \in S |-> f[s]]
    BY <1>2 DEF Folds
  <2>3. f = [s \in S |-> body(f, s)]
    <3> HIDE DEF S, body
    <3> QED
      BY <2>1, <2>2
  <2>4. DOMAIN ds = 1 .. n
    OBVIOUS
  <2> QED
    BY <2>3, <2>4 DEF HexFold
<1>4. PICK g : g = (CHOOSE x : HexFold(x, ds))
  OBVIOUS
<1>5. HexFold(g, ds)
  BY <1>3, <1>4
<1>6. \A s \in S : g[s] = body(g, s)
  <2>1. g = [s \in S |-> body(g, s)]
    BY <1>5 DEF HexFold
  <2> HIDE DEF S, body
  <2> QED
    BY <2>1
<1> DEFINE h == [k \in 0 .. n |-> g[1 .. k]]
<1>7. \A k \in 0 .. n : h[k] = g[1 .. k]
  OBVIOUS
<1>8. h[0] = 0
  <2>1. 1 .. 0 = {} /\ {} \in S /\ 0 \in 0 .. n
    OBVIOUS
  <2> HIDE DEF h, S
  <2> QED
    BY <1>6, <1>7, <2>1
<1>9. h[n] = FoldLeft(LAMBDA u, d : 16 * u + d, 0, ds)
  <2>1. FoldLeft(LAMBDA u, d : 16 * u + d, 0, ds) = (CHOOSE x : HexFold(x, ds))[DOMAIN ds]
    BY HexIsFold
  <2>2. DOMAIN ds = 1 .. n /\ n \in 0 .. n
    OBVIOUS
  <2> HIDE DEF h
  <2> QED
    BY <1>4, <1>7, <2>1, <2>2
<1>10. ASSUME NEW k \in 1 .. n PROVE h[k] = 16 * h[k - 1] + ds[k]
  <2>1. k \in 0 .. n /\ k - 1 \in 0 .. n
    OBVIOUS
  <2>2. /\ 1 .. k \in S /\ 1 .. k # {} /\ Max(1 .. k) = k
        /\ (1 .. k) \ {k} = 1 .. k - 1
    BY Initial
  <2> HIDE DEF h, S
  <2>3. g[1 .. k] = 16 * g[1 .. k - 1] + ds[k]
    BY <1>6, <2>2
  <2> QED
    BY <1>7, <2>1, <2>3
<1> HIDE DEF h
<1> QED
  BY <1>8, <1>9, <1>10

-----------------------------------------------------------------------------
(* Numbers from digits. *)

(* Two runs that start and go on alike end alike. *)
Alike(h, w, n) == h[0] = w[0] /\ \A k \in 1 .. n : h[k - 1] = w[k - 1] => h[k] = w[k]

LEMMA RunsAgree ==
    ASSUME NEW n \in Nat, NEW h, NEW w, Alike(h, w, n)
    PROVE  h[n] = w[n]
<1> DEFINE Bad == {k \in 0 .. n : h[k] # w[k]}
<1> SUFFICES ASSUME Bad # {} PROVE FALSE
  OBVIOUS
<1>1. PICK x \in Bad : \A y \in Bad : x <= y
  <2>1. Bad \in SUBSET (0 .. n)
    OBVIOUS
  <2> HIDE DEF Bad
  <2> QED
    BY <2>1, Least
<1>2. x \in 1 .. n /\ x - 1 \in 0 .. n /\ ~(x <= x - 1)
  BY <1>1 DEF Alike
<1>3. x - 1 \notin Bad
  BY <1>1, <1>2
<1> QED
  BY <1>1, <1>2, <1>3 DEF Alike

(* w has the numbers that the first bytes make. *)
Run(w, ds, n) ==
    /\ n \in 0 .. Width /\ ds \in [1 .. n -> 0 .. 255] /\ w \in [0 .. n -> Nat]
    /\ w[0] = 0 /\ \A k \in 1 .. n : w[k] = 256 * w[k - 1] + ds[k]
Bounded(w, n) == \A k \in 0 .. n : w[k] < RadixPower(k)



(* Numbers of k bytes are less than the power. *)
LEMMA RunBounded ==
    ASSUME NEW n, NEW ds, NEW w, Run(w, ds, n)
    PROVE  Bounded(w, n)
<1> USE DEF Run
<1> DEFINE Bad == {k \in 0 .. n : ~(w[k] < RadixPower(k))}
<1> SUFFICES ASSUME Bad # {} PROVE FALSE
  BY DEF Bounded
<1>1. PICK x \in Bad : \A y \in Bad : x <= y
  <2>1. Bad \in SUBSET (0 .. n) /\ n \in Nat
    BY WidthAssumption
  <2> HIDE DEF Bad
  <2> QED
    BY <2>1, Least
<1>2. Width \in Nat /\ n \in Nat /\ n <= Width
  BY WidthAssumption
<1>3. x # 0
  BY <1>1, Powers
<1>4. x \in 1 .. n /\ x - 1 \in 0 .. n /\ ~(x <= x - 1) /\ x \in 1 .. Width /\ x - 1 \in 0 .. Width
  BY <1>1, <1>2, <1>3
<1>5. x - 1 \notin Bad
  BY <1>1, <1>4
<1>6. PICK p \in Nat : p = RadixPower(x - 1)
  BY <1>4, PowersGrow
<1>7. RadixPower(x) = 256 * p
  BY <1>4, <1>6, Powers
<1>8. PICK a \in Nat : a = w[x - 1] /\ a < p
  BY <1>4, <1>5, <1>6
<1>9. PICK d \in Nat : d = ds[x] /\ d <= 255
  <2>1. ds[x] \in 0 .. 255
    BY <1>4
  <2>2. \A y \in 0 .. 255 : y \in Nat /\ y <= 255
    OBVIOUS
  <2> QED
    BY <2>1, <2>2, Zenon
<1>10. w[x] = 256 * a + d
  BY <1>4, <1>8, <1>9
<1>11. 256 * a + d < 256 * p
  <2> HIDE DEF Bad, Run
  <2> QED
    BY <1>6, <1>8, <1>9
<1> QED
  BY <1>1, <1>7, <1>10, <1>11

LEMMA ShiftIs ==
    ASSUME NEW k \in 1 .. Width, NEW v \in Nat, v < RadixPower(k - 1), NEW b \in Int
    PROVE  Shift(v, b) = 256 * v + b
<1>1. k - 1 \in 0 .. (Width - 1) /\ Width - 1 \in 0 .. Width /\ k - 1 \in 0 .. Width
  BY WidthAssumption
<1>2. PICK p \in Nat : p = RadixPower(Width - 1) /\ p > 0 /\ RadixPower(k - 1) <= p
  BY <1>1, PowersGrow
<1>3. v < p
  <2>1. RadixPower(k - 1) \in Nat
    BY <1>1, PowersGrow
  <2> QED
    BY <1>2, <2>1
<1>4. v % p = v
  BY <1>2, <1>3, Z3T(30)
<1> QED
  BY <1>2, <1>4 DEF Shift, Radix

(* What BytesToUint64 reads, and the other loop of BytesToInt64. *)
LEMMA ReadsUint ==
    ASSUME NEW n, NEW bs, NEW w, Run(w, bs, n)
    PROVE  FoldLeft(Shift, 0, bs) = w[n]
<1>0. Bounded(w, n)
  BY RunBounded
<1>1. Width \in Nat /\ n \in Nat /\ n <= Width /\ \A x \in 0 .. 255 : x \in Int
  BY WidthAssumption DEF Run
<1>2. bs \in [1 .. n -> Int] /\ w \in [0 .. n -> Nat]
  BY <1>1 DEF Run
<1>3. PICK h : /\ h[0] = 0 /\ h[n] = FoldLeft(Shift, 0, bs)
               /\ \A k \in 1 .. n : h[k] = Shift(h[k - 1], bs[k])
  BY <1>1, <1>2, ShiftRuns
<1>4. ASSUME NEW k \in 1 .. n, h[k - 1] = w[k - 1] PROVE h[k] = w[k]
  <2>1. k \in 1 .. Width /\ k - 1 \in 0 .. n
    BY <1>1
  <2>2. w[k - 1] \in Nat /\ w[k - 1] < RadixPower(k - 1) /\ bs[k] \in Int
    BY <1>0, <1>2, <2>1 DEF Bounded
  <2>3. Shift(w[k - 1], bs[k]) = 256 * w[k - 1] + bs[k]
    BY <2>1, <2>2, ShiftIs
  <2> QED
    BY <1>3, <1>4, <2>3 DEF Run
<1>5. Alike(h, w, n)
  BY <1>3, <1>4 DEF Alike, Run
<1>6. h[n] = w[n]
  BY <1>1, <1>5, RunsAgree
<1> QED
  BY <1>3, <1>6

Flipped(ds, bs, n) ==
    bs \in [1 .. n -> 0 .. 255] /\ \A k \in 1 .. n : ds[k] = 255 - bs[k]

LEMMA ReadsFlipped ==
    ASSUME NEW n, NEW bs, NEW ds, NEW w, Run(w, ds, n), Flipped(ds, bs, n)
    PROVE  FoldLeft(LAMBDA v, b : Shift(v, Radix - 1 - b), 0, bs) = w[n]
<1>0. Bounded(w, n)
  BY RunBounded
<1>1. Width \in Nat /\ n \in Nat /\ n <= Width /\ \A x \in 0 .. 255 : x \in Int
  BY WidthAssumption DEF Run
<1>2. bs \in [1 .. n -> Int] /\ ds \in [1 .. n -> Int] /\ w \in [0 .. n -> Nat]
  BY <1>1 DEF Run, Flipped
<1>3. PICK h : /\ h[0] = 0 /\ h[n] = FoldLeft(LAMBDA v, b : Shift(v, Radix - 1 - b), 0, bs)
               /\ \A k \in 1 .. n : h[k] = Shift(h[k - 1], Radix - 1 - bs[k])
  BY <1>1, <1>2, FlipRuns
<1>4. ASSUME NEW k \in 1 .. n, h[k - 1] = w[k - 1] PROVE h[k] = w[k]
  <2>1. k \in 1 .. Width /\ k - 1 \in 0 .. n
    BY <1>1
  <2>2. w[k - 1] \in Nat /\ w[k - 1] < RadixPower(k - 1) /\ ds[k] \in Int
    BY <1>0, <1>2, <2>1 DEF Bounded
  <2>3. Shift(w[k - 1], ds[k]) = 256 * w[k - 1] + ds[k]
    <3>1. PICK a \in Nat, b \in Int : a = w[k - 1] /\ b = ds[k] /\ a < RadixPower(k - 1)
      BY <2>2
    <3>2. Shift(a, b) = 256 * a + b
      BY <2>1, <3>1, ShiftIs
    <3> QED
      BY <3>1, <3>2
  <2>4. Radix - 1 - bs[k] = ds[k]
    BY <1>2 DEF Radix, Flipped
  <2>5. h[k] = Shift(h[k - 1], Radix - 1 - bs[k])
    BY <1>3
  <2>6. w[k] = 256 * w[k - 1] + ds[k]
    BY DEF Run
  <2> QED
    BY <1>4, <2>3, <2>4, <2>5, <2>6, Zenon
<1>5. Alike(h, w, n)
  BY <1>3, <1>4 DEF Alike, Run
<1>6. h[n] = w[n]
  BY <1>1, <1>5, RunsAgree
<1> QED
  BY <1>3, <1>6

(* z has the numbers that the first hexadecimal digits make. *)
HexRun(z, ds, n) == z[0] = 0 /\ \A j \in 1 .. n : z[j] = 16 * z[j - 1] + ds[j]

LEMMA ReadsHex ==
    ASSUME NEW n \in Nat, NEW ds \in [1 .. n -> Int], NEW w, HexRun(w, ds, n)
    PROVE  FoldLeft(LAMBDA u, d : 16 * u + d, 0, ds) = w[n]
<1>1. PICK h : /\ h[0] = 0 /\ h[n] = FoldLeft(LAMBDA u, d : 16 * u + d, 0, ds)
               /\ \A k \in 1 .. n : h[k] = 16 * h[k - 1] + ds[k]
  BY HexRuns
<1>2. ASSUME NEW k \in 1 .. n, h[k - 1] = w[k - 1] PROVE h[k] = w[k]
  BY <1>1, <1>2 DEF HexRun
<1>3. Alike(h, w, n)
  BY <1>1, <1>2 DEF Alike, HexRun
<1>4. h[n] = w[n]
  BY <1>3, RunsAgree
<1> QED
  BY <1>1, <1>4

-----------------------------------------------------------------------------
(* Bytes of a word. *)

LEMMA UintRangeIs ==
    ASSUME NEW n \in 0 .. Width
    PROVE  \E p \in Nat : p = RadixPower(n) /\ p > 0 /\ UintRange(n) = 0 .. p - 1
<1>1. RadixPower(n) \in Nat /\ RadixPower(n) > 0
  BY PowersGrow
<1> QED
  BY <1>1 DEF UintRange

(* The bytes of a number make it again; the first one is its highest digit. *)
LEMMA BytesRun ==
    ASSUME NEW n \in 1 .. Width, NEW v \in UintRange(n)
    PROVE  \E w : /\ Run(w, Bytes(v, n), n)
                  /\ \A k \in 0 .. n : w[k] = v \div RadixPower(n - k)
<1>1. Width \in Nat /\ n \in Nat /\ n > 0 /\ n <= Width /\ n \in 0 .. Width
  BY WidthAssumption
<1>2. PICK q \in Nat : q = RadixPower(n) /\ q > 0 /\ UintRange(n) = 0 .. q - 1
  BY <1>1, UintRangeIs
<1>3. v \in Nat /\ v < q
  BY <1>2
<1> DEFINE lead(k) == v \div RadixPower(n - k)
           w == [k \in 0 .. n |-> lead(k)]
           bs == [k \in 1 .. n |-> lead(k) % 256]
<1>4. ASSUME NEW k \in 0 .. n PROVE lead(k) \in Nat
  <2>1. n - k \in 0 .. Width
    BY <1>1
  <2>2. PICK p \in Nat : p = RadixPower(n - k) /\ p > 0
    BY <2>1, PowersGrow
  <2> QED
    BY <1>3, <2>2, DivIs
<1>5. lead(0) = 0
  <2>1. q * 0 <= v /\ v < q * 0 + q
    BY <1>2, <1>3
  <2>2. v \div q = 0
    BY <1>2, <1>3, <2>1, DivUnique
  <2>3. n - 0 = n
    BY <1>1
  <2> QED
    BY <1>2, <2>2, <2>3
<1>6. ASSUME NEW k \in 1 .. n PROVE lead(k) = 256 * lead(k - 1) + (lead(k) % 256)
  <2>1. /\ n - k \in 0 .. Width /\ n - (k - 1) \in 1 .. Width
        /\ (n - (k - 1)) - 1 = n - k
    BY <1>1
  <2>2. PICK p \in Nat : p = RadixPower(n - k) /\ p > 0
    BY <2>1, PowersGrow
  <2>3. RadixPower(n - (k - 1)) = 256 * p
    BY <2>1, <2>2, Powers
  <2>4. v \div p = 256 * (v \div (256 * p)) + ((v \div p) % 256)
    <3>1. p \in Nat /\ p > 0 /\ v \in Nat
      BY <1>3, <2>2
    <3> QED
      BY <3>1, DivTwice, Zenon
  <2> QED
    BY <2>2, <2>3, <2>4
<1>7. Bytes(v, n) = bs
  BY DEF Bytes, Radix
<1>8. \A k \in 0 .. n : w[k] = lead(k)
  OBVIOUS
<1>9. \A k \in 1 .. n : bs[k] = lead(k) % 256
  OBVIOUS
<1>10. w \in [0 .. n -> Nat]
  <2> HIDE DEF lead
  <2> QED
    BY <1>4
<1>11. bs \in [1 .. n -> 0 .. 255]
  <2>1. \A x \in Nat : x % 256 \in 0 .. 255
    OBVIOUS
  <2>2. \A k \in 1 .. n : lead(k) \in Nat
    BY <1>4
  <2> HIDE DEF lead
  <2> QED
    BY <2>1, <2>2
<1>12. Run(w, bs, n)
  <2> HIDE DEF lead, w, bs
  <2>1. \A k \in 1 .. n : k \in 0 .. n /\ k - 1 \in 0 .. n
    BY <1>1
  <2>2. \A k \in 1 .. n : w[k] = 256 * w[k - 1] + bs[k]
    BY <1>6, <1>8, <1>9, <2>1
  <2>3. w[0] = 0
    BY <1>1, <1>5, <1>8
  <2> QED
    BY <1>1, <1>10, <1>11, <2>2, <2>3 DEF Run
<1> HIDE DEF w, bs
<1> QED
  BY <1>7, <1>8, <1>12

LEMMA UintBack ==
    ASSUME NEW n \in 1 .. Width, NEW v \in UintRange(n)
    PROVE  /\ BytesToUint64(Bytes(v, n)) = v
           /\ Bytes(v, n) \in [1 .. n -> 0 .. 255]
           /\ Bytes(v, n)[1] = v \div RadixPower(n - 1)
<1>1. Width \in Nat /\ n \in Nat /\ n > 0 /\ n <= Width /\ n \in 0 .. Width
  BY WidthAssumption
<1>2. PICK w : /\ Run(w, Bytes(v, n), n)
               /\ \A k \in 0 .. n : w[k] = v \div RadixPower(n - k)
  BY BytesRun
<1>3. PICK bs : bs = Bytes(v, n)
  OBVIOUS
<1>4. BytesToUint64(bs) = w[n]
  BY <1>2, <1>3, ReadsUint DEF BytesToUint64
<1>5. w[n] = v
  <2>1. v \in Nat
    BY <1>1, UintRangeIs
  <2>2. n \in 0 .. n /\ n - n = 0 /\ v \div 1 = v
    BY <1>1, <2>1
  <2> QED
    BY <1>2, <2>2, Powers
<1>6. bs \in [1 .. n -> 0 .. 255]
  BY <1>2, <1>3 DEF Run
<1>7. bs[1] = w[1]
  <2>1. 1 \in 1 .. n /\ 1 - 1 = 0 /\ \A x \in 0 .. 255 : 256 * 0 + x = x
    BY <1>1
  <2>2. w[1] = 256 * w[1 - 1] + bs[1] /\ w[0] = 0
    BY <1>2, <1>3, <2>1 DEF Run
  <2>3. bs[1] \in 0 .. 255
    BY <1>6, <2>1
  <2>4. 256 * 0 + bs[1] = bs[1]
    BY <2>1, <2>3, Zenon
  <2> QED
    BY <2>1, <2>2, <2>4, Zenon
<1>8. w[1] = v \div RadixPower(n - 1)
  <2>1. 1 \in 0 .. n
    BY <1>1
  <2> QED
    BY <1>2, <2>1
<1> QED
  BY <1>3, <1>4, <1>5, <1>6, <1>7, <1>8

LEMMA DivInt ==
    ASSUME NEW p \in Nat, p > 0, NEW v \in Int
    PROVE  v \div p \in Int /\ p * (v \div p) <= v /\ v < p * (v \div p) + p
BY Z3T(30)

(* Half of the numbers of n bytes. *)
LEMMA Halves ==
    ASSUME NEW n \in 1 .. Width
    PROVE  \E h \in Nat : /\ h = TwoPower[8 * n - 1] /\ h = 128 * RadixPower(n - 1)
                          /\ RadixPower(n) = 2 * h /\ h > 0
                          /\ MinInt(n) = -h /\ IntRange(n) = -h .. h - 1
                          /\ UintRange(n) = 0 .. 2 * h - 1
<1>1. Width \in Nat /\ n \in Nat /\ n > 0 /\ n <= Width
  BY WidthAssumption
<1>2. 8 * n - 1 \in 0 .. 8 * Width /\ 8 * n \in 1 .. 8 * Width /\ n - 1 \in 0 .. Width
  BY <1>1
<1>3. PICK h \in Nat : h = TwoPower[8 * n - 1] /\ h > 0
  BY <1>2, TwoPowersGrow
<1>4. TwoPower[8 * n] = 2 * h
  BY <1>2, <1>3, TwoPowers
<1>5. RadixPower(n) = 2 * h
  BY <1>4 DEF RadixPower
<1>6. PICK p \in Nat : p = RadixPower(n - 1)
  BY <1>2, PowersGrow
<1>7. 2 * h = 256 * p
  BY <1>5, <1>6, Powers
<1>8. h = 128 * p /\ (2 * h) \div 2 = h
  BY <1>3, <1>6, <1>7
<1>9. MinInt(n) = -h /\ -(-h) - 1 = h - 1
  BY <1>3, <1>5, <1>8 DEF MinInt
<1>10. IntRange(n) = -h .. h - 1
  BY <1>9 DEF IntRange
<1> QED
  BY <1>3, <1>5, <1>6, <1>8, <1>9, <1>10 DEF UintRange

(* A power is a multiple of the smaller ones. *)
LEMMA PowersDivide ==
    ASSUME NEW n \in 0 .. Width, NEW j \in 0 .. n
    PROVE  RadixPower(n) = RadixPower(j) * RadixPower(n - j)
<1>1. Width \in Nat /\ n \in Nat /\ n <= Width
  BY WidthAssumption
<1> DEFINE Bad == {k \in 0 .. n : ~(RadixPower(n) = RadixPower(k) * RadixPower(n - k))}
<1> SUFFICES ASSUME Bad # {} PROVE FALSE
  OBVIOUS
<1>2. PICK x \in Bad : \A y \in Bad : x <= y
  <2>1. Bad \in SUBSET (0 .. n)
    OBVIOUS
  <2> HIDE DEF Bad
  <2> QED
    BY <1>1, <2>1, Least
<1>3. x \in 0 .. n /\ ~(RadixPower(n) = RadixPower(x) * RadixPower(n - x))
  BY <1>2
<1>4. x # 0
  <2>1. 0 \in 0 .. Width /\ n - 0 = n
    BY <1>1
  <2>2. PICK p \in Nat : p = RadixPower(n)
    BY <1>1, PowersGrow
  <2>3. p = 1 * p
    OBVIOUS
  <2> QED
    BY <1>3, <2>1, <2>2, <2>3, Powers
<1>5. /\ x - 1 \in 0 .. n /\ ~(x <= x - 1) /\ x \in 1 .. Width /\ x - 1 \in 0 .. Width
      /\ n - x \in 0 .. Width /\ n - (x - 1) \in 1 .. Width /\ (n - (x - 1)) - 1 = n - x
  BY <1>1, <1>3, <1>4
<1>6. RadixPower(n) = RadixPower(x - 1) * RadixPower(n - (x - 1))
  BY <1>2, <1>5
<1>7. PICK p \in Nat, q \in Nat : p = RadixPower(x - 1) /\ q = RadixPower(n - x)
  BY <1>5, PowersGrow
<1>8. RadixPower(x) = 256 * p /\ RadixPower(n - (x - 1)) = 256 * q
  BY <1>5, <1>7, Powers
<1>9. p * (256 * q) = (256 * p) * q
  BY <1>7, Z3T(30)
<1> QED
  BY <1>3, <1>6, <1>7, <1>8, <1>9

LEMMA SmallerIsZero ==
    ASSUME NEW p \in Nat, NEW d \in Int, -p < p * d, p * d < p
    PROVE  d = 0
<1>1. CASE d > 0
  <2>1. PICK e \in Nat : d = e + 1
    <3>1. d - 1 \in Nat /\ d = (d - 1) + 1
      BY <1>1
    <3> QED
      BY <3>1
  <2>2. p * (e + 1) = p * e + p /\ p * e \in Nat
    BY <2>1, Z3T(30)
  <2> QED
    BY <2>1, <2>2
<1>2. CASE d < 0
  <2>1. PICK e \in Nat : d = -e - 1
    <3>1. -d - 1 \in Nat /\ d = -(-d - 1) - 1
      BY <1>2
    <3> QED
      BY <3>1
  <2>2. p * (-e - 1) = -(p * e) - p /\ p * e \in Nat
    BY <2>1, Z3T(30)
  <2> QED
    BY <2>1, <2>2
<1> QED
  BY <1>1, <1>2

(* Multiples of the divisor. *)
LEMMA DivPlus ==
    ASSUME NEW p \in Nat, p > 0, NEW v \in Int, NEW c \in Int
    PROVE  (v + p * c) \div p = (v \div p) + c
<1>1. PICK x \in Int : x = v + p * c
  <2>1. p * c \in Int
    BY Z3T(30)
  <2> QED
    BY <2>1
<1>2. PICK a \in Int : a = v \div p /\ p * a <= v /\ v < p * a + p
  BY DivInt
<1>3. PICK b \in Int : b = x \div p /\ p * b <= x /\ x < p * b + p
  BY <1>1, DivInt
<1>4. p * ((a + c) - b) = p * a + p * c - p * b /\ p * a \in Int /\ p * b \in Int /\ p * c \in Int
  BY <1>2, <1>3, Z3T(30)
<1>5. (a + c) - b = 0
  <2>1. PICK d \in Int : d = (a + c) - b
    BY <1>2, <1>3
  <2>2. -p < p * d /\ p * d < p
    BY <1>1, <1>2, <1>3, <1>4, <2>1
  <2>3. d = 0
    BY <2>1, <2>2, SmallerIsZero
  <2> QED
    BY <2>1, <2>3
<1> QED
  BY <1>1, <1>2, <1>3, <1>5

(* A negative number has the bytes of its two's complement. *)
LEMMA Complement ==
    ASSUME NEW n \in 1 .. Width, NEW v \in Int
    PROVE  Bytes(v, n) = Bytes(v + RadixPower(n), n)
<1>1. Width \in Nat /\ n \in Nat /\ n > 0 /\ n <= Width
  BY WidthAssumption
<1> DEFINE digit(u, i) == (u \div RadixPower(n - i)) % 256
<1>2. PICK q \in Nat : q = RadixPower(n)
  BY <1>1, PowersGrow
<1>3. ASSUME NEW i \in 1 .. n PROVE digit(v, i) = digit(v + q, i)
  <2>1. /\ n \in 0 .. Width /\ n - i \in 0 .. n /\ n - i \in 0 .. Width /\ n - (n - i) = i
        /\ i \in 1 .. Width /\ i - 1 \in 0 .. Width
    BY <1>1
  <2>2. PICK p \in Nat : p = RadixPower(n - i) /\ p > 0
    BY <2>1, PowersGrow
  <2>3. PICK c \in Nat : c = RadixPower(i - 1)
    BY <2>1, PowersGrow
  <2>4. q = p * (256 * c)
    <3>1. RadixPower(n) = RadixPower(n - i) * RadixPower(n - (n - i))
      BY <2>1, PowersDivide
    <3>2. RadixPower(i) = 256 * c
      BY <2>1, <2>3, Powers
    <3> QED
      BY <1>2, <2>1, <2>2, <3>1, <3>2
  <2>5. (v + p * (256 * c)) \div p = (v \div p) + 256 * c
    <3>1. PICK e \in Int : e = 256 * c
      BY <2>3
    <3>2. (v + p * e) \div p = (v \div p) + e
      BY <2>2, DivPlus
    <3> QED
      BY <3>1, <3>2
  <2>6. PICK a \in Int : a = v \div p
    BY <2>2, DivInt
  <2>7. (a + 256 * c) % 256 = a % 256
    BY <2>3, <2>6, Z3T(30)
  <2> QED
    BY <2>2, <2>4, <2>5, <2>6, <2>7
<1>4. [i \in 1 .. n |-> digit(v, i)] = [i \in 1 .. n |-> digit(v + q, i)]
  <2> HIDE DEF digit
  <2> QED
    BY <1>3
<1> QED
  BY <1>2, <1>4 DEF Bytes, Radix

-----------------------------------------------------------------------------
(* Machine words. *)

(* The first byte has the sign. *)
LEMMA FirstByte ==
    ASSUME NEW n \in 1 .. Width, NEW u \in UintRange(n), NEW h \in Nat, h = 128 * RadixPower(n - 1)
    PROVE  Head(Bytes(u, n)) >= Top <=> u >= h
<1>1. Width \in Nat /\ n \in Nat /\ n > 0 /\ n <= Width /\ n \in 0 .. Width /\ n - 1 \in 0 .. Width
  BY WidthAssumption
<1>2. PICK p \in Nat : p = RadixPower(n - 1) /\ p > 0
  BY <1>1, PowersGrow
<1>3. u \in Nat
  BY <1>1, UintRangeIs
<1>4. PICK a \in Nat : a = u \div p /\ p * a <= u /\ u < p * a + p
  BY <1>2, <1>3, DivIs
<1>5. Head(Bytes(u, n)) = a
  <2>1. Bytes(u, n) \in [1 .. n -> 0 .. 255] /\ Bytes(u, n)[1] = a
    BY <1>2, <1>4, UintBack
  <2> QED
    BY <2>1
<1>6. a >= 128 => u >= h
  <2> SUFFICES ASSUME a >= 128 PROVE u >= h
    OBVIOUS
  <2>1. PICK e \in Nat : a = 128 + e
    <3>1. a - 128 \in Nat /\ a = 128 + (a - 128)
      BY <1>4
    <3> QED
      BY <3>1
  <2>2. p * (128 + e) = 128 * p + p * e /\ p * e \in Nat
    BY <1>2, <2>1, Z3T(30)
  <2> QED
    BY <1>2, <1>3, <1>4, <2>1, <2>2
<1>7. u >= h => a >= 128
  <2> SUFFICES ASSUME u >= h, ~(a >= 128) PROVE FALSE
    BY <1>4
  <2>1. PICK e \in Nat : a + e + 1 = 128
    <3>1. 127 - a \in Nat /\ a + (127 - a) + 1 = 128
      BY <1>4
    <3> QED
      BY <3>1
  <2>2. p * (a + e + 1) = p * a + p * e + p /\ p * e \in Nat /\ p * a \in Nat
    BY <1>2, <1>4, <2>1, Z3T(30)
  <2> QED
    BY <1>2, <1>3, <1>4, <2>1, <2>2
<1> QED
  BY <1>5, <1>6, <1>7 DEF Top, Radix

(* Numbers without a sign come back, and with one byte order. *)
LEMMA Uint64Is ==
    ASSUME NEW v \in UintRange(Width), v # 0
    PROVE  \E n \in 1 .. Width : /\ Uint64ToBytes(v) = Bytes(v, n) /\ v \in UintRange(n)
                                 /\ \A m \in 1 .. Width : v \in UintRange(m) => n <= m
<1>1. Width \in Nat /\ Width > 0
  BY WidthAssumption
<1> DEFINE Fits == {n \in 1 .. Width : v \in UintRange(n)}
<1>2. Width \in Fits /\ Fits \in SUBSET (0 .. Width)
  BY <1>1
<1>3. Min(Fits) \in Fits /\ \A m \in Fits : Min(Fits) <= m
  <2> HIDE DEF Fits
  <2>1. \E x \in Fits : \A y \in Fits : x <= y
    BY <1>1, <1>2, Least
  <2> QED
    BY <2>1, Zenon DEF Min
<1>4. Uint64ToBytes(v) = Bytes(v, Min(Fits))
  BY DEF Uint64ToBytes
<1>5. PICK n \in 1 .. Width : n = Min(Fits)
  BY <1>3
<1> QED
  BY <1>3, <1>4, <1>5

LEMMA Int64Is ==
    ASSUME NEW v \in IntRange(Width), v # 0
    PROVE  \E n \in 1 .. Width : /\ Int64ToBytes(v) = Bytes(v, n) /\ v \in IntRange(n)
                                 /\ \A m \in 1 .. Width : v \in IntRange(m) => n <= m
<1>1. Width \in Nat /\ Width > 0
  BY WidthAssumption
<1> DEFINE Fits == {n \in 1 .. Width : v \in IntRange(n)}
<1>2. Width \in Fits /\ Fits \in SUBSET (0 .. Width)
  BY <1>1
<1>3. Min(Fits) \in Fits /\ \A m \in Fits : Min(Fits) <= m
  <2> HIDE DEF Fits
  <2>1. \E x \in Fits : \A y \in Fits : x <= y
    BY <1>1, <1>2, Least
  <2> QED
    BY <2>1, Zenon DEF Min
<1>4. Int64ToBytes(v) = Bytes(v, Min(Fits))
  BY DEF Int64ToBytes
<1>5. PICK n \in 1 .. Width : n = Min(Fits)
  BY <1>3
<1> QED
  BY <1>3, <1>4, <1>5

(* Reading no bytes gives 0. *)
LEMMA EmptyIsZero == FoldLeft(Shift, 0, <<>>) = 0
<1>1. <<>> \in [1 .. 0 -> Int]
  OBVIOUS
<1>2. PICK h : h[0] = 0 /\ h[0] = FoldLeft(Shift, 0, <<>>)
  BY <1>1, ShiftRuns
<1> QED
  BY <1>2

LEMMA UintReadsBack ==
    ASSUME NEW v \in UintRange(Width)
    PROVE  BytesToUint64(Uint64ToBytes(v)) = v
<1>1. CASE v = 0
  BY <1>1, EmptyIsZero DEF Uint64ToBytes, BytesToUint64
<1>2. CASE v # 0
  <2>1. PICK n \in 1 .. Width : Uint64ToBytes(v) = Bytes(v, n) /\ v \in UintRange(n)
    BY <1>2, Uint64Is
  <2> QED
    BY <2>1, UintBack
<1> QED
  BY <1>1, <1>2

(* The complements of the bytes make the complement of the number. *)
LEMMA ReadsComplement ==
    ASSUME NEW n, NEW bs, NEW w, Run(w, bs, n)
    PROVE  FoldLeft(LAMBDA x, b : Shift(x, Radix - 1 - b), 0, bs) = RadixPower(n) - 1 - w[n]
<1>1. /\ Width \in Nat /\ n \in Nat /\ n <= Width /\ n \in 0 .. Width
      /\ bs \in [1 .. n -> 0 .. 255] /\ w \in [0 .. n -> Nat]
  <2>1. n \in 0 .. Width /\ bs \in [1 .. n -> 0 .. 255] /\ w \in [0 .. n -> Nat]
    BY DEF Run
  <2>2. Width \in Nat /\ n \in Nat /\ n <= Width
    BY <2>1, WidthAssumption
  <2> QED
    BY <2>1, <2>2
<1>2. Bounded(w, n)
  BY RunBounded
<1> DEFINE ds == [k \in 1 .. n |-> 255 - bs[k]]
           rest(k) == RadixPower(k) - 1 - w[k]
           z == [k \in 0 .. n |-> rest(k)]
<1>3. ds \in [1 .. n -> 0 .. 255] /\ \A k \in 1 .. n : ds[k] = 255 - bs[k]
  <2>1. \A x \in 0 .. 255 : 255 - x \in 0 .. 255
    OBVIOUS
  <2>2. \A k \in 1 .. n : 255 - bs[k] \in 0 .. 255
    BY <1>1, <2>1, Zenon
  <2> QED
    BY <2>2
<1>4. \A k \in 0 .. n : rest(k) \in Nat
  <2> SUFFICES ASSUME NEW k \in 0 .. n PROVE rest(k) \in Nat
    OBVIOUS
  <2>1. k \in 0 .. Width
    BY <1>1
  <2>2. PICK p \in Nat : p = RadixPower(k)
    BY <2>1, PowersGrow
  <2>3. w[k] \in Nat /\ w[k] < p
    BY <1>1, <1>2, <2>2 DEF Bounded
  <2> QED
    BY <2>2, <2>3
<1>5. z \in [0 .. n -> Nat] /\ \A k \in 0 .. n : z[k] = rest(k)
  <2> HIDE DEF rest
  <2> QED
    BY <1>4
<1>6. z[0] = 0
  <2>1. 0 \in 0 .. n /\ w[0] = 0
    BY <1>1 DEF Run
  <2>2. rest(0) = 0
    BY <2>1, Powers
  <2> HIDE DEF z
  <2> QED
    BY <1>5, <2>1, <2>2
<1>7. ASSUME NEW k \in 1 .. n PROVE z[k] = 256 * z[k - 1] + ds[k]
  <2>1. k \in 0 .. n /\ k - 1 \in 0 .. n /\ k \in 1 .. Width /\ k - 1 \in 0 .. Width
    BY <1>1
  <2>2. PICK p \in Nat : p = RadixPower(k - 1) /\ RadixPower(k) = 256 * p
    BY <2>1, Powers, PowersGrow
  <2>3. PICK a \in Nat : a = w[k - 1]
    BY <1>1, <2>1
  <2>4. PICK b \in Int : b = bs[k]
    <3>1. bs[k] \in 0 .. 255 /\ \A x \in 0 .. 255 : x \in Int
      BY <1>1
    <3> QED
      BY <3>1
  <2>5. w[k] = 256 * a + b
    BY <2>3, <2>4 DEF Run
  <2>6. rest(k) = 256 * p - 1 - (256 * a + b) /\ rest(k - 1) = p - 1 - a
    BY <2>2, <2>3, <2>5
  <2>7. 256 * p - 1 - (256 * a + b) = 256 * (p - 1 - a) + (255 - b)
    BY <2>2, <2>3, <2>4
  <2> HIDE DEF z, ds, rest
  <2> QED
    BY <1>3, <1>5, <2>1, <2>4, <2>6, <2>7
<1> HIDE DEF z, ds
<1>8. Run(z, ds, n)
  BY <1>1, <1>3, <1>5, <1>6, <1>7 DEF Run
<1>9. FoldLeft(LAMBDA x, b : Shift(x, Radix - 1 - b), 0, bs) = z[n]
  <2>1. Flipped(ds, bs, n)
    BY <1>1, <1>3 DEF Flipped
  <2> QED
    BY <1>8, <2>1, ReadsFlipped
<1>10. z[n] = RadixPower(n) - 1 - w[n]
  BY <1>1, <1>5
<1> QED
  BY <1>9, <1>10

(* The bytes of a signed number, read with and without the sign. *)
LEMMA IntBack ==
    ASSUME NEW n \in 1 .. Width, NEW v \in IntRange(n)
    PROVE  /\ BytesToInt64(Bytes(v, n)) = v
           /\ BytesToUint64(Bytes(v, n)) = IF v < 0 THEN v + RadixPower(n) ELSE v
           /\ Bytes(v, n) \in [1 .. n -> 0 .. 255]
           /\ Head(Bytes(v, n)) >= Top <=> v < 0
<1>1. Width \in Nat /\ n \in Nat /\ n > 0 /\ n <= Width
  BY WidthAssumption
<1>2. PICK h \in Nat : /\ h = 128 * RadixPower(n - 1) /\ RadixPower(n) = 2 * h /\ h > 0
                       /\ IntRange(n) = -h .. h - 1 /\ UintRange(n) = 0 .. 2 * h - 1
  BY Halves
<1>3. v \in Int /\ -h <= v /\ v < h
  BY <1>2
<1>4. PICK bs : bs = Bytes(v, n)
  OBVIOUS
<1>5. CASE v >= 0
  <2>1. v \in UintRange(n) /\ ~(v >= h) /\ ~(v < 0)
    BY <1>2, <1>3, <1>5
  <2>2. BytesToUint64(bs) = v /\ bs \in [1 .. n -> 0 .. 255]
    BY <1>4, <2>1, UintBack
  <2>3. ~(Head(bs) >= Top)
    BY <1>2, <1>4, <2>1, FirstByte
  <2>4. BytesToInt64(bs) = v
    BY <2>2, <2>3 DEF BytesToInt64, BytesToUint64
  <2> QED
    BY <1>4, <2>1, <2>2, <2>3, <2>4
<1>6. CASE v < 0
  <2>1. PICK u \in UintRange(n) : u = v + RadixPower(n) /\ u >= h /\ u = v + 2 * h /\ u \in Nat
    BY <1>2, <1>3, <1>6
  <2>2. bs = Bytes(u, n)
    BY <1>3, <1>4, <2>1, Complement
  <2>3. BytesToUint64(bs) = u /\ bs \in [1 .. n -> 0 .. 255]
    BY <2>2, UintBack
  <2>4. Head(bs) >= Top
    BY <1>2, <2>1, <2>2, FirstByte
  <2>5. bs # <<>>
    BY <1>1, <2>3
  <2>6. PICK w : /\ Run(w, bs, n)
                 /\ \A k \in 0 .. n : w[k] = u \div RadixPower(n - k)
    BY <2>2, BytesRun
  <2>7. w[n] = u
    <3>1. n \in 0 .. n /\ n - n = 0 /\ u \div 1 = u
      BY <1>1, <2>1
    <3> QED
      BY <2>6, <3>1, Powers
  <2>8. FoldLeft(LAMBDA x, b : Shift(x, Radix - 1 - b), 0, bs) = RadixPower(n) - 1 - u
    BY <2>3, <2>6, <2>7, ReadsComplement
  <2>9. RadixPower(n) - 1 - u = -v - 1
    BY <1>2, <1>3, <2>1
  <2>10. BytesToInt64(bs) = -(-v - 1) - 1
    BY <2>4, <2>5, <2>8, <2>9 DEF BytesToInt64
  <2> QED
    BY <1>3, <1>4, <1>6, <2>1, <2>3, <2>4, <2>10
<1> QED
  BY <1>3, <1>5, <1>6

-----------------------------------------------------------------------------
(* Big integers. *)

(* a needs b bits. *)
Needs(a, b) ==
    b \in 0 .. 8 * Width /\ \A c \in 0 .. 8 * Width : a < TwoPower[c] <=> b <= c

LEMMA BitsIs ==
    ASSUME NEW v \in Int, NEW a \in Nat, a = IF v < 0 THEN -v ELSE v, a < TwoPower[8 * Width]
    PROVE  Needs(a, Bits(v))
<1>1. Width \in Nat /\ 8 * Width \in Nat
  BY WidthAssumption
<1> DEFINE Fits == {n \in 0 .. 8 * Width : a < TwoPower[n]}
<1>2. 8 * Width \in Fits /\ Fits \in SUBSET (0 .. 8 * Width)
  BY <1>1
<1>3. Min(Fits) \in Fits /\ \A m \in Fits : Min(Fits) <= m
  <2> HIDE DEF Fits
  <2>1. \E x \in Fits : \A y \in Fits : x <= y
    BY <1>1, <1>2, Least
  <2> QED
    BY <2>1, Zenon DEF Min
<1>4. Bits(v) = Min(Fits)
  BY DEF Bits
<1>5. PICK b \in 0 .. 8 * Width : b = Min(Fits) /\ a < TwoPower[b]
  BY <1>3
<1>6. ASSUME NEW c \in 0 .. 8 * Width, b <= c PROVE a < TwoPower[c]
  <2>1. b \in 0 .. c
    BY <1>1, <1>5, <1>6
  <2>2. TwoPower[b] <= TwoPower[c] /\ TwoPower[b] \in Nat /\ TwoPower[c] \in Nat
    BY <1>5, <2>1, TwoPowersGrow
  <2> QED
    BY <1>5, <2>2
<1>7. ASSUME NEW c \in 0 .. 8 * Width, a < TwoPower[c] PROVE b <= c
  BY <1>3, <1>5, <1>7
<1> QED
  BY <1>4, <1>5, <1>6, <1>7 DEF Needs

(* Which ranges a number is in, by the bits it needs. *)
LEMMA RangesByBits ==
    ASSUME NEW v \in Int, NEW n \in 1 .. Width
    PROVE  /\ \A b : v >= 0 /\ Needs(v, b) => /\ v \in UintRange(n) <=> b <= 8 * n
                                              /\ v \in IntRange(n) <=> b <= 8 * n - 1
           /\ \A b : v < 0 /\ Needs(-v - 1, b) => (v \in IntRange(n) <=> b <= 8 * n - 1)
<1>1. Width \in Nat /\ n \in Nat /\ n > 0 /\ n <= Width
  BY WidthAssumption
<1>2. 8 * n - 1 \in 0 .. 8 * Width /\ 8 * n \in 0 .. 8 * Width
  BY <1>1
<1>3. PICK h \in Nat : /\ h = TwoPower[8 * n - 1] /\ RadixPower(n) = 2 * h
                       /\ IntRange(n) = -h .. h - 1 /\ UintRange(n) = 0 .. 2 * h - 1
  BY Halves
<1>4. TwoPower[8 * n] = 2 * h
  BY <1>3 DEF RadixPower
<1>5. ASSUME NEW b, v >= 0, Needs(v, b)
      PROVE  /\ v \in UintRange(n) <=> b <= 8 * n
             /\ v \in IntRange(n) <=> b <= 8 * n - 1
  <2>1. (v < TwoPower[8 * n] <=> b <= 8 * n) /\ (v < TwoPower[8 * n - 1] <=> b <= 8 * n - 1)
    BY <1>2, <1>5 DEF Needs
  <2>2. (v \in UintRange(n) <=> v < 2 * h) /\ (v \in IntRange(n) <=> v < h)
    BY <1>3, <1>5
  <2> QED
    BY <1>3, <1>4, <2>1, <2>2
<1>6. ASSUME NEW b, v < 0, Needs(-v - 1, b) PROVE v \in IntRange(n) <=> b <= 8 * n - 1
  <2>1. -v - 1 < TwoPower[8 * n - 1] <=> b <= 8 * n - 1
    BY <1>2, <1>6 DEF Needs
  <2>2. v \in IntRange(n) <=> -v - 1 < h
    BY <1>3, <1>6
  <2> QED
    BY <1>3, <2>1, <2>2
<1> QED
  BY <1>5, <1>6

(* One more byte for a number that fits into fewer is a 0 in front. *)
LEMMA ZeroInFront ==
    ASSUME NEW m \in 1 .. Width, m + 1 <= Width, NEW v \in UintRange(m)
    PROVE  Bytes(v, m + 1) = <<0>> \o Bytes(v, m)
<1>1. Width \in Nat /\ m \in Nat /\ m > 0 /\ m <= Width /\ m \in 0 .. Width /\ m + 1 \in 1 .. Width
  BY WidthAssumption
<1>2. PICK p \in Nat : p = RadixPower(m) /\ p > 0 /\ UintRange(m) = 0 .. p - 1
  BY <1>1, UintRangeIs
<1>3. v \in Nat /\ v < p
  BY <1>2
<1>4. v \div p = 0
  <2>1. p * 0 <= v /\ v < p * 0 + p
    BY <1>2, <1>3
  <2> QED
    BY <1>2, <1>3, <2>1, DivUnique
<1>5. PICK bs \in [1 .. m -> 0 .. 255] : bs = Bytes(v, m)
  BY UintBack
<1>6. PICK cs : cs = Bytes(v, m + 1)
  OBVIOUS
<1>7. \A i \in 1 .. m : bs[i] = (v \div RadixPower(m - i)) % 256
  BY <1>5 DEF Bytes, Radix
<1>8. /\ cs = [i \in 1 .. m + 1 |-> (v \div RadixPower(m + 1 - i)) % 256]
      /\ \A i \in 1 .. m + 1 : cs[i] = (v \div RadixPower(m + 1 - i)) % 256
  BY <1>6 DEF Bytes, Radix
<1>9. cs[1] = 0
  <2>1. 1 \in 1 .. m + 1 /\ m + 1 - 1 = m /\ 0 % 256 = 0
    BY <1>1
  <2> QED
    BY <1>2, <1>4, <1>8, <2>1
<1>10. ASSUME NEW i \in 2 .. m + 1 PROVE cs[i] = bs[i - 1]
  <2>1. i - 1 \in 1 .. m /\ i \in 1 .. m + 1 /\ m - (i - 1) = m + 1 - i
    BY <1>1
  <2> QED
    BY <1>7, <1>8, <2>1
<1>11. DOMAIN cs = 1 .. m + 1
  BY <1>8
<1> DEFINE es == <<0>> \o bs
<1>12. /\ DOMAIN es = 1 .. m + 1 /\ es[1] = 0 /\ es \in Seq(0 .. 255) /\ Len(es) = m + 1
       /\ \A i \in 2 .. m + 1 : es[i] = bs[i - 1]
  <2>1. PICK S : S = 0 .. 255
    OBVIOUS
  <2>2. bs \in Seq(S) /\ Len(bs) = m /\ <<0>> \in Seq(S) /\ Len(<<0>>) = 1 /\ <<0>>[1] = 0
    BY <1>1, <1>5, <2>1
  <2>3. \A i \in 2 .. m + 1 : i \in 1 .. m + 1 /\ ~(i <= 1)
    BY <1>1
  <2> QED
    BY <1>1, <2>1, <2>2, <2>3
<1>13. cs = es
  <2> HIDE DEF es
  <2>1. \A i \in 1 .. m + 1 : i = 1 \/ i \in 2 .. m + 1
    BY <1>1
  <2>2. \A i \in 1 .. m + 1 : cs[i] = es[i]
    BY <1>9, <1>10, <1>12, <2>1
  <2>3. cs = [i \in 1 .. m + 1 |-> cs[i]]
    BY <1>8
  <2>4. es = [i \in 1 .. m + 1 |-> es[i]]
    BY <1>12
  <2> QED
    BY <2>2, <2>3, <2>4
<1> QED
  BY <1>5, <1>6, <1>13

(* Machine words and big integers have the same bytes. *)
LEMMA BigIntSame ==
    ASSUME NEW v \in IntRange(Width)
    PROVE  BigIntToBytes(v) = Int64ToBytes(v)
<1>1. Width \in Nat /\ Width > 0 /\ Width \in 1 .. Width /\ 8 * Width \in Nat
  BY WidthAssumption
<1>2. PICK H \in Nat : /\ RadixPower(Width) = 2 * H
                       /\ IntRange(Width) = -H .. H - 1 /\ UintRange(Width) = 0 .. 2 * H - 1
  BY <1>1, Halves
<1>3. v \in Int /\ -H <= v /\ v < H
  BY <1>2
<1>4. TwoPower[8 * Width] = 2 * H
  BY <1>2 DEF RadixPower
<1>5. CASE v = 0
  <2>1. Uint64ToBytes(v) = <<>> /\ Int64ToBytes(v) = <<>>
    BY <1>5 DEF Uint64ToBytes, Int64ToBytes
  <2>2. BigIntToBytes(v) = <<>> \o <<>>
    BY <1>5, <2>1 DEF BigIntToBytes
  <2> QED
    BY <2>1, <2>2
<1>6. CASE v > 0
  <2>1. v \in UintRange(Width) /\ v # 0 /\ v >= 0 /\ v \in Nat
    BY <1>2, <1>3, <1>6
  <2>2. PICK b : b = Bits(v) /\ Needs(v, b)
    <3>1. v = (IF v < 0 THEN -v ELSE v) /\ v < TwoPower[8 * Width]
      BY <1>2, <1>3, <1>4, <1>6
    <3> QED
      BY <1>3, <2>1, <3>1, BitsIs
  <2>3. b \in Nat
    BY <1>1, <2>2 DEF Needs
  <2>4. b <= 8 * Width - 1
    BY <1>1, <1>3, <2>1, <2>2, RangesByBits
  <2>5. b > 0
    <3>1. 0 \in 0 .. 8 * Width /\ ~(v < 1)
      BY <1>1, <1>3, <1>6
    <3>2. ~(b <= 0)
      BY <2>2, <3>1, TwoPowers DEF Needs
    <3> QED
      BY <2>3, <3>2
  <2>6. PICK m \in 1 .. Width : /\ Uint64ToBytes(v) = Bytes(v, m) /\ v \in UintRange(m)
                                /\ \A k \in 1 .. Width : v \in UintRange(k) => m <= k
    BY <2>1, Uint64Is
  <2>7. PICK n \in 1 .. Width : /\ Int64ToBytes(v) = Bytes(v, n) /\ v \in IntRange(n)
                                /\ \A k \in 1 .. Width : v \in IntRange(k) => n <= k
    BY <2>1, Int64Is
  <2>8. \A k \in 1 .. Width : /\ v \in UintRange(k) <=> b <= 8 * k
                              /\ v \in IntRange(k) <=> b <= 8 * k - 1
    BY <1>3, <2>1, <2>2, RangesByBits
  <2>9. b <= 8 * m /\ \A k \in 1 .. Width : b <= 8 * k => m <= k
    BY <2>6, <2>8
  <2>10. b <= 8 * n - 1 /\ \A k \in 1 .. Width : b <= 8 * k - 1 => n <= k
    BY <2>7, <2>8
  <2>11. m \in Nat /\ n \in Nat /\ m >= 1 /\ n >= 1 /\ m <= Width /\ n <= Width
    BY <1>1, <2>6, <2>7
  <2>12. m <= n
    BY <2>3, <2>9, <2>10, <2>11
  <2>13. CASE b % 8 = 0
    <3>1. b = 8 * m
      <4>1. PICK j \in Nat : b = 8 * j /\ j >= 1
        <5>1. b \div 8 \in Nat /\ b = 8 * (b \div 8) /\ b \div 8 >= 1
          BY <2>3, <2>5, <2>13
        <5> QED
          BY <5>1
      <4>2. j \in 1 .. Width
        BY <1>1, <2>4, <4>1
      <4>3. m <= j
        BY <2>9, <4>1, <4>2
      <4> QED
        BY <2>9, <2>11, <4>1, <4>3
    <3>2. m + 1 <= Width /\ m + 1 \in 1 .. Width
      BY <1>1, <2>4, <2>11, <3>1
    <3>3. n = m + 1
      <4>1. b <= 8 * (m + 1) - 1
        BY <2>11, <3>1
      <4>2. n <= m + 1
        BY <2>10, <3>2, <4>1
      <4> QED
        BY <2>10, <2>11, <3>1, <4>2
    <3>4. Bytes(v, m + 1) = <<0>> \o Bytes(v, m)
      BY <2>6, <3>2, ZeroInFront
    <3>5. BigIntToBytes(v) = <<0>> \o Uint64ToBytes(v)
      BY <2>1, <2>2, <2>13 DEF BigIntToBytes
    <3> QED
      BY <2>6, <2>7, <3>3, <3>4, <3>5
  <2>14. CASE b % 8 # 0
    <3>1. b # 8 * m
      BY <2>11, <2>14
    <3>2. b <= 8 * m - 1
      BY <2>3, <2>9, <2>11, <3>1
    <3>3. n = m
      BY <2>10, <2>11, <2>12, <3>2
    <3>4. BigIntToBytes(v) = <<>> \o Uint64ToBytes(v)
      BY <2>1, <2>2, <2>14 DEF BigIntToBytes
    <3>5. PICK bs \in [1 .. m -> 0 .. 255] : bs = Bytes(v, m)
      BY <2>6, UintBack
    <3>6. <<>> \o bs = bs
      <4>1. bs \in Seq(0 .. 255)
        BY <2>11, <3>5
      <4> QED
        BY <4>1
    <3> QED
      BY <2>6, <2>7, <3>3, <3>4, <3>5, <3>6
  <2> QED
    BY <2>13, <2>14
<1>7. CASE v < 0
  <2>1. PICK b : b = Bits(v + 1) /\ Needs(-v - 1, b)
    <3>1. PICK a \in Nat : a = -v - 1
      BY <1>3, <1>7
    <3>2. /\ v + 1 \in Int /\ a = (IF v + 1 < 0 THEN -(v + 1) ELSE v + 1)
          /\ a < TwoPower[8 * Width]
      BY <1>2, <1>3, <1>4, <1>7, <3>1
    <3>3. Needs(a, Bits(v + 1))
      BY <3>2, BitsIs
    <3> QED
      BY <3>1, <3>3
  <2>2. b \in Nat
    BY <1>1, <2>1 DEF Needs
  <2>3. \A k \in 1 .. Width : v \in IntRange(k) <=> b <= 8 * k - 1
    BY <1>3, <1>7, <2>1, RangesByBits
  <2>4. b <= 8 * Width - 1
    BY <1>1, <2>3
  <2>5. PICK n \in Nat : n = (b + 8) \div 8 /\ 8 * n <= b + 8 /\ b + 8 < 8 * n + 8
    <3>1. (b + 8) \div 8 \in Nat /\ 8 * ((b + 8) \div 8) <= b + 8 /\ b + 8 < 8 * ((b + 8) \div 8) + 8
      BY <2>2
    <3> QED
      BY <3>1
  <2>6. n \in 1 .. Width
    BY <1>1, <2>2, <2>4, <2>5
  <2>7. Int64ToBytes(v) = Bytes(v, n) /\ v \in IntRange(n)
    <3>1. PICK k \in 1 .. Width : /\ Int64ToBytes(v) = Bytes(v, k) /\ v \in IntRange(k)
                                  /\ \A j \in 1 .. Width : v \in IntRange(j) => k <= j
      <4>1. v # 0
        BY <1>7
      <4> QED
        BY <4>1, Int64Is
    <3>2. b <= 8 * n - 1 /\ b <= 8 * k - 1
      BY <2>2, <2>3, <2>5, <3>1
    <3>3. k <= n
      BY <2>3, <2>6, <3>1, <3>2
    <3>4. k = n
      BY <2>2, <2>5, <3>1, <3>2, <3>3
    <3> QED
      BY <3>1, <3>4
  <2>8. PICK h \in Nat : /\ h = 128 * RadixPower(n - 1) /\ RadixPower(n) = 2 * h /\ h > 0
                         /\ IntRange(n) = -h .. h - 1 /\ UintRange(n) = 0 .. 2 * h - 1
    BY <2>6, Halves
  <2>9. PICK u \in Nat : u = v + RadixPower(n) /\ u = RadixPower(n) + v /\ h <= u /\ u < 2 * h
    <3>1. -h <= v
      BY <2>7, <2>8
    <3>2. v + 2 * h \in Nat /\ v + 2 * h = 2 * h + v /\ h <= v + 2 * h /\ v + 2 * h < 2 * h
      BY <1>3, <1>7, <2>8, <3>1
    <3> QED
      BY <2>8, <3>2
  <2>10. u \in UintRange(n) /\ u # 0
    BY <2>8, <2>9
  <2>11. u \in UintRange(Width)
    <3>1. n \in 0 .. Width /\ Width \in 0 .. Width
      BY <1>1, <2>6
    <3>2. RadixPower(n) <= RadixPower(Width)
      BY <2>6, <3>1, PowersGrow
    <3> QED
      BY <1>2, <2>8, <2>9, <3>2
  <2>12. PICK m \in 1 .. Width : /\ Uint64ToBytes(u) = Bytes(u, m) /\ u \in UintRange(m)
                                 /\ \A k \in 1 .. Width : u \in UintRange(k) => m <= k
    BY <2>10, <2>11, Uint64Is
  <2>13. m = n
    <3>1. m <= n
      BY <2>6, <2>10, <2>12
    <3>2. ASSUME m < n PROVE FALSE
      <4>1. m \in 0 .. (n - 1) /\ n - 1 \in 0 .. Width /\ m \in 0 .. Width
        BY <1>1, <2>6, <2>12, <3>2
      <4>2. PICK p \in Nat, q \in Nat : p = RadixPower(m) /\ q = RadixPower(n - 1) /\ p <= q
        BY <4>1, PowersGrow
      <4>3. u < p
        BY <2>9, <2>12, <4>2 DEF UintRange
      <4>4. h = 128 * q
        BY <2>8, <4>2
      <4>5. 128 * q <= u /\ p <= q
        BY <2>9, <4>2, <4>4
      <4>6. \A x, y, z \in Nat : 128 * z <= x /\ y <= z => ~(x < y)
        OBVIOUS
      <4> QED
        BY <2>9, <4>2, <4>3, <4>5, <4>6, Zenon
    <3> QED
      BY <2>6, <2>12, <3>1, <3>2
  <2>14. Bytes(v, n) = Bytes(u, n)
    BY <1>3, <2>6, <2>9, Complement
  <2>15. BigIntToBytes(v) = Uint64ToBytes(TwoPower[8 * n] + v)
    BY <1>3, <1>7, <2>1, <2>5 DEF BigIntToBytes
  <2>16. TwoPower[8 * n] + v = u
    BY <2>9 DEF RadixPower
  <2> QED
    BY <2>7, <2>12, <2>13, <2>14, <2>15, <2>16
<1> QED
  BY <1>3, <1>5, <1>6, <1>7

(* A big integer comes back from its bytes. *)
LEMMA BigIntBack ==
    ASSUME NEW v \in IntRange(Width)
    PROVE  BigIntSetBytes(BigIntToBytes(v)) = v
<1>1. Width \in Nat /\ Width > 0 /\ Width \in 1 .. Width /\ 8 * Width \in Nat
  BY WidthAssumption
<1>2. PICK bs : bs = BigIntToBytes(v) /\ bs = Int64ToBytes(v)
  BY BigIntSame
<1>3. CASE v = 0
  <2>1. bs = <<>>
    BY <1>2, <1>3 DEF Int64ToBytes
  <2> QED
    BY <1>2, <1>3, <2>1, EmptyIsZero DEF BigIntSetBytes, BytesToUint64
<1>4. CASE v # 0
  <2>1. PICK n \in 1 .. Width : bs = Bytes(v, n) /\ v \in IntRange(n)
    BY <1>2, <1>4, Int64Is
  <2>2. PICK h \in Nat : /\ h = TwoPower[8 * n - 1] /\ RadixPower(n) = 2 * h /\ h > 0
                         /\ IntRange(n) = -h .. h - 1
    BY <2>1, Halves
  <2>3. v \in Int /\ -h <= v /\ v < h
    BY <2>1, <2>2
  <2>4. PICK u : u = BytesToUint64(bs) /\ u = IF v < 0 THEN v + RadixPower(n) ELSE v
    BY <2>1, IntBack
  <2>5. (Head(bs) >= Top <=> v < 0) /\ bs \in [1 .. n -> 0 .. 255]
    BY <2>1, IntBack
  <2>6. bs # <<>>
    BY <1>1, <2>1, <2>5
  <2>7. CASE v < 0
    <3>1. u \in Nat /\ h <= u /\ u < 2 * h /\ u = v + 2 * h
      BY <2>2, <2>3, <2>4, <2>7
    <3>2. /\ 8 * n \in 0 .. 8 * Width /\ 8 * n - 1 \in 0 .. 8 * Width
          /\ 8 * Width \in 0 .. 8 * Width /\ 8 * n \in Nat
      BY <1>1, <2>1
    <3>3. TwoPower[8 * n] = 2 * h
      BY <2>2 DEF RadixPower
    <3>4. Needs(u, Bits(u))
      <4>1. u = IF u < 0 THEN -u ELSE u
        BY <3>1
      <4>2. u < TwoPower[8 * Width]
        <5>1. TwoPower[8 * n] <= TwoPower[8 * Width] /\ TwoPower[8 * Width] \in Nat
          BY <3>2, TwoPowersGrow
        <5> QED
          BY <2>2, <3>1, <3>3, <5>1
      <4>3. u \in Int
        BY <3>1
      <4> QED
        BY <3>1, <4>1, <4>2, <4>3, BitsIs
    <3>5. Bits(u) = 8 * n
      <4>1. PICK b : b = Bits(u) /\ Needs(u, b)
        BY <3>4
      <4>2. b \in Nat /\ b <= 8 * n /\ ~(b <= 8 * n - 1)
        BY <1>1, <2>2, <3>1, <3>2, <3>3, <4>1 DEF Needs
      <4> QED
        BY <3>2, <4>1, <4>2
    <3>6. BigIntSetBytes(bs) = u - 2 * h
      BY <2>4, <2>5, <2>6, <2>7, <3>3, <3>5 DEF BigIntSetBytes
    <3> QED
      BY <1>2, <2>2, <2>3, <3>1, <3>6
  <2>8. CASE ~(v < 0)
    <3>1. u = v
      BY <2>4, <2>8
    <3> QED
      BY <1>2, <2>4, <2>5, <2>8, <3>1 DEF BigIntSetBytes
  <2> QED
    BY <2>7, <2>8
<1> QED
  BY <1>3, <1>4

LEMMA IntReadsBack ==
    ASSUME NEW v \in IntRange(Width)
    PROVE  BytesToInt64(Int64ToBytes(v)) = v
<1>1. CASE v = 0
  BY <1>1, EmptyIsZero DEF Int64ToBytes, BytesToInt64
<1>2. CASE v # 0
  <2>1. PICK n \in 1 .. Width : Int64ToBytes(v) = Bytes(v, n) /\ v \in IntRange(n)
    BY <1>2, Int64Is
  <2> QED
    BY <2>1, IntBack
<1> QED
  BY <1>1, <1>2

-----------------------------------------------------------------------------
(* Text. *)

HexDigit(bs, i) == IF i % 2 = 1 THEN bs[(i + 1) \div 2] \div 16 ELSE bs[i \div 2] % 16
HexDigits(bs) == [i \in 1 .. 2 * Len(bs) |-> HexDigit(bs, i)]

HexPairs(ds, bs, n) ==
    /\ ds \in [1 .. 2 * n -> 0 .. 15]
    /\ \A i \in 1 .. n : 16 * ds[2 * i - 1] + ds[2 * i] = bs[i]

(* Two digits make a byte. *)
LEMMA HexPair ==
    ASSUME NEW n \in Nat, NEW bs \in [1 .. n -> 0 .. 255]
    PROVE  HexPairs(HexDigits(bs), bs, n)
<1>1. Len(bs) = n
  OBVIOUS
<1>2. \A x \in 0 .. 255 : x \div 16 \in 0 .. 15 /\ x % 16 \in 0 .. 15 /\ 16 * (x \div 16) + (x % 16) = x
  OBVIOUS
<1>3. ASSUME NEW i \in 1 .. 2 * n PROVE HexDigit(bs, i) \in 0 .. 15
  <2>1. CASE i % 2 = 1
    <3>1. (i + 1) \div 2 \in 1 .. n
      BY <2>1
    <3>2. bs[(i + 1) \div 2] \in 0 .. 255
      BY <3>1
    <3> QED
      BY <1>2, <2>1, <3>2 DEF HexDigit
  <2>2. CASE i % 2 # 1
    <3>1. i \div 2 \in 1 .. n
      BY <2>2
    <3>2. bs[i \div 2] \in 0 .. 255
      BY <3>1
    <3> QED
      BY <1>2, <2>2, <3>2 DEF HexDigit
  <2> QED
    BY <2>1, <2>2
<1>4. PICK ds : ds = HexDigits(bs)
  OBVIOUS
<1>5. ds \in [1 .. 2 * n -> 0 .. 15] /\ \A i \in 1 .. 2 * n : ds[i] = HexDigit(bs, i)
  <2>1. ds = [i \in 1 .. 2 * n |-> HexDigit(bs, i)]
    BY <1>1, <1>4 DEF HexDigits
  <2> QED
    BY <1>3, <2>1
<1>6. ASSUME NEW i \in 1 .. n
      PROVE  /\ 2 * i - 1 \in 1 .. 2 * n /\ 2 * i \in 1 .. 2 * n
             /\ 16 * ds[2 * i - 1] + ds[2 * i] = bs[i]
  <2>1. /\ 2 * i - 1 \in 1 .. 2 * n /\ 2 * i \in 1 .. 2 * n
        /\ (2 * i - 1) % 2 = 1 /\ (2 * i - 1 + 1) \div 2 = i
        /\ (2 * i) % 2 = 0 /\ (2 * i) \div 2 = i
    OBVIOUS
  <2>2. ds[2 * i - 1] = bs[i] \div 16 /\ ds[2 * i] = bs[i] % 16
    BY <1>5, <2>1 DEF HexDigit
  <2>3. bs[i] \in 0 .. 255
    OBVIOUS
  <2> QED
    BY <1>2, <2>1, <2>2, <2>3
<1> QED
  BY <1>4, <1>5, <1>6 DEF HexPairs

(* A sequence and its first element. *)
LEMMA ZeroAndTail ==
    ASSUME NEW S, NEW ds \in Seq(S), ds # <<>>, 0 \in S, Head(ds) = 0
    PROVE  <<0>> \o Tail(ds) = ds
<1>1. Tail(ds) \in Seq(S) /\ Len(Tail(ds)) = Len(ds) - 1 /\ Len(ds) \in Nat /\ Len(ds) >= 1
  OBVIOUS
<1>2. PICK ts \in Seq(S) : ts = Tail(ds) /\ Len(ts) = Len(ds) - 1
  BY <1>1
<1>3. \A i \in 1 .. Len(ts) : ts[i] = ds[i + 1]
  BY <1>1, <1>2
<1>4. PICK es \in Seq(S) : es = <<0>> \o ts
  <2>1. <<0>> \in Seq(S)
    OBVIOUS
  <2>2. <<0>> \o ts \in Seq(S)
    BY <1>2, <2>1
  <2> QED
    BY <2>2
<1>5. Len(es) = Len(ds) /\ es[1] = 0 /\ \A i \in 2 .. Len(ds) : es[i] = ts[i - 1]
  <2>1. Len(es) = Len(ds)
    BY <1>1, <1>2, <1>4
  <2>2. es[1] = 0
    BY <1>4
  <2>3. \A i \in 2 .. Len(ds) : i \in 1 .. Len(ds) /\ ~(i <= 1) /\ i - 1 \in 1 .. Len(ts)
    BY <1>1, <1>2
  <2>4. \A i \in 2 .. Len(ds) : es[i] = ts[i - 1]
    BY <1>1, <1>2, <1>4, <2>3
  <2> QED
    BY <2>1, <2>2, <2>4
<1>6. \A i \in 1 .. Len(ds) : es[i] = ds[i]
  <2>1. \A i \in 1 .. Len(ds) : i = 1 \/ i \in 2 .. Len(ds)
    BY <1>1
  <2>2. ds[1] = 0
    BY <1>1
  <2>3. ASSUME NEW i \in 2 .. Len(ds) PROVE es[i] = ds[i]
    <3>1. i - 1 \in 1 .. Len(ts) /\ i - 1 + 1 = i
      BY <1>1, <1>2
    <3> QED
      BY <1>3, <1>5, <3>1
  <2> QED
    BY <1>5, <2>1, <2>2, <2>3
<1>7. es = ds
  BY <1>1, <1>5, <1>6
<1> QED
  BY <1>2, <1>4, <1>7

(* What encodeHexNumber writes is what decodeHexNumber reads. *)
LEMMA TextBytes ==
    ASSUME NEW n \in Nat, n > 0, NEW bs \in [1 .. n -> 0 .. 255], NEW neg
    PROVE  /\ encodeHexNumber(neg, bs).neg = neg
           /\ encodeHexNumber(neg, bs).digits
                 = IF Head(HexDigits(bs)) = 0 THEN Tail(HexDigits(bs)) ELSE HexDigits(bs)
           /\ decodeHexNumber(encodeHexNumber(neg, bs)) = bs
<1>1. PICK ds : ds = HexDigits(bs)
  OBVIOUS
<1>2. /\ ds \in [1 .. 2 * n -> 0 .. 15]
      /\ \A i \in 1 .. n : 16 * ds[2 * i - 1] + ds[2 * i] = bs[i]
  <2>1. HexPairs(ds, bs, n)
    BY <1>1, HexPair
  <2> QED
    BY <2>1 DEF HexPairs
<1>3. PICK t : t = encodeHexNumber(neg, bs)
  OBVIOUS
<1>4. bs # <<>>
  OBVIOUS
<1>5. t = [neg |-> neg, digits |-> IF Head(ds) = 0 THEN Tail(ds) ELSE ds]
  BY <1>1, <1>3, <1>4 DEF encodeHexNumber, HexDigits, HexDigit
<1>6. t.neg = neg /\ t.digits = IF Head(ds) = 0 THEN Tail(ds) ELSE ds
  BY <1>5
<1>7. /\ ds \in Seq(0 .. 15) /\ Len(ds) = 2 * n /\ ds # <<>> /\ 2 * n \in Nat /\ (2 * n) % 2 = 0
      /\ (2 * n) \div 2 = n
  <2>1. 2 * n \in Nat /\ (2 * n) % 2 = 0 /\ (2 * n) \div 2 = n /\ 2 * n > 0
    OBVIOUS
  <2>2. ds \in Seq(0 .. 15) /\ Len(ds) = 2 * n
    BY <1>2, <2>1
  <2> QED
    BY <2>1, <2>2
<1>8. ds = IF Len(t.digits) % 2 = 1 THEN <<0>> \o t.digits ELSE t.digits
  <2>1. CASE Head(ds) = 0
    <3>1. t.digits = Tail(ds) /\ Len(t.digits) = 2 * n - 1 /\ (2 * n - 1) % 2 = 1
      BY <1>6, <1>7, <2>1
    <3>2. PICK S : S = 0 .. 15
      OBVIOUS
    <3>3. ds \in Seq(S) /\ 0 \in S
      BY <1>7, <3>2
    <3>4. <<0>> \o Tail(ds) = ds
      BY <1>7, <2>1, <3>3, ZeroAndTail
    <3> QED
      BY <3>1, <3>4
  <2>2. CASE Head(ds) # 0
    <3>1. t.digits = ds
      BY <1>6, <2>2
    <3>2. ~(Len(ds) % 2 = 1)
      BY <1>7
    <3> QED
      BY <3>1, <3>2
  <2> QED
    BY <2>1, <2>2
<1>9. decodeHexNumber(t) = [i \in 1 .. Len(ds) \div 2 |-> 16 * ds[2 * i - 1] + ds[2 * i]]
  BY <1>8 DEF decodeHexNumber
<1>10. decodeHexNumber(t) = [i \in 1 .. n |-> bs[i]]
  BY <1>2, <1>7, <1>9
<1> QED
  BY <1>1, <1>3, <1>6, <1>10

(* The digits make the number the bytes make. *)
LEMMA DigitsRun ==
    ASSUME NEW n, NEW bs, NEW w, Run(w, bs, n)
    PROVE  \E z : HexRun(z, HexDigits(bs), 2 * n) /\ z[2 * n] = w[n]
<1>1. n \in 0 .. Width /\ bs \in [1 .. n -> 0 .. 255] /\ w \in [0 .. n -> Nat]
  BY DEF Run
<1>2. n \in Nat
  BY <1>1, WidthAssumption
<1>3. PICK ds : ds = HexDigits(bs)
  OBVIOUS
<1>4. /\ ds \in [1 .. 2 * n -> 0 .. 15]
      /\ \A i \in 1 .. n : 16 * ds[2 * i - 1] + ds[2 * i] = bs[i]
  <2>1. HexPairs(ds, bs, n)
    BY <1>1, <1>2, <1>3, HexPair
  <2> QED
    BY <2>1 DEF HexPairs
<1> DEFINE value(j) == IF j % 2 = 0 THEN w[j \div 2] ELSE 16 * w[(j - 1) \div 2] + ds[j]
           z == [j \in 0 .. 2 * n |-> value(j)]
<1>5. \A j \in 0 .. 2 * n : z[j] = value(j)
  OBVIOUS
<1> HIDE DEF z
<1>6. z[0] = 0 /\ z[2 * n] = w[n]
  <2>1. /\ 0 \in 0 .. 2 * n /\ 2 * n \in 0 .. 2 * n /\ 0 % 2 = 0 /\ 0 \div 2 = 0
        /\ (2 * n) % 2 = 0 /\ (2 * n) \div 2 = n
    BY <1>2
  <2>2. w[0] = 0
    BY DEF Run
  <2> QED
    BY <1>5, <2>1, <2>2
<1>7. ASSUME NEW j \in 1 .. 2 * n PROVE z[j] = 16 * z[j - 1] + ds[j]
  <2>1. j \in 0 .. 2 * n /\ j - 1 \in 0 .. 2 * n /\ j \in Nat
    BY <1>2
  <2>2. CASE j % 2 = 1
    <3>1. (j - 1) % 2 = 0
      BY <2>1, <2>2
    <3>2. z[j - 1] = w[(j - 1) \div 2] /\ z[j] = 16 * w[(j - 1) \div 2] + ds[j]
      BY <1>5, <2>1, <2>2, <3>1
    <3> QED
      BY <3>2
  <2>3. CASE j % 2 = 0
    <3>1. PICK k \in 1 .. n : j = 2 * k
      <4>1. j \div 2 \in 1 .. n /\ j = 2 * (j \div 2)
        BY <1>2, <2>3
      <4> QED
        BY <4>1
    <3>2. /\ 2 * k - 1 \in 0 .. 2 * n /\ (2 * k - 1) % 2 = 1 /\ (2 * k - 1 - 1) \div 2 = k - 1
          /\ (2 * k) % 2 = 0 /\ (2 * k) \div 2 = k /\ 2 * k - 1 \in 1 .. 2 * n /\ 2 * k \in 1 .. 2 * n
      BY <1>2, <3>1
    <3>3. z[2 * k - 1] = 16 * w[k - 1] + ds[2 * k - 1] /\ z[2 * k] = w[k]
      BY <1>5, <2>1, <3>1, <3>2
    <3>4. w[k] = 256 * w[k - 1] + bs[k] /\ 16 * ds[2 * k - 1] + ds[2 * k] = bs[k]
      BY <1>4, <3>1 DEF Run
    <3>5. PICK a \in Nat : a = w[k - 1]
      <4>1. k - 1 \in 0 .. n
        BY <1>2, <3>1
      <4> QED
        BY <1>1, <4>1
    <3>6. PICK c \in Int, d \in Int : c = ds[2 * k - 1] /\ d = ds[2 * k]
      <4>1. ds[2 * k - 1] \in 0 .. 15 /\ ds[2 * k] \in 0 .. 15
        BY <1>4, <3>2
      <4>2. \A x \in 0 .. 15 : x \in Int
        OBVIOUS
      <4> QED
        BY <4>1, <4>2
    <3>7. w[k] = 256 * a + (16 * c + d)
      BY <3>4, <3>5, <3>6
    <3>8. 256 * a + (16 * c + d) = 16 * (16 * a + c) + d
      BY <3>5, <3>6
    <3> QED
      BY <3>1, <3>3, <3>5, <3>6, <3>7, <3>8
  <2> QED
    BY <2>1, <2>2, <2>3
<1>8. HexRun(z, ds, 2 * n)
  BY <1>6, <1>7 DEF HexRun
<1> QED
  BY <1>3, <1>6, <1>8

(* strconv reads the number that the text was made of. *)
LEMMA TextValue ==
    ASSUME NEW n, n > 0, NEW bs, NEW w, Run(w, bs, n), NEW neg
    PROVE  FoldLeft(LAMBDA u, d : 16 * u + d, 0, encodeHexNumber(neg, bs).digits) = w[n]
<1>1. bs \in [1 .. n -> 0 .. 255] /\ n \in 0 .. Width
  BY DEF Run
<1>2. n \in Nat /\ n > 0 /\ 2 * n \in Nat /\ 2 * n >= 1
  BY <1>1, WidthAssumption
<1>3. PICK ds : ds = HexDigits(bs)
  OBVIOUS
<1>4. ds \in [1 .. 2 * n -> 0 .. 15]
  BY <1>1, <1>2, <1>3, HexPair DEF HexPairs
<1>5. PICK z : HexRun(z, ds, 2 * n) /\ z[2 * n] = w[n]
  BY <1>3, DigitsRun
<1>6. PICK ts : /\ ts = encodeHexNumber(neg, bs).digits
                /\ ts = IF Head(ds) = 0 THEN Tail(ds) ELSE ds
  BY <1>1, <1>2, <1>3, TextBytes
<1>7. \A x \in 0 .. 15 : x \in Int
  OBVIOUS
<1>8. ds \in [1 .. 2 * n -> Int]
  BY <1>4, <1>7
<1>9. CASE Head(ds) # 0
  <2>1. ts = ds
    BY <1>6, <1>9
  <2>2. FoldLeft(LAMBDA u, d : 16 * u + d, 0, ds) = z[2 * n]
    BY <1>2, <1>5, <1>8, ReadsHex
  <2> QED
    BY <1>5, <1>6, <2>1, <2>2
<1>10. CASE Head(ds) = 0
  <2>1. ts = Tail(ds)
    BY <1>6, <1>10
  <2>2. ds[1] = 0
    BY <1>2, <1>8, <1>10
  <2>3. PICK m \in Nat : 2 * n = m + 1
    <3>1. 2 * n - 1 \in Nat /\ 2 * n = (2 * n - 1) + 1
      BY <1>2
    <3> QED
      BY <3>1
  <2>4. ts \in [1 .. m -> Int] /\ \A j \in 1 .. m : ts[j] = ds[j + 1]
    <3>1. ds \in Seq(Int) /\ Len(ds) = m + 1
      BY <1>8, <2>3
    <3>2. ds # <<>>
      BY <2>3, <3>1
    <3>3. ts \in Seq(Int) /\ Len(ts) = m
      BY <2>1, <2>3, <3>1, <3>2
    <3>4. \A j \in 1 .. m : ts[j] = ds[j + 1]
      BY <2>1, <2>3, <3>1, <3>2
    <3> QED
      BY <3>3, <3>4
  <2> DEFINE y == [j \in 0 .. m |-> z[j + 1]]
  <2>5. \A j \in 0 .. m : y[j] = z[j + 1]
    OBVIOUS
  <2> HIDE DEF y
  <2>6. HexRun(y, ts, m)
    <3>1. y[0] = 0
      <4>1. 0 \in 0 .. m /\ 0 + 1 = 1 /\ 1 \in 1 .. 2 * n /\ 1 - 1 = 0 /\ 16 * 0 + 0 = 0
        BY <1>2, <2>3
      <4>2. z[1] = 16 * z[1 - 1] + ds[1] /\ z[0] = 0
        BY <1>5, <4>1 DEF HexRun
      <4> QED
        BY <2>2, <2>5, <4>1, <4>2
    <3>2. ASSUME NEW j \in 1 .. m PROVE y[j] = 16 * y[j - 1] + ts[j]
      <4>1. /\ j \in 0 .. m /\ j - 1 \in 0 .. m /\ j - 1 + 1 = j
            /\ j + 1 \in 1 .. 2 * n /\ j + 1 - 1 = j
        BY <2>3
      <4>2. z[j + 1] = 16 * z[j] + ds[j + 1]
        BY <1>5, <4>1 DEF HexRun
      <4> QED
        BY <2>4, <2>5, <4>1, <4>2
    <3> QED
      BY <3>1, <3>2 DEF HexRun
  <2>7. FoldLeft(LAMBDA u, d : 16 * u + d, 0, ts) = y[m]
    BY <2>3, <2>4, <2>6, ReadsHex
  <2>8. y[m] = z[2 * n]
    BY <2>3, <2>5
  <2> QED
    BY <1>5, <1>6, <2>7, <2>8
<1> QED
  BY <1>9, <1>10

(* t is the text of a number of size a: its sign, what its bytes and its digits *)
(* say, and how many bytes it has.                                              *)
TextOf(t, a, neg) ==
    /\ t.neg = neg
    /\ BytesToUint64(decodeHexNumber(t)) = a
    /\ FoldLeft(LAMBDA u, d : 16 * u + d, 0, t.digits) = a
    /\ \A n \in 1 .. Width : a \notin UintRange(n) => Len(decodeHexNumber(t)) > n

LEMMA TextIs ==
    ASSUME NEW a \in UintRange(Width), NEW neg \in BOOLEAN, a = 0 => neg = FALSE
    PROVE  TextOf(encodeHexNumber(neg, Uint64ToBytes(a)), a, neg)
<1>1. Width \in Nat /\ Width > 0 /\ 1 \in 0 .. Width
  BY WidthAssumption
<1>2. PICK t : t = encodeHexNumber(neg, Uint64ToBytes(a))
  OBVIOUS
<1>3. CASE a = 0
  <2>1. t = [neg |-> FALSE, digits |-> <<0>>]
    BY <1>2, <1>3 DEF Uint64ToBytes, encodeHexNumber
  <2>2. t.neg = FALSE /\ t.digits = <<0>>
    BY <2>1
  <2>3. decodeHexNumber(t) = [i \in 1 .. 1 |-> 0]
    <3>1. PICK s \in Seq(Nat) : s = <<0>> \o <<0>> /\ Len(s) = 2 /\ s[1] = 0 /\ s[2] = 0
      <4>1. <<0>> \in Seq(Nat) /\ Len(<<0>>) = 1
        OBVIOUS
      <4>2. <<0>> \o <<0>> \in Seq(Nat) /\ Len(<<0>> \o <<0>>) = 2
        BY <4>1
      <4>3. (<<0>> \o <<0>>)[1] = 0 /\ (<<0>> \o <<0>>)[2] = 0
        BY <4>1
      <4> QED
        BY <4>2, <4>3
    <3>2. Len(t.digits) % 2 = 1
      BY <2>2
    <3>3. decodeHexNumber(t) = [i \in 1 .. Len(s) \div 2 |-> 16 * s[2 * i - 1] + s[2 * i]]
      BY <2>2, <3>1, <3>2 DEF decodeHexNumber
    <3>4. Len(s) \div 2 = 1
      BY <3>1
    <3>5. \A i \in 1 .. 1 : 2 * i - 1 = 1 /\ 2 * i = 2
      OBVIOUS
    <3>6. \A i \in 1 .. 1 : 16 * s[2 * i - 1] + s[2 * i] = 0
      BY <3>1, <3>5
    <3> QED
      BY <3>3, <3>4, <3>6
  <2>4. BytesToUint64(decodeHexNumber(t)) = 0
    <3> DEFINE bs == [i \in 1 .. 1 |-> 0]
               w == [i \in 0 .. 1 |-> 0]
    <3>1. bs \in [1 .. 1 -> 0 .. 255] /\ w \in [0 .. 1 -> Nat] /\ bs[1] = 0 /\ w[0] = 0 /\ w[1] = 0
      OBVIOUS
    <3>2. \A k \in 1 .. 1 : k = 1 /\ 1 - 1 = 0 /\ 256 * 0 + 0 = 0
      OBVIOUS
    <3> HIDE DEF bs, w
    <3>3. \A k \in 1 .. 1 : w[k] = 256 * w[k - 1] + bs[k]
      BY <3>1, <3>2
    <3>4. Run(w, bs, 1)
      BY <1>1, <3>1, <3>3 DEF Run
    <3>5. FoldLeft(Shift, 0, bs) = w[1]
      BY <3>4, ReadsUint
    <3> QED
      BY <2>3, <3>1, <3>5 DEF BytesToUint64, bs
  <2>5. FoldLeft(LAMBDA u, d : 16 * u + d, 0, t.digits) = 0
    <3> DEFINE w == [i \in 0 .. 1 |-> 0]
    <3>1. PICK ds \in [1 .. 1 -> Int] : ds = <<0>> /\ ds[1] = 0
      <4>1. <<0>> \in Seq(Int) /\ Len(<<0>>) = 1 /\ <<0>>[1] = 0
        OBVIOUS
      <4>2. <<0>> \in [1 .. 1 -> Int]
        BY <4>1
      <4> QED
        BY <4>1, <4>2
    <3>2. w[0] = 0 /\ w[1] = 0
      OBVIOUS
    <3>3. \A k \in 1 .. 1 : k = 1 /\ 1 - 1 = 0 /\ 16 * 0 + 0 = 0
      OBVIOUS
    <3> HIDE DEF w
    <3>4. HexRun(w, ds, 1)
      BY <3>1, <3>2, <3>3 DEF HexRun
    <3>5. FoldLeft(LAMBDA u, d : 16 * u + d, 0, ds) = w[1]
      BY <3>1, <3>4, ReadsHex
    <3> QED
      BY <2>2, <3>1, <3>2, <3>5
  <2>6. ASSUME NEW n \in 1 .. Width PROVE 0 \in UintRange(n)
    <3>1. n \in 0 .. Width
      BY <1>1
    <3> QED
      BY <3>1, UintRangeIs
  <2> QED
    BY <1>2, <1>3, <2>2, <2>4, <2>5, <2>6 DEF TextOf
<1>4. CASE a # 0
  <2>1. PICK m \in 1 .. Width : /\ Uint64ToBytes(a) = Bytes(a, m) /\ a \in UintRange(m)
                                /\ \A k \in 1 .. Width : a \in UintRange(k) => m <= k
    BY <1>4, Uint64Is
  <2>2. PICK bs \in [1 .. m -> 0 .. 255] : bs = Bytes(a, m) /\ BytesToUint64(bs) = a
    BY <2>1, UintBack
  <2>3. PICK w : Run(w, bs, m) /\ \A k \in 0 .. m : w[k] = a \div RadixPower(m - k)
    BY <2>1, <2>2, BytesRun
  <2>4. m \in Nat /\ m > 0 /\ m <= Width
    BY <1>1, <2>1
  <2>5. w[m] = a
    <3>1. a \in Nat
      BY <1>1, UintRangeIs
    <3>2. m \in 0 .. m /\ m - m = 0 /\ a \div 1 = a
      BY <2>4, <3>1
    <3> QED
      BY <2>3, <3>2, Powers
  <2>6. t = encodeHexNumber(neg, bs)
    BY <1>2, <2>1, <2>2
  <2>7. t.neg = neg /\ decodeHexNumber(t) = bs
    BY <2>2, <2>4, <2>6, TextBytes
  <2>8. FoldLeft(LAMBDA u, d : 16 * u + d, 0, t.digits) = a
    BY <2>3, <2>4, <2>5, <2>6, TextValue
  <2>9. Len(bs) = m
    BY <2>2, <2>4
  <2>10. ASSUME NEW n \in 1 .. Width, a \notin UintRange(n) PROVE Len(bs) > n
    <3>1. ~(m <= n)
      <4> SUFFICES ASSUME m <= n PROVE a \in UintRange(n)
        BY <2>10
      <4>1. m \in 0 .. Width /\ n \in 0 .. Width /\ m \in 0 .. n
        BY <1>1, <2>4
      <4>2. PICK p \in Nat : p = RadixPower(m) /\ UintRange(m) = 0 .. p - 1
        BY <4>1, UintRangeIs
      <4>3. PICK q \in Nat : q = RadixPower(n) /\ UintRange(n) = 0 .. q - 1
        BY <4>1, UintRangeIs
      <4>4. p <= q
        BY <4>1, <4>2, <4>3, PowersGrow
      <4> QED
        BY <2>1, <4>2, <4>3, <4>4
    <3> QED
      BY <2>4, <2>9, <3>1
  <2> QED
    BY <1>2, <2>2, <2>7, <2>8, <2>10 DEF TextOf
<1> QED
  BY <1>3, <1>4

(* A text is read as the number it stands for, or refused. *)
LEMMA ParseIntIs ==
    ASSUME NEW v \in Int, NEW a \in Nat, a = Abs(v), NEW t, TextOf(t, a, v < 0),
           NEW n \in 1 .. Width
    PROVE  /\ ParseInt(t, n) = {v} \cap IntRange(n)
           /\ ParseUint(t, n) = {v} \cap UintRange(n)
<1>1. PICK h \in Nat : /\ MinInt(n) = -h /\ IntRange(n) = -h .. h - 1
                       /\ UintRange(n) = 0 .. 2 * h - 1
  BY Halves
<1>0. (IF t.neg THEN -a ELSE a) = v
  <2>1. CASE v < 0
    <3>1. t.neg /\ a = -v
      BY <2>1 DEF Abs, TextOf
    <3> QED
      BY <3>1
  <2>2. CASE ~(v < 0)
    <3>1. ~t.neg /\ a = v
      BY <2>2 DEF Abs, TextOf
    <3> QED
      BY <3>1
  <2> QED
    BY <2>1, <2>2
<1>2. strconvParse(t, IntRange(n)) = {v} \cap IntRange(n)
  BY <1>0 DEF strconvParse, TextOf
<1>3. strconvParse(t, UintRange(n)) = {v} \cap UintRange(n)
  BY <1>0 DEF strconvParse, TextOf
<1>4. -MinInt(n) = h
  BY <1>1
<1>5. ParseInt(t, n) = {v} \cap IntRange(n)
  <2>1. CASE v \in IntRange(n)
    BY <1>2, <2>1 DEF ParseInt
  <2>2. CASE v \notin IntRange(n)
    <3>1. {v} \cap IntRange(n) = {}
      BY <2>2
    <3>2. (v < 0 => a > h) /\ (~(v < 0) => a >= h)
      BY <1>1, <2>2 DEF Abs
    <3>3. t.neg = (v < 0) /\ BytesToUint64(decodeHexNumber(t)) = a
      BY DEF TextOf
    <3> QED
      BY <1>2, <1>4, <3>1, <3>2, <3>3 DEF ParseInt
  <2> QED
    BY <2>1, <2>2
<1>6. ParseUint(t, n) = {v} \cap UintRange(n)
  <2>1. CASE v < 0
    <3>1. v \notin UintRange(n)
      BY <1>1, <2>1
    <3>2. t.neg
      BY <2>1 DEF TextOf
    <3> QED
      BY <3>1, <3>2 DEF ParseUint
  <2>2. CASE ~(v < 0)
    <3>1. ~t.neg /\ a = v
      BY <2>2 DEF TextOf, Abs
    <3>2. CASE v \in UintRange(n)
      BY <1>3, <3>1, <3>2 DEF ParseUint
    <3>3. CASE v \notin UintRange(n)
      <4>1. Len(decodeHexNumber(t)) > n
        BY <3>1, <3>3 DEF TextOf
      <4> QED
        BY <1>3, <3>1, <3>3, <4>1 DEF ParseUint
    <3> QED
      BY <3>2, <3>3
  <2> QED
    BY <2>1, <2>2
<1> QED
  BY <1>5, <1>6

-----------------------------------------------------------------------------
(* The numbers that are encoded. *)

LogInv ==
    /\ DOMAIN log = 1 .. Len(log) /\ Len(log) \in Nat
    /\ \A i \in DOMAIN log : log[i].kind = "uint" => log[i].value \in Ints /\ log[i].value >= 0
    /\ \A i \in DOMAIN log : log[i].kind = "int" => log[i].value \in Ints

LEMMA LogInit == Init => LogInv
BY DEF Init, LogInv

(* Every step appends a number of the client to the log, or leaves it. *)
LEMMA LogStep == LogInv /\ [Next]_vars => LogInv'
<1> SUFFICES ASSUME LogInv, [Next]_vars PROVE LogInv'
  OBVIOUS
<1>1. ASSUME NEW level, NEW kind, NEW v, log' = Append(log, Item(level, kind, v)),
             kind = "uint" => v \in Ints /\ v >= 0, kind = "int" => v \in Ints
      PROVE  LogInv'
  BY <1>1 DEF LogInv, Item
<1>2. ASSUME NEW level \in DOMAIN enc, EncodeContainer(level) PROVE LogInv'
  <2>1. log' = Append(log, Item(level, "container", 0))
    BY <1>2 DEF EncodeContainer
  <2>2. "container" # "uint" /\ "container" # "int"
    OBVIOUS
  <2> QED
    BY <1>1, <2>1, <2>2
<1>3. ASSUME NEW level \in DOMAIN enc, NEW s \in Strings, Encode(level, "bytes", s)
      PROVE  LogInv'
  BY <1>1, <1>3 DEF Encode
<1>4. ASSUME NEW level \in DOMAIN enc, NEW v \in Ints,
             Encode(level, "int", v) \/ (v >= 0 /\ Encode(level, "uint", v))
      PROVE  LogInv'
  BY <1>1, <1>4 DEF Encode
<1>5. CASE UNCHANGED log
  BY <1>5 DEF LogInv
<1>6. Marshal \/ DecodeNext \/ Unmarshal => UNCHANGED log
  BY DEF Marshal, DecodeNext, DecodeContainer, Decode, Fail, Unmarshal
<1>7. UNCHANGED vars => UNCHANGED log
  BY DEF vars
<1> QED
  BY <1>2, <1>3, <1>4, <1>5, <1>6, <1>7 DEF Next

(* What the client encodes fits into a word. *)
LEMMA NumbersFit ==
    ASSUME LogInv
    PROVE  /\ \A v \in NumbersOf("int") : v \in IntRange(Width)
           /\ \A v \in NumbersOf("uint") : v \in IntRange(Width) /\ v >= 0 /\ v \in UintRange(Width)
<1>1. Width \in 1 .. Width
  BY WidthAssumption
<1>2. PICK h \in Nat : IntRange(Width) = -h .. h - 1 /\ UintRange(Width) = 0 .. 2 * h - 1
  BY <1>1, Halves
<1>3. \A v \in NumbersOf("int") : v \in Ints
  BY DEF NumbersOf, LogInv
<1>4. \A v \in NumbersOf("uint") : v \in Ints /\ v >= 0
  BY DEF NumbersOf, LogInv
<1>5. \A v \in Ints : v \in IntRange(Width)
  BY RLPAssumption
<1>6. \A v \in IntRange(Width) : v >= 0 => v \in UintRange(Width)
  BY <1>2
<1> QED
  BY <1>3, <1>4, <1>5, <1>6

(* The keys under which entries and transactions are stored are in the order  *)
(* of the block heights and indexes they are made of, for words of any width: *)
(* an iteration over a database goes by height (ID of GovernanceVariable,     *)
(* PRep and IISSTX).                                                          *)
THEOREM KeysAreInOrder == Spec => []KeysInOrder
<1>1. LogInv => KeysInOrder
  BY NumbersFit, KeyOrder DEF KeysInOrder
<1> QED
  BY <1>1, LogInit, LogStep, PTL DEF Spec

(* A signed number, its size and its text. *)
LEMMA SignedText ==
    ASSUME NEW v \in IntRange(Width)
    PROVE  \E a \in Nat : a = Abs(v) /\ TextOf(encodeHexNumber(v < 0, Uint64ToBytes(a)), a, v < 0)
<1>1. Width \in 1 .. Width
  BY WidthAssumption
<1>2. PICK h \in Nat : IntRange(Width) = -h .. h - 1 /\ UintRange(Width) = 0 .. 2 * h - 1 /\ h > 0
  BY <1>1, Halves
<1>3. PICK a \in Nat : a = Abs(v) /\ a <= h /\ (a = 0 => ~(v < 0))
  BY <1>2 DEF Abs
<1>4. a \in UintRange(Width)
  BY <1>2, <1>3
<1>5. PICK neg \in BOOLEAN : neg = (v < 0)
  <2>1. CASE v < 0
    <3>1. TRUE = (v < 0) /\ TRUE \in BOOLEAN
      BY <2>1
    <3> QED
      BY <3>1, Zenon
  <2>2. CASE ~(v < 0)
    <3>1. FALSE = (v < 0) /\ FALSE \in BOOLEAN
      BY <2>2
    <3> QED
      BY <3>1, Zenon
  <2> QED
    BY <2>1, <2>2
<1>6. a = 0 => neg = FALSE
  BY <1>3, <1>5
<1>7. TextOf(encodeHexNumber(neg, Uint64ToBytes(a)), a, neg)
  BY <1>4, <1>6, TextIs
<1> QED
  BY <1>3, <1>5, <1>7

(* Every number of a word, of any width, comes back from its bytes and from *)
(* its text; machine words and big integers have the same bytes; and a text *)
(* is read by a type of n bytes as the number if it fits and refused        *)
(* otherwise (hexint.go).                                                   *)
THEOREM NumbersComeBack == Spec => []NumbersReadBack
<1>1. ASSUME NEW v \in IntRange(Width)
      PROVE  /\ BytesToInt64(Int64ToBytes(v)) = v
             /\ BigIntSetBytes(BigIntToBytes(v)) = v
             /\ BigIntToBytes(v) = Int64ToBytes(v)
             /\ HexIntUnmarshalJSON(HexIntString(v)) = v
             /\ \A n \in 1 .. Width : /\ ParseInt(FormatInt(v), n) = {v} \cap IntRange(n)
                                       /\ ParseUint(FormatInt(v), n) = {v} \cap UintRange(n)
  <2>1. /\ BytesToInt64(Int64ToBytes(v)) = v
        /\ BigIntSetBytes(BigIntToBytes(v)) = v
        /\ BigIntToBytes(v) = Int64ToBytes(v)
    BY IntReadsBack, BigIntBack, BigIntSame
  <2>2. PICK a \in Nat : /\ a = Abs(v)
                         /\ TextOf(encodeHexNumber(v < 0, Uint64ToBytes(a)), a, v < 0)
    BY SignedText
  <2>3. v \in Int
    <3>1. Width \in 1 .. Width
      BY WidthAssumption
    <3> QED
      BY <3>1, Halves
  <2>4. PICK t : /\ t = encodeHexNumber(v < 0, Uint64ToBytes(a)) /\ TextOf(t, a, v < 0)
                 /\ t = HexIntString(v) /\ t = FormatInt(v)
    BY <2>2 DEF HexIntString, FormatInt
  <2>5. HexIntUnmarshalJSON(t) = v
    <3>1. CASE v < 0
      <4>1. t.neg /\ BytesToUint64(decodeHexNumber(t)) = a
        BY <2>4, <3>1 DEF TextOf
      <4>2. -a = v
        BY <2>2, <2>3, <3>1 DEF Abs
      <4> QED
        BY <4>1, <4>2 DEF HexIntUnmarshalJSON
    <3>2. CASE ~(v < 0)
      <4>1. ~t.neg /\ BytesToUint64(decodeHexNumber(t)) = a
        BY <2>4, <3>2 DEF TextOf
      <4>2. a = v
        BY <2>2, <2>3, <3>2 DEF Abs
      <4> QED
        BY <4>1, <4>2 DEF HexIntUnmarshalJSON
    <3> QED
      BY <3>1, <3>2
  <2>6. ASSUME NEW n \in 1 .. Width
        PROVE  /\ ParseInt(t, n) = {v} \cap IntRange(n)
               /\ ParseUint(t, n) = {v} \cap UintRange(n)
    BY <2>2, <2>3, <2>4, ParseIntIs
  <2> QED
    BY <2>1, <2>4, <2>5, <2>6
<1>2. ASSUME NEW v \in UintRange(Width), v \in IntRange(Width), v >= 0
      PROVE  /\ BytesToUint64(Uint64ToBytes(v)) = v
             /\ \A n \in 1 .. Width : ParseUint(FormatUint(v), n) = {v} \cap UintRange(n)
  <2>1. BytesToUint64(Uint64ToBytes(v)) = v
    BY UintReadsBack
  <2>2. v \in Int
    BY <1>2 DEF UintRange
  <2>3. FormatUint(v) = FormatInt(v)
    <3>1. Abs(v) = v /\ (v < 0) = FALSE
      BY <1>2, <2>2 DEF Abs
    <3> QED
      BY <3>1 DEF FormatUint, FormatInt
  <2> QED
    BY <1>1, <1>2, <2>1, <2>3
<1>3. LogInv => NumbersReadBack
  <2> SUFFICES ASSUME LogInv PROVE NumbersReadBack
    OBVIOUS
  <2>1. /\ \A v \in NumbersOf("int") : v \in IntRange(Width)
        /\ \A v \in NumbersOf("uint") : v \in IntRange(Width) /\ v >= 0 /\ v \in UintRange(Width)
    BY NumbersFit
  <2> QED
    BY <1>1, <1>2, <2>1, Zenon DEF NumbersReadBack
<1> QED
  BY <1>3, LogInit, LogStep, PTL DEF Spec
=============================================================================
