------------------------ MODULE ProtobufCoderProofs ------------------------
(* Proofs that ProtobufCoder delivers what was sent, for any decodable     *)
(* messages, however the stream is cut, and of the framing's operators.    *)
EXTENDS ProtobufCoder, FiniteSetTheorems, WellFoundedInduction,
        SequenceTheorems, TLAPS

USE DEF vars, bufferVars

-----------------------------------------------------------------------------
(* Numbers: a set of naturals has a least member.                          *)
LEMMA LeastNumber ==
  ASSUME NEW T, T \subseteq Nat, T # {}
  PROVE  \E x \in T : \A y \in T : x <= y
<1> DEFINE R == StrictSubsetOrdering(Nat)
           F == FiniteSubsetsOf(Nat)
           U == {0..x : x \in T}
<1>1. R = {ss \in (SUBSET Nat) \X (SUBSET Nat) : ss[1] \subseteq ss[2] /\ ss[1] # ss[2]}
  BY DEF StrictSubsetOrdering
<1>2. IsWellFoundedOn(R, F)
  BY FS_StrictSubsetOrderingWellFounded
<1>3. U \subseteq F
  <2> SUFFICES ASSUME NEW x \in T PROVE 0..x \in F
    OBVIOUS
  <2>1. 0..x \in SUBSET Nat /\ x \in Int
    OBVIOUS
  <2>2. IsFiniteSet(0..x)
    BY <2>1, FS_Interval
  <2> QED BY <2>1, <2>2 DEF FiniteSubsetsOf
<1>4. U # {}
  OBVIOUS
<1> HIDE DEF R, F
<1>5. PICK s \in U : \A t \in U : ~(<<t, s>> \in R)
  <2> HIDE DEF U
  <2> QED BY <1>2, <1>3, <1>4, WFMin, Zenon
<1>6. PICK x \in T : s = 0..x
  BY <1>5
<1>7. ASSUME NEW y \in T, ~(x <= y) PROVE FALSE
  <2>1. 0..y \in U
    BY <1>7
  <2>2. ~(<<0..y, 0..x>> \in R)
    BY <1>5, <1>6, <2>1
  <2>3. 0..y \subseteq 0..x /\ x \in 0..x /\ x \notin 0..y
    BY <1>7
  <2>4. 0..x \in SUBSET Nat /\ 0..y \in SUBSET Nat /\ 0..y # 0..x
    BY <2>3
  <2> DEFINE X == 0..x
             Y == 0..y
  <2> HIDE DEF X, Y
  <2>5. X \in SUBSET Nat /\ Y \in SUBSET Nat /\ Y \subseteq X /\ Y # X
    BY <2>3, <2>4 DEF X, Y
  <2>6. <<Y, X>> \in R
    BY <1>1, <2>5
  <2> QED BY <2>2, <2>6 DEF X, Y
<1> QED BY <1>6, <1>7

(* Induction over an interval, with a set for the predicate.               *)
LEMMA Upwards ==
  ASSUME NEW N \in Nat, NEW S, S \subseteq 0..N, 0 \in S,
         \A d \in 1..N : d - 1 \in S => d \in S
  PROVE  S = 0..N
<1> DEFINE T == (0..N) \ S
<1> SUFFICES ASSUME T # {} PROVE FALSE
  OBVIOUS
<1>1. T \subseteq Nat
  OBVIOUS
<1>2. PICK x \in T : \A y \in T : x <= y
  <2> HIDE DEF T
  <2> QED BY <1>1, LeastNumber
<1>3. x # 0 /\ x \in 1..N
  BY <1>2
<1>4. x - 1 \in S
  <2> SUFFICES ASSUME x - 1 \notin S PROVE FALSE
    OBVIOUS
  <2>1. x - 1 \in T
    BY <1>3
  <2> QED BY <1>2, <1>3, <2>1
<1> QED BY <1>2, <1>3, <1>4

(* A function on 0..N that computes each value from the one before.        *)
LEMMA StepByStep ==
  ASSUME NEW N \in Nat, NEW a \in Int, NEW H \in [Nat \X Int -> Int]
  PROVE  \E f \in [0..N -> Int] :
           f[0] = a /\ \A d \in 1..N : f[d] = H[<<d, f[d - 1]>>]
<1> DEFINE P(n) == \E f \in [0..n -> Int] :
                     f[0] = a /\ \A d \in 1..n : f[d] = H[<<d, f[d - 1]>>]
           S == {n \in 0..N : P(n)}
<1>1. P(0)
  <2> DEFINE f == [d \in 0..0 |-> a]
  <2>1. f \in [0..0 -> Int] /\ f[0] = a
    OBVIOUS
  <2> HIDE DEF f
  <2> QED BY <2>1
<1>2. ASSUME NEW n \in Nat, n > 0, P(n - 1) PROVE P(n)
  <2>1. PICK g \in [0..(n - 1) -> Int] :
          g[0] = a /\ \A d \in 1..(n - 1) : g[d] = H[<<d, g[d - 1]>>]
    BY <1>2
  <2> DEFINE f == [d \in 0..n |-> IF d < n THEN g[d] ELSE H[<<n, g[n - 1]>>]]
  <2>2. n - 1 \in 0..(n - 1)
    BY <1>2
  <2>3. H[<<n, g[n - 1]>>] \in Int
    BY <2>2
  <2>4. f \in [0..n -> Int] /\ f[0] = a
    BY <1>2, <2>1, <2>3
  <2>5. ASSUME NEW d \in 1..n PROVE f[d] = H[<<d, f[d - 1]>>]
    <3>1. f[d - 1] = g[d - 1]
      OBVIOUS
    <3>2. CASE d < n
      BY <2>1, <3>1, <3>2
    <3>3. CASE d = n
      <4>1. f[n] = H[<<n, g[n - 1]>>]
        OBVIOUS
      <4> HIDE DEF f
      <4> QED BY <3>1, <3>3, <4>1
    <3> QED BY <3>2, <3>3
  <2> HIDE DEF f
  <2> QED BY <2>4, <2>5
<1>3. \A d \in 1..N : d - 1 \in S => d \in S
  <2> HIDE DEF P
  <2> QED BY <1>2
<1>4. S = 0..N
  <2>1. S \subseteq 0..N /\ 0 \in S
    BY <1>1
  <2> HIDE DEF S
  <2> QED BY <1>3, <2>1, Upwards
<1>5. N \in S
  <2> HIDE DEF S
  <2> QED BY <1>4
<1> QED BY <1>5

-----------------------------------------------------------------------------
(* Bytes and numbers.                                                      *)
LEMMA WidthIs == Width \in Nat /\ 1 <= Width /\ Width <= 4
BY WidthAssumption

LEMMA ByteIs == \A b \in Byte : b \in Int /\ 0 <= b /\ b <= 255
BY DEF Byte

LEMMA DivMod ==
  ASSUME NEW x \in Int
  PROVE  /\ x \div 256 \in Int /\ x % 256 \in Byte
         /\ x = 256 * (x \div 256) + (x % 256)
<1>1. x \div 256 \in Int
  OBVIOUS
<1>2. x % 256 \in 0..255
  OBVIOUS
<1>3. x = 256 * (x \div 256) + (x % 256)
  OBVIOUS
<1> QED BY <1>1, <1>2, <1>3 DEF Byte

LEMMA ShiftedIs ==
  ASSUME NEW n \in Int
  PROVE  /\ Shifted(n) \in [0..Width -> Int] /\ Shifted(n)[0] = n
         /\ \A d \in 1..Width : Shifted(n)[d] = Shifted(n)[d - 1] \div 256
<1> DEFINE H == [p \in Nat \X Int |-> p[2] \div 256]
           G(f) == [d \in 0..Width |-> IF d = 0 THEN n ELSE f[d - 1] \div 256]
<1>1. Width \in Nat
  BY WidthAssumption
<1>2. PICK f \in [0..Width -> Int] :
        f[0] = n /\ \A d \in 1..Width : f[d] = H[<<d, f[d - 1]>>]
  <2>1. H \in [Nat \X Int -> Int]
    OBVIOUS
  <2> HIDE DEF H
  <2> QED BY <1>1, <2>1, StepByStep
<1>3. \A d \in 0..Width : f[d] = IF d = 0 THEN n ELSE f[d - 1] \div 256
  <2> SUFFICES ASSUME NEW d \in 1..Width PROVE f[d] = f[d - 1] \div 256
    BY <1>1, <1>2
  <2>1. d \in Nat /\ d - 1 \in 0..Width
    BY <1>1
  <2>2. f[d - 1] \in Int
    BY <2>1
  <2> QED BY <1>2, <2>1, <2>2
<1>4. f = G(f)
  BY <1>2, <1>3
<1>5. Shifted(n) = CHOOSE g : g = G(g)
  BY DEF Shifted
<1> DEFINE s == Shifted(n)
<1>6. s = G(s)
  <2> HIDE DEF G
  <2> QED BY <1>4, <1>5
<1>7. \A d \in 0..Width : s[d] = IF d = 0 THEN n ELSE s[d - 1] \div 256
  <2> HIDE DEF s
  <2> QED BY <1>6
<1>8. s[0] = n /\ \A d \in 1..Width : s[d] = s[d - 1] \div 256
  <2> HIDE DEF s
  <2> QED BY <1>1, <1>7
<1> DEFINE S == {d \in 0..Width : s[d] \in Int}
<1>9. S = 0..Width
  <2>1. S \subseteq 0..Width /\ 0 \in S /\ \A d \in 1..Width : d - 1 \in S => d \in S
    <3> HIDE DEF s
    <3> QED BY <1>1, <1>8
  <2> HIDE DEF S
  <2> QED BY <1>1, <2>1, Upwards
<1>10. s \in [0..Width -> Int]
  <2>1. \A d \in 0..Width : s[d] \in Int
    BY <1>9
  <2> HIDE DEF s
  <2> QED BY <1>6, <2>1
<1> QED BY <1>8, <1>10

LEMMA NumberIs ==
  ASSUME NEW bytes, \A d \in 1..Width : bytes[d] \in Byte
  PROVE  \E f \in [0..Width -> Int] :
           /\ f[0] = IF bytes[1] < 128 THEN 0 ELSE -1
           /\ \A d \in 1..Width : f[d] = 256 * f[d - 1] + bytes[d]
           /\ Number(bytes) = f[Width]
<1> DEFINE H == [p \in Nat \X Int |-> IF p[1] \in 1..Width
                                        THEN 256 * p[2] + bytes[p[1]] ELSE 0]
           a == IF bytes[1] < 128 THEN 0 ELSE -1
           G(f) == [d \in 0..Width |-> IF d = 0 THEN IF bytes[1] < 128 THEN 0 ELSE -1
                                         ELSE 256 * f[d - 1] + bytes[d]]
<1>1. Width \in Nat
  BY WidthAssumption
<1>2. PICK f \in [0..Width -> Int] :
        f[0] = a /\ \A d \in 1..Width : f[d] = H[<<d, f[d - 1]>>]
  <2>1. H \in [Nat \X Int -> Int]
    <3> SUFFICES ASSUME NEW p \in Nat \X Int, p[1] \in 1..Width
                 PROVE  256 * p[2] + bytes[p[1]] \in Int
      OBVIOUS
    <3>1. bytes[p[1]] \in Int
      BY DEF Byte
    <3>2. p[2] \in Int
      OBVIOUS
    <3> QED BY <3>1, <3>2
  <2>2. a \in Int
    OBVIOUS
  <2> HIDE DEF H, a
  <2> QED BY <1>1, <2>1, <2>2, StepByStep
<1>3. \A d \in 0..Width : f[d] = IF d = 0 THEN a ELSE 256 * f[d - 1] + bytes[d]
  <2> SUFFICES ASSUME NEW d \in 1..Width PROVE f[d] = 256 * f[d - 1] + bytes[d]
    BY <1>1, <1>2
  <2>1. d \in Nat /\ d - 1 \in 0..Width
    BY <1>1
  <2>2. f[d - 1] \in Int
    BY <2>1
  <2> QED BY <1>2, <2>1, <2>2
<1>4. f = G(f)
  BY <1>2, <1>3
<1> DEFINE g == CHOOSE g : g = G(g)
<1>5. Number(bytes) = g[Width]
  BY DEF Number
<1>6. g = G(g)
  <2> HIDE DEF G
  <2> QED BY <1>4
<1>7. \A d \in 0..Width : g[d] = IF d = 0 THEN a ELSE 256 * g[d - 1] + bytes[d]
  <2> HIDE DEF g
  <2> QED BY <1>6
<1>8. g[0] = a /\ \A d \in 1..Width : g[d] = 256 * g[d - 1] + bytes[d]
  <2> HIDE DEF g, a
  <2> QED BY <1>1, <1>7
<1> DEFINE S == {d \in 0..Width : g[d] \in Int}
<1>9. S = 0..Width
  <2>1. a \in Int
    OBVIOUS
  <2> HIDE DEF g, a
  <2>2. ASSUME NEW d \in 1..Width, d - 1 \in S PROVE d \in S
    <3>1. bytes[d] \in Int
      BY ByteIs
    <3>2. g[d - 1] \in Int
      BY <2>2
    <3> QED BY <1>8, <3>1, <3>2
  <2>3. S \subseteq 0..Width /\ 0 \in S
    BY <1>1, <1>8, <2>1
  <2> HIDE DEF S
  <2> QED BY <1>1, <2>2, <2>3, Upwards
<1>10. g \in [0..Width -> Int]
  <2>1. \A d \in 0..Width : g[d] \in Int
    BY <1>9
  <2> HIDE DEF g
  <2> QED BY <1>6, <2>1
<1> HIDE DEF g
<1> QED BY <1>5, <1>8, <1>10

(* The number in some bytes depends on those bytes only.                   *)
LEMMA SameNumber ==
  ASSUME NEW b, NEW c, \A d \in 1..Width : b[d] \in Byte /\ c[d] = b[d]
  PROVE  Number(c) = Number(b)
<1>1. Width \in Nat /\ 1 \in 1..Width
  BY WidthAssumption
<1>2. PICK f \in [0..Width -> Int] :
        /\ f[0] = IF b[1] < 128 THEN 0 ELSE -1
        /\ \A d \in 1..Width : f[d] = 256 * f[d - 1] + b[d]
        /\ Number(b) = f[Width]
  BY NumberIs
<1>3. PICK g \in [0..Width -> Int] :
        /\ g[0] = IF c[1] < 128 THEN 0 ELSE -1
        /\ \A d \in 1..Width : g[d] = 256 * g[d - 1] + c[d]
        /\ Number(c) = g[Width]
  <2>1. \A d \in 1..Width : c[d] \in Byte
    OBVIOUS
  <2> QED BY <2>1, NumberIs
<1> DEFINE S == {d \in 0..Width : f[d] = g[d]}
<1>4. 0 \in S
  <2>1. b[1] = c[1] /\ 0 \in 0..Width
    BY <1>1
  <2>2. f[0] = g[0]
    BY <1>2, <1>3, <2>1
  <2> QED BY <2>1, <2>2
<1>5. \A d \in 1..Width : d - 1 \in S => d \in S
  BY <1>1, <1>2, <1>3
<1>6. S = 0..Width
  <2>1. S \subseteq 0..Width
    OBVIOUS
  <2> HIDE DEF S
  <2> QED BY <1>1, <1>4, <1>5, <2>1, Upwards
<1>7. Width \in S
  <2> HIDE DEF S
  <2> QED BY <1>1, <1>6
<1> QED BY <1>2, <1>3, <1>7

LEMMA NumberIsInt ==
  ASSUME NEW b, \A d \in 1..Width : b[d] \in Byte
  PROVE  Number(b) \in Int
<1>1. Width \in 0..Width
  BY WidthAssumption
<1> QED BY <1>1, NumberIs

(* htonl yields bytes, and ntohl undoes it.                                *)
LEMMA Int32Is ==
  ASSUME NEW n \in Int
  PROVE  /\ Int32(n) \in Seq(Byte) /\ Len(Int32(n)) = Width
         /\ \A d \in 1..Width : Int32(n)[d] = Shifted(n)[Width - d] % 256
<1>1. Width \in Nat
  BY WidthAssumption
<1>2. ASSUME NEW d \in 1..Width PROVE Shifted(n)[Width - d] % 256 \in Byte
  <2>1. Width - d \in 0..Width
    BY <1>1
  <2>2. Shifted(n)[Width - d] \in Int
    BY <1>1, <2>1, ShiftedIs
  <2> QED BY <2>2, DivMod
<1>3. Int32(n) \in [1..Width -> Byte]
  BY <1>2 DEF Int32
<1> QED BY <1>1, <1>3 DEF Int32

LEMMA NumberOfInt32 ==
  ASSUME NEW n \in Int, Fits(n)
  PROVE  Number(Int32(n)) = n
<1>1. Width \in Nat /\ 1 \in 1..Width /\ Width \in 0..Width /\ Width - 1 \in 0..Width
  BY WidthAssumption
<1> DEFINE q == Shifted(n)
           b == Int32(n)
<1>2. /\ q \in [0..Width -> Int] /\ q[0] = n
      /\ \A d \in 1..Width : q[d] = q[d - 1] \div 256
  BY ShiftedIs
<1>3. /\ \A d \in 1..Width : b[d] = q[Width - d] % 256
      /\ \A d \in 1..Width : b[d] \in Byte
  BY Int32Is
<1>4. q[Width - 1] \in -128..127
  BY DEF Fits
<1> HIDE DEF q, b
<1>5. PICK f \in [0..Width -> Int] :
        /\ f[0] = IF b[1] < 128 THEN 0 ELSE -1
        /\ \A d \in 1..Width : f[d] = 256 * f[d - 1] + b[d]
        /\ Number(b) = f[Width]
  BY <1>3, NumberIs
<1> DEFINE S == {d \in 0..Width : f[d] = q[Width - d]}
<1>6. 0 \in S
  <2> DEFINE x == q[Width - 1]
  <2>1. b[1] = x % 256 /\ q[Width] = x \div 256 /\ x \in Int
    BY <1>1, <1>2, <1>3
  <2>2. x >= -128 /\ x <= 127
    <3> HIDE DEF x
    <3>1. q[Width - 1] \in Int
      BY <2>1 DEF x
    <3>2. q[Width - 1] >= -128 /\ q[Width - 1] <= 127
      <4>1. \A y \in Int : y \in -128..127 => y >= -128 /\ y <= 127
        OBVIOUS
      <4> QED BY <1>4, <3>1, <4>1
    <3> QED BY <3>2 DEF x
  <2> HIDE DEF x
  <2>3. 0 <= b[1] /\ b[1] <= 255 /\ b[1] \in Int /\ q[Width] \in Int
        /\ x = 256 * q[Width] + b[1]
    BY <2>1, DivMod, ByteIs
  <2>4. f[0] = q[Width]
    BY <1>5, <2>1, <2>2, <2>3
  <2> QED BY <1>1, <2>4
<1>7. \A d \in 1..Width : d - 1 \in S => d \in S
  <2> SUFFICES ASSUME NEW d \in 1..Width, f[d - 1] = q[Width - (d - 1)]
               PROVE  f[d] = q[Width - d]
    BY <1>1
  <2> DEFINE e == Width - (d - 1)
  <2>1. e \in 1..Width /\ e - 1 = Width - d /\ e - 1 \in 0..Width
    BY <1>1
  <2>2. q[e] = q[e - 1] \div 256 /\ q[e - 1] \in Int
    BY <1>2, <2>1
  <2>3. b[d] = q[e - 1] % 256
    BY <1>3, <2>1
  <2>4. f[d] = 256 * q[e] + b[d]
    BY <1>5
  <2>5. q[e - 1] = 256 * q[e] + b[d]
    BY <2>2, <2>3, DivMod
  <2> QED BY <2>1, <2>4, <2>5
<1>8. S = 0..Width
  <2>1. S \subseteq 0..Width
    OBVIOUS
  <2> HIDE DEF S
  <2> QED BY <1>1, <1>6, <1>7, <2>1, Upwards
<1>9. Width \in S
  <2> HIDE DEF S
  <2> QED BY <1>1, <1>8
<1>10. f[Width] = q[0]
  BY <1>1, <1>9
<1> QED BY <1>2, <1>5, <1>10 DEF b

(* The lengths inside a frame fit if that of the frame does.               *)
LEMMA FitsBelow ==
  ASSUME NEW a \in Nat, NEW n \in Nat, a <= n, Fits(n)
  PROVE  Fits(a)
<1>1. Width \in Nat /\ Width - 1 \in 0..Width
  BY WidthAssumption
<1> DEFINE p == Shifted(a)
           q == Shifted(n)
<1>2. /\ p \in [0..Width -> Int] /\ p[0] = a
      /\ \A d \in 1..Width : p[d] = p[d - 1] \div 256
  BY ShiftedIs
<1>3. /\ q \in [0..Width -> Int] /\ q[0] = n
      /\ \A d \in 1..Width : q[d] = q[d - 1] \div 256
  BY ShiftedIs
<1>4. q[Width - 1] \in -128..127
  BY DEF Fits
<1>5. SUFFICES p[Width - 1] \in -128..127
  BY DEF Fits
<1> HIDE DEF p, q
<1> DEFINE S == {d \in 0..Width : 0 <= p[d] /\ p[d] <= q[d]}
<1>6. 0 \in S
  BY <1>1, <1>2, <1>3
<1>7. \A d \in 1..Width : d - 1 \in S => d \in S
  <2> SUFFICES ASSUME NEW d \in 1..Width, 0 <= p[d - 1], p[d - 1] <= q[d - 1]
               PROVE  0 <= p[d] /\ p[d] <= q[d]
    BY <1>1
  <2>1. d - 1 \in 0..Width
    BY <1>1
  <2>2. p[d - 1] \in Int /\ q[d - 1] \in Int
    BY <1>2, <1>3, <2>1
  <2> QED BY <1>2, <1>3, <2>2
<1>8. S = 0..Width
  <2>1. S \subseteq 0..Width
    OBVIOUS
  <2> HIDE DEF S
  <2> QED BY <1>1, <1>6, <1>7, <2>1, Upwards
<1>9. 0 <= p[Width - 1] /\ p[Width - 1] <= q[Width - 1]
  <2>1. Width - 1 \in S
    <3> HIDE DEF S
    <3> QED BY <1>1, <1>8
  <2> QED BY <2>1
<1>10. p[Width - 1] \in Int /\ q[Width - 1] \in Int
  BY <1>1, <1>2, <1>3
<1> QED BY <1>4, <1>9, <1>10

(* A number whose first byte is below 128 is not negative, and below 256   *)
(* only if its other bytes but the last are 0.                             *)
LEMMA LargeNumber ==
  ASSUME NEW b, \A d \in 1..Width : b[d] \in Byte, b[1] < 128
  PROVE  /\ Number(b) >= b[Width]
         /\ \A d \in 1..(Width - 1) : b[d] # 0 => Number(b) >= 256
         /\ (\A d \in 1..(Width - 1) : b[d] = 0) => Number(b) = b[Width]
<1>1. Width \in Nat /\ 1 \in 1..Width /\ Width \in 1..Width
  BY WidthAssumption
<1>2. PICK f \in [0..Width -> Int] :
        /\ f[0] = IF b[1] < 128 THEN 0 ELSE -1
        /\ \A d \in 1..Width : f[d] = 256 * f[d - 1] + b[d]
        /\ Number(b) = f[Width]
  BY NumberIs
<1>3. f[0] = 0
  BY <1>2
<1>4. \A d \in 1..Width : /\ b[d] \in Int /\ b[d] >= 0
                          /\ f[d - 1] \in Int /\ f[d] = 256 * f[d - 1] + b[d]
  <2> SUFFICES ASSUME NEW d \in 1..Width
               PROVE  /\ b[d] \in Int /\ b[d] >= 0
                      /\ f[d - 1] \in Int /\ f[d] = 256 * f[d - 1] + b[d]
    OBVIOUS
  <2>1. d - 1 \in 0..Width
    BY <1>1
  <2> QED BY <1>2, <2>1, ByteIs
<1> DEFINE S == {d \in 0..Width : f[d] >= 0}
<1>5. S = 0..Width
  <2>1. S \subseteq 0..Width /\ 0 \in S
    BY <1>1, <1>3
  <2>2. \A d \in 1..Width : d - 1 \in S => d \in S
    <3> SUFFICES ASSUME NEW d \in 1..Width, f[d - 1] >= 0 PROVE f[d] >= 0
      OBVIOUS
    <3>1. /\ b[d] \in Int /\ b[d] >= 0 /\ f[d - 1] \in Int
          /\ f[d] = 256 * f[d - 1] + b[d]
      BY <1>4
    <3> QED BY <3>1
  <2> HIDE DEF S
  <2> QED BY <1>1, <2>1, <2>2, Upwards
<1>6. \A d \in 0..Width : f[d] >= 0 /\ f[d] \in Int
  BY <1>5
<1>7. f[Width] >= b[Width]
  <2>1. Width - 1 \in 0..Width
    BY <1>1
  <2>2. f[Width - 1] >= 0 /\ f[Width - 1] \in Int
    BY <1>6, <2>1
  <2>3. Width \in 1..Width
    BY <1>1
  <2>4. f[Width] = 256 * f[Width - 1] + b[Width] /\ b[Width] \in Int
    BY <1>4, <2>3
  <2> QED BY <2>2, <2>4
<1>8. ASSUME NEW d \in 1..(Width - 1), b[d] # 0 PROVE f[Width] >= 256
  <2> DEFINE U == {e \in 0..Width : e >= d => f[e] >= 1 /\ (e > d => f[e] >= 256)}
  <2>1. d \in 1..Width /\ d - 1 \in 0..Width
    BY <1>1
  <2>2. f[d] >= 1
    BY <1>4, <1>6, <1>8, <2>1
  <2>3. U = 0..Width
    <3>1. U \subseteq 0..Width /\ 0 \in U
      BY <1>1, <2>1
    <3>2. ASSUME NEW e \in 1..Width, e - 1 \in U PROVE e \in U
      <4>1. CASE e <= d
        BY <2>1, <2>2, <4>1
      <4>2. CASE e > d
        <5>1. f[e - 1] >= 1 /\ f[e - 1] \in Int
          BY <1>4, <2>1, <3>2, <4>2
        <5>2. f[e] >= 256
          BY <1>4, <5>1
        <5> QED BY <4>2, <5>2
      <4> QED BY <2>1, <4>1, <4>2
    <3> HIDE DEF U
    <3> QED BY <1>1, <3>1, <3>2, Upwards
  <2>4. Width \in U
    <3> HIDE DEF U
    <3> QED BY <1>1, <2>3
  <2> QED BY <1>1, <2>4
<1>9. ASSUME \A d \in 1..(Width - 1) : b[d] = 0 PROVE f[Width] = b[Width]
  <2> DEFINE U == {e \in 0..(Width - 1) : f[e] = 0}
  <2>1. Width - 1 \in Nat
    BY <1>1
  <2>2. U = 0..(Width - 1)
    <3>1. U \subseteq 0..(Width - 1) /\ 0 \in U
      BY <1>3, <2>1
    <3>2. \A e \in 1..(Width - 1) : e - 1 \in U => e \in U
      <4> SUFFICES ASSUME NEW e \in 1..(Width - 1), f[e - 1] = 0 PROVE f[e] = 0
        OBVIOUS
      <4>1. e \in 1..Width
        BY <1>1
      <4> QED BY <1>4, <1>9, <4>1
    <3> HIDE DEF U
    <3> QED BY <2>1, <3>1, <3>2, Upwards
  <2>3. f[Width - 1] = 0
    <3>1. Width - 1 \in U
      <4> HIDE DEF U
      <4> QED BY <2>1, <2>2
    <3> QED BY <3>1
  <2> QED BY <1>1, <1>4, <2>3
<1> QED BY <1>2, <1>7, <1>8, <1>9

-----------------------------------------------------------------------------
(* What decode reads.                                                      *)
LEMMA AtIsByte ==
  ASSUME m_buffer \in Bytes, NEW k \in Int, NEW outside \in Byte
  PROVE  At(k, outside) \in Byte
<1>1. CASE k \in 0..(Len(m_buffer) - 1)
  <2>1. k + 1 \in 1..Len(m_buffer)
    BY <1>1
  <2> QED BY <1>1, <2>1 DEF At, Bytes
<1>2. CASE k \notin 0..(Len(m_buffer) - 1)
  BY <1>2 DEF At
<1> QED BY <1>1, <1>2

LEMMA GetInt32Is ==
  ASSUME NEW k \in Int, NEW outside \in Byte
  PROVE  GetInt32[<<k, outside>>] = Number([d \in 1..Width |-> At(k + d - 1, outside)])
BY DEF GetInt32

LEMMA GetInt32IsInt ==
  ASSUME m_buffer \in Bytes, NEW k \in Int, NEW outside \in Byte
  PROVE  GetInt32[<<k, outside>>] \in Int
<1> DEFINE b == [d \in 1..Width |-> At(k + d - 1, outside)]
<1>1. ASSUME NEW d \in 1..Width PROVE b[d] \in Byte
  <2>1. k + d - 1 \in Int
    BY WidthAssumption
  <2>2. At(k + d - 1, outside) \in Byte
    BY <2>1, AtIsByte
  <2> QED BY <2>2
<1> HIDE DEF b
<1>2. Number(b) \in Int
  BY <1>1, NumberIsInt
<1> QED BY <1>2, GetInt32Is DEF b

LEMMA CopyIs ==
  ASSUME m_buffer \in Bytes, NEW k \in Int, NEW len \in Nat, NEW outside \in Byte
  PROVE  /\ Copy(k, len, outside) \in Bytes /\ Len(Copy(k, len, outside)) = len
         /\ \A n \in 1..len : Copy(k, len, outside)[n] = At(k + n - 1, outside)
<1>1. ASSUME NEW n \in 1..len PROVE At(k + n - 1, outside) \in Byte
  <2>1. k + n - 1 \in Int
    OBVIOUS
  <2> QED BY <2>1, AtIsByte
<1>2. Copy(k, len, outside) \in [1..len -> Byte]
  BY <1>1 DEF Copy
<1>3. \A s \in [1..len -> Byte] : s \in Seq(Byte) /\ Len(s) = len
  OBVIOUS
<1>4. Copy(k, len, outside) \in Bytes /\ Len(Copy(k, len, outside)) = len
  BY <1>2, <1>3 DEF Bytes
<1> QED BY <1>4 DEF Copy

(* A C string ends at the first zero byte.                                 *)
LEMMA CStringIs ==
  ASSUME m_buffer \in Bytes, NEW k \in Int, NEW len \in Nat, NEW outside \in Byte
  PROVE  \E end \in 0..len :
           /\ CString(k, len, outside) = Copy(k, end, outside)
           /\ end = len \/ At(k + end, outside) = 0
           /\ \A j \in 0..(end - 1) : At(k + j, outside) # 0
<1> DEFINE T == {n \in 0..len : n = len \/ At(k + n, outside) = 0}
           P(n) == /\ n = len \/ At(k + n, outside) = 0
                   /\ \A j \in 0..(n - 1) : At(k + j, outside) # 0
           end == CHOOSE n \in 0..len : P(n)
<1>1. PICK n \in T : \A m \in T : n <= m
  <2>1. T \subseteq Nat /\ len \in T
    OBVIOUS
  <2> HIDE DEF T
  <2> QED BY <2>1, LeastNumber
<1>2. P(n) /\ n \in 0..len
  <2>1. ASSUME NEW j \in 0..(n - 1), At(k + j, outside) = 0 PROVE FALSE
    <3>1. j \in T
      BY <1>1, <2>1
    <3> QED BY <1>1, <3>1
  <2> QED BY <1>1, <2>1
<1> HIDE DEF P
<1>3. end \in 0..len /\ P(end)
  BY <1>2
<1>4. CString(k, len, outside) = Copy(k, end, outside)
  BY DEF CString, P
<1> HIDE DEF end
<1> QED BY <1>3, <1>4 DEF P

LEMMA CStringIsBytes ==
  ASSUME m_buffer \in Bytes, NEW k \in Int, NEW len \in Nat, NEW outside \in Byte
  PROVE  CString(k, len, outside) \in Bytes
<1>1. PICK end \in 0..len : CString(k, len, outside) = Copy(k, end, outside)
  BY CStringIs
<1>2. end \in Nat
  OBVIOUS
<1> QED BY <1>1, <1>2, CopyIs

-----------------------------------------------------------------------------
(* Frames.                                                                 *)

(* The bytes of x are in e, behind the first k bytes.                      *)
Holds(e, k, x) == k + Len(x) <= Len(e) /\ \A i \in 1..Len(x) : e[k + i] = x[i]

LEMMA HoldsPart ==
  ASSUME NEW q \in Seq(Byte), NEW x \in Seq(Byte), NEW e, Holds(e, 0, q \o x),
         Len(e) \in Nat
  PROVE  Holds(e, 0, q) /\ Holds(e, Len(q), x)
<1>1. /\ q \o x \in Seq(Byte) /\ Len(q \o x) = Len(q) + Len(x)
      /\ \A i \in 1..(Len(q) + Len(x)) :
           (q \o x)[i] = IF i <= Len(q) THEN q[i] ELSE x[i - Len(q)]
  BY ConcatProperties, Zenon
<1>2. Len(q) \in Nat /\ Len(x) \in Nat
  OBVIOUS
<1> DEFINE s == q \o x
<1>3. /\ Len(s) = Len(q) + Len(x) /\ Holds(e, 0, s)
      /\ \A i \in 1..(Len(q) + Len(x)) :
           s[i] = IF i <= Len(q) THEN q[i] ELSE x[i - Len(q)]
  BY <1>1
<1> HIDE DEF s
<1>4. Len(q) + Len(x) <= Len(e)
  BY <1>2, <1>3 DEF Holds
<1>5. ASSUME NEW i \in 1..Len(q) PROVE e[0 + i] = q[i]
  <2>1. i \in 1..Len(s) /\ i <= Len(q) /\ i \in 1..(Len(q) + Len(x))
    BY <1>2, <1>3
  <2> QED BY <1>3, <2>1 DEF Holds
<1>6. ASSUME NEW i \in 1..Len(x) PROVE e[Len(q) + i] = x[i]
  <2> DEFINE j == Len(q) + i
  <2>1. j \in 1..Len(s) /\ ~(j <= Len(q)) /\ j - Len(q) = i /\ 0 + j = j
        /\ j \in 1..(Len(q) + Len(x))
    BY <1>2, <1>3
  <2> HIDE DEF j
  <2>2. e[0 + j] = s[j] /\ s[j] = x[j - Len(q)]
    BY <1>3, <2>1 DEF Holds
  <2>3. e[j] = x[i]
    BY <2>1, <2>2
  <2> QED BY <2>3 DEF j
<1> QED BY <1>2, <1>4, <1>5, <1>6 DEF Holds

(* Where encode_protubuf puts the parts of a frame.                        *)
IdAt      == 1 + 2 * Width
NameAt(m) == 1 + 3 * Width + Len(m.msg_id)
CodeAt(m) == NameAt(m) + Len(m.method_name)
InfoAt(m) == CodeAt(m) + 2 * Width
DataAt(m) == InfoAt(m) + Len(m.err_info)

IsFrame(e, m) ==
  /\ e \in Seq(Byte) /\ Len(e) = PkLen(m)
  /\ e[1] = s_start /\ e[PkLen(m)] = s_end
  /\ Holds(e, 1, Int32(PkLen(m)))
  /\ Holds(e, 1 + Width, Int32(Len(m.msg_id)))
  /\ Holds(e, IdAt, m.msg_id)
  /\ Holds(e, NameAt(m) - Width, Int32(Len(m.method_name)))
  /\ Holds(e, NameAt(m), m.method_name)
  /\ Holds(e, CodeAt(m), Int32(m.err_code))
  /\ Holds(e, CodeAt(m) + Width, Int32(Len(m.err_info)))
  /\ Holds(e, InfoAt(m), m.err_info)
  /\ Holds(e, DataAt(m), m.pb_data)

LEMMA MessageIs ==
  ASSUME NEW m \in Message
  PROVE  /\ m.msg_id \in Seq(Byte) /\ m.method_name \in Seq(Byte)
         /\ m.err_info \in Seq(Byte) /\ m.pb_data \in Seq(Byte)
         /\ m.err_code \in Int
         /\ Len(m.msg_id) \in Nat /\ Len(m.method_name) \in Nat
         /\ Len(m.err_info) \in Nat /\ Len(m.pb_data) \in Nat
         /\ PkLen(m) \in Nat /\ PkLen(m) >= 8
<1>1. /\ m.msg_id \in Seq(Byte) /\ m.method_name \in Seq(Byte)
      /\ m.err_info \in Seq(Byte) /\ m.pb_data \in Seq(Byte)
      /\ m.err_code \in Int
  BY DEF Message, Bytes
<1>2. /\ Len(m.msg_id) \in Nat /\ Len(m.method_name) \in Nat
      /\ Len(m.err_info) \in Nat /\ Len(m.pb_data) \in Nat
  BY <1>1, LenProperties, Zenon
<1>3. PkLen(m) \in Nat /\ PkLen(m) >= 8
  <2>1. \A a, b, c, d \in Nat : /\ 2 + 6 * Width + a + b + c + d \in Nat
                               /\ 2 + 6 * Width + a + b + c + d >= 8
    BY WidthIs
  <2> QED BY <1>2, <2>1 DEF PkLen
<1> QED BY <1>1, <1>2, <1>3

LEMMA EncodeIs ==
  ASSUME NEW m \in Message
  PROVE  IsFrame(EncodeProtobuf(m), m)
<1> DEFINE W  == Width
           q1 == <<s_start>>
           x2 == Int32(PkLen(m))            q2 == q1 \o x2
           x3 == Int32(Len(m.msg_id))       q3 == q2 \o x3
           x4 == m.msg_id                   q4 == q3 \o x4
           x5 == Int32(Len(m.method_name))  q5 == q4 \o x5
           x6 == m.method_name              q6 == q5 \o x6
           x7 == Int32(m.err_code)          q7 == q6 \o x7
           x8 == Int32(Len(m.err_info))     q8 == q7 \o x8
           x9 == m.err_info                 q9 == q8 \o x9
           x10 == m.pb_data                 q10 == q9 \o x10
           x11 == Int32(1)                  q11 == q10 \o x11
           e  == q11 \o <<s_end>>
<1>1. EncodeProtobuf(m) = e
  BY DEF EncodeProtobuf
<1>2. /\ W \in Nat /\ W >= 1 /\ Len(x4) \in Nat /\ Len(x6) \in Nat /\ Len(x9) \in Nat
      /\ Len(x10) \in Nat
      /\ PkLen(m) \in Nat
      /\ PkLen(m) = 2 + 6 * W + Len(x4) + Len(x6) + Len(x9) + Len(x10)
  <2>1. PkLen(m) = 2 + 6 * W + Len(x4) + Len(x6) + Len(x9) + Len(x10)
    BY DEF PkLen
  <2> QED BY <2>1, WidthIs, MessageIs
<1>3. /\ x2 \in Seq(Byte) /\ Len(x2) = W
      /\ x3 \in Seq(Byte) /\ Len(x3) = W
      /\ x5 \in Seq(Byte) /\ Len(x5) = W
      /\ x7 \in Seq(Byte) /\ Len(x7) = W
      /\ x8 \in Seq(Byte) /\ Len(x8) = W
      /\ x11 \in Seq(Byte) /\ Len(x11) = W
  BY Int32Is, MessageIs
<1>4. x4 \in Seq(Byte) /\ x6 \in Seq(Byte) /\ x9 \in Seq(Byte) /\ x10 \in Seq(Byte)
  BY MessageIs
<1>5. q1 \in Seq(Byte) /\ Len(q1) = 1 /\ q1[1] = s_start
  BY DEF Byte, s_start
<1>6. <<s_end>> \in Seq(Byte) /\ Len(<<s_end>>) = 1 /\ <<s_end>>[1] = s_end
  BY DEF Byte, s_end
<1> HIDE DEF x2, x3, x4, x5, x6, x7, x8, x9, x10, x11, q1
<1>7. \A s, t \in Seq(Byte) : s \o t \in Seq(Byte) /\ Len(s \o t) = Len(s) + Len(t)
  BY ConcatProperties, Zenon
<1>8. q2 \in Seq(Byte) /\ Len(q2) = 1 + W
  BY <1>3, <1>5, <1>7, Zenon
<1> HIDE DEF q2
<1>9. q3 \in Seq(Byte) /\ Len(q3) = 1 + 2 * W
  <2>1. q3 \in Seq(Byte) /\ Len(q3) = Len(q2) + Len(x3)
    BY <1>3, <1>7, <1>8, Zenon
  <2> QED BY <1>2, <1>3, <1>8, <2>1
<1> HIDE DEF q3
<1>10. q4 \in Seq(Byte) /\ Len(q4) = 1 + 2 * W + Len(x4)
  <2>1. q4 \in Seq(Byte) /\ Len(q4) = Len(q3) + Len(x4)
    BY <1>4, <1>7, <1>9, Zenon
  <2> QED BY <1>2, <1>9, <2>1
<1> HIDE DEF q4
<1>11. q5 \in Seq(Byte) /\ Len(q5) = 1 + 3 * W + Len(x4)
  <2>1. q5 \in Seq(Byte) /\ Len(q5) = Len(q4) + Len(x5)
    BY <1>3, <1>7, <1>10, Zenon
  <2> QED BY <1>2, <1>3, <1>10, <2>1
<1> HIDE DEF q5
<1>12. q6 \in Seq(Byte) /\ Len(q6) = 1 + 3 * W + Len(x4) + Len(x6)
  <2>1. q6 \in Seq(Byte) /\ Len(q6) = Len(q5) + Len(x6)
    BY <1>4, <1>7, <1>11, Zenon
  <2> QED BY <1>2, <1>11, <2>1
<1> HIDE DEF q6
<1>13. q7 \in Seq(Byte) /\ Len(q7) = 1 + 4 * W + Len(x4) + Len(x6)
  <2>1. q7 \in Seq(Byte) /\ Len(q7) = Len(q6) + Len(x7)
    BY <1>3, <1>7, <1>12, Zenon
  <2> QED BY <1>2, <1>3, <1>12, <2>1
<1> HIDE DEF q7
<1>14. q8 \in Seq(Byte) /\ Len(q8) = 1 + 5 * W + Len(x4) + Len(x6)
  <2>1. q8 \in Seq(Byte) /\ Len(q8) = Len(q7) + Len(x8)
    BY <1>3, <1>7, <1>13, Zenon
  <2> QED BY <1>2, <1>3, <1>13, <2>1
<1> HIDE DEF q8
<1>15. q9 \in Seq(Byte) /\ Len(q9) = 1 + 5 * W + Len(x4) + Len(x6) + Len(x9)
  <2>1. q9 \in Seq(Byte) /\ Len(q9) = Len(q8) + Len(x9)
    BY <1>4, <1>7, <1>14, Zenon
  <2> QED BY <1>2, <1>14, <2>1
<1> HIDE DEF q9
<1>16. q10 \in Seq(Byte) /\ Len(q10) = 1 + 5 * W + Len(x4) + Len(x6) + Len(x9) + Len(x10)
  <2>1. q10 \in Seq(Byte) /\ Len(q10) = Len(q9) + Len(x10)
    BY <1>4, <1>7, <1>15, Zenon
  <2> QED BY <1>2, <1>15, <2>1
<1> HIDE DEF q10
<1>17. q11 \in Seq(Byte) /\ Len(q11) = PkLen(m) - 1
  <2>1. q11 \in Seq(Byte) /\ Len(q11) = Len(q10) + Len(x11)
    BY <1>3, <1>7, <1>16, Zenon
  <2> QED BY <1>2, <1>3, <1>16, <2>1
<1> HIDE DEF q11
<1>18. e \in Seq(Byte) /\ Len(e) = PkLen(m)
  <2>1. e \in Seq(Byte) /\ Len(e) = Len(q11) + Len(<<s_end>>)
    BY <1>6, <1>7, <1>17, Zenon
  <2> QED BY <1>2, <1>6, <1>17, <2>1
<1>19. Holds(e, 0, e)
  <2> HIDE DEF e
  <2> QED BY <1>18 DEF Holds
<1>20. Holds(e, 0, q11) /\ Holds(e, PkLen(m) - 1, <<s_end>>)
  BY <1>2, <1>6, <1>17, <1>18, <1>19, HoldsPart
<1> HIDE DEF e
<1>21. Holds(e, 0, q10)
  BY <1>2, <1>3, <1>16, <1>18, <1>20, HoldsPart DEF q11
<1>22. Holds(e, 0, q9) /\ Holds(e, Len(q9), x10)
  BY <1>2, <1>4, <1>15, <1>18, <1>21, HoldsPart DEF q10
<1>23. Holds(e, 0, q8) /\ Holds(e, Len(q8), x9)
  BY <1>2, <1>4, <1>14, <1>18, <1>22, HoldsPart DEF q9
<1>24. Holds(e, 0, q7) /\ Holds(e, Len(q7), x8)
  BY <1>2, <1>3, <1>13, <1>18, <1>23, HoldsPart DEF q8
<1>25. Holds(e, 0, q6) /\ Holds(e, Len(q6), x7)
  BY <1>2, <1>3, <1>12, <1>18, <1>24, HoldsPart DEF q7
<1>26. Holds(e, 0, q5) /\ Holds(e, Len(q5), x6)
  BY <1>2, <1>4, <1>11, <1>18, <1>25, HoldsPart DEF q6
<1>27. Holds(e, 0, q4) /\ Holds(e, Len(q4), x5)
  BY <1>2, <1>3, <1>10, <1>18, <1>26, HoldsPart DEF q5
<1>28. Holds(e, 0, q3) /\ Holds(e, Len(q3), x4)
  BY <1>2, <1>4, <1>9, <1>18, <1>27, HoldsPart DEF q4
<1>29. Holds(e, 0, q2) /\ Holds(e, Len(q2), x3)
  BY <1>2, <1>3, <1>8, <1>18, <1>28, HoldsPart DEF q3
<1>30. Holds(e, 0, q1) /\ Holds(e, Len(q1), x2)
  BY <1>2, <1>3, <1>5, <1>18, <1>29, HoldsPart DEF q2
<1>31. e[1] = s_start
  BY <1>5, <1>30 DEF Holds
<1>32. e[PkLen(m)] = s_end
  <2>1. e[(PkLen(m) - 1) + 1] = <<s_end>>[1]
    BY <1>6, <1>20 DEF Holds
  <2> QED BY <1>2, <2>1
<1>33. /\ Len(q3) = IdAt /\ Len(q5) = NameAt(m) /\ Len(q4) = NameAt(m) - Width
       /\ Len(q6) = CodeAt(m) /\ Len(q7) = CodeAt(m) + Width /\ Len(q8) = InfoAt(m)
       /\ Len(q9) = DataAt(m)
  <2>1. /\ IdAt = 1 + 2 * W /\ NameAt(m) = 1 + 3 * W + Len(x4)
        /\ CodeAt(m) = NameAt(m) + Len(x6) /\ InfoAt(m) = CodeAt(m) + 2 * W
        /\ DataAt(m) = InfoAt(m) + Len(x9)
    BY DEF IdAt, NameAt, CodeAt, InfoAt, DataAt, x4, x6, x9
  <2> QED BY <1>2, <1>9, <1>10, <1>11, <1>12, <1>13, <1>14, <1>15, <2>1
<1>34. IsFrame(e, m)
  BY <1>5, <1>8, <1>18, <1>22, <1>23, <1>24, <1>25, <1>26, <1>27, <1>28, <1>29, <1>30,
     <1>31, <1>32, <1>33
     DEF IsFrame, x2, x3, x4, x5, x6, x7, x8, x9, x10
<1> QED BY <1>1, <1>34

-----------------------------------------------------------------------------
(* What decode makes of a frame has the types of a message, whatever is in *)
(* the buffer.                                                             *)
LEMMA LayoutIs ==
  ASSUME m_buffer \in Bytes, NEW start \in Int, NEW outside \in Byte,
         NEW f, f = Layout(start, outside)
  PROVE  /\ f.id_len_index \in Int /\ f.id_len_index = start + 1 + Width
         /\ f.id_len \in Int /\ f.id_len = GetInt32[<<f.id_len_index, outside>>]
         /\ f.name_len_index \in Int
         /\ f.name_len_index = f.id_len_index + Width + f.id_len
         /\ f.name_len \in Int /\ f.name_len = GetInt32[<<f.name_len_index, outside>>]
         /\ f.code_index \in Int
         /\ f.code_index = f.name_len_index + Width + f.name_len
         /\ f.info_index \in Int /\ f.info_index = f.code_index + 2 * Width
         /\ f.info_len \in Int
         /\ f.info_len = GetInt32[<<f.code_index + Width, outside>>]
         /\ f.pb_index \in Int /\ f.pb_index = f.info_index + f.info_len
         /\ f.pb_data_len \in Int
         /\ f.pb_data_len = GetInt32[<<start + 1, outside>>]
                              - f.name_len - f.id_len - f.info_len - 2 - 6 * Width
<1>1. /\ f.id_len_index = start + 1 + Width
      /\ f.id_len = GetInt32[<<f.id_len_index, outside>>]
      /\ f.name_len_index = f.id_len_index + Width + f.id_len
      /\ f.name_len = GetInt32[<<f.name_len_index, outside>>]
      /\ f.code_index = f.name_len_index + Width + f.name_len
      /\ f.info_index = f.code_index + 2 * Width
      /\ f.info_len = GetInt32[<<f.code_index + Width, outside>>]
      /\ f.pb_index = f.info_index + f.info_len
      /\ f.pb_data_len = GetInt32[<<start + 1, outside>>]
                           - f.name_len - f.id_len - f.info_len - 2 - 6 * Width
  BY DEF Layout
<1>2. f.id_len_index \in Int
  BY <1>1, WidthIs
<1>3. f.id_len \in Int
  BY <1>1, <1>2, GetInt32IsInt
<1>4. f.name_len_index \in Int
  BY <1>1, <1>2, <1>3, WidthIs
<1>5. f.name_len \in Int
  BY <1>1, <1>4, GetInt32IsInt
<1>6. f.code_index \in Int /\ f.code_index + Width \in Int /\ start + 1 \in Int
  BY <1>1, <1>4, <1>5, WidthIs
<1>7. f.info_len \in Int /\ GetInt32[<<start + 1, outside>>] \in Int
  BY <1>1, <1>6, GetInt32IsInt
<1>8. f.info_index \in Int
  BY <1>1, <1>6, WidthIs
<1>9. f.pb_index \in Int /\ f.pb_data_len \in Int
  BY <1>1, <1>3, <1>5, <1>7, <1>8, WidthIs
<1> QED BY <1>1, <1>2, <1>3, <1>4, <1>5, <1>6, <1>7, <1>8, <1>9

LEMMA ParseIs ==
  ASSUME m_buffer \in Bytes, NEW start \in Int, NEW outside \in Byte,
         Defined(start, outside)
  PROVE  Parse(start, start + GetInt32[<<start + 1, outside>>] - 1, outside)
           \in Seq(Message)
<1> DEFINE f == Layout(start, outside)
           end == start + GetInt32[<<start + 1, outside>>] - 1
<1>1. CASE ~HasInfo(f, end)
  BY <1>1 DEF Parse
<1>2. CASE HasInfo(f, end)
  <2>1. HasId(f, end) /\ HasName(f, end)
    BY <1>2 DEF HasInfo, HasName
  <2>2. /\ f.id_len \in 0..(IdSize - 1) /\ f.name_len \in 0..(NameSize - 1)
        /\ f.info_len \in 0..(InfoSize - 1) /\ f.pb_data_len >= 0
    BY <1>2, <2>1 DEF Defined
  <2>3. /\ f.id_len_index \in Int /\ f.name_len_index \in Int /\ f.code_index \in Int
        /\ f.info_index \in Int /\ f.pb_index \in Int /\ f.pb_data_len \in Int
    <3> HIDE DEF f
    <3>1. f = Layout(start, outside)
      BY DEF f
    <3> QED BY <3>1, LayoutIs
  <2>4. Parse(start, end, outside) =
          <<[msg_id |-> CString(f.id_len_index + Width, f.id_len, outside),
             method_name |-> CString(f.name_len_index + Width, f.name_len, outside),
             err_code |-> GetInt32[<<f.code_index, outside>>],
             err_info |-> CString(f.info_index, f.info_len, outside),
             pb_data |-> Copy(f.pb_index, f.pb_data_len, outside)]>>
    BY <1>2 DEF Parse
  <2> HIDE DEF f, end
  <2>5. /\ f.id_len \in Nat /\ f.name_len \in Nat /\ f.info_len \in Nat
        /\ f.pb_data_len \in Nat
        /\ f.id_len_index + Width \in Int /\ f.name_len_index + Width \in Int
    BY <2>2, <2>3, WidthIs
  <2>6. /\ CString(f.id_len_index + Width, f.id_len, outside) \in Bytes
        /\ CString(f.name_len_index + Width, f.name_len, outside) \in Bytes
        /\ CString(f.info_index, f.info_len, outside) \in Bytes
    BY <2>3, <2>5, CStringIsBytes
  <2>7. Copy(f.pb_index, f.pb_data_len, outside) \in Bytes
    BY <2>3, <2>5, CopyIs
  <2>8. GetInt32[<<f.code_index, outside>>] \in Int
    BY <2>3, GetInt32IsInt
  <2>9. Parse(start, end, outside) \in Seq(Message)
    BY <2>4, <2>6, <2>7, <2>8 DEF Message
  <2> QED BY <2>9 DEF end
<1> QED BY <1>1, <1>2

-----------------------------------------------------------------------------
(* The input buffer: what TcpBufferProofs shows of it.                     *)
BufferProofs == INSTANCE TcpBufferProofs WITH
  Bytes <- Byte, Zero <- 0, InitSize <- BufferSize, MaxPiece <- BufferSize,
  MaxSize <- BufferSize, Roles <- {"in"}, role <- "in"

BufferOK == BufferProofs!BufferInv

LEMMA BufferAssumptions ==
  /\ BufferProofs!BytesAssumption /\ BufferProofs!SizeAssumption
  /\ BufferProofs!RolesAssumption
BY BoundAssumption
   DEF BufferProofs!BytesAssumption, BufferProofs!SizeAssumption,
       BufferProofs!RolesAssumption, Byte

LEMMA BufferInitially == ASSUME Buffer!Init PROVE BufferOK
<1>1. BufferProofs!Init
  BY DEF Buffer!Init, BufferProofs!Init, Buffer!Zeros, BufferProofs!Zeros
<1> QED BY <1>1, BufferAssumptions, BufferProofs!BufferInit DEF BufferOK

LEMMA BufferFilled ==
  ASSUME BufferOK, NEW piece \in Seq(Byte), Len(piece) > 0, Buffer!Fill(piece)
  PROVE  BufferOK'
<1>1. BufferProofs!Fill(piece)
  BY DEF Buffer!Fill, BufferProofs!Fill, Buffer!AdjustWriteIndex,
         BufferProofs!AdjustWriteIndex, Buffer!AdjustBuffer,
         BufferProofs!AdjustBuffer, Buffer!CanWrite, BufferProofs!CanWrite,
         Buffer!CanRead, BufferProofs!CanRead, Buffer!size, BufferProofs!size,
         Buffer!Store, BufferProofs!Store, Buffer!MovedToFront,
         BufferProofs!MovedToFront, Buffer!Between, BufferProofs!Between,
         Buffer!Zeros, BufferProofs!Zeros
<1> QED BY <1>1, BufferAssumptions, BufferProofs!FillKeeps DEF BufferOK

LEMMA BufferTaken ==
  ASSUME BufferOK, NEW n \in Nat, Buffer!AdjustReadIndex(n)
  PROVE  BufferOK'
<1>1. BufferProofs!AdjustReadIndex(n)
  BY DEF Buffer!AdjustReadIndex, BufferProofs!AdjustReadIndex, Buffer!AdjustBuffer,
         BufferProofs!AdjustBuffer, Buffer!CanRead, BufferProofs!CanRead,
         Buffer!size, BufferProofs!size, Buffer!MovedToFront,
         BufferProofs!MovedToFront, Buffer!Between, BufferProofs!Between,
         Buffer!Zeros, BufferProofs!Zeros
<1> QED BY <1>1, BufferAssumptions, BufferProofs!AdjustReadKeeps DEF BufferOK

LEMMA BufferStays == ASSUME BufferOK, UNCHANGED bufferVars PROVE BufferOK'
BY DEF BufferOK, BufferProofs!BufferInv, BufferProofs!TypeOK,
       BufferProofs!IndicesInBounds, BufferProofs!ContentIsExpected,
       BufferProofs!Content, BufferProofs!Blank, BufferProofs!Between

LEMMA BufferIsOK ==
  ASSUME BufferOK
  PROVE  /\ m_buffer \in Seq(Byte) /\ Len(m_buffer) \in Nat
         /\ m_read_index \in Nat /\ m_write_index \in Nat
         /\ m_read_index <= m_write_index /\ m_write_index < Len(m_buffer)
         /\ expected \in Seq(Byte) /\ refused \in BOOLEAN
         /\ refused \/ SubSeq(m_buffer, m_read_index + 1, m_write_index) = expected
         /\ refused \/ \A i \in (m_write_index + 1)..Len(m_buffer) : m_buffer[i] = 0
<1>1. /\ m_buffer \in Seq(Byte) /\ m_read_index \in Nat /\ m_write_index \in Nat
      /\ expected \in Seq(Byte) /\ refused \in BOOLEAN
  BY DEF BufferOK, BufferProofs!BufferInv, BufferProofs!TypeOK
<1>2. m_read_index <= m_write_index /\ m_write_index < Len(m_buffer)
  BY DEF BufferOK, BufferProofs!BufferInv, BufferProofs!IndicesInBounds
<1>3. /\ refused \/ SubSeq(m_buffer, m_read_index + 1, m_write_index) = expected
      /\ refused \/ \A i \in (m_write_index + 1)..Len(m_buffer) : m_buffer[i] = 0
  BY Zenon DEF BufferOK, BufferProofs!BufferInv, BufferProofs!ContentIsExpected,
               BufferProofs!Content, BufferProofs!Blank, BufferProofs!Between
<1>4. Len(m_buffer) \in Nat
  BY <1>1, LenProperties, Zenon
<1> QED BY <1>1, <1>2, <1>3, <1>4

-----------------------------------------------------------------------------
(* Types.                                                                  *)
TypeInv ==
  /\ BufferOK
  /\ wire \in Bytes
  /\ out_messages \in Seq(Message)
  /\ pc \in {"idle", "read", "decode"}
  /\ sent \in Seq(Message)

LEMMA TypeInvTypes == TypeInv => TypeOK
BY BufferIsOK DEF TypeInv, TypeOK, Bytes

LEMMA SentIsMessage ==
  ASSUME NEW m \in Messages
  PROVE  WithId(m) \in Message
<1>1. m \in Message
  BY MessagesAssumption
<1>2. DefaultId \in Bytes
  BY DEF DefaultId, Bytes, Byte
<1> QED BY <1>1, <1>2 DEF WithId, Message

LEMMA CoderTypesStep ==
  ASSUME TypeInv, [Next]_vars
  PROVE  TypeInv'
<1> DEFINE Rest == /\ wire \in Bytes /\ out_messages \in Seq(Message)
                   /\ pc \in {"idle", "read", "decode"} /\ sent \in Seq(Message)
<1>2. Rest /\ BufferOK /\ m_buffer \in Bytes
  BY BufferIsOK DEF TypeInv, Bytes
<1>3. SUFFICES BufferOK' /\ Rest'
  BY DEF TypeInv
<1>4. ASSUME NEW m \in Messages, Send(m) PROVE BufferOK' /\ Rest'
  <2>1. WithId(m) \in Message
    BY SentIsMessage
  <2>2. EncodeProtobuf(WithId(m)) \in Seq(Byte)
    BY <2>1, EncodeIs DEF IsFrame
  <2>3. wire \o EncodeProtobuf(WithId(m)) \in Bytes
    BY <1>2, <2>2, ConcatProperties, Zenon DEF Bytes
  <2>4. Append(sent, WithId(m)) \in Seq(Message)
    BY <1>2, <2>1
  <2>5. BufferOK'
    BY <1>2, <1>4, BufferStays DEF Send
  <2> QED BY <1>2, <1>4, <2>3, <2>4, <2>5 DEF Send
<1>5. ASSUME NEW n \in 1..Len(wire), OnRead(n) PROVE BufferOK' /\ Rest'
  <2>1. wire \in Seq(Byte) /\ n \in Nat /\ n >= 1 /\ n <= Len(wire)
    BY <1>2 DEF Bytes
  <2> DEFINE piece == SubSeq(wire, 1, n)
  <2>2. piece \in Seq(Byte) /\ Len(piece) > 0
    BY <2>1
  <2>3. SubSeq(wire, n + 1, Len(wire)) \in Bytes
    BY <2>1 DEF Bytes
  <2>4. Buffer!Fill(piece)
    BY <1>5 DEF OnRead
  <2> HIDE DEF piece
  <2>5. BufferOK'
    BY <1>2, <2>2, <2>4, BufferFilled
  <2> QED BY <1>2, <1>5, <2>3, <2>5 DEF OnRead
<1>6. CASE Excute
  BY <1>2, <1>6, BufferStays DEF Excute
<1>7. ASSUME NEW outside \in Byte, DecodeFrame(outside) PROVE BufferOK' /\ Rest'
  <2>1. PICK start \in Frames(outside) :
          /\ Defined(start, outside)
          /\ Buffer!AdjustReadIndex(GetInt32[<<start + 1, outside>>])
          /\ out_messages' = out_messages \o
               Parse(start, start + GetInt32[<<start + 1, outside>>] - 1, outside)
    BY <1>7 DEF DecodeFrame, TakeFrame
  <2>2. start \in Int /\ start + 1 \in Int
    BY <1>2, BufferIsOK DEF Frames
  <2>3. GetInt32[<<start + 1, outside>>] \in Nat
    <3>1. GetInt32[<<start + 1, outside>>] \in Int
      BY <1>2, <2>2, GetInt32IsInt
    <3> QED BY <2>1, <3>1 DEF Defined
  <2>4. BufferOK'
    BY <1>2, <2>1, <2>3, BufferTaken
  <2>5. Parse(start, start + GetInt32[<<start + 1, outside>>] - 1, outside) \in Seq(Message)
    BY <1>2, <2>1, <2>2, ParseIs
  <2>6. out_messages' \in Seq(Message)
    BY <1>2, <2>1, <2>5, ConcatProperties, Zenon
  <2> QED BY <1>2, <1>7, <2>4, <2>6 DEF DecodeFrame
<1>8. ASSUME NEW outside, DecodeReturns(outside) PROVE BufferOK' /\ Rest'
  BY <1>2, <1>8, BufferStays DEF DecodeReturns
<1>9. CASE UNCHANGED vars
  BY <1>2, <1>9, BufferStays
<1>10. {0, s_end} \subseteq Byte
  BY DEF Byte, s_end
<1> HIDE DEF Rest
<1> QED BY <1>4, <1>5, <1>6, <1>7, <1>8, <1>9, <1>10 DEF Next, Receiver

LEMMA CoderTypesInvariant == Spec => []TypeInv
<1>1. Init => TypeInv
  <2> SUFFICES ASSUME Init PROVE TypeInv
    OBVIOUS
  <2>1. BufferOK
    BY BufferInitially DEF Init
  <2> QED BY <2>1 DEF Init, TypeInv, Bytes
<1>2. TypeInv /\ [Next]_vars => TypeInv'
  BY CoderTypesStep
<1> QED BY <1>1, <1>2, PTL DEF Spec

(* Whatever the messages hold and however the stream is cut, decode        *)
(* delivers messages, and the indices of the buffer stay in the vector.    *)
THEOREM CoderTypes == Spec => []TypeOK
<1> QED BY TypeInvTypes, CoderTypesInvariant, PTL

-----------------------------------------------------------------------------
(* A stream that begins with e, of which c has arrived and w has not.      *)
LEMMA Arrived ==
  ASSUME NEW c \in Seq(Byte), NEW w \in Seq(Byte), NEW e \in Seq(Byte),
         NEW r \in Seq(Byte), c \o w = e \o r
  PROVE  \A i \in 1..Len(c) : i <= Len(e) => c[i] = e[i]
<1>1. /\ c \o w \in Seq(Byte) /\ Len(c \o w) = Len(c) + Len(w)
      /\ \A i \in 1..(Len(c) + Len(w)) :
           (c \o w)[i] = IF i <= Len(c) THEN c[i] ELSE w[i - Len(c)]
  BY ConcatProperties, Zenon
<1>2. /\ e \o r \in Seq(Byte) /\ Len(e \o r) = Len(e) + Len(r)
      /\ \A i \in 1..(Len(e) + Len(r)) :
           (e \o r)[i] = IF i <= Len(e) THEN e[i] ELSE r[i - Len(e)]
  BY ConcatProperties, Zenon
<1>3. Len(c) \in Nat /\ Len(w) \in Nat /\ Len(e) \in Nat /\ Len(r) \in Nat
  OBVIOUS
<1> DEFINE x == c \o w
           y == e \o r
<1>4. /\ x = y
      /\ \A i \in 1..(Len(c) + Len(w)) :
           x[i] = IF i <= Len(c) THEN c[i] ELSE w[i - Len(c)]
      /\ \A i \in 1..(Len(e) + Len(r)) :
           y[i] = IF i <= Len(e) THEN e[i] ELSE r[i - Len(e)]
  BY <1>1, <1>2
<1> HIDE DEF x, y
<1> SUFFICES ASSUME NEW i \in 1..Len(c), i <= Len(e) PROVE c[i] = e[i]
  OBVIOUS
<1>5. i \in 1..(Len(c) + Len(w)) /\ i <= Len(c) /\ i \in 1..(Len(e) + Len(r))
  BY <1>3
<1> QED BY <1>4, <1>5

LEMMA Assoc ==
  ASSUME NEW f \in Seq(Byte), NEW g \in Seq(Byte), NEW h \in Seq(Byte)
  PROVE  (f \o g) \o h = f \o (g \o h)
BY ConcatAssociative

LEMMA Rejoined ==
  ASSUME NEW c \in Seq(Byte), NEW w \in Seq(Byte), NEW l \in Nat, l <= Len(c)
  PROVE  SubSeq(c, 1, l) \o (SubSeq(c, l + 1, Len(c)) \o w) = c \o w
<1> DEFINE s == SubSeq(c, 1, l)
           t == SubSeq(c, l + 1, Len(c))
<1>1. s \o t = c
  <2>1. 1 \in 1..(Len(c) + 1) /\ l \in (1 - 1)..Len(c) /\ Len(c) \in l..Len(c)
    OBVIOUS
  <2>2. s \o t = SubSeq(c, 1, Len(c))
    BY <2>1, ConcatAdjacentSubSeq
  <2> QED BY <2>2, SubSeqFull
<1>2. s \in Seq(Byte)
  OBVIOUS
<1>3. t \in Seq(Byte)
  OBVIOUS
<1> HIDE DEF s, t
<1>4. (s \o t) \o w = s \o (t \o w)
  BY ONLY <1>2, <1>3, Assoc
<1>5. s \o (t \o w) = c \o w
  BY <1>1, <1>4
<1> QED BY <1>5 DEF s, t

LEMMA Consumed ==
  ASSUME NEW c \in Seq(Byte), NEW w \in Seq(Byte), NEW e \in Seq(Byte),
         NEW r \in Seq(Byte), c \o w = e \o r, Len(e) <= Len(c)
  PROVE  SubSeq(c, Len(e) + 1, Len(c)) \o w = r
<1> DEFINE l == Len(e)
           s == SubSeq(c, 1, l)
           t == SubSeq(c, l + 1, Len(c))
<1>1. l \in Nat /\ Len(c) \in Nat /\ l <= Len(c)
  OBVIOUS
<1>2. s \in Seq(Byte) /\ Len(s) = l /\ (\A i \in 1..l : s[i] = c[i]) /\ t \in Seq(Byte)
  BY <1>1
<1>3. s = e
  <2>1. \A i \in 1..Len(s) : s[i] = e[i]
    BY <1>1, <1>2, Arrived
  <2> HIDE DEF s
  <2> QED BY <1>2, <2>1, SeqEqual
<1>4. s \o (t \o w) = c \o w
  BY <1>1, Rejoined
<1> HIDE DEF s, t
<1>5. e \o (t \o w) = e \o r
  BY <1>3, <1>4
<1>6. t \o w \in Seq(Byte)
  BY <1>2, ConcatProperties
<1>7. t \o w = r
  BY <1>5, <1>6, ConcatSimplifications
<1> QED BY <1>7 DEF t

(* The content of the buffer seen through its indices.                     *)
LEMMA SeenThrough ==
  ASSUME BufferOK, ~refused, NEW outside \in Byte
  PROVE  /\ Len(expected) = m_write_index - m_read_index
         /\ \A i \in 1..Len(expected) : At(m_read_index + i - 1, outside) = expected[i]
         /\ \A k \in Nat : k >= m_write_index => At(k, outside) \in {0, outside}
         /\ At(m_write_index, outside) = 0
<1>1. /\ m_buffer \in Seq(Byte) /\ Len(m_buffer) \in Nat
      /\ m_read_index \in Nat /\ m_write_index \in Nat
      /\ m_read_index <= m_write_index /\ m_write_index < Len(m_buffer)
      /\ SubSeq(m_buffer, m_read_index + 1, m_write_index) = expected
      /\ \A i \in (m_write_index + 1)..Len(m_buffer) : m_buffer[i] = 0
  BY BufferIsOK
<1>2. /\ Len(expected) = m_write_index - m_read_index
      /\ \A i \in 1..Len(expected) : expected[i] = m_buffer[m_read_index + i]
  BY <1>1
<1>3. ASSUME NEW i \in 1..Len(expected)
      PROVE  At(m_read_index + i - 1, outside) = expected[i]
  <2>1. /\ m_read_index + i - 1 \in 0..(Len(m_buffer) - 1)
        /\ (m_read_index + i - 1) + 1 = m_read_index + i
    BY <1>1, <1>2
  <2> QED BY <1>2, <2>1 DEF At
<1>4. ASSUME NEW k \in Nat, k >= m_write_index PROVE At(k, outside) \in {0, outside}
  <2>1. CASE k < Len(m_buffer)
    <3>1. k \in 0..(Len(m_buffer) - 1) /\ k + 1 \in (m_write_index + 1)..Len(m_buffer)
      BY <1>1, <1>4, <2>1
    <3> QED BY <1>1, <3>1 DEF At
  <2>2. CASE ~(k < Len(m_buffer))
    BY <1>1, <2>2 DEF At
  <2> QED BY <2>1, <2>2
<1>5. At(m_write_index, outside) = 0
  <2>1. /\ m_write_index \in 0..(Len(m_buffer) - 1)
        /\ m_write_index + 1 \in (m_write_index + 1)..Len(m_buffer)
    BY <1>1
  <2> QED BY <1>1, <2>1 DEF At
<1> QED BY <1>2, <1>3, <1>4, <1>5

(* A number, a field and a text that have arrived whole.                   *)
Sees(start, e, outside) == \A i \in 1..Len(e) : At(start + i - 1, outside) = e[i]

LEMMA NumberSeen ==
  ASSUME NEW start \in Nat, NEW outside \in Byte, NEW e \in Seq(Byte),
         Sees(start, e, outside), NEW k \in Nat, NEW n \in Int, Fits(n),
         Holds(e, k, Int32(n))
  PROVE  GetInt32[<<start + k, outside>>] = n
<1> DEFINE b == [d \in 1..Width |-> At(start + k + d - 1, outside)]
<1>1. /\ Int32(n) \in Seq(Byte) /\ Len(Int32(n)) = Width
      /\ Width \in Nat /\ Len(e) \in Nat
  BY Int32Is, WidthIs
<1>2. ASSUME NEW d \in 1..Width PROVE Int32(n)[d] \in Byte /\ b[d] = Int32(n)[d]
  <2>1. k + d \in 1..Len(e) /\ d \in Nat /\ d \in 1..Len(Int32(n))
    BY <1>1 DEF Holds
  <2>2. At(start + (k + d) - 1, outside) = e[k + d] /\ e[k + d] = Int32(n)[d]
    BY <2>1 DEF Sees, Holds
  <2>3. start + (k + d) - 1 = start + k + d - 1
    BY <2>1
  <2>4. Int32(n)[d] \in Byte
    BY <1>1
  <2> QED BY <2>2, <2>3, <2>4
<1>3. Number(b) = Number(Int32(n))
  <2> HIDE DEF b
  <2> QED BY <1>2, SameNumber
<1>4. GetInt32[<<start + k, outside>>] = Number(b)
  BY GetInt32Is
<1> QED BY <1>3, <1>4, NumberOfInt32

LEMMA FieldSeen ==
  ASSUME m_buffer \in Bytes, NEW start \in Nat, NEW outside \in Byte, NEW e \in Seq(Byte),
         Sees(start, e, outside), NEW k \in Nat, NEW x \in Seq(Byte), Holds(e, k, x)
  PROVE  /\ Copy(start + k, Len(x), outside) = x
         /\ (\A i \in 1..Len(x) : x[i] # 0) => CString(start + k, Len(x), outside) = x
<1>1. Len(x) \in Nat /\ Len(e) \in Nat /\ start + k \in Int
  OBVIOUS
<1>2. ASSUME NEW i \in 1..Len(x) PROVE At(start + k + i - 1, outside) = x[i]
  <2>1. k + i \in 1..Len(e) /\ i \in Nat
    BY <1>1 DEF Holds
  <2>2. At(start + (k + i) - 1, outside) = e[k + i] /\ e[k + i] = x[i]
    BY <2>1 DEF Sees, Holds
  <2>3. start + (k + i) - 1 = start + k + i - 1
    BY <2>1
  <2> QED BY <2>2, <2>3
<1> DEFINE c == Copy(start + k, Len(x), outside)
<1>3. c = x
  <2>1. /\ c \in Seq(Byte) /\ Len(c) = Len(x)
        /\ \A i \in 1..Len(x) : c[i] = At(start + k + i - 1, outside)
    BY <1>1, CopyIs DEF Bytes
  <2> HIDE DEF c
  <2>2. \A i \in 1..Len(c) : c[i] = x[i]
    BY <1>2, <2>1
  <2> QED BY <2>1, <2>2, SeqEqual
<1>4. ASSUME \A i \in 1..Len(x) : x[i] # 0
      PROVE  CString(start + k, Len(x), outside) = x
  <2>1. PICK end \in 0..Len(x) :
          /\ CString(start + k, Len(x), outside) = Copy(start + k, end, outside)
          /\ end = Len(x) \/ At(start + k + end, outside) = 0
    <3> DEFINE a == start + k
    <3>1. a \in Int
      BY <1>1
    <3> HIDE DEF a
    <3>2. Len(x) \in Nat
      BY <1>1
    <3>3. \E end \in 0..Len(x) :
            /\ CString(a, Len(x), outside) = Copy(a, end, outside)
            /\ end = Len(x) \/ At(a + end, outside) = 0
            /\ \A j \in 0..(end - 1) : At(a + j, outside) # 0
      BY <3>1, <3>2, CStringIs
    <3> QED BY <3>3 DEF a
  <2>2. end = Len(x)
    <3> SUFFICES ASSUME end # Len(x) PROVE FALSE
      OBVIOUS
    <3>1. end + 1 \in 1..Len(x) /\ start + k + (end + 1) - 1 = start + k + end
      BY <1>1
    <3>2. At(start + k + (end + 1) - 1, outside) = x[end + 1]
      BY <1>2, <3>1
    <3>3. x[end + 1] # 0
      BY <1>4, <3>1
    <3> QED BY <2>1, <3>1, <3>2, <3>3
  <2> QED BY <1>3, <2>1, <2>2
<1> QED BY <1>3, <1>4

-----------------------------------------------------------------------------
(* A frame that has arrived whole is parsed to its message.                *)

(* What encode_protubuf is able to encode.                                 *)
Encodable(m) == m \in Message /\ Fits(PkLen(m)) /\ Fits(m.err_code)

LEMMA LengthsFit ==
  ASSUME NEW m, Encodable(m)
  PROVE  /\ Fits(Len(m.msg_id)) /\ Fits(Len(m.method_name)) /\ Fits(Len(m.err_info))
         /\ Len(m.msg_id) \in Nat /\ Len(m.method_name) \in Nat
         /\ Len(m.err_info) \in Nat /\ Len(m.pb_data) \in Nat
         /\ PkLen(m) \in Nat
         /\ PkLen(m) = 2 + 6 * Width + Len(m.msg_id) + Len(m.method_name)
                         + Len(m.err_info) + Len(m.pb_data)
<1>1. /\ Len(m.msg_id) \in Nat /\ Len(m.method_name) \in Nat
      /\ Len(m.err_info) \in Nat /\ Len(m.pb_data) \in Nat /\ PkLen(m) \in Nat
      /\ Fits(PkLen(m))
  BY MessageIs DEF Encodable
<1>2. PkLen(m) = 2 + 6 * Width + Len(m.msg_id) + Len(m.method_name)
                   + Len(m.err_info) + Len(m.pb_data)
  BY DEF PkLen
<1>3. /\ Len(m.msg_id) <= PkLen(m) /\ Len(m.method_name) <= PkLen(m)
      /\ Len(m.err_info) <= PkLen(m)
  <2>1. \A a, b, c, d \in Nat : /\ a <= 2 + 6 * Width + a + b + c + d
                               /\ b <= 2 + 6 * Width + a + b + c + d
                               /\ c <= 2 + 6 * Width + a + b + c + d
    BY WidthIs
  <2> DEFINE a == Len(m.msg_id)
             b == Len(m.method_name)
             c == Len(m.err_info)
             d == Len(m.pb_data)
  <2>2. a \in Nat /\ b \in Nat /\ c \in Nat /\ d \in Nat
    BY <1>1
  <2>3. PkLen(m) = 2 + 6 * Width + a + b + c + d
    BY <1>2
  <2> HIDE DEF a, b, c, d
  <2>4. a <= PkLen(m) /\ b <= PkLen(m) /\ c <= PkLen(m)
    BY <2>1, <2>2, <2>3
  <2> QED BY <2>4 DEF a, b, c
<1> QED BY <1>1, <1>2, <1>3, FitsBelow

LEMMA WholeFrame ==
  ASSUME m_buffer \in Bytes, NEW start \in Nat, NEW outside \in Byte,
         NEW m, Encodable(m), NEW e, IsFrame(e, m), Sees(start, e, outside),
         IsText(m.msg_id, IdSize), IsText(m.method_name, NameSize),
         IsText(m.err_info, InfoSize)
  PROVE  /\ GetInt32[<<start + 1, outside>>] = PkLen(m)
         /\ Defined(start, outside)
         /\ Parse(start, start + PkLen(m) - 1, outside) = <<m>>
<1> DEFINE i == Len(m.msg_id)
           n == Len(m.method_name)
           k == Len(m.err_info)
           d == Len(m.pb_data)
           f == Layout(start, outside)
           end == start + PkLen(m) - 1
<1>1. /\ Fits(i) /\ Fits(n) /\ Fits(k) /\ i \in Nat /\ n \in Nat /\ k \in Nat /\ d \in Nat
      /\ PkLen(m) \in Nat /\ PkLen(m) = 2 + 6 * Width + i + n + k + d
      /\ Fits(PkLen(m)) /\ Fits(m.err_code) /\ m \in Message
  BY LengthsFit DEF Encodable
<1>2. /\ e \in Seq(Byte)
      /\ Holds(e, 1, Int32(PkLen(m)))
      /\ Holds(e, 1 + Width, Int32(i))
      /\ Holds(e, IdAt, m.msg_id)
      /\ Holds(e, NameAt(m) - Width, Int32(n))
      /\ Holds(e, NameAt(m), m.method_name)
      /\ Holds(e, CodeAt(m), Int32(m.err_code))
      /\ Holds(e, CodeAt(m) + Width, Int32(k))
      /\ Holds(e, InfoAt(m), m.err_info)
      /\ Holds(e, DataAt(m), m.pb_data)
  BY DEF IsFrame
<1>3. /\ IdAt = 1 + 2 * Width /\ NameAt(m) = 1 + 3 * Width + i
      /\ CodeAt(m) = 1 + 3 * Width + i + n /\ InfoAt(m) = 1 + 5 * Width + i + n
      /\ DataAt(m) = 1 + 5 * Width + i + n + k
  <2>1. /\ IdAt = 1 + 2 * Width /\ NameAt(m) = 1 + 3 * Width + i
        /\ CodeAt(m) = NameAt(m) + n /\ InfoAt(m) = CodeAt(m) + 2 * Width
        /\ DataAt(m) = InfoAt(m) + k
    BY DEF IdAt, NameAt, CodeAt, InfoAt, DataAt
  <2> HIDE DEF i, n, k, d
  <2> QED BY <1>1, <2>1, WidthIs
<1>4. /\ m.msg_id \in Seq(Byte) /\ m.method_name \in Seq(Byte)
      /\ m.err_info \in Seq(Byte) /\ m.pb_data \in Seq(Byte) /\ m.err_code \in Int
  BY <1>1, MessageIs
<1>5. /\ f.id_len_index = start + 1 + Width
      /\ f.id_len = GetInt32[<<f.id_len_index, outside>>]
      /\ f.name_len_index = f.id_len_index + Width + f.id_len
      /\ f.name_len = GetInt32[<<f.name_len_index, outside>>]
      /\ f.code_index = f.name_len_index + Width + f.name_len
      /\ f.info_index = f.code_index + 2 * Width
      /\ f.info_len = GetInt32[<<f.code_index + Width, outside>>]
      /\ f.pb_index = f.info_index + f.info_len
      /\ f.pb_data_len = GetInt32[<<start + 1, outside>>]
                           - f.name_len - f.id_len - f.info_len - 2 - 6 * Width
  <2> HIDE DEF f
  <2>1. f = Layout(start, outside) /\ start \in Int
    BY DEF f
  <2> QED BY <2>1, LayoutIs
<1> HIDE DEF i, n, k, d, f, end
<1>6. GetInt32[<<start + 1, outside>>] = PkLen(m)
  BY <1>1, <1>2, NumberSeen
<1>7. f.id_len_index = start + (1 + Width) /\ f.id_len = i
  <2>1. GetInt32[<<start + (1 + Width), outside>>] = i
    <3>1. 1 + Width \in Nat /\ i \in Int
      BY <1>1, WidthIs
    <3> QED BY <1>1, <1>2, <3>1, NumberSeen
  <2>2. f.id_len_index = start + (1 + Width)
    BY <1>5, WidthIs
  <2> QED BY <1>5, <2>1, <2>2
<1>8. f.name_len_index = start + (NameAt(m) - Width) /\ f.name_len = n
  <2>1. GetInt32[<<start + (NameAt(m) - Width), outside>>] = n
    <3>1. NameAt(m) - Width \in Nat /\ n \in Int
      BY <1>1, <1>3, WidthIs
    <3> QED BY <1>1, <1>2, <3>1, NumberSeen
  <2>2. f.name_len_index = start + (NameAt(m) - Width)
    BY <1>1, <1>3, <1>5, <1>7, WidthIs
  <2> QED BY <1>5, <2>1, <2>2
<1>9. f.code_index = start + CodeAt(m)
  BY <1>1, <1>3, <1>5, <1>8, WidthIs
<1>10. GetInt32[<<f.code_index, outside>>] = m.err_code
  <2>1. CodeAt(m) \in Nat
    BY <1>1, <1>3, WidthIs
  <2>2. m.err_code \in Int
    BY <1>4
  <2>3. GetInt32[<<start + CodeAt(m), outside>>] = m.err_code
    BY <1>1, <1>2, <2>1, <2>2, NumberSeen
  <2> QED BY <1>9, <2>3
<1>11. f.info_len = k
  <2>1. GetInt32[<<start + (CodeAt(m) + Width), outside>>] = k
    <3>1. CodeAt(m) + Width \in Nat /\ k \in Int
      BY <1>1, <1>3, WidthIs
    <3> QED BY <1>1, <1>2, <3>1, NumberSeen
  <2>2. f.code_index + Width = start + (CodeAt(m) + Width)
    BY <1>1, <1>3, <1>9, WidthIs
  <2> QED BY <1>5, <2>1, <2>2
<1>12. f.info_index = start + InfoAt(m) /\ f.pb_index = start + DataAt(m)
  BY <1>1, <1>3, <1>5, <1>9, <1>11, WidthIs
<1>13. f.pb_data_len = d
  BY <1>1, <1>5, <1>6, <1>7, <1>8, <1>11, WidthIs
<1>14. /\ i \in 0..(IdSize - 1) /\ n \in 0..(NameSize - 1) /\ k \in 0..(InfoSize - 1)
       /\ \A j \in 1..Len(m.msg_id) : m.msg_id[j] # 0
       /\ \A j \in 1..Len(m.method_name) : m.method_name[j] # 0
       /\ \A j \in 1..Len(m.err_info) : m.err_info[j] # 0
  <2>1. i < 100 /\ n < 512 /\ k < 512
    BY DEF IsText, IdSize, NameSize, InfoSize, i, n, k
  <2>2. /\ \A j \in 1..Len(m.msg_id) : m.msg_id[j] # 0
        /\ \A j \in 1..Len(m.method_name) : m.method_name[j] # 0
        /\ \A j \in 1..Len(m.err_info) : m.err_info[j] # 0
    BY DEF IsText
  <2>3. i \in 0..(IdSize - 1) /\ n \in 0..(NameSize - 1) /\ k \in 0..(InfoSize - 1)
    BY <1>1, <2>1 DEF IdSize, NameSize, InfoSize
  <2> QED BY <2>2, <2>3
<1>15. Defined(start, outside)
  BY <1>1, <1>6, <1>7, <1>8, <1>11, <1>13, <1>14 DEF Defined, f
<1>16. HasInfo(f, end)
  <2>1. /\ f.id_len_index < end /\ f.name_len_index < end /\ f.code_index < end
        /\ f.code_index + Width < end
    BY <1>1, <1>3, <1>7, <1>8, <1>9, WidthIs DEF end
  <2> QED BY <2>1 DEF HasInfo, HasName, HasId
<1>17. Parse(start, end, outside) =
          <<[msg_id |-> CString(f.id_len_index + Width, f.id_len, outside),
             method_name |-> CString(f.name_len_index + Width, f.name_len, outside),
             err_code |-> GetInt32[<<f.code_index, outside>>],
             err_info |-> CString(f.info_index, f.info_len, outside),
             pb_data |-> Copy(f.pb_index, f.pb_data_len, outside)]>>
  BY <1>16 DEF Parse, f
<1>18. CString(f.id_len_index + Width, f.id_len, outside) = m.msg_id
  <2>1. f.id_len_index + Width = start + IdAt /\ IdAt \in Nat
    BY <1>3, <1>7, WidthIs
  <2>2. CString(start + IdAt, Len(m.msg_id), outside) = m.msg_id
    <3> DEFINE x == m.msg_id
               a == IdAt
    <3>1. /\ a \in Nat /\ x \in Seq(Byte) /\ Holds(e, a, x)
          /\ \A j \in 1..Len(x) : x[j] # 0
      BY <1>2, <1>4, <1>14, <2>1
    <3> HIDE DEF x, a
    <3>2. CString(start + a, Len(x), outside) = x
      BY <1>2, <3>1, FieldSeen
    <3> QED BY <3>2 DEF x, a
  <2> QED BY <1>7, <2>1, <2>2 DEF i
<1>19. CString(f.name_len_index + Width, f.name_len, outside) = m.method_name
  <2>1. f.name_len_index + Width = start + NameAt(m) /\ NameAt(m) \in Nat
    BY <1>1, <1>3, <1>8, WidthIs
  <2>2. CString(start + NameAt(m), Len(m.method_name), outside) = m.method_name
    <3> DEFINE x == m.method_name
               a == NameAt(m)
    <3>1. /\ a \in Nat /\ x \in Seq(Byte) /\ Holds(e, a, x)
          /\ \A j \in 1..Len(x) : x[j] # 0
      BY <1>2, <1>4, <1>14, <2>1
    <3> HIDE DEF x, a
    <3>2. CString(start + a, Len(x), outside) = x
      BY <1>2, <3>1, FieldSeen
    <3> QED BY <3>2 DEF x, a
  <2> QED BY <1>8, <2>1, <2>2 DEF n
<1>20. CString(f.info_index, f.info_len, outside) = m.err_info
  <2>1. InfoAt(m) \in Nat
    BY <1>1, <1>3, WidthIs
  <2>2. CString(start + InfoAt(m), Len(m.err_info), outside) = m.err_info
    <3> DEFINE x == m.err_info
               a == InfoAt(m)
    <3>1. /\ a \in Nat /\ x \in Seq(Byte) /\ Holds(e, a, x)
          /\ \A j \in 1..Len(x) : x[j] # 0
      BY <1>2, <1>4, <1>14, <2>1
    <3> HIDE DEF x, a
    <3>2. CString(start + a, Len(x), outside) = x
      BY <1>2, <3>1, FieldSeen
    <3> QED BY <3>2 DEF x, a
  <2> QED BY <1>11, <1>12, <2>2 DEF k
<1>21. Copy(f.pb_index, f.pb_data_len, outside) = m.pb_data
  <2>1. DataAt(m) \in Nat
    BY <1>1, <1>3, WidthIs
  <2>2. Copy(start + DataAt(m), Len(m.pb_data), outside) = m.pb_data
    BY <1>2, <1>4, <2>1, FieldSeen
  <2> QED BY <1>12, <1>13, <2>2 DEF d
<1>22. m = [msg_id |-> m.msg_id, method_name |-> m.method_name, err_code |-> m.err_code,
            err_info |-> m.err_info, pb_data |-> m.pb_data]
  BY <1>1 DEF Message
<1>23. Parse(start, end, outside) = <<m>>
  BY <1>10, <1>17, <1>18, <1>19, <1>20, <1>21, <1>22
<1> QED BY <1>6, <1>15, <1>23 DEF end

-----------------------------------------------------------------------------
(* The first frame that decode finds, while only a beginning of the next   *)
(* message's frame e has arrived or all of it has.                         *)

(* A length is not negative.                                               *)
LEMMA TopByte ==
  ASSUME NEW n \in Nat, Fits(n)
  PROVE  Int32(n)[1] < 128
<1>1. Width \in Nat /\ 1 \in 1..Width /\ Width - 1 \in 0..Width /\ Width - 1 \in Nat
  BY WidthIs
<1> DEFINE q == Shifted(n)
<1>2. /\ q \in [0..Width -> Int] /\ q[0] = n
      /\ \A d \in 1..Width : q[d] = q[d - 1] \div 256
  BY ShiftedIs
<1>3. Int32(n)[1] = q[Width - 1] % 256 /\ q[Width - 1] \in -128..127
  BY <1>1, Int32Is DEF Fits
<1> HIDE DEF q
<1> DEFINE S == {d \in 0..Width : q[d] >= 0}
<1>4. S = 0..Width
  <2>1. S \subseteq 0..Width /\ 0 \in S
    BY <1>1, <1>2
  <2>2. \A d \in 1..Width : d - 1 \in S => d \in S
    <3> SUFFICES ASSUME NEW d \in 1..Width, q[d - 1] >= 0 PROVE q[d] >= 0
      OBVIOUS
    <3>1. d - 1 \in 0..Width
      BY <1>1
    <3>2. q[d - 1] \in Int
      BY <1>2, <3>1
    <3> QED BY <1>2, <3>2
  <2> HIDE DEF S
  <2> QED BY <1>1, <2>1, <2>2, Upwards
<1>5. q[Width - 1] >= 0
  <2>1. Width - 1 \in S
    <3> HIDE DEF S
    <3> QED BY <1>1, <1>4
  <2> QED BY <2>1
<1>6. q[Width - 1] \in 0..127
  <2>1. \A y \in -128..127 : y >= 0 => y \in 0..127
    OBVIOUS
  <2> QED BY <1>3, <1>5, <2>1
<1>7. \A y \in 0..127 : y % 256 < 128
  OBVIOUS
<1> QED BY <1>3, <1>6, <1>7

(* Every byte of the number at start + 1 that decode reads.                *)
Digits(start, outside) == [d \in 1..Width |-> At(start + 1 + d - 1, outside)]

LEMMA DigitsAre ==
  ASSUME BufferOK, NEW start \in Nat, NEW outside \in Byte
  PROVE  /\ GetInt32[<<start + 1, outside>>] = Number(Digits(start, outside))
         /\ \A d \in 1..Width : /\ Digits(start, outside)[d] \in Byte
                                /\ Digits(start, outside)[d] = At(start + d, outside)
<1>1. start + 1 \in Int /\ m_buffer \in Bytes
  BY BufferIsOK DEF Bytes
<1>2. ASSUME NEW d \in 1..Width
      PROVE  /\ Digits(start, outside)[d] \in Byte
             /\ Digits(start, outside)[d] = At(start + d, outside)
  <2>1. start + 1 + d - 1 = start + d /\ start + d \in Int
    OBVIOUS
  <2>2. Digits(start, outside)[d] = At(start + d, outside)
    BY <2>1 DEF Digits
  <2> QED BY <1>1, <2>1, <2>2, AtIsByte
<1>3. GetInt32[<<start + 1, outside>>] = Number(Digits(start, outside))
  BY <1>1, GetInt32Is DEF Digits
<1> QED BY <1>2, <1>3

(* The frame whose beginning is in the buffer.                             *)
Pending(m, e) ==
  /\ Encodable(m) /\ Decodable(m) /\ e = EncodeProtobuf(m)
  /\ \A i \in 1..Len(expected) : i <= Len(e) => expected[i] = e[i]

LEMMA PendingIs ==
  ASSUME NEW m, NEW e, Pending(m, e)
  PROVE  /\ IsFrame(e, m) /\ e \in Seq(Byte) /\ Len(e) = PkLen(m) /\ Len(e) \in Nat
         /\ Len(e) >= 8 /\ e[1] = s_start /\ e[Len(e)] = s_end
         /\ Holds(e, 1, Int32(Len(e))) /\ Fits(Len(e))
         /\ \A i \in 1..Len(expected) : i <= Len(e) => expected[i] = e[i]
<1>1. IsFrame(e, m) /\ PkLen(m) \in Nat /\ PkLen(m) >= 8 /\ Fits(PkLen(m))
  BY EncodeIs, MessageIs DEF Pending, Encodable
<1> QED BY <1>1 DEF IsFrame, Pending

LEMMA WholeFrameFound ==
  ASSUME BufferOK, ~refused, NEW outside \in Byte, NEW m, NEW e, Pending(m, e),
         Len(e) <= Len(expected)
  PROVE  /\ m_read_index \in Frames(outside)
         /\ GetInt32[<<m_read_index + 1, outside>>] = Len(e)
         /\ Defined(m_read_index, outside)
         /\ Parse(m_read_index, m_read_index + Len(e) - 1, outside) = <<m>>
<1>1. /\ m_buffer \in Bytes /\ m_read_index \in Nat /\ m_write_index \in Nat
      /\ expected \in Seq(Byte) /\ Len(expected) \in Nat
      /\ Len(expected) = m_write_index - m_read_index
      /\ \A i \in 1..Len(expected) : At(m_read_index + i - 1, outside) = expected[i]
  BY BufferIsOK, SeenThrough DEF Bytes
<1>2. /\ IsFrame(e, m) /\ e \in Seq(Byte) /\ Len(e) = PkLen(m) /\ Len(e) \in Nat
      /\ Len(e) >= 8 /\ e[1] = s_start /\ e[Len(e)] = s_end
      /\ \A i \in 1..Len(expected) : i <= Len(e) => expected[i] = e[i]
  BY PendingIs
<1>3. Sees(m_read_index, e, outside)
  <2> SUFFICES ASSUME NEW i \in 1..Len(e)
               PROVE  At(m_read_index + i - 1, outside) = e[i]
    BY DEF Sees
  <2>1. i \in 1..Len(expected) /\ i <= Len(e)
    BY <1>1, <1>2
  <2> QED BY <1>1, <1>2, <2>1
<1>4. Encodable(m) /\ Decodable(m)
  BY DEF Pending
<1>5. /\ GetInt32[<<m_read_index + 1, outside>>] = PkLen(m)
      /\ Defined(m_read_index, outside)
      /\ Parse(m_read_index, m_read_index + PkLen(m) - 1, outside) = <<m>>
  BY <1>1, <1>2, <1>3, <1>4, WholeFrame DEF Decodable
<1>6. At(m_read_index, outside) = s_start
  <2>1. At(m_read_index + 1 - 1, outside) = e[1] /\ m_read_index + 1 - 1 = m_read_index
    BY <1>1, <1>2, <1>3 DEF Sees
  <2> QED BY <1>2, <2>1
<1>7. At(m_read_index + Len(e) - 1, outside) = s_end
  BY <1>2, <1>3 DEF Sees
<1>8. /\ m_read_index + 1 < m_write_index
      /\ m_read_index + Len(e) - 1 < m_write_index
      /\ m_read_index \in m_read_index..(m_write_index - 1)
  BY <1>1, <1>2
<1>9. FrameAt(m_read_index, outside)
  BY <1>2, <1>5, <1>6, <1>7, <1>8 DEF FrameAt
<1> QED BY <1>2, <1>5, <1>8, <1>9 DEF Frames

(* What a frame start is followed by, when less than the frame is there.   *)
LEMMA NoOtherFrame ==
  ASSUME BufferOK, ~refused, NEW outside \in {0, s_end}, NEW m, NEW e, Pending(m, e),
         Len(expected) < Len(e), NEW start \in Frames(outside)
  PROVE  GetInt32[<<start + 1, outside>>] = 0
<1> DEFINE p == start - m_read_index
           C == Len(expected)
           L == Len(e)
           num == GetInt32[<<start + 1, outside>>]
           b == Digits(start, outside)
<1>1. outside \in Byte
  BY DEF Byte, s_end
<1>2. /\ m_buffer \in Bytes /\ m_read_index \in Nat /\ m_write_index \in Nat
      /\ expected \in Seq(Byte) /\ C \in Nat
      /\ C = m_write_index - m_read_index
      /\ \A i \in 1..C : At(m_read_index + i - 1, outside) = expected[i]
      /\ \A k \in Nat : k >= m_write_index => At(k, outside) \in {0, outside}
  BY <1>1, BufferIsOK, SeenThrough DEF Bytes
<1>3. /\ e \in Seq(Byte) /\ L \in Nat /\ L >= 8 /\ e[1] = s_start /\ e[L] = s_end
      /\ Holds(e, 1, Int32(L)) /\ Fits(L)
      /\ \A i \in 1..C : i <= L => expected[i] = e[i]
  BY PendingIs
<1>4. HoldsNoFrame(e)
  BY DEF Pending, Decodable
<1>5. start \in Nat /\ p \in Nat /\ p < C /\ start = m_read_index + p
  BY <1>2 DEF Frames
<1>6. num = Number(b) /\ \A d \in 1..Width : b[d] \in Byte /\ b[d] = At(start + d, outside)
  BY <1>1, <1>5, DigitsAre
<1>7. /\ At(start, outside) = s_start /\ start + 1 < m_write_index
      /\ start + num - 1 < m_write_index /\ At(start + num - 1, outside) = s_end
  BY DEF Frames, FrameAt
<1>8. Width \in Nat /\ 1 <= Width /\ Width <= 4 /\ 1 \in 1..Width /\ Width \in 1..Width
  BY WidthIs
<1>9. C < L
  OBVIOUS
<1> HIDE DEF p, C, L, num, b
<1>10. \A i \in 1..C : At(m_read_index + i - 1, outside) = e[i]
  BY <1>2, <1>3, <1>9
<1>11. e[p + 1] = s_start /\ p + 2 <= C
  <2>1. p + 1 \in 1..C /\ m_read_index + (p + 1) - 1 = start
    BY <1>2, <1>5
  <2> QED BY <1>2, <1>5, <1>7, <1>10, <2>1
<1>12. \A d \in 1..Width : p + 1 + d <= C => b[d] = e[p + 1 + d]
  <2> SUFFICES ASSUME NEW d \in 1..Width, p + 1 + d <= C PROVE b[d] = e[p + 1 + d]
    OBVIOUS
  <2>1. p + 1 + d \in 1..C /\ m_read_index + (p + 1 + d) - 1 = start + d
    BY <1>2, <1>5, <1>8
  <2> QED BY <1>6, <1>10, <2>1
<1>13. p # 0 => p + 1 \in 2..(L - 1) /\ (p + 1) + 1 = p + 2
  BY <1>2, <1>3, <1>5, <1>9, <1>11
<1>14. b[1] < 128
  <2>1. b[1] = e[p + 2]
    <3>1. p + 1 + 1 = p + 2
      BY <1>5
    <3> QED BY <1>8, <1>11, <1>12, <3>1
  <2>2. CASE p = 0
    <3>1. 1 \in 1..Len(Int32(L)) /\ 1 + 1 = p + 2
      BY <1>3, <1>8, <2>2, Int32Is
    <3>2. e[p + 2] = Int32(L)[1]
      BY <1>3, <3>1 DEF Holds
    <3> QED BY <1>3, <2>1, <3>2, TopByte
  <2>3. CASE p # 0
    <3>1. e[(p + 1) + 1] < 127
      BY <1>4, <1>11, <1>13, <2>3 DEF HoldsNoFrame, L
    <3>2. b[1] < 127 /\ b[1] \in Byte
      BY <1>6, <1>8, <1>13, <2>1, <2>3, <3>1
    <3> QED BY <3>2, ByteIs
  <2> QED BY <2>2, <2>3
<1>15. /\ num \in Int /\ num >= b[Width] /\ b[Width] \in Int /\ b[Width] >= 0
       /\ \A d \in 1..(Width - 1) : b[d] # 0 => num >= 256
       /\ (\A d \in 1..(Width - 1) : b[d] = 0) => num = b[Width]
  <2>1. \A d \in 1..Width : b[d] \in Byte
    BY <1>6
  <2> QED BY <1>6, <1>8, <1>14, <2>1, LargeNumber, NumberIsInt, ByteIs
<1> SUFFICES ASSUME num > 0 PROVE FALSE
  BY <1>15 DEF num
<1>16. p + num \in 1..C /\ e[p + num] = s_end
  <2>1. p + num \in 1..C /\ m_read_index + (p + num) - 1 = start + num - 1
    BY <1>2, <1>5, <1>7, <1>15
  <2> QED BY <1>7, <1>10, <2>1
<1>17. CASE p + 1 + Width <= C /\ p = 0
  <2>1. \A d \in 1..Width : Int32(L)[d] \in Byte /\ b[d] = Int32(L)[d]
    <3> SUFFICES ASSUME NEW d \in 1..Width
                 PROVE  Int32(L)[d] \in Byte /\ b[d] = Int32(L)[d]
      OBVIOUS
    <3>1. p + 1 + d <= C /\ p + 1 + d = 1 + d
      BY <1>2, <1>5, <1>8, <1>17
    <3>2. Int32(L) \in Seq(Byte) /\ Len(Int32(L)) = Width
      BY <1>3, Int32Is
    <3>3. e[1 + d] = Int32(L)[d]
      BY <1>3, <3>2 DEF Holds
    <3> QED BY <1>12, <3>1, <3>2, <3>3
  <2>2. num = L
    BY <1>3, <1>6, <2>1, SameNumber, NumberOfInt32
  <2> QED BY <1>2, <1>3, <1>9, <1>16, <1>17, <2>2
<1>18. CASE p + 1 + Width <= C /\ p # 0
  <2> DEFINE i == p + 1
             s == SubSeq(e, i + 1, i + Width)
  <2>1. i \in 2..(L - 1) /\ e[i] = s_start /\ i + Width <= L /\ i \in Nat
    BY <1>2, <1>3, <1>5, <1>8, <1>9, <1>11, <1>13, <1>18
  <2>2. \A d \in 1..Width : s[d] = e[i + d]
    <3> HIDE DEF i
    <3>1. \A d \in 1..Width : d \in 1..((i + Width) - (i + 1) + 1) /\ (i + 1) + d - 1 = i + d
      BY <1>8, <2>1
    <3>2. \A j \in (i + 1)..(i + Width) : e[j] \in Byte
      BY <1>3, <1>8, <2>1 DEF L
    <3>3. i + 1 \in Int /\ i + Width \in Int
      BY <1>8, <2>1
    <3>4. \A d \in 1..((i + Width) - (i + 1) + 1) : s[d] = e[(i + 1) + d - 1]
      BY <3>2, <3>3, SubSeqProperties
    <3> HIDE DEF s
    <3> QED BY <3>1, <3>4
  <2>3. \A d \in 1..Width : b[d] \in Byte /\ s[d] = b[d]
    <3> SUFFICES ASSUME NEW d \in 1..Width PROVE s[d] = b[d]
      BY <1>6
    <3>1. p + 1 + d <= C
      BY <1>2, <1>5, <1>8, <1>18
    <3> QED BY <1>12, <2>2, <3>1
  <2>4. Number(s) = num
    <3> HIDE DEF s
    <3> QED BY <1>6, <2>3, SameNumber
  <2>5. i + num - 1 < L /\ i + num - 1 = p + num
    BY <1>2, <1>3, <1>5, <1>9, <1>15, <1>16
  <2>6. e[i + num - 1] # s_end
    <3> HIDE DEF i
    <3>1. Number(s) > 0 /\ i + Number(s) - 1 < Len(e)
      BY <2>4, <2>5 DEF L
    <3> HIDE DEF s
    <3>2. e[i + Number(s) - 1] # s_end
      BY <1>4, <2>1, <3>1 DEF HoldsNoFrame, L, s
    <3> QED BY <2>4, <3>2
  <2> QED BY <1>16, <2>5, <2>6
<1>19. CASE ~(p + 1 + Width <= C)
  <2>1. num <= Width
    BY <1>2, <1>5, <1>8, <1>15, <1>16, <1>19
  <2>2. \A d \in 1..(Width - 1) : b[d] = 0
    BY <1>8, <1>15, <2>1
  <2>3. num = b[Width]
    BY <1>15, <2>2
  <2>4. b[Width] \in {0, outside}
    <3>1. start + Width \in Nat /\ start + Width >= m_write_index
      BY <1>2, <1>5, <1>8, <1>19
    <3> QED BY <1>2, <1>6, <1>8, <3>1
  <2>5. num = 3
    BY <2>3, <2>4 DEF s_end
  <2>6. 2 \in 1..(Width - 1) /\ p + 1 + 2 <= C /\ p + 1 + 2 = p + num /\ 2 \in 1..Width
    BY <1>2, <1>5, <1>8, <1>16, <2>1, <2>5
  <2>7. b[2] = s_end
    BY <1>12, <1>16, <2>6
  <2> QED BY <2>2, <2>6, <2>7 DEF s_end
<1> QED BY <1>17, <1>18, <1>19

(* A frame of length 0 has no message in it.                               *)
LEMMA EmptyFrame ==
  ASSUME m_buffer \in Bytes, NEW start \in Nat, NEW outside \in Byte,
         GetInt32[<<start + 1, outside>>] = 0
  PROVE  Defined(start, outside) /\ Parse(start, start + 0 - 1, outside) = << >>
<1> DEFINE f == Layout(start, outside)
           end == start + 0 - 1
<1>1. f.id_len_index = start + 1 + Width
  BY DEF Layout
<1> HIDE DEF f
<1>2. ~HasId(f, end)
  BY <1>1, WidthIs DEF HasId
<1>3. ~HasName(f, end) /\ ~HasInfo(f, end)
  BY <1>2 DEF HasInfo, HasName
<1>4. Parse(start, end, outside) = << >>
  BY <1>3 DEF Parse, f
<1>5. end = start + GetInt32[<<start + 1, outside>>] - 1
  OBVIOUS
<1>6. Defined(start, outside)
  BY <1>2, <1>3, <1>5 DEF Defined, f
<1> QED BY <1>4, <1>6

-----------------------------------------------------------------------------
(* The stream: what is in the buffer and on the wire are the frames of the *)
(* messages that have been sent and not yet delivered.  rest[i] is the     *)
(* stream behind the frame of the i-th message.                            *)
Streams(rest) ==
  /\ rest[Len(sent)] = << >>
  /\ \A i \in 1..Len(sent) : rest[i - 1] = EncodeProtobuf(sent[i]) \o rest[i]
  /\ rest[Len(out_messages)] = expected \o wire

StreamInv ==
  /\ \A i \in 1..Len(sent) : \E m \in Messages : sent[i] = WithId(m)
  /\ \/ refused
     \/ /\ IsPrefixOf(out_messages, sent)
        /\ \E rest \in [0..Len(sent) -> Seq(Byte)] : Streams(rest)

(* What decode requires of the messages.                                   *)
AllDecodable == \A m \in Messages : Decodable(WithId(m))

LEMMA SentIsEncodable ==
  ASSUME NEW m \in Messages
  PROVE  Encodable(WithId(m))
<1>1. WithId(m) \in Message /\ m \in Message
  BY SentIsMessage, MessagesAssumption
<1>2. Fits(PkLen(WithId(m))) /\ Fits(m.err_code)
  BY MessagesAssumption
<1>3. WithId(m).err_code = m.err_code
  BY <1>1 DEF WithId, Message
<1> QED BY <1>1, <1>2, <1>3 DEF Encodable

(* A turn of decode: the next message is delivered, or nothing happens.    *)
LEMMA Turn ==
  ASSUME TypeInv, StreamInv, ~refused, AllDecodable, NEW outside \in {0, s_end},
         NEW start \in Frames(outside), \A i \in Frames(outside) : start <= i
  PROVE  /\ Defined(start, outside)
         /\ \/ GetInt32[<<start + 1, outside>>] = 0
            \/ /\ Len(out_messages) < Len(sent)
               /\ Parse(start, start + GetInt32[<<start + 1, outside>>] - 1, outside)
                    = <<sent[Len(out_messages) + 1]>>
               /\ GetInt32[<<start + 1, outside>>]
                    = Len(EncodeProtobuf(sent[Len(out_messages) + 1]))
               /\ GetInt32[<<start + 1, outside>>] <= Len(expected)
<1> DEFINE n == Len(out_messages)
           num == GetInt32[<<start + 1, outside>>]
<1>1. /\ BufferOK /\ m_buffer \in Bytes /\ m_read_index \in Nat /\ m_write_index \in Nat
      /\ expected \in Seq(Byte) /\ wire \in Seq(Byte) /\ Len(expected) \in Nat
      /\ n \in Nat /\ Len(sent) \in Nat /\ outside \in Byte
  BY BufferIsOK DEF TypeInv, Bytes, Byte, s_end
<1>2. Len(expected) = m_write_index - m_read_index
  BY <1>1, SeenThrough
<1>3. /\ start \in Nat /\ m_read_index <= start /\ start < m_write_index
  BY <1>1 DEF Frames
<1>4. /\ n <= Len(sent)
      /\ \E rest \in [0..Len(sent) -> Seq(Byte)] : Streams(rest)
  BY DEF StreamInv, IsPrefixOf
<1>5. PICK rest \in [0..Len(sent) -> Seq(Byte)] : Streams(rest)
  BY <1>4
<1>6. n < Len(sent)
  <2> SUFFICES ASSUME n = Len(sent) PROVE FALSE
    BY <1>1, <1>4
  <2>1. expected \o wire = << >>
    BY <1>5 DEF Streams
  <2>2. Len(expected) + Len(wire) = 0
    <3>1. Len(expected \o wire) = Len(expected) + Len(wire)
      BY <1>1, ConcatProperties, Zenon
    <3>2. Len(<< >>) = 0
      OBVIOUS
    <3> QED BY <2>1, <3>1, <3>2, Zenon
  <2>3. Len(wire) \in Nat
    BY <1>1
  <2> QED BY <1>1, <1>2, <1>3, <2>2, <2>3
<1> DEFINE m == sent[n + 1]
           e == EncodeProtobuf(m)
<1>7. n + 1 \in 1..Len(sent) /\ (n + 1) - 1 = n
  BY <1>1, <1>6
<1>8. Encodable(m) /\ Decodable(m)
  <2>1. PICK k \in Messages : m = WithId(k)
    BY <1>7 DEF StreamInv
  <2> QED BY <2>1, SentIsEncodable DEF AllDecodable
<1>9. e \in Seq(Byte) /\ Len(e) \in Nat
  BY <1>8, EncodeIs DEF Encodable, IsFrame
<1>10. expected \o wire = e \o rest[n + 1] /\ rest[n + 1] \in Seq(Byte)
  <2>1. rest[n] = expected \o wire
    BY <1>5 DEF Streams
  <2>2. rest[(n + 1) - 1] = e \o rest[n + 1]
    BY <1>5, <1>7 DEF Streams
  <2>3. rest[n + 1] \in Seq(Byte)
    BY <1>7
  <2> QED BY <1>7, <2>1, <2>2, <2>3
<1> HIDE DEF m, e, n
<1>11. Pending(m, e)
  <2>1. \A i \in 1..Len(expected) : i <= Len(e) => expected[i] = e[i]
    BY <1>1, <1>9, <1>10, Arrived
  <2> QED BY <1>8, <2>1 DEF Pending, e
<1>12. CASE Len(e) <= Len(expected)
  <2>1. /\ m_read_index \in Frames(outside)
        /\ GetInt32[<<m_read_index + 1, outside>>] = Len(e)
        /\ Defined(m_read_index, outside)
        /\ Parse(m_read_index, m_read_index + Len(e) - 1, outside) = <<m>>
    BY <1>1, <1>11, <1>12, WholeFrameFound
  <2>2. start = m_read_index
    BY <1>1, <1>3, <2>1
  <2> QED BY <1>6, <1>12, <2>1, <2>2 DEF m, e, n
<1>13. CASE ~(Len(e) <= Len(expected))
  <2>1. Len(expected) < Len(e)
    BY <1>1, <1>9, <1>13
  <2>2. num = 0
    BY <1>1, <1>11, <2>1, NoOtherFrame
  <2>3. Defined(start, outside)
    BY <1>1, <1>3, <2>2, EmptyFrame
  <2> QED BY <2>2, <2>3
<1> QED BY <1>12, <1>13

-----------------------------------------------------------------------------
(* The stream through the steps.                                           *)
LEMMA SendKeeps ==
  ASSUME TypeInv, StreamInv, NEW m \in Messages, Send(m)
  PROVE  StreamInv'
<1> DEFINE w == WithId(m)
           n == Len(sent)
           x == EncodeProtobuf(w)
<1>1. /\ sent \in Seq(Message) /\ out_messages \in Seq(Message) /\ n \in Nat
      /\ wire \in Seq(Byte) /\ expected \in Seq(Byte)
  BY BufferIsOK DEF TypeInv, Bytes
<1>2. w \in Message /\ x \in Seq(Byte)
  BY SentIsMessage, EncodeIs DEF IsFrame
<1>3. /\ sent' = Append(sent, w) /\ wire' = wire \o x
      /\ out_messages' = out_messages /\ expected' = expected /\ refused' = refused
  BY DEF Send
<1> HIDE DEF w, x
<1>4. /\ Len(sent') = n + 1 /\ sent'[n + 1] = w
      /\ \A i \in 1..n : sent'[i] = sent[i]
  BY <1>1, <1>2, <1>3
<1>5. \A i \in 1..Len(sent') : \E k \in Messages : sent'[i] = WithId(k)
  <2> SUFFICES ASSUME NEW i \in 1..Len(sent')
               PROVE  \E k \in Messages : sent'[i] = WithId(k)
    OBVIOUS
  <2>1. CASE i = n + 1
    BY <1>4, <2>1 DEF w
  <2>2. CASE i # n + 1
    <3>1. i \in 1..n
      BY <1>1, <1>4, <2>2
    <3> QED BY <1>4, <3>1 DEF StreamInv
  <2> QED BY <2>1, <2>2
<1>6. ASSUME ~refused PROVE /\ IsPrefixOf(out_messages', sent')
                            /\ \E rest \in [0..Len(sent') -> Seq(Byte)] : Streams(rest)'
  <2>1. Len(out_messages) <= n /\ \A i \in DOMAIN out_messages : out_messages[i] = sent[i]
    BY <1>6 DEF StreamInv, IsPrefixOf
  <2>2. PICK rest \in [0..n -> Seq(Byte)] : Streams(rest)
    BY <1>6 DEF StreamInv
  <2>3. IsPrefixOf(out_messages', sent')
    <3>1. \A i \in DOMAIN out_messages : i \in 1..n
      BY <1>1, <2>1
    <3>2. Len(out_messages) <= n + 1
      BY <1>1, <2>1
    <3> QED BY <1>3, <1>4, <2>1, <3>1, <3>2 DEF IsPrefixOf
  <2> DEFINE longer == [i \in 0..(n + 1) |-> IF i <= n THEN rest[i] \o x ELSE << >>]
  <2>10. longer \in [0..(n + 1) -> Seq(Byte)]
    <3> SUFFICES ASSUME NEW i \in 0..(n + 1), i <= n PROVE rest[i] \o x \in Seq(Byte)
      OBVIOUS
    <3>1. i \in 0..n
      BY <1>1
    <3>2. rest[i] \in Seq(Byte)
      BY <2>2, <3>1
    <3> QED BY <1>2, <3>2, ConcatProperties
  <2>11. longer[n + 1] = << >> /\ (\A i \in 0..n : longer[i] = rest[i] \o x)
    BY <1>1
  <2> HIDE DEF longer
  <2>4. PICK more \in [0..(n + 1) -> Seq(Byte)] : more = longer
    BY <2>10
  <2>5. more[n + 1] = << >> /\ (\A i \in 0..n : more[i] = rest[i] \o x)
    BY <2>4, <2>11
  <2>6. rest[n] = << >> /\ rest[Len(out_messages)] = expected \o wire
        /\ \A i \in 1..n : rest[i - 1] = EncodeProtobuf(sent[i]) \o rest[i]
    BY <2>2 DEF Streams
  <2>7. \A i \in 1..(n + 1) : more[i - 1] = EncodeProtobuf(sent'[i]) \o more[i]
    <3> SUFFICES ASSUME NEW i \in 1..(n + 1)
                 PROVE  more[i - 1] = EncodeProtobuf(sent'[i]) \o more[i]
      OBVIOUS
    <3>1. CASE i = n + 1
      <4>1. i - 1 = n /\ n \in 0..n
        BY <1>1, <3>1
      <4>2. more[i - 1] = << >> \o x
        BY <2>5, <2>6, <4>1
      <4>3. << >> \o x = x /\ x \o << >> = x
        BY <1>2, ConcatEmptySeq
      <4>4. EncodeProtobuf(sent'[i]) = x
        BY <1>4, <3>1 DEF x
      <4> QED BY <2>5, <3>1, <4>2, <4>3, <4>4
    <3>2. CASE i # n + 1
      <4>1. i \in 1..n /\ i \in 0..n /\ i - 1 \in 0..n
        BY <1>1, <3>2
      <4>2. more[i - 1] = (EncodeProtobuf(sent[i]) \o rest[i]) \o x /\ more[i] = rest[i] \o x
        BY <2>5, <2>6, <4>1
      <4>3. sent[i] \in Message
        BY <1>1, <4>1
      <4>4. EncodeProtobuf(sent[i]) \in Seq(Byte) /\ rest[i] \in Seq(Byte)
        BY <4>1, <4>3, EncodeIs DEF IsFrame
      <4>5. (EncodeProtobuf(sent[i]) \o rest[i]) \o x = EncodeProtobuf(sent[i]) \o (rest[i] \o x)
        BY <1>2, <4>4, Assoc
      <4> QED BY <1>4, <4>1, <4>2, <4>5
    <3> QED BY <3>1, <3>2
  <2>8. more[Len(out_messages)] = expected \o (wire \o x)
    <3>1. Len(out_messages) \in 0..n
      BY <1>1, <2>1
    <3>2. more[Len(out_messages)] = rest[Len(out_messages)] \o x
      BY <2>5, <3>1
    <3>3. more[Len(out_messages)] = (expected \o wire) \o x
      BY <2>6, <3>2
    <3> QED BY <1>1, <1>2, <3>3, Assoc
  <2>9. Streams(more)'
    <3>1. more[Len(sent')] = << >>
      BY <1>4, <2>5
    <3>2. more[Len(out_messages')] = expected' \o wire'
      BY <1>3, <2>8
    <3>3. \A i \in 1..Len(sent') : more[i - 1] = EncodeProtobuf(sent'[i]) \o more[i]
      BY <1>4, <2>7
    <3> QED BY <3>1, <3>2, <3>3 DEF Streams
  <2> QED BY <1>4, <2>3, <2>4, <2>9
<1> QED BY <1>3, <1>5, <1>6 DEF StreamInv

LEMMA ReadKeeps ==
  ASSUME TypeInv, StreamInv, NEW n \in 1..Len(wire), OnRead(n)
  PROVE  StreamInv'
<1> DEFINE s == SubSeq(wire, 1, n)
           t == SubSeq(wire, n + 1, Len(wire))
<1>1. wire \in Seq(Byte) /\ expected \in Seq(Byte) /\ refused \in BOOLEAN
      /\ Len(wire) \in Nat /\ n \in Nat /\ n <= Len(wire) /\ n >= 1
  BY BufferIsOK DEF TypeInv, Bytes
<1>2. /\ sent' = sent /\ out_messages' = out_messages /\ wire' = t
      /\ expected' = IF refused' THEN << >> ELSE expected \o s
      /\ refused \/ ~refused => (refused => refused')
  BY DEF OnRead, Buffer!Fill
<1>3. s \in Seq(Byte) /\ t \in Seq(Byte)
  BY <1>1
<1>4. s \o t = wire
  <2>1. 1 \in 1..(Len(wire) + 1) /\ n \in (1 - 1)..Len(wire) /\ Len(wire) \in n..Len(wire)
    BY <1>1
  <2>2. s \o t = SubSeq(wire, 1, Len(wire))
    BY <1>1, <2>1, ConcatAdjacentSubSeq
  <2> QED BY <1>1, <2>2, SubSeqFull
<1> HIDE DEF s, t
<1>5. (expected \o s) \o t = expected \o wire
  BY <1>1, <1>3, <1>4, Assoc
<1>6. ASSUME ~refused' PROVE /\ ~refused /\ expected' \o wire' = expected \o wire
  BY <1>1, <1>2, <1>5, <1>6
<1>7. ASSUME ~refused' PROVE \E rest \in [0..Len(sent') -> Seq(Byte)] : Streams(rest)'
  <2>1. PICK rest \in [0..Len(sent) -> Seq(Byte)] : Streams(rest)
    BY <1>6, <1>7 DEF StreamInv
  <2>2. Streams(rest)'
    BY <1>2, <1>6, <1>7, <2>1 DEF Streams
  <2> QED BY <1>2, <2>1, <2>2
<1> QED BY <1>2, <1>6, <1>7 DEF StreamInv

LEMMA DecodeKeeps ==
  ASSUME TypeInv, StreamInv, AllDecodable, NEW outside \in {0, s_end},
         DecodeFrame(outside)
  PROVE  StreamInv'
<1>1. /\ BufferOK /\ refused \in BOOLEAN /\ expected \in Seq(Byte) /\ wire \in Seq(Byte)
      /\ sent \in Seq(Message) /\ out_messages \in Seq(Message)
      /\ Len(sent) \in Nat /\ Len(out_messages) \in Nat /\ Len(expected) \in Nat
  BY BufferIsOK DEF TypeInv, Bytes
<1>2. PICK start \in Frames(outside) :
        /\ \A i \in Frames(outside) : start <= i
        /\ Buffer!AdjustReadIndex(GetInt32[<<start + 1, outside>>])
        /\ out_messages' = out_messages \o
             Parse(start, start + GetInt32[<<start + 1, outside>>] - 1, outside)
  BY DEF DecodeFrame, TakeFrame
<1> DEFINE num == GetInt32[<<start + 1, outside>>]
           n == Len(out_messages)
<1>3. /\ sent' = sent /\ wire' = wire /\ refused' = refused
      /\ expected' = SubSeq(expected, num + 1, Len(expected))
  BY <1>2 DEF DecodeFrame, Buffer!AdjustReadIndex
<1>4. CASE refused
  BY <1>3, <1>4 DEF StreamInv
<1>5. CASE ~refused
  <2>1. /\ Len(out_messages) <= Len(sent)
        /\ \A i \in DOMAIN out_messages : out_messages[i] = sent[i]
    BY <1>5 DEF StreamInv, IsPrefixOf
  <2>2. PICK rest \in [0..Len(sent) -> Seq(Byte)] : Streams(rest)
    BY <1>5 DEF StreamInv
  <2>3. CASE num = 0
    <3>1. start \in Nat /\ m_buffer \in Bytes /\ outside \in Byte
      BY <1>1, BufferIsOK DEF Frames, Bytes, Byte, s_end
    <3>2. Parse(start, start + num - 1, outside) = << >>
      BY <2>3, <3>1, EmptyFrame
    <3>3. out_messages' = out_messages
      BY <1>1, <1>2, <3>2, ConcatEmptySeq
    <3>4. expected' = expected
      BY <1>1, <1>3, <2>3, SubSeqFull
    <3>5. Streams(rest)'
      BY <1>3, <2>2, <3>3, <3>4 DEF Streams
    <3> QED BY <1>3, <1>5, <2>2, <3>3, <3>5 DEF StreamInv
  <2>4. CASE num # 0
    <3> DEFINE m == sent[n + 1]
               e == EncodeProtobuf(m)
    <3>1. /\ n < Len(sent) /\ num = Len(e) /\ num <= Len(expected)
          /\ Parse(start, start + num - 1, outside) = <<m>>
      BY <1>2, <1>5, <2>4, Turn
    <3>2. n + 1 \in 1..Len(sent) /\ (n + 1) - 1 = n
      BY <1>1, <3>1
    <3>3. m \in Message /\ e \in Seq(Byte) /\ rest[n + 1] \in Seq(Byte)
      <4>1. m \in Message
        BY <1>1, <3>2
      <4>2. rest[n + 1] \in Seq(Byte)
        BY <3>2
      <4> HIDE DEF m
      <4> QED BY <4>1, <4>2, EncodeIs DEF IsFrame
    <3>4. expected \o wire = e \o rest[n + 1]
      <4>1. rest[n] = expected \o wire
        BY <2>2 DEF Streams
      <4>2. rest[(n + 1) - 1] = e \o rest[n + 1]
        BY <2>2, <3>2 DEF Streams
      <4> QED BY <3>2, <4>1, <4>2
    <3> DEFINE r == rest[n + 1]
    <3> HIDE DEF e, r
    <3>5. expected' \o wire' = rest[n + 1]
      <4>1. Len(e) <= Len(expected)
        BY <3>1
      <4>2. e \in Seq(Byte) /\ r \in Seq(Byte) /\ expected \o wire = e \o r
        BY <3>3, <3>4 DEF r
      <4>3. SubSeq(expected, Len(e) + 1, Len(expected)) \o wire = r
        BY <1>1, <4>1, <4>2, Consumed
      <4> QED BY <1>3, <3>1, <4>3 DEF r
    <3>6. out_messages' = out_messages \o <<m>>
      BY <1>2, <3>1
    <3>7. /\ Len(out_messages') = n + 1 /\ out_messages'[n + 1] = m
          /\ \A i \in 1..n : out_messages'[i] = out_messages[i]
          /\ DOMAIN out_messages' = 1..(n + 1)
      BY <1>1, <3>3, <3>6
    <3>8. IsPrefixOf(out_messages', sent')
      <4>1. ASSUME NEW i \in DOMAIN out_messages' PROVE out_messages'[i] = sent[i]
        <5>1. CASE i = n + 1
          BY <3>7, <5>1
        <5>2. CASE i # n + 1
          <6>1. i \in 1..n /\ i \in DOMAIN out_messages
            BY <1>1, <3>7, <5>2
          <6> QED BY <2>1, <3>7, <6>1
        <5> QED BY <5>1, <5>2
      <4> QED BY <1>1, <1>3, <3>1, <3>7, <4>1 DEF IsPrefixOf
    <3>9. Streams(rest)'
      BY <1>3, <2>2, <3>5, <3>7 DEF Streams
    <3> QED BY <1>3, <1>5, <2>2, <3>8, <3>9 DEF StreamInv
  <2> QED BY <2>3, <2>4
<1> QED BY <1>1, <1>4, <1>5

LEMMA StreamStays ==
  ASSUME StreamInv, UNCHANGED <<sent, wire, out_messages, refused, expected>>
  PROVE  StreamInv'
<1>1. CASE refused
  BY <1>1 DEF StreamInv
<1>2. CASE ~refused
  <2>1. PICK rest \in [0..Len(sent) -> Seq(Byte)] : Streams(rest)
    BY <1>2 DEF StreamInv
  <2>2. Streams(rest)'
    BY <2>1 DEF Streams
  <2> QED BY <1>2, <2>1, <2>2 DEF StreamInv
<1> QED BY <1>1, <1>2

LEMMA StreamStep ==
  ASSUME AllDecodable, TypeInv, StreamInv, [Next]_vars
  PROVE  StreamInv'
<1>1. ASSUME NEW m \in Messages, Send(m) PROVE StreamInv'
  BY <1>1, SendKeeps
<1>2. ASSUME NEW n \in 1..Len(wire), OnRead(n) PROVE StreamInv'
  BY <1>2, ReadKeeps
<1>3. CASE Excute
  BY <1>3, StreamStays DEF Excute
<1>4. ASSUME NEW outside \in {0, s_end}, DecodeFrame(outside) PROVE StreamInv'
  BY <1>4, DecodeKeeps
<1>5. ASSUME NEW outside, DecodeReturns(outside) PROVE StreamInv'
  BY <1>5, StreamStays DEF DecodeReturns
<1>6. CASE UNCHANGED vars
  BY <1>6, StreamStays
<1> QED BY <1>1, <1>2, <1>3, <1>4, <1>5, <1>6 DEF Next, Receiver

LEMMA StreamInvariant ==
  ASSUME AllDecodable
  PROVE  Spec => [](TypeInv /\ StreamInv)
<1>1. Init => StreamInv
  <2> SUFFICES ASSUME Init PROVE StreamInv
    OBVIOUS
  <2>1. sent = << >> /\ out_messages = << >> /\ wire = << >> /\ expected = << >>
    BY DEF Init, Buffer!Init
  <2> DEFINE rest == [i \in 0..0 |-> << >>]
  <2>2. rest \in [0..Len(sent) -> Seq(Byte)] /\ rest[0] = << >> /\ Len(sent) = 0
        /\ Len(out_messages) = 0
    BY <2>1
  <2> HIDE DEF rest
  <2>3. << >> \o << >> = << >>
    BY EmptySeq, ConcatEmptySeq
  <2>4. Streams(rest)
    BY <2>1, <2>2, <2>3 DEF Streams
  <2> QED BY <2>1, <2>2, <2>4 DEF StreamInv, IsPrefixOf
<1>2. TypeInv /\ StreamInv /\ [Next]_vars => StreamInv'
  BY StreamStep
<1> QED BY <1>1, <1>2, CoderTypesInvariant, PTL DEF Spec

(* The messages that decode delivers are the ones that were sent, in       *)
(* order, each once and with every field as it was, for all messages that  *)
(* decode is able to tell apart, any size of the buffer and any cut of the *)
(* stream.                                                                 *)
THEOREM DecodedInOrder ==
  ASSUME \A m \in Messages : Decodable(WithId(m))
  PROVE  Spec => []DecodedAsSent
<1>1. AllDecodable
  BY DEF AllDecodable
<1>2. StreamInv => DecodedAsSent
  BY DEF StreamInv, DecodedAsSent
<1> QED BY <1>1, <1>2, StreamInvariant, PTL

(* Under the same condition what decode does is defined: no field is       *)
(* copied that does not fit and no length is negative, so that no          *)
(* behaviour of the model ends where one of the code goes on.              *)
THEOREM DecodeDefined ==
  ASSUME \A m \in Messages : Decodable(WithId(m))
  PROVE  Spec => []DecodeIsDefined
<1>1. AllDecodable
  BY DEF AllDecodable
<1>2. TypeInv /\ StreamInv => DecodeIsDefined
  BY <1>1, Turn DEF DecodeIsDefined
<1> QED BY <1>1, <1>2, StreamInvariant, PTL
=============================================================================
