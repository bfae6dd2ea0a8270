-------------------------- MODULE ClipGradProofs --------------------------
(***************************************************************************)
(* Proofs about the gradient normalisation and clipping of ClipGrad, for   *)
(* every number of blocks, batch size, bound and gradient norms.           *)
(***************************************************************************)
EXTENDS ClipGrad, NatWellOrder, TLAPS

USE ClipGradAssumption

\* Rationals with a positive denominator, the values ClipGrad computes with.
Rat == Nat \X (Nat \ {0})

\* The product of two rationals before QMul reduces it.
QProd(a, b) == <<a[1] * b[1], a[2] * b[2]>>

\* A multiple of d is its quotient by d times d.
LEMMA DivExact ==
    ASSUME NEW x \in Nat, NEW d \in Nat \ {0}, x % d = 0
    PROVE  x = (x \div d) * d
<1>1. x = d * (x \div d) + (x % d)
  OBVIOUS
<1>2. QED
  BY <1>1

(***************************************************************************)
(* QReduce divides numerator and denominator by their greatest common      *)
(* divisor, which exists: it keeps the value and a positive denominator.   *)
(***************************************************************************)
LEMMA QReduceValue ==
    ASSUME NEW a \in Rat
    PROVE  QReduce(a) \in Rat /\ QEq(a, QReduce(a))
<1> DEFINE x == a[1]
           y == a[2]
           Div(d) == x % d = 0 /\ y % d = 0
           G == {d \in 1..y : Div(d)}
<1>1. x \in Nat /\ y \in Nat \ {0}
  BY DEF Rat
<1>2. G \in SUBSET (0..y) /\ G # {}
  <2>1. 1 \in G
    BY <1>1
  <2>2. QED
    BY <1>1, <2>1
<1>3. \E d \in 1..y : Div(d) /\ \A e \in 1..y : Div(e) => e <= d
  BY <1>1, <1>2, MaxExists
<1>4. PICK d \in 1..y : Div(d) /\ \A e \in 1..y : Div(e) => e <= d
  BY <1>3
<1>5. QReduce(a) = <<x \div d, y \div d>>
  \* The divisor QReduce chooses exists, so it is one of the d above.
  <2> DEFINE c == CHOOSE c \in 1..y : Div(c) /\ \A e \in 1..y : Div(e) => e <= c
  <2>1. c \in 1..y /\ Div(c) /\ \A e \in 1..y : Div(e) => e <= c
    BY <1>3
  <2>2. c = d
    BY <1>1, <1>4, <2>1
  <2>3. QED
    BY <2>2 DEF QReduce
<1>6. /\ x = (x \div d) * d
      /\ y = (y \div d) * d
  <2>1. x % d = 0 /\ y % d = 0 /\ d \in Nat \ {0}
    BY <1>1, <1>4 DEF Div
  <2>2. QED
    BY <1>1, <2>1, DivExact
<1>7. x \div d \in Nat /\ y \div d \in Nat \ {0}
  BY <1>1, <1>4, <1>6
<1>8. x * (y \div d) = (x \div d) * y
  <2> DEFINE p == x \div d
             q == y \div d
  <2>1. p \in Nat /\ q \in Nat /\ x = p * d /\ y = q * d
    BY <1>6, <1>7
  <2>2. x * q = p * y
    BY <2>1
  <2>3. QED
    BY <2>2
<1>9. QED
  BY <1>5, <1>7, <1>8 DEF Rat, QEq
LEMMA QProdType ==
    ASSUME NEW a \in Rat, NEW b \in Rat
    PROVE  QProd(a, b) \in Rat
BY DEF Rat, QProd

\* QMul is the product, reduced.
LEMMA QMulValue ==
    ASSUME NEW a \in Rat, NEW b \in Rat
    PROVE  QMul(a, b) \in Rat /\ QEq(QProd(a, b), QMul(a, b))
<1>1. QMul(a, b) = QReduce(QProd(a, b))
  BY DEF QMul, QProd
<1>2. QED
  BY <1>1, QProdType, QReduceValue

LEMMA QAddType ==
    ASSUME NEW a \in Rat, NEW b \in Rat
    PROVE  QAdd(a, b) \in Rat
<1>1. <<a[1] * b[2] + b[1] * a[2], a[2] * b[2]>> \in Rat
  BY DEF Rat
<1>2. QED
  BY <1>1, QReduceValue DEF QAdd

\* Equality of values is an equivalence on Rat.
LEMMA QEqRefl ==
    ASSUME NEW a \in Rat
    PROVE  QEq(a, a)
BY DEF QEq

LEMMA QEqSym ==
    ASSUME NEW a \in Rat, NEW b \in Rat, QEq(a, b)
    PROVE  QEq(b, a)
BY DEF QEq

LEMMA QEqTrans ==
    ASSUME NEW a \in Rat, NEW b \in Rat, NEW c \in Rat, QEq(a, b), QEq(b, c)
    PROVE  QEq(a, c)
<1>1. a[1] * b[2] = b[1] * a[2] /\ b[1] * c[2] = c[1] * b[2]
  BY DEF QEq
<1>2. (a[1] * c[2]) * b[2] = (c[1] * a[2]) * b[2]
  <2>1. (a[1] * c[2]) * b[2] = (b[1] * a[2]) * c[2]
    BY <1>1 DEF Rat
  <2>2. (b[1] * a[2]) * c[2] = (c[1] * b[2]) * a[2]
    BY <1>1 DEF Rat
  <2>3. QED
    BY <2>1, <2>2 DEF Rat
<1>3. b[2] # 0
  BY DEF Rat
<1>4. QED
  BY <1>2, <1>3 DEF Rat, QEq

\* Multiplying equal values gives equal values.
LEMMA QProdCong ==
    ASSUME NEW a \in Rat, NEW a2 \in Rat, NEW b \in Rat, NEW b2 \in Rat,
           QEq(a, a2), QEq(b, b2)
    PROVE  QEq(QProd(a, b), QProd(a2, b2))
<1>1. a[1] * a2[2] = a2[1] * a[2] /\ b[1] * b2[2] = b2[1] * b[2]
  BY DEF QEq
<1>2. (a[1] * a2[2]) * (b[1] * b2[2]) = (a2[1] * a[2]) * (b2[1] * b[2])
  BY <1>1
<1>3. (a[1] * b[1]) * (a2[2] * b2[2]) = (a2[1] * b2[1]) * (a[2] * b[2])
  BY <1>2 DEF Rat
<1>4. QED
  BY <1>3 DEF QEq, QProd

\* The sum of two rationals before QAdd reduces it.
QRaw(a, b) == <<a[1] * b[2] + b[1] * a[2], a[2] * b[2]>>

\* QAdd is the sum, reduced.
LEMMA QAddValue ==
    ASSUME NEW a \in Rat, NEW b \in Rat
    PROVE  /\ QRaw(a, b) \in Rat
           /\ QAdd(a, b) \in Rat
           /\ QEq(QRaw(a, b), QAdd(a, b))
<1>1. QRaw(a, b) \in Rat
  BY DEF QRaw, Rat
<1>2. QED
  BY <1>1, QReduceValue DEF QAdd, QRaw

\* Adding equal values gives equal values.
LEMMA QRawCong ==
    ASSUME NEW a \in Rat, NEW a2 \in Rat, NEW b \in Rat, NEW b2 \in Rat,
           QEq(a, a2), QEq(b, b2)
    PROVE  QEq(QRaw(a, b), QRaw(a2, b2))
<1>1. a[1] * a2[2] = a2[1] * a[2] /\ b[1] * b2[2] = b2[1] * b[2]
  BY DEF QEq
<1>2. (a[1] * b[2] + b[1] * a[2]) * (a2[2] * b2[2])
        = (a[1] * a2[2]) * (b[2] * b2[2]) + (b[1] * b2[2]) * (a[2] * a2[2])
  BY DEF Rat
<1>3. (a2[1] * b2[2] + b2[1] * a2[2]) * (a[2] * b[2])
        = (a2[1] * a[2]) * (b[2] * b2[2]) + (b2[1] * b[2]) * (a[2] * a2[2])
  BY DEF Rat
<1>4. QED
  BY <1>1, <1>2, <1>3 DEF QEq, QRaw

LEMMA QAddCong ==
    ASSUME NEW a \in Rat, NEW a2 \in Rat, NEW b \in Rat, NEW b2 \in Rat,
           QEq(a, a2), QEq(b, b2)
    PROVE  QEq(QAdd(a, b), QAdd(a2, b2))
<1>1. QRaw(a, b) \in Rat /\ QAdd(a, b) \in Rat /\ QEq(QRaw(a, b), QAdd(a, b))
  BY QAddValue
<1>2. QRaw(a2, b2) \in Rat /\ QAdd(a2, b2) \in Rat /\ QEq(QRaw(a2, b2), QAdd(a2, b2))
  BY QAddValue
<1>3. QEq(QRaw(a, b), QRaw(a2, b2))
  BY QRawCong
<1>4. QEq(QAdd(a, b), QRaw(a, b))
  BY <1>1, QEqSym
<1>5. QEq(QAdd(a, b), QRaw(a2, b2))
  BY <1>1, <1>2, <1>3, <1>4, QEqTrans
<1>6. QED
  BY <1>1, <1>2, <1>5, QEqTrans

\* A common factor distributes over a sum, in value.
LEMMA QRawDistr ==
    ASSUME NEW a \in Rat, NEW b \in Rat, NEW c \in Rat
    PROVE  QEq(QRaw(QProd(a, c), QProd(b, c)), QProd(QRaw(a, b), c))
<1> DEFINE s == a[1] * b[2] + b[1] * a[2]
           d == a[2] * b[2]
<1>1. QRaw(QProd(a, c), QProd(b, c)) = <<s * (c[1] * c[2]), d * (c[2] * c[2])>>
  BY DEF QRaw, QProd, Rat
<1>2. QProd(QRaw(a, b), c) = <<s * c[1], d * c[2]>>
  BY DEF QRaw, QProd
<1>3. s \in Nat /\ d \in Nat /\ c[1] \in Nat /\ c[2] \in Nat
  BY DEF Rat
<1>4. (s * (c[1] * c[2])) * (d * c[2]) = (s * c[1]) * (d * (c[2] * c[2]))
  BY <1>3
<1>5. QED
  BY <1>1, <1>2, <1>4 DEF QEq

LEMMA QAddDistr ==
    ASSUME NEW a \in Rat, NEW b \in Rat, NEW c \in Rat
    PROVE  QEq(QAdd(QProd(a, c), QProd(b, c)), QProd(QAdd(a, b), c))
<1>1. QProd(a, c) \in Rat /\ QProd(b, c) \in Rat
  BY QProdType
<1>2. /\ QRaw(QProd(a, c), QProd(b, c)) \in Rat
      /\ QAdd(QProd(a, c), QProd(b, c)) \in Rat
      /\ QEq(QRaw(QProd(a, c), QProd(b, c)), QAdd(QProd(a, c), QProd(b, c)))
  BY <1>1, QAddValue
<1>3. QRaw(a, b) \in Rat /\ QAdd(a, b) \in Rat /\ QEq(QRaw(a, b), QAdd(a, b))
  BY QAddValue
<1>4. QProd(QRaw(a, b), c) \in Rat /\ QProd(QAdd(a, b), c) \in Rat
  BY <1>3, QProdType
<1>5. QEq(QProd(QRaw(a, b), c), QProd(QAdd(a, b), c))
  BY <1>3, QProdCong, QEqRefl
<1>6. QEq(QRaw(QProd(a, c), QProd(b, c)), QProd(QAdd(a, b), c))
  BY <1>2, <1>4, <1>5, QRawDistr, QEqTrans
<1>7. QED
  BY <1>2, <1>4, <1>6, QEqSym, QEqTrans

-----------------------------------------------------------------------------
(***************************************************************************)
(* Sums of rationals.  QSum is a recursive function; its defining equation *)
(* and what it implies are established by a largest partial solution or a *)
(* least counterexample (NatWellOrder) instead of induction.               *)
(***************************************************************************)

\* The recursive function of QSum(f, k), as the provers see it.
QPart(f, k) ==
    CHOOSE t : t = [i \in 0..k |-> IF i = 0 THEN QZero ELSE QAdd(t[i - 1], f[i])]

\* t is a table of running sums of f on 0..m.
QSumsUpTo(t, f, m) ==
    /\ t \in [0..m -> Rat]
    /\ \A i \in 0..m : t[i] = IF i = 0 THEN QZero ELSE QAdd(t[i - 1], f[i])

LEMMA QSumIsLast ==
    ASSUME NEW f, NEW k
    PROVE  QSum(f, k) = QPart(f, k)[k]
BY DEF QSum, QPart

LEMMA QZeroType == QZero \in Rat
BY DEF QZero, Q, Rat

\* A table of running sums on 0..n exists: a largest m with a table on
\* 0..m exists, and a table on 0..m extends to 0..m+1.
LEMMA QSumsExist ==
    ASSUME NEW f, NEW n \in Nat, \A i \in 1..n : f[i] \in Rat
    PROVE  \E t : QSumsUpTo(t, f, n)
<1> DEFINE G == {m \in 0..n : \E t : QSumsUpTo(t, f, m)}
<1>1. 0 \in G
  <2>1. QSumsUpTo([i \in 0..0 |-> QZero], f, 0)
    BY QZeroType DEF QSumsUpTo
  <2>2. QED
    BY <2>1
<1>2. PICK m \in G : \A e \in G : e <= m
  BY <1>1, MaxExists
<1>3. PICK t : QSumsUpTo(t, f, m)
  BY <1>2
<1>4. m = n
  <2>1. SUFFICES ASSUME m < n PROVE FALSE
    BY <1>2
  <2> DEFINE u == [i \in 0..(m + 1) |-> IF i <= m THEN t[i] ELSE QAdd(t[m], f[m + 1])]
  <2>2. QSumsUpTo(u, f, m + 1)
    <3>1. m \in Nat /\ m + 1 \in 1..n
      BY <1>2, <2>1
    <3>2. QAdd(t[m], f[m + 1]) \in Rat
      BY <1>3, <3>1, QAddType DEF QSumsUpTo
    <3>3. u \in [0..(m + 1) -> Rat]
      BY <1>3, <3>1, <3>2 DEF QSumsUpTo
    <3>4. ASSUME NEW i \in 0..(m + 1)
          PROVE  u[i] = IF i = 0 THEN QZero ELSE QAdd(u[i - 1], f[i])
      <4>1. CASE i <= m
        BY <1>3, <3>1, <4>1 DEF QSumsUpTo
      <4>2. CASE i = m + 1
        BY <1>3, <3>1, <4>2 DEF QSumsUpTo
      <4>3. QED
        BY <3>1, <4>1, <4>2
    <3>5. QED
      BY <3>3, <3>4 DEF QSumsUpTo
  <2>3. m + 1 \in G
    BY <1>2, <2>1, <2>2
  <2>4. QED
    BY <1>2, <2>3
<1>5. QED
  BY <1>3, <1>4

\* Two tables of running sums of f on 0..n agree: they would differ first
\* at some i > 0, where they agree at i - 1.
LEMMA QSumsUnique ==
    ASSUME NEW f, NEW n \in Nat, NEW t, NEW u,
           QSumsUpTo(t, f, n), QSumsUpTo(u, f, n)
    PROVE  t = u
<1>1. SUFFICES ASSUME \E i \in 0..n : t[i] # u[i] PROVE FALSE
  BY DEF QSumsUpTo
<1> DEFINE T == {j \in 0..n : t[j] # u[j]}
<1>2. PICK k \in T : \A j \in T : k <= j
  BY <1>1, FirstIndex
<1>3. k # 0
  BY <1>2 DEF QSumsUpTo
<1>4. t[k - 1] = u[k - 1]
  BY <1>2, <1>3
<1>5. QED
  BY <1>2, <1>3, <1>4 DEF QSumsUpTo

\* The defining equation of QSum's recursive function.
LEMMA QPartDef ==
    ASSUME NEW f, NEW n \in Nat, \A i \in 1..n : f[i] \in Rat
    PROVE  QSumsUpTo(QPart(f, n), f, n)
<1> DEFINE Eq(t) == t = [i \in 0..n |-> IF i = 0 THEN QZero ELSE QAdd(t[i - 1], f[i])]
           r == QPart(f, n)
<1>1. PICK t : QSumsUpTo(t, f, n)
  BY QSumsExist
<1>2. Eq(t)
  BY <1>1 DEF QSumsUpTo
<1>3. Eq(r)
  BY <1>2 DEF QPart
<1>4. r = t
  <2>1. SUFFICES ASSUME \E k \in 0..n : r[k] # t[k] PROVE FALSE
    BY <1>1, <1>3 DEF QSumsUpTo
  <2> DEFINE T == {j \in 0..n : r[j] # t[j]}
  <2>2. PICK k \in T : \A j \in T : k <= j
    BY <2>1, FirstIndex
  <2>3. k # 0
    BY <1>1, <1>3, <2>2 DEF QSumsUpTo
  <2>4. r[k - 1] = t[k - 1]
    BY <2>2, <2>3
  <2>5. QED
    BY <1>1, <1>3, <2>2, <2>3, <2>4 DEF QSumsUpTo
<1>5. QED
  BY <1>1, <1>4

\* QSum(f, i) is entry i of the table of running sums on any 0..n, i <= n.
LEMMA QSumPrefix ==
    ASSUME NEW f, NEW n \in Nat, \A i \in 1..n : f[i] \in Rat, NEW i \in 0..n
    PROVE  QSum(f, i) = QPart(f, n)[i]
<1> DEFINE r == [k \in 0..i |-> QPart(f, n)[k]]
<1>1. QSumsUpTo(QPart(f, n), f, n)
  BY QPartDef
<1>2. QSumsUpTo(r, f, i)
  BY <1>1 DEF QSumsUpTo
<1>3. QSumsUpTo(QPart(f, i), f, i)
  BY QPartDef
<1>4. QPart(f, i) = r
  BY <1>2, <1>3, QSumsUnique
<1>5. QED
  BY <1>4, QSumIsLast

\* Sums of termwise equal values are equal: the tables would first differ
\* in value at some i > 0, where QAdd is given equal values.
LEMMA QSumCong ==
    ASSUME NEW f, NEW g, NEW n \in Nat,
           \A i \in 1..n : f[i] \in Rat /\ g[i] \in Rat /\ QEq(f[i], g[i])
    PROVE  QEq(QSum(f, n), QSum(g, n))
<1> DEFINE tf == QPart(f, n)
           tg == QPart(g, n)
<1>1. QSumsUpTo(tf, f, n) /\ QSumsUpTo(tg, g, n)
  BY QPartDef
<1>2. SUFFICES \A j \in 0..n : QEq(tf[j], tg[j])
  BY QSumIsLast
<1>3. SUFFICES ASSUME \E j \in 0..n : ~QEq(tf[j], tg[j]) PROVE FALSE
  OBVIOUS
<1> DEFINE T == {j \in 0..n : ~QEq(tf[j], tg[j])}
<1>4. PICK k \in T : \A j \in T : k <= j
  BY <1>3, FirstIndex
<1>5. k # 0
  BY <1>1, QZeroType, QEqRefl DEF QSumsUpTo
<1>6. QEq(tf[k - 1], tg[k - 1])
  BY <1>4, <1>5
<1>7. /\ tf[k] = QAdd(tf[k - 1], f[k]) /\ tg[k] = QAdd(tg[k - 1], g[k])
      /\ tf[k - 1] \in Rat /\ tg[k - 1] \in Rat
  BY <1>1, <1>5 DEF QSumsUpTo
<1>8. QEq(tf[k], tg[k])
  BY <1>5, <1>6, <1>7, QAddCong
<1>9. QED
  BY <1>4, <1>8

\* A common factor comes out of a sum, in value.
LEMMA QSumScale ==
    ASSUME NEW f, NEW c \in Rat, NEW n \in Nat, \A i \in 1..n : f[i] \in Rat
    PROVE  QEq(QSum([i \in 1..n |-> QProd(f[i], c)], n), QProd(QSum(f, n), c))
<1> DEFINE h == [i \in 1..n |-> QProd(f[i], c)]
           th == QPart(h, n)
           tf == QPart(f, n)
<1>1. \A i \in 1..n : h[i] \in Rat
  BY QProdType
<1>2. QSumsUpTo(th, h, n) /\ QSumsUpTo(tf, f, n)
  BY <1>1, QPartDef
<1>3. SUFFICES \A j \in 0..n : QEq(th[j], QProd(tf[j], c))
  BY QSumIsLast
<1>4. SUFFICES ASSUME \E j \in 0..n : ~QEq(th[j], QProd(tf[j], c)) PROVE FALSE
  OBVIOUS
<1> DEFINE T == {j \in 0..n : ~QEq(th[j], QProd(tf[j], c))}
<1>5. PICK k \in T : \A j \in T : k <= j
  BY <1>4, FirstIndex
<1>6. k # 0
  <2>1. th[0] = QZero /\ tf[0] = QZero
    BY <1>2 DEF QSumsUpTo
  <2>2. QEq(QZero, QProd(QZero, c))
    BY DEF QEq, QProd, QZero, Q, Rat
  <2>3. QED
    BY <1>5, <2>1, <2>2
<1>7. /\ QEq(th[k - 1], QProd(tf[k - 1], c))
      /\ th[k] = QAdd(th[k - 1], QProd(f[k], c))
      /\ tf[k] = QAdd(tf[k - 1], f[k])
      /\ th[k - 1] \in Rat /\ tf[k - 1] \in Rat /\ f[k] \in Rat
  BY <1>2, <1>5, <1>6 DEF QSumsUpTo
<1>8. QEq(th[k], QAdd(QProd(tf[k - 1], c), QProd(f[k], c)))
  BY <1>7, QProdType, QAddCong, QEqRefl
<1>9. QEq(QAdd(QProd(tf[k - 1], c), QProd(f[k], c)), QProd(tf[k], c))
  BY <1>7, QAddDistr
<1>10. QEq(th[k], QProd(tf[k], c))
  <2>1. th[k] \in Rat /\ QAdd(QProd(tf[k - 1], c), QProd(f[k], c)) \in Rat
    BY <1>7, QProdType, QAddType
  <2>2. QProd(tf[k], c) \in Rat
    BY <1>7, QAddType, QProdType
  <2>3. QED
    BY <1>8, <1>9, <2>1, <2>2, QEqTrans
<1>11. QED
  BY <1>5, <1>10

\* A sum of rationals is a rational.
LEMMA QSumType ==
    ASSUME NEW f, NEW n \in Nat, \A i \in 1..n : f[i] \in Rat
    PROVE  QSum(f, n) \in Rat
BY QPartDef, QSumIsLast DEF QSumsUpTo

\* Whether a rational exceeds a natural bound depends on its value only.
LEMMA QLtBoundOneWay ==
    ASSUME NEW M \in Nat, NEW b \in Rat, NEW c \in Rat, QEq(b, c), QLt(Q(M), b)
    PROVE  QLt(Q(M), c)
<1>1. /\ b[1] \in Nat /\ b[2] \in Nat \ {0} /\ c[1] \in Nat /\ c[2] \in Nat \ {0}
      /\ b[1] * c[2] = c[1] * b[2] /\ M * b[2] < b[1]
  BY DEF Rat, QEq, QLt, Q
<1>2. (M * c[2]) * b[2] < c[1] * b[2]
  <2>1. (M * b[2]) * c[2] < b[1] * c[2]
    BY <1>1
  <2>2. QED
    BY <1>1, <2>1
<1>3. M * c[2] < c[1]
  BY <1>1, <1>2
<1>4. QED
  BY <1>1, <1>3 DEF QLt, Q

LEMMA QLtBound ==
    ASSUME NEW M \in Nat, NEW b \in Rat, NEW c \in Rat, QEq(b, c)
    PROVE  QLt(Q(M), b) <=> QLt(Q(M), c)
BY QLtBoundOneWay, QEqSym

-----------------------------------------------------------------------------
(***************************************************************************)
(* The factor the second loop scales every block by, squared:              *)
(* (max_grad_norm / norm)^2 when the global norm exceeds the bound, and 1  *)
(* otherwise.  It depends on norm2 alone, which the second loop never      *)
(* writes.                                                                 *)
(***************************************************************************)
Scale == IF QLt(Q(MaxNorm2), norm2) THEN ClipFactor(norm2) ELSE Q(1)

TypeInv ==
    /\ g0 \in [Blocks -> GradNorms]
    /\ g2 \in [Blocks -> Rat]
    /\ norm2 \in Rat
    /\ applied \in [Blocks -> Rat]
    /\ pc \in {"norm", "clip", "done"}
    /\ idx \in 1..(NumBlocks + 1)

(***************************************************************************)
(* The inductive invariant behind ClipKeepsDirection.  In the first loop   *)
(* the blocks before idx hold their mean gradient and the others the       *)
(* gradient of backward; in the second loop the blocks from idx on still   *)
(* hold their mean gradient, and every block before idx has been handed to *)
(* the updater as its mean gradient times the common Scale.                *)
(***************************************************************************)
DirInv ==
    /\ pc = "norm" =>
         \A b \in Blocks : IF b < idx THEN QEq(g2[b], MeanGrad[b])
                                      ELSE g2[b] = Q(g0[b])
    /\ pc # "norm" => \A b \in Blocks : b >= idx => QEq(g2[b], MeanGrad[b])
    /\ pc # "norm" =>
         \A b \in Blocks : b < idx => QEq(applied[b], QProd(MeanGrad[b], Scale))
    /\ pc = "done" => idx = NumBlocks + 1

IInv == TypeInv /\ DirInv

(***************************************************************************)
(* The inductive invariant behind ClipNormIsMin: in the first loop norm2   *)
(* holds the squared norm of the mean gradient of the blocks before idx,   *)
(* and from the end of that loop on, that of all blocks.                   *)
(***************************************************************************)
NormInv ==
    /\ pc = "norm" => QEq(norm2, QSum(MeanGrad, idx - 1))
    /\ pc # "norm" => QEq(norm2, MeanNorm2)

LEMMA MeanGradType ==
    ASSUME TypeInv, NEW b \in Blocks
    PROVE  MeanGrad[b] \in Rat
<1>1. g0[b] \in Nat
  BY DEF TypeInv
<1>2. BatchSize * BatchSize \in Nat \ {0}
  OBVIOUS
<1>3. MeanGrad[b] = <<g0[b], BatchSize * BatchSize>>
  BY DEF MeanGrad
<1>4. QED
  BY <1>1, <1>2, <1>3 DEF Rat

\* The clip factor has a positive denominator: it is used only when the
\* squared norm exceeds max_grad_norm^2 >= 0.
LEMMA ScaleType ==
    ASSUME TypeInv
    PROVE  Scale \in Rat
<1>1. CASE QLt(Q(MaxNorm2), norm2)
  <2>1. norm2[1] > 0
    <3>1. norm2[1] \in Nat /\ norm2[2] \in Nat
      BY DEF TypeInv, Rat
    <3>2. MaxNorm2 * norm2[2] \in Nat
      BY <3>1
    <3>3. MaxNorm2 * norm2[2] < norm2[1] * 1
      BY <1>1 DEF QLt, Q
    <3>4. QED
      BY <3>1, <3>2, <3>3
  <2>2. QED
    BY <1>1, <2>1 DEF Scale, ClipFactor, TypeInv, Rat
<1>2. CASE ~QLt(Q(MaxNorm2), norm2)
  BY <1>2 DEF Scale, Q, Rat
<1>3. QED
  BY <1>1, <1>2

LEMMA IInvInit == Init => IInv
<1> SUFFICES ASSUME Init PROVE IInv
  OBVIOUS
<1>1. TypeInv
  <2>1. \A b \in Blocks : g0[b] \in Nat
    BY DEF Init
  <2>2. g2 \in [Blocks -> Rat]
    BY <2>1 DEF Init, Q, Rat
  <2>3. QZero \in Rat
    BY DEF QZero, Q, Rat
  <2>4. QED
    BY <2>2, <2>3 DEF Blocks, Init, TypeInv
<1>2. DirInv
  BY DEF Blocks, Init, DirInv
<1>3. QED
  BY <1>1, <1>2 DEF IInv

LEMMA IInvStep == IInv /\ [Next]_vars => IInv'
<1> SUFFICES ASSUME IInv, [Next]_vars PROVE IInv'
  OBVIOUS
<1>0. TypeInv /\ DirInv
  BY DEF IInv
<1>1. CASE NormBlock
  <2> DEFINE BB == <<1, BatchSize * BatchSize>>
  <2>1. BB \in Rat /\ g2[idx] \in Rat /\ g2[idx] = Q(g0[idx]) /\ idx \in Blocks
    <3>1. idx \in Blocks /\ pc = "norm"
      BY <1>1 DEF NormBlock
    <3>2. BB \in Rat
      BY DEF Rat
    <3>3. g2[idx] \in Rat
      BY <1>0, <3>1 DEF TypeInv
    <3>4. ~(idx < idx)
      BY <3>1 DEF Blocks
    <3>5. g2[idx] = Q(g0[idx])
      BY <1>0, <3>1, <3>4 DEF DirInv
    <3>6. QED
      BY <3>1, <3>2, <3>3, <3>5
  <2>2. QMul(g2[idx], BB) \in Rat /\ QEq(QProd(g2[idx], BB), QMul(g2[idx], BB))
    BY <2>1, QMulValue
  <2>3. QEq(QMul(g2[idx], BB), MeanGrad[idx])
    <3>1. QEq(MeanGrad[idx], QProd(g2[idx], BB))
      <4>1. MeanGrad[idx] = <<g0[idx], BatchSize * BatchSize>>
        BY <2>1 DEF MeanGrad
      <4>2. QProd(g2[idx], BB) = <<g0[idx] * 1, 1 * (BatchSize * BatchSize)>>
        BY <2>1 DEF QProd, Q
      <4>3. g0[idx] \in Nat
        BY <1>0, <2>1 DEF TypeInv
      <4>4. QED
        BY <4>1, <4>2, <4>3 DEF QEq
    <3>2. QED
      BY <1>0, <2>1, <2>2, <3>1, QProdType, MeanGradType, QEqTrans, QEqSym
  <2>4. TypeInv'
    <3>1. g2' \in [Blocks -> Rat]
      BY <1>0, <1>1, <2>1, <2>2 DEF NormBlock, TypeInv
    <3>2. norm2' \in Rat
      <4>1. norm2' = QAdd(norm2, g2'[idx])
        BY <1>1 DEF NormBlock
      <4>2. QED
        BY <1>0, <2>1, <3>1, <4>1, QAddType DEF TypeInv
    <3>3. idx' \in 1..(NumBlocks + 1)
      BY <1>1, <2>1 DEF NormBlock, Blocks
    <3>4. QED
      BY <1>0, <1>1, <3>1, <3>2, <3>3 DEF NormBlock, TypeInv
  <2>5. DirInv'
    <3>1. /\ pc' = "norm" /\ idx' = idx + 1 /\ g0' = g0
          /\ g2' = [g2 EXCEPT ![idx] = QMul(g2[idx], BB)]
      BY <1>1 DEF NormBlock
    <3>2. MeanGrad' = MeanGrad
      BY <3>1 DEF MeanGrad
    <3>3. ASSUME NEW b \in Blocks
          PROVE  IF b < idx' THEN QEq(g2'[b], MeanGrad'[b])
                             ELSE g2'[b] = Q(g0'[b])
      <4>1. CASE b = idx
        BY <1>0, <2>1, <2>3, <3>1, <3>2, <4>1 DEF TypeInv, Blocks
      <4>2. CASE b < idx
        BY <1>0, <1>1, <3>1, <3>2, <4>2 DEF NormBlock, DirInv, TypeInv, Blocks
      <4>3. CASE b > idx
        BY <1>0, <1>1, <3>1, <4>3 DEF NormBlock, DirInv, TypeInv, Blocks
      <4>4. QED
        BY <2>1, <4>1, <4>2, <4>3 DEF Blocks
    <3>4. QED
      BY <3>1, <3>3 DEF DirInv
  <2>6. QED
    BY <2>4, <2>5 DEF IInv
<1>2. CASE EndNormLoop
  BY <1>0, <1>2 DEF Blocks, EndNormLoop, IInv, TypeInv, DirInv, MeanGrad, Scale
<1>3. CASE ClipBlock
  <2> DEFINE grad == IF QLt(Q(MaxNorm2), norm2)
                        THEN QMul(g2[idx], ClipFactor(norm2))
                        ELSE g2[idx]
  <2>1. /\ applied' = [applied EXCEPT ![idx] = grad]
        /\ g2' = [g2 EXCEPT ![idx] = QZero]
        /\ idx' = idx + 1 /\ idx \in Blocks
        /\ pc = "clip" /\ pc' = pc /\ norm2' = norm2 /\ g0' = g0
    BY <1>3 DEF ClipBlock
  <2>2. Scale' = Scale
    BY <2>1 DEF Scale, ClipFactor
  <2>3. /\ Scale \in Rat /\ g2[idx] \in Rat /\ MeanGrad[idx] \in Rat
        /\ QEq(g2[idx], MeanGrad[idx])
    BY <1>0, <2>1, ScaleType, MeanGradType DEF Blocks, TypeInv, DirInv
  <2>4. grad \in Rat /\ QEq(grad, QProd(MeanGrad[idx], Scale))
    <3>1. CASE QLt(Q(MaxNorm2), norm2)
      <4>1. grad = QMul(g2[idx], Scale) /\ Scale = ClipFactor(norm2)
        BY <3>1 DEF Scale
      <4>2. grad \in Rat /\ QEq(QProd(g2[idx], Scale), grad)
        BY <2>3, <4>1, QMulValue
      <4>3. QEq(QProd(g2[idx], Scale), QProd(MeanGrad[idx], Scale))
        BY <2>3, QProdCong, QEqRefl
      <4>4. QED
        BY <2>3, <4>2, <4>3, QProdType, QEqSym, QEqTrans
    <3>2. CASE ~QLt(Q(MaxNorm2), norm2)
      <4>1. grad = g2[idx] /\ Scale = <<1, 1>>
        BY <3>2 DEF Scale, Q
      <4>2. QEq(MeanGrad[idx], QProd(MeanGrad[idx], Scale))
        BY <2>3, <4>1 DEF QEq, QProd, Rat
      <4>3. QED
        BY <2>3, <4>1, <4>2, QProdType, QEqTrans
    <3>3. QED
      BY <3>1, <3>2
  <2>5. TypeInv'
    <3>1. QZero \in Rat
      BY DEF QZero, Q, Rat
    <3>2. applied' \in [Blocks -> Rat] /\ g2' \in [Blocks -> Rat]
      BY <1>0, <2>1, <2>4, <3>1 DEF TypeInv
    <3>3. idx' \in 1..(NumBlocks + 1)
      BY <2>1 DEF Blocks
    <3>4. QED
      BY <1>0, <1>3, <3>2, <3>3 DEF ClipBlock, TypeInv
  <2>6. DirInv'
    <3>1. \A b \in Blocks : b >= idx' => g2'[b] = g2[b]
      BY <2>1 DEF Blocks
    <3>2. \A b \in Blocks : b < idx' =>
             QEq(applied'[b], QProd(MeanGrad[b], Scale))
      BY <1>0, <2>1, <2>4 DEF Blocks, DirInv, TypeInv
    <3>3. MeanGrad' = MeanGrad
      BY <2>1 DEF MeanGrad
    <3>4. QED
      BY <1>0, <2>1, <2>2, <3>1, <3>2, <3>3 DEF Blocks, DirInv
  <2>7. QED
    BY <2>5, <2>6 DEF IInv
<1>4. CASE EndClipLoop
  BY <1>0, <1>4 DEF Blocks, EndClipLoop, IInv, TypeInv, DirInv, MeanGrad, Scale
<1>5. CASE UNCHANGED vars
  BY <1>0, <1>5 DEF vars, IInv, TypeInv, DirInv, MeanGrad, Scale
<1>6. QED
  BY <1>1, <1>2, <1>3, <1>4, <1>5 DEF Next

\* The block NormBlock has just divided holds its mean gradient, in value.
LEMMA NormBlockMean ==
    ASSUME IInv, NormBlock
    PROVE  /\ idx \in Blocks
           /\ g2'[idx] \in Rat /\ MeanGrad[idx] \in Rat
           /\ QEq(g2'[idx], MeanGrad[idx])
<1> DEFINE BB == <<1, BatchSize * BatchSize>>
<1>1. idx \in Blocks /\ pc = "norm" /\ g2'[idx] = QMul(g2[idx], BB)
  BY DEF NormBlock, IInv, TypeInv, Blocks
<1>2. g2[idx] = Q(g0[idx]) /\ g0[idx] \in Nat /\ BB \in Rat
  <2>1. ~(idx < idx)
    BY <1>1 DEF Blocks
  <2>2. g2[idx] = Q(g0[idx])
    BY <1>1, <2>1 DEF IInv, DirInv
  <2>3. g0[idx] \in Nat
    BY <1>1 DEF IInv, TypeInv
  <2>4. BB \in Rat
    BY DEF Rat
  <2>5. QED
    BY <2>2, <2>3, <2>4
<1>3. g2[idx] \in Rat /\ MeanGrad[idx] \in Rat
  BY <1>1, <1>2, MeanGradType DEF Q, Rat, IInv
<1>4. QMul(g2[idx], BB) \in Rat /\ QEq(QProd(g2[idx], BB), QMul(g2[idx], BB))
  BY <1>2, <1>3, QMulValue
<1>5. QEq(MeanGrad[idx], QProd(g2[idx], BB))
  <2>1. MeanGrad[idx] = <<g0[idx], BatchSize * BatchSize>>
    BY <1>1 DEF MeanGrad
  <2>2. QProd(g2[idx], BB) = <<g0[idx] * 1, 1 * (BatchSize * BatchSize)>>
    BY <1>2 DEF QProd, Q
  <2>3. QED
    BY <1>2, <2>1, <2>2 DEF QEq
<1>6. QED
  BY <1>1, <1>2, <1>3, <1>4, <1>5, QProdType, QEqTrans, QEqSym

\* The mean gradient has rational entries, and its running sums are those
\* of one table on 0..NumBlocks.
LEMMA MeanSums ==
    ASSUME TypeInv
    PROVE  /\ \A i \in 1..NumBlocks : MeanGrad[i] \in Rat
           /\ QSumsUpTo(QPart(MeanGrad, NumBlocks), MeanGrad, NumBlocks)
           /\ \A i \in 0..NumBlocks : QSum(MeanGrad, i) = QPart(MeanGrad, NumBlocks)[i]
<1>1. \A i \in 1..NumBlocks : MeanGrad[i] \in Rat
  BY MeanGradType DEF Blocks
<1>2. QED
  BY <1>1, QPartDef, QSumPrefix

LEMMA NormInvInit == Init => NormInv
<1> SUFFICES ASSUME Init PROVE NormInv
  OBVIOUS
<1>1. TypeInv
  BY IInvInit DEF IInv
<1>2. QSum(MeanGrad, 0) = QZero
  BY <1>1, MeanSums DEF QSumsUpTo
<1>3. QED
  BY <1>2, QZeroType, QEqRefl DEF Init, NormInv

LEMMA NormInvStep == IInv /\ NormInv /\ [Next]_vars => NormInv'
<1> SUFFICES ASSUME IInv, NormInv, [Next]_vars PROVE NormInv'
  OBVIOUS
<1> DEFINE T == QPart(MeanGrad, NumBlocks)
<1>0. /\ QSumsUpTo(T, MeanGrad, NumBlocks)
      /\ \A i \in 0..NumBlocks : QSum(MeanGrad, i) = T[i]
      /\ norm2 \in Rat /\ idx \in 1..(NumBlocks + 1)
  BY MeanSums DEF IInv, TypeInv
<1>1. CASE NormBlock
  <2>1. /\ idx \in Blocks
        /\ g2'[idx] \in Rat /\ MeanGrad[idx] \in Rat
        /\ QEq(g2'[idx], MeanGrad[idx])
    BY <1>1, NormBlockMean
  <2>2. /\ pc = "norm" /\ pc' = "norm" /\ idx' = idx + 1
        /\ norm2' = QAdd(norm2, g2'[idx]) /\ MeanGrad' = MeanGrad
    BY <1>1 DEF NormBlock, MeanGrad
  <2>3. QEq(norm2, T[idx - 1])
    BY <1>0, <2>1, <2>2 DEF NormInv, Blocks
  <2>4. T[idx] = QAdd(T[idx - 1], MeanGrad[idx]) /\ T[idx - 1] \in Rat
    BY <1>0, <2>1 DEF QSumsUpTo, Blocks
  <2>5. QEq(norm2', T[idx])
    BY <1>0, <2>1, <2>2, <2>3, <2>4, QAddCong
  <2>6. QSum(MeanGrad, idx' - 1) = T[idx]
    BY <1>0, <2>1, <2>2 DEF Blocks
  <2>7. QED
    BY <2>2, <2>5, <2>6 DEF NormInv
<1>2. CASE EndNormLoop
  <2>1. /\ pc = "norm" /\ pc' = "clip" /\ idx = NumBlocks + 1
        /\ norm2' = norm2 /\ MeanGrad' = MeanGrad
    BY <1>2 DEF EndNormLoop, MeanGrad
  <2>2. QSum(MeanGrad, idx - 1) = MeanNorm2
    BY <2>1 DEF MeanNorm2
  <2>3. QED
    BY <2>1, <2>2 DEF NormInv, MeanNorm2
<1>3. CASE ClipBlock
  BY <1>3 DEF ClipBlock, NormInv, MeanNorm2, MeanGrad
<1>4. CASE EndClipLoop
  BY <1>4 DEF EndClipLoop, NormInv, MeanNorm2, MeanGrad
<1>5. CASE UNCHANGED vars
  BY <1>5 DEF vars, NormInv, MeanNorm2, MeanGrad
<1>6. QED
  BY <1>1, <1>2, <1>3, <1>4, <1>5 DEF Next

(***************************************************************************)
(* Under the invariants, once the batch's update is done the gradient      *)
(* handed to the updater sums to MeanNorm2 * Scale.  When clipping applies *)
(* Scale is MaxNorm2 / norm2, and norm2 has the value MeanNorm2, so the    *)
(* product is MaxNorm2; otherwise Scale is 1.                              *)
(***************************************************************************)
LEMMA NormFromInv == IInv /\ NormInv => ClipNormIsMin
<1> SUFFICES ASSUME IInv, NormInv, pc = "done"
             PROVE  QEq(QSum(applied, NumBlocks),
                        IF QLt(Q(MaxNorm2), MeanNorm2) THEN Q(MaxNorm2) ELSE MeanNorm2)
  BY DEF ClipNormIsMin
<1> DEFINE h == [i \in 1..NumBlocks |-> QProd(MeanGrad[i], Scale)]
           m == MeanNorm2
<1>1. /\ Scale \in Rat /\ norm2 \in Rat
      /\ \A i \in 1..NumBlocks : MeanGrad[i] \in Rat /\ applied[i] \in Rat
  BY ScaleType, MeanSums DEF IInv, TypeInv, Blocks
<1>2. m \in Rat /\ QEq(norm2, m)
  BY <1>1, QSumType DEF NormInv, MeanNorm2
<1>3. \A i \in 1..NumBlocks : h[i] \in Rat /\ QEq(applied[i], h[i])
  <2>1. idx = NumBlocks + 1
    BY DEF IInv, DirInv
  <2>2. QED
    BY <1>1, <2>1, QProdType DEF IInv, DirInv, Blocks
<1>4. QSum(applied, NumBlocks) \in Rat /\ QSum(h, NumBlocks) \in Rat
  BY <1>1, <1>3, QSumType
<1>5. QEq(QSum(applied, NumBlocks), QProd(m, Scale))
  <2>1. QEq(QSum(applied, NumBlocks), QSum(h, NumBlocks))
    BY <1>1, <1>3, QSumCong
  <2>2. QEq(QSum(h, NumBlocks), QProd(m, Scale))
    BY <1>1, QSumScale DEF MeanNorm2
  <2>3. QED
    BY <1>1, <1>2, <1>4, <2>1, <2>2, QProdType, QEqTrans
<1>6. CASE QLt(Q(MaxNorm2), norm2)
  <2>1. QLt(Q(MaxNorm2), m)
    BY <1>1, <1>2, <1>6, QLtBound
  <2>2. Scale = <<MaxNorm2 * norm2[2], norm2[1]>>
    BY <1>6 DEF Scale, ClipFactor
  <2>3. QEq(QProd(m, Scale), Q(MaxNorm2))
    <3>1. norm2[1] * m[2] = m[1] * norm2[2]
      BY <1>2 DEF QEq
    <3>2. (m[1] * (MaxNorm2 * norm2[2])) * 1 = MaxNorm2 * (m[2] * norm2[1])
      BY <1>1, <1>2, <3>1 DEF Rat
    <3>3. QED
      BY <2>2, <3>2 DEF QProd, QEq, Q
  <2>4. Q(MaxNorm2) \in Rat /\ QProd(m, Scale) \in Rat
    BY <1>1, <1>2, QProdType DEF Q, Rat
  <2>5. QEq(QSum(applied, NumBlocks), Q(MaxNorm2))
    BY <1>4, <1>5, <2>3, <2>4, QEqTrans
  <2>6. QED
    BY <2>1, <2>5
<1>7. CASE ~QLt(Q(MaxNorm2), norm2)
  <2>1. ~QLt(Q(MaxNorm2), m)
    BY <1>1, <1>2, <1>7, QLtBound
  <2>2. QProd(m, Scale) = m
    BY <1>2, <1>7 DEF Scale, Q, QProd, Rat
  <2>3. QED
    BY <1>5, <2>1, <2>2
<1>8. QED
  BY <1>6, <1>7

LEMMA DirectionFromInv == IInv => ClipKeepsDirection
<1> SUFFICES ASSUME IInv, pc = "done", NEW b \in Blocks, NEW c \in Blocks
             PROVE  QEq(QMul(applied[b], MeanGrad[c]), QMul(applied[c], MeanGrad[b]))
  BY DEF ClipKeepsDirection
<1> DEFINE Mb == MeanGrad[b]
           Mc == MeanGrad[c]
           Ab == applied[b]
           Ac == applied[c]
<1>1. /\ Scale \in Rat /\ Mb \in Rat /\ Mc \in Rat /\ Ab \in Rat /\ Ac \in Rat
  BY ScaleType, MeanGradType DEF IInv, TypeInv
<1>2. QEq(Ab, QProd(Mb, Scale)) /\ QEq(Ac, QProd(Mc, Scale))
  <2>1. b < idx /\ c < idx
    BY DEF IInv, DirInv, Blocks
  <2>2. QED
    BY <2>1 DEF IInv, DirInv
\* Each side is, in value, the product of both mean gradients and Scale.
<1>3. QEq(QMul(Ab, Mc), QProd(QProd(Mb, Scale), Mc))
  <2>1. QEq(QMul(Ab, Mc), QProd(Ab, Mc))
    BY <1>1, QMulValue, QProdType, QEqSym
  <2>2. QEq(QProd(Ab, Mc), QProd(QProd(Mb, Scale), Mc))
    BY <1>1, <1>2, QProdType, QProdCong, QEqRefl
  <2>3. QED
    BY <1>1, <2>1, <2>2, QMulValue, QProdType, QEqTrans
<1>4. QEq(QMul(Ac, Mb), QProd(QProd(Mc, Scale), Mb))
  <2>1. QEq(QMul(Ac, Mb), QProd(Ac, Mb))
    BY <1>1, QMulValue, QProdType, QEqSym
  <2>2. QEq(QProd(Ac, Mb), QProd(QProd(Mc, Scale), Mb))
    BY <1>1, <1>2, QProdType, QProdCong, QEqRefl
  <2>3. QED
    BY <1>1, <2>1, <2>2, QMulValue, QProdType, QEqTrans
<1>5. QProd(QProd(Mb, Scale), Mc) = QProd(QProd(Mc, Scale), Mb)
  BY <1>1 DEF QProd, Rat
<1>6. QED
  BY <1>1, <1>3, <1>4, <1>5, QMulValue, QProdType, QEqSym, QEqTrans

(***************************************************************************)
(* Global-norm clipping in TrainModel keeps the direction of the batch's   *)
(* mean gradient, for every number of parameter blocks, batch size,        *)
(* max_grad_norm and gradient: the norm is summed over all blocks before   *)
(* any block is scaled, so every block is scaled by the same factor.       *)
(***************************************************************************)
THEOREM ClipKeepsDirectionCorrect == Spec => []ClipKeepsDirection
BY IInvInit, IInvStep, DirectionFromInv, PTL DEF Spec

(***************************************************************************)
(* For every number of blocks, batch size, max_grad_norm and gradient, the *)
(* gradient TrainModel hands to the updater has squared global norm        *)
(* min(norm of the batch's mean gradient, max_grad_norm)^2: the norm is    *)
(* summed over every divided block before any block is scaled.             *)
(***************************************************************************)
THEOREM ClipNormIsMinCorrect == Spec => []ClipNormIsMin
<1>1. Init => IInv /\ NormInv
  BY IInvInit, NormInvInit
<1>2. IInv /\ NormInv /\ [Next]_vars => IInv' /\ NormInv'
  BY IInvStep, NormInvStep
<1>3. QED
  BY <1>1, <1>2, NormFromInv, PTL DEF Spec
=============================================================================
