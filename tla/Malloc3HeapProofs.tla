-------------------------- MODULE Malloc3HeapProofs --------------------------
(***************************************************************************)
(* First the arithmetic of buddies, for every ORDER_SIZE, META and         *)
(* MAX_ORDER: multiples, alignment, siblings, tight orders (2^k is used    *)
(* only through DoublingAssumption).  Then what each operation of          *)
(* malloc_3.cpp does to the heap, one lemma each: popping, marking free,   *)
(* taking back, splitting, merging, mapping and the first allocation all   *)
(* keep HeapOK (the blocks tile the arena, the lists hold the free ones),  *)
(* for every number of orders and of top blocks.                           *)
(***************************************************************************)
EXTENDS Malloc3, FiniteSums

----------------------------------------------------------------------------
(* The arithmetic of buddies.                                              *)

(* Min returns the least member. *)
LEMMA MinIsLeast ==
  ASSUME NEW S, S \subseteq Nat, S # {}
  PROVE  Min(S) \in S /\ \A y \in S : Min(S) <= y
BY LeastNat DEF Min

LEMMA MinMaxOfTwo ==
  ASSUME NEW a \in Nat, NEW b \in Nat, a < b
  PROVE  Min({a, b}) = a /\ Max({a, b}) = b
<1>1. /\ a \in {a, b} /\ \A y \in {a, b} : a <= y
      /\ b \in {a, b} /\ \A y \in {a, b} : b >= y
  OBVIOUS
<1>2. \A x \in {a, b} : /\ (\A y \in {a, b} : x <= y) => x = a
                       /\ (\A y \in {a, b} : x >= y) => x = b
  OBVIOUS
<1> QED
  BY <1>1, <1>2 DEF Min, Max

----------------------------------------------------------------------------
(* Multiples, with their quotient named.                                   *)

LEMMA Quotient ==
  ASSUME NEW d \in Nat \ {0}, NEW a \in Nat, a % d = 0
  PROVE  a \div d \in Nat /\ a = d * (a \div d)
OBVIOUS

LEMMA MultipleOf ==
  ASSUME NEW d \in Nat \ {0}, NEW q \in Nat
  PROVE  (d * q) % d = 0 /\ (d * q) \div d = q
OBVIOUS

(* Multiples of a multiple. *)
LEMMA MultipleTrans ==
  ASSUME NEW d \in Nat \ {0}, NEW e \in Nat \ {0}, NEW a \in Nat,
         e % d = 0, a % e = 0
  PROVE  a % d = 0
<1> DEFINE q == e \div d
           r == a \div e
<1>1. q \in Nat /\ e = d * q
  BY Quotient
<1>2. r \in Nat /\ a = e * r
  BY Quotient
<1>3. a = d * (q * r) /\ q * r \in Nat
  <2> HIDE DEF q, r
  <2> QED BY <1>1, <1>2
<1> HIDE DEF q, r
<1> QED
  BY <1>3, MultipleOf

LEMMA MultipleSum ==
  ASSUME NEW d \in Nat \ {0}, NEW a \in Nat, NEW b \in Nat, a % d = 0, b % d = 0
  PROVE  (a + b) % d = 0 /\ (a >= b => (a - b) % d = 0)
<1> DEFINE q == a \div d
           r == b \div d
<1>1. q \in Nat /\ a = d * q
  BY Quotient
<1>2. r \in Nat /\ b = d * r
  BY Quotient
<1> HIDE DEF q, r
<1>3. a + b = d * (q + r) /\ q + r \in Nat
  BY <1>1, <1>2
<1>4. (a + b) % d = 0
  BY <1>3, MultipleOf
<1>5. ASSUME a >= b PROVE (a - b) % d = 0
  <2>1. a - b = d * (q - r)
    BY <1>1, <1>2
  <2>2. q - r \in Nat
    <3>1. d * q >= d * r
      BY <1>1, <1>2, <1>5
    <3>2. q >= r
      BY <3>1, <1>1, <1>2
    <3> QED
      BY <3>2, <1>1, <1>2
  <2> QED
    BY <2>1, <2>2, MultipleOf
<1> QED
  BY <1>4, <1>5

(* Two multiples less than a step apart are equal. *)
LEMMA MultiplesApart ==
  ASSUME NEW d \in Nat \ {0}, NEW a \in Nat, NEW b \in Nat, a % d = 0, b % d = 0,
         a < b
  PROVE  a + d <= b
<1> DEFINE q == a \div d
           r == b \div d
<1>1. q \in Nat /\ a = d * q
  BY Quotient
<1>2. r \in Nat /\ b = d * r
  BY Quotient
<1> HIDE DEF q, r
<1>3. q < r
  <2>1. SUFFICES ASSUME r <= q PROVE FALSE
    BY <1>1, <1>2
  <2>2. d * r <= d * q
    BY <2>1, <1>1, <1>2
  <2> QED
    BY <2>2, <1>1, <1>2
<1>4. d * (q + 1) <= d * r
  BY <1>3, <1>1, <1>2
<1>5. d * (q + 1) = d * q + d
  BY <1>1
<1> QED
  BY <1>1, <1>2, <1>4, <1>5

(* Rounding down to a multiple. *)
LEMMA RoundDown ==
  ASSUME NEW d \in Nat \ {0}, NEW a \in Nat
  PROVE  /\ a - (a % d) \in Nat
         /\ (a - (a % d)) % d = 0
         /\ a - (a % d) <= a /\ a < a - (a % d) + d
<1> DEFINE q == a \div d
<1>1. q \in Nat /\ a % d \in 0 .. d - 1 /\ a = d * q + (a % d)
  OBVIOUS
<1>2. a - (a % d) = d * q
  BY <1>1
<1> HIDE DEF q
<1>3. d * q \in Nat
  BY <1>1
<1>5. (d * q) % d = 0
  BY <1>1, MultipleOf
<1>4. d * q <= a /\ a < d * q + d
  BY <1>1
<1> QED
  BY <1>2, <1>3, <1>4, <1>5

----------------------------------------------------------------------------
(* Block sizes.                                                            *)

LEMMA OrderSizeType ==
  ASSUME NEW k \in Orders
  PROVE  /\ getOrderSize(k) \in Nat \ {0}
         /\ k < MAX_ORDER => /\ k + 1 \in Orders
                             /\ getOrderSize(k + 1) = 2 * getOrderSize(k)
<1> DEFINE Bad == {i \in Orders : getOrderSize(i) = 0}
<1>1. Orders \subseteq Nat /\ 0 \in Orders
  BY GeometryAssumption DEF Orders
<1>2. Bad = {}
  <2>1. SUFFICES ASSUME Bad # {} PROVE FALSE
    OBVIOUS
  <2>2. PICK i \in Bad : \A j \in Bad : i <= j
    BY <1>1, <2>1, LeastNat
  <2>3. i # 0
    BY <2>2, DoublingAssumption, GeometryAssumption
  <2>4. i - 1 \in Orders /\ getOrderSize(i) = 2 * getOrderSize(i - 1)
    <3>1. i - 1 \in Orders /\ (i - 1) + 1 = i
      BY <2>2, <2>3, GeometryAssumption DEF Orders
    <3> QED
      BY <3>1, DoublingAssumption
  <2>5. getOrderSize(i - 1) \in Nat /\ getOrderSize(i) = 0
    BY <2>2, <2>4, DoublingAssumption
  <2>6. i - 1 \in Bad
    BY <2>4, <2>5
  <2> QED
    BY <2>2, <2>6, <1>1
<1>3. getOrderSize(k) \in Nat \ {0}
  BY <1>2, DoublingAssumption
<1>4. k < MAX_ORDER => k + 1 \in Orders
  BY GeometryAssumption DEF Orders
<1> QED
  BY <1>3, <1>4, DoublingAssumption

(* The size of a lower order divides that of a higher one. *)
LEMMA OrderSizeDivides ==
  ASSUME NEW j \in Orders, NEW k \in Orders, j <= k
  PROVE  getOrderSize(k) % getOrderSize(j) = 0
<1> DEFINE Bad == {i \in Orders : j <= i /\ getOrderSize(i) % getOrderSize(j) # 0}
<1>1. Orders \subseteq Nat
  BY GeometryAssumption DEF Orders
<1>2. SUFFICES ASSUME Bad # {} PROVE FALSE
  OBVIOUS
<1>3. PICK i \in Bad : \A m \in Bad : i <= m
  BY <1>1, <1>2, LeastNat
<1>4. getOrderSize(j) \in Nat \ {0}
  BY OrderSizeType
<1>5. i # j
  <2>1. getOrderSize(j) % getOrderSize(j) = 0
    <3>1. getOrderSize(j) = getOrderSize(j) * 1
      BY <1>4
    <3> QED
      BY <3>1, <1>4, MultipleOf
  <2> QED
    BY <1>3, <2>1
<1>6. i - 1 \in Orders /\ j <= i - 1 /\ i - 1 < MAX_ORDER /\ (i - 1) + 1 = i
  BY <1>3, <1>5, GeometryAssumption DEF Orders
<1>7. i - 1 \notin Bad
  BY <1>3, <1>6, <1>1
<1>8. getOrderSize(i - 1) % getOrderSize(j) = 0
  BY <1>6, <1>7
<1>9. getOrderSize(i - 1) \in Nat /\ getOrderSize(i) = 2 * getOrderSize(i - 1)
  BY <1>6, OrderSizeType
<1>10. getOrderSize(i) = getOrderSize(i - 1) + getOrderSize(i - 1)
  BY <1>9
<1>11. getOrderSize(i) % getOrderSize(j) = 0
  BY <1>4, <1>8, <1>9, <1>10, MultipleSum
<1> QED
  BY <1>3, <1>11

(* Sizes grow strictly with the order. *)
LEMMA OrderSizeGrows ==
  ASSUME NEW j \in Orders, NEW k \in Orders, j < k
  PROVE  2 * getOrderSize(j) <= getOrderSize(k)
<1>1. j + 1 \in Orders /\ j + 1 <= k /\ j < MAX_ORDER
  BY GeometryAssumption DEF Orders
<1>2. getOrderSize(k) % getOrderSize(j + 1) = 0
  BY <1>1, OrderSizeDivides
<1>3. /\ getOrderSize(k) \in Nat \ {0}
      /\ getOrderSize(j + 1) \in Nat \ {0}
      /\ getOrderSize(j + 1) = 2 * getOrderSize(j)
  BY <1>1, OrderSizeType
<1>4. 0 + getOrderSize(j + 1) <= getOrderSize(k)
  <2>1. 0 % getOrderSize(j + 1) = 0 /\ 0 < getOrderSize(k)
    BY <1>3
  <2> QED
    BY <1>2, <1>3, <2>1, MultiplesApart
<1> QED
  BY <1>3, <1>4

(* The payload of an order is positive and names the order. *)
LEMMA PayloadType ==
  ASSUME NEW k \in Orders
  PROVE  /\ Payload(k) \in Nat \ {0}
         /\ \A j \in Orders : Payload(j) = Payload(k) => j = k
         /\ \A j \in Orders : (Payload(j) < Payload(k)) <=> (j < k)
<1>1. ORDER_SIZE <= getOrderSize(k)
  <2>1. 0 \in Orders /\ (k = 0 \/ 0 < k)
    BY GeometryAssumption DEF Orders
  <2>2. CASE k = 0
    BY <2>2, DoublingAssumption, GeometryAssumption
  <2>3. CASE 0 < k
    <3>1. 2 * getOrderSize(0) <= getOrderSize(k)
      BY <2>1, <2>3, OrderSizeGrows
    <3> QED
      BY <3>1, <2>1, OrderSizeType, DoublingAssumption, GeometryAssumption
  <2> QED
    BY <2>1, <2>2, <2>3
<1>2. getOrderSize(k) \in Nat
  BY OrderSizeType
<1>3. \A j \in Orders : j < k => getOrderSize(j) < getOrderSize(k)
  BY <1>2, OrderSizeGrows, OrderSizeType
<1>4. \A j \in Orders : k < j => getOrderSize(k) < getOrderSize(j)
  BY <1>2, OrderSizeGrows, OrderSizeType
<1>5. \A j \in Orders : getOrderSize(j) \in Nat
  BY OrderSizeType
<1>6. Orders \subseteq Nat
  BY GeometryAssumption DEF Orders
<1> QED
  BY <1>1, <1>2, <1>3, <1>4, <1>5, <1>6, GeometryAssumption DEF Payload

(* findTightOrder answers the lowest order that holds n. *)
LEMMA TightOrder ==
  ASSUME NEW n \in Nat
  PROVE  /\ findTightOrder(n) \in Orders
         /\ n <= Payload(MAX_ORDER) => n <= Payload(findTightOrder(n))
         /\ \A j \in Orders : j < findTightOrder(n) => n > Payload(j)
<1> DEFINE S == {k \in Orders : n <= Payload(k)} \cup {MAX_ORDER}
<1>1. S \subseteq Orders /\ Orders \subseteq Nat /\ S # {} /\ MAX_ORDER \in Orders
  BY GeometryAssumption DEF Orders
<1>2. Min(S) \in S /\ \A y \in S : Min(S) <= y
  BY <1>1, MinIsLeast
<1>3. findTightOrder(n) = Min(S)
  BY DEF findTightOrder
<1>4. \A j \in Orders : Payload(j) \in Nat
  BY PayloadType
<1>5. ASSUME NEW j \in Orders, j < Min(S) PROVE n > Payload(j)
  <2>1. j \notin S
    <3> HIDE DEF S
    <3>1. Min(S) \in Nat /\ j \in Nat
      BY <1>1, <1>2
    <3>2. j \in S => Min(S) <= j
      BY <1>2
    <3> QED
      BY <1>5, <3>1, <3>2
  <2> QED
    BY <2>1, <1>4
<1>6. n <= Payload(MAX_ORDER) => n <= Payload(Min(S))
  BY <1>2
<1> HIDE DEF S
<1> QED
  BY <1>1, <1>2, <1>3, <1>5, <1>6

(* The order of a block is read back from its size field. *)
LEMMA TightOrderOfPayload ==
  ASSUME NEW k \in Orders
  PROVE  findTightOrder(Payload(k)) = k
<1>1. Payload(k) \in Nat /\ MAX_ORDER \in Orders /\ Orders \subseteq Nat
  BY PayloadType, GeometryAssumption DEF Orders
<1>2. Payload(k) <= Payload(MAX_ORDER)
  <2>1. ~ (MAX_ORDER < k)
    BY GeometryAssumption DEF Orders
  <2>2. ~ (Payload(MAX_ORDER) < Payload(k))
    BY <2>1, <1>1, PayloadType
  <2> QED
    BY <2>2, <1>1, PayloadType
<1> DEFINE t == findTightOrder(Payload(k))
<1>3. t \in Orders /\ Payload(k) <= Payload(t)
      /\ \A j \in Orders : j < t => Payload(k) > Payload(j)
  BY <1>1, <1>2, TightOrder
<1> HIDE DEF t
<1>4. Payload(t) \in Nat /\ t \in Nat /\ k \in Nat
  BY <1>1, <1>3, PayloadType
<1>5. ~ (t < k)
  BY <1>1, <1>3, <1>4, PayloadType
<1>6. ~ (k < t)
  BY <1>1, <1>3
<1>7. t = k
  BY <1>4, <1>5, <1>6
<1> QED
  BY <1>7 DEF t

----------------------------------------------------------------------------
(* Ancestors and buddies.                                                  *)

LEMMA AncestorType ==
  ASSUME NEW k \in Orders, NEW a \in Nat
  PROVE  /\ Ancestor(a, k) \in Nat
         /\ Ancestor(a, k) % getOrderSize(k) = 0
         /\ Ancestor(a, k) <= a /\ a < Ancestor(a, k) + getOrderSize(k)
BY OrderSizeType, RoundDown DEF Ancestor

(* The ancestor is the one aligned region of its order that holds a. *)
LEMMA AncestorUnique ==
  ASSUME NEW k \in Orders, NEW a \in Nat, NEW c \in Nat,
         c % getOrderSize(k) = 0, c <= a, a < c + getOrderSize(k)
  PROVE  Ancestor(a, k) = c
<1> DEFINE s == getOrderSize(k)
           A == Ancestor(a, k)
<1>1. s \in Nat \ {0} /\ A \in Nat /\ A % s = 0 /\ A <= a /\ a < A + s
  BY OrderSizeType, AncestorType
<1>2. c % s = 0 /\ a < c + s
  OBVIOUS
<1> HIDE DEF s, A
<1>3. ~ (A < c)
  <2>1. SUFFICES ASSUME A < c PROVE FALSE
    OBVIOUS
  <2>2. A + s <= c
    BY <1>1, <1>2, <2>1, MultiplesApart
  <2> QED
    BY <1>1, <1>2, <2>2
<1>4. ~ (c < A)
  <2>1. SUFFICES ASSUME c < A PROVE FALSE
    OBVIOUS
  <2>2. c + s <= A
    BY <1>1, <1>2, <2>1, MultiplesApart
  <2> QED
    BY <1>1, <1>2, <2>2
<1>5. A = c
  BY <1>1, <1>3, <1>4
<1> QED
  BY <1>5 DEF A

(* A block that is aligned to its own size holds the whole ancestor, of an *)
(* order not above its own, of each of its addresses.                      *)
LEMMA Nested ==
  ASSUME NEW j \in Orders, NEW k \in Orders, j <= k,
         NEW c \in Nat, c % getOrderSize(k) = 0,
         NEW a \in Nat, c <= a, a < c + getOrderSize(k)
  PROVE  /\ c % getOrderSize(j) = 0
         /\ c <= Ancestor(a, j)
         /\ Ancestor(a, j) + getOrderSize(j) <= c + getOrderSize(k)
<1> DEFINE s == getOrderSize(j)
           t == getOrderSize(k)
           A == Ancestor(a, j)
<1>1. s \in Nat \ {0} /\ t \in Nat \ {0} /\ t % s = 0
  BY OrderSizeType, OrderSizeDivides
<1>2. A \in Nat /\ A % s = 0 /\ A <= a /\ a < A + s
  BY AncestorType
<1>3. c % t = 0 /\ a < c + t
  OBVIOUS
<1> HIDE DEF s, t, A
<1>4. c % s = 0
  BY <1>1, <1>3, MultipleTrans
<1>5. ~ (A < c)
  <2>1. SUFFICES ASSUME A < c PROVE FALSE
    OBVIOUS
  <2>2. A + s <= c
    BY <1>1, <1>2, <1>4, <2>1, MultiplesApart
  <2> QED
    BY <1>1, <1>2, <2>2
<1>6. (c + t) % s = 0 /\ c + t \in Nat
  <2>1. s \in Nat \ {0} /\ t \in Nat /\ t % s = 0
    BY <1>1
  <2>2. (c + t) % s = 0
    BY <1>4, <2>1, MultipleSum
  <2> QED
    BY <2>1, <2>2
<1>7. A < c + t
  BY <1>1, <1>2, <1>3
<1>8. A + s <= c + t
  BY <1>1, <1>2, <1>6, <1>7, MultiplesApart
<1>9. c % s = 0 /\ c <= A /\ A + s <= c + t
  BY <1>2, <1>4, <1>5, <1>8
<1> QED
  BY <1>9 DEF s, t, A

(* Toggling the bit of an aligned block's size: the other half of the      *)
(* aligned block of twice the size.                                        *)
LEMMA ToggleBit ==
  ASSUME NEW s \in Nat \ {0}, NEW a \in Nat, a % s = 0,
         NEW b, b = findBuddyAddressBySize(a, s)
  PROVE  /\ b \in Nat /\ b % s = 0
         /\ \/ b = a + s /\ a % (2 * s) = 0
            \/ a = b + s /\ b % (2 * s) = 0
<1> DEFINE q == a \div s
<1>1. q \in Nat /\ a = s * q
  BY Quotient
<1>2. b = IF q % 2 = 0 THEN a + s ELSE a - s
  BY DEF findBuddyAddressBySize
<1> HIDE DEF q
<1>3. 2 * s \in Nat \ {0}
  OBVIOUS
<1>4. CASE q % 2 = 0
  <2>1. PICK r \in Nat : q = 2 * r
    BY <1>1, <1>4
  <2>2. a = (2 * s) * r
    BY <1>1, <2>1
  <2>3. ((2 * s) * r) % (2 * s) = 0
    BY <1>3, <2>1, MultipleOf
  <2>4. b = a + s
    BY <1>2, <1>4
  <2>5. s % s = 0 /\ (a + s) % s = 0
    <3>1. s % s = 0
      BY MultipleOf
    <3> QED
      BY <3>1, MultipleSum
  <2> QED
    BY <2>2, <2>3, <2>4, <2>5
<1>5. CASE q % 2 # 0
  <2>1. PICK r \in Nat : q = 2 * r + 1
    BY <1>1, <1>5
  <2>2. a = (2 * s) * r + s
    BY <1>1, <2>1
  <2>3. b = a - s
    BY <1>2, <1>5
  <2>4. b = (2 * s) * r
    BY <2>2, <2>3
  <2>5. ((2 * s) * r) % (2 * s) = 0 /\ (2 * s) * r \in Nat
    <3>1. ((2 * s) * r) % (2 * s) = 0
      BY <1>3, <2>1, MultipleOf
    <3>2. (2 * s) * r \in Nat
      BY <2>1
    <3> QED
      BY <3>1, <3>2
  <2>6. b = s * (2 * r)
    BY <2>1, <2>4
  <2>7. (s * (2 * r)) % s = 0
    BY <2>1, MultipleOf
  <2>8. b \in Nat /\ b % s = 0 /\ b % (2 * s) = 0
    BY <2>4, <2>5, <2>6, <2>7
  <2>9. a = b + s
    BY <2>3, <2>8
  <2> QED
    BY <2>8, <2>9
<1> QED
  BY <1>1, <1>4, <1>5

(* Toggling it again gives the block back: buddies come in pairs.          *)
LEMMA ToggleBack ==
  ASSUME NEW s \in Nat \ {0}, NEW a \in Nat, a % s = 0,
         NEW b, b = findBuddyAddressBySize(a, s)
  PROVE  b \in Nat /\ a = findBuddyAddressBySize(b, s) /\ a # b
<1>1. ASSUME NEW x \in Nat, NEW y \in Nat, x % (2 * s) = 0, y % (2 * s) = 0, y = x + s
      PROVE  FALSE
  <2>1. 2 * s \in Nat \ {0} /\ x < y
    BY <1>1
  <2>2. x + 2 * s <= y
    BY <1>1, <2>1, MultiplesApart
  <2> QED
    BY <1>1, <2>2
<1> DEFINE Even(x) == x % (2 * s) = 0
<1>2. PICK c : c = findBuddyAddressBySize(b, s)
  OBVIOUS
<1>3. b \in Nat /\ b % s = 0 /\ ((b = a + s /\ Even(a)) \/ (a = b + s /\ Even(b)))
  BY ToggleBit
<1>4. c \in Nat /\ ((c = b + s /\ Even(b)) \/ (b = c + s /\ Even(c)))
  BY <1>2, <1>3, ToggleBit
<1>5. \A x, y \in Nat : Even(x) /\ Even(y) => y # x + s
  BY <1>1
<1> HIDE DEF Even
<1>6. c = a /\ a # b
  <2>1. CASE b = a + s /\ Even(a)
    <3>1. ~Even(b)
      BY <1>3, <1>5, <2>1
    <3> QED
      BY <1>4, <2>1, <3>1
  <2>2. CASE a = b + s /\ Even(b)
    <3>1. ~Even(c) \/ b # c + s
      BY <1>3, <1>4, <1>5, <2>2
    <3>2. c = b + s
      BY <1>4, <3>1
    <3> QED
      BY <1>3, <2>2, <3>2
  <2> QED
    BY <1>3, <2>1, <2>2
<1> QED
  BY <1>2, <1>3, <1>6

(* The right half of an aligned block of twice the size has the left as    *)
(* its buddy.                                                              *)
LEMMA RightHalf ==
  ASSUME NEW s \in Nat \ {0}, NEW a \in Nat, a % (2 * s) = 0
  PROVE  (a + s) % s = 0 /\ findBuddyAddressBySize(a + s, s) = a
<1>1. 2 * s \in Nat \ {0} /\ (2 * s) % s = 0
  <2>1. (s * 2) % s = 0
    BY MultipleOf
  <2> QED
    BY <2>1
<1>2. a % s = 0
  BY <1>1, MultipleTrans
<1>3. PICK b : b = findBuddyAddressBySize(a, s)
  OBVIOUS
<1>4. b \in Nat /\ b % s = 0 /\ a = findBuddyAddressBySize(b, s)
  BY <1>2, <1>3, ToggleBack, ToggleBit
<1>5. b = a + s
  <2> SUFFICES ASSUME a = b + s, b % (2 * s) = 0 PROVE FALSE
    BY <1>2, <1>3, ToggleBit
  <2>1. b < a
    BY <1>4
  <2>2. b + 2 * s <= a
    BY <1>1, <1>4, <2>1, MultiplesApart
  <2> QED
    BY <1>4, <2>2
<1> QED
  BY <1>4, <1>5

(* The buddy at order k of what holds a: together they are the ancestor at *)
(* order k + 1.                                                            *)
LEMMA Siblings ==
  ASSUME NEW k \in Orders, k < MAX_ORDER, NEW a \in Nat,
         NEW b, b = findBuddyAddressBySize(Ancestor(a, k), getOrderSize(k))
  PROVE  /\ b \in Nat /\ b % getOrderSize(k) = 0
         /\ \/ b = Ancestor(a, k) + getOrderSize(k) /\ Ancestor(a, k + 1) = Ancestor(a, k)
            \/ Ancestor(a, k) = b + getOrderSize(k) /\ Ancestor(a, k + 1) = b
<1> DEFINE s == getOrderSize(k)
           A == Ancestor(a, k)
<1>1. /\ s \in Nat \ {0} /\ k + 1 \in Orders /\ getOrderSize(k + 1) = 2 * s
      /\ A \in Nat /\ A % s = 0 /\ A <= a /\ a < A + s
  BY OrderSizeType, AncestorType
<1>2. b = findBuddyAddressBySize(A, s)
  OBVIOUS
<1> HIDE DEF s, A
<1>3. /\ b \in Nat /\ b % s = 0
      /\ \/ b = A + s /\ A % (2 * s) = 0
         \/ A = b + s /\ b % (2 * s) = 0
  BY <1>1, <1>2, ToggleBit
<1>4. CASE b = A + s /\ A % (2 * s) = 0
  <2>1. A % getOrderSize(k + 1) = 0 /\ A <= a /\ a < A + getOrderSize(k + 1)
    BY <1>1, <1>4
  <2>2. Ancestor(a, k + 1) = A
    BY <1>1, <2>1, AncestorUnique
  <2> QED
    BY <1>3, <1>4, <2>2 DEF s, A
<1>5. CASE A = b + s /\ b % (2 * s) = 0
  <2>1. b % getOrderSize(k + 1) = 0 /\ b <= a /\ a < b + getOrderSize(k + 1)
    BY <1>1, <1>3, <1>5
  <2>2. Ancestor(a, k + 1) = b
    BY <1>1, <1>3, <2>1, AncestorUnique
  <2> QED
    BY <1>3, <1>5, <2>2 DEF s, A
<1> QED
  BY <1>3, <1>4, <1>5

----------------------------------------------------------------------------
(* The arena and its block sizes.                                          *)

LEMMA OrdersType ==
  /\ Orders \subseteq Nat /\ MAX_ORDER \in Orders /\ 0 \in Orders
  /\ ORDER_SIZE \in Nat \ {0} /\ META \in Nat
BY GeometryAssumption DEF Orders

(* Every block size is a multiple of the smallest one. *)
LEMMA SmallestDivides ==
  ASSUME NEW k \in Orders
  PROVE  getOrderSize(k) % ORDER_SIZE = 0
<1>1. 0 \in Orders /\ 0 <= k
  BY OrdersType
<1>2. getOrderSize(k) % getOrderSize(0) = 0
  BY <1>1, OrderSizeDivides
<1> QED
  BY <1>2, DoublingAssumption

LEMMA DivisorType ==
  /\ PROGRAM_BREAK_DIVISOR \in Nat \ {0}
  /\ MAX_ORDER_BLOCK_SIZE \in Nat \ {0}
  /\ MAX_ORDER_BLOCK_SIZE = getOrderSize(MAX_ORDER)
  /\ PROGRAM_BREAK_DIVISOR % MAX_ORDER_BLOCK_SIZE = 0
<1> DEFINE M == MAX_ORDER_BLOCK_SIZE
           N == INITIAL_MALLOC_BLOCK_AMOUNT
<1>1. M \in Nat \ {0} /\ M = getOrderSize(MAX_ORDER)
  BY OrdersType, OrderSizeType DEF MAX_ORDER_BLOCK_SIZE
<1>2. N \in Nat \ {0} /\ PROGRAM_BREAK_DIVISOR = N * M
  BY Malloc3Assumption DEF PROGRAM_BREAK_DIVISOR
<1> HIDE DEF M, N
<1>3. N * M = M * N /\ N * M \in Nat \ {0}
  BY <1>1, <1>2
<1>4. (M * N) % M = 0
  BY <1>1, <1>2, MultipleOf
<1>5. /\ PROGRAM_BREAK_DIVISOR \in Nat \ {0} /\ M \in Nat \ {0}
      /\ M = getOrderSize(MAX_ORDER) /\ PROGRAM_BREAK_DIVISOR % M = 0
  BY <1>1, <1>2, <1>3, <1>4
<1> QED
  BY <1>5 DEF M

LEMMA SlotsType ==
  /\ Slots \subseteq Nat \ {0} /\ Slots \cap MMAP_ADDRS = {}
  /\ \A a \in Slots : a % ORDER_SIZE = 0
BY Malloc3Assumption DEF Slots

----------------------------------------------------------------------------
(* What TypeOK, ArenaOK and Tiling say of one block.                       *)

LEMMA ArenaFacts ==
  ASSUME HeapType, ArenaOK, NEW b \in ArenaSlots
  PROVE  /\ arena \in Nat \ {0} /\ arena # NULL /\ ~firstAlloc
         /\ arena % MAX_ORDER_BLOCK_SIZE = 0
         /\ b \in Slots /\ b \in Nat
         /\ arena <= b /\ b < arena + PROGRAM_BREAK_DIVISOR
         /\ \A a \in Nat : (/\ arena <= a /\ a < arena + PROGRAM_BREAK_DIVISOR
                            /\ a % ORDER_SIZE = 0) => a \in ArenaSlots
<1>1. arena # NULL /\ b \in Slots /\ arena <= b /\ b < arena + PROGRAM_BREAK_DIVISOR
  BY DEF ArenaSlots
<1>2. ~firstAlloc /\ arena \in Slots /\ arena % MAX_ORDER_BLOCK_SIZE = 0
      /\ arena + PROGRAM_BREAK_DIVISOR <= BRK_LIMIT
  BY <1>1 DEF ArenaOK
<1>3. arena \in Nat \ {0} /\ b \in Nat
  BY <1>1, <1>2, SlotsType
<1>4. ASSUME NEW a \in Nat, arena <= a, a < arena + PROGRAM_BREAK_DIVISOR,
             a % ORDER_SIZE = 0
      PROVE  a \in ArenaSlots
  <2>1. a \in 1 .. BRK_LIMIT
    BY <1>2, <1>3, <1>4, DivisorType, Malloc3Assumption
  <2> QED
    BY <1>1, <1>4, <2>1 DEF ArenaSlots, Slots
<1> QED
  BY <1>1, <1>2, <1>3, <1>4

LEMMA BlockFacts ==
  ASSUME HeapType, ArenaOK, Shaped, NEW b \in Blocks
  PROVE  \E k \in Orders :
           /\ b \in ArenaSlots /\ b \in Nat /\ b \in Slots /\ b \in Headers
           /\ size[b] = Payload(k) /\ size[b] \in Nat
           /\ findTightOrder(size[b]) = k
           /\ Whole(b) = getOrderSize(k) /\ b % getOrderSize(k) = 0
           /\ Ancestor(b, k) = b
           /\ findBuddyAddress(b) = findBuddyAddressBySize(b, getOrderSize(k))
<1>1. PICK k \in Orders : size[b] = Payload(k) /\ b % getOrderSize(k) = 0
  BY DEF Shaped
<1>2. b \in ArenaSlots
  BY DEF Shaped
<1>3. b \in Nat /\ b \in Slots /\ b \in Headers
  BY <1>2, ArenaFacts DEF Headers
<1>4. findTightOrder(size[b]) = k /\ size[b] \in Nat
  BY <1>1, TightOrderOfPayload, PayloadType
<1>5. getOrderSize(k) \in Nat \ {0}
  BY OrderSizeType
<1>6. size[b] + META = getOrderSize(k)
  BY <1>1, <1>5, OrdersType DEF Payload
<1>7. Ancestor(b, k) = b
  BY <1>1, <1>3, <1>5 DEF Ancestor
<1> QED
  BY <1>1, <1>2, <1>3, <1>4, <1>6, <1>7 DEF Whole, findBuddyAddress

(* The region of an arena address stays in the arena up to the top order.  *)
LEMMA AncestorInArena ==
  ASSUME HeapType, ArenaOK, NEW a \in ArenaSlots, NEW k \in Orders
  PROVE  /\ Ancestor(a, k) \in ArenaSlots
         /\ Ancestor(a, k) + getOrderSize(k) <= arena + PROGRAM_BREAK_DIVISOR
<1> DEFINE A == Ancestor(a, k)
           s == getOrderSize(k)
           M == MAX_ORDER_BLOCK_SIZE
           D == PROGRAM_BREAK_DIVISOR
<1>1. /\ a \in Nat /\ arena \in Nat \ {0} /\ arena % M = 0
      /\ arena <= a /\ a < arena + D
  BY ArenaFacts
<1>2. s \in Nat \ {0} /\ M \in Nat \ {0} /\ D \in Nat \ {0} /\ D % M = 0 /\ M % s = 0
  <2>1. k <= MAX_ORDER
    BY DEF Orders
  <2> QED
    BY <2>1, OrdersType, OrderSizeType, OrderSizeDivides, DivisorType
<1>3. A \in Nat /\ A % s = 0 /\ A <= a /\ a < A + s
  BY <1>1, AncestorType
<1>4. s % ORDER_SIZE = 0
  BY SmallestDivides
<1>5. A % ORDER_SIZE = 0
  <2> HIDE DEF A, s
  <2> QED BY <1>2, <1>3, <1>4, OrdersType, MultipleTrans
<1>6. arena <= A /\ A + s <= arena + D
  <2> HIDE DEF A, s, M, D
  <2>1. arena % s = 0
    BY <1>1, <1>2, MultipleTrans
  <2>2. D % s = 0
    BY <1>2, MultipleTrans
  <2>3. arena \in Nat /\ D \in Nat /\ (arena + D) % s = 0
    <3>1. arena \in Nat /\ D \in Nat
      BY <1>1, <1>2
    <3> QED
      BY <3>1, <1>2, <2>1, <2>2, MultipleSum
  <2>4. ~ (A < arena)
    <3>1. SUFFICES ASSUME A < arena PROVE FALSE
      OBVIOUS
    <3>2. A + s <= arena
      BY <1>1, <1>2, <1>3, <2>1, <3>1, MultiplesApart
    <3> QED
      BY <1>1, <1>2, <1>3, <3>2
  <2>5. A < arena + D /\ arena + D \in Nat
    BY <1>1, <1>2, <1>3
  <2>6. A + s <= arena + D
    BY <1>2, <1>3, <2>3, <2>5, MultiplesApart
  <2> QED
    BY <1>1, <1>3, <2>4, <2>6
<1>7. A < arena + D
  BY <1>1, <1>2, <1>3, <1>6
<1>8. A \in ArenaSlots
  BY <1>3, <1>5, <1>6, <1>7, ArenaFacts
<1> QED
  BY <1>6, <1>8

(* A tiled arena has a block, not larger, at the start of every buddy the  *)
(* code computes: the block that fills it cannot reach over the parent of  *)
(* the two, since it would then hold the first block as well.              *)
LEMMA TilingGivesBuddies ==
  ASSUME HeapType, ArenaOK, Tiling
  PROVE  BuddyIsLive
<1> SUFFICES ASSUME NEW b \in Blocks,
                    NEW k \in findTightOrder(size[b]) .. MAX_ORDER - 1,
                    NEW S, S = findBuddyAddressBySize(Ancestor(b, k), getOrderSize(k))
             PROVE  S \in Blocks /\ size[S] <= Payload(k)
  BY DEF BuddyIsLive
<1> USE DEF Tiling
<1>1. PICK j \in Orders : /\ b \in ArenaSlots /\ b \in Nat
                          /\ findTightOrder(size[b]) = j
  BY BlockFacts
<1>2. k \in Orders /\ j <= k /\ k < MAX_ORDER /\ k + 1 \in Orders
  BY <1>1, OrdersType DEF Orders
<1> DEFINE A == Ancestor(b, k)
           P == Ancestor(b, k + 1)
           s == getOrderSize(k)
<1>3. /\ A \in Nat /\ A <= b /\ b < A + s
      /\ P \in Nat /\ P % getOrderSize(k + 1) = 0
      /\ P <= b /\ b < P + getOrderSize(k + 1)
      /\ s \in Nat \ {0} /\ getOrderSize(k + 1) = 2 * s
  BY <1>1, <1>2, AncestorType, OrderSizeType
<1>4. /\ S \in Nat /\ S % s = 0
      /\ P <= S /\ S + s <= P + getOrderSize(k + 1)
  <2>1. /\ S \in Nat /\ S % s = 0
        /\ (S = A + s /\ P = A) \/ (A = S + s /\ P = S)
    BY <1>1, <1>2, Siblings
  <2> HIDE DEF A, P, s
  <2> QED
    BY <1>3, <2>1
<1>5. S \in ArenaSlots
  <2>1. P \in ArenaSlots /\ P + getOrderSize(k + 1) <= arena + PROGRAM_BREAK_DIVISOR
    BY <1>1, <1>2, AncestorInArena
  <2>2. s % ORDER_SIZE = 0
    BY <1>2, SmallestDivides
  <2> HIDE DEF A, P, s
  <2>3. S % ORDER_SIZE = 0
    BY <1>3, <1>4, <2>2, OrdersType, MultipleTrans
  <2>4. arena <= P /\ arena \in Nat /\ PROGRAM_BREAK_DIVISOR \in Nat
    BY <2>1, ArenaFacts, DivisorType
  <2>5. arena <= S /\ S < arena + PROGRAM_BREAK_DIVISOR
    BY <1>3, <1>4, <2>1, <2>4
  <2> QED
    BY <1>4, <2>1, <2>3, <2>5, ArenaFacts
<1>6. PICK c \in Blocks : Covers(c, S)
  BY <1>5 DEF Filled
<1>7. PICK m \in Orders : /\ c \in Nat /\ size[c] = Payload(m)
                          /\ findTightOrder(size[c]) = m
                          /\ Whole(c) = getOrderSize(m)
                          /\ c % getOrderSize(m) = 0
  BY BlockFacts
<1>8. c <= S /\ S < c + getOrderSize(m) /\ getOrderSize(m) \in Nat \ {0}
  BY <1>6, <1>7, OrderSizeType DEF Covers
<1>9. m \in Nat /\ k \in Nat
  BY <1>2, OrdersType
<1>10. CASE k < m
  <2>1. k + 1 <= m
    BY <1>9, <1>10
  <2>2. S < P + getOrderSize(k + 1)
    <3> HIDE DEF P, s
    <3> QED BY <1>3, <1>4
  <2>3. Ancestor(S, k + 1) = P
    BY <1>2, <1>3, <1>4, <2>2, AncestorUnique
  <2>4. c <= P /\ P + getOrderSize(k + 1) <= c + getOrderSize(m)
    <3>1. /\ c <= Ancestor(S, k + 1)
          /\ Ancestor(S, k + 1) + getOrderSize(k + 1) <= c + getOrderSize(m)
      BY <1>2, <1>4, <1>7, <1>8, <2>1, Nested
    <3> QED
      BY <2>3, <3>1
  <2>5. c <= b /\ b < c + getOrderSize(m)
    <3> HIDE DEF P, s
    <3> QED BY <1>1, <1>3, <1>7, <1>8, <2>4
  <2>6. ~ (c < b)
    <3>1. SUFFICES ASSUME c < b PROVE FALSE
      OBVIOUS
    <3>2. c + Whole(c) <= b
      BY <3>1 DEF Apart
    <3> QED
      BY <1>1, <1>7, <1>8, <2>5, <3>2
  <2>7. c = b
    BY <1>1, <1>7, <2>5, <2>6
  <2>8. j = m
    BY <1>1, <1>7, <2>7
  <2> QED
    BY <1>2, <1>9, <1>10, <2>8
<1>11. CASE m <= k
  <2>1. s % getOrderSize(m) = 0
    BY <1>2, <1>11, OrderSizeDivides
  <2> HIDE DEF A, P, s
  <2>2. S % getOrderSize(m) = 0
    BY <1>3, <1>4, <1>8, <2>1, MultipleTrans
  <2>3. ~ (c < S)
    <3>1. SUFFICES ASSUME c < S PROVE FALSE
      OBVIOUS
    <3>2. c + getOrderSize(m) <= S
      BY <1>4, <1>7, <1>8, <2>2, <3>1, MultiplesApart
    <3> QED
      BY <1>4, <1>7, <1>8, <3>2
  <2>4. c = S
    BY <1>4, <1>7, <1>8, <2>3
  <2>5. Payload(m) <= Payload(k)
    <3>1. ~ (Payload(k) < Payload(m))
      BY <1>2, <1>9, <1>11, PayloadType
    <3> QED
      BY <1>2, <3>1, PayloadType
  <2> QED
    BY <1>7, <2>4, <2>5
<1> QED
  BY <1>9, <1>10, <1>11

----------------------------------------------------------------------------
(* The operations on the heap, one lemma each: every one keeps the heap's  *)
(* invariant, and every pointer that sfree may be asked about stays one.   *)

KnownKept == \A p \in Headers : Known(p) => Known(p)'

(* A step that leaves the heap alone. *)
LEMMA HeapSame ==
  ASSUME HeapType, HeapOK, UNCHANGED <<heap, firstAlloc, arena>>
  PROVE  HeapType' /\ HeapOK' /\ KnownKept
<1> USE DEF heap, counters, headers
<1>1. HeapType'
  BY DEF HeapType
<1>2. Blocks' = Blocks /\ ArenaSlots' = ArenaSlots
  BY DEF Blocks, ArenaSlots
<1>3. ArenaOK'
  BY DEF HeapOK, ArenaOK
<1>4. Tiling'
  BY <1>2 DEF HeapOK, Tiling, Shaped, Apart, Filled, Covers, Whole
<1>5. Listed'
  BY <1>2 DEF HeapOK, Listed, FreeBlocks
<1>6. MappedAreBig'
  BY DEF HeapOK, MappedAreBig, Mapped
<1>7. KnownKept
  BY DEF KnownKept, Known
<1> QED
  BY <1>1, <1>3, <1>4, <1>5, <1>6, <1>7 DEF HeapOK

(* A change of flags and lists only: the tiling stays, and the lists have  *)
(* to be looked at.                                                        *)
LEMMA FlagsOnly ==
  ASSUME HeapType, HeapOK, UNCHANGED <<size, live, firstAlloc, arena>>
  PROVE  /\ Blocks' = Blocks
         /\ ArenaOK' /\ Tiling' /\ MappedAreBig'
<1>1. Blocks' = Blocks /\ ArenaSlots' = ArenaSlots
  BY DEF Blocks, ArenaSlots
<1>2. ArenaOK'
  BY DEF HeapOK, ArenaOK
<1>3. Tiling'
  BY <1>1 DEF HeapOK, Tiling, Shaped, Apart, Filled, Covers, Whole
<1>4. MappedAreBig'
  BY DEF HeapOK, MappedAreBig, Mapped
<1> QED
  BY <1>1, <1>2, <1>3, <1>4

(* The head of a list is a free block of its order. *)
LEMMA HeadIsListed ==
  ASSUME HeapType, HeapOK, NEW k \in Orders, ~FL!isEmpty(freeBlockListArray[k])
  PROVE  /\ FL!Head(freeBlockListArray[k]) \in FreeBlocks(k)
         /\ FL!Head(freeBlockListArray[k]) \in Blocks
         /\ FL!Head(freeBlockListArray[k]) \in Headers
<1>1. freeBlockListArray[k].blocks = FreeBlocks(k)
  BY DEF HeapOK, Listed
<1>2. FreeBlocks(k) \subseteq Nat /\ FreeBlocks(k) \subseteq Blocks
  BY SlotsType DEF FreeBlocks, Blocks
<1>3. FreeBlocks(k) # {}
  BY <1>1 DEF FL!isEmpty
<1>4. Min(FreeBlocks(k)) \in FreeBlocks(k)
  BY <1>2, <1>3, MinIsLeast
<1>5. FL!Head(freeBlockListArray[k]) = Min(FreeBlocks(k))
  BY <1>1 DEF FL!Head, FL!Min, Min
<1> QED
  BY <1>2, <1>4, <1>5 DEF Blocks, Headers

(* _popHead *)
LEMMA PopHeadKeeps ==
  ASSUME HeapType, HeapOK, NEW k \in Orders, ~FL!isEmpty(freeBlockListArray[k]),
         NEW b, b = FL!Head(freeBlockListArray[k]), PopHead(b, k),
         UNCHANGED <<mmapedList, counters, size, live, firstAlloc, arena>>
  PROVE  /\ HeapType' /\ HeapOK' /\ KnownKept
         /\ b \in Blocks' /\ b \in Headers
         /\ size[b] = Payload(k) /\ ~is_free'[b]
<1>1. b \in Blocks /\ b \in Headers /\ size[b] = Payload(k) /\ b \in FreeBlocks(k)
  BY HeadIsListed DEF FreeBlocks
<1>2. size[b] \in Nat
  BY <1>1 DEF HeapType
<1>3. HeapType'
  BY <1>1, <1>2 DEF HeapType, PopHead, FL!_removeFromList, List, counters
<1>4. Blocks' = Blocks /\ ArenaOK' /\ Tiling' /\ MappedAreBig'
  BY FlagsOnly
<1>5. Listed'
  <2> SUFFICES ASSUME NEW i \in Orders
               PROVE  freeBlockListArray'[i].blocks = FreeBlocks(i)'
    BY DEF Listed
  <2>1. freeBlockListArray[i].blocks = FreeBlocks(i)
    BY DEF HeapOK, Listed
  <2>2. CASE i = k
    <3>1. freeBlockListArray'[i].blocks = FreeBlocks(i) \ {b}
      BY <2>1, <2>2 DEF PopHead, FL!_removeFromList, HeapType
    <3>2. FreeBlocks(i)' = FreeBlocks(i) \ {b}
      BY <1>1, <1>4 DEF FreeBlocks, PopHead, HeapType, Blocks, Headers
    <3> QED
      BY <3>1, <3>2
  <2>3. CASE i # k
    <3>1. freeBlockListArray'[i].blocks = FreeBlocks(i)
      BY <2>1, <2>3 DEF PopHead, HeapType
    <3>2. size[b] # Payload(i)
      BY <1>1, <2>3, PayloadType
    <3>3. FreeBlocks(i)' = FreeBlocks(i)
      BY <1>1, <1>4, <3>2 DEF FreeBlocks, PopHead, HeapType, Blocks, Headers
    <3> QED
      BY <3>1, <3>3
  <2> QED
    BY <2>2, <2>3
<1>6. KnownKept
  BY <1>1 DEF KnownKept, Known, PopHead, HeapType, Blocks
<1>7. ~is_free'[b]
  BY <1>1 DEF PopHead, HeapType
<1> QED
  BY <1>1, <1>3, <1>4, <1>5, <1>6, <1>7 DEF HeapOK

(* is_free = true and _addToList, for a block in use. *)
LEMMA MarkFreeKeeps ==
  ASSUME HeapType, HeapOK, NEW b \in Blocks, ~is_free[b], MarkFree(b),
         UNCHANGED <<mmapedList, counters, size, live, firstAlloc, arena>>
  PROVE  /\ HeapType' /\ HeapOK' /\ KnownKept
         /\ b \in Blocks' /\ is_free' = [is_free EXCEPT ![b] = TRUE]
<1>1. PICK k \in Orders : /\ b \in Headers /\ size[b] = Payload(k) /\ size[b] \in Nat
                          /\ findTightOrder(size[b]) = k
  BY BlockFacts DEF HeapOK, Tiling
<1>2. HeapType'
  BY <1>1 DEF HeapType, MarkFree, FL!_addToList, List, counters
<1>3. Blocks' = Blocks /\ ArenaOK' /\ Tiling' /\ MappedAreBig'
  BY FlagsOnly
<1>4. Listed'
  <2> SUFFICES ASSUME NEW i \in Orders
               PROVE  freeBlockListArray'[i].blocks = FreeBlocks(i)'
    BY DEF Listed
  <2>1. freeBlockListArray[i].blocks = FreeBlocks(i)
    BY DEF HeapOK, Listed
  <2>2. CASE i = k
    <3>1. freeBlockListArray'[i].blocks = FreeBlocks(i) \cup {b}
      BY <1>1, <2>1, <2>2 DEF MarkFree, FL!_addToList, HeapType
    <3>2. FreeBlocks(i)' = FreeBlocks(i) \cup {b}
      BY <1>1, <1>3, <2>2 DEF FreeBlocks, MarkFree, HeapType, Blocks, Headers
    <3> QED
      BY <3>1, <3>2
  <2>3. CASE i # k
    <3>1. freeBlockListArray'[i].blocks = FreeBlocks(i)
      BY <1>1, <2>1, <2>3 DEF MarkFree, HeapType
    <3>2. size[b] # Payload(i)
      BY <1>1, <2>3, PayloadType
    <3>3. FreeBlocks(i)' = FreeBlocks(i)
      BY <1>1, <1>3, <3>2 DEF FreeBlocks, MarkFree, HeapType, Blocks, Headers
    <3> QED
      BY <3>1, <3>3
  <2> QED
    BY <2>2, <2>3
<1>5. KnownKept
  BY <1>1 DEF KnownKept, Known, MarkFree, HeapType, Headers
<1> QED
  BY <1>2, <1>3, <1>4, <1>5 DEF HeapOK, MarkFree

(* A free block taken off its list and put in use (or one already in use). *)
LEMMA TakeBackKeeps ==
  ASSUME HeapType, HeapOK, NEW b \in Blocks, NEW k, k = findTightOrder(size[b]),
         TakeBack(b, k),
         UNCHANGED <<mmapedList, counters, size, live, firstAlloc, arena>>
  PROVE  HeapType' /\ HeapOK' /\ KnownKept /\ b \in Blocks'
<1>1. /\ k \in Orders
      /\ b \in Headers /\ size[b] = Payload(k) /\ size[b] \in Nat
  BY BlockFacts DEF HeapOK, Tiling
<1>2. HeapType'
  BY <1>1 DEF HeapType, TakeBack, FL!_removeFromList, List, counters
<1>3. Blocks' = Blocks /\ ArenaOK' /\ Tiling' /\ MappedAreBig'
  BY FlagsOnly
<1>4. Listed'
  <2> SUFFICES ASSUME NEW i \in Orders
               PROVE  freeBlockListArray'[i].blocks = FreeBlocks(i)'
    BY DEF Listed
  <2>1. freeBlockListArray[i].blocks = FreeBlocks(i)
    BY DEF HeapOK, Listed
  <2>2. CASE i = k
    <3>1. ~is_free[b] => b \notin FreeBlocks(i)
      BY DEF FreeBlocks
    <3>2. freeBlockListArray'[i].blocks = FreeBlocks(i) \ {b}
      BY <1>1, <2>1, <2>2, <3>1 DEF TakeBack, FL!_removeFromList, HeapType
    <3>3. FreeBlocks(i)' = FreeBlocks(i) \ {b}
      BY <1>1, <1>3 DEF FreeBlocks, TakeBack, HeapType, Blocks, Headers
    <3> QED
      BY <3>2, <3>3
  <2>3. CASE i # k
    <3>1. freeBlockListArray'[i].blocks = FreeBlocks(i)
      BY <1>1, <2>1, <2>3 DEF TakeBack, HeapType
    <3>2. size[b] # Payload(i)
      BY <1>1, <2>3, PayloadType
    <3>3. FreeBlocks(i)' = FreeBlocks(i)
      BY <1>1, <1>3, <3>2 DEF FreeBlocks, TakeBack, HeapType, Blocks, Headers
    <3> QED
      BY <3>1, <3>3
  <2> QED
    BY <2>2, <2>3
<1>5. KnownKept
  BY <1>1 DEF KnownKept, Known, TakeBack, HeapType, Blocks
<1> QED
  BY <1>2, <1>3, <1>4, <1>5 DEF HeapOK

(* One turn of the loop of splitBlock. *)
LEMMA SplitKeeps ==
  ASSUME HeapType, HeapOK, NEW b \in Blocks, ~is_free[b],
         NEW h \in Orders, h < MAX_ORDER, size[b] = Payload(h + 1),
         NEW right, right = b + getOrderSize(h),
         size' = [size EXCEPT ![b] = Payload(h), ![right] = Payload(h)],
         is_free' = [is_free EXCEPT ![b] = FALSE, ![right] = TRUE],
         freeBlockListArray' = [freeBlockListArray EXCEPT
                         ![h] = FL!_addToList(@, right, Payload(h))],
         live' = live \cup {right},
         UNCHANGED <<mmapedList, counters, firstAlloc, arena>>
  PROVE  /\ HeapType' /\ HeapOK' /\ KnownKept
         /\ b \in Blocks' /\ ~is_free'[b] /\ size'[b] = Payload(h)
<1> DEFINE s == getOrderSize(h)
<1>1. /\ s \in Nat \ {0} /\ h + 1 \in Orders /\ getOrderSize(h + 1) = 2 * s
      /\ Payload(h) \in Nat /\ Payload(h) + META = s
  BY OrderSizeType, PayloadType, OrdersType DEF Payload
<1>2. /\ b \in ArenaSlots /\ b \in Nat /\ b \in Slots /\ b \in Headers
      /\ Whole(b) = 2 * s /\ b % getOrderSize(h + 1) = 0
      /\ Ancestor(b, h + 1) = b
  <2>1. PICK k \in Orders : /\ b \in ArenaSlots /\ b \in Nat /\ b \in Slots /\ b \in Headers
                            /\ size[b] = Payload(k)
                            /\ Whole(b) = getOrderSize(k) /\ b % getOrderSize(k) = 0
                            /\ Ancestor(b, k) = b
    BY BlockFacts DEF HeapOK, Tiling
  <2>2. k = h + 1
    BY <1>1, <2>1, PayloadType
  <2> QED
    BY <1>1, <2>1, <2>2
<1>3. b % s = 0
  <2>1. getOrderSize(h + 1) % s = 0
    BY <1>1, OrderSizeDivides, OrdersType
  <2>2. getOrderSize(h + 1) \in Nat \ {0}
    BY <1>1, OrderSizeType
  <2> HIDE DEF s
  <2> QED
    BY <1>1, <1>2, <2>1, <2>2, MultipleTrans
<1>4. right \in Nat /\ right % s = 0 /\ right = b + s
  <2> HIDE DEF s
  <2>1. s = s * 1
    BY <1>1
  <2>2. s % s = 0
    BY <1>1, <2>1, MultipleOf
  <2>3. s \in Nat
    BY <1>1
  <2>4. (b + s) % s = 0
    BY <1>1, <1>2, <1>3, <2>2, <2>3, MultipleSum
  <2> QED
    BY <1>1, <1>2, <2>4 DEF s
<1>5. right \in ArenaSlots
  <2>1. b + getOrderSize(h + 1) <= arena + PROGRAM_BREAK_DIVISOR
    BY <1>1, <1>2, AncestorInArena DEF HeapOK
  <2>2. s % ORDER_SIZE = 0
    BY SmallestDivides
  <2>3. arena \in Nat /\ arena <= b /\ PROGRAM_BREAK_DIVISOR \in Nat
    BY <1>2, ArenaFacts, DivisorType DEF HeapOK
  <2> HIDE DEF s
  <2>4. right % ORDER_SIZE = 0
    BY <1>1, <1>4, <2>2, OrdersType, MultipleTrans
  <2>5. arena <= right /\ right < arena + PROGRAM_BREAK_DIVISOR
    BY <1>1, <1>2, <1>4, <2>1, <2>3
  <2> QED
    BY <1>2, <1>4, <2>4, <2>5, ArenaFacts DEF HeapOK
<1>6. right \in Slots /\ right \in Headers /\ right # b
  BY <1>1, <1>2, <1>4, <1>5 DEF ArenaSlots, Headers
<1>7. right \notin Blocks
  <2>1. SUFFICES ASSUME right \in Blocks PROVE FALSE
    OBVIOUS
  <2>2. b < right
    BY <1>1, <1>2, <1>4
  <2>3. b + Whole(b) <= right
    BY <2>1, <2>2 DEF HeapOK, Tiling, Apart
  <2> QED
    BY <1>1, <1>2, <1>4, <2>3
<1>8. Blocks' = Blocks \cup {right} /\ ArenaSlots' = ArenaSlots
  BY <1>6 DEF Blocks, ArenaSlots
<1>9. /\ size'[b] = Payload(h) /\ size'[right] = Payload(h)
      /\ \A x \in Blocks \ {b} : size'[x] = size[x]
  BY <1>2, <1>6, <1>7 DEF HeapType, Blocks, Headers
<1>10. /\ Whole(b)' = s /\ Whole(right)' = s
       /\ \A x \in Blocks \ {b} : Whole(x)' = Whole(x)
  BY <1>1, <1>9 DEF Whole
<1>11. \A x \in Blocks : x \in Nat /\ Whole(x) \in Nat
  BY SlotsType, OrdersType DEF Blocks, Whole, HeapType, Headers
<1> HIDE DEF s
<1>12. HeapType'
  <2>1. freeBlockListArray[h] \in List
    BY DEF HeapType
  <2>2. FL!_addToList(freeBlockListArray[h], right, Payload(h)) \in List
    BY <1>1, <1>6, <2>1 DEF FL!_addToList, List
  <2>3. freeBlockListArray' \in [Orders -> List]
    BY <2>2 DEF HeapType
  <2>4. size' \in [Headers -> Nat] /\ is_free' \in [Headers -> BOOLEAN]
    BY <1>1, <1>2, <1>6 DEF HeapType
  <2>5. live' \subseteq Headers
    BY <1>6 DEF HeapType
  <2> QED
    BY <2>3, <2>4, <2>5 DEF HeapType, counters
<1>13. ArenaOK'
  <2>1. ~firstAlloc
    BY <1>2, ArenaFacts DEF HeapOK
  <2> QED
    BY <2>1 DEF HeapOK, ArenaOK
<1>14. Shaped'
  <2>1. \A x \in Blocks \ {b} : x \in Blocks'
                                /\ x \in ArenaSlots'
                                /\ \E k \in Orders : size'[x] = Payload(k)
                                                     /\ x % getOrderSize(k) = 0
    BY <1>8, <1>9 DEF HeapOK, Tiling, Shaped
  <2>2. \A x \in {b, right} : /\ x \in ArenaSlots'
                              /\ size'[x] = Payload(h) /\ x % getOrderSize(h) = 0
    BY <1>2, <1>3, <1>4, <1>5, <1>8, <1>9 DEF s
  <2> QED
    BY <1>8, <2>1, <2>2 DEF Shaped
<1>15. Apart'
  <2> SUFFICES ASSUME NEW x \in Blocks', NEW y \in Blocks', x < y
               PROVE  x + Whole(x)' <= y
    BY DEF Apart
  <2>1. \A u, v \in Blocks : u < v => u + Whole(u) <= v
    BY DEF HeapOK, Tiling, Apart
  <2>2. CASE x \in Blocks \ {b} /\ y \in Blocks
    BY <1>10, <2>1, <2>2
  <2>3. CASE x = b /\ y \in Blocks
    BY <1>1, <1>2, <1>10, <1>11, <2>1, <2>3
  <2>4. CASE x = right /\ y \in Blocks
    BY <1>1, <1>2, <1>4, <1>10, <1>11, <2>1, <2>4
  <2>5. CASE x = b /\ y = right
    BY <1>4, <1>10, <2>5
  <2>6. CASE x \in Blocks \ {b} /\ y = right
    <3>1. ~ (b < x)
      BY <1>1, <1>2, <1>4, <1>11, <2>1, <2>6
    <3>2. x < b
      BY <1>2, <1>11, <2>6, <3>1
    <3> QED
      BY <1>1, <1>2, <1>4, <1>10, <1>11, <2>1, <2>6, <3>2
  <2>7. ~ (x = right /\ y = right)
    BY <1>4
  <2> QED
    BY <1>8, <2>2, <2>3, <2>4, <2>5, <2>6, <2>7
<1>16. Filled'
  <2> SUFFICES ASSUME NEW a \in ArenaSlots
               PROVE  \E c \in Blocks' : Covers(c, a)'
    BY <1>8 DEF Filled
  <2>1. PICK c \in Blocks : Covers(c, a)
    BY DEF HeapOK, Tiling, Filled
  <2>2. a \in Nat
    BY SlotsType DEF ArenaSlots
  <2>3. CASE c # b
    BY <1>8, <1>10, <2>1, <2>3 DEF Covers
  <2>4. CASE c = b
    <3>1. b <= a /\ a < b + 2 * s
      BY <1>2, <2>1, <2>4 DEF Covers
    <3>2. CASE a < right
      <4>1. Covers(b, a)'
        BY <1>4, <1>10, <3>1, <3>2 DEF Covers
      <4> QED
        BY <1>8, <4>1
    <3>3. CASE ~ (a < right)
      <4>1. Covers(right, a)'
        BY <1>1, <1>2, <1>4, <1>10, <2>2, <3>1, <3>3 DEF Covers
      <4> QED
        BY <1>8, <4>1
    <3> QED
      BY <3>2, <3>3
  <2> QED
    BY <2>3, <2>4
<1>17. Listed'
  <2> SUFFICES ASSUME NEW i \in Orders
               PROVE  freeBlockListArray'[i].blocks = FreeBlocks(i)'
    BY DEF Listed
  <2>1. freeBlockListArray[i].blocks = FreeBlocks(i)
    BY DEF HeapOK, Listed
  <2>2. /\ ~is_free'[b] /\ is_free'[right]
        /\ \A x \in Blocks \ {b} : is_free'[x] = is_free[x]
    BY <1>2, <1>6, <1>7 DEF HeapType, Blocks, Headers
  <2>3. b \notin FreeBlocks(i) /\ right \notin FreeBlocks(i)
    BY <1>7 DEF FreeBlocks
  <2>4. CASE i = h
    <3>1. freeBlockListArray'[i].blocks = FreeBlocks(i) \cup {right}
      BY <2>1, <2>4 DEF FL!_addToList, HeapType
    <3>2. FreeBlocks(i)' = FreeBlocks(i) \cup {right}
      BY <1>8, <1>9, <2>2, <2>4 DEF FreeBlocks
    <3> QED
      BY <3>1, <3>2
  <2>5. CASE i # h
    <3>1. freeBlockListArray'[i].blocks = FreeBlocks(i)
      BY <2>1, <2>5 DEF HeapType
    <3>2. Payload(h) # Payload(i)
      BY <2>5, PayloadType
    <3>3. FreeBlocks(i)' = FreeBlocks(i)
      BY <1>8, <1>9, <2>2, <3>2 DEF FreeBlocks
    <3> QED
      BY <3>1, <3>3
  <2> QED
    BY <2>4, <2>5
<1>18. MappedAreBig'
  <2>1. right \notin MMAP_ADDRS /\ b \notin MMAP_ADDRS
    BY <1>2, <1>6, SlotsType
  <2> QED
    BY <2>1 DEF HeapOK, MappedAreBig, Mapped, HeapType, Headers
<1>19. KnownKept
  BY <1>2, <1>6 DEF KnownKept, Known, HeapType, Blocks
<1>20. b \in Blocks' /\ ~is_free'[b] /\ size'[b] = Payload(h)
  BY <1>2, <1>6, <1>8, <1>9 DEF HeapType
<1> QED
  BY <1>12, <1>13, <1>14, <1>15, <1>16, <1>17, <1>18, <1>19, <1>20 DEF HeapOK, Tiling

(* What the merges rely on: the buddy of a block below the top order is a  *)
(* block, and the two are the halves of a region of the next order.        *)
LEMMA BuddyFacts ==
  ASSUME HeapType, HeapOK, NEW b \in Blocks,
         NEW k \in Orders, k < MAX_ORDER, size[b] = Payload(k),
         NEW buddy, buddy = findBuddyAddress(b)
  PROVE  /\ buddy \in Blocks /\ buddy \in Nat /\ b \in Nat
         /\ \/ /\ buddy = b + getOrderSize(k) /\ b % getOrderSize(k + 1) = 0
               /\ Ancestor(b, k + 1) = b
            \/ /\ b = buddy + getOrderSize(k) /\ buddy % getOrderSize(k + 1) = 0
               /\ Ancestor(b, k + 1) = buddy
<1> DEFINE s == getOrderSize(k)
<1>1. /\ b \in Nat /\ b % s = 0 /\ Ancestor(b, k) = b
      /\ buddy = findBuddyAddressBySize(b, s) /\ findTightOrder(size[b]) = k
  <2>1. PICK j \in Orders :
          /\ b \in Nat /\ size[b] = Payload(j) /\ findTightOrder(size[b]) = j
          /\ b % getOrderSize(j) = 0 /\ Ancestor(b, j) = b
          /\ findBuddyAddress(b) = findBuddyAddressBySize(b, getOrderSize(j))
    BY BlockFacts DEF HeapOK, Tiling
  <2>2. j = k
    BY <2>1, PayloadType
  <2> QED
    BY <2>1, <2>2
<1>2. s \in Nat \ {0} /\ getOrderSize(k + 1) = 2 * s
  BY OrderSizeType
<1>3. buddy \in Blocks
  <2>1. k \in findTightOrder(size[b]) .. MAX_ORDER - 1
    BY <1>1, OrdersType
  <2>2. BuddyIsLive
    BY TilingGivesBuddies DEF HeapOK
  <2> QED
    BY <1>1, <2>1, <2>2 DEF BuddyIsLive
<1>4. /\ buddy \in Nat /\ buddy % s = 0
      /\ \/ buddy = Ancestor(b, k) + s /\ Ancestor(b, k + 1) = Ancestor(b, k)
         \/ Ancestor(b, k) = buddy + s /\ Ancestor(b, k + 1) = buddy
  BY <1>1, Siblings
<1>5. Ancestor(b, k + 1) % getOrderSize(k + 1) = 0
  BY <1>1, OrderSizeType, AncestorType
<1> QED
  BY <1>1, <1>3, <1>4, <1>5

(* mergeBlocks *)
(* The lists after a merge: buddy leaves the list of order k, so does b if *)
(* it is on it, and left joins the next list.                              *)
BothGone(b, buddy, k) ==
  LET FirstGone == FL!_removeFromList(freeBlockListArray[k], buddy, Payload(k))
  IN IF is_free[b] THEN FL!_removeFromList(FirstGone, b, Payload(k)) ELSE FirstGone

LEMMA MergeEffect ==
  ASSUME HeapType, HeapOK, NEW b \in Blocks,
         NEW k \in Orders, k < MAX_ORDER, size[b] = Payload(k),
         NEW buddy, buddy = findBuddyAddress(b),
         size[buddy] = size[b], mergeBlocks(b, buddy),
         NEW left, left = Ancestor(b, k + 1),
         NEW right, right = IF b = left THEN buddy ELSE b
  PROVE  /\ {b, buddy} = {left, right} /\ right = left + getOrderSize(k)
         /\ left % getOrderSize(k + 1) = 0 /\ left # right
         /\ left \in Blocks /\ right \in Blocks /\ left \in Nat /\ right \in Nat
         /\ freeBlockListArray' =
              [[freeBlockListArray EXCEPT ![k] = BothGone(b, buddy, k)]
                 EXCEPT ![k + 1] = FL!_addToList(@, left, Payload(k + 1))]
         /\ size' = [size EXCEPT ![left] = Payload(k + 1)]
         /\ is_free' = [is_free EXCEPT ![b] = TRUE, ![left] = TRUE]
         /\ live' = live \ {right}
         /\ CountBlocks(-1)
         /\ call' = [call EXCEPT !.blk = left]
         /\ UNCHANGED <<mmapedList, firstAlloc, arena, brk, held, granted>>
<1> DEFINE s == getOrderSize(k)
<1>1. /\ s \in Nat \ {0} /\ k + 1 \in Orders /\ getOrderSize(k + 1) = 2 * s
      /\ Payload(k) \in Nat /\ Payload(k) + META = s
      /\ Payload(k + 1) \in Nat /\ Payload(k + 1) + META = 2 * s /\ META \in Nat
  BY OrderSizeType, PayloadType, OrdersType DEF Payload
<1>2. /\ {b, buddy} = {left, right} /\ left \in Nat /\ right = left + s
      /\ left % getOrderSize(k + 1) = 0 /\ left \in Blocks /\ right \in Blocks
      /\ right \in Nat /\ left # right
  <2>1. /\ buddy \in Blocks /\ buddy \in Nat /\ b \in Nat
        /\ \/ buddy = b + s /\ b % getOrderSize(k + 1) = 0 /\ left = b
           \/ b = buddy + s /\ buddy % getOrderSize(k + 1) = 0 /\ left = buddy
    BY BuddyFacts
  <2> HIDE DEF s
  <2> QED
    BY <1>1, <2>1
<1>3. size[left] = Payload(k) /\ size[right] = Payload(k) /\ size[buddy] = Payload(k)
  BY <1>2
<1> HIDE DEF s
<1>4. Min({b, buddy}) = left /\ Max({b, buddy}) = right
  <2>1. left \in Nat /\ right \in Nat /\ left < right
    BY <1>1, <1>2
  <2>2. Min({left, right}) = left /\ Max({left, right}) = right
    BY <2>1, MinMaxOfTwo
  <2> QED
    BY <1>2, <2>2
<1>5. /\ findTightOrder(Payload(k)) = k /\ findTightOrder(Payload(k + 1)) = k + 1
      /\ Payload(k) + Payload(k) + META = Payload(k + 1)
  BY <1>1, TightOrderOfPayload
<1>6. /\ findTightOrder(size[Min({b, buddy})]) = k
      /\ size[Min({b, buddy})] + size[Max({b, buddy})] + META = Payload(k + 1)
  BY <1>3, <1>4, <1>5
<1>7. freeBlockListArray' =
        [[freeBlockListArray EXCEPT ![k] = BothGone(b, buddy, k)]
           EXCEPT ![k + 1] = FL!_addToList(@, left, Payload(k + 1))]
  BY <1>3, <1>4, <1>5, <1>6 DEF mergeBlocks, BothGone
<1>8. /\ size' = [size EXCEPT ![left] = Payload(k + 1)]
      /\ is_free' = [is_free EXCEPT ![b] = TRUE, ![left] = TRUE]
      /\ live' = live \ {right}
      /\ call' = [call EXCEPT !.blk = left]
  BY <1>4, <1>6 DEF mergeBlocks, MarkMerged
<1>9. CountBlocks(-1) /\ UNCHANGED <<mmapedList, firstAlloc, arena, brk, held, granted>>
  BY DEF mergeBlocks, os, client
<1> QED
  BY <1>2, <1>7, <1>8, <1>9 DEF s

LEMMA MergeKeeps ==
  ASSUME HeapType, HeapOK, NEW b \in Blocks,
         NEW k \in Orders, k < MAX_ORDER, size[b] = Payload(k),
         NEW buddy, buddy = findBuddyAddress(b),
         is_free[buddy], size[buddy] = size[b], mergeBlocks(b, buddy),
         NEW left, left = Ancestor(b, k + 1)
  PROVE  /\ HeapType' /\ HeapOK' /\ KnownKept
         /\ left \in Blocks' /\ is_free'[left] /\ size'[left] = Payload(k + 1)
         /\ call' = [call EXCEPT !.blk = left] /\ held' = held /\ granted' = granted
         /\ brk' = brk
         /\ \A x \in Blocks' : x # left => /\ x \in Blocks
                                           /\ is_free'[x] = is_free[x]
                                           /\ size'[x] = size[x]
         /\ \A x \in Blocks : x \in {b, buddy} \/ x \in Blocks'
<1> DEFINE s == getOrderSize(k)
           Both == BothGone(b, buddy, k)
           Unlisted == [freeBlockListArray EXCEPT ![k] = Both]
<1>1. /\ s \in Nat \ {0} /\ k + 1 \in Orders /\ getOrderSize(k + 1) = 2 * s
      /\ Payload(k) \in Nat /\ Payload(k) + META = s
      /\ Payload(k + 1) \in Nat /\ Payload(k + 1) + META = 2 * s /\ META \in Nat
  BY OrderSizeType, PayloadType, OrdersType DEF Payload
<1>2. PICK right :
        /\ {b, buddy} = {left, right} /\ left \in Nat /\ right = left + s
        /\ left % getOrderSize(k + 1) = 0 /\ left \in Blocks /\ right \in Blocks
        /\ right \in Nat /\ left # right
        /\ freeBlockListArray' = [Unlisted EXCEPT
               ![k + 1] = FL!_addToList(@, left, Payload(k + 1))]
        /\ size' = [size EXCEPT ![left] = Payload(k + 1)]
        /\ is_free' = [is_free EXCEPT ![b] = TRUE, ![left] = TRUE]
        /\ live' = live \ {right}
        /\ CountBlocks(-1)
        /\ call' = [call EXCEPT !.blk = left]
        /\ UNCHANGED <<mmapedList, firstAlloc, arena, brk, held, granted>>
  BY MergeEffect
<1>3. /\ size[left] = Payload(k) /\ size[right] = Payload(k)
      /\ left \in Headers /\ right \in Headers /\ left \in Slots /\ right \in Slots
      /\ b \in Headers
  BY <1>2 DEF Blocks, Headers
<1> HIDE DEF s
<1>4. /\ num_allocated_blocks' = num_allocated_blocks - 1
      /\ num_allocated_bytes' = num_allocated_bytes + META
  BY <1>1, <1>2 DEF CountBlocks, HeapType
<1>5. /\ size' = [size EXCEPT ![left] = Payload(k + 1)]
      /\ is_free' = [is_free EXCEPT ![b] = TRUE, ![left] = TRUE]
      /\ live' = live \ {right}
      /\ call' = [call EXCEPT !.blk = left]
      /\ mmapedList' = mmapedList /\ firstAlloc' = firstAlloc /\ arena' = arena
      /\ brk' = brk /\ held' = held /\ granted' = granted
  BY <1>2
<1>6. /\ Both \in List
      /\ Both.blocks = freeBlockListArray[k].blocks \ (IF is_free[b] THEN {b, buddy} ELSE {buddy})
  <2>1. freeBlockListArray[k] \in List
    BY DEF HeapType
  <2>2. PICK First : First = FL!_removeFromList(freeBlockListArray[k], buddy, Payload(k))
    OBVIOUS
  <2>3. First \in List /\ First.blocks = freeBlockListArray[k].blocks \ {buddy}
    BY <1>1, <2>1, <2>2 DEF FL!_removeFromList, List
  <2>4. Both = IF is_free[b] THEN FL!_removeFromList(First, b, Payload(k)) ELSE First
    BY <2>2 DEF BothGone
  <2> QED
    BY <1>1, <2>3, <2>4 DEF FL!_removeFromList, List
<1> HIDE DEF Both
<1>7. /\ freeBlockListArray' \in [Orders -> List]
      /\ freeBlockListArray'[k].blocks = Both.blocks
      /\ freeBlockListArray'[k + 1].blocks = freeBlockListArray[k + 1].blocks \cup {left}
      /\ \A i \in Orders \ {k, k + 1} : freeBlockListArray'[i] = freeBlockListArray[i]
  <2>1. k # k + 1
    BY OrdersType
  <2>2. freeBlockListArray[k + 1] \in List
    BY <1>1 DEF HeapType
  <2>3. /\ FL!_addToList(freeBlockListArray[k + 1], left, Payload(k + 1)) \in List
        /\ FL!_addToList(freeBlockListArray[k + 1], left, Payload(k + 1)).blocks
             = freeBlockListArray[k + 1].blocks \cup {left}
    BY <1>1, <1>3, <2>2 DEF FL!_addToList, List
  <2>4. /\ Unlisted \in [Orders -> List] /\ Unlisted[k] = Both
        /\ \A i \in Orders \ {k} : Unlisted[i] = freeBlockListArray[i]
    BY <1>6 DEF HeapType
  <2> HIDE DEF Unlisted
  <2> QED
    BY <1>1, <1>2, <2>1, <2>3, <2>4
<1>8. HeapType'
  <2>1. size' \in [Headers -> Nat] /\ is_free' \in [Headers -> BOOLEAN]
    BY <1>1, <1>3, <1>5 DEF HeapType
  <2>2. live' \subseteq Headers
    BY <1>5 DEF HeapType
  <2>3. num_allocated_blocks' \in Int /\ num_allocated_bytes' \in Int
    BY <1>1, <1>4 DEF HeapType
  <2>4. UNCHANGED <<mmapedList, firstAlloc, arena>>
    BY <1>5
  <2> QED
    BY <1>7, <2>1, <2>2, <2>3, <2>4 DEF HeapType
<1>9. Blocks' = Blocks \ {right} /\ ArenaSlots' = ArenaSlots
  BY <1>5 DEF Blocks, ArenaSlots, os
<1>10. /\ size'[left] = Payload(k + 1) /\ is_free'[left] /\ is_free'[right]
       /\ \A x \in Blocks \ {left, right} : size'[x] = size[x] /\ is_free'[x] = is_free[x]
  <2>1. is_free'[left]
    BY <1>3, <1>5 DEF HeapType
  <2>2. is_free'[right]
    <3>1. CASE right = b
      BY <1>3, <1>5, <3>1 DEF HeapType
    <3>2. CASE right = buddy
      BY <1>3, <1>5, <3>2 DEF HeapType
    <3> QED
      BY <1>2, <3>1, <3>2
  <2>3. size'[left] = Payload(k + 1)
    BY <1>3, <1>5 DEF HeapType
  <2>4. \A x \in Blocks \ {left, right} : size'[x] = size[x] /\ is_free'[x] = is_free[x]
    BY <1>2, <1>5 DEF HeapType, Blocks, Headers
  <2> QED
    BY <2>1, <2>2, <2>3, <2>4
<1>11. /\ Whole(left)' = 2 * s /\ Whole(left) = s /\ Whole(right) = s
       /\ \A x \in Blocks \ {left, right} : Whole(x)' = Whole(x)
  BY <1>1, <1>3, <1>10 DEF Whole
<1>12. \A x \in Blocks : x \in Nat /\ Whole(x) \in Nat
  BY SlotsType, OrdersType DEF Blocks, Whole, HeapType, Headers
<1>13. ArenaOK'
  <2>1. ~firstAlloc
    <3>1. left \in ArenaSlots
      BY <1>2 DEF HeapOK, Tiling, Shaped
    <3> QED
      BY <3>1, ArenaFacts DEF HeapOK
  <2> QED
    BY <1>5, <2>1 DEF HeapOK, ArenaOK, os
<1>14. Shaped'
  <2>1. \A x \in Blocks : x \in ArenaSlots
                          /\ \E i \in Orders : size[x] = Payload(i)
                                               /\ x % getOrderSize(i) = 0
    BY DEF HeapOK, Tiling, Shaped
  <2> QED
    BY <1>1, <1>2, <1>9, <1>10, <2>1 DEF Shaped
<1>15. Apart'
  <2> SUFFICES ASSUME NEW x \in Blocks', NEW y \in Blocks', x < y
               PROVE  x + Whole(x)' <= y
    BY DEF Apart
  <2>1. \A u, v \in Blocks : u < v => u + Whole(u) <= v
    BY DEF HeapOK, Tiling, Apart
  <2>2. CASE x = left
    <3>1. left + s <= y /\ y # right
      BY <1>2, <1>9, <1>11, <2>1, <2>2
    <3>2. right < y
      BY <1>2, <1>9, <1>12, <3>1
    <3>3. right + s <= y
      BY <1>2, <1>9, <1>11, <2>1, <3>2
    <3> QED
      BY <1>1, <1>2, <1>11, <2>2, <3>3
  <2>3. CASE x # left
    BY <1>9, <1>11, <2>1, <2>3
  <2> QED
    BY <2>2, <2>3
<1>16. Filled'
  <2> SUFFICES ASSUME NEW a \in ArenaSlots
               PROVE  \E c \in Blocks' : Covers(c, a)'
    BY <1>9 DEF Filled
  <2>1. PICK c \in Blocks : Covers(c, a)
    BY DEF HeapOK, Tiling, Filled
  <2>2. a \in Nat
    BY SlotsType DEF ArenaSlots
  <2>3. CASE c \in {left, right}
    <3>1. left <= a /\ a < left + 2 * s
      BY <1>1, <1>2, <1>11, <2>1, <2>2, <2>3 DEF Covers
    <3> QED
      BY <1>2, <1>9, <1>11, <3>1 DEF Covers
  <2>4. CASE c \notin {left, right}
    BY <1>9, <1>11, <2>1, <2>4 DEF Covers
  <2> QED
    BY <2>3, <2>4
<1>17. Listed'
  <2> SUFFICES ASSUME NEW i \in Orders
               PROVE  freeBlockListArray'[i].blocks = FreeBlocks(i)'
    BY DEF Listed
  <2>1. freeBlockListArray[i].blocks = FreeBlocks(i)
    BY DEF HeapOK, Listed
  <2>2. Payload(i) = Payload(k) => i = k
    BY PayloadType
  <2>3. Payload(i) = Payload(k + 1) => i = k + 1
    BY <1>1, PayloadType
  <2>4. \A x : x \in FreeBlocks(i)' <=>
                 \/ x = left /\ i = k + 1
                 \/ x \in FreeBlocks(i) /\ x # left /\ x # right
    BY <1>2, <1>9, <1>10, <2>3 DEF FreeBlocks
  <2>5. CASE i = k
    <3>1. ~is_free[b] => b \notin FreeBlocks(i)
      BY DEF FreeBlocks
    <3>2. freeBlockListArray'[i].blocks = FreeBlocks(i) \ {left, right}
      BY <1>2, <1>6, <1>7, <2>1, <2>5, <3>1
    <3>3. i # k + 1
      BY <2>5, OrdersType
    <3> QED
      BY <2>4, <3>2, <3>3
  <2>6. CASE i # k
    <3>1. left \notin FreeBlocks(i) /\ right \notin FreeBlocks(i)
      BY <1>3, <2>2, <2>6 DEF FreeBlocks
    <3>2. CASE i = k + 1
      BY <1>7, <2>1, <2>4, <3>1, <3>2
    <3>3. CASE i # k + 1
      BY <1>7, <2>1, <2>4, <2>6, <3>1, <3>3
    <3> QED
      BY <3>2, <3>3
  <2> QED
    BY <2>5, <2>6
<1>18. MappedAreBig'
  <2>1. left \notin MMAP_ADDRS /\ right \notin MMAP_ADDRS
    BY <1>3, SlotsType
  <2>2. \A x \in Mapped' : x \in Mapped /\ size'[x] = size[x]
    BY <1>5, <2>1 DEF Mapped, HeapType
  <2> QED
    BY <2>2 DEF HeapOK, MappedAreBig
<1>19. KnownKept
  <2> SUFFICES ASSUME NEW p \in Headers, Known(p) PROVE Known(p)'
    BY DEF KnownKept
  <2>1. CASE p = right
    BY <1>3, <1>10, <2>1 DEF Known
  <2>2. CASE p # right /\ p \in live
    BY <1>5, <2>2 DEF Known
  <2>3. CASE p \in Slots /\ is_free[p]
    BY <1>3, <1>5, <2>3 DEF Known, HeapType
  <2> QED
    BY <2>1, <2>2, <2>3 DEF Known
<1> QED
  BY <1>2, <1>5, <1>8, <1>9, <1>10, <1>13, <1>14, <1>15, <1>16, <1>17, <1>18, <1>19
     DEF HeapOK, Tiling, os, client

(* The block that the merges of sfree ended with is free and listed.       *)
LEMMA MergeStopKeeps ==
  ASSUME HeapType, HeapOK, NEW b \in Blocks, NEW k, k = findTightOrder(size[b]),
         is_free' = [is_free EXCEPT ![b] = TRUE],
         freeBlockListArray' =
             IF b \in freeBlockListArray[k].blocks THEN freeBlockListArray
             ELSE [freeBlockListArray EXCEPT ![k] = FL!_addToList(@, b, size[b])],
         UNCHANGED <<mmapedList, counters, size, live, firstAlloc, arena>>
  PROVE  HeapType' /\ HeapOK' /\ KnownKept
<1>1. k \in Orders /\ size[b] = Payload(k) /\ b \in Headers
  BY BlockFacts DEF HeapOK, Tiling
<1>2. freeBlockListArray[k].blocks = FreeBlocks(k)
  BY <1>1 DEF HeapOK, Listed
<1>3. b \in freeBlockListArray[k].blocks <=> is_free[b]
  BY <1>1, <1>2 DEF FreeBlocks
<1>4. CASE is_free[b]
  <2>1. is_free' = is_free
    BY <1>1, <1>4 DEF HeapType
  <2>2. UNCHANGED <<heap, firstAlloc, arena>>
    BY <1>3, <1>4, <2>1 DEF heap, headers
  <2> QED
    BY <2>2, HeapSame
<1>5. CASE ~is_free[b]
  <2>1. MarkFree(b)
    BY <1>3, <1>5 DEF MarkFree
  <2> QED
    BY <1>5, <2>1, MarkFreeKeeps
<1> QED
  BY <1>4, <1>5

(* A change among the mapped blocks leaves the arena alone.                *)
LEMMA MappedOnly ==
  ASSUME HeapType, HeapOK, NEW a \in MMAP_ADDRS, HeapType',
         live' \in {live \cup {a}, live \ {a}},
         \A x \in Headers \ {a} : size'[x] = size[x] /\ is_free'[x] = is_free[x],
         a \in live' => size'[a] >= MAX_ORDER_BLOCK_SIZE,
         firstAlloc => live' = {},
         UNCHANGED <<freeBlockListArray, firstAlloc, arena>>
  PROVE  /\ HeapOK' /\ KnownKept /\ Blocks' = Blocks
<1>1. a \notin Slots
  BY SlotsType
<1>2. Blocks' = Blocks /\ ArenaSlots' = ArenaSlots
  BY <1>1 DEF Blocks, ArenaSlots
<1>3. \A x \in Blocks : /\ size'[x] = size[x] /\ is_free'[x] = is_free[x]
                        /\ Whole(x)' = Whole(x)
  BY <1>1 DEF Blocks, Headers, Whole
<1>4. ArenaOK'
  BY DEF HeapOK, ArenaOK
<1>5. Shaped' /\ Apart'
  BY <1>2, <1>3 DEF HeapOK, Tiling, Shaped, Apart
<1>6. Filled'
  BY <1>2, <1>3 DEF HeapOK, Tiling, Filled, Covers
<1>7. Listed'
  BY <1>2, <1>3 DEF HeapOK, Listed, FreeBlocks
<1>8. MappedAreBig'
  <2>1. \A x \in Mapped' : x = a \/ (x \in Mapped /\ size'[x] = size[x])
    BY DEF Mapped, Headers
  <2>2. \A x \in Mapped' : x = a => a \in live'
    BY DEF Mapped
  <2> QED
    BY <2>1, <2>2 DEF HeapOK, MappedAreBig
<1>9. KnownKept
  BY <1>1 DEF KnownKept, Known, Headers
<1> QED
  BY <1>2, <1>4, <1>5, <1>6, <1>7, <1>8, <1>9 DEF HeapOK, Tiling

(* The headers under the bytes of a block's payload are those of no block. *)
LEMMA BuriedIsDead ==
  ASSUME HeapType, HeapOK, NEW b \in live, NEW n \in Nat, n <= size[b]
  PROVE  Buried(b, n) \subseteq Slots \ live
<1> SUFFICES ASSUME NEW h \in Buried(b, n), h \in live
             PROVE  FALSE
  BY DEF Buried, Covered
<1>1. h \in Slots /\ b < h /\ h < b + META + n
  BY DEF Buried, Covered
<1>2. b \in Headers /\ size[b] \in Nat /\ META \in Nat /\ h \in Nat
  BY <1>1, OrdersType, SlotsType DEF HeapType
<1>3. b \in Slots
  <2>1. h <= BRK_LIMIT /\ BRK_LIMIT \in Nat
    BY <1>1, Malloc3Assumption DEF Slots
  <2>2. b \in MMAP_ADDRS => b \in Nat /\ b > BRK_LIMIT
    BY Malloc3Assumption
  <2> QED
    BY <1>1, <1>2, <2>1, <2>2 DEF Headers
<1>4. b + Whole(b) <= h
  BY <1>1, <1>3 DEF HeapOK, Tiling, Apart, Blocks
<1> QED
  BY <1>1, <1>2, <1>3, <1>4, SlotsType DEF Whole

(* Bytes written where no block has its header leave the heap alone.       *)
LEMMA ScribbleKeeps ==
  ASSUME HeapType, HeapOK, NEW S \in SUBSET (Slots \ live),
         size' \in [Headers -> Nat], is_free' \in [Headers -> BOOLEAN],
         \A x \in Headers \ S : size'[x] = size[x] /\ is_free'[x] = is_free[x],
         UNCHANGED <<freeBlockListArray, mmapedList, counters, live, firstAlloc, arena>>
  PROVE  /\ HeapType' /\ HeapOK' /\ Blocks' = Blocks
         /\ \A p \in Headers \ S : Known(p) => Known(p)'
         /\ \A p \in live : Known(p)'
<1>1. HeapType'
  BY DEF HeapType, counters
<1>2. Blocks' = Blocks /\ ArenaSlots' = ArenaSlots /\ Mapped' = Mapped
  BY DEF Blocks, ArenaSlots, Mapped
<1>3. \A x \in live : size'[x] = size[x] /\ is_free'[x] = is_free[x]
  BY DEF HeapType
<1>4. \A x \in Blocks : /\ size'[x] = size[x] /\ is_free'[x] = is_free[x]
                        /\ Whole(x)' = Whole(x)
  BY <1>3 DEF Blocks, Whole
<1>5. ArenaOK'
  BY DEF HeapOK, ArenaOK
<1>6. Shaped' /\ Apart'
  BY <1>2, <1>4 DEF HeapOK, Tiling, Shaped, Apart
<1>7. Filled'
  BY <1>2, <1>4 DEF HeapOK, Tiling, Filled, Covers
<1>8. Listed'
  BY <1>2, <1>4 DEF HeapOK, Listed, FreeBlocks
<1>9. MappedAreBig'
  BY <1>2, <1>3 DEF HeapOK, MappedAreBig, Mapped
<1>10. \A p \in Headers \ S : Known(p) => Known(p)'
  BY DEF Known
<1>11. \A p \in live : Known(p)'
  BY DEF Known
<1> QED
  BY <1>1, <1>2, <1>5, <1>6, <1>7, <1>8, <1>9, <1>10, <1>11 DEF HeapOK, Tiling

(* allocateByMmap *)
LEMMA MmapKeeps ==
  ASSUME HeapType, HeapOK, ~firstAlloc, NEW a \in MMAP_ADDRS \ live,
         NEW n \in Nat, n >= MAX_ORDER_BLOCK_SIZE,
         live' = live \cup {a},
         size' = [size EXCEPT ![a] = n],
         is_free' = [is_free EXCEPT ![a] = FALSE],
         mmapedList' = FL!_addToList(mmapedList, a, n),
         num_allocated_blocks' = num_allocated_blocks + 1,
         num_allocated_bytes' = num_allocated_bytes + n,
         UNCHANGED <<freeBlockListArray, firstAlloc, arena>>
  PROVE  HeapType' /\ HeapOK' /\ KnownKept /\ a \in Headers
<1>1. a \in Headers
  BY DEF Headers
<1>2. mmapedList' \in List
  BY <1>1 DEF HeapType, FL!_addToList, List
<1>3. size' \in [Headers -> Nat] /\ is_free' \in [Headers -> BOOLEAN]
  BY <1>1 DEF HeapType
<1>4. HeapType'
  BY <1>1, <1>2, <1>3 DEF HeapType
<1>5. /\ \A x \in Headers \ {a} : size'[x] = size[x] /\ is_free'[x] = is_free[x]
      /\ size'[a] = n
  BY <1>1 DEF HeapType
<1> QED
  BY <1>1, <1>4, <1>5, MappedOnly

(* munmap, on the size that sfree reads in the header.                     *)
LEMMA MunmapKeeps ==
  ASSUME HeapType, HeapOK, NEW b \in Headers, Known(b), ~is_free[b], b \in live,
         size[b] >= MAX_ORDER_BLOCK_SIZE,
         num_allocated_blocks' = num_allocated_blocks - 1,
         num_allocated_bytes' = num_allocated_bytes - size[b],
         mmapedList' = FL!_removeFromList(mmapedList, b, size[b]),
         live' = live \ {b},
         size' = [size EXCEPT ![b] = 0],
         UNCHANGED <<freeBlockListArray, is_free, firstAlloc, arena>>
  PROVE  HeapType' /\ HeapOK' /\ KnownKept
<1>1. b \in MMAP_ADDRS
  <2>1. SUFFICES ASSUME b \in Slots PROVE FALSE
    BY DEF Headers
  <2>2. PICK k \in Orders : size[b] = Payload(k)
    BY <2>1 DEF HeapOK, Tiling, Shaped, Blocks
  <2>3. getOrderSize(k) <= MAX_ORDER_BLOCK_SIZE
    <3>1. k = MAX_ORDER \/ k < MAX_ORDER
      BY OrdersType DEF Orders
    <3>2. CASE k = MAX_ORDER
      BY <3>2, DivisorType
    <3>3. CASE k < MAX_ORDER
      <4>1. 2 * getOrderSize(k) <= getOrderSize(MAX_ORDER)
        BY <3>3, OrdersType, OrderSizeGrows
      <4> QED
        BY <4>1, OrderSizeType, DivisorType
    <3> QED
      BY <3>1, <3>2, <3>3
  <2> QED
    BY <2>2, <2>3, OrderSizeType, DivisorType, GeometryAssumption DEF Payload
<1>2. size[b] \in Nat
  BY DEF HeapType
<1>3. mmapedList' \in List
  BY <1>2 DEF HeapType, FL!_removeFromList, List
<1>4. size' \in [Headers -> Nat]
  BY DEF HeapType
<1>5. HeapType'
  BY <1>2, <1>3, <1>4 DEF HeapType
<1>6. \A x \in Headers \ {b} : size'[x] = size[x]
  BY DEF HeapType
<1>7. ~firstAlloc
  BY DEF HeapOK, ArenaOK
<1> QED
  BY <1>1, <1>5, <1>6, <1>7, MappedOnly

(* The first allocation: the gap brings the break to a multiple of what    *)
(* the arena takes, so every top block is aligned to its own size.         *)
LEMMA GapAligns ==
  ASSUME brk \in Nat
  PROVE  Gap \in Nat /\ (brk + Gap) % PROGRAM_BREAK_DIVISOR = 0
<1> DEFINE D == PROGRAM_BREAK_DIVISOR
           r == brk % D
<1>1. D \in Nat \ {0}
  BY DivisorType
<1>2. r \in 0 .. D - 1
  <2> HIDE DEF D
  <2> QED BY <1>1
<1>3. CASE r = 0
  BY <1>1, <1>3 DEF Gap
<1>4. CASE r # 0
  <2>1. Gap = D - r
    BY <1>4 DEF Gap
  <2>2. brk - r \in Nat /\ (brk - r) % D = 0
    <3> HIDE DEF D
    <3> QED BY <1>1, RoundDown DEF r
  <2> HIDE DEF D, r
  <2>3. D = D * 1
    BY <1>1
  <2>4. D % D = 0
    BY <1>1, <2>3, MultipleOf
  <2>5. D \in Nat
    BY <1>1
  <2>6. ((brk - r) + D) % D = 0
    BY <1>1, <2>2, <2>4, <2>5, MultipleSum
  <2>7. (brk - r) + D = brk + (D - r) /\ D - r \in Nat
    BY <1>1, <1>2
  <2> QED
    BY <2>1, <2>6, <2>7 DEF D
<1> QED
  BY <1>3, <1>4

LEMMA TopBlocksTile ==
  ASSUME NEW base \in Nat \ {0}, base % PROGRAM_BREAK_DIVISOR = 0
  PROVE  /\ \A b \in TopBlocks(base) :
              /\ b \in Nat /\ base <= b /\ b % MAX_ORDER_BLOCK_SIZE = 0
              /\ b + MAX_ORDER_BLOCK_SIZE <= base + PROGRAM_BREAK_DIVISOR
         /\ \A a \in Nat : (base <= a /\ a < base + PROGRAM_BREAK_DIVISOR) =>
              /\ Ancestor(a, MAX_ORDER) \in TopBlocks(base)
              /\ Ancestor(a, MAX_ORDER) <= a
              /\ a < Ancestor(a, MAX_ORDER) + MAX_ORDER_BLOCK_SIZE
<1> DEFINE D == PROGRAM_BREAK_DIVISOR
           M == MAX_ORDER_BLOCK_SIZE
           N == INITIAL_MALLOC_BLOCK_AMOUNT
<1>1. /\ D \in Nat \ {0} /\ M \in Nat \ {0} /\ M = getOrderSize(MAX_ORDER)
      /\ D % M = 0 /\ base % D = 0
  BY DivisorType
<1>2. N \in Nat \ {0} /\ D = N * M
  BY Malloc3Assumption DEF PROGRAM_BREAK_DIVISOR
<1>3. \A x : x \in TopBlocks(base) <=> \E i \in 0 .. N - 1 : x = base + i * M
  BY DEF TopBlocks
<1>4. \A a \in Nat : LET A == Ancestor(a, MAX_ORDER)
                     IN A \in Nat /\ A % M = 0 /\ A <= a /\ a < A + M
  BY <1>1, OrdersType, AncestorType
<1> HIDE DEF D, M, N
<1>5. base % M = 0
  BY <1>1, MultipleTrans
<1>6. ASSUME NEW b \in TopBlocks(base)
      PROVE  b \in Nat /\ base <= b /\ b % M = 0 /\ b + M <= base + D
  <2>1. PICK i \in 0 .. N - 1 : b = base + i * M
    BY <1>3
  <2>2. i \in Nat /\ i + 1 <= N
    BY <1>2, <2>1
  <2>3. i * M = M * i /\ i * M \in Nat
    BY <1>1, <2>2
  <2>4. (i * M) % M = 0
    BY <1>1, <2>2, <2>3, MultipleOf
  <2>5. b % M = 0
    BY <1>1, <1>5, <2>1, <2>3, <2>4, MultipleSum
  <2>6. i * M + M <= N * M
    <3>1. PICK d \in Nat : N = i + 1 + d
      <4>1. N - (i + 1) \in Nat /\ N = i + 1 + (N - (i + 1))
        BY <1>2, <2>2
      <4> QED BY <4>1
    <3>2. (i + 1 + d) * M = i * M + M + d * M /\ d * M \in Nat
      BY <1>1, <2>2
    <3> QED
      BY <1>1, <2>3, <3>1, <3>2
  <2> QED
    BY <1>1, <1>2, <2>1, <2>3, <2>5, <2>6
<1>7. ASSUME NEW a \in Nat, base <= a, a < base + D, NEW A, A = Ancestor(a, MAX_ORDER)
      PROVE  A \in TopBlocks(base) /\ A <= a /\ a < A + M
  <2>1. A \in Nat /\ A % M = 0 /\ A <= a /\ a < A + M
    BY <1>4, <1>7
  <2>2. base <= A
    <3>1. SUFFICES ASSUME A < base PROVE FALSE
      BY <2>1
    <3>2. A + M <= base
      BY <1>1, <1>5, <2>1, <3>1, MultiplesApart
    <3> QED
      BY <1>1, <1>7, <2>1, <3>2
  <2>3. A - base \in Nat /\ (A - base) % M = 0
    BY <1>1, <1>5, <2>1, <2>2, MultipleSum
  <2> DEFINE i == (A - base) \div M
  <2>4. i \in Nat /\ A - base = M * i
    BY <1>1, <2>3, Quotient
  <2> HIDE DEF i
  <2>5. M * i = i * M /\ i * M < N * M
    BY <1>1, <1>2, <1>7, <2>1, <2>4
  <2>6. i < N
    <3>1. SUFFICES ASSUME N <= i PROVE FALSE
      BY <1>2, <2>4
    <3>2. PICK d \in Nat : i = N + d
      <4>1. i - N \in Nat /\ i = N + (i - N)
        BY <1>2, <2>4, <3>1
      <4> QED BY <4>1
    <3>3. (N + d) * M = N * M + d * M /\ d * M \in Nat
      BY <1>1, <1>2
    <3> QED
      BY <1>1, <1>2, <2>5, <3>2, <3>3
  <2>7. i \in 0 .. N - 1 /\ A = base + i * M
    BY <1>1, <1>2, <2>1, <2>4, <2>5, <2>6
  <2> QED
    BY <1>3, <2>1, <2>7
<1> QED
  BY <1>6, <1>7 DEF D, M

LEMMA FirstAllocatorKeeps ==
  ASSUME HeapType, HeapOK, brk \in 1 .. BRK_LIMIT, FirstAllocator
  PROVE  /\ HeapType' /\ HeapOK' /\ KnownKept
         /\ brk' \in 1 .. BRK_LIMIT /\ live \subseteq live'
<1> DEFINE base == brk + Gap
           Top  == TopBlocks(base)
           M    == MAX_ORDER_BLOCK_SIZE
           D    == PROGRAM_BREAK_DIVISOR
<1>1. brk \in Nat /\ BRK_LIMIT \in Nat /\ brk > 0
  BY Malloc3Assumption
<1>2. base \in Nat \ {0} /\ base % D = 0 /\ Gap \in Nat
  BY <1>1, GapAligns
<1>3. /\ D \in Nat \ {0} /\ M \in Nat \ {0} /\ M = getOrderSize(MAX_ORDER)
      /\ D % M = 0 /\ M % ORDER_SIZE = 0 /\ ORDER_SIZE \in Nat \ {0}
  BY DivisorType, SmallestDivides, OrdersType
<1>4. base + D <= BRK_LIMIT /\ firstAlloc
  BY DEF FirstAllocator
<1>5. /\ brk' = base + D /\ arena' = base /\ live' = live \cup Top
      /\ size' = [a \in Headers |-> IF a \in Top THEN Payload(MAX_ORDER) ELSE size[a]]
      /\ is_free' = [a \in Headers |-> a \in Top \/ is_free[a]]
      /\ freeBlockListArray' = [k \in Orders |-> IF k = MAX_ORDER THEN TopList
                                                            ELSE FL!EmptyList]
      /\ num_allocated_blocks' = num_allocated_blocks + INITIAL_MALLOC_BLOCK_AMOUNT
      /\ num_allocated_bytes' = num_allocated_bytes
                   + INITIAL_MALLOC_BLOCK_AMOUNT * Payload(MAX_ORDER)
      /\ firstAlloc' = FALSE /\ mmapedList' = mmapedList
  BY DEF FirstAllocator
<1>6. live = {}
  BY <1>4 DEF HeapOK, ArenaOK
<1>7. /\ \A b \in Top : b \in Nat /\ base <= b /\ b % M = 0 /\ b + M <= base + D
      /\ \A a \in Nat : (base <= a /\ a < base + D) =>
              /\ Ancestor(a, MAX_ORDER) \in Top
              /\ Ancestor(a, MAX_ORDER) <= a /\ a < Ancestor(a, MAX_ORDER) + M
  BY <1>2, TopBlocksTile
<1>8. /\ MAX_ORDER \in Orders /\ Payload(MAX_ORDER) \in Nat
      /\ Payload(MAX_ORDER) + META = M
  BY <1>3, OrdersType, PayloadType DEF Payload
<1>9. TopList.blocks = Top
  BY DEF TopList
<1> HIDE DEF M, D, Top
<1>10. \A b \in Top : b \in Slots /\ b \in Headers
  <2> SUFFICES ASSUME NEW b \in Top PROVE b \in Slots
    BY DEF Headers
  <2> HIDE DEF base
  <2>1. b \in 1 .. BRK_LIMIT
    <3>1. /\ b \in Nat /\ base <= b /\ b + M <= base + D /\ base + D <= BRK_LIMIT
          /\ base \in Nat \ {0} /\ M \in Nat /\ D \in Nat /\ BRK_LIMIT \in Nat
      BY <1>1, <1>2, <1>3, <1>4, <1>7
    <3> QED
      BY <3>1
  <2>2. b % ORDER_SIZE = 0
    BY <1>3, <1>7, MultipleTrans
  <2> QED
    BY <2>1, <2>2 DEF Slots
<1>11. TopList \in List /\ FL!EmptyList \in List
  <2>1. INITIAL_MALLOC_BLOCK_AMOUNT \in Nat
    BY Malloc3Assumption
  <2>2. INITIAL_MALLOC_BLOCK_AMOUNT * Payload(MAX_ORDER) \in Int
    BY <1>8, <2>1
  <2> QED
    BY <1>9, <1>10, <2>1, <2>2 DEF TopList, FL!EmptyList, List
<1>12. base \in Slots /\ base % M = 0
  <2>1. base % M = 0
    BY <1>2, <1>3, MultipleTrans
  <2>2. base % ORDER_SIZE = 0
    BY <1>2, <1>3, <2>1, MultipleTrans
  <2>3. base \in 1 .. BRK_LIMIT
    BY <1>1, <1>2, <1>3, <1>4
  <2> QED
    BY <2>1, <2>2, <2>3 DEF Slots
<1>13. brk' \in 1 .. BRK_LIMIT /\ base + D <= BRK_LIMIT
  BY <1>1, <1>2, <1>3, <1>4, <1>5
<1> HIDE DEF base
<1>14. HeapType'
  <2>1. INITIAL_MALLOC_BLOCK_AMOUNT * Payload(MAX_ORDER) \in Int
        /\ INITIAL_MALLOC_BLOCK_AMOUNT \in Int
    BY <1>8, Malloc3Assumption
  <2>2. size' \in [Headers -> Nat] /\ is_free' \in [Headers -> BOOLEAN]
    BY <1>5, <1>8 DEF HeapType
  <2>3. freeBlockListArray' \in [Orders -> List]
    BY <1>5, <1>11
  <2>4. num_allocated_blocks' \in Int /\ num_allocated_bytes' \in Int
    BY <1>5, <2>1 DEF HeapType
  <2>5. live' \subseteq Headers /\ arena' \in Slots /\ firstAlloc' \in BOOLEAN
    BY <1>5, <1>6, <1>10, <1>12
  <2>6. mmapedList' \in List
    BY <1>5 DEF HeapType
  <2> QED
    BY <2>2, <2>3, <2>4, <2>5, <2>6 DEF HeapType
<1>15. /\ Blocks' = Top
       /\ \A a : a \in ArenaSlots' <=> a \in Slots /\ base <= a /\ a < base + D
  <2>1. Blocks' = Top
    BY <1>5, <1>6, <1>10 DEF Blocks
  <2>2. arena' # NULL
    BY <1>2, <1>5 DEF NULL
  <2> QED
    BY <1>5, <2>1, <2>2 DEF ArenaSlots, D
<1>16. \A b \in Top : size'[b] = Payload(MAX_ORDER) /\ is_free'[b] /\ Whole(b)' = M
  BY <1>5, <1>8, <1>10 DEF Whole
<1>17. ArenaOK'
  BY <1>5, <1>12, <1>13 DEF ArenaOK, M, D
<1>18. Shaped'
  <2>1. \A b \in Top : b \in ArenaSlots'
    BY <1>2, <1>3, <1>7, <1>10, <1>15
  <2>2. \A b \in Top : b % getOrderSize(MAX_ORDER) = 0
    BY <1>3, <1>7
  <2> QED
    BY <1>8, <1>15, <1>16, <2>1, <2>2 DEF Shaped
<1>19. Apart'
  <2> SUFFICES ASSUME NEW a \in Top, NEW b \in Top, a < b
               PROVE  a + Whole(a)' <= b
    BY <1>15 DEF Apart
  <2>1. a + M <= b
    BY <1>3, <1>7, MultiplesApart
  <2> QED
    BY <1>16, <2>1
<1>20. Filled'
  <2> SUFFICES ASSUME NEW a \in ArenaSlots'
               PROVE  \E b \in Top : b <= a /\ a < b + Whole(b)'
    BY <1>15 DEF Filled, Covers
  <2>1. a \in Nat /\ base <= a /\ a < base + D
    BY <1>15, SlotsType
  <2> QED
    BY <1>7, <1>16, <2>1
<1>21. Listed'
  <2> SUFFICES ASSUME NEW k \in Orders
               PROVE  freeBlockListArray'[k].blocks = FreeBlocks(k)'
    BY DEF Listed
  <2>1. CASE k = MAX_ORDER
    BY <1>5, <1>9, <1>15, <1>16, <2>1 DEF FreeBlocks
  <2>2. CASE k # MAX_ORDER
    <3>1. Payload(MAX_ORDER) # Payload(k)
      BY <1>8, <2>2, PayloadType
    <3> QED
      BY <1>5, <1>15, <1>16, <2>2, <3>1 DEF FreeBlocks, FL!EmptyList
  <2> QED
    BY <2>1, <2>2
<1>22. MappedAreBig'
  BY <1>5, <1>6, <1>10, SlotsType DEF MappedAreBig, Mapped
<1>23. KnownKept
  BY <1>5 DEF KnownKept, Known
<1> QED
  BY <1>5, <1>13, <1>14, <1>17, <1>18, <1>19, <1>20, <1>21, <1>22, <1>23
     DEF HeapOK, Tiling

(* The first allocation fails: nothing is allocated yet, and it stays so.  *)
LEMMA FirstAllocatorFailsKeeps ==
  ASSUME HeapType, HeapOK, brk \in 1 .. BRK_LIMIT, FirstAllocatorFails
  PROVE  HeapType' /\ HeapOK' /\ KnownKept /\ brk' \in 1 .. BRK_LIMIT
<1>1. /\ firstAlloc /\ UNCHANGED <<mmapedList, firstAlloc, arena, live, size, is_free,
                                   num_allocated_blocks, num_allocated_bytes>>
      /\ freeBlockListArray' = [k \in Orders |-> FL!EmptyList]
      /\ brk' \in {brk} \cup {b \in {brk + Gap} : b <= BRK_LIMIT}
  BY DEF FirstAllocatorFails, counters, headers
<1>2. live = {}
  BY <1>1 DEF HeapOK, ArenaOK
<1>3. brk' \in 1 .. BRK_LIMIT
  <2>1. brk \in Nat /\ BRK_LIMIT \in Nat
    BY Malloc3Assumption
  <2>2. Gap \in Nat
    BY <2>1, GapAligns
  <2> QED
    BY <1>1, <2>1, <2>2
<1>4. HeapType'
  <2>1. FL!EmptyList \in List
    BY DEF FL!EmptyList, List
  <2> QED
    BY <1>1, <2>1 DEF HeapType
<1>5. Blocks' = {} /\ Blocks = {} /\ ArenaSlots' = ArenaSlots /\ Mapped' = {}
  BY <1>1, <1>2 DEF Blocks, ArenaSlots, Mapped
<1>6. ArenaOK' /\ Tiling' /\ MappedAreBig'
  BY <1>1, <1>5 DEF HeapOK, ArenaOK, Tiling, Shaped, Apart, Filled, MappedAreBig
<1>7. Listed'
  BY <1>1, <1>5 DEF Listed, FreeBlocks, FL!EmptyList
<1>8. KnownKept
  BY <1>1 DEF KnownKept, Known
<1> QED
  BY <1>3, <1>4, <1>6, <1>7, <1>8 DEF HeapOK
=============================================================================
