------------------------- MODULE MetadataListProofs -------------------------
(***************************************************************************)
(* Proofs about module MetadataList.  Good(s, S) says that the links of s  *)
(* are those of the blocks of S and that every other header is detached.   *)
(* One lemma for each thing the code does to the links says that it makes  *)
(* a good list of one set into a good list of another; the invariant of    *)
(* the state machine follows from them action by action.                   *)
(***************************************************************************)
EXTENDS MetadataList, FiniteSums, TLAPS

Shape == [head : Pointers, tail : Pointers,
          next : [Addresses -> Pointers], prev : [Addresses -> Pointers]]

Good(l, S) ==
  /\ l \in Shape /\ S \subseteq Addresses
  /\ Forward(l, S) /\ Backward(l, S)
  /\ \A b \in Addresses \ S : l.next[b] = NULL /\ l.prev[b] = NULL

(* Headers are numbers, and NULL is none of them. *)
LEMMA AddressesType ==
  /\ \A a \in Addresses : a \in Nat /\ a # NULL
  /\ \A p \in Pointers : p \in Nat /\ (p # NULL => p \in Addresses)
BY ListAssumption DEF Pointers, NULL

(* A write to one link field changes that one only. *)
LEMMA WithField ==
  ASSUME NEW field \in [Addresses -> Pointers], NEW a, NEW v \in Pointers
  PROVE  /\ With(field, a, v) \in [Addresses -> Pointers]
         /\ \A x \in Addresses :
              With(field, a, v)[x] = IF x = a THEN v ELSE field[x]
BY DEF With

(* A list whose four fields are given. *)
LEMMA Rebuilt ==
  ASSUME NEW h \in Pointers, NEW t \in Pointers,
         NEW n \in [Addresses -> Pointers], NEW p \in [Addresses -> Pointers],
         NEW m, m = [head |-> h, tail |-> t, next |-> n, prev |-> p]
  PROVE  /\ m \in Shape
         /\ m.head = h /\ m.tail = t /\ m.next = n /\ m.prev = p
BY DEF Shape

(* A list has its lowest block at the head and its highest at the tail.    *)
LEMMA EndsOfList ==
  ASSUME NEW l, NEW S, Good(l, S)
  PROVE  /\ l.head = NULL <=> S = {}
         /\ l.tail = NULL <=> S = {}
         /\ l.head # NULL => l.head \in S /\ \A c \in S : l.head <= c
         /\ l.tail # NULL => l.tail \in S /\ \A c \in S : c <= l.tail
BY AddressesType DEF Good, Forward, Backward, First, Last, Shape

(* To be a good list: the four parts, block by block.                      *)
LEMMA GoodParts ==
  ASSUME NEW l \in Shape, NEW S \in SUBSET Addresses,
         First(S, l.head), Last(S, l.tail),
         \A b \in S : Follows(S, b, l.next[b]),
         \A b \in S : Precedes(S, b, l.prev[b]),
         \A b \in Addresses \ S : l.next[b] = NULL /\ l.prev[b] = NULL
  PROVE  Good(l, S)
BY DEF Good, Forward, Backward

(* _addToList of the first block.                                          *)
LEMMA AddFirstGood ==
  ASSUME NEW l, Good(l, {}), NEW b \in Addresses
  PROVE  Good(AddFirst(l, b), {b})
<1> DEFINE m == AddFirst(l, b)
<1>1. /\ m \in Shape /\ m.head = b /\ m.tail = b
      /\ m.next = l.next /\ m.prev = l.prev
  BY DEF AddFirst, Good, Shape, Pointers
<1>2. \A x \in Addresses : l.next[x] = NULL /\ l.prev[x] = NULL
  BY DEF Good
<1> HIDE DEF m
<1>3. First({b}, m.head) /\ Last({b}, m.tail)
  BY <1>1, AddressesType DEF First, Last
<1>4. Follows({b}, b, m.next[b]) /\ Precedes({b}, b, m.prev[b])
  BY <1>1, <1>2, AddressesType DEF Follows, Precedes
<1>5. Good(m, {b})
  BY <1>1, <1>2, <1>3, <1>4, GoodParts
<1> QED
  BY <1>5 DEF m

(* _addToList of a block above the tail.                                   *)
LEMMA AddLastGood ==
  ASSUME NEW l, NEW S, Good(l, S), NEW b \in Addresses \ S,
         l.head # NULL, b > l.tail
  PROVE  Good(AddLast(l, b), S \cup {b})
<1> DEFINE m == AddLast(l, b)
           T == S \cup {b}
<1>1. /\ l \in Shape /\ S \subseteq Addresses /\ l.tail \in S /\ l.head \in S
      /\ \A c \in S : l.head <= c /\ c <= l.tail /\ c < b
  BY EndsOfList, AddressesType DEF Good
<1>2. /\ \A x \in S : Follows(S, x, l.next[x]) /\ Precedes(S, x, l.prev[x])
      /\ \A x \in Addresses \ S : l.next[x] = NULL /\ l.prev[x] = NULL
  BY DEF Good, Forward, Backward
<1>3. /\ m \in Shape /\ m.head = l.head /\ m.tail = b
      /\ \A x \in Addresses : m.next[x] = IF x = l.tail THEN b ELSE l.next[x]
      /\ \A x \in Addresses : m.prev[x] = IF x = b THEN l.tail ELSE l.prev[x]
  <2>1. PICK n, p : n = With(l.next, l.tail, b) /\ p = With(l.prev, b, l.tail)
    OBVIOUS
  <2>2. /\ n \in [Addresses -> Pointers] /\ p \in [Addresses -> Pointers]
        /\ l.head \in Pointers /\ l.tail \in Pointers /\ b \in Pointers
    BY <1>1, <2>1, WithField DEF Shape, Pointers
  <2>3. m = [head |-> l.head, tail |-> b, next |-> n, prev |-> p]
    BY <1>1, <2>1 DEF AddLast, Shape
  <2>4. /\ m \in Shape /\ m.head = l.head /\ m.tail = b
        /\ m.next = n /\ m.prev = p
    BY <2>2, <2>3, Rebuilt
  <2>5. /\ \A x \in Addresses : n[x] = IF x = l.tail THEN b ELSE l.next[x]
        /\ \A x \in Addresses : p[x] = IF x = b THEN l.tail ELSE l.prev[x]
    BY <1>1, <2>1, WithField DEF Shape, Pointers
  <2> QED
    BY <2>4, <2>5
<1> HIDE DEF m
<1>4. First(T, m.head) /\ Last(T, m.tail)
  BY <1>1, <1>3, AddressesType DEF First, Last
<1>5. \A x \in T : Follows(T, x, m.next[x])
  BY <1>1, <1>2, <1>3, AddressesType DEF Follows
<1>6. \A x \in T : Precedes(T, x, m.prev[x])
  BY <1>1, <1>2, <1>3, AddressesType DEF Precedes
<1>7. \A x \in Addresses \ T : m.next[x] = NULL /\ m.prev[x] = NULL
  BY <1>1, <1>2, <1>3
<1>8. T \in SUBSET Addresses
  BY <1>1
<1>9. Good(m, T)
  BY <1>3, <1>4, <1>5, <1>6, <1>7, <1>8, GoodParts
<1> QED
  BY <1>9 DEF m

(* _addToList of a block below the head.                                   *)
LEMMA AddFrontGood ==
  ASSUME NEW l, NEW S, Good(l, S), NEW b \in Addresses \ S,
         l.head # NULL, b < l.head
  PROVE  Good(AddFront(l, b), S \cup {b})
<1> DEFINE m == AddFront(l, b)
           T == S \cup {b}
<1>1. /\ l \in Shape /\ S \subseteq Addresses /\ l.tail \in S /\ l.head \in S
      /\ \A c \in S : l.head <= c /\ c <= l.tail /\ b < c
  BY EndsOfList, AddressesType DEF Good
<1>2. /\ \A x \in S : Follows(S, x, l.next[x]) /\ Precedes(S, x, l.prev[x])
      /\ \A x \in Addresses \ S : l.next[x] = NULL /\ l.prev[x] = NULL
  BY DEF Good, Forward, Backward
<1>3. /\ m \in Shape /\ m.head = b /\ m.tail = l.tail
      /\ \A x \in Addresses : m.next[x] = IF x = b THEN l.head ELSE l.next[x]
      /\ \A x \in Addresses : m.prev[x] = IF x = l.head THEN b ELSE l.prev[x]
  <2>1. PICK n, p : n = With(l.next, b, l.head) /\ p = With(l.prev, l.head, b)
    OBVIOUS
  <2>2. /\ n \in [Addresses -> Pointers] /\ p \in [Addresses -> Pointers]
        /\ l.head \in Pointers /\ l.tail \in Pointers /\ b \in Pointers
    BY <1>1, <2>1, WithField DEF Shape, Pointers
  <2>3. m = [head |-> b, tail |-> l.tail, next |-> n, prev |-> p]
    BY <1>1, <2>1 DEF AddFront, Shape
  <2>4. /\ m \in Shape /\ m.head = b /\ m.tail = l.tail
        /\ m.next = n /\ m.prev = p
    BY <2>2, <2>3, Rebuilt
  <2>5. /\ \A x \in Addresses : n[x] = IF x = b THEN l.head ELSE l.next[x]
        /\ \A x \in Addresses : p[x] = IF x = l.head THEN b ELSE l.prev[x]
    BY <1>1, <2>1, WithField DEF Shape, Pointers
  <2> QED
    BY <2>4, <2>5
<1> HIDE DEF m
<1>4. First(T, m.head) /\ Last(T, m.tail)
  BY <1>1, <1>3, AddressesType DEF First, Last
<1>5. \A x \in T : Follows(T, x, m.next[x])
  BY <1>1, <1>2, <1>3, AddressesType DEF Follows
<1>6. \A x \in T : Precedes(T, x, m.prev[x])
  BY <1>1, <1>2, <1>3, AddressesType DEF Precedes
<1>7. \A x \in Addresses \ T : m.next[x] = NULL /\ m.prev[x] = NULL
  BY <1>1, <1>2, <1>3
<1>8. T \in SUBSET Addresses
  BY <1>1
<1>9. Good(m, T)
  BY <1>3, <1>4, <1>5, <1>6, <1>7, <1>8, GoodParts
<1> QED
  BY <1>9 DEF m

(* _addToList of a block in between, before the first listed block above.  *)
LEMMA InsertBeforeGood ==
  ASSUME NEW l, NEW S, Good(l, S), NEW b \in Addresses \ S, NEW current \in S,
         l.head < b, b < current, \A c \in S : c < current => c < b
  PROVE  Good(InsertBefore(l, b, current), S \cup {b})
<1> DEFINE m == InsertBefore(l, b, current)
           T == S \cup {b}
           before == l.prev[current]
<1>1. /\ l \in Shape /\ S \subseteq Addresses /\ l.tail \in S /\ l.head \in S
      /\ \A c \in S : l.head <= c /\ c <= l.tail
  BY EndsOfList, AddressesType DEF Good
<1>2. /\ \A x \in S : Follows(S, x, l.next[x]) /\ Precedes(S, x, l.prev[x])
      /\ \A x \in Addresses \ S : l.next[x] = NULL /\ l.prev[x] = NULL
  BY DEF Good, Forward, Backward
<1>3. /\ before \in S /\ before < b
      /\ \A c \in S : c <= before \/ current <= c
  BY <1>1, <1>2, AddressesType DEF Precedes
<1>4. /\ m \in Shape /\ m.head = l.head /\ m.tail = l.tail
      /\ \A x \in Addresses : m.next[x] = IF x = before THEN b
                                          ELSE IF x = b THEN current ELSE l.next[x]
      /\ \A x \in Addresses : m.prev[x] = IF x = current THEN b
                                          ELSE IF x = b THEN before ELSE l.prev[x]
  <2>1. PICK n, p : n = With(With(l.next, b, current), before, b) /\ p = With(With(l.prev, b, before), current, b)
    OBVIOUS
  <2>2. /\ n \in [Addresses -> Pointers] /\ p \in [Addresses -> Pointers]
        /\ l.head \in Pointers /\ l.tail \in Pointers /\ b \in Pointers
    BY <1>1, <1>3, <2>1, WithField DEF Shape, Pointers
  <2>3. m = [head |-> l.head, tail |-> l.tail, next |-> n, prev |-> p]
    BY <1>1, <1>3, <2>1 DEF InsertBefore, Shape
  <2>4. /\ m \in Shape /\ m.head = l.head /\ m.tail = l.tail
        /\ m.next = n /\ m.prev = p
    BY <2>2, <2>3, Rebuilt
  <2>5. /\ \A x \in Addresses : n[x] = IF x = before THEN b
                                       ELSE IF x = b THEN current ELSE l.next[x]
        /\ \A x \in Addresses : p[x] = IF x = current THEN b
                                       ELSE IF x = b THEN before ELSE l.prev[x]
    BY <1>1, <1>3, <2>1, WithField DEF Shape, Pointers
  <2> QED
    BY <2>4, <2>5
<1> HIDE DEF m, before
<1>5. First(T, m.head) /\ Last(T, m.tail)
  BY <1>1, <1>4, AddressesType DEF First, Last
<1>6. \A x \in T : Follows(T, x, m.next[x])
  BY <1>1, <1>2, <1>3, <1>4, AddressesType DEF Follows
<1>7. \A x \in T : Precedes(T, x, m.prev[x])
  BY <1>1, <1>2, <1>3, <1>4, AddressesType DEF Precedes
<1>8. \A x \in Addresses \ T : m.next[x] = NULL /\ m.prev[x] = NULL
  BY <1>1, <1>2, <1>3, <1>4
<1>9. T \in SUBSET Addresses
  BY <1>1
<1>10. Good(m, T)
  BY <1>4, <1>5, <1>6, <1>7, <1>8, <1>9, GoodParts
<1> QED
  BY <1>10 DEF m

(* m is l without its block b: the neighbours of b have each other.        *)
Unlinked(m, l, b) ==
  /\ m \in Shape
  /\ m.head = IF b = l.head THEN l.next[b] ELSE l.head
  /\ m.tail = IF b = l.tail THEN l.prev[b] ELSE l.tail
  /\ \A x \in Addresses :
       m.next[x] = IF x = b THEN NULL ELSE IF x = l.prev[b] THEN l.next[b] ELSE l.next[x]
  /\ \A x \in Addresses :
       m.prev[x] = IF x = b THEN NULL ELSE IF x = l.next[b] THEN l.prev[b] ELSE l.prev[x]

LEMMA UnlinkedGood ==
  ASSUME NEW l, NEW S, Good(l, S), NEW b \in S, NEW m, Unlinked(m, l, b)
  PROVE  Good(m, S \ {b})
<1> DEFINE T == S \ {b}
<1>1. /\ l \in Shape /\ S \subseteq Addresses /\ l.tail \in S /\ l.head \in S
      /\ \A c \in S : l.head <= c /\ c <= l.tail
  BY EndsOfList, AddressesType DEF Good
<1>2. /\ \A x \in S : Follows(S, x, l.next[x]) /\ Precedes(S, x, l.prev[x])
      /\ \A x \in Addresses \ S : l.next[x] = NULL /\ l.prev[x] = NULL
  BY DEF Good, Forward, Backward
<1>3. /\ l.next[b] # NULL => /\ l.next[b] \in T /\ b < l.next[b]
                             /\ \A c \in T : c < b \/ l.next[b] <= c
      /\ l.next[b] = NULL => \A c \in T : c < b
  BY <1>1, <1>2, AddressesType DEF Follows
<1>4. /\ l.prev[b] # NULL => /\ l.prev[b] \in T /\ l.prev[b] < b
                             /\ \A c \in T : b < c \/ c <= l.prev[b]
      /\ l.prev[b] = NULL => \A c \in T : b < c
  BY <1>1, <1>2, AddressesType DEF Precedes
<1>5. First(T, m.head)
  BY <1>1, <1>3, <1>4, AddressesType DEF First, Unlinked
<1>6. Last(T, m.tail)
  BY <1>1, <1>3, <1>4, AddressesType DEF Last, Unlinked
<1>7. \A x \in T : Follows(T, x, m.next[x])
  BY <1>1, <1>2, <1>3, <1>4, AddressesType DEF Follows, Unlinked
<1>8. \A x \in T : Precedes(T, x, m.prev[x])
  BY <1>1, <1>2, <1>3, <1>4, AddressesType DEF Precedes, Unlinked
<1>9. \A x \in Addresses \ T : m.next[x] = NULL /\ m.prev[x] = NULL
  BY <1>1, <1>2, <1>3, <1>4, AddressesType DEF Unlinked
<1>10. m \in Shape /\ T \in SUBSET Addresses
  BY <1>1 DEF Unlinked
<1> QED
  BY <1>5, <1>6, <1>7, <1>8, <1>9, <1>10, GoodParts

(* The links of a block of a good list, and those at its ends. *)
LEMMA LinksOfBlock ==
  ASSUME NEW l, NEW S, Good(l, S), NEW b \in S
  PROVE  /\ b \in Addresses /\ b # NULL
         /\ l.next[b] \in Pointers /\ l.prev[b] \in Pointers
         /\ l.next[b] # b /\ l.prev[b] # b
         /\ l.next[b] # NULL => l.next[b] \in S
         /\ l.prev[b] # NULL => l.prev[b] \in S
         /\ b = l.head <=> l.prev[b] = NULL
         /\ b = l.tail <=> l.next[b] = NULL
         /\ (l.next[b] = NULL /\ l.prev[b] = NULL) => S = {b}
<1>1. /\ l \in Shape /\ S \subseteq Addresses /\ l.tail \in S /\ l.head \in S
      /\ \A c \in S : l.head <= c /\ c <= l.tail
  BY EndsOfList, AddressesType DEF Good
<1>2. Follows(S, b, l.next[b]) /\ Precedes(S, b, l.prev[b])
  BY DEF Good, Forward, Backward
<1>3. l.next[b] \in Pointers /\ l.prev[b] \in Pointers /\ b \in Nat /\ b # NULL
  BY <1>1, AddressesType DEF Shape
<1>4. \A c \in S : c \in Nat /\ c # NULL
  BY <1>1, AddressesType
<1>5. /\ l.next[b] # NULL => l.next[b] \in S /\ b < l.next[b]
      /\ l.next[b] = NULL => \A c \in S : c <= b
  BY <1>2 DEF Follows
<1>6. /\ l.prev[b] # NULL => l.prev[b] \in S /\ l.prev[b] < b
      /\ l.prev[b] = NULL => \A c \in S : b <= c
  BY <1>2 DEF Precedes
<1>7. b = l.head <=> l.prev[b] = NULL
  <2>1. ASSUME b = l.head, l.prev[b] # NULL PROVE FALSE
    <3>1. PICK c \in S : c = l.prev[b] /\ c < b /\ b <= c
      BY <1>1, <1>6, <2>1
    <3> QED
      BY <1>3, <1>4, <3>1
  <2>2. ASSUME l.prev[b] = NULL PROVE b = l.head
    <3>1. b <= l.head /\ l.head <= b /\ l.head \in Nat
      BY <1>1, <1>4, <1>6, <2>2
    <3> QED
      BY <1>3, <3>1
  <2> QED
    BY <2>1, <2>2
<1>8. b = l.tail <=> l.next[b] = NULL
  <2>1. ASSUME b = l.tail, l.next[b] # NULL PROVE FALSE
    <3>1. PICK c \in S : c = l.next[b] /\ b < c /\ c <= b
      BY <1>1, <1>5, <2>1
    <3> QED
      BY <1>3, <1>4, <3>1
  <2>2. ASSUME l.next[b] = NULL PROVE b = l.tail
    <3>1. l.tail <= b /\ b <= l.tail /\ l.tail \in Nat
      BY <1>1, <1>4, <1>5, <2>2
    <3> QED
      BY <1>3, <3>1
  <2> QED
    BY <2>1, <2>2
<1>9. (l.next[b] = NULL /\ l.prev[b] = NULL) => S = {b}
  <2>1. ASSUME l.next[b] = NULL, l.prev[b] = NULL PROVE \A c \in S : c = b
    BY <1>3, <1>4, <1>5, <1>6, <2>1
  <2> QED
    BY <2>1
<1>10. l.next[b] # b /\ l.prev[b] # b
  BY <1>3, <1>5, <1>6
<1> QED
  BY <1>1, <1>3, <1>5, <1>6, <1>7, <1>8, <1>9, <1>10

(* _popHead                                                                *)
LEMMA PopGood ==
  ASSUME NEW l, NEW S, Good(l, S), l.head # NULL
  PROVE  Good(_popHead(l), S \ {l.head})
<1> DEFINE m == _popHead(l)
           b == l.head
<1>1. l \in Shape /\ b \in S /\ l.tail \in S /\ \A c \in S : b <= c /\ c <= l.tail
  BY EndsOfList, AddressesType DEF Good
<1>2. /\ b \in Addresses /\ b # NULL /\ l.prev[b] = NULL
      /\ l.next[b] \in Pointers /\ l.next[b] # b
      /\ b = l.tail <=> l.next[b] = NULL
  BY <1>1, LinksOfBlock
<1>3. PICK n, p : n = With(l.next, b, NULL) /\ p = With(With(l.prev, l.next[b], NULL), b, NULL)
  OBVIOUS
<1>4. m = [head |-> l.next[b], tail |-> IF l.next[b] = NULL THEN NULL ELSE l.tail,
           next |-> n, prev |-> p]
  BY <1>3 DEF _popHead
<1>5. /\ n \in [Addresses -> Pointers] /\ p \in [Addresses -> Pointers]
      /\ l.tail \in Pointers /\ NULL \in Pointers
      /\ \A x \in Addresses : n[x] = IF x = b THEN NULL ELSE l.next[x]
      /\ \A x \in Addresses : p[x] = IF x = b \/ x = l.next[b] THEN NULL ELSE l.prev[x]
  BY <1>1, <1>3, WithField DEF Shape, Pointers
<1> HIDE DEF m
<1>6. /\ m \in Shape /\ m.head = l.next[b] /\ m.next = n /\ m.prev = p
      /\ m.tail = IF l.next[b] = NULL THEN NULL ELSE l.tail
  BY <1>2, <1>4, <1>5, Rebuilt
<1>7. Unlinked(m, l, b)
  BY <1>2, <1>5, <1>6, AddressesType DEF Unlinked
<1>8. Good(m, S \ {b})
  BY <1>1, <1>7, UnlinkedGood
<1> QED
  BY <1>8 DEF m

(* _removeFromList: whichever of its branches run, b is unlinked.          *)
LEMMA RemoveGood ==
  ASSUME NEW l, NEW S, Good(l, S), NEW b \in S
  PROVE  Good(_removeFromList(l, b), S \ {b})
<1>1. /\ l \in Shape /\ l.head \in Pointers /\ l.tail \in Pointers
      /\ l.next \in [Addresses -> Pointers] /\ l.prev \in [Addresses -> Pointers]
      /\ NULL \in Pointers
  BY DEF Good, Shape, Pointers
<1>2. /\ b \in Addresses /\ b # NULL
      /\ l.next[b] \in Pointers /\ l.prev[b] \in Pointers
      /\ l.next[b] # b /\ l.prev[b] # b
      /\ b = l.head <=> l.prev[b] = NULL
      /\ b = l.tail <=> l.next[b] = NULL
  BY LinksOfBlock
<1>3. PICK left : left = LeaveHead(l, b)
  OBVIOUS
<1>4. /\ left \in Shape /\ left.tail = l.tail
      /\ left.head = IF b = l.head THEN l.next[b] ELSE l.head
      /\ \A x \in Addresses : left.next[x] = IF b = l.head /\ x = b THEN NULL ELSE l.next[x]
      /\ \A x \in Addresses :
           left.prev[x] = IF b = l.head /\ x = l.next[b] THEN NULL ELSE l.prev[x]
  <2>1. CASE b # l.head
    BY <1>1, <1>3, <2>1 DEF LeaveHead
  <2>2. CASE b = l.head
    <3>1. PICK n, p : n = With(l.next, b, NULL) /\ p = With(l.prev, l.next[b], NULL)
      OBVIOUS
    <3>2. left = [head |-> l.next[b], tail |-> l.tail, next |-> n, prev |-> p]
      BY <1>3, <2>2, <3>1 DEF LeaveHead
    <3>3. /\ n \in [Addresses -> Pointers] /\ p \in [Addresses -> Pointers]
          /\ \A x \in Addresses : n[x] = IF x = b THEN NULL ELSE l.next[x]
          /\ \A x \in Addresses : p[x] = IF x = l.next[b] THEN NULL ELSE l.prev[x]
      BY <1>1, <3>1, WithField
    <3>4. /\ left \in Shape /\ left.head = l.next[b] /\ left.tail = l.tail
          /\ left.next = n /\ left.prev = p
      BY <1>1, <1>2, <3>2, <3>3 DEF Shape
    <3> QED
      BY <2>2, <3>3, <3>4
  <2> QED
    BY <2>1, <2>2
<1>5. PICK mid : mid = IF b = left.tail THEN LeaveTail(left, b) ELSE LeaveMiddle(left, b)
  OBVIOUS
<1>6. /\ left.next \in [Addresses -> Pointers] /\ left.prev \in [Addresses -> Pointers]
      /\ left.head \in Pointers /\ left.tail \in Pointers
      /\ left.prev[b] = l.prev[b] /\ left.prev[b] \in Pointers
      /\ left.next[b] = IF b = l.head THEN NULL ELSE l.next[b]
      /\ left.next[b] \in Pointers
  BY <1>1, <1>2, <1>4 DEF Shape
<1>7. /\ mid \in Shape /\ mid.head = left.head
      /\ mid.tail = IF b = l.tail THEN l.prev[b] ELSE l.tail
      /\ \A x \in Addresses \ {b} :
           mid.next[x] = IF x = l.prev[b] THEN l.next[b] ELSE l.next[x]
      /\ \A x \in Addresses \ {b} :
           mid.prev[x] = IF x = l.next[b] THEN l.prev[b] ELSE l.prev[x]
  <2>1. CASE b = l.tail
    <3>1. PICK n, p : n = With(left.next, left.prev[b], NULL) /\ p = With(left.prev, b, NULL)
      OBVIOUS
    <3>2. mid = [head |-> left.head, tail |-> left.prev[b], next |-> n, prev |-> p]
      BY <1>4, <1>5, <2>1, <3>1 DEF LeaveTail
    <3>3. /\ n \in [Addresses -> Pointers] /\ p \in [Addresses -> Pointers]
          /\ \A x \in Addresses : n[x] = IF x = left.prev[b] THEN NULL ELSE left.next[x]
          /\ \A x \in Addresses : p[x] = IF x = b THEN NULL ELSE left.prev[x]
      BY <1>1, <1>6, <3>1, WithField
    <3>4. /\ mid \in Shape /\ mid.head = left.head /\ mid.tail = left.prev[b]
          /\ mid.next = n /\ mid.prev = p
      BY <1>6, <3>2, <3>3 DEF Shape
    <3> QED
      BY <1>2, <1>4, <1>6, <2>1, <3>3, <3>4, AddressesType
  <2>2. CASE b # l.tail
    <3>1. PICK n, p : /\ n = With(left.next, left.prev[b], left.next[b])
                      /\ p = With(left.prev, left.next[b], left.prev[b])
      OBVIOUS
    <3>2. mid = [head |-> left.head, tail |-> left.tail, next |-> n, prev |-> p]
      BY <1>4, <1>5, <2>2, <3>1 DEF LeaveMiddle
    <3>3. /\ n \in [Addresses -> Pointers] /\ p \in [Addresses -> Pointers]
          /\ \A x \in Addresses : n[x] = IF x = left.prev[b] THEN left.next[b] ELSE left.next[x]
          /\ \A x \in Addresses : p[x] = IF x = left.next[b] THEN left.prev[b] ELSE left.prev[x]
      BY <1>1, <1>6, <3>1, WithField
    <3>4. /\ mid \in Shape /\ mid.head = left.head /\ mid.tail = left.tail
          /\ mid.next = n /\ mid.prev = p
      BY <1>6, <3>2, <3>3 DEF Shape
    <3> QED
      BY <1>2, <1>4, <1>6, <2>2, <3>3, <3>4, AddressesType
  <2> QED
    BY <2>1, <2>2
<1>8. PICK m : m = Detach(mid, b)
  OBVIOUS
<1>9. Unlinked(m, l, b)
  <2>1. PICK n, p : n = With(mid.next, b, NULL) /\ p = With(mid.prev, b, NULL)
    OBVIOUS
  <2>2. m = [head |-> mid.head, tail |-> mid.tail, next |-> n, prev |-> p]
    BY <1>8, <2>1 DEF Detach
  <2>3. /\ n \in [Addresses -> Pointers] /\ p \in [Addresses -> Pointers]
        /\ mid.head \in Pointers /\ mid.tail \in Pointers
        /\ \A x \in Addresses : n[x] = IF x = b THEN NULL ELSE mid.next[x]
        /\ \A x \in Addresses : p[x] = IF x = b THEN NULL ELSE mid.prev[x]
    BY <1>1, <1>7, <2>1, WithField DEF Shape
  <2>4. /\ m \in Shape /\ m.head = mid.head /\ m.tail = mid.tail
        /\ m.next = n /\ m.prev = p
    BY <2>2, <2>3, Rebuilt
  <2> QED
    BY <1>4, <1>7, <2>3, <2>4 DEF Unlinked
<1>10. m = _removeFromList(l, b)
  BY <1>3, <1>5, <1>8 DEF _removeFromList
<1> QED
  BY <1>9, <1>10, UnlinkedGood

----------------------------------------------------------------------------
(* The state machine                                                       *)

LEMMA GoodIsInv == TypeOK => (Good(s, Linked) <=> LinksOK)
BY DEF TypeOK, Good, Shape, LinksOK, ForwardOK, BackwardOK, Detached, Linked, Pointers

LEMMA InitInv == Init => ListInv
<1> SUFFICES ASSUME Init PROVE ListInv
  OBVIOUS
<1>1. /\ s = Empty(Addresses) /\ members = {} /\ Linked = {}
      /\ at = "idle" /\ num_blocks = 0 /\ num_bytes = 0
      /\ arg = NULL /\ cur = NULL /\ answer = NULL
  BY DEF Init, Linked
<1>2. TypeOK
  BY <1>1 DEF TypeOK, Empty, Pointers
<1>3. LinksOK
  BY <1>1 DEF LinksOK, ForwardOK, BackwardOK, Forward, Backward, First, Last, Detached, Empty
<1>4. WalkOK
  BY <1>1 DEF WalkOK
<1> QED
  BY <1>2, <1>3, <1>4 DEF ListInv

(* A step between calls that leaves a good list of the members. *)
LEMMA IdleAgain ==
  ASSUME TypeOK', at' = "idle", Good(s', members')
  PROVE  ListInv'
<1>1. Linked' = members' /\ WalkOK'
  BY DEF Linked, WalkOK
<1>2. s' \in Shape /\ members' \subseteq Addresses
  BY DEF Good
<1>3. LinksOK'
  BY <1>1 DEF Good, LinksOK, ForwardOK, BackwardOK, Detached
<1> QED
  BY <1>1, <1>3 DEF ListInv

LEMMA AddAtEndKeeps == ListInv /\ AddAtEnd => ListInv'
<1> SUFFICES ASSUME ListInv, AddAtEnd PROVE ListInv'
  OBVIOUS
<1>1. PICK b \in Addresses \ members :
        /\ Count(b)
        /\ \/ s.head = NULL /\ s' = AddFirst(s, b)
           \/ s.head # NULL /\ b > s.tail /\ s' = AddLast(s, b)
           \/ s.head # NULL /\ ~(b > s.tail) /\ b < s.head /\ s' = AddFront(s, b)
  BY DEF AddAtEnd
<1>2. at = "idle" /\ UNCHANGED <<walk, answer>> /\ TypeOK /\ Linked = members
  BY DEF AddAtEnd, Idle, ListInv, Linked
<1>3. Good(s, members)
  BY <1>2, GoodIsInv DEF ListInv
<1>4. members' = members \cup {b}
  BY <1>1 DEF Count
<1>5. Good(s', members')
  <2>1. CASE s.head = NULL /\ s' = AddFirst(s, b)
    BY <1>1, <1>3, <1>4, <2>1, EndsOfList, AddFirstGood
  <2>2. CASE s.head # NULL /\ b > s.tail /\ s' = AddLast(s, b)
    BY <1>1, <1>3, <1>4, <2>2, AddLastGood
  <2>3. CASE s.head # NULL /\ b < s.head /\ s' = AddFront(s, b)
    BY <1>1, <1>3, <1>4, <2>3, AddFrontGood
  <2> QED
    BY <1>1, <2>1, <2>2, <2>3
<1>6. TypeOK'
  BY <1>1, <1>2, <1>5, ListAssumption DEF TypeOK, Count, walk, Good, Shape
<1> QED
  BY <1>2, <1>5, <1>6, IdleAgain DEF walk

LEMMA AddBetweenKeeps == ListInv /\ AddBetween => ListInv'
<1> SUFFICES ASSUME ListInv, AddBetween PROVE ListInv'
  OBVIOUS
<1>1. PICK b \in Addresses \ members :
        /\ Count(b)
        /\ s.head # NULL /\ ~(b > s.tail) /\ ~(b < s.head)
        /\ at' = "insert" /\ arg' = b /\ cur' = s.head
  BY DEF AddBetween
<1>2. at = "idle" /\ UNCHANGED <<s, answer>> /\ TypeOK /\ Linked = members
  BY DEF AddBetween, Idle, ListInv, Linked
<1>3. Good(s, members)
  BY <1>2, GoodIsInv DEF ListInv
<1>4. members' = members \cup {b} /\ Linked' = members
  BY <1>1 DEF Count, Linked
<1>5. /\ s.head \in members /\ s.tail \in members /\ members \subseteq Addresses
      /\ \A c \in members : s.head <= c /\ c <= s.tail
      /\ s.head < b /\ b < s.tail
  BY <1>1, <1>3, EndsOfList, AddressesType DEF Good
<1>6. TypeOK'
  BY <1>1, <1>2, <1>5, ListAssumption DEF TypeOK, Count, Pointers
<1>7. LinksOK'
  BY <1>2, <1>3, <1>4 DEF Good, LinksOK, ForwardOK, BackwardOK, Detached
<1>8. WalkOK'
  BY <1>1, <1>2, <1>4, <1>5, AddressesType DEF WalkOK
<1> QED
  BY <1>6, <1>7, <1>8 DEF ListInv

(* The next block of a walk: NULL only after the tail, and nothing between. *)
LEMMA WalkForward ==
  ASSUME NEW l, NEW S, Good(l, S), NEW c \in S
  PROVE  IF l.next[c] = NULL THEN c = l.tail /\ \A x \in S : x <= c
         ELSE l.next[c] \in S /\ \A x \in S : x < l.next[c] => x <= c
<1>1. Follows(S, c, l.next[c]) /\ S \subseteq Addresses
  BY DEF Good, Forward
<1>2. l.next[c] = NULL <=> c = l.tail
  BY LinksOfBlock
<1>3. \A x \in S : x \in Nat
  BY <1>1, AddressesType
<1> QED
  BY <1>1, <1>2, <1>3 DEF Follows

LEMMA InsertWalkKeeps == ListInv /\ InsertWalk => ListInv'
<1> SUFFICES ASSUME ListInv, InsertWalk PROVE ListInv'
  OBVIOUS
<1>1. /\ at = "insert" /\ cur # NULL /\ ~(arg < cur) /\ cur' = s.next[cur]
      /\ UNCHANGED <<s, num_blocks, num_bytes, at, arg, answer, members>>
      /\ TypeOK /\ LinksOK /\ WalkOK
  BY DEF InsertWalk, GoesHere, WalkOn, ListInv, counters
<1>2. Linked = members \ {arg} /\ Linked' = Linked /\ Good(s, Linked)
  BY <1>1, GoodIsInv DEF Linked
<1>3. /\ arg \in members /\ s.head < arg /\ arg < s.tail /\ cur \in Linked
      /\ \A c \in Linked : c < cur => c < arg
  BY <1>1 DEF WalkOK
<1>4. /\ members \subseteq Addresses /\ \A c \in members : c \in Nat /\ c # NULL
      /\ s.tail \in Nat /\ s.head \in Nat
  BY <1>1, AddressesType DEF TypeOK
<1>5. cur < arg /\ cur \in Nat /\ arg \in Nat
  BY <1>1, <1>2, <1>3, <1>4
<1>6. /\ s.next[cur] # NULL /\ s.next[cur] \in Linked
      /\ \A x \in Linked : x < s.next[cur] => x <= cur
  BY <1>2, <1>3, <1>4, <1>5, WalkForward
<1>7. WalkOK'
  <2>1. \A x \in Linked : x < s.next[cur] => x < arg
    BY <1>2, <1>4, <1>5, <1>6
  <2> QED
    BY <1>1, <1>2, <1>3, <1>6, <2>1 DEF WalkOK
<1>8. LinksOK'
  BY <1>1, <1>2 DEF LinksOK, ForwardOK, BackwardOK, Detached
<1>9. TypeOK'
  BY <1>1, <1>2, <1>4, <1>6 DEF TypeOK, Pointers
<1> QED
  BY <1>7, <1>8, <1>9 DEF ListInv

LEMMA InsertEndsKeeps == ListInv /\ InsertEnds => ListInv'
<1> SUFFICES ASSUME ListInv, InsertEnds PROVE ListInv'
  OBVIOUS
<1>1. /\ at = "insert" /\ (cur = NULL \/ arg < cur)
      /\ s' = IF cur = NULL THEN s ELSE InsertBefore(s, arg, cur)
      /\ at' = "idle" /\ arg' = NULL /\ cur' = NULL
      /\ UNCHANGED <<num_blocks, num_bytes, answer, members>>
      /\ TypeOK /\ LinksOK /\ WalkOK
  BY DEF InsertEnds, GoesHere, WalkEnds, ListInv, counters
<1>2. Linked = members \ {arg} /\ Good(s, Linked)
  BY <1>1, GoodIsInv DEF Linked
<1>3. /\ arg \in members /\ s.head < arg /\ cur \in Linked
      /\ \A c \in Linked : c < cur => c < arg
  BY <1>1 DEF WalkOK
<1> cur # NULL
  BY <1>1, <1>2, <1>3, AddressesType DEF TypeOK
<1>4. arg \in Addresses \ Linked /\ Linked \cup {arg} = members
  BY <1>1, <1>2, <1>3 DEF TypeOK
<1>5. Good(s', members')
  BY <1>1, <1>2, <1>3, <1>4, InsertBeforeGood
<1>6. TypeOK'
  BY <1>1, <1>5 DEF TypeOK, Good, Shape, Pointers
<1> QED
  BY <1>1, <1>5, <1>6, IdleAgain

LEMMA RemoveKeeps == ListInv /\ Remove => ListInv'
<1> SUFFICES ASSUME ListInv, Remove PROVE ListInv'
  OBVIOUS
<1>1. PICK b \in members : Uncount(b) /\ s' = _removeFromList(s, b)
  BY DEF Remove
<1>2. at = "idle" /\ UNCHANGED <<walk, answer>> /\ TypeOK /\ Linked = members
  BY DEF Remove, Idle, ListInv, Linked
<1>3. Good(s, members)
  BY <1>2, GoodIsInv DEF ListInv
<1>4. Good(s', members') /\ b \in Addresses
  BY <1>1, <1>2, <1>3, RemoveGood DEF Uncount, TypeOK
<1>5. TypeOK'
  BY <1>1, <1>2, <1>4, ListAssumption DEF TypeOK, Uncount, walk, Good, Shape
<1> QED
  BY <1>2, <1>4, <1>5, IdleAgain DEF walk

LEMMA PopKeeps == ListInv /\ Pop => ListInv'
<1> SUFFICES ASSUME ListInv, Pop PROVE ListInv'
  OBVIOUS
<1>1. /\ at = "idle" /\ s.head # NULL /\ Uncount(s.head) /\ answer' = s.head
      /\ s' = _popHead(s) /\ UNCHANGED walk /\ TypeOK /\ Linked = members
  BY DEF Pop, Idle, ListInv, Linked
<1>2. Good(s, members)
  BY <1>1, GoodIsInv DEF ListInv
<1>3. Good(s', members') /\ s.head \in Addresses /\ s.head \in Pointers
  BY <1>1, <1>2, PopGood, EndsOfList DEF Uncount, TypeOK, Pointers
<1>4. TypeOK'
  BY <1>1, <1>3, ListAssumption DEF TypeOK, Uncount, walk, Good, Shape
<1> QED
  BY <1>1, <1>3, <1>4, IdleAgain DEF walk

LEMMA ExistsKeeps == ListInv /\ Exists => ListInv'
<1> SUFFICES ASSUME ListInv, Exists PROVE ListInv'
  OBVIOUS
<1>1. PICK b \in Addresses : at' = "exists" /\ arg' = b /\ cur' = s.head
  BY DEF Exists
<1>2. /\ at = "idle" /\ UNCHANGED <<s, num_blocks, num_bytes, answer, members>>
      /\ TypeOK /\ LinksOK /\ Linked = members
  BY DEF Exists, Idle, ListInv, Linked, counters
<1>3. Linked' = members /\ Good(s, members)
  BY <1>1, <1>2, GoodIsInv DEF Linked
<1>4. /\ s.head = NULL => members = {}
      /\ s.head # NULL => s.head \in members /\ \A c \in members : s.head <= c
      /\ \A c \in members : c \in Nat /\ c # NULL
  BY <1>2, <1>3, EndsOfList, AddressesType DEF TypeOK
<1>5. WalkOK'
  BY <1>1, <1>2, <1>3, <1>4 DEF WalkOK
<1>6. LinksOK'
  BY <1>2, <1>3 DEF LinksOK, ForwardOK, BackwardOK, Detached
<1>7. TypeOK'
  BY <1>1, <1>2 DEF TypeOK, Pointers
<1> QED
  BY <1>5, <1>6, <1>7 DEF ListInv

LEMMA ExistsWalkKeeps == ListInv /\ ExistsWalk => ListInv'
<1> SUFFICES ASSUME ListInv, ExistsWalk PROVE ListInv'
  OBVIOUS
<1>1. /\ at = "exists" /\ cur # NULL /\ cur # arg /\ cur' = s.next[cur]
      /\ UNCHANGED <<s, num_blocks, num_bytes, at, arg, answer, members>>
      /\ TypeOK /\ LinksOK /\ WalkOK
  BY DEF ExistsWalk, WalkOn, ListInv, counters
<1>2. Linked = members /\ Linked' = Linked /\ Good(s, Linked)
  BY <1>1, GoodIsInv DEF Linked
<1>3. arg \in Addresses /\ cur \in Linked /\ \A c \in Linked : c < cur => c # arg
  BY <1>1 DEF WalkOK
<1>4. \A c \in Linked : c \in Nat /\ c # NULL
  BY <1>1, <1>2, AddressesType DEF TypeOK
<1>5. IF s.next[cur] = NULL THEN \A x \in Linked : x <= cur
      ELSE s.next[cur] \in Linked /\ \A x \in Linked : x < s.next[cur] => x <= cur
  BY <1>2, <1>3, WalkForward
<1>6. \A c \in Linked : c <= cur => c # arg
  BY <1>1, <1>3, <1>4
<1>7. IF s.next[cur] = NULL THEN arg \notin Linked
      ELSE s.next[cur] \in Linked /\ \A c \in Linked : c < s.next[cur] => c # arg
  BY <1>5, <1>6
<1>8. WalkOK'
  BY <1>1, <1>2, <1>3, <1>7 DEF WalkOK
<1>9. LinksOK'
  BY <1>1, <1>2 DEF LinksOK, ForwardOK, BackwardOK, Detached
<1>10. TypeOK'
  BY <1>1, <1>2, <1>7 DEF TypeOK, Pointers
<1> QED
  BY <1>8, <1>9, <1>10 DEF ListInv

LEMMA ExistsEndsKeeps == ListInv /\ ExistsEnds => ListInv'
<1> SUFFICES ASSUME ListInv, ExistsEnds PROVE ListInv'
  OBVIOUS
<1>1. /\ at = "exists" /\ answer' = cur /\ at' = "idle" /\ arg' = NULL /\ cur' = NULL
      /\ UNCHANGED <<s, num_blocks, num_bytes, members>> /\ TypeOK
  BY DEF ExistsEnds, WalkEnds, ListInv, counters
<1>2. Good(s', members')
  BY <1>1, GoodIsInv DEF ListInv, Linked
<1>3. TypeOK'
  BY <1>1 DEF TypeOK, Pointers
<1> QED
  BY <1>1, <1>2, <1>3, IdleAgain

LEMMA PopNoneKeeps == ListInv /\ PopNone => ListInv'
<1> SUFFICES ASSUME ListInv, PopNone PROVE ListInv'
  OBVIOUS
<1>1. /\ at = "idle" /\ at' = at /\ answer' = NULL /\ arg' = arg /\ cur' = cur
      /\ UNCHANGED <<s, num_blocks, num_bytes, members>> /\ TypeOK
  BY DEF PopNone, Idle, ListInv, counters, walk
<1>2. Good(s', members')
  BY <1>1, GoodIsInv DEF ListInv, Linked
<1>3. TypeOK'
  BY <1>1 DEF TypeOK, Pointers
<1> QED
  BY <1>1, <1>2, <1>3, IdleAgain

LEMMA NextKeeps == ListInv /\ [Next]_vars => ListInv'
<1> SUFFICES ASSUME ListInv, [Next]_vars PROVE ListInv'
  OBVIOUS
<1>1. CASE AddAtEnd
  BY <1>1, AddAtEndKeeps
<1>2. CASE AddBetween
  BY <1>2, AddBetweenKeeps
<1>3. CASE Remove
  BY <1>3, RemoveKeeps
<1>4. CASE Pop
  BY <1>4, PopKeeps
<1>5. CASE PopNone
  BY <1>5, PopNoneKeeps
<1>6. CASE Exists
  BY <1>6, ExistsKeeps
<1>7. CASE Loop
  BY <1>7, InsertWalkKeeps, InsertEndsKeeps, ExistsWalkKeeps,
     ExistsEndsKeeps DEF Loop
<1>8. CASE UNCHANGED vars
  BY <1>8 DEF vars, counters, walk, ListInv, TypeOK, LinksOK, WalkOK, ForwardOK,
     BackwardOK, Detached, Linked
<1> QED
  BY <1>1, <1>2, <1>3, <1>4, <1>5, <1>6, <1>7, <1>8 DEF Next

(* For every set of headers and all their sizes: the list is linked through *)
(* its blocks in the order of addresses, both ways, at every step of every *)
(* operation of struct MetadataList, and its loops find what they look for. *)
THEOREM ListInvariance == Spec => []ListInv
<1>1. Init => ListInv
  BY InitInv
<1>2. ListInv /\ [Next]_vars => ListInv'
  BY NextKeeps
<1> QED
  BY <1>1, <1>2, PTL DEF Spec

----------------------------------------------------------------------------
(* The counters of the list                                                *)

Bytes == [b \in Addresses |-> SizeOf(b)]

\* The list grows by one block at a time, so that it can be counted.
CountersInv == ListInv /\ IsFiniteSet(members) /\ CountersMatch

LEMMA CountKeeps ==
  ASSUME CountersInv, NEW b \in Addresses \ members, Count(b)
  PROVE  IsFiniteSet(members') /\ CountersMatch'
<1>1. IsFiniteSet(members) /\ members \subseteq Addresses
  BY DEF CountersInv, ListInv, TypeOK
<1>2. \A a \in Addresses : Bytes[a] = SizeOf(a) /\ Bytes[a] \in Int
  BY ListAssumption DEF Bytes
<1>3. Cardinality(members \cup {b}) = Cardinality(members) + 1
      /\ IsFiniteSet(members \cup {b})
  BY <1>1, FS_AddElement
<1>4. SumFunctionOnSet(Bytes, members \cup {b}) = SumFunctionOnSet(Bytes, members) + SizeOf(b)
  <2>1. b \notin members /\ \A a \in members \cup {b} : Bytes[a] \in Int
    BY <1>1, <1>2
  <2> QED
    BY <1>1, <1>2, <2>1, SumWith
<1> QED
  BY <1>3, <1>4 DEF Count, CountersInv, CountersMatch, Bytes

LEMMA UncountKeeps ==
  ASSUME CountersInv, NEW b \in members, Uncount(b)
  PROVE  IsFiniteSet(members') /\ CountersMatch'
<1>1. IsFiniteSet(members) /\ members \subseteq Addresses
  BY DEF CountersInv, ListInv, TypeOK
<1>2. \A a \in Addresses : Bytes[a] = SizeOf(a) /\ Bytes[a] \in Int
  BY ListAssumption DEF Bytes
<1>3. Cardinality(members \ {b}) = Cardinality(members) - 1 /\ IsFiniteSet(members \ {b})
  BY <1>1, FS_RemoveElement
<1>4. SumFunctionOnSet(Bytes, members \ {b}) = SumFunctionOnSet(Bytes, members) - SizeOf(b)
  <2>1. \A a \in members : Bytes[a] \in Int
    BY <1>1, <1>2
  <2> QED
    BY <1>1, <1>2, <2>1, SumWithout
<1> QED
  BY <1>3, <1>4 DEF Uncount, CountersInv, CountersMatch, Bytes

LEMMA CountersKeep == CountersInv /\ [Next]_vars => CountersInv'
<1> SUFFICES ASSUME CountersInv, [Next]_vars
             PROVE  IsFiniteSet(members') /\ CountersMatch'
  BY NextKeeps DEF CountersInv
<1>1. ASSUME NEW b \in Addresses \ members, Count(b)
      PROVE  IsFiniteSet(members') /\ CountersMatch'
  BY <1>1, CountKeeps
<1>2. ASSUME NEW b \in members, Uncount(b)
      PROVE  IsFiniteSet(members') /\ CountersMatch'
  BY <1>2, UncountKeeps
<1>3. ASSUME UNCHANGED <<num_blocks, num_bytes, members>>
      PROVE  IsFiniteSet(members') /\ CountersMatch'
  BY <1>3 DEF CountersInv, CountersMatch
<1>4. CASE AddAtEnd \/ AddBetween
  BY <1>1, <1>4 DEF AddAtEnd, AddBetween
<1>5. CASE Remove
  BY <1>2, <1>5 DEF Remove
<1>6. CASE Pop
  <2>1. s.head \in members
    BY <1>6, GoodIsInv, EndsOfList DEF Pop, CountersInv, ListInv, Idle, Linked
  <2> QED
    BY <1>2, <1>6, <2>1 DEF Pop
<1>7. CASE PopNone \/ Exists \/ Loop \/ UNCHANGED vars
  <2>1. UNCHANGED <<num_blocks, num_bytes, members>>
    BY <1>7 DEF PopNone, Exists, Loop, InsertWalk, InsertEnds, ExistsWalk,
       ExistsEnds, WalkOn, counters, vars
  <2> QED
    BY <1>3, <2>1
<1> QED
  BY <1>4, <1>5, <1>6, <1>7 DEF Next

LEMMA CountersInvariance == Spec => []CountersInv
<1>1. Init => CountersInv
  <2>1. Init => IsFiniteSet(members) /\ Cardinality(members) = 0
    BY FS_EmptySet DEF Init
  <2>2. Init => members = {} /\ num_blocks = 0 /\ num_bytes = 0
    BY DEF Init
  <2> QED
    BY <2>1, <2>2, InitInv, SumOfNone DEF CountersInv, CountersMatch
<1>2. CountersInv /\ [Next]_vars => CountersInv'
  BY CountersKeep
<1> QED
  BY <1>1, <1>2, PTL DEF Spec

(* For every set of headers and all their sizes: num_blocks and num_bytes  *)
(* of struct MetadataList are the blocks on the list and the sum of their  *)
(* sizes, at every step of every operation.                                *)
THEOREM ListCountersMatch == Spec => []CountersMatch
<1>1. CountersInv => CountersMatch
  BY DEF CountersInv
<1> QED
  BY <1>1, CountersInvariance, PTL

----------------------------------------------------------------------------
(* The loops                                                               *)

(* A walk that goes on has passed the block it was at, and no other.       *)
LEMMA WalkLeavesFewer ==
  ASSUME CountersInv, ~Idle, cur # NULL, WalkOn
  PROVE  Cardinality(Ahead') < Cardinality(Ahead)
<1>1. /\ Linked' = Linked /\ cur' = s.next[cur]
      /\ Linked \subseteq Addresses /\ Linked \subseteq members
      /\ \A c \in Linked : c \in Nat /\ c # NULL
  BY AddressesType DEF WalkOn, Linked, CountersInv, ListInv, TypeOK
<1>2. cur \in Linked
  BY DEF CountersInv, ListInv, WalkOK, Idle, TypeOK
<1>3. Good(s, Linked)
  BY GoodIsInv DEF CountersInv, ListInv
<1>4. cur' = NULL \/ cur < cur'
  BY <1>1, <1>2, <1>3 DEF Good, Forward, Follows
<1>5. Ahead' \subseteq Ahead /\ cur \in Ahead /\ cur \notin Ahead'
  <2>1. cur' = NULL \/ cur' \in Nat
    BY <1>1, <1>2, <1>3, LinksOfBlock, AddressesType
  <2> QED
    BY <1>1, <1>2, <1>4, <2>1, AddressesType DEF Ahead
<1>6. IsFiniteSet(Ahead)
  <2>1. IsFiniteSet(members) /\ Ahead \in SUBSET members
    BY <1>1 DEF CountersInv, Ahead
  <2> QED
    BY <2>1, FS_Subset
<1>7. /\ IsFiniteSet(Ahead') /\ Cardinality(Ahead') <= Cardinality(Ahead)
      /\ Cardinality(Ahead') # Cardinality(Ahead)
  BY <1>5, <1>6, FS_Subset
<1>8. Cardinality(Ahead) \in Nat /\ Cardinality(Ahead') \in Nat
  BY <1>6, <1>7, FS_CardinalityType
<1> QED
  BY <1>7, <1>8

(* For every set of headers and all their sizes: each turn of the loops of *)
(* _addToList and _exists_in_list leaves fewer blocks to be looked at, so  *)
(* that they end.                                                          *)
THEOREM WalksShorten == Spec => WalkShortens
<1>1. CountersInv /\ [Next]_vars
      => [~Idle => Idle' \/ Cardinality(Ahead') < Cardinality(Ahead)]_vars
  <2> SUFFICES ASSUME CountersInv, Next, ~Idle
               PROVE  Idle' \/ Cardinality(Ahead') < Cardinality(Ahead)
    OBVIOUS
  <2>1. CASE InsertWalk \/ ExistsWalk
    BY <2>1, WalkLeavesFewer DEF InsertWalk, ExistsWalk
  <2>2. CASE InsertEnds \/ ExistsEnds
    BY <2>2 DEF InsertEnds, ExistsEnds, WalkEnds, Idle
  <2> QED
    BY <2>1, <2>2 DEF Next, Loop, AddAtEnd, AddBetween, Remove, Pop, PopNone, Exists
<1>2. Spec => []CountersInv
  BY CountersInvariance
<1> QED
  BY <1>1, <1>2, PTL DEF Spec, WalkShortens

----------------------------------------------------------------------------
(* The list is the FreeList its callers take it for                        *)

(* What Count and Uncount do is what FreeList says of a block added to and *)
(* removed from a list.                                                    *)
LEMMA CountIsAdd ==
  ASSUME NEW b \in Addresses \ members, Count(b), UNCHANGED answer
  PROVE  Promise!Next
<1>1. Promise!Add(b)
  BY DEF Count, Promise!Add, Promise!_addToList
<1> QED
  BY <1>1 DEF Promise!Next

LEMMA UncountIsRemove ==
  ASSUME NEW b, Uncount(b)
  PROVE  Promise!_removeFromList(
           [blocks |-> members, num_blocks |-> num_blocks, num_bytes |-> num_bytes], b, SizeOf(b))
         = [blocks |-> members', num_blocks |-> num_blocks', num_bytes |-> num_bytes']
BY DEF Uncount, Promise!_removeFromList

(* Module FreeList knows the head as the least of the blocks.              *)
LEMMA HeadIsLeast ==
  ASSUME ListInv, Idle, s.head # NULL
  PROVE  s.head = Promise!Head(
           [blocks |-> members, num_blocks |-> num_blocks, num_bytes |-> num_bytes])
<1>1. Good(s, members)
  BY GoodIsInv DEF ListInv, Idle, Linked
<1>2. s.head \in members /\ \A c \in members : s.head <= c
  BY <1>1, EndsOfList
<1>3. \A c \in members : c \in Nat
  BY AddressesType DEF ListInv, TypeOK
<1>4. \A x \in members : (\A y \in members : x <= y) => x = s.head
  BY <1>2, <1>3
<1>5. s.head = (CHOOSE x \in members : \A y \in members : x <= y)
  BY <1>2, <1>4
<1> QED
  BY <1>5 DEF Promise!Head, Promise!Min

LEMMA RemovePromised == ListInv /\ Remove => Promise!Next
<1> SUFFICES ASSUME ListInv, Remove PROVE Promise!Next
  OBVIOUS
<1>1. PICK b \in members : Uncount(b)
  BY DEF Remove
<1> b \in Addresses
  BY DEF ListInv, TypeOK
<1>2. UNCHANGED answer
  BY DEF Remove
<1>3. Promise!Remove(b)
  BY <1>1, <1>2, UncountIsRemove DEF Promise!Remove
<1> QED
  BY <1>3 DEF Promise!Next

LEMMA PopPromised == ListInv /\ Pop => Promise!Next
<1> SUFFICES ASSUME ListInv, Pop PROVE Promise!Next
  OBVIOUS
<1>1. Idle /\ s.head # NULL /\ Uncount(s.head) /\ answer' = s.head
  BY DEF Pop
<1>2. members # {}
  BY <1>1, GoodIsInv, EndsOfList DEF ListInv, Idle, Linked
<1>3. Promise!Pop
  BY <1>1, <1>2, HeadIsLeast, UncountIsRemove DEF Promise!Pop, Promise!isEmpty
<1> QED
  BY <1>3 DEF Promise!Next

LEMMA PopNonePromised == ListInv /\ PopNone => Promise!Next
<1> SUFFICES ASSUME ListInv, PopNone PROVE Promise!Next
  OBVIOUS
<1>1. Idle /\ s.head = NULL /\ answer' = NULL
      /\ UNCHANGED <<num_blocks, num_bytes, members>>
  BY DEF PopNone, counters
<1>2. members = {}
  BY <1>1, GoodIsInv, EndsOfList DEF ListInv, Idle, Linked
<1>3. Promise!PopNone
  BY <1>1, <1>2 DEF Promise!PopNone, Promise!isEmpty, Promise!NULL, NULL
<1> QED
  BY <1>3 DEF Promise!Next

(* The walk has found the block, or has passed every block of the list.    *)
LEMMA ExistsEndsPromised == ListInv /\ ExistsEnds => Promise!Next
<1> SUFFICES ASSUME ListInv, ExistsEnds PROVE Promise!Next
  OBVIOUS
<1>1. /\ at = "exists" /\ (cur = NULL \/ cur = arg) /\ answer' = cur
      /\ UNCHANGED <<num_blocks, num_bytes, members>>
  BY DEF ExistsEnds, counters
<1>2. arg \in Addresses /\ (cur = NULL => arg \notin members)
      /\ (cur # NULL => cur \in members)
  BY <1>1 DEF ListInv, WalkOK, Linked
<1>3. answer' = IF arg \in members THEN arg ELSE NULL
  BY <1>1, <1>2
<1>4. Promise!Exists(arg)
  BY <1>1, <1>3 DEF Promise!Exists, Promise!NULL, NULL
<1> QED
  BY <1>2, <1>4 DEF Promise!Next

(* For every set of headers: every operation of struct MetadataList gives  *)
(* its callers what FreeListMachine promises: _popHead answers the lowest  *)
(* block, _exists_in_list whether the block is there.                      *)
THEOREM Promised == Spec => KeepsPromise
<1> DEFINE l == [blocks |-> members, num_blocks |-> num_blocks, num_bytes |-> num_bytes]
<1>1. Init => Promise!Init
  BY DEF Init, Promise!Init, Promise!EmptyList, Promise!NULL, NULL
<1>2. ListInv /\ [Next]_vars => [Promise!Next]_<<l, answer>>
  <2> SUFFICES ASSUME ListInv, [Next]_vars
               PROVE  Promise!Next \/ UNCHANGED <<l, answer>>
    OBVIOUS
  <2>1. CASE AddAtEnd
    BY <2>1, CountIsAdd DEF AddAtEnd
  <2>2. CASE AddBetween
    BY <2>2, CountIsAdd DEF AddBetween
  <2>3. CASE Remove
    BY <2>3, RemovePromised
  <2>4. CASE Pop
    BY <2>4, PopPromised
  <2>5. CASE PopNone
    BY <2>5, PopNonePromised
  <2>6. CASE ExistsEnds
    BY <2>6, ExistsEndsPromised
  <2>7. CASE Exists \/ InsertWalk \/ InsertEnds \/ ExistsWalk
    BY <2>7 DEF Exists, InsertWalk, InsertEnds, ExistsWalk, WalkOn, counters
  <2>8. CASE UNCHANGED vars
    BY <2>8 DEF vars, counters
  <2> QED
    BY <2>1, <2>2, <2>3, <2>4, <2>5, <2>6, <2>7, <2>8 DEF Next, Loop
<1> QED
  BY <1>1, <1>2, ListInvariance, PTL DEF Spec, KeepsPromise, Promise!Spec
=============================================================================
