------------------------- MODULE Malloc3LinksProofs -------------------------
(***************************************************************************)
(* The links of the lists as memory: the operations of struct MetadataList *)
(* write into the link fields of the headers what makes a list one of the  *)
(* blocks that Malloc3 takes it for, at every step of every handler, for   *)
(* every number of orders and of blocks and whatever the client writes;    *)
(* and the code that takes the heads of its lists and walks along them     *)
(* does what the allocator does whose lists are sets, until it follows a   *)
(* word that is no pointer.                                                *)
(***************************************************************************)
EXTENDS Malloc3Links, Malloc3PromisesProofs

----------------------------------------------------------------------------
(* One list.  s is a record of its head and tail and of all link fields.   *)

\* What a link field can read as.
Fields == Pointers \cup {GARBAGE}

HasLinkFields(s) ==
  /\ s.head \in Pointers /\ s.tail \in Pointers
  /\ s.next \in [Headers -> Fields] /\ s.prev \in [Headers -> Fields]

\* s with NULL in the two fields that lead out of the list at its ends.
Cut(s) ==
  [head |-> s.head, tail |-> s.tail,
   next |-> [x \in Headers |-> IF x = s.tail THEN NULL ELSE s.next[x]],
   prev |-> [x \in Headers |-> IF x = s.head THEN NULL ELSE s.prev[x]]]

\* What is really in these two.
OpenEnds(s) ==
  /\ s.tail # NULL => s.next[s.tail] \in Words(s.tail)
  /\ s.head # NULL => s.prev[s.head] \in Words(s.head)

\* The list of s has the blocks of S, in the order of their addresses.
IsListOf(s, S) ==
  /\ HasLinkFields(s) /\ S \subseteq Headers
  /\ ML!Forward(s, S) /\ ML!Backward(s, S)

\* What every branch of _addToList comes to: b between p and n.
InsertedBetween(s, t, b, p, n) ==
  /\ t.head = (IF p = NULL THEN b ELSE s.head)
  /\ t.tail = (IF n = NULL THEN b ELSE s.tail)
  /\ t.next = [x \in Headers |-> IF x = b THEN n ELSE IF x = p THEN b ELSE s.next[x]]
  /\ t.prev = [x \in Headers |-> IF x = b THEN p ELSE IF x = n THEN b ELSE s.prev[x]]

\* The same with the fields as they are: at an end b keeps what it brought.
Inserted(s, t, b, p, n) ==
  /\ t.head = (IF p = NULL THEN b ELSE s.head)
  /\ t.tail = (IF n = NULL THEN b ELSE s.tail)
  /\ t.next = [x \in Headers |-> IF x = b THEN IF n = NULL THEN s.next[b] ELSE n
                                  ELSE IF x = p THEN b ELSE s.next[x]]
  /\ t.prev = [x \in Headers |-> IF x = b THEN IF p = NULL THEN s.prev[b] ELSE p
                                  ELSE IF x = n THEN b ELSE s.prev[x]]

\* What _removeFromList and _popHead come to: b's neighbours p and n meet.
TakenOut(s, t, b, p, n) ==
  /\ t.head = (IF p = NULL THEN n ELSE s.head)
  /\ t.tail = (IF n = NULL THEN p ELSE s.tail)
  /\ t.next = [x \in Headers |-> IF x = b THEN NULL ELSE IF x = p THEN n ELSE s.next[x]]
  /\ t.prev = [x \in Headers |-> IF x = b THEN NULL ELSE IF x = n THEN p ELSE s.prev[x]]

LEMMA HeadersType ==
  /\ Headers \subseteq Nat \ {0} /\ ML!NULL = NULL /\ NULL \notin Headers
  /\ GARBAGE \notin Headers /\ GARBAGE # NULL /\ Pointers \subseteq Fields
<1>1. MMAP_ADDRS \subseteq Nat \ {0}
  BY Malloc3Assumption
<1> QED
  BY <1>1, SlotsType DEF Headers, NULL, ML!NULL, GARBAGE, Fields

LEMMA WordsType ==
  ASSUME NEW h \in Headers
  PROVE  Words(h) \subseteq {NULL, GARBAGE} /\ Words(h) \subseteq Fields /\ NULL \in Words(h)
BY LinksAssumption DEF Words, Fields, Pointers

LEMMA CutFields ==
  ASSUME NEW s
  PROVE  /\ Cut(s).head = s.head /\ Cut(s).tail = s.tail
         /\ Cut(s).next = [x \in Headers |-> IF x = s.tail THEN NULL ELSE s.next[x]]
         /\ Cut(s).prev = [x \in Headers |-> IF x = s.head THEN NULL ELSE s.prev[x]]
BY DEF Cut

(* IsLinked, in two parts.                                                 *)
LEMMA LinkedIsCut ==
  ASSUME NEW s, HasLinkFields(s), NEW S \in SUBSET Headers, IsLinked(s, S)
  PROVE  IsListOf(Cut(s), S) /\ OpenEnds(s)
<1>1. /\ ML!First(S, s.head) /\ ML!Last(S, s.tail)
      /\ \A b \in S : /\ IF b = s.tail THEN s.next[b] \in Words(b) ELSE ML!Follows(S, b, s.next[b])
                      /\ IF b = s.head THEN s.prev[b] \in Words(b) ELSE ML!Precedes(S, b, s.prev[b])
  BY DEF IsLinked
<1>2. HasLinkFields(Cut(s))
  <2>1. Cut(s).head = s.head /\ Cut(s).tail = s.tail /\ NULL \in Fields
    BY DEF Cut, Fields, Pointers
  <2>2. Cut(s).next \in [Headers -> Fields] /\ Cut(s).prev \in [Headers -> Fields]
    BY <2>1 DEF Cut, HasLinkFields
  <2> QED
    BY <2>1, <2>2 DEF HasLinkFields
<1>3. ASSUME NEW b \in S
      PROVE  ML!Follows(S, b, Cut(s).next[b]) /\ ML!Precedes(S, b, Cut(s).prev[b])
  <2>1. b = s.tail => ML!Follows(S, b, NULL)
    BY <1>1, HeadersType DEF ML!Last, ML!Follows
  <2>2. b = s.head => ML!Precedes(S, b, NULL)
    BY <1>1, HeadersType DEF ML!First, ML!Precedes
  <2>3. /\ Cut(s).next[b] = IF b = s.tail THEN NULL ELSE s.next[b]
        /\ Cut(s).prev[b] = IF b = s.head THEN NULL ELSE s.prev[b]
    BY DEF Cut
  <2> QED
    BY <1>1, <2>1, <2>2, <2>3
<1>4. ML!Forward(Cut(s), S) /\ ML!Backward(Cut(s), S)
  BY <1>1, <1>3, CutFields DEF ML!Forward, ML!Backward
<1>5. OpenEnds(s)
  BY <1>1, HeadersType DEF OpenEnds, ML!First, ML!Last
<1> QED
  BY <1>2, <1>4, <1>5 DEF IsListOf

LEMMA CutIsLinked ==
  ASSUME NEW s, NEW S \in SUBSET Headers,
         ML!Forward(Cut(s), S), ML!Backward(Cut(s), S), OpenEnds(s)
  PROVE  IsLinked(s, S)
<1>1. ML!First(S, s.head) /\ ML!Last(S, s.tail)
  BY CutFields DEF ML!Forward, ML!Backward
<1>2. ASSUME NEW b \in S
      PROVE  /\ IF b = s.tail THEN s.next[b] \in Words(b) ELSE ML!Follows(S, b, s.next[b])
             /\ IF b = s.head THEN s.prev[b] \in Words(b) ELSE ML!Precedes(S, b, s.prev[b])
  <2>1. b \in Headers /\ b # NULL
    BY HeadersType
  <2>2. ML!Follows(S, b, Cut(s).next[b]) /\ ML!Precedes(S, b, Cut(s).prev[b])
    BY DEF ML!Forward, ML!Backward
  <2>3. /\ Cut(s).next[b] = IF b = s.tail THEN NULL ELSE s.next[b]
        /\ Cut(s).prev[b] = IF b = s.head THEN NULL ELSE s.prev[b]
    BY <2>1 DEF Cut
  <2> QED
    BY <2>1, <2>2, <2>3 DEF OpenEnds
<1> QED
  BY <1>1, <1>2 DEF IsLinked

(* The list with b in it, from its head ...                                *)
LEMMA InsertedForward ==
  ASSUME NEW s, NEW t, NEW S, IsListOf(s, S), NEW b \in Headers, b \notin S,
         NEW p, NEW n, InsertedBetween(s, t, b, p, n),
         ML!Precedes(S, b, p), ML!Follows(S, b, n)
  PROVE  ML!Forward(t, S \cup {b})
<1> DEFINE T == S \cup {b}
<1>1. /\ \A c \in S : c \in Nat /\ c # NULL /\ c \in Headers
      /\ b \in Nat /\ b # NULL
  BY HeadersType DEF IsListOf
<1>2. /\ p = NULL => \A c \in S : b <= c
      /\ p # NULL => p \in S /\ p < b /\ \A c \in S : b <= c \/ c <= p
  BY HeadersType DEF ML!Precedes
<1>3. /\ n = NULL => \A c \in S : c <= b
      /\ n # NULL => n \in S /\ b < n /\ \A c \in S : c <= b \/ n <= c
  BY HeadersType DEF ML!Follows
<1>4. ML!First(T, t.head)
  <2>1. ML!First(S, s.head)
    BY DEF IsListOf, ML!Forward
  <2>2. CASE p = NULL
    <3>1. t.head = b
      BY <1>1, <2>2 DEF InsertedBetween
    <3> QED
      BY <1>1, <1>2, <2>2, <3>1, HeadersType DEF ML!First
  <2>3. CASE p # NULL
    <3>1. t.head = s.head
      BY <1>1, <2>3 DEF InsertedBetween
    <3>2. s.head # NULL /\ s.head \in S /\ \A c \in S : s.head <= c
      BY <1>2, <2>1, <2>3, HeadersType DEF ML!First
    <3>3. s.head <= b
      BY <1>1, <1>2, <2>3, <3>2
    <3> QED
      BY <3>1, <3>2, <3>3, HeadersType DEF ML!First
  <2> QED
    BY <2>2, <2>3
<1>5. ASSUME NEW x \in T PROVE ML!Follows(T, x, t.next[x])
  <2>1. CASE x = b
    <3>1. t.next[x] = n
      BY <2>1 DEF InsertedBetween
    <3> QED
      BY <1>1, <1>3, <2>1, <3>1, HeadersType DEF ML!Follows
  <2>2. CASE x # b /\ x = p
    <3>1. t.next[x] = b
      BY <1>1, <2>2 DEF InsertedBetween
    <3>2. x # NULL /\ x < b /\ \A c \in T : c <= x \/ b <= c
      BY <1>1, <1>2, <2>2
    <3> QED
      BY <1>1, <3>1, <3>2, HeadersType DEF ML!Follows
  <2>3. CASE x # b /\ x # p
    <3>1. PICK y : y = s.next[x] /\ y = t.next[x]
      BY <1>1, <2>3 DEF InsertedBetween
    <3>2. x \in S /\ ML!Follows(S, x, y)
      BY <2>3, <3>1 DEF IsListOf, ML!Forward
    <3>3. CASE y = NULL
      <4>1. \A c \in S : c <= x
        BY <3>2, <3>3, HeadersType DEF ML!Follows
      <4>2. b <= x
        BY <1>1, <1>2, <2>3, <3>2, <4>1
      <4> QED
        BY <3>1, <3>3, <4>1, <4>2, HeadersType DEF ML!Follows
    <3>4. CASE y # NULL
      <4>1. y \in S /\ x < y /\ \A c \in S : c <= x \/ y <= c
        BY <3>2, <3>4, HeadersType DEF ML!Follows
      <4>2. b <= x \/ y <= b
        BY <1>1, <1>2, <2>3, <3>2, <4>1
      <4> QED
        BY <3>1, <3>4, <4>1, <4>2, HeadersType DEF ML!Follows
    <3> QED
      BY <3>3, <3>4
  <2> QED
    BY <2>1, <2>2, <2>3
<1> QED
  BY <1>4, <1>5 DEF ML!Forward

(* ... and from its tail.                                                  *)
LEMMA InsertedBackward ==
  ASSUME NEW s, NEW t, NEW S, IsListOf(s, S), NEW b \in Headers, b \notin S,
         NEW p, NEW n, InsertedBetween(s, t, b, p, n),
         ML!Precedes(S, b, p), ML!Follows(S, b, n)
  PROVE  ML!Backward(t, S \cup {b})
<1> DEFINE T == S \cup {b}
<1>1. /\ \A c \in S : c \in Nat /\ c # NULL /\ c \in Headers
      /\ b \in Nat /\ b # NULL
  BY HeadersType DEF IsListOf
<1>2. /\ p = NULL => \A c \in S : b <= c
      /\ p # NULL => p \in S /\ p < b /\ \A c \in S : b <= c \/ c <= p
  BY HeadersType DEF ML!Precedes
<1>3. /\ n = NULL => \A c \in S : c <= b
      /\ n # NULL => n \in S /\ b < n /\ \A c \in S : c <= b \/ n <= c
  BY HeadersType DEF ML!Follows
<1>4. ML!Last(T, t.tail)
  <2>1. ML!Last(S, s.tail)
    BY DEF IsListOf, ML!Backward
  <2>2. CASE n = NULL
    <3>1. t.tail = b
      BY <1>1, <2>2 DEF InsertedBetween
    <3> QED
      BY <1>1, <1>3, <2>2, <3>1, HeadersType DEF ML!Last
  <2>3. CASE n # NULL
    <3>1. t.tail = s.tail
      BY <1>1, <2>3 DEF InsertedBetween
    <3>2. s.tail # NULL /\ s.tail \in S /\ \A c \in S : c <= s.tail
      BY <1>3, <2>1, <2>3, HeadersType DEF ML!Last
    <3>3. b <= s.tail
      BY <1>1, <1>3, <2>3, <3>2
    <3> QED
      BY <3>1, <3>2, <3>3, HeadersType DEF ML!Last
  <2> QED
    BY <2>2, <2>3
<1>5. ASSUME NEW x \in T PROVE ML!Precedes(T, x, t.prev[x])
  <2>1. CASE x = b
    <3>1. t.prev[x] = p
      BY <2>1 DEF InsertedBetween
    <3> QED
      BY <1>1, <1>2, <2>1, <3>1, HeadersType DEF ML!Precedes
  <2>2. CASE x # b /\ x = n
    <3>1. t.prev[x] = b
      BY <1>1, <2>2 DEF InsertedBetween
    <3>2. x # NULL /\ b < x /\ \A c \in T : x <= c \/ c <= b
      BY <1>1, <1>3, <2>2
    <3> QED
      BY <1>1, <3>1, <3>2, HeadersType DEF ML!Precedes
  <2>3. CASE x # b /\ x # n
    <3>1. PICK y : y = s.prev[x] /\ y = t.prev[x]
      BY <1>1, <2>3 DEF InsertedBetween
    <3>2. x \in S /\ ML!Precedes(S, x, y)
      BY <2>3, <3>1 DEF IsListOf, ML!Backward
    <3>3. CASE y = NULL
      <4>1. \A c \in S : x <= c
        BY <3>2, <3>3, HeadersType DEF ML!Precedes
      <4>2. x <= b
        BY <1>1, <1>3, <2>3, <3>2, <4>1
      <4> QED
        BY <3>1, <3>3, <4>1, <4>2, HeadersType DEF ML!Precedes
    <3>4. CASE y # NULL
      <4>1. y \in S /\ y < x /\ \A c \in S : x <= c \/ c <= y
        BY <3>2, <3>4, HeadersType DEF ML!Precedes
      <4>2. x <= b \/ b <= y
        BY <1>1, <1>3, <2>3, <3>2, <4>1
      <4> QED
        BY <3>1, <3>4, <4>1, <4>2, HeadersType DEF ML!Precedes
    <3> QED
      BY <3>3, <3>4
  <2> QED
    BY <2>1, <2>2, <2>3
<1> QED
  BY <1>4, <1>5 DEF ML!Backward

(* The list of the blocks of T and of b without b, from its head ...        *)
LEMMA TakenOutForward ==
  ASSUME NEW s, NEW t, NEW T, NEW b \in Headers, b \notin T, IsListOf(s, T \cup {b}),
         NEW p, NEW n, TakenOut(s, t, b, p, n),
         ML!Precedes(T, b, p), ML!Follows(T, b, n)
  PROVE  ML!Forward(t, T)
<1>1. /\ \A c \in T : c \in Nat /\ c # NULL /\ c \in Headers
      /\ b \in Nat /\ b # NULL
  BY HeadersType DEF IsListOf
<1>2. /\ p = NULL => \A c \in T : b <= c
      /\ p # NULL => p \in T /\ p < b /\ \A c \in T : b <= c \/ c <= p
  BY HeadersType DEF ML!Precedes
<1>3. /\ n = NULL => \A c \in T : c <= b
      /\ n # NULL => n \in T /\ b < n /\ \A c \in T : c <= b \/ n <= c
  BY HeadersType DEF ML!Follows
<1>4. ML!First(T, t.head)
  <2>1. /\ s.head # NULL /\ (s.head \in T \/ s.head = b)
        /\ s.head <= b /\ \A c \in T : s.head <= c
    BY <1>1, HeadersType DEF IsListOf, ML!Forward, ML!First
  <2>2. CASE p = NULL /\ n = NULL
    <3>1. t.head = NULL /\ T = {}
      BY <1>1, <1>2, <1>3, <2>2 DEF TakenOut
    <3> QED
      BY <3>1, HeadersType DEF ML!First
  <2>3. CASE p = NULL /\ n # NULL
    <3>1. t.head = n /\ n \in T /\ \A c \in T : n <= c
      BY <1>1, <1>2, <1>3, <2>3 DEF TakenOut
    <3> QED
      BY <2>3, <3>1, HeadersType DEF ML!First
  <2>4. CASE p # NULL
    <3>1. t.head = s.head
      BY <1>1, <2>4 DEF TakenOut
    <3>2. p \in T /\ p < b
      BY <1>2, <2>4
    <3>3. s.head \in T
      BY <1>1, <2>1, <3>2
    <3> QED
      BY <2>1, <3>1, <3>3, HeadersType DEF ML!First
  <2> QED
    BY <2>2, <2>3, <2>4
<1>5. ASSUME NEW x \in T PROVE ML!Follows(T, x, t.next[x])
  <2>1. CASE x = p
    <3>1. t.next[x] = n
      BY <1>1, <2>1 DEF TakenOut
    <3>2. x < b /\ \A c \in T : b <= c \/ c <= x
      BY <1>1, <1>2, <2>1
    <3>3. CASE n = NULL
      <4>1. \A c \in T : c <= x
        BY <1>1, <1>3, <3>2, <3>3
      <4> QED
        BY <3>1, <3>3, <4>1, HeadersType DEF ML!Follows
    <3>4. CASE n # NULL
      <4>1. n \in T /\ b < n /\ \A c \in T : c <= b \/ n <= c
        BY <1>3, <3>4
      <4>2. x < n /\ \A c \in T : c <= x \/ n <= c
        BY <1>1, <3>2, <4>1
      <4> QED
        BY <3>1, <3>4, <4>1, <4>2, HeadersType DEF ML!Follows
    <3> QED
      BY <3>3, <3>4
  <2>2. CASE x # p
    <3>1. PICK y : y = s.next[x] /\ y = t.next[x]
      BY <1>1, <2>2 DEF TakenOut
    <3>2. ML!Follows(T \cup {b}, x, y)
      BY <3>1 DEF IsListOf, ML!Forward
    <3>3. CASE y = NULL
      BY <3>1, <3>2, <3>3, HeadersType DEF ML!Follows
    <3>4. CASE y # NULL
      <4>1. /\ y \in T \/ y = b
            /\ x < y /\ \A c \in T : c <= x \/ y <= c
        BY <3>2, <3>4, HeadersType DEF ML!Follows
      <4>2. y # b
        <5>1. SUFFICES ASSUME y = b PROVE FALSE
          OBVIOUS
        <5>2. x < b /\ \A c \in T : c <= x \/ b <= c
          BY <4>1, <5>1
        <5>3. p \in T /\ p < b /\ (b <= x \/ x <= p)
          BY <1>1, <1>2, <5>2
        <5> QED
          BY <1>1, <2>2, <5>2, <5>3
      <4> QED
        BY <3>1, <3>4, <4>1, <4>2, HeadersType DEF ML!Follows
    <3> QED
      BY <3>3, <3>4
  <2> QED
    BY <2>1, <2>2
<1> QED
  BY <1>4, <1>5 DEF ML!Forward

(* ... and from its tail.                                                  *)
LEMMA TakenOutBackward ==
  ASSUME NEW s, NEW t, NEW T, NEW b \in Headers, b \notin T, IsListOf(s, T \cup {b}),
         NEW p, NEW n, TakenOut(s, t, b, p, n),
         ML!Precedes(T, b, p), ML!Follows(T, b, n)
  PROVE  ML!Backward(t, T)
<1>1. /\ \A c \in T : c \in Nat /\ c # NULL /\ c \in Headers
      /\ b \in Nat /\ b # NULL
  BY HeadersType DEF IsListOf
<1>2. /\ p = NULL => \A c \in T : b <= c
      /\ p # NULL => p \in T /\ p < b /\ \A c \in T : b <= c \/ c <= p
  BY HeadersType DEF ML!Precedes
<1>3. /\ n = NULL => \A c \in T : c <= b
      /\ n # NULL => n \in T /\ b < n /\ \A c \in T : c <= b \/ n <= c
  BY HeadersType DEF ML!Follows
<1>4. ML!Last(T, t.tail)
  <2>1. /\ s.tail # NULL /\ (s.tail \in T \/ s.tail = b)
        /\ b <= s.tail /\ \A c \in T : c <= s.tail
    BY <1>1, HeadersType DEF IsListOf, ML!Backward, ML!Last
  <2>2. CASE n = NULL /\ p = NULL
    <3>1. t.tail = NULL /\ T = {}
      BY <1>1, <1>2, <1>3, <2>2 DEF TakenOut
    <3> QED
      BY <3>1, HeadersType DEF ML!Last
  <2>3. CASE n = NULL /\ p # NULL
    <3>1. t.tail = p /\ p \in T /\ \A c \in T : c <= p
      BY <1>1, <1>2, <1>3, <2>3 DEF TakenOut
    <3> QED
      BY <2>3, <3>1, HeadersType DEF ML!Last
  <2>4. CASE n # NULL
    <3>1. t.tail = s.tail
      BY <1>1, <2>4 DEF TakenOut
    <3>2. n \in T /\ b < n
      BY <1>3, <2>4
    <3>3. s.tail \in T
      BY <1>1, <2>1, <3>2
    <3> QED
      BY <2>1, <3>1, <3>3, HeadersType DEF ML!Last
  <2> QED
    BY <2>2, <2>3, <2>4
<1>5. ASSUME NEW x \in T PROVE ML!Precedes(T, x, t.prev[x])
  <2>1. CASE x = n
    <3>1. t.prev[x] = p
      BY <1>1, <2>1 DEF TakenOut
    <3>2. b < x /\ \A c \in T : c <= b \/ x <= c
      BY <1>1, <1>3, <2>1
    <3>3. CASE p = NULL
      <4>1. \A c \in T : x <= c
        BY <1>1, <1>2, <3>2, <3>3
      <4> QED
        BY <3>1, <3>3, <4>1, HeadersType DEF ML!Precedes
    <3>4. CASE p # NULL
      <4>1. p \in T /\ p < b /\ \A c \in T : b <= c \/ c <= p
        BY <1>2, <3>4
      <4>2. p < x /\ \A c \in T : x <= c \/ c <= p
        BY <1>1, <3>2, <4>1
      <4> QED
        BY <3>1, <3>4, <4>1, <4>2, HeadersType DEF ML!Precedes
    <3> QED
      BY <3>3, <3>4
  <2>2. CASE x # n
    <3>1. PICK y : y = s.prev[x] /\ y = t.prev[x]
      BY <1>1, <2>2 DEF TakenOut
    <3>2. ML!Precedes(T \cup {b}, x, y)
      BY <3>1 DEF IsListOf, ML!Backward
    <3>3. CASE y = NULL
      BY <3>1, <3>2, <3>3, HeadersType DEF ML!Precedes
    <3>4. CASE y # NULL
      <4>1. /\ y \in T \/ y = b
            /\ y < x /\ \A c \in T : x <= c \/ c <= y
        BY <3>2, <3>4, HeadersType DEF ML!Precedes
      <4>2. y # b
        <5>1. SUFFICES ASSUME y = b PROVE FALSE
          OBVIOUS
        <5>2. b < x /\ \A c \in T : x <= c \/ c <= b
          BY <4>1, <5>1
        <5>3. n \in T /\ b < n /\ (x <= b \/ n <= x)
          BY <1>1, <1>3, <5>2
        <5> QED
          BY <1>1, <2>2, <5>2, <5>3
      <4> QED
        BY <3>1, <3>4, <4>1, <4>2, HeadersType DEF ML!Precedes
    <3> QED
      BY <3>3, <3>4
  <2> QED
    BY <2>1, <2>2
<1> QED
  BY <1>4, <1>5 DEF ML!Backward

(* A block put between its neighbours is so in the list with its ends cut, *)
(* whatever it brought along.                                              *)
LEMMA InsertedCut ==
  ASSUME NEW s, HasLinkFields(s), NEW t, NEW S, IsListOf(Cut(s), S), OpenEnds(s),
         NEW b \in Headers, b \notin S, NEW p \in Pointers, NEW n \in Pointers,
         s.next[b] \in Words(b), s.prev[b] \in Words(b), Inserted(s, t, b, p, n),
         ML!Precedes(S, b, p), ML!Follows(S, b, n)
  PROVE  InsertedBetween(Cut(s), Cut(t), b, p, n) /\ OpenEnds(t) /\ HasLinkFields(t)
<1>1. /\ \A c \in S : c \in Nat /\ c # NULL /\ c \in Headers
      /\ b \in Nat /\ b # NULL /\ ML!NULL = NULL
  BY HeadersType DEF IsListOf
<1>2. /\ p = NULL => \A c \in S : b <= c
      /\ p # NULL => p \in S /\ p < b /\ \A c \in S : b <= c \/ c <= p
      /\ n = NULL => \A c \in S : c <= b
      /\ n # NULL => n \in S /\ b < n /\ \A c \in S : c <= b \/ n <= c
  BY <1>1 DEF ML!Precedes, ML!Follows
<1>3. /\ s.head = NULL => S = {}
      /\ s.head # NULL => s.head \in S /\ \A c \in S : s.head <= c
      /\ s.tail = NULL => S = {}
      /\ s.tail # NULL => s.tail \in S /\ \A c \in S : c <= s.tail
  BY <1>1 DEF IsListOf, ML!Forward, ML!Backward, ML!First, ML!Last, Cut
<1>4. /\ n = NULL => s.tail = p
      /\ n # NULL => s.tail # NULL /\ s.tail # b /\ s.tail # p
  <2>1. CASE n = NULL /\ p = NULL
    BY <1>1, <1>2, <1>3, <2>1
  <2>2. CASE n = NULL /\ p # NULL
    BY <1>1, <1>2, <1>3, <2>2
  <2>3. CASE n # NULL
    BY <1>1, <1>2, <1>3, <2>3
  <2> QED
    BY <2>1, <2>2, <2>3
<1>5. /\ p = NULL => s.head = n
      /\ p # NULL => s.head # NULL /\ s.head # b /\ s.head # n
  <2>1. CASE p = NULL /\ n = NULL
    BY <1>1, <1>2, <1>3, <2>1
  <2>2. CASE p = NULL /\ n # NULL
    BY <1>1, <1>2, <1>3, <2>2
  <2>3. CASE p # NULL
    BY <1>1, <1>2, <1>3, <2>3
  <2> QED
    BY <2>1, <2>2, <2>3
<1>6. /\ t.head = (IF p = NULL THEN b ELSE s.head)
      /\ t.tail = (IF n = NULL THEN b ELSE s.tail)
      /\ t.next = [x \in Headers |-> IF x = b THEN IF n = NULL THEN s.next[b] ELSE n
                                     ELSE IF x = p THEN b ELSE s.next[x]]
      /\ t.prev = [x \in Headers |-> IF x = b THEN IF p = NULL THEN s.prev[b] ELSE p
                                     ELSE IF x = n THEN b ELSE s.prev[x]]
  BY DEF Inserted
<1>7. Cut(t).next =
        [x \in Headers |-> IF x = b THEN n ELSE IF x = p THEN b ELSE Cut(s).next[x]]
  <2>1. CASE n = NULL
    BY <1>1, <1>4, <1>6, <2>1 DEF Cut
  <2>2. CASE n # NULL
    BY <1>1, <1>4, <1>6, <2>2 DEF Cut
  <2> QED
    BY <2>1, <2>2
<1>8. Cut(t).prev =
        [x \in Headers |-> IF x = b THEN p ELSE IF x = n THEN b ELSE Cut(s).prev[x]]
  <2>1. CASE p = NULL
    BY <1>1, <1>5, <1>6, <2>1 DEF Cut
  <2>2. CASE p # NULL
    BY <1>1, <1>5, <1>6, <2>2 DEF Cut
  <2> QED
    BY <2>1, <2>2
<1>9. InsertedBetween(Cut(s), Cut(t), b, p, n)
  BY <1>6, <1>7, <1>8 DEF InsertedBetween, Cut
<1>10. t.tail # NULL => t.next[t.tail] \in Words(t.tail)
  <2>1. CASE n = NULL
    BY <1>6, <2>1
  <2>2. CASE n # NULL
    <3>1. s.tail \in Headers
      BY <1>1, <1>3, <1>4, <2>2
    <3>2. t.tail = s.tail /\ t.next[s.tail] = s.next[s.tail]
      BY <1>4, <1>6, <2>2, <3>1
    <3> QED
      BY <3>2 DEF OpenEnds
  <2> QED
    BY <2>1, <2>2
<1>11. t.head # NULL => t.prev[t.head] \in Words(t.head)
  <2>1. CASE p = NULL
    BY <1>6, <2>1
  <2>2. CASE p # NULL
    <3>1. s.head \in Headers
      BY <1>1, <1>3, <1>5, <2>2
    <3>2. t.head = s.head /\ t.prev[s.head] = s.prev[s.head]
      BY <1>5, <1>6, <2>2, <3>1
    <3> QED
      BY <3>2 DEF OpenEnds
  <2> QED
    BY <2>1, <2>2
<1>12. HasLinkFields(t)
  <2>1. /\ s.next \in [Headers -> Fields] /\ s.prev \in [Headers -> Fields]
        /\ p \in Fields /\ n \in Fields /\ b \in Fields
        /\ s.next[b] \in Fields /\ s.prev[b] \in Fields
    BY HeadersType DEF HasLinkFields, Pointers, Fields
  <2>2. t.next \in [Headers -> Fields] /\ t.prev \in [Headers -> Fields]
    BY <1>6, <2>1
  <2>3. t.head \in Pointers /\ t.tail \in Pointers
    BY <1>6 DEF HasLinkFields, Pointers
  <2> QED
    BY <2>2, <2>3 DEF HasLinkFields
<1> QED
  BY <1>9, <1>10, <1>11, <1>12 DEF OpenEnds

(* A block taken out is so in the list with its ends cut.                  *)
LEMMA TakenOutCut ==
  ASSUME NEW s, HasLinkFields(s), NEW t, NEW T, NEW b \in Headers, b \notin T,
         IsListOf(Cut(s), T \cup {b}), OpenEnds(s),
         NEW p \in Pointers, NEW n \in Pointers, TakenOut(s, t, b, p, n),
         ML!Precedes(T, b, p), ML!Follows(T, b, n)
  PROVE  TakenOut(Cut(s), Cut(t), b, p, n) /\ OpenEnds(t) /\ HasLinkFields(t)
<1>1. /\ \A c \in T : c \in Nat /\ c # NULL /\ c \in Headers
      /\ b \in Nat /\ b # NULL /\ ML!NULL = NULL
  BY HeadersType DEF IsListOf
<1>2. /\ p = NULL => \A c \in T : b <= c
      /\ p # NULL => p \in T /\ p < b /\ \A c \in T : b <= c \/ c <= p
      /\ n = NULL => \A c \in T : c <= b
      /\ n # NULL => n \in T /\ b < n /\ \A c \in T : c <= b \/ n <= c
  BY <1>1 DEF ML!Precedes, ML!Follows
<1>3. /\ s.head \in T \/ s.head = b
      /\ s.head <= b /\ \A c \in T : s.head <= c
      /\ s.tail \in T \/ s.tail = b
      /\ b <= s.tail /\ \A c \in T : c <= s.tail
  BY <1>1 DEF IsListOf, ML!Forward, ML!Backward, ML!First, ML!Last, Cut
<1>4. /\ n = NULL => s.tail = b
      /\ n # NULL => s.tail # b /\ s.tail # p
      /\ p = NULL => s.head = b
      /\ p # NULL => s.head # b /\ s.head # n
      /\ p # b /\ n # b
  BY <1>1, <1>2, <1>3
<1>5. /\ t.head = (IF p = NULL THEN n ELSE s.head)
      /\ t.tail = (IF n = NULL THEN p ELSE s.tail)
      /\ t.next = [x \in Headers |-> IF x = b THEN NULL ELSE IF x = p THEN n ELSE s.next[x]]
      /\ t.prev = [x \in Headers |-> IF x = b THEN NULL ELSE IF x = n THEN p ELSE s.prev[x]]
  BY DEF TakenOut
<1>6. Cut(t).next =
        [x \in Headers |-> IF x = b THEN NULL ELSE IF x = p THEN n ELSE Cut(s).next[x]]
  <2>1. CASE n = NULL
    BY <1>1, <1>4, <1>5, <2>1 DEF Cut
  <2>2. CASE n # NULL
    BY <1>1, <1>4, <1>5, <2>2 DEF Cut
  <2> QED
    BY <2>1, <2>2
<1>7. Cut(t).prev =
        [x \in Headers |-> IF x = b THEN NULL ELSE IF x = n THEN p ELSE Cut(s).prev[x]]
  <2>1. CASE p = NULL
    BY <1>1, <1>4, <1>5, <2>1 DEF Cut
  <2>2. CASE p # NULL
    BY <1>1, <1>4, <1>5, <2>2 DEF Cut
  <2> QED
    BY <2>1, <2>2
<1>8. TakenOut(Cut(s), Cut(t), b, p, n)
  BY <1>5, <1>6, <1>7 DEF TakenOut, Cut
<1>9. t.tail # NULL => t.next[t.tail] \in Words(t.tail)
  <2>1. CASE n = NULL
    BY <1>1, <1>2, <1>4, <1>5, <2>1, WordsType
  <2>2. CASE n # NULL
    <3>1. s.tail \in Headers /\ s.tail # NULL
      BY <1>1, <1>3
    <3>2. t.tail = s.tail /\ t.next[s.tail] = s.next[s.tail]
      BY <1>4, <1>5, <2>2, <3>1
    <3> QED
      BY <3>1, <3>2 DEF OpenEnds
  <2> QED
    BY <2>1, <2>2
<1>10. t.head # NULL => t.prev[t.head] \in Words(t.head)
  <2>1. CASE p = NULL
    BY <1>1, <1>2, <1>4, <1>5, <2>1, WordsType
  <2>2. CASE p # NULL
    <3>1. s.head \in Headers /\ s.head # NULL
      BY <1>1, <1>3
    <3>2. t.head = s.head /\ t.prev[s.head] = s.prev[s.head]
      BY <1>4, <1>5, <2>2, <3>1
    <3> QED
      BY <3>1, <3>2 DEF OpenEnds
  <2> QED
    BY <2>1, <2>2
<1>11. HasLinkFields(t)
  <2>1. /\ s.next \in [Headers -> Fields] /\ s.prev \in [Headers -> Fields]
        /\ p \in Fields /\ n \in Fields /\ NULL \in Fields
    BY HeadersType DEF HasLinkFields, Pointers, Fields
  <2>2. t.next \in [Headers -> Fields] /\ t.prev \in [Headers -> Fields]
    BY <1>5, <2>1
  <2>3. t.head \in Pointers /\ t.tail \in Pointers
    BY <1>5 DEF HasLinkFields
  <2> QED
    BY <2>2, <2>3 DEF HasLinkFields
<1> QED
  BY <1>8, <1>9, <1>10, <1>11 DEF OpenEnds

(* _addToList puts the block between its neighbours, whichever of its      *)
(* branches it takes; its first writes no link, the next two only one.     *)
LEMMA WithField ==
  ASSUME NEW f \in [Headers -> Fields], NEW a, NEW v
  PROVE  ML!With(f, a, v) = [x \in Headers |-> IF x = a THEN v ELSE f[x]]
BY DEF ML!With

LEMMA AddIsInsertion ==
  ASSUME NEW head, NEW tail, NEW nxt, NEW prv,
         NEW s, s = [head |-> head, tail |-> tail, next |-> nxt, prev |-> prv],
         HasLinkFields(s), NEW S, IsListOf(Cut(s), S), NEW b \in Headers, b \notin S,
         NEW above, above = Min({a \in S : a > b}) \/ \A c \in S : b < c
  PROVE  \E p, n \in Pointers :
           /\ Inserted(s, ML!_addToList(s, b, above), b, p, n)
           /\ ML!Precedes(S, b, p) /\ ML!Follows(S, b, n)
<1> DEFINE t == ML!_addToList(s, b, above)
<1>1. /\ s.head = head /\ s.tail = tail /\ s.next = nxt /\ s.prev = prv
      /\ head \in Pointers /\ tail \in Pointers
      /\ nxt \in [Headers -> Fields] /\ prv \in [Headers -> Fields]
      /\ b \in Pointers /\ NULL \in Pointers
  BY DEF HasLinkFields, Pointers
<1>2. /\ \A c \in S : c \in Nat /\ c # NULL /\ c \in Headers
      /\ b \in Nat /\ b # NULL /\ ML!NULL = NULL
  BY HeadersType DEF IsListOf
<1>3. /\ head = NULL => S = {}
      /\ head # NULL => head \in S /\ \A c \in S : head <= c
  BY <1>1, <1>2 DEF IsListOf, ML!Forward, ML!First, Cut
<1>4. /\ tail = NULL => S = {}
      /\ tail # NULL => tail \in S /\ \A c \in S : c <= tail
  BY <1>1, <1>2 DEF IsListOf, ML!Backward, ML!Last, Cut
<1>5. CASE head = NULL
  <2>1. S = {} /\ tail = NULL
    BY <1>3, <1>4, <1>5
  <2>2. t = [head |-> b, tail |-> b, next |-> nxt, prev |-> prv]
    BY <1>1, <1>2, <1>5 DEF ML!_addToList, ML!AddFirst
  <2>3. /\ nxt = [x \in Headers |-> IF x = b THEN nxt[b] ELSE IF x = NULL THEN b ELSE nxt[x]]
        /\ prv = [x \in Headers |-> IF x = b THEN prv[b] ELSE IF x = NULL THEN b ELSE prv[x]]
    BY <1>1, HeadersType
  <2>4. Inserted(s, t, b, NULL, NULL)
    BY <1>1, <2>2, <2>3 DEF Inserted
  <2>5. ML!Precedes(S, b, NULL) /\ ML!Follows(S, b, NULL)
    BY <1>2, <2>1 DEF ML!Precedes, ML!Follows
  <2> QED
    BY <1>1, <2>4, <2>5
<1>6. CASE head # NULL /\ b > tail
  <2>1. /\ tail \in S /\ tail # NULL /\ tail # b /\ tail < b
        /\ \A c \in S : c <= tail
    BY <1>2, <1>3, <1>4, <1>6
  <2>2. t = [head |-> head, tail |-> b,
             next |-> ML!With(nxt, tail, b), prev |-> ML!With(prv, b, tail)]
    BY <1>1, <1>2, <1>6 DEF ML!_addToList, ML!AddLast
  <2>3. /\ ML!With(nxt, tail, b) =
             [x \in Headers |-> IF x = b THEN nxt[b] ELSE IF x = tail THEN b ELSE nxt[x]]
        /\ ML!With(prv, b, tail) =
             [x \in Headers |-> IF x = b THEN tail ELSE IF x = NULL THEN b ELSE prv[x]]
    BY <1>1, <2>1, HeadersType, WithField
  <2>4. Inserted(s, t, b, tail, NULL)
    BY <1>1, <2>1, <2>2, <2>3 DEF Inserted
  <2>5. ML!Precedes(S, b, tail)
    BY <1>2, <2>1 DEF ML!Precedes
  <2>6. ML!Follows(S, b, NULL)
    <3>1. \A c \in S : c <= b
      BY <1>2, <2>1
    <3> QED
      BY <1>2, <3>1 DEF ML!Follows
  <2> QED
    BY <1>1, <2>4, <2>5, <2>6
<1>7. CASE head # NULL /\ ~(b > tail) /\ b < head
  <2>1. /\ head \in S /\ head # b /\ \A c \in S : head <= c
    BY <1>2, <1>3, <1>7
  <2>2. t = [head |-> b, tail |-> tail,
             next |-> ML!With(nxt, b, head), prev |-> ML!With(prv, head, b)]
    BY <1>1, <1>2, <1>7 DEF ML!_addToList, ML!AddFront
  <2>3. /\ ML!With(nxt, b, head) =
             [x \in Headers |-> IF x = b THEN head ELSE IF x = NULL THEN b ELSE nxt[x]]
        /\ ML!With(prv, head, b) =
             [x \in Headers |-> IF x = b THEN prv[b] ELSE IF x = head THEN b ELSE prv[x]]
    BY <1>1, <2>1, HeadersType, WithField
  <2>4. Inserted(s, t, b, NULL, head)
    BY <1>1, <1>7, <2>2, <2>3 DEF Inserted
  <2>5. ML!Precedes(S, b, NULL)
    <3>1. \A c \in S : b <= c
      BY <1>2, <1>7, <2>1
    <3> QED
      BY <1>2, <3>1 DEF ML!Precedes
  <2>6. ML!Follows(S, b, head)
    BY <1>2, <1>7, <2>1 DEF ML!Follows
  <2> QED
    BY <1>1, <2>4, <2>5, <2>6
<1>8. CASE head # NULL /\ ~(b > tail) /\ ~(b < head)
  <2>1. /\ head \in S /\ tail \in S
    BY <1>3, <1>4, <1>8
  <2>2. head < b /\ b < tail
    BY <1>2, <1>8, <2>1
  <2>3. /\ above \in S /\ b < above /\ \A c \in S : c <= b \/ above <= c
    <3> DEFINE higher == {a \in S : a > b}
    <3>1. above = Min(higher)
      <4>1. ~ (b < head)
        BY <1>8
      <4> QED
        BY <2>1, <4>1
    <3>2. tail \in higher /\ higher \subseteq Nat
      BY <1>2, <2>1, <2>2
    <3> HIDE DEF higher
    <3>3. above \in higher /\ \A c \in higher : above <= c
      BY <3>1, <3>2, MinIsLeast
    <3>4. \A c \in S : c <= b \/ c \in higher
      BY <1>2 DEF higher
    <3>5. above \in S /\ b < above
      BY <1>2, <3>3 DEF higher
    <3> QED
      BY <3>3, <3>4, <3>5
  <2>4. PICK p : p = prv[above]
    OBVIOUS
  <2>5. ML!Precedes(S, above, p)
    <3>1. above \in Headers /\ above # head
      BY <1>2, <2>1, <2>2, <2>3
    <3>2. Cut(s).prev[above] = p
      BY <1>1, <2>4, <3>1 DEF Cut
    <3> QED
      BY <2>3, <3>2 DEF IsListOf, ML!Backward
  <2>6. p # NULL
    <3>1. SUFFICES ASSUME p = NULL PROVE FALSE
      OBVIOUS
    <3>2. above <= head
      BY <1>2, <2>1, <2>5, <3>1 DEF ML!Precedes
    <3> QED
      BY <1>2, <2>1, <2>2, <2>3, <3>2
  <2>7. p \in S /\ p < above /\ \A c \in S : above <= c \/ c <= p
    BY <1>2, <2>5, <2>6 DEF ML!Precedes
  <2>8. p < b /\ \A c \in S : b <= c \/ c <= p
    BY <1>2, <2>3, <2>7
  <2>9. t = [head |-> head, tail |-> tail,
             next |-> ML!With(ML!With(nxt, b, above), p, b),
             prev |-> ML!With(ML!With(prv, b, p), above, b)]
    BY <1>1, <1>2, <1>8, <2>4 DEF ML!_addToList, ML!InsertBefore
  <2>10. p \in Pointers /\ above \in Pointers /\ p # b /\ above # b
    BY <1>2, <2>3, <2>7 DEF Pointers
  <2>11. /\ ML!With(ML!With(nxt, b, above), p, b) =
              [x \in Headers |-> IF x = b THEN above ELSE IF x = p THEN b ELSE nxt[x]]
         /\ ML!With(ML!With(prv, b, p), above, b) =
              [x \in Headers |-> IF x = b THEN p ELSE IF x = above THEN b ELSE prv[x]]
    BY <1>1, <2>10 DEF ML!With
  <2>12. above # NULL
    BY <1>2, <2>3
  <2>13. Inserted(s, t, b, p, above)
    BY <1>1, <2>6, <2>9, <2>11, <2>12 DEF Inserted
  <2>14. ML!Precedes(S, b, p) /\ ML!Follows(S, b, above)
    BY <1>2, <2>3, <2>6, <2>7, <2>8, <2>12 DEF ML!Precedes, ML!Follows
  <2> QED
    BY <2>10, <2>13, <2>14
<1> QED
  BY <1>5, <1>6, <1>7, <1>8

(* The links of a listed block lead to its neighbours; of a list whose     *)
(* ends are cut, only the first and the last block lack one.               *)
LEMMA Neighbours ==
  ASSUME NEW s, NEW T, NEW b \in Headers, b \notin T, IsListOf(s, T \cup {b}),
         NEW p, p = s.prev[b], NEW n, n = s.next[b]
  PROVE  /\ ML!Precedes(T, b, p) /\ ML!Follows(T, b, n)
         /\ p \in T \cup {NULL} /\ n \in T \cup {NULL}
         /\ p \in Pointers /\ n \in Pointers
         /\ b = s.head <=> p = NULL
         /\ b = s.tail <=> n = NULL
         /\ p = n => p = NULL
<1>1. /\ \A c \in T : c \in Nat /\ c # NULL /\ c \in Headers
      /\ b \in Nat /\ b # NULL /\ ML!NULL = NULL
  BY HeadersType DEF IsListOf
<1>2. ML!Precedes(T \cup {b}, b, p) /\ ML!Follows(T \cup {b}, b, n)
  BY DEF IsListOf, ML!Forward, ML!Backward
<1>3. p \in T \cup {NULL} /\ ML!Precedes(T, b, p)
  BY <1>1, <1>2 DEF ML!Precedes
<1>4. n \in T \cup {NULL} /\ ML!Follows(T, b, n)
  BY <1>1, <1>2 DEF ML!Follows
<1>5. /\ s.head # NULL /\ (s.head \in T \/ s.head = b)
      /\ s.head <= b /\ \A c \in T : s.head <= c
  BY <1>1 DEF IsListOf, ML!Forward, ML!First
<1>6. /\ s.tail # NULL /\ (s.tail \in T \/ s.tail = b)
      /\ b <= s.tail /\ \A c \in T : c <= s.tail
  BY <1>1 DEF IsListOf, ML!Backward, ML!Last
<1>7. b = s.head <=> p = NULL
  <2>1. ASSUME p = NULL PROVE b = s.head
    <3>1. \A c \in T : b <= c
      BY <1>1, <1>3, <2>1 DEF ML!Precedes
    <3> QED
      BY <1>1, <1>5, <3>1
  <2>2. ASSUME p # NULL PROVE b # s.head
    <3>1. p \in T /\ p < b
      BY <1>1, <1>3, <2>2 DEF ML!Precedes
    <3> QED
      BY <1>1, <1>5, <3>1
  <2> QED
    BY <2>1, <2>2
<1>8. b = s.tail <=> n = NULL
  <2>1. ASSUME n = NULL PROVE b = s.tail
    <3>1. \A c \in T : c <= b
      BY <1>1, <1>4, <2>1 DEF ML!Follows
    <3> QED
      BY <1>1, <1>6, <3>1
  <2>2. ASSUME n # NULL PROVE b # s.tail
    <3>1. n \in T /\ b < n
      BY <1>1, <1>4, <2>2 DEF ML!Follows
    <3> QED
      BY <1>1, <1>6, <3>1
  <2> QED
    BY <2>1, <2>2
<1>9. p = n => p = NULL
  BY <1>1, <1>3, <1>4 DEF ML!Precedes, ML!Follows
<1>10. p \in Pointers /\ n \in Pointers
  BY <1>1, <1>3, <1>4 DEF Pointers
<1> QED
  BY <1>3, <1>4, <1>7, <1>8, <1>9, <1>10

(* What is read of b's links is its neighbours, unless it is a word that   *)
(* the program strays by; at the tail alone next is not looked at.         *)
LEMMA RemoveTakesOut ==
  ASSUME NEW head, NEW tail, NEW nxt, NEW prv,
         NEW s, s = [head |-> head, tail |-> tail, next |-> nxt, prev |-> prv],
         HasLinkFields(s), NEW T, NEW b \in Headers, b \notin T,
         IsListOf(Cut(s), T \cup {b}), OpenEnds(s), prv[b] # GARBAGE,
         nxt[b] = GARBAGE => b = tail /\ b # head,
         NEW p, p = Cut(s).prev[b], NEW n, n = Cut(s).next[b]
  PROVE  TakenOut(s, ML!_removeFromList(s, b), b, p, n)
<1> DEFINE left == ML!LeaveHead(s, b)
           t == ML!_removeFromList(s, b)
<1>1. /\ s.head = head /\ s.tail = tail /\ s.next = nxt /\ s.prev = prv
      /\ nxt \in [Headers -> Fields] /\ prv \in [Headers -> Fields]
  BY DEF HasLinkFields
<1>2. /\ \A c \in T : c # NULL
      /\ b # NULL /\ ML!NULL = NULL /\ NULL \notin Headers /\ T \subseteq Headers
  BY HeadersType DEF IsListOf
<1>3. /\ p \in T \cup {NULL} /\ n \in T \cup {NULL}
      /\ p \in Pointers /\ n \in Pointers
      /\ b = head <=> p = NULL
      /\ b = tail <=> n = NULL
      /\ p = n => p = NULL
  BY <1>1, Neighbours DEF Cut
<1>4. p # b /\ n # b
  BY <1>2, <1>3
<1>5. prv[b] = p
  BY <1>1, <1>2, <1>3, WordsType DEF Cut, OpenEnds
<1>6. ~(b = tail /\ b # head) => nxt[b] = n
  BY <1>1, <1>2, <1>3, WordsType DEF Cut, OpenEnds
<1>7. CASE b = head /\ b = tail
  <2>1. p = NULL /\ n = NULL
    BY <1>3, <1>7
  <2>2. left = [head |-> NULL, tail |-> tail,
                next |-> ML!With(nxt, b, NULL), prev |-> ML!With(prv, NULL, NULL)]
    BY <1>1, <1>2, <1>7, <1>6, <2>1 DEF ML!LeaveHead
  <2>3. ML!With(prv, NULL, NULL) = prv
    BY <1>1, <1>2 DEF ML!With
  <2>4. ML!LeaveTail(left, b) =
          [head |-> NULL, tail |-> NULL,
           next |-> ML!With(ML!With(nxt, b, NULL), NULL, NULL),
           prev |-> ML!With(prv, b, NULL)]
    <3>1. left = [head |-> NULL, tail |-> tail,
                  next |-> ML!With(nxt, b, NULL), prev |-> prv] /\ prv[b] = NULL
      BY <1>5, <2>1, <2>2, <2>3
    <3> HIDE DEF left
    <3> QED
      BY <1>2, <3>1 DEF ML!LeaveTail
  <2>5. t = [head |-> NULL, tail |-> NULL,
             next |-> ML!With(ML!With(ML!With(nxt, b, NULL), NULL, NULL), b, NULL),
             prev |-> ML!With(ML!With(prv, b, NULL), b, NULL)]
    BY <1>2, <1>7, <2>2, <2>4 DEF ML!_removeFromList, ML!Detach
  <2>6. /\ ML!With(ML!With(ML!With(nxt, b, NULL), NULL, NULL), b, NULL) =
             [x \in Headers |-> IF x = b THEN NULL ELSE IF x = p THEN n ELSE nxt[x]]
        /\ ML!With(ML!With(prv, b, NULL), b, NULL) =
             [x \in Headers |-> IF x = b THEN NULL ELSE IF x = n THEN p ELSE prv[x]]
    BY <1>1, <1>2, <2>1 DEF ML!With
  <2> QED
    BY <1>1, <2>1, <2>5, <2>6 DEF TakenOut
<1>8. CASE b # head /\ b = tail
  <2>1. p # NULL /\ n = NULL
    BY <1>3, <1>8
  <2>2. left = s
    BY <1>1, <1>8 DEF ML!LeaveHead
  <2>3. ML!LeaveTail(s, b) =
          [head |-> head, tail |-> p,
           next |-> ML!With(nxt, p, NULL), prev |-> ML!With(prv, b, NULL)]
    BY <1>1, <1>2, <1>5 DEF ML!LeaveTail
  <2>4. t = [head |-> head, tail |-> p,
             next |-> ML!With(ML!With(nxt, p, NULL), b, NULL),
             prev |-> ML!With(ML!With(prv, b, NULL), b, NULL)]
    BY <1>1, <1>2, <1>8, <2>2, <2>3 DEF ML!_removeFromList, ML!Detach
  <2>5. /\ ML!With(ML!With(nxt, p, NULL), b, NULL) =
             [x \in Headers |-> IF x = b THEN NULL ELSE IF x = p THEN n ELSE nxt[x]]
        /\ ML!With(ML!With(prv, b, NULL), b, NULL) =
             [x \in Headers |-> IF x = b THEN NULL ELSE IF x = n THEN p ELSE prv[x]]
    BY <1>1, <1>2, <2>1 DEF ML!With
  <2> QED
    BY <1>1, <2>1, <2>4, <2>5 DEF TakenOut
<1>9. CASE b = head /\ b # tail
  <2>1. p = NULL /\ n # NULL
    BY <1>3, <1>9
  <2>2. left = [head |-> n, tail |-> tail,
                next |-> ML!With(nxt, b, NULL), prev |-> ML!With(prv, n, NULL)]
    BY <1>1, <1>2, <1>9, <1>6 DEF ML!LeaveHead
  <2>3. ML!With(nxt, b, NULL)[b] = NULL /\ ML!With(prv, n, NULL)[b] = NULL
    BY <1>1, <1>4, <1>5, <2>1 DEF ML!With
  <2>4. ML!LeaveMiddle(left, b) =
          [head |-> n, tail |-> tail,
           next |-> ML!With(ML!With(nxt, b, NULL), NULL, NULL),
           prev |-> ML!With(ML!With(prv, n, NULL), NULL, NULL)]
    BY <2>2, <2>3 DEF ML!LeaveMiddle
  <2>5. t = [head |-> n, tail |-> tail,
             next |-> ML!With(ML!With(ML!With(nxt, b, NULL), NULL, NULL), b, NULL),
             prev |-> ML!With(ML!With(ML!With(prv, n, NULL), NULL, NULL), b, NULL)]
    BY <1>2, <1>9, <2>2, <2>4 DEF ML!_removeFromList, ML!Detach
  <2>6. /\ ML!With(ML!With(ML!With(nxt, b, NULL), NULL, NULL), b, NULL) =
             [x \in Headers |-> IF x = b THEN NULL ELSE IF x = p THEN n ELSE nxt[x]]
        /\ ML!With(ML!With(ML!With(prv, n, NULL), NULL, NULL), b, NULL) =
             [x \in Headers |-> IF x = b THEN NULL ELSE IF x = n THEN p ELSE prv[x]]
    BY <1>1, <1>2, <2>1 DEF ML!With
  <2> QED
    BY <1>1, <2>1, <2>5, <2>6 DEF TakenOut
<1>10. CASE b # head /\ b # tail
  <2>1. p # NULL /\ n # NULL
    BY <1>3, <1>10
  <2>2. left = s
    BY <1>1, <1>10 DEF ML!LeaveHead
  <2>3. ML!LeaveMiddle(s, b) =
          [head |-> head, tail |-> tail,
           next |-> ML!With(nxt, p, n), prev |-> ML!With(prv, n, p)]
    BY <1>1, <1>10, <1>5, <1>6 DEF ML!LeaveMiddle
  <2>4. t = [head |-> head, tail |-> tail,
             next |-> ML!With(ML!With(nxt, p, n), b, NULL),
             prev |-> ML!With(ML!With(prv, n, p), b, NULL)]
    BY <1>1, <1>2, <1>10, <2>2, <2>3 DEF ML!_removeFromList, ML!Detach
  <2>5. /\ ML!With(ML!With(nxt, p, n), b, NULL) =
             [x \in Headers |-> IF x = b THEN NULL ELSE IF x = p THEN n ELSE nxt[x]]
        /\ ML!With(ML!With(prv, n, p), b, NULL) =
             [x \in Headers |-> IF x = b THEN NULL ELSE IF x = n THEN p ELSE prv[x]]
    BY <1>1, <1>2, <2>1 DEF ML!With
  <2> QED
    BY <1>1, <2>1, <2>4, <2>5 DEF TakenOut
<1> QED
  BY <1>7, <1>8, <1>9, <1>10

LEMMA PopTakesOut ==
  ASSUME NEW head, NEW tail, NEW nxt, NEW prv,
         NEW s, s = [head |-> head, tail |-> tail, next |-> nxt, prev |-> prv],
         HasLinkFields(s), NEW b \in Headers, b = head
  PROVE  TakenOut(s, ML!_popHead(s), b, NULL, nxt[b])
<1> DEFINE t == ML!_popHead(s)
<1>1. /\ s.head = head /\ s.tail = tail /\ s.next = nxt /\ s.prev = prv
      /\ nxt \in [Headers -> Fields] /\ prv \in [Headers -> Fields]
  BY DEF HasLinkFields
<1>2. b # NULL /\ ML!NULL = NULL /\ NULL \notin Headers
  BY HeadersType
<1>3. PICK n : n = nxt[b]
  OBVIOUS
<1>4. t = [head |-> n, tail |-> IF n = NULL THEN NULL ELSE tail,
           next |-> ML!With(nxt, b, NULL),
           prev |-> ML!With(ML!With(prv, n, NULL), b, NULL)]
  BY <1>1, <1>2, <1>3 DEF ML!_popHead
<1>5. /\ ML!With(nxt, b, NULL) =
           [x \in Headers |-> IF x = b THEN NULL ELSE IF x = NULL THEN n ELSE nxt[x]]
      /\ ML!With(ML!With(prv, n, NULL), b, NULL) =
           [x \in Headers |-> IF x = b THEN NULL ELSE IF x = n THEN NULL ELSE prv[x]]
  BY <1>1, <1>2 DEF ML!With
<1> QED
  BY <1>1, <1>3, <1>4, <1>5 DEF TakenOut

----------------------------------------------------------------------------
(* All lists at once.  m is a record of their heads and tails and of the   *)
(* link fields; B says which blocks each list has, C is a set of headers   *)
(* whose links are NULL unless they are on a list.                         *)

LinkStates == [ends : [Lists -> [head : Pointers, tail : Pointers]],
               next : [Headers -> Fields], prev : [Headers -> Fields]]

Loose(m, C, h) ==
  /\ m.next[h] \in Words(h) /\ m.prev[h] \in Words(h)
  /\ h \in C => m.next[h] = NULL /\ m.prev[h] = NULL

GoodLinks(m, B, C) ==
  /\ m \in LinkStates /\ B \in [Lists -> SUBSET Headers]
  /\ \A j, k \in Lists : j # k => B[j] \cap B[k] = {}
  /\ \A k \in Lists : IsLinked(ListOf(m, k), B[k])
  /\ \A h \in Headers : (\A k \in Lists : h \notin B[k]) => Loose(m, C, h)

LEMMA ListOfFields ==
  ASSUME NEW m, NEW k
  PROVE  /\ ListOf(m, k).head = m.ends[k].head /\ ListOf(m, k).tail = m.ends[k].tail
         /\ ListOf(m, k).next = m.next /\ ListOf(m, k).prev = m.prev
BY DEF ListOf

LEMMA StoredFields ==
  ASSUME NEW m \in LinkStates, NEW k \in Lists, NEW t
  PROVE  /\ Stored(m, k, t).next = t.next /\ Stored(m, k, t).prev = t.prev
         /\ Stored(m, k, t).ends[k].head = t.head /\ Stored(m, k, t).ends[k].tail = t.tail
         /\ \A j \in Lists : j # k => Stored(m, k, t).ends[j] = m.ends[j]
BY DEF Stored, LinkStates

LEMMA ListOfGood ==
  ASSUME NEW m, NEW B, NEW C, GoodLinks(m, B, C), NEW k \in Lists
  PROVE  /\ HasLinkFields(ListOf(m, k))
         /\ IsListOf(Cut(ListOf(m, k)), B[k]) /\ OpenEnds(ListOf(m, k))
<1>1. HasLinkFields(ListOf(m, k))
  BY ListOfFields DEF GoodLinks, LinkStates, HasLinkFields
<1>2. B[k] \in SUBSET Headers /\ IsLinked(ListOf(m, k), B[k])
  BY DEF GoodLinks
<1> QED
  BY <1>1, <1>2, LinkedIsCut

(* IsLinked speaks of the ends and of the links of the blocks alone.       *)
LEMMA IsLinkedSame ==
  ASSUME NEW s, NEW t, NEW S, IsLinked(s, S), t.head = s.head, t.tail = s.tail,
         \A h \in S : t.next[h] = s.next[h] /\ t.prev[h] = s.prev[h]
  PROVE  IsLinked(t, S)
<1>1. /\ ML!First(S, s.head) /\ ML!Last(S, s.tail)
      /\ \A b \in S : /\ IF b = s.tail THEN s.next[b] \in Words(b) ELSE ML!Follows(S, b, s.next[b])
                      /\ IF b = s.head THEN s.prev[b] \in Words(b) ELSE ML!Precedes(S, b, s.prev[b])
  BY DEF IsLinked
<1>2. ASSUME NEW b \in S
      PROVE  /\ IF b = t.tail THEN t.next[b] \in Words(b) ELSE ML!Follows(S, b, t.next[b])
             /\ IF b = t.head THEN t.prev[b] \in Words(b) ELSE ML!Precedes(S, b, t.prev[b])
  BY <1>1
<1>3. ML!First(S, t.head) /\ ML!Last(S, t.tail)
  BY <1>1
<1> QED
  BY <1>2, <1>3 DEF IsLinked

(* An operation of list k touches no link of another list.                 *)
LEMMA StoredGood ==
  ASSUME NEW m, NEW B, NEW C, GoodLinks(m, B, C), NEW k \in Lists,
         NEW t, HasLinkFields(t), NEW S \in SUBSET Headers, IsLinked(t, S),
         \A j \in Lists : j # k => B[j] \cap S = {},
         \A h \in Headers : h \notin S /\ h \notin B[k] =>
                              t.next[h] = m.next[h] /\ t.prev[h] = m.prev[h],
         \A h \in B[k] : h \notin S => t.next[h] = NULL /\ t.prev[h] = NULL
  PROVE  GoodLinks(Stored(m, k, t), [B EXCEPT ![k] = S], C)
<1> DEFINE M == Stored(m, k, t)
           D == [B EXCEPT ![k] = S]
<1>1. m \in LinkStates /\ B \in [Lists -> SUBSET Headers]
  BY DEF GoodLinks
<1>2. M \in LinkStates
  BY <1>1 DEF Stored, LinkStates, HasLinkFields
<1>3. /\ D \in [Lists -> SUBSET Headers] /\ D[k] = S
      /\ \A j \in Lists : j # k => D[j] = B[j]
  BY <1>1
<1>4. \A i, j \in Lists : i # j => D[i] \cap D[j] = {}
  BY <1>3 DEF GoodLinks
<1>5. ASSUME NEW j \in Lists PROVE IsLinked(ListOf(M, j), D[j])
  <2>1. CASE j = k
    <3>1. /\ ListOf(M, k).head = t.head /\ ListOf(M, k).tail = t.tail
          /\ ListOf(M, k).next = t.next /\ ListOf(M, k).prev = t.prev
      BY <1>1, StoredFields, ListOfFields
    <3> HIDE DEF M, D
    <3> QED
      BY <1>3, <2>1, <3>1, IsLinkedSame
  <2>2. CASE j # k
    <3>1. /\ ListOf(M, j).head = ListOf(m, j).head /\ ListOf(M, j).tail = ListOf(m, j).tail
          /\ ListOf(M, j).next = t.next /\ ListOf(M, j).prev = t.prev
          /\ ListOf(m, j).next = m.next /\ ListOf(m, j).prev = m.prev
      BY <1>1, <2>2, StoredFields, ListOfFields
    <3>2. \A h \in B[j] : t.next[h] = m.next[h] /\ t.prev[h] = m.prev[h]
      BY <1>1, <2>2 DEF GoodLinks
    <3>3. IsLinked(ListOf(m, j), B[j])
      BY DEF GoodLinks
    <3>4. D[j] = B[j]
      BY <1>3, <2>2
    <3> HIDE DEF M, D
    <3> QED
      BY <3>1, <3>2, <3>3, <3>4, IsLinkedSame
  <2> QED
    BY <2>1, <2>2
<1>6. ASSUME NEW h \in Headers, \A j \in Lists : h \notin D[j]
      PROVE  Loose(M, C, h)
  <2>1. M.next = t.next /\ M.prev = t.prev
    BY <1>1, StoredFields
  <2>2. h \notin S /\ \A j \in Lists : j # k => h \notin B[j]
    BY <1>3, <1>6
  <2>3. CASE h \in B[k]
    BY <2>1, <2>2, <2>3, WordsType DEF Loose
  <2>4. CASE h \notin B[k]
    <3>1. Loose(m, C, h)
      BY <2>2, <2>4 DEF GoodLinks
    <3>2. M.next[h] = m.next[h] /\ M.prev[h] = m.prev[h]
      BY <2>1, <2>2, <2>4
    <3> HIDE DEF M
    <3> QED
      BY <3>1, <3>2 DEF Loose
  <2> QED
    BY <2>3, <2>4
<1> HIDE DEF M, D
<1>7. GoodLinks(M, D, C)
  BY <1>2, <1>3, <1>4, <1>5, <1>6 DEF GoodLinks
<1> QED
  BY <1>7 DEF M, D

(* Fewer headers are known to have NULL links, or they are listed now.     *)
LEMMA FewerClean ==
  ASSUME NEW m, NEW B, NEW C, GoodLinks(m, B, C), NEW D,
         \A h \in D : h \in C \/ \E k \in Lists : h \in B[k]
  PROVE  GoodLinks(m, B, D)
BY DEF GoodLinks, Loose

(* The operations of struct MetadataList, on list k of the heap.           *)
LEMMA AddToGood ==
  ASSUME NEW m, NEW B, NEW C, GoodLinks(m, B, C), NEW k \in Lists,
         NEW b \in Headers, \A j \in Lists : b \notin B[j],
         NEW blocks, blocks = B[k] \/ \A c \in B[k] : b < c
  PROVE  GoodLinks(AddTo(m, k, b, blocks), [B EXCEPT ![k] = @ \cup {b}], C)
<1>1. m \in LinkStates /\ B \in [Lists -> SUBSET Headers]
  BY DEF GoodLinks
<1>2. PICK S \in SUBSET Headers : S = B[k]
  BY <1>1
<1>3. PICK s : s = ListOf(m, k)
  OBVIOUS
<1>4. PICK above : above = Min({a \in blocks : a > b})
  OBVIOUS
<1>5. PICK t : t = ML!_addToList(s, b, above)
  OBVIOUS
<1>6. /\ HasLinkFields(s) /\ IsListOf(Cut(s), S) /\ OpenEnds(s)
      /\ b \notin S /\ s.next = m.next /\ s.prev = m.prev
  BY <1>2, <1>3, ListOfGood, ListOfFields
<1>7. s.next[b] \in Words(b) /\ s.prev[b] \in Words(b)
  BY <1>6 DEF GoodLinks, Loose
<1>8. above = Min({a \in S : a > b}) \/ \A c \in S : b < c
  BY <1>2, <1>4
<1>9. PICK p \in Pointers, n \in Pointers :
        /\ Inserted(s, t, b, p, n)
        /\ ML!Precedes(S, b, p) /\ ML!Follows(S, b, n)
  <2>1. s = [head |-> m.ends[k].head, tail |-> m.ends[k].tail,
             next |-> m.next, prev |-> m.prev]
    BY <1>3 DEF ListOf
  <2> QED
    BY <1>5, <1>6, <1>8, <2>1, AddIsInsertion
<1>10. /\ InsertedBetween(Cut(s), Cut(t), b, p, n)
       /\ OpenEnds(t) /\ HasLinkFields(t)
  BY <1>6, <1>7, <1>9, InsertedCut
<1>11. IsLinked(t, S \cup {b})
  <2>1. PICK cs, ct : cs = Cut(s) /\ ct = Cut(t)
    OBVIOUS
  <2>2. ML!Forward(ct, S \cup {b}) /\ ML!Backward(ct, S \cup {b})
    BY <1>6, <1>9, <1>10, <2>1, InsertedForward, InsertedBackward
  <2> QED
    BY <1>10, <2>1, <2>2, CutIsLinked
<1>12. ASSUME NEW h \in Headers, h \notin S \cup {b}
       PROVE  t.next[h] = m.next[h] /\ t.prev[h] = m.prev[h]
  <2>1. h # p /\ h # n /\ h # b
    BY <1>9, <1>12, HeadersType DEF ML!Precedes, ML!Follows
  <2> QED
    BY <1>6, <1>9, <2>1 DEF Inserted
<1>13. \A j \in Lists : j # k => B[j] \cap (S \cup {b}) = {}
  BY <1>2 DEF GoodLinks
<1>14. GoodLinks(Stored(m, k, t), [B EXCEPT ![k] = S \cup {b}], C)
  BY <1>2, <1>10, <1>11, <1>12, <1>13, StoredGood
<1>15. AddTo(m, k, b, blocks) = Stored(m, k, t)
  BY <1>3, <1>4, <1>5 DEF AddTo
<1> QED
  BY <1>2, <1>14, <1>15

(* Whatever takes b out of the list of k between its neighbours.           *)
LEMMA TakenOutGood ==
  ASSUME NEW m, NEW B, NEW C, GoodLinks(m, B, C), NEW k \in Lists, NEW b \in B[k],
         NEW p, p = Cut(ListOf(m, k)).prev[b], NEW n, n = Cut(ListOf(m, k)).next[b],
         NEW t, TakenOut(ListOf(m, k), t, b, p, n)
  PROVE  GoodLinks(Stored(m, k, t), [B EXCEPT ![k] = @ \ {b}], C)
<1>1. m \in LinkStates /\ B \in [Lists -> SUBSET Headers] /\ b \in Headers
  BY DEF GoodLinks
<1>2. PICK T \in SUBSET Headers : T = B[k] \ {b}
  BY <1>1
<1>3. PICK s : s = ListOf(m, k)
  OBVIOUS
<1>4. PICK cs : cs = Cut(s)
  OBVIOUS
<1>5. B[k] = T \cup {b} /\ b \notin T
  BY <1>2
<1>6. /\ HasLinkFields(s) /\ IsListOf(cs, T \cup {b}) /\ OpenEnds(s)
      /\ s.next = m.next /\ s.prev = m.prev
  <2>1. /\ HasLinkFields(s) /\ IsListOf(cs, B[k]) /\ OpenEnds(s)
        /\ s.next = m.next /\ s.prev = m.prev
    BY <1>3, <1>4, ListOfGood, ListOfFields
  <2> QED
    BY <1>5, <2>1
<1>7. /\ ML!Precedes(T, b, p) /\ ML!Follows(T, b, n)
      /\ p \in T \cup {NULL} /\ n \in T \cup {NULL}
      /\ p \in Pointers /\ n \in Pointers
  BY <1>1, <1>3, <1>4, <1>5, <1>6, Neighbours
<1>8. TakenOut(s, t, b, p, n)
  BY <1>3
<1>9. TakenOut(cs, Cut(t), b, p, n) /\ OpenEnds(t) /\ HasLinkFields(t)
  BY <1>1, <1>4, <1>5, <1>6, <1>7, <1>8, TakenOutCut
<1>10. IsLinked(t, T)
  <2>1. PICK ct : ct = Cut(t)
    OBVIOUS
  <2>2. ML!Forward(ct, T) /\ ML!Backward(ct, T)
    BY <1>1, <1>5, <1>6, <1>7, <1>9, <2>1, TakenOutForward, TakenOutBackward
  <2> QED
    BY <1>9, <2>1, <2>2, CutIsLinked
<1>11. ASSUME NEW h \in Headers, h \notin T, h \notin B[k]
       PROVE  t.next[h] = m.next[h] /\ t.prev[h] = m.prev[h]
  <2>1. h # p /\ h # n /\ h # b
    BY <1>7, <1>11, HeadersType
  <2> QED
    BY <1>6, <1>8, <2>1 DEF TakenOut
<1>12. \A h \in B[k] : h \notin T => t.next[h] = NULL /\ t.prev[h] = NULL
  BY <1>1, <1>5, <1>8 DEF TakenOut
<1>13. \A j \in Lists : j # k => B[j] \cap T = {}
  BY <1>2 DEF GoodLinks
<1>14. GoodLinks(Stored(m, k, t), [B EXCEPT ![k] = T], C)
  BY <1>9, <1>10, <1>11, <1>12, <1>13, StoredGood
<1> QED
  BY <1>2, <1>14

LEMMA RemoveFromGood ==
  ASSUME NEW m, NEW B, NEW C, GoodLinks(m, B, C), NEW k \in Lists, NEW b \in B[k],
         ~RemovalStrays(m, k, b)
  PROVE  GoodLinks(RemoveFrom(m, k, b), [B EXCEPT ![k] = @ \ {b}], C)
<1>1. m \in LinkStates /\ B \in [Lists -> SUBSET Headers] /\ b \in Headers
  BY DEF GoodLinks
<1>2. PICK T : T = B[k] \ {b}
  OBVIOUS
<1>3. B[k] = T \cup {b} /\ b \notin T
  BY <1>2
<1>4. PICK s : s = ListOf(m, k)
  OBVIOUS
<1>5. HasLinkFields(s) /\ IsListOf(Cut(s), T \cup {b}) /\ OpenEnds(s)
  BY <1>3, <1>4, ListOfGood
<1>6. s = [head |-> m.ends[k].head, tail |-> m.ends[k].tail,
           next |-> m.next, prev |-> m.prev]
  BY <1>4 DEF ListOf
<1>7. /\ m.prev[b] # GARBAGE
      /\ m.next[b] = GARBAGE => b = m.ends[k].tail /\ b # m.ends[k].head
  BY DEF RemovalStrays
<1>8. PICK p, n : p = Cut(s).prev[b] /\ n = Cut(s).next[b]
  OBVIOUS
<1>9. TakenOut(s, ML!_removeFromList(s, b), b, p, n)
  BY <1>1, <1>3, <1>5, <1>6, <1>7, <1>8, RemoveTakesOut
<1> QED
  BY <1>4, <1>8, <1>9, TakenOutGood DEF RemoveFrom

(* The head of a list is its lowest block.                                 *)
LEMMA HeadIsLowest ==
  ASSUME NEW m, NEW B, NEW C, GoodLinks(m, B, C), NEW k \in Lists
  PROVE  /\ m.ends[k].head = NULL <=> B[k] = {}
         /\ B[k] # {} => m.ends[k].head \in B[k] /\ m.ends[k].head = Min(B[k])
<1>1. B[k] \subseteq Nat /\ NULL \notin B[k] /\ ML!NULL = NULL
  BY HeadersType DEF GoodLinks
<1>2. ML!First(B[k], m.ends[k].head)
  BY ListOfFields DEF GoodLinks, IsLinked
<1>3. B[k] # {} => m.ends[k].head \in B[k] /\ \A c \in B[k] : m.ends[k].head <= c
  BY <1>1, <1>2 DEF ML!First
<1>4. m.ends[k].head = NULL <=> B[k] = {}
  BY <1>1, <1>2 DEF ML!First
<1>5. ASSUME B[k] # {} PROVE m.ends[k].head = Min(B[k])
  <2>1. Min(B[k]) \in B[k] /\ \A c \in B[k] : Min(B[k]) <= c
    BY <1>1, <1>5, MinIsLeast
  <2> QED
    BY <1>1, <1>3, <1>5, <2>1
<1> QED
  BY <1>3, <1>4, <1>5

LEMMA PopFromGood ==
  ASSUME NEW m, NEW B, NEW C, GoodLinks(m, B, C), NEW k \in Lists, B[k] # {},
         ~PopStrays(m, k)
  PROVE  GoodLinks(PopFrom(m, k), [B EXCEPT ![k] = @ \ {m.ends[k].head}], C)
<1>1. m \in LinkStates /\ B \in [Lists -> SUBSET Headers]
  BY DEF GoodLinks
<1>2. PICK b : b = m.ends[k].head
  OBVIOUS
<1>3. b \in B[k] /\ b \in Headers
  BY <1>1, <1>2, HeadIsLowest
<1>4. PICK s : s = ListOf(m, k)
  OBVIOUS
<1>5. /\ HasLinkFields(s) /\ IsListOf(Cut(s), B[k]) /\ OpenEnds(s)
      /\ s.head = b /\ s.tail = m.ends[k].tail /\ s.next = m.next /\ s.prev = m.prev
  BY <1>2, <1>4, ListOfGood, ListOfFields
<1>6. s = [head |-> m.ends[k].head, tail |-> m.ends[k].tail,
           next |-> m.next, prev |-> m.prev]
  BY <1>4 DEF ListOf
<1>7. TakenOut(s, ML!_popHead(s), b, NULL, m.next[b])
  BY <1>2, <1>3, <1>5, <1>6, PopTakesOut
<1>8. m.next[b] # GARBAGE
  BY <1>2 DEF PopStrays
<1>9. Cut(s).prev[b] = NULL
  BY <1>3, <1>5 DEF Cut
<1>10. Cut(s).next[b] = m.next[b]
  <2>1. b = s.tail => m.next[b] = NULL
    BY <1>3, <1>5, <1>8, HeadersType, WordsType DEF OpenEnds
  <2>2. Cut(s).next[b] = IF b = s.tail THEN NULL ELSE s.next[b]
    BY <1>3 DEF Cut
  <2> QED
    BY <1>5, <2>1, <2>2
<1>11. GoodLinks(Stored(m, k, ML!_popHead(s)), [B EXCEPT ![k] = @ \ {b}], C)
  BY <1>3, <1>4, <1>7, <1>9, <1>10, TakenOutGood
<1> QED
  BY <1>2, <1>4, <1>11 DEF PopFrom

(* A block on no list may be given NULL links.                             *)
LEMMA UnlinkGood ==
  ASSUME NEW m, NEW B, NEW C, GoodLinks(m, B, C), NEW b \in Headers,
         \A j \in Lists : b \notin B[j]
  PROVE  GoodLinks(Unlink(m, b), B, C \cup {b})
<1> DEFINE M == Unlink(m, b)
<1>1. m \in LinkStates /\ B \in [Lists -> SUBSET Headers] /\ NULL \in Fields
  BY DEF GoodLinks, Fields, Pointers
<1>2. /\ M.ends = m.ends
      /\ M.next = [x \in Headers |-> IF x = b THEN NULL ELSE m.next[x]]
      /\ M.prev = [x \in Headers |-> IF x = b THEN NULL ELSE m.prev[x]]
      /\ M \in LinkStates
  <2>1. PICK nxt \in [Headers -> Fields], prv \in [Headers -> Fields] :
          /\ nxt = [x \in Headers |-> IF x = b THEN NULL ELSE m.next[x]]
          /\ prv = [x \in Headers |-> IF x = b THEN NULL ELSE m.prev[x]]
    BY <1>1 DEF LinkStates
  <2>2. ML!With(m.next, b, NULL) = nxt /\ ML!With(m.prev, b, NULL) = prv
    BY <1>1, <2>1, WithField DEF LinkStates
  <2>3. M = [m EXCEPT !.next = nxt, !.prev = prv]
    BY <1>1, <2>2 DEF Unlink, LinkStates
  <2>4. M.ends = m.ends /\ M.next = nxt /\ M.prev = prv /\ M \in LinkStates
    BY <1>1, <2>3 DEF LinkStates
  <2> HIDE DEF M
  <2> QED
    BY <2>1, <2>4
<1> HIDE DEF M
<1>3. ASSUME NEW k \in Lists PROVE IsLinked(ListOf(M, k), B[k])
  <2>1. \A h \in B[k] : h \in Headers /\ h # b
    BY <1>1
  <2>2. IsLinked(ListOf(m, k), B[k])
    BY DEF GoodLinks
  <2>3. /\ ListOf(M, k).head = ListOf(m, k).head /\ ListOf(M, k).tail = ListOf(m, k).tail
        /\ \A h \in B[k] : /\ ListOf(M, k).next[h] = ListOf(m, k).next[h]
                           /\ ListOf(M, k).prev[h] = ListOf(m, k).prev[h]
    BY <1>2, <2>1, ListOfFields
  <2> QED
    BY <2>2, <2>3, IsLinkedSame
<1>4. ASSUME NEW h \in Headers, \A k \in Lists : h \notin B[k]
      PROVE  Loose(M, C \cup {b}, h)
  <2>1. Loose(m, C, h)
    BY <1>4 DEF GoodLinks
  <2>2. /\ M.next[h] = IF h = b THEN NULL ELSE m.next[h]
        /\ M.prev[h] = IF h = b THEN NULL ELSE m.prev[h]
    BY <1>2
  <2> QED
    BY <2>1, <2>2, WordsType DEF Loose
<1>5. GoodLinks(M, B, C \cup {b})
  BY <1>2, <1>3, <1>4 DEF GoodLinks
<1> QED
  BY <1>5 DEF M

----------------------------------------------------------------------------
(* The lists of the heap.                                                  *)

\* The links are right.
LinksOK ==
  /\ Links \in LinkStates
  /\ \A k \in Lists : IsLinked(ListOf(Links, k), Blocklists[k])
  /\ \A h \in Headers : (\A k \in Lists : h \notin Blocklists[k]) => Unlisted(h)

\* What the steps below start from.
ListsKnown ==
  /\ HeapType /\ HeapOK /\ LinksOK
  /\ mmapedList.blocks = Mapped

LEMMA ListsFacts ==
  ASSUME ListsKnown
  PROVE  /\ Orders \subseteq Lists /\ mmaped \in Lists /\ mmaped \notin Orders
         /\ \A k \in Lists : k = mmaped \/ k \in Orders
         /\ \A k \in Orders : /\ Blocklists[k] = OnList(k)
                              /\ Blocklists[k] = FreeBlocks(k)
         /\ Blocklists[mmaped] = Mapped /\ Blocklists[mmaped] = mmapedList.blocks
<1>1. mmaped \notin Orders
  BY OrdersType DEF mmaped, Orders
<1>2. Orders \subseteq Lists /\ mmaped \in Lists /\ \A k \in Lists : k = mmaped \/ k \in Orders
  BY DEF Lists
<1>3. \A k \in Orders : Blocklists[k] = OnList(k) /\ OnList(k) = FreeBlocks(k)
  BY <1>1, <1>2 DEF Blocklists, OnList, ListsKnown, HeapOK, Listed
<1>4. Blocklists[mmaped] = mmapedList.blocks
  BY <1>2 DEF Blocklists
<1> QED
  BY <1>1, <1>2, <1>3, <1>4 DEF ListsKnown

(* A free block has one size, so it is on one list.                        *)
LEMMA ListsApart ==
  ASSUME ListsKnown, NEW j \in Lists, NEW k \in Lists, j # k
  PROVE  Blocklists[j] \cap Blocklists[k] = {}
<1> SUFFICES ASSUME NEW b, b \in Blocklists[j], b \in Blocklists[k] PROVE FALSE
  OBVIOUS
<1>1. \A i \in Lists : b \in Blocklists[i] =>
        IF i = mmaped THEN b \in MMAP_ADDRS
                      ELSE i \in Orders /\ b \in Slots /\ size[b] = Payload(i)
  BY ListsFacts DEF FreeBlocks, Blocks, Mapped
<1>2. CASE j = mmaped \/ k = mmaped
  BY <1>1, <1>2, SlotsType
<1>3. CASE j # mmaped /\ k # mmaped
  <2>1. j \in Orders /\ k \in Orders /\ Payload(j) = Payload(k)
    BY <1>1, <1>3
  <2> QED
    BY <2>1, PayloadType
<1> QED
  BY <1>2, <1>3

LEMMA LinksGood ==
  ASSUME ListsKnown
  PROVE  GoodLinks(Links, Blocklists, live)
<1>1. Blocklists \in [Lists -> SUBSET Headers]
  <2>1. mmapedList \in List /\ \A k \in Orders : freeBlockListArray[k] \in List
    BY DEF ListsKnown, HeapType
  <2>2. \A k \in Lists : k # mmaped => k \in Orders
    BY DEF Lists
  <2> QED
    BY <2>1, <2>2 DEF Blocklists, OnList, List
<1>2. \A h \in Headers : Unlisted(h) => Loose(Links, live, h)
  BY DEF Links, Unlisted, Loose
<1> QED
  BY <1>1, <1>2, ListsApart DEF ListsKnown, LinksOK, GoodLinks

LEMMA BecomesGood ==
  ASSUME NEW m, NEW B, NEW C, GoodLinks(m, B, C), Become(m), Blocklists' = B,
         \A h \in live' : h \in C \/ \E k \in Lists : h \in B[k]
  PROVE  LinksOK'
<1>1. m \in LinkStates /\ Links' = m
  BY DEF GoodLinks, LinkStates, Links, Become
<1>2. next' = m.next /\ prev' = m.prev
  BY DEF Become
<1>3. ASSUME NEW k \in Lists PROVE IsLinked(ListOf(m, k), B[k])
  BY DEF GoodLinks
<1>4. \A k \in Lists : IsLinked(ListOf(Links, k), Blocklists[k])'
  <2>1. ASSUME NEW k \in Lists PROVE IsLinked(ListOf(Links, k), Blocklists[k])'
    <3>1. ListOf(Links, k)' = ListOf(m, k) /\ Blocklists'[k] = B[k]
      BY <1>1
    <3> QED
      BY <1>3, <3>1 DEF IsLinked
  <2> QED
    BY <2>1
<1>5. ASSUME NEW h \in Headers, \A k \in Lists : h \notin B[k] PROVE Unlisted(h)'
  BY <1>2, <1>5 DEF GoodLinks, Loose, Unlisted
<1> QED
  BY <1>1, <1>4, <1>5 DEF LinksOK

(* The lists and their links are left alone.                               *)
LEMMA LinksSame ==
  ASSUME ListsKnown, UNCHANGED links, Blocklists' = Blocklists, live' \subseteq live
  PROVE  LinksOK'
<1>1. Become(Links)
  BY DEF Become, links, Links
<1> QED
  BY <1>1, LinksGood, BecomesGood

(* A header is on a list only if it is that of a free or of a mapped block. *)
LEMMA OnNoList ==
  ASSUME ListsKnown, NEW h \in Headers,
         h \notin live \/ (h \in Slots /\ ~is_free[h])
  PROVE  \A k \in Lists : h \notin Blocklists[k]
<1> SUFFICES ASSUME NEW k \in Lists PROVE h \notin Blocklists[k]
  OBVIOUS
<1>1. h \notin Mapped
  BY SlotsType DEF Mapped
<1>2. \A j \in Orders : h \notin FreeBlocks(j)
  BY DEF FreeBlocks, Blocks
<1> QED
  BY <1>1, <1>2, ListsFacts

LEMMA ListChanges ==
  ASSUME ListsKnown, NEW k \in Orders, NEW L,
         freeBlockListArray' = [freeBlockListArray EXCEPT ![k] = L],
         mmapedList' = mmapedList
  PROVE  Blocklists' = [Blocklists EXCEPT ![k] = L.blocks]
<1>1. k \in Lists /\ k # mmaped
  BY ListsFacts
<1>2. freeBlockListArray \in [Orders -> List]
  BY DEF ListsKnown, HeapType
<1>3. \A j \in Lists : j # mmaped => OnList(j)' = IF j = k THEN L.blocks ELSE OnList(j)
  BY <1>2, ListsFacts DEF OnList
<1>4. Blocklists' = [j \in Lists |-> IF j = k THEN L.blocks ELSE Blocklists[j]]
  BY <1>1, <1>3 DEF Blocklists
<1>5. Blocklists = [j \in Lists |-> Blocklists[j]]
  BY DEF Blocklists
<1> HIDE DEF Blocklists
<1> QED
  BY <1>1, <1>4, <1>5

LEMMA MappedChange ==
  ASSUME ListsKnown, NEW L, mmapedList' = L, freeBlockListArray' = freeBlockListArray
  PROVE  Blocklists' = [Blocklists EXCEPT ![mmaped] = L.blocks]
<1>1. Blocklists' = [j \in Lists |-> IF j = mmaped THEN L.blocks ELSE Blocklists[j]]
  BY DEF Blocklists, OnList
<1>2. Blocklists = [j \in Lists |-> Blocklists[j]]
  BY DEF Blocklists
<1> HIDE DEF Blocklists
<1> QED
  BY <1>1, <1>2, ListsFacts

LEMMA ListsSame ==
  ASSUME mmapedList' = mmapedList, freeBlockListArray' = freeBlockListArray
  PROVE  Blocklists' = Blocklists
BY DEF Blocklists, OnList

(* What the lists' heads say is what Malloc3 knows of its sets.            *)
LEMMA HeadsKnown ==
  ASSUME ListsKnown
  PROVE  \A k \in Orders : /\ ends[k].head = NULL <=> FL!isEmpty(freeBlockListArray[k])
                           /\ ends[k].head # NULL =>
                                /\ ends[k].head = FL!Head(freeBlockListArray[k])
                                /\ ends[k].head \in FreeBlocks(k)
<1> SUFFICES ASSUME NEW k \in Orders
             PROVE  /\ ends[k].head = NULL <=> FL!isEmpty(freeBlockListArray[k])
                    /\ ends[k].head # NULL =>
                         /\ ends[k].head = FL!Head(freeBlockListArray[k])
                         /\ ends[k].head \in FreeBlocks(k)
  OBVIOUS
<1>1. k \in Lists /\ Blocklists[k] = FreeBlocks(k)
      /\ Blocklists[k] = freeBlockListArray[k].blocks
  BY ListsFacts DEF OnList
<1>2. /\ ends[k].head = NULL <=> Blocklists[k] = {}
      /\ Blocklists[k] # {} => /\ ends[k].head \in Blocklists[k]
                               /\ ends[k].head = Min(Blocklists[k])
  <2>1. Links.ends = ends
    BY DEF Links
  <2> QED
    BY <1>1, <2>1, LinksGood, HeadIsLowest
<1> QED
  BY <1>1, <1>2 DEF FL!isEmpty, FL!Head, FL!Min, Min

----------------------------------------------------------------------------
(* A step that adds a block to one list, or takes one out of it.           *)

LEMMA BlockJoins ==
  ASSUME ListsKnown, NEW k \in Orders, NEW b \in Headers, NEW n,
         \A j \in Lists : b \notin Blocklists[j],
         freeBlockListArray' = [freeBlockListArray EXCEPT ![k] = FL!_addToList(@, b, n)],
         mmapedList' = mmapedList, live' \subseteq live \cup {b},
         NEW m, GoodLinks(m, Blocklists, live), Become(AddTo(m, k, b, OnList(k)))
  PROVE  LinksOK'
<1>1. k \in Lists /\ Blocklists[k] = OnList(k)
  BY ListsFacts
<1>2. PICK B : B = [Blocklists EXCEPT ![k] = Blocklists[k] \cup {b}]
  OBVIOUS
<1>3. GoodLinks(AddTo(m, k, b, OnList(k)), B, live)
  BY <1>1, <1>2, AddToGood
<1>4. PICK L : L = FL!_addToList(freeBlockListArray[k], b, n)
  OBVIOUS
<1>5. L.blocks = Blocklists[k] \cup {b}
  BY <1>1, <1>4 DEF FL!_addToList, OnList
<1>6. freeBlockListArray' = [freeBlockListArray EXCEPT ![k] = L]
  BY <1>4
<1>7. Blocklists' = B
  <2>1. Blocklists' = [Blocklists EXCEPT ![k] = Blocklists[k] \cup {b}]
    BY <1>5, <1>6, ListChanges
  <2> QED
    BY <1>2, <2>1
<1>8. b \in B[k]
  <2>1. Blocklists \in [Lists -> SUBSET Headers]
    BY LinksGood DEF GoodLinks
  <2> QED
    BY <1>1, <1>2, <2>1
<1> QED
  BY <1>1, <1>3, <1>7, <1>8, BecomesGood

LEMMA BlockLeaves ==
  ASSUME ListsKnown, NEW k \in Orders, NEW b \in FreeBlocks(k), NEW n, NEW m,
         \/ m = RemoveFrom(Links, k, b) /\ ~RemovalStrays(Links, k, b)
         \/ m = PopFrom(Links, k) /\ b = ends[k].head /\ ~PopStrays(Links, k),
         freeBlockListArray' =
           [freeBlockListArray EXCEPT ![k] = FL!_removeFromList(@, b, n)],
         mmapedList' = mmapedList, live' \subseteq live, Become(m)
  PROVE  LinksOK'
<1>1. k \in Lists /\ Blocklists[k] = OnList(k) /\ b \in Blocklists[k]
  BY ListsFacts
<1>2. GoodLinks(m, [Blocklists EXCEPT ![k] = @ \ {b}], live)
  <2>1. CASE m = RemoveFrom(Links, k, b) /\ ~RemovalStrays(Links, k, b)
    BY <1>1, <2>1, LinksGood, RemoveFromGood
  <2>2. CASE m = PopFrom(Links, k) /\ b = ends[k].head /\ ~PopStrays(Links, k)
    <3>1. b = Links.ends[k].head
      BY <2>2 DEF Links
    <3>2. GoodLinks(m, [Blocklists EXCEPT ![k] = @ \ {Links.ends[k].head}], live)
      BY <1>1, <2>2, LinksGood, PopFromGood
    <3> QED
      BY <3>1, <3>2
  <2> QED
    BY <2>1, <2>2
<1>3. PICK L : L = FL!_removeFromList(freeBlockListArray[k], b, n)
  OBVIOUS
<1>4. L.blocks = Blocklists[k] \ {b}
  BY <1>1, <1>3 DEF FL!_removeFromList, OnList
<1>5. freeBlockListArray' = [freeBlockListArray EXCEPT ![k] = L]
  BY <1>3
<1>6. Blocklists' = [Blocklists EXCEPT ![k] = Blocklists[k] \ {b}]
  BY <1>4, <1>5, ListChanges
<1> QED
  BY <1>2, <1>6, BecomesGood

(* sfree, srealloc: a block in use goes on the list of its order.          *)
LEMMA FreedJoins ==
  ASSUME ListsKnown, NEW b \in Blocks, ~is_free[b], MarkFree(b),
         mmapedList' = mmapedList, live' = live, ListedFree(b)
  PROVE  LinksOK'
<1>1. PICK k \in Orders : k = findTightOrder(size[b])
  BY BlockFacts DEF ListsKnown, HeapOK, Tiling
<1>2. b \in Headers /\ \A j \in Lists : b \notin Blocklists[j]
  BY OnNoList DEF Blocks, Headers
<1>3. PICK n : n = size[b]
  OBVIOUS
<1>4. freeBlockListArray' = [freeBlockListArray EXCEPT ![k] = FL!_addToList(@, b, n)]
      /\ Become(AddTo(Links, k, b, OnList(k)))
  BY <1>1, <1>3 DEF MarkFree, ListedFree
<1> QED
  BY <1>2, <1>4, LinksGood, BlockJoins

(* srealloc: a block is put in use; if it was free, it leaves its list.    *)
LEMMA TakenLeaves ==
  ASSUME ListsKnown, NEW b \in Blocks, NEW k, k = findTightOrder(size[b]),
         TakeBack(b, k), mmapedList' = mmapedList, live' = live,
         ListedUsed(b, k), ~astray'
  PROVE  LinksOK'
<1>1. k \in Orders /\ size[b] = Payload(k)
  BY BlockFacts DEF ListsKnown, HeapOK, Tiling
<1>2. CASE is_free[b]
  <2>1. b \in FreeBlocks(k)
    BY <1>1, <1>2 DEF FreeBlocks
  <2>2. PICK n : n = size[b]
    OBVIOUS
  <2>3. freeBlockListArray' =
          [freeBlockListArray EXCEPT ![k] = FL!_removeFromList(@, b, n)]
    BY <1>2, <2>2 DEF TakeBack
  <2>4. Become(RemoveFrom(Links, k, b)) /\ ~RemovalStrays(Links, k, b)
    BY <1>2 DEF ListedUsed
  <2> QED
    BY <1>1, <2>1, <2>3, <2>4, BlockLeaves
<1>3. CASE ~is_free[b]
  <2>1. freeBlockListArray' = freeBlockListArray
    BY <1>1, <1>3 DEF TakeBack, ListsKnown, HeapType
  <2>2. UNCHANGED links
    BY <1>3 DEF ListedUsed
  <2> QED
    BY <2>1, <2>2, ListsSame, LinksSame
<1> QED
  BY <1>2, <1>3

----------------------------------------------------------------------------
(* smalloc.                                                                *)

LEMMA MmapLinks ==
  ASSUME IInv, ListsKnown, LinkedMmap
  PROVE  LinksOK'
<1>1. PICK a, n :
        /\ a \in MMAP_ADDRS /\ a \notin live /\ live' = live \cup {a}
        /\ mmapedList' = FL!_addToList(mmapedList, a, n)
        /\ freeBlockListArray' = freeBlockListArray
  <2>1. PICK n : n = call.n
    OBVIOUS
  <2> QED
    BY <2>1 DEF LinkedMmap, SmallocMmap, Unused
<1>2. Become(AddTo(Unlink(Links, a), mmaped, a, mmapedList.blocks))
  BY <1>1 DEF LinkedMmap
<1>3. a \in Headers /\ \A j \in Lists : a \notin Blocklists[j]
  BY <1>1, OnNoList DEF Headers
<1>4. mmaped \in Lists /\ Blocklists[mmaped] = mmapedList.blocks
  BY ListsFacts
<1>5. PICK m : m = Unlink(Links, a)
  OBVIOUS
<1>6. GoodLinks(m, Blocklists, live \cup {a})
  BY <1>3, <1>5, LinksGood, UnlinkGood
<1>7. GoodLinks(AddTo(m, mmaped, a, mmapedList.blocks),
                [Blocklists EXCEPT ![mmaped] = @ \cup {a}], live \cup {a})
  BY <1>3, <1>4, <1>6, AddToGood
<1>8. PICK L : L = FL!_addToList(mmapedList, a, n)
  OBVIOUS
<1>9. L.blocks = Blocklists[mmaped] \cup {a}
  BY <1>4, <1>8 DEF FL!_addToList
<1>10. Blocklists' = [Blocklists EXCEPT ![mmaped] = Blocklists[mmaped] \cup {a}]
  BY <1>1, <1>8, <1>9, MappedChange
<1> QED
  BY <1>1, <1>2, <1>5, <1>7, <1>10, BecomesGood

(* smalloc takes the head of a list that has one.                          *)
LEMMA PopLinks ==
  ASSUME ListsKnown, NEW k \in Orders, ends[k].head # NULL, LinkedPop(k), ~astray'
  PROVE  LinksOK'
<1>1. PICK b : b = ends[k].head
  OBVIOUS
<1>2. b \in FreeBlocks(k)
  BY <1>1, HeadsKnown
<1>3. PICK n : n = size[b]
  OBVIOUS
<1>4. freeBlockListArray' = [freeBlockListArray EXCEPT ![k] = FL!_removeFromList(@, b, n)]
  BY <1>1, <1>3 DEF LinkedPop, PopHead
<1>5. /\ mmapedList' = mmapedList /\ live' = live
      /\ Become(PopFrom(Links, k)) /\ ~PopStrays(Links, k)
  BY DEF LinkedPop
<1> QED
  BY <1>1, <1>2, <1>4, <1>5, BlockLeaves

LEMMA TightIsOrder ==
  ASSUME IInv
  PROVE  Tight \in Orders
BY StateFacts, TightFacts

LEMMA HeadedIsStocked ==
  ASSUME IInv, ListsKnown
  PROVE  Headed(Tight) = Stocked(Tight) /\ Headed(Tight) \subseteq Orders
<1>1. Tight .. MAX_ORDER \subseteq Orders
  BY TightIsOrder, OrdersType DEF Orders
<1>2. \A k \in Orders : ends[k].head = NULL <=> FL!isEmpty(freeBlockListArray[k])
  BY HeadsKnown
<1> QED
  BY <1>1, <1>2 DEF Headed, Stocked

(* What it finds and takes is what Malloc3 does.                           *)
LEMMA LinkedTightSteps ==
  ASSUME IInv, ListsKnown, LinkedTight
  PROVE  SmallocTight /\ (~astray' => LinksOK')
<1>1. PICK k \in Orders : k = Tight
  BY TightIsOrder
<1>2. /\ SmallocSearch /\ ends[k].head # NULL /\ LinkedPop(k)
      /\ SmallocReturns(ends[k].head)
  BY <1>1 DEF LinkedTight
<1>3. /\ ~FL!isEmpty(freeBlockListArray[k])
      /\ ends[k].head = FL!Head(freeBlockListArray[k])
  BY <1>2, HeadsKnown
<1>4. /\ PopHead(ends[k].head, k)
      /\ UNCHANGED <<mmapedList, counters, size, live, os>>
  BY <1>2 DEF LinkedPop
<1>5. SmallocTight
  BY <1>1, <1>2, <1>3, <1>4 DEF SmallocTight
<1> QED
  BY <1>2, <1>5, PopLinks

LEMMA LinkedHigherSteps ==
  ASSUME IInv, ListsKnown, LinkedHigher
  PROVE  SmallocHigher /\ (~astray' => LinksOK')
<1>1. /\ SmallocSearch /\ ends[Tight].head = NULL /\ Stocked(Tight) # {}
      /\ Headed(Tight) = Stocked(Tight) /\ Stocked(Tight) \subseteq Orders
  BY HeadedIsStocked DEF LinkedHigher
<1>2. PICK k : k = Min(Stocked(Tight))
  OBVIOUS
<1>3. k \in Stocked(Tight) /\ k \in Orders /\ k = LowestStocked(Tight)
  <2>1. Orders \subseteq Nat
    BY OrdersType
  <2> QED
    BY <1>1, <1>2, <2>1, MinIsLeast DEF LowestStocked
<1>4. /\ LinkedPop(k)
      /\ call' = [call EXCEPT !.at = "split", !.blk = ends[k].head,
                              !.high = k - 1, !.splits = k - Tight]
      /\ UNCHANGED client
  BY <1>1, <1>2 DEF LinkedHigher
<1>5. /\ FL!isEmpty(freeBlockListArray[Tight])
      /\ ends[k].head # NULL /\ ends[k].head = FL!Head(freeBlockListArray[k])
  BY <1>1, <1>3, TightIsOrder, HeadsKnown DEF Stocked
<1>6. /\ PopHead(ends[k].head, k)
      /\ UNCHANGED <<mmapedList, counters, size, live, os>>
  BY <1>4 DEF LinkedPop
<1>7. SmallocHigher
  BY <1>1, <1>3, <1>4, <1>5, <1>6 DEF SmallocHigher
<1> QED
  BY <1>3, <1>4, <1>5, <1>7, PopLinks

LEMMA LinkedNoneSteps ==
  ASSUME IInv, ListsKnown, LinkedNone
  PROVE  SmallocNone /\ LinksOK'
<1>1. SmallocNone
  BY HeadedIsStocked DEF LinkedNone, SmallocNone
<1>2. UNCHANGED links /\ mmapedList' = mmapedList /\ live' = live
      /\ freeBlockListArray' = freeBlockListArray
  BY DEF LinkedNone, heap
<1> QED
  BY <1>1, <1>2, ListsSame, LinksSame

LEMMA SplitLinks ==
  ASSUME IInv, ListsKnown, LinkedSplit
  PROVE  LinksOK'
<1>1. PICK b, h, right :
        /\ b = call.blk /\ h = call.high /\ right = b + getOrderSize(h)
        /\ h \in Orders /\ b \in Blocks /\ ~is_free[b]
        /\ right \in Slots /\ right \notin live /\ live' = live \cup {right}
  BY SplitStepBlocks DEF LinkedSplit
<1>2. /\ b \in Headers /\ b \in live /\ \A j \in Lists : b \notin Blocklists[j]
      /\ right \in Headers /\ \A j \in Lists : right \notin Blocklists[j]
  BY <1>1, OnNoList DEF Blocks, Headers
<1>3. PICK m : m = Unlink(Links, b)
  OBVIOUS
<1>4. GoodLinks(m, Blocklists, live)
  <2>1. GoodLinks(m, Blocklists, live \cup {b})
    BY <1>2, <1>3, LinksGood, UnlinkGood
  <2>2. live \cup {b} = live
    BY <1>2
  <2> QED
    BY <2>1, <2>2
<1>5. Become(AddTo(m, h, right, OnList(h)))
  BY <1>1, <1>3 DEF LinkedSplit
<1>6. PICK n : n = Payload(h)
  OBVIOUS
<1>7. /\ freeBlockListArray' =
           [freeBlockListArray EXCEPT ![h] = FL!_addToList(@, right, n)]
      /\ mmapedList' = mmapedList
  BY <1>1, <1>6 DEF LinkedSplit, SplitStep
<1> QED
  BY <1>1, <1>2, <1>4, <1>5, <1>7, BlockJoins

----------------------------------------------------------------------------
(* sfree and its merges.                                                   *)

LEMMA MunmapLinks ==
  ASSUME IInv, ListsKnown, LinkedMunmap, ~astray'
  PROVE  LinksOK'
<1>1. PICK b : b = call.blk
  OBVIOUS
<1>2. /\ b # NULL /\ ~Unmapped(b) /\ ~is_free[b] /\ size[b] >= MAX_ORDER_BLOCK_SIZE
      /\ At("sfree") /\ freeBlockListArray' = freeBlockListArray
      /\ live' \subseteq live
  BY <1>1 DEF LinkedMunmap, SfreeMunmap, SfreeReadable
<1>3. b \in live
  BY <1>1, <1>2, StateFacts DEF CallOK, SfreeOK, Known, Unmapped
<1>4. b \notin Blocks
  <2>1. b \in Blocks => size[b] \in Nat /\ size[b] < MAX_ORDER_BLOCK_SIZE
    BY StateFacts, BlockIsSmall
  <2> QED
    BY <1>2, <2>1, DivisorType
<1>5. b \in Mapped
  BY <1>3, <1>4, StateFacts DEF HeapType, Headers, Blocks, Mapped
<1>6. mmaped \in Lists /\ b \in Blocklists[mmaped]
      /\ Blocklists[mmaped] = mmapedList.blocks
  BY <1>5, ListsFacts
<1>7. GoodLinks(RemoveFrom(Links, mmaped, b), [Blocklists EXCEPT ![mmaped] = @ \ {b}], live)
  <2>1. ~RemovalStrays(Links, mmaped, b)
    BY <1>1 DEF LinkedMunmap
  <2> QED
    BY <1>6, <2>1, LinksGood, RemoveFromGood
<1>8. PICK L : L = FL!_removeFromList(mmapedList, b, size[b])
  OBVIOUS
<1>9. L.blocks = Blocklists[mmaped] \ {b} /\ mmapedList' = L
  BY <1>1, <1>6, <1>8 DEF FL!_removeFromList, LinkedMunmap, SfreeMunmap
<1>10. Blocklists' = [Blocklists EXCEPT ![mmaped] = Blocklists[mmaped] \ {b}]
  BY <1>2, <1>9, MappedChange
<1>11. Become(RemoveFrom(Links, mmaped, b))
  BY <1>1 DEF LinkedMunmap
<1> QED
  BY <1>2, <1>7, <1>10, <1>11, BecomesGood

LEMMA AloneLinks ==
  ASSUME IInv, ListsKnown, SfreeAlone, ListedFree(call.blk)
  PROVE  LinksOK'
<1>1. PICK b : b = call.blk
  OBVIOUS
<1>2. /\ b # NULL /\ ~Unmapped(b) /\ ~is_free[b] /\ size[b] < MAX_ORDER_BLOCK_SIZE
      /\ At("sfree") /\ MarkFree(b) /\ mmapedList' = mmapedList /\ live' = live
  BY <1>1 DEF SfreeAlone, SfreeArena, SfreeReadable
<1>3. b \in live
  BY <1>1, <1>2, StateFacts DEF CallOK, SfreeOK, Known, Unmapped
<1>4. b \in Blocks
  BY <1>2, <1>3, StateFacts, SmallIsArena
<1> QED
  BY <1>1, <1>2, <1>4, FreedJoins

\* The loop of _exists_in_list is at a block of the list, and has not passed
\* the one that it looks for.
WalkOK ==
  current # NULL =>
    LET listed == OnList(findTightOrder(size[call.blk]))
    IN /\ Looking /\ current \in listed
       /\ call.blk \in listed => current <= call.blk

(* Where it looks: the list k of the block b.                              *)
LEMMA LookingFacts ==
  ASSUME IInv, ListsKnown, Looking
  PROVE  \E k \in Orders :
           /\ k = findTightOrder(size[call.blk]) /\ k < MAX_ORDER /\ k \in Lists
           /\ call.blk \in Blocks /\ call.blk \in Nat /\ call.blk # NULL
           /\ size[call.blk] = Payload(k)
           /\ OnList(k) \subseteq Nat /\ NULL \notin OnList(k) /\ OnList(k) \subseteq Headers
           /\ OnList(k) = FreeBlocks(k)
           /\ ends[k].head = NULL => OnList(k) = {}
           /\ ends[k].head # NULL => /\ ends[k].head \in OnList(k)
                                     /\ \A c \in OnList(k) : ends[k].head <= c
           /\ \A b \in OnList(k) : IF b = ends[k].tail THEN next[b] \in {NULL, GARBAGE}
                                                       ELSE ML!Follows(OnList(k), b, next[b])
           /\ \A b \in OnList(k) : b = ends[k].tail => \A c \in OnList(k) : c <= b
<1>1. call.blk \in Blocks
  BY StateFacts DEF Looking, CallOK, MergeOK
<1>2. PICK k \in Orders : size[call.blk] = Payload(k) /\ findTightOrder(size[call.blk]) = k
  BY <1>1, StateFacts, BlockFacts
<1>3. k \in Lists /\ Blocklists[k] = OnList(k) /\ Blocklists[k] = FreeBlocks(k)
  BY ListsFacts
<1>4. Blocklists[k] \subseteq Headers /\ Blocks \subseteq Headers
  BY <1>3, LinksGood, StateFacts DEF GoodLinks
<1>5. IsLinked(ListOf(Links, k), OnList(k))
  BY <1>3 DEF ListsKnown, LinksOK
<1>6. /\ ListOf(Links, k).head = ends[k].head /\ ListOf(Links, k).tail = ends[k].tail
      /\ ListOf(Links, k).next = next
  BY ListOfFields DEF Links
<1>7. /\ ML!First(OnList(k), ends[k].head) /\ ML!Last(OnList(k), ends[k].tail)
      /\ \A b \in OnList(k) : IF b = ends[k].tail THEN next[b] \in Words(b)
                                                  ELSE ML!Follows(OnList(k), b, next[b])
  BY <1>5, <1>6 DEF IsLinked
<1>8. \A b \in OnList(k) : Words(b) \subseteq {NULL, GARBAGE}
  BY <1>3, <1>4, WordsType
<1>9. /\ ends[k].head = NULL => OnList(k) = {}
      /\ ends[k].head # NULL => /\ ends[k].head \in OnList(k)
                                /\ \A c \in OnList(k) : ends[k].head <= c
      /\ \A b \in OnList(k) : b = ends[k].tail => \A c \in OnList(k) : c <= b
  BY <1>7, HeadersType DEF ML!First, ML!Last
<1>10. k < MAX_ORDER
  BY <1>2 DEF Looking
<1> QED
  BY <1>1, <1>2, <1>3, <1>4, <1>7, <1>8, <1>9, <1>10, HeadersType

(* When it is over, it has found the block if and only if it is listed.    *)
LEMMA MergeStopSteps ==
  ASSUME IInv, ListsKnown, WalkOK, LinkedMergeStop
  PROVE  MergeStop /\ LinksOK'
<1>1. PICK b : b = call.blk
  OBVIOUS
<1>2. Looking /\ LookedAll
  BY DEF LinkedMergeStop
<1>3. PICK k \in Orders :
        /\ k = findTightOrder(size[b]) /\ k < MAX_ORDER /\ k \in Lists
        /\ b \in Blocks /\ b \in Nat /\ b # NULL /\ size[b] = Payload(k)
        /\ OnList(k) \subseteq Nat /\ OnList(k) = FreeBlocks(k)
        /\ ends[k].head = NULL => OnList(k) = {}
        /\ \A c \in OnList(k) : IF c = ends[k].tail THEN next[c] \in {NULL, GARBAGE}
                                                    ELSE ML!Follows(OnList(k), c, next[c])
        /\ \A c \in OnList(k) : c = ends[k].tail => \A d \in OnList(k) : d <= c
  BY <1>1, <1>2, LookingFacts
<1>4. current = b <=> b \in OnList(k)
  <2>1. CASE current = NULL
    BY <1>1, <1>2, <1>3, <2>1 DEF LookedAll, Searched
  <2>2. CASE current # NULL
    <3>1. current \in OnList(k) /\ (b \in OnList(k) => current <= b)
      BY <1>1, <1>3, <2>2 DEF WalkOK
    <3>2. current = b \/ next[current] = NULL
      BY <1>1, <1>2, <2>2 DEF LookedAll
    <3>3. next[current] = NULL => \A c \in OnList(k) : c <= current
      BY <1>3, <3>1, HeadersType DEF ML!Follows
    <3> QED
      BY <1>3, <3>1, <3>2, <3>3
  <2> QED
    BY <2>1, <2>2
<1>5. PICK n : n = size[b]
  OBVIOUS
<1>6. /\ is_free' = [is_free EXCEPT ![b] = TRUE]
      /\ freeBlockListArray' =
           IF b \in OnList(k) THEN freeBlockListArray
           ELSE [freeBlockListArray EXCEPT ![k] = FL!_addToList(@, b, n)]
      /\ IF b \in OnList(k) THEN UNCHANGED links
                            ELSE Become(AddTo(Links, k, b, OnList(k)))
      /\ Break /\ UNCHANGED <<mmapedList, counters, size, live, os>>
  <2>1. CASE b \in OnList(k)
    BY <1>1, <1>4, <2>1 DEF LinkedMergeStop
  <2>2. CASE b \notin OnList(k)
    <3>1. MarkFree(b) /\ ListedFree(b)
      BY <1>1, <1>4, <2>2 DEF LinkedMergeStop
    <3>2. Break /\ UNCHANGED <<mmapedList, counters, size, live, os>>
      BY DEF LinkedMergeStop
    <3> QED
      BY <1>3, <1>5, <2>2, <3>1, <3>2 DEF MarkFree, ListedFree
  <2> QED
    BY <2>1, <2>2
<1>7. MergeStop
  BY <1>1, <1>2, <1>3, <1>5, <1>6 DEF MergeStop, Looking, OnList
<1>8. CASE b \in OnList(k)
  BY <1>6, <1>7, <1>8, ListsSame, LinksSame
<1>9. CASE b \notin OnList(k)
  <2>1. b \in Headers /\ ~is_free[b]
    BY <1>3, <1>9 DEF FreeBlocks, Blocks, Headers
  <2>2. \A j \in Lists : b \notin Blocklists[j]
    BY <1>3, <2>1, OnNoList DEF Blocks
  <2> QED
    BY <1>6, <1>7, <1>9, <2>1, <2>2, LinksGood, BlockJoins
<1> QED
  BY <1>7, <1>8, <1>9

(* Each turn of the loop goes to the next block of the list, or strays.    *)
LEMMA WalkKeeps ==
  ASSUME IInv, ListsKnown, WalkOK, ExistsBegins \/ ExistsWalks, ~astray'
  PROVE  LinksOK' /\ WalkOK'
<1>1. UNCHANGED <<vars, links>> /\ Looking
  BY DEF ExistsBegins, ExistsWalks
<1>2. LinksOK'
  BY <1>1, ListsSame, LinksSame DEF vars, heap
<1>3. PICK b : b = call.blk
  OBVIOUS
<1>4. PICK k \in Orders :
        /\ k = findTightOrder(size[b]) /\ b \in Nat
        /\ OnList(k) \subseteq Nat /\ NULL \notin OnList(k)
        /\ ends[k].head # NULL => /\ ends[k].head \in OnList(k)
                                  /\ \A c \in OnList(k) : ends[k].head <= c
        /\ \A c \in OnList(k) : IF c = ends[k].tail THEN next[c] \in {NULL, GARBAGE}
                                                    ELSE ML!Follows(OnList(k), c, next[c])
  BY <1>1, <1>3, LookingFacts
<1>5. current' \in OnList(k) /\ (b \in OnList(k) => current' <= b)
  <2>1. CASE ExistsBegins
    <3>1. current' = ends[k].head /\ current' # NULL
      BY <1>3, <1>4, <2>1 DEF ExistsBegins, Searched
    <3> QED
      BY <1>4, <3>1
  <2>2. CASE ExistsWalks
    <3>1. PICK n : n = next[current]
      OBVIOUS
    <3>2. /\ current' = n /\ n # NULL /\ n # GARBAGE
          /\ current # NULL /\ current # b
      BY <1>3, <2>2, <3>1 DEF ExistsWalks, LookedAll
    <3>3. current \in OnList(k) /\ (b \in OnList(k) => current <= b)
      BY <1>3, <1>4, <3>2 DEF WalkOK
    <3>4. ML!Follows(OnList(k), current, n)
      BY <1>4, <3>1, <3>2, <3>3
    <3>5. n \in OnList(k) /\ \A c \in OnList(k) : c <= current \/ n <= c
      BY <3>2, <3>4, HeadersType DEF ML!Follows
    <3> QED
      BY <1>4, <3>2, <3>3, <3>5
  <2> QED
    BY <2>1, <2>2
<1>6. OnList(k)' = OnList(k) /\ size' = size /\ call' = call /\ is_free' = is_free
  BY <1>1 DEF OnList, vars, heap, headers
<1>7. Looking'
  BY <1>1, <1>6 DEF Looking, At, CanMerge, findBuddyAddress
<1> QED
  BY <1>2, <1>3, <1>4, <1>5, <1>6, <1>7 DEF WalkOK

LEMMA ListsBecome ==
  ASSUME ListsKnown, NEW B \in [Lists -> SUBSET Headers],
         \A j \in Orders : OnList(j)' = B[j],
         B[mmaped] = mmapedList.blocks, mmapedList' = mmapedList
  PROVE  Blocklists' = B
<1>1. \A j \in Lists : j = mmaped \/ j \in Orders
  BY ListsFacts
<1> QED
  BY <1>1 DEF Blocklists

(* The two halves leave their list before the block they make joins the    *)
(* next: its links, which _addToList takes as they are, are NULL if it had *)
(* been on it, and anything's if it is a header that the client wrote to.  *)
LEMMA MergeLinks ==
  ASSUME IInv, ListsKnown, LinkedMerge, ~astray'
  PROVE  LinksOK'
<1>1. PICK b, buddy, left : Merging(b, buddy, left)
  BY MergeBlocks DEF LinkedMerge
<1>2. /\ b = call.blk /\ b \in Blocks /\ buddy \in Blocks /\ buddy # b
      /\ left \in {b, buddy} /\ is_free[buddy] /\ mmapedList' = mmapedList
      /\ call' = [call EXCEPT !.blk = left] /\ buddy = findBuddyAddress(b)
      /\ live' \subseteq live
  BY <1>1 DEF Merging
<1>3. PICK k \in Orders :
        /\ size[b] = Payload(k) /\ findTightOrder(size[b]) = k /\ k < MAX_ORDER
        /\ k + 1 \in Orders /\ size[buddy] = size[b]
        /\ freeBlockListArray' =
             [[freeBlockListArray EXCEPT ![k] = BothGone(b, buddy, k)]
                EXCEPT ![k + 1] = FL!_addToList(@, left, Payload(k + 1))]
  BY <1>1 DEF Merging
<1>4. Min({b, buddy}) = left
  <2>1. call' = [call EXCEPT !.blk = Min({b, buddy})]
    BY <1>2 DEF LinkedMerge, MergeStep, GrowStep, mergeBlocks
  <2> QED
    BY <1>2, <2>1, StateFacts DEF Calls
<1>5. findTightOrder(size[b] + size[buddy] + META) = k + 1
  <2>1. /\ getOrderSize(k) \in Nat /\ getOrderSize(k + 1) = 2 * getOrderSize(k)
        /\ META \in Nat
    BY <1>3, OrderSizeType, OrdersType
  <2>2. Payload(k) + Payload(k) + META = Payload(k + 1)
    BY <2>1 DEF Payload
  <2> QED
    BY <1>3, <2>2, TightOrderOfPayload
<1>6. PICK up \in Orders : up = k + 1 /\ up # k
  BY <1>3, OrdersType
<1>7. /\ k \in Lists /\ up \in Lists
      /\ Blocklists[k] = FreeBlocks(k) /\ Blocklists[up] = OnList(up)
      /\ Blocklists[k] = freeBlockListArray[k].blocks
      /\ Blocklists \in [Lists -> SUBSET Headers]
  BY <1>6, LinksGood, ListsFacts DEF OnList, GoodLinks
<1>8. PICK without : without = RemoveFrom(Links, k, buddy)
  OBVIOUS
<1>9. PICK B1 : B1 = [Blocklists EXCEPT ![k] = @ \ {buddy}]
  OBVIOUS
<1>10. GoodLinks(without, B1, live)
  <2>1. buddy \in Blocklists[k]
    BY <1>2, <1>3, <1>7 DEF FreeBlocks
  <2>2. ~RemovalStrays(Links, k, buddy)
    BY <1>2, <1>3 DEF LinkedMerge, MergeStrays
  <2> QED
    BY <1>7, <1>8, <1>9, <2>1, <2>2, LinksGood, RemoveFromGood
<1>11. PICK unlisted : unlisted = IF is_free[b] THEN RemoveFrom(without, k, b) ELSE without
  OBVIOUS
<1>12. PICK B2 : B2 = [Blocklists EXCEPT ![k] = @ \ {b, buddy}]
  OBVIOUS
<1>13. GoodLinks(unlisted, B2, live)
  <2>1. B1[k] = Blocklists[k] \ {buddy}
    BY <1>7, <1>9
  <2>2. CASE is_free[b]
    <3>1. b \in B1[k]
      BY <1>2, <1>3, <1>7, <2>1, <2>2 DEF FreeBlocks
    <3>2. GoodLinks(unlisted, [B1 EXCEPT ![k] = @ \ {b}], live)
      <4>1. ~RemovalStrays(without, k, b)
        BY <1>2, <1>3, <1>8, <2>2 DEF LinkedMerge, MergeStrays
      <4> QED
        BY <1>7, <1>10, <1>11, <2>2, <3>1, <4>1, RemoveFromGood
    <3>3. [B1 EXCEPT ![k] = @ \ {b}] = B2
      <4>1. (Blocklists[k] \ {buddy}) \ {b} = Blocklists[k] \ {b, buddy}
        OBVIOUS
      <4> QED
        BY <1>7, <1>9, <1>12, <2>1, <4>1
    <3> QED
      BY <3>2, <3>3
  <2>3. CASE ~is_free[b]
    <3>1. Blocklists[k] \ {b, buddy} = Blocklists[k] \ {buddy}
      BY <1>7, <2>3 DEF FreeBlocks
    <3> QED
      BY <1>9, <1>10, <1>11, <1>12, <2>3, <3>1
  <2> QED
    BY <2>2, <2>3
<1>14. /\ B2[k] = Blocklists[k] \ {b, buddy} /\ B2[up] = OnList(up)
       /\ \A j \in Lists : j # k => B2[j] = Blocklists[j]
  BY <1>6, <1>7, <1>12
<1>15. left \in Headers /\ \A j \in Lists : left \notin B2[j]
  <2>1. left \in Blocks /\ size[left] = Payload(k)
    BY <1>2, <1>3
  <2>2. left \in Headers /\ left \notin Mapped
    BY <2>1, SlotsType DEF Blocks, Headers, Mapped
  <2>3. \A j \in Orders : j # k => left \notin FreeBlocks(j)
    BY <2>1, PayloadType DEF FreeBlocks
  <2> QED
    BY <1>2, <1>14, <2>2, <2>3, ListsFacts
<1>16. GoodLinks(AddTo(unlisted, up, left, OnList(up)), [B2 EXCEPT ![up] = @ \cup {left}], live)
  BY <1>7, <1>13, <1>14, <1>15, AddToGood
<1>17. Become(AddTo(unlisted, up, left, OnList(up)))
  BY <1>2, <1>3, <1>4, <1>5, <1>6, <1>8, <1>11 DEF LinkedMerge, Merged
<1>18. PICK L, M : /\ L = BothGone(b, buddy, k)
                   /\ M = FL!_addToList(freeBlockListArray[up], left, Payload(k + 1))
  OBVIOUS
<1>19. L.blocks = B2[k]
  <2>1. CASE is_free[b]
    <3>1. L.blocks = (Blocklists[k] \ {buddy}) \ {b}
      BY <1>7, <1>18, <2>1 DEF BothGone, FL!_removeFromList
    <3> QED
      BY <1>14, <3>1
  <2>2. CASE ~is_free[b]
    <3>1. L.blocks = Blocklists[k] \ {buddy} /\ b \notin Blocklists[k]
      BY <1>7, <1>18, <2>2 DEF BothGone, FL!_removeFromList, FreeBlocks
    <3> QED
      BY <1>14, <3>1
  <2> QED
    BY <2>1, <2>2
<1>20. M.blocks = B2[up] \cup {left}
  BY <1>14, <1>18 DEF FL!_addToList, OnList
<1>21. freeBlockListArray' = [[freeBlockListArray EXCEPT ![k] = L] EXCEPT ![up] = M]
  BY <1>3, <1>6, <1>18, StateFacts DEF HeapType
<1>22. PICK B3 : B3 = [B2 EXCEPT ![up] = @ \cup {left}]
  OBVIOUS
<1>23. B3 \in [Lists -> SUBSET Headers]
  <2>1. B2 \in [Lists -> SUBSET Headers]
    BY <1>13 DEF GoodLinks
  <2> QED
    BY <1>7, <1>15, <1>22, <2>1
<1>24. Blocklists' = B3
  <2>1. \A j \in Orders : OnList(j)' = B3[j]
    <3>1. ASSUME NEW j \in Orders PROVE OnList(j)' = B3[j]
      <4>1. freeBlockListArray'[j] = IF j = up THEN M ELSE IF j = k THEN L
                                                     ELSE freeBlockListArray[j]
        BY <1>21, StateFacts DEF HeapType
      <4>2. j \in Lists /\ Blocklists[j] = freeBlockListArray[j].blocks
        BY ListsFacts DEF OnList
      <4> QED
        BY <1>7, <1>12, <1>13, <1>14, <1>19, <1>20, <1>22, <4>1, <4>2 DEF OnList, GoodLinks
    <3> QED
      BY <3>1
  <2>2. mmaped \in Lists /\ mmaped # up /\ mmaped # k
        /\ Blocklists[mmaped] = mmapedList.blocks
    BY ListsFacts
  <2>3. B3[mmaped] = mmapedList.blocks
    BY <1>13, <1>14, <1>22, <2>2 DEF GoodLinks
  <2> QED
    BY <1>2, <1>23, <2>1, <2>3, ListsBecome
<1> QED
  BY <1>2, <1>16, <1>17, <1>22, <1>24, BecomesGood

----------------------------------------------------------------------------
(* srealloc.                                                               *)

LEMMA ReallocLinks ==
  ASSUME IInv, ListsKnown,
         \/ SreallocReuse /\ ListedUsed(call.old, findTightOrder(size[call.old]))
         \/ SreallocMerges /\ IF is_free[call.old] THEN UNCHANGED links
                                                   ELSE ListedFree(call.old)
         \/ GrowReturn /\ ListedUsed(call.blk, Tight),
         ~astray'
  PROVE  LinksOK'
<1>1. mmapedList' = mmapedList /\ live' = live
  BY DEF SreallocReuse, SreallocMerges, GrowReturn
<1>2. CASE SreallocReuse /\ ListedUsed(call.old, findTightOrder(size[call.old]))
  <2>1. call.old \in Blocks
    BY <1>2, StateFacts, OldIsLive DEF SreallocReuse
  <2>2. TakeBack(call.old, findTightOrder(size[call.old]))
    BY <1>2 DEF SreallocReuse
  <2> QED
    BY <1>1, <1>2, <2>1, <2>2, TakenLeaves
<1>3. CASE SreallocMerges /\ IF is_free[call.old] THEN UNCHANGED links
                                                  ELSE ListedFree(call.old)
  <2>1. call.old \in Blocks
    BY <1>3, StateFacts, OldIsLive DEF SreallocMerges, SreallocGrows
  <2>2. CASE is_free[call.old]
    BY <1>1, <1>3, <2>2, ListsSame, LinksSame DEF SreallocMerges
  <2>3. CASE ~is_free[call.old]
    BY <1>1, <1>3, <2>1, <2>3, FreedJoins DEF SreallocMerges
  <2> QED
    BY <2>2, <2>3
<1>4. CASE GrowReturn /\ ListedUsed(call.blk, Tight)
  <2>1. /\ call.blk \in Blocks /\ findTightOrder(size[call.blk]) <= Tight
        /\ findTightOrder(size[call.blk]) >= Tight /\ TakeBack(call.blk, Tight)
    BY <1>4, StateFacts DEF GrowReturn, CallOK, GrowOK
  <2>2. findTightOrder(size[call.blk]) \in Orders /\ Tight \in Orders
    BY <2>1, StateFacts, TightFacts, BlockFacts
  <2>3. Tight = findTightOrder(size[call.blk])
    <3>1. \A i, j \in Orders : i <= j /\ i >= j => j = i
      BY OrdersType
    <3> QED
      BY <2>1, <2>2, <3>1, Zenon
  <2>4. PICK k : k = Tight /\ TakeBack(call.blk, k) /\ ListedUsed(call.blk, k)
    BY <1>4, <2>1
  <2> QED
    BY <1>1, <2>1, <2>3, <2>4, TakenLeaves
<1> QED
  BY <1>2, <1>3, <1>4

----------------------------------------------------------------------------
(* Bytes that are written over headers, and steps that touch no list.      *)

LEMMA DeadHasWords ==
  ASSUME ListsKnown, NEW h \in Headers, h \notin live
  PROVE  next[h] \in Words(h) /\ prev[h] \in Words(h)
BY OnNoList DEF ListsKnown, LinksOK, Unlisted

(* Whatever is written over the links of headers of no block, the lists    *)
(* stay as they are.                                                       *)
LEMMA LinksWritten ==
  ASSUME ListsKnown, ends' = ends,
         next' \in [Headers -> Fields], prev' \in [Headers -> Fields],
         \A h \in Headers :
           \/ next'[h] = next[h] /\ prev'[h] = prev[h]
           \/ h \notin live /\ next'[h] \in Words(h) /\ prev'[h] \in Words(h),
         mmapedList' = mmapedList, freeBlockListArray' = freeBlockListArray,
         live' = live
  PROVE  LinksOK'
<1>1. PICK m : m = [ends |-> ends, next |-> next', prev |-> prev']
  OBVIOUS
<1>2. m.ends = ends /\ m.next = next' /\ m.prev = prev' /\ m \in LinkStates
  BY <1>1 DEF ListsKnown, LinksOK, Links, LinkStates
<1>3. GoodLinks(Links, Blocklists, live)
  BY LinksGood
<1>4. ASSUME NEW k \in Lists PROVE IsLinked(ListOf(m, k), Blocklists[k])
  <2>1. \A h \in Blocklists[k] : h \in Headers /\ next'[h] = next[h] /\ prev'[h] = prev[h]
    BY <1>3, OnNoList DEF GoodLinks
  <2>2. /\ ListOf(Links, k).head = ends[k].head /\ ListOf(Links, k).tail = ends[k].tail
        /\ ListOf(Links, k).next = next /\ ListOf(Links, k).prev = prev
    BY ListOfFields DEF Links
  <2>3. /\ ListOf(m, k).head = ends[k].head /\ ListOf(m, k).tail = ends[k].tail
        /\ ListOf(m, k).next = next' /\ ListOf(m, k).prev = prev'
    BY <1>2, ListOfFields
  <2>4. IsLinked(ListOf(Links, k), Blocklists[k])
    BY <1>3 DEF GoodLinks
  <2> QED
    BY <2>1, <2>2, <2>3, <2>4, IsLinkedSame
<1>5. ASSUME NEW h \in Headers, \A k \in Lists : h \notin Blocklists[k]
      PROVE  Loose(m, live, h)
  <2>1. Loose(Links, live, h) /\ Links.next = next /\ Links.prev = prev
    BY <1>3, <1>5 DEF GoodLinks, Links
  <2> QED
    BY <1>2, <2>1 DEF Loose
<1>6. GoodLinks(m, Blocklists, live)
  BY <1>2, <1>3, <1>4, <1>5 DEF GoodLinks
<1>7. Become(m) /\ Blocklists' = Blocklists
  BY <1>2, ListsSame DEF Become
<1> QED
  BY <1>6, <1>7, BecomesGood

LEMMA FieldsKnown ==
  ASSUME ListsKnown
  PROVE  next \in [Headers -> Fields] /\ prev \in [Headers -> Fields]
BY DEF ListsKnown, LinksOK, LinkStates, Links

LEMMA ClientWritesLinksKeeps ==
  ASSUME IInv, ListsKnown, ClientWritesLinks
  PROVE  LinksOK'
<1>1. PICK b \in live :
        \E h \in Buried(b, size[b]), n, p \in LINK_WORDS :
          next' = [next EXCEPT ![h] = n] /\ prev' = [prev EXCEPT ![h] = p]
  BY DEF ClientWritesLinks
<1>2. PICK h \in Buried(b, size[b]), n \in LINK_WORDS, p \in LINK_WORDS :
        next' = [next EXCEPT ![h] = n] /\ prev' = [prev EXCEPT ![h] = p]
  BY <1>1
<1>3. h \in Slots \ live
  <2>1. size[b] \in Nat /\ size[b] <= size[b]
    BY StateFacts DEF HeapType
  <2> QED
    BY <2>1, StateFacts, BuriedIsDead
<1>4. h \in Headers /\ h \notin live /\ n \in Words(h) /\ p \in Words(h)
      /\ n \in Fields /\ p \in Fields
  BY <1>3, WordsType DEF Headers, Words
<1>5. next \in [Headers -> Fields] /\ prev \in [Headers -> Fields]
  BY FieldsKnown
<1>6. next' \in [Headers -> Fields] /\ prev' \in [Headers -> Fields]
  BY <1>2, <1>4, <1>5
<1>7. \A x \in Headers :
        \/ next'[x] = next[x] /\ prev'[x] = prev[x]
        \/ x \notin live /\ next'[x] \in Words(x) /\ prev'[x] \in Words(x)
  BY <1>2, <1>4, <1>5
<1>8. /\ ends' = ends /\ mmapedList' = mmapedList
      /\ freeBlockListArray' = freeBlockListArray /\ live' = live
  BY DEF ClientWritesLinks, vars, heap
<1> QED
  BY <1>6, <1>7, <1>8, LinksWritten

LEMMA MemsetLinks ==
  ASSUME IInv, ListsKnown, LinkedMemset
  PROVE  LinksOK'
<1>1. PICK r, n : r = call.ret /\ n = call.n
  OBVIOUS
<1>2. r \in live /\ n \in Nat /\ n <= size[r]
  BY <1>1, StateFacts, TightFacts DEF LinkedMemset, ScallocMemset, CallOK, RetOK, At
<1>3. Buried(r, n) \subseteq Slots \ live
  BY <1>2, StateFacts, BuriedIsDead
<1> DEFINE Kept(h, v) == IF Covered(h, r, n) THEN NULL ELSE v
<1>4. /\ next' = [h \in Headers |-> Kept(h, next[h])]
      /\ prev' = [h \in Headers |-> Kept(h, prev[h])]
      /\ ends' = ends /\ mmapedList' = mmapedList
      /\ freeBlockListArray' = freeBlockListArray /\ live' = live
  BY <1>1 DEF LinkedMemset, ScallocMemset
<1>5. \A h \in Headers : Covered(h, r, n) => h \notin live
  BY <1>3 DEF Buried, Covered
<1>6. next \in [Headers -> Fields] /\ prev \in [Headers -> Fields] /\ NULL \in Fields
  BY FieldsKnown DEF Fields, Pointers
<1>7. next' \in [Headers -> Fields] /\ prev' \in [Headers -> Fields]
  BY <1>4, <1>6
<1>8. ASSUME NEW h \in Headers
      PROVE  \/ next'[h] = next[h] /\ prev'[h] = prev[h]
             \/ h \notin live /\ next'[h] \in Words(h) /\ prev'[h] \in Words(h)
  BY <1>4, <1>5, WordsType
<1> QED
  BY <1>4, <1>7, <1>8, LinksWritten

(* What is copied over a header that merges left behind is what was read   *)
(* of another such header.                                                 *)
LEMMA MemmoveLinks ==
  ASSUME IInv, ListsKnown, LinkedMemmove
  PROVE  LinksOK'
<1>1. PICK b, r : b = call.old /\ r = call.ret
  OBVIOUS
<1>2. /\ r \in live /\ b \in live /\ size[b] \in Nat /\ size[b] <= size[r]
  <2>1. /\ call.at = "memmove" /\ call.op = "srealloc" /\ call.ret # MAP_FAILED
        /\ size[b] <= size[r] /\ b # NULL
    BY <1>1, StateFacts DEF LinkedMemmove, SreallocMemmove, At, CallOK, OpOK, OldOK
  <2> QED
    BY <1>1, <2>1, StateFacts DEF CallOK, OldOK, RetOK, HeapType
<1>3. Buried(r, size[b]) \subseteq Slots \ live /\ Buried(b, size[b]) \subseteq Slots \ live
  BY <1>2, StateFacts, BuriedIsDead
<1> DEFINE From(h) == IF Covered(h, r, size[b]) THEN h - r + b ELSE h
<1>4. /\ next' = [h \in Headers |-> next[From(h)]]
      /\ prev' = [h \in Headers |-> prev[From(h)]]
      /\ ends' = ends /\ mmapedList' = mmapedList
      /\ freeBlockListArray' = freeBlockListArray /\ live' = live
  BY <1>1 DEF LinkedMemmove, SreallocMemmove
<1>5. ASSUME NEW h \in Headers, Covered(h, r, size[b])
      PROVE  /\ h \notin live /\ From(h) \in Headers
             /\ next[From(h)] \in Words(h) /\ prev[From(h)] \in Words(h)
  <2>1. h \in Buried(r, size[b])
    BY <1>5 DEF Buried, Covered
  <2>2. From(h) \in Slots /\ From(h) \in Headers
    BY <1>2, <1>5, <2>1, StateFacts, CopiedFromHeaders
  <2>3. From(h) \in Buried(b, size[b])
    <3>1. From(h) = h - r + b
      BY <1>5
    <3>2. r < h /\ h < r + META + size[b]
      BY <1>5 DEF Covered
    <3>3. h \in Nat /\ r \in Nat /\ b \in Nat /\ META \in Nat /\ size[b] \in Nat
      BY <1>2, StateFacts, HeadersType, OrdersType DEF HeapType
    <3>4. b < From(h) /\ From(h) < b + META + size[b]
      BY <3>1, <3>2, <3>3
    <3> QED
      BY <2>2, <3>4 DEF Buried, Covered
  <2>4. h \notin live /\ h \in Slots /\ From(h) \notin live
    BY <1>3, <2>1, <2>3
  <2> HIDE DEF From
  <2>5. Words(From(h)) = Words(h)
    BY <2>2, <2>4 DEF Words
  <2> QED
    BY <2>2, <2>4, <2>5, DeadHasWords
<1>6. ASSUME NEW h \in Headers, ~Covered(h, r, size[b]) PROVE From(h) = h
  BY <1>6
<1> HIDE DEF From
<1>7. next \in [Headers -> Fields] /\ prev \in [Headers -> Fields]
  BY FieldsKnown
<1>8. next' \in [Headers -> Fields] /\ prev' \in [Headers -> Fields]
  <2>1. \A h \in Headers : From(h) \in Headers
    BY <1>5, <1>6
  <2> QED
    BY <1>4, <1>7, <2>1
<1>9. ASSUME NEW h \in Headers
      PROVE  \/ next'[h] = next[h] /\ prev'[h] = prev[h]
             \/ h \notin live /\ next'[h] \in Words(h) /\ prev'[h] \in Words(h)
  BY <1>4, <1>5, <1>6
<1> QED
  BY <1>4, <1>8, <1>9, LinksWritten

LEMMA OtherLinks ==
  ASSUME ListsKnown, UNCHANGED links,
         OtherStep \/ Call \/ ClientWrites \/ ForeignSbrk \/ Halted \/ UNCHANGED vars
  PROVE  LinksOK'
<1>1. /\ mmapedList' = mmapedList /\ freeBlockListArray' = freeBlockListArray
      /\ live' = live
  BY DEF OtherStep, Call, CallWith, ClientWrites, ForeignSbrk, Halted, vars, heap,
     SmallocReject, SmallocMmapFails, SplitReturn, ScallocKilled,
     SreallocKilled, SfreeNull, SfreeSegv, SfreeReleased, SfreeTriesMerge, MergeTop,
     SreallocReject, SreallocNull, SreallocSame, SreallocMoves
<1> QED
  BY <1>1, ListsSame, LinksSame

----------------------------------------------------------------------------
(* firstAllocator: the lists are reset, and the top blocks, unlinked one   *)
(* by one, join theirs from the highest to the lowest.                     *)

LEMMA NoListsGood ==
  ASSUME ListsKnown, live = {}
  PROVE  /\ GoodLinks(NoLists, Blocklists, {})
         /\ \A k \in Lists : Blocklists[k] = {}
<1>1. \A k \in Lists : Blocklists[k] = {}
  BY ListsFacts DEF FreeBlocks, Blocks, Mapped
<1>2. GoodLinks(Links, Blocklists, live) /\ Links \in LinkStates
  BY LinksGood DEF GoodLinks
<1>3. /\ NoLists.next = Links.next /\ NoLists.prev = Links.prev
      /\ \A k \in Lists : NoLists.ends[k] = IF k = mmaped THEN Links.ends[k] ELSE NoEnds
  BY <1>2 DEF NoLists, LinkStates
<1>4. NoLists \in LinkStates
  BY <1>2 DEF NoLists, LinkStates, NoEnds, Pointers
<1>5. ASSUME NEW k \in Lists PROVE IsLinked(ListOf(NoLists, k), {})
  <2>1. CASE k = mmaped
    <3>1. ListOf(NoLists, k) = ListOf(Links, k)
      BY <1>3, <2>1 DEF ListOf
    <3> QED
      BY <1>1, <1>2, <3>1 DEF GoodLinks
  <2>2. CASE k # mmaped
    <3>1. ListOf(NoLists, k).head = NULL /\ ListOf(NoLists, k).tail = NULL
      BY <1>3, <2>2, ListOfFields DEF NoEnds
    <3> QED
      BY <3>1, HeadersType DEF IsLinked, ML!First, ML!Last
  <2> QED
    BY <2>1, <2>2
<1>6. \A h \in Headers : Loose(NoLists, {}, h)
  BY <1>1, <1>2, <1>3 DEF GoodLinks, Loose
<1>7. Blocklists \in [Lists -> SUBSET Headers]
      /\ \A j, k \in Lists : Blocklists[j] \cap Blocklists[k] = {}
  BY <1>1, <1>2 DEF GoodLinks
<1> QED
  BY <1>1, <1>4, <1>5, <1>6, <1>7 DEF GoodLinks

LEMMA FirstFailsLinks ==
  ASSUME IInv, ListsKnown, FirstAllocatorFails, Become(NoLists)
  PROVE  LinksOK'
<1>1. live = {}
  BY StateFacts DEF FirstAllocatorFails, ArenaOK
<1>2. GoodLinks(NoLists, Blocklists, {}) /\ \A k \in Lists : Blocklists[k] = {}
  BY <1>1, NoListsGood
<1>3. Blocklists' = Blocklists
  <2>1. Blocklists \in [Lists -> SUBSET Headers]
    BY <1>2 DEF GoodLinks
  <2>2. \A j \in Orders : OnList(j)' = Blocklists[j]
    BY <1>2, ListsFacts DEF FirstAllocatorFails, OnList, FL!EmptyList
  <2>3. Blocklists[mmaped] = mmapedList.blocks /\ mmapedList' = mmapedList
    BY ListsFacts DEF FirstAllocatorFails
  <2> QED
    BY <2>1, <2>2, <2>3, ListsBecome
<1>4. live' = {}
  BY <1>1 DEF FirstAllocatorFails
<1> QED
  BY <1>2, <1>3, <1>4, BecomesGood

\* The i-th top block to join.
TopAt(i) == brk + Gap + (INITIAL_MALLOC_BLOCK_AMOUNT - i) * MAX_ORDER_BLOCK_SIZE

\* f says what the lists are once each of n top blocks has joined.
JoinsTops(f, n) ==
  f = [i \in 0 .. n |-> IF i = 0 THEN NoLists ELSE JoinTop(f[i - 1], TopAt(i))]

LEMMA TopsCanJoin ==
  \A n \in Nat : \E f : JoinsTops(f, n)
<1> DEFINE Bad == {n \in Nat : ~\E f : JoinsTops(f, n)}
<1>1. SUFFICES ASSUME Bad # {} PROVE FALSE
  OBVIOUS
<1>2. PICK n \in Bad : \A m \in Bad : n <= m
  BY <1>1, LeastNat
<1>3. n \in Nat /\ ~\E f : JoinsTops(f, n)
  BY <1>2
<1>4. CASE n = 0
  <2>1. PICK f : f = [i \in 0 .. 0 |-> NoLists]
    OBVIOUS
  <2>2. JoinsTops(f, 0)
    BY <2>1 DEF JoinsTops
  <2> QED
    BY <1>3, <1>4, <2>2
<1>5. CASE n # 0
  <2>1. n - 1 \in Nat /\ n - 1 \notin Bad
    BY <1>2, <1>3, <1>5
  <2>2. PICK f : JoinsTops(f, n - 1)
    BY <2>1
  <2>3. PICK g : g = [i \in 0 .. n |-> IF i < n THEN f[i] ELSE JoinTop(f[n - 1], TopAt(n))]
    OBVIOUS
  <2>4. ASSUME NEW i \in 0 .. n
        PROVE  g[i] = IF i = 0 THEN NoLists ELSE JoinTop(g[i - 1], TopAt(i))
    <3>1. CASE i = 0
      <4>1. 0 \in 0 .. n - 1 /\ 0 < n
        BY <1>3, <1>5
      <4>2. g[0] = f[0] /\ f[0] = NoLists
        BY <2>2, <2>3, <4>1 DEF JoinsTops
      <4> QED
        BY <3>1, <4>2
    <3>2. CASE i # 0 /\ i < n
      <4>1. i \in 0 .. n - 1 /\ i - 1 \in 0 .. n /\ i - 1 < n
        BY <1>3, <3>2
      <4>2. g[i] = f[i] /\ g[i - 1] = f[i - 1]
        BY <2>3, <3>2, <4>1
      <4>3. f[i] = JoinTop(f[i - 1], TopAt(i))
        BY <2>2, <3>2, <4>1 DEF JoinsTops
      <4> QED
        BY <3>2, <4>2, <4>3
    <3>3. CASE i = n
      <4>1. n - 1 \in 0 .. n /\ n - 1 < n /\ ~(n < n) /\ n \in 0 .. n
        BY <1>3, <1>5
      <4>2. g[n] = JoinTop(f[n - 1], TopAt(n)) /\ g[n - 1] = f[n - 1]
        BY <2>3, <4>1
      <4> QED
        BY <1>5, <3>3, <4>2
    <3> QED
      BY <1>3, <3>1, <3>2, <3>3
  <2>5. JoinsTops(g, n)
    BY <2>3, <2>4 DEF JoinsTops
  <2> QED
    BY <1>3, <2>5
<1> QED
  BY <1>4, <1>5

LEMMA TopsLinkedJoins ==
  \E f : JoinsTops(f, INITIAL_MALLOC_BLOCK_AMOUNT)
         /\ TopsLinked = f[INITIAL_MALLOC_BLOCK_AMOUNT]
<1> DEFINE N == INITIAL_MALLOC_BLOCK_AMOUNT
<1>1. PICK f : f = CHOOSE g : JoinsTops(g, N)
  OBVIOUS
<1>2. JoinsTops(f, N)
  <2>1. \E g : JoinsTops(g, N)
    BY TopsCanJoin, Malloc3Assumption
  <2> QED
    BY <1>1, <2>1, Zenon
<1>3. TopsLinked = (CHOOSE g : JoinsTops(g, N))[N]
  BY DEF TopsLinked, JoinsTops, TopAt
<1> QED
  BY <1>1, <1>2, <1>3

LEMMA TopsDescend ==
  ASSUME brk \in Nat, NEW n \in 1 .. INITIAL_MALLOC_BLOCK_AMOUNT
  PROVE  /\ TopAt(n) \in TopBlocks(brk + Gap) /\ TopAt(n) \in Nat
         /\ \A j \in 1 .. n - 1 : TopAt(n) < TopAt(j) /\ TopAt(j) \in Nat
<1>1. PICK M \in Nat \ {0} : M = MAX_ORDER_BLOCK_SIZE
  BY DivisorType
<1>2. PICK N \in Nat \ {0} : N = INITIAL_MALLOC_BLOCK_AMOUNT
  BY Malloc3Assumption
<1>3. PICK base \in Nat : base = brk + Gap
  BY GapAligns
<1>4. ASSUME NEW j \in 1 .. N PROVE TopAt(j) = base + (N - j) * M /\ TopAt(j) \in Nat
  <2>1. TopAt(j) = base + (N - j) * M
    BY <1>1, <1>2, <1>3 DEF TopAt
  <2>2. N - j \in Nat
    BY <1>2
  <2>3. (N - j) * M \in Nat
    BY <1>1, <2>2
  <2> QED
    BY <1>3, <2>1, <2>3
<1>5. n \in 1 .. N /\ N - n \in 0 .. N - 1
  BY <1>2
<1>6. TopAt(n) \in TopBlocks(brk + Gap)
  BY <1>1, <1>2, <1>3, <1>4, <1>5 DEF TopBlocks
<1>7. ASSUME NEW j \in 1 .. n - 1 PROVE TopAt(n) < TopAt(j) /\ TopAt(j) \in Nat
  <2>1. j \in 1 .. N
    BY <1>5
  <2>2. PICK d \in Nat : N - j = N - n + 1 + d
    <3>1. n - j - 1 \in Nat /\ N - j = N - n + 1 + (n - j - 1)
      BY <1>5
    <3> QED
      BY <3>1
  <2>3. PICK c \in Nat : c = N - n
    BY <1>5
  <2>4. (c + 1 + d) * M = c * M + M + d * M /\ c * M \in Nat /\ d * M \in Nat
    BY <1>1
  <2>5. TopAt(n) = base + c * M /\ TopAt(j) = base + (c + 1 + d) * M
    BY <1>4, <1>5, <2>1, <2>2, <2>3
  <2> QED
    BY <1>1, <1>3, <1>4, <2>1, <2>4, <2>5
<1> QED
  BY <1>4, <1>5, <1>6, <1>7

LEMMA TopsAreAll ==
  ASSUME brk \in Nat
  PROVE  {TopAt(j) : j \in 1 .. INITIAL_MALLOC_BLOCK_AMOUNT} = TopBlocks(brk + Gap)
<1>1. PICK N \in Nat \ {0} : N = INITIAL_MALLOC_BLOCK_AMOUNT
  BY Malloc3Assumption
<1>2. \A j \in 1 .. N : TopAt(j) \in TopBlocks(brk + Gap)
  BY <1>1, TopsDescend
<1>3. ASSUME NEW i \in 0 .. N - 1
      PROVE  \E j \in 1 .. N : TopAt(j) = brk + Gap + i * MAX_ORDER_BLOCK_SIZE
  <2>1. N - i \in 1 .. N /\ N - (N - i) = i
    BY <1>1
  <2>2. TopAt(N - i) = brk + Gap + (N - (N - i)) * MAX_ORDER_BLOCK_SIZE
    BY <1>1 DEF TopAt
  <2> QED
    BY <2>1, <2>2
<1> QED
  BY <1>1, <1>2, <1>3 DEF TopBlocks

LEMMA TopsJoin ==
  ASSUME ListsKnown, live = {}, brk \in Nat, TopBlocks(brk + Gap) \subseteq Headers
  PROVE  GoodLinks(TopsLinked, [Blocklists EXCEPT ![MAX_ORDER] = TopBlocks(brk + Gap)], {})
<1>1. PICK N \in Nat \ {0} : N = INITIAL_MALLOC_BLOCK_AMOUNT
  BY Malloc3Assumption
<1>2. PICK f : JoinsTops(f, N) /\ TopsLinked = f[N]
  BY <1>1, TopsLinkedJoins
<1>3. PICK B : B = Blocklists
  OBVIOUS
<1>4. /\ GoodLinks(NoLists, B, {}) /\ B \in [Lists -> SUBSET Headers]
      /\ MAX_ORDER \in Lists /\ \A k \in Lists : B[k] = {}
  BY <1>3, NoListsGood, ListsFacts, OrdersType DEF GoodLinks
<1> DEFINE Joined(n) == {TopAt(j) : j \in 1 .. n}
           Bad == {n \in 0 .. N : ~GoodLinks(f[n], [B EXCEPT ![MAX_ORDER] = Joined(n)], {})}
<1>5. Bad = {}
  <2>1. SUFFICES ASSUME Bad # {} PROVE FALSE
    OBVIOUS
  <2>2. Bad \subseteq Nat
    BY <1>1
  <2>3. PICK n \in Bad : \A m \in Bad : n <= m
    BY <2>1, <2>2, LeastNat
  <2>4. n \in 0 .. N /\ ~GoodLinks(f[n], [B EXCEPT ![MAX_ORDER] = Joined(n)], {})
    BY <2>3
  <2>5. CASE n = 0
    <3>1. f[0] = NoLists
      BY <1>1, <1>2 DEF JoinsTops
    <3>2. Joined(0) = {}
      OBVIOUS
    <3>3. [B EXCEPT ![MAX_ORDER] = {}] = B
      BY <1>4
    <3> QED
      BY <1>4, <2>4, <2>5, <3>1, <3>2, <3>3
  <2>6. CASE n # 0
    <3>1. n \in 1 .. N /\ n - 1 \in 0 .. N /\ n - 1 \notin Bad
      <4>1. n \in 1 .. N /\ n - 1 \in 0 .. N /\ ~(n <= n - 1)
        BY <1>1, <2>4, <2>6
      <4> HIDE DEF Bad
      <4> QED
        BY <2>3, <4>1
    <3>2. PICK m, D : m = f[n - 1] /\ D = [B EXCEPT ![MAX_ORDER] = Joined(n - 1)]
      OBVIOUS
    <3>3. GoodLinks(m, D, {})
      BY <3>1, <3>2
    <3>4. PICK b : b = TopAt(n)
      OBVIOUS
    <3>5. b \in Headers /\ \A j \in 1 .. n - 1 : b < TopAt(j) /\ TopAt(j) \in Nat
      BY <1>1, <3>1, <3>4, TopsDescend
    <3>6. /\ D[MAX_ORDER] = Joined(n - 1)
          /\ \A k \in Lists : k # MAX_ORDER => D[k] = {}
      BY <1>4, <3>2
    <3>7. \A c \in D[MAX_ORDER] : b < c
      BY <3>5, <3>6
    <3>8. \A k \in Lists : b \notin D[k]
      BY <3>5, <3>6, <3>7, HeadersType
    <3>9. f[n] = JoinTop(m, b)
      BY <1>2, <2>4, <2>6, <3>2, <3>4 DEF JoinsTops
    <3>10. PICK u : u = Unlink(m, b)
      OBVIOUS
    <3>11. GoodLinks(AddTo(u, MAX_ORDER, b, {}), [D EXCEPT ![MAX_ORDER] = @ \cup {b}], {})
      <4>1. GoodLinks(u, D, {} \cup {b})
        BY <3>3, <3>5, <3>8, <3>10, UnlinkGood
      <4>2. GoodLinks(u, D, {})
        BY <4>1, FewerClean
      <4> QED
        BY <1>4, <3>5, <3>7, <3>8, <4>2, AddToGood
    <3>12. Joined(n) = Joined(n - 1) \cup {b}
      BY <1>1, <3>1, <3>4
    <3>13. [D EXCEPT ![MAX_ORDER] = @ \cup {b}] = [B EXCEPT ![MAX_ORDER] = Joined(n)]
      <4> HIDE DEF Joined
      <4> QED
        BY <1>4, <3>2, <3>6, <3>12
    <3> QED
      BY <2>4, <3>9, <3>10, <3>11, <3>13 DEF JoinTop
  <2> QED
    BY <2>5, <2>6
<1>6. Joined(N) = TopBlocks(brk + Gap)
  BY <1>1, TopsAreAll
<1>7. N \in 0 .. N
  BY <1>1
<1> QED
  BY <1>2, <1>3, <1>5, <1>6, <1>7

LEMMA FirstLinks ==
  ASSUME IInv, ListsKnown, FirstAllocator, Become(TopsLinked)
  PROVE  LinksOK'
<1>1. HeapType /\ HeapOK /\ brk \in 1 .. BRK_LIMIT /\ brk \in Nat
  BY StateFacts, Malloc3Assumption DEF BrkOK
<1>2. live = {} /\ live' = TopBlocks(brk + Gap)
  BY FirstAllocatorBlocks DEF FirstAllocator
<1>3. TopBlocks(brk + Gap) \subseteq Headers
  BY <1>1, <1>2, FirstAllocatorKeeps DEF HeapType
<1>4. PICK B3 : B3 = [Blocklists EXCEPT ![MAX_ORDER] = TopBlocks(brk + Gap)]
  OBVIOUS
<1>5. GoodLinks(TopsLinked, B3, {})
  BY <1>1, <1>2, <1>3, <1>4, TopsJoin
<1>6. B3 \in [Lists -> SUBSET Headers]
  BY <1>5 DEF GoodLinks
<1>7. /\ MAX_ORDER \in Orders /\ MAX_ORDER \in Lists /\ mmaped # MAX_ORDER
      /\ \A k \in Lists : Blocklists[k] = {} /\ Blocklists \in [Lists -> SUBSET Headers]
  BY <1>2, NoListsGood, ListsFacts, OrdersType DEF GoodLinks
<1>8. \A j \in Orders : OnList(j)' = B3[j]
  <2>1. ASSUME NEW j \in Orders PROVE OnList(j)' = B3[j]
    <3>1. freeBlockListArray'[j] = IF j = MAX_ORDER THEN TopList ELSE FL!EmptyList
      BY DEF FirstAllocator
    <3>2. j \in Lists /\ B3[j] = IF j = MAX_ORDER THEN TopBlocks(brk + Gap) ELSE {}
      BY <1>4, <1>7, ListsFacts
    <3> QED
      BY <3>1, <3>2 DEF OnList, TopList, FL!EmptyList
  <2> QED
    BY <2>1
<1>9. B3[mmaped] = mmapedList.blocks /\ mmapedList' = mmapedList
  BY <1>4, <1>7, ListsFacts DEF FirstAllocator
<1>10. Blocklists' = B3
  BY <1>6, <1>8, <1>9, ListsBecome
<1> QED
  <2>1. B3[MAX_ORDER] = TopBlocks(brk + Gap)
    BY <1>4, <1>7
  <2> QED
    BY <1>2, <1>5, <1>7, <1>10, <2>1, BecomesGood

----------------------------------------------------------------------------
(* The allocator with its links.                                           *)

LEMMA InitLinks ==
  ASSUME LinkedInit
  PROVE  LinksOK /\ WalkOK
<1>1. \A k \in Lists : Blocklists[k] = {}
  BY DEF LinkedInit, Init, Blocklists, OnList, Lists, FL!EmptyList
<1>2. /\ Links.ends = [k \in Lists |-> NoEnds]
      /\ Links.next = [a \in Headers |-> NULL] /\ Links.prev = [a \in Headers |-> NULL]
  BY DEF LinkedInit, Links
<1>3. Links \in LinkStates
  BY DEF LinkedInit, Links, LinkStates, NoEnds, Pointers, Fields
<1>4. ASSUME NEW k \in Lists PROVE IsLinked(ListOf(Links, k), Blocklists[k])
  <2>1. ListOf(Links, k).head = NULL /\ ListOf(Links, k).tail = NULL
    BY <1>2 DEF ListOf, NoEnds
  <2> QED
    BY <1>1, <2>1 DEF IsLinked, ML!First, ML!Last, NULL, ML!NULL
<1>5. \A h \in Headers : Unlisted(h)
  BY DEF LinkedInit, Unlisted, Words
<1> QED
  BY <1>3, <1>4, <1>5 DEF LinksOK, WalkOK, LinkedInit

\* Until the code follows a word that is no pointer, its lists are right.
LinksKept == IInv /\ GetInv /\ (~astray => LinksOK /\ WalkOK)

LEMMA KeptKnown ==
  ASSUME LinksKept, ~astray
  PROVE  IInv /\ ListsKnown /\ WalkOK
<1>1. CountInv
  BY CountsMeaning DEF LinksKept
<1> QED
  BY <1>1, StateFacts DEF LinksKept, ListsKnown, CountInv, ListsExact

\* The steps that follow links.
LEMMA FollowingKeeps ==
  ASSUME IInv, ListsKnown, FollowingStep
  PROVE  Step /\ (~astray' => LinksOK')
<1>1. CASE LinkedTight \/ LinkedHigher
  BY <1>1, LinkedTightSteps, LinkedHigherSteps DEF Step
<1>2. CASE LinkedMunmap
  BY <1>2, MunmapLinks DEF LinkedMunmap, Step
<1>3. CASE LinkedMerge
  BY <1>3, MergeLinks DEF LinkedMerge, Step
<1>4. CASE \/ SreallocReuse /\ ListedUsed(call.old, findTightOrder(size[call.old]))
           \/ GrowReturn /\ ListedUsed(call.blk, Tight)
  BY <1>4, ReallocLinks DEF Step
<1> QED
  BY <1>1, <1>2, <1>3, <1>4 DEF FollowingStep

\* The steps that only write links.
LEMMA ListingKeeps ==
  ASSUME IInv, ListsKnown, ListingStep, ~astray'
  PROVE  Step /\ LinksOK'
<1>1. CASE FirstAllocatorFails /\ Become(NoLists)
  BY <1>1, FirstFailsLinks DEF Step
<1>2. CASE FirstAllocator /\ Become(TopsLinked)
  BY <1>2, FirstLinks DEF Step
<1>3. CASE LinkedMmap
  BY <1>3, MmapLinks DEF LinkedMmap, Step
<1>4. CASE LinkedNone
  BY <1>4, LinkedNoneSteps DEF Step
<1>5. CASE LinkedSplit
  BY <1>5, SplitLinks DEF LinkedSplit, Step
<1>6. CASE LinkedMemset
  BY <1>6, MemsetLinks DEF LinkedMemset, Step
<1>7. CASE LinkedMemmove
  BY <1>7, MemmoveLinks DEF LinkedMemmove, Step
<1>8. CASE SfreeAlone /\ ListedFree(call.blk)
  BY <1>8, AloneLinks DEF Step
<1>9. CASE SreallocMerges /\ IF is_free[call.old] THEN UNCHANGED links
                                                  ELSE ListedFree(call.old)
  BY <1>9, ReallocLinks DEF Step
<1> QED
  BY <1>1, <1>2, <1>3, <1>4, <1>5, <1>6, <1>7, <1>8, <1>9 DEF ListingStep

LEMMA LinkedStepKeeps ==
  ASSUME LinksKept, LinkedStep
  PROVE  (Step \/ UNCHANGED vars) /\ (~astray' => LinksOK' /\ WalkOK')
<1>1. IInv /\ ListsKnown /\ WalkOK /\ ~astray
  BY KeptKnown DEF LinkedStep
<1>2. CASE ExistsBegins \/ ExistsWalks
  <2>1. UNCHANGED vars
    BY <1>2 DEF ExistsBegins, ExistsWalks
  <2> QED
    BY <1>1, <1>2, <2>1, WalkKeeps
<1>3. CASE LinkedMergeStop
  <2>1. MergeStop /\ LinksOK' /\ current' = NULL
    BY <1>1, <1>3, MergeStopSteps DEF LinkedMergeStop
  <2> QED
    BY <2>1 DEF Step, WalkOK
<1>4. ASSUME current = NULL, UNCHANGED current,
             \/ FollowingStep
             \/ ListingStep /\ UNCHANGED astray
             \/ OtherStep /\ UNCHANGED <<links, astray>>
      PROVE  Step /\ (~astray' => LinksOK' /\ WalkOK')
  <2>1. WalkOK'
    BY <1>4 DEF WalkOK
  <2>2. CASE FollowingStep
    BY <1>1, <2>1, <2>2, FollowingKeeps
  <2>3. CASE ListingStep /\ UNCHANGED astray
    BY <1>1, <2>1, <2>3, ListingKeeps
  <2>4. CASE OtherStep /\ UNCHANGED <<links, astray>>
    <3>1. Step
      BY <2>4 DEF OtherStep, Step
    <3> QED
      BY <1>1, <2>1, <2>4, <3>1, OtherLinks
  <2> QED
    BY <1>4, <2>2, <2>3, <2>4
<1> QED
  BY <1>2, <1>3, <1>4 DEF LinkedStep

\* Between calls no loop is under way.
LEMMA LinkedClientKeeps ==
  ASSUME LinksKept, LinkedClient
  PROVE  [Next]_vars /\ LinksOK' /\ WalkOK'
<1>1. IInv /\ ListsKnown /\ WalkOK /\ ~astray
  BY KeptKnown DEF LinkedClient
<1>2. ~At("merge")
  <2>1. CASE Call
    BY <2>1 DEF Call, CallWith, Idle, At
  <2>2. CASE ClientWrites \/ ForeignSbrk \/ Halted \/ ClientWritesLinks
    BY <2>2 DEF ClientWrites, ForeignSbrk, Halted, Dead, ClientWritesLinks, At
  <2> QED
    BY <2>1, <2>2 DEF LinkedClient
<1>3. current = NULL /\ current' = current
  BY <1>1, <1>2 DEF WalkOK, Looking, LinkedClient
<1>4. WalkOK'
  BY <1>3 DEF WalkOK
<1>5. CASE (Call \/ ClientWrites \/ ForeignSbrk \/ Halted) /\ UNCHANGED links
  BY <1>1, <1>4, <1>5, OtherLinks DEF Next
<1>6. CASE ClientWritesLinks
  BY <1>1, <1>4, <1>6, ClientWritesLinksKeeps DEF ClientWritesLinks
<1> QED
  BY <1>5, <1>6 DEF LinkedClient

LEMMA LinksNext ==
  ASSUME LinksKept, [LinkedNext]_linkedVars
  PROVE  [Next]_vars /\ LinksKept'
<1>1. [Next]_vars /\ (~astray' => LinksOK' /\ WalkOK')
  <2>1. CASE LinkedStep
    BY <2>1, LinkedStepKeeps DEF Next
  <2>2. CASE LinkedClient
    BY <2>2, LinkedClientKeeps
  <2>3. CASE Undefined
    BY <2>3 DEF Undefined, linkedVars
  <2>4. CASE UNCHANGED linkedVars
    <3>1. UNCHANGED <<vars, links, current, astray>>
      BY <2>4 DEF linkedVars
    <3>2. ASSUME ~astray' PROVE LinksOK' /\ WalkOK'
      <4>1. IInv /\ ListsKnown /\ WalkOK
        BY <3>1, <3>2, KeptKnown
      <4>2. LinksOK'
        BY <3>1, <4>1, OtherLinks
      <4>3. /\ freeBlockListArray' = freeBlockListArray /\ size' = size
            /\ call' = call /\ is_free' = is_free /\ current' = current
        BY <3>1 DEF vars, heap, headers
      <4>4. WalkOK'
        BY <4>1, <4>3 DEF WalkOK, Looking, At, OnList, CanMerge, findBuddyAddress
      <4> QED
        BY <4>2, <4>4
    <3> QED
      BY <3>1, <3>2
  <2> QED
    BY <2>1, <2>2, <2>3, <2>4 DEF LinkedNext
<1>2. IInv' /\ GetInv'
  BY <1>1, NextKeeps, CountsNext DEF LinksKept
<1> QED
  BY <1>1, <1>2 DEF LinksKept

LEMMA LinksInvariant == LinkedSpec => []LinksKept
<1>1. LinkedInit => LinksKept
  BY InitLinks, InitKeeps, InitCounts DEF LinkedInit, LinksKept
<1>2. LinksKept /\ [LinkedNext]_linkedVars => LinksKept'
  BY LinksNext
<1> QED
  BY <1>1, <1>2, PTL DEF LinkedSpec

(* smalloc that takes the head of a list and sfree that walks along one do *)
(* step by step what the allocator does whose lists are sets, so that all  *)
(* that is proved of Malloc3 is true of the code's pointers: whatever the  *)
(* clients write over headers, until a pointer is followed that is none.   *)
THEOREM LinksImplementLists == LinkedSpec => ImplementsSets
<1>1. LinkedInit => Init
  BY DEF LinkedInit
<1>2. LinksKept /\ [LinkedNext]_linkedVars => [Next]_vars
  BY LinksNext
<1> QED
  BY <1>1, <1>2, LinksInvariant, PTL DEF LinkedSpec, ImplementsSets, Safety

(* At every step of every handler each list, followed from its head or     *)
(* from its tail, is the set of the free blocks of its order, and what the *)
(* client wrote is only where a list ends: whatever words the clients      *)
(* write, until the code follows one.                                      *)
THEOREM LinksAgreeAlways == LinkedSpec => []LinksAgree
<1>1. LinksKept => LinksAgree
  BY DEF LinksKept, LinksOK, LinksAgree
<1> QED
  BY <1>1, LinksInvariant, PTL
=============================================================================
