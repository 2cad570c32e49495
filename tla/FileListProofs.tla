--------------------------- MODULE FileListProofs ---------------------------
(***************************************************************************)
(* The linked list of datafiles, for every set of file IDs and every order *)
(* in which they are added: add_file_to_linked_list keeps it linked both   *)
(* ways in the order of the IDs, so that the walk by previous, as the      *)
(* compactor and keydir_recover make it, visits every file once, the       *)
(* oldest first.                                                           *)
(***************************************************************************)
EXTENDS FileList, FiniteSetTheorems, SequenceTheorems, WellFoundedInduction, TLAPS

-----------------------------------------------------------------------------
(* Induction *)

\* Every non-empty set of naturals has a least element.
LEMMA LeastNat ==
    ASSUME NEW S \in SUBSET Nat, S # {}
    PROVE  \E m \in S : \A n \in S : m <= n
<1>1. PICK x \in S : \A y \in S : ~(<<y, x>> \in OpToRel(<, Nat))
  BY WFMin, NatLessThanWellFounded
<1>2. OpToRel(<, Nat) = {ss \in Nat \X Nat : ss[1] < ss[2]}
  BY Zenon DEF OpToRel
<1>3. \A y \in S : ~(<<y, x>> \in {ss \in Nat \X Nat : ss[1] < ss[2]})
  BY <1>1, <1>2, Zenon
<1>4. ASSUME NEW y \in S, y < x PROVE FALSE
  <2> DEFINE p == <<y, x>>
  <2>1. p \in Nat \X Nat /\ p[1] < p[2]
    BY <1>4
  <2>2. p \notin {ss \in Nat \X Nat : ss[1] < ss[2]}
    BY <1>3
  <2> HIDE DEF p
  <2> QED BY <2>1, <2>2, Zenon
<1>5. \A y \in S : x <= y
  BY <1>4
<1> QED BY <1>5

\* Every non-empty, bounded set of naturals has a greatest element.
LEMMA GreatestNat ==
    ASSUME NEW S \in SUBSET Nat, S # {}, NEW b \in Nat, \A s \in S : s <= b
    PROVE  \E m \in S : \A n \in S : n <= m
<1> DEFINE T == {n \in Nat : n <= b /\ b - n \in S}
<1>1. T \in SUBSET Nat /\ T # {}
  <2>1. PICK s \in S : TRUE
    OBVIOUS
  <2>2. b - s \in Nat /\ b - s <= b /\ b - (b - s) = s
    BY <2>1
  <2> QED BY <2>1, <2>2
<1>2. PICK m \in T : \A n \in T : m <= n
  <2> HIDE DEF T
  <2> QED BY <1>1, LeastNat
<1>3. m \in Nat /\ m <= b /\ b - m \in S
  BY <1>2
<1>4. ASSUME NEW n \in S PROVE n <= b - m
  <2>1. b - n \in Nat /\ b - n <= b /\ b - (b - n) = n
    OBVIOUS
  <2>2. b - n \in T
    BY <2>1
  <2>3. m <= b - n
    <3> HIDE DEF T
    <3> QED BY <2>2, <1>2
  <2> QED BY <1>3, <2>1, <2>3
<1> QED BY <1>3, <1>4

\* Induction from a up to b.
LEMMA UpTo ==
    ASSUME NEW a \in Nat, NEW b \in Nat, NEW Good, a \in Good,
           \A n \in Nat : a <= n /\ n < b /\ n \in Good => n + 1 \in Good
    PROVE  \A n \in a .. b : n \in Good
<1> SUFFICES ASSUME NEW x \in a .. b, x \notin Good PROVE FALSE
  OBVIOUS
<1> DEFINE S == {n \in Nat : a <= n /\ n <= b /\ n \notin Good}
<1>1. S \in SUBSET Nat /\ S # {}
  BY x \in S
<1>2. PICK m \in S : \A n \in S : m <= n
  <2> HIDE DEF S
  <2> QED BY <1>1, LeastNat
<1>3. m \in Nat /\ a <= m /\ m <= b /\ m \notin Good
  BY <1>2
<1>4. m # a
  BY <1>3
<1>5. m - 1 \in Nat /\ a <= m - 1 /\ m - 1 < b /\ m - 1 + 1 = m
  BY <1>3, <1>4
<1>6. m - 1 \notin S
  <2> HIDE DEF S
  <2> QED BY <1>2, <1>3
<1>7. m - 1 \in Good
  BY <1>5, <1>6
<1> QED BY <1>3, <1>5, <1>7
-----------------------------------------------------------------------------
(* Linked lists *)

\* The list l links the files ids: by next to the next lower ID, by previous to the
\* next higher one.
IsList(l) == l = List(l.head, l.tail, l.next, l.previous)
Below(n, c, ids) == n \in {d \in ids : d < c} \cup {Null} /\ \A d \in ids : d < c => d <= n
Above(p, c, ids) == /\ p \in {d \in ids : c < d} \cup {Null}
                    /\ \A d \in ids : c < d => p # Null /\ p <= d
Linked(l, ids) ==
    /\ IsList(l) /\ ids \in SUBSET Nat
    /\ l.next = [c \in ids |-> l.next[c]] /\ l.previous = [c \in ids |-> l.previous[c]]
    /\ \A c \in ids : Below(l.next[c], c, ids) /\ Above(l.previous[c], c, ids)
    /\ l.head \in ids \cup {Null} /\ \A d \in ids : d <= l.head
    /\ l.tail \in ids \cup {Null} /\ \A d \in ids : l.tail # Null /\ l.tail <= d

\* The first node that is not higher than id, or Null: what the loop looks for.
FirstNotHigher(f, id, ids) == f \in {d \in ids : d <= id} \cup {Null} /\ \A d \in ids : d <= id => d <= f

\* No list is linked to more than its files.
LEMMA LinkedDomains ==
    ASSUME NEW l, NEW ids, Linked(l, ids)
    PROVE  DOMAIN l.next = ids /\ DOMAIN l.previous = ids
BY DEF Linked

\* The loop that skips the higher nodes ends at the first one that is not higher.
LEMMA SkipEnds ==
    ASSUME NEW l, NEW ids, Linked(l, ids), NEW id \in Nat, l.head # Null
    PROVE  LET skip[c \in DOMAIN l.next \cup {Null}] ==
                   IF c # Null /\ c > id THEN skip[l.next[c]] ELSE c
           IN  FirstNotHigher(skip[l.head], id, ids)
<1> DEFINE C == ids \cup {Null}
           Solves(s) == s = [c \in C |-> IF c # Null /\ c > id THEN s[l.next[c]] ELSE c]
<1>0. /\ ids \in SUBSET Nat /\ l.head \in ids /\ \A d \in ids : d <= l.head
      /\ DOMAIN l.next = ids
      /\ \A c \in ids : Below(l.next[c], c, ids)
  BY DEF Linked
<1>1. \E t : FirstNotHigher(t, id, ids)
  <2> DEFINE S == {d \in ids : d <= id}
  <2>1. CASE S = {}
    BY <2>1 DEF FirstNotHigher, Null
  <2>2. CASE S # {}
    <3>1. S \in SUBSET Nat /\ \A s \in S : s <= id
      BY <1>0
    <3>2. PICK m \in S : \A n \in S : n <= m
      <4> HIDE DEF S
      <4> QED BY <3>1, <2>2, GreatestNat
    <3> QED BY <3>2 DEF FirstNotHigher
  <2> QED BY <2>1, <2>2
<1>2. PICK t : FirstNotHigher(t, id, ids)
  BY <1>1
<1>3. ASSUME NEW c \in ids, c > id
      PROVE  l.next[c] \in C /\ ((l.next[c] # Null /\ l.next[c] > id) \/ l.next[c] = t)
  <2>1. PICK n : n = l.next[c] /\ Below(n, c, ids)
    BY <1>0
  <2>2. n \in C /\ (n # Null => n < c /\ n \in Nat) /\ \A d \in ids : d < c => d <= n
    BY <2>1, <1>0 DEF Below
  <2>3. t \in C /\ (t # Null => t <= id /\ t \in Nat) /\ \A d \in ids : d <= id => d <= t
    BY <1>2, <1>0 DEF FirstNotHigher
  <2>4. CASE n = Null
    <3>1. t = Null
      BY <2>2, <2>3, <2>4, <1>0, <1>3 DEF Null
    <3> QED BY <2>1, <2>2, <2>4, <3>1
  <2>5. CASE n # Null /\ ~(n > id)
    <3>1. n \in ids /\ n \in Nat /\ n <= id /\ n <= t
      BY <2>2, <2>3, <2>5, <1>0
    <3>2. t # Null /\ t \in ids /\ t \in Nat /\ t <= id /\ t < c
      BY <2>3, <3>1, <1>3, <1>0 DEF Null
    <3>3. t <= n
      BY <2>2, <3>2
    <3> QED BY <2>1, <2>2, <3>1, <3>2, <3>3
  <2> QED BY <2>1, <2>2, <2>4, <2>5
<1>4. \E s : Solves(s)
  <2>0. t = Null \/ ~(t > id)
    <3>1. t = Null \/ (t \in ids /\ t <= id)
      BY <1>2, Zenon DEF FirstNotHigher
    <3>2. ASSUME NEW d \in Nat, d <= id PROVE ~(d > id)
      BY <3>2
    <3>3. \A d \in ids : d \in Nat
      BY <1>0, Zenon
    <3> QED BY <3>1, <3>2, <3>3, Zenon
  <2> DEFINE s == [c \in C |-> IF c # Null /\ c > id THEN t ELSE c]
  <2>1. t \in C
    BY <1>2 DEF FirstNotHigher
  <2>2. ASSUME NEW c \in C PROVE s[c] = IF c # Null /\ c > id THEN s[l.next[c]] ELSE c
    <3>1. CASE c # Null /\ c > id
      <4>1. c \in ids /\ s[c] = t
        BY <3>1
      <4>2. l.next[c] \in C /\ ((l.next[c] # Null /\ l.next[c] > id) \/ l.next[c] = t)
        BY <4>1, <3>1, <1>3
      <4>3. s[l.next[c]] = t
        BY <4>2, <2>0
      <4> QED BY <4>1, <4>3, <3>1
    <3>2. CASE ~(c # Null /\ c > id)
      BY <3>2
    <3> QED BY <3>1, <3>2
  <2>3. s = [c \in C |-> s[c]]
    OBVIOUS
  <2> HIDE DEF s
  <2> QED BY <2>2, <2>3
<1> DEFINE skip == CHOOSE s : Solves(s)
<1>5. Solves(skip)
  <2> HIDE DEF Solves
  <2> QED BY <1>4
<1>6. \A c \in ids : c > id => skip[c] = skip[l.next[c]]
  <2> HIDE DEF skip
  <2> QED BY <1>5, <1>0 DEF Null
<1>7. skip[t] = t
  <2> HIDE DEF skip
  <2> QED BY <1>5, <1>2, <1>0 DEF FirstNotHigher, Null
<1>8. \A c \in ids : c > id => skip[c] = t
  <2> DEFINE S == {c \in ids : c > id /\ skip[c] # t}
  <2>0. S \in SUBSET Nat
    BY <1>0
  <2>1. CASE S = {}
    BY <2>1
  <2>2. CASE S # {}
    <3>1. PICK m \in S : \A n \in S : m <= n
      <4> HIDE DEF S
      <4> QED BY <2>0, <2>2, LeastNat
    <3>2. m \in ids /\ m > id /\ skip[m] # t
      BY <3>1
    <3> DEFINE n == l.next[m]
    <3>3. n \in C /\ ((n # Null /\ n > id) \/ n = t)
      BY <3>2, <1>3
    <3>4. skip[n] # t
      BY <3>2, <1>6
    <3>5. n # t /\ n \in ids /\ n > id
      BY <3>3, <3>4, <1>7
    <3>6. n \in S
      BY <3>4, <3>5
    <3>7. n < m
      BY <1>0, <3>2, <3>5 DEF Below, Null
    <3> HIDE DEF S, n
    <3> QED BY <3>1, <3>6, <3>7, <3>2, <3>5, <1>0
  <2> QED BY <2>1, <2>2
<1>9. skip[l.head] = t
  <2>1. CASE l.head > id
    BY <2>1, <1>8, <1>0
  <2>2. CASE ~(l.head > id)
    <3>1. t = l.head
      <4>0. l.head \in Nat
        BY <1>0
      <4>1. l.head \in Nat /\ l.head <= id
        BY <2>2, <4>0
      <4>2. l.head <= t /\ t \in ids \cup {Null}
        BY <4>1, <1>0, <1>2 DEF FirstNotHigher
      <4>3. t \in ids /\ t \in Nat
        BY <4>1, <4>2, <1>0 DEF Null
      <4> QED BY <4>1, <4>2, <4>3, <1>0
    <3> QED BY <3>1, <1>7
  <2> QED BY <2>1, <2>2
<1> HIDE DEF skip
<1>10. skip = CHOOSE s : s = [c \in DOMAIN l.next \cup {Null} |->
                                 IF c # Null /\ c > id THEN s[l.next[c]] ELSE c]
  BY <1>0, Zenon DEF skip
<1>11. FirstNotHigher(skip[l.head], id, ids)
  BY <1>9, <1>2
<1> QED BY <1>10, <1>11, Zenon

-----------------------------------------------------------------------------
(* add_file_to_linked_list *)

\* m is l with id put between n and p.
Inserted(m, l, ids, id, n, p) ==
    /\ IsList(m)
    /\ m.next = [c \in ids \cup {id} |-> m.next[c]]
    /\ m.previous = [c \in ids \cup {id} |-> m.previous[c]]
    /\ \A c \in ids \cup {id} :
          /\ m.next[c] = IF c = id THEN n ELSE IF c = p THEN id ELSE l.next[c]
          /\ m.previous[c] = IF c = id THEN p ELSE IF c = n THEN id ELSE l.previous[c]
    /\ m.head = IF p = Null THEN id ELSE l.head
    /\ m.tail = IF n = Null THEN id ELSE l.tail

\* A file put between its two neighbours leaves the list linked.
LEMMA InsertKeepsLinked ==
    ASSUME NEW l, NEW ids, Linked(l, ids), NEW id \in Nat, id \notin ids,
           NEW n, Below(n, id, ids), NEW p, Above(p, id, ids),
           NEW m, Inserted(m, l, ids, id, n, p)
    PROVE  Linked(m, ids \cup {id})
<1> DEFINE all == ids \cup {id}
<1>0. /\ ids \in SUBSET Nat
      /\ \A c \in ids : Below(l.next[c], c, ids) /\ Above(l.previous[c], c, ids)
      /\ l.head \in ids \cup {Null} /\ \A d \in ids : d <= l.head
      /\ l.tail \in ids \cup {Null} /\ \A d \in ids : l.tail # Null /\ l.tail <= d
  BY DEF Linked
<1>1. /\ n \in ids \cup {Null} /\ (n # Null => n < id) /\ \A d \in ids : d < id => d <= n
      /\ p \in ids \cup {Null} /\ (p # Null => id < p)
      /\ \A d \in ids : id < d => p # Null /\ p <= d
  BY DEF Below, Above
<1>2. /\ \A c \in all : m.next[c] = IF c = id THEN n ELSE IF c = p THEN id ELSE l.next[c]
      /\ \A c \in all : m.previous[c] = IF c = id THEN p ELSE IF c = n THEN id ELSE l.previous[c]
      /\ m.next = [c \in all |-> m.next[c]] /\ m.previous = [c \in all |-> m.previous[c]]
      /\ m.head = IF p = Null THEN id ELSE l.head
      /\ m.tail = IF n = Null THEN id ELSE l.tail
      /\ IsList(m)
  BY DEF Inserted
<1>3. all \in SUBSET Nat
  BY <1>0
<1>4. ASSUME NEW c \in all PROVE Below(m.next[c], c, all)
  <2>1. CASE c = id
    BY <2>1, <1>2, <1>1, <1>0 DEF Below
  <2>2. CASE c # id /\ c = p
    <3>1. m.next[c] = id /\ id < c /\ c \in Nat
      BY <2>2, <1>1, <1>2, <1>0 DEF Null
    <3>2. ASSUME NEW d \in all, d < c PROVE d <= id
      <4>1. d \in Nat
        BY <1>3
      <4>2. ~(id < d)
        BY <1>1, <1>0, <3>2, <2>2, <4>1, <3>1
      <4> QED BY <4>1, <4>2
    <3> QED BY <3>1, <3>2 DEF Below
  <2>3. CASE c # id /\ c # p
    <3>1. PICK x : x = l.next[c] /\ m.next[c] = x /\ Below(x, c, ids) /\ c \in ids /\ c \in Nat
      BY <2>3, <1>2, <1>0
    <3>2. x \in {d \in all : d < c} \cup {Null} /\ \A d \in ids : d < c => d <= x
      BY <3>1 DEF Below
    <3>3. ASSUME id < c PROVE id <= x
      <4>1. p \in ids /\ p <= c /\ p # c /\ p \in Nat /\ id < p
        BY <1>1, <3>1, <3>3, <2>3, <1>0
      <4>2. p < c
        BY <4>1, <3>1
      <4>3. p <= x
        BY <4>1, <4>2, <3>2
      <4>4. x \in Nat \cup {-1}
        BY <3>2, <1>3 DEF Null
      <4> QED BY <4>1, <4>3, <4>4
    <3> QED BY <3>1, <3>2, <3>3 DEF Below
  <2> QED BY <2>1, <2>2, <2>3
<1>5. ASSUME NEW c \in all PROVE Above(m.previous[c], c, all)
  <2>1. CASE c = id
    BY <2>1, <1>2, <1>1, <1>0 DEF Above
  <2>2. CASE c # id /\ c = n
    <3>1. m.previous[c] = id /\ c < id /\ c \in Nat /\ id # Null
      BY <2>2, <1>1, <1>2, <1>0 DEF Null
    <3>2. ASSUME NEW d \in all, c < d PROVE id <= d
      <4>1. d \in Nat
        BY <1>3
      <4>2. ~(d < id)
        BY <1>1, <1>0, <3>2, <2>2, <4>1, <3>1
      <4> QED BY <4>1, <4>2
    <3> QED BY <3>1, <3>2 DEF Above
  <2>3. CASE c # id /\ c # n
    <3>1. PICK x : x = l.previous[c] /\ m.previous[c] = x /\ Above(x, c, ids) /\ c \in ids /\ c \in Nat
      BY <2>3, <1>2, <1>0
    <3>2. /\ x \in {d \in all : c < d} \cup {Null}
          /\ \A d \in ids : c < d => x # Null /\ x <= d
      BY <3>1 DEF Above
    <3>3. ASSUME c < id PROVE x # Null /\ x <= id
      <4>1. n \in ids \cup {Null} /\ c <= n
        BY <1>1, <3>1, <3>3
      <4>2. n \in ids /\ n \in Nat /\ c < n /\ n < id
        BY <4>1, <3>1, <2>3, <1>0, <1>1 DEF Null
      <4>3. x # Null /\ x <= n
        BY <4>2, <3>2
      <4>4. x \in Nat
        BY <3>2, <4>3, <1>3
      <4> QED BY <4>2, <4>3, <4>4
    <3> QED BY <3>1, <3>2, <3>3 DEF Above
  <2> QED BY <2>1, <2>2, <2>3
<1>6. m.head \in all \cup {Null} /\ \A d \in all : d <= m.head
  <2>1. CASE p = Null
    <3>1. m.head = id
      BY <2>1, <1>2
    <3>2. ASSUME NEW d \in all PROVE d <= id
      <4>1. d \in Nat /\ ~(id < d)
        BY <2>1, <1>1, <1>3
      <4> QED BY <4>1
    <3> QED BY <3>1, <3>2
  <2>2. CASE p # Null
    <3>1. m.head = l.head /\ p \in ids /\ p \in Nat /\ id < p /\ p <= l.head
      BY <2>2, <1>2, <1>1, <1>0
    <3>2. l.head \in Nat \cup {-1}
      BY <1>0 DEF Null
    <3>3. id <= l.head
      BY <3>1, <3>2
    <3> QED BY <3>1, <3>3, <1>0
  <2> QED BY <2>1, <2>2
<1>7. m.tail \in all \cup {Null} /\ \A d \in all : m.tail # Null /\ m.tail <= d
  <2>1. CASE n = Null
    <3>1. m.tail = id /\ id # Null
      BY <2>1, <1>2 DEF Null
    <3>2. ASSUME NEW d \in all PROVE id <= d
      <4>1. d \in Nat /\ ~(d < id)
        BY <2>1, <1>1, <1>3 DEF Null
      <4> QED BY <4>1
    <3> QED BY <3>1, <3>2
  <2>2. CASE n # Null
    <3>1. m.tail = l.tail /\ n \in ids /\ n \in Nat /\ n < id /\ l.tail <= n /\ l.tail # Null
      BY <2>2, <1>2, <1>1, <1>0
    <3>2. l.tail \in Nat
      BY <1>0, <3>1
    <3>3. l.tail <= id
      BY <3>1, <3>2
    <3> QED BY <3>1, <3>3, <1>0
  <2> QED BY <2>1, <2>2
<1> HIDE DEF all
<1>8. Linked(m, all)
  BY <1>2, <1>3, <1>4, <1>5, <1>6, <1>7 DEF Linked
<1> QED BY <1>8 DEF all
\* The fields of a list.
LEMMA ListFields ==
    ASSUME NEW h, NEW t, NEW n, NEW p
    PROVE  LET l == List(h, t, n, p)
           IN  IsList(l) /\ l.head = h /\ l.tail = t /\ l.next = n /\ l.previous = p
BY DEF IsList, List

\* q is ptr with another node, id, that points to n.
Pointing(q, ptr, ids, id, n) ==
    /\ q = [c \in ids \cup {id} |-> q[c]]
    /\ \A c \in ids \cup {id} : q[c] = IF c = id THEN n ELSE ptr[c]

\* q is ptr with another node, id, that points to n, and with x pointing to y.
PointingTwice(q, ptr, ids, id, n, x, y) ==
    /\ q = [c \in ids \cup {id} |-> q[c]]
    /\ \A c \in ids \cup {id} : q[c] = IF c = x THEN y ELSE IF c = id THEN n ELSE ptr[c]

\* What Point sets.
LEMMA PointIs ==
    ASSUME NEW ptr, NEW ids, DOMAIN ptr = ids, NEW id, NEW n
    PROVE  Pointing(Point(ptr, id, n), ptr, ids, id, n)
BY DEF Point, Pointing

\* ... and with two set.
LEMMA PointTwice ==
    ASSUME NEW ptr, NEW ids, DOMAIN ptr = ids, NEW id, NEW n, NEW x \in ids, NEW y
    PROVE  PointingTwice(Point(Point(ptr, id, n), x, y), ptr, ids, id, n, x, y)
<1>1. PICK q : q = Point(ptr, id, n)
  OBVIOUS
<1>2. /\ DOMAIN q = ids \cup {id}
      /\ \A c \in ids \cup {id} : q[c] = IF c = id THEN n ELSE ptr[c]
  BY <1>1 DEF Point
<1>3. DOMAIN q \cup {x} = ids \cup {id}
  BY <1>2
<1>4. Point(q, x, y) = [c \in ids \cup {id} |-> IF c = x THEN y ELSE q[c]]
  BY <1>3, Zenon DEF Point
<1> QED BY <1>1, <1>2, <1>4 DEF PointingTwice

\* add_file_to_linked_list keeps the list linked.
LEMMA AddFileKeepsLinked ==
    ASSUME NEW l, NEW ids, Linked(l, ids), NEW id \in Nat, id \notin ids
    PROVE  Linked(AddFile(l, id), ids \cup {id})
<1> DEFINE Solves(s) == s = [c \in DOMAIN l.next \cup {Null} |->
                                IF c # Null /\ c > id THEN s[l.next[c]] ELSE c]
           skip == CHOOSE s : Solves(s)
           curr == skip[l.head]
           newer == l.previous[curr]
<1>0. /\ DOMAIN l.next = ids /\ DOMAIN l.previous = ids /\ ids \in SUBSET Nat
      /\ \A c \in ids : Below(l.next[c], c, ids) /\ Above(l.previous[c], c, ids)
      /\ l.head \in ids \cup {Null} /\ \A d \in ids : d <= l.head
      /\ l.tail \in ids \cup {Null} /\ \A d \in ids : l.tail # Null /\ l.tail <= d
  BY DEF Linked
<1>1. AddFile(l, id) =
        IF l.head = Null
        THEN List(id, id, Point(l.next, id, Null), Point(l.previous, id, Null))
        ELSE IF id > l.head
        THEN List(id, l.tail, Point(l.next, id, l.head),
                  Point(Point(l.previous, id, Null), l.head, id))
        ELSE IF curr = Null
        THEN List(l.head, id, Point(Point(l.next, id, Null), l.tail, id),
                  Point(l.previous, id, l.tail))
        ELSE List(l.head, l.tail,
                  IF newer = Null THEN Point(l.next, id, curr)
                  ELSE Point(Point(l.next, id, curr), newer, id),
                  Point(Point(l.previous, id, newer), curr, id))
  BY Zenon DEF AddFile
<1>2. l.head # Null => FirstNotHigher(curr, id, ids)
  BY SkipEnds, Zenon
<1> HIDE DEF Solves, skip, curr, newer
<1> SUFFICES \E n, p : Below(n, id, ids) /\ Above(p, id, ids)
                       /\ Inserted(AddFile(l, id), l, ids, id, n, p)
  BY InsertKeepsLinked
<1>3. CASE l.head = Null
  <2>1. ids = {}
    BY <1>3, <1>0 DEF Null
  <2>2. Below(Null, id, ids) /\ Above(Null, id, ids)
    BY <2>1 DEF Below, Above
  <2>3. PICK m : m = List(id, id, Point(l.next, id, Null), Point(l.previous, id, Null))
    OBVIOUS
  <2>4. AddFile(l, id) = m
    BY <1>1, <1>3, <2>3
  <2>5. IsList(m) /\ m.head = id /\ m.tail = id /\ m.next = Point(l.next, id, Null)
        /\ m.previous = Point(l.previous, id, Null)
    BY <2>3, ListFields
  <2>6. /\ m.next = [c \in ids \cup {id} |-> m.next[c]]
        /\ \A c \in ids \cup {id} : m.next[c] =
              IF c = id THEN Null ELSE IF c = Null THEN id ELSE l.next[c]
    <3>1. PICK ptr, n : ptr = l.next /\ n = Null /\ DOMAIN ptr = ids
      BY <1>0
    <3>2. Pointing(Point(ptr, id, n), ptr, ids, id, n)
      BY <3>1, PointIs
    <3>3. \A c \in ids \cup {id} : c # Null
      BY <1>0 DEF Null
    <3> QED BY <3>1, <3>2, <3>3, <2>5 DEF Pointing
  <2>7. /\ m.previous = [c \in ids \cup {id} |-> m.previous[c]]
        /\ \A c \in ids \cup {id} : m.previous[c] =
              IF c = id THEN Null ELSE IF c = Null THEN id ELSE l.previous[c]
    <3>1. PICK ptr, n : ptr = l.previous /\ n = Null /\ DOMAIN ptr = ids
      BY <1>0
    <3>2. Pointing(Point(ptr, id, n), ptr, ids, id, n)
      BY <3>1, PointIs
    <3>3. \A c \in ids \cup {id} : c # Null
      BY <1>0 DEF Null
    <3> QED BY <3>1, <3>2, <3>3, <2>5 DEF Pointing
  <2>8. Inserted(m, l, ids, id, Null, Null)
    BY <2>5, <2>6, <2>7 DEF Inserted
  <2> QED BY <2>2, <2>4, <2>8
<1>4. CASE l.head # Null /\ id > l.head
  <2>0. l.head \in ids
    BY <1>4, <1>0
  <2>1. Below(l.head, id, ids) /\ Above(Null, id, ids)
    <3>1. ASSUME NEW d \in ids PROVE ~(id < d)
      <4>1. d \in Nat /\ l.head \in Nat /\ d <= l.head
        BY <1>0, <2>0
      <4> QED BY <4>1, <1>4
    <3> QED BY <2>0, <1>0, <1>4, <3>1 DEF Below, Above
  <2>3. PICK m : m = List(id, l.tail, Point(l.next, id, l.head),
                          Point(Point(l.previous, id, Null), l.head, id))
    OBVIOUS
  <2>4. AddFile(l, id) = m
    BY <1>1, <1>4, <2>3
  <2>5. IsList(m) /\ m.head = id /\ m.tail = l.tail /\ m.next = Point(l.next, id, l.head)
        /\ m.previous = Point(Point(l.previous, id, Null), l.head, id)
    BY <2>3, ListFields
  <2>6. /\ m.next = [c \in ids \cup {id} |-> m.next[c]]
        /\ \A c \in ids \cup {id} : m.next[c] =
              IF c = id THEN l.head ELSE IF c = Null THEN id ELSE l.next[c]
    <3>1. PICK ptr, n : ptr = l.next /\ n = l.head /\ DOMAIN ptr = ids
      BY <1>0
    <3>2. Pointing(Point(ptr, id, n), ptr, ids, id, n)
      BY <3>1, PointIs
    <3>3. \A c \in ids \cup {id} : c # Null
      BY <1>0 DEF Null
    <3> QED BY <3>1, <3>2, <3>3, <2>5 DEF Pointing
  <2>7. /\ m.previous = [c \in ids \cup {id} |-> m.previous[c]]
        /\ \A c \in ids \cup {id} : m.previous[c] =
              IF c = id THEN Null ELSE IF c = l.head THEN id ELSE l.previous[c]
    <3>1. PICK ptr, x, n : /\ ptr = l.previous /\ x = l.head /\ n = Null
                           /\ DOMAIN ptr = ids /\ x \in ids
      BY <1>0, <2>0
    <3>2. PointingTwice(Point(Point(ptr, id, n), x, id), ptr, ids, id, n, x, id)
      BY <3>1, PointTwice
    <3> QED BY <3>1, <3>2, <2>5 DEF PointingTwice
  <2>8. Inserted(m, l, ids, id, l.head, Null)
    BY <1>4, <2>5, <2>6, <2>7 DEF Inserted
  <2> QED BY <2>1, <2>4, <2>8
<1>5. CASE l.head # Null /\ ~(id > l.head) /\ curr = Null
  <2>0. l.head \in ids /\ l.tail \in ids /\ \A d \in ids : id < d
    <3>1. l.head \in ids /\ l.tail \in ids
      BY <1>5, <1>0
    <3>2. ASSUME NEW d \in ids PROVE id < d
      <4>1. d \in Nat /\ ~(d <= id)
        BY <1>0, <1>2, <1>5 DEF FirstNotHigher, Null
      <4> QED BY <4>1
    <3> QED BY <3>1, <3>2
  <2>1. Below(Null, id, ids) /\ Above(l.tail, id, ids)
    <3>1. \A d \in ids : ~(d < id)
      BY <2>0, <1>0
    <3> QED BY <3>1, <2>0, <1>0 DEF Below, Above
  <2>3. PICK m : m = List(l.head, id, Point(Point(l.next, id, Null), l.tail, id),
                          Point(l.previous, id, l.tail))
    OBVIOUS
  <2>4. AddFile(l, id) = m
    BY <1>1, <1>5, <2>3
  <2>5. IsList(m) /\ m.head = l.head /\ m.tail = id
        /\ m.next = Point(Point(l.next, id, Null), l.tail, id)
        /\ m.previous = Point(l.previous, id, l.tail)
    BY <2>3, ListFields
  <2>6. /\ m.next = [c \in ids \cup {id} |-> m.next[c]]
        /\ \A c \in ids \cup {id} : m.next[c] =
              IF c = id THEN Null ELSE IF c = l.tail THEN id ELSE l.next[c]
    <3>1. PICK ptr, x, n : /\ ptr = l.next /\ x = l.tail /\ n = Null
                           /\ DOMAIN ptr = ids /\ x \in ids
      BY <1>0, <2>0
    <3>2. PointingTwice(Point(Point(ptr, id, n), x, id), ptr, ids, id, n, x, id)
      BY <3>1, PointTwice
    <3> QED BY <3>1, <3>2, <2>5 DEF PointingTwice
  <2>7. /\ m.previous = [c \in ids \cup {id} |-> m.previous[c]]
        /\ \A c \in ids \cup {id} : m.previous[c] =
              IF c = id THEN l.tail ELSE IF c = Null THEN id ELSE l.previous[c]
    <3>1. PICK ptr, n : ptr = l.previous /\ n = l.tail /\ DOMAIN ptr = ids
      BY <1>0
    <3>2. Pointing(Point(ptr, id, n), ptr, ids, id, n)
      BY <3>1, PointIs
    <3>3. \A c \in ids \cup {id} : c # Null
      BY <1>0 DEF Null
    <3> QED BY <3>1, <3>2, <3>3, <2>5 DEF Pointing
  <2>8. Inserted(m, l, ids, id, Null, l.tail)
    <3>1. l.tail # Null
      BY <2>0, <1>0
    <3> QED BY <3>1, <2>5, <2>6, <2>7 DEF Inserted
  <2> QED BY <2>1, <2>4, <2>8
<1>6. CASE l.head # Null /\ ~(id > l.head) /\ curr # Null
  <2>0. l.head \in ids /\ curr \in ids /\ curr < id /\ curr \in Nat
        /\ \A d \in ids : d <= id => d <= curr
    <3>1. l.head \in ids /\ curr \in ids /\ curr <= id /\ \A d \in ids : d <= id => d <= curr
      BY <1>6, <1>0, <1>2 DEF FirstNotHigher
    <3> QED BY <3>1, <1>0
  <2>1. Above(newer, curr, ids)
    BY <2>0, <1>0 DEF newer
  <2>2. Below(curr, id, ids)
    BY <2>0, <1>0 DEF Below
  <2>3. /\ newer \in ids \cup {Null} /\ (newer # Null => curr < newer)
        /\ \A d \in ids : curr < d => newer # Null /\ newer <= d
    BY <2>1 DEF Above
  <2>4. newer \in ids /\ id < newer /\ newer # Null
    <3>1. l.head \in Nat /\ id < l.head /\ curr < l.head
      <4>1. l.head \in Nat /\ l.head # id /\ ~(id > l.head)
        BY <2>0, <1>0, <1>6
      <4>2. id < l.head
        BY <4>1
      <4> QED BY <4>1, <4>2, <2>0
    <3>2. newer # Null /\ newer \in ids /\ newer \in Nat /\ curr < newer
      BY <3>1, <2>0, <2>3, <1>0
    <3>3. ~(newer <= id)
      BY <3>2, <2>0
    <3> QED BY <3>2, <3>3
  <2>5. Above(newer, id, ids)
    <3>1. ASSUME NEW d \in ids, id < d PROVE newer <= d
      <4>1. d \in Nat /\ curr < d
        BY <1>0, <3>1, <2>0
      <4> QED BY <4>1, <2>3
    <3> QED BY <3>1, <2>4 DEF Above
  <2>6. PICK m : m = List(l.head, l.tail, Point(Point(l.next, id, curr), newer, id),
                          Point(Point(l.previous, id, newer), curr, id))
    OBVIOUS
  <2>7. AddFile(l, id) = m
    BY <1>1, <1>6, <2>4, <2>6
  <2>8. IsList(m) /\ m.head = l.head /\ m.tail = l.tail
        /\ m.next = Point(Point(l.next, id, curr), newer, id)
        /\ m.previous = Point(Point(l.previous, id, newer), curr, id)
    BY <2>6, ListFields
  <2>9. /\ m.next = [c \in ids \cup {id} |-> m.next[c]]
        /\ \A c \in ids \cup {id} : m.next[c] =
              IF c = id THEN curr ELSE IF c = newer THEN id ELSE l.next[c]
    <3>1. PICK ptr, x, n : /\ ptr = l.next /\ x = newer /\ n = curr
                           /\ DOMAIN ptr = ids /\ x \in ids
      BY <1>0, <2>4
    <3>2. PointingTwice(Point(Point(ptr, id, n), x, id), ptr, ids, id, n, x, id)
      BY <3>1, PointTwice
    <3> QED BY <3>1, <3>2, <2>8 DEF PointingTwice
  <2>10. /\ m.previous = [c \in ids \cup {id} |-> m.previous[c]]
        /\ \A c \in ids \cup {id} : m.previous[c] =
              IF c = id THEN newer ELSE IF c = curr THEN id ELSE l.previous[c]
    <3>1. PICK ptr, x, n : /\ ptr = l.previous /\ x = curr /\ n = newer
                           /\ DOMAIN ptr = ids /\ x \in ids
      BY <1>0, <2>0
    <3>2. PointingTwice(Point(Point(ptr, id, n), x, id), ptr, ids, id, n, x, id)
      BY <3>1, PointTwice
    <3> QED BY <3>1, <3>2, <2>8 DEF PointingTwice
  <2>11. Inserted(m, l, ids, id, curr, newer)
    BY <1>6, <2>4, <2>8, <2>9, <2>10 DEF Inserted
  <2> QED BY <2>2, <2>5, <2>7, <2>11
<1> QED BY <1>3, <1>4, <1>5, <1>6

\* The empty list is linked.
LEMMA EmptyLinked == Linked(EmptyList, {})
<1>1. PICK e : e = <<>>
  OBVIOUS
<1>2. e = [c \in {} |-> e[c]]
  <2>0. e \in Seq({}) /\ Len(e) = 0
    BY <1>1
  <2>1. DOMAIN e = {}
    BY <2>0, LenProperties
  <2>2. e = [c \in DOMAIN e |-> e[c]]
    <3>1. e \in [1 .. Len(e) -> {}]
      BY <2>0, LenProperties
    <3> QED BY <3>1
  <2> QED BY <2>1, <2>2
<1>3. /\ IsList(EmptyList) /\ EmptyList.head = Null /\ EmptyList.tail = Null
      /\ EmptyList.next = e /\ EmptyList.previous = e
  BY <1>1, ListFields DEF EmptyList
<1> QED BY <1>2, <1>3 DEF Linked

-----------------------------------------------------------------------------
(* ccask_files_init *)

\* Lists that grow by one file at a time, in the order of ids.
Grows(from, ids, last) ==
    from = [n \in 0 .. last |-> IF n = 0 THEN EmptyList ELSE AddFile(from[n - 1], ids[n])]

\* There is such a sequence of lists, of any length.
LEMMA GrowsExists ==
    ASSUME NEW ids, NEW N \in Nat
    PROVE  \E from : Grows(from, ids, N)
<1> DEFINE Good == {n \in Nat : \E from : Grows(from, ids, n)}
<1>1. 0 \in Good
  <2> DEFINE f == [n \in 0 .. 0 |-> EmptyList]
  <2>1. f = [n \in 0 .. 0 |-> IF n = 0 THEN EmptyList ELSE AddFile(f[n - 1], ids[n])]
    BY 0 .. 0 = {0}
  <2> HIDE DEF f
  <2> QED BY <2>1 DEF Grows
<1>2. ASSUME NEW n \in Nat, n \in Good PROVE n + 1 \in Good
  <2>1. PICK g : Grows(g, ids, n)
    BY <1>2
  <2>2. PICK last : last = AddFile(g[n], ids[n + 1])
    OBVIOUS
  <2> DEFINE f == [i \in 0 .. n + 1 |-> IF i = n + 1 THEN last ELSE g[i]]
  <2>3. ASSUME NEW i \in 0 .. n + 1
        PROVE  f[i] = IF i = 0 THEN EmptyList ELSE AddFile(f[i - 1], ids[i])
    <3>1. CASE i = n + 1
      <4>1. f[i] = last /\ i # 0 /\ i - 1 = n /\ n \in 0 .. n + 1 /\ n # n + 1
        BY <3>1
      <4>2. f[n] = g[n]
        BY <4>1
      <4> QED BY <4>1, <4>2, <2>2, <3>1
    <3>2. CASE i # n + 1
      <4>1. i \in 0 .. n /\ f[i] = g[i]
        BY <3>2
      <4>2. g[i] = IF i = 0 THEN EmptyList ELSE AddFile(g[i - 1], ids[i])
        BY <4>1, <2>1 DEF Grows
      <4>3. i # 0 => f[i - 1] = g[i - 1]
        BY <4>1
      <4> QED BY <4>1, <4>2, <4>3
    <3> QED BY <3>1, <3>2
  <2>4. f = [i \in 0 .. n + 1 |-> f[i]]
    OBVIOUS
  <2> HIDE DEF f
  <2>5. f = [i \in 0 .. n + 1 |-> IF i = 0 THEN EmptyList ELSE AddFile(f[i - 1], ids[i])]
    BY <2>3, <2>4
  <2> QED BY <2>5 DEF Grows
<1>3. N \in 0 .. N
  OBVIOUS
<1>4. N \in Good
  <2> HIDE DEF Good
  <2> QED BY <1>1, <1>2, <1>3, UpTo
<1> QED BY <1>4

\* However the directory is read, its files form a linked list.
LEMMA ListOfLinked ==
    ASSUME NEW S \in SUBSET Nat, NEW N \in Nat, NEW ids \in [1 .. N -> S],
           \A i, j \in 1 .. N : i # j => ids[i] # ids[j],
           \A s \in S : \E i \in 1 .. N : ids[i] = s
    PROVE  Linked(ListOf(ids), S)
<1>1. Len(ids) = N
  BY LenProperties
<1> DEFINE from == CHOOSE f : Grows(f, ids, N)
           Read(n) == {ids[i] : i \in 1 .. n}
           Good == {n \in Nat : Linked(from[n], Read(n))}
<1>2. ListOf(ids) = from[N]
  BY <1>1, Zenon DEF ListOf, Grows
<1>3. Grows(from, ids, N)
  BY GrowsExists
<1> HIDE DEF from
<1>4. /\ from[0] = EmptyList
      /\ \A n \in 1 .. N : from[n] = AddFile(from[n - 1], ids[n])
  BY <1>3 DEF Grows
<1>5. 0 \in Good
  <2>1. Read(0) = {}
    OBVIOUS
  <2> QED BY <2>1, <1>4, EmptyLinked
<1>6. ASSUME NEW n \in Nat, n < N, n \in Good PROVE n + 1 \in Good
  <2>1. PICK m : m = n + 1 /\ m \in 1 .. N /\ m - 1 = n
    BY <1>6
  <2>2. from[m] = AddFile(from[n], ids[m])
    BY <2>1, <1>4
  <2>3. PICK id : id = ids[m] /\ id \in Nat
    BY <2>1
  <2>4. id \notin Read(n)
    <3>1. \A i \in 1 .. n : i \in 1 .. N /\ i # m
      BY <2>1
    <3> QED BY <3>1, <2>1, <2>3
  <2>5. Read(m) = Read(n) \cup {id}
    <3>1. \A i : i \in 1 .. m <=> i \in 1 .. n \/ i = m
      BY <2>1
    <3> QED BY <3>1, <2>3
  <2>6. Linked(from[n], Read(n))
    BY <1>6
  <2> HIDE DEF Read
  <2>7. PICK l, r : l = from[n] /\ r = Read(n)
    OBVIOUS
  <2>8. Linked(AddFile(l, id), r \cup {id})
    BY <2>3, <2>4, <2>6, <2>7, AddFileKeepsLinked
  <2>9. Linked(from[m], Read(m))
    BY <2>2, <2>3, <2>5, <2>7, <2>8
  <2> QED BY <2>1, <2>9
<1>7. N \in Good
  <2>1. N \in 0 .. N
    OBVIOUS
  <2> HIDE DEF Good
  <2> QED BY <2>1, <1>5, <1>6, UpTo
<1>8. Read(N) = S
  <2>1. Read(N) \subseteq S
    OBVIOUS
  <2>2. ASSUME NEW s \in S PROVE s \in Read(N)
    <3>1. PICK i \in 1 .. N : ids[i] = s
      OBVIOUS
    <3> QED BY <3>1
  <2> HIDE DEF Read
  <2> QED BY <2>1, <2>2
<1> QED BY <1>2, <1>7, <1>8

-----------------------------------------------------------------------------
(* The walk from the oldest file to the newest *)

\* o is the walk of the first N nodes from a by the pointers p.
Walks(o, N, a, p) ==
    o = [n \in 1 .. N |-> IF n = 1 THEN a ELSE IF o[n - 1] = Null THEN Null ELSE p[o[n - 1]]]

\* There is such a walk, of any length.
LEMMA WalkExists ==
    ASSUME NEW N \in Nat, NEW a, NEW p
    PROVE  \E o : Walks(o, N, a, p)
<1> DEFINE Good == {n \in Nat : \E o : Walks(o, n, a, p)}
<1>1. 0 \in Good
  <2>1. PICK f : f = [n \in 1 .. 0 |-> a]
    OBVIOUS
  <2>2. f = [n \in 1 .. 0 |-> IF n = 1 THEN a ELSE IF f[n - 1] = Null THEN Null ELSE p[f[n - 1]]]
    BY <2>1, 1 .. 0 = {}
  <2> QED BY <2>2 DEF Walks
<1>2. ASSUME NEW n \in Nat, n \in Good PROVE n + 1 \in Good
  <2>1. PICK g : Walks(g, n, a, p)
    BY <1>2
  <2>2. PICK last : last = IF n + 1 = 1 THEN a ELSE IF g[n] = Null THEN Null ELSE p[g[n]]
    OBVIOUS
  <2> DEFINE f == [i \in 1 .. n + 1 |-> IF i = n + 1 THEN last ELSE g[i]]
  <2>3. ASSUME NEW i \in 1 .. n + 1
        PROVE  f[i] = IF i = 1 THEN a ELSE IF f[i - 1] = Null THEN Null ELSE p[f[i - 1]]
    <3>1. CASE i = n + 1
      <4>1. f[i] = last /\ i - 1 = n /\ (n # 0 => n \in 1 .. n + 1 /\ n # n + 1)
        BY <3>1
      <4>2. n # 0 => f[n] = g[n]
        BY <4>1
      <4>3. n = 0 <=> i = 1
        BY <3>1
      <4> HIDE DEF f
      <4> QED BY <4>1, <4>2, <4>3, <2>2, <3>1
    <3>2. CASE i # n + 1
      <4>1. i \in 1 .. n /\ f[i] = g[i]
        BY <3>2
      <4>2. g[i] = IF i = 1 THEN a ELSE IF g[i - 1] = Null THEN Null ELSE p[g[i - 1]]
        BY <4>1, <2>1 DEF Walks
      <4>3. i # 1 => f[i - 1] = g[i - 1]
        BY <4>1
      <4> HIDE DEF f
      <4> QED BY <4>1, <4>2, <4>3
    <3> QED BY <3>1, <3>2
  <2>4. f = [i \in 1 .. n + 1 |-> f[i]]
    OBVIOUS
  <2> HIDE DEF f
  <2>5. f = [i \in 1 .. n + 1 |-> IF i = 1 THEN a ELSE IF f[i - 1] = Null THEN Null ELSE p[f[i - 1]]]
    BY <2>3, <2>4
  <2> QED BY <2>5 DEF Walks
<1>3. N \in 0 .. N
  OBVIOUS
<1>4. N \in Good
  <2> HIDE DEF Good
  <2> QED BY <1>1, <1>2, <1>3, UpTo
<1> QED BY <1>4

\* o lists the files S in ascending order.
Ascends(o, N, S) ==
    /\ N \in Nat /\ o \in [1 .. N -> S]
    /\ \A i, j \in 1 .. N : i < j => o[i] < o[j]
    /\ \A s \in S : \E i \in 1 .. N : o[i] = s

\* The links between neighbours of the walk, and its ends.
Neighbours(o, N, l) ==
    /\ \A i \in 1 .. N - 1 : l.next[o[i + 1]] = o[i]
    /\ N > 0 => /\ o[1] = l.tail /\ o[N] = l.head
                /\ l.next[o[1]] = Null /\ l.previous[l.head] = Null

\* The walk by previous from the tail visits every file once, in ascending order.
LEMMA WalkAscends ==
    ASSUME NEW l, NEW S, Linked(l, S), IsFiniteSet(S)
    PROVE  /\ Ascends(OldestFirst(l), Cardinality(S), S)
           /\ Neighbours(OldestFirst(l), Cardinality(S), l)
<1>0. /\ DOMAIN l.previous = S /\ S \in SUBSET Nat
      /\ \A c \in S : Below(l.next[c], c, S) /\ Above(l.previous[c], c, S)
      /\ l.head \in S \cup {Null} /\ \A d \in S : d <= l.head
      /\ l.tail \in S \cup {Null} /\ \A d \in S : l.tail # Null /\ l.tail <= d
  BY DEF Linked
<1>1. PICK N : N = Cardinality(S) /\ N \in Nat
  BY FS_CardinalityType
<1> DEFINE o == CHOOSE f : Walks(f, N, l.tail, l.previous)
           Older(c) == {d \in S : d < c}
           Good == {n \in Nat : o[n] \in S /\ Cardinality(Older(o[n])) = n - 1}
<1>2. OldestFirst(l) = o
  BY <1>0, <1>1, Zenon DEF OldestFirst, Walks
<1>3. Walks(o, N, l.tail, l.previous)
  BY <1>1, WalkExists
<1> HIDE DEF o
<1>4. /\ o = [n \in 1 .. N |-> o[n]]
      /\ N > 0 => o[1] = l.tail
      /\ \A n \in 1 .. N : n # 1 =>
            o[n] = IF o[n - 1] = Null THEN Null ELSE l.previous[o[n - 1]]
  BY <1>1, <1>3 DEF Walks
<1>5. \A c : Older(c) \in SUBSET S /\ IsFiniteSet(Older(c)) /\ Cardinality(Older(c)) \in Nat
  <2> SUFFICES ASSUME NEW c PROVE Older(c) \in SUBSET S /\ IsFiniteSet(Older(c))
                                  /\ Cardinality(Older(c)) \in Nat
    OBVIOUS
  <2>1. PICK T : T = Older(c) /\ T \in SUBSET S
    OBVIOUS
  <2>2. IsFiniteSet(T)
    BY <2>1, FS_Subset
  <2> QED BY <2>1, <2>2, FS_CardinalityType
<1>6. ASSUME N > 0 PROVE 1 \in Good
  <2>1. S # {}
    BY <1>6, <1>1, FS_EmptySet
  <2>2. l.tail \in S
    BY <2>1, <1>0
  <2>3. Older(l.tail) = {}
    <3>1. ASSUME NEW d \in S PROVE ~(d < l.tail)
      <4>1. d \in Nat /\ l.tail \in Nat /\ l.tail <= d
        BY <1>0, <2>2
      <4> QED BY <4>1
    <3> QED BY <3>1
  <2>4. Cardinality(Older(l.tail)) = 0
    BY <2>3, FS_EmptySet
  <2>5. o[1] = l.tail /\ o[1] \in S
    BY <2>2, <1>4, <1>6
  <2>6. Cardinality(Older(o[1])) = 1 - 1
    BY <2>4, <2>5
  <2> HIDE DEF Older
  <2> QED BY <2>5, <2>6
<1>7. ASSUME NEW n \in Nat, 1 <= n, n < N, n \in Good
      PROVE  n + 1 \in Good /\ Above(o[n + 1], o[n], S) /\ o[n + 1] \in S
  <2>1. PICK c : c = o[n] /\ c \in S /\ c \in Nat /\ c # Null /\ Cardinality(Older(c)) = n - 1
    <3>1. o[n] \in S /\ Cardinality(Older(o[n])) = n - 1
      <4> HIDE DEF Older
      <4> QED BY <1>7
    <3>2. PICK c : c = o[n]
      OBVIOUS
    <3>3. c \in S /\ c \in Nat /\ c # Null
      BY <3>1, <3>2, <1>0 DEF Null
    <3> QED BY <3>1, <3>2, <3>3
  <2>2. PICK T : T = Older(c) /\ T \in SUBSET S /\ IsFiniteSet(T) /\ Cardinality(T) = n - 1
    BY <2>1, <1>5
  <2>3. c \notin T
    BY <2>2, <2>1
  <2>4. Cardinality(T \cup {c}) = n /\ IsFiniteSet(T \cup {c})
    BY <2>2, <2>3, FS_AddElement
  <2>5. \E d \in S : c < d
    <3> SUFFICES ASSUME \A d \in S : ~(c < d) PROVE FALSE
      OBVIOUS
    <3>1. S = T \cup {c}
      <4>1. \A d \in S : d \in Nat /\ (d < c \/ d = c)
        BY <1>0, <2>1
      <4> QED BY <4>1, <2>1, <2>2
    <3> QED BY <3>1, <2>4, <1>1, <1>7
  <2>6. PICK x : x = l.previous[c] /\ Above(x, c, S)
    BY <1>0, <2>1
  <2>7. o[n + 1] = x
    <3>1. PICK m : m = n + 1 /\ m \in 1 .. N /\ m # 1 /\ m - 1 = n
      BY <1>1, <1>7
    <3>2. o[m] = IF o[n] = Null THEN Null ELSE l.previous[o[n]]
      BY <3>1, <1>4
    <3> QED BY <3>1, <3>2, <2>1, <2>6
  <2>8. x \in S /\ x \in Nat /\ c < x /\ \A d \in S : c < d => x <= d
    BY <2>5, <2>6, <1>0 DEF Above
  <2>9. Older(x) = T \cup {c}
    <3>1. ASSUME NEW d \in S PROVE d < x <=> (d < c \/ d = c)
      <4>1. d \in Nat
        BY <1>0
      <4>2. c < d => x <= d
        BY <2>8
      <4> QED BY <4>1, <4>2, <2>1, <2>8
    <3> QED BY <3>1, <2>1, <2>2
  <2>10. Cardinality(Older(x)) = n + 1 - 1
    BY <2>9, <2>4, <1>7
  <2> HIDE DEF Older
  <2> QED BY <2>1, <2>6, <2>7, <2>8, <2>10
<1>8. \A n \in 1 .. N : n \in Good
  <2>1. CASE N = 0
    BY <2>1
  <2>2. CASE N # 0
    <3>1. N > 0
      BY <2>2, <1>1
    <3> HIDE DEF Good
    <3> QED BY <3>1, <1>1, <1>6, <1>7, UpTo
  <2> QED BY <2>1, <2>2
<1>9. \A n \in 1 .. N : o[n] \in S /\ Cardinality(Older(o[n])) = n - 1
  BY <1>8
<1>10. ASSUME NEW i \in 1 .. N, NEW j \in 1 .. N, i < j PROVE o[i] < o[j]
  <2>1. o[i] \in Nat /\ o[j] \in Nat
    BY <1>9, <1>0
  <2>2. ASSUME o[j] <= o[i] PROVE FALSE
    <3>1. PICK A, B : A = Older(o[j]) /\ B = Older(o[i]) /\ IsFiniteSet(B)
                      /\ Cardinality(A) = j - 1 /\ Cardinality(B) = i - 1
      BY <1>5, <1>9
    <3>2. A \in SUBSET B
      <4>1. ASSUME NEW d \in S, d < o[j] PROVE d < o[i]
        <5>1. d \in Nat
          BY <1>0
        <5> QED BY <5>1, <4>1, <2>1, <2>2
      <4> QED BY <4>1, <3>1
    <3>3. Cardinality(A) <= Cardinality(B)
      BY <3>1, <3>2, FS_Subset
    <3> QED BY <3>1, <3>3, <1>10
  <2> QED BY <2>1, <2>2
<1>11. \A s \in S : \E i \in 1 .. N : o[i] = s
  <2>1. o \in [1 .. N -> S]
    BY <1>4, <1>9
  <2>2. \A i, j \in 1 .. N : o[i] = o[j] => i = j
    <3>1. ASSUME NEW i \in 1 .. N, NEW j \in 1 .. N, o[i] = o[j] PROVE i = j
      <4>1. i - 1 = j - 1
        BY <1>9, <3>1
      <4> QED BY <4>1
    <3> QED BY <3>1
  <2>3. o \in Injection(1 .. N, S)
    <3>1. DOMAIN o = 1 .. N
      BY <2>1
    <3> QED BY <2>1, <2>2, <3>1, Zenon DEF Injection, IsInjective
  <2>4. Cardinality(1 .. N) = N
    BY <1>1, FS_Interval
  <2>5. o \in Surjection(1 .. N, S)
    BY <2>3, <2>4, <1>1, FS_Injection
  <2> QED BY <2>5, <2>1 DEF Surjection
<1>12. Ascends(o, N, S)
  <2>1. o \in [1 .. N -> S]
    BY <1>4, <1>9
  <2> QED BY <2>1, <1>1, <1>10, <1>11 DEF Ascends
<1>13. ASSUME NEW i \in 1 .. N - 1 PROVE l.next[o[i + 1]] = o[i]
  <2>1. i \in Nat /\ 1 <= i /\ i < N /\ i \in 1 .. N /\ i + 1 \in 1 .. N
    BY <1>1
  <2>2. i \in Good
    <3> HIDE DEF Good
    <3> QED BY <2>1, <1>8
  <2>3. PICK c, x : c = o[i] /\ x = o[i + 1] /\ Above(x, c, S) /\ c \in S /\ x \in S
                    /\ c \in Nat /\ x \in Nat
    <3>1. o[i] \in S
      BY <2>1, <1>9
    <3> HIDE DEF Good
    <3> QED BY <2>1, <2>2, <3>1, <1>7, <1>0
  <2>4. c < x /\ \A d \in S : c < d => x <= d
    BY <2>3 DEF Above, Null
  <2>5. PICK y : y = l.next[x] /\ Below(y, x, S)
    BY <2>3, <1>0
  <2>6. c <= y /\ y \in S /\ y \in Nat /\ y < x
    BY <2>3, <2>4, <2>5, <1>0 DEF Below, Null
  <2>7. ~(c < y)
    BY <2>4, <2>6, <2>3
  <2> QED BY <2>3, <2>5, <2>6, <2>7
<1>14. ASSUME N > 0
       PROVE  /\ o[1] = l.tail /\ o[N] = l.head
              /\ l.next[o[1]] = Null /\ l.previous[l.head] = Null
  <2>1. 1 \in 1 .. N /\ N \in 1 .. N
    BY <1>14, <1>1
  <2>2. o[1] \in S /\ o[N] \in S /\ o[1] = l.tail
    BY <2>1, <1>9, <1>4, <1>14
  <2>3. l.head \in S /\ l.head \in Nat
    BY <2>2, <1>0 DEF Null
  <2>4. o[N] = l.head
    <3>1. PICK i \in 1 .. N : o[i] = l.head
      BY <1>11, <2>3
    <3>2. i < N => o[i] < o[N]
      BY <1>10, <2>1
    <3>3. o[N] <= l.head /\ o[N] \in Nat
      BY <2>2, <1>0
    <3>4. ~(i < N)
      BY <3>1, <3>2, <3>3, <2>3
    <3>5. i = N
      BY <3>4, <1>1
    <3> QED BY <3>1, <3>5
  <2>5. l.next[l.tail] = Null
    <3>1. PICK t, y : t = l.tail /\ y = l.next[t] /\ Below(y, t, S) /\ t \in Nat
      BY <2>2, <1>0
    <3>2. \A d \in S : d \in Nat /\ t <= d
      BY <3>1, <1>0
    <3>3. \A d \in S : ~(d < t)
      BY <3>1, <3>2
    <3> QED BY <3>1, <3>3 DEF Below
  <2>6. l.previous[l.head] = Null
    <3>1. PICK t, y : t = l.head /\ y = l.previous[t] /\ Above(y, t, S) /\ t \in Nat
      BY <2>3, <1>0
    <3>2. \A d \in S : d \in Nat /\ d <= t
      BY <3>1, <1>0
    <3>3. \A d \in S : ~(t < d)
      BY <3>1, <3>2
    <3> QED BY <3>1, <3>3 DEF Above
  <2> QED BY <2>2, <2>4, <2>5, <2>6
<1>15. Neighbours(o, N, l)
  BY <1>13, <1>14 DEF Neighbours
<1> QED BY <1>1, <1>2, <1>12, <1>15

\* A linked list is finite: no file is higher than its head.
LEMMA LinkedFinite ==
    ASSUME NEW l, NEW S, Linked(l, S)
    PROVE  IsFiniteSet(S)
<1>0. S \in SUBSET Nat /\ l.head \in S \cup {Null} /\ \A d \in S : d <= l.head
  BY DEF Linked
<1>1. CASE S = {}
  BY <1>1, FS_EmptySet
<1>2. CASE S # {}
  <2>1. PICK b : b = l.head /\ b \in S \cup {Null} /\ \A d \in S : d <= b
    BY <1>0
  <2>2. b \in Nat
    <3>1. PICK d \in S : d \in Nat /\ d <= b
      BY <2>1, <1>2, <1>0
    <3>2. b # Null
      BY <3>1 DEF Null
    <3> QED BY <3>2, <2>1, <1>0
  <2> QED BY <2>1, <2>2, <1>0, FS_BoundedSetOfNaturals
<1> QED BY <1>1, <1>2

\* A linked list is sorted, both ways.
LEMMA LinkedSorted ==
    ASSUME NEW l, NEW S, Linked(l, S)
    PROVE  Sorted(l)
<1>1. IsFiniteSet(S) /\ DOMAIN l.next = S /\ DOMAIN l.previous = S
  BY LinkedFinite, LinkedDomains
<1>2. PICK N, o : N = Cardinality(S) /\ o = OldestFirst(l) /\ Ascends(o, N, S) /\ Neighbours(o, N, l)
  BY <1>1, WalkAscends
<1>3. N \in Nat /\ o \in [1 .. N -> S] /\ (S # {} => N # 0)
  BY <1>1, <1>2, FS_EmptySet DEF Ascends
<1>4. Len(o) = N /\ DOMAIN o = 1 .. N
  BY <1>3, LenProperties
<1>5. ToSet(o) = S
  BY <1>2, <1>3, <1>4 DEF Ascends, ToSet
<1>6. ASSUME NEW i \in 1 .. Len(o) - 1 PROVE o[i] < o[i + 1] /\ l.next[o[i + 1]] = o[i]
  <2>1. i \in 1 .. N /\ i + 1 \in 1 .. N /\ i < i + 1 /\ i \in 1 .. N - 1
    BY <1>3, <1>4
  <2>2. o[i] < o[i + 1]
    <3>1. PICK j : j = i + 1 /\ j \in 1 .. N /\ i < j
      BY <2>1
    <3>2. o[i] < o[j]
      BY <2>1, <3>1, <1>2 DEF Ascends
    <3> QED BY <3>1, <3>2
  <2> QED BY <2>1, <2>2, <1>2 DEF Neighbours
<1>7. ASSUME S # {} PROVE l.head = o[Len(o)] /\ l.next[o[1]] = Null /\ l.previous[l.head] = Null
  BY <1>2, <1>3, <1>4, <1>7 DEF Neighbours
<1> QED BY <1>1, <1>2, <1>5, <1>6, <1>7, Zenon DEF Sorted

\* Whatever order the files of a directory are read in, the list is linked and its
\* walk ascends.
LEMMA DirectoryList ==
    ASSUME NEW S \in SUBSET Nat, IsFiniteSet(S), NEW order \in SetToSeqs(S)
    PROVE  /\ Linked(ListOf(order), S)
           /\ Ascends(OldestFirst(ListOf(order)), Cardinality(S), S)
<1>1. PICK N : N = Cardinality(S) /\ N \in Nat
  BY FS_CardinalityType
<1>2. order \in [1 .. N -> S] /\ \A i, j \in 1 .. N : i # j => order[i] # order[j]
  BY <1>1 DEF SetToSeqs
<1>3. \A s \in S : \E i \in 1 .. N : order[i] = s
  <2>1. DOMAIN order = 1 .. N
    BY <1>2
  <2>2. order \in Injection(1 .. N, S)
    BY <1>2, <2>1, Zenon DEF Injection, IsInjective
  <2>3. Cardinality(1 .. N) = N
    BY <1>1, FS_Interval
  <2>4. order \in Surjection(1 .. N, S)
    BY <2>2, <2>3, <1>1, FS_Injection
  <2> QED BY <2>4 DEF Surjection
<1>4. Linked(ListOf(order), S)
  BY <1>1, <1>2, <1>3, ListOfLinked
<1>5. PICK l : l = ListOf(order)
  OBVIOUS
<1> QED BY <1>4, <1>5, WalkAscends

\* SetToSeq(S) is one of these orders.
LEMMA SomeOrder ==
    ASSUME NEW S, IsFiniteSet(S)
    PROVE  SetToSeq(S) \in SetToSeqs(S)
<1>1. PICK N : N = Cardinality(S) /\ N \in Nat /\ ExistsBijection(1 .. N, S)
  BY FS_CardinalityType
<1>2. PICK f : f \in Bijection(1 .. N, S)
  BY <1>1 DEF ExistsBijection
<1>3. f \in [1 .. N -> S] /\ IsInjective(f)
  BY <1>2 DEF Bijection, Injection
<1>4. PICK g : g = SetToSeq(S)
  OBVIOUS
<1>5. g \in [1 .. N -> S] /\ IsInjective(g)
  BY <1>1, <1>3, <1>4, Zenon DEF SetToSeq
<1>6. \A i, j \in 1 .. N : i # j => g[i] # g[j]
  <2>1. DOMAIN g = 1 .. N
    BY <1>5
  <2> QED BY <1>5, <2>1, Zenon DEF IsInjective
<1> QED BY <1>1, <1>4, <1>5, <1>6 DEF SetToSeqs

=============================================================================
