--------------------------- MODULE LiballocProofs ---------------------------
(***************************************************************************)
(* Proofs about Liballoc, for every size of header, page and heap and any  *)
(* requests: the boundary tags tile the regions and callers' blocks have   *)
(* room, no two free pieces lie side by side, the lists hold what is free  *)
(* and the counts are right, and the promise of HeapAbs is kept.           *)
(*                                                                         *)
(* The invariant is about a heap, a function from addresses to tags with   *)
(* the heads of the lists, so that it can be followed through the helpers  *)
(* of malloc() and free(), each of which maps a heap to a heap.  Tiling is *)
(* said of neighbours in the code; here also of any two tags: the piece of *)
(* the lower ends where the other begins, or before.  Lists are said to be *)
(* linked both ways and to hold one class each, which is what remove_tag() *)
(* needs to know of the neighbours of the tag it takes out.  That a list   *)
(* is no circle is said by numbers: every tag of a class has a place in    *)
(* its list, one more than that of the tag before it.                      *)
(***************************************************************************)
EXTENDS Liballoc, FiniteSetTheorems, WellFoundedInduction, NaturalsInduction, TLAPS

Fields(T) ==
  [size : Nat, real_size : Nat, index : Bins \cup {NoBin}, split_left : T \cup {Null},
   split_right : T \cup {Null}, next : T \cup {Null}, prev : T \cup {Null}]

\* Links lead to tags.
Formed(h) ==
  /\ DOMAIN h.tag \subseteq Nat \ {Null} /\ IsFiniteSet(DOMAIN h.tag)
  /\ h.tag = [a \in DOMAIN h.tag |-> h.tag[a]]
  /\ \A a \in DOMAIN h.tag : h.tag[a] \in Fields(DOMAIN h.tag)
  /\ h.free \in [Bins -> DOMAIN h.tag \cup {Null}]

\* The lists: linked both ways, of tags of one class, beginning at the head.
Linked(h) ==
  /\ \A a \in DOMAIN h.tag :
       /\ h.tag[a].index = NoBin => h.tag[a].next = Null /\ h.tag[a].prev = Null
       /\ h.tag[a].next # Null => /\ h.tag[h.tag[a].next].prev = a
                                  /\ h.tag[h.tag[a].next].index = h.tag[a].index
       /\ h.tag[a].prev # Null => /\ h.tag[h.tag[a].prev].next = a
                                  /\ h.tag[h.tag[a].prev].index = h.tag[a].index
       /\ h.tag[a].index # NoBin => ((h.tag[a].prev = Null) <=> (h.free[h.tag[a].index] = a))
  /\ \A bin \in Bins : h.free[bin] # Null => h.tag[h.free[bin]].index = bin

\* The tags of a class stand one behind the other: each has a place in its list.
Queued(h) ==
  \E place \in [DOMAIN h.tag -> Nat] : \A a \in DOMAIN h.tag : h.tag[a].index # NoBin =>
    /\ (place[a] = 0) <=> (h.tag[a].prev = Null)
    /\ h.tag[a].next # Null => place[h.tag[a].next] = place[a] + 1
    /\ \A b \in DOMAIN h.tag :
         h.tag[b].index = h.tag[a].index /\ place[b] = place[a] => b = a

\* Every free piece is in the list of its class.
Classed(h) ==
  \A a \in DOMAIN h.tag :
    h.tag[a].index # NoBin => h.tag[a].index = BinOf(h.tag[a].real_size - HDR)

\* Neighbours: each piece ends where the next one of its region begins.
Joined(h) ==
  \A a \in DOMAIN h.tag :
    /\ h.tag[a].real_size >= HDR
    /\ h.tag[a].split_left # Null => h.tag[h.tag[a].split_left].split_right = a
    /\ h.tag[a].split_right # Null => /\ h.tag[h.tag[a].split_right].split_left = a
                                      /\ h.tag[a].split_right = a + h.tag[a].real_size

\* Pieces lie apart and in regions, which lie apart and below the top.
Ordered(h) == \A a, b \in DOMAIN h.tag : a < b => a + h.tag[a].real_size <= b

Within(h, a, r) ==
  /\ r.base <= a /\ a + h.tag[a].real_size <= r.base + r.size
  /\ h.tag[a].split_left = Null <=> r.base = a
  /\ h.tag[a].split_right = Null <=> r.base + r.size = a + h.tag[a].real_size

Placed(h, regions) ==
  /\ \A a \in DOMAIN h.tag : \E r \in regions : Within(h, a, r)
  /\ \A r \in regions : r.base \in DOMAIN h.tag

Disjoint(regions) ==
  /\ regions \subseteq [base : Nat, size : Nat \ {0}]
  /\ \A r, q \in regions : r # q => r.base + r.size <= q.base \/ q.base + q.size <= r.base

Lists(h) == Formed(h) /\ Linked(h) /\ Queued(h)
Pieces(h, regions) == Joined(h) /\ Ordered(h) /\ Placed(h, regions)

\* No two free pieces are neighbours.
NoPairs(h) ==
  \A a \in DOMAIN h.tag :
    h.tag[a].index # NoBin /\ h.tag[a].split_right # Null =>
      h.tag[h.tag[a].split_right].index = NoBin

Sound(h, regions) == Lists(h) /\ Classed(h) /\ Pieces(h, regions) /\ NoPairs(h)

\* The tags that are not free are those of the blocks callers hold, and the one
\* free() is working on.
InUse == {b.ptr - HDR : b \in live} \cup ({freeing} \ {Null})

Owned ==
  /\ \A a \in Tags : tag[a].index = NoBin <=> a \in InUse
  /\ live \subseteq [ptr : Nat, size : Nat] /\ BlocksHaveRoom
  /\ freeing = Null \/ (freeing \in Tags /\ \A b \in live : b.ptr - HDR # freeing)

\* Once its first loop is over, free() has no free piece on its left.
Working ==
  freeing # Null /\ ~ melting /\ tag[freeing].split_left # Null =>
    tag[tag[freeing].split_left].index = NoBin

Limits ==
  /\ Disjoint(arena) /\ \A r \in arena : r.base + r.size <= heaptop
  /\ heaptop \in Nat \ {0} /\ pagesLeft \in 0..Pages
  /\ melting \in BOOLEAN /\ wild \in BOOLEAN

Standing(bin) == {t \in Tags : tag[t].index = bin /\ Whole(t)}

Counted ==
  /\ completePages \in [Bins -> Nat]
  /\ \A bin \in Bins : completePages[bin] <= MAXCOMPLETE
                       /\ completePages[bin] = Cardinality(Standing(bin))

HeapInv == Sound(Heap, arena) /\ Owned /\ Working /\ Limits /\ Counted

-----------------------------------------------------------------------------
(* Lists *)

\* What is left alone by a change of lists: where pieces are, and how long.
SameShape(h, g) ==
  /\ DOMAIN g.tag = DOMAIN h.tag
  /\ \A a \in DOMAIN h.tag :
       /\ g.tag[a].size = h.tag[a].size /\ g.tag[a].real_size = h.tag[a].real_size
       /\ g.tag[a].split_left = h.tag[a].split_left
       /\ g.tag[a].split_right = h.tag[a].split_right

LEMMA Classes ==
  /\ Bins \subseteq Nat /\ NoBin \notin Bins /\ NoBin = -1 /\ Null = 0
  /\ MINEXP \in Bins
BY HeapAssumption DEF Bins, NoBin, Null

\* What is changed of a tag when it is taken out of its list or put into one, and
\* of its neighbours.
SamePiece(r, s) ==
  /\ s.size = r.size /\ s.real_size = r.real_size
  /\ s.split_left = r.split_left /\ s.split_right = r.split_right

LEMMA NextSet ==
  ASSUME NEW T, NEW r \in Fields(T), NEW x \in T \cup {Null}
  PROVE  LET s == [r EXCEPT !.next = x] IN
         /\ s \in Fields(T) /\ SamePiece(r, s)
         /\ s.next = x /\ s.prev = r.prev /\ s.index = r.index
BY DEF Fields, SamePiece

LEMMA PrevSet ==
  ASSUME NEW T, NEW r \in Fields(T), NEW x \in T \cup {Null}
  PROVE  LET s == [r EXCEPT !.prev = x] IN
         /\ s \in Fields(T) /\ SamePiece(r, s)
         /\ s.prev = x /\ s.next = r.next /\ s.index = r.index
BY DEF Fields, SamePiece

\* remove_tag(): field by field.
LEMMA Removed ==
  ASSUME NEW h, Formed(h), NEW t \in DOMAIN h.tag, h.tag[t].index # NoBin
  PROVE  LET g == remove_tag(h, t)
             r == h.tag[t]
         IN  /\ Formed(g) /\ SameShape(h, g)
             /\ g.tag[t].next = Null /\ g.tag[t].prev = Null /\ g.tag[t].index = NoBin
             /\ \A a \in DOMAIN h.tag \ {t} :
                  /\ g.tag[a].index = h.tag[a].index
                  /\ g.tag[a].next = IF a = r.prev THEN r.next ELSE h.tag[a].next
                  /\ g.tag[a].prev = IF a = r.next /\ a # r.prev THEN r.prev
                                     ELSE h.tag[a].prev
             /\ \A bin \in Bins :
                  g.free[bin] = IF bin = r.index /\ h.free[bin] = t THEN r.next ELSE h.free[bin]
<1> DEFINE g == remove_tag(h, t)
           r == h.tag[t]
           T == DOMAIN h.tag
           new(a) == IF a = t THEN [r EXCEPT !.next = Null, !.prev = Null, !.index = NoBin]
                     ELSE IF a = r.prev THEN [h.tag[a] EXCEPT !.next = r.next]
                     ELSE IF a = r.next THEN [h.tag[a] EXCEPT !.prev = r.prev]
                     ELSE h.tag[a]
<1>1. /\ g.tag = [a \in T |-> new(a)]
      /\ g.free = [h.free EXCEPT ![r.index] = IF @ = t THEN r.next ELSE @]
  BY DEF remove_tag
<1>2. /\ \A a \in T : h.tag[a] \in Fields(T)
      /\ h.free \in [Bins -> T \cup {Null}] /\ r.index \in Bins
      /\ r.next \in T \cup {Null} /\ r.prev \in T \cup {Null}
  BY DEF Formed, Fields
<1>3. \A a \in T : g.tag[a] = new(a)
  BY <1>1
<1> HIDE DEF g
<1>4. ASSUME NEW a \in T
      PROVE  /\ new(a) \in Fields(T) /\ SamePiece(h.tag[a], new(a))
             /\ a = t => new(a).next = Null /\ new(a).prev = Null /\ new(a).index = NoBin
             /\ a # t => /\ new(a).index = h.tag[a].index
                         /\ new(a).next = IF a = r.prev THEN r.next ELSE h.tag[a].next
                         /\ new(a).prev = IF a = r.next /\ a # r.prev THEN r.prev
                                          ELSE h.tag[a].prev
  <2> PICK q : q = h.tag[a]
    OBVIOUS
  <2>1. q \in Fields(T)
    BY <1>2
  <2>2. CASE a = t
    <3>1. new(a) = [q EXCEPT !.next = Null, !.prev = Null, !.index = NoBin]
      BY <2>2
    <3> HIDE DEF new
    <3>2. /\ new(a) \in Fields(T) /\ SamePiece(q, new(a))
          /\ new(a).next = Null /\ new(a).prev = Null /\ new(a).index = NoBin
      BY <2>1, <3>1 DEF Fields, SamePiece
    <3> QED
      BY <2>2, <3>2
  <2>3. CASE a # t /\ a = r.prev
    <3>1. new(a) = [q EXCEPT !.next = r.next]
      BY <2>3
    <3> HIDE DEF new
    <3> QED
      BY <1>2, <2>1, <2>3, <3>1, NextSet
  <2>4. CASE a # t /\ a # r.prev /\ a = r.next
    <3>1. new(a) = [q EXCEPT !.prev = r.prev]
      BY <2>4
    <3> HIDE DEF new
    <3> QED
      BY <1>2, <2>1, <2>4, <3>1, PrevSet
  <2>5. CASE a # t /\ a # r.prev /\ a # r.next
    <3>1. new(a) = q
      BY <2>5
    <3> HIDE DEF new
    <3> QED
      BY <2>1, <2>5, <3>1 DEF SamePiece
  <2> QED
    BY <2>2, <2>3, <2>4, <2>5
<1>5. DOMAIN g.tag = T
  BY <1>1
<1> HIDE DEF new
<1>6. Formed(g)
  BY <1>1, <1>2, <1>3, <1>4, <1>5 DEF Formed
<1>7. SameShape(h, g)
  BY <1>3, <1>4, <1>5 DEF SameShape, SamePiece
<1>8. \A bin \in Bins :
         g.free[bin] = IF bin = r.index /\ h.free[bin] = t THEN r.next ELSE h.free[bin]
  BY <1>1, <1>2
<1> QED
  BY <1>3, <1>4, <1>6, <1>7, <1>8 DEF g

\* remove_tag() leaves the lists linked: the neighbours of the tag are joined.
LEMMA RemovedLinked ==
  ASSUME NEW h, Formed(h), Linked(h), Queued(h),
         NEW t \in DOMAIN h.tag, h.tag[t].index # NoBin
  PROVE  Linked(remove_tag(h, t)) /\ Queued(remove_tag(h, t))
<1> DEFINE g == remove_tag(h, t)
           r == h.tag[t]
           T == DOMAIN h.tag
<1>1. /\ Formed(g) /\ DOMAIN g.tag = T
      /\ g.tag[t].next = Null /\ g.tag[t].prev = Null /\ g.tag[t].index = NoBin
      /\ \A a \in T \ {t} :
           /\ g.tag[a].index = h.tag[a].index
           /\ g.tag[a].next = IF a = r.prev THEN r.next ELSE h.tag[a].next
           /\ g.tag[a].prev = IF a = r.next /\ a # r.prev THEN r.prev ELSE h.tag[a].prev
      /\ \A bin \in Bins :
           g.free[bin] = IF bin = r.index /\ h.free[bin] = t THEN r.next ELSE h.free[bin]
  BY Removed DEF SameShape
<1> HIDE DEF g
<1>2. /\ \A a \in T : /\ h.tag[a].index \in Bins \cup {NoBin}
                      /\ h.tag[a].next \in T \cup {Null} /\ h.tag[a].prev \in T \cup {Null}
      /\ Null \notin T /\ \A bin \in Bins : h.free[bin] \in T \cup {Null}
  BY DEF Formed, Fields
<1>3. \A a \in T :
        /\ h.tag[a].index = NoBin => h.tag[a].next = Null /\ h.tag[a].prev = Null
        /\ h.tag[a].next # Null => /\ h.tag[h.tag[a].next].prev = a
                                   /\ h.tag[h.tag[a].next].index = h.tag[a].index
        /\ h.tag[a].prev # Null => /\ h.tag[h.tag[a].prev].next = a
                                   /\ h.tag[h.tag[a].prev].index = h.tag[a].index
        /\ h.tag[a].index # NoBin => ((h.tag[a].prev = Null) <=> (h.free[h.tag[a].index] = a))
  BY DEF Linked
<1>4. \A bin \in Bins : h.free[bin] # Null => h.tag[h.free[bin]].index = bin
  BY DEF Linked
<1>9. PICK place \in [T -> Nat] : \A a \in T : h.tag[a].index # NoBin =>
        /\ (place[a] = 0) <=> (h.tag[a].prev = Null)
        /\ h.tag[a].next # Null => place[h.tag[a].next] = place[a] + 1
        /\ \A b \in T : h.tag[b].index = h.tag[a].index /\ place[b] = place[a] => b = a
  BY DEF Queued
<1>10. /\ r.next # Null => r.next # t /\ r.next # r.prev /\ place[r.next] = place[t] + 1
       /\ r.prev # Null => r.prev # t /\ place[t] = place[r.prev] + 1
  <2>1. r.next # Null => r.next \in T /\ place[r.next] = place[t] + 1
    BY <1>2, <1>9
  <2>2. r.prev # Null => r.prev \in T /\ place[t] = place[r.prev] + 1
    BY <1>2, <1>3, <1>9
  <2> QED
    BY <1>2, <2>1, <2>2
<1>5. ASSUME NEW a \in T \ {t}
      PROVE  /\ g.tag[a].index = NoBin => g.tag[a].next = Null /\ g.tag[a].prev = Null
             /\ g.tag[a].next # Null => /\ g.tag[g.tag[a].next].prev = a
                                        /\ g.tag[g.tag[a].next].index = g.tag[a].index
             /\ g.tag[a].prev # Null => /\ g.tag[g.tag[a].prev].next = a
                                        /\ g.tag[g.tag[a].prev].index = g.tag[a].index
             /\ g.tag[a].index # NoBin => ((g.tag[a].prev = Null) <=> (g.free[g.tag[a].index] = a))
  <2>1. g.tag[a].index = NoBin => g.tag[a].next = Null /\ g.tag[a].prev = Null
    BY <1>1, <1>2, <1>3
  <2>2. ASSUME g.tag[a].next # Null
        PROVE  g.tag[g.tag[a].next].prev = a /\ g.tag[g.tag[a].next].index = g.tag[a].index
    <3>1. CASE a = r.prev
      BY <1>1, <1>2, <1>3, <1>10, <2>2, <3>1
    <3>2. CASE a # r.prev
      BY <1>1, <1>2, <1>3, <1>10, <2>2, <3>2
    <3> QED
      BY <3>1, <3>2
  <2>3. ASSUME g.tag[a].prev # Null
        PROVE  g.tag[g.tag[a].prev].next = a /\ g.tag[g.tag[a].prev].index = g.tag[a].index
    <3>1. CASE a = r.next
      BY <1>1, <1>2, <1>3, <1>10, <2>3, <3>1
    <3>2. CASE a # r.next
      BY <1>1, <1>2, <1>3, <1>10, <2>3, <3>2
    <3> QED
      BY <3>1, <3>2
  <2>4. g.tag[a].index # NoBin => ((g.tag[a].prev = Null) <=> (g.free[g.tag[a].index] = a))
    BY <1>1, <1>2, <1>3
  <2> QED
    BY <2>1, <2>2, <2>3, <2>4
<1>6. \A bin \in Bins : g.free[bin] # Null => g.tag[g.free[bin]].index = bin
  BY <1>1, <1>2, <1>3, <1>4
<1>7. Linked(g)
  BY <1>1, <1>5, <1>6 DEF Linked
<1>8. Queued(g)
  <2> DEFINE up(a) == h.tag[a].index = r.index /\ place[a] > place[t]
             moved == [a \in T |-> IF up(a) THEN place[a] - 1 ELSE place[a]]
  <2>1. \A a \in T : up(a) => place[a] - 1 \in Nat
    OBVIOUS
  <2>2. moved \in [T -> Nat]
    BY <2>1
  <2>3. ASSUME NEW a \in T, g.tag[a].index # NoBin
        PROVE  /\ (moved[a] = 0) <=> (g.tag[a].prev = Null)
               /\ g.tag[a].next # Null => moved[g.tag[a].next] = moved[a] + 1
               /\ \A b \in T : g.tag[b].index = g.tag[a].index /\ moved[b] = moved[a] => b = a
    <3>1. a # t /\ h.tag[a].index = g.tag[a].index
      BY <1>1, <2>3
    <3>0. /\ \A x \in T : place[x] \in Nat
          /\ \A x \in T : moved[x] = IF up(x) THEN place[x] - 1 ELSE place[x]
      OBVIOUS
    <3>9. \A x \in T : h.tag[x].index = r.index /\ x # t => place[x] # place[t]
      BY <1>9
    <3> HIDE DEF moved
    <3>2. (moved[a] = 0) <=> (g.tag[a].prev = Null)
      <4>1. CASE up(a)
        <5>1. moved[a] = place[a] - 1 /\ place[a] > place[t] /\ place[t] \in Nat /\ place[a] \in Nat
          BY <3>0, <4>1
        <5>2. h.tag[a].prev # Null
          BY <1>9, <2>3, <3>1, <5>1
        <5>3. /\ h.tag[a].prev \in T /\ h.tag[h.tag[a].prev].index = r.index
              /\ place[a] = place[h.tag[a].prev] + 1
          BY <1>2, <1>3, <1>9, <2>3, <3>1, <4>1, <5>2
        <5>4. CASE a = r.next
          <6>1. a # r.prev /\ g.tag[a].prev = r.prev /\ place[a] = place[t] + 1
            BY <1>1, <1>2, <1>10, <3>1, <5>4
          <6> QED
            BY <1>9, <5>1, <6>1
        <5>5. CASE a # r.next
          <6>1. g.tag[a].prev = h.tag[a].prev
            BY <1>1, <3>1, <5>5
          <6>2. h.tag[a].prev # t
            BY <1>3, <5>2, <5>5
          <6>3. place[h.tag[a].prev] # place[t] /\ place[h.tag[a].prev] \in Nat
            BY <3>0, <3>9, <5>3, <6>2
          <6>4. moved[a] # 0
            BY <5>1, <5>3, <6>3
          <6> QED
            BY <5>2, <6>1, <6>4
        <5> QED
          BY <5>4, <5>5
      <4>2. CASE ~ up(a)
        <5>1. moved[a] = place[a]
          BY <3>0, <4>2
        <5>2. a # r.next
          <6> SUFFICES ASSUME a = r.next
                       PROVE  up(a)
            BY <4>2
          <6>1. place[a] = place[t] + 1 /\ h.tag[a].index = r.index
            BY <1>2, <1>3, <1>10
          <6> QED
            BY <3>0, <6>1
        <5>3. g.tag[a].prev = h.tag[a].prev
          BY <1>1, <3>1, <5>2
        <5> QED
          BY <1>9, <2>3, <3>1, <5>1, <5>3
      <4> QED
        BY <4>1, <4>2
    <3>3. ASSUME g.tag[a].next # Null
          PROVE  moved[g.tag[a].next] = moved[a] + 1
      <4>1. CASE a = r.prev
        <5>1. /\ g.tag[a].next = r.next /\ r.next \in T /\ place[r.next] = place[t] + 1
              /\ place[t] = place[a] + 1
          BY <1>1, <1>2, <1>10, <3>1, <3>3, <4>1
        <5>2. h.tag[r.next].index = r.index /\ h.tag[a].index = r.index
          BY <1>2, <1>3, <3>1, <3>3, <4>1, <5>1
        <5>3. up(r.next) /\ ~ up(a)
          BY <3>0, <5>1, <5>2
        <5> QED
          BY <3>0, <5>1, <5>3
      <4>2. CASE a # r.prev
        <5>1. /\ g.tag[a].next = h.tag[a].next /\ h.tag[a].next \in T
              /\ h.tag[a].next # t /\ h.tag[h.tag[a].next].index = h.tag[a].index
              /\ place[h.tag[a].next] = place[a] + 1
          BY <1>1, <1>2, <1>3, <1>9, <2>3, <3>1, <3>3, <4>2
        <5> DEFINE y == h.tag[a].next
        <5>2. up(y) <=> up(a)
          <6>1. CASE h.tag[a].index # r.index
            BY <5>1, <6>1
          <6>2. CASE h.tag[a].index = r.index
            <7>1. place[a] # place[t] /\ place[y] # place[t]
              BY <3>1, <3>9, <5>1, <6>2
            <7>2. (place[y] > place[t]) <=> (place[a] > place[t])
              BY <3>0, <5>1, <7>1
            <7> QED
              BY <5>1, <6>2, <7>2
          <6> QED
            BY <6>1, <6>2
        <5> QED
          BY <3>0, <5>1, <5>2
      <4> QED
        BY <4>1, <4>2
    <3>4. ASSUME NEW b \in T, g.tag[b].index = g.tag[a].index, moved[b] = moved[a]
          PROVE  b = a
      <4>1. b # t /\ h.tag[b].index = h.tag[a].index
        BY <1>1, <2>3, <3>1, <3>4
      <4>2. place[b] = place[a]
        <5>1. CASE h.tag[a].index # r.index
          BY <3>0, <3>4, <4>1, <5>1
        <5>2. CASE h.tag[a].index = r.index
          <6>1. place[a] # place[t] /\ place[b] # place[t]
            BY <3>1, <3>9, <4>1, <5>2
          <6>2. /\ up(a) <=> place[a] > place[t]
                /\ up(b) <=> place[b] > place[t]
            BY <4>1, <5>2
          <6> QED
            BY <3>0, <3>4, <6>1, <6>2
        <5> QED
          BY <5>1, <5>2
      <4> QED
        BY <1>9, <2>3, <3>1, <4>1, <4>2
    <3> QED
      BY <3>2, <3>3, <3>4
  <2> HIDE DEF moved
  <2> QED
    BY <1>1, <2>2, <2>3 DEF Queued
<1> QED
  BY <1>7, <1>8 DEF g

\* insert_tag(): field by field; the tag comes first in its list.
LEMMA Inserted ==
  ASSUME NEW h, Formed(h), Linked(h), Queued(h), NEW bin \in Bins,
         NEW t \in DOMAIN h.tag, h.tag[t].index = NoBin
  PROVE  LET g == insert_tag(h, t, bin) IN
         /\ Formed(g) /\ SameShape(h, g) /\ Linked(g) /\ Queued(g)
         /\ \A a \in DOMAIN h.tag : g.tag[a].index = IF a = t THEN bin ELSE h.tag[a].index
<1> DEFINE g == insert_tag(h, t, bin)
           T == DOMAIN h.tag
           first == h.free[bin]
           new(a) == IF a = t THEN [h.tag[t] EXCEPT !.index = bin,
                                                    !.next = IF first = Null THEN @ ELSE first]
                     ELSE IF a = first THEN [h.tag[a] EXCEPT !.prev = t]
                     ELSE h.tag[a]
<1>1. g.tag = [a \in T |-> new(a)] /\ g.free = [h.free EXCEPT ![bin] = t]
  BY DEF insert_tag
<1>2. /\ \A a \in T : /\ h.tag[a] \in Fields(T) /\ h.tag[a].index \in Bins \cup {NoBin}
                      /\ h.tag[a].next \in T \cup {Null} /\ h.tag[a].prev \in T \cup {Null}
      /\ Null \notin T /\ h.free \in [Bins -> T \cup {Null}] /\ NoBin \notin Bins
  BY Classes DEF Formed, Fields
<1>3. \A a \in T :
        /\ h.tag[a].index = NoBin => h.tag[a].next = Null /\ h.tag[a].prev = Null
        /\ h.tag[a].next # Null => /\ h.tag[h.tag[a].next].prev = a
                                   /\ h.tag[h.tag[a].next].index = h.tag[a].index
        /\ h.tag[a].prev # Null => /\ h.tag[h.tag[a].prev].next = a
                                   /\ h.tag[h.tag[a].prev].index = h.tag[a].index
        /\ h.tag[a].index # NoBin => ((h.tag[a].prev = Null) <=> (h.free[h.tag[a].index] = a))
  BY DEF Linked
<1>4. \A b \in Bins : h.free[b] # Null => h.tag[h.free[b]].index = b
  BY DEF Linked
<1>5. /\ first \in T \cup {Null} /\ first # t
      /\ first # Null => h.tag[first].index = bin /\ h.tag[first].prev = Null
  BY <1>2, <1>3, <1>4
<1>6. \A a \in T : g.tag[a] = new(a)
  BY <1>1
<1> HIDE DEF g
<1>7. ASSUME NEW a \in T
      PROVE  /\ new(a) \in Fields(T) /\ SamePiece(h.tag[a], new(a))
             /\ new(a).index = IF a = t THEN bin ELSE h.tag[a].index
             /\ new(a).next = IF a = t THEN first ELSE h.tag[a].next
             /\ new(a).prev = IF a = first THEN t ELSE h.tag[a].prev
  <2> PICK q : q = h.tag[a]
    OBVIOUS
  <2>1. q \in Fields(T)
    BY <1>2
  <2>2. CASE a = t
    <3>1. q.next = Null
      BY <1>3, <2>2
    <3>2. new(a) = [q EXCEPT !.index = bin, !.next = first]
      BY <2>2, <3>1
    <3> HIDE DEF new
    <3>3. /\ new(a) \in Fields(T) /\ SamePiece(q, new(a)) /\ new(a).index = bin
          /\ new(a).next = first /\ new(a).prev = q.prev
      BY <1>5, <2>1, <3>2 DEF Fields, SamePiece
    <3> QED
      BY <1>5, <2>2, <3>3
  <2>3. CASE a # t /\ a = first
    <3>1. new(a) = [q EXCEPT !.prev = t]
      BY <2>3
    <3> HIDE DEF new
    <3> QED
      BY <1>2, <2>1, <2>3, <3>1, PrevSet
  <2>4. CASE a # t /\ a # first
    <3>1. new(a) = q
      BY <2>4
    <3> HIDE DEF new
    <3> QED
      BY <2>1, <2>4, <3>1 DEF SamePiece
  <2> QED
    BY <2>2, <2>3, <2>4
<1>8. DOMAIN g.tag = T
  BY <1>1
<1> HIDE DEF new
<1>9. Formed(g) /\ SameShape(h, g)
  <2>1. Formed(g)
    BY <1>1, <1>2, <1>6, <1>7, <1>8 DEF Formed
  <2>2. SameShape(h, g)
    BY <1>6, <1>7, <1>8 DEF SameShape, SamePiece
  <2> QED
    BY <2>1, <2>2
<1>10. \A a \in T : /\ g.tag[a].index = IF a = t THEN bin ELSE h.tag[a].index
                    /\ g.tag[a].next = IF a = t THEN first ELSE h.tag[a].next
                    /\ g.tag[a].prev = IF a = first THEN t ELSE h.tag[a].prev
  BY <1>6, <1>7
<1>11. \A b \in Bins : g.free[b] = IF b = bin THEN t ELSE h.free[b]
  BY <1>1, <1>2
<1>12. h.tag[t].prev = Null /\ h.tag[t].next = Null
  BY <1>3
<1>13. Linked(g)
  <2>1. ASSUME NEW a \in T
        PROVE  /\ g.tag[a].index = NoBin => g.tag[a].next = Null /\ g.tag[a].prev = Null
               /\ g.tag[a].next # Null => /\ g.tag[g.tag[a].next].prev = a
                                          /\ g.tag[g.tag[a].next].index = g.tag[a].index
               /\ g.tag[a].prev # Null => /\ g.tag[g.tag[a].prev].next = a
                                          /\ g.tag[g.tag[a].prev].index = g.tag[a].index
               /\ g.tag[a].index # NoBin => ((g.tag[a].prev = Null) <=> (g.free[g.tag[a].index] = a))
    <3>1. g.tag[a].index = NoBin => g.tag[a].next = Null /\ g.tag[a].prev = Null
      BY <1>2, <1>3, <1>5, <1>10
    <3>2. ASSUME g.tag[a].next # Null
          PROVE  g.tag[g.tag[a].next].prev = a /\ g.tag[g.tag[a].next].index = g.tag[a].index
      <4>1. CASE a = t
        BY <1>2, <1>5, <1>10, <3>2, <4>1
      <4>2. CASE a # t
        BY <1>2, <1>3, <1>5, <1>10, <1>12, <3>2, <4>2
      <4> QED
        BY <4>1, <4>2
    <3>3. ASSUME g.tag[a].prev # Null
          PROVE  g.tag[g.tag[a].prev].next = a /\ g.tag[g.tag[a].prev].index = g.tag[a].index
      <4>1. CASE a = first
        BY <1>2, <1>5, <1>10, <3>3, <4>1
      <4>2. CASE a # first
        BY <1>2, <1>3, <1>5, <1>10, <1>12, <3>3, <4>2
      <4> QED
        BY <4>1, <4>2
    <3>4. g.tag[a].index # NoBin => ((g.tag[a].prev = Null) <=> (g.free[g.tag[a].index] = a))
      BY <1>2, <1>3, <1>5, <1>10, <1>11, <1>12
    <3> QED
      BY <3>1, <3>2, <3>3, <3>4
  <2>2. \A b \in Bins : g.free[b] # Null => g.tag[g.free[b]].index = b
    BY <1>2, <1>4, <1>10, <1>11
  <2> QED
    BY <1>8, <2>1, <2>2 DEF Linked
<1>14. Queued(g)
  <2>1. PICK place \in [T -> Nat] : \A a \in T : h.tag[a].index # NoBin =>
          /\ (place[a] = 0) <=> (h.tag[a].prev = Null)
          /\ h.tag[a].next # Null => place[h.tag[a].next] = place[a] + 1
          /\ \A b \in T : h.tag[b].index = h.tag[a].index /\ place[b] = place[a] => b = a
    BY DEF Queued
  <2> DEFINE moved == [a \in T |-> IF a = t THEN 0
                                   ELSE IF h.tag[a].index = bin THEN place[a] + 1 ELSE place[a]]
  <2>2. /\ moved \in [T -> Nat] /\ \A a \in T : place[a] \in Nat
        /\ moved[t] = 0
        /\ \A a \in T : a # t /\ h.tag[a].index = bin => moved[a] = place[a] + 1 /\ moved[a] # 0
        /\ \A a \in T : a # t /\ h.tag[a].index # bin => moved[a] = place[a]
    OBVIOUS
  <2> HIDE DEF moved
  <2>3. ASSUME NEW a \in T, g.tag[a].index # NoBin
        PROVE  /\ (moved[a] = 0) <=> (g.tag[a].prev = Null)
               /\ g.tag[a].next # Null => moved[g.tag[a].next] = moved[a] + 1
               /\ \A b \in T : g.tag[b].index = g.tag[a].index /\ moved[b] = moved[a] => b = a
    <3>1. CASE a = t
      <4>1. (moved[a] = 0) <=> (g.tag[a].prev = Null)
        BY <1>5, <1>10, <1>12, <2>2, <3>1
      <4>2. ASSUME g.tag[a].next # Null
            PROVE  moved[g.tag[a].next] = moved[a] + 1
        <5>1. g.tag[a].next = first /\ first # Null /\ first \in T /\ first # t
          BY <1>5, <1>10, <3>1, <4>2
        <5>2. h.tag[first].index = bin /\ h.tag[first].prev = Null
          BY <1>5, <5>1
        <5>3. place[first] = 0
          BY <1>2, <2>1, <5>1, <5>2
        <5> QED
          BY <2>2, <3>1, <5>1, <5>2, <5>3
      <4>3. ASSUME NEW b \in T, g.tag[b].index = g.tag[a].index, moved[b] = moved[a]
            PROVE  b = a
        BY <1>10, <2>2, <3>1, <4>3
      <4> QED
        BY <4>1, <4>2, <4>3
    <3>2. CASE a # t
      <4>0. /\ h.tag[a].index = g.tag[a].index /\ h.tag[a].index # NoBin
            /\ g.tag[a].next = h.tag[a].next
        BY <1>10, <2>3, <3>2
      <4>1. (moved[a] = 0) <=> (g.tag[a].prev = Null)
        <5>1. CASE h.tag[a].index = bin
          <6>1. g.tag[a].prev # Null
            BY <1>2, <1>3, <1>5, <1>10, <5>1
          <6> QED
            BY <2>2, <3>2, <5>1, <6>1
        <5>2. CASE h.tag[a].index # bin
          <6>1. g.tag[a].prev = h.tag[a].prev
            BY <1>2, <1>5, <1>10, <5>2
          <6> QED
            BY <2>1, <2>2, <3>2, <4>0, <5>2, <6>1
        <5> QED
          BY <5>1, <5>2
      <4>2. ASSUME g.tag[a].next # Null
            PROVE  moved[g.tag[a].next] = moved[a] + 1
        <5> DEFINE y == h.tag[a].next
        <5>1. /\ g.tag[a].next = y /\ y \in T /\ y # t /\ h.tag[y].index = h.tag[a].index
              /\ place[y] = place[a] + 1
          BY <1>2, <1>3, <1>12, <2>1, <4>0, <4>2
        <5> HIDE DEF y
        <5> QED
          BY <2>2, <3>2, <5>1
      <4>3. ASSUME NEW b \in T, g.tag[b].index = g.tag[a].index, moved[b] = moved[a]
            PROVE  b = a
        <5>1. CASE b = t
          BY <1>10, <2>2, <3>2, <4>0, <4>3, <5>1
        <5>2. CASE b # t
          <6>1. h.tag[b].index = h.tag[a].index
            BY <1>10, <4>0, <4>3, <5>2
          <6>2. place[b] = place[a]
            BY <2>2, <3>2, <4>3, <5>2, <6>1
          <6> QED
            BY <2>1, <4>0, <6>1, <6>2
        <5> QED
          BY <5>1, <5>2
      <4> QED
        BY <4>1, <4>2, <4>3
    <3> QED
      BY <3>1, <3>2
  <2> QED
    BY <1>8, <2>2, <2>3 DEF Queued
<1> QED
  BY <1>9, <1>10, <1>13, <1>14 DEF g

\* A heap whose tags in use differ from another's has the same lists, when the
\* free ones are the same.
LEMMA ListsCarried ==
  ASSUME NEW h, NEW g, Lists(h), Formed(g), g.free = h.free,
         \A a \in DOMAIN h.tag : a \notin DOMAIN g.tag => h.tag[a].index = NoBin,
         \A a \in DOMAIN g.tag :
           IF a \in DOMAIN h.tag
           THEN /\ g.tag[a].index = h.tag[a].index /\ g.tag[a].next = h.tag[a].next
                /\ g.tag[a].prev = h.tag[a].prev
           ELSE g.tag[a].index = NoBin /\ g.tag[a].next = Null /\ g.tag[a].prev = Null
  PROVE  Lists(g)
<1> DEFINE T == DOMAIN h.tag
           U == DOMAIN g.tag
<1>1. /\ Null \notin T /\ Null \notin U /\ \A b \in Bins : h.free[b] \in T \cup {Null}
      /\ \A a \in T : /\ h.tag[a].index \in Bins \cup {NoBin}
                      /\ h.tag[a].next \in T \cup {Null} /\ h.tag[a].prev \in T \cup {Null}
      /\ NoBin \notin Bins
  BY Classes DEF Lists, Formed, Fields
<1>2. \A a \in T :
        /\ h.tag[a].index = NoBin => h.tag[a].next = Null /\ h.tag[a].prev = Null
        /\ h.tag[a].next # Null => /\ h.tag[h.tag[a].next].prev = a
                                   /\ h.tag[h.tag[a].next].index = h.tag[a].index
        /\ h.tag[a].prev # Null => /\ h.tag[h.tag[a].prev].next = a
                                   /\ h.tag[h.tag[a].prev].index = h.tag[a].index
        /\ h.tag[a].index # NoBin => ((h.tag[a].prev = Null) <=> (h.free[h.tag[a].index] = a))
  BY DEF Lists, Linked
<1>3. \A b \in Bins : h.free[b] # Null => h.tag[h.free[b]].index = b
  BY DEF Lists, Linked
<1>4. \A a \in T : h.tag[a].index # NoBin =>
        /\ a \in U /\ g.tag[a].index = h.tag[a].index
        /\ g.tag[a].next = h.tag[a].next /\ g.tag[a].prev = h.tag[a].prev
  OBVIOUS
<1>5. \A a \in U : g.tag[a].index # NoBin => a \in T /\ h.tag[a].index = g.tag[a].index
  OBVIOUS
<1>6. ASSUME NEW a \in U
      PROVE  /\ g.tag[a].index = NoBin => g.tag[a].next = Null /\ g.tag[a].prev = Null
             /\ g.tag[a].next # Null => /\ g.tag[g.tag[a].next].prev = a
                                        /\ g.tag[g.tag[a].next].index = g.tag[a].index
             /\ g.tag[a].prev # Null => /\ g.tag[g.tag[a].prev].next = a
                                        /\ g.tag[g.tag[a].prev].index = g.tag[a].index
             /\ g.tag[a].index # NoBin => ((g.tag[a].prev = Null) <=> (g.free[g.tag[a].index] = a))
  <2>1. CASE g.tag[a].index = NoBin
    <3>1. g.tag[a].next = Null /\ g.tag[a].prev = Null
      BY <1>2, <2>1
    <3> QED
      BY <2>1, <3>1
  <2>2. CASE g.tag[a].index # NoBin
    <3>1. /\ a \in T /\ g.tag[a].index = h.tag[a].index /\ g.tag[a].next = h.tag[a].next
          /\ g.tag[a].prev = h.tag[a].prev
      BY <1>4, <1>5, <2>2
    <3>2. ASSUME g.tag[a].next # Null
          PROVE  g.tag[g.tag[a].next].prev = a /\ g.tag[g.tag[a].next].index = g.tag[a].index
      BY <1>1, <1>2, <1>4, <2>2, <3>1, <3>2
    <3>3. ASSUME g.tag[a].prev # Null
          PROVE  g.tag[g.tag[a].prev].next = a /\ g.tag[g.tag[a].prev].index = g.tag[a].index
      BY <1>1, <1>2, <1>4, <2>2, <3>1, <3>3
    <3> QED
      BY <1>2, <2>2, <3>1, <3>2, <3>3
  <2> QED
    BY <2>1, <2>2
<1>7. ASSUME NEW b \in Bins, g.free[b] # Null
      PROVE  g.tag[g.free[b]].index = b
  <2>1. h.free[b] \in T /\ h.tag[h.free[b]].index = b /\ b # NoBin
    BY <1>1, <1>3, <1>7
  <2> QED
    BY <1>4, <2>1
<1>8. Linked(g)
  BY <1>6, <1>7 DEF Linked
<1>9. Queued(g)
  <2>1. PICK place \in [T -> Nat] : \A a \in T : h.tag[a].index # NoBin =>
          /\ (place[a] = 0) <=> (h.tag[a].prev = Null)
          /\ h.tag[a].next # Null => place[h.tag[a].next] = place[a] + 1
          /\ \A b \in T : h.tag[b].index = h.tag[a].index /\ place[b] = place[a] => b = a
    BY DEF Lists, Queued
  <2> DEFINE carried == [a \in U |-> IF a \in T THEN place[a] ELSE 0]
  <2>2. carried \in [U -> Nat] /\ \A a \in U : a \in T => carried[a] = place[a]
    BY <2>1
  <2> HIDE DEF carried
  <2>3. ASSUME NEW a \in U, g.tag[a].index # NoBin
        PROVE  /\ (carried[a] = 0) <=> (g.tag[a].prev = Null)
               /\ g.tag[a].next # Null => carried[g.tag[a].next] = carried[a] + 1
               /\ \A b \in U : g.tag[b].index = g.tag[a].index /\ carried[b] = carried[a] => b = a
    <3>1. /\ a \in T /\ h.tag[a].index = g.tag[a].index /\ g.tag[a].next = h.tag[a].next
          /\ g.tag[a].prev = h.tag[a].prev /\ carried[a] = place[a]
      BY <1>4, <1>5, <2>2, <2>3
    <3>2. ASSUME g.tag[a].next # Null
          PROVE  carried[g.tag[a].next] = carried[a] + 1
      <4>1. h.tag[a].next \in T /\ h.tag[h.tag[a].next].index # NoBin
        BY <1>1, <1>2, <2>3, <3>1, <3>2
      <4>2. h.tag[a].next \in U
        BY <1>4, <4>1
      <4> QED
        BY <2>1, <2>2, <2>3, <3>1, <3>2, <4>1, <4>2
    <3>3. ASSUME NEW b \in U, g.tag[b].index = g.tag[a].index, carried[b] = carried[a]
          PROVE  b = a
      <4>1. b \in T /\ h.tag[b].index = h.tag[a].index /\ place[b] = place[a]
        BY <1>5, <2>2, <2>3, <3>1, <3>3
      <4> QED
        BY <2>1, <2>3, <3>1, <4>1
    <3> QED
      BY <2>1, <2>3, <3>1, <3>2, <3>3
  <2> HIDE DEF U
  <2> QED
    BY <2>2, <2>3 DEF Queued, U
<1> QED
  BY <1>8, <1>9 DEF Lists

-----------------------------------------------------------------------------
(* Pieces *)

\* The change of a list leaves the pieces where they are.
LEMMA ShapeKept ==
  ASSUME NEW h, NEW g, NEW regions, SameShape(h, g), Formed(h), Pieces(h, regions)
  PROVE  Pieces(g, regions)
<1>1. \A a \in DOMAIN h.tag : /\ h.tag[a].split_left \in DOMAIN h.tag \cup {Null}
                              /\ h.tag[a].split_right \in DOMAIN h.tag \cup {Null}
  BY DEF Formed, Fields
<1>2. Joined(g)
  BY <1>1 DEF SameShape, Pieces, Joined
<1>3. Ordered(g)
  BY DEF SameShape, Pieces, Ordered
<1>4. Placed(g, regions)
  BY DEF SameShape, Pieces, Placed, Within
<1> QED
  BY <1>2, <1>3, <1>4 DEF Pieces

LEMMA LeftSet ==
  ASSUME NEW T, NEW r \in Fields(T), NEW x \in T \cup {Null}
  PROVE  LET s == [r EXCEPT !.split_left = x] IN
         /\ s \in Fields(T) /\ s.real_size = r.real_size /\ s.split_right = r.split_right
         /\ s.size = r.size /\ s.split_left = x
         /\ s.index = r.index /\ s.next = r.next /\ s.prev = r.prev
BY DEF Fields

LEMMA SameRegion ==
  ASSUME NEW regions, Disjoint(regions), NEW p \in regions, NEW q \in regions, NEW x \in Nat,
         p.base <= x, x < p.base + p.size, q.base <= x, x < q.base + q.size
  PROVE  p = q
<1>1. p.base \in Nat /\ p.size \in Nat /\ q.base \in Nat /\ q.size \in Nat
  BY DEF Disjoint
<1> QED
  BY <1>1 DEF Disjoint

\* Merge(): a piece swallows the one behind it, which is in no list.
LEMMA Merged ==
  ASSUME NEW h, NEW regions, Lists(h), Pieces(h, regions), Disjoint(regions),
         NEW t \in DOMAIN h.tag, NEW gone \in DOMAIN h.tag,
         h.tag[t].split_right = gone, h.tag[gone].index = NoBin
  PROVE  LET g == Merge(h, t, gone)
             T == DOMAIN h.tag
             right == h.tag[gone].split_right
         IN  /\ Lists(g) /\ Pieces(g, regions)
             /\ DOMAIN g.tag = T \ {gone} /\ t # gone
             /\ \A a \in T \ {gone} :
                  /\ g.tag[a].size = h.tag[a].size /\ g.tag[a].index = h.tag[a].index
                  /\ g.tag[a].real_size = IF a = t THEN h.tag[t].real_size + h.tag[gone].real_size
                                          ELSE h.tag[a].real_size
                  /\ g.tag[a].split_right = IF a = t THEN right ELSE h.tag[a].split_right
                  /\ g.tag[a].split_left = IF a = right THEN t ELSE h.tag[a].split_left
<1> DEFINE g == Merge(h, t, gone)
           T == DOMAIN h.tag
           U == T \ {gone}
           r == h.tag[gone]
           new(a) == IF a = t THEN [h.tag[t] EXCEPT !.real_size = @ + r.real_size,
                                                    !.split_right = r.split_right]
                     ELSE IF a = r.split_right THEN [h.tag[a] EXCEPT !.split_left = t]
                     ELSE h.tag[a]
<1>1. g.tag = [a \in U |-> new(a)] /\ g.free = h.free
  BY DEF Merge
<1>2. /\ T \subseteq Nat \ {Null} /\ IsFiniteSet(T) /\ h.free \in [Bins -> T \cup {Null}]
      /\ NoBin \notin Bins /\ HDR \in Nat \ {0}
      /\ \A a \in T : /\ h.tag[a] \in Fields(T) /\ h.tag[a].index \in Bins \cup {NoBin}
                      /\ h.tag[a].next \in T \cup {Null} /\ h.tag[a].prev \in T \cup {Null}
                      /\ h.tag[a].split_left \in T \cup {Null}
                      /\ h.tag[a].split_right \in T \cup {Null}
                      /\ h.tag[a].real_size \in Nat /\ h.tag[a].real_size >= HDR
  BY Classes, HeapAssumption DEF Lists, Formed, Pieces, Joined, Fields
<1>3. \A a \in T :
        /\ h.tag[a].index = NoBin => h.tag[a].next = Null /\ h.tag[a].prev = Null
        /\ h.tag[a].next # Null => /\ h.tag[h.tag[a].next].prev = a
                                   /\ h.tag[h.tag[a].next].index = h.tag[a].index
        /\ h.tag[a].prev # Null => /\ h.tag[h.tag[a].prev].next = a
                                   /\ h.tag[h.tag[a].prev].index = h.tag[a].index
        /\ h.tag[a].index # NoBin => ((h.tag[a].prev = Null) <=> (h.free[h.tag[a].index] = a))
  BY DEF Lists, Linked
<1>4. \A b \in Bins : h.free[b] # Null => h.tag[h.free[b]].index = b
  BY DEF Lists, Linked
<1>5. \A a \in T :
        /\ h.tag[a].split_left # Null => h.tag[h.tag[a].split_left].split_right = a
        /\ h.tag[a].split_right # Null => /\ h.tag[h.tag[a].split_right].split_left = a
                                          /\ h.tag[a].split_right = a + h.tag[a].real_size
  BY DEF Pieces, Joined
<1>6. \A a, b \in T : a < b => a + h.tag[a].real_size <= b
  BY DEF Pieces, Ordered
<1>7. gone = t + h.tag[t].real_size /\ gone # Null /\ r.split_left = t
  BY <1>2, <1>5
<1>8. t # gone /\ t # r.split_right
  <2>1. t # gone
    BY <1>2, <1>7
  <2>2. r.split_right # Null => r.split_right = gone + r.real_size
    BY <1>5
  <2> QED
    BY <1>2, <1>7, <2>1, <2>2
<1>9. \A a \in U : /\ h.tag[a].next # gone /\ h.tag[a].prev # gone
                   /\ a # t => h.tag[a].split_right # gone
                   /\ h.tag[a].split_left = gone => a = r.split_right
  BY <1>2, <1>3, <1>5, <1>7
<1>10. \A b \in Bins : h.free[b] # gone
  BY <1>2, <1>4, <1>7
<1>12. r.split_right \in U \cup {Null}
  <2>1. r.split_right # gone
    BY <1>2, <1>5, <1>7
  <2> QED
    BY <1>2, <2>1
<1>13. \A a \in U : g.tag[a] = new(a)
  BY <1>1
<1>14. DOMAIN g.tag = U /\ t \in U
  BY <1>1, <1>8
<1> HIDE DEF g
<1>15. ASSUME NEW a \in U
       PROVE  /\ new(a) \in Fields(U)
              /\ new(a).size = h.tag[a].size /\ new(a).index = h.tag[a].index
              /\ new(a).next = h.tag[a].next /\ new(a).prev = h.tag[a].prev
              /\ new(a).real_size = IF a = t THEN h.tag[t].real_size + h.tag[gone].real_size
                                    ELSE h.tag[a].real_size
              /\ new(a).split_right = IF a = t THEN r.split_right ELSE h.tag[a].split_right
              /\ new(a).split_left = IF a = r.split_right THEN t ELSE h.tag[a].split_left
  <2> PICK q : q = h.tag[a]
    OBVIOUS
  <2>1. q \in Fields(T)
    BY <1>2
  <2>2. CASE a = t
    <3>1. PICK n : n = h.tag[t].real_size + h.tag[gone].real_size
      OBVIOUS
    <3>2. n \in Nat
      BY <1>2, <3>1
    <3>3. new(a) = [q EXCEPT !.real_size = n, !.split_right = r.split_right]
      BY <2>2, <3>1
    <3> HIDE DEF new
    <3>4. /\ new(a) \in Fields(T) /\ new(a).real_size = n /\ new(a).split_right = r.split_right
          /\ new(a).size = q.size /\ new(a).split_left = q.split_left
          /\ new(a).index = q.index /\ new(a).next = q.next /\ new(a).prev = q.prev
      BY <1>2, <2>1, <3>2, <3>3 DEF Fields
    <3>5. q.next # gone /\ q.prev # gone /\ q.split_left # gone
      BY <1>8, <1>9, <2>2
    <3>6. new(a) \in Fields(U)
      BY <1>12, <3>4, <3>5 DEF Fields
    <3> QED
      BY <1>8, <2>2, <3>1, <3>4, <3>6
  <2>3. CASE a # t /\ a = r.split_right
    <3>1. new(a) = [q EXCEPT !.split_left = t]
      BY <2>3
    <3> HIDE DEF new
    <3>2. /\ new(a) \in Fields(T) /\ new(a).real_size = q.real_size
          /\ new(a).split_right = q.split_right
          /\ new(a).size = q.size /\ new(a).split_left = t
          /\ new(a).index = q.index /\ new(a).next = q.next /\ new(a).prev = q.prev
      BY <2>1, <3>1, LeftSet
    <3>3. q.next # gone /\ q.prev # gone /\ q.split_right # gone
      BY <1>9, <2>3
    <3>4. new(a) \in Fields(U)
      BY <1>14, <3>2, <3>3 DEF Fields
    <3> QED
      BY <2>3, <3>2, <3>4
  <2>4. CASE a # t /\ a # r.split_right
    <3>1. new(a) = q
      BY <2>4
    <3>2. q.next # gone /\ q.prev # gone /\ q.split_right # gone /\ q.split_left # gone
      BY <1>9, <2>4
    <3>3. q \in Fields(U)
      BY <2>1, <3>2 DEF Fields
    <3> HIDE DEF new
    <3> QED
      BY <2>4, <3>1, <3>3
  <2> QED
    BY <2>2, <2>3, <2>4
<1> HIDE DEF new
<1>16. \A a \in U :
         /\ g.tag[a].size = h.tag[a].size /\ g.tag[a].index = h.tag[a].index
         /\ g.tag[a].next = h.tag[a].next /\ g.tag[a].prev = h.tag[a].prev
         /\ g.tag[a].real_size = IF a = t THEN h.tag[t].real_size + h.tag[gone].real_size
                                 ELSE h.tag[a].real_size
         /\ g.tag[a].split_right = IF a = t THEN r.split_right ELSE h.tag[a].split_right
         /\ g.tag[a].split_left = IF a = r.split_right THEN t ELSE h.tag[a].split_left
  BY <1>13, <1>15
<1>17. Lists(g)
  <2>1. Formed(g)
    <3>1. IsFiniteSet(U)
      BY <1>2, FS_RemoveElement
    <3>2. g.free \in [Bins -> U \cup {Null}]
      BY <1>1, <1>2, <1>10
    <3>3. g.tag = [a \in DOMAIN g.tag |-> g.tag[a]]
      BY <1>1, <1>13, <1>14
    <3>4. ASSUME NEW a \in U
          PROVE  g.tag[a] \in Fields(U)
      <4>1. new(a) \in Fields(U)
        BY <1>15
      <4>2. g.tag[a] = new(a)
        BY <1>13
      <4> QED
        BY <4>1, <4>2, Zenon
    <3> QED
      BY <1>2, <1>14, <3>1, <3>2, <3>3, <3>4 DEF Formed
  <2>2. \A a \in T : a \notin U => h.tag[a].index = NoBin
    OBVIOUS
  <2>3. \A a \in U : /\ a \in T /\ g.tag[a].index = h.tag[a].index
                     /\ g.tag[a].next = h.tag[a].next /\ g.tag[a].prev = h.tag[a].prev
    BY <1>16
  <2> HIDE DEF U
  <2> QED
    BY <1>1, <1>14, <2>1, <2>2, <2>3, ListsCarried
<1>18. Pieces(g, regions)
  <2>1. Joined(g)
    <3>1. ASSUME NEW a \in U
          PROVE  g.tag[a].real_size >= HDR
      BY <1>2, <1>16
    <3>2. ASSUME NEW a \in U, g.tag[a].split_left # Null
          PROVE  g.tag[g.tag[a].split_left].split_right = a
      <4>1. CASE a = r.split_right
        BY <1>14, <1>16, <4>1
      <4>2. CASE a # r.split_right
        BY <1>2, <1>5, <1>9, <1>14, <1>16, <3>2, <4>2, <1>7
      <4> QED
        BY <4>1, <4>2
    <3>3. ASSUME NEW a \in U, g.tag[a].split_right # Null
          PROVE  /\ g.tag[g.tag[a].split_right].split_left = a
                 /\ g.tag[a].split_right = a + g.tag[a].real_size
      <4>1. CASE a = t
        <5>1. r.split_right \in U /\ r.split_right = gone + r.real_size
          BY <1>5, <1>12, <1>16, <3>3, <4>1
        <5>2. \A x, y, z, w \in Nat : x = y + z /\ w = x + y => w = (y + z) + y
          OBVIOUS
        <5>3. r.split_right = t + (h.tag[t].real_size + r.real_size)
          <6>1. h.tag[t].real_size \in Nat /\ r.real_size \in Nat /\ t \in Nat
            BY <1>2
          <6> QED
            BY <1>7, <5>1, <6>1
        <5> QED
          BY <1>16, <4>1, <5>1, <5>3
      <4>2. CASE a # t
        BY <1>2, <1>5, <1>9, <1>16, <3>3, <4>2
      <4> QED
        BY <4>1, <4>2
    <3> QED
      BY <1>14, <3>1, <3>2, <3>3 DEF Joined
  <2>2. Ordered(g)
    <3>1. ASSUME NEW a \in U, NEW b \in U, a < b
          PROVE  a + g.tag[a].real_size <= b
      <4>1. CASE a = t
        <5>1. t + h.tag[t].real_size <= b
          BY <1>6, <3>1, <4>1
        <5>2. gone < b
          BY <1>2, <1>7, <5>1
        <5>3. gone + r.real_size <= b
          BY <1>6, <5>2
        <5>4. h.tag[t].real_size \in Nat /\ r.real_size \in Nat /\ t \in Nat /\ b \in Nat
          BY <1>2
        <5>5. t + (h.tag[t].real_size + r.real_size) <= b
          BY <1>7, <5>3, <5>4
        <5> QED
          BY <1>16, <4>1, <5>5
      <4>2. CASE a # t
        BY <1>6, <1>16, <3>1, <4>2
      <4> QED
        BY <4>1, <4>2
    <3> QED
      BY <1>14, <3>1 DEF Ordered
  <2>3. Placed(g, regions)
    <3>0. \A p \in regions : p.base \in Nat /\ p.size \in Nat \ {0}
      BY DEF Disjoint
    <3>1. PICK q \in regions : Within(h, gone, q)
      BY DEF Pieces, Placed
    <3>2. ASSUME NEW a \in U
          PROVE  \E p \in regions : Within(g, a, p)
      <4>1. PICK p \in regions : Within(h, a, p)
        BY DEF Pieces, Placed
      <4>2. CASE a = t
        <5>1. p = q
          <6>1. /\ p.base <= t /\ gone <= p.base + p.size
                /\ gone # p.base + p.size
            BY <1>7, <4>1, <4>2 DEF Within
          <6>2. q.base <= gone /\ gone + r.real_size <= q.base + q.size
            BY <3>1 DEF Within
          <6>3. t \in Nat /\ gone \in Nat /\ h.tag[t].real_size \in Nat /\ r.real_size \in Nat
                /\ r.real_size > 0
            BY <1>2
          <6>4. p.base <= gone /\ gone < p.base + p.size /\ gone < q.base + q.size
            BY <1>7, <3>0, <6>1, <6>2, <6>3
          <6> QED
            BY <6>2, <6>3, <6>4, SameRegion
        <5>2. gone + r.real_size = t + (h.tag[t].real_size + r.real_size)
          <6>1. t \in Nat /\ h.tag[t].real_size \in Nat /\ r.real_size \in Nat
            BY <1>2
          <6> QED
            BY <1>7, <6>1
        <5>3. /\ g.tag[t].real_size = h.tag[t].real_size + r.real_size
              /\ g.tag[t].split_right = r.split_right /\ g.tag[t].split_left = h.tag[t].split_left
          BY <1>8, <1>14, <1>16
        <5> QED
          BY <3>1, <4>1, <4>2, <5>1, <5>2, <5>3 DEF Within
      <4>3. CASE a # t
        <5>1. /\ g.tag[a].real_size = h.tag[a].real_size
              /\ g.tag[a].split_right = h.tag[a].split_right
              /\ (g.tag[a].split_left = Null) <=> (h.tag[a].split_left = Null)
          <6>1. a = r.split_right => h.tag[a].split_left = gone /\ t # Null
            BY <1>2, <1>5, <1>14
          <6> QED
            BY <1>7, <1>16, <4>3, <6>1
        <5> QED
          BY <4>1, <5>1 DEF Within
      <4> QED
        BY <4>2, <4>3
    <3>3. ASSUME NEW p \in regions
          PROVE  p.base \in U
      <4>1. p.base \in T
        BY DEF Pieces, Placed
      <4>2. SUFFICES ASSUME p.base = gone
                     PROVE  FALSE
        BY <4>1
      <4>3. /\ q.base <= gone /\ gone + r.real_size <= q.base + q.size
            /\ q.base # gone
        BY <1>2, <1>7, <1>14, <3>1 DEF Within
      <4>4. gone \in Nat /\ r.real_size \in Nat \ {0}
        BY <1>2
      <4>5. p = q
        BY <3>0, <4>2, <4>3, <4>4, SameRegion
      <4> QED
        BY <4>2, <4>3, <4>5
    <3> QED
      BY <1>14, <3>2, <3>3 DEF Placed
  <2> QED
    BY <2>1, <2>2, <2>3 DEF Pieces
<1> QED
  BY <1>8, <1>14, <1>16, <1>17, <1>18 DEF g

\* The size a caller asked for is in its tag, and in nothing else.
LEMMA Sized ==
  ASSUME NEW h, NEW regions, Lists(h), Pieces(h, regions), NEW t \in DOMAIN h.tag,
         NEW size \in Nat
  PROVE  LET g == [h EXCEPT !.tag[t].size = size] IN
         /\ Lists(g) /\ Pieces(g, regions) /\ DOMAIN g.tag = DOMAIN h.tag
         /\ \A a \in DOMAIN h.tag :
              /\ g.tag[a].size = IF a = t THEN size ELSE h.tag[a].size
              /\ g.tag[a].real_size = h.tag[a].real_size /\ g.tag[a].index = h.tag[a].index
              /\ g.tag[a].split_left = h.tag[a].split_left
              /\ g.tag[a].split_right = h.tag[a].split_right
<1> DEFINE g == [h EXCEPT !.tag[t].size = size]
           T == DOMAIN h.tag
           new(a) == IF a = t THEN [h.tag[t] EXCEPT !.size = size] ELSE h.tag[a]
<1>1. \A a \in T : h.tag[a] \in Fields(T)
  BY DEF Lists, Formed
<1>2. g.tag = [h.tag EXCEPT ![t] = [h.tag[t] EXCEPT !.size = size]] /\ g.free = h.free
  OBVIOUS
<1>3. DOMAIN g.tag = T /\ (\A a \in T : g.tag[a] = new(a)) /\ g.tag = [a \in T |-> new(a)]
  BY <1>2 DEF Lists, Formed
<1> HIDE DEF g
<1>4. ASSUME NEW a \in T
      PROVE  /\ new(a) \in Fields(T) /\ new(a).size = IF a = t THEN size ELSE h.tag[a].size
             /\ new(a).real_size = h.tag[a].real_size /\ new(a).index = h.tag[a].index
             /\ new(a).next = h.tag[a].next /\ new(a).prev = h.tag[a].prev
             /\ new(a).split_left = h.tag[a].split_left
             /\ new(a).split_right = h.tag[a].split_right
  BY <1>1 DEF Fields
<1> HIDE DEF new
<1>5. \A a \in T : /\ g.tag[a].size = IF a = t THEN size ELSE h.tag[a].size
                   /\ g.tag[a].real_size = h.tag[a].real_size /\ g.tag[a].index = h.tag[a].index
                   /\ g.tag[a].next = h.tag[a].next /\ g.tag[a].prev = h.tag[a].prev
                   /\ g.tag[a].split_left = h.tag[a].split_left
                   /\ g.tag[a].split_right = h.tag[a].split_right
  BY <1>3, <1>4
<1>6. \A a \in T : /\ h.tag[a].next \in T \cup {Null} /\ h.tag[a].prev \in T \cup {Null}
                   /\ h.tag[a].split_left \in T \cup {Null}
                   /\ h.tag[a].split_right \in T \cup {Null}
  BY <1>1 DEF Fields
<1>7. Lists(g)
  <2>1. Formed(g)
    <3>1. ASSUME NEW a \in T
          PROVE  g.tag[a] \in Fields(T)
      <4>1. new(a) \in Fields(T)
        BY <1>4
      <4>2. g.tag[a] = new(a)
        BY <1>3
      <4> QED
        BY <4>1, <4>2, Zenon
    <3>2. g.tag = [a \in DOMAIN g.tag |-> g.tag[a]]
      BY <1>3
    <3> QED
      BY <1>2, <1>3, <3>1, <3>2 DEF Lists, Formed
  <2> QED
    BY <1>2, <1>3, <1>5, <2>1, ListsCarried
<1>8. Pieces(g, regions)
  <2>1. Joined(g)
    <3>1. ASSUME NEW a \in T
          PROVE  /\ g.tag[a].real_size >= HDR
                 /\ g.tag[a].split_left # Null => g.tag[g.tag[a].split_left].split_right = a
                 /\ g.tag[a].split_right # Null =>
                      /\ g.tag[g.tag[a].split_right].split_left = a
                      /\ g.tag[a].split_right = a + g.tag[a].real_size
      BY <1>5, <1>6 DEF Pieces, Joined
    <3> QED
      BY <1>3, <3>1 DEF Joined
  <2>2. Ordered(g)
    BY <1>3, <1>5 DEF Pieces, Ordered
  <2>3. Placed(g, regions)
    <3>1. ASSUME NEW a \in T
          PROVE  \E r \in regions : Within(g, a, r)
      <4>1. PICK r \in regions : Within(h, a, r)
        BY DEF Pieces, Placed
      <4> QED
        BY <1>5, <4>1 DEF Within
    <3> QED
      BY <1>3, <3>1 DEF Pieces, Placed
  <2> QED
    BY <2>1, <2>2, <2>3 DEF Pieces
<1> QED
  BY <1>3, <1>5, <1>7, <1>8 DEF g

\* split_tag() before its insert_tag(): the tail of t has a tag of its own.
NewAt(h, t) == t + HDR + h.tag[t].size
Tail(h, t) == h.tag[t].real_size - HDR - h.tag[t].size

Cut(h, t) ==
  [h EXCEPT !.tag =
     [a \in DOMAIN h.tag \cup {NewAt(h, t)} |->
        IF a = NewAt(h, t)
        THEN [size |-> 0, real_size |-> Tail(h, t), index |-> NoBin, split_left |-> t,
              split_right |-> h.tag[t].split_right, next |-> Null, prev |-> Null]
        ELSE IF a = t THEN [h.tag[t] EXCEPT !.split_right = NewAt(h, t), !.real_size = @ - Tail(h, t)]
        ELSE IF a = h.tag[t].split_right THEN [h.tag[a] EXCEPT !.split_left = NewAt(h, t)]
        ELSE h.tag[a]]]

LEMMA SplitIsCut ==
  ASSUME NEW h, NEW t
  PROVE  split_tag(h, t) = insert_tag(Cut(h, t), NewAt(h, t), BinOf(Tail(h, t) - HDR))
BY DEF split_tag, Cut, NewAt, Tail

LEMMA CutOff ==
  ASSUME NEW h, NEW regions, Lists(h), Pieces(h, regions), Disjoint(regions),
         NEW t \in DOMAIN h.tag, h.tag[t].index = NoBin, Tail(h, t) >= HDR
  PROVE  LET g == Cut(h, t)
             T == DOMAIN h.tag
             new == NewAt(h, t)
             right == h.tag[t].split_right
         IN  /\ Lists(g) /\ Pieces(g, regions)
             /\ DOMAIN g.tag = T \cup {new} /\ new \notin T /\ new # Null
             /\ g.tag[new].index = NoBin /\ g.tag[new].real_size = Tail(h, t)
             /\ g.tag[new].split_left = t /\ g.tag[new].split_right = right
             /\ \A a \in T :
                  /\ g.tag[a].size = h.tag[a].size /\ g.tag[a].index = h.tag[a].index
                  /\ g.tag[a].real_size = IF a = t THEN HDR + h.tag[t].size ELSE h.tag[a].real_size
                  /\ g.tag[a].split_right = IF a = t THEN new ELSE h.tag[a].split_right
                  /\ g.tag[a].split_left = IF a = right THEN new ELSE h.tag[a].split_left
<1> DEFINE g == Cut(h, t)
           T == DOMAIN h.tag
           new == NewAt(h, t)
           rest == Tail(h, t)
           r == h.tag[t]
           right == r.split_right
           U == T \cup {new}
           piece == [size |-> 0, real_size |-> rest, index |-> NoBin, split_left |-> t,
                     split_right |-> right, next |-> Null, prev |-> Null]
           at(a) == IF a = new THEN piece
                    ELSE IF a = t THEN [r EXCEPT !.split_right = new, !.real_size = @ - rest]
                    ELSE IF a = right THEN [h.tag[a] EXCEPT !.split_left = new]
                    ELSE h.tag[a]
<1>1. g.tag = [a \in U |-> at(a)] /\ g.free = h.free
  BY DEF Cut
<1>2. /\ T \subseteq Nat \ {Null} /\ IsFiniteSet(T) /\ h.free \in [Bins -> T \cup {Null}]
      /\ NoBin \notin Bins /\ HDR \in Nat \ {0} /\ Null = 0
      /\ \A a \in T : /\ h.tag[a] \in Fields(T) /\ h.tag[a].index \in Bins \cup {NoBin}
                      /\ h.tag[a].next \in T \cup {Null} /\ h.tag[a].prev \in T \cup {Null}
                      /\ h.tag[a].split_left \in T \cup {Null}
                      /\ h.tag[a].split_right \in T \cup {Null}
                      /\ h.tag[a].real_size \in Nat /\ h.tag[a].real_size >= HDR
                      /\ h.tag[a].size \in Nat
  BY Classes, HeapAssumption DEF Lists, Formed, Pieces, Joined, Fields
<1>5. \A a \in T :
        /\ h.tag[a].split_left # Null => h.tag[h.tag[a].split_left].split_right = a
        /\ h.tag[a].split_right # Null => /\ h.tag[h.tag[a].split_right].split_left = a
                                          /\ h.tag[a].split_right = a + h.tag[a].real_size
  BY DEF Pieces, Joined
<1>6. \A a, b \in T : a < b => a + h.tag[a].real_size <= b
  BY DEF Pieces, Ordered
<1>7. /\ rest \in Nat /\ new \in Nat /\ t \in Nat /\ rest >= HDR /\ rest > 0
      /\ r.real_size \in Nat /\ r.size \in Nat
      /\ new = t + (HDR + r.size) /\ r.real_size = (HDR + r.size) + rest
      /\ r.real_size - rest = HDR + r.size /\ new + rest = t + r.real_size /\ t < new
      /\ HDR + r.size \in Nat
  <2>1. \A s, z, x \in Nat : (s - HDR - z >= HDR /\ HDR \in Nat \ {0}) =>
          /\ s - HDR - z \in Nat /\ s = (HDR + z) + (s - HDR - z)
          /\ s - (s - HDR - z) = HDR + z
          /\ (x + HDR + z) = x + (HDR + z) /\ (x + HDR + z) + (s - HDR - z) = x + s
          /\ x + HDR + z \in Nat /\ x < x + HDR + z /\ s - HDR - z > 0 /\ HDR + z \in Nat
    OBVIOUS
  <2>2. rest = r.real_size - HDR - r.size /\ new = t + HDR + r.size
    BY DEF Tail, NewAt
  <2>3. r.real_size \in Nat /\ r.size \in Nat /\ t \in Nat
    BY <1>2
  <2> HIDE DEF rest, new
  <2>4. rest >= HDR
    BY DEF rest
  <2>5. PICK s \in Nat, z \in Nat, x \in Nat : s = r.real_size /\ z = r.size /\ x = t
    BY <2>3
  <2>6. s - HDR - z >= HDR /\ rest = s - HDR - z /\ new = x + HDR + z
    BY <2>2, <2>4, <2>5
  <2>7. /\ rest \in Nat /\ s = (HDR + z) + rest /\ s - rest = HDR + z /\ new = x + (HDR + z)
        /\ new + rest = x + s /\ new \in Nat /\ x < new /\ rest > 0 /\ HDR + z \in Nat
    BY <1>2, <2>1, <2>6
  <2> QED
    BY <2>3, <2>4, <2>5, <2>7
<1>8. new \notin T /\ new # Null /\ right # t /\ right # new
  <2>1. new \notin T
    <3> SUFFICES ASSUME new \in T
                 PROVE  FALSE
      OBVIOUS
    <3>1. t + r.real_size <= new
      BY <1>6, <1>7
    <3> HIDE DEF new, rest
    <3> QED
      BY <1>7, <3>1
  <2>2. right # Null => right = t + r.real_size
    BY <1>5
  <2>3. right # t
    BY <1>2, <1>7, <2>2
  <2> QED
    BY <1>2, <1>7, <2>1, <2>3
<1> HIDE DEF g, new, rest
<1>9. DOMAIN g.tag = U /\ \A a \in U : g.tag[a] = at(a)
  BY <1>1
<1>10. \A a \in T : a # new
  BY <1>8
<1>11. /\ at(new) \in Fields(U) /\ at(new).index = NoBin /\ at(new).real_size = rest
       /\ at(new).split_left = t /\ at(new).split_right = right
       /\ at(new).next = Null /\ at(new).prev = Null
  <2>1. at(new) = piece
    OBVIOUS
  <2>2. right \in U \cup {Null}
    BY <1>2
  <2>3. piece \in Fields(U)
    BY <1>7, <2>2 DEF Fields
  <2> QED
    BY <2>1, <2>3
<1>12. ASSUME NEW a \in T
       PROVE  /\ at(a) \in Fields(U)
              /\ at(a).size = h.tag[a].size /\ at(a).index = h.tag[a].index
              /\ at(a).next = h.tag[a].next /\ at(a).prev = h.tag[a].prev
              /\ at(a).real_size = IF a = t THEN HDR + r.size ELSE h.tag[a].real_size
              /\ at(a).split_right = IF a = t THEN new ELSE h.tag[a].split_right
              /\ at(a).split_left = IF a = right THEN new ELSE h.tag[a].split_left
  <2> PICK q : q = h.tag[a]
    OBVIOUS
  <2>1. q \in Fields(T) /\ q \in Fields(U)
    <3>1. q \in Fields(T)
      BY <1>2
    <3> QED
      BY <3>1 DEF Fields
  <2>2. CASE a = t
    <3>1. at(a) = [q EXCEPT !.split_right = new, !.real_size = HDR + r.size]
      BY <1>7, <1>10, <2>2
    <3> HIDE DEF at
    <3>2. /\ at(a) \in Fields(U) /\ at(a).real_size = HDR + r.size /\ at(a).split_right = new
          /\ at(a).size = q.size /\ at(a).split_left = q.split_left
          /\ at(a).index = q.index /\ at(a).next = q.next /\ at(a).prev = q.prev
      BY <1>7, <2>1, <3>1 DEF Fields
    <3> QED
      BY <1>8, <2>2, <3>2
  <2>3. CASE a # t /\ a = right
    <3>1. at(a) = [q EXCEPT !.split_left = new]
      BY <1>10, <2>3
    <3> HIDE DEF at
    <3>2. /\ at(a) \in Fields(U) /\ at(a).real_size = q.real_size
          /\ at(a).split_right = q.split_right /\ at(a).size = q.size /\ at(a).split_left = new
          /\ at(a).index = q.index /\ at(a).next = q.next /\ at(a).prev = q.prev
      BY <2>1, <3>1 DEF Fields
    <3> QED
      BY <2>3, <3>2
  <2>4. CASE a # t /\ a # right
    <3>1. at(a) = q
      BY <1>10, <2>4
    <3> HIDE DEF at
    <3> QED
      BY <2>1, <2>4, <3>1
  <2> QED
    BY <2>2, <2>3, <2>4
<1> HIDE DEF at
<1>13. \A a \in T :
         /\ g.tag[a].size = h.tag[a].size /\ g.tag[a].index = h.tag[a].index
         /\ g.tag[a].next = h.tag[a].next /\ g.tag[a].prev = h.tag[a].prev
         /\ g.tag[a].real_size = IF a = t THEN HDR + r.size ELSE h.tag[a].real_size
         /\ g.tag[a].split_right = IF a = t THEN new ELSE h.tag[a].split_right
         /\ g.tag[a].split_left = IF a = right THEN new ELSE h.tag[a].split_left
  BY <1>9, <1>12
<1>14. /\ g.tag[new].index = NoBin /\ g.tag[new].real_size = rest
       /\ g.tag[new].split_left = t /\ g.tag[new].split_right = right
       /\ g.tag[new].next = Null /\ g.tag[new].prev = Null
  BY <1>9, <1>11
<1>15. Lists(g)
  <2>1. Formed(g)
    <3>1. IsFiniteSet(U)
      BY <1>2, FS_AddElement
    <3>2. g.free \in [Bins -> U \cup {Null}]
      BY <1>1, <1>2
    <3>3. g.tag = [a \in DOMAIN g.tag |-> g.tag[a]]
      BY <1>1, <1>9
    <3>4. ASSUME NEW a \in U
          PROVE  g.tag[a] \in Fields(U)
      <4>1. at(a) \in Fields(U)
        <5>1. CASE a = new
          BY <1>11, <5>1, Zenon
        <5>2. CASE a \in T
          BY <1>12, <5>2
        <5> QED
          BY <5>1, <5>2
      <4>2. g.tag[a] = at(a)
        BY <1>9
      <4> QED
        BY <4>1, <4>2, Zenon
    <3>5. U \subseteq Nat \ {Null}
      BY <1>2, <1>7, <1>8
    <3> HIDE DEF U
    <3> QED
      BY <1>9, <3>1, <3>2, <3>3, <3>4, <3>5 DEF Formed
  <2>2. \A a \in U : IF a \in T
                     THEN /\ g.tag[a].index = h.tag[a].index /\ g.tag[a].next = h.tag[a].next
                          /\ g.tag[a].prev = h.tag[a].prev
                     ELSE g.tag[a].index = NoBin /\ g.tag[a].next = Null /\ g.tag[a].prev = Null
    BY <1>13, <1>14
  <2>3. T \subseteq U
    OBVIOUS
  <2> HIDE DEF U
  <2> QED
    BY <1>1, <1>9, <2>1, <2>2, <2>3, ListsCarried
<1>16. Pieces(g, regions)
  <2>1. Joined(g)
    <3>1. ASSUME NEW a \in U
          PROVE  g.tag[a].real_size >= HDR
      BY <1>2, <1>7, <1>13, <1>14
    <3>2. ASSUME NEW a \in U, g.tag[a].split_left # Null
          PROVE  g.tag[g.tag[a].split_left].split_right = a
      <4>1. CASE a = new
        BY <1>13, <1>14, <4>1
      <4>2. CASE a \in T /\ a = right
        BY <1>13, <1>14, <4>2
      <4>3. CASE a \in T /\ a # right
        <5>1. /\ g.tag[a].split_left = h.tag[a].split_left /\ h.tag[a].split_left \in T
              /\ h.tag[h.tag[a].split_left].split_right = a
          BY <1>2, <1>5, <1>13, <3>2, <4>3
        <5>2. h.tag[a].split_left # t
          BY <4>3, <5>1
        <5> QED
          BY <1>13, <5>1, <5>2
      <4> QED
        BY <4>1, <4>2, <4>3
    <3>3. ASSUME NEW a \in U, g.tag[a].split_right # Null
          PROVE  /\ g.tag[g.tag[a].split_right].split_left = a
                 /\ g.tag[a].split_right = a + g.tag[a].real_size
      <4>1. CASE a = new
        <5>1. right # Null /\ right \in T
          BY <1>2, <1>14, <3>3, <4>1
        <5>2. right = t + r.real_size
          BY <1>5, <5>1
        <5> QED
          BY <1>7, <1>13, <1>14, <4>1, <5>1, <5>2
      <4>2. CASE a = t
        BY <1>7, <1>13, <1>14, <4>2
      <4>3. CASE a \in T /\ a # t
        <5>1. /\ g.tag[a].split_right = h.tag[a].split_right /\ h.tag[a].split_right \in T
              /\ h.tag[h.tag[a].split_right].split_left = a
              /\ h.tag[a].split_right = a + h.tag[a].real_size
              /\ g.tag[a].real_size = h.tag[a].real_size
          BY <1>2, <1>5, <1>13, <3>3, <4>3
        <5>2. h.tag[a].split_right # right
          BY <1>5, <1>2, <4>3, <5>1
        <5> QED
          BY <1>13, <5>1, <5>2
      <4> QED
        BY <4>1, <4>2, <4>3
    <3> QED
      BY <1>9, <3>1, <3>2, <3>3 DEF Joined
  <2>2. Ordered(g)
    <3>1. ASSUME NEW a \in U, NEW b \in U, a < b
          PROVE  a + g.tag[a].real_size <= b
      <4>1. CASE a = t
        <5>1. CASE b = new
          BY <1>7, <1>13, <4>1, <5>1
        <5>2. CASE b \in T
          <6>1. t + r.real_size <= b /\ b \in Nat
            BY <1>2, <1>6, <3>1, <4>1, <5>2
          <6> QED
            BY <1>7, <1>13, <4>1, <6>1
        <5> QED
          BY <5>1, <5>2
      <4>2. CASE a = new
        <5>1. b \in T /\ b \in Nat /\ t < b
          BY <1>2, <1>7, <3>1, <4>2
        <5>2. t + r.real_size <= b
          BY <1>6, <5>1
        <5> QED
          BY <1>7, <1>14, <4>2, <5>2
      <4>3. CASE a \in T /\ a # t /\ b = new
        <5>1. a \in Nat /\ h.tag[a].real_size \in Nat /\ h.tag[a].real_size > 0
          BY <1>2, <4>3
        <5>2. a < t
          <6> SUFFICES ASSUME t < a
                       PROVE  FALSE
            BY <1>7, <4>3, <5>1
          <6>1. t + r.real_size <= a
            BY <1>6, <4>3
          <6> QED
            BY <1>7, <3>1, <4>3, <5>1, <6>1
        <5>3. a + h.tag[a].real_size <= t
          BY <1>6, <4>3, <5>2
        <5> QED
          BY <1>7, <1>13, <4>3, <5>1, <5>3
      <4>4. CASE a \in T /\ a # t /\ b \in T
        BY <1>6, <1>13, <3>1, <4>4
      <4> QED
        BY <4>1, <4>2, <4>3, <4>4
    <3> QED
      BY <1>9, <3>1 DEF Ordered
  <2>3. Placed(g, regions)
    <3>0. \A p \in regions : p.base \in Nat /\ p.size \in Nat \ {0}
      BY DEF Disjoint
    <3>1. PICK q \in regions : Within(h, t, q)
      BY DEF Pieces, Placed
    <3>2. /\ q.base <= t /\ t + r.real_size <= q.base + q.size
          /\ (r.split_left = Null) <=> (q.base = t)
          /\ (right = Null) <=> (q.base + q.size = t + r.real_size)
      BY <3>1 DEF Within
    <3>3. ASSUME NEW a \in U
          PROVE  \E p \in regions : Within(g, a, p)
      <4>1. CASE a = new
        <5>1. /\ g.tag[new].split_left # Null /\ q.base # new /\ q.base <= new
              /\ new + rest <= q.base + q.size
              /\ (right = Null) <=> (q.base + q.size = new + rest)
          BY <1>2, <1>7, <1>14, <3>0, <3>2
        <5> QED
          BY <1>14, <4>1, <5>1 DEF Within
      <4>2. CASE a = t
        <5>1. /\ t + (HDR + r.size) <= q.base + q.size
              /\ q.base + q.size # t + (HDR + r.size)
          BY <1>7, <3>0, <3>2
        <5>2. /\ g.tag[t].real_size = HDR + r.size /\ g.tag[t].split_right = new
              /\ g.tag[t].split_left = r.split_left
          BY <1>8, <1>13
        <5> QED
          BY <1>8, <3>2, <4>2, <5>1, <5>2 DEF Within
      <4>3. CASE a \in T /\ a # t
        <5>1. PICK p \in regions : Within(h, a, p)
          BY <4>3 DEF Pieces, Placed
        <5>2. (g.tag[a].split_left = Null) <=> (h.tag[a].split_left = Null)
          <6>1. a = right => h.tag[a].split_left = t
            BY <1>2, <1>5, <4>3
          <6> QED
            BY <1>2, <1>8, <1>13, <4>3, <6>1
        <5> QED
          BY <1>13, <4>3, <5>1, <5>2 DEF Within
      <4> QED
        BY <4>1, <4>2, <4>3
    <3>4. \A p \in regions : p.base \in U
      BY DEF Pieces, Placed
    <3> QED
      BY <1>9, <3>3, <3>4 DEF Placed
  <2> QED
    BY <2>1, <2>2, <2>3 DEF Pieces
<1> QED
  BY <1>8, <1>9, <1>13, <1>14, <1>15, <1>16 DEF g, new, rest

-----------------------------------------------------------------------------
(* Numbers *)

LEMMA Least ==
  ASSUME NEW S, S \subseteq Nat, S # {}
  PROVE  \E x \in S : \A y \in S : x <= y
<1> DEFINE R == {ss \in Nat \X Nat : ss[1] < ss[2]}
<1>1. IsWellFoundedOn(R, Nat)
  BY NatLessThanWellFounded DEF OpToRel
<1> HIDE DEF R
<1>2. PICK x \in S : \A y \in S : ~ (<<y, x>> \in R)
  BY <1>1, WFMin
<1>3. ASSUME NEW y \in S
      PROVE  x <= y
  <2>1. ~ (y < x)
    BY <1>2 DEF R
  <2> QED
    BY <2>1
<1> QED
  BY <1>3

LEMMA Induct ==
  ASSUME NEW S, 0 \in S, \A n \in Nat : n \in S => n + 1 \in S
  PROVE  Nat \subseteq S
<1> DEFINE Out == Nat \ S
<1> SUFFICES ASSUME Out # {}
             PROVE  FALSE
  OBVIOUS
<1>1. PICK x \in Out : \A y \in Out : x <= y
  BY Least
<1>2. x - 1 \in Nat /\ x - 1 \notin Out
  BY <1>1
<1> QED
  BY <1>1, <1>2

\* getexp() names a class, or none.
LEMMA ExpInBins ==
  ASSUME NEW size
  PROVE  getexp(size) \in Bins \cup {NoBin}
<1> DEFINE fitting == {n \in Bins : 2 ^ n <= size}
           below == {MAXEXP - n : n \in fitting}
           IsMost(n) == \A m \in fitting : m <= n
<1>1. CASE fitting = {}
  BY <1>1 DEF getexp
<1>2. CASE fitting # {}
  <2>0. \A n \in fitting : n \in Bins /\ n \in Nat /\ MAXEXP - n \in Nat
    BY HeapAssumption DEF Bins
  <2> HIDE DEF fitting
  <2>1. below \subseteq Nat /\ below # {}
    BY <1>2, <2>0
  <2>2. PICK x \in below : \A y \in below : x <= y
    BY <2>1, Least
  <2>3. PICK n \in fitting : x = MAXEXP - n
    BY <2>2
  <2>4. ASSUME NEW m \in fitting
        PROVE  m <= n
    <3>1. MAXEXP - n <= MAXEXP - m
      BY <2>2, <2>3
    <3> QED
      BY <2>0, <3>1, HeapAssumption
  <2>5. n \in fitting /\ IsMost(n)
    BY <2>4
  <2>6. getexp(size) = CHOOSE k \in fitting : IsMost(k)
    BY <1>2 DEF getexp, fitting
  <2> HIDE DEF IsMost
  <2>7. getexp(size) \in fitting
    BY <2>5, <2>6
  <2> QED
    BY <2>0, <2>7
<1> QED
  BY <1>1, <1>2

LEMMA BinInBins == ASSUME NEW size PROVE BinOf(size) \in Bins
<1>1. getexp(size) \in Bins \cup {NoBin}
  BY ExpInBins
<1>2. getexp(size) = NoBin => getexp(size) < MINEXP
  BY HeapAssumption DEF NoBin
<1> QED
  BY <1>1, <1>2, Classes DEF BinOf

\* The pages asked for hold the block and its tag.
LEMMA PagesHold ==
  ASSUME NEW size \in Nat
  PROVE  /\ PagesFor(size) \in Nat \ {0}
         /\ PagesFor(size) * PageSize \in Nat /\ size + HDR <= PagesFor(size) * PageSize
<1>1. \A u, p \in Nat : p # 0 => /\ u \div p \in Nat /\ u % p \in 0..(p - 1)
                                 /\ u = p * (u \div p) + (u % p)
  OBVIOUS
<1>2. \A a, b, p \in Nat : (a <= b) => /\ a * p <= b * p /\ a * p \in Nat /\ b * p \in Nat
  OBVIOUS
<1>3. \A a, p \in Nat : p * a = a * p /\ (a + 1) * p = (a * p) + p /\ (a + 0) * p = a * p
  OBVIOUS
<1> DEFINE usage == size + HDR
<1>4. usage \in Nat /\ usage > 0 /\ PageSize \in Nat \ {0} /\ PageCount \in Nat \ {0}
  BY HeapAssumption
<1> DEFINE q == usage \div PageSize
           m == usage % PageSize
           pages == q + (IF m # 0 THEN 1 ELSE 0)
<1>5. q \in Nat /\ m \in 0..(PageSize - 1) /\ usage = PageSize * q + m
  BY <1>1, <1>4
<1> HIDE DEF q, m, usage
<1>6. pages \in Nat /\ usage <= pages * PageSize
  <2>1. CASE m = 0
    BY <1>3, <1>4, <1>5, <2>1
  <2>2. CASE m # 0
    <3>1. PICK w \in Nat : w = q * PageSize
      BY <1>2, <1>4, <1>5
    <3>2. pages * PageSize = w + PageSize /\ usage = w + m
      BY <1>3, <1>4, <1>5, <2>2, <3>1
    <3> QED
      BY <1>4, <1>5, <2>2, <3>1, <3>2
  <2> QED
    BY <2>1, <2>2
<1>7. PagesFor(size) = IF pages < PageCount THEN PageCount ELSE pages
  BY DEF PagesFor, usage, q, m
<1> HIDE DEF pages
<1>8. PagesFor(size) \in Nat /\ pages <= PagesFor(size) /\ PageCount <= PagesFor(size)
  BY <1>4, <1>6, <1>7
<1>9. pages * PageSize <= PagesFor(size) * PageSize /\ PagesFor(size) * PageSize \in Nat
      /\ pages * PageSize \in Nat
  BY <1>2, <1>4, <1>6, <1>8
<1> QED
  BY <1>4, <1>6, <1>8, <1>9 DEF usage

-----------------------------------------------------------------------------
(* Searching a list *)

\* Nth() is what its recursive definition says: first the head, and behind each
\* tag the next.
LEMMA NthStep ==
  ASSUME NEW bin, IsFiniteSet(Tags)
  PROVE  LET c == Cardinality(Tags) IN
         /\ c \in Nat /\ DOMAIN Nth(bin) = 0..c /\ Nth(bin)[0] = freePages[bin]
         /\ \A n \in 0..c : n # 0 =>
              Nth(bin)[n] = IF Nth(bin)[n - 1] = Null THEN Null ELSE tag[Nth(bin)[n - 1]].next
<1> DEFINE c == Cardinality(Tags)
           step(f, n) == IF n = 0 THEN freePages[bin]
                         ELSE IF f[n - 1] = Null THEN Null ELSE tag[f[n - 1]].next
           Is(f) == f = [n \in 0..c |-> step(f, n)]
           upto == {k \in Nat : \E f : f = [n \in 0..k |-> step(f, n)]}
<1>1. c \in Nat
  BY FS_CardinalityType
<1> HIDE DEF c
<1>2. 0 \in upto
  <2> DEFINE f == [n \in 0..0 |-> freePages[bin]]
  <2>1. f = [n \in 0..0 |-> step(f, n)]
    OBVIOUS
  <2> QED
    BY <2>1
<1>3. ASSUME NEW k \in Nat, k \in upto
      PROVE  k + 1 \in upto
  <2>1. PICK f : f = [n \in 0..k |-> step(f, n)]
    BY <1>3
  <2> DEFINE g == [n \in 0..(k + 1) |-> IF n = k + 1 THEN step(f, n) ELSE f[n]]
  <2>2. \A n \in 0..(k + 1) : /\ g[n] = IF n = k + 1 THEN step(f, n) ELSE f[n]
                              /\ n # k + 1 => n \in 0..k
                              /\ n # 0 => n - 1 \in 0..k /\ n - 1 \in 0..(k + 1) /\ n - 1 # k + 1
    OBVIOUS
  <2>3. \A n \in 0..(k + 1) : n # 0 => g[n - 1] = f[n - 1]
    BY <2>2
  <2>4. \A n \in 0..k : f[n] = step(f, n)
    BY <2>1
  <2>5. \A n \in 0..(k + 1) : g[n] = step(g, n)
    BY <2>2, <2>3, <2>4
  <2>6. g = [n \in 0..(k + 1) |-> step(g, n)]
    BY <2>5
  <2> HIDE DEF g
  <2>7. \E f2 : f2 = [n \in 0..(k + 1) |-> step(f2, n)]
    BY <2>6
  <2> QED
    BY <2>7
<1> HIDE DEF upto
<1>4. c \in upto
  BY <1>1, <1>2, <1>3, Induct
<1>5. \E f : Is(f)
  BY <1>4 DEF upto
<1>6. Nth(bin) = CHOOSE f : Is(f)
  BY DEF Nth, c, Tags
<1> HIDE DEF Is
<1>7. Is(Nth(bin))
  BY <1>5, <1>6
<1> DEFINE at == Nth(bin)
<1>8. at = [n \in 0..c |-> step(at, n)]
  BY <1>7 DEF Is
<1> HIDE DEF at
<1>9. DOMAIN at = 0..c /\ \A n \in 0..c : at[n] = step(at, n)
  BY <1>8
<1>10. at[0] = freePages[bin] /\ 0 \in 0..c
  BY <1>1, <1>9
<1> QED
  BY <1>1, <1>9, <1>10 DEF at, c

LEMMA NthInList ==
  ASSUME Lists(Heap), NEW bin \in Bins, NEW n \in DOMAIN Nth(bin), Nth(bin)[n] # Null
  PROVE  Nth(bin)[n] \in Tags /\ tag[Nth(bin)[n]].index = bin
<1> DEFINE c == Cardinality(Tags)
           at == Nth(bin)
           Good(x) == x # Null => x \in Tags /\ tag[x].index = bin
           good == {k \in Nat : k \in 0..c => Good(at[k])}
<1>1. /\ IsFiniteSet(Tags) /\ freePages[bin] \in Tags \cup {Null}
      /\ \A a \in Tags : tag[a].next \in Tags \cup {Null} /\ tag[a].index \in Bins \cup {NoBin}
      /\ \A a \in Tags : tag[a].next # Null => tag[tag[a].next].index = tag[a].index
      /\ freePages[bin] # Null => tag[freePages[bin]].index = bin
  BY DEF Lists, Formed, Linked, Fields, Heap, Tags
<1>2. /\ c \in Nat /\ DOMAIN at = 0..c /\ at[0] = freePages[bin]
      /\ \A k \in 0..c : k # 0 => at[k] = IF at[k - 1] = Null THEN Null ELSE tag[at[k - 1]].next
  BY <1>1, NthStep
<1> HIDE DEF c, at
<1>3. 0 \in good
  BY <1>1, <1>2
<1>4. ASSUME NEW k \in Nat, k \in good
      PROVE  k + 1 \in good
  <2>1. SUFFICES ASSUME k + 1 \in 0..c
                 PROVE  Good(at[k + 1])
    OBVIOUS
  <2>2. k \in 0..c /\ k + 1 # 0 /\ (k + 1) - 1 = k
    BY <1>2, <2>1
  <2>3. at[k + 1] = IF at[k] = Null THEN Null ELSE tag[at[k]].next
    BY <1>2, <2>1, <2>2
  <2>4. Good(at[k])
    BY <1>4, <2>2
  <2> QED
    BY <1>1, <2>3, <2>4
<1>5. Nat \subseteq good
  <2> HIDE DEF good
  <2> QED
    BY <1>3, <1>4, Induct
<1>6. n \in 0..c /\ n \in Nat
  BY <1>2 DEF at
<1>7. n \in good
  BY <1>5, <1>6
<1>8. Good(at[n])
  BY <1>6, <1>7
<1> QED
  BY <1>8 DEF at

\* Following the list of its class from the head one comes to every free piece.
LEMMA ListReached ==
  ASSUME Lists(Heap), NEW t \in Tags, tag[t].index # NoBin
  PROVE  \E n \in DOMAIN Nth(tag[t].index) : Nth(tag[t].index)[n] = t
<1> DEFINE c == Cardinality(Tags)
           bin == tag[t].index
           at == Nth(bin)
<1>1. /\ IsFiniteSet(Tags) /\ Null \notin Tags
      /\ \A a \in Tags : tag[a].next \in Tags \cup {Null} /\ tag[a].prev \in Tags \cup {Null}
      /\ \A a \in Tags : tag[a].prev # Null => /\ tag[tag[a].prev].next = a
                                               /\ tag[tag[a].prev].index = tag[a].index
      /\ \A a \in Tags : tag[a].index # NoBin =>
           ((tag[a].prev = Null) <=> (freePages[tag[a].index] = a))
  BY DEF Lists, Formed, Linked, Fields, Heap, Tags
<1>2. /\ c \in Nat /\ DOMAIN at = 0..c /\ at[0] = freePages[bin]
      /\ \A k \in 0..c : k # 0 => at[k] = IF at[k - 1] = Null THEN Null ELSE tag[at[k - 1]].next
  BY <1>1, NthStep
<1>3. PICK place \in [Tags -> Nat] : \A a \in Tags : tag[a].index # NoBin =>
        /\ (place[a] = 0) <=> (tag[a].prev = Null)
        /\ tag[a].next # Null => place[tag[a].next] = place[a] + 1
        /\ \A b \in Tags : tag[b].index = tag[a].index /\ place[b] = place[a] => b = a
  BY DEF Lists, Queued, Heap, Tags
<1> DEFINE ahead(k) == {x \in Tags : tag[x].index = bin /\ place[x] < k}
           Reached(k) == \A a \in Tags : tag[a].index = bin /\ place[a] = k =>
                           Cardinality(ahead(k)) >= k /\ k \in 0..c /\ at[k] = a
           reached == {k \in Nat : Reached(k)}
<1> HIDE DEF at
<1>4. \A k \in Nat : \A a \in Tags : tag[a].index = bin /\ place[a] = k =>
        /\ IsFiniteSet(ahead(k)) /\ Cardinality(ahead(k)) \in Nat
        /\ a \notin ahead(k) /\ Cardinality(ahead(k)) < c
  <2> SUFFICES ASSUME NEW k \in Nat, NEW a \in Tags, tag[a].index = bin, place[a] = k
               PROVE  /\ IsFiniteSet(ahead(k)) /\ Cardinality(ahead(k)) \in Nat
                      /\ a \notin ahead(k) /\ Cardinality(ahead(k)) < c
    OBVIOUS
  <2>1. ahead(k) \subseteq Tags /\ a \notin ahead(k) /\ ahead(k) # Tags
    OBVIOUS
  <2> HIDE DEF ahead
  <2>2. IsFiniteSet(ahead(k)) /\ Cardinality(ahead(k)) <= c
        /\ (Cardinality(ahead(k)) = c => ahead(k) = Tags)
    BY <1>1, <2>1, FS_Subset
  <2>3. Cardinality(ahead(k)) \in Nat
    BY <2>2, FS_CardinalityType
  <2> HIDE DEF c
  <2> QED
    BY <1>2, <2>1, <2>2, <2>3
<1>5. 0 \in reached
  <2> SUFFICES ASSUME NEW a \in Tags, tag[a].index = bin, place[a] = 0
               PROVE  Cardinality(ahead(0)) >= 0 /\ 0 \in 0..c /\ at[0] = a
    OBVIOUS
  <2>1. Cardinality(ahead(0)) \in Nat
    BY <1>4
  <2>2. freePages[bin] = a
    BY <1>1, <1>3
  <2> HIDE DEF ahead, c
  <2> QED
    BY <1>2, <2>1, <2>2 DEF at
<1>6. ASSUME NEW k \in Nat, k \in reached
      PROVE  k + 1 \in reached
  <2> SUFFICES ASSUME NEW a \in Tags, tag[a].index = bin, place[a] = k + 1
               PROVE  Cardinality(ahead(k + 1)) >= k + 1 /\ k + 1 \in 0..c /\ at[k + 1] = a
    OBVIOUS
  <2> DEFINE p == tag[a].prev
  <2>1. tag[a].prev # Null
    BY <1>3
  <2>2. p \in Tags /\ tag[p].index = bin /\ tag[p].next = a /\ a # Null
    BY <1>1, <2>1
  <2> HIDE DEF p
  <2>3. place[a] = place[p] + 1
    BY <1>3, <2>2
  <2>4. place[p] = k
    BY <1>3, <2>2, <2>3
  <2>5. Cardinality(ahead(k)) >= k /\ k \in 0..c /\ at[k] = p
    BY <1>6, <2>2, <2>4
  <2>6. p \notin ahead(k) /\ IsFiniteSet(ahead(k)) /\ Cardinality(ahead(k)) \in Nat
    BY <1>4, <2>2, <2>4
  <2>7. ahead(k + 1) = ahead(k) \cup {p}
    <3>1. ASSUME NEW x \in ahead(k + 1)
          PROVE  x \in ahead(k) \cup {p}
      <4>1. x \in Tags /\ tag[x].index = bin /\ place[x] < k + 1 /\ place[x] \in Nat
        BY <1>3
      <4>2. place[x] < k \/ place[x] = k
        BY <4>1
      <4>3. place[x] = k => x = p
        BY <1>3, <2>2, <2>4, <4>1
      <4> QED
        BY <4>1, <4>2, <4>3
    <3>2. ASSUME NEW x \in ahead(k) \cup {p}
          PROVE  x \in ahead(k + 1)
      <4>1. place[x] \in Nat
        BY <1>3, <2>2
      <4> QED
        BY <2>2, <2>4, <3>2, <4>1
    <3> QED
      BY <3>1, <3>2
  <2>8. Cardinality(ahead(k + 1)) < c /\ Cardinality(ahead(k + 1)) \in Nat
    BY <1>4
  <2> HIDE DEF ahead, c
  <2>9. Cardinality(ahead(k + 1)) = Cardinality(ahead(k)) + 1
    BY <2>6, <2>7, FS_AddElement
  <2>10. k + 1 \in 0..c /\ Cardinality(ahead(k + 1)) >= k + 1
    BY <1>2, <2>5, <2>6, <2>8, <2>9
  <2>11. at[k + 1] = tag[p].next
    <3>1. p # Null /\ (k + 1) - 1 = k /\ k + 1 # 0
      BY <1>1, <2>2
    <3> QED
      BY <1>2, <2>5, <2>10, <3>1 DEF at
  <2> QED
    BY <2>2, <2>10, <2>11
<1> HIDE DEF reached
<1>7. Nat \subseteq reached
  BY <1>5, <1>6, Induct
<1>8. place[t] \in Nat /\ place[t] \in reached
  BY <1>3, <1>7
<1>9. Reached(place[t])
  BY <1>8 DEF reached
<1> HIDE DEF c
<1>10. place[t] \in 0..c /\ at[place[t]] = t
  BY <1>9
<1> QED
  BY <1>2, <1>10 DEF at

\* What malloc() finds is a free piece of the class it looks in, with room.
LEMMA FoundFits ==
  ASSUME Lists(Heap), NEW size \in Nat, Found(size) # Null
  PROVE  /\ Found(size) \in Tags /\ tag[Found(size)].index = BinOf(size)
         /\ Fits(Found(size), size)
<1> DEFINE at == Nth(BinOf(size))
           hits == {n \in DOMAIN at : at[n] # Null /\ Fits(at[n], size)}
           First(n) == \A m \in hits : n <= m
<1>1. Found(size) = IF hits = {} THEN Null ELSE at[CHOOSE n \in hits : First(n)]
  BY DEF Found
<1>2. hits # {}
  BY <1>1
<1>3. IsFiniteSet(Tags)
  BY DEF Lists, Formed, Heap, Tags
<1>4. DOMAIN at \subseteq Nat
  BY <1>3, NthStep
<1>5. hits \subseteq Nat
  BY <1>4
<1> HIDE DEF hits
<1>6. \E n \in hits : First(n)
  BY <1>2, <1>5, Least
<1> HIDE DEF First
<1>7. PICK n \in hits : Found(size) = at[n]
  BY <1>1, <1>2, <1>6
<1>8. n \in DOMAIN at /\ at[n] # Null /\ Fits(at[n], size)
  BY <1>7 DEF hits
<1>9. BinOf(size) \in Bins
  BY BinInBins
<1>10. at[n] \in Tags /\ tag[at[n]].index = BinOf(size)
  BY <1>8, <1>9, NthInList
<1> QED
  BY <1>7, <1>8, <1>10

-----------------------------------------------------------------------------
(* malloc() and free(), heap to heap *)

LEMMA Unlinked ==
  ASSUME NEW h, NEW regions, Lists(h), Pieces(h, regions),
         NEW t \in DOMAIN h.tag, h.tag[t].index # NoBin
  PROVE  LET g == remove_tag(h, t) IN
         /\ Lists(g) /\ Pieces(g, regions) /\ SameShape(h, g)
         /\ \A a \in DOMAIN h.tag : g.tag[a].index = IF a = t THEN NoBin ELSE h.tag[a].index
<1> DEFINE g == remove_tag(h, t)
<1>1. /\ Formed(g) /\ SameShape(h, g) /\ g.tag[t].index = NoBin
      /\ \A a \in DOMAIN h.tag \ {t} : g.tag[a].index = h.tag[a].index
  BY Removed DEF Lists
<1>2. Linked(g) /\ Queued(g)
  BY RemovedLinked DEF Lists
<1> HIDE DEF g
<1>3. Pieces(g, regions)
  BY <1>1, ShapeKept DEF Lists
<1> QED
  BY <1>1, <1>2, <1>3 DEF Lists, g

LEMMA Enlisted ==
  ASSUME NEW h, NEW regions, Lists(h), Pieces(h, regions), NEW bin \in Bins,
         NEW t \in DOMAIN h.tag, h.tag[t].index = NoBin
  PROVE  LET g == insert_tag(h, t, bin) IN
         /\ Lists(g) /\ Pieces(g, regions) /\ SameShape(h, g)
         /\ \A a \in DOMAIN h.tag : g.tag[a].index = IF a = t THEN bin ELSE h.tag[a].index
<1> DEFINE g == insert_tag(h, t, bin)
<1>1. /\ Formed(g) /\ SameShape(h, g) /\ Linked(g) /\ Queued(g)
      /\ \A a \in DOMAIN h.tag : g.tag[a].index = IF a = t THEN bin ELSE h.tag[a].index
  BY Inserted DEF Lists
<1> HIDE DEF g
<1>2. Pieces(g, regions)
  BY <1>1, ShapeKept DEF Lists
<1> QED
  BY <1>1, <1>2 DEF Lists, g

\* The end of malloc(): the heap that Take() leaves.
TakenHeap(h, t, size) ==
  LET sized == [h EXCEPT !.tag[t].size = size]
      spare == h.tag[t].real_size - size - 2 * HDR
  IN  IF spare > 0 /\ getexp(spare) >= 0 THEN split_tag(sized, t) ELSE sized

LEMMA TakeSets ==
  ASSUME NEW h, NEW t, NEW size, Take(h, t, size)
  PROVE  tag' = TakenHeap(h, t, size).tag /\ freePages' = TakenHeap(h, t, size).free
BY DEF Take, TakenHeap, SetHeap

LEMMA Taken ==
  ASSUME NEW h, NEW regions, Sound(h, regions), Disjoint(regions), NEW size \in Nat,
         NEW t \in DOMAIN h.tag, h.tag[t].index = NoBin, size + HDR <= h.tag[t].real_size,
         h.tag[t].split_right # Null => h.tag[h.tag[t].split_right].index = NoBin
  PROVE  LET g == TakenHeap(h, t, size)
             T == DOMAIN h.tag
         IN  /\ Sound(g, regions) /\ T \subseteq DOMAIN g.tag
             /\ g.tag[t].index = NoBin /\ g.tag[t].size = size
             /\ size + HDR <= g.tag[t].real_size
             /\ \A a \in T \ {t} :
                  /\ g.tag[a].size = h.tag[a].size /\ g.tag[a].index = h.tag[a].index
                  /\ g.tag[a].real_size = h.tag[a].real_size
                  /\ (g.tag[a].split_left = Null) <=> (h.tag[a].split_left = Null)
                  /\ (g.tag[a].split_right = Null) <=> (h.tag[a].split_right = Null)
             /\ \A a \in DOMAIN g.tag \ T : g.tag[a].index # NoBin /\ g.tag[a].split_left # Null
<1> DEFINE g == TakenHeap(h, t, size)
           s == [h EXCEPT !.tag[t].size = size]
           T == DOMAIN h.tag
           spare == h.tag[t].real_size - size - 2 * HDR
<1>1. /\ Lists(s) /\ Pieces(s, regions) /\ DOMAIN s.tag = T
      /\ \A a \in T :
           /\ s.tag[a].size = IF a = t THEN size ELSE h.tag[a].size
           /\ s.tag[a].real_size = h.tag[a].real_size /\ s.tag[a].index = h.tag[a].index
           /\ s.tag[a].split_left = h.tag[a].split_left
           /\ s.tag[a].split_right = h.tag[a].split_right
  BY Sized DEF Sound
<1>2. g = IF spare > 0 /\ getexp(spare) >= 0 THEN split_tag(s, t) ELSE s
  BY DEF TakenHeap
<1>3. /\ Null \notin T /\ HDR \in Nat \ {0}
      /\ \A a \in T : /\ h.tag[a].split_right \in T \cup {Null} /\ h.tag[a].real_size \in Nat
                      /\ h.tag[a].split_left \in T \cup {Null}
      /\ \A a \in T : h.tag[a].split_right # Null => h.tag[h.tag[a].split_right].split_left = a
  BY HeapAssumption DEF Sound, Lists, Pieces, Joined, Formed, Fields
<1>4. /\ \A a \in T : h.tag[a].index # NoBin => h.tag[a].index = BinOf(h.tag[a].real_size - HDR)
      /\ \A a \in T : h.tag[a].index # NoBin /\ h.tag[a].split_right # Null =>
           h.tag[h.tag[a].split_right].index = NoBin
  BY DEF Sound, Classed, NoPairs
<1> HIDE DEF g, s
<1>5. CASE ~ (spare > 0 /\ getexp(spare) >= 0)
  <2>1. g = s
    BY <1>2, <1>5
  <2>2. Classed(s)
    BY <1>1, <1>4 DEF Classed
  <2>3. NoPairs(s)
    BY <1>1, <1>3, <1>4 DEF NoPairs
  <2>4. Sound(s, regions)
    BY <1>1, <2>2, <2>3 DEF Sound
  <2> QED
    BY <1>1, <2>1, <2>4 DEF g
<1>6. CASE spare > 0 /\ getexp(spare) >= 0
  <2> DEFINE new == NewAt(s, t)
             rest == Tail(s, t)
             c == Cut(s, t)
             right == h.tag[t].split_right
  <2>1. g = insert_tag(c, new, BinOf(rest - HDR))
    BY <1>2, <1>6, SplitIsCut
  <2>2. rest >= HDR
    <3>1. \A r, z, d \in Nat : r - z - (2 * d) > 0 => r - d - z >= d
      OBVIOUS
    <3>2. rest = h.tag[t].real_size - HDR - size
      BY <1>1 DEF Tail
    <3> QED
      BY <1>3, <1>6, <3>1, <3>2
  <2>3. /\ Lists(c) /\ Pieces(c, regions)
        /\ DOMAIN c.tag = T \cup {new} /\ new \notin T /\ new # Null
        /\ c.tag[new].index = NoBin /\ c.tag[new].real_size = rest
        /\ c.tag[new].split_left = t /\ c.tag[new].split_right = s.tag[t].split_right
        /\ \A a \in T :
             /\ c.tag[a].size = s.tag[a].size /\ c.tag[a].index = s.tag[a].index
             /\ c.tag[a].real_size = IF a = t THEN HDR + s.tag[t].size ELSE s.tag[a].real_size
             /\ c.tag[a].split_right = IF a = t THEN new ELSE s.tag[a].split_right
             /\ c.tag[a].split_left = IF a = s.tag[t].split_right THEN new ELSE s.tag[a].split_left
    BY <1>1, <2>2, CutOff
  <2> HIDE DEF new, rest, c
  <2>4. PICK bin \in Bins : bin = BinOf(rest - HDR) /\ bin # NoBin
    BY BinInBins, Classes
  <2>5. /\ Lists(g) /\ Pieces(g, regions) /\ SameShape(c, g)
        /\ \A a \in DOMAIN c.tag : g.tag[a].index = IF a = new THEN bin ELSE c.tag[a].index
    BY <2>1, <2>3, <2>4, Enlisted
  <2>6. DOMAIN g.tag = T \cup {new}
    BY <2>3, <2>5 DEF SameShape
  <2>7. /\ g.tag[new].index = bin /\ g.tag[new].real_size = rest
        /\ g.tag[new].split_left = t /\ g.tag[new].split_right = right
    BY <1>1, <2>3, <2>5 DEF SameShape
  <2>8. \A a \in T :
          /\ g.tag[a].size = IF a = t THEN size ELSE h.tag[a].size
          /\ g.tag[a].index = h.tag[a].index
          /\ g.tag[a].real_size = IF a = t THEN HDR + size ELSE h.tag[a].real_size
          /\ g.tag[a].split_right = IF a = t THEN new ELSE h.tag[a].split_right
          /\ g.tag[a].split_left = IF a = right THEN new ELSE h.tag[a].split_left
    BY <1>1, <2>3, <2>5 DEF SameShape
  <2>9. Classed(g)
    <3>1. ASSUME NEW a \in T \cup {new}, g.tag[a].index # NoBin
          PROVE  g.tag[a].index = BinOf(g.tag[a].real_size - HDR)
      <4>1. CASE a = new
        BY <2>4, <2>7, <4>1
      <4>2. CASE a \in T
        <5>1. a # t
          BY <2>8, <3>1, <4>2
        <5> QED
          BY <1>4, <2>8, <3>1, <4>2, <5>1
      <4> QED
        BY <4>1, <4>2
    <3> QED
      BY <2>6, <3>1 DEF Classed
  <2>10. NoPairs(g)
    <3>1. ASSUME NEW a \in T \cup {new}, g.tag[a].index # NoBin, g.tag[a].split_right # Null
          PROVE  g.tag[g.tag[a].split_right].index = NoBin
      <4>1. CASE a = new
        <5>1. right \in T /\ h.tag[right].index = NoBin
          BY <1>3, <2>7, <3>1, <4>1
        <5> QED
          BY <2>7, <2>8, <4>1, <5>1
      <4>2. CASE a \in T
        <5>1. a # t /\ h.tag[a].index # NoBin
          BY <2>8, <3>1, <4>2
        <5>2. g.tag[a].split_right = h.tag[a].split_right /\ h.tag[a].split_right \in T
          BY <1>3, <2>8, <3>1, <4>2, <5>1
        <5> QED
          BY <1>4, <2>8, <3>1, <4>2, <5>1, <5>2
      <4> QED
        BY <4>1, <4>2
    <3> QED
      BY <2>6, <3>1 DEF NoPairs
  <2>11. Sound(g, regions)
    BY <2>5, <2>9, <2>10 DEF Sound
  <2>12. \A a \in T : (g.tag[a].split_left = Null) <=> (h.tag[a].split_left = Null)
    <3>1. ASSUME NEW a \in T, a = right
          PROVE  h.tag[a].split_left # Null
      BY <1>3, <3>1
    <3> QED
      BY <2>3, <2>8, <3>1
  <2>13. size + HDR <= g.tag[t].real_size
    BY <1>3, <2>8
  <2>14. t # Null /\ bin # NoBin
    BY <1>3, <2>4
  <2> QED
    BY <2>6, <2>7, <2>8, <2>11, <2>12, <2>13, <2>14 DEF g
<1> QED
  BY <1>5, <1>6

\* allocate_new_tag(): a region of one piece, at the top.
WithRegion(h, top, size, len) ==
  [tag |-> [a \in DOMAIN h.tag \cup {top} |->
              IF a = top
              THEN [size |-> size, real_size |-> len, index |-> NoBin, split_left |-> Null,
                    split_right |-> Null, next |-> Null, prev |-> Null]
              ELSE h.tag[a]],
   free |-> h.free]

LEMMA RegionAdded ==
  ASSUME NEW h, NEW regions, Sound(h, regions), Disjoint(regions),
         NEW top \in Nat \ {0}, \A r \in regions : r.base + r.size <= top,
         NEW size \in Nat, NEW len \in Nat, size + HDR <= len
  PROVE  LET g == WithRegion(h, top, size, len)
             more == regions \cup {[base |-> top, size |-> len]}
         IN  /\ Sound(g, more) /\ Disjoint(more) /\ top \notin DOMAIN h.tag
             /\ \A r \in more : r.base + r.size <= top + len
             /\ DOMAIN g.tag = DOMAIN h.tag \cup {top}
             /\ g.tag[top].index = NoBin /\ g.tag[top].real_size = len
             /\ g.tag[top].split_right = Null
             /\ \A a \in DOMAIN h.tag : g.tag[a] = h.tag[a]
<1> DEFINE g == WithRegion(h, top, size, len)
           T == DOMAIN h.tag
           U == T \cup {top}
           one == [base |-> top, size |-> len]
           more == regions \cup {one}
           piece == [size |-> size, real_size |-> len, index |-> NoBin, split_left |-> Null,
                     split_right |-> Null, next |-> Null, prev |-> Null]
<1>1. g.tag = [a \in U |-> IF a = top THEN piece ELSE h.tag[a]] /\ g.free = h.free
  BY DEF WithRegion
<1>2. /\ T \subseteq Nat \ {Null} /\ IsFiniteSet(T) /\ h.free \in [Bins -> T \cup {Null}]
      /\ HDR \in Nat \ {0} /\ Null = 0
      /\ \A a \in T : /\ h.tag[a] \in Fields(T) /\ h.tag[a].index \in Bins \cup {NoBin}
                      /\ h.tag[a].next \in T \cup {Null} /\ h.tag[a].prev \in T \cup {Null}
                      /\ h.tag[a].split_left \in T \cup {Null}
                      /\ h.tag[a].split_right \in T \cup {Null}
                      /\ h.tag[a].real_size \in Nat /\ h.tag[a].real_size >= HDR
  BY Classes, HeapAssumption DEF Sound, Lists, Formed, Pieces, Joined, Fields
<1>3. \A r \in regions : r.base \in Nat /\ r.size \in Nat \ {0} /\ r.base + r.size <= top
  BY DEF Disjoint
<1>4. \A a \in T : a + h.tag[a].real_size <= top /\ a < top
  <2>1. ASSUME NEW a \in T
        PROVE  a + h.tag[a].real_size <= top /\ a < top
    <3>1. PICK r \in regions : r.base <= a /\ a + h.tag[a].real_size <= r.base + r.size
      BY DEF Sound, Pieces, Placed, Within
    <3>2. a \in Nat /\ h.tag[a].real_size \in Nat /\ h.tag[a].real_size > 0
      BY <1>2
    <3> QED
      BY <1>3, <3>1, <3>2
  <2> QED
    BY <2>1
<1>5. top \notin T /\ len > 0
  BY <1>2, <1>4
<1>6. g.tag[top] = piece /\ DOMAIN g.tag = U /\ \A a \in T : g.tag[a] = h.tag[a]
  BY <1>1, <1>5
<1> HIDE DEF g
<1>7. piece \in Fields(U)
  BY DEF Fields
<1>8. Lists(g)
  <2>1. Formed(g)
    <3>1. IsFiniteSet(U)
      BY <1>2, FS_AddElement
    <3>2. g.free \in [Bins -> U \cup {Null}]
      BY <1>1, <1>2
    <3>3. g.tag = [a \in DOMAIN g.tag |-> g.tag[a]]
      BY <1>1, <1>6
    <3>4. ASSUME NEW a \in U
          PROVE  g.tag[a] \in Fields(U)
      <4>1. CASE a = top
        BY <1>6, <1>7, <4>1
      <4>2. CASE a \in T
        <5>1. h.tag[a] \in Fields(U)
          BY <1>2, <4>2 DEF Fields
        <5> QED
          BY <1>6, <4>2, <5>1
      <4> QED
        BY <4>1, <4>2
    <3>5. U \subseteq Nat \ {Null}
      BY <1>2
    <3> HIDE DEF U
    <3> QED
      BY <1>6, <3>1, <3>2, <3>3, <3>4, <3>5 DEF Formed
  <2>2. \A a \in U : IF a \in T
                     THEN /\ g.tag[a].index = h.tag[a].index /\ g.tag[a].next = h.tag[a].next
                          /\ g.tag[a].prev = h.tag[a].prev
                     ELSE g.tag[a].index = NoBin /\ g.tag[a].next = Null /\ g.tag[a].prev = Null
    BY <1>6
  <2>3. T \subseteq U /\ Lists(h)
    BY DEF Sound
  <2> HIDE DEF U
  <2> QED
    BY <1>1, <1>6, <2>1, <2>2, <2>3, ListsCarried
<1>9. Pieces(g, more)
  <2>1. Joined(g)
    <3>1. ASSUME NEW a \in U
          PROVE  /\ g.tag[a].real_size >= HDR
                 /\ g.tag[a].split_left # Null => g.tag[g.tag[a].split_left].split_right = a
                 /\ g.tag[a].split_right # Null =>
                      /\ g.tag[g.tag[a].split_right].split_left = a
                      /\ g.tag[a].split_right = a + g.tag[a].real_size
      <4>1. CASE a = top
        BY <1>2, <1>6, <4>1
      <4>2. CASE a \in T
        BY <1>2, <1>6, <4>2 DEF Sound, Pieces, Joined
      <4> QED
        BY <4>1, <4>2
    <3> QED
      BY <1>6, <3>1 DEF Joined
  <2>2. Ordered(g)
    <3>1. ASSUME NEW a \in U, NEW b \in U, a < b
          PROVE  a + g.tag[a].real_size <= b
      <4>1. a \in T
        BY <1>2, <1>4, <3>1
      <4>2. CASE b = top
        BY <1>4, <1>6, <4>1, <4>2
      <4>3. CASE b \in T
        BY <1>6, <3>1, <4>1, <4>3 DEF Sound, Pieces, Ordered
      <4> QED
        BY <4>2, <4>3
    <3> QED
      BY <1>6, <3>1 DEF Ordered
  <2>3. Placed(g, more)
    <3>1. Within(g, top, one)
      BY <1>6 DEF Within
    <3>2. ASSUME NEW a \in T
          PROVE  \E r \in regions : Within(g, a, r)
      <4>1. PICK r \in regions : Within(h, a, r)
        BY DEF Sound, Pieces, Placed
      <4> QED
        BY <1>6, <4>1 DEF Within
    <3>3. \A a \in U : \E r \in more : Within(g, a, r)
      BY <3>1, <3>2
    <3>4. \A r \in more : r.base \in U
      BY DEF Sound, Pieces, Placed
    <3> QED
      BY <1>6, <3>3, <3>4 DEF Placed
  <2> QED
    BY <2>1, <2>2, <2>3 DEF Pieces
<1>10. Classed(g) /\ NoPairs(g)
  <2>1. Classed(g)
    BY <1>6 DEF Sound, Classed
  <2>2. NoPairs(g)
    BY <1>2, <1>6 DEF Sound, NoPairs
  <2> QED
    BY <2>1, <2>2
<1>11. Disjoint(more)
  <2>1. more \subseteq [base : Nat, size : Nat \ {0}]
    BY <1>5 DEF Disjoint
  <2>2. ASSUME NEW r \in more, NEW q \in more, r # q
        PROVE  r.base + r.size <= q.base \/ q.base + q.size <= r.base
    BY <1>3, <2>2 DEF Disjoint
  <2> QED
    BY <2>1, <2>2 DEF Disjoint
<1>12. \A r \in more : r.base + r.size <= top + len
  BY <1>3
<1> QED
  BY <1>5, <1>6, <1>8, <1>9, <1>10, <1>11, <1>12 DEF Sound, g

\* liballoc_free(): a region that is one piece goes, with its tag.
WithoutRegion(h, t) == [tag |-> [a \in DOMAIN h.tag \ {t} |-> h.tag[a]], free |-> h.free]

LEMMA RegionDropped ==
  ASSUME NEW h, NEW regions, Sound(h, regions), Disjoint(regions),
         NEW t \in DOMAIN h.tag, h.tag[t].index = NoBin,
         h.tag[t].split_left = Null, h.tag[t].split_right = Null
  PROVE  LET fewer == regions \ {[base |-> t, size |-> h.tag[t].real_size]}
         IN  Sound(WithoutRegion(h, t), fewer) /\ Disjoint(fewer)
<1> DEFINE g == WithoutRegion(h, t)
           T == DOMAIN h.tag
           U == T \ {t}
           one == [base |-> t, size |-> h.tag[t].real_size]
           fewer == regions \ {one}
<1>1. g.tag = [a \in U |-> h.tag[a]] /\ g.free = h.free
  BY DEF WithoutRegion
<1>2. DOMAIN g.tag = U /\ \A a \in U : g.tag[a] = h.tag[a]
  BY <1>1
<1> HIDE DEF g
<1>3. /\ T \subseteq Nat \ {Null} /\ IsFiniteSet(T) /\ h.free \in [Bins -> T \cup {Null}]
      /\ NoBin \notin Bins /\ HDR \in Nat \ {0} /\ Null = 0
      /\ \A a \in T : /\ h.tag[a] \in Fields(T) /\ h.tag[a].index \in Bins \cup {NoBin}
                      /\ h.tag[a].next \in T \cup {Null} /\ h.tag[a].prev \in T \cup {Null}
                      /\ h.tag[a].split_left \in T \cup {Null}
                      /\ h.tag[a].split_right \in T \cup {Null}
                      /\ h.tag[a].real_size \in Nat /\ h.tag[a].real_size >= HDR
                      /\ h.tag[a].real_size > 0
  BY Classes, HeapAssumption DEF Sound, Lists, Formed, Pieces, Joined, Fields
<1>4. \A a \in U : /\ h.tag[a].next # t /\ h.tag[a].prev # t
                   /\ h.tag[a].split_left # t /\ h.tag[a].split_right # t
  <2>1. \A a \in T : /\ h.tag[a].index = NoBin => h.tag[a].next = Null /\ h.tag[a].prev = Null
                     /\ h.tag[a].next # Null => h.tag[h.tag[a].next].index = h.tag[a].index
                     /\ h.tag[a].prev # Null => h.tag[h.tag[a].prev].index = h.tag[a].index
    BY DEF Sound, Lists, Linked
  <2>2. \A a \in T :
          /\ h.tag[a].split_left # Null => h.tag[h.tag[a].split_left].split_right = a
          /\ h.tag[a].split_right # Null => h.tag[h.tag[a].split_right].split_left = a
    BY DEF Sound, Pieces, Joined
  <2> QED
    BY <1>3, <2>1, <2>2
<1>5. \A b \in Bins : h.free[b] # t
  BY <1>3 DEF Sound, Lists, Linked
<1>6. Lists(g)
  <2>1. Formed(g)
    <3>1. IsFiniteSet(U)
      BY <1>3, FS_RemoveElement
    <3>2. g.free \in [Bins -> U \cup {Null}]
      BY <1>1, <1>3, <1>5
    <3>3. g.tag = [a \in DOMAIN g.tag |-> g.tag[a]]
      BY <1>1, <1>2
    <3>4. ASSUME NEW a \in U
          PROVE  g.tag[a] \in Fields(U)
      <4>1. h.tag[a] \in Fields(U)
        BY <1>3, <1>4 DEF Fields
      <4> QED
        BY <1>2, <4>1
    <3>5. U \subseteq Nat \ {Null}
      BY <1>3
    <3> HIDE DEF U
    <3> QED
      BY <1>2, <3>1, <3>2, <3>3, <3>4, <3>5 DEF Formed
  <2>2. \A a \in T : a \notin U => h.tag[a].index = NoBin
    OBVIOUS
  <2>3. U \subseteq T /\ Lists(h)
    BY DEF Sound
  <2> HIDE DEF U
  <2> QED
    BY <1>1, <1>2, <2>1, <2>2, <2>3, ListsCarried
<1>7. PICK r \in regions : Within(h, t, r)
  BY DEF Sound, Pieces, Placed
<1>8. r = one
  <2>1. /\ r.base = t /\ r.base + r.size = t + h.tag[t].real_size
        /\ r \in [base : Nat, size : Nat \ {0}]
    BY <1>7 DEF Within, Disjoint
  <2>2. r.size = h.tag[t].real_size
    BY <1>3, <2>1
  <2> QED
    BY <2>1, <2>2
<1>9. Pieces(g, fewer)
  <2>1. Joined(g)
    BY <1>2, <1>3, <1>4 DEF Sound, Pieces, Joined
  <2>2. Ordered(g)
    BY <1>2 DEF Sound, Pieces, Ordered
  <2>3. Placed(g, fewer)
    <3>1. ASSUME NEW a \in U
          PROVE  \E q \in fewer : Within(g, a, q)
      <4>1. PICK q \in regions : Within(h, a, q)
        BY DEF Sound, Pieces, Placed
      <4>2. q # one
        <5> SUFFICES ASSUME q = one
                     PROVE  FALSE
          OBVIOUS
        <5>1. t <= a /\ a + h.tag[a].real_size <= t + h.tag[t].real_size
          BY <4>1 DEF Within
        <5>2. a \in Nat /\ t \in Nat /\ a # t /\ h.tag[a].real_size \in Nat
              /\ h.tag[a].real_size > 0 /\ h.tag[t].real_size \in Nat
          BY <1>3
        <5>3. t + h.tag[t].real_size <= a
          BY <5>1, <5>2 DEF Sound, Pieces, Ordered
        <5> QED
          BY <5>1, <5>2, <5>3
      <4> QED
        BY <1>2, <4>1, <4>2 DEF Within
    <3>2. ASSUME NEW q \in fewer
          PROVE  q.base \in U
      <4>1. q.base \in T
        BY DEF Sound, Pieces, Placed
      <4>2. q.base # t
        <5> SUFFICES ASSUME q.base = t
                     PROVE  FALSE
          OBVIOUS
        <5>1. /\ q.size \in Nat \ {0} /\ t \in Nat /\ h.tag[t].real_size \in Nat \ {0}
              /\ r.base = t /\ r.size = h.tag[t].real_size
          BY <1>3, <1>8 DEF Disjoint
        <5>2. q = r
          BY <5>1, SameRegion
        <5> QED
          BY <1>8, <5>2
      <4> QED
        BY <4>1, <4>2
    <3> QED
      BY <1>2, <3>1, <3>2 DEF Placed
  <2> QED
    BY <2>1, <2>2, <2>3 DEF Pieces
<1>10. Classed(g) /\ NoPairs(g)
  <2>1. Classed(g)
    BY <1>2 DEF Sound, Classed
  <2>2. NoPairs(g)
    BY <1>2, <1>3, <1>4 DEF Sound, NoPairs
  <2> QED
    BY <2>1, <2>2
<1>11. Disjoint(fewer)
  BY DEF Disjoint
<1> QED
  BY <1>6, <1>9, <1>10, <1>11 DEF Sound, g

\* One iteration of MELT LEFT.
LEMMA Melted ==
  ASSUME NEW h, NEW regions, Sound(h, regions), Disjoint(regions),
         NEW t \in DOMAIN h.tag, h.tag[t].index = NoBin,
         NEW left \in DOMAIN h.tag, left = h.tag[t].split_left, h.tag[left].index # NoBin
  PROVE  LET g == remove_tag(melt_left(h, t), left)
             U == DOMAIN h.tag \ {t}
         IN  /\ Sound(g, regions) /\ DOMAIN g.tag = U /\ left \in U
             /\ \A a \in U :
                  /\ g.tag[a].index = IF a = left THEN NoBin ELSE h.tag[a].index
                  /\ g.tag[a].size = h.tag[a].size
                  /\ a # left => g.tag[a].real_size = h.tag[a].real_size
                  /\ (g.tag[a].split_left = Null) <=> (h.tag[a].split_left = Null)
                  /\ a # left => g.tag[a].split_right = h.tag[a].split_right
<1> DEFINE m == Merge(h, left, t)
           g == remove_tag(m, left)
           T == DOMAIN h.tag
           U == T \ {t}
           right == h.tag[t].split_right
<1>1. melt_left(h, t) = m
  BY DEF melt_left
<1>2. /\ Null \notin T
      /\ \A a \in T : /\ h.tag[a].split_left \in T \cup {Null}
                      /\ h.tag[a].split_right \in T \cup {Null}
      /\ \A a \in T :
           /\ h.tag[a].split_left # Null => h.tag[h.tag[a].split_left].split_right = a
           /\ h.tag[a].split_right # Null => h.tag[h.tag[a].split_right].split_left = a
  BY DEF Sound, Lists, Formed, Fields, Pieces, Joined
<1>3. h.tag[left].split_right = t /\ Lists(h) /\ Pieces(h, regions)
  BY <1>2 DEF Sound
<1>4. /\ Lists(m) /\ Pieces(m, regions) /\ DOMAIN m.tag = U /\ left # t
      /\ \A a \in U :
           /\ m.tag[a].size = h.tag[a].size /\ m.tag[a].index = h.tag[a].index
           /\ a # left => m.tag[a].real_size = h.tag[a].real_size
           /\ a # left => m.tag[a].split_right = h.tag[a].split_right
           /\ m.tag[a].split_left = IF a = right THEN left ELSE h.tag[a].split_left
  BY <1>3, Merged
<1> HIDE DEF m
<1>5. left \in DOMAIN m.tag /\ m.tag[left].index # NoBin
  BY <1>4
<1>6. /\ Lists(g) /\ Pieces(g, regions) /\ SameShape(m, g)
      /\ \A a \in DOMAIN m.tag : g.tag[a].index = IF a = left THEN NoBin ELSE m.tag[a].index
  BY <1>4, <1>5, Unlinked
<1> HIDE DEF g
<1>7. \A a \in U :
        /\ g.tag[a].index = IF a = left THEN NoBin ELSE h.tag[a].index
        /\ g.tag[a].size = h.tag[a].size
        /\ a # left => g.tag[a].real_size = h.tag[a].real_size
        /\ g.tag[a].split_left = IF a = right THEN left ELSE h.tag[a].split_left
        /\ a # left => g.tag[a].split_right = h.tag[a].split_right
  BY <1>4, <1>6 DEF SameShape
<1>8. DOMAIN g.tag = U /\ left \in U
  BY <1>4, <1>6 DEF SameShape
<1>9. \A a \in U : (g.tag[a].split_left = Null) <=> (h.tag[a].split_left = Null)
  <2>1. ASSUME NEW a \in U, a = right
        PROVE  h.tag[a].split_left = t
    BY <1>2, <2>1
  <2> QED
    BY <1>2, <1>7, <2>1
<1>10. Classed(g)
  <2>1. \A a \in U : g.tag[a].index # NoBin => g.tag[a].index = BinOf(g.tag[a].real_size - HDR)
    BY <1>7 DEF Sound, Classed
  <2> QED
    BY <1>8, <2>1 DEF Classed
<1>11. NoPairs(g)
  <2>1. ASSUME NEW a \in U, g.tag[a].index # NoBin, g.tag[a].split_right # Null
        PROVE  g.tag[g.tag[a].split_right].index = NoBin
    <3>1. a # left /\ h.tag[a].index # NoBin /\ g.tag[a].split_right = h.tag[a].split_right
      BY <1>7, <2>1
    <3>2. h.tag[a].split_right \in U
      BY <1>2, <2>1, <3>1
    <3>3. h.tag[h.tag[a].split_right].index = NoBin
      BY <2>1, <3>1 DEF Sound, NoPairs
    <3> QED
      BY <1>7, <3>1, <3>2, <3>3
  <2> QED
    BY <1>8, <2>1 DEF NoPairs
<1>12. Sound(g, regions)
  BY <1>6, <1>10, <1>11 DEF Sound
<1> QED
  BY <1>1, <1>7, <1>8, <1>9, <1>12 DEF g

\* One iteration of MELT RIGHT.
LEMMA Absorbed ==
  ASSUME NEW h, NEW regions, Sound(h, regions), Disjoint(regions),
         NEW t \in DOMAIN h.tag, h.tag[t].index = NoBin,
         NEW right \in DOMAIN h.tag, right = h.tag[t].split_right, h.tag[right].index # NoBin
  PROVE  LET g == absorb_right(h, t)
             U == DOMAIN h.tag \ {right}
         IN  /\ Sound(g, regions) /\ DOMAIN g.tag = U /\ t \in U
             /\ \A a \in U :
                  /\ g.tag[a].index = h.tag[a].index /\ g.tag[a].size = h.tag[a].size
                  /\ a # t => g.tag[a].real_size = h.tag[a].real_size
                  /\ (g.tag[a].split_left = Null) <=> (h.tag[a].split_left = Null)
                  /\ a # t => g.tag[a].split_right = h.tag[a].split_right
             /\ g.tag[t].split_left \in {h.tag[t].split_left, t}
<1> DEFINE m == remove_tag(h, right)
           g == Merge(m, t, right)
           T == DOMAIN h.tag
           U == T \ {right}
           next == m.tag[right].split_right
<1>1. absorb_right(h, t) = g
  BY DEF absorb_right
<1>2. /\ Null \notin T
      /\ \A a \in T : /\ h.tag[a].split_left \in T \cup {Null}
                      /\ h.tag[a].split_right \in T \cup {Null}
      /\ \A a \in T : h.tag[a].split_right # Null => h.tag[h.tag[a].split_right].split_left = a
  BY DEF Sound, Lists, Formed, Fields, Pieces, Joined
<1>3. Lists(h) /\ Pieces(h, regions) /\ t # right
  BY DEF Sound
<1>4. /\ Lists(m) /\ Pieces(m, regions) /\ SameShape(h, m)
      /\ \A a \in T : m.tag[a].index = IF a = right THEN NoBin ELSE h.tag[a].index
  BY <1>3, Unlinked
<1> HIDE DEF m
<1>5. /\ DOMAIN m.tag = T /\ m.tag[t].split_right = right /\ m.tag[right].index = NoBin
      /\ \A a \in T :
           /\ m.tag[a].size = h.tag[a].size /\ m.tag[a].real_size = h.tag[a].real_size
           /\ m.tag[a].split_left = h.tag[a].split_left
           /\ m.tag[a].split_right = h.tag[a].split_right
  BY <1>4 DEF SameShape
<1>6. /\ Lists(g) /\ Pieces(g, regions) /\ DOMAIN g.tag = U
      /\ \A a \in U :
           /\ g.tag[a].size = m.tag[a].size /\ g.tag[a].index = m.tag[a].index
           /\ a # t => g.tag[a].real_size = m.tag[a].real_size
           /\ a # t => g.tag[a].split_right = m.tag[a].split_right
           /\ g.tag[a].split_left = IF a = next THEN t ELSE m.tag[a].split_left
  BY <1>4, <1>5, Merged
<1> HIDE DEF g
<1>7. \A a \in U :
        /\ g.tag[a].index = h.tag[a].index /\ g.tag[a].size = h.tag[a].size
        /\ a # t => g.tag[a].real_size = h.tag[a].real_size
        /\ a # t => g.tag[a].split_right = h.tag[a].split_right
        /\ g.tag[a].split_left = IF a = next THEN t ELSE h.tag[a].split_left
  BY <1>4, <1>5, <1>6
<1>8. t \in U
  BY <1>3
<1>9. \A a \in U : (g.tag[a].split_left = Null) <=> (h.tag[a].split_left = Null)
  <2>1. ASSUME NEW a \in U, a = next
        PROVE  h.tag[a].split_left = right
    BY <1>2, <1>5, <2>1
  <2> QED
    BY <1>2, <1>7, <2>1
<1>10. Classed(g)
  <2>1. \A a \in U : g.tag[a].index # NoBin => g.tag[a].index = BinOf(g.tag[a].real_size - HDR)
    BY <1>7 DEF Sound, Classed
  <2> QED
    BY <1>6, <2>1 DEF Classed
<1>11. NoPairs(g)
  <2>1. ASSUME NEW a \in U, g.tag[a].index # NoBin, g.tag[a].split_right # Null
        PROVE  g.tag[g.tag[a].split_right].index = NoBin
    <3>1. a # t /\ h.tag[a].index # NoBin /\ g.tag[a].split_right = h.tag[a].split_right
      BY <1>7, <2>1
    <3>2. g.tag[a].split_right \in U
      BY <1>6, <2>1 DEF Lists, Formed, Fields
    <3>3. h.tag[h.tag[a].split_right].index = NoBin
      BY <2>1, <3>1 DEF Sound, NoPairs
    <3> QED
      BY <1>7, <3>1, <3>2, <3>3
  <2> QED
    BY <1>6, <2>1 DEF NoPairs
<1>12. Sound(g, regions)
  BY <1>6, <1>10, <1>11 DEF Sound
<1>13. g.tag[t].split_left \in {h.tag[t].split_left, t}
  BY <1>7, <1>8
<1>14. \A a \in U :
         /\ g.tag[a].index = h.tag[a].index /\ g.tag[a].size = h.tag[a].size
         /\ a # t => g.tag[a].real_size = h.tag[a].real_size
         /\ (g.tag[a].split_left = Null) <=> (h.tag[a].split_left = Null)
         /\ a # t => g.tag[a].split_right = h.tag[a].split_right
  BY <1>7, <1>9
<1>15. DOMAIN g.tag = U
  BY <1>6
<1> QED
  BY <1>1, <1>8, <1>12, <1>13, <1>14, <1>15

-----------------------------------------------------------------------------
(* The invariant *)

LEMMA HeapSame ==
  ASSUME NEW h, NEW g, NEW regions, Sound(h, regions), g.tag = h.tag, g.free = h.free
  PROVE  Sound(g, regions)
<1>1. Lists(g)
  <2>1. Formed(g)
    BY DEF Sound, Lists, Formed
  <2>2. Linked(g)
    BY DEF Sound, Lists, Linked
  <2>3. Queued(g)
    BY DEF Sound, Lists, Queued
  <2> QED
    BY <2>1, <2>2, <2>3 DEF Lists
<1>2. Pieces(g, regions)
  <2>1. Joined(g)
    BY DEF Sound, Pieces, Joined
  <2>2. Ordered(g)
    BY DEF Sound, Pieces, Ordered
  <2>3. Placed(g, regions)
    BY DEF Sound, Pieces, Placed, Within
  <2> QED
    BY <2>1, <2>2, <2>3 DEF Pieces
<1>3. Classed(g) /\ NoPairs(g)
  BY DEF Sound, Classed, NoPairs
<1> QED
  BY <1>1, <1>2, <1>3 DEF Sound

\* What the parts of the invariant say of a tag.
LEMMA TagFacts ==
  ASSUME HeapInv
  PROVE  /\ Tags \subseteq Nat \ {Null} /\ IsFiniteSet(Tags) /\ Heap.tag = tag /\ Heap.free = freePages
         /\ \A a \in Tags : /\ tag[a] \in Fields(Tags) /\ tag[a].index \in Bins \cup {NoBin}
                            /\ tag[a].size \in Nat
                            /\ tag[a].real_size \in Nat /\ tag[a].real_size >= HDR
                            /\ tag[a].split_left \in Tags \cup {Null}
                            /\ tag[a].split_right \in Tags \cup {Null}
         /\ \A a \in Tags :
              /\ tag[a].split_left # Null => tag[tag[a].split_left].split_right = a
              /\ tag[a].split_right # Null => tag[tag[a].split_right].split_left = a
         /\ HDR \in Nat \ {0} /\ NoBin \notin Bins /\ Bins \subseteq Nat
<1>1. Formed(Heap) /\ Joined(Heap)
  BY DEF HeapInv, Sound, Lists, Pieces
<1> QED
  BY <1>1, Classes, HeapAssumption DEF Formed, Joined, Fields, Heap, Tags

LEMMA CountSame ==
  ASSUME Counted, completePages' = completePages, \A bin \in Bins : Standing(bin)' = Standing(bin)
  PROVE  Counted'
BY DEF Counted

\* malloc() finds a tag or makes one: the tag it returns was not in use.
LEMMA Obtained ==
  ASSUME HeapInv, NEW size \in Nat, NEW t, Obtain(size, t)
  PROVE  /\ Sound(Heap, arena)' /\ Disjoint(arena)' /\ arena \subseteq arena'
         /\ \A r \in arena' : r.base + r.size <= heaptop'
         /\ t \in Tags' /\ tag'[t].index = NoBin /\ tag'[t].size = size
         /\ HDR + size <= tag'[t].real_size
         /\ Tags \subseteq Tags' /\ (t \in Tags => tag[t].index # NoBin)
         /\ \A a \in Tags \ {t} :
              /\ tag'[a].size = tag[a].size /\ tag'[a].index = tag[a].index
              /\ tag'[a].real_size = tag[a].real_size
         /\ \A a \in Tags' \ Tags : a # t => tag'[a].index # NoBin
         /\ Counted' /\ heaptop' \in Nat \ {0} /\ pagesLeft' \in 0..Pages /\ wild' = wild
<1>0. /\ Tags \subseteq Nat \ {Null} /\ IsFiniteSet(Tags) /\ Heap.tag = tag /\ Heap.free = freePages
      /\ \A a \in Tags : /\ tag[a].index \in Bins \cup {NoBin}
                         /\ tag[a].real_size \in Nat /\ tag[a].split_right \in Tags \cup {Null}
      /\ HDR \in Nat \ {0} /\ NoBin \notin Bins
  BY TagFacts
<1>1. Sound(Heap, arena) /\ Disjoint(arena) /\ Lists(Heap) /\ Pieces(Heap, arena)
  BY DEF HeapInv, Sound, Limits
<1>2. Counted
  BY DEF HeapInv
<1>3. CASE t = Found(size) /\ MallocFound(size, t)
  <2> DEFINE bin == BinOf(size)
             h == remove_tag(Heap, t)
             g == TakenHeap(h, t, size)
  <2>1. t # Null
    BY <1>3 DEF MallocFound
  <2>2. t \in Tags /\ tag[t].index = bin /\ Fits(t, size)
    BY <1>1, <1>3, <2>1, FoundFits
  <2>3. bin \in Bins
    BY BinInBins
  <2> HIDE DEF bin
  <2>4. size + HDR <= tag[t].real_size
    <3>1. \A r, s, d \in Nat : r - d >= s + d => s + d <= r
      OBVIOUS
    <3> QED
      BY <1>0, <2>2, <3>1 DEF Fits
  <2>5. t \in DOMAIN Heap.tag /\ Heap.tag[t].index # NoBin
    BY <1>0, <2>2, <2>3 DEF Tags
  <2>6. /\ Lists(h) /\ Pieces(h, arena) /\ SameShape(Heap, h)
        /\ \A a \in DOMAIN Heap.tag : h.tag[a].index = IF a = t THEN NoBin ELSE Heap.tag[a].index
    BY <1>1, <2>5, Unlinked
  <2>7. /\ DOMAIN h.tag = Tags
        /\ \A a \in Tags :
             /\ h.tag[a].index = IF a = t THEN NoBin ELSE tag[a].index
             /\ h.tag[a].size = tag[a].size /\ h.tag[a].real_size = tag[a].real_size
             /\ h.tag[a].split_left = tag[a].split_left
             /\ h.tag[a].split_right = tag[a].split_right
    BY <1>0, <2>6 DEF SameShape, Tags
  <2> HIDE DEF h
  <2>8. /\ \A a \in Tags : tag[a].index # NoBin => tag[a].index = BinOf(tag[a].real_size - HDR)
        /\ \A a \in Tags : tag[a].index # NoBin /\ tag[a].split_right # Null =>
             tag[tag[a].split_right].index = NoBin
    BY <1>0, <1>1 DEF Sound, Classed, NoPairs, Tags
  <2>9. Sound(h, arena)
    <3>1. Classed(h)
      BY <2>7, <2>8 DEF Classed
    <3>2. NoPairs(h)
      BY <1>0, <2>7, <2>8 DEF NoPairs
    <3> QED
      BY <2>6, <3>1, <3>2 DEF Sound
  <2>10. /\ t \in DOMAIN h.tag /\ h.tag[t].index = NoBin /\ size + HDR <= h.tag[t].real_size
         /\ h.tag[t].split_right # Null => h.tag[h.tag[t].split_right].index = NoBin
    <3>1. t \in DOMAIN h.tag /\ h.tag[t].index = NoBin /\ h.tag[t].real_size = tag[t].real_size
          /\ h.tag[t].split_right = tag[t].split_right
      BY <2>2, <2>7
    <3>2. tag[t].split_right # Null => /\ tag[t].split_right \in Tags
                                       /\ tag[tag[t].split_right].index = NoBin
      BY <1>0, <2>2, <2>3, <2>8
    <3>3. tag[t].split_right # Null => h.tag[tag[t].split_right].index = NoBin
      BY <2>7, <3>2
    <3> QED
      BY <2>4, <3>1, <3>3
  <2>11. /\ Sound(g, arena) /\ DOMAIN h.tag \subseteq DOMAIN g.tag
         /\ g.tag[t].index = NoBin /\ g.tag[t].size = size
         /\ size + HDR <= g.tag[t].real_size
         /\ \A a \in DOMAIN h.tag \ {t} :
              /\ g.tag[a].size = h.tag[a].size /\ g.tag[a].index = h.tag[a].index
              /\ g.tag[a].real_size = h.tag[a].real_size
              /\ (g.tag[a].split_left = Null) <=> (h.tag[a].split_left = Null)
              /\ (g.tag[a].split_right = Null) <=> (h.tag[a].split_right = Null)
         /\ \A a \in DOMAIN g.tag \ DOMAIN h.tag :
              g.tag[a].index # NoBin /\ g.tag[a].split_left # Null
    BY <1>1, <2>9, <2>10, Taken
  <2> HIDE DEF g
  <2>12. tag' = g.tag /\ freePages' = g.free
    BY <1>3, TakeSets DEF MallocFound, g, h
  <2>13. Sound(Heap', arena)
    <3>1. Heap'.tag = g.tag /\ Heap'.free = g.free
      BY <2>12 DEF Heap
    <3> QED
      BY <2>11, <3>1, HeapSame
  <2>14. Tags' = DOMAIN g.tag /\ Tags \subseteq Tags'
    BY <2>7, <2>11, <2>12 DEF Tags
  <2>15. UNCHANGED <<heaptop, pagesLeft, arena, wild>>
    BY <1>3 DEF MallocFound
  <2>16. \A a \in Tags \ {t} :
           /\ tag'[a].size = tag[a].size /\ tag'[a].index = tag[a].index
           /\ tag'[a].real_size = tag[a].real_size
           /\ (tag'[a].split_left = Null) <=> (tag[a].split_left = Null)
           /\ (tag'[a].split_right = Null) <=> (tag[a].split_right = Null)
    BY <2>7, <2>11, <2>12
  <2>17. \A a \in Tags' \ Tags : tag'[a].index # NoBin /\ tag'[a].split_left # Null
    BY <2>7, <2>11, <2>12, <2>14
  <2>18. tag'[t].index = NoBin /\ tag'[t].size = size /\ size + HDR <= tag'[t].real_size
    BY <2>11, <2>12
  <2>19. Counted'
    <3>1. \A b \in Bins : Standing(b)' = Standing(b) \ {t}
      BY <1>0, <2>14, <2>16, <2>17, <2>18 DEF Standing, Whole
    <3>2. \A b \in Bins : t \in Standing(b) <=> (b = bin /\ Whole(t))
      BY <2>2 DEF Standing
    <3>3. completePages' = IF Whole(t) THEN [completePages EXCEPT ![bin] = @ - 1] ELSE completePages
      BY <1>3 DEF MallocFound, bin
    <3>4. CASE ~ Whole(t)
      <4>1. \A b \in Bins : Standing(b)' = Standing(b)
        BY <3>1, <3>2, <3>4
      <4> QED
        BY <1>2, <3>3, <3>4, <4>1, CountSame
    <3>5. CASE Whole(t)
      <4>1. t \in Standing(bin) /\ IsFiniteSet(Standing(bin))
        <5>1. Standing(bin) \subseteq Tags
          BY DEF Standing
        <5> QED
          BY <1>0, <2>3, <3>2, <3>5, <5>1, FS_Subset
      <4>2. /\ Cardinality(Standing(bin) \ {t}) = Cardinality(Standing(bin)) - 1
            /\ Cardinality(Standing(bin) \ {t}) \in Nat
        BY <4>1, FS_RemoveElement, FS_CardinalityType
      <4>3. \A b \in Bins : b # bin => Standing(b)' = Standing(b)
        BY <3>1, <3>2
      <4>4. Standing(bin)' = Standing(bin) \ {t}
        BY <2>3, <3>1
      <4>5. /\ completePages \in [Bins -> Nat] /\ completePages[bin] = Cardinality(Standing(bin))
            /\ \A b \in Bins : completePages[b] <= MAXCOMPLETE
                               /\ completePages[b] = Cardinality(Standing(b))
        BY <1>2, <2>3 DEF Counted
      <4>6. completePages[bin] - 1 \in Nat /\ completePages[bin] - 1 <= MAXCOMPLETE
        BY <2>3, <4>2, <4>5, HeapAssumption
      <4>7. /\ completePages' \in [Bins -> Nat] /\ completePages'[bin] = completePages[bin] - 1
            /\ \A b \in Bins : b # bin => completePages'[b] = completePages[b]
        BY <2>3, <3>3, <3>5, <4>5, <4>6
      <4> HIDE DEF Standing
      <4>8. \A b \in Bins : completePages'[b] <= MAXCOMPLETE
                            /\ completePages'[b] = Cardinality(Standing(b)')
        BY <4>2, <4>3, <4>4, <4>5, <4>6, <4>7
      <4> QED
        BY <4>7, <4>8 DEF Counted
    <3> QED
      BY <3>4, <3>5
  <2>20. HDR + size <= tag'[t].real_size
    <3>1. size + HDR = HDR + size
      BY <1>0
    <3> QED
      BY <2>18, <3>1
  <2> QED
    BY <1>1, <2>2, <2>3, <1>0, <2>13, <2>14, <2>15, <2>16, <2>17, <2>18, <2>19, <2>20 DEF HeapInv, Limits
<1>4. CASE t = heaptop /\ MallocNew(size)
  <2> DEFINE len == PagesFor(size) * PageSize
             h == WithRegion(Heap, heaptop, size, len)
             g == TakenHeap(h, t, size)
             more == arena \cup {[base |-> heaptop, size |-> len]}
  <2>1. /\ len \in Nat /\ size + HDR <= len /\ PagesFor(size) \in Nat
        /\ heaptop \in Nat \ {0} /\ pagesLeft \in 0..Pages /\ Pages \in Nat
        /\ \A r \in arena : r.base + r.size <= heaptop
    BY PagesHold, HeapAssumption DEF HeapInv, Limits
  <2>2. /\ pagesLeft > PagesFor(size) /\ heaptop' = heaptop + len
        /\ pagesLeft' = pagesLeft - PagesFor(size) /\ arena' = more
        /\ completePages' = completePages /\ wild' = wild /\ Take(h, heaptop, size)
    BY <1>4, <1>0 DEF MallocNew, WithRegion, Tags, Heap
  <2> HIDE DEF len
  <2>3. /\ Sound(h, more) /\ Disjoint(more) /\ heaptop \notin DOMAIN Heap.tag
        /\ \A r \in more : r.base + r.size <= heaptop + len
        /\ DOMAIN h.tag = DOMAIN Heap.tag \cup {heaptop}
        /\ h.tag[heaptop].index = NoBin /\ h.tag[heaptop].real_size = len
        /\ h.tag[heaptop].split_right = Null
        /\ \A a \in DOMAIN Heap.tag : h.tag[a] = Heap.tag[a]
    <3>1. PICK u, regions : u = Heap /\ regions = arena
      OBVIOUS
    <3>2. h = WithRegion(u, t, size, len) /\ more = regions \cup {[base |-> t, size |-> len]}
      BY <1>4, <3>1
    <3> HIDE DEF h, more
    <3>3. t \in Nat \ {0} /\ \A r \in regions : r.base + r.size <= t
      BY <1>4, <2>1, <3>1
    <3>4. Sound(u, regions) /\ Disjoint(regions) /\ len \in Nat /\ size + HDR <= len
      BY <1>1, <2>1, <3>1
    <3>5. /\ Sound(h, more) /\ Disjoint(more) /\ t \notin DOMAIN u.tag
          /\ \A r \in more : r.base + r.size <= t + len
          /\ DOMAIN h.tag = DOMAIN u.tag \cup {t}
          /\ h.tag[t].index = NoBin /\ h.tag[t].real_size = len
          /\ h.tag[t].split_right = Null
          /\ \A a \in DOMAIN u.tag : h.tag[a] = u.tag[a]
      BY <3>2, <3>3, <3>4, RegionAdded, SMTT(30)
    <3> QED
      BY <1>4, <3>1, <3>5
  <2>4. /\ DOMAIN h.tag = Tags \cup {t} /\ t \notin Tags /\ h.tag[t].index = NoBin
        /\ size + HDR <= h.tag[t].real_size /\ h.tag[t].split_right = Null
        /\ \A a \in Tags : h.tag[a] = tag[a]
    BY <1>0, <1>4, <2>1, <2>3 DEF Tags
  <2>5. tag' = g.tag /\ freePages' = g.free
    BY <1>4, <2>2, TakeSets
  <2> HIDE DEF h, more
  <2>6. /\ Sound(g, more) /\ DOMAIN h.tag \subseteq DOMAIN g.tag
        /\ g.tag[t].index = NoBin /\ g.tag[t].size = size
        /\ size + HDR <= g.tag[t].real_size
        /\ \A a \in DOMAIN h.tag \ {t} :
             /\ g.tag[a].size = h.tag[a].size /\ g.tag[a].index = h.tag[a].index
             /\ g.tag[a].real_size = h.tag[a].real_size
             /\ (g.tag[a].split_left = Null) <=> (h.tag[a].split_left = Null)
             /\ (g.tag[a].split_right = Null) <=> (h.tag[a].split_right = Null)
        /\ \A a \in DOMAIN g.tag \ DOMAIN h.tag :
             g.tag[a].index # NoBin /\ g.tag[a].split_left # Null
    BY <2>3, <2>4, Taken
  <2> HIDE DEF g
  <2>7. Sound(Heap', arena')
    <3>1. Heap'.tag = g.tag /\ Heap'.free = g.free
      BY <2>5 DEF Heap
    <3> QED
      BY <2>2, <2>6, <3>1, HeapSame
  <2>8. Tags' = DOMAIN g.tag /\ Tags \subseteq Tags' /\ t \in Tags'
    BY <2>4, <2>5, <2>6 DEF Tags
  <2>9. \A a \in Tags :
          /\ tag'[a].size = tag[a].size /\ tag'[a].index = tag[a].index
          /\ tag'[a].real_size = tag[a].real_size
          /\ (tag'[a].split_left = Null) <=> (tag[a].split_left = Null)
          /\ (tag'[a].split_right = Null) <=> (tag[a].split_right = Null)
    BY <2>4, <2>5, <2>6
  <2>10. \A a \in Tags' \ Tags : a # t => tag'[a].index # NoBin /\ tag'[a].split_left # Null
    BY <2>4, <2>5, <2>6, <2>8
  <2>11. tag'[t].index = NoBin /\ tag'[t].size = size /\ size + HDR <= tag'[t].real_size
    BY <2>5, <2>6
  <2>12. Counted'
    <3>1. \A b \in Bins : Standing(b)' = Standing(b)
      BY <1>0, <2>4, <2>8, <2>9, <2>10, <2>11 DEF Standing, Whole
    <3> QED
      BY <1>2, <2>2, <3>1, CountSame
  <2>13. heaptop' \in Nat \ {0} /\ pagesLeft' \in 0..Pages
    BY <2>1, <2>2
  <2>14. HDR + size <= tag'[t].real_size
    <3>1. size + HDR = HDR + size
      BY <1>0
    <3> QED
      BY <2>11, <3>1
  <2>15. /\ arena \subseteq arena' /\ Disjoint(arena')
         /\ \A r \in arena' : r.base + r.size <= heaptop'
    BY <2>2, <2>3 DEF more
  <2> QED
    BY <2>2, <2>4, <2>7, <2>8, <2>9, <2>10, <2>11, <2>12, <2>13, <2>14, <2>15
<1> QED
  BY <1>3, <1>4 DEF Obtain

LEMMA InitInv == Init => HeapInv
<1> SUFFICES ASSUME Init
             PROVE  HeapInv
  OBVIOUS
<1>1. /\ Tags = {} /\ tag = [a \in {} |-> Null] /\ arena = {} /\ live = {}
      /\ freeing = Null /\ freePages = [b \in Bins |-> Null]
  BY DEF Init, Tags
<1>2. Lists(Heap)
  <2>1. Formed(Heap)
    BY <1>1, FS_EmptySet DEF Formed, Heap, Tags
  <2>2. Linked(Heap)
    BY <1>1 DEF Linked, Heap, Tags
  <2>3. Queued(Heap)
    <3>1. [a \in {} |-> 0] \in [{} -> Nat]
      OBVIOUS
    <3>2. DOMAIN Heap.tag = {}
      BY <1>1 DEF Heap, Tags
    <3> HIDE DEF Heap
    <3> QED
      BY <3>1, <3>2 DEF Queued
  <2> QED
    BY <2>1, <2>2, <2>3 DEF Lists
<1>3. Sound(Heap, arena)
  BY <1>1, <1>2 DEF Sound, Pieces, Joined, Ordered, Placed, Classed, NoPairs, Heap, Tags
<1>4. Owned /\ Working
  BY <1>1 DEF Owned, Working, BlocksHaveRoom
<1>5. Limits
  <2>1. heaptop = KHEAP /\ pagesLeft = Pages /\ melting = FALSE /\ wild = FALSE
    BY DEF Init
  <2>2. Disjoint(arena) /\ \A r \in arena : r.base + r.size <= heaptop
    BY <1>1 DEF Disjoint
  <2>3. Pages \in 0..Pages
    BY HeapAssumption
  <2> QED
    BY <2>1, <2>2, <2>3, HeapAssumption DEF Limits
<1>6. Counted
  <2>1. \A b \in Bins : Standing(b) = {}
    BY <1>1 DEF Standing
  <2>2. Cardinality({}) = 0
    BY FS_EmptySet
  <2>3. \A b \in Bins : Cardinality(Standing(b)) = 0
    BY <2>1, <2>2
  <2>4. completePages = [b \in Bins |-> 0]
    BY DEF Init
  <2> HIDE DEF Standing
  <2> QED
    BY <2>3, <2>4, HeapAssumption DEF Counted
<1> QED
  BY <1>3, <1>4, <1>5, <1>6 DEF HeapInv

\* What the invariant says of the blocks callers hold.
LEMMA BlockFacts ==
  ASSUME HeapInv
  PROVE  /\ \A b \in live :
              /\ b \in [ptr : Nat, size : Nat] /\ b.ptr - HDR \in Tags
              /\ tag[b.ptr - HDR].index = NoBin /\ tag[b.ptr - HDR].size = b.size
              /\ HDR + b.size <= tag[b.ptr - HDR].real_size
              /\ b.ptr = (b.ptr - HDR) + HDR
         /\ \A b, c \in live : b.ptr - HDR = c.ptr - HDR => b = c
<1>1. HDR \in Nat
  BY HeapAssumption
<1>2. ASSUME NEW b \in live
      PROVE  /\ b \in [ptr : Nat, size : Nat] /\ b.ptr - HDR \in Tags
             /\ tag[b.ptr - HDR].index = NoBin /\ tag[b.ptr - HDR].size = b.size
             /\ HDR + b.size <= tag[b.ptr - HDR].real_size
             /\ b.ptr = (b.ptr - HDR) + HDR
  <2>1. b \in [ptr : Nat, size : Nat]
    BY DEF HeapInv, Owned
  <2>2. /\ b.ptr - HDR \in Tags /\ tag[b.ptr - HDR].size = b.size
        /\ HDR + b.size <= tag[b.ptr - HDR].real_size
    BY DEF HeapInv, Owned, BlocksHaveRoom
  <2>3. b.ptr - HDR \in InUse
    BY DEF InUse
  <2>4. tag[b.ptr - HDR].index = NoBin
    BY <2>2, <2>3 DEF HeapInv, Owned
  <2>5. b.ptr = (b.ptr - HDR) + HDR
    <3>1. \A p, d \in Nat : p = (p - d) + d
      OBVIOUS
    <3> QED
      BY <1>1, <2>1, <3>1
  <2> QED
    BY <2>1, <2>2, <2>4, <2>5
<1>3. ASSUME NEW b \in live, NEW c \in live, b.ptr - HDR = c.ptr - HDR
      PROVE  b = c
  <2>1. b.ptr = c.ptr /\ b.size = c.size
    BY <1>2, <1>3
  <2>2. b \in [ptr : Nat, size : Nat] /\ c \in [ptr : Nat, size : Nat]
    BY <1>2
  <2> QED
    BY <2>1, <2>2
<1> QED
  BY <1>2, <1>3

\* The block malloc() returns is new.
LEMMA NewBlock ==
  ASSUME HeapInv, freeing = Null, NEW size \in Nat, NEW t, Obtain(size, t)
  PROVE  /\ t \in Nat /\ Block(t, size) \in [ptr : Nat, size : Nat]
         /\ Block(t, size).ptr - HDR = t
         /\ \A b \in live : b.ptr - HDR # t
         /\ \A b \in live : /\ b.ptr - HDR \in Tags' /\ tag'[b.ptr - HDR].size = b.size
                            /\ HDR + b.size <= tag'[b.ptr - HDR].real_size
         /\ \A a \in Tags' : tag'[a].index = NoBin <=> a = t \/ \E b \in live : a = b.ptr - HDR
<1>1. /\ t \in Tags' /\ tag'[t].index = NoBin /\ Tags \subseteq Tags'
      /\ (t \in Tags => tag[t].index # NoBin)
      /\ \A a \in Tags \ {t} :
           /\ tag'[a].size = tag[a].size /\ tag'[a].index = tag[a].index
           /\ tag'[a].real_size = tag[a].real_size
      /\ \A a \in Tags' \ Tags : a # t => tag'[a].index # NoBin
      /\ Sound(Heap, arena)'
  BY Obtained
<1>2. \A b \in live : /\ b.ptr - HDR \in Tags /\ tag[b.ptr - HDR].index = NoBin
                      /\ tag[b.ptr - HDR].size = b.size
                      /\ HDR + b.size <= tag[b.ptr - HDR].real_size
  BY BlockFacts
<1>3. t \in Nat
  <2>1. DOMAIN Heap'.tag \subseteq Nat
    BY <1>1 DEF Sound, Lists, Formed
  <2> QED
    BY <1>1, <2>1 DEF Heap, Tags
<1>4. Block(t, size) \in [ptr : Nat, size : Nat] /\ Block(t, size).ptr - HDR = t
  BY <1>3, HeapAssumption DEF Block
<1>5. \A b \in live : b.ptr - HDR # t
  BY <1>1, <1>2
<1>6. \A a \in Tags : tag[a].index = NoBin <=> \E b \in live : a = b.ptr - HDR
  BY DEF HeapInv, Owned, InUse
<1>7. \A b \in live : /\ b.ptr - HDR \in Tags' /\ tag'[b.ptr - HDR].size = b.size
                      /\ HDR + b.size <= tag'[b.ptr - HDR].real_size
  BY <1>1, <1>2, <1>5
<1>8. \A a \in Tags' : tag'[a].index = NoBin <=> a = t \/ \E b \in live : a = b.ptr - HDR
  <2> SUFFICES ASSUME NEW a \in Tags'
               PROVE  tag'[a].index = NoBin <=> a = t \/ \E b \in live : a = b.ptr - HDR
    OBVIOUS
  <2>1. CASE a = t
    BY <1>1, <2>1
  <2>2. CASE a # t /\ a \in Tags
    BY <1>1, <1>6, <2>2
  <2>3. CASE a # t /\ a \notin Tags
    BY <1>1, <1>2, <2>3
  <2> QED
    BY <2>1, <2>2, <2>3
<1> QED
  BY <1>3, <1>4, <1>5, <1>7, <1>8

\* malloc() and calloc(), when they return a block.
LEMMA AllocatedInv ==
  ASSUME HeapInv, freeing = Null, NEW size \in Nat, Allocated(size)
  PROVE  HeapInv'
<1>1. PICK t : /\ Obtain(size, t) /\ live' = live \cup {Block(t, size)}
               /\ UNCHANGED <<freeing, melting>>
  BY DEF Allocated
<1>2. /\ Sound(Heap, arena)' /\ Disjoint(arena)' /\ \A r \in arena' : r.base + r.size <= heaptop'
      /\ t \in Tags' /\ tag'[t].size = size /\ HDR + size <= tag'[t].real_size
      /\ Counted' /\ heaptop' \in Nat \ {0} /\ pagesLeft' \in 0..Pages /\ wild' = wild
  BY <1>1, Obtained
<1>3. /\ Block(t, size) \in [ptr : Nat, size : Nat] /\ Block(t, size).ptr - HDR = t
      /\ \A b \in live : b.ptr - HDR # t
      /\ \A b \in live : /\ b.ptr - HDR \in Tags' /\ tag'[b.ptr - HDR].size = b.size
                         /\ HDR + b.size <= tag'[b.ptr - HDR].real_size
      /\ \A a \in Tags' : tag'[a].index = NoBin <=> a = t \/ \E b \in live : a = b.ptr - HDR
  BY <1>1, NewBlock
<1>4. Block(t, size).size = size
  BY DEF Block
<1>5. PICK n : n = Block(t, size)
  OBVIOUS
<1>6. live' = live \cup {n} /\ n.ptr - HDR = t /\ n.size = size /\ n \in [ptr : Nat, size : Nat]
  BY <1>1, <1>3, <1>4, <1>5
<1>7. BlocksHaveRoom'
  <2>1. ASSUME NEW b \in live'
        PROVE  /\ b.ptr - HDR \in Tags' /\ tag'[b.ptr - HDR].size = b.size
               /\ HDR + b.size <= tag'[b.ptr - HDR].real_size
    <3>1. CASE b = n
      BY <1>2, <1>6, <3>1
    <3>2. CASE b \in live
      BY <1>3, <3>2
    <3> QED
      BY <1>6, <3>1, <3>2
  <2> QED
    BY <2>1 DEF BlocksHaveRoom
<1>8. Owned'
  <2>1. \A a \in Tags' : tag'[a].index = NoBin <=> a \in InUse'
    <3>1. InUse' = {b.ptr - HDR : b \in live} \cup {t}
      BY <1>1, <1>6 DEF InUse
    <3> QED
      BY <1>3, <3>1
  <2>2. live' \subseteq [ptr : Nat, size : Nat]
    BY <1>6 DEF HeapInv, Owned
  <2>3. freeing' = Null
    BY <1>1
  <2> QED
    BY <1>7, <2>1, <2>2, <2>3 DEF Owned
<1>9. Working' /\ Limits'
  <2>1. Working'
    BY <1>1 DEF Working
  <2>2. Limits'
    BY <1>1, <1>2 DEF HeapInv, Limits
  <2> QED
    BY <2>1, <2>2
<1> QED
  BY <1>2, <1>8, <1>9 DEF HeapInv

\* Without pages nothing changes, or the program is lost.
LEMMA NoPagesInv ==
  ASSUME HeapInv, NEW size, NoPages(size), wild' \in BOOLEAN
  PROVE  HeapInv' /\ UNCHANGED <<live, arena>>
<1>1. UNCHANGED <<tag, freePages, completePages, heaptop, pagesLeft, arena,
                  freeing, melting, live>>
  BY DEF NoPages
<1>2. Sound(Heap, arena)'
  BY <1>1 DEF HeapInv, Heap
<1>3. Owned'
  BY <1>1 DEF HeapInv, Owned, InUse, BlocksHaveRoom, Tags
<1>4. Working' /\ Limits'
  BY <1>1 DEF HeapInv, Working, Limits
<1>5. Counted'
  BY <1>1 DEF HeapInv, Counted, Standing, Whole, Tags
<1> QED
  BY <1>1, <1>2, <1>3, <1>4, <1>5 DEF HeapInv

\* realloc(): the new block is held, and the old one is being freed.
LEMMA ReallocInv ==
  ASSUME HeapInv, freeing = Null, NEW size \in Nat, NEW old \in live, NEW t, Obtain(size, t),
         live' = (live \cup {Block(t, size)}) \ {old},
         freeing' = old.ptr - HDR, melting' = TRUE
  PROVE  HeapInv'
<1>1. /\ Sound(Heap, arena)' /\ Disjoint(arena)' /\ \A r \in arena' : r.base + r.size <= heaptop'
      /\ t \in Tags' /\ tag'[t].size = size /\ HDR + size <= tag'[t].real_size
      /\ Counted' /\ heaptop' \in Nat \ {0} /\ pagesLeft' \in 0..Pages /\ wild' = wild
  BY Obtained
<1>2. /\ Block(t, size) \in [ptr : Nat, size : Nat] /\ Block(t, size).ptr - HDR = t
      /\ \A b \in live : b.ptr - HDR # t
      /\ \A b \in live : /\ b.ptr - HDR \in Tags' /\ tag'[b.ptr - HDR].size = b.size
                         /\ HDR + b.size <= tag'[b.ptr - HDR].real_size
      /\ \A a \in Tags' : tag'[a].index = NoBin <=> a = t \/ \E b \in live : a = b.ptr - HDR
  BY NewBlock
<1>3. PICK n : n = Block(t, size)
  OBVIOUS
<1>4. n.ptr - HDR = t /\ n.size = size /\ n \in [ptr : Nat, size : Nat] /\ n # old
  BY <1>2, <1>3 DEF Block
<1>5. /\ \A b, c \in live : b.ptr - HDR = c.ptr - HDR => b = c
      /\ live \subseteq [ptr : Nat, size : Nat]
      /\ old.ptr - HDR \in Tags
  BY BlockFacts
<1>6. live' = (live \ {old}) \cup {n}
  BY <1>3, <1>4
<1>7. BlocksHaveRoom'
  <2>1. ASSUME NEW b \in live'
        PROVE  /\ b.ptr - HDR \in Tags' /\ tag'[b.ptr - HDR].size = b.size
               /\ HDR + b.size <= tag'[b.ptr - HDR].real_size
    <3>1. CASE b = n
      BY <1>1, <1>4, <3>1
    <3>2. CASE b \in live
      BY <1>2, <3>2
    <3> QED
      BY <1>6, <3>1, <3>2
  <2> QED
    BY <2>1 DEF BlocksHaveRoom
<1>8. freeing' \in Tags' /\ freeing' # Null /\ \A b \in live' : b.ptr - HDR # freeing'
  <2>1. old.ptr - HDR # Null
    BY <1>5, TagFacts
  <2>2. old.ptr - HDR \in Tags'
    BY <1>2
  <2>3. \A b \in live' : b.ptr - HDR # old.ptr - HDR
    BY <1>2, <1>4, <1>5, <1>6
  <2> QED
    BY <2>1, <2>2, <2>3
<1>9. Owned'
  <2>1. \A a \in Tags' : tag'[a].index = NoBin <=> a \in InUse'
    <3>1. InUse' = {b.ptr - HDR : b \in live'} \cup {old.ptr - HDR}
      BY <1>8 DEF InUse
    <3>2. \A a : a \in InUse' <=> a = t \/ \E b \in live : a = b.ptr - HDR
      BY <1>4, <1>6, <3>1
    <3> QED
      BY <1>2, <3>2
  <2>2. live' \subseteq [ptr : Nat, size : Nat]
    BY <1>4, <1>5, <1>6
  <2> QED
    BY <1>7, <1>8, <2>1, <2>2 DEF Owned
<1>10. Working' /\ Limits'
  BY <1>1 DEF HeapInv, Working, Limits
<1> QED
  BY <1>1, <1>9, <1>10 DEF HeapInv

\* free(): the block is no longer held, and its tag is the one worked on.
LEMMA FreeInv ==
  ASSUME HeapInv, NEW old \in live, free(old)
  PROVE  HeapInv'
<1>1. /\ freeing = Null /\ freeing' = old.ptr - HDR /\ melting' = TRUE /\ live' = live \ {old}
      /\ UNCHANGED <<tag, freePages, completePages, heaptop, pagesLeft, arena, wild>>
  BY DEF free, Idle
<1>2. /\ \A b, c \in live : b.ptr - HDR = c.ptr - HDR => b = c
      /\ old.ptr - HDR \in Tags
  BY BlockFacts
<1>3. freeing' # Null
  BY <1>1, <1>2, TagFacts
<1>4. Sound(Heap, arena)' /\ Counted' /\ Tags' = Tags
  BY <1>1 DEF HeapInv, Heap, Counted, Standing, Whole, Tags
<1>5. Owned'
  <2>1. \A a : a \in InUse' <=> a \in InUse
    BY <1>1, <1>3 DEF InUse
  <2>2. \A b \in live' : b.ptr - HDR # freeing'
    BY <1>1, <1>2
  <2>3. BlocksHaveRoom'
    BY <1>1, <1>4 DEF HeapInv, Owned, BlocksHaveRoom
  <2> QED
    BY <1>1, <1>2, <1>4, <2>1, <2>2, <2>3 DEF HeapInv, Owned
<1>6. Working' /\ Limits'
  BY <1>1 DEF HeapInv, Working, Limits
<1> QED
  BY <1>4, <1>5, <1>6 DEF HeapInv

LEMMA FreeingFacts ==
  ASSUME HeapInv, freeing # Null
  PROVE  /\ freeing \in Tags /\ tag[freeing].index = NoBin
         /\ \A b \in live : b.ptr - HDR # freeing
         /\ \A a \in Tags : tag[a].index = NoBin <=> a = freeing \/ \E b \in live : a = b.ptr - HDR
         /\ Sound(Heap, arena) /\ Disjoint(arena) /\ Limits /\ Counted
         /\ \A t : IsFree(t) <=> t # Null /\ tag[t].index >= 0
         /\ \A a \in Tags : IsFree(a) <=> tag[a].index # NoBin
<1>1. freeing \in Tags /\ \A b \in live : b.ptr - HDR # freeing
  BY DEF HeapInv, Owned
<1>2. \A a \in Tags : tag[a].index = NoBin <=> a = freeing \/ \E b \in live : a = b.ptr - HDR
  BY DEF HeapInv, Owned, InUse
<1>3. Sound(Heap, arena) /\ Disjoint(arena) /\ Limits /\ Counted
  BY DEF HeapInv, Limits
<1>4. \A t : IsFree(t) <=> t # Null /\ tag[t].index >= 0
  BY DEF IsFree
<1>5. \A a \in Tags : IsFree(a) <=> tag[a].index # NoBin
  BY <1>4, TagFacts DEF NoBin, Null
<1> QED
  BY <1>1, <1>2, <1>3, <1>4, <1>5

\* MELT LEFT keeps the invariant.
LEMMA MeltInv ==
  ASSUME HeapInv, FreeMelt
  PROVE  HeapInv'
<1> DEFINE left == tag[freeing].split_left
<1>0. /\ Tags \subseteq Nat \ {Null} /\ Heap.tag = tag /\ Heap.free = freePages
      /\ \A a \in Tags : /\ tag[a].split_left \in Tags \cup {Null}
                         /\ tag[a].split_right \in Tags \cup {Null}
      /\ \A a \in Tags :
           tag[a].split_left # Null => tag[tag[a].split_left].split_right = a
      /\ NoBin \notin Bins
  BY TagFacts
<1>1. /\ freeing # Null /\ melting
      /\ UNCHANGED <<completePages, heaptop, pagesLeft, live, arena, wild>>
  BY DEF FreeMelt
<1>2. /\ freeing \in Tags /\ tag[freeing].index = NoBin
      /\ \A b \in live : b.ptr - HDR # freeing
      /\ \A a \in Tags : tag[a].index = NoBin <=> a = freeing \/ \E b \in live : a = b.ptr - HDR
      /\ Sound(Heap, arena) /\ Disjoint(arena) /\ Limits /\ Counted
      /\ \A a \in Tags : IsFree(a) <=> tag[a].index # NoBin
  BY <1>1, FreeingFacts
<1>3. CASE IsFree(left)
  <2> DEFINE g == remove_tag(melt_left(Heap, freeing), left)
  <2>1. tag' = g.tag /\ freePages' = g.free /\ freeing' = left /\ melting' = melting
    BY <1>3 DEF FreeMelt, SetHeap
  <2>2. left \in Tags /\ tag[left].index # NoBin /\ left # Null /\ tag[left].split_right = freeing
    BY <1>0, <1>2, <1>3 DEF IsFree
  <2>3. /\ Sound(g, arena) /\ DOMAIN g.tag = Tags \ {freeing} /\ left \in Tags \ {freeing}
        /\ \A a \in Tags \ {freeing} :
             /\ g.tag[a].index = IF a = left THEN NoBin ELSE tag[a].index
             /\ g.tag[a].size = tag[a].size
             /\ a # left => g.tag[a].real_size = tag[a].real_size
             /\ (g.tag[a].split_left = Null) <=> (tag[a].split_left = Null)
             /\ a # left => g.tag[a].split_right = tag[a].split_right
    <3>1. PICK h : h = Heap
      OBVIOUS
    <3>2. h.tag = tag /\ DOMAIN h.tag = Tags
      BY <1>0, <3>1 DEF Tags
    <3>3. /\ Sound(h, arena) /\ freeing \in DOMAIN h.tag /\ h.tag[freeing].index = NoBin
          /\ left \in DOMAIN h.tag /\ left = h.tag[freeing].split_left
          /\ h.tag[left].index # NoBin
      BY <1>2, <2>2, <3>1, <3>2
    <3>4. g = remove_tag(melt_left(h, freeing), left)
      BY <3>1
    <3> HIDE DEF g, left
    <3> QED
      BY <1>2, <3>2, <3>3, <3>4, Melted
  <2> HIDE DEF g, left
  <2>4. Sound(Heap', arena')
    <3>1. Heap'.tag = g.tag /\ Heap'.free = g.free
      BY <2>1 DEF Heap
    <3> QED
      BY <1>1, <2>3, <3>1, HeapSame
  <2>5. /\ Tags' = Tags \ {freeing}
        /\ \A a \in Tags' :
             /\ tag'[a].index = IF a = left THEN NoBin ELSE tag[a].index
             /\ tag'[a].size = tag[a].size
             /\ a # left => tag'[a].real_size = tag[a].real_size
             /\ (tag'[a].split_left = Null) <=> (tag[a].split_left = Null)
             /\ a # left => tag'[a].split_right = tag[a].split_right
    BY <2>1, <2>3 DEF Tags
  <2>6. \A b \in live : /\ b.ptr - HDR \in Tags' /\ b.ptr - HDR # left
                        /\ tag[b.ptr - HDR].index = NoBin
    BY <1>2, <2>2, <2>5, BlockFacts
  <2>7. Owned'
    <3>1. InUse' = {b.ptr - HDR : b \in live} \cup {left}
      BY <1>1, <2>1, <2>2 DEF InUse
    <3>2. \A a \in Tags' : tag'[a].index = NoBin <=> a \in InUse'
      BY <1>2, <2>5, <3>1
    <3>3. BlocksHaveRoom'
      BY <1>1, <2>5, <2>6 DEF HeapInv, Owned, BlocksHaveRoom
    <3>4. freeing' \in Tags' /\ \A b \in live' : b.ptr - HDR # freeing'
      BY <1>1, <2>1, <2>3, <2>5, <2>6
    <3> QED
      BY <1>1, <3>2, <3>3, <3>4 DEF HeapInv, Owned
  <2>8. Counted'
    <3>1. \A b \in Bins : Standing(b)' = Standing(b)
      <4> SUFFICES ASSUME NEW b \in Bins, NEW a
                   PROVE  a \in Standing(b)' <=> a \in Standing(b)
        BY DEF Standing
      <4>1. a \in Standing(b)' <=> /\ a \in Tags' /\ tag'[a].index = b
                                   /\ tag'[a].split_left = Null /\ tag'[a].split_right = Null
        BY DEF Standing, Whole
      <4>2. a \in Standing(b) <=> /\ a \in Tags /\ tag[a].index = b
                                  /\ tag[a].split_left = Null /\ tag[a].split_right = Null
        BY DEF Standing, Whole
      <4>3. CASE a = left
        <5>1. tag'[a].index = NoBin /\ tag[a].split_right # Null
          BY <1>1, <2>2, <2>3, <2>5, <4>3
        <5> QED
          BY <1>0, <4>1, <4>2, <5>1
      <4>4. CASE a = freeing
        BY <1>0, <1>2, <2>5, <4>1, <4>2, <4>4
      <4>5. CASE a # left /\ a # freeing
        BY <2>5, <4>1, <4>2, <4>5
      <4> QED
        BY <4>3, <4>4, <4>5
    <3> QED
      BY <1>1, <1>2, <3>1, CountSame
  <2>9. Working' /\ Limits'
    BY <1>1, <1>2, <2>1 DEF Working, Limits
  <2> QED
    BY <2>4, <2>7, <2>8, <2>9 DEF HeapInv
<1>4. CASE ~ IsFree(left)
  <2>1. melting' = FALSE /\ UNCHANGED <<tag, freePages, freeing>>
    BY <1>4 DEF FreeMelt
  <2>2. left # Null => tag[left].index = NoBin
    BY <1>0, <1>2, <1>4
  <2>3. Sound(Heap, arena)' /\ Counted'
    BY <1>1, <1>2, <2>1 DEF Heap, Counted, Standing, Whole, Tags
  <2>4. Owned'
    BY <1>1, <2>1 DEF HeapInv, Owned, InUse, BlocksHaveRoom, Tags
  <2>5. Working'
    BY <2>1, <2>2 DEF Working
  <2>6. Limits'
    BY <1>1, <1>2, <2>1 DEF Limits
  <2> QED
    BY <2>3, <2>4, <2>5, <2>6 DEF HeapInv
<1> QED
  BY <1>3, <1>4

\* MELT RIGHT keeps the invariant.
LEMMA AbsorbInv ==
  ASSUME HeapInv, FreeAbsorb
  PROVE  HeapInv'
<1> DEFINE right == tag[freeing].split_right
           g == absorb_right(Heap, freeing)
<1>0. /\ Tags \subseteq Nat \ {Null} /\ Heap.tag = tag /\ Heap.free = freePages
      /\ \A a \in Tags : /\ tag[a].split_left \in Tags \cup {Null}
                         /\ tag[a].split_right \in Tags \cup {Null}
      /\ \A a \in Tags :
           tag[a].split_right # Null => tag[tag[a].split_right].split_left = a
      /\ NoBin \notin Bins
  BY TagFacts
<1>1. /\ freeing # Null /\ ~ melting /\ IsFree(right)
      /\ tag' = g.tag /\ freePages' = g.free
      /\ UNCHANGED <<completePages, heaptop, pagesLeft, freeing, melting, live, arena, wild>>
  BY DEF FreeAbsorb, SetHeap
<1>2. /\ freeing \in Tags /\ tag[freeing].index = NoBin
      /\ \A b \in live : b.ptr - HDR # freeing
      /\ \A a \in Tags : tag[a].index = NoBin <=> a = freeing \/ \E b \in live : a = b.ptr - HDR
      /\ Sound(Heap, arena) /\ Disjoint(arena) /\ Limits /\ Counted
      /\ \A a \in Tags : IsFree(a) <=> tag[a].index # NoBin
  BY <1>1, FreeingFacts
<1>3. right \in Tags /\ tag[right].index # NoBin /\ right # Null /\ tag[right].split_left = freeing
  BY <1>0, <1>1, <1>2 DEF IsFree
<1>4. /\ Sound(g, arena) /\ DOMAIN g.tag = Tags \ {right} /\ freeing \in Tags \ {right}
      /\ \A a \in Tags \ {right} :
           /\ g.tag[a].index = tag[a].index /\ g.tag[a].size = tag[a].size
           /\ a # freeing => g.tag[a].real_size = tag[a].real_size
           /\ (g.tag[a].split_left = Null) <=> (tag[a].split_left = Null)
           /\ a # freeing => g.tag[a].split_right = tag[a].split_right
      /\ g.tag[freeing].split_left \in {tag[freeing].split_left, freeing}
  <2>1. PICK h : h = Heap
    OBVIOUS
  <2>2. h.tag = tag /\ DOMAIN h.tag = Tags
    BY <1>0, <2>1 DEF Tags
  <2>3. /\ Sound(h, arena) /\ freeing \in DOMAIN h.tag /\ h.tag[freeing].index = NoBin
        /\ right \in DOMAIN h.tag /\ right = h.tag[freeing].split_right
        /\ h.tag[right].index # NoBin
    BY <1>2, <1>3, <2>1, <2>2
  <2>4. g = absorb_right(h, freeing)
    BY <2>1
  <2> HIDE DEF g, right
  <2> QED
    BY <1>2, <2>2, <2>3, <2>4, Absorbed
<1> HIDE DEF g, right
<1>5. Sound(Heap', arena')
  <2>1. Heap'.tag = g.tag /\ Heap'.free = g.free
    BY <1>1 DEF Heap
  <2> QED
    BY <1>1, <1>4, <2>1, HeapSame
<1>6. /\ Tags' = Tags \ {right}
      /\ \A a \in Tags' :
           /\ tag'[a].index = tag[a].index /\ tag'[a].size = tag[a].size
           /\ a # freeing => tag'[a].real_size = tag[a].real_size
           /\ (tag'[a].split_left = Null) <=> (tag[a].split_left = Null)
           /\ a # freeing => tag'[a].split_right = tag[a].split_right
      /\ tag'[freeing].split_left \in {tag[freeing].split_left, freeing}
  BY <1>1, <1>4 DEF Tags
<1>7. \A b \in live : b.ptr - HDR \in Tags' /\ b.ptr - HDR # freeing
  BY <1>2, <1>3, <1>6, BlockFacts
<1>8. Owned'
  <2>1. InUse' = {b.ptr - HDR : b \in live} \cup {freeing}
    BY <1>1 DEF InUse
  <2>2. \A a \in Tags' : tag'[a].index = NoBin <=> a \in InUse'
    BY <1>2, <1>6, <2>1
  <2>3. BlocksHaveRoom'
    BY <1>1, <1>6, <1>7 DEF HeapInv, Owned, BlocksHaveRoom
  <2>4. freeing' \in Tags' /\ \A b \in live' : b.ptr - HDR # freeing'
    BY <1>1, <1>4, <1>6, <1>7
  <2> QED
    BY <1>1, <2>2, <2>3, <2>4 DEF HeapInv, Owned
<1>9. Counted'
  <2>1. \A b \in Bins : Standing(b)' = Standing(b)
    BY <1>0, <1>1, <1>2, <1>3, <1>4, <1>6 DEF Standing, Whole
  <2> QED
    BY <1>1, <1>2, <2>1, CountSame
<1>10. Working'
  <2>1. SUFFICES ASSUME tag'[freeing].split_left # Null
                 PROVE  tag'[tag'[freeing].split_left].index = NoBin
    BY <1>1 DEF Working
  <2>2. tag'[freeing].split_left \in Tags'
    <3>1. freeing \in DOMAIN Heap'.tag /\ DOMAIN Heap'.tag = Tags' /\ Heap'.tag = tag'
      BY <1>4, <1>6 DEF Heap, Tags
    <3>2. Heap'.tag[freeing] \in Fields(DOMAIN Heap'.tag)
      BY <1>5, <3>1 DEF Sound, Lists, Formed
    <3> QED
      BY <2>1, <3>1, <3>2 DEF Fields
  <2>3. CASE tag'[freeing].split_left = freeing
    BY <1>2, <1>6, <2>2, <2>3
  <2>4. CASE tag'[freeing].split_left = tag[freeing].split_left
    <3>1. tag[tag[freeing].split_left].index = NoBin
      BY <1>1, <2>1, <2>4 DEF HeapInv, Working
    <3> QED
      BY <1>6, <2>2, <2>4, <3>1
  <2> QED
    BY <1>6, <2>3, <2>4
<1>11. Limits'
  BY <1>1, <1>2 DEF Limits
<1> QED
  BY <1>5, <1>8, <1>9, <1>10, <1>11 DEF HeapInv

\* The end of free() keeps the invariant, whether the piece is kept ...
LEMMA KeepInv ==
  ASSUME HeapInv, FreeKeep
  PROVE  HeapInv'
<1> DEFINE bin == BinOf(tag[freeing].real_size - HDR)
           g == insert_tag(Heap, freeing, bin)
           left == tag[freeing].split_left
           right == tag[freeing].split_right
<1>0. /\ Tags \subseteq Nat \ {Null} /\ IsFiniteSet(Tags)
      /\ Heap.tag = tag /\ Heap.free = freePages
      /\ \A a \in Tags : /\ tag[a].split_left \in Tags \cup {Null}
                         /\ tag[a].split_right \in Tags \cup {Null}
                         /\ tag[a].real_size \in Nat /\ tag[a].real_size >= HDR
      /\ \A a \in Tags :
           tag[a].split_right # Null => tag[tag[a].split_right].split_left = a
      /\ NoBin \notin Bins /\ HDR \in Nat \ {0}
  BY TagFacts
<1>1. /\ freeing # Null /\ ~ melting /\ ~ IsFree(right) /\ freeing' = Null
      /\ UNCHANGED <<melting, heaptop, pagesLeft, live, wild, arena>>
      /\ ~ (Whole(freeing) /\ completePages[bin] = MAXCOMPLETE)
      /\ completePages' = IF Whole(freeing) THEN [completePages EXCEPT ![bin] = @ + 1]
                          ELSE completePages
      /\ tag' = g.tag /\ freePages' = g.free
  BY DEF FreeKeep, FreeDone, SetHeap
<1>2. /\ freeing \in Tags /\ tag[freeing].index = NoBin
      /\ \A b \in live : b.ptr - HDR # freeing
      /\ \A a \in Tags : tag[a].index = NoBin <=> a = freeing \/ \E b \in live : a = b.ptr - HDR
      /\ Sound(Heap, arena) /\ Disjoint(arena) /\ Limits /\ Counted
      /\ \A a \in Tags : IsFree(a) <=> tag[a].index # NoBin
  BY <1>1, FreeingFacts
<1>3. bin \in Bins /\ bin # NoBin
  BY <1>0, BinInBins
<1>4. /\ Lists(g) /\ Pieces(g, arena) /\ SameShape(Heap, g)
      /\ \A a \in DOMAIN Heap.tag : g.tag[a].index = IF a = freeing THEN bin ELSE Heap.tag[a].index
  <2>1. PICK h : h = Heap
    OBVIOUS
  <2>2. /\ Lists(h) /\ Pieces(h, arena) /\ freeing \in DOMAIN h.tag /\ h.tag[freeing].index = NoBin
    BY <1>0, <1>2, <2>1 DEF Sound, Tags
  <2>3. g = insert_tag(h, freeing, bin)
    BY <2>1
  <2> HIDE DEF g, bin
  <2> QED
    BY <1>3, <2>1, <2>2, <2>3, Enlisted
<1> HIDE DEF g
<1>5. /\ DOMAIN g.tag = Tags
      /\ \A a \in Tags :
           /\ g.tag[a].index = IF a = freeing THEN bin ELSE tag[a].index
           /\ g.tag[a].size = tag[a].size /\ g.tag[a].real_size = tag[a].real_size
           /\ g.tag[a].split_left = tag[a].split_left
           /\ g.tag[a].split_right = tag[a].split_right
  BY <1>0, <1>4 DEF SameShape, Tags
<1>6. /\ \A a \in Tags : tag[a].index # NoBin => tag[a].index = BinOf(tag[a].real_size - HDR)
      /\ \A a \in Tags : tag[a].index # NoBin /\ tag[a].split_right # Null =>
           tag[tag[a].split_right].index = NoBin
  BY <1>0, <1>2 DEF Sound, Classed, NoPairs, Tags
<1>7. left # Null => tag[left].index = NoBin
  BY <1>1 DEF HeapInv, Working
<1>8. right # Null => tag[right].index = NoBin /\ right \in Tags /\ right # freeing
  <2>1. SUFFICES ASSUME right # Null
                 PROVE  tag[right].index = NoBin /\ right \in Tags /\ right # freeing
    OBVIOUS
  <2>2. right \in Tags /\ tag[right].index = NoBin
    BY <1>0, <1>1, <1>2, <2>1
  <2>3. right = freeing + tag[freeing].real_size
    BY <1>0, <1>2, <2>1 DEF Sound, Pieces, Joined, Tags
  <2>4. PICK x \in Nat, n \in Nat : x = freeing /\ n = tag[freeing].real_size
    BY <1>0, <1>2
  <2>5. n > 0
    BY <1>0, <1>2, <2>4
  <2> QED
    BY <2>2, <2>3, <2>4, <2>5
<1>9. Sound(g, arena)
  <2>1. Classed(g)
    <3>1. \A a \in Tags : g.tag[a].index # NoBin => g.tag[a].index = BinOf(g.tag[a].real_size - HDR)
      BY <1>5, <1>6
    <3> QED
      BY <1>5, <3>1 DEF Classed
  <2>2. NoPairs(g)
    <3>1. ASSUME NEW a \in Tags, g.tag[a].index # NoBin, g.tag[a].split_right # Null
          PROVE  g.tag[g.tag[a].split_right].index = NoBin
      <4>1. CASE a = freeing
        BY <1>5, <1>8, <3>1, <4>1
      <4>2. CASE a # freeing
        <5>1. /\ tag[a].index # NoBin /\ g.tag[a].split_right = tag[a].split_right
              /\ tag[a].split_right \in Tags /\ tag[tag[a].split_right].index = NoBin
          BY <1>0, <1>5, <1>6, <3>1, <4>2
        <5>2. tag[a].split_right # freeing
          <6>1. tag[a].split_right = freeing => left = a
            BY <1>0, <5>1
          <6> QED
            BY <1>0, <1>7, <5>1, <6>1
        <5> QED
          BY <1>5, <5>1, <5>2
      <4> QED
        BY <4>1, <4>2
    <3> QED
      BY <1>5, <3>1 DEF NoPairs
  <2> QED
    BY <1>4, <2>1, <2>2 DEF Sound
<1>10. Sound(Heap', arena')
  <2>1. Heap'.tag = g.tag /\ Heap'.free = g.free
    BY <1>1 DEF Heap
  <2> QED
    BY <1>1, <1>9, <2>1, HeapSame
<1>11. /\ Tags' = Tags
       /\ \A a \in Tags :
            /\ tag'[a].index = IF a = freeing THEN bin ELSE tag[a].index
            /\ tag'[a].size = tag[a].size /\ tag'[a].real_size = tag[a].real_size
            /\ tag'[a].split_left = tag[a].split_left
            /\ tag'[a].split_right = tag[a].split_right
  BY <1>1, <1>5 DEF Tags
<1> HIDE DEF bin
<1>12. Owned'
  <2>1. InUse' = {b.ptr - HDR : b \in live}
    BY <1>1 DEF InUse
  <2>2. \A a \in Tags' : tag'[a].index = NoBin <=> a \in InUse'
    BY <1>2, <1>3, <1>11, <2>1
  <2>3. BlocksHaveRoom'
    BY <1>1, <1>11 DEF HeapInv, Owned, BlocksHaveRoom
  <2> QED
    BY <1>1, <2>2, <2>3 DEF HeapInv, Owned
<1>13. Counted'
  <2>1. \A b \in Bins : Standing(b)' = IF b = bin /\ Whole(freeing)
                                       THEN Standing(b) \cup {freeing} ELSE Standing(b)
    BY <1>2, <1>3, <1>0, <1>11 DEF Standing, Whole
  <2>2. CASE ~ Whole(freeing)
    <3>1. \A b \in Bins : Standing(b)' = Standing(b)
      BY <2>1, <2>2
    <3> QED
      BY <1>1, <1>2, <2>2, <3>1, CountSame
  <2>3. CASE Whole(freeing)
    <3>1. freeing \notin Standing(bin) /\ IsFiniteSet(Standing(bin))
      <4>1. freeing \notin Standing(bin)
        BY <1>2, <1>3 DEF Standing
      <4>2. Standing(bin) \subseteq Tags
        BY DEF Standing
      <4> QED
        BY <1>0, <4>1, <4>2, FS_Subset
    <3>2. /\ Cardinality(Standing(bin) \cup {freeing}) = Cardinality(Standing(bin)) + 1
      BY <3>1, FS_AddElement
    <3>3. /\ completePages \in [Bins -> Nat] /\ completePages[bin] = Cardinality(Standing(bin))
          /\ \A b \in Bins : completePages[b] <= MAXCOMPLETE
                             /\ completePages[b] = Cardinality(Standing(b))
      BY <1>2, <1>3 DEF Counted
    <3>4. completePages[bin] + 1 \in Nat /\ completePages[bin] + 1 <= MAXCOMPLETE
      <4>1. completePages[bin] # MAXCOMPLETE /\ completePages[bin] <= MAXCOMPLETE
            /\ completePages[bin] \in Nat
        BY <1>1, <1>3, <2>3, <3>3
      <4> QED
        BY <4>1, HeapAssumption
    <3>5. /\ completePages' \in [Bins -> Nat] /\ completePages'[bin] = completePages[bin] + 1
          /\ \A b \in Bins : b # bin => completePages'[b] = completePages[b]
      BY <1>1, <1>3, <2>3, <3>3, <3>4
    <3> HIDE DEF Standing
    <3>6. \A b \in Bins : completePages'[b] <= MAXCOMPLETE
                          /\ completePages'[b] = Cardinality(Standing(b)')
      BY <2>1, <2>3, <3>2, <3>3, <3>4, <3>5
    <3> QED
      BY <3>5, <3>6 DEF Counted
  <2> QED
    BY <2>2, <2>3
<1>14. Working' /\ Limits'
  BY <1>1, <1>2 DEF Working, Limits
<1> QED
  BY <1>10, <1>12, <1>13, <1>14 DEF HeapInv

\* ... or its region is given up.
LEMMA ReleaseInv ==
  ASSUME HeapInv, FreeRelease
  PROVE  HeapInv'
<1> DEFINE one == [base |-> freeing, size |-> tag[freeing].real_size]
           g == WithoutRegion(Heap, freeing)
<1>0. Tags \subseteq Nat \ {Null} /\ Heap.tag = tag /\ Heap.free = freePages /\ NoBin \notin Bins
  BY TagFacts
<1>1. /\ freeing # Null /\ ~ melting /\ freeing' = Null
      /\ UNCHANGED <<melting, heaptop, pagesLeft, live, wild, freePages, completePages>>
      /\ Whole(freeing) /\ tag' = [a \in Tags \ {freeing} |-> tag[a]] /\ arena' = arena \ {one}
  BY DEF FreeRelease, FreeDone, Tags
<1>2. /\ freeing \in Tags /\ tag[freeing].index = NoBin
      /\ \A b \in live : b.ptr - HDR # freeing
      /\ \A a \in Tags : tag[a].index = NoBin <=> a = freeing \/ \E b \in live : a = b.ptr - HDR
      /\ Sound(Heap, arena) /\ Disjoint(arena) /\ Limits /\ Counted
  BY <1>1, FreeingFacts
<1>3. Sound(g, arena') /\ Disjoint(arena')
  <2>1. PICK h : h = Heap
    OBVIOUS
  <2>2. /\ Sound(h, arena) /\ freeing \in DOMAIN h.tag /\ h.tag[freeing].index = NoBin
        /\ h.tag[freeing].split_left = Null /\ h.tag[freeing].split_right = Null
        /\ one = [base |-> freeing, size |-> h.tag[freeing].real_size]
        /\ g = WithoutRegion(h, freeing)
    BY <1>0, <1>1, <1>2, <2>1 DEF Whole, Tags
  <2> HIDE DEF g, one
  <2> QED
    BY <1>1, <1>2, <2>2, RegionDropped
<1>4. Sound(Heap', arena')
  <2>1. Heap'.tag = g.tag /\ Heap'.free = g.free
    BY <1>0, <1>1 DEF Heap, WithoutRegion, Tags
  <2> HIDE DEF g
  <2> QED
    BY <1>3, <2>1, HeapSame
<1>5. Tags' = Tags \ {freeing} /\ \A a \in Tags' : tag'[a] = tag[a]
  BY <1>1 DEF Tags
<1>6. Owned'
  <2>1. InUse' = {b.ptr - HDR : b \in live}
    BY <1>1 DEF InUse
  <2>2. \A a \in Tags' : tag'[a].index = NoBin <=> a \in InUse'
    BY <1>2, <1>5, <2>1
  <2>3. BlocksHaveRoom'
    BY <1>1, <1>2, <1>5 DEF HeapInv, Owned, BlocksHaveRoom
  <2> QED
    BY <1>1, <2>2, <2>3 DEF HeapInv, Owned
<1>7. Counted'
  <2>1. \A b \in Bins : Standing(b)' = Standing(b)
    BY <1>0, <1>2, <1>5 DEF Standing, Whole
  <2> QED
    BY <1>1, <1>2, <2>1, CountSame
<1>8. Working' /\ Limits'
  BY <1>1, <1>2, <1>3 DEF Working, Limits
<1> QED
  BY <1>4, <1>6, <1>7, <1>8 DEF HeapInv

LEMMA StepInv == HeapInv /\ [Next]_vars => HeapInv'
<1> SUFFICES ASSUME HeapInv, [Next]_vars
             PROVE  HeapInv'
  OBVIOUS
<1>0. Requests \subseteq Nat
  BY HeapAssumption
<1>1. ASSUME NEW size \in Requests, malloc(size)
      PROVE  HeapInv'
  BY <1>0, <1>1, AllocatedInv, NoPagesInv DEF malloc, Idle
<1>2. ASSUME NEW size \in Requests, calloc(size)
      PROVE  HeapInv'
  <2>1. CASE Allocated(size)
    BY <1>0, <1>2, <2>1, AllocatedInv DEF calloc, Idle
  <2>2. CASE NoPages(size) /\ wild' = TRUE
    BY <2>2, NoPagesInv
  <2> QED
    BY <1>2, <2>1, <2>2 DEF calloc
<1>3. ASSUME NEW b \in live, free(b)
      PROVE  HeapInv'
  BY <1>3, FreeInv
<1>4. ASSUME NEW b \in live, NEW size \in Requests, realloc(b, size)
      PROVE  HeapInv'
  <2>1. CASE NoPages(size) /\ wild' = TRUE
    BY <2>1, NoPagesInv
  <2>2. ASSUME NEW t \in {Found(size), heaptop}, Obtain(size, t),
               live' = (live \cup {Block(t, size)}) \ {b},
               freeing' = b.ptr - HDR, melting' = TRUE
        PROVE  HeapInv'
    <3>1. freeing = Null
      BY <1>4 DEF realloc, Idle
    <3>2. PICK u : u = t
      OBVIOUS
    <3>3. Obtain(size, u) /\ live' = (live \cup {Block(u, size)}) \ {b}
      BY <2>2, <3>2
    <3> QED
      BY <1>0, <2>2, <3>1, <3>3, ReallocInv
  <2> QED
    BY <1>4, <2>1, <2>2 DEF realloc
<1>5. CASE FreeMelt \/ FreeAbsorb \/ FreeKeep \/ FreeRelease
  BY <1>5, MeltInv, AbsorbInv, KeepInv, ReleaseInv
<1>6. CASE UNCHANGED vars
  <2>1. UNCHANGED <<tag, freePages, completePages, heaptop, pagesLeft, arena,
                    freeing, melting, live, wild>>
    BY <1>6 DEF vars
  <2>2. Sound(Heap, arena)' /\ Counted'
    BY <2>1 DEF HeapInv, Heap, Counted, Standing, Whole, Tags
  <2>3. Owned' /\ Working' /\ Limits'
    BY <2>1 DEF HeapInv, Owned, InUse, BlocksHaveRoom, Tags, Working, Limits
  <2> QED
    BY <2>2, <2>3 DEF HeapInv
<1> QED
  BY <1>1, <1>2, <1>3, <1>4, <1>5, <1>6 DEF Next

\* The invariant holds of every state the heap reaches.
THEOREM HeapKept == Spec => []HeapInv
<1>1. Init => HeapInv
  BY InitInv
<1>2. HeapInv /\ [Next]_vars => HeapInv'
  BY StepInv
<1> QED
  BY <1>1, <1>2, PTL DEF Spec

\* No order of malloc(), calloc(), realloc() and free(), and no state of the
\* loops of free(), confuses the boundary tags: they tile the regions, their
\* links lead to tags, and every block has its tag and its room.
THEOREM TagsAlwaysSound == Spec => []TagsSound
<1>1. HeapInv => TagsSound
  <2> SUFFICES ASSUME HeapInv
               PROVE  TagsSound
    OBVIOUS
  <2>1. /\ Lists(Heap) /\ Pieces(Heap, arena) /\ Owned /\ Limits /\ Counted
    BY DEF HeapInv, Sound
  <2>2. /\ Tags \subseteq Nat \ {Null} /\ \A t \in Tags : tag[t] \in TagType
    BY TagFacts DEF Fields, TagType
  <2>3. freePages \in [Bins -> Tags \cup {Null}]
    BY <2>1, TagFacts DEF Lists, Formed, Tags
  <2>4. live \subseteq [ptr : Nat, size : Nat] /\ freeing \in Tags \cup {Null} /\ BlocksHaveRoom
    BY <2>1 DEF Owned
  <2>5. /\ arena \subseteq [base : Nat, size : Nat] /\ heaptop \in Nat /\ pagesLeft \in 0..Pages
        /\ melting \in BOOLEAN /\ wild \in BOOLEAN /\ completePages \in [Bins -> Nat]
    BY <2>1 DEF Limits, Disjoint, Counted
  <2>6. TypeOK
    BY <2>2, <2>3, <2>4, <2>5 DEF TypeOK
  <2>7. PiecesTile
    <3>1. /\ \A t \in Tags : \E r \in arena : Within(Heap, t, r)
          /\ \A r \in arena : r.base \in Tags
      BY <2>1 DEF Pieces, Placed, Heap, Tags
    <3>2. \A t \in Tags :
            /\ tag[t].real_size >= HDR
            /\ tag[t].split_left # Null => tag[tag[t].split_left].split_right = t
            /\ tag[t].split_right # Null => /\ tag[tag[t].split_right].split_left = t
                                            /\ tag[t].split_right = t + tag[t].real_size
      BY <2>1 DEF Pieces, Joined, Heap, Tags
    <3>3. ASSUME NEW t \in Tags, tag[t].split_left # Null
          PROVE  /\ tag[tag[t].split_left].split_right = t
                 /\ tag[t].split_left + tag[tag[t].split_left].real_size = t
      BY <3>2, <3>3, TagFacts
    <3>4. \A t \in Tags :
            /\ tag[t].split_left = Null => \E r \in arena : r.base = t
            /\ tag[t].split_right = Null =>
                 \E r \in arena : r.base + r.size = t + tag[t].real_size
      BY <3>1 DEF Within, Heap
    <3> QED
      BY <3>1, <3>2, <3>3, <3>4 DEF PiecesTile
  <2> QED
    BY <2>4, <2>6, <2>7 DEF TagsSound
<1> QED
  BY <1>1, HeapKept, PTL

\* After a free() no two free pieces lie side by side, whatever was allocated
\* and freed before, and in whatever order.
THEOREM NeverFreeNeighbours == Spec => []NoFreeNeighbours
<1>1. HeapInv => NoFreeNeighbours
  <2> SUFFICES ASSUME HeapInv
               PROVE  NoFreeNeighbours
    OBVIOUS
  <2>1. NoPairs(Heap)
    BY DEF HeapInv, Sound
  <2>2. \A a \in Tags : tag[a].index # NoBin <=> tag[a].index >= 0
    BY TagFacts DEF NoBin
  <2>3. \A a \in Tags : tag[a].index = NoBin => tag[a].index < 0
    BY DEF NoBin
  <2>4. \A a \in Tags : tag[a].split_right # Null => tag[a].split_right \in Tags
    BY TagFacts
  <2>5. \A a \in Tags : tag[a].index # NoBin /\ tag[a].split_right # Null =>
          tag[tag[a].split_right].index = NoBin
    BY <2>1 DEF NoPairs, Heap, Tags
  <2> QED
    BY <2>2, <2>3, <2>4, <2>5 DEF NoFreeNeighbours
<1> QED
  BY <1>1, HeapKept, PTL

\* The lists of free pieces hold every free piece and nothing else, each in the
\* list of its class and reached from its head, and l_completePages counts the
\* whole regions among them.
THEOREM ListsAlwaysSound == Spec => []ListsSound
<1>1. HeapInv => ListsSound
  <2> SUFFICES ASSUME HeapInv
               PROVE  ListsSound
    OBVIOUS
  <2>1. Lists(Heap) /\ Classed(Heap) /\ Owned /\ Counted
    BY DEF HeapInv, Sound
  <2>2. CompleteCounted
    BY <2>1 DEF Counted, CompleteCounted, Standing
  <2>3. /\ \A a \in Tags : /\ tag[a].index \in Bins \cup {NoBin} /\ a \in Nat
                           /\ tag[a].next \in Tags \cup {Null}
        /\ Bins \subseteq Nat /\ HDR \in Nat /\ Null \notin Tags
    BY TagFacts DEF Fields
  <2>10. \A x \in Bins \cup {NoBin} : /\ (x >= 0) <=> (x # NoBin)
                                      /\ (x < 0) <=> (x = NoBin)
    BY <2>3 DEF NoBin
  <2>4. \A a \in Tags : (tag[a].index >= 0) <=> (tag[a].index # NoBin)
    BY <2>3, <2>10
  <2>5. \A a \in Tags : (tag[a].index < 0) <=> (tag[a].index = NoBin)
    BY <2>3, <2>10
  <2>6. \A a \in Tags : tag[a].index = NoBin <=> a \in InUse
    BY <2>1 DEF Owned
  <2>7. ASSUME NEW a \in Tags
        PROVE  a \in InUse <=> ~ (a # freeing /\ \A b \in live : b.ptr # a + HDR)
    <3>1. \A b \in live : (b.ptr - HDR = a) <=> (b.ptr = a + HDR)
      <4>1. \A p, x, d \in Nat : (p - d = x) <=> (p = x + d)
        OBVIOUS
      <4>2. \A b \in live : b.ptr \in Nat
        BY <2>1 DEF Owned
      <4> QED
        BY <2>3, <4>1, <4>2
    <3> QED
      BY <2>3, <3>1 DEF InUse
  <2>8. ASSUME NEW t \in Tags
        PROVE  /\ (tag[t].index >= 0) = (t # freeing /\ \A b \in live : b.ptr # t + HDR)
               /\ IF tag[t].index < 0 THEN tag[t].next = Null /\ tag[t].prev = Null
                  ELSE /\ tag[t].index = BinOf(tag[t].real_size - HDR)
                       /\ \E n \in DOMAIN Nth(tag[t].index) : Nth(tag[t].index)[n] = t
                       /\ tag[t].next # Null => tag[tag[t].next].prev = t
                                              /\ tag[tag[t].next].index = tag[t].index
                       /\ (tag[t].prev = Null) = (freePages[tag[t].index] = t)
    <3>1. (tag[t].index >= 0) = (t # freeing /\ \A b \in live : b.ptr # t + HDR)
      <4>1. (tag[t].index >= 0) <=> (t # freeing /\ \A b \in live : b.ptr # t + HDR)
        BY <2>4, <2>6, <2>7
      <4> QED
        BY <4>1
    <3>2. CASE tag[t].index < 0
      <4>1. tag[t].next = Null /\ tag[t].prev = Null
        BY <2>1, <2>5, <3>2 DEF Lists, Linked, Heap, Tags
      <4> QED
        BY <3>1, <3>2, <4>1
    <3>3. CASE ~ (tag[t].index < 0)
      <4>1. tag[t].index # NoBin
        BY <2>5, <3>3
      <4>2. tag[t].index = BinOf(tag[t].real_size - HDR)
        BY <2>1, <4>1 DEF Classed, Heap, Tags
      <4>3. \E n \in DOMAIN Nth(tag[t].index) : Nth(tag[t].index)[n] = t
        BY <2>1, <4>1, ListReached
      <4>4. /\ tag[t].next # Null => tag[tag[t].next].prev = t
                                     /\ tag[tag[t].next].index = tag[t].index
            /\ (tag[t].prev = Null) <=> (freePages[tag[t].index] = t)
        BY <2>1, <4>1 DEF Lists, Linked, Heap, Tags
      <4>5. (tag[t].prev = Null) = (freePages[tag[t].index] = t)
        BY <4>4
      <4> QED
        BY <3>1, <3>3, <4>2, <4>3, <4>4, <4>5
    <3> QED
      BY <3>2, <3>3
  <2>9. ListsHoldFree
    BY <2>8 DEF ListsHoldFree
  <2> QED
    BY <2>2, <2>9 DEF ListsSound
<1> QED
  BY <1>1, HeapKept, PTL

-----------------------------------------------------------------------------
(* The promise of HeapAbs *)

\* Two blocks of different tags, each within its piece, do not overlap.
LEMMA BlocksApart ==
  ASSUME NEW h, NEW regions, Sound(h, regions), NEW t \in DOMAIN h.tag, NEW u \in DOMAIN h.tag,
         t # u, NEW m \in Nat, NEW n \in Nat,
         HDR + m <= h.tag[t].real_size, HDR + n <= h.tag[u].real_size
  PROVE  Promise!Apart(t + HDR, m, u + HDR, n)
<1>1. /\ t \in Nat /\ u \in Nat /\ HDR \in Nat
      /\ h.tag[t].real_size \in Nat /\ h.tag[u].real_size \in Nat
  BY HeapAssumption DEF Sound, Lists, Formed, Fields
<1>2. /\ t < u => t + h.tag[t].real_size <= u
      /\ u < t => u + h.tag[u].real_size <= t
  BY DEF Sound, Pieces, Ordered
<1>3. PICK r \in Nat, s \in Nat : r = h.tag[t].real_size /\ s = h.tag[u].real_size
  BY <1>1
<1>4. CASE t < u
  <2>1. t + r <= u /\ HDR + m <= r
    BY <1>2, <1>3, <1>4
  <2>2. (t + HDR) + m <= u + HDR
    BY <1>1, <1>3, <2>1
  <2> QED
    BY <2>2 DEF Promise!Apart
<1>5. CASE u < t
  <2>1. u + s <= t /\ HDR + n <= s
    BY <1>2, <1>3, <1>5
  <2>2. (u + HDR) + n <= t + HDR
    BY <1>1, <1>3, <2>1
  <2> QED
    BY <2>2 DEF Promise!Apart
<1> QED
  BY <1>1, <1>4, <1>5

\* A block within its piece lies in a region.
LEMMA BlockInside ==
  ASSUME NEW h, NEW regions, Sound(h, regions), Disjoint(regions), NEW t \in DOMAIN h.tag,
         NEW m \in Nat, HDR + m <= h.tag[t].real_size
  PROVE  \E r \in regions : Promise!Inside([ptr |-> t + HDR, size |-> m], r)
<1>1. PICK r \in regions : r.base <= t /\ t + h.tag[t].real_size <= r.base + r.size
  BY DEF Sound, Pieces, Placed, Within
<1>2. /\ t \in Nat /\ HDR \in Nat /\ h.tag[t].real_size \in Nat
      /\ r.base \in Nat /\ r.size \in Nat
  BY HeapAssumption DEF Sound, Lists, Formed, Fields, Disjoint
<1>3. t + HDR >= r.base
  BY <1>1, <1>2
<1>4. PICK e \in Nat, n \in Nat : e = r.base + r.size /\ n = h.tag[t].real_size
  BY <1>2
<1>5. t + n <= e /\ HDR + m <= n
  BY <1>1, <1>4
<1>6. (t + HDR) + m <= e
  BY <1>2, <1>4, <1>5
<1> QED
  BY <1>3, <1>4, <1>6 DEF Promise!Inside

\* What malloc() returns is apart from every block held, and in the heap.
LEMMA NewBlockKeeps ==
  ASSUME HeapInv, freeing = Null, NEW size \in Nat, NEW t, Obtain(size, t)
  PROVE  /\ Block(t, size) \notin live
         /\ \A c \in live :
              Promise!Apart(Block(t, size).ptr, Block(t, size).size, c.ptr, c.size)
         /\ \E r \in arena' : Promise!Inside(Block(t, size), r)
         /\ arena \subseteq arena'
         /\ \A r \in arena' \ arena : \A q \in arena' :
              q # r => Promise!Apart(r.base, r.size, q.base, q.size)
<1>1. /\ Sound(Heap, arena)' /\ Disjoint(arena)' /\ arena \subseteq arena'
      /\ t \in Tags' /\ HDR + size <= tag'[t].real_size
  BY Obtained
<1>2. /\ Block(t, size).ptr - HDR = t
      /\ \A b \in live : /\ b.ptr - HDR # t /\ b.ptr - HDR \in Tags'
                         /\ HDR + b.size <= tag'[b.ptr - HDR].real_size
  BY NewBlock
<1>3. \A b \in live : b.ptr = (b.ptr - HDR) + HDR /\ b.size \in Nat
  BY BlockFacts
<1>4. PICK h, regions : h = Heap' /\ regions = arena'
  OBVIOUS
<1>5. /\ Sound(h, regions) /\ Disjoint(regions) /\ DOMAIN h.tag = Tags' /\ h.tag = tag'
  BY <1>1, <1>4 DEF Heap, Tags
<1>6. Block(t, size) = [ptr |-> t + HDR, size |-> size]
  BY DEF Block
<1>7. ASSUME NEW c \in live
      PROVE  Promise!Apart(t + HDR, size, c.ptr, c.size)
  <2>1. PICK u : u = c.ptr - HDR
    OBVIOUS
  <2>2. /\ u \in DOMAIN h.tag /\ t # u /\ t \in DOMAIN h.tag /\ c.size \in Nat
        /\ HDR + c.size <= h.tag[u].real_size /\ HDR + size <= h.tag[t].real_size
    BY <1>1, <1>2, <1>3, <1>5, <2>1
  <2>3. Promise!Apart(t + HDR, size, u + HDR, c.size)
    BY <1>5, <2>2, BlocksApart
  <2> QED
    BY <1>3, <2>1, <2>3
<1>8. \E r \in arena' : Promise!Inside(Block(t, size), r)
  BY <1>1, <1>4, <1>5, <1>6, BlockInside
<1>9. \A r \in arena' \ arena : \A q \in arena' :
        q # r => Promise!Apart(r.base, r.size, q.base, q.size)
  BY <1>1 DEF Disjoint, Promise!Apart
<1>10. Block(t, size).ptr = t + HDR /\ Block(t, size).size = size
  BY <1>6
<1> QED
  BY <1>1, <1>2, <1>7, <1>8, <1>9, <1>10

\* Every step of malloc(), calloc(), realloc() and free() is one that the promise
\* allows.
LEMMA StepKeepsPromise ==
  ASSUME HeapInv, HeapInv', [Next]_vars
  PROVE  [Promise!Next]_<<live, arena>>
<1>0. Requests \subseteq Nat
  BY HeapAssumption
<1>1. ASSUME NEW size \in Requests, freeing = Null, Allocated(size)
      PROVE  Promise!Malloc
  <2>1. PICK t : Obtain(size, t) /\ live' = live \cup {Block(t, size)}
    BY <1>1 DEF Allocated
  <2>2. PICK b : b = Block(t, size)
    OBVIOUS
  <2>3. /\ b \notin live /\ \A c \in live : Promise!Apart(b.ptr, b.size, c.ptr, c.size)
        /\ \E r \in arena' : Promise!Inside(b, r)
        /\ arena \subseteq arena'
        /\ \A r \in arena' \ arena : \A q \in arena' :
             q # r => Promise!Apart(r.base, r.size, q.base, q.size)
    BY <1>0, <1>1, <2>1, <2>2, NewBlockKeeps
  <2>4. b \in live' \ live /\ live' = live \cup {b}
    BY <2>1, <2>2, <2>3
  <2> QED
    BY <2>3, <2>4 DEF Promise!Malloc, Promise!Grow
<1>2. ASSUME NEW size, NoPages(size)
      PROVE  UNCHANGED <<live, arena>>
  BY <1>2 DEF NoPages
<1>3. ASSUME NEW b \in live, free(b)
      PROVE  Promise!Free
  BY <1>3 DEF free, Promise!Free
<1>4. ASSUME NEW old \in live, NEW size \in Requests, freeing = Null, NEW t, Obtain(size, t),
             live' = (live \cup {Block(t, size)}) \ {old}
      PROVE  Promise!Realloc
  <2>1. PICK b : b = Block(t, size)
    OBVIOUS
  <2>2. /\ b \notin live /\ \A c \in live : Promise!Apart(b.ptr, b.size, c.ptr, c.size)
        /\ \E r \in arena' : Promise!Inside(b, r)
        /\ arena \subseteq arena'
        /\ \A r \in arena' \ arena : \A q \in arena' :
             q # r => Promise!Apart(r.base, r.size, q.base, q.size)
    BY <1>0, <1>4, <2>1, NewBlockKeeps
  <2>3. live' = (live \cup {b}) \ {old} /\ b \in live' \ live
    BY <1>4, <2>1, <2>2
  <2> QED
    BY <2>2, <2>3 DEF Promise!Realloc, Promise!Grow
<1>5. ASSUME FreeRelease
      PROVE  Promise!GiveBack
  <2>1. live' = live /\ arena' \subseteq arena
    BY <1>5 DEF FreeRelease, FreeDone
  <2>2. PICK h, regions : h = Heap' /\ regions = arena'
    OBVIOUS
  <2>3. Sound(h, regions) /\ Disjoint(regions) /\ Owned'
    BY <2>2 DEF HeapInv, Limits
  <2>4. h.tag = tag' /\ DOMAIN h.tag = Tags'
    BY <2>2 DEF Heap, Tags
  <2>5. ASSUME NEW b \in live
        PROVE  \E r \in arena' : Promise!Inside(b, r)
    <3>1. PICK u : u = b.ptr - HDR
      OBVIOUS
    <3>2. u \in DOMAIN h.tag /\ HDR + b.size <= h.tag[u].real_size
      BY <2>1, <2>3, <2>4, <3>1 DEF Owned, BlocksHaveRoom
    <3>3. b \in [ptr : Nat, size : Nat] /\ b.ptr = u + HDR
      BY <3>1, BlockFacts
    <3>4. b.size \in Nat /\ b = [ptr |-> u + HDR, size |-> b.size]
      BY <3>3
    <3>5. \E r \in regions : Promise!Inside([ptr |-> u + HDR, size |-> b.size], r)
      BY <2>3, <3>2, <3>4, BlockInside
    <3> QED
      BY <2>2, <3>4, <3>5
  <2> QED
    BY <2>1, <2>5 DEF Promise!GiveBack
<1>6. CASE FreeMelt \/ FreeAbsorb \/ FreeKeep
  BY <1>6 DEF FreeMelt, FreeAbsorb, FreeKeep, FreeDone
<1>7. ASSUME NEW size \in Requests, malloc(size) \/ calloc(size)
      PROVE  [Promise!Next]_<<live, arena>>
  <2>1. freeing = Null /\ (Allocated(size) \/ NoPages(size))
    BY <1>7 DEF malloc, calloc, Idle
  <2> QED
    BY <1>1, <1>2, <2>1 DEF Promise!Next
<1>8. ASSUME NEW old \in live, NEW size \in Requests, realloc(old, size)
      PROVE  [Promise!Next]_<<live, arena>>
  <2>1. /\ freeing = Null
        /\ \/ \E t : Obtain(size, t) /\ live' = (live \cup {Block(t, size)}) \ {old}
           \/ NoPages(size)
    BY <1>8 DEF realloc, Idle
  <2> QED
    BY <1>2, <1>4, <2>1 DEF Promise!Next
<1>9. CASE UNCHANGED vars
  BY <1>9 DEF vars
<1> QED
  BY <1>3, <1>5, <1>6, <1>7, <1>8, <1>9 DEF Next, Promise!Next

\* malloc(), calloc(), realloc() and free() implement the heap of HeapAbs: blocks
\* never overlap, lie in memory the heap has, stay where they are until they are
\* freed, and memory is given up only when no block lies in it.
THEOREM HeapKeepsPromise == Spec => KeepsPromise
<1>1. Init => Promise!Init
  BY DEF Init, Promise!Init
<1>2. HeapInv /\ HeapInv' /\ [Next]_vars => [Promise!Next]_<<live, arena>>
  BY StepKeepsPromise
<1> QED
  BY <1>1, <1>2, HeapKept, PTL DEF Spec, KeepsPromise, Promise!Spec

=============================================================================
