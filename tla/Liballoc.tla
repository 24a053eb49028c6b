------------------------------ MODULE Liballoc ------------------------------
(***************************************************************************)
(* The kernel heap of ScorchOS: liballoc (src/liballoc.c) over the page    *)
(* hooks of src/heap.c.                                                    *)
(*                                                                         *)
(* Memory the hooks give is cut into pieces, each headed by a boundary     *)
(* tag.  The split links join the pieces of one region in address order;   *)
(* next and prev join the free tags of one size class, freePages[bin].     *)
(* malloc() is one action; free() is one action per iteration of its two   *)
(* loops, which melt the piece with its free neighbours, and one for the   *)
(* rest.  The locks of heap.c do nothing and the heap has one caller, so   *)
(* no other call comes between: the next call waits for `freeing = Null'.  *)
(***************************************************************************)
EXTENDS Integers, FiniteSets

CONSTANTS
  HDR,          \* sizeof(struct boundary_tag)
  MINEXP,       \* the smallest size class
  MAXEXP,       \* one more than the largest
  MAXCOMPLETE,  \* whole free regions kept in a class
  PageSize, PageCount,   \* l_pageSize, l_pageCount
  KHEAP,        \* where the heap starts
  Pages,        \* physical pages the machine has for the heap
  Requests      \* the sizes callers ask for

ASSUME HeapAssumption ==
  /\ HDR \in Nat \ {0} /\ MINEXP \in Nat /\ MAXEXP \in Nat /\ MINEXP < MAXEXP
  /\ MAXCOMPLETE \in Nat /\ PageSize \in Nat \ {0} /\ PageCount \in Nat \ {0}
  /\ KHEAP \in Nat \ {0} /\ Pages \in Nat /\ Requests \subseteq Nat

Null == 0
NoBin == -1
Bins == MINEXP..(MAXEXP - 1)

VARIABLES
  tag,            \* the boundary tags in use, by address
  freePages,      \* l_freePages: the first free tag of each class
  completePages,  \* l_completePages: how many of them are whole regions
  heaptop,        \* heap.c: where the next region goes
  pagesLeft,      \* physical pages not handed out yet
  freeing,        \* the tag free() is working on, or Null
  melting,        \* free() is in its first loop
  live,           \* history: the blocks callers hold, [ptr, size]
  arena,          \* history: the regions liballoc holds, [base, size]
  wild            \* history: a write through a pointer that is not a block

heap == <<tag, freePages>>
vars == <<tag, freePages, completePages, heaptop, pagesLeft, freeing, melting,
          live, arena, wild>>

Init ==
  /\ tag = [a \in {} |-> Null]
  /\ freePages = [b \in Bins |-> Null] /\ completePages = [b \in Bins |-> 0]
  /\ heaptop = KHEAP /\ pagesLeft = Pages
  /\ freeing = Null /\ melting = FALSE
  /\ live = {} /\ arena = {} /\ wild = FALSE

-----------------------------------------------------------------------------
(* The helpers, as functions of the heap: h.tag and h.free *)

getexp(size) ==
  LET fitting == {n \in Bins : 2 ^ n <= size}
  IN  IF fitting = {} THEN NoBin ELSE CHOOSE n \in fitting : \A m \in fitting : m <= n

BinOf(size) == IF getexp(size) < MINEXP THEN MINEXP ELSE getexp(size)

insert_tag(h, t, bin) ==
  LET first == h.free[bin] IN
  [tag  |-> [a \in DOMAIN h.tag |->
              IF a = t THEN [h.tag[t] EXCEPT !.index = bin,
                                             !.next = IF first = Null THEN @ ELSE first]
              ELSE IF a = first THEN [h.tag[a] EXCEPT !.prev = t]
              ELSE h.tag[a]],
   free |-> [h.free EXCEPT ![bin] = t]]

\* Mutant: the tag before t keeps pointing at t.
remove_tag_no_prev(h, t) ==
  LET r == h.tag[t] IN
  [tag  |-> [a \in DOMAIN h.tag |->
              IF a = t THEN [r EXCEPT !.next = Null, !.prev = Null, !.index = NoBin]
              ELSE IF a = r.next THEN [h.tag[a] EXCEPT !.prev = r.prev]
              ELSE h.tag[a]],
   free |-> [h.free EXCEPT ![r.index] = IF @ = t THEN r.next ELSE @]]

\* Mutant: a tag at the head of its list stays there.
remove_tag_keep_head(h, t) ==
  LET r == h.tag[t] IN
  [tag  |-> [a \in DOMAIN h.tag |->
              IF a = t THEN [r EXCEPT !.next = Null, !.prev = Null, !.index = NoBin]
              ELSE IF a = r.prev THEN [h.tag[a] EXCEPT !.next = r.next]
              ELSE IF a = r.next THEN [h.tag[a] EXCEPT !.prev = r.prev]
              ELSE h.tag[a]],
   free |-> h.free]

remove_tag(h, t) ==
  LET r == h.tag[t] IN
  [tag  |-> [a \in DOMAIN h.tag |->
              IF a = t THEN [r EXCEPT !.next = Null, !.prev = Null, !.index = NoBin]
              ELSE IF a = r.prev THEN [h.tag[a] EXCEPT !.next = r.next]
              ELSE IF a = r.next THEN [h.tag[a] EXCEPT !.prev = r.prev]
              ELSE h.tag[a]],
   free |-> [h.free EXCEPT ![r.index] = IF @ = t THEN r.next ELSE @]]

\* t swallows the piece `gone' that follows it.
Merge(h, t, gone) ==
  LET r == h.tag[gone] IN
  [h EXCEPT !.tag =
     [a \in DOMAIN h.tag \ {gone} |->
       IF a = t THEN [h.tag[t] EXCEPT !.real_size = @ + r.real_size,
                                      !.split_right = r.split_right]
       ELSE IF a = r.split_right THEN [h.tag[a] EXCEPT !.split_left = t]
       ELSE h.tag[a]]]

melt_left(h, t)    == Merge(h, h.tag[t].split_left, t)
absorb_right(h, t) == LET right == h.tag[t].split_right
                      IN  Merge(remove_tag(h, right), t, right)

\* Mutant: the piece after the new one keeps t as its split_left.
split_tag_one_way(h, t) ==
  LET r    == h.tag[t]
      new  == t + HDR + r.size
      rest == r.real_size - HDR - r.size
      cut  == [a \in DOMAIN h.tag \cup {new} |->
                IF a = new THEN [size |-> 0, real_size |-> rest, index |-> NoBin,
                                 split_left |-> t, split_right |-> r.split_right,
                                 next |-> Null, prev |-> Null]
                ELSE IF a = t THEN [r EXCEPT !.split_right = new, !.real_size = @ - rest]
                ELSE h.tag[a]]
  IN  insert_tag([h EXCEPT !.tag = cut], new, BinOf(rest - HDR))

\* The tail of t becomes a free piece of its own.
split_tag(h, t) ==
  LET r    == h.tag[t]
      new  == t + HDR + r.size
      rest == r.real_size - HDR - r.size
      cut  == [a \in DOMAIN h.tag \cup {new} |->
                IF a = new THEN [size |-> 0, real_size |-> rest, index |-> NoBin,
                                 split_left |-> t, split_right |-> r.split_right,
                                 next |-> Null, prev |-> Null]
                ELSE IF a = t THEN [r EXCEPT !.split_right = new, !.real_size = @ - rest]
                ELSE IF a = r.split_right THEN [h.tag[a] EXCEPT !.split_left = new]
                ELSE h.tag[a]]
  IN  insert_tag([h EXCEPT !.tag = cut], new, BinOf(rest - HDR))

SetHeap(h) == tag' = h.tag /\ freePages' = h.free
Heap == [tag |-> tag, free |-> freePages]

Whole(t) == tag[t].split_left = Null /\ tag[t].split_right = Null

-----------------------------------------------------------------------------
(* malloc *)

\* The tags of a class, in list order; Null after the last.
Nth(bin) ==
  LET at[n \in 0..Cardinality(DOMAIN tag)] ==
        IF n = 0 THEN freePages[bin]
        ELSE IF at[n - 1] = Null THEN Null ELSE tag[at[n - 1]].next
  IN  at

Fits(t, size) == tag[t].real_size - HDR >= size + HDR

\* The first tag of the class of `size' that has room, or Null.
Found(size) ==
  LET at   == Nth(BinOf(size))
      hits == {n \in DOMAIN at : at[n] # Null /\ Fits(at[n], size)}
  IN  IF hits = {} THEN Null
      ELSE at[CHOOSE n \in hits : \A m \in hits : n <= m]

PagesFor(size) ==
  LET usage == size + HDR
      pages == usage \div PageSize + (IF usage % PageSize # 0 THEN 1 ELSE 0)
  IN  IF pages < PageCount THEN PageCount ELSE pages

\* The end of malloc(): t is taken; what it has beyond `size' is split off
\* when a tag and a piece of the smallest class fit in it.
Take(h, t, size) ==
  LET sized == [h EXCEPT !.tag[t].size = size]
      spare == h.tag[t].real_size - size - 2 * HDR
  IN  SetHeap(IF spare > 0 /\ getexp(spare) >= 0 THEN split_tag(sized, t) ELSE sized)

Block(t, size) == [ptr |-> t + HDR, size |-> size]

\* A tag of the class has room: remove_tag, and one whole region less if it
\* is one.
MallocFound(size, t) ==
  /\ t # Null
  /\ completePages' = IF Whole(t) THEN [completePages EXCEPT ![BinOf(size)] = @ - 1]
                      ELSE completePages
  /\ Take(remove_tag(Heap, t), t, size)
  /\ UNCHANGED <<heaptop, pagesLeft, arena, wild>>

\* allocate_new_tag: liballoc_alloc() maps the pages at heaptop, which the
\* physical memory manager grants when it has more than that many free.
MallocNew(size) ==
  LET pages == PagesFor(size)
      new   == [tag |-> [a \in DOMAIN tag \cup {heaptop} |->
                          IF a = heaptop
                          THEN [size |-> size, real_size |-> pages * PageSize,
                                index |-> NoBin, split_left |-> Null,
                                split_right |-> Null, next |-> Null, prev |-> Null]
                          ELSE tag[a]],
                free |-> freePages]
  IN  /\ Found(size) = Null
      /\ pagesLeft > pages
      /\ Take(new, heaptop, size)
      /\ heaptop' = heaptop + pages * PageSize
      /\ pagesLeft' = pagesLeft - pages
      /\ arena' = arena \cup {[base |-> heaptop, size |-> pages * PageSize]}
      /\ UNCHANGED <<completePages, wild>>

\* malloc() finds a tag or makes one.
Obtain(size, t) ==
  \/ t = Found(size) /\ MallocFound(size, t)
  \/ t = heaptop /\ MallocNew(size)

\* liballoc_alloc() without pages returns a pointer it never set.  When it is
\* 0, malloc() returns NULL; when not, a tag is written wherever it points.
NoPages(size) ==
  /\ Found(size) = Null /\ pagesLeft <= PagesFor(size)
  /\ UNCHANGED <<tag, freePages, completePages, heaptop, pagesLeft, arena,
                 freeing, melting, live>>

Idle == freeing = Null /\ ~wild

Allocated(size) == \E t \in {Found(size), heaptop} :
  /\ Obtain(size, t)
  /\ live' = live \cup {Block(t, size)}
  /\ UNCHANGED <<freeing, melting>>

malloc(size) ==
  /\ Idle
  /\ \/ Allocated(size)
     \/ NoPages(size) /\ wild' \in BOOLEAN

\* calloc() clears what malloc() returned without looking: NULL is written
\* through as well.
calloc(size) ==
  /\ Idle
  /\ \/ Allocated(size)
     \/ NoPages(size) /\ wild' = TRUE

\* realloc() copies to what malloc() returned without looking, and then frees
\* the old block.
realloc(b, size) ==
  /\ Idle
  /\ \/ \E t \in {Found(size), heaptop} :
          /\ Obtain(size, t)
          /\ live' = (live \cup {Block(t, size)}) \ {b}
          /\ freeing' = b.ptr - HDR /\ melting' = TRUE
     \/ NoPages(size) /\ wild' = TRUE

-----------------------------------------------------------------------------
(* free *)

free(b) ==
  /\ Idle
  /\ freeing' = b.ptr - HDR /\ melting' = TRUE
  /\ live' = live \ {b}
  /\ UNCHANGED <<tag, freePages, completePages, heaptop, pagesLeft, arena, wild>>

\* Mutant: the smallest class does not count as free.
IsFreeLarge(t) == t # Null /\ tag[t].index > MINEXP
IsFree(t) == t # Null /\ tag[t].index >= 0

\* MELT LEFT: one iteration, and the end of the loop.
FreeMelt ==
  /\ freeing # Null /\ melting
  /\ LET left == tag[freeing].split_left IN
     IF IsFree(left)
     THEN /\ SetHeap(remove_tag(melt_left(Heap, freeing), left))
          /\ freeing' = left /\ UNCHANGED melting
     ELSE melting' = FALSE /\ UNCHANGED <<tag, freePages, freeing>>
  /\ UNCHANGED <<completePages, heaptop, pagesLeft, live, arena, wild>>

\* MELT RIGHT: one iteration.
FreeAbsorb ==
  /\ freeing # Null /\ ~melting
  /\ IsFree(tag[freeing].split_right)
  /\ SetHeap(absorb_right(Heap, freeing))
  /\ UNCHANGED <<completePages, heaptop, pagesLeft, freeing, melting,
                 live, arena, wild>>

\* The piece goes back to its class, counted if it is a whole region, unless
\* enough whole regions are standing by.
FreeDone ==
  /\ freeing # Null /\ ~melting
  /\ ~IsFree(tag[freeing].split_right)
  /\ freeing' = Null
  /\ UNCHANGED <<melting, heaptop, pagesLeft, live, wild>>

FreeKeep ==
  LET bin == BinOf(tag[freeing].real_size - HDR) IN
  /\ FreeDone
  /\ ~(Whole(freeing) /\ completePages[bin] = MAXCOMPLETE)
  /\ completePages' = IF Whole(freeing) THEN [completePages EXCEPT ![bin] = @ + 1]
                      ELSE completePages
  /\ SetHeap(insert_tag(Heap, freeing, bin))
  /\ UNCHANGED arena

\* liballoc_free(): vmmngr_dealloc_pages_at_virtual_address() returns at once
\* when the first page is mapped, as it is here.  No page comes back to
\* pagesLeft, and heaptop never returns: the region is lost.
FreeRelease ==
  LET bin == BinOf(tag[freeing].real_size - HDR) IN
  /\ FreeDone
  /\ Whole(freeing) /\ completePages[bin] = MAXCOMPLETE
  /\ tag' = [a \in DOMAIN tag \ {freeing} |-> tag[a]]
  /\ arena' = arena \ {[base |-> freeing, size |-> tag[freeing].real_size]}
  /\ UNCHANGED <<freePages, completePages>>

Next ==
  \/ \E size \in Requests : malloc(size) \/ calloc(size)
  \/ \E b \in live : free(b) \/ \E size \in Requests : realloc(b, size)
  \/ FreeMelt \/ FreeAbsorb \/ FreeKeep \/ FreeRelease

Spec == Init /\ [][Next]_vars

-----------------------------------------------------------------------------
(* Properties *)

Tags == DOMAIN tag
TagType ==
  [size : Nat, real_size : Nat, index : Bins \cup {NoBin}, split_left : Tags \cup {Null},
   split_right : Tags \cup {Null}, next : Tags \cup {Null}, prev : Tags \cup {Null}]

\* Every variable has its type; in particular no link of any tag points to a
\* tag that has been melted away.
TypeOK ==
  /\ Tags \subseteq Nat \ {Null} /\ \A t \in Tags : tag[t] \in TagType
  /\ freePages \in [Bins -> Tags \cup {Null}] /\ completePages \in [Bins -> Nat]
  /\ heaptop \in Nat /\ pagesLeft \in 0..Pages
  /\ freeing \in Tags \cup {Null} /\ melting \in BOOLEAN
  /\ live \subseteq [ptr : Nat, size : Nat] /\ arena \subseteq [base : Nat, size : Nat]
  /\ wild \in BOOLEAN

\* The tags tile the regions: following split_right from the base of a region
\* one meets the next piece exactly where this one ends, and its split_left
\* leads back; the last piece ends where the region does.
PiecesTile ==
  /\ \A r \in arena : r.base \in Tags
  /\ \A t \in Tags : LET left == tag[t].split_left  right == tag[t].split_right IN
       /\ tag[t].real_size >= HDR
       /\ left = Null => \E r \in arena : r.base = t
       /\ left # Null => tag[left].split_right = t /\ left + tag[left].real_size = t
       /\ right # Null => tag[right].split_left = t
       /\ right = Null => \E r \in arena : r.base + r.size = t + tag[t].real_size

\* Each size class is a well-formed doubly linked list of exactly the free
\* pieces that belong to it, and a piece is free exactly when no caller holds
\* it and free() is not working on it.
ListsHoldFree ==
  \A t \in Tags :
    /\ (tag[t].index >= 0) = (t # freeing /\ \A b \in live : b.ptr # t + HDR)
    /\ IF tag[t].index < 0 THEN tag[t].next = Null /\ tag[t].prev = Null
       ELSE /\ tag[t].index = BinOf(tag[t].real_size - HDR)
            /\ \E n \in DOMAIN Nth(tag[t].index) : Nth(tag[t].index)[n] = t
            /\ tag[t].next # Null => tag[tag[t].next].prev = t
                                   /\ tag[tag[t].next].index = tag[t].index
            /\ (tag[t].prev = Null) = (freePages[tag[t].index] = t)

\* A caller's block has its tag in front of it, and room for the size it asked
\* for, until it frees it.
BlocksHaveRoom ==
  \A b \in live : /\ b.ptr - HDR \in Tags
                   /\ tag[b.ptr - HDR].size = b.size
                   /\ HDR + b.size <= tag[b.ptr - HDR].real_size

\* free() leaves no two free pieces side by side: whatever the order of frees,
\* memory that is free in one stretch can be used in one stretch.
NoFreeNeighbours ==
  freeing = Null =>
    \A t \in Tags : tag[t].index >= 0 /\ tag[t].split_right # Null =>
      tag[tag[t].split_right].index < 0

\* l_completePages counts the whole free regions of each class, and no more
\* than MAXCOMPLETE are kept standing by.
CompleteCounted ==
  \A bin \in Bins :
    /\ completePages[bin] <= MAXCOMPLETE
    /\ completePages[bin] = Cardinality({t \in Tags : tag[t].index = bin /\ Whole(t)})

\* No order of calls confuses the tags ...
TagsSound == TypeOK /\ PiecesTile /\ BlocksHaveRoom

\* ... or the lists of free pieces and the counts kept beside them.
ListsSound == ListsHoldFree /\ CompleteCounted

Promise == INSTANCE HeapAbs WITH
  live  <- live,
  arena <- arena

\* malloc(), free() and realloc() keep the promise of HeapAbs: callers' blocks
\* are apart, lie in the heap's memory and never move.
KeepsPromise == Promise!Spec
=============================================================================
