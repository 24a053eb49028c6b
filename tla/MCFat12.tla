------------------------------ MODULE MCFat12 -------------------------------
(* A disk whose names have two letters and an extension of one; sectors of  *)
(* eight bytes, so that the entry of cluster 5 lies across two of them.     *)
EXTENDS Fat12

MCMaxCluster == 6
MCCapital == [a |-> "A", b |-> "B"]
Entry(dos, attrib, cluster) ==
  [Filename |-> dos, Attrib |-> attrib, FirstCluster |-> cluster]
Unused == Entry(<<NUL, NUL, NUL>>, "file", 0)

\* A.B starts at 2, AB.A at 5 and is in the last sector, B.A is empty, A is a
\* directory, kept in cluster 4.
Entries == <<Entry(<<"A", SPACE, "B">>, "file", 2), Entry(<<"B", SPACE, "A">>, "file", 0),
             Entry(<<"A", SPACE, SPACE>>, "directory", 4), Unused,
             Entry(<<"A", "B", "A">>, "file", 5), Unused>>
MCRoot == [k \in 0..5 |-> Entries[k + 1]]

MCSub == [c \in 2..6 |-> IF c = 4 THEN <<Entry(<<"A", SPACE, "B">>, "file", 3), Unused>>
                         ELSE <<Unused, Unused>>]

\* The file of cluster 2 takes any clusters in any order; some chains are
\* broken or go in a circle.
Chains == {<<2>>} \cup {<<2, a>> : a \in 3..6} \cup {<<2, a, b>> : a \in 3..6, b \in 3..6}
FatOf(chain, end) ==
  [c \in 0..6 |->
     IF c = 0 THEN 4080 ELSE IF c = 1 THEN 4095
     ELSE LET at_ == {k \in 1..Len(chain) : chain[k] = c}
          IN IF at_ = {} THEN IF c = 5 THEN 4095 ELSE 0
             ELSE LET k == CHOOSE k \in at_ : \A l \in at_ : k <= l
                  IN IF k = Len(chain) THEN end ELSE chain[k + 1]]
MCFats == {FatOf(c, 4095) : c \in Chains}
          \cup {FatOf(<<2, 3>>, n) : n \in {2, 0, 4087, 4088}}

Strings(n) == UNION {[1..m -> {"a", "b", ".", "\\"}] : m \in 1..n}
Full == {n \in [1..4 -> {"a", "b", "."}] : n[3] = "."}
MCPaths == LET s == Strings(3) \cup Full
           IN s \cup {<<"a", ":", "\\">> \o n : n \in s}
                \cup {<<c, "a", ":">> \o n : c \in {"a", "b", "."}, n \in {<<>>, <<"a", ".", "b">>}}
=============================================================================
