-------------------------- MODULE FileBrowserProofs -------------------------
(***************************************************************************)
(* Theorems about FileBrowser, for trees of any depth, any history and any *)
(* number of events that wait.                                             *)
(*                                                                         *)
(* The first part is about the two loops of the page: searchByPath finds   *)
(* every folder of the tree (FoldersAreFound), and forEach draws every     *)
(* link that is set (DrawnLinks).  Both are recursive functions, so that   *)
(* they have a value is proved too, each time by looking at the least      *)
(* number for which there was none (Smallest).                             *)
(*                                                                         *)
(* The second part is the inductive invariant.  What the handlers leave    *)
(* in currentPath and breadcrumbsUrls may be anything while an event       *)
(* waits; when none does it is what goto left (PageFits).                  *)
(*                                                                         *)
(* The last part shows that the page implements Viewer.  It needs one      *)
(* fact more: no link of breadcrumbsUrls leads to where goto throws        *)
(* (LinksAreOpen), which holds because whatever is on the way to a listed  *)
(* path is listed (ListedGoUp).                                            *)
(***************************************************************************)
EXTENDS FileBrowser, SequenceTheorems, WellFoundedInduction, TLAPS

-----------------------------------------------------------------------------
(* The loop of searchByPath *)

\* A set of numbers has a smallest one.
LEMMA Smallest ==
    ASSUME NEW S \in SUBSET Nat, S # {}
    PROVE  \E m \in S : \A k \in S : m <= k
<1>1. PICK m \in S : \A k \in S : ~ (<<k, m>> \in OpToRel(<, Nat))
  BY NatLessThanWellFounded, WFMin
<1>2. \A k \in S : m <= k
  <2>1. SUFFICES ASSUME NEW k \in S PROVE ~ (k < m)
    OBVIOUS
  <2>2. <<k, m>> \notin {p \in Nat \X Nat : p[1] < p[2]}
    BY <1>1, Zenon DEF OpToRel
  <2>3. <<k, m>> \in Nat \X Nat
    OBVIOUS
  <2>4. ~ (<<k, m>>[1] < <<k, m>>[2])
    BY <2>2, <2>3, Zenon
  <2> QED BY <2>4
<1> QED BY <1>2

\* The loop of searchByPath over the first n names of dir.
IsLoop(g, top, dir, n) ==
    g = [i \in 0..n |-> IF i = 0 THEN top ELSE Descend(g[i - 1], dir[i])]

\* The loop has a value for paths of any length.
LEMMA LoopExists ==
    ASSUME NEW top, NEW dir, NEW n \in Nat
    PROVE  \E g : IsLoop(g, top, dir, n)
<1> DEFINE Without == {k \in Nat : ~ \E g : IsLoop(g, top, dir, k)}
<1>1. SUFFICES ASSUME Without # {} PROVE FALSE
  OBVIOUS
<1>2. PICK m \in Without : \A k \in Without : m <= k
  BY <1>1, Smallest
<1>3. CASE m = 0
  <2> DEFINE h == [i \in 0..0 |-> top]
  <2>1. IsLoop(h, top, dir, 0)
    BY DEF IsLoop
  <2> QED BY <2>1, <1>3
<1>4. CASE m # 0
  <2>1. m \in Nat /\ m - 1 \in Nat /\ m - 1 \notin Without
    BY <1>2, <1>4
  <2>2. PICK g : IsLoop(g, top, dir, m - 1)
    BY <2>1
  <2> DEFINE h == [i \in 0..m |-> IF i < m THEN g[i] ELSE Descend(g[m - 1], dir[m])]
  <2>3. \A i \in 0..m : h[i] = IF i = 0 THEN top ELSE Descend(h[i - 1], dir[i])
    <3>1. TAKE i \in 0..m
    <3>2. CASE i = 0
      BY <3>2, <2>1, <2>2, <1>4 DEF IsLoop
    <3>3. CASE i # 0 /\ i < m
      BY <3>3, <2>1, <2>2 DEF IsLoop
    <3>4. CASE i = m
      BY <3>4, <2>1, <1>4
    <3> QED BY <3>2, <3>3, <3>4, <2>1
  <2>4. IsLoop(h, top, dir, m)
    BY <2>3 DEF IsLoop
  <2> QED BY <2>4, <1>2
<1> QED BY <1>3, <1>4

\* What Walk returns is the last value of such a loop.
LEMMA WalkIsLoop ==
    ASSUME NEW top, NEW dir, Len(dir) \in Nat
    PROVE  \E g : IsLoop(g, top, dir, Len(dir)) /\ Walk(top, dir) = g[Len(dir)]
<1>1. PICK g : IsLoop(g, top, dir, Len(dir))
  BY LoopExists
<1> QED BY <1>1, Zenon DEF Walk, IsLoop

-----------------------------------------------------------------------------
(* The tree *)

LEMMA RootIsOneName == Root \in Folders /\ Len(Root) = 1
BY TreeAssumption, Zenon

\* A node is a path of some names; its folder is in front of its last name.
LEMMA NodeIsPath ==
    ASSUME NEW n \in Nodes
    PROVE  /\ n \in Seq(Names) /\ Len(n) \in Nat \ {0} /\ n # <<>>
           /\ n # Root => Len(n) > 1 /\ Front(n) \in Folders
<1>1. n \in Seq(Names) /\ Root \in Seq(Names)
  BY TreeAssumption DEF Nodes
<1>2. Len(n) \in Nat
  BY <1>1, LenProperties
<1>3. Len(n) # 0
  <2>1. n = Root \/ Len(n) > 1
    BY TreeAssumption, Zenon
  <2> QED BY <1>2, <2>1, RootIsOneName
<1>4. n # <<>>
  BY <1>1, <1>3, EmptySeq
<1>5. n # Root => Len(n) > 1 /\ Front(n) \in Folders
  BY TreeAssumption, Zenon
<1> QED BY <1>1, <1>2, <1>3, <1>4, <1>5

\* The root is the only folder of one name.
LEMMA OneName ==
    /\ \A n \in Folders : Len(n) = 1 => n = Root
    /\ \A n : Len(n) \in Int /\ Len(n) > 1 => n # Root
<1>1. ASSUME NEW n \in Folders, Len(n) = 1 PROVE n = Root
  <2>1. n \in Nodes
    BY DEF Nodes
  <2>2. n # Root => Len(n) > 1
    BY <2>1, NodeIsPath
  <2> QED BY <1>1, <2>2
<1>2. ASSUME NEW n, Len(n) \in Int, Len(n) > 1 PROVE n # Root
  BY <1>2, RootIsOneName
<1> QED BY <1>1, <1>2

\* What is in front of a node, and its last name, make the node.
LEMMA FrontAndLast ==
    ASSUME NEW n \in Nodes, NEW k \in Nodes, n # Root, k # Root,
           Front(n) = Front(k), Last(n) = Last(k)
    PROVE  n = k
<1>1. /\ n \in Seq(Names) /\ k \in Seq(Names)
      /\ Len(n) \in Nat /\ Len(k) \in Nat /\ Len(n) > 1 /\ Len(k) > 1
  BY NodeIsPath
<1>2. \A i \in 1..Len(n) - 1 : n[i] \in Names
  BY <1>1
<1>3. \A i \in 1..Len(k) - 1 : k[i] \in Names
  BY <1>1
<1>4. Len(Front(n)) = Len(n) - 1 /\ \A i \in 1..Len(n) - 1 : Front(n)[i] = n[i]
  BY <1>1, <1>2, SubSeqProperties DEF Front
<1>5. Len(Front(k)) = Len(k) - 1 /\ \A i \in 1..Len(k) - 1 : Front(k)[i] = k[i]
  BY <1>1, <1>3, SubSeqProperties DEF Front
<1>6. Len(n) = Len(k)
  BY <1>1, <1>4, <1>5
<1>7. \A i \in 1..Len(n) : n[i] = k[i]
  BY <1>1, <1>4, <1>5, <1>6 DEF Last
<1> QED BY <1>1, <1>6, <1>7, SeqEqual

\* The names in front of the last of a path.
LEMMA PrefixOf ==
    ASSUME NEW s \in Seq(Names), NEW i \in 1..Len(s)
    PROVE  LET p == SubSeq(s, 1, i)
           IN  /\ p \in Seq(Names) /\ Len(p) = i /\ Last(p) = s[i]
               /\ i > 1 => Front(p) = SubSeq(s, 1, i - 1)
<1> DEFINE p == SubSeq(s, 1, i)
<1>1. Len(s) \in Nat /\ \A j \in 1..i : s[j] \in Names
  BY LenProperties
<1>2. /\ p \in Seq(Names) /\ Len(p) = i /\ \A j \in 1..i : p[j] = s[j]
  BY <1>1, SubSeqProperties
<1>3. Last(p) = s[i]
  BY <1>1, <1>2 DEF Last
<1>4. ASSUME i > 1 PROVE Front(p) = SubSeq(s, 1, i - 1)
  <2>1. /\ SubSeq(s, 1, i - 1) \in Seq(Names) /\ Len(SubSeq(s, 1, i - 1)) = i - 1
        /\ \A j \in 1..i - 1 : SubSeq(s, 1, i - 1)[j] = s[j]
    BY <1>1, <1>4, SubSeqProperties
  <2>2. /\ Front(p) \in Seq(Names) /\ Len(Front(p)) = i - 1
        /\ \A j \in 1..i - 1 : Front(p)[j] = p[j]
    BY <1>1, <1>2, <1>4, SubSeqProperties DEF Front
  <2> QED BY <1>2, <2>1, <2>2, SeqEqual
<1> QED BY <1>2, <1>3, <1>4

\* Whatever is on the way to a node is a folder.
LEMMA PrefixIsNode ==
    ASSUME NEW f \in Nodes, NEW i \in 1..Len(f)
    PROVE  /\ SubSeq(f, 1, i) \in Nodes
           /\ i < Len(f) \/ f \in Folders => SubSeq(f, 1, i) \in Folders
<1> DEFINE P(l) == SubSeq(f, 1, l)
<1> DEFINE Cut == {k \in Nat : k < Len(f) /\ P(Len(f) - k) \notin Nodes}
<1>1. f \in Seq(Names) /\ Len(f) \in Nat \ {0}
  BY NodeIsPath DEF Nodes
<1>2. P(Len(f)) = f
  BY <1>1, SubSeqFull
<1>3. \A l \in 1..Len(f) : l > 1 => P(l) # Root /\ Front(P(l)) = P(l - 1)
  <2>1. TAKE l \in 1..Len(f)
  <2>2. Len(P(l)) = l /\ (l > 1 => Front(P(l)) = P(l - 1))
    BY <1>1, PrefixOf
  <2>3. P(l) # Root \/ ~ (l > 1)
    BY <1>1, <2>2, OneName
  <2> QED BY <2>2, <2>3
<1> HIDE DEF P
<1>4. ASSUME Cut # {} PROVE FALSE
  <2>1. PICK k \in Cut : \A j \in Cut : k <= j
    BY <1>4, Smallest
  <2>2. k # 0
    BY <1>1, <1>2, <2>1
  <2>3. k - 1 \in Nat /\ P(Len(f) - (k - 1)) \in Nodes
    BY <1>1, <2>1, <2>2
  <2> DEFINE l == Len(f) - (k - 1)
  <2>4. l \in 1..Len(f) /\ l > 1 /\ l - 1 = Len(f) - k
    BY <1>1, <2>1, <2>2
  <2>5. P(l - 1) \in Nodes
    BY <1>3, <2>3, <2>4, NodeIsPath DEF Nodes
  <2> QED BY <2>1, <2>4, <2>5
<1>6. \A l \in 1..Len(f) : P(l) \in Nodes
  <2>1. TAKE l \in 1..Len(f)
  <2>2. Len(f) - l \in Nat /\ Len(f) - l < Len(f) /\ Len(f) - (Len(f) - l) = l
    BY <1>1
  <2> QED BY <1>4, <2>2
<1>7. i < Len(f) => P(i) \in Folders
  <2>1. SUFFICES ASSUME i < Len(f) PROVE P(i) \in Folders
    OBVIOUS
  <2>2. i + 1 \in 1..Len(f) /\ i + 1 > 1 /\ i + 1 - 1 = i
    BY <1>1, <2>1
  <2> QED BY <1>3, <1>6, <2>2, NodeIsPath
<1>8. i = Len(f) \/ i < Len(f)
  BY <1>1
<1> QED BY <1>2, <1>6, <1>7, <1>8 DEF P

\* From the items of a folder, the name of a folder leads to its items.
LEMMA DescendFinds ==
    ASSUME NEW n \in Folders, n # Root
    PROVE  Descend(Items(Front(n)), Last(n)) = Items(n)
<1> DEFINE demo == Items(Front(n))
<1> DEFINE hit == {k \in demo : Last(k) = Last(n)}
<1>1. n \in demo
  BY DEF Items, Nodes
<1>2. demo # NotAList
  BY <1>1, NodeIsPath DEF NotAList, Items
<1>3. \A k \in hit : k = n
  BY FrontAndLast DEF Items, Nodes
<1>4. hit # {} /\ (CHOOSE k \in hit : TRUE) = n
  BY <1>1, <1>3
<1> QED BY <1>2, <1>4 DEF Descend

\* A folder's path leads to its items.
LEMMA WalkFinds ==
    ASSUME NEW f \in Folders
    PROVE  Walk({Root}, f) = Items(f)
<1>1. f \in Seq(Names) /\ Len(f) \in Nat \ {0}
  BY NodeIsPath DEF Nodes
<1>2. PICK g : IsLoop(g, {Root}, f, Len(f)) /\ Walk({Root}, f) = g[Len(f)]
  BY <1>1, WalkIsLoop
<1>3. g[0] = {Root} /\ \A i \in 1..Len(f) : g[i] = Descend(g[i - 1], f[i])
  BY <1>1, <1>2 DEF IsLoop
<1> DEFINE Lost == {i \in Nat : i \in 1..Len(f) /\ g[i] # Items(SubSeq(f, 1, i))}
<1>4. ASSUME Lost # {} PROVE FALSE
  <2>1. PICK i \in Lost : \A j \in Lost : i <= j
    BY <1>4, Smallest
  <2>0. PICK n : n = SubSeq(f, 1, i)
    OBVIOUS
  <2>2. /\ n \in Folders /\ Len(n) = i /\ Last(n) = f[i]
        /\ i > 1 => Front(n) = SubSeq(f, 1, i - 1)
    BY <1>1, <2>0, <2>1, PrefixIsNode, PrefixOf DEF Nodes
  <2>3. g[i] # Items(n) /\ i \in 1..Len(f)
    BY <2>0, <2>1
  <2>4. ASSUME i > 1 PROVE g[i - 1] = Items(SubSeq(f, 1, i - 1))
    <3>1. i - 1 \in Nat /\ i - 1 \in 1..Len(f) /\ i - 1 \notin Lost
      BY <1>1, <2>1, <2>4
    <3> QED BY <3>1
  <2> HIDE DEF Lost
  <2>5. CASE i = 1
    <3>1. n = Root
      BY <2>2, <2>5, OneName
    <3>2. {k \in {Root} : Last(k) = Last(n)} = {Root} /\ {Root} # NotAList
      BY <3>1, RootIsOneName, NodeIsPath DEF NotAList, Nodes
    <3>3. Descend({Root}, Last(n)) = Items(Root)
      BY <3>2, RootIsOneName DEF Descend
    <3>4. g[1] = Descend({Root}, Last(n))
      <4>1. g[1] = Descend(g[1 - 1], f[1])
        BY <1>3, <2>3, <2>5
      <4>2. g[1 - 1] = {Root} /\ f[1] = Last(n)
        BY <1>3, <2>2, <2>5
      <4> QED BY <4>1, <4>2
    <3> QED BY <2>3, <2>5, <3>1, <3>3, <3>4
  <2>6. CASE i > 1
    <3>1. n # Root
      BY <1>1, <2>2, <2>3, <2>6, OneName
    <3>2. Descend(Items(Front(n)), Last(n)) = Items(n)
      BY <2>2, <3>1, DescendFinds
    <3> QED BY <1>3, <2>2, <2>3, <2>4, <2>6, <3>2
  <2> QED BY <2>3, <2>5, <2>6
<1>5. g[Len(f)] = Items(SubSeq(f, 1, Len(f)))
  BY <1>1, <1>4
<1> QED BY <1>1, <1>2, <1>5, SubSeqFull

\* searchByPath finds every folder of the tree, however deep.
LEMMA FoldersAreFound ==
    ASSUME NEW f \in Folders
    PROVE  /\ f \in Paths /\ SearchByPath[f] = Items(f)
           /\ Items(f) # NotAList /\ f \notin Items(f)
<1>1. f \in Paths
  BY DEF Paths, Nodes
<1>2. Items(f) # {Root} /\ Items(f) # NotAList
  BY NodeIsPath DEF Items, NotAList
<1>3. f \notin Items(f)
  <2>1. SUFFICES ASSUME f # Root, Front(f) = f PROVE FALSE
    BY DEF Items
  <2>2. f \in Seq(Names) /\ Len(f) \in Nat /\ Len(f) > 1
    BY <2>1, NodeIsPath DEF Nodes
  <2>3. \A i \in 1..Len(f) - 1 : f[i] \in Names
    BY <2>2
  <2>4. Len(Front(f)) = Len(f) - 1
    BY <2>2, <2>3, SubSeqProperties DEF Front
  <2> QED BY <2>1, <2>2, <2>4
<1> QED BY <1>1, <1>2, <1>3, WalkFinds DEF SearchByPath
-----------------------------------------------------------------------------
(* The links on the screen *)

\* The loop of Drawn over the first n links.
IsDrawing(g, urls, n) ==
    g = [i \in 0..n |-> IF i = 0 THEN <<>> ELSE Link(g[i - 1], urls[i])]

\* The loop has a value for any links.
LEMMA DrawingExists ==
    ASSUME NEW urls, NEW n \in Nat
    PROVE  \E g : IsDrawing(g, urls, n)
<1> DEFINE Without == {k \in Nat : ~ \E g : IsDrawing(g, urls, k)}
<1>1. SUFFICES ASSUME Without # {} PROVE FALSE
  OBVIOUS
<1>2. PICK m \in Without : \A k \in Without : m <= k
  BY <1>1, Smallest
<1>3. CASE m = 0
  <2> DEFINE h == [i \in 0..0 |-> <<>>]
  <2>1. IsDrawing(h, urls, 0)
    BY DEF IsDrawing
  <2> QED BY <2>1, <1>3
<1>4. CASE m # 0
  <2>1. m \in Nat /\ m - 1 \in Nat /\ m - 1 \notin Without
    BY <1>2, <1>4
  <2>2. PICK g : IsDrawing(g, urls, m - 1)
    BY <2>1
  <2> DEFINE h == [i \in 0..m |-> IF i < m THEN g[i] ELSE Link(g[m - 1], urls[m])]
  <2>3. \A i \in 0..m : h[i] = IF i = 0 THEN <<>> ELSE Link(h[i - 1], urls[i])
    <3>1. TAKE i \in 0..m
    <3>2. CASE i = 0
      BY <3>2, <2>1, <2>2, <1>4 DEF IsDrawing
    <3>3. CASE i # 0 /\ i < m
      BY <3>3, <2>1, <2>2 DEF IsDrawing
    <3>4. CASE i = m
      BY <3>4, <2>1, <1>4
    <3> QED BY <3>2, <3>3, <3>4, <2>1
  <2>4. IsDrawing(h, urls, m)
    BY <2>3 DEF IsDrawing
  <2> QED BY <2>4, <1>2
<1> QED BY <1>3, <1>4

\* What is drawn are links to paths; without a hole it is all there are.
LEMMA DrawnLinks ==
    ASSUME NEW P, NEW urls \in Seq(P \cup {Hole})
    PROVE  /\ Drawn(urls) \in Seq(P)
           /\ urls \in Seq(P \ {Hole}) => Drawn(urls) = urls
<1>1. Len(urls) \in Nat /\ \A i \in 1..Len(urls) : urls[i] \in P \cup {Hole}
  BY LenProperties
<1>2. PICK g : IsDrawing(g, urls, Len(urls))
  BY <1>1, DrawingExists
<1>3. \E h : IsDrawing(h, urls, Len(urls)) /\ Drawn(urls) = h[Len(urls)]
  BY <1>2, Zenon DEF Drawn, IsDrawing
<1>4. PICK h : IsDrawing(h, urls, Len(urls)) /\ Drawn(urls) = h[Len(urls)]
  BY <1>3
<1>5. /\ h[0] = <<>>
      /\ \A i \in 1..Len(urls) : h[i] = Link(h[i - 1], urls[i])
  BY <1>1, <1>4 DEF IsDrawing
<1>6. h[Len(urls)] \in Seq(P)
  <2> DEFINE Bad == {i \in Nat : i <= Len(urls) /\ h[i] \notin Seq(P)}
  <2>1. ASSUME Bad # {} PROVE FALSE
    <3>1. PICK i \in Bad : \A j \in Bad : i <= j
      BY <2>1, Smallest
    <3>2. i # 0
      <4>1. h[0] \in Seq(P)
        BY <1>5, EmptySeq
      <4> QED BY <3>1, <4>1
    <3>3. i - 1 \in Nat /\ i \in 1..Len(urls) /\ h[i - 1] \in Seq(P)
      BY <1>1, <3>1, <3>2
    <3>4. urls[i] \in P \cup {Hole}
      BY <1>1, <3>3
    <3>5. Link(h[i - 1], urls[i]) \in Seq(P)
      BY <3>3, <3>4, AppendProperties DEF Link
    <3> QED BY <1>5, <3>1, <3>3, <3>5
  <2> QED BY <1>1, <2>1
<1>7. ASSUME urls \in Seq(P \ {Hole}) PROVE h[Len(urls)] = urls
  <2> DEFINE Pre(i) == SubSeq(urls, 1, i)
  <2> DEFINE Bad == {i \in Nat : i <= Len(urls) /\ h[i] # Pre(i)}
  <2>1. Pre(0) = <<>> /\ Pre(Len(urls)) = urls
    BY <1>7, SubSeqEmpty, SubSeqFull
  <2>2. \A i \in 1..Len(urls) : urls[i] # Hole /\ Pre(i) = Append(Pre(i - 1), urls[i])
    <3>1. TAKE i \in 1..Len(urls)
    <3>2. urls[i] # Hole
      BY <1>7, ElementOfSeq
    <3>3. \A j \in 1..i : urls[j] \in P \cup {Hole}
      BY <1>1
    <3>4. /\ Pre(i) \in Seq(P \cup {Hole}) /\ Len(Pre(i)) = i
          /\ \A j \in 1..i : Pre(i)[j] = urls[j]
      BY <1>1, <3>3, SubSeqProperties
    <3>5. /\ Pre(i - 1) \in Seq(P \cup {Hole}) /\ Len(Pre(i - 1)) = i - 1
          /\ \A j \in 1..i - 1 : Pre(i - 1)[j] = urls[j]
      BY <1>1, <3>3, SubSeqProperties
    <3> HIDE DEF Pre
    <3>6. /\ Append(Pre(i - 1), urls[i]) \in Seq(P \cup {Hole})
          /\ Len(Append(Pre(i - 1), urls[i])) = i
          /\ \A j \in 1..i : Append(Pre(i - 1), urls[i])[j] = urls[j]
      BY <1>1, <3>3, <3>5, AppendProperties
    <3>7. Pre(i) = Append(Pre(i - 1), urls[i])
      BY <3>4, <3>6, SeqEqual
    <3> QED BY <3>2, <3>7
  <2> HIDE DEF Pre
  <2>3. ASSUME Bad # {} PROVE FALSE
    <3>1. PICK i \in Bad : \A j \in Bad : i <= j
      BY <2>3, Smallest
    <3>2. i # 0
      BY <1>5, <2>1, <3>1
    <3>3. i - 1 \in Nat /\ i \in 1..Len(urls) /\ h[i - 1] = Pre(i - 1)
      BY <1>1, <3>1, <3>2
    <3>4. Link(h[i - 1], urls[i]) = Pre(i)
      BY <2>2, <3>3 DEF Link
    <3> QED BY <1>5, <3>1, <3>3, <3>4
  <2> QED BY <1>1, <2>1, <2>3
<1> QED BY <1>4, <1>6, <1>7

-----------------------------------------------------------------------------
(* Paths and addresses *)

\* The links to a path.
LEMMA LinksTo ==
    ASSUME NEW p \in Seq(Names) \ {<<>>}
    PROVE  /\ Len(p) \in Nat \ {0}
           /\ Len(GenerateBreadcrumbs(p)) = Len(p)
           /\ \A i \in 1..Len(p) : GenerateBreadcrumbs(p)[i] = SubSeq(p, 1, i)
           /\ p \in Range(GenerateBreadcrumbs(p))
<1>1. Len(p) \in Nat \ {0}
  BY EmptySeq
<1>2. /\ DOMAIN GenerateBreadcrumbs(p) = 1..Len(p)
      /\ \A i \in 1..Len(p) : GenerateBreadcrumbs(p)[i] = SubSeq(p, 1, i)
  BY DEF GenerateBreadcrumbs
<1>3. Len(GenerateBreadcrumbs(p)) = Len(p)
  BY <1>1 DEF GenerateBreadcrumbs
<1>4. GenerateBreadcrumbs(p)[Len(p)] = p
  BY <1>1, <1>2, SubSeqFull
<1>5. p \in Range(GenerateBreadcrumbs(p))
  BY <1>1, <1>2, <1>4 DEF Range
<1> QED BY <1>1, <1>2, <1>3, <1>5

\* The beginning of the beginning of a path is a beginning of it.
LEMMA PrefixOfPrefix ==
    ASSUME NEW s \in Seq(Names), NEW i \in 1..Len(s), NEW j \in 1..i
    PROVE  SubSeq(SubSeq(s, 1, i), 1, j) = SubSeq(s, 1, j)
<1>1. Len(s) \in Nat /\ \A k \in 1..i : s[k] \in Names
  BY LenProperties
<1>2. PICK p : p = SubSeq(s, 1, i)
  OBVIOUS
<1>3. p \in Seq(Names) /\ Len(p) = i /\ \A k \in 1..i : p[k] = s[k]
  BY <1>1, <1>2, SubSeqProperties
<1>4. /\ SubSeq(s, 1, j) \in Seq(Names) /\ Len(SubSeq(s, 1, j)) = j
      /\ \A k \in 1..j : SubSeq(s, 1, j)[k] = s[k]
  BY <1>1, SubSeqProperties
<1>5. /\ SubSeq(p, 1, j) \in Seq(Names) /\ Len(SubSeq(p, 1, j)) = j
      /\ \A k \in 1..j : SubSeq(p, 1, j)[k] = p[k]
  BY <1>1, <1>3, SubSeqProperties
<1>6. SubSeq(p, 1, j) = SubSeq(s, 1, j)
  BY <1>3, <1>4, <1>5, SeqEqual
<1> QED BY <1>2, <1>6

\* The paths that occur are closed under going up.
LEMMA PathsGoUp ==
    ASSUME NEW p \in Paths
    PROVE  /\ p \in Seq(Names) \ {<<>>}
           /\ \A i \in 1..Len(p) : SubSeq(p, 1, i) \in Paths
<1> DEFINE Given == {h \in Bookmarks \cup Entered : h.kind = "path"}
<1>1. CASE p \in Nodes
  <2>1. p \in Seq(Names) \ {<<>>}
    BY <1>1, NodeIsPath
  <2>2. \A i \in 1..Len(p) : SubSeq(p, 1, i) \in Nodes
    BY <1>1, PrefixIsNode
  <2> QED BY <2>1, <2>2 DEF Paths
<1>2. CASE p = Undefined
  <2>1. p \in Seq(Names) \ {<<>>} /\ Len(p) = 1
    <3>1. ASSUME NEW t \in Names PROVE <<t>> \in Seq(Names) /\ Len(<<t>>) = 1
      OBVIOUS
    <3>2. Undefined \in Seq(Names) /\ Len(Undefined) = 1
      BY <3>1, TreeAssumption DEF Undefined
    <3>3. Len(<<>>) = 0
      OBVIOUS
    <3>4. Undefined # <<>>
      BY <3>2, <3>3
    <3> QED BY <1>2, <3>2, <3>4
  <2>2. \A i \in 1..Len(p) : SubSeq(p, 1, i) = p
    BY <2>1, SubSeqFull
  <2> QED BY <2>1, <2>2
<1>3. ASSUME NEW h \in Given, p \in Range(GenerateBreadcrumbs(h.path))
      PROVE  /\ p \in Seq(Names) \ {<<>>}
             /\ \A i \in 1..Len(p) : SubSeq(p, 1, i) \in Paths
  <2>1. PICK s : s = h.path
    OBVIOUS
  <2>2. s \in Seq(Names) \ {<<>>}
    BY <2>1, AddressAssumption
  <2>3. PICK k \in 1..Len(s) : p = SubSeq(s, 1, k)
    BY <1>3, <2>1 DEF Range, GenerateBreadcrumbs
  <2>4. p \in Seq(Names) /\ Len(p) = k /\ p # <<>>
    <3>1. p \in Seq(Names) /\ Len(p) = k
      BY <2>2, <2>3, PrefixOf
    <3>2. k # 0
      BY <2>2, LinksTo
    <3> QED BY <3>1, <3>2, EmptySeq
  <2>5. \A i \in 1..Len(p) : SubSeq(p, 1, i) \in Range(GenerateBreadcrumbs(s))
    <3>1. TAKE i \in 1..Len(p)
    <3>2. i \in 1..k /\ i \in 1..Len(s)
      BY <2>2, <2>3, <2>4, LinksTo
    <3>3. SubSeq(p, 1, i) = SubSeq(s, 1, i)
      BY <2>2, <2>3, <3>2, PrefixOfPrefix
    <3> QED BY <3>2, <3>3 DEF Range, GenerateBreadcrumbs
  <2> QED BY <2>1, <2>4, <2>5 DEF Paths
<1> QED BY <1>1, <1>2, <1>3 DEF Paths

-----------------------------------------------------------------------------
(* The invariant *)

Hashes == Bookmarks \cup Entered \cup {PathHash(p) : p \in Paths \cup {<<>>}}
            \cup {TermHash(t) : t \in Terms}

\* What TypeOK leaves open: the browser's history, and that links are paths.
BrowserTypes ==
    /\ history \in Seq(Hashes) /\ Len(history) <= MaxHistory
    /\ at \in 1..Len(history)
    /\ events \in 0..MaxEvents
    /\ stage \in {"loading", "crippled", "ready"}
    /\ box \in {"hidden", "empty", "filled"}
    /\ searching \in BOOLEAN
    /\ currentPath \in Paths \cup {<<>>}
    /\ breadcrumbsUrls \in Seq(Paths \cup {Hole})
    /\ found \in [Nodes -> 0..2]
    /\ shown \in [Nodes -> 0..2]
    /\ crumbs \in Seq(Paths)

\* What goto left on the page is what the address asks for.
PageFits ==
    Settled =>
      /\ address = NoHash => /\ currentPath = Root
                             /\ shown = Once(SearchByPath[Root])
      /\ address.kind = "path" => /\ currentPath = address.path
                                  /\ shown = Once(SearchByPath[address.path])
                                  /\ breadcrumbsUrls = GenerateBreadcrumbs(address.path)
                                  /\ crumbs \in {<<>>, breadcrumbsUrls}
      /\ address.kind = "search" =>
           \A n \in Nodes : Last(n) \in Matching[address.term] => shown[n] > 0

\* The inductive invariant.
BrowserInv == BrowserTypes /\ PageFits

LEMMA TypesFit == BrowserTypes => TypeOK
<1>1. SUFFICES ASSUME BrowserTypes PROVE TypeOK
  OBVIOUS
<1>2. at \in DOMAIN history
  BY <1>1 DEF BrowserTypes
<1>3. Range(breadcrumbsUrls) \subseteq Paths \cup {Hole}
  BY <1>1, ElementOfSeq, LenProperties DEF BrowserTypes, Range
<1>4. Range(crumbs) \subseteq Paths
  BY <1>1, ElementOfSeq, LenProperties DEF BrowserTypes, Range
<1> QED BY <1>1, <1>2, <1>3, <1>4 DEF BrowserTypes, TypeOK

LEMMA OnceType == ASSUME NEW S PROVE Once(S) \in [Nodes -> 0..2]
BY DEF Once

\* The path of an address is one that occurs.
LEMMA HashPath ==
    ASSUME NEW h \in Hashes, h.kind = "path"
    PROVE  h.path \in Paths
<1>1. CASE h \in Bookmarks \cup Entered
  <2>1. h.path \in Range(GenerateBreadcrumbs(h.path))
    BY <1>1, AddressAssumption, LinksTo
  <2> QED BY <1>1, <2>1 DEF Paths
<1>2. ASSUME NEW p \in Paths \cup {<<>>}, h = PathHash(p) PROVE h.path \in Paths
  BY <1>2 DEF PathHash, NoHash
<1>3. ASSUME NEW t \in Terms, h = TermHash(t) PROVE FALSE
  BY <1>3 DEF TermHash
<1> QED BY <1>1, <1>2, <1>3 DEF Hashes

LEMMA AddressType == BrowserTypes => address \in Hashes
BY ElementOfSeq DEF BrowserTypes, address

\* The links to a path are paths, and none is a hole.
LEMMA LinksType ==
    ASSUME NEW p \in Paths
    PROVE  /\ GenerateBreadcrumbs(p) \in Seq(Paths)
           /\ GenerateBreadcrumbs(p) \in Seq(Paths \ {Hole})
<1>1. p \in Seq(Names) \ {<<>>} /\ Len(p) \in Nat
  BY PathsGoUp, LinksTo
<1>2. \A i \in 1..Len(p) : SubSeq(p, 1, i) \in Paths
  BY PathsGoUp
<1>3. Paths = Paths \ {Hole}
  BY PathsGoUp DEF Hole
<1>4. GenerateBreadcrumbs(p) \in Seq(Paths)
  BY <1>1, <1>2 DEF GenerateBreadcrumbs
<1> QED BY <1>3, <1>4

\* Assigning the hash does nothing, or an event will be handled.
LEMMA SetsHash ==
    ASSUME BrowserTypes, NEW h \in Hashes, SetHash(h)
    PROVE  /\ history' \in Seq(Hashes) /\ Len(history') <= MaxHistory
           /\ at' \in 1..Len(history')
           /\ events' \in 0..MaxEvents
           /\ \/ h = address /\ UNCHANGED browser
              \/ h # address /\ events' # 0
<1>1. CASE h = address
  BY <1>1 DEF SetHash, BrowserTypes, browser
<1>2. CASE h # address
  <2>1. PICK s : s = SubSeq(history, 1, at)
    OBVIOUS
  <2>2. Len(history) \in Nat /\ \A i \in 1..at : history[i] \in Hashes
    BY ElementOfSeq DEF BrowserTypes
  <2>3. s \in Seq(Hashes) /\ Len(s) = at /\ at \in Nat
    BY <2>1, <2>2, SubSeqProperties DEF BrowserTypes
  <2>4. history' = Append(s, h) /\ at' = at + 1 /\ at < MaxHistory
        /\ events < MaxEvents /\ events' = events + 1
    BY <1>2, <2>1 DEF SetHash
  <2>5. history' \in Seq(Hashes) /\ Len(history') = at + 1
    BY <2>3, <2>4, AppendProperties
  <2> QED BY <1>2, <2>3, <2>4, <2>5, BoundAssumption DEF BrowserTypes
<1> QED BY <1>1, <1>2

-----------------------------------------------------------------------------
(* goto *)

\* goto keeps the types ...
LEMMA GotoTypes ==
    ASSUME BrowserTypes, Goto
    PROVE  /\ currentPath' \in Paths \cup {<<>>}
           /\ breadcrumbsUrls' \in Seq(Paths \cup {Hole})
           /\ found' \in [Nodes -> 0..2]
           /\ shown' \in [Nodes -> 0..2]
           /\ searching' \in BOOLEAN
           /\ crumbs' \in Seq(Paths)
<1>1. ASSUME breadcrumbsUrls' \in Seq(Paths \cup {Hole}), NEW list, Render(list)
      PROVE  crumbs' \in Seq(Paths)
  <2>1. Drawn(breadcrumbsUrls)' \in Seq(Paths)
    BY <1>1, DrawnLinks
  <2> QED BY <1>1, <2>1 DEF Render
<1>2. CASE GotoSearch
  <2>1. found' \in [Nodes -> 0..2]
    BY <1>2 DEF GotoSearch, SearchData, BrowserTypes
  <2> QED BY <1>1, <1>2, <2>1 DEF GotoSearch, BrowserTypes, Render
<1>3. CASE GotoPath
  <2>1. address.path \in Paths
    BY <1>3, AddressType, HashPath DEF GotoPath
  <2>2. breadcrumbsUrls' \in Seq(Paths \cup {Hole})
    BY <1>3, <2>1, LinksType, SeqMonotonic DEF GotoPath
  <2> QED BY <1>1, <1>3, <2>1, <2>2, OnceType DEF GotoPath, BrowserTypes, Render
<1>4. CASE GotoRoot
  <2>1. Root \in Paths
    BY TreeAssumption DEF Paths, Nodes
  <2>2. breadcrumbsUrls' \in Seq(Paths \cup {Hole})
    BY <1>4, <2>1, AppendProperties DEF GotoRoot, BrowserTypes
  <2> QED BY <1>1, <1>4, <2>1, <2>2, OnceType DEF GotoRoot, BrowserTypes, Render
<1>5. CASE GotoThrows
  BY <1>5 DEF GotoThrows, BrowserTypes, screen
<1> QED BY <1>2, <1>3, <1>4, <1>5 DEF Goto

\* ... and shows what its address asks for.
LEMMA GotoFits ==
    ASSUME BrowserTypes, Goto, UNCHANGED <<history, at>>
    PROVE  PageFits'
<1>1. address' = address
  BY DEF address
<1>2. CASE GotoSearch
  <2>1. shown' = SearchData(address.term) /\ address.kind = "search"
    BY <1>2 DEF GotoSearch, Render
  <2>2. \A n \in Nodes : Last(n) \in Matching[address.term] => shown'[n] > 0
    BY <2>1 DEF SearchData, BrowserTypes
  <2>3. address # NoHash
    BY <2>1 DEF NoHash
  <2> QED BY <1>1, <2>1, <2>2, <2>3 DEF PageFits
<1>3. CASE GotoPath
  <2>1. address.path \in Paths /\ address.kind = "path"
    BY <1>3, AddressType, HashPath DEF GotoPath
  <2>2. /\ breadcrumbsUrls' = GenerateBreadcrumbs(address.path)
        /\ currentPath' = address.path
        /\ shown' = Once(SearchByPath[address.path])
        /\ crumbs' \in {<<>>, Drawn(breadcrumbsUrls')}
    BY <1>3 DEF GotoPath, Render
  <2>3. Drawn(breadcrumbsUrls') = breadcrumbsUrls'
    <3>1. GenerateBreadcrumbs(address.path) \in Seq(Paths \cup {Hole})
      BY <2>1, LinksType, SeqMonotonic
    <3>2. GenerateBreadcrumbs(address.path) \in Seq(Paths \ {Hole})
      BY <2>1, LinksType
    <3> QED BY <2>2, <3>1, <3>2, DrawnLinks
  <2>4. address # NoHash
    BY <2>1 DEF NoHash
  <2> QED BY <1>1, <2>1, <2>2, <2>3, <2>4 DEF PageFits
<1>4. CASE GotoRoot
  <2>1. address = NoHash /\ address.kind # "path" /\ address.kind # "search"
    BY <1>4 DEF GotoRoot, NoHash
  <2>2. currentPath' = Root /\ shown' = Once(SearchByPath[Root])
    BY <1>4 DEF GotoRoot, Render
  <2> QED BY <1>1, <2>1, <2>2 DEF PageFits
<1>5. CASE GotoThrows
  BY <1>1, <1>5 DEF GotoThrows, PageFits, Settled, Throws
<1> QED BY <1>2, <1>3, <1>4, <1>5 DEF Goto

-----------------------------------------------------------------------------
(* Init and the steps *)

LEMMA InitBrowser == Init => BrowserInv
<1>1. SUFFICES ASSUME Init PROVE BrowserInv
  OBVIOUS
<1>2. PICK h \in Bookmarks : history = <<h>>
  BY <1>1 DEF Init
<1>3. history \in Seq(Hashes) /\ Len(history) = 1 /\ at \in 1..Len(history)
  BY <1>1, <1>2 DEF Init, Hashes
<1>4. breadcrumbsUrls \in Seq(Paths \cup {Hole}) /\ crumbs \in Seq(Paths)
  BY <1>1, EmptySeq DEF Init
<1>5. found \in [Nodes -> 0..2] /\ shown \in [Nodes -> 0..2]
  BY <1>1, OnceType DEF Init
<1>6. Len(history) <= MaxHistory /\ events \in 0..MaxEvents
  BY <1>1, <1>3, BoundAssumption DEF Init
<1>7. BrowserTypes
  BY <1>1, <1>3, <1>4, <1>5, <1>6 DEF Init, BrowserTypes
<1>8. PageFits
  BY <1>1 DEF Init, PageFits, Settled
<1> QED BY <1>7, <1>8 DEF BrowserInv

\* Whoever assigns the hash and leaves the screen, either leaves an event or the
\* address as well.
LEMMA SetHashStep ==
    ASSUME BrowserInv, NEW h \in Hashes, SetHash(h), stage' = stage,
           box' \in {"hidden", "empty", "filled"}, searching' \in BOOLEAN,
           currentPath' \in Paths \cup {<<>>},
           breadcrumbsUrls' \in Seq(Paths \cup {Hole}),
           found' \in [Nodes -> 0..2], UNCHANGED screen,
           h = address /\ Settled => \/ UNCHANGED <<currentPath, breadcrumbsUrls>>
                                     \/ h.kind = "search"
    PROVE  BrowserInv'
<1> USE DEF BrowserInv
<1>1. BrowserTypes'
  BY SetsHash DEF BrowserTypes, screen
<1>2. CASE h # address
  <2>1. events' # 0
    BY <1>2, SetsHash
  <2> QED BY <1>1, <2>1 DEF PageFits, Settled
<1>3. CASE h = address
  <2>1. UNCHANGED <<browser, address>>
    BY <1>3, SetsHash DEF browser, address
  <2>2. Settled' => Settled
    BY <2>1 DEF Settled, browser, Throws
  <2>3. CASE h.kind = "search"
    BY <1>1, <1>3, <2>1, <2>2, <2>3 DEF PageFits, screen, NoHash
  <2>4. CASE UNCHANGED <<currentPath, breadcrumbsUrls>>
    BY <1>1, <1>3, <2>1, <2>2, <2>4 DEF PageFits, screen
  <2>5. CASE ~ Settled
    BY <1>1, <2>2, <2>5 DEF PageFits
  <2> QED BY <1>3, <2>3, <2>4, <2>5
<1> QED BY <1>1, <1>2, <1>3

LEMMA ScanReturnsStep == ASSUME BrowserInv, ScanReturns PROVE BrowserInv'
<1>1. Goto /\ UNCHANGED <<history, at, events, box>>
  BY DEF ScanReturns, browser
<1>2. stage' \in {"crippled", "ready"}
  BY DEF ScanReturns
<1>3. BrowserTypes'
  BY <1>1, <1>2, GotoTypes DEF BrowserInv, BrowserTypes
<1> QED BY <1>1, <1>3, GotoFits DEF BrowserInv

LEMMA HashChangeStep == ASSUME BrowserInv, HashChange PROVE BrowserInv'
<1>1. Goto /\ UNCHANGED <<history, at, stage, box>>
  BY DEF HashChange
<1>2. events' \in 0..MaxEvents
  BY BoundAssumption DEF HashChange, BrowserInv, BrowserTypes
<1>3. BrowserTypes'
  BY <1>1, <1>2, GotoTypes DEF BrowserInv, BrowserTypes
<1> QED BY <1>1, <1>3, GotoFits DEF BrowserInv

LEMMA NavigateStep == ASSUME BrowserInv, Navigate PROVE BrowserInv'
<1>1. at' \in 1..Len(history)
  BY LenProperties DEF Navigate, BrowserInv, BrowserTypes
<1>2. events' \in 0..MaxEvents /\ events' # 0
  BY BoundAssumption DEF Navigate, BrowserInv, BrowserTypes
<1>3. BrowserTypes'
  BY <1>1, <1>2 DEF Navigate, screen, BrowserInv, BrowserTypes
<1>4. PageFits'
  BY <1>2 DEF PageFits, Settled
<1> QED BY <1>3, <1>4 DEF BrowserInv

\* The addresses of paths and terms.
LEMMA PathHashes ==
    /\ \A p \in Paths \cup {<<>>} : PathHash(p) \in Hashes
    /\ \A p \in Paths : PathHash(p).kind = "path" /\ PathHash(p).path = p
    /\ \A p : PathHash(p).kind # "search"
    /\ \A t \in Terms : TermHash(t) \in Hashes
    /\ \A t : TermHash(t).kind = "search"
<1>1. \A p \in Paths : p # <<>>
  BY PathsGoUp
<1> QED BY <1>1 DEF Hashes, PathHash, TermHash, NoHash

LEMMA EnterStep ==
    ASSUME BrowserInv, NEW h \in Entered, EnterAddress(h) PROVE BrowserInv'
<1>1. h \in Hashes /\ SetHash(h) /\ UNCHANGED <<stage, box, searching, currentPath>>
      /\ UNCHANGED <<breadcrumbsUrls, found, screen>>
  BY DEF Hashes, EnterAddress
<1> QED BY <1>1, SetHashStep DEF BrowserInv, BrowserTypes

LEMMA OpenSearchStep == ASSUME BrowserInv, OpenSearch PROVE BrowserInv'
BY DEF OpenSearch, BrowserInv, BrowserTypes, PageFits, Settled, Throws, address, browser,
       screen

LEMMA InputTermStep ==
    ASSUME BrowserInv, NEW t \in Terms, InputTerm(t) PROVE BrowserInv'
<1>1. TermHash(t) \in Hashes /\ TermHash(t).kind = "search" /\ SetHash(TermHash(t))
  BY PathHashes DEF InputTerm
<1>2. /\ UNCHANGED <<stage, currentPath, breadcrumbsUrls, screen>>
      /\ box' = "filled" /\ searching' = TRUE /\ found' \in [Nodes -> 0..2]
  BY OnceType DEF InputTerm
<1> QED BY <1>1, <1>2, SetHashStep DEF BrowserInv, BrowserTypes

LEMMA InputNothingStep == ASSUME BrowserInv, InputNothing PROVE BrowserInv'
<1>1. PathHash(currentPath) \in Hashes /\ SetHash(PathHash(currentPath))
  BY PathHashes DEF InputNothing, BrowserInv, BrowserTypes
<1>2. /\ UNCHANGED <<stage, currentPath, breadcrumbsUrls, screen>>
      /\ box' = "empty" /\ searching' = FALSE /\ found' \in [Nodes -> 0..2]
  BY OnceType DEF InputNothing
<1> QED BY <1>1, <1>2, SetHashStep DEF BrowserInv, BrowserTypes

LEMMA FocusOutStep == ASSUME BrowserInv, FocusOut PROVE BrowserInv'
<1>1. PathHash(currentPath) \in Hashes /\ SetHash(PathHash(currentPath))
  BY PathHashes DEF FocusOut, BrowserInv, BrowserTypes
<1>2. /\ UNCHANGED <<stage, searching, currentPath, breadcrumbsUrls, found, screen>>
      /\ box' = "hidden"
  BY DEF FocusOut
<1> QED BY <1>1, <1>2, SetHashStep DEF BrowserInv, BrowserTypes

\* A folder that is shown is never the one the address names ...
LEMMA FolderLeadsAway ==
    ASSUME BrowserInv, Settled, NEW f \in Folders, shown[f] > 0
    PROVE  PathHash(f) # address
<1>1. SUFFICES ASSUME PathHash(f) = address PROVE FALSE
  OBVIOUS
<1>2. f \in Paths /\ SearchByPath[f] = Items(f) /\ f \notin Items(f) /\ f \in Nodes
  BY FoldersAreFound DEF Nodes
<1>3. address.kind = "path" /\ address.path = f
  BY <1>1, <1>2, PathHashes
<1>4. shown = Once(Items(f))
  BY <1>2, <1>3 DEF BrowserInv, PageFits
<1> QED BY <1>2, <1>4 DEF Once

\* ... and a breadcrumb that is a link never the path of the address: it has fewer
\* names.
LEMMA CrumbLeadsAway ==
    ASSUME BrowserInv, Settled, address.kind = "path",
           NEW i \in Nat \ {0}, i < Len(crumbs)
    PROVE  i \in DOMAIN breadcrumbsUrls /\ breadcrumbsUrls[i] \notin {Hole, address.path}
<1>1. PICK p : p = address.path
  OBVIOUS
<1>2. /\ breadcrumbsUrls = GenerateBreadcrumbs(p)
      /\ crumbs \in {<<>>, breadcrumbsUrls}
  BY <1>1 DEF BrowserInv, PageFits
<1>3. p \in Paths
  BY <1>1, AddressType, HashPath DEF BrowserInv
<1>4. p \in Seq(Names) \ {<<>>} /\ Len(p) \in Nat \ {0} /\ Len(breadcrumbsUrls) = Len(p)
  BY <1>2, <1>3, PathsGoUp, LinksTo
<1>5. i \in 1..Len(p) /\ i < Len(p)
  BY <1>2, <1>4
<1>6. breadcrumbsUrls[i] = SubSeq(p, 1, i) /\ i \in DOMAIN breadcrumbsUrls
  BY <1>2, <1>4, <1>5, LinksTo DEF GenerateBreadcrumbs
<1>7. PICK q : q = SubSeq(p, 1, i)
  OBVIOUS
<1>8. q \in Seq(Names) /\ Len(q) = i
  BY <1>4, <1>5, <1>7, PrefixOf
<1>9. q # Hole /\ q # p
  BY <1>4, <1>5, <1>8 DEF Hole
<1> QED BY <1>1, <1>6, <1>7, <1>9

\* A click on a folder leaves an event.
LEMMA ClickFolderStep ==
    ASSUME BrowserInv, NEW f \in Folders, ClickFolder(f) PROVE BrowserInv'
<1>1. f \in Paths
  BY FoldersAreFound
<1>2. PathHash(f) \in Hashes /\ PathHash(f).kind = "path" /\ PathHash(f).path = f
  BY <1>1, PathHashes
<1>3. SetHash(PathHash(f)) /\ shown[f] > 0 /\ stage' = stage /\ currentPath' = f
      /\ searching' = FALSE /\ UNCHANGED <<found, screen>>
  BY DEF ClickFolder
<1>4. breadcrumbsUrls' \in Seq(Paths \cup {Hole}) /\ box' \in {"hidden", "empty", "filled"}
  <2>1. CASE searching
    <3>1. breadcrumbsUrls' = GenerateBreadcrumbs(f) /\ box' = "hidden"
      BY <2>1 DEF ClickFolder
    <3> QED BY <1>1, <3>1, LinksType, SeqMonotonic
  <2>2. CASE ~ searching
    <3>1. breadcrumbsUrls' = Append(breadcrumbsUrls, f) /\ box' = box
      BY <2>2 DEF ClickFolder
    <3> QED BY <1>1, <3>1, AppendProperties DEF BrowserInv, BrowserTypes
  <2> QED BY <2>1, <2>2
<1>5. ~ (PathHash(f) = address /\ Settled)
  BY <1>3, FolderLeadsAway
<1> QED BY <1>1, <1>2, <1>3, <1>4, <1>5, SetHashStep DEF BrowserInv, BrowserTypes

\* And so does a click on a breadcrumb.
LEMMA ClickCrumbStep ==
    ASSUME BrowserInv, NEW i \in 1..MaxCrumbs, ClickCrumb(i) PROVE BrowserInv'
<1> DEFINE url(j) == IF j \in DOMAIN breadcrumbsUrls THEN breadcrumbsUrls[j] ELSE Hole
<1> DEFINE target == IF url(i) = Hole THEN Undefined ELSE url(i)
<1>1. \A j \in Nat : url(j) \in Paths \cup {Hole}
  BY ElementOfSeq, LenProperties DEF BrowserInv, BrowserTypes
<1>2. i \in Nat \ {0} /\ target \in Paths
  BY <1>1, BoundAssumption DEF Paths
<1>3. PathHash(target) \in Hashes /\ PathHash(target).kind = "path"
      /\ PathHash(target).path = target
  BY <1>2, PathHashes
<1>4. /\ i < Len(crumbs) /\ SetHash(PathHash(target))
      /\ breadcrumbsUrls' = [j \in 1..(i - 1) |-> url(j)]
      /\ UNCHANGED <<stage, box, searching, currentPath, found, screen>>
  BY DEF ClickCrumb
<1>5. breadcrumbsUrls' \in Seq(Paths \cup {Hole})
  <2>1. i - 1 \in Nat /\ \A j \in 1..(i - 1) : url(j) \in Paths \cup {Hole}
    BY <1>1, <1>2
  <2> HIDE DEF url
  <2> QED BY <1>4, <2>1
<1>6. ~ (PathHash(target) = address /\ Settled)
  <2>1. SUFFICES ASSUME PathHash(target) = address, Settled PROVE FALSE
    OBVIOUS
  <2>2. i \in DOMAIN breadcrumbsUrls /\ breadcrumbsUrls[i] \notin {Hole, address.path}
    BY <1>2, <1>3, <1>4, <2>1, CrumbLeadsAway
  <2>3. target = breadcrumbsUrls[i]
    BY <2>2
  <2> QED BY <1>3, <2>1, <2>2, <2>3
<1> HIDE DEF target, url
<1> QED BY <1>2, <1>3, <1>4, <1>5, <1>6, SetHashStep DEF BrowserInv, BrowserTypes

LEMMA BrowserStep == BrowserInv /\ [Next]_vars => BrowserInv'
<1>1. SUFFICES ASSUME BrowserInv, [Next]_vars PROVE BrowserInv'
  OBVIOUS
<1>2. CASE ScanReturns
  BY <1>1, <1>2, ScanReturnsStep
<1>3. CASE HashChange
  BY <1>1, <1>3, HashChangeStep
<1>4. CASE Navigate
  BY <1>1, <1>4, NavigateStep
<1>5. CASE \E h \in Entered : EnterAddress(h)
  BY <1>1, <1>5, EnterStep
<1>6. CASE OpenSearch
  BY <1>1, <1>6, OpenSearchStep
<1>7. CASE \E t \in Terms : InputTerm(t)
  BY <1>1, <1>7, InputTermStep
<1>8. CASE InputNothing
  BY <1>1, <1>8, InputNothingStep
<1>9. CASE FocusOut
  BY <1>1, <1>9, FocusOutStep
<1>10. CASE \E f \in Folders : ClickFolder(f)
  BY <1>1, <1>10, ClickFolderStep
<1>11. CASE \E i \in 1..MaxCrumbs : ClickCrumb(i)
  BY <1>1, <1>11, ClickCrumbStep
<1>12. CASE UNCHANGED vars
  BY <1>1, <1>12 DEF vars, browser, screen, BrowserInv, BrowserTypes, PageFits, Settled,
                     Throws, address
<1> QED BY <1>1, <1>2, <1>3, <1>4, <1>5, <1>6, <1>7, <1>8, <1>9, <1>10, <1>11, <1>12 DEF Next

LEMMA BrowserInvariant == Spec => []BrowserInv
BY InitBrowser, BrowserStep, PTL DEF Spec

-----------------------------------------------------------------------------
\* Every variable keeps its type: every address, every link and every breadcrumb is a
\* path that occurs, for any tree and any history.
THEOREM TypeCorrect == Spec => []TypeOK
<1>1. BrowserInv => TypeOK
  BY TypesFit DEF BrowserInv
<1> QED BY <1>1, BrowserInvariant, PTL

\* Whatever was clicked, typed or gone back to, and however late the events came: when
\* they are handled, the list is the folder of the address, each item once, for trees
\* of any depth (script.js:99-194, 207-226).
THEOREM TheFolderIsShown == Spec => []FolderIsShown
<1>1. BrowserInv => FolderIsShown
  <2>1. SUFFICES ASSUME BrowserInv, Settled, AtFolder
        PROVE  /\ shown = Once({n \in Nodes \ {Root} : Front(n) = FolderAt(address)})
               /\ currentPath = FolderAt(address)
               /\ address # NoHash =>
                    breadcrumbsUrls =
                      [i \in DOMAIN address.path |-> SubSeq(address.path, 1, i)]
    BY DEF FolderIsShown
  <2>2. CASE address = NoHash
    <3>1. SearchByPath[Root] = Items(Root)
      BY TreeAssumption, FoldersAreFound
    <3> QED BY <2>1, <2>2, <3>1 DEF BrowserInv, PageFits, FolderAt, Items
  <2>3. CASE address # NoHash /\ address.kind = "path" /\ address.path \in Folders
    <3>1. SearchByPath[address.path] = Items(address.path)
      BY <2>3, FoldersAreFound
    <3>2. /\ currentPath = address.path /\ shown = Once(SearchByPath[address.path])
          /\ breadcrumbsUrls = GenerateBreadcrumbs(address.path)
      BY <2>1, <2>3 DEF BrowserInv, PageFits
    <3>3. DOMAIN address.path = 1..Len(address.path)
      BY <2>3, NodeIsPath, LenProperties DEF Nodes
    <3> QED BY <2>3, <3>1, <3>2, <3>3 DEF FolderAt, Items, GenerateBreadcrumbs
  <2> QED BY <2>1, <2>2, <2>3 DEF AtFolder
<1> QED BY <1>1, BrowserInvariant, PTL

\* No match of a search is missing from its results (script.js:150-163, 229-249).
THEOREM NoMatchIsMissing == Spec => []NothingIsMissing
<1>1. BrowserInv => NothingIsMissing
  BY DEF BrowserInv, PageFits, NothingIsMissing
<1> QED BY <1>1, BrowserInvariant, PTL

\* At a path, whether it exists or not, a breadcrumb leads to the folder it names
\* (script.js:124-136, 354-365).
THEOREM BreadcrumbsLead == Spec => []CrumbsLead
<1>1. BrowserInv => CrumbsLead
  BY DEF BrowserInv, PageFits, CrumbsLead
<1> QED BY <1>1, BrowserInvariant, PTL

-----------------------------------------------------------------------------
(* The paths at which goto does not throw *)

\* Such paths: searchByPath returns a list.
Listed == {p \in Paths : SearchByPath[p] # NotAList}

\* Once the loop has left the lists, it does not come back.
LEMMA LoopStaysOut ==
    ASSUME NEW top, NEW dir, NEW n \in Nat, NEW g, IsLoop(g, top, dir, n),
           NEW i \in 0..n, g[i] = NotAList
    PROVE  g[n] = NotAList
<1> DEFINE Back == {j \in Nat : j \in i..n /\ g[j] # NotAList}
<1>1. SUFFICES ASSUME Back # {} PROVE FALSE
  OBVIOUS
<1>2. PICK j \in Back : \A k \in Back : j <= k
  BY <1>1, Smallest
<1>3. j \in 1..n /\ j - 1 \in Nat /\ j - 1 \in i..n /\ j - 1 \notin Back
  BY <1>2
<1>4. g[j - 1] = NotAList
  BY <1>3
<1>5. g[j] = Descend(g[j - 1], dir[j])
  BY <1>3 DEF IsLoop
<1>6. g[j] = NotAList
  BY <1>4, <1>5 DEF Descend
<1> QED BY <1>2, <1>6

\* The loop over a beginning of a path does the same as the loop over the path.
LEMMA WalkOfPrefix ==
    ASSUME NEW p \in Seq(Names), NEW i \in 1..Len(p), NEW top, NEW g,
           IsLoop(g, top, p, Len(p))
    PROVE  Walk(top, SubSeq(p, 1, i)) = g[i]
<1>1. PICK q : q = SubSeq(p, 1, i)
  OBVIOUS
<1>2. Len(p) \in Nat /\ \A j \in 1..i : p[j] \in Names
  BY LenProperties
<1>3. Len(q) = i /\ \A j \in 1..i : q[j] = p[j]
  BY <1>1, <1>2, SubSeqProperties
<1>4. PICK h : IsLoop(h, top, q, Len(q)) /\ Walk(top, q) = h[Len(q)]
  BY <1>2, <1>3, WalkIsLoop
<1>5. /\ h[0] = top /\ \A j \in 1..i : h[j] = Descend(h[j - 1], q[j])
      /\ g[0] = top /\ \A j \in 1..i : g[j] = Descend(g[j - 1], p[j])
  <2>1. h[0] = top /\ \A j \in 1..Len(q) : h[j] = Descend(h[j - 1], q[j])
    BY <1>3, <1>4 DEF IsLoop
  <2>2. g[0] = top /\ \A j \in 1..Len(p) : g[j] = Descend(g[j - 1], p[j])
    BY <1>2 DEF IsLoop
  <2> QED BY <1>2, <1>3, <2>1, <2>2
<1> DEFINE Apart == {j \in Nat : j <= i /\ h[j] # g[j]}
<1>6. ASSUME Apart # {} PROVE FALSE
  <2>1. PICK j \in Apart : \A k \in Apart : j <= k
    BY <1>6, Smallest
  <2>2. j # 0
    BY <1>5, <2>1
  <2>3. j \in 1..i /\ j - 1 \in Nat /\ j - 1 <= i /\ j - 1 \notin Apart
    BY <1>2, <2>1, <2>2
  <2>4. h[j - 1] = g[j - 1]
    BY <2>3
  <2> QED BY <1>3, <1>5, <2>1, <2>3, <2>4
<1>7. h[i] = g[i]
  BY <1>2, <1>6
<1> QED BY <1>1, <1>3, <1>4, <1>7

\* What a path goes through is listed when the path is: a file is a dead end.
LEMMA ListedGoUp ==
    ASSUME NEW p \in Listed, NEW i \in 1..Len(p)
    PROVE  SubSeq(p, 1, i) \in Listed
<1>1. p \in Paths /\ SearchByPath[p] # NotAList
  BY DEF Listed
<1>2. p \in Seq(Names) /\ Len(p) \in Nat /\ SubSeq(p, 1, i) \in Paths
  BY <1>1, PathsGoUp, LinksTo
<1>3. PICK g : IsLoop(g, {Root}, p, Len(p)) /\ Walk({Root}, p) = g[Len(p)]
  BY <1>2, WalkIsLoop
<1>4. NotAList # {} /\ NotAList # {Root}
  BY RootIsOneName, NodeIsPath DEF NotAList, Nodes
<1>5. Walk({Root}, p) # NotAList
  BY <1>1, <1>4 DEF SearchByPath
<1>6. g[i] # NotAList
  BY <1>2, <1>3, <1>5, LoopStaysOut
<1>7. Walk({Root}, SubSeq(p, 1, i)) # NotAList
  BY <1>2, <1>3, <1>6, WalkOfPrefix
<1> QED BY <1>2, <1>4, <1>7 DEF SearchByPath, Listed

\* Every folder is listed, and so is the path that a click on a hole leads to.
LEMMA FoldersAreListed == Folders \subseteq Listed
BY FoldersAreFound DEF Listed

LEMMA UndefinedIsListed == Undefined \in Listed
<1>1. Undefined \in Paths
  BY DEF Paths
<1>2. Len(Undefined) = 1
  BY DEF Undefined
<1>3. PICK g : IsLoop(g, {Root}, Undefined, 1) /\ Walk({Root}, Undefined) = g[1]
  <2>1. \E g : IsLoop(g, {Root}, Undefined, Len(Undefined))
               /\ Walk({Root}, Undefined) = g[Len(Undefined)]
    BY <1>2, WalkIsLoop
  <2> QED BY <1>2, <2>1
<1>4. g[0] = {Root} /\ g[1] = Descend(g[0], Undefined[1])
  BY <1>3 DEF IsLoop
<1>5. {Root} # NotAList /\ Items(Root) # NotAList /\ {} # NotAList
  BY RootIsOneName, NodeIsPath, FoldersAreFound DEF NotAList, Nodes
<1>6. Descend({Root}, Undefined[1]) \in {{Root}, Items(Root)}
  <2> DEFINE hit == {n \in {Root} : Last(n) = Undefined[1]}
  <2>1. CASE hit = {}
    BY <1>5, <2>1 DEF Descend
  <2>2. CASE hit # {}
    <3>1. (CHOOSE n \in hit : TRUE) = Root
      BY <2>2
    <3> QED BY <1>5, <2>2, <3>1, RootIsOneName DEF Descend
  <2> QED BY <2>1, <2>2
<1>7. Walk({Root}, Undefined) # NotAList
  BY <1>3, <1>4, <1>5, <1>6
<1> QED BY <1>1, <1>5, <1>7 DEF SearchByPath, Listed

\* The links to a listed path.
LEMMA LinksAreListed ==
    ASSUME NEW p \in Listed
    PROVE  GenerateBreadcrumbs(p) \in Seq(Listed \cup {Hole})
<1>1. p \in Seq(Names) \ {<<>>} /\ Len(p) \in Nat
  BY PathsGoUp, LinksTo DEF Listed
<1>2. \A i \in 1..Len(p) : SubSeq(p, 1, i) \in Listed \cup {Hole}
  BY ListedGoUp
<1> QED BY <1>1, <1>2 DEF GenerateBreadcrumbs

-----------------------------------------------------------------------------
(* The page is a Viewer *)

\* No link of breadcrumbsUrls leads to where goto throws: a breadcrumb that assigns
\* the present hash, and so leaves no event, would change breadcrumbsUrls for good.
LinksAreOpen == breadcrumbsUrls \in Seq(Listed \cup {Hole})

LEMMA OpenGoto ==
    ASSUME BrowserTypes, LinksAreOpen, Goto
    PROVE  LinksAreOpen'
<1>1. CASE GotoPath
  <2>1. address.path \in Listed
    BY <1>1, AddressType, HashPath DEF GotoPath, Listed
  <2> QED BY <1>1, <2>1, LinksAreListed DEF GotoPath, LinksAreOpen
<1>2. CASE GotoRoot
  <2>1. Root \in Listed
    BY FoldersAreListed, RootIsOneName
  <2> QED BY <1>2, <2>1, AppendProperties DEF GotoRoot, LinksAreOpen
<1>3. CASE GotoSearch \/ GotoThrows
  BY <1>3 DEF GotoSearch, GotoThrows, LinksAreOpen
<1> QED BY <1>1, <1>2, <1>3 DEF Goto

LEMMA OpenClickFolder ==
    ASSUME LinksAreOpen, NEW f \in Folders, ClickFolder(f)
    PROVE  LinksAreOpen'
<1>1. f \in Listed
  BY FoldersAreListed
<1>2. CASE searching
  <2>1. breadcrumbsUrls' = GenerateBreadcrumbs(f)
    BY <1>2 DEF ClickFolder
  <2> QED BY <1>1, <2>1, LinksAreListed DEF LinksAreOpen
<1>3. CASE ~ searching
  <2>1. breadcrumbsUrls' = Append(breadcrumbsUrls, f)
    BY <1>3 DEF ClickFolder
  <2> QED BY <1>1, <2>1, AppendProperties DEF LinksAreOpen
<1> QED BY <1>2, <1>3

LEMMA OpenClickCrumb ==
    ASSUME LinksAreOpen, NEW i \in 1..MaxCrumbs, ClickCrumb(i)
    PROVE  LinksAreOpen'
<1> DEFINE url(j) == IF j \in DOMAIN breadcrumbsUrls THEN breadcrumbsUrls[j] ELSE Hole
<1>1. \A j \in Nat : url(j) \in Listed \cup {Hole}
  BY ElementOfSeq, LenProperties DEF LinksAreOpen
<1>2. breadcrumbsUrls' = [j \in 1..(i - 1) |-> url(j)]
  BY DEF ClickCrumb
<1>3. i - 1 \in Nat /\ \A j \in 1..(i - 1) : url(j) \in Listed \cup {Hole}
  BY <1>1, BoundAssumption
<1> HIDE DEF url
<1> QED BY <1>2, <1>3 DEF LinksAreOpen

LEMMA OpenStep == BrowserInv /\ LinksAreOpen /\ [Next]_vars => LinksAreOpen'
<1>1. SUFFICES ASSUME BrowserInv, LinksAreOpen, [Next]_vars PROVE LinksAreOpen'
  OBVIOUS
<1>2. CASE ScanReturns
  BY <1>1, <1>2, OpenGoto DEF ScanReturns, BrowserInv
<1>3. CASE HashChange
  BY <1>1, <1>3, OpenGoto DEF HashChange, BrowserInv
<1>4. CASE \E f \in Folders : ClickFolder(f)
  BY <1>1, <1>4, OpenClickFolder
<1>5. CASE \E i \in 1..MaxCrumbs : ClickCrumb(i)
  BY <1>1, <1>5, OpenClickCrumb
<1>6. ASSUME breadcrumbsUrls' = breadcrumbsUrls PROVE LinksAreOpen'
  BY <1>1, <1>6 DEF LinksAreOpen
<1>7. CASE Navigate \/ OpenSearch \/ InputNothing \/ FocusOut
  BY <1>6, <1>7 DEF Navigate, OpenSearch, InputNothing, FocusOut
<1>8. CASE (\E h \in Entered : EnterAddress(h)) \/ (\E t \in Terms : InputTerm(t))
  BY <1>6, <1>8 DEF EnterAddress, InputTerm
<1>9. CASE UNCHANGED vars
  BY <1>6, <1>9 DEF vars
<1> QED BY <1>1, <1>2, <1>3, <1>4, <1>5, <1>7, <1>8, <1>9 DEF Next

\* What goto renders fits its address.
LEMMA GotoShows ==
    ASSUME BrowserTypes, Goto
    PROVE  \/ Fits(shown', [path |-> currentPath', links |-> breadcrumbsUrls'], address)
           \/ Throws(address) /\ UNCHANGED <<shown, currentPath, breadcrumbsUrls>>
<1> DEFINE place == [path |-> currentPath', links |-> breadcrumbsUrls']
<1>1. CASE GotoSearch
  <2>1. /\ address.kind = "search" /\ address # NoHash
        /\ address.term \in DOMAIN Matching /\ shown' = SearchData(address.term)
    BY <1>1 DEF GotoSearch, Render, NoHash
  <2>2. \A n \in Nodes : Last(n) \in Matching[address.term] => shown'[n] > 0
    BY <2>1 DEF SearchData, BrowserTypes
  <2> QED BY <2>1, <2>2 DEF Fits
<1>2. CASE GotoPath
  <2>1. /\ address.kind = "path" /\ address # NoHash
        /\ shown' = Once(SearchByPath[address.path])
        /\ place.path = address.path /\ place.links = GenerateBreadcrumbs(address.path)
    BY <1>2 DEF GotoPath, Render, NoHash
  <2>2. FolderAt(address) = address.path
    BY <2>1 DEF FolderAt
  <2>3. ASSUME address.path \in Folders
        PROVE  shown' = Once({n \in Nodes \ {Root} : Front(n) = FolderAt(address)})
    BY <2>1, <2>2, <2>3, FoldersAreFound DEF Items
  <2> HIDE DEF place
  <2>4. Fits(shown', place, address)
    BY <2>1, <2>2, <2>3 DEF Fits
  <2> QED BY <2>4 DEF place
<1>3. CASE GotoRoot
  <2>1. /\ address = NoHash /\ address.kind = "none"
        /\ shown' = Once(SearchByPath[Root]) /\ place.path = Root
    BY <1>3 DEF GotoRoot, Render, NoHash
  <2>2. FolderAt(address) = Root
    BY <2>1 DEF FolderAt
  <2>3. shown' = Once({n \in Nodes \ {Root} : Front(n) = FolderAt(address)})
    BY <2>1, <2>2, RootIsOneName, FoldersAreFound DEF Items
  <2> HIDE DEF place
  <2>4. Fits(shown', place, address)
    BY <2>1, <2>2, <2>3 DEF Fits
  <2> QED BY <2>4 DEF place
<1>4. CASE GotoThrows
  BY <1>4 DEF GotoThrows, screen
<1> QED BY <1>1, <1>2, <1>3, <1>4 DEF Goto

\* Whoever assigns the hash names an address, or does nothing to the Viewer.
LEMMA NamesAddress ==
    ASSUME BrowserTypes, NEW h \in Hashes, SetHash(h), UNCHANGED <<stage, shown>>,
           h = address /\ events = 0 => UNCHANGED <<currentPath, breadcrumbsUrls>>
    PROVE  [View!Next]_View!vars
<1>1. CASE h # address \/ events # 0
  <2>1. events' \in 0..MaxEvents /\ events' # 0
    BY <1>1, SetsHash DEF browser, BrowserTypes
  <2>2. events' > 0
    BY <2>1, BoundAssumption
  <2> QED BY <2>2 DEF View!Next, View!Go
<1>2. CASE h = address /\ events = 0
  <2>1. UNCHANGED <<address, stage, events, shown, currentPath, breadcrumbsUrls>>
    BY <1>2, SetsHash DEF browser, address
  <2> QED BY <2>1 DEF View!vars
<1> QED BY <1>1, <1>2

\* A rendering, of the first address or of an event's.
LEMMA RendersAddress ==
    ASSUME BrowserTypes, Goto, UNCHANGED <<history, at>>,
           stage = "loading" \/ events > 0
    PROVE  View!Show
<1>1. address' = address
  BY DEF address
<1>2. \/ Fits(shown', [path |-> currentPath', links |-> breadcrumbsUrls'], address)
      \/ Throws(address) /\ UNCHANGED <<shown, currentPath, breadcrumbsUrls>>
  BY GotoShows
<1> QED BY <1>1, <1>2 DEF View!Show

LEMMA ClickFolderViews ==
    ASSUME BrowserInv, NEW f \in Folders, ClickFolder(f)
    PROVE  [View!Next]_View!vars
<1>1. f \in Paths /\ SearchByPath[f] # NotAList
  BY FoldersAreFound
<1>2. PathHash(f) \in Hashes /\ PathHash(f).kind = "path" /\ PathHash(f).path = f
  BY <1>1, PathHashes
<1>3. SetHash(PathHash(f)) /\ shown[f] > 0 /\ UNCHANGED <<stage, shown>> /\ stage = "ready"
  BY DEF ClickFolder, screen
<1>4. ~ (PathHash(f) = address /\ events = 0)
  <2>1. SUFFICES ASSUME PathHash(f) = address, events = 0 PROVE FALSE
    OBVIOUS
  <2>2. Settled
    BY <1>1, <1>2, <1>3, <2>1 DEF Settled, Throws
  <2> QED BY <1>3, <2>1, <2>2, FolderLeadsAway
<1> QED BY <1>2, <1>3, <1>4, NamesAddress DEF BrowserInv

LEMMA ClickCrumbViews ==
    ASSUME BrowserInv, LinksAreOpen, NEW i \in 1..MaxCrumbs, ClickCrumb(i)
    PROVE  [View!Next]_View!vars
<1> DEFINE url(j) == IF j \in DOMAIN breadcrumbsUrls THEN breadcrumbsUrls[j] ELSE Hole
<1> DEFINE target == IF url(i) = Hole THEN Undefined ELSE url(i)
<1>1. \A j \in Nat : url(j) \in Listed \cup {Hole}
  BY ElementOfSeq, LenProperties DEF LinksAreOpen
<1>2. i \in Nat \ {0} /\ target \in Listed /\ target \in Paths
  BY <1>1, BoundAssumption, UndefinedIsListed DEF Listed
<1>3. PathHash(target) \in Hashes /\ PathHash(target).kind = "path"
      /\ PathHash(target).path = target
  BY <1>2, PathHashes
<1>4. /\ i < Len(crumbs) /\ SetHash(PathHash(target)) /\ stage = "ready"
      /\ UNCHANGED <<stage, shown>>
  BY DEF ClickCrumb, screen
<1>5. ~ (PathHash(target) = address /\ events = 0)
  <2>1. SUFFICES ASSUME PathHash(target) = address, events = 0 PROVE FALSE
    OBVIOUS
  <2>2. Settled
    <3>1. SearchByPath[target] # NotAList
      BY <1>2 DEF Listed
    <3> HIDE DEF target
    <3> QED BY <1>3, <1>4, <2>1, <3>1 DEF Settled, Throws
  <2>3. i \in DOMAIN breadcrumbsUrls /\ breadcrumbsUrls[i] \notin {Hole, address.path}
    BY <1>2, <1>3, <1>4, <2>1, <2>2, CrumbLeadsAway
  <2>4. target = breadcrumbsUrls[i]
    BY <2>3
  <2> QED BY <1>3, <2>1, <2>3, <2>4
<1> HIDE DEF target, url
<1> QED BY <1>3, <1>4, <1>5, NamesAddress DEF BrowserInv

\* Every step of the page is one of the Viewer, or none.
LEMMA ViewStep == BrowserInv /\ LinksAreOpen /\ [Next]_vars => [View!Next]_View!vars
<1>1. SUFFICES ASSUME BrowserInv, LinksAreOpen, [Next]_vars PROVE [View!Next]_View!vars
  OBVIOUS
<1>2. CASE ScanReturns
  BY <1>1, <1>2, RendersAddress DEF ScanReturns, browser, BrowserInv, View!Next
<1>3. CASE HashChange
  BY <1>1, <1>3, RendersAddress DEF HashChange, BrowserInv, View!Next
<1>4. CASE Navigate
  <2>1. events' > 0 /\ shown' = shown
    BY <1>1, <1>4, BoundAssumption DEF Navigate, screen, BrowserInv, BrowserTypes
  <2> QED BY <2>1 DEF View!Next, View!Go
<1>5. CASE \E h \in Entered : EnterAddress(h)
  BY <1>1, <1>5, NamesAddress DEF EnterAddress, Hashes, screen, BrowserInv
<1>6. CASE OpenSearch
  BY <1>6 DEF OpenSearch, browser, screen, address, View!vars
<1>7. CASE \E t \in Terms : InputTerm(t)
  BY <1>1, <1>7, NamesAddress, PathHashes DEF InputTerm, screen, BrowserInv
<1>8. CASE InputNothing \/ FocusOut
  <2>1. PathHash(currentPath) \in Hashes
    BY <1>1, PathHashes DEF BrowserInv, BrowserTypes
  <2> QED BY <1>1, <1>8, <2>1, NamesAddress DEF InputNothing, FocusOut, screen, BrowserInv
<1>9. CASE \E f \in Folders : ClickFolder(f)
  BY <1>1, <1>9, ClickFolderViews
<1>10. CASE \E i \in 1..MaxCrumbs : ClickCrumb(i)
  BY <1>1, <1>10, ClickCrumbViews
<1>11. CASE UNCHANGED vars
  BY <1>11 DEF vars, browser, screen, address, View!vars
<1> QED BY <1>1, <1>2, <1>3, <1>4, <1>5, <1>6, <1>7, <1>8, <1>9, <1>10, <1>11 DEF Next

\* Handler by handler, script.js is a Viewer: only goto changes the list, and it fits
\* the address then; a handler that moves currentPath or breadcrumbsUrls leaves an
\* event whose goto sets them again (script.js:18-194).
THEOREM PageImplementsViewer == Spec => ImplementsViewer
<1>1. Init => View!Init
  BY DEF Init, View!Init
<1>2. Init => LinksAreOpen
  BY EmptySeq DEF Init, LinksAreOpen
<1>3. BrowserInv /\ LinksAreOpen /\ [Next]_vars => [View!Next]_View!vars
  BY ViewStep
<1>4. Spec => []LinksAreOpen
  BY <1>2, OpenStep, BrowserInvariant, PTL DEF Spec
<1> QED BY <1>1, <1>3, <1>4, BrowserInvariant, PTL DEF Spec, View!Spec, ImplementsViewer
=============================================================================
