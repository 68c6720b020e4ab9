----------------------------- MODULE QCast_proofs -----------------------------
(***************************************************************************)
(* Proofs about QCast: the selected paths are routes, share no resources,  *)
(* and leave no request without a path that could still have one; and      *)
(* about RecoveryStudy: what the recovery paths are put together to leads  *)
(* from the source of the request to its destination.                      *)
(***************************************************************************)
EXTENDS RecoveryStudy, SequenceTheorems, FiniteSetTheorems, WellFoundedInduction, TLAPS

(***************************************************************************)
(* Induction                                                               *)
(***************************************************************************)
\* The theorems of the library on induction take an operator. With sets in its
\* place they follow from WFMin: the least number that is not in S.
LEMMA NatSetInduction ==
  ASSUME NEW S \in SUBSET Nat, 0 \in S, \A n \in S : n + 1 \in S
  PROVE  S = Nat
<1> SUFFICES ASSUME Nat \ S # {}
             PROVE  FALSE
  OBVIOUS
<1>1. IsWellFoundedOn(OpToRel(<, Nat), Nat)
  BY NatLessThanWellFounded
<1>2. PICK n \in Nat \ S : \A m \in Nat \ S : <<m, n>> \notin OpToRel(<, Nat)
  BY Zenon, <1>1, WFMin
<1>3. n # 0 /\ n - 1 \in Nat /\ n - 1 < n
  OBVIOUS
<1> DEFINE m == n - 1
<1> HIDE DEF m
<1>4. <<m, n>> \in OpToRel(<, Nat)
  <2>1. <<m, n>>[1] < <<m, n>>[2]
    BY <1>3 DEF m
  <2>2. <<m, n>> \in {ss \in Nat \X Nat : ss[1] < ss[2]}
    BY <1>3, <2>1 DEF m
  <2> QED  BY Zenon, <2>2 DEF OpToRel
<1>5. m \in S
  <2>1. m \in Nat
    BY <1>3 DEF m
  <2> QED  BY Zenon, <1>2, <1>4, <2>1
<1> QED  BY <1>3, <1>5 DEF m

\* The same up to a bound.
LEMMA BoundedInduction ==
  ASSUME NEW n \in Nat, NEW S, 0 \in S, \A i \in 0 .. n - 1 : i \in S => i + 1 \in S
  PROVE  0 .. n \subseteq S
<1> DEFINE T == {i \in Nat : i <= n => i \in S}
<1>1. T \in SUBSET Nat /\ 0 \in T
  OBVIOUS
<1>2. ASSUME NEW i \in T
      PROVE  i + 1 \in T
  <2>1. CASE i + 1 <= n
    BY <2>1
  <2>2. CASE ~(i + 1 <= n)
    BY <2>2
  <2> QED  BY <2>1, <2>2
<1> HIDE DEF T
<1>3. T = Nat
  BY <1>1, <1>2, NatSetInduction
<1> QED  BY <1>3 DEF T

(***************************************************************************)
(* Paths                                                                   *)
(***************************************************************************)
HopByHop(upTo, node, n, links) ==
  upTo = [i \in 0 .. n |-> IF i = 0 THEN {<<node>>} ELSE OneHopMore(upTo[i - 1], links)]

\* The paths of up to n hops are those of up to n - 1 and one hop more.
LEMMA SimplePathsDefined ==
  ASSUME NEW node, NEW n \in Nat, NEW links
  PROVE  \E upTo : HopByHop(upTo, node, n, links) /\ SimplePaths(node, n, links) = upTo[n]
<1> DEFINE Defines(g, m) ==
             g = [i \in 0 .. m |-> IF i = 0 THEN {<<node>>} ELSE OneHopMore(g[i - 1], links)]
           S == {m \in Nat : \E g : Defines(g, m)}
<1>1. S \in SUBSET Nat
  OBVIOUS
<1>2. 0 \in S
  <2> DEFINE g == [i \in 0 .. 0 |-> {<<node>>}]
  <2>1. Defines(g, 0)
    OBVIOUS
  <2> QED  BY <2>1
<1>3. ASSUME NEW m \in S
      PROVE  m + 1 \in S
  <2>1. PICK g : Defines(g, m)
    OBVIOUS
  <2> DEFINE h == [i \in 0 .. m + 1 |-> IF i = m + 1 THEN OneHopMore(g[m], links) ELSE g[i]]
  <2>2. m \in Nat
    OBVIOUS
  <2>3. ASSUME NEW i \in 0 .. m + 1
        PROVE  h[i] = IF i = 0 THEN {<<node>>} ELSE OneHopMore(h[i - 1], links)
    <3>1. CASE i = m + 1
      BY <2>2, <3>1
    <3>2. CASE i \in 0 .. m
      <4>1. g[i] = IF i = 0 THEN {<<node>>} ELSE OneHopMore(g[i - 1], links)
        BY <2>1, <3>2
      <4>2. h[i] = g[i] /\ (i # 0 => h[i - 1] = g[i - 1])
        BY <2>2, <3>2
      <4> QED  BY <4>1, <4>2
    <3> QED  BY <2>2, <3>1, <3>2
  <2>4. Defines(h, m + 1)
    BY <2>3
  <2> HIDE DEF Defines, h
  <2> QED  BY <2>2, <2>4
<1> HIDE DEF S
<1>4. n \in S
  BY <1>1, <1>2, <1>3, NatSetInduction
<1>5. \E g : Defines(g, n)
  BY <1>4 DEF S
<1> DEFINE upTo == CHOOSE g : Defines(g, n)
<1>6. Defines(upTo, n)
  BY <1>5
<1>7. SimplePaths(node, n, links) = upTo[n]
  BY DEF SimplePaths
<1> HIDE DEF upTo
<1> QED  BY <1>6, <1>7 DEF HopByHop

\* A path and the path that is one node longer.
LEMMA LongerPath ==
  ASSUME NEW path \in Seq(Nodes) \ {<<>>}, NEW node \in Nodes
  PROVE  LET next == Append(path, node)
         IN /\ Hops(path) \in Nat
            /\ Len(path) = Hops(path) + 1
            /\ DOMAIN path = 1 .. Hops(path) + 1
            /\ LastNode(path) \in Nodes
            /\ next \in Seq(Nodes) \ {<<>>}
            /\ Hops(next) = Hops(path) + 1
            /\ DOMAIN next = 1 .. Hops(path) + 2
            /\ \A i \in 1 .. Hops(path) + 1 : next[i] = path[i]
            /\ next[Hops(path) + 2] = node
            /\ next[1] = path[1]
            /\ LastNode(next) = node
<1>1. Len(path) \in Nat /\ Len(path) # 0 /\ DOMAIN path = 1 .. Len(path)
  OBVIOUS
<1> DEFINE next == Append(path, node)
<1>2. next \in Seq(Nodes) /\ Len(next) = Len(path) + 1 /\ DOMAIN next = 1 .. Len(next)
  OBVIOUS
<1>3. /\ \A i \in 1 .. Len(path) : next[i] = path[i]
      /\ next[Len(path) + 1] = node
  OBVIOUS
<1>4. next # <<>> /\ path[Len(path)] \in Nodes
  BY <1>1, <1>2
<1> HIDE DEF next
<1>5. Hops(path) = Len(path) - 1 /\ Hops(next) = Len(next) - 1
  BY DEF Hops
<1> QED  BY <1>1, <1>2, <1>3, <1>4, <1>5 DEF LastNode, next

\* The paths SimplePaths finds begin at the node and lead over the links.
LEMMA SimplePathsLead ==
  ASSUME NEW node \in Nodes, NEW n \in Nat, NEW links, NEW path \in SimplePaths(node, n, links)
  PROVE  /\ path \in Seq(Nodes) \ {<<>>}
         /\ path[1] = node
         /\ Hops(path) <= n
         /\ \A i \in 1 .. Hops(path) : <<path[i], path[i + 1]>> \in links
<1> DEFINE Lead(m) == {p \in Seq(Nodes) \ {<<>>} :
                         /\ p[1] = node
                         /\ Hops(p) <= m
                         /\ \A i \in 1 .. Hops(p) : <<p[i], p[i + 1]>> \in links}
<1>1. PICK upTo : HopByHop(upTo, node, n, links) /\ SimplePaths(node, n, links) = upTo[n]
  BY SimplePathsDefined
<1> DEFINE S == {i \in 0 .. n : upTo[i] \subseteq Lead(i)}
<1>2. 0 \in S
  <2>1. upTo[0] = {<<node>>}
    BY <1>1 DEF HopByHop
  <2>2. <<node>> \in Seq(Nodes) \ {<<>>} /\ <<node>>[1] = node /\ Len(<<node>>) = 1
    OBVIOUS
  <2>3. <<node>> \in Lead(0)
    BY <2>2 DEF Hops
  <2> HIDE DEF Lead
  <2> QED  BY <2>1, <2>3
<1>3. ASSUME NEW i \in 0 .. n - 1, i \in S
      PROVE  i + 1 \in S
  <2>1. upTo[i + 1] = OneHopMore(upTo[i], links)
    <3>1. i + 1 \in 0 .. n /\ i + 1 # 0 /\ (i + 1) - 1 = i
      OBVIOUS
    <3> QED  BY <1>1, <3>1 DEF HopByHop
  <2>2. upTo[i] \subseteq Lead(i)
    BY <1>3
  <2>3. ASSUME NEW p \in upTo[i + 1]
        PROVE  p \in Lead(i + 1)
    <3>1. CASE p \in upTo[i]
      <4>1. p \in Lead(i)
        BY <2>2, <3>1
      <4>2. Hops(p) <= i + 1
        BY <4>1 DEF Hops
      <4> QED  BY <4>1, <4>2
    <3>2. CASE p \notin upTo[i]
      <4>1. PICK s \in upTo[i] \X Nodes :
              <<LastNode(s[1]), s[2]>> \in links /\ p = Append(s[1], s[2])
        BY <2>1, <2>3, <3>2 DEF OneHopMore
      <4> DEFINE q == s[1]
                 m == s[2]
      <4>2. q \in Lead(i) /\ m \in Nodes /\ p = Append(q, m) /\ <<LastNode(q), m>> \in links
        BY <2>2, <4>1
      <4> HIDE DEF q, m
      <4>3. q \in Seq(Nodes) \ {<<>>} /\ q[1] = node /\ Hops(q) <= i
        BY <4>2
      <4>4. /\ Hops(q) \in Nat
            /\ Len(q) = Hops(q) + 1
            /\ p \in Seq(Nodes) \ {<<>>}
            /\ Hops(p) = Hops(q) + 1
            /\ \A j \in 1 .. Hops(q) + 1 : p[j] = q[j]
            /\ p[Hops(q) + 2] = m
            /\ p[1] = q[1]
        BY <4>2, <4>3, LongerPath
      <4>5. ASSUME NEW j \in 1 .. Hops(p)
            PROVE  <<p[j], p[j + 1]>> \in links
        <5>1. CASE j = Hops(q) + 1
          <6>1. p[j] = LastNode(q) /\ p[j + 1] = m
            BY <4>4, <5>1 DEF LastNode
          <6> QED  BY <4>2, <6>1
        <5>2. CASE j \in 1 .. Hops(q)
          <6>1. <<q[j], q[j + 1]>> \in links
            BY <4>2, <5>2
          <6>2. p[j] = q[j] /\ p[j + 1] = q[j + 1]
            BY <4>4, <5>2
          <6> QED  BY <6>1, <6>2
        <5>3. j = Hops(q) + 1 \/ j \in 1 .. Hops(q)
          BY <4>4
        <5> QED  BY <5>1, <5>2, <5>3
      <4> QED  BY <4>3, <4>4, <4>5
    <3> QED  BY <3>1, <3>2
  <2> QED  BY <2>3
<1> HIDE DEF S
<1>4. n \in S
  <2>1. 0 .. n \subseteq S
    BY <1>2, <1>3, BoundedInduction
  <2> QED  BY <2>1
<1> QED  BY <1>1, <1>4 DEF S

(***************************************************************************)
(* Labels                                                                  *)
(***************************************************************************)
LEMMA DominatesTransitive ==
  ASSUME NEW a \in Labels, NEW b \in Labels, NEW c \in Labels, Dominates(a, b), Dominates(b, c)
  PROVE  Dominates(a, c)
<1>1. Hops(a.path) \in Int /\ Hops(b.path) \in Int /\ Hops(c.path) \in Int
  BY DEF Labels, Hops
<1> QED  BY <1>1 DEF Labels, Dominates

\* The extension of a label is worse than the label in every respect
\* (CalculateExpectedThroughput, and the minimum for the width).
LEMMA ExtendedIsWorse ==
  ASSUME TypeOK, NEW label \in Labels, WithinHops(label),
         NEW node \in FreeNeighbors(LastNode(label.path))
  PROVE  /\ Extended(label, node) \in Labels
         /\ Extended(label, node).path = Append(label.path, node)
         /\ Hops(label.path) \in Nat
         /\ Hops(Extended(label, node).path) = Hops(label.path) + 1
         /\ LastNode(Extended(label, node).path) = node
         /\ Dominates(label, Extended(label, node))
<1> DEFINE link == <<LastNode(label.path), node>>
           loss == linkLoss[link]
           h == Hops(label.path)
           new == Extended(label, node)
<1>1. node \in Nodes /\ link \in Pairs /\ loss \in Nat
  BY DEF TypeOK, FreeNeighbors, NoLink
<1>2. /\ label.path \in Seq(Nodes) \ {<<>>}
      /\ label.expectedThroughput \in Int
      /\ label.pathWidth \in Int
  BY DEF Labels
<1>3. /\ h \in Nat
      /\ Append(label.path, node) \in Seq(Nodes) \ {<<>>}
      /\ Hops(Append(label.path, node)) = h + 1
      /\ LastNode(Append(label.path, node)) = node
  BY <1>1, <1>2, LongerPath
<1>4. SwapLoss[h] \in Nat /\ SwapLoss[h + 1] \in Nat /\ SwapLoss[h] <= SwapLoss[h + 1]
  <2>1. config.maxHops \in Nat /\ 0 .. config.maxHops \subseteq DOMAIN SwapLoss
    BY SwapAssumption, ConfigAssumption DEF TypeOK
  <2>2. h < config.maxHops
    BY DEF WithinHops
  <2> HIDE DEF h
  <2>3. h \in 0 .. config.maxHops /\ h + 1 \in 0 .. config.maxHops /\ h <= h + 1
    BY <1>3, <2>1, <2>2
  <2> QED  BY <2>1, <2>3, SwapAssumption
<1> HIDE DEF h, loss
<1>5. /\ new.path = Append(label.path, node)
      /\ new.expectedThroughput = label.expectedThroughput - loss + SwapLoss[h] - SwapLoss[h + 1]
      /\ new.pathWidth = IF label.pathWidth <= -loss THEN label.pathWidth ELSE -loss
      /\ new = [path |-> new.path, expectedThroughput |-> new.expectedThroughput,
                pathWidth |-> new.pathWidth]
  BY DEF Extended, CalculateExpectedThroughput, h, loss
<1> HIDE DEF new
<1>6. /\ new.expectedThroughput \in Int /\ new.expectedThroughput <= label.expectedThroughput
      /\ new.pathWidth \in Int /\ new.pathWidth <= label.pathWidth
  <2>1. -loss \in Int
    BY <1>1
  <2>2. new.pathWidth \in Int /\ new.pathWidth <= label.pathWidth
    BY <1>2, <1>5, <2>1
  <2>3. new.expectedThroughput = label.expectedThroughput - loss + SwapLoss[h] - SwapLoss[h + 1]
    BY <1>5
  <2>4. ASSUME NEW t \in Int, NEW l \in Nat, NEW s \in Nat, NEW r \in Nat, s <= r
        PROVE  t - l + s - r \in Int /\ t - l + s - r <= t
    BY <2>4
  <2> QED  BY <1>1, <1>2, <1>4, <2>2, <2>3, <2>4
<1>7. new \in Labels
  BY <1>3, <1>5, <1>6 DEF Labels
<1>8. Dominates(label, new)
  BY <1>2, <1>3, <1>5, <1>6 DEF Dominates, h
<1> QED  BY <1>3, <1>5, <1>7, <1>8 DEF h, new

\* A label that is admitted has not been at the node before, so that its path
\* stays free and simple.
LEMMA AdmittedIsFree ==
  ASSUME IInv, pc = "eda", NEW label \in queue, WithinHops(label), NEW node \in Admitted(label)
  PROVE  IsFree(remaining[index], Extended(label, node).path)
<1> DEFINE path == label.path
           new == Extended(label, node)
<1>1. TypeOK /\ LabelsAreFree /\ NoWayBack
  BY DEF IInv
<1>2. label \in Labels /\ node \in FreeNeighbors(LastNode(path))
  BY <1>1 DEF TypeOK, Admitted
<1>3. /\ new \in Labels
      /\ new.path = Append(path, node)
      /\ Dominates(label, new)
  BY <1>1, <1>2, ExtendedIsWorse
<1>4. path \in Seq(Nodes) \ {<<>>} /\ node \in Nodes
  BY <1>1, <1>2 DEF Labels, FreeNeighbors, TypeOK
<1>5. /\ Hops(path) \in Nat
      /\ Len(path) = Hops(path) + 1
      /\ DOMAIN path = 1 .. Hops(path) + 1
      /\ Hops(new.path) = Hops(path) + 1
      /\ DOMAIN new.path = 1 .. Hops(path) + 2
      /\ \A i \in 1 .. Hops(path) + 1 : new.path[i] = path[i]
      /\ new.path[Hops(path) + 2] = node
      /\ new.path[1] = path[1]
  BY <1>3, <1>4, LongerPath
<1>6. IsFree(remaining[index], path)
  BY <1>1 DEF LabelsAreFree
<1>7. \A i \in DOMAIN path : path[i] # node
  <2> SUFFICES ASSUME NEW i \in DOMAIN path, path[i] = node
               PROVE  FALSE
    OBVIOUS
  <2>1. PICK old \in paretoLabels[node] : Dominates(old, label)
    BY <1>1 DEF NoWayBack
  <2>2. old \in Labels
    BY <1>1, <1>4, <2>1 DEF TypeOK
  <2>3. Dominates(old, new)
    BY <1>2, <1>3, <2>1, <2>2, DominatesTransitive
  <2> QED  BY <2>1, <2>3 DEF Admitted
<1> HIDE DEF path, new
<1>8. ASSUME NEW i \in 1 .. Hops(new.path)
      PROVE  new.path[i + 1] \in FreeNeighbors(new.path[i])
  <2>1. CASE i = Hops(path) + 1
    <3>1. i \in 1 .. Hops(path) + 1 /\ i + 1 = Hops(path) + 2
      BY <1>5, <2>1
    <3>2. new.path[i] = path[Len(path)] /\ new.path[i + 1] = node
      BY <1>5, <2>1, <3>1
    <3> QED  BY <1>2, <3>2 DEF LastNode
  <2>2. CASE i \in 1 .. Hops(path)
    <3>1. new.path[i] = path[i] /\ new.path[i + 1] = path[i + 1]
      BY <1>5, <2>2
    <3> QED  BY <1>6, <2>2, <3>1 DEF IsFree
  <2>3. i = Hops(path) + 1 \/ i \in 1 .. Hops(path)
    BY <1>5
  <2> QED  BY <2>1, <2>2, <2>3
<1>9. ASSUME NEW i \in DOMAIN new.path, NEW j \in DOMAIN new.path, new.path[i] = new.path[j]
      PROVE  i = j
  <2>1. i \in DOMAIN path \/ i = Hops(path) + 2
    BY <1>5
  <2>2. j \in DOMAIN path \/ j = Hops(path) + 2
    BY <1>5
  <2> QED  BY <1>5, <1>6, <1>7, <1>9, <2>1, <2>2 DEF IsFree
<1>10. Hops(new.path) <= config.maxHops
  <2>1. config.maxHops \in Nat
    BY <1>1, ConfigAssumption DEF TypeOK
  <2> QED  BY <1>5, <2>1 DEF WithinHops, path
<1> QED  BY <1>5, <1>6, <1>8, <1>9, <1>10 DEF IsFree, new

(***************************************************************************)
(* The search                                                              *)
(***************************************************************************)
\* A step of the search leaves what is free, and what has been selected.
LEMMA ResourcesKept ==
  ASSUME IInv, UNCHANGED <<tables, paths, base, remaining, resources>>
  PROVE  /\ \A node : FreeNeighbors(node)' = FreeNeighbors(node)
         /\ \A request, path : IsFree(request, path)' = IsFree(request, path)
         /\ \A request : FreePaths(request)' = FreePaths(request)
         /\ NothingUsedIsFree' /\ PathsAreRoutes' /\ NoContention'
<1> USE DEF tables, resources
<1>1. ASSUME NEW node
      PROVE  FreeNeighbors(node)' = FreeNeighbors(node)
  BY DEF FreeNeighbors, IsEdgeAvailable
<1>2. ASSUME NEW request, NEW path
      PROVE  IsFree(request, path)' = IsFree(request, path)
  BY DEF IsFree, FreeNeighbors, IsEdgeAvailable, Hops
<1>3. ASSUME NEW request
      PROVE  FreePaths(request)' = FreePaths(request)
  BY DEF FreePaths, LastNode
<1>4. SelectedPaths' = SelectedPaths
  BY DEF SelectedPaths
<1>5. \A k : AllLinks(k)' = AllLinks(k)
  BY DEF AllLinks
<1>6. \A node : Through(node)' = Through(node)
  BY <1>4 DEF Through
<1>7. NothingUsedIsFree'
  BY <1>4, <1>5, <1>6 DEF IInv, NothingUsedIsFree
<1>8. PathsAreRoutes'
  BY <1>4 DEF IInv, PathsAreRoutes, LastNode, Hops, Links
<1>9. NoContention'
  BY <1>4, <1>5, <1>6 DEF IInv, NoContention
<1> QED  BY <1>1, <1>2, <1>3, <1>7, <1>8, <1>9

\* A label is expanded: the queue and the labels kept change together.
LEMMA ExpandIInv ==
  ASSUME IInv, pc = "eda", NEW label \in queue, LastNode(label.path) # remaining[index][2],
         Expand(label), UNCHANGED <<tables, paths, base, remaining, resources>>
  PROVE  IInv'
<1> DEFINE next == IF WithinHops(label) THEN Admitted(label) ELSE {}
           new(node) == Extended(label, node)
<1>1. /\ queue' = (queue \ {label}) \cup {new(node) : node \in next}
      /\ paretoLabels' =
           [node \in Nodes |->
              IF node \in next THEN WithLabel(paretoLabels[node], new(node))
              ELSE paretoLabels[node]]
      /\ UNCHANGED <<pc, index, bestLabel, bestIndex>>
  BY DEF Expand
<1>2. TypeOK /\ InSearch /\ LabelsAreFree /\ NoWayBack /\ KeptAreExpanded /\ SearchedInVain
  BY DEF IInv
<1>3. /\ label \in Labels
      /\ label.path \in Seq(Nodes) \ {<<>>}
      /\ Hops(label.path) \in Nat
      /\ \A l \in Labels : Dominates(l, l)
  <2>1. label \in Labels
    BY <1>2 DEF TypeOK
  <2>2. label.path \in Seq(Nodes) \ {<<>>}
    BY <2>1 DEF Labels
  <2>3. \A l \in Labels : Hops(l.path) \in Int
    BY DEF Labels, Hops
  <2>4. \A l \in Labels : Dominates(l, l)
    BY <2>3 DEF Dominates, Labels
  <2> QED  BY <2>1, <2>2, <2>4, LongerPath DEF Hops
<1>4. ASSUME NEW node \in next
      PROVE  /\ node \in Nodes
             /\ new(node) \in Labels
             /\ new(node).path = Append(label.path, node)
             /\ Hops(new(node).path) = Hops(label.path) + 1
             /\ LastNode(new(node).path) = node
             /\ Dominates(label, new(node))
             /\ IsFree(remaining[index], new(node).path)
  <2>1. WithinHops(label) /\ node \in Admitted(label) /\ node \in FreeNeighbors(LastNode(label.path))
    BY <1>4 DEF Admitted
  <2>2. node \in Nodes
    BY <1>2, <2>1 DEF TypeOK, FreeNeighbors
  <2> QED  BY <1>2, <1>3, <2>1, <2>2, ExtendedIsWorse, AdmittedIsFree
<1> HIDE DEF next, new
<1>5. ASSUME NEW node \in Nodes, NEW l \in paretoLabels'[node]
      PROVE  l \in paretoLabels[node] \/ (node \in next /\ l = new(node))
  BY <1>1, <1>5 DEF WithLabel
<1>6. \A node \in next : new(node) \in paretoLabels'[node] /\ new(node) \in queue'
  BY <1>1, <1>4 DEF WithLabel
<1>7. ASSUME NEW node \in Nodes, NEW old \in paretoLabels[node]
      PROVE  \E other \in paretoLabels'[node] : Dominates(other, old)
  <2>1. old \in Labels
    BY <1>2 DEF TypeOK
  <2>2. CASE old \in paretoLabels'[node]
    BY <1>3, <2>1, <2>2
  <2>3. CASE old \notin paretoLabels'[node]
    <3>1. node \in next /\ Dominates(new(node), old)
      BY <1>1, <1>7, <2>3 DEF WithLabel
    <3> QED  BY <1>6, <3>1
  <2> QED  BY <2>2, <2>3
<1>8. TypeOK'
  <2>1. queue' \in SUBSET Labels
    BY <1>1, <1>2, <1>4 DEF TypeOK
  <2>2. \A node \in Nodes : paretoLabels'[node] \in SUBSET Labels
    BY <1>2, <1>4, <1>5 DEF TypeOK
  <2>3. paretoLabels' \in [Nodes -> SUBSET Labels]
    BY <1>1, <2>2
  <2> QED  BY <1>1, <1>2, <2>1, <2>3 DEF TypeOK, tables, resources
<1>9. InSearch'
  BY <1>1, <1>2 DEF InSearch
<1>10. ASSUME NEW node \in Nodes, NEW hops \in Int, ReachedWithin(node, hops)
       PROVE  ReachedWithin(node, hops)'
  <2>1. PICK old \in paretoLabels[node] : Hops(old.path) <= hops
    BY <1>10 DEF ReachedWithin
  <2>2. PICK other \in paretoLabels'[node] : Dominates(other, old)
    BY <1>7
  <2>3. old \in Labels /\ other \in Labels
    BY <1>2, <1>8 DEF TypeOK
  <2>4. Hops(old.path) \in Int /\ Hops(other.path) \in Int
    BY <2>3 DEF Labels, Hops
  <2>5. Hops(other.path) <= hops
    BY <2>1, <2>2, <2>4 DEF Dominates
  <2> QED  BY <2>5 DEF ReachedWithin, Hops
<1>11. LabelsAreFree'
  <2>1. \A l \in queue' : IsFree(remaining[index], l.path)
    BY <1>1, <1>2, <1>4 DEF LabelsAreFree
  <2> QED  BY <1>1, <1>2, <2>1, ResourcesKept DEF LabelsAreFree, LastNode
<1>12. NoWayBack'
  <2> SUFFICES ASSUME NEW l \in queue', NEW i \in DOMAIN l.path
               PROVE  \E other \in paretoLabels'[l.path[i]] : Dominates(other, l)
    BY DEF NoWayBack, Dominates, Hops
  <2>1. l \in Labels /\ l.path \in Seq(Nodes)
    BY <1>8 DEF TypeOK, Labels
  <2>2. l.path[i] \in Nodes
    BY <2>1
  <2>3. ASSUME NEW m \in Labels, NEW old \in paretoLabels[l.path[i]],
               Dominates(old, m), Dominates(m, l)
        PROVE  \E other \in paretoLabels'[l.path[i]] : Dominates(other, l)
    <3>1. PICK other \in paretoLabels'[l.path[i]] : Dominates(other, old)
      BY <1>7, <2>2
    <3>2. old \in Labels /\ other \in Labels
      BY <1>2, <1>8, <2>2 DEF TypeOK
    <3>3. Dominates(old, l)
      BY <2>1, <2>3, <3>2, DominatesTransitive
    <3>4. Dominates(other, l)
      BY <2>1, <3>1, <3>2, <3>3, DominatesTransitive
    <3> QED  BY <3>4
  <2>4. CASE l \in queue
    <3>1. PICK old \in paretoLabels[l.path[i]] : Dominates(old, l)
      BY <1>2, <2>4 DEF NoWayBack
    <3> QED  BY <1>3, <2>1, <2>3, <3>1
  <2>5. ASSUME NEW node \in next, l = new(node)
        PROVE  \E other \in paretoLabels'[l.path[i]] : Dominates(other, l)
    <3>1. /\ DOMAIN label.path = 1 .. Hops(label.path) + 1
          /\ DOMAIN l.path = 1 .. Hops(label.path) + 2
          /\ \A j \in 1 .. Hops(label.path) + 1 : l.path[j] = label.path[j]
          /\ l.path[Hops(label.path) + 2] = node
      <4>1. node \in Nodes /\ l.path = Append(label.path, node)
        BY <1>4, <2>5
      <4> QED  BY <1>3, <4>1, LongerPath
    <3>2. CASE i \in DOMAIN label.path
      <4>1. l.path[i] = label.path[i]
        BY <3>1, <3>2
      <4>2. PICK old \in paretoLabels[label.path[i]] : Dominates(old, label)
        BY <1>2, <3>2 DEF NoWayBack
      <4> QED  BY <1>3, <1>4, <2>3, <2>5, <4>1, <4>2
    <3>3. CASE i = Hops(label.path) + 2
      BY <1>3, <1>6, <2>1, <2>5, <3>1, <3>3
    <3>4. i \in DOMAIN label.path \/ i = Hops(label.path) + 2
      BY <1>3, <3>1
    <3> QED  BY <3>2, <3>3, <3>4
  <2> QED  BY <1>1, <2>4, <2>5
<1>13. KeptAreExpanded'
  <2>1. remaining[index] \in Requests
    BY <1>2 DEF TypeOK, InSearch
  <2>2. remaining[index][1] \in Nodes /\ remaining[index][2] \in Nodes
    BY <2>1 DEF Requests
  <2>3. ReachedWithin(remaining[index][1], 0)'
    <3>1. PICK src \in Nodes : src = remaining[index][1]
      BY <2>2
    <3>2. ReachedWithin(src, 0)
      BY <1>2, <3>1 DEF KeptAreExpanded
    <3>3. ReachedWithin(src, 0)'
      BY <1>10, <3>2
    <3>4. remaining'[index'][1] = src
      BY <1>1, <3>1
    <3> QED  BY <3>3, <3>4 DEF ReachedWithin
  <2>4. \A node \in Nodes : \A l \in paretoLabels'[node] : LastNode(l.path) = node
    BY <1>2, <1>4, <1>5 DEF KeptAreExpanded
  <2>5. ASSUME NEW l \in paretoLabels'[remaining[index][2]]
        PROVE  l \in queue'
    <3>1. CASE l \in paretoLabels[remaining[index][2]]
      <4>1. l \in queue /\ LastNode(l.path) = remaining[index][2]
        BY <1>2, <2>2, <3>1 DEF KeptAreExpanded
      <4> QED  BY <1>1, <4>1
    <3> QED  BY <1>5, <1>6, <2>2, <2>5, <3>1
  <2>6. ASSUME NEW node \in Nodes, NEW l \in paretoLabels'[node]
        PROVE  \/ l \in queue'
               \/ ~WithinHops(l)
               \/ \A m \in FreeNeighbors(node) : ReachedWithin(m, Hops(l.path) + 1)'
    <3>1. CASE node \in next /\ l = new(node)
      BY <1>6, <3>1
    <3>2. CASE l \in paretoLabels[node] /\ l # label
      <4>1. \/ l \in queue
            \/ ~WithinHops(l)
            \/ \A m \in FreeNeighbors(node) : ReachedWithin(m, Hops(l.path) + 1)
        BY <1>2, <3>2 DEF KeptAreExpanded
      <4>2. Hops(l.path) + 1 \in Int /\ FreeNeighbors(node) \subseteq Nodes
        <5>1. l \in Labels
          BY <1>2, <3>2 DEF TypeOK
        <5> QED  BY <1>2, <5>1 DEF Labels, Hops, TypeOK, FreeNeighbors
      <4> QED  BY <1>1, <1>10, <3>2, <4>1, <4>2
    <3>3. CASE l \in paretoLabels[node] /\ l = label /\ WithinHops(l)
      <4>1. node = LastNode(label.path)
        BY <1>2, <3>3 DEF KeptAreExpanded
      <4>2. ASSUME NEW m \in FreeNeighbors(node)
            PROVE  ReachedWithin(m, Hops(l.path) + 1)'
        <5>1. m \in Nodes /\ Hops(l.path) + 1 \in Int
          BY <1>2, <1>3, <3>3 DEF TypeOK, FreeNeighbors
        <5>2. CASE m \in next
          <6>1. new(m) \in paretoLabels'[m] /\ Hops(new(m).path) <= Hops(l.path) + 1
            BY <1>3, <1>4, <1>6, <3>3, <5>2
          <6> QED  BY <6>1 DEF ReachedWithin, Hops
        <5>3. CASE m \notin next
          <6>1. PICK old \in paretoLabels[m] : Dominates(old, new(m))
            BY <3>3, <4>1, <5>3 DEF next, new, Admitted
          <6>2. Hops(new(m).path) = Hops(l.path) + 1
            BY <1>2, <1>3, <3>3, <4>1, ExtendedIsWorse DEF new
          <6>3. ReachedWithin(m, Hops(l.path) + 1)
            BY <6>1, <6>2 DEF ReachedWithin, Dominates
          <6> QED  BY <1>10, <5>1, <6>3
        <5> QED  BY <5>2, <5>3
      <4> QED  BY <4>2
    <3> QED  BY <1>5, <2>6, <3>1, <3>2, <3>3
  <2>7. \A l : WithinHops(l)' = WithinHops(l)
    BY DEF WithinHops, Hops, tables
  <2> QED  BY <1>1, <2>3, <2>4, <2>5, <2>6, <2>7, ResourcesKept DEF KeptAreExpanded, LastNode, Hops
<1>14. SearchedInVain'
  BY <1>1, <1>2, ResourcesKept DEF SearchedInVain
<1> QED  BY <1>8, <1>9, <1>11, <1>12, <1>13, <1>14, ResourcesKept DEF IInv

(***************************************************************************)
(* Between two calls, and at the beginning of a search                     *)
(***************************************************************************)
\* What CalculateRoutesGEDA works on is not there, nor a path it has selected.
Settled ==
  /\ pc = "idle"
  /\ queue = {}
  /\ bestLabel = NoLabel
  /\ base = Len(paths)
  /\ remaining = <<>>
  /\ availableNodes = {}
  /\ availableEdges = {}
  /\ remainingCap = [node \in Nodes |-> 0]

LEMMA SettledIInv == TypeOK /\ Settled => IInv
<1> SUFFICES ASSUME TypeOK, Settled
             PROVE  IInv
  OBVIOUS
<1>1. SelectedPaths = {}
  BY DEF SelectedPaths, TypeOK, Settled
<1>2. \A node : Cardinality(Through(node)) = 0
  BY <1>1, FS_EmptySet DEF Through
<1>3. config.capacity \in Nat
  BY ConfigAssumption DEF TypeOK
<1>4. InSearch /\ LabelsAreFree /\ NoWayBack /\ KeptAreExpanded /\ SearchedInVain
  BY DEF Settled, InSearch, LabelsAreFree, NoWayBack, KeptAreExpanded, SearchedInVain
<1>5. NothingUsedIsFree
  BY <1>1, <1>2, <1>3 DEF NothingUsedIsFree, Settled
<1>6. PathsAreRoutes
  BY <1>1 DEF PathsAreRoutes
<1>7. NoContention
  BY <1>1, <1>2, <1>3 DEF NoContention
<1> QED  BY <1>4, <1>5, <1>6, <1>7 DEF IInv

\* The search for a request has only the label of the source.
Begun ==
  /\ pc = "eda"
  /\ index \in DOMAIN remaining
  /\ queue = {SourceLabel(remaining[index][1])}
  /\ paretoLabels = [NoLabels EXCEPT ![remaining[index][1]] = queue]

LEMMA SourceLabelIs ==
  ASSUME NEW src \in Nodes
  PROVE  /\ SourceLabel(src) \in Labels
         /\ SourceLabel(src).path = <<src>>
         /\ Hops(<<src>>) = 0
         /\ LastNode(<<src>>) = src
         /\ DOMAIN <<src>> = {1}
         /\ Dominates(SourceLabel(src), SourceLabel(src))
<1>1. <<src>> \in Seq(Nodes) \ {<<>>} /\ Len(<<src>>) = 1 /\ <<src>>[1] = src /\ DOMAIN <<src>> = {1}
  OBVIOUS
<1>2. SourceLabel(src) = [path |-> <<src>>, expectedThroughput |-> 0, pathWidth |-> 0]
  BY DEF SourceLabel, NoLabel
<1>3. SourceLabel(src) \in Labels
  BY <1>1, <1>2 DEF Labels
<1>4. Hops(<<src>>) = 0 /\ LastNode(<<src>>) = src
  BY <1>1 DEF Hops, LastNode
<1>5. SourceLabel(src).path = <<src>>
  BY <1>2
<1>6. Dominates(SourceLabel(src), SourceLabel(src))
  BY <1>2, <1>4 DEF Dominates
<1> QED  BY <1>1, <1>3, <1>4, <1>5, <1>6

SearchIsSound ==
  /\ \A label \in queue : IsFree(remaining[index], label.path)
  /\ NoWayBack
  /\ KeptAreExpanded

LEMMA BegunSearch == TypeOK /\ Begun => SearchIsSound
<1> SUFFICES ASSUME TypeOK, Begun
             PROVE  SearchIsSound
  OBVIOUS
<1> DEFINE src == remaining[index][1]
           dst == remaining[index][2]
<1>1. src \in Nodes /\ dst \in Nodes /\ src # dst /\ config.maxHops \in Nat
  <2>1. remaining[index] \in Requests
    BY DEF TypeOK, Begun
  <2> QED  BY <2>1, ConfigAssumption DEF Requests, TypeOK
<1>2. queue = {SourceLabel(src)}
  BY DEF Begun
<1>3. \A node \in Nodes : paretoLabels[node] = IF node = src THEN queue ELSE {}
  BY <1>1 DEF Begun, NoLabels
<1>4. /\ SourceLabel(src).path = <<src>>
      /\ Hops(<<src>>) = 0
      /\ LastNode(<<src>>) = src
      /\ DOMAIN <<src>> = {1}
      /\ <<src>>[1] = src
      /\ Dominates(SourceLabel(src), SourceLabel(src))
  BY <1>1, SourceLabelIs
<1>5. IsFree(remaining[index], <<src>>)
  BY <1>1, <1>4 DEF IsFree
<1>6. NoWayBack
  BY <1>1, <1>2, <1>3, <1>4 DEF NoWayBack
<1>7. KeptAreExpanded
  BY <1>1, <1>2, <1>3, <1>4 DEF KeptAreExpanded, ReachedWithin
<1> QED  BY <1>2, <1>4, <1>5, <1>6, <1>7 DEF SearchIsSound

LEMMA InitIInv == Init => IInv
<1> SUFFICES ASSUME Init
             PROVE  IInv
  OBVIOUS
<1>1. TypeOK
  BY DEF Init, TypeOK, NoLink, NoLabels
<1>2. Settled
  BY DEF Init, Settled
<1> QED  BY <1>1, <1>2, SettledIInv

\* An operation that only changes what the protocol has cached: nothing is selected
\* any more.
LEMMA ReturnedIInv ==
  ASSUME IInv, Returned, config' \in Configs, linkLoss' \in [Pairs -> Nat \cup {NoLink}],
         paths' \in {paths, <<>>}, base' = Len(paths')
  PROVE  IInv'
<1>1. TypeOK /\ InSearch
  BY DEF IInv
<1>2. Settled'
  BY <1>1 DEF Returned, Settled, InSearch, search
<1>3. TypeOK'
  <2>1. paths' \in Seq(Range(paths')) /\ base' \in 0 .. Len(paths')
    <3>1. CASE paths' = paths
      <4>1. paths \in Seq(Range(paths))
        BY <1>1 DEF TypeOK
      <4>2. Len(paths) \in Nat
        BY <4>1
      <4> QED  BY <3>1, <4>1, <4>2
    <3>2. CASE paths' = <<>>
      BY <3>2
    <3> QED  BY <3>1, <3>2
  <2> QED  BY <1>1, <2>1 DEF TypeOK, Returned, search
<1>4. (TypeOK /\ Settled => IInv)'
  BY SettledIInv, PTL
<1> QED  BY <1>2, <1>3, <1>4

\* The cache of losses that UpdateTopology, a changed link or the network layer's
\* neighbours leave is one.
LEMMA CacheTypes ==
  ASSUME TypeOK
  PROVE  /\ WithLocalLinks \in [Pairs -> Nat \cup {NoLink}]
         /\ [pair \in Pairs |-> NoLink] \in [Pairs -> Nat \cup {NoLink}]
         /\ \A table \in Tables : table \in [Pairs -> Nat \cup {NoLink}]
         /\ \A pair, loss : loss \in Losses \cup {NoLink} =>
              [linkLoss EXCEPT ![pair] = loss] \in [Pairs -> Nat \cup {NoLink}]
<1>1. WithLocalLinks \in [Pairs -> Nat \cup {NoLink}]
  BY GraphAssumption DEF WithLocalLinks, TypeOK
<1>2. \A pair, loss : loss \in Losses \cup {NoLink} =>
        [linkLoss EXCEPT ![pair] = loss] \in [Pairs -> Nat \cup {NoLink}]
  BY GraphAssumption DEF TypeOK
<1> QED  BY <1>1, <1>2, GraphAssumption

\* A call: everything is there to be selected from, and the first search begins.
LEMMA StartSelectionIInv ==
  ASSUME IInv, pc = "idle", NEW batch \in Seq(Requests) \ {<<>>},
         NEW table \in [Pairs -> Nat \cup {NoLink}], linkLoss' = table,
         StartSelection(batch, table)
  PROVE  IInv'
<1> DEFINE src == batch[1][1]
           edges == {pair \in Pairs : table[pair] # NoLink}
<1>1. TypeOK /\ bestLabel = NoLabel /\ config.capacity \in Nat
  <2>1. TypeOK /\ bestLabel = NoLabel
    BY DEF IInv, InSearch
  <2> QED  BY <2>1, ConfigAssumption DEF TypeOK
<1>2. /\ base' = Len(paths)
      /\ remaining' = batch
      /\ availableEdges' = edges
      /\ availableNodes' = {link[1] : link \in edges} \cup {link[2] : link \in edges}
      /\ remainingCap' = [node \in Nodes |-> config.capacity]
      /\ index' = 1
      /\ queue' = {SourceLabel(src)}
      /\ paretoLabels' = [NoLabels EXCEPT ![src] = {SourceLabel(src)}]
      /\ pc' = "eda"
      /\ UNCHANGED <<config, changes, paths, bestLabel, bestIndex>>
  BY DEF StartSelection, StartSearch
<1>3. src \in Nodes /\ 1 \in DOMAIN batch
  <2>1. 1 \in DOMAIN batch /\ batch[1] \in Requests
    OBVIOUS
  <2> QED  BY <2>1 DEF Requests
<1>4. edges \subseteq Pairs /\ \A link \in edges : link[1] \in Nodes /\ link[2] \in Nodes
  BY GraphAssumption
<1>5. SourceLabel(src) \in Labels
  BY <1>3, SourceLabelIs
<1> HIDE DEF src
<1>6. TypeOK'
  <2>1. availableEdges' \in SUBSET Pairs /\ availableNodes' \in SUBSET Nodes
    BY <1>2, <1>4
  <2>2. remainingCap' \in [Nodes -> Nat]
    BY <1>1, <1>2
  <2>3. queue' \in SUBSET Labels /\ paretoLabels' \in [Nodes -> SUBSET Labels]
    BY <1>2, <1>3, <1>5 DEF NoLabels
  <2>4. Len(paths) \in Nat
    BY <1>1 DEF TypeOK
  <2>5. paths' \in Seq(Range(paths')) /\ base' \in 0 .. Len(paths')
    BY <1>1, <1>2, <2>4 DEF TypeOK
  <2> QED  BY <1>1, <1>2, <2>1, <2>2, <2>3, <2>5 DEF TypeOK
<1>7. Begun'
  BY <1>2, <1>3 DEF Begun, SourceLabel, src
<1>8. (TypeOK /\ Begun => SearchIsSound)'
  BY BegunSearch, PTL
<1>9. SelectedPaths' = {}
  BY <1>1, <1>2 DEF SelectedPaths, TypeOK
<1>10. \A node : Cardinality(Through(node)') = 0
  BY <1>9, FS_EmptySet DEF Through
<1>11. InSearch' /\ LabelsAreFree' /\ SearchedInVain'
  <2>1. InSearch'
    BY <1>1, <1>2, <1>3 DEF InSearch
  <2>2. LabelsAreFree'
    BY <1>1, <1>2, <1>6, <1>7, <1>8 DEF LabelsAreFree, SearchIsSound
  <2>3. SearchedInVain'
    BY <1>2 DEF SearchedInVain
  <2> QED  BY <2>1, <2>2, <2>3
<1>12. NothingUsedIsFree'
  BY <1>1, <1>2, <1>9, <1>10 DEF NothingUsedIsFree
<1>13. PathsAreRoutes'
  BY <1>9 DEF PathsAreRoutes
<1>14. NoContention'
  BY <1>1, <1>2, <1>9, <1>10 DEF NoContention
<1> QED  BY <1>6, <1>7, <1>8, <1>11, <1>12, <1>13, <1>14 DEF IInv, SearchIsSound

\* A search that runs out of labels has reached whatever can be reached: were there
\* a path, each node on it would have a label that took no longer to it.
LEMMA NoFreePath ==
  ASSUME IInv, pc = "eda", queue = {}
  PROVE  FreePaths(remaining[index]) = {}
<1>1. TypeOK /\ InSearch /\ KeptAreExpanded /\ NothingUsedIsFree
  BY DEF IInv
<1> SUFFICES ASSUME NEW path \in FreePaths(remaining[index])
             PROVE  FALSE
  OBVIOUS
<1> DEFINE links == {edge \in availableEdges : edge[2] \in availableNodes}
           S == {i \in 0 .. Hops(path) : ReachedWithin(path[i + 1], i)}
<1>2. config.maxHops \in Nat
  BY <1>1, ConfigAssumption DEF TypeOK
<1>3. remaining[index][1] \in Nodes /\ remaining[index][2] \in Nodes
  <2>1. remaining[index] \in Requests
    BY <1>1 DEF TypeOK, InSearch
  <2> QED  BY <2>1 DEF Requests
<1>4. /\ path \in SimplePaths(remaining[index][1], config.maxHops, links)
      /\ LastNode(path) = remaining[index][2]
  BY DEF FreePaths
<1> HIDE DEF links
<1>5. /\ path \in Seq(Nodes) \ {<<>>}
      /\ path[1] = remaining[index][1]
      /\ Hops(path) <= config.maxHops
      /\ \A i \in 1 .. Hops(path) : <<path[i], path[i + 1]>> \in links
  BY <1>2, <1>3, <1>4, SimplePathsLead
<1>6. Hops(path) \in Nat /\ Len(path) = Hops(path) + 1
  BY <1>5 DEF Hops
<1>7. 0 \in S
  BY <1>1, <1>5, <1>6 DEF KeptAreExpanded
<1>8. ASSUME NEW i \in 0 .. Hops(path) - 1, i \in S
      PROVE  i + 1 \in S
  <2> DEFINE node == path[i + 1]
             next == path[i + 2]
  <2>1. node \in Nodes /\ next \in Nodes
    <3>1. i + 1 \in 1 .. Len(path) /\ i + 2 \in 1 .. Len(path)
      BY <1>6
    <3> QED  BY <1>5, <3>1
  <2>2. next \in FreeNeighbors(node)
    <3>1. <<node, next>> \in links
      <4>1. i + 1 \in 1 .. Hops(path) /\ (i + 1) + 1 = i + 2
        BY <1>6
      <4> QED  BY <1>5, <4>1
    <3>2. <<node, next>> \in availableEdges /\ next \in availableNodes
      BY <3>1 DEF links
    <3>3. <<node, next>> \in Pairs /\ linkLoss[<<node, next>>] # NoLink
      BY <1>1, <3>2 DEF TypeOK, NothingUsedIsFree
    <3> QED  BY <3>2, <3>3 DEF FreeNeighbors, IsEdgeAvailable
  <2>3. PICK label \in paretoLabels[node] : Hops(label.path) <= i
    BY <1>8 DEF ReachedWithin
  <2>4. label \in Labels /\ Hops(label.path) \in Int
    BY <1>1, <2>1, <2>3 DEF TypeOK, Labels, Hops
  <2>5. WithinHops(label)
    BY <1>2, <1>5, <1>6, <2>3, <2>4 DEF WithinHops
  <2>6. ReachedWithin(next, Hops(label.path) + 1)
    BY <1>1, <2>1, <2>2, <2>3, <2>5 DEF KeptAreExpanded
  <2>7. PICK other \in paretoLabels[next] : Hops(other.path) <= Hops(label.path) + 1
    BY <2>6 DEF ReachedWithin
  <2>8. Hops(other.path) \in Int
    BY <1>1, <2>1, <2>7 DEF TypeOK, Labels, Hops
  <2>9. Hops(other.path) <= i + 1
    BY <2>3, <2>4, <2>7, <2>8
  <2>10. ReachedWithin(path[(i + 1) + 1], i + 1)
    <3>1. (i + 1) + 1 = i + 2
      OBVIOUS
    <3> QED  BY <2>7, <2>9, <3>1 DEF ReachedWithin
  <2>11. i + 1 \in 0 .. Hops(path)
    BY <1>6
  <2> QED  BY <2>10, <2>11
<1> HIDE DEF S
<1>9. 0 .. Hops(path) \subseteq S
  BY <1>6, <1>7, <1>8, BoundedInduction
<1>10. ReachedWithin(path[Hops(path) + 1], Hops(path))
  BY <1>6, <1>9 DEF S
<1>11. paretoLabels[remaining[index][2]] # {}
  BY <1>4, <1>6, <1>10 DEF ReachedWithin, LastNode
<1> QED  BY <1>1, <1>11 DEF KeptAreExpanded

\* A search is over, with a path or in vain.
LEMMA SearchDoneIInv ==
  ASSUME IInv, pc = "eda", NEW label,
         \/ label \in queue /\ LastNode(label.path) = remaining[index][2]
         \/ label = NoLabel /\ queue = {},
         SearchDone(label), UNCHANGED <<tables, paths, base, remaining, resources>>
  PROVE  IInv'
<1>1. TypeOK /\ InSearch /\ LabelsAreFree /\ SearchedInVain
  BY DEF IInv
<1>2. index \in DOMAIN remaining /\ remaining # <<>> /\ DOMAIN remaining = 1 .. Len(remaining)
  BY <1>1 DEF InSearch, TypeOK
<1>3. /\ bestLabel' = IF IsBest(label) THEN label ELSE bestLabel
      /\ bestIndex' = IF IsBest(label) THEN index ELSE bestIndex
      /\ UNCHANGED <<config, linkLoss, paths, base, remaining, availableNodes, availableEdges,
                     remainingCap>>
  BY DEF SearchDone, tables, resources
<1>4. IsBest(label) => label \in queue /\ LastNode(label.path) = remaining[index][2]
  BY DEF IsBest
<1>5. bestLabel' \in Labels \cup {NoLabel}
  BY <1>1, <1>3, <1>4 DEF TypeOK
<1>6. bestLabel' # NoLabel =>
        /\ bestIndex' \in DOMAIN remaining
        /\ IsFree(remaining[bestIndex'], bestLabel'.path)
        /\ LastNode(bestLabel'.path) = remaining[bestIndex'][2]
  BY <1>1, <1>2, <1>3, <1>4 DEF InSearch, LabelsAreFree
<1>7. ASSUME bestLabel' = NoLabel
      PROVE  \A i \in DOMAIN remaining : i <= index => FreePaths(remaining[i]) = {}
  <2>1. \A l \in queue : l # NoLabel
    BY <1>1 DEF TypeOK, Labels, NoLabel
  <2>2. ~IsBest(label) /\ bestLabel = NoLabel
    BY <1>3, <1>7 DEF IsBest
  <2>3. queue = {}
    BY <2>1, <2>2 DEF IsBest
  <2>4. FreePaths(remaining[index]) = {}
    BY <2>3, NoFreePath
  <2>5. \A i \in DOMAIN remaining : i < index => FreePaths(remaining[i]) = {}
    BY <1>1, <2>2 DEF SearchedInVain
  <2>6. \A i \in DOMAIN remaining : i <= index => i < index \/ i = index
    BY <1>2
  <2> QED  BY <2>4, <2>5, <2>6
<1>8. bestLabel' # NoLabel =>
         /\ IsFree(remaining[bestIndex], bestLabel.path)'
         /\ LastNode(bestLabel.path)' = remaining'[bestIndex'][2]
  BY <1>3, <1>6 DEF IsFree, FreeNeighbors, IsEdgeAvailable, Hops, LastNode
<1>9. CASE index < Len(remaining)
  <2> DEFINE src == remaining[index + 1][1]
  <2>1. /\ index' = index + 1
        /\ queue' = {SourceLabel(src)}
        /\ paretoLabels' = [NoLabels EXCEPT ![src] = {SourceLabel(src)}]
        /\ pc' = pc
    BY <1>9 DEF SearchDone, StartSearch
  <2>2. index + 1 \in DOMAIN remaining
    BY <1>2, <1>9
  <2>3. src \in Nodes
    <3>1. remaining[index + 1] \in Requests
      BY <1>1, <2>2 DEF TypeOK
    <3> QED  BY <3>1 DEF Requests
  <2>4. SourceLabel(src) \in Labels
    BY <2>3, SourceLabelIs
  <2> HIDE DEF src
  <2>5. TypeOK'
    <3>1. queue' \in SUBSET Labels /\ paretoLabels' \in [Nodes -> SUBSET Labels]
      BY <2>1, <2>3, <2>4 DEF NoLabels
    <3> QED  BY <1>1, <1>3, <1>5, <2>1, <3>1 DEF TypeOK
  <2>6. Begun'
    BY <1>3, <2>1, <2>2 DEF Begun, SourceLabel, src
  <2>7. (TypeOK /\ Begun => SearchIsSound)'
    BY BegunSearch, PTL
  <2>8. InSearch'
    BY <1>1, <1>2, <1>3, <1>6, <2>1, <2>2 DEF InSearch
  <2>9. LabelsAreFree'
    BY <1>8, <2>5, <2>6, <2>7 DEF LabelsAreFree, SearchIsSound
  <2>10. SearchedInVain'
    <3>1. \A i \in DOMAIN remaining : i < index + 1 => i <= index
      BY <1>2
    <3> QED  BY <1>3, <1>7, <2>1, <3>1, ResourcesKept DEF SearchedInVain
  <2> QED  BY <2>5, <2>6, <2>7, <2>8, <2>9, <2>10, ResourcesKept DEF IInv, SearchIsSound
<1>10. CASE ~(index < Len(remaining))
  <2>1. pc' = "select" /\ index' = 0 /\ queue' = {} /\ paretoLabels' = NoLabels
    BY <1>10 DEF SearchDone
  <2>2. TypeOK'
    BY <1>1, <1>3, <1>5, <2>1 DEF TypeOK, NoLabels
  <2>3. InSearch'
    BY <1>2, <1>3, <1>6, <2>1 DEF InSearch
  <2>4. LabelsAreFree'
    BY <1>8, <2>1 DEF LabelsAreFree
  <2>5. NoWayBack' /\ KeptAreExpanded'
    BY <2>1 DEF NoWayBack, KeptAreExpanded
  <2>6. SearchedInVain'
    <3>1. \A i \in DOMAIN remaining : i <= index
      BY <1>2, <1>10
    <3> QED  BY <1>3, <1>7, <2>1, <3>1, ResourcesKept DEF SearchedInVain
  <2> QED  BY <2>2, <2>3, <2>4, <2>5, <2>6, ResourcesKept DEF IInv
<1> QED  BY <1>9, <1>10

(***************************************************************************)
(* What a selected path uses                                               *)
(***************************************************************************)
LEMMA BothWaysIs ==
  ASSUME NEW links \in SUBSET (Nodes \X Nodes)
  PROVE  /\ BothWays(links) \in SUBSET (Nodes \X Nodes)
         /\ \A a, b : <<a, b>> \in BothWays(links) <=> <<a, b>> \in links \/ <<b, a>> \in links
<1>1. ASSUME NEW a, NEW b
      PROVE  <<a, b>> \in BothWays(links) <=> <<a, b>> \in links \/ <<b, a>> \in links
  <2>1. ASSUME <<a, b>> \in BothWays(links), <<a, b>> \notin links
        PROVE  <<b, a>> \in links
    <3>1. PICK link \in links : <<a, b>> = <<link[2], link[1]>>
      BY <2>1 DEF BothWays
    <3>2. link = <<b, a>>
      BY <3>1
    <3> QED  BY <3>2
  <2>2. ASSUME <<b, a>> \in links
        PROVE  <<a, b>> \in BothWays(links)
    <3>1. <<<<b, a>>[2], <<b, a>>[1]>> = <<a, b>>
      OBVIOUS
    <3> QED  BY <2>2, <3>1 DEF BothWays
  <2> QED  BY <2>1, <2>2 DEF BothWays
<1>2. BothWays(links) \in SUBSET (Nodes \X Nodes)
  <2>1. \A link \in links : link[1] \in Nodes /\ link[2] \in Nodes
    OBVIOUS
  <2>2. \A link \in links : <<link[2], link[1]>> \in Nodes \X Nodes
    BY <2>1
  <2> QED  BY <2>2 DEF BothWays
<1> QED  BY <1>1, <1>2

LEMMA MaxOfZeroAnd ==
  ASSUME NEW x \in Int
  PROVE  Max({0, x}) \in Nat /\ (x > 0 => Max({0, x}) = x) /\ (x <= 0 => Max({0, x}) = 0)
<1> DEFINE m == Max({0, x})
<1>1. \E y \in {0, x} : \A z \in {0, x} : y >= z
  <2>1. CASE x > 0
    BY <2>1
  <2>2. CASE ~(x > 0)
    BY <2>2
  <2> QED  BY <2>1, <2>2
<1>2. m \in {0, x} /\ \A z \in {0, x} : m >= z
  BY <1>1 DEF Max
<1> HIDE DEF m
<1>3. m \in Int /\ m >= 0 /\ m >= x
  BY <1>2
<1> QED  BY <1>2, <1>3 DEF m

\* A sequence stays one of its elements when it grows.
LEMMA LongerSequence ==
  ASSUME NEW s, s \in Seq(Range(s)), NEW x
  PROVE  LET t == Append(s, x)
         IN /\ Len(s) \in Nat
            /\ t \in Seq(Range(t))
            /\ Len(t) = Len(s) + 1
            /\ \A i \in 1 .. Len(s) : t[i] = s[i]
            /\ t[Len(s) + 1] = x
<1> DEFINE S == Range(s) \cup {x}
           t == Append(s, x)
<1>1. s \in Seq(S)
  OBVIOUS
<1>2. /\ t \in Seq(S)
      /\ Len(s) \in Nat
      /\ Len(t) = Len(s) + 1
      /\ \A i \in 1 .. Len(s) : t[i] = s[i]
      /\ t[Len(s) + 1] = x
  BY <1>1
<1> HIDE DEF S, t
<1>3. t \in Seq(Range(t))
  BY <1>2 DEF Range
<1> QED  BY <1>2, <1>3 DEF t

LEMMA RemoveAtIs ==
  ASSUME NEW S, NEW s \in Seq(S), NEW i \in DOMAIN s
  PROVE  RemoveAt(s, i) \in Seq(S)
<1>1. i \in 1 .. Len(s) /\ Len(s) \in Nat /\ \A j \in 1 .. Len(s) : s[j] \in S
  OBVIOUS
<1>2. SubSeq(s, 1, i - 1) \in Seq(S)
  <2>1. \A j \in 1 .. i - 1 : s[j] \in S
    BY <1>1
  <2> QED  BY <1>1, <2>1, SubSeqProperties
<1>3. SubSeq(s, i + 1, Len(s)) \in Seq(S)
  <2>1. \A j \in i + 1 .. Len(s) : s[j] \in S
    BY <1>1
  <2> QED  BY <1>1, <2>1, SubSeqProperties
<1> QED  BY <1>2, <1>3, ConcatProperties DEF RemoveAt

\* The links of a path that is free, and of the recovery paths looked for, are
\* free: none is used by another.
LEMMA UsedLinksAreFree ==
  ASSUME TypeOK, NothingUsedIsFree, NEW request, NEW path \in Seq(Nodes) \ {<<>>},
         IsFree(request, path), NEW recovery \in DiscoverRecoveryPaths(path)
  PROVE  /\ UsedLinks(path, recovery) \in SUBSET (Nodes \X Nodes)
         /\ UsedLinks(path, recovery) \subseteq BothWays(availableEdges)
         /\ IsFiniteSet(DOMAIN recovery)
<1>1. /\ availableEdges \in SUBSET (Nodes \X Nodes)
      /\ config.maxHops \in Nat
      /\ availableNodes \in SUBSET Nodes
  BY GraphAssumption, ConfigAssumption DEF TypeOK
<1>2. /\ BothWays(availableEdges) \in SUBSET (Nodes \X Nodes)
      /\ \A a, b : <<a, b>> \in BothWays(availableEdges) <=>
           <<a, b>> \in availableEdges \/ <<b, a>> \in availableEdges
  BY <1>1, BothWaysIs
<1>3. Len(path) \in Nat /\ Hops(path) = Len(path) - 1 /\ Hops(path) <= config.maxHops
  BY DEF Hops, IsFree
<1>4. Links(path) \subseteq BothWays(availableEdges)
  <2> SUFFICES ASSUME NEW i \in 1 .. Hops(path)
               PROVE  <<path[i], path[i + 1]>> \in BothWays(availableEdges)
    BY DEF Links
  <2>1. IsEdgeAvailable(<<path[i], path[i + 1]>>)
    BY DEF IsFree, FreeNeighbors
  <2>2. <<path[i], path[i + 1]>> \in availableEdges \/ <<path[i + 1], path[i]>> \in availableEdges
    BY <2>1 DEF IsEdgeAvailable
  <2> QED  BY <1>2, <2>2
<1>5. DOMAIN recovery \subseteq Spans(path)
      /\ \A span \in DOMAIN recovery : recovery[span] \in Detours(path, span)
  BY DEF DiscoverRecoveryPaths, FindRecoveryPathBFS
<1>6. ASSUME NEW span \in DOMAIN recovery
      PROVE  Links(recovery[span]) \subseteq BothWays(availableEdges)
  <2> DEFINE detour == recovery[span]
             start == path[span[1]]
             links == LinksAround(path, span)
  <2>1. /\ span[1] \in 1 .. Len(path)
        /\ span[2] \in 1 .. Len(path)
        /\ span[1] + 2 <= span[2]
    BY <1>5 DEF Spans
  <2>2. config.maxHops - 1 \in Nat
    BY <1>1, <1>3, <2>1
  <2>3. start \in Nodes
    BY <2>1
  <2>4. detour \in SimplePaths(start, config.maxHops - 1, links)
    BY <1>5 DEF Detours
  <2>5. \A link \in links : link \in BothWays(availableEdges)
    <3> SUFFICES ASSUME NEW link \in links
                 PROVE  link \in BothWays(availableEdges)
      OBVIOUS
    <3>1. link \in Pairs /\ {link, <<link[2], link[1]>>} \cap availableEdges # {}
      BY DEF LinksAround, EdgesAround
    <3>2. link = <<link[1], link[2]>>
      BY <3>1, GraphAssumption
    <3>3. <<link[1], link[2]>> \in availableEdges \/ <<link[2], link[1]>> \in availableEdges
      BY <3>1, <3>2
    <3> QED  BY <1>2, <3>2, <3>3
  <2> HIDE DEF detour, start, links
  <2>6. \A i \in 1 .. Hops(detour) : <<detour[i], detour[i + 1]>> \in links
    BY <2>2, <2>3, <2>4, SimplePathsLead
  <2> QED  BY <2>5, <2>6 DEF Links, detour
<1>7. UsedLinks(path, recovery) \subseteq BothWays(availableEdges)
  BY <1>4, <1>6 DEF UsedLinks
<1>8. IsFiniteSet(DOMAIN recovery)
  <2>1. IsFiniteSet(1 .. Len(path))
    BY <1>3, FS_Interval
  <2>2. IsFiniteSet((1 .. Len(path)) \X (1 .. Len(path)))
    BY <2>1, FS_Product
  <2>3. Spans(path) \subseteq (1 .. Len(path)) \X (1 .. Len(path))
    BY DEF Spans
  <2> QED  BY <1>5, <2>2, <2>3, FS_Subset
<1> QED  BY <1>2, <1>7, <1>8

(***************************************************************************)
(* The selection                                                           *)
(***************************************************************************)
\* A selected path has what it uses to itself, and takes it out of what is free.
LEMMA SelectedHasItsOwn ==
  ASSUME IInv, NEW request \in Requests, NEW path \in Seq(Nodes) \ {<<>>},
         IsFree(request, path), LastNode(path) = request[2],
         NEW recovery \in DiscoverRecoveryPaths(path),
         paths' = Append(paths, [request |-> request, primaryPath |-> path,
                                 recoveryPaths |-> recovery]),
         ConsumeResources(path, recovery), UNCHANGED <<config, linkLoss, base>>
  PROVE  /\ paths' \in Seq(Range(paths'))
         /\ base' \in 0 .. Len(paths')
         /\ availableNodes' \in SUBSET Nodes
         /\ availableEdges' \in SUBSET Pairs
         /\ remainingCap' \in [Nodes -> Nat]
         /\ NothingUsedIsFree' /\ PathsAreRoutes' /\ NoContention'
<1> DEFINE selected == [request |-> request, primaryPath |-> path, recoveryPaths |-> recovery]
           used == UsedLinks(path, recovery)
<1>0. PICK n : n = Len(paths) + 1
  OBVIOUS
<1>1. /\ TypeOK /\ NothingUsedIsFree /\ PathsAreRoutes /\ NoContention
      /\ config.capacity \in Nat
  <2>1. TypeOK /\ NothingUsedIsFree /\ PathsAreRoutes /\ NoContention
    BY DEF IInv
  <2> QED  BY <2>1, ConfigAssumption DEF TypeOK
<1>2. /\ base \in Nat /\ Len(paths) \in Nat /\ base <= Len(paths)
      /\ paths' \in Seq(Range(paths'))
      /\ Len(paths') = n
      /\ \A k \in 1 .. Len(paths) : paths'[k] = paths[k]
      /\ paths'[n] = selected
  <2>1. paths \in Seq(Range(paths)) /\ base \in 0 .. Len(paths)
    BY <1>1 DEF TypeOK
  <2> QED  BY <1>0, <2>1, LongerSequence
<1>3. /\ selected.request = request
      /\ selected.primaryPath = path
      /\ selected.recoveryPaths = recovery
  OBVIOUS
<1> HIDE DEF selected
<1>4. /\ n \notin SelectedPaths
      /\ SelectedPaths' = SelectedPaths \cup {n}
      /\ \A k \in SelectedPaths : paths'[k] = paths[k]
      /\ IsFiniteSet(SelectedPaths)
  <2>1. SelectedPaths = base + 1 .. Len(paths) /\ SelectedPaths' = base + 1 .. n
    BY <1>0, <1>2 DEF SelectedPaths
  <2>2. IsFiniteSet(SelectedPaths)
    BY <1>2, <2>1, FS_Interval
  <2> QED  BY <1>0, <1>2, <2>1, <2>2
<1>5. /\ used \in SUBSET (Nodes \X Nodes)
      /\ used \subseteq BothWays(availableEdges)
      /\ IsFiniteSet(DOMAIN recovery)
  BY <1>1, UsedLinksAreFree
<1>6. /\ availableEdges' = availableEdges \ BothWays(used)
      /\ remainingCap' = [node \in Nodes |-> Max({0, remainingCap[node] - Uses(node, path, recovery)})]
      /\ availableNodes' = {node \in availableNodes : remainingCap[node] = 0 \/ remainingCap'[node] > 0}
  BY DEF ConsumeResources
<1> HIDE DEF used

(* Links *)
<1>7. /\ availableEdges \in SUBSET (Nodes \X Nodes)
      /\ availableEdges' \in SUBSET (Nodes \X Nodes)
      /\ availableEdges' \in SUBSET Pairs
  BY <1>1, <1>6, GraphAssumption DEF TypeOK
<1>8. \A k \in SelectedPaths : AllLinks(k)' = AllLinks(k)
  BY <1>4 DEF AllLinks
<1>9. AllLinks(n)' = BothWays(used)
  <2>1. Range(recovery) = {recovery[span] : span \in DOMAIN recovery}
    BY DEF Range
  <2>2. UNION {Links(p) : p \in {path} \cup Range(recovery)} = used
    BY <2>1 DEF used, UsedLinks
  <2>3. AllLinks(n)' =
          BothWays(UNION {Links(p) : p \in {paths'[n].primaryPath} \cup Range(paths'[n].recoveryPaths)})
    BY DEF AllLinks, BothWays, Links, Hops, Range
  <2> QED  BY <1>2, <1>3, <2>2, <2>3
<1>10. BothWays(used) \subseteq BothWays(availableEdges)
  <2>1. BothWays(used) \in SUBSET (Nodes \X Nodes)
    BY <1>5, BothWaysIs
  <2>2. ASSUME NEW a, NEW b, <<a, b>> \in BothWays(used)
        PROVE  <<a, b>> \in BothWays(availableEdges)
    <3>1. <<a, b>> \in used \/ <<b, a>> \in used
      BY <1>5, <2>2, BothWaysIs
    <3>2. <<a, b>> \in BothWays(availableEdges) \/ <<b, a>> \in BothWays(availableEdges)
      BY <1>5, <3>1
    <3> QED  BY <1>7, <3>2, BothWaysIs
  <2> QED  BY <2>1, <2>2
<1>11. /\ BothWays(availableEdges') \subseteq BothWays(availableEdges)
       /\ BothWays(used) \cap BothWays(availableEdges') = {}
  <2>1. BothWays(availableEdges') \in SUBSET (Nodes \X Nodes)
    BY <1>7, BothWaysIs
  <2>2. ASSUME NEW a, NEW b, <<a, b>> \in BothWays(availableEdges')
        PROVE  <<a, b>> \in BothWays(availableEdges) /\ <<a, b>> \notin BothWays(used)
    <3>1. <<a, b>> \in availableEdges' \/ <<b, a>> \in availableEdges'
      BY <1>7, <2>2, BothWaysIs
    <3>2. <<a, b>> \in availableEdges \ BothWays(used) \/ <<b, a>> \in availableEdges \ BothWays(used)
      BY <1>6, <3>1
    <3>3. <<a, b>> \in BothWays(used) <=> <<b, a>> \in BothWays(used)
      BY <1>5, BothWaysIs
    <3> QED  BY <1>7, <3>2, <3>3, BothWaysIs
  <2> QED  BY <2>1, <2>2
<1>12. \A k \in SelectedPaths' : AllLinks(k)' \cap BothWays(availableEdges') = {}
  BY <1>1, <1>4, <1>8, <1>9, <1>11 DEF NothingUsedIsFree
<1>13. \A k, l \in SelectedPaths' : k # l => AllLinks(k)' \cap AllLinks(l)' = {}
  <2>1. \A k \in SelectedPaths : AllLinks(k) \cap BothWays(used) = {}
    BY <1>1, <1>10 DEF NothingUsedIsFree
  <2> QED  BY <1>1, <1>4, <1>8, <1>9, <2>1 DEF NoContention

(* Capacities *)
<1>14. /\ \A node \in Nodes : Uses(node, path, recovery) \in Nat
       /\ \A node \in Range(path) : Uses(node, path, recovery) > 0
  <2> SUFFICES ASSUME NEW node
               PROVE  /\ Uses(node, path, recovery) \in Nat
                      /\ node \in Range(path) => Uses(node, path, recovery) > 0
    OBVIOUS
  <2> DEFINE S == {span \in DOMAIN recovery :
                     node \in {recovery[span][i] : i \in DOMAIN recovery[span]}}
  <2>1. IsFiniteSet(S)
    BY <1>5, FS_Subset
  <2> HIDE DEF S
  <2>2. Cardinality(S) \in Nat
    BY <2>1, FS_CardinalityType
  <2>3. Uses(node, path, recovery) = (IF node \in Range(path) THEN 1 ELSE 0) + Cardinality(S)
    BY DEF Uses, S, Range
  <2> QED  BY <2>2, <2>3
<1>15. ASSUME NEW node \in Nodes
       PROVE  /\ remainingCap[node] \in Nat
              /\ remainingCap'[node] \in Nat
              /\ remainingCap'[node] <= remainingCap[node]
              /\ node \in Range(path) /\ remainingCap[node] > 0 =>
                   remainingCap'[node] + 1 <= remainingCap[node]
  <2> DEFINE u == Uses(node, path, recovery)
             r == remainingCap[node]
  <2>1. r \in Nat /\ u \in Nat /\ (node \in Range(path) => u > 0)
    BY <1>1, <1>14 DEF TypeOK
  <2>2. remainingCap'[node] = Max({0, r - u})
    BY <1>6
  <2> HIDE DEF u, r
  <2>3. r - u \in Int
    BY <2>1
  <2>4. /\ Max({0, r - u}) \in Nat
        /\ r - u > 0 => Max({0, r - u}) = r - u
        /\ r - u <= 0 => Max({0, r - u}) = 0
    BY <2>3, MaxOfZeroAnd
  <2> QED  BY <2>1, <2>2, <2>4 DEF r
<1>16. remainingCap' \in [Nodes -> Nat]
  BY <1>6, <1>15
<1>17. availableNodes' \in SUBSET Nodes
  BY <1>1, <1>6 DEF TypeOK
<1>18. ASSUME NEW node \in Nodes
       PROVE  /\ Through(node)' = Through(node) \cup
                   (IF node \in Range(path) \ {request[1]} THEN {n} ELSE {})
              /\ IsFiniteSet(Through(node))
              /\ n \notin Through(node)
  <2>1. Through(node)' = {k \in SelectedPaths' :
                            node \in Range(paths'[k].primaryPath) \ {paths'[k].request[1]}}
    BY DEF Through, Range
  <2>2. Through(node) \subseteq SelectedPaths
    BY DEF Through
  <2>3. IsFiniteSet(Through(node)) /\ n \notin Through(node)
    BY <1>4, <2>2, FS_Subset
  <2>4. Through(node)' = Through(node) \cup (IF node \in Range(path) \ {request[1]} THEN {n} ELSE {})
    BY <1>2, <1>3, <1>4, <2>1 DEF Through
  <2> QED  BY <2>3, <2>4
<1>19. ASSUME NEW node \in Range(path) \ {request[1]}
       PROVE  node \in availableNodes
  <2>1. PICK i \in DOMAIN path : node = path[i]
    BY DEF Range
  <2>2. i # 1 /\ i - 1 \in 1 .. Hops(path) /\ (i - 1) + 1 = i
    <3>1. path[1] = request[1]
      BY DEF IsFree
    <3> QED  BY <2>1, <3>1 DEF Hops
  <2>3. path[i] \in FreeNeighbors(path[i - 1])
    BY <2>2 DEF IsFree
  <2> QED  BY <2>1, <2>3 DEF FreeNeighbors
<1>20. ASSUME config.capacity > 0, NEW node \in Nodes
       PROVE  /\ Cardinality(Through(node)') + remainingCap'[node] <= config.capacity
              /\ Cardinality(Through(node)') <= config.capacity
              /\ node \in availableNodes' => remainingCap'[node] > 0
  <2>1. /\ Cardinality(Through(node)) + remainingCap[node] <= config.capacity
        /\ node \in availableNodes => remainingCap[node] > 0
    BY <1>1, <1>20 DEF NothingUsedIsFree
  <2>2. Cardinality(Through(node)) \in Nat
    BY <1>18, FS_CardinalityType
  <2>3. CASE node \in Range(path) \ {request[1]}
    <3>1. Through(node)' = Through(node) \cup {n}
      BY <1>18, <2>3
    <3>2. Cardinality(Through(node)') = Cardinality(Through(node)) + 1
      BY <1>18, <3>1, FS_AddElement
    <3>3. remainingCap'[node] + 1 <= remainingCap[node]
      BY <1>15, <1>19, <2>1, <2>3
    <3>4. /\ remainingCap[node] \in Nat /\ remainingCap'[node] \in Nat
          /\ config.capacity \in Nat
      BY <1>1, <1>15, <1>6
    <3>5. /\ Cardinality(Through(node)') + remainingCap'[node] <= config.capacity
          /\ Cardinality(Through(node)') <= config.capacity
      BY <2>1, <2>2, <3>2, <3>3, <3>4
    <3>6. node \in availableNodes' => remainingCap'[node] > 0
      <4>1. node \in availableNodes' => remainingCap[node] = 0 \/ remainingCap'[node] > 0
        BY <1>6
      <4>2. remainingCap[node] # 0
        BY <3>3, <3>4
      <4> QED  BY <4>1, <4>2
    <3> QED  BY <3>5, <3>6
  <2>4. CASE node \notin Range(path) \ {request[1]}
    <3>1. Through(node)' = Through(node)
      BY <1>18, <2>4
    <3>2. remainingCap[node] \in Nat /\ remainingCap'[node] \in Nat
          /\ remainingCap'[node] <= remainingCap[node]
      BY <1>15
    <3>3. /\ Cardinality(Through(node)) + remainingCap'[node] <= config.capacity
          /\ Cardinality(Through(node)) <= config.capacity
      BY <1>1, <2>1, <2>2, <3>2
    <3>4. node \in availableNodes' => remainingCap'[node] > 0
      BY <1>6, <2>1, <3>2
    <3> QED  BY <3>1, <3>3, <3>4
  <2> QED  BY <2>3, <2>4

(* Together *)
<1>21. NothingUsedIsFree'
  <2>1. \A edge \in availableEdges' : linkLoss[edge] # NoLink
    BY <1>1, <1>6 DEF NothingUsedIsFree
  <2> QED  BY <1>12, <1>20, <2>1 DEF NothingUsedIsFree
<1>22. NoContention'
  BY <1>13, <1>20 DEF NoContention
<1>23. PathsAreRoutes'
  <2>1. <<path[1], LastNode(path)>> = request
    BY DEF IsFree, Requests
  <2>2. \A link \in Links(path) : linkLoss[link] # NoLink
    BY DEF Links, IsFree, FreeNeighbors
  <2>3. Hops(path) <= config.maxHops /\ \A i, j \in DOMAIN path : path[i] = path[j] => i = j
    BY DEF IsFree
  <2>4. \A k \in SelectedPaths' : k \in SelectedPaths \/ k = n
    BY <1>4
  <2> DEFINE IsRoute(selectedPath) ==
               LET p == selectedPath.primaryPath
               IN /\ <<p[1], LastNode(p)>> = selectedPath.request
                  /\ Hops(p) <= config.maxHops
                  /\ \A link \in Links(p) : linkLoss[link] # NoLink
                  /\ \A i, j \in DOMAIN p : p[i] = p[j] => i = j
  <2>5. IsRoute(selected)
    BY <1>3, <2>1, <2>2, <2>3
  <2>6. \A k \in SelectedPaths : IsRoute(paths[k])
    BY <1>1 DEF PathsAreRoutes
  <2> HIDE DEF IsRoute
  <2>7. \A k \in SelectedPaths' : IsRoute(paths'[k])
    BY <1>2, <1>4, <2>4, <2>5, <2>6
  <2> QED  BY <2>7 DEF PathsAreRoutes, IsRoute, LastNode, Hops, Links
<1>24. base' \in 0 .. Len(paths')
  BY <1>0, <1>2
<1> QED  BY <1>2, <1>7, <1>16, <1>17, <1>21, <1>22, <1>23, <1>24

LEMMA SelectIInv ==
  ASSUME IInv, Select
  PROVE  IInv'
<1> DEFINE rest == RemoveAt(remaining, bestIndex)
           path == bestLabel.path
           request == remaining[bestIndex]
<1>1. TypeOK /\ InSearch /\ LabelsAreFree /\ pc = "select" /\ bestLabel # NoLabel
  BY DEF IInv, Select
<1>2. PICK recovery \in DiscoverRecoveryPaths(path) :
        /\ paths' = Append(paths, [request |-> request, primaryPath |-> path,
                                   recoveryPaths |-> recovery])
        /\ ConsumeResources(path, recovery)
        /\ remaining' = rest
        /\ bestLabel' = NoLabel
        /\ bestIndex' = 0
        /\ IF rest = <<>> THEN pc' = "idle" /\ UNCHANGED search
           ELSE pc' = "eda" /\ StartSearch(1, rest)
  BY DEF Select
<1>3. UNCHANGED <<config, linkLoss, base>>
  BY DEF Select, tables
<1>4. /\ bestIndex \in DOMAIN remaining
      /\ request \in Requests
      /\ path \in Seq(Nodes) \ {<<>>}
      /\ rest \in Seq(Requests)
  <2>1. bestIndex \in DOMAIN remaining /\ remaining \in Seq(Requests)
    BY <1>1 DEF InSearch, TypeOK
  <2>2. rest \in Seq(Requests)
    BY <2>1, RemoveAtIs
  <2>3. request \in Requests
    BY <2>1
  <2>4. path \in Seq(Nodes) \ {<<>>}
    BY <1>1 DEF TypeOK, Labels
  <2> QED  BY <2>1, <2>2, <2>3, <2>4
<1>5. IsFree(request, path) /\ LastNode(path) = request[2]
  BY <1>1 DEF LabelsAreFree
<1> HIDE DEF rest, path, request
<1>6. /\ paths' \in Seq(Range(paths'))
      /\ base' \in 0 .. Len(paths')
      /\ availableNodes' \in SUBSET Nodes
      /\ availableEdges' \in SUBSET Pairs
      /\ remainingCap' \in [Nodes -> Nat]
      /\ NothingUsedIsFree' /\ PathsAreRoutes' /\ NoContention'
  BY <1>2, <1>3, <1>4, <1>5, SelectedHasItsOwn
<1>7. CASE rest = <<>>
  <2>1. pc' = "idle" /\ queue' = queue /\ paretoLabels' = paretoLabels /\ queue = {}
    BY <1>1, <1>2, <1>7 DEF search, InSearch
  <2>2. TypeOK'
    BY <1>1, <1>2, <1>3, <1>4, <1>6, <2>1 DEF TypeOK
  <2>3. InSearch' /\ LabelsAreFree' /\ NoWayBack' /\ KeptAreExpanded'
    BY <1>2, <2>1 DEF InSearch, LabelsAreFree, NoWayBack, KeptAreExpanded
  <2>4. SearchedInVain'
    BY <1>2, <1>7 DEF SearchedInVain
  <2> QED  BY <1>6, <2>2, <2>3, <2>4 DEF IInv
<1>8. CASE rest # <<>>
  <2> DEFINE src == rest[1][1]
  <2>1. /\ pc' = "eda"
        /\ index' = 1
        /\ queue' = {SourceLabel(src)}
        /\ paretoLabels' = [NoLabels EXCEPT ![src] = {SourceLabel(src)}]
    BY <1>2, <1>8 DEF StartSearch
  <2>2. 1 \in DOMAIN rest /\ src \in Nodes
    <3>1. 1 \in DOMAIN rest /\ rest[1] \in Requests
      BY <1>4, <1>8
    <3> QED  BY <3>1 DEF Requests
  <2>3. SourceLabel(src) \in Labels
    BY <2>2, SourceLabelIs
  <2> HIDE DEF src
  <2>4. TypeOK'
    <3>1. queue' \in SUBSET Labels /\ paretoLabels' \in [Nodes -> SUBSET Labels]
      BY <2>1, <2>2, <2>3 DEF NoLabels
    <3> QED  BY <1>1, <1>2, <1>3, <1>4, <1>6, <2>1, <3>1 DEF TypeOK
  <2>5. Begun'
    BY <1>2, <2>1, <2>2 DEF Begun, SourceLabel, src
  <2>6. (TypeOK /\ Begun => SearchIsSound)'
    BY BegunSearch, PTL
  <2>7. InSearch' /\ LabelsAreFree'
    BY <1>2, <1>8, <2>1, <2>2, <2>4, <2>5, <2>6 DEF InSearch, LabelsAreFree, SearchIsSound
  <2>8. SearchedInVain'
    BY <1>2, <1>4, <2>1 DEF SearchedInVain
  <2> QED  BY <1>6, <2>4, <2>5, <2>6, <2>7, <2>8 DEF IInv, SearchIsSound
<1> QED  BY <1>7, <1>8

LEMMA StopIInv ==
  ASSUME IInv, Stop
  PROVE  IInv'
<1>1. /\ pc = "select" /\ bestLabel = NoLabel /\ pc' = "idle"
      /\ UNCHANGED <<tables, paths, base, remaining, resources, search, bestLabel, bestIndex>>
  BY DEF Stop
<1>2. TypeOK /\ InSearch /\ SearchedInVain
  BY DEF IInv
<1>3. queue' = {}
  BY <1>1, <1>2 DEF InSearch, search
<1>4. TypeOK'
  BY <1>1, <1>2 DEF TypeOK, tables, resources, search
<1>5. InSearch' /\ LabelsAreFree' /\ NoWayBack' /\ KeptAreExpanded'
  BY <1>1, <1>3 DEF InSearch, LabelsAreFree, NoWayBack, KeptAreExpanded
<1>6. SearchedInVain'
  BY <1>1, <1>2, ResourcesKept DEF SearchedInVain
<1> QED  BY <1>1, <1>4, <1>5, <1>6, ResourcesKept DEF IInv

LEMMA StutterIInv ==
  ASSUME IInv, UNCHANGED vars
  PROVE  IInv'
<1>1. /\ TypeOK /\ InSearch /\ LabelsAreFree /\ NoWayBack /\ KeptAreExpanded /\ SearchedInVain
      /\ UNCHANGED <<tables, paths, base, remaining, resources>>
      /\ UNCHANGED <<pc, index, queue, paretoLabels, bestLabel, bestIndex>>
  BY DEF IInv, vars, tables, resources
<1>2. TypeOK'
  BY <1>1 DEF TypeOK, tables, resources
<1>3. InSearch'
  BY <1>1 DEF InSearch
<1>4. LabelsAreFree'
  BY <1>1, ResourcesKept DEF LabelsAreFree, LastNode, IsFree, FreeNeighbors, IsEdgeAvailable, Hops,
                             tables, resources
<1>5. NoWayBack'
  BY <1>1 DEF NoWayBack, Dominates, Hops
<1>6. KeptAreExpanded'
  BY <1>1 DEF KeptAreExpanded, ReachedWithin, LastNode, WithinHops, FreeNeighbors, IsEdgeAvailable,
              Hops, tables, resources
<1>7. SearchedInVain'
  BY <1>1, ResourcesKept DEF SearchedInVain
<1> QED  BY <1>1, <1>2, <1>3, <1>4, <1>5, <1>6, <1>7, ResourcesKept DEF IInv

LEMMA NextIInv ==
  ASSUME IInv, [Next]_vars
  PROVE  IInv'
<1>1. TypeOK
  BY DEF IInv
<1>2. ASSUME NEW table \in Tables, UpdateTopology(table)
      PROVE  IInv'
  BY <1>1, <1>2, CacheTypes, ReturnedIInv DEF UpdateTopology, ChangeTable, TypeOK
<1>3. ASSUME NEW pair, NEW loss \in Losses \cup {NoLink}, ChangeLink(pair, loss)
      PROVE  IInv'
  BY <1>1, <1>3, CacheTypes, ReturnedIInv DEF ChangeLink, ChangeTable, TypeOK
<1>4. CASE Initialize
  BY <1>1, <1>4, CacheTypes, ReturnedIInv DEF Initialize, TypeOK
<1>5. CASE NotifyTopologyChange
  BY <1>1, <1>5, CacheTypes, ReturnedIInv DEF NotifyTopologyChange, TypeOK
<1>6. CASE SetNetworkLayer
  BY <1>1, <1>6, CacheTypes, ReturnedIInv DEF SetNetworkLayer, ChangeTable, TypeOK
<1>7. CASE DoDispose
  BY <1>1, <1>7, CacheTypes, ReturnedIInv DEF DoDispose, TypeOK
<1>8. ASSUME NEW newConfig \in Configs, SetAttributes(newConfig)
      PROVE  IInv'
  BY <1>1, <1>8, ReturnedIInv DEF SetAttributes, TypeOK
<1>9. ASSUME NEW batch \in Batches, CalculateRoutesGEDA(batch) \/ CalculateRoute(batch[1])
      PROVE  IInv'
  <2>1. batch \in Seq(Requests) \ {<<>>} /\ <<batch[1]>> \in Seq(Requests) \ {<<>>}
    <3>1. batch \in Seq(Nodes \X Nodes) \ {<<>>}
      BY BatchAssumption
    <3>2. \A i \in 1 .. Len(batch) : batch[i] \in Requests
      BY <3>1, BatchAssumption DEF Requests
    <3> QED  BY <3>1, <3>2
  <2>2. CASE CalculateRoutesGEDA(batch)
    BY <1>1, <2>1, <2>2, StartSelectionIInv DEF CalculateRoutesGEDA, TypeOK
  <2>3. CASE CalculateRoute(batch[1])
    <3> DEFINE table == IF initialized THEN linkLoss ELSE WithLocalLinks
    <3>1. table \in [Pairs -> Nat \cup {NoLink}]
      BY <1>1, CacheTypes DEF TypeOK
    <3>2. pc = "idle" /\ linkLoss' = table /\ StartSelection(<<batch[1]>>, table)
      BY <2>3 DEF CalculateRoute
    <3> HIDE DEF table
    <3> QED  BY <2>1, <3>1, <3>2, StartSelectionIInv
  <2> QED  BY <1>9, <2>2, <2>3
<1>10. ASSUME NEW label \in queue, PopLabel(label)
       PROVE  IInv'
  <2>1. pc = "eda" /\ UNCHANGED <<tables, paths, base, remaining, resources>>
    BY <1>10 DEF PopLabel
  <2>2. CASE LastNode(label.path) = remaining[index][2]
    <3>1. SearchDone(label)
      BY <1>10, <2>2 DEF PopLabel
    <3> QED  BY <2>1, <2>2, <3>1, SearchDoneIInv
  <2>3. CASE LastNode(label.path) # remaining[index][2]
    <3>1. Expand(label)
      BY <1>10, <2>3 DEF PopLabel
    <3> QED  BY <2>1, <2>3, <3>1, ExpandIInv
  <2> QED  BY <2>2, <2>3
<1>11. CASE NoPath
  <2>1. /\ pc = "eda" /\ queue = {} /\ SearchDone(NoLabel)
        /\ UNCHANGED <<tables, paths, base, remaining, resources>>
    BY <1>11 DEF NoPath
  <2> QED  BY <2>1, SearchDoneIInv
<1>12. CASE Select
  BY <1>12, SelectIInv
<1>13. CASE Stop
  BY <1>13, StopIInv
<1>14. CASE UNCHANGED vars
  BY <1>14, StutterIInv
<1> QED  BY <1>2, <1>3, <1>4, <1>5, <1>6, <1>7, <1>8, <1>9, <1>10, <1>11, <1>12, <1>13, <1>14
         DEF Next, AddNeighbor, RemoveNeighbor, UpdateLinkMetrics

(***************************************************************************)
(* Theorems                                                                *)
(***************************************************************************)
\* Every reachable state is one IInv describes, for all nodes, tables, batches and
\* attributes.
THEOREM Invariance == Spec => []IInv
<1>1. Init => IInv
  BY InitIInv
<1>2. IInv /\ [Next]_vars => IInv'
  BY NextIInv
<1> QED  BY <1>1, <1>2, PTL DEF Spec

\* The cached losses, the labels and what is left of the resources have their types.
THEOREM TypeCorrect == Spec => []TypeOK
<1>1. IInv => TypeOK
  BY DEF IInv
<1> QED  BY <1>1, Invariance, PTL

\* A selected path leads from the source of its request to the destination over
\* known links, within the hop limit, and visits no node twice (ExtendedDijkstra).
THEOREM SelectedAreRoutes == Spec => []PathsAreRoutes
<1>1. IInv => PathsAreRoutes
  BY DEF IInv
<1> QED  BY <1>1, Invariance, PTL

\* Paths selected together share no link, recovery paths included, and keep to the
\* capacities of the nodes (CalculateRoutesGEDA).
THEOREM ResourcesSuffice == Spec => []NoContention
<1>1. IInv => NoContention
  BY DEF IInv
<1> QED  BY <1>1, Invariance, PTL

\* A request is left without a path only when none is left for it: the search drops
\* dominated labels and stops at the hop limit, and misses no path for that.
THEOREM SelectionIsMaximal == Spec => []GreedyIsMaximal
<1>1. IInv => GreedyIsMaximal
  BY DEF IInv, InSearch, SearchedInVain, GreedyIsMaximal
<1> QED  BY <1>1, Invariance, PTL

(***************************************************************************)
(* Odd and even numbers of links                                           *)
(***************************************************************************)
Odd(S) == Cardinality(S) % 2 = 1

\* The elements of just one of two sets.
Exchange(S, T) == (S \ T) \cup (T \ S)

\* Their number is odd if just one of the two has an odd number.
LEMMA ExchangeIsOdd ==
  ASSUME NEW S, NEW T, IsFiniteSet(S), IsFiniteSet(T)
  PROVE  IsFiniteSet(Exchange(S, T)) /\ (Odd(Exchange(S, T)) <=> ~(Odd(S) <=> Odd(T)))
<1> DEFINE both == S \cap T
           s == Cardinality(S)
           t == Cardinality(T)
           b == Cardinality(both)
<1>1. IsFiniteSet(S \ T) /\ Cardinality(S \ T) = s - b
  BY FS_Difference
<1>2. IsFiniteSet(T \ S) /\ Cardinality(T \ S) = t - b
  <2>1. T \cap S = S \cap T
    OBVIOUS
  <2> QED  BY <2>1, FS_Difference
<1>3. IsFiniteSet(both)
  BY FS_Intersection
<1>4. s \in Nat /\ t \in Nat /\ b \in Nat
  BY <1>3, FS_CardinalityType
<1>5. (S \ T) \cap (T \ S) = {}
  OBVIOUS
<1>6. IsFiniteSet((S \ T) \cup (T \ S))
      /\ Cardinality((S \ T) \cup (T \ S)) = Cardinality(S \ T) + Cardinality(T \ S) - 0
  BY <1>1, <1>2, <1>5, FS_Union, FS_EmptySet
<1> HIDE DEF s, t, b
<1>7. IsFiniteSet(Exchange(S, T)) /\ Cardinality(Exchange(S, T)) = s - b + (t - b) - 0
  BY <1>1, <1>2, <1>6 DEF Exchange
<1>8. s - b + (t - b) - 0 = s + t - 2 * b
  BY <1>4
<1>9. ((s + t - 2 * b) % 2 = 1) <=> ~((s % 2 = 1) <=> (t % 2 = 1))
  BY <1>4
<1> QED  BY <1>7, <1>8, <1>9 DEF Odd, s, t

At(node, links) == {link \in links : node \in link}

LEMMA OneIsOdd ==
  ASSUME NEW x
  PROVE  Odd({x})
<1>1. Cardinality({x}) = 1
  BY FS_Singleton
<1> QED  BY <1>1 DEF Odd

LEMMA ExchangeAt ==
  ASSUME NEW S, NEW T, NEW node
  PROVE  At(node, Exchange(S, T)) = Exchange(At(node, S), At(node, T))
BY DEF At, Exchange

(***************************************************************************)
(* Links of a path                                                         *)
(***************************************************************************)
\* The links of a path between two of its nodes.
Between(path, low, high) == {{path[i], path[i + 1]} : i \in low .. high - 1}

\* An odd number of them meets at the two nodes, an even number at every other.
LEMMA BetweenTwo ==
  ASSUME NEW path, NEW low \in Nat, NEW high \in Nat, low < high,
         \A i, j \in low .. high : path[i] = path[j] => i = j
  PROVE  /\ IsFiniteSet(Between(path, low, high))
         /\ \A node : Odd(At(node, Between(path, low, high))) <=> node \in {path[low], path[high]}
<1> DEFINE links == Between(path, low, high)
           Link(i) == {path[i], path[i + 1]}
<1>1. IsFiniteSet(links)
  <2>1. IsFiniteSet(low .. high - 1)
    BY FS_Interval
  <2> DEFINE f == [i \in low .. high - 1 |-> Link(i)]
  <2>2. links = {f[i] : i \in low .. high - 1}
    BY DEF Between
  <2>3. f \in Surjection(low .. high - 1, links)
    BY <2>2 DEF Surjection
  <2> QED  BY <2>1, <2>3, FS_Surjection
<1> SUFFICES ASSUME NEW node
             PROVE  Odd(At(node, links)) <=> node \in {path[low], path[high]}
  BY <1>1
<1>2. \A i \in low .. high - 1 : i \in low .. high /\ i + 1 \in low .. high
  OBVIOUS
<1>3. \A link : link \in links <=> \E i \in low .. high - 1 : link = Link(i)
  BY DEF Between
<1> HIDE DEF links
<1>4. CASE \A i \in low .. high : node # path[i]
  <2>1. At(node, links) = {}
    BY <1>2, <1>3, <1>4 DEF At
  <2>2. ~Odd(At(node, links))
    BY <2>1, FS_EmptySet DEF Odd
  <2> QED  BY <1>4, <2>2
<1>5. ASSUME NEW i \in low .. high, node = path[i]
      PROVE  Odd(At(node, links)) <=> node \in {path[low], path[high]}
  <2>1. \A j \in low .. high : path[j] = node <=> j = i
    BY <1>5
  <2>2. \A j \in low .. high - 1 : node \in Link(j) <=> j = i \/ j + 1 = i
    BY <1>2, <2>1
  <2>3. CASE i = low
    <3>1. At(node, links) = {Link(i)}
      <4>1. \A j \in low .. high - 1 : node \in Link(j) <=> j = i
        BY <2>2, <2>3
      <4>2. i \in low .. high - 1
        BY <2>3
      <4>3. Link(i) \in links /\ node \in Link(i)
        BY <1>3, <4>1, <4>2
      <4>4. ASSUME NEW link \in At(node, links)
            PROVE  link = Link(i)
        <5>1. PICK j \in low .. high - 1 : link = Link(j)
          BY <1>3, <4>4 DEF At
        <5>2. node \in Link(j)
          BY <4>4, <5>1 DEF At
        <5> QED  BY <4>1, <5>1, <5>2
      <4> HIDE DEF Link
      <4> QED  BY <4>3, <4>4 DEF At
    <3>2. Odd(At(node, links))
      BY <3>1, OneIsOdd
    <3> QED  BY <1>5, <2>3, <3>2
  <2>4. CASE i = high
    <3>1. At(node, links) = {Link(i - 1)}
      <4>1. \A j \in low .. high - 1 : node \in Link(j) <=> j = i - 1
        BY <2>2, <2>4
      <4>2. i - 1 \in low .. high - 1
        BY <2>4
      <4>3. Link(i - 1) \in links /\ node \in Link(i - 1)
        BY <1>3, <4>1, <4>2
      <4>4. ASSUME NEW link \in At(node, links)
            PROVE  link = Link(i - 1)
        <5>1. PICK j \in low .. high - 1 : link = Link(j)
          BY <1>3, <4>4 DEF At
        <5>2. node \in Link(j)
          BY <4>4, <5>1 DEF At
        <5> QED  BY <4>1, <5>1, <5>2
      <4> HIDE DEF Link
      <4> QED  BY <4>3, <4>4 DEF At
    <3>2. Odd(At(node, links))
      BY <3>1, OneIsOdd
    <3> QED  BY <1>5, <2>4, <3>2
  <2>5. CASE i # low /\ i # high
    <3>1. i \in low .. high - 1 /\ i - 1 \in low .. high - 1 /\ i - 1 + 1 = i
          /\ i + 1 \in low .. high /\ i - 1 \in low .. high /\ i + 1 # i - 1 /\ i # i - 1
      BY <2>5
    <3>2. At(node, links) = {Link(i - 1), Link(i)}
      <4>1. \A j \in low .. high - 1 : node \in Link(j) <=> (j = i \/ j = i - 1)
        BY <2>2
      <4>2. node \in Link(i) /\ node \in Link(i - 1)
        BY <3>1, <4>1
      <4>3. ASSUME NEW link \in At(node, links)
            PROVE  link = Link(i - 1) \/ link = Link(i)
        <5>1. PICK j \in low .. high - 1 : link = Link(j)
          BY <1>3, <4>3 DEF At
        <5>2. node \in Link(j)
          BY <4>3, <5>1 DEF At
        <5>3. j = i \/ j = i - 1
          BY <4>1, <5>2
        <5> QED  BY <5>1, <5>3
      <4>4. Link(i) \in links /\ Link(i - 1) \in links
        BY <1>3, <3>1
      <4> QED  BY <4>2, <4>3, <4>4 DEF At
    <3>3. Link(i - 1) # Link(i)
      <4>1. path[i + 1] # path[i - 1] /\ path[i + 1] # path[i]
        BY <3>1
      <4> QED  BY <3>1, <4>1
    <3>4. Cardinality({Link(i - 1), Link(i)}) = 2
      <4>1. IsFiniteSet({Link(i)}) /\ Cardinality({Link(i)}) = 1
        BY FS_Singleton
      <4>2. {Link(i - 1), Link(i)} = {Link(i)} \cup {Link(i - 1)} /\ Link(i - 1) \notin {Link(i)}
        BY <3>3
      <4> HIDE DEF Link
      <4>3. Cardinality({Link(i)} \cup {Link(i - 1)}) = 1 + 1
        BY <4>1, <4>2, FS_AddElement
      <4> QED  BY <4>2, <4>3
    <3>5. ~Odd(At(node, links))
      BY <3>2, <3>4 DEF Odd
    <3>6. node # path[low] /\ node # path[high]
      <4>1. low \in low .. high /\ high \in low .. high
        OBVIOUS
      <4> QED  BY <2>1, <2>5, <4>1
    <3> QED  BY <3>5, <3>6
  <2> QED  BY <2>3, <2>4, <2>5
<1> QED  BY <1>4, <1>5

LEMMA UndirectedBetween ==
  ASSUME NEW path, NEW low, NEW high
  PROVE  Undirected({<<path[i], path[i + 1]>> : i \in low .. high - 1}) = Between(path, low, high)
<1> DEFINE links == {<<path[i], path[i + 1]>> : i \in low .. high - 1}
<1>1. ASSUME NEW i \in low .. high - 1
      PROVE  {path[i], path[i + 1]} \in Undirected(links)
  <2>1. <<path[i], path[i + 1]>> \in links
    OBVIOUS
  <2>2. {<<path[i], path[i + 1]>>[1], <<path[i], path[i + 1]>>[2]} \in Undirected(links)
    BY <2>1 DEF Undirected
  <2> QED  BY <2>2
<1>2. ASSUME NEW e \in Undirected(links)
      PROVE  e \in Between(path, low, high)
  <2>1. PICK link \in links : e = {link[1], link[2]}
    BY <1>2 DEF Undirected
  <2>2. PICK i \in low .. high - 1 : link = <<path[i], path[i + 1]>>
    OBVIOUS
  <2>3. e = {path[i], path[i + 1]}
    BY <2>1, <2>2
  <2> QED  BY <2>3 DEF Between
<1> HIDE DEF links
<1>3. Between(path, low, high) \subseteq Undirected(links)
  BY <1>1 DEF Between
<1>4. Undirected(links) \subseteq Between(path, low, high)
  BY <1>2
<1>5. Undirected(links) = Between(path, low, high)
  BY <1>3, <1>4
<1> QED  BY <1>5 DEF links

\* The links of a path: an odd number of them meets at its ends.
LEMMA EndsOfPath ==
  ASSUME NEW path, IsSimple(path), path[1] # LastNode(path)
  PROVE  /\ IsFiniteSet(Undirected(Links(path)))
         /\ Undirected(Links(path)) \subseteq Undirected(Pairs)
         /\ \A node : Odd(At(node, Undirected(Links(path)))) <=> node \in {path[1], LastNode(path)}
<1>1. /\ path \in Seq(Nodes) /\ Len(path) \in Nat /\ Len(path) # 0 /\ DOMAIN path = 1 .. Len(path)
      /\ \A i, j \in 1 .. Len(path) : path[i] = path[j] => i = j
  BY DEF IsSimple
<1>2. Len(path) # 1
  BY DEF LastNode
<1> DEFINE last == Len(path)
<1>3. 1 \in Nat /\ last \in Nat /\ 1 < last
  BY <1>1, <1>2
<1>4. Undirected(Links(path)) = Between(path, 1, last)
  <2>1. Links(path) = {<<path[i], path[i + 1]>> : i \in 1 .. last - 1}
    BY DEF Links, Hops
  <2> QED  BY <2>1, UndirectedBetween
<1> HIDE DEF last
<1>5. \A i, j \in 1 .. last : path[i] = path[j] => i = j
  BY <1>1 DEF last
<1>6. /\ IsFiniteSet(Between(path, 1, last))
      /\ \A node : Odd(At(node, Between(path, 1, last))) <=> node \in {path[1], path[last]}
  BY <1>3, <1>5, BetweenTwo
<1>7. Undirected(Links(path)) \subseteq Undirected(Pairs)
  BY DEF IsSimple, Undirected
<1> QED  BY <1>4, <1>6, <1>7 DEF last, LastNode

\* The links of a ring: an even number of them meets at every node.
LEMMA RingIsEven ==
  ASSUME NEW path, NEW ring, IsSimple(path.primaryPath),
         IsRing(path.primaryPath, ring, path.recoveryPaths[ring])
  PROVE  /\ IsFiniteSet(RingLinks(path, ring)) /\ RingLinks(path, ring) \subseteq Undirected(Pairs)
         /\ \A node : ~Odd(At(node, RingLinks(path, ring)))
<1> DEFINE primary == path.primaryPath
           detour == path.recoveryPaths[ring]
           span == Undirected(SpanLinks(primary, ring))
           around == Undirected(Links(detour))
           low == ring[1]
           high == ring[2]
<1>1. /\ Len(primary) \in Nat /\ low \in 1 .. Len(primary) /\ high \in 1 .. Len(primary) /\ low < high
      /\ \A i, j \in 1 .. Len(primary) : primary[i] = primary[j] => i = j
  BY DEF IsRing, IsSimple
<1>2. /\ low \in Nat /\ high \in Nat /\ low .. high \subseteq 1 .. Len(primary)
      /\ low .. high - 1 \subseteq 1 .. Hops(primary)
  BY <1>1 DEF Hops
<1>3. primary[low] # primary[high]
  BY <1>1
<1>4. span = Between(primary, low, high)
  <2>1. SpanLinks(primary, ring) = {<<primary[i], primary[i + 1]>> : i \in low .. high - 1}
    BY DEF SpanLinks
  <2> HIDE DEF primary, low, high
  <2> QED  BY <2>1, UndirectedBetween
<1>5. RingLinks(path, ring) = span \cup around
  BY DEF RingLinks, Undirected
<1>6. span \cap around = {}
  <2>1. ASSUME NEW i \in low .. high - 1, NEW link \in Links(detour),
               {primary[i], primary[i + 1]} = {link[1], link[2]}
        PROVE  FALSE
    <3>1. <<primary[i], primary[i + 1]>> \in SpanLinks(primary, ring)
      BY DEF SpanLinks
    <3>2. \/ link[1] = primary[i] /\ link[2] = primary[i + 1]
          \/ link[2] = primary[i] /\ link[1] = primary[i + 1]
      BY <2>1
    <3>3. link = <<link[1], link[2]>>
      BY DEF Links
    <3>4. link \in BothWays(SpanLinks(primary, ring))
      BY <3>1, <3>2, <3>3 DEF BothWays
    <3> QED  BY <3>4 DEF IsRing
  <2> SUFFICES ASSUME NEW e \in span, e \in around
               PROVE  FALSE
    OBVIOUS
  <2> HIDE DEF primary, detour, low, high
  <2>2. PICK i \in low .. high - 1 : e = {primary[i], primary[i + 1]}
    BY <1>4 DEF Between
  <2>3. PICK link \in Links(detour) : e = {link[1], link[2]}
    BY DEF Undirected
  <2> QED  BY <2>1, <2>2, <2>3
<1>7. span \subseteq Undirected(Pairs)
  <2>1. SpanLinks(primary, ring) \subseteq Links(primary)
    BY <1>2 DEF SpanLinks, Links
  <2> QED  BY <2>1 DEF IsSimple, Undirected
<1>8. detour[1] = primary[low] /\ LastNode(detour) = primary[high] /\ IsSimple(detour)
  BY DEF IsRing
<1> HIDE DEF primary, detour, low, high
<1>9. /\ IsFiniteSet(around) /\ around \subseteq Undirected(Pairs)
      /\ \A node : Odd(At(node, around)) <=> node \in {primary[low], primary[high]}
  BY <1>3, <1>8, EndsOfPath
<1>10. /\ IsFiniteSet(span)
       /\ \A node : Odd(At(node, span)) <=> node \in {primary[low], primary[high]}
  BY <1>1, <1>2, <1>4, BetweenTwo
<1> HIDE DEF span, around
<1>11. RingLinks(path, ring) = Exchange(span, around)
  BY <1>5, <1>6 DEF Exchange
<1>12. IsFiniteSet(RingLinks(path, ring))
  BY <1>9, <1>10, <1>11, ExchangeIsOdd
<1>13. ASSUME NEW node
       PROVE  ~Odd(At(node, RingLinks(path, ring)))
  <2>1. IsFiniteSet(At(node, span)) /\ IsFiniteSet(At(node, around))
    BY <1>9, <1>10, FS_Subset DEF At
  <2>2. At(node, RingLinks(path, ring)) = Exchange(At(node, span), At(node, around))
    BY <1>11, ExchangeAt
  <2>3. Odd(At(node, span)) <=> Odd(At(node, around))
    BY <1>9, <1>10
  <2> QED  BY <2>1, <2>2, <2>3, ExchangeIsOdd
<1> QED  BY <1>5, <1>7, <1>9, <1>12, <1>13

RingsOver(link, path, rings) == {ring \in rings : link \in RingLinks(path, ring)}

\* A link remains if just one holds: an odd number of rings leads over it, the path does.
LEMMA XorLinksAre ==
  ASSUME NEW path, NEW rings, IsFiniteSet(rings)
  PROVE  \A link : link \in XorLinks(path, rings)
           <=> /\ link \in Undirected(Pairs)
               /\ ~(Odd(RingsOver(link, path, rings))
                      <=> link \in Undirected(Links(path.primaryPath)))
<1> SUFFICES ASSUME NEW link \in Undirected(Pairs)
             PROVE  link \in XorLinks(path, rings)
                      <=> ~(Odd(RingsOver(link, path, rings))
                              <=> link \in Undirected(Links(path.primaryPath)))
  BY DEF XorLinks
<1> DEFINE over == Cardinality(RingsOver(link, path, rings))
<1>1. IsFiniteSet(RingsOver(link, path, rings))
  BY FS_Subset DEF RingsOver
<1>2. over \in Nat
  BY <1>1, FS_CardinalityType
<1>3. link \in XorLinks(path, rings)
        <=> (over + (IF link \in Undirected(Links(path.primaryPath)) THEN 1 ELSE 0)) % 2 = 1
  BY DEF XorLinks, RingsOver
<1>4. Odd(RingsOver(link, path, rings)) <=> over % 2 = 1
  BY DEF Odd
<1> HIDE DEF over
<1>5. CASE link \in Undirected(Links(path.primaryPath))
  <2>1. ((over + 1) % 2 = 1) <=> ~(over % 2 = 1)
    BY <1>2
  <2> QED  BY <1>3, <1>4, <1>5, <2>1
<1>6. CASE link \notin Undirected(Links(path.primaryPath))
  <2>1. over + 0 = over
    BY <1>2
  <2> QED  BY <1>3, <1>4, <1>6, <2>1
<1> QED  BY <1>5, <1>6

\* One ring more exchanges its links.
LEMMA OneRingMore ==
  ASSUME NEW path, NEW rings, IsFiniteSet(rings), NEW ring, ring \notin rings,
         RingLinks(path, ring) \subseteq Undirected(Pairs)
  PROVE  XorLinks(path, rings \cup {ring}) = Exchange(XorLinks(path, rings), RingLinks(path, ring))
<1> DEFINE all == rings \cup {ring}
           primary == Undirected(Links(path.primaryPath))
<1>1. IsFiniteSet(all)
  BY FS_AddElement
<1>2. ASSUME NEW link
      PROVE  Odd(RingsOver(link, path, all))
               <=> ~(Odd(RingsOver(link, path, rings)) <=> link \in RingLinks(path, ring))
  <2> DEFINE over == RingsOver(link, path, rings)
  <2>1. IsFiniteSet(over) /\ ring \notin over
    BY FS_Subset DEF RingsOver
  <2>2. CASE link \in RingLinks(path, ring)
    <3>1. RingsOver(link, path, all) = over \cup {ring}
      BY <2>2 DEF RingsOver
    <3>2. over \cup {ring} = Exchange(over, {ring})
      BY <2>1 DEF Exchange
    <3>3. IsFiniteSet({ring}) /\ Odd({ring})
      BY FS_Singleton, OneIsOdd
    <3> HIDE DEF over
    <3>4. Odd(Exchange(over, {ring})) <=> ~(Odd(over) <=> Odd({ring}))
      BY <2>1, <3>3, ExchangeIsOdd
    <3>5. Odd(Exchange(over, {ring})) <=> ~Odd(over)
      BY <3>3, <3>4
    <3>6. Odd(RingsOver(link, path, all)) <=> ~Odd(over)
      BY <3>1, <3>2, <3>5
    <3> QED  BY <2>2, <3>6 DEF over
  <2>3. CASE link \notin RingLinks(path, ring)
    <3>1. RingsOver(link, path, all) = over
      BY <2>3 DEF RingsOver
    <3> QED  BY <2>3, <3>1
  <2> QED  BY <2>2, <2>3
<1> HIDE DEF all
<1>3. ASSUME NEW link
      PROVE  link \in XorLinks(path, all)
               <=> ~(link \in XorLinks(path, rings) <=> link \in RingLinks(path, ring))
  <2>1. link \in XorLinks(path, all)
          <=> link \in Undirected(Pairs) /\ ~(Odd(RingsOver(link, path, all)) <=> link \in primary)
    BY <1>1, XorLinksAre
  <2>2. link \in XorLinks(path, rings)
          <=> link \in Undirected(Pairs) /\ ~(Odd(RingsOver(link, path, rings)) <=> link \in primary)
    BY XorLinksAre
  <2>3. link \in RingLinks(path, ring) => link \in Undirected(Pairs)
    OBVIOUS
  <2> HIDE DEF primary
  <2> QED  BY <1>2, <2>1, <2>2, <2>3
<1>4. XorLinks(path, all) = Exchange(XorLinks(path, rings), RingLinks(path, ring))
  BY <1>3 DEF Exchange
<1> QED  BY <1>4 DEF all

\* Whatever rings are activated, an odd number of the links that remain meets at the ends of
\* the path, an even number at every other node.
LEMMA XorLinksConnect ==
  ASSUME NEW path, NEW all, IsSimple(path.primaryPath),
         path.primaryPath[1] # LastNode(path.primaryPath),
         \A ring \in all : IsRing(path.primaryPath, ring, path.recoveryPaths[ring]),
         NEW rings \in SUBSET all, IsFiniteSet(rings)
  PROVE  \A node : Odd(At(node, XorLinks(path, rings)))
                     <=> node \in {path.primaryPath[1], LastNode(path.primaryPath)}
<1> DEFINE ends == {path.primaryPath[1], LastNode(path.primaryPath)}
           Right(some) == /\ IsFiniteSet(XorLinks(path, some))
                          /\ \A node : Odd(At(node, XorLinks(path, some))) <=> node \in ends
           S == {n \in Nat : \A some \in SUBSET all :
                               IsFiniteSet(some) /\ Cardinality(some) = n => Right(some)}
<1>1. 0 \in S
  <2>1. IsFiniteSet({}) /\ \A some : IsFiniteSet(some) /\ Cardinality(some) = 0 => some = {}
    BY FS_EmptySet
  <2>2. XorLinks(path, {}) = Undirected(Links(path.primaryPath))
    <3>1. \A link : RingsOver(link, path, {}) = {}
      BY DEF RingsOver
    <3>2. ~Odd({})
      BY FS_EmptySet DEF Odd
    <3>3. Undirected(Links(path.primaryPath)) \subseteq Undirected(Pairs)
      BY EndsOfPath
    <3>4. \A link : link \in XorLinks(path, {}) <=> link \in Undirected(Links(path.primaryPath))
      BY <2>1, <3>1, <3>2, <3>3, XorLinksAre
    <3> QED  BY <3>4
  <2>3. Right({})
    BY <2>2, EndsOfPath
  <2> HIDE DEF Right
  <2> QED  BY <2>1, <2>3
<1>2. ASSUME NEW n \in S
      PROVE  n + 1 \in S
  <2> SUFFICES ASSUME NEW some \in SUBSET all, IsFiniteSet(some), Cardinality(some) = n + 1
               PROVE  Right(some)
    OBVIOUS
  <2>1. n \in Nat /\ some # {}
    BY FS_EmptySet
  <2>2. PICK ring \in some : TRUE
    BY <2>1
  <2> DEFINE others == some \ {ring}
  <2>3. IsFiniteSet(others) /\ Cardinality(others) = n /\ others \in SUBSET all
    <3>1. IsFiniteSet(others) /\ Cardinality(others) = Cardinality(some) - 1
      BY FS_RemoveElement
    <3>2. Cardinality(others) = n
      BY <2>1, <3>1
    <3> QED  BY <3>1, <3>2
  <2>4. Right(others)
    BY <2>3
  <2>5. some = others \cup {ring} /\ ring \notin others
    OBVIOUS
  <2> HIDE DEF others
  <2>6. /\ IsFiniteSet(RingLinks(path, ring)) /\ RingLinks(path, ring) \subseteq Undirected(Pairs)
        /\ \A node : ~Odd(At(node, RingLinks(path, ring)))
    BY RingIsEven
  <2>7. XorLinks(path, some) = Exchange(XorLinks(path, others), RingLinks(path, ring))
    BY <2>3, <2>5, <2>6, OneRingMore
  <2>8. IsFiniteSet(XorLinks(path, some))
    BY <2>4, <2>6, <2>7, ExchangeIsOdd
  <2>9. ASSUME NEW node
        PROVE  Odd(At(node, XorLinks(path, some))) <=> node \in ends
    <3> DEFINE before == At(node, XorLinks(path, others))
               exchanged == At(node, RingLinks(path, ring))
    <3>1. IsFiniteSet(before) /\ IsFiniteSet(exchanged)
      BY <2>4, <2>6, FS_Subset DEF At
    <3>2. At(node, XorLinks(path, some)) = Exchange(before, exchanged)
      BY <2>7, ExchangeAt
    <3>3. (Odd(before) <=> node \in ends) /\ ~Odd(exchanged)
      BY <2>4, <2>6
    <3> HIDE DEF before, exchanged, ends
    <3>4. Odd(Exchange(before, exchanged)) <=> ~(Odd(before) <=> Odd(exchanged))
      BY <3>1, ExchangeIsOdd
    <3> QED  BY <3>2, <3>3, <3>4
  <2> QED  BY <2>8, <2>9
<1>3. S \in SUBSET Nat
  OBVIOUS
<1> HIDE DEF S
<1>4. S = Nat
  BY <1>1, <1>2, <1>3, NatSetInduction
<1>5. Cardinality(rings) \in S
  BY <1>4, FS_CardinalityType
<1>6. Right(rings)
  BY <1>5 DEF S
<1> QED  BY <1>6

(***************************************************************************)
(* What the breadth-first search returns                                   *)
(***************************************************************************)
\* The paths SimplePaths finds visit no node twice.
LEMMA SimplePathsAreSimple ==
  ASSUME NEW node \in Nodes, NEW n \in Nat, NEW links \in SUBSET Pairs,
         NEW path \in SimplePaths(node, n, links)
  PROVE  IsSimple(path) /\ path[1] = node /\ Links(path) \subseteq links
<1> DEFINE Once == {p \in Seq(Nodes) \ {<<>>} : \A i, j \in DOMAIN p : p[i] = p[j] => i = j}
<1>1. PICK upTo : HopByHop(upTo, node, n, links) /\ SimplePaths(node, n, links) = upTo[n]
  BY SimplePathsDefined
<1> DEFINE S == {i \in 0 .. n : upTo[i] \subseteq Once}
<1>2. 0 \in S
  <2>1. upTo[0] = {<<node>>}
    BY <1>1 DEF HopByHop
  <2>2. <<node>> \in Once
    OBVIOUS
  <2> HIDE DEF Once
  <2> QED  BY <2>1, <2>2
<1>3. ASSUME NEW i \in 0 .. n - 1, i \in S
      PROVE  i + 1 \in S
  <2>1. upTo[i + 1] = OneHopMore(upTo[i], links)
    <3>1. i + 1 \in 0 .. n /\ i + 1 # 0 /\ (i + 1) - 1 = i
      OBVIOUS
    <3> QED  BY <1>1, <3>1 DEF HopByHop
  <2>2. ASSUME NEW p \in upTo[i + 1]
        PROVE  p \in Once
    <3>1. CASE p \in upTo[i]
      BY <1>3, <3>1
    <3>2. CASE p \notin upTo[i]
      <4>1. PICK s \in upTo[i] \X Nodes : s[2] \notin Range(s[1]) /\ p = Append(s[1], s[2])
        BY <2>1, <2>2, <3>2 DEF OneHopMore
      <4> DEFINE q == s[1]
                 m == s[2]
      <4>2. q \in Once /\ m \in Nodes /\ p = Append(q, m) /\ m \notin Range(q)
        BY <1>3, <4>1
      <4> HIDE DEF q, m
      <4>3. q \in Seq(Nodes) \ {<<>>} /\ \A a, b \in DOMAIN q : q[a] = q[b] => a = b
        BY <4>2
      <4>4. /\ Hops(q) \in Nat
            /\ DOMAIN q = 1 .. Hops(q) + 1
            /\ p \in Seq(Nodes) \ {<<>>}
            /\ DOMAIN p = 1 .. Hops(q) + 2
            /\ \A j \in 1 .. Hops(q) + 1 : p[j] = q[j]
            /\ p[Hops(q) + 2] = m
        BY <4>2, <4>3, LongerPath
      <4>5. \A j \in DOMAIN q : q[j] # m
        BY <4>2 DEF Range
      <4>6. ASSUME NEW a \in DOMAIN p, NEW b \in DOMAIN p, p[a] = p[b]
            PROVE  a = b
        <5>1. (a \in DOMAIN q \/ a = Hops(q) + 2) /\ (b \in DOMAIN q \/ b = Hops(q) + 2)
          BY <4>4
        <5>2. a \in DOMAIN q => p[a] = q[a] /\ p[a] # m
          BY <4>4, <4>5
        <5>3. b \in DOMAIN q => p[b] = q[b] /\ p[b] # m
          BY <4>4, <4>5
        <5> QED  BY <4>3, <4>4, <4>6, <5>1, <5>2, <5>3
      <4> QED  BY <4>4, <4>6
    <3> QED  BY <3>1, <3>2
  <2> QED  BY <2>2
<1> HIDE DEF S
<1>4. n \in S
  <2>1. 0 .. n \subseteq S
    BY <1>2, <1>3, BoundedInduction
  <2> QED  BY <2>1
<1>5. path \in Once
  BY <1>1, <1>4 DEF S
<1>6. path[1] = node /\ \A i \in 1 .. Hops(path) : <<path[i], path[i + 1]>> \in links
  BY SimplePathsLead
<1>7. Links(path) \subseteq links
  BY <1>6 DEF Links
<1> QED  BY <1>5, <1>6, <1>7 DEF IsSimple

\* A recovery path closes a ring.
LEMMA DetourIsRing ==
  ASSUME TypeOK, NEW path, IsSimple(path), Hops(path) <= config.maxHops,
         NEW span \in Spans(path), NEW detour \in Detours(path, span)
  PROVE  IsRing(path, span, detour)
<1> DEFINE start == path[span[1]]
           links == LinksAround(path, span)
<1>1. /\ span \in (1 .. Len(path)) \X (1 .. Len(path)) /\ span[1] + 2 <= span[2]
      /\ span[1] \in 1 .. Len(path) /\ span[2] \in 1 .. Len(path)
  BY DEF Spans
<1>2. path \in Seq(Nodes) /\ Len(path) \in Nat
  BY DEF IsSimple
<1>3. config.maxHops \in Nat
  BY ConfigAssumption DEF TypeOK
<1>4. config.maxHops - 1 \in Nat
  BY <1>1, <1>2, <1>3 DEF Hops
<1>5. start \in Nodes
  BY <1>1, <1>2
<1>6. links \in SUBSET Pairs
  BY DEF LinksAround
<1>7. detour \in SimplePaths(start, config.maxHops - 1, links) /\ LastNode(detour) = path[span[2]]
  BY DEF Detours
<1>8. links \cap BothWays(SpanLinks(path, span)) = {}
  <2> SUFFICES ASSUME NEW link \in links, link \in BothWays(SpanLinks(path, span))
               PROVE  FALSE
    OBVIOUS
  <2>1. link = <<link[1], link[2]>>
    BY <1>6, GraphAssumption
  <2>2. SpanLinks(path, span) \in SUBSET (Nodes \X Nodes)
    <3>1. \A i \in span[1] .. span[2] - 1 : path[i] \in Nodes /\ path[i + 1] \in Nodes
      BY <1>1, <1>2
    <3> QED  BY <3>1 DEF SpanLinks
  <2>3. <<link[2], link[1]>> \in BothWays(SpanLinks(path, span))
    BY <2>1, <2>2, BothWaysIs
  <2> QED  BY <2>3 DEF LinksAround, EdgesAround
<1> HIDE DEF start, links
<1>9. IsSimple(detour) /\ detour[1] = start /\ Links(detour) \subseteq links
  BY <1>4, <1>5, <1>6, <1>7, SimplePathsAreSimple
<1> QED  BY <1>1, <1>7, <1>8, <1>9 DEF IsRing, start

(***************************************************************************)
(* What the paths of a pair are put together to                            *)
(***************************************************************************)
RingByRing(upTo, path, up, sorted) ==
  upTo = [i \in 0 .. Len(sorted) |->
            IF i = 0 THEN [rings |-> {}, uncovered |-> FailedLinks(path.primaryPath, up)]
            ELSE CoverStep(path, up, upTo[i - 1], sorted[i])]

\* The cover is that of the rings but the last, and what the last adds.
LEMMA CoverDefined ==
  ASSUME NEW path, NEW up, NEW sorted, NEW n \in Nat, Len(sorted) = n
  PROVE  \E upTo : RingByRing(upTo, path, up, sorted) /\ GreedyCover(path, up, sorted) = upTo[n]
<1> DEFINE Defines(g, m) == g = [i \in 0 .. m |-> IF i = 0 THEN [rings |-> {}, uncovered |-> FailedLinks(path.primaryPath, up)] ELSE CoverStep(path, up, g[i - 1], sorted[i])]
           S == {m \in Nat : \E g : Defines(g, m)}
<1>1. S \in SUBSET Nat
  OBVIOUS
<1>2. 0 \in S
  <2> DEFINE g == [i \in 0 .. 0 |-> [rings |-> {}, uncovered |-> FailedLinks(path.primaryPath, up)]]
  <2>1. Defines(g, 0)
    OBVIOUS
  <2> QED  BY <2>1
<1>3. ASSUME NEW m \in S
      PROVE  m + 1 \in S
  <2>1. PICK g : Defines(g, m)
    OBVIOUS
  <2> DEFINE h == [i \in 0 .. m + 1 |-> IF i = m + 1 THEN CoverStep(path, up, g[m], sorted[i]) ELSE g[i]]
  <2>2. m \in Nat
    OBVIOUS
  <2>3. ASSUME NEW i \in 0 .. m + 1
        PROVE  h[i] = IF i = 0 THEN [rings |-> {}, uncovered |-> FailedLinks(path.primaryPath, up)] ELSE CoverStep(path, up, h[i - 1], sorted[i])
    <3>1. CASE i = m + 1
      BY <2>2, <3>1
    <3>2. CASE i \in 0 .. m
      <4>1. g[i] = IF i = 0 THEN [rings |-> {}, uncovered |-> FailedLinks(path.primaryPath, up)] ELSE CoverStep(path, up, g[i - 1], sorted[i])
        BY <2>1, <3>2
      <4>2. h[i] = g[i] /\ (i # 0 => h[i - 1] = g[i - 1])
        BY <2>2, <3>2
      <4> QED  BY <4>1, <4>2
    <3> QED  BY <2>2, <3>1, <3>2
  <2>4. Defines(h, m + 1)
    BY <2>3
  <2> HIDE DEF Defines, h
  <2> QED  BY <2>2, <2>4
<1> HIDE DEF S
<1>4. n \in S
  BY <1>1, <1>2, <1>3, NatSetInduction
<1>5. \E g : Defines(g, n)
  BY <1>4 DEF S
<1> DEFINE upTo == CHOOSE g : Defines(g, n)
<1>6. Defines(upTo, n)
  BY <1>5
<1>7. GreedyCover(path, up, sorted) = upTo[n]
  BY DEF GreedyCover
<1> HIDE DEF upTo
<1> QED  BY <1>6, <1>7 DEF RingByRing

\* The rings of the cover are some of those sorted.
LEMMA CoverIsOfRings ==
  ASSUME NEW path, NEW up, NEW all, NEW sorted, NEW n \in Nat, Len(sorted) = n,
         \A i \in 1 .. n : sorted[i] \in all
  PROVE  GreedyCover(path, up, sorted).rings \subseteq all
<1>1. PICK upTo : RingByRing(upTo, path, up, sorted) /\ GreedyCover(path, up, sorted) = upTo[n]
  BY CoverDefined
<1> DEFINE S == {i \in 0 .. n : upTo[i].rings \subseteq all}
<1>2. 0 \in S
  <2>1. upTo[0] = [rings |-> {}, uncovered |-> FailedLinks(path.primaryPath, up)]
    BY <1>1 DEF RingByRing
  <2> QED  BY <2>1
<1>3. ASSUME NEW i \in 0 .. n - 1, i \in S
      PROVE  i + 1 \in S
  <2>1. i + 1 \in 0 .. n /\ i + 1 # 0 /\ (i + 1) - 1 = i /\ i + 1 \in 1 .. n
    OBVIOUS
  <2>2. upTo[i + 1] = CoverStep(path, up, upTo[i], sorted[i + 1])
    BY <1>1, <2>1 DEF RingByRing
  <2>3. upTo[i].rings \subseteq all /\ sorted[i + 1] \in all
    BY <1>3, <2>1
  <2>4. upTo[i + 1].rings \subseteq upTo[i].rings \cup {sorted[i + 1]}
    BY <2>2 DEF CoverStep
  <2> QED  BY <2>1, <2>3, <2>4
<1> HIDE DEF S
<1>4. n \in S
  <2>1. 0 .. n \subseteq S
    BY <1>2, <1>3, BoundedInduction
  <2> QED  BY <2>1
<1> QED  BY <1>1, <1>4 DEF S

NodeByNode(upTo, path, rings) ==
  upTo = [i \in 0 .. Len(path.primaryPath) |->
            IF i = 0 THEN <<>> ELSE CompositeStep(path, rings, upTo[i - 1], i)]

\* The path is that of the nodes but the last, and what the last adds.
LEMMA CompositeDefined ==
  ASSUME NEW path, NEW rings, NEW n \in Nat, Len(path.primaryPath) = n
  PROVE  \E upTo : NodeByNode(upTo, path, rings) /\ CompositePath(path, rings) = upTo[n]
<1> DEFINE Defines(g, m) == g = [i \in 0 .. m |-> IF i = 0 THEN <<>> ELSE CompositeStep(path, rings, g[i - 1], i)]
           S == {m \in Nat : \E g : Defines(g, m)}
<1>1. S \in SUBSET Nat
  OBVIOUS
<1>2. 0 \in S
  <2> DEFINE g == [i \in 0 .. 0 |-> <<>>]
  <2>1. Defines(g, 0)
    OBVIOUS
  <2> QED  BY <2>1
<1>3. ASSUME NEW m \in S
      PROVE  m + 1 \in S
  <2>1. PICK g : Defines(g, m)
    OBVIOUS
  <2> DEFINE h == [i \in 0 .. m + 1 |-> IF i = m + 1 THEN CompositeStep(path, rings, g[m], i) ELSE g[i]]
  <2>2. m \in Nat
    OBVIOUS
  <2>3. ASSUME NEW i \in 0 .. m + 1
        PROVE  h[i] = IF i = 0 THEN <<>> ELSE CompositeStep(path, rings, h[i - 1], i)
    <3>1. CASE i = m + 1
      BY <2>2, <3>1
    <3>2. CASE i \in 0 .. m
      <4>1. g[i] = IF i = 0 THEN <<>> ELSE CompositeStep(path, rings, g[i - 1], i)
        BY <2>1, <3>2
      <4>2. h[i] = g[i] /\ (i # 0 => h[i - 1] = g[i - 1])
        BY <2>2, <3>2
      <4> QED  BY <4>1, <4>2
    <3> QED  BY <2>2, <3>1, <3>2
  <2>4. Defines(h, m + 1)
    BY <2>3
  <2> HIDE DEF Defines, h
  <2> QED  BY <2>2, <2>4
<1> HIDE DEF S
<1>4. n \in S
  BY <1>1, <1>2, <1>3, NatSetInduction
<1>5. \E g : Defines(g, n)
  BY <1>4 DEF S
<1> DEFINE upTo == CHOOSE g : Defines(g, n)
<1>6. Defines(upTo, n)
  BY <1>5
<1>7. CompositePath(path, rings) = upTo[n]
  BY DEF CompositePath
<1> HIDE DEF upTo
<1> QED  BY <1>6, <1>7 DEF NodeByNode

\* The path of the pair leads from the first node of the primary path to the last, whatever
\* rings are used.
LEMMA CompositeLeads ==
  ASSUME NEW path, NEW rings, IsSimple(path.primaryPath),
         path.primaryPath[1] # LastNode(path.primaryPath),
         \A ring \in rings : IsRing(path.primaryPath, ring, path.recoveryPaths[ring])
  PROVE  LET composite == CompositePath(path, rings)
         IN /\ composite \in Seq(Nodes) \ {<<>>}
            /\ composite[1] = path.primaryPath[1]
            /\ LastNode(composite) = LastNode(path.primaryPath)
<1> DEFINE primary == path.primaryPath
           n == Len(primary)
           begins(i) == {ring \in rings : ring[1] = i}
           detour(i) == path.recoveryPaths[CHOOSE ring \in begins(i) : TRUE]
           From(p) == p \in Seq(Nodes) \ {<<>>} /\ p[1] = primary[1]
<1>1. primary \in Seq(Nodes) /\ n \in Nat /\ n # 0 /\ \A i \in 1 .. n : primary[i] \in Nodes
  BY DEF IsSimple
<1>2. n # 1
  BY DEF LastNode
<1>3. ASSUME NEW ring \in rings
      PROVE  /\ ring[1] \in 1 .. n /\ ring[2] \in 1 .. n /\ ring[1] < ring[2]
             /\ path.recoveryPaths[ring] \in Seq(Nodes) \ {<<>>}
             /\ path.recoveryPaths[ring][1] = primary[ring[1]]
  BY DEF IsRing, IsSimple
<1>4. PICK upTo : NodeByNode(upTo, path, rings) /\ CompositePath(path, rings) = upTo[n]
  BY <1>1, CompositeDefined
<1>5. ASSUME NEW i, begins(i) # {}
      PROVE  detour(i) \in Seq(Nodes) \ {<<>>} /\ detour(i)[1] = primary[i]
  <2>1. PICK ring \in begins(i) : ring = CHOOSE r \in begins(i) : TRUE
    BY <1>5
  <2> QED  BY <1>3, <2>1
<1>6. \A i \in 1 .. n :
        upTo[i] = IF \E ring \in rings : i \in ring[1] + 1 .. ring[2] - 1 THEN upTo[i - 1]
                  ELSE IF begins(i) # {} THEN Joined(upTo[i - 1], detour(i))
                  ELSE IF upTo[i - 1] # <<>> /\ LastNode(upTo[i - 1]) = primary[i] THEN upTo[i - 1]
                  ELSE Append(upTo[i - 1], primary[i])
  <2> SUFFICES ASSUME NEW i \in 1 .. n
               PROVE  upTo[i] = CompositeStep(path, rings, upTo[i - 1], i)
    BY DEF CompositeStep
  <2>1. i \in 0 .. n /\ i # 0
    BY <1>1
  <2> QED  BY <1>4, <2>1 DEF NodeByNode
<1>7. upTo[0] = <<>>
  BY <1>1, <1>4 DEF NodeByNode
<1> HIDE DEF primary, n, detour
<1>8. From(upTo[1])
  <2>1. 1 \in 1 .. n /\ 1 - 1 = 0
    BY <1>1
  <2>2. ~\E ring \in rings : 1 \in ring[1] + 1 .. ring[2] - 1
    BY <1>1, <1>3
  <2>3. CASE begins(1) # {}
    <3>1. upTo[1] = detour(1)
      BY <1>6, <1>7, <2>1, <2>2, <2>3 DEF Joined
    <3> QED  BY <1>5, <2>3, <3>1
  <2>4. CASE begins(1) = {}
    <3>1. upTo[1] = Append(<<>>, primary[1])
      BY <1>6, <1>7, <2>1, <2>2, <2>4
    <3> QED  BY <1>1, <2>1, <3>1
  <2> QED  BY <2>3, <2>4
<1>9. ASSUME NEW i \in 2 .. n, From(upTo[i - 1])
      PROVE  From(upTo[i])
  <2> DEFINE done == upTo[i - 1]
  <2>1. i \in 1 .. n /\ primary[i] \in Nodes
    BY <1>1
  <2>2. \A part \in Seq(Nodes) \ {<<>>} : From(done \o Tail(part))
    <3> SUFFICES ASSUME NEW part \in Seq(Nodes) \ {<<>>}
                 PROVE  From(done \o Tail(part))
      OBVIOUS
    <3>1. Tail(part) \in Seq(Nodes) /\ done \in Seq(Nodes) /\ Len(done) \in Nat /\ Len(done) # 0
      BY <1>9
    <3> HIDE DEF done
    <3>2. done \o Tail(part) \in Seq(Nodes) /\ (done \o Tail(part))[1] = done[1]
          /\ Len(done \o Tail(part)) = Len(done) + Len(Tail(part)) /\ Len(Tail(part)) \in Nat
      BY <3>1, ConcatProperties
    <3>3. done \o Tail(part) # <<>>
      BY <3>1, <3>2
    <3> QED  BY <1>9, <3>2, <3>3 DEF done
  <2>3. From(Append(done, primary[i]))
    BY <1>9, <2>1, LongerPath
  <2>4. begins(i) # {} => From(Joined(done, detour(i)))
    BY <1>5, <1>9, <2>2 DEF Joined
  <2> HIDE DEF done, From, begins
  <2> QED  BY <1>6, <1>9, <2>1, <2>3, <2>4 DEF done
<1>10. From(upTo[n - 1])
  <2> DEFINE S == {i \in 0 .. n - 1 : i # 0 => From(upTo[i])}
  <2>1. n - 1 \in Nat /\ n - 1 # 0
    BY <1>1, <1>2
  <2>2. 0 \in S
    BY <2>1
  <2> HIDE DEF From
  <2>3. ASSUME NEW i \in 0 .. (n - 1) - 1, i \in S
        PROVE  i + 1 \in S
    <3>1. i + 1 \in 0 .. n - 1 /\ (i + 1) - 1 = i
      BY <2>1
    <3>2. CASE i = 0
      BY <1>8, <3>1, <3>2
    <3>3. CASE i # 0
      <4>1. i + 1 \in 2 .. n
        BY <1>1, <2>1, <3>3
      <4>2. From(upTo[(i + 1) - 1])
        BY <2>3, <3>1, <3>3
      <4> QED  BY <1>9, <3>1, <4>1, <4>2
    <3> QED  BY <3>2, <3>3
  <2> HIDE DEF S
  <2>4. n - 1 \in S
    <3>1. 0 .. n - 1 \subseteq S
      BY <2>1, <2>2, <2>3, BoundedInduction
    <3> QED  BY <2>1, <3>1
  <2> QED  BY <2>1, <2>4 DEF S
<1>11. n \in 1 .. n /\ n \in 2 .. n /\ primary[n] \in Nodes
  BY <1>1, <1>2
<1>12. LastNode(upTo[n]) = primary[n]
  <2> DEFINE done == upTo[n - 1]
  <2>1. ~\E ring \in rings : n \in ring[1] + 1 .. ring[2] - 1
    BY <1>1, <1>3
  <2>2. begins(n) = {}
    BY <1>1, <1>3
  <2>3. upTo[n] = IF done # <<>> /\ LastNode(done) = primary[n] THEN done
                  ELSE Append(done, primary[n])
    BY <1>6, <1>11, <2>1, <2>2
  <2>4. done \in Seq(Nodes) \ {<<>>}
    BY <1>10
  <2> HIDE DEF done
  <2>5. LastNode(Append(done, primary[n])) = primary[n]
    BY <1>11, <2>4, LongerPath
  <2> QED  BY <2>3, <2>4, <2>5
<1>13. From(upTo[n])
  BY <1>9, <1>10, <1>11
<1>14. LastNode(path.primaryPath) = primary[n]
  BY DEF LastNode, primary, n
<1> QED  BY <1>4, <1>12, <1>13, <1>14 DEF primary

(***************************************************************************)
(* Selecting a path keeps the rings                                        *)
(***************************************************************************)
\* A free path for a request is simple.
LEMMA FreeIsSimple ==
  ASSUME NEW request, NEW path \in Seq(Nodes) \ {<<>>}, IsFree(request, path)
  PROVE  IsSimple(path)
<1>1. \A i \in 1 .. Hops(path) : <<path[i], path[i + 1]>> \in Pairs
  BY DEF IsFree, FreeNeighbors
<1>2. Links(path) \subseteq Pairs
  BY <1>1 DEF Links
<1> QED  BY <1>2 DEF IsSimple, IsFree

LEMMA SelectRings ==
  ASSUME IInv, RingsGoAround, Select
  PROVE  RingsGoAround'
<1> DEFINE path == bestLabel.path
           request == remaining[bestIndex]
<1>1. TypeOK /\ InSearch /\ LabelsAreFree /\ pc = "select" /\ bestLabel # NoLabel
  BY DEF IInv, Select
<1>2. PICK recovery \in DiscoverRecoveryPaths(path) :
        paths' = Append(paths, [request |-> request, primaryPath |-> path,
                                recoveryPaths |-> recovery])
  BY DEF Select
<1>3. request \in Requests /\ path \in Seq(Nodes) \ {<<>>}
  <2>1. bestIndex \in DOMAIN remaining /\ remaining \in Seq(Requests)
    BY <1>1 DEF InSearch, TypeOK
  <2>2. path \in Seq(Nodes) \ {<<>>}
    BY <1>1 DEF TypeOK, Labels
  <2> QED  BY <2>1, <2>2
<1>4. IsFree(request, path) /\ LastNode(path) = request[2]
  BY <1>1 DEF LabelsAreFree
<1> HIDE DEF path, request
<1>5. IsSimple(path)
  BY <1>3, <1>4, FreeIsSimple
<1>6. request = <<path[1], LastNode(path)>> /\ path[1] # LastNode(path)
  BY <1>3, <1>4 DEF Requests, IsFree
<1>7. ASSUME NEW span \in DOMAIN recovery
      PROVE  IsRing(path, span, recovery[span])
  <2>1. span \in Spans(path) /\ recovery[span] \in Detours(path, span)
    BY <1>2 DEF DiscoverRecoveryPaths, FindRecoveryPathBFS
  <2>2. Hops(path) <= config.maxHops
    BY <1>4 DEF IsFree
  <2> QED  BY <1>1, <1>5, <2>1, <2>2, DetourIsRing
<1> DEFINE new == [request |-> request, primaryPath |-> path, recoveryPaths |-> recovery]
<1>8. GoesAround(new)
  BY <1>5, <1>6, <1>7 DEF GoesAround
<1> HIDE DEF new
<1>9. /\ Len(paths) \in Nat /\ DOMAIN paths = 1 .. Len(paths)
      /\ DOMAIN paths' = 1 .. Len(paths) + 1
      /\ \A k \in 1 .. Len(paths) : paths'[k] = paths[k]
      /\ paths'[Len(paths) + 1] = new
  <2>1. paths \in Seq(Range(paths))
    BY <1>1 DEF TypeOK
  <2>2. paths' = Append(paths, new)
    BY <1>2 DEF new
  <2>3. /\ Len(paths) \in Nat
        /\ paths' \in Seq(Range(paths'))
        /\ Len(paths') = Len(paths) + 1
        /\ \A i \in 1 .. Len(paths) : paths'[i] = paths[i]
        /\ paths'[Len(paths) + 1] = new
    BY <2>1, <2>2, LongerSequence
  <2> QED  BY <2>1, <2>3
<1>10. \A k \in 1 .. Len(paths) + 1 : GoesAround(paths'[k])
  BY <1>8, <1>9 DEF RingsGoAround
<1> QED  BY <1>9, <1>10 DEF RingsGoAround

LEMMA NextRings ==
  ASSUME IInv, RingsGoAround, [Next]_vars
  PROVE  RingsGoAround'
<1>1. ASSUME paths' = paths
      PROVE  RingsGoAround'
  BY <1>1 DEF RingsGoAround
<1>2. ASSUME paths' = <<>>
      PROVE  RingsGoAround'
  BY <1>2 DEF RingsGoAround
<1>3. ASSUME NEW table \in Tables, UpdateTopology(table)
      PROVE  paths' = paths
  BY <1>3 DEF UpdateTopology, ChangeTable
<1>4. ASSUME NEW pair, NEW loss, ChangeLink(pair, loss)
      PROVE  paths' = paths
  BY <1>4 DEF ChangeLink, ChangeTable
<1>5. CASE Initialize \/ SetNetworkLayer
  BY <1>1, <1>5 DEF Initialize, SetNetworkLayer, ChangeTable
<1>6. CASE NotifyTopologyChange \/ DoDispose
  BY <1>2, <1>6 DEF NotifyTopologyChange, DoDispose
<1>7. ASSUME NEW newConfig, SetAttributes(newConfig)
      PROVE  paths' = paths
  BY <1>7 DEF SetAttributes
<1>8. ASSUME NEW batch, CalculateRoutesGEDA(batch) \/ CalculateRoute(batch[1])
      PROVE  paths' = paths
  BY <1>8 DEF CalculateRoutesGEDA, CalculateRoute, StartSelection
<1>9. ASSUME NEW label, PopLabel(label)
      PROVE  paths' = paths
  BY <1>9 DEF PopLabel
<1>10. CASE NoPath \/ Stop
  BY <1>1, <1>10 DEF NoPath, Stop
<1>11. CASE Select
  BY <1>11, SelectRings
<1>12. CASE UNCHANGED vars
  BY <1>1, <1>12 DEF vars
<1> QED  BY <1>1, <1>3, <1>4, <1>5, <1>6, <1>7, <1>8, <1>9, <1>10, <1>11, <1>12
         DEF Next, AddNeighbor, RemoveNeighbor, UpdateLinkMetrics

(***************************************************************************)
(* What is recorded                                                        *)
(***************************************************************************)
\* The rings of a path: finitely many.
LEMMA SelectedIs ==
  ASSUME TypeOK, RingsGoAround, NEW k \in SelectedPaths
  PROVE  /\ GoesAround(paths[k])
         /\ paths[k].request[1] \in Nodes
         /\ IsFiniteSet(DOMAIN paths[k].recoveryPaths)
<1>1. k \in DOMAIN paths
  <2>1. DOMAIN paths = 1 .. Len(paths) /\ Len(paths) \in Nat /\ base \in 0 .. Len(paths)
    BY DEF TypeOK
  <2> QED  BY <2>1 DEF SelectedPaths
<1> DEFINE path == paths[k].primaryPath
           recovery == paths[k].recoveryPaths
<1>2. GoesAround(paths[k])
  BY <1>1 DEF RingsGoAround
<1>3. path \in Seq(Nodes) \ {<<>>} /\ paths[k].request = <<path[1], LastNode(path)>>
  BY <1>2 DEF GoesAround, IsSimple
<1>4. paths[k].request[1] \in Nodes
  BY <1>3
<1>5. DOMAIN recovery \subseteq (1 .. Len(path)) \X (1 .. Len(path))
  BY <1>2 DEF GoesAround, IsRing
<1>6. IsFiniteSet((1 .. Len(path)) \X (1 .. Len(path)))
  <2>1. Len(path) \in Nat
    BY <1>3
  <2>2. IsFiniteSet(1 .. Len(path))
    BY <2>1, FS_Interval
  <2> QED  BY <2>2, FS_Product
<1>7. IsFiniteSet(DOMAIN recovery)
  BY <1>5, <1>6, FS_Subset
<1> QED  BY <1>2, <1>4, <1>7

LEMMA DijkstraConnects ==
  ASSUME TypeOK, RingsGoAround, SimulateDijkstraRequest
  PROVE  RecoveryConnects'
<1>1. PICK k \in SelectedPaths, up \in LinkStates :
        \E route \in Routes(paths[k].request) :
          Record([NoRecord EXCEPT !.protocol = "Dijkstra", !.request = paths[k].request,
                                  !.path = route, !.up = up,
                                  !.succeeded = SimulatePath(route, up)])
  BY DEF SimulateDijkstraRequest
<1> DEFINE request == paths[k].request
<1>2. PICK route \in Routes(request) :
        Record([NoRecord EXCEPT !.protocol = "Dijkstra", !.request = request,
                                !.path = route, !.up = up, !.succeeded = SimulatePath(route, up)])
  BY <1>1
<1>3. GoesAround(paths[k]) /\ request[1] \in Nodes
  BY SelectedIs
<1>4. request = <<request[1], request[2]>>
  BY <1>3 DEF GoesAround
<1> HIDE DEF request
<1>5. Cardinality(Nodes) - 1 \in Nat
  <2>1. Cardinality(Nodes) \in Nat /\ Cardinality(Nodes) # 0
    BY <1>3, NodesAssumption, FS_EmptySet, FS_CardinalityType
  <2> QED  BY <2>1
<1>6. route \in SimplePaths(request[1], Cardinality(Nodes) - 1, KnownLinks)
      /\ LastNode(route) = request[2]
  BY DEF Routes
<1>7. route[1] = request[1]
  BY <1>3, <1>5, <1>6, SimplePathsLead
<1>8. /\ record'.protocol = "Dijkstra" /\ record'.request = request /\ record'.path = route
      /\ record'.up = up /\ (record'.succeeded <=> SimulatePath(route, up))
  BY <1>2 DEF Record, NoRecord
<1>9. (record.succeeded)' => Links(route) \subseteq up
  BY <1>8 DEF SimulatePath
<1> QED  BY <1>4, <1>6, <1>7, <1>8, <1>9 DEF RecoveryConnects

LEMMA QCastConnects ==
  ASSUME TypeOK, RingsGoAround, SimulateQCastRequest
  PROVE  RecoveryConnects'
<1>1. PICK k \in SelectedPaths, up \in LinkStates :
        \E sorted \in SortedRings(paths[k]) :
          LET cover == GreedyCover(paths[k], up, sorted)
              path == CompositePath(paths[k], cover.rings)
          IN Record([NoRecord EXCEPT !.protocol = "QCAST", !.request = paths[k].request,
                                     !.path = path, !.rings = cover.rings,
                                     !.uncovered = cover.uncovered, !.up = up,
                                     !.succeeded = cover.uncovered = {} /\ SimulatePath(path, up)])
  BY DEF SimulateQCastRequest
<1> DEFINE selected == paths[k]
           all == DOMAIN selected.recoveryPaths
<1>2. PICK sorted \in SortedRings(selected) :
          LET cover == GreedyCover(selected, up, sorted)
              path == CompositePath(selected, cover.rings)
          IN Record([NoRecord EXCEPT !.protocol = "QCAST", !.request = selected.request,
                                     !.path = path, !.rings = cover.rings,
                                     !.uncovered = cover.uncovered, !.up = up,
                                     !.succeeded = cover.uncovered = {} /\ SimulatePath(path, up)])
  BY <1>1
<1> DEFINE cover == GreedyCover(selected, up, sorted)
           path == CompositePath(selected, cover.rings)
<1>3. GoesAround(selected) /\ IsFiniteSet(all)
  BY SelectedIs
<1> HIDE DEF selected
<1>4. cover.rings \subseteq all
  <2> DEFINE n == Cardinality(all)
  <2>1. n \in Nat
    BY <1>3, FS_CardinalityType
  <2>2. sorted \in [1 .. n -> all]
    BY DEF SortedRings, SetToSeqs
  <2> HIDE DEF n, all
  <2>3. Len(sorted) = n /\ \A i \in 1 .. n : sorted[i] \in all
    BY <2>1, <2>2
  <2> QED  BY <2>1, <2>3, CoverIsOfRings
<1>5. /\ IsSimple(selected.primaryPath)
      /\ selected.primaryPath[1] # LastNode(selected.primaryPath)
      /\ selected.request = <<selected.primaryPath[1], LastNode(selected.primaryPath)>>
      /\ \A ring \in all : IsRing(selected.primaryPath, ring, selected.recoveryPaths[ring])
  BY <1>3 DEF GoesAround
<1>6. \A ring \in cover.rings : IsRing(selected.primaryPath, ring, selected.recoveryPaths[ring])
  BY <1>4, <1>5
<1> HIDE DEF cover
<1>7. <<path[1], LastNode(path)>> = selected.request
  BY <1>5, <1>6, CompositeLeads
<1>8. Record([NoRecord EXCEPT !.protocol = "QCAST", !.request = selected.request,
                              !.path = path, !.rings = cover.rings,
                              !.uncovered = cover.uncovered, !.up = up,
                              !.succeeded = cover.uncovered = {} /\ SimulatePath(path, up)])
  BY <1>2 DEF cover
<1> HIDE DEF path
<1>9. /\ record'.protocol = "QCAST" /\ record'.request = selected.request /\ record'.path = path
      /\ record'.up = up /\ (record'.succeeded => SimulatePath(path, up))
  BY <1>8 DEF Record, NoRecord
<1>10. (record.succeeded)' => Links(path) \subseteq up
  BY <1>9 DEF SimulatePath
<1> QED  BY <1>7, <1>9, <1>10 DEF RecoveryConnects

LEMMA XorConnects ==
  ASSUME TypeOK, RingsGoAround, ExecuteXORRecovery
  PROVE  RecoveryConnects'
<1>1. PICK k \in SelectedPaths, up \in LinkStates :
        Record([NoRecord EXCEPT !.protocol = "XOR", !.request = paths[k].request,
                                !.selected = paths[k], !.up = up,
                                !.rings = ActiveRings(paths[k],
                                                      FailedLinks(paths[k].primaryPath, up))])
  BY DEF ExecuteXORRecovery
<1> DEFINE selected == paths[k]
           all == DOMAIN selected.recoveryPaths
           rings == ActiveRings(selected, FailedLinks(selected.primaryPath, up))
<1>2. GoesAround(selected) /\ IsFiniteSet(all)
  BY SelectedIs
<1>3. record' = [NoRecord EXCEPT !.protocol = "XOR", !.request = selected.request,
                                 !.selected = selected, !.up = up, !.rings = rings]
  BY <1>1 DEF Record
<1> HIDE DEF selected
<1>4. rings \in SUBSET all /\ IsFiniteSet(rings)
  BY <1>2, FS_Subset DEF ActiveRings
<1>5. /\ IsSimple(selected.primaryPath)
      /\ selected.primaryPath[1] # LastNode(selected.primaryPath)
      /\ selected.request = <<selected.primaryPath[1], LastNode(selected.primaryPath)>>
      /\ \A ring \in all : IsRing(selected.primaryPath, ring, selected.recoveryPaths[ring])
  BY <1>2 DEF GoesAround
<1> HIDE DEF all, rings
<1>6. \A node : Odd(At(node, XorLinks(selected, rings)))
                  <=> node \in {selected.primaryPath[1], LastNode(selected.primaryPath)}
  BY <1>4, <1>5, XorLinksConnect
<1>7. Range(selected.request) = {selected.primaryPath[1], LastNode(selected.primaryPath)}
  <2>1. DOMAIN selected.request = {1, 2}
    BY <1>5
  <2> QED  BY <1>5, <2>1 DEF Range
<1>8. /\ record'.protocol = "XOR" /\ record'.request = selected.request
      /\ record'.selected = selected /\ record'.rings = rings /\ record'.succeeded = FALSE
  BY <1>3 DEF NoRecord
<1>9. ASSUME NEW node \in Nodes
      PROVE  (Cardinality({link \in XorLinks(selected, rings) : node \in link}) % 2 = 1)
               <=> node \in Range(selected.request)
  BY <1>6, <1>7 DEF Odd, At
<1>10. (record.protocol = "XOR")' =>
         \A node \in Nodes :
           (Cardinality({link \in XorLinks(record'.selected, record'.rings) : node \in link}) % 2 = 1)
             <=> node \in Range(record'.request)
  BY <1>8, <1>9
<1> QED  BY <1>8, <1>10 DEF RecoveryConnects

LEMMA NothingRecorded ==
  ASSUME record = NoRecord
  PROVE  RecoveryConnects
BY DEF RecoveryConnects, NoRecord

(***************************************************************************)
(* Theorems about the study                                                *)
(***************************************************************************)
LEMMA StudyNextIInv ==
  ASSUME StudyIInv, [StudyNext]_studyVars
  PROVE  StudyIInv'
<1>1. IInv /\ RingsGoAround /\ RecoveryConnects /\ TypeOK
  BY DEF StudyIInv, IInv
<1>2. ASSUME [Next]_vars
      PROVE  IInv' /\ RingsGoAround'
  BY <1>1, <1>2, NextIInv, NextRings
<1>3. ASSUME UNCHANGED record
      PROVE  RecoveryConnects'
  BY <1>1, <1>3 DEF RecoveryConnects
<1>4. CASE Next /\ UNCHANGED record
  BY <1>2, <1>3, <1>4 DEF StudyIInv
<1>5. CASE SimulateDijkstraRequest
  <2>1. UNCHANGED vars
    BY <1>5 DEF SimulateDijkstraRequest, Record
  <2> QED  BY <1>1, <1>2, <1>5, <2>1, DijkstraConnects DEF StudyIInv
<1>6. CASE SimulateQCastRequest
  <2>1. UNCHANGED vars
    BY <1>6 DEF SimulateQCastRequest, Record
  <2> QED  BY <1>1, <1>2, <1>6, <2>1, QCastConnects DEF StudyIInv
<1>7. CASE ExecuteXORRecovery
  <2>1. UNCHANGED vars
    BY <1>7 DEF ExecuteXORRecovery, Record
  <2> QED  BY <1>1, <1>2, <1>7, <2>1, XorConnects DEF StudyIInv
<1>8. CASE FileRecord
  <2>1. UNCHANGED vars /\ record' = NoRecord
    BY <1>8 DEF FileRecord
  <2>2. (record = NoRecord => RecoveryConnects)'
    BY NothingRecorded, PTL
  <2> QED  BY <1>1, <1>2, <2>1, <2>2 DEF StudyIInv
<1>9. CASE UNCHANGED studyVars
  BY <1>2, <1>3, <1>9 DEF studyVars, StudyIInv
<1> QED  BY <1>4, <1>5, <1>6, <1>7, <1>8, <1>9 DEF StudyNext

\* Every reachable state of the study is one StudyIInv describes: recovery paths go around
\* their part of the path they belong to.
THEOREM StudyInvariance == StudySpec => []StudyIInv
<1>1. StudyInit => StudyIInv
  BY InitIInv, NothingRecorded DEF StudyInit, StudyIInv, Init, RingsGoAround
<1>2. StudyIInv /\ [StudyNext]_studyVars => StudyIInv'
  BY StudyNextIInv
<1> QED  BY <1>1, <1>2, PTL DEF StudySpec

\* What the recovery paths in use are put together to is a path for the request, and the links
\* that overlapping rings do not use twice still connect its source and its destination,
\* whatever links are down (SimulateQCastRequest, ExecuteXORRecovery).
THEOREM RecoveryConnected == StudySpec => []RecoveryConnects
<1>1. StudyIInv => RecoveryConnects
  BY DEF StudyIInv
<1> QED  BY <1>1, StudyInvariance, PTL
=============================================================================
