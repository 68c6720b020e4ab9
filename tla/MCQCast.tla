-------------------------------- MODULE MCQCast --------------------------------
(***************************************************************************)
(* Instances of QCast for TLC: five nodes, a chain and the ways around it. *)
(***************************************************************************)
EXTENDS RecoveryStudy

MCNodes == {"A", "B", "C", "D", "X"}

Edges ==
  {<<"A", "B">>, <<"B", "C">>, <<"C", "D">>, <<"A", "X">>, <<"B", "X">>, <<"X", "C">>, <<"X", "D">>}
MCPairs == BothWays(Edges)

\* The links of a function on Edges, in both directions.
Symmetric(f) == [pair \in MCPairs |-> IF pair \in Edges THEN f[pair] ELSE f[<<pair[2], pair[1]>>]]

MCLosses == {150}
MCUnsteady == {<<"X", "D">>}

\* A chain from A to D, with the ways around it over X that are there.
MCTables ==
  {Symmetric([edge \in Edges |->
     CASE edge = <<"A", "X">> -> ax
       [] edge = <<"B", "X">> -> bx
       [] edge = <<"B", "C">> -> IF xd = NoLink THEN bc ELSE 20
       [] edge = <<"X", "C">> -> IF xd = NoLink /\ bc = NoLink THEN 20 ELSE NoLink
       [] edge = <<"X", "D">> -> xd
       [] OTHER -> 20]) :
     ax \in {NoLink, 150}, bc \in {NoLink, 20}, bx \in {NoLink, 20}, xd \in {NoLink, 20}}

MCLocalLinks == [pair \in MCPairs |-> IF pair = <<"A", "B">> THEN 150 ELSE NoLink]

AD == <<"A", "D">>
MCBatches == {<<AD, <<"X", "C">>>>, <<AD, AD>>, <<<<"A", "B">>, <<"D", "B">>>>}

MCConfigs ==
  {[maxHops |-> 3, kHop |-> 3, capacity |-> 2], [maxHops |-> 4, kHop |-> 2, capacity |-> 1],
   [maxHops |-> 3, kHop |-> 2, capacity |-> 0]}

\* alpha * log2(h)
MCSwapLoss == [h \in 0 .. 6 |-> <<0, 0, 100, 158, 200, 232, 258>>[h + 1]]
=============================================================================
