---------------------------- MODULE MCLabelSearch ----------------------------
(***************************************************************************)
(* Instance of LabelSearch for TLC: five nodes, two ways that meet.        *)
(***************************************************************************)
EXTENDS LabelSearch

MCNodes == {"s", "a", "b", "x", "d"}

Up(loss, setup) == [loss |-> loss, setup |-> setup, isAvailable |-> TRUE]
Down == [loss |-> 1, setup |-> 0, isAvailable |-> FALSE]

MCPairs ==
  {<<"s", "a">>, <<"s", "b">>, <<"a", "b">>, <<"b", "a">>, <<"a", "x">>, <<"b", "x">>,
   <<"x", "d">>}

\* Two ways to x, which meet at a and b; links that are lossy, slow or down.
MCOffers ==
  [link \in MCPairs |->
     CASE link = <<"s", "a">> -> {Up(1, 0), Up(1, 3)}
       [] link = <<"s", "b">> -> {Up(4, 0)}
       [] link = <<"a", "x">> -> {Up(3, 0), Up(1, 2)}
       [] link = <<"b", "x">> -> {Up(1, 0), Down}
       [] OTHER -> {Up(1, 0)}]

MCTables ==
  {[link \in MCPairs |->
     CASE link = <<"s", "b">> -> Up(4, 0)
       [] link = <<"a", "x">> -> Up(1, 2)
       [] OTHER -> Up(1, 0)]}

MCRequests == {<<"s", "d">>}

MCProtocols ==
  {[multi |-> FALSE, k |-> 1, width |-> 1, buckets |-> FALSE],
   [multi |-> TRUE, k |-> 2, width |-> 2, buckets |-> TRUE],
   [multi |-> TRUE, k |-> 2, width |-> 2, buckets |-> FALSE]}
=============================================================================
