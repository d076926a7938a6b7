------------------------------ MODULE MCWebShop ------------------------------
(* A small instance of WebShop: two products, two currencies.               *)
EXTENDS WebShop

CONSTANTS usd, eur, lamp, lens

\* One nano digit stands for nine: prices carry from nanos into units.
MCNano == 10

MCListPrice == lamp :> [units |-> 1, nanos |-> 9] @@ lens :> [units |-> 0, nanos |-> 9]

\* A converted price carries as well; in usd the lamp's price comes back as it
\* was, the lens' with another digit.
MCConverted ==
  usd :> (lamp :> [units |-> 1, nanos |-> 9] @@ lens :> [units |-> 0, nanos |-> 8]) @@
  eur :> (lamp :> [units |-> 1, nanos |-> 5] @@ lens :> [units |-> 0, nanos |-> 7])

MCQuotes == {[units |-> 1, nanos |-> 6], [units |-> 2, nanos |-> 0]}

\* One lamp.
MCEarlier == {[NoItems EXCEPT ![lamp] = 1]}

MCNow == [year |-> 2029, month |-> 12]
=============================================================================
