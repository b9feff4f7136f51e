--------------------------- MODULE MCRecommendation ---------------------------
(***************************************************************************)
(* Instances of Recommendation for TLC.                                    *)
(***************************************************************************)
EXTENDS Recommendation

CONSTANTS l1, t1, h1, h2, h3

\* What a lead says of the budget, and the other answers in one turn.
Between(low, high) == [c \in Budget |-> IF c = "budget_min" THEN low ELSE high]
TheRest == [locations |-> {"north"}, property_type |-> "house", timeline |-> "exploring",
            must_haves |-> {"pool", "garden"}]
MCPatches == {Between(2, 6), Between(4, 10), TheRest}

Home(h, price, zone, type, features) ==
    [id |-> h, price |-> price, zone |-> zone, type |-> type, features |-> features]

\* At the edge of a budget and in its middle, with and without the must-haves, in
\* another zone, of another type; more matches than a message holds, or fewer.
MCCatalogues == {
    {Home(h1, 4, "north", "house", {}), Home(h2, 6, "north", "house", {"pool"}),
     Home(h3, 5, "north", "house", {"pool", "garden"})},
    {Home(h1, 6, "north", "house", {}), Home(h2, 4, "south", "house", {}),
     Home(h3, 4, "north", "flat", {"pool"})}}
=============================================================================
