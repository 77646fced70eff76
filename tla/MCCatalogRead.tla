--------------------------- MODULE MCCatalogRead ---------------------------
(* An instance of CatalogRead small enough for TLC: two views that vary    *)
(* and a third that is there or not.                                       *)
EXTENDS CatalogRead, TLC

CONSTANTS X, Y  \* two definitions

View(marker, description, definition, columns) ==
    [marker |-> marker, description |-> description, definition |-> definition, columns |-> columns]

Column(type) == [type |-> type, comment |-> ""]
One == 1 :> Column("int")
Commented == 1 :> [type |-> "int", comment |-> "a"]
Gap == 1 :> Column("int") @@ 3 :> Column("text")

MCRelations == 1..3

GoodViews ==
    {View("own", "d", X, One), View("own", "e", X, One), View("own", "d", X, Commented),
     View("own", "d", Y, Gap), View("own", "d", X, [i \in 1..3 |-> Column("int")])}

BadViews ==
    {View("own", "d", X, [i \in 1..4 |-> Column("int")]), View("own", "", X, One),
     View("other source", "d", X, One), View("other version", "d", X, One),
     View("garbled", "d", X, One), View("no comment", "", X, One),
     View("own", "d", X, One @@ 2 :> Column("domain"))}

Hidden == View("other source", "d", X, <<>>)

MCCatalogs ==
    UNION {[s -> GoodViews \union BadViews] : s \in SUBSET {1, 2}}
    \union {1 :> v @@ 2 :> w @@ 3 :> u : v \in GoodViews, w \in GoodViews, u \in {Hidden, View("own", "d", X, One)}}
    \union {1 :> v @@ 3 :> Hidden : v \in GoodViews \union BadViews}
=============================================================================
