----------------------------- MODULE MCCatalog -----------------------------
(***************************************************************************)
(* Constants of the model-checking runs of Catalog that a .cfg file cannot *)
(* write.                                                                  *)
(***************************************************************************)
EXTENDS Catalog

CONSTANTS p1, v1, v2, g1, g2, b1

OneProduct == {p1}
TwoVariants == {v1, v2}
TwoCategories == {g1, g2}
OneBrand == {b1}
TwoPrices == {1, 2}

Live(parent) == [status |-> "active", parent |-> parent, name |-> 0]

Stock(v1doc) == [v \in {v1, v2} |-> IF v = v1 THEN v1doc ELSE Absent]

For(price) ==
    [id |-> 0, status |-> "active", version |-> 0, price |-> price,
     product |-> p1]

Item(status, minPrice) ==
    [p \in {p1} |-> [status |-> status, version |-> 0, minPrice |-> minPrice,
                     taxa |-> {g1, b1}, deleted |-> FALSE]]

(* Nothing but a category and a brand; a draft with one variant; a         *)
(* published product with one, and a subcategory.                          *)
ThreeSeeds ==
    LET shelves == [t \in {g1, g2, b1} |->
                       CASE t = g1 -> Live(Top) [] t = g2 -> Absent
                         [] t = b1 -> Live(Top)]
        nested == [shelves EXCEPT ![g2] = Live(g1)]
    IN {[products |-> [p \in {p1} |-> Absent], variants |-> Stock(Absent),
         taxa |-> shelves],
        [products |-> Item("draft", 2), variants |-> Stock(For(2)),
         taxa |-> shelves],
        [products |-> Item("published", 2), variants |-> Stock(For(2)),
         taxa |-> nested]}

=============================================================================
