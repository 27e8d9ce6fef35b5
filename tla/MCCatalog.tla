----------------------------- MODULE MCCatalog -----------------------------
(***************************************************************************)
(* Two products that come and go, listed in either order, dearer, of       *)
(* another category, quarantined, or with a price that is no number.  Two  *)
(* answers have no product in common, and one lists nothing.               *)
(***************************************************************************)
EXTENDS Catalog, TLC

CONSTANTS bread, milk, q1

MCOffer(sku, price, category, suspect) ==
  [sku |-> sku, price |-> price, category |-> category, suspect |-> suspect]
Bread(price) == MCOffer(bread, price, "food", FALSE)
Milk(price, category, suspect) == MCOffer(milk, price, category, suspect)

MCFeeds ==
  {<<Bread(1), Milk(1, "food", FALSE)>>,
   <<Milk(2, "food", TRUE), Bread(2)>>,
   <<Bread(2)>>,
   <<Milk(2, "drink", FALSE)>>,
   <<Bread(1), Milk(Malformed, "food", FALSE)>>,
   << >>}

MCBasket == q1 :> {bread, milk}
=============================================================================
