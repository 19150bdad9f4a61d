------------------------- MODULE MCServerInventory -------------------------
(* Two collections of two items, one item a page. Three edits are enough   *)
(* to replace an item behind the page being read and to change the other   *)
(* collection, without any total showing it. The request limit is the      *)
(* least that InventoryAssumption admits; the program has eleven to spare. *)
EXTENDS ServerInventory

MCKinds == <<"users", "roles">>
MCId == 1 .. 3
MCInitially ==
  {[items |-> [users |-> {1, 3}, roles |-> {1, 3}], links |-> {<<"users", 1, 3>>}]}

ASSUME RealLimits == 100 >= 9 + 2 * 4 * (1000 \div 100)
=============================================================================
