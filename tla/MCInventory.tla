------------------------------ MODULE MCInventory ------------------------------
(* Two warehouses, of which one has stock from before valuation. *)
EXTENDS Inventory
=============================================================================
