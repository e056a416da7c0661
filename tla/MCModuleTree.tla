----------------------------- MODULE MCModuleTree -----------------------------
(* Small instances of ModuleTree: the bounds are numbers, given in each cfg. *)
EXTENDS ModuleTree
=============================================================================
