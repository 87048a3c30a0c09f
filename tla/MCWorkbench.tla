---------------------------- MODULE MCWorkbench -----------------------------
(* A small instance of Workbench: two documents and two themes. *)
EXTENDS Workbench, TLC

CONSTANTS d1, d2, guide, light, device, updated, title

\* Neither the documents nor the orders of the files differ in anything.
Interchangeable == Permutations({d1, d2}) \cup Permutations({updated, title})
=============================================================================
