----------------------------- MODULE MCRecipeStore -----------------------------
(* The recipe store on small instances.                                    *)
EXTENDS RecipeStore, TLC

Symmetry == Permutations(Requests) \cup Permutations(Names)
=============================================================================
