---------------------------- MODULE MCCatalogue ----------------------------
(* Small instances of Catalogue. *)
EXTENDS Catalogue, TLC

\* The areas share only the creation and the deletion of a job.
Offers == {"create", "update", "image", "delete", "invite"}
Favourites == {"favJob", "favEmployee", "delete"}
Macros == {"macroCreate", "macroUpdate", "macroAdd", "macroDrop", "macroDelete", "create"}

AllAreas == {Offers, Favourites, Macros}

Symmetry == Permutations(Req) \cup Permutations(Employer)
=============================================================================
