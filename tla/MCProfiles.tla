---------------------------- MODULE MCProfiles ----------------------------
(* Small instances of Profiles. *)
EXTENDS Profiles, TLC

Area(ops, calls) == [ops |-> ops, calls |-> calls]

Pictures == Area({"image", "pdf", "avatar"}, 3)
Edits == Area({"add", "set", "delete", "patch"}, 2)
Companies == Area({"company", "segment", "benefit"}, 3)
Events == Area({"signup", "patch", "code"}, 2)
LearnWorlds == Area({"signup", "course", "award", "sso", "code"}, 2)
Tests == Area({"join", "place", "result"}, 3)

AllAreas == {Pictures, Edits, Companies, Events, LearnWorlds, Tests}

Symmetry == Permutations(Req) \cup Permutations(Employer) \cup Permutations(Step)
=============================================================================
