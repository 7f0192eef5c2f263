---------------------------- MODULE MCStepOrder ----------------------------
(* Small instances of StepOrder. *)
EXTENDS StepOrder

CONSTANTS s1, s2, s3

TwoSteps == <<s1, s2>>
ThreeSteps == <<s1, s2, s3>>

\* Clients that only use the default order and flag; clients that send orders
\* of their own and repeat removals; clients among which one deletes the job;
\* clients that replace the list of steps.
Default == [ops |-> {"add", "remove"}, orders |-> {0}, flags |-> {TRUE},
            lengths |-> {}, repeats |-> FALSE]
Mixed == [ops |-> {"add", "update", "remove"}, orders |-> {0, 1},
          flags |-> {FALSE}, lengths |-> {}, repeats |-> TRUE]
Deletion == [ops |-> {"add", "remove", "deleteJob"}, orders |-> {0, 1},
             flags |-> {TRUE}, lengths |-> {}, repeats |-> FALSE]

Relisting == [ops |-> {"add", "remove", "updateJob"}, orders |-> {0},
              flags |-> {TRUE}, lengths |-> {1, 2}, repeats |-> FALSE]

AllProfiles == {Default, Mixed, Deletion, Relisting}

Symmetry == Permutations(Req)
=============================================================================
