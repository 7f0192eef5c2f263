----------------------------- MODULE Candidacy -----------------------------
(***************************************************************************)
(* What the hiring pipeline promises about where candidates are: every     *)
(* operation moves one candidate, in one indivisible step.  HiringPipeline *)
(* carries the moves out by several awaited calls of concurrent requests,  *)
(* each of which may fail, and implements this module.                     *)
(*                                                                         *)
(* An operation decides on the snapshot that its transaction has taken, so *)
(* a move may spare a list that the candidate entered since then: T below  *)
(* is the set of the steps in which the operation found the candidate.     *)
(***************************************************************************)
EXTENDS Naturals

CONSTANTS Job, Step, Cand, JobOf, Order, LastStep

VARIABLES place,    \* place[c]: the jobs c is a new candidate of, and c's steps
          members   \* members[j]: the participants of job j

At(j) == {s \in Step : JobOf[s] = j}

\* Candidate c, and no other one, is in the lists S from now on.
Move(c, S) == place' = [place EXCEPT ![c] = S]

Init ==
  /\ place \in [Cand -> SUBSET (Job \cup Step)]
  /\ members \in [Job -> SUBSET Cand]
  /\ \A c \in Cand, j \in Job : j \in place[c] => c \in members[j]

\* An application makes a new candidate and a participant at once.
Apply(c, j) ==
  /\ Move(c, place[c] \cup {j})
  /\ members' = [members EXCEPT ![j] = @ \cup {c}]

\* Leaving the new candidates and entering the first step are one step.
Send(c, j) ==
  /\ \E s \in At(j) : Order[s] = 1 /\ s \notin place[c]
                      /\ Move(c, (place[c] \ {j}) \cup {s})
  /\ UNCHANGED members

Add(c, s) == s \notin place[c] /\ Move(c, place[c] \cup {s}) /\ UNCHANGED members

Remove(c, s) == s \in place[c] /\ Move(c, place[c] \ {s}) /\ UNCHANGED members

\* An approved candidate enters the next step and leaves no list.
Approve(c, s) ==
  /\ s \notin LastStep
  /\ \E t \in At(JobOf[s]) : Order[t] = Order[s] + 1 /\ Move(c, place[c] \cup {t})
  /\ UNCHANGED members

\* A reproved candidate leaves later steps, of whatever job, together.
Reprove(c, s) ==
  /\ s \notin LastStep
  /\ \E T \in SUBSET {t \in Step : Order[t] > Order[s]} : Move(c, place[c] \ T)
  /\ UNCHANGED members

\* A withdrawn candidate leaves both lists of the job, or is in neither.
Withdraw(c, j) ==
  \E T \in SUBSET At(j) :
    \/ /\ Move(c, place[c] \ (T \cup {j}))
       /\ members' = [members EXCEPT ![j] = @ \ {c}]
    \/ Move(c, place[c] \ T) /\ UNCHANGED members

Next ==
  \E c \in Cand :
    \/ \E j \in Job : Apply(c, j) \/ Send(c, j) \/ Withdraw(c, j)
    \/ \E s \in Step : Add(c, s) \/ Remove(c, s) \/ Approve(c, s) \/ Reprove(c, s)

Spec == Init /\ [][Next]_<<place, members>>
=============================================================================
