------------------------------ MODULE StepOrder ------------------------------
(***************************************************************************)
(* The steps of one job in src/src/modules/job/job.service.ts: addStep,    *)
(* updateStep, removeStep, deleteJob and updateJob, whose body may hold a  *)
(* new list of steps, under concurrent HTTP requests.  Job.steps is a      *)
(* sequence of step ids, of which populate drops those whose document is   *)
(* gone; every step document has an order and a lastStep flag, from which  *)
(* approveCandidate finds the next step.                                   *)
(*                                                                         *)
(* Every handler reads the job outside its transaction first.  What it     *)
(* then uses of that reading is kept in req.  The step that a request r    *)
(* creates has the identity r.                                             *)
(***************************************************************************)
EXTENDS Naturals, Sequences, FiniteSets, SequencesExt

CONSTANTS Req,      \* requests that may arrive, each once
          Start,    \* ids of steps that may exist before the model starts
          JobId,    \* the job document
          Profiles  \* how the clients of one behaviour may call: ops, the
                    \* operations; orders, the orders they send, 0 being an
                    \* absent one; flags, the lastStep values, TRUE the default;
                    \* lengths, of the lists a PATCH of the job may carry;
                    \* repeats, whether the removal of a step may be sent
                    \* again while another removal of it is being served

Ops == {"add", "update", "remove", "deleteJob", "updateJob"}

ASSUME StepOrderAssumption ==
  /\ Start \in Seq(Range(Start)) /\ IsInjective(Start)
  /\ Range(Start) \cap Req = {}
  /\ JobId \notin Range(Start) \cup Req
  /\ \A f \in Profiles :
       /\ f.ops \subseteq Ops
       /\ f.lengths \subseteq Nat
       /\ f.orders \subseteq Nat
       /\ f.flags \subseteq BOOLEAN
       /\ f.repeats \in BOOLEAN

VARIABLES profile,   \* the member of Profiles that this behaviour follows
          db, open, view, writes, stale,
          pc,     \* pc[r]: what request r does next
          req     \* req[r]: the call, with what it has read of the job

Step == Range(Start) \cup Req
Doc == {JobId} \cup Step
Proc == Req

INSTANCE MongoTxn

storeVars == <<db, open, view, writes, stale>>

vars == <<profile, db, open, view, writes, stale, pc, req>>

-----------------------------------------------------------------------------
(* Documents *)

JobDoc == [there : BOOLEAN, steps : Seq(Step)]

StepDoc == [there : BOOLEAN, order : Nat \ {0}, lastStep : BOOLEAN]

Missing == [there |-> FALSE, order |-> 1, lastStep |-> FALSE]

NoJob == [there |-> FALSE, steps |-> <<>>]

Stored(order, lastStep) == [there |-> TRUE, order |-> order, lastStep |-> lastStep]

StepsThere(x) == {s \in Step : x[s].there}

Steps(x) == x[JobId].steps

\* The place of step s in a list that holds it.
Place(steps, s) == CHOOSE i \in DOMAIN steps : steps[i] = s

\* The places of a list, up to n, that still hold a stored step: what populate
\* leaves of them.
Filled(x, steps, n) == {i \in 1..n : x[steps[i]].there}

\* The length of a populated list.
Count(x, steps) == Cardinality(Filled(x, steps, Len(steps)))

\* steps is the list that a PATCH of the job carries.
Request == [op : Ops, step : Step, order : Nat, lastStep : BOOLEAN,
            steps : Seq(Step), known : SUBSET Step]

NoRequest == <<>>

\* A job with n steps, added one after the other.
Init ==
  /\ profile \in Profiles
  /\ \E n \in 0..Len(Start) :
       LET steps == SubSeq(Start, 1, n)
       IN  db = [d \in Doc |->
                   IF d = JobId THEN [there |-> TRUE, steps |-> steps]
                   ELSE IF d \in Range(steps)
                   THEN Stored(Place(steps, d), Place(steps, d) = n)
                   ELSE Missing]
  /\ MongoInit
  /\ pc = [r \in Req |-> "idle"]
  /\ req = [r \in Req |-> NoRequest]

-----------------------------------------------------------------------------
(* Control *)

At(r, op, label) == pc[r] = label /\ req[r].op = op

Active == {r \in Req : pc[r] \notin {"idle", "done"}}

Goto(r, label) == pc' = [pc EXCEPT ![r] = label] /\ UNCHANGED req

End(R) ==
  /\ pc' = [r \in Req |-> IF r \in R THEN "done" ELSE pc[r]]
  /\ req' = [r \in Req |-> IF r \in R THEN NoRequest ELSE req[r]]

\* Faulty variant: the catch block forgets abortTransaction.
FailWithoutAbort(R) == End(R) /\ UNCHANGED storeVars

Fail(R) == End(R) /\ TxnAbort(R)

Calls ==
  [op : profile.ops \cap {"add"}, order : profile.orders, lastStep : profile.flags]
  \cup [op : profile.ops \cap {"update"}, order : profile.orders \ {0},
        lastStep : BOOLEAN]
  \cup [op : profile.ops \cap {"remove", "deleteJob", "updateJob"}, order : {0},
        lastStep : {FALSE}]

\* The lists a client may send: ids of steps it can have seen, each once (nothing
\* validates them).
Lists(q) ==
  IF q.op = "updateJob"
  THEN {steps \in UNION {[1..n -> StepsThere(db)] : n \in profile.lengths} :
          IsInjective(steps)}
  ELSE {<<>>}

Arrive(r) ==
  /\ pc[r] = "idle"
  /\ \E q \in Calls : \E s \in Step, steps \in Lists(q) :
       /\ IF q.op \in {"add", "deleteJob", "updateJob"} THEN s = r ELSE db[s].there
       /\ q.op = "remove" /\ ~profile.repeats =>
            \A t \in Active : req[t].op = "remove" => req[t].step # s
       /\ req' = [req EXCEPT ![r] = [op |-> q.op, step |-> s, order |-> q.order,
                                     lastStep |-> q.lastStep, steps |-> steps,
                                     known |-> {}]]
  /\ pc' = [pc EXCEPT ![r] = "read"]
  /\ UNCHANGED storeVars

\* An awaited call throws; the client gets an error.
CallFails(r) == r \in Active /\ Fail({r})

\* The Node process stops.
ProcessExit == Active # {} /\ Fail(Active)

Commit(r) == pc[r] = "commit" /\ TxnCommit(r) /\ End({r})

-----------------------------------------------------------------------------
(* addStep *)

AddRead(r) ==
  /\ At(r, "add", "read")
  /\ \/ ~db[JobId].there /\ Fail({r})
     \/ /\ db[JobId].there
        /\ req' = [req EXCEPT
                     ![r].order = IF @ = 0 THEN Count(db, Steps(db)) + 1 ELSE @,
                     ![r].known = Range(Steps(db)) \cap StepsThere(db)]
        /\ pc' = [pc EXCEPT ![r] = "write"]
        /\ UNCHANGED storeVars

\* The steps whose flag the new step takes over.
Predecessors(x, q) ==
  {s \in q.known : x[s].there /\ x[s].order = q.order - 1}

\* Faulty variant: the whole job.steps array that was read is written back.
PushStepStale(doc, q, r) ==
  [doc EXCEPT !.steps = Append(SelectSeq(doc.steps, LAMBDA s : s \in q.known), r)]

\* The $push to job.steps; a deleted job matches nothing.
PushStep(doc, q, r) ==
  IF doc.there THEN [doc EXCEPT !.steps = Append(doc.steps, r)] ELSE doc

\* Faulty variant: updateMany also takes the steps before the predecessor.
AddedEarlier(x, q, r, d) ==
  IF d = r THEN Stored(q.order, q.lastStep)
  ELSE IF d = JobId THEN PushStep(x[d], q, r)
  ELSE IF d \in q.known /\ x[d].there /\ x[d].order <= q.order
  THEN [x[d] EXCEPT !.lastStep = FALSE]
  ELSE x[d]

Added(x, q, r, d) ==
  IF d = r THEN Stored(q.order, q.lastStep)
  ELSE IF d = JobId THEN PushStep(x[d], q, r)
  ELSE IF d \in Predecessors(x, q) THEN [x[d] EXCEPT !.lastStep = FALSE]
  ELSE x[d]

AddWrite(r) ==
  LET x == Seen(r)
      v == [d \in Doc |-> Added(x, req[r], r, d)]
      W == {d \in Doc : v[d] # x[d]}
  IN  /\ At(r, "add", "write")
      /\ \/ TxnWrite(r, v, W) /\ Goto(r, "commit")
         \/ W \cap Conflicting(r) # {} /\ Fail({r})

-----------------------------------------------------------------------------
(* updateStep: one update outside any session, with the fields of the body *)

UpdateStep(r) ==
  LET s == req[r].step
      doc == Stored(req[r].order, req[r].lastStep)
  IN  /\ At(r, "update", "read")
      /\ IF db[s].there /\ db[s] # doc THEN PlainWrite(s, doc) ELSE UNCHANGED storeVars
      /\ End({r})

-----------------------------------------------------------------------------
(* updateJob: one update outside any session, with the list of the body *)

UpdateJob(r) ==
  LET doc == [there |-> TRUE, steps |-> req[r].steps]
  IN  /\ At(r, "updateJob", "read")
      /\ IF db[JobId].there /\ db[JobId] # doc
         THEN PlainWrite(JobId, doc) ELSE UNCHANGED storeVars
      /\ End({r})

-----------------------------------------------------------------------------
(* removeStep *)

RemoveRead(r) ==
  /\ At(r, "remove", "read")
  /\ IF db[JobId].there /\ db[req[r].step].there
     THEN Goto(r, "write") /\ UNCHANGED storeVars
     ELSE Fail({r})

\* The place of a step in the populated list, and whether it is the last one.
Rank(x, steps, d) == Cardinality(Filled(x, steps, Place(steps, d)))

IsLast(x, steps, d) == Filled(x, steps, Place(steps, d)) = Filled(x, steps, Len(steps))

\* Faulty variants: order counted from 0; lastStep left as it was.
RenumberedFromZero(x, steps, d) ==
  [x[d] EXCEPT !.order = Rank(x, steps, d) - 1, !.lastStep = IsLast(x, steps, d)]

RenumberedOnly(x, steps, d) == [x[d] EXCEPT !.order = Rank(x, steps, d)]

\* The comparator of steps.sort ASSIGNS a.order = b.order and returns a positive
\* number, so the array keeps its order: a step gets its place in job.steps.
Renumbered(x, steps, d) ==
  [x[d] EXCEPT !.order = Rank(x, steps, d), !.lastStep = IsLast(x, steps, d)]

\* The $pull from job.steps, which holds an id at most once (StepsListed).
PullStep(steps, s) ==
  IF s \in Range(steps) THEN RemoveAt(steps, Place(steps, s)) ELSE steps

\* The job and its steps once s is removed.
Removed(x, s, d) ==
  LET steps == PullStep(Steps(x), s)
  IN  IF d = JobId THEN [x[d] EXCEPT !.steps = steps]
      ELSE IF d = s THEN Missing
      ELSE IF d \in Range(steps) /\ x[d].there THEN Renumbered(x, steps, d)
      ELSE x[d]

\* session.withTransaction aborts and runs its callback again on a conflict.
RemoveWrite(r) ==
  LET x == Seen(r)
      v == [d \in Doc |-> Removed(x, req[r].step, d)]
      W == {d \in Doc : v[d] # x[d]}
  IN  /\ At(r, "remove", "write")
      /\ IF x[JobId].there
         THEN \/ TxnWrite(r, v, W) /\ Goto(r, "commit")
              \/ /\ W \cap Conflicting(r) # {}
                 /\ TxnAbort({r})
                 /\ UNCHANGED <<pc, req>>
         ELSE Fail({r})

-----------------------------------------------------------------------------
(* deleteJob *)

DeleteRead(r) ==
  /\ At(r, "deleteJob", "read")
  /\ IF db[JobId].there THEN Goto(r, "write") /\ UNCHANGED storeVars ELSE Fail({r})

DeleteWrite(r) ==
  LET x == Seen(r)
      v == [d \in Doc |-> IF d = JobId THEN NoJob ELSE Missing]
      W == {d \in Doc : x[d].there}
  IN  /\ At(r, "deleteJob", "write")
      /\ \/ TxnWrite(r, v, W) /\ Goto(r, "commit")
         \/ W \cap Conflicting(r) # {} /\ Fail({r})

-----------------------------------------------------------------------------
Progress(r) ==
  /\ \/ AddRead(r) \/ AddWrite(r)
     \/ UpdateStep(r) \/ UpdateJob(r)
     \/ RemoveRead(r) \/ RemoveWrite(r)
     \/ DeleteRead(r) \/ DeleteWrite(r)
     \/ Commit(r)
  /\ UNCHANGED profile

Next ==
  \/ \E r \in Req : Progress(r)
  \/ /\ \/ \E r \in Req : Arrive(r) \/ CallFails(r)
        \/ ProcessExit
     /\ UNCHANGED profile

Spec == Init /\ [][Next]_vars

\* The event loop resumes every request whose awaited call has answered.
FairSpec == Spec /\ \A r \in Req : WF_vars(Progress(r))

-----------------------------------------------------------------------------
(* Properties *)

Contents == {x \in [Doc -> JobDoc \cup StepDoc] :
               x[JobId] \in JobDoc /\ \A s \in Step : x[s] \in StepDoc}

TypeOK ==
  /\ profile \in Profiles
  /\ db \in Contents
  /\ open \subseteq Req
  /\ view \in [Req -> Contents \cup {NoView}]
  /\ \A r \in open : view[r] \in Contents
  /\ writes \in [Req -> SUBSET Doc]
  /\ stale \in [Req -> SUBSET Doc]
  /\ pc \in [Req -> {"idle", "read", "write", "commit", "done"}]
  /\ req \in [Req -> Request \cup {NoRequest}]
  /\ \A r \in Active : req[r] \in Request

\* While the job is not deleted, job.steps lists no step twice; and while no PATCH
\* replaces the list either, it lists every stored step and nothing else: no
\* removal leaves an id behind, no failure leaves half of an operation.  (A PATCH
\* of the job replaces the list by what its client sends, and stored steps that
\* it leaves out stay stored.)
StepsListed ==
  "deleteJob" \notin profile.ops =>
    /\ db[JobId].there
    /\ IsInjective(Steps(db))
    /\ "updateJob" \notin profile.ops => Range(Steps(db)) = StepsThere(db)

\* No change of job.steps is lost: whatever was read before, and whatever a PATCH
\* or another transaction wrote since, an addition appends its step to the list as
\* it is at that moment, a removal takes its step and nothing else out of it, and
\* only a PATCH replaces it.
NoListChangeLost ==
  [][Steps(db') # Steps(db) /\ db'[JobId].there =>
       \E r \in Active :
         \/ req[r].op = "add" /\ Steps(db') = Append(Steps(db), r)
         \/ /\ req[r].op = "remove"
            /\ Range(Steps(db')) = Range(Steps(db)) \ {req[r].step}
         \/ req[r].op = "updateJob" /\ Steps(db') = req[r].steps]_vars

\* Steps are only added with the default order and flag, and removed, each of
\* them by one request: a repeated removal renumbers the steps of its snapshot
\* without writing the job, so it does not conflict with an addition.
DefaultSteps ==
  /\ profile.ops \subseteq {"add", "remove"} /\ ~profile.repeats
  /\ profile.orders \subseteq {0} /\ profile.flags \subseteq {TRUE}

\* In every committed state a step that is not flagged as the last one has a next
\* one, however many additions with a stale job.steps.length and removals
\* interleave, where clients send default orders and flags only: an approval whose
\* reading of the step (outside its session) still holds when it looks the next
\* step up finds one.  One whose reading a removal has overtaken may find none.
NextStepExists ==
  DefaultSteps =>
    \A s \in StepsThere(db) : ~db[s].lastStep =>
      \E t \in StepsThere(db) : db[t].order = db[s].order + 1

\* A committed removal leaves the steps numbered 1, 2, ... along job.steps, the
\* last one and no other flagged as last, whatever orders clients sent and
\* whatever was added or removed since the handler read the job, as long as no
\* step and no list is changed outside a session and no step is removed by two
\* requests at a time.
RemovalRenumbers ==
  [][\A r \in Req :
       /\ profile.ops \cap {"update", "updateJob"} = {} /\ ~profile.repeats
       /\ pc[r] = "commit" /\ req[r].op = "remove" /\ db' # db
       /\ pc'[r] = "done" /\ db'[JobId].there
       => \A i \in DOMAIN Steps(db') :
            /\ db'[Steps(db')[i]].order = i
            /\ db'[Steps(db')[i]].lastStep <=> i = Len(Steps(db'))]_vars

\* Every request is answered, although a removal repeats its transaction as long
\* as it conflicts and plain updates wait for transactions.
EveryRequestEnds == \A r \in Req : pc[r] = "read" ~> pc[r] = "done"
=============================================================================
