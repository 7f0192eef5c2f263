--------------------------- MODULE HiringPipeline ---------------------------
(***************************************************************************)
(* The hiring pipeline of src/src/modules/job/job.service.ts: how a        *)
(* candidacy moves from Job.newCandidates through the candidate lists of   *)
(* the job's steps, under concurrent HTTP requests.  A request is a        *)
(* process that runs from one await to the next; a session is a            *)
(* transaction of MongoTxn.  applyToJob starts sendCandidateToSteps        *)
(* without awaiting it, so each request r owns two processes: <<r,"http">> *)
(* and the background <<r,"send">>.                                        *)
(*                                                                         *)
(* Candidate lists are sets of entries.  "by" is the request that pushed   *)
(* the entry (its createdAt), so that two entries of one candidate in one  *)
(* list stay distinguishable.  The steps of a job, their order and their   *)
(* lastStep flag do not change here: see StepOrder.                        *)
(***************************************************************************)
EXTENDS Naturals, Sequences

CONSTANTS Job, Step, Cand,
          Req,        \* requests that may arrive, each once
          Earlier,    \* the "by" of what was stored before the model starts
          NoStep,     \* an absent step reference
          JobOf,      \* JobStep.job
          Order,      \* JobStep.order
          LastStep,   \* the steps whose lastStep flag is set
          PsJob,      \* the jobs that have a psTestId
          Ops,        \* the operations that requests may call
          MaxBatch    \* bound on the candidates of one approve/reprove batch

Operations == {"apply", "send", "add", "remove", "approve", "reprove",
               "reproveFromJob", "withdraw", "close", "open"}

ASSUME PipelineAssumption ==
  /\ Job \cap Step = {}
  /\ Earlier \notin Req
  /\ NoStep \notin Step
  /\ JobOf \in [Step -> Job]
  /\ Order \in [Step -> Nat \ {0}]
  /\ LastStep \subseteq Step
  /\ PsJob \subseteq Job
  /\ Ops \subseteq Operations
  /\ MaxBatch \in Nat \ {0}

VARIABLES db, open, view, writes, stale,
          pc,       \* pc[p]: what process p does next
          req,      \* req[p]: the call it executes
          psTests   \* the PsTestResult rows, one per created Push Start test

Doc == Job \cup Step
Proc == Req \X {"http", "send"}

INSTANCE MongoTxn

storeVars == <<db, open, view, writes, stale>>

vars == <<db, open, view, writes, stale, pc, req, psTests>>

-----------------------------------------------------------------------------
(* Documents and requests *)

Status == {"INITIAL", "APPROVED", "REPROVED"}

Entry == [cand : Cand, by : Req \cup {Earlier}, status : Status,
          reprovedStep : Step \cup {NoStep}, feedback : BOOLEAN]

Participant == [cand : Cand, by : Req \cup {Earlier}]

JobDoc == [closed : BOOLEAN, newCandidates : SUBSET Entry,
           participants : SUBSET Participant]

StepDoc == [candidates : SUBSET Entry]

\* What the two collections may contain.
Contents == {x \in [Doc -> JobDoc \cup StepDoc] :
               /\ \A j \in Job : x[j] \in JobDoc
               /\ \A s \in Step : x[s] \in StepDoc}

\* The operations whose URL names a step.
StepOps == {"add", "remove", "approve", "reprove"}

\* cand is the candidate in hand, rest what is left of a batch.
Request ==
  {q \in [op : Operations, job : Job, step : Step \cup {NoStep},
          cand : Cand, rest : Seq(Cand), feedback : BOOLEAN] :
     q.op \in StepOps => q.step \in Step}

NoRequest == <<>>

Label == {"idle", "read", "push", "pull", "test", "create", "add", "write",
          "commit", "done"}

NewEntry(c, by) == [cand |-> c, by |-> by, status |-> "INITIAL",
                    reprovedStep |-> NoStep, feedback |-> FALSE]

Holds(entries, c) == \E e \in entries : e.cand = c

Without(entries, c) == {e \in entries : e.cand # c}

\* Faulty variants: the two values exchanged; the array filter forgotten.
SetStatusSwapped(entries, c, status, at) ==
  {IF e.cand = c THEN [e EXCEPT !.status = at, !.reprovedStep = status] ELSE e :
     e \in entries}

SetStatusOfAll(entries, c, status, at) ==
  {[e EXCEPT !.status = status, !.reprovedStep = at] : e \in entries}

\* The $set of an update restricted by the array filter { 'c._id': candidateId }.
SetStatus(entries, c, status, at) ==
  {IF e.cand = c THEN [e EXCEPT !.status = status, !.reprovedStep = at] ELSE e :
     e \in entries}

SetFeedback(entries, c, given) ==
  {IF e.cand = c THEN [e EXCEPT !.feedback = given] ELSE e : e \in entries}

StepsOf(j) == {s \in Step : JobOf[s] = j}

\* findOne({ job: jobId, order: step.order + 1, defaultStep: false })
NextSteps(j, s) == {t \in StepsOf(j) : Order[t] = Order[s] + 1}

\* job.steps.find((stp) => stp.order === 1)
FirstSteps(j) == {t \in StepsOf(j) : Order[t] = 1}

InSomeStep(d, j, c) == \E s \in StepsOf(j) : Holds(d[s].candidates, c)

-----------------------------------------------------------------------------
(* Initial states: every candidate is out of a job, a new candidate, was    *)
(* added to its steps by an employer, or has been approved up to a step.    *)

Stages == {g \in [Job -> [Cand -> {"out", "new", "added"} \cup Step]] :
             \A j \in Job, c \in Cand : g[j][c] \in Step => JobOf[g[j][c]] = j}

Reached(g, s) == {c \in Cand : \/ g[JobOf[s]][c] = "added"
                               \/ /\ g[JobOf[s]][c] \in Step
                                  /\ Order[s] <= Order[g[JobOf[s]][c]]}

StartDoc(g, d) ==
  IF d \in Job
  THEN [closed |-> FALSE,
        newCandidates |-> {NewEntry(c, Earlier) : c \in {x \in Cand : g[d][x] = "new"}},
        participants |-> [cand : {x \in Cand : g[d][x] \notin {"out", "added"}},
                          by : {Earlier}]]
  ELSE [candidates |->
          {[NewEntry(c, Earlier) EXCEPT
              !.status = IF g[JobOf[d]][c] \in {d, "added"} THEN "INITIAL" ELSE "APPROVED"] :
             c \in Reached(g, d)}]

Init ==
  /\ \E g \in Stages : db = [d \in Doc |-> StartDoc(g, d)]
  /\ MongoInit
  /\ pc = [p \in Proc |-> "idle"]
  /\ req = [p \in Proc |-> NoRequest]
  /\ psTests = {}

-----------------------------------------------------------------------------
(* Control: where a process goes next, and how a call chain ends *)

At(p, op, label) == pc[p] = label /\ req[p].op = op

Active == {p \in Proc : pc[p] \notin {"idle", "done"}}

Goto(p, label) ==
  /\ pc' = [pc EXCEPT ![p] = label]
  /\ UNCHANGED req

End(P) ==
  /\ pc' = [p \in Proc |-> IF p \in P THEN "done" ELSE pc[p]]
  /\ req' = [p \in Proc |-> IF p \in P THEN NoRequest ELSE req[p]]

\* Faulty variant: the catch block forgets abortTransaction.
FailWithoutAbort(p) ==
  LET P == IF p[2] = "send" THEN Active ELSE {p}
  IN  End(P) /\ UNCHANGED storeVars /\ UNCHANGED psTests

\* An exception.  The catch block aborts the transaction and the client gets an
\* error.  Nobody awaits the background send: its rejection is unhandled, which
\* ends the Node process and every call chain in it.
Fail(p) ==
  LET P == IF p[2] = "send" THEN Active ELSE {p}
  IN  End(P) /\ TxnAbort(P) /\ UNCHANGED psTests

\* An update in the session of p that sees v afterwards and modifies W.
Update(p, v, W, label) ==
  \/ TxnWrite(p, v, W) /\ Goto(p, label) /\ UNCHANGED psTests
  \/ W \cap Conflicting(p) # {} /\ Fail(p)

\* commitTransaction, and the next round of the loop of a batch.
Commit(p) ==
  /\ pc[p] = "commit"
  /\ TxnCommit(p)
  /\ IF req[p].rest = <<>>
     THEN End({p})
     ELSE /\ pc' = [pc EXCEPT ![p] = "read"]
          /\ req' = [req EXCEPT ![p] = [req[p] EXCEPT !.cand = Head(req[p].rest),
                                                      !.rest = Tail(req[p].rest)]]
  /\ UNCHANGED psTests

\* Any awaited call to the database or to a service may throw instead.
CallFails(p) == p \in Active /\ Fail(p)

\* The Node process stops: a deployment, or an error nobody handles.
ProcessExit ==
  /\ Active # {}
  /\ End(Active) /\ TxnAbort(Active) /\ UNCHANGED psTests

\* The inputs: a client names a step of the job in the URL.
Batches == UNION {[1..n -> Cand] : n \in 0..(MaxBatch - 1)}

Calls ==
  [op : Ops \cap StepOps, job : Job, step : Step, cand : Cand,
   rest : Batches, feedback : BOOLEAN]
  \cup [op : Ops \ StepOps, job : Job, step : {NoStep}, cand : Cand,
        rest : {<<>>}, feedback : {FALSE}]

ValidCall(q) ==
  /\ q.step \in Step => JobOf[q.step] = q.job
  /\ q.op \in {"add", "remove"} => q.rest = <<>> /\ ~q.feedback

Arrive(r) ==
  /\ pc[<<r, "http">>] = "idle"
  /\ \E q \in Calls : ValidCall(q) /\ req' = [req EXCEPT ![<<r, "http">>] = q]
  /\ pc' = [pc EXCEPT ![<<r, "http">>] = "read"]
  /\ UNCHANGED <<storeVars, psTests>>

-----------------------------------------------------------------------------
(* applyToJob *)

\* job.closed stands for "closed, or finishAt has passed"; a candidate whose
\* profile is incomplete is turned away by CallFails.
ApplyCheck(p) ==
  /\ At(p, "apply", "read")
  /\ LET j == req[p].job
         c == req[p].cand
     IN  IF \/ db[j].closed
            \/ Holds(db[j].newCandidates, c)
            \/ InSomeStep(db, j, c)
         THEN Fail(p)
         ELSE Goto(p, "push") /\ UNCHANGED <<storeVars, psTests>>

PushCandidate(doc, c, by) ==
  [closed |-> doc.closed,
   newCandidates |-> doc.newCandidates \cup {NewEntry(c, by)},
   participants |-> doc.participants \cup {[cand |-> c, by |-> by]}]

\* The $push in the session, then sendCandidateToSteps is started, not awaited.
ApplyPush(p) ==
  LET j == req[p].job
      c == req[p].cand
      bg == <<p[1], "send">>
  IN  /\ At(p, "apply", "push")
      /\ \/ /\ TxnWrite(p, [Seen(p) EXCEPT ![j] = PushCandidate(@, c, p[1])], {j})
            /\ pc' = [pc EXCEPT ![p] = "commit", ![bg] = "read"]
            /\ req' = [req EXCEPT ![bg] = [req[p] EXCEPT !.op = "send"]]
            /\ UNCHANGED psTests
         \/ {j} \cap Conflicting(p) # {} /\ Fail(p)

-----------------------------------------------------------------------------
(* sendCandidateToSteps, in the background or as POST :jobId/candidates/:id *)

SendCheck(p) ==
  /\ At(p, "send", "read")
  /\ IF InSomeStep(db, req[p].job, req[p].cand)
     THEN Fail(p)
     ELSE Goto(p, "pull") /\ UNCHANGED <<storeVars, psTests>>

PullNew(doc, c) == [doc EXCEPT !.newCandidates = Without(@, c)]

\* Faulty variant: the $pull without .session(session).
SendPullOutside(p) ==
  /\ At(p, "send", "pull")
  /\ PlainWrite(req[p].job, PullNew(db[req[p].job], req[p].cand))
  /\ Goto(p, "add")
  /\ UNCHANGED psTests

SendPull(p) ==
  LET j == req[p].job
      c == req[p].cand
      x == Seen(p)
  IN  /\ At(p, "send", "pull")
      /\ Update(p, [x EXCEPT ![j] = PullNew(@, c)],
                IF Holds(x[j].newCandidates, c) THEN {j} ELSE {},
                IF j \in PsJob THEN "test" ELSE "add")

\* pushStartService.findByUserId
SendTest(p) ==
  /\ At(p, "send", "test")
  /\ Goto(p, IF \E t \in psTests : t.cand = req[p].cand THEN "add" ELSE "create")
  /\ UNCHANGED <<storeVars, psTests>>

\* pushStartService.createTest stores its row outside the session.
SendCreate(p) ==
  /\ At(p, "send", "create")
  /\ psTests' = psTests \cup {[cand |-> req[p].cand, by |-> p[1]]}
  /\ Goto(p, "add")
  /\ UNCHANGED storeVars

\* Faulty variant: the list of the step is not looked at.
AddToUnchecked(p, s, c) ==
  Update(p, [Seen(p) EXCEPT ![s].candidates = @ \cup {NewEntry(c, p[1])}],
         {s}, "commit")

\* Faulty variant: addCandidate is not given the session.
AddToOutside(p, s, c) ==
  IF Holds(db[s].candidates, c)
  THEN Fail(p)
  ELSE /\ PlainWrite(s, [db[s] EXCEPT !.candidates = @ \cup {NewEntry(c, p[1])}])
       /\ Goto(p, "commit") /\ UNCHANGED psTests

\* addCandidate: the step is read and written in one session.
AddTo(p, s, c) ==
  LET x == Seen(p)
  IN  IF Holds(x[s].candidates, c)
      THEN Fail(p)
      ELSE Update(p, [x EXCEPT ![s].candidates = @ \cup {NewEntry(c, p[1])}],
                  {s}, "commit")

SendAdd(p) ==
  LET first == FirstSteps(req[p].job)
  IN  /\ At(p, "send", "add")
      /\ \/ first = {} /\ Fail(p)
         \/ \E s \in first : AddTo(p, s, req[p].cand)

-----------------------------------------------------------------------------
(* The operations on one step *)

AddCandidate(p) ==
  /\ At(p, "add", "read")
  /\ AddTo(p, req[p].step, req[p].cand)

RemoveCandidate(p) ==
  LET s == req[p].step
      c == req[p].cand
      x == Seen(p)
  IN  /\ At(p, "remove", "read")
      /\ Update(p, [x EXCEPT ![s].candidates = Without(@, c)],
                IF Holds(x[s].candidates, c) THEN {s} ELSE {}, "commit")

StepsHolding(x, c) == {s \in Step : Holds(x[s].candidates, c)}

\* What approveCandidate writes into one step d: the candidate enters the next
\* step, feedback is set everywhere, the status up to the approved step.  d
\* ranges over the steps of EVERY job: JobStep has no path jobId, so mongoose
\* (strictQuery) drops that key from the filters { jobId, ... } of the updates.
ApprovedEntries(x, s, next, q, by, d) ==
  LET c == q.cand
      pushed == IF d = next /\ ~Holds(x[d].candidates, c)
                THEN x[d].candidates \cup {NewEntry(c, by)}
                ELSE x[d].candidates
      marked == SetFeedback(pushed, c, q.feedback)
  IN  IF Order[d] <= Order[s] THEN SetStatus(marked, c, "APPROVED", NoStep)
      ELSE marked

\* Faulty variant: without the else branch that clears an old feedback, a next
\* step that already holds the candidate is only read.
ApproveWithoutClearing(p) ==
  LET q == req[p]
      s == q.step
      x == Seen(p)
      After(next) == [d \in Doc |->
        IF d \in Job THEN x[d]
        ELSE [candidates |-> ApprovedEntries(x, s, next, q, p[1], d)]]
  IN  /\ At(p, "approve", "read")
      /\ \/ s \notin LastStep /\ NextSteps(q.job, s) = {} /\ Fail(p)
         \/ \E next \in IF s \in LastStep THEN {NoStep} ELSE NextSteps(q.job, s) :
              Update(p, After(next), {d \in Step : After(next)[d] # x[d]}, "commit")

ApproveCandidate(p) ==
  LET q == req[p]
      s == q.step
      x == Seen(p)
      After(next) == [d \in Doc |->
        IF d \in Job THEN x[d]
        ELSE [candidates |-> ApprovedEntries(x, s, next, q, p[1], d)]]
  IN  /\ At(p, "approve", "read")
      /\ \/ s \notin LastStep /\ NextSteps(q.job, s) = {} /\ Fail(p)
         \/ \E next \in IF s \in LastStep THEN {NoStep} ELSE NextSteps(q.job, s) :
              Update(p, After(next), StepsHolding(After(next), q.cand), "commit")

\* What reproveCandidate writes into one step, again over the steps of every
\* job: the candidate leaves the later steps, feedback is set everywhere, the
\* status in the reproved step alone.
ReprovedEntries(x, s, q, d) ==
  LET c == q.cand
      kept == IF s \notin LastStep /\ Order[d] > Order[s]
              THEN Without(x[d].candidates, c)
              ELSE x[d].candidates
      marked == SetFeedback(kept, c, q.feedback)
  IN  IF d = s THEN SetStatus(marked, c, "REPROVED", s) ELSE marked

ReproveCandidate(p) ==
  LET q == req[p]
      x == Seen(p)
  IN  /\ At(p, "reprove", "read")
      /\ Update(p, [d \in Doc |->
                      IF d \in Job THEN x[d]
                      ELSE [candidates |-> ReprovedEntries(x, q.step, q, d)]],
                StepsHolding(x, q.cand), "commit")

-----------------------------------------------------------------------------
(* The operations on the job *)

ReproveFromJob(p) ==
  LET j == req[p].job
      c == req[p].cand
      x == Seen(p)
  IN  /\ At(p, "reproveFromJob", "read")
      /\ Update(p, [x EXCEPT ![j].newCandidates = SetStatus(@, c, "REPROVED", NoStep)],
                IF Holds(x[j].newCandidates, c) THEN {j} ELSE {}, "commit")

\* removeCandidateFromJob: the check reads outside the session.
WithdrawCheck(p) ==
  /\ At(p, "withdraw", "read")
  /\ LET j == req[p].job
         c == req[p].cand
     IN  IF Holds(db[j].newCandidates, c) \/ InSomeStep(db, j, c)
         THEN Goto(p, "write") /\ UNCHANGED <<storeVars, psTests>>
         ELSE Fail(p)

\* Faulty variants: one of the two lists of the job is forgotten.
WithdrawnDocKeepsNew(doc, j, d, c) ==
  IF d = j THEN [doc EXCEPT !.participants = Without(@, c)]
  ELSE IF d \in StepsOf(j) THEN [candidates |-> Without(doc.candidates, c)]
  ELSE doc

WithdrawnDocKeepsParticipant(doc, j, d, c) ==
  IF d = j THEN [doc EXCEPT !.newCandidates = Without(@, c)]
  ELSE IF d \in StepsOf(j) THEN [candidates |-> Without(doc.candidates, c)]
  ELSE doc

WithdrawnDoc(doc, j, d, c) ==
  IF d = j THEN [closed |-> doc.closed,
                 newCandidates |-> Without(doc.newCandidates, c),
                 participants |-> Without(doc.participants, c)]
  ELSE IF d \in StepsOf(j) THEN [candidates |-> Without(doc.candidates, c)]
  ELSE doc

Withdraw(p) ==
  LET j == req[p].job
      c == req[p].cand
      x == Seen(p)
      v == [d \in Doc |-> WithdrawnDoc(x[d], j, d, c)]
  IN  /\ At(p, "withdraw", "write")
      /\ Update(p, v, {d \in Doc : v[d] # x[d]}, "commit")

\* closeJob and openJob write outside any session.  "close" is also what the
\* passing of finishAt does to applicants.
CloseJob(p) ==
  /\ At(p, "close", "read")
  /\ PlainWrite(req[p].job, [db[req[p].job] EXCEPT !.closed = TRUE])
  /\ End({p}) /\ UNCHANGED psTests

OpenJob(p) ==
  /\ At(p, "open", "read")
  /\ PlainWrite(req[p].job, [db[req[p].job] EXCEPT !.closed = FALSE])
  /\ End({p}) /\ UNCHANGED psTests

-----------------------------------------------------------------------------
Progress(p) ==
  \/ ApplyCheck(p) \/ ApplyPush(p)
  \/ SendCheck(p) \/ SendPull(p) \/ SendTest(p) \/ SendCreate(p) \/ SendAdd(p)
  \/ AddCandidate(p) \/ RemoveCandidate(p)
  \/ ApproveCandidate(p) \/ ReproveCandidate(p)
  \/ ReproveFromJob(p) \/ WithdrawCheck(p) \/ Withdraw(p)
  \/ CloseJob(p) \/ OpenJob(p)
  \/ Commit(p)

Next ==
  \/ \E r \in Req : Arrive(r)
  \/ \E p \in Proc : Progress(p) \/ CallFails(p)
  \/ ProcessExit

Spec == Init /\ [][Next]_vars

\* The event loop resumes every call chain whose awaited call has answered.
FairSpec == Spec /\ \A p \in Proc : WF_vars(Progress(p))

-----------------------------------------------------------------------------
(* Properties *)

TypeOK ==
  /\ db \in Contents
  /\ open \subseteq Proc
  /\ view \in [Proc -> Contents \cup {NoView}]
  /\ \A p \in open : view[p] \in Contents
  /\ writes \in [Proc -> SUBSET Doc]
  /\ stale \in [Proc -> SUBSET Doc]
  /\ pc \in [Proc -> Label]
  /\ req \in [Proc -> Request \cup {NoRequest}]
  /\ \A p \in Active : req[p] \in Request
  /\ psTests \subseteq [cand : Cand, by : Req]

\* A candidate is at most once in the list of a step, whatever adds, approvals
\* and background sends run at the same time and however a batch is retried:
\* 'Candidato já adicionado nessa etapa.' (addCandidate).
CandidateOncePerStep ==
  \A s \in Step : \A e, f \in db[s].candidates : e.cand = f.cand => e = f

\* Everyone waiting in newCandidates is among the participants of the same
\* application: the two lists of a job never disagree about who applied.
NewCandidateIsParticipant ==
  \A j \in Job : \A e \in db[j].newCandidates :
     [cand |-> e.cand, by |-> e.by] \in db[j].participants

\* A candidate is in the funnel of a job while waiting or in its first step.
InFunnel(j, c) ==
  \/ Holds(db[j].newCandidates, c)
  \/ \E s \in FirstSteps(j) : Holds(db[s].candidates, c)

\* When no employer deletes a candidate from a step, whoever participates in a
\* job that has a first step stays in its funnel: no race between sends, withdrawals, approvals and
\* reprovals, no failure and no crash leaves a participant nowhere.
ParticipantInFunnel ==
  "remove" \notin Ops =>
    \A j \in Job : \A t \in db[j].participants :
       FirstSteps(j) # {} => InFunnel(j, t.cand)

\* The step in which p commits.
Committing(p) == pc[p] = "commit" /\ pc'[p] # "commit" /\ db' # db

\* A candidate leaves the funnel of a job only by a committed withdrawal or
\* deletion of that very candidate: the move from newCandidates to the first
\* step is all or nothing, also across a crash.
LeavesFunnelOnlyByRemoval ==
  [][\A j \in Job, c \in Cand : InFunnel(j, c) /\ ~InFunnel(j, c)' =>
       \E p \in Proc : /\ Committing(p)
                       /\ req[p].op \in {"withdraw", "remove"}
                       /\ req[p].job = j /\ req[p].cand = c]_vars

\* The entries of candidate c in a document.
EntriesOf(d, doc, c) ==
  IF d \in Job THEN {e \in doc.newCandidates \cup doc.participants : e.cand = c}
  ELSE {e \in doc.candidates : e.cand = c}

\* A commit changes the entries of the candidate of its request and of nobody
\* else, although whole lists are shared by concurrent requests: no update of
\* another candidate is lost.
OnlyItsCandidate ==
  [][\A p \in Proc : Committing(p) =>
       \A d \in Doc, c \in Cand \ {req[p].cand} :
          EntriesOf(d, db'[d], c) = EntriesOf(d, db[d], c)]_vars

\* When an approval at a step that is not the last one commits, the candidate
\* is in the next step, even if a removal from that step ran concurrently.
ApprovalAdvances ==
  [][\A p \in Proc :
       Committing(p) /\ req[p].op = "approve" /\ req[p].step \notin LastStep =>
         \E t \in NextSteps(req[p].job, req[p].step) :
            Holds(db'[t].candidates, req[p].cand)]_vars

\* Every request that arrives is answered, although plain updates wait for the
\* transactions that hold their document.
EveryRequestEnds == \A p \in Proc : pc[p] = "read" ~> pc[p] = "done"

\* Where the candidates of the committed lists are.
Places ==
  [c \in Cand |-> {j \in Job : Holds(db[j].newCandidates, c)}
                  \cup {s \in Step : Holds(db[s].candidates, c)}]

Members == [j \in Job |-> {t.cand : t \in db[j].participants}]

Moves == INSTANCE Candidacy WITH place <- Places, members <- Members

\* However the calls of concurrent requests interleave and fail, candidates move
\* as in Candidacy: one at a time, and from list to list in one step.
Candidacies == Moves!Spec

-----------------------------------------------------------------------------
(* What the code's own guards, filters and tests claim, and its behaviour
   refutes *)

\* 'Candidato já se aplicou nessa vaga.': one application per candidate and job.
AppliesOnce ==
  \A j \in Job : \A e, f \in db[j].newCandidates : e.cand = f.cand => e = f

\* 'Candidato já está no processo seletivo.': who is in a step is not waiting.
NewCandidateNotInStep ==
  \A j \in Job : \A e \in db[j].newCandidates : ~InSomeStep(db, j, e.cand)

\* 'Vaga esta encerrada.': nobody joins the participants of a closed job.
NobodyJoinsClosedJob ==
  [][\A j \in Job : db[j].closed => db'[j].participants \subseteq db[j].participants]_vars

\* The filter { jobId }: approving and reproving touch the steps of their job.
DecisionsStayInTheirJob ==
  [][\A p \in Proc : Committing(p) /\ req[p].op \in {"approve", "reprove"} =>
       \A s \in Step \ StepsOf(req[p].job) : db'[s] = db[s]]_vars
=============================================================================
