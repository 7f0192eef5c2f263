------------------------ MODULE HiringPipelineProofs ------------------------
(***************************************************************************)
(* Proofs about HiringPipeline, for any number of jobs, steps, candidates  *)
(* and requests: the types and the list invariants, and that concurrent    *)
(* requests do not disturb each other's candidates.                        *)
(***************************************************************************)
EXTENDS HiringPipeline, SequenceTheorems, TLAPS

(***************************************************************************)
(* The two list invariants hold of the committed documents because they    *)
(* hold of what every open transaction sees.  Sound states them of one     *)
(* such version x of the documents.                                        *)
(***************************************************************************)
OnceIn(x) ==
  \A s \in Step : \A e, f \in x[s].candidates : e.cand = f.cand => e = f

Matched(x) ==
  \A j \in Job : \A e \in x[j].newCandidates :
     [cand |-> e.cand, by |-> e.by] \in x[j].participants

Sound(x) == x \in Contents /\ OnceIn(x) /\ Matched(x)

\* The store without the processes.
StoreOK ==
  /\ Sound(db)
  /\ open \subseteq Proc
  /\ view \in [Proc -> Contents \cup {NoView}]
  /\ \A p \in open : Sound(view[p])
  /\ writes \in [Proc -> SUBSET Doc]
  /\ \A p \in Proc \ open : writes[p] = {}
  /\ stale \in [Proc -> SUBSET Doc]

ControlOK ==
  /\ pc \in [Proc -> Label]
  /\ req \in [Proc -> Request \cup {NoRequest}]
  /\ \A p \in Active : req[p] \in Request
  /\ psTests \subseteq [cand : Cand, by : Req]

IInv == StoreOK /\ ControlOK

-----------------------------------------------------------------------------
(* What the operations of the store preserve *)

LEMMA SeenSound ==
  ASSUME StoreOK, NEW p \in Proc
  PROVE  Sound(Seen(p))
BY DEF StoreOK, Seen

LEMMA EndTxnsOK ==
  ASSUME StoreOK, NEW P \in SUBSET Proc, NEW D \in SUBSET Doc,
         EndTxns(P, D), Sound(db')
  PROVE  StoreOK'
<1>1. open' \subseteq Proc
  BY DEF StoreOK, EndTxns
<1>2. view' \in [Proc -> Contents \cup {NoView}]
  BY DEF StoreOK, EndTxns
<1>3. \A p \in open' : Sound(view'[p])
  BY DEF StoreOK, EndTxns
<1>4. /\ writes' \in [Proc -> SUBSET Doc] /\ stale' \in [Proc -> SUBSET Doc]
      /\ \A p \in Proc \ open' : writes'[p] = {}
  BY DEF StoreOK, EndTxns
<1> QED
  BY <1>1, <1>2, <1>3, <1>4 DEF StoreOK, Sound, OnceIn, Matched

LEMMA TxnWriteOK ==
  ASSUME StoreOK, NEW p \in Proc, NEW v, Sound(v), NEW W \in SUBSET Doc,
         TxnWrite(p, v, W)
  PROVE  StoreOK'
<1>1. view' \in [Proc -> Contents \cup {NoView}]
  BY DEF StoreOK, TxnWrite, Sound
<1>2. \A q \in open' : Sound(view'[q])
  BY DEF StoreOK, TxnWrite
<1> QED
  BY <1>1, <1>2 DEF StoreOK, TxnWrite, Sound, OnceIn, Matched

\* Each published document comes whole from one version, so that an invariant
\* of single documents survives a commit.
LEMMA TxnCommitOK ==
  ASSUME StoreOK, NEW p \in Proc, p \in open, TxnCommit(p)
  PROVE  StoreOK'
<1>1. Sound(db) /\ Sound(view[p]) /\ writes[p] \in SUBSET Doc
  BY DEF StoreOK
<1>2. db' = [d \in Doc |-> IF d \in writes[p] THEN view[p][d] ELSE db[d]]
  BY DEF TxnCommit
<1>3. Sound(db')
  <2>1. \A d \in Doc : db'[d] = db[d] \/ db'[d] = view[p][d]
    BY <1>2
  <2>2. db' \in Contents
    BY <1>1, <1>2, <2>1 DEF Sound, Contents, Doc
  <2> QED
    BY <1>1, <2>1, <2>2 DEF Sound, OnceIn, Matched, Doc
<1> QED
  BY <1>1, <1>3, EndTxnsOK DEF TxnCommit

LEMMA TxnAbortOK ==
  ASSUME StoreOK, NEW P \in SUBSET Proc, TxnAbort(P)
  PROVE  StoreOK'
<1>1. Sound(db')
  BY DEF TxnAbort, StoreOK
<1> QED
  BY <1>1, EndTxnsOK DEF TxnAbort

LEMMA PlainWriteOK ==
  ASSUME StoreOK, NEW d \in Doc, NEW v, Sound([db EXCEPT ![d] = v]),
         PlainWrite(d, v)
  PROVE  StoreOK'
<1>1. Sound(db')
  BY DEF PlainWrite
<1> QED
  BY <1>1, EndTxnsOK DEF PlainWrite

-----------------------------------------------------------------------------
(* What the control of a call chain preserves *)

LEMMA GotoOK ==
  ASSUME ControlOK, NEW p \in Active, NEW label \in Label, Goto(p, label),
         psTests' = psTests
  PROVE  ControlOK'
BY DEF ControlOK, Goto, Active

LEMMA EndOK ==
  ASSUME ControlOK, NEW P \in SUBSET Proc, End(P), psTests' = psTests
  PROVE  ControlOK'
BY DEF ControlOK, End, Active, Label

LEMMA FailOK ==
  ASSUME IInv, NEW p \in Proc, Fail(p)
  PROVE  IInv'
<1> DEFINE P == IF p[2] = "send" THEN Active ELSE {p}
<1>1. P \in SUBSET Proc
  BY DEF Active
<1>2. End(P) /\ TxnAbort(P) /\ psTests' = psTests
  BY DEF Fail
<1> QED
  BY <1>1, <1>2, TxnAbortOK, EndOK DEF IInv

LEMMA UpdateOK ==
  ASSUME IInv, NEW p \in Active, NEW v, Sound(v), NEW W \in SUBSET Doc,
         NEW label \in Label, Update(p, v, W, label)
  PROVE  IInv'
<1>1. CASE TxnWrite(p, v, W) /\ Goto(p, label) /\ UNCHANGED psTests
  BY <1>1, TxnWriteOK, GotoOK DEF IInv, Active
<1>2. CASE Fail(p)
  BY <1>2, FailOK DEF Active
<1> QED
  BY <1>1, <1>2 DEF Update

LEMMA SkipOK ==
  ASSUME IInv, NEW p \in Active, NEW label \in Label, Goto(p, label),
         UNCHANGED <<storeVars, psTests>>
  PROVE  IInv'
<1>1. ControlOK'
  BY GotoOK DEF IInv
<1>2. StoreOK'
  BY DEF IInv, StoreOK, storeVars, Sound, OnceIn, Matched
<1> QED
  BY <1>1, <1>2 DEF IInv

-----------------------------------------------------------------------------
(* What the updates do to one candidate list *)

Once(E) == \A e, f \in E : e.cand = f.cand => e = f

LEMMA NewEntryType ==
  ASSUME NEW c \in Cand, NEW by \in Req \cup {Earlier}
  PROVE  /\ NewEntry(c, by) \in Entry
         /\ NewEntry(c, by).cand = c /\ NewEntry(c, by).by = by
BY DEF NewEntry, Entry, Status

LEMMA SetStatusOK ==
  ASSUME NEW E \in SUBSET Entry, NEW c \in Cand, NEW status \in Status,
         NEW at \in Step \cup {NoStep}
  PROVE  /\ SetStatus(E, c, status, at) \in SUBSET Entry
         /\ Once(E) => Once(SetStatus(E, c, status, at))
         /\ \A e \in SetStatus(E, c, status, at) :
              \E f \in E : f.cand = e.cand /\ f.by = e.by
<1> DEFINE g(e) == IF e.cand = c
                   THEN [e EXCEPT !.status = status, !.reprovedStep = at]
                   ELSE e
<1>1. \A e \in E : g(e) \in Entry /\ g(e).cand = e.cand /\ g(e).by = e.by
  BY DEF Entry
<1>2. SetStatus(E, c, status, at) = {g(e) : e \in E}
  BY DEF SetStatus
<1> HIDE DEF g
<1> QED
  BY <1>1, <1>2 DEF Once

LEMMA SetFeedbackOK ==
  ASSUME NEW E \in SUBSET Entry, NEW c \in Cand, NEW given \in BOOLEAN
  PROVE  /\ SetFeedback(E, c, given) \in SUBSET Entry
         /\ Once(E) => Once(SetFeedback(E, c, given))
<1> DEFINE g(e) == IF e.cand = c THEN [e EXCEPT !.feedback = given] ELSE e
<1>1. \A e \in E : g(e) \in Entry /\ g(e).cand = e.cand
  BY DEF Entry
<1>2. SetFeedback(E, c, given) = {g(e) : e \in E}
  BY DEF SetFeedback
<1> HIDE DEF g
<1> QED
  BY <1>1, <1>2 DEF Once

-----------------------------------------------------------------------------
(* What the updates do to one version of the documents *)

LEMMA StepEntries ==
  ASSUME NEW x, Sound(x), NEW s \in Step
  PROVE  x[s].candidates \in SUBSET Entry /\ Once(x[s].candidates)
BY DEF Sound, Contents, StepDoc, OnceIn, Once

\* Rewriting the lists of the steps and nothing else.
LEMMA StepsRewritten ==
  ASSUME NEW x, Sound(x), NEW v \in [Doc -> JobDoc \cup StepDoc],
         \A j \in Job : v[j] = x[j],
         \A s \in Step : v[s] \in StepDoc /\ Once(v[s].candidates)
  PROVE  Sound(v)
<1>1. v \in Contents
  BY DEF Sound, Contents
<1>2. OnceIn(v)
  BY DEF OnceIn, Once
<1>3. Matched(v)
  BY DEF Sound, Matched
<1> QED
  BY <1>1, <1>2, <1>3 DEF Sound

\* Rewriting the document of one job.
LEMMA JobRewritten ==
  ASSUME NEW x, Sound(x), NEW j \in Job, NEW doc \in JobDoc,
         \A e \in doc.newCandidates : [cand |-> e.cand, by |-> e.by] \in doc.participants
  PROVE  Sound([x EXCEPT ![j] = doc])
<1> DEFINE v == [x EXCEPT ![j] = doc]
<1>1. x \in [Doc -> JobDoc \cup StepDoc] /\ j \in Doc
  BY DEF Sound, Contents, Doc
<1>2. /\ v \in [Doc -> JobDoc \cup StepDoc]
      /\ v[j] = doc
      /\ \A d \in Doc \ {j} : v[d] = x[d]
  BY <1>1
<1>3. \A s \in Step : v[s] = x[s]
  BY <1>2, PipelineAssumption DEF Doc
<1> HIDE DEF v
<1>4. v \in Contents
  BY <1>2, <1>3 DEF Sound, Contents, Doc
<1>5. OnceIn(v)
  BY <1>3 DEF Sound, OnceIn
<1>6. Matched(v)
  BY <1>2 DEF Sound, Matched, Doc
<1>7. Sound(v)
  BY <1>4, <1>5, <1>6 DEF Sound
<1> QED
  BY <1>7 DEF v

LEMMA PushCandidateSound ==
  ASSUME NEW x, Sound(x), NEW j \in Job, NEW c \in Cand, NEW by \in Req
  PROVE  Sound([x EXCEPT ![j] = PushCandidate(@, c, by)])
<1> DEFINE doc == PushCandidate(x[j], c, by)
<1>1. x[j] \in JobDoc
  BY DEF Sound, Contents
<1>2. [cand |-> c, by |-> by] \in Participant
  BY DEF Participant
<1>3. doc = [closed |-> x[j].closed,
             newCandidates |-> x[j].newCandidates \cup {NewEntry(c, by)},
             participants |-> x[j].participants \cup {[cand |-> c, by |-> by]}]
  BY <1>1 DEF PushCandidate, JobDoc
<1> HIDE DEF doc
<1>4. doc \in JobDoc
  BY <1>1, <1>2, <1>3, NewEntryType DEF JobDoc
<1>5. \A e \in doc.newCandidates : [cand |-> e.cand, by |-> e.by] \in doc.participants
  <2> TAKE e \in doc.newCandidates
  <2>1. CASE e \in x[j].newCandidates
    BY <1>3, <2>1 DEF Sound, Matched
  <2>2. CASE e = NewEntry(c, by)
    <3>1. e.cand = c /\ e.by = by
      BY <2>2 DEF NewEntry
    <3> QED
      BY <1>3, <3>1
  <2> QED
    BY <1>3, <2>1, <2>2
<1>6. Sound([x EXCEPT ![j] = doc])
  BY <1>4, <1>5, JobRewritten
<1> QED
  BY <1>6 DEF doc

LEMMA PullNewSound ==
  ASSUME NEW x, Sound(x), NEW j \in Job, NEW c \in Cand
  PROVE  Sound([x EXCEPT ![j] = PullNew(@, c)])
<1> DEFINE doc == PullNew(x[j], c)
<1>1. x[j] \in JobDoc
  BY DEF Sound, Contents
<1>2. /\ doc \in JobDoc
      /\ doc.newCandidates = Without(x[j].newCandidates, c)
      /\ doc.participants = x[j].participants
  BY <1>1 DEF PullNew, JobDoc, Without
<1>3. \A e \in doc.newCandidates : [cand |-> e.cand, by |-> e.by] \in doc.participants
  BY <1>2 DEF Sound, Matched, Without
<1>4. Sound([x EXCEPT ![j] = doc])
  BY <1>2, <1>3, JobRewritten
<1> QED
  BY <1>4

\* Marking a candidate rejected in the entries of a job keeps entries entries,
\* and adds no candidate and no application.
LEMMA MarkedReproved ==
  ASSUME NEW F \in SUBSET Entry, NEW c \in Cand
  PROVE  /\ SetStatus(F, c, "REPROVED", NoStep) \in SUBSET Entry
         /\ \A e \in SetStatus(F, c, "REPROVED", NoStep) :
              \E f \in F : f.cand = e.cand /\ f.by = e.by
<1> DEFINE status == "REPROVED"
           at == NoStep
<1>1. status \in Status
  BY DEF Status
<1>2. at \in Step \cup {NoStep}
  OBVIOUS
<1> HIDE DEF status, at
<1>3. /\ SetStatus(F, c, status, at) \in SUBSET Entry
      /\ \A e \in SetStatus(F, c, status, at) :
           \E f \in F : f.cand = e.cand /\ f.by = e.by
  BY <1>1, <1>2, SetStatusOK
<1> QED
  BY <1>3 DEF status, at

LEMMA ReproveFromJobSound ==
  ASSUME NEW x, Sound(x), NEW j \in Job, NEW c \in Cand
  PROVE  Sound([x EXCEPT ![j].newCandidates = SetStatus(@, c, "REPROVED", NoStep)])
<1> DEFINE E == SetStatus(x[j].newCandidates, c, "REPROVED", NoStep)
           doc == [x[j] EXCEPT !.newCandidates = E]
<1>1. x[j] \in JobDoc
  BY DEF Sound, Contents
<1>2. /\ E \in SUBSET Entry
      /\ \A e \in E : \E f \in x[j].newCandidates : f.cand = e.cand /\ f.by = e.by
  <2>1. x[j].newCandidates \in SUBSET Entry
    BY <1>1 DEF JobDoc
  <2> HIDE DEF doc
  <2> QED
    BY <2>1, MarkedReproved
<1> HIDE DEF E
<1>3. doc \in JobDoc /\ doc.newCandidates = E /\ doc.participants = x[j].participants
  BY <1>1, <1>2 DEF JobDoc
<1>4. \A e \in doc.newCandidates : [cand |-> e.cand, by |-> e.by] \in doc.participants
  <2> TAKE e \in doc.newCandidates
  <2>1. PICK f \in x[j].newCandidates : f.cand = e.cand /\ f.by = e.by
    BY <1>2, <1>3
  <2>2. [cand |-> f.cand, by |-> f.by] \in x[j].participants
    BY DEF Sound, Matched
  <2> QED
    BY <1>3, <2>1, <2>2
<1>5. Sound([x EXCEPT ![j] = doc])
  BY <1>3, <1>4, JobRewritten
<1> QED
  BY <1>5 DEF E

LEMMA AddToSound ==
  ASSUME NEW x, Sound(x), NEW s \in Step, NEW c \in Cand, NEW by \in Req,
         ~Holds(x[s].candidates, c)
  PROVE  Sound([x EXCEPT ![s].candidates = @ \cup {NewEntry(c, by)}])
<1> DEFINE E == x[s].candidates \cup {NewEntry(c, by)}
           v == [x EXCEPT ![s] = [x[s] EXCEPT !.candidates = E]]
<1>1. x[s] \in StepDoc /\ x \in [Doc -> JobDoc \cup StepDoc] /\ s \in Doc
  BY DEF Sound, Contents, Doc
<1>2. NewEntry(c, by) \in Entry /\ NewEntry(c, by).cand = c
  BY NewEntryType
<1>3. E \in SUBSET Entry /\ Once(E)
  BY <1>1, <1>2, StepEntries DEF StepDoc, Once, Holds
<1> HIDE DEF E
<1>4. /\ [x[s] EXCEPT !.candidates = E] \in StepDoc
      /\ [x[s] EXCEPT !.candidates = E].candidates = E
  BY <1>1, <1>3 DEF StepDoc
<1>5. /\ v \in [Doc -> JobDoc \cup StepDoc]
      /\ v[s] \in StepDoc /\ v[s].candidates = E
      /\ \A d \in Doc \ {s} : v[d] = x[d]
  BY <1>1, <1>4
<1> HIDE DEF v
<1>6. \A j \in Job : v[j] = x[j]
  BY <1>5, PipelineAssumption DEF Doc
<1>7. \A t \in Step : v[t] \in StepDoc /\ Once(v[t].candidates)
  BY <1>3, <1>5, StepEntries DEF Sound, Contents, Doc
<1>8. Sound(v)
  BY <1>5, <1>6, <1>7, StepsRewritten
<1> QED
  BY <1>8 DEF v, E

LEMMA RemoveSound ==
  ASSUME NEW x, Sound(x), NEW s \in Step, NEW c \in Cand
  PROVE  Sound([x EXCEPT ![s].candidates = Without(@, c)])
<1> DEFINE E == Without(x[s].candidates, c)
           v == [x EXCEPT ![s] = [x[s] EXCEPT !.candidates = E]]
<1>1. x[s] \in StepDoc /\ x \in [Doc -> JobDoc \cup StepDoc] /\ s \in Doc
  BY DEF Sound, Contents, Doc
<1>2. E \in SUBSET Entry /\ Once(E)
  BY <1>1, StepEntries DEF StepDoc, Once, Without
<1> HIDE DEF E
<1>3. /\ [x[s] EXCEPT !.candidates = E] \in StepDoc
      /\ [x[s] EXCEPT !.candidates = E].candidates = E
  BY <1>1, <1>2 DEF StepDoc
<1>4. /\ v \in [Doc -> JobDoc \cup StepDoc]
      /\ v[s] \in StepDoc /\ v[s].candidates = E
      /\ \A d \in Doc \ {s} : v[d] = x[d]
  BY <1>1, <1>3
<1> HIDE DEF v
<1>5. \A j \in Job : v[j] = x[j]
  BY <1>4, PipelineAssumption DEF Doc
<1>6. \A t \in Step : v[t] \in StepDoc /\ Once(v[t].candidates)
  BY <1>2, <1>4, StepEntries DEF Sound, Contents, Doc
<1>7. Sound(v)
  BY <1>4, <1>5, <1>6, StepsRewritten
<1> QED
  BY <1>7 DEF v, E

LEMMA ApprovedSound ==
  ASSUME NEW x, Sound(x), NEW q \in Request, NEW s \in Step, NEW next,
         NEW by \in Req
  PROVE  Sound([d \in Doc |->
                  IF d \in Job THEN x[d]
                  ELSE [candidates |-> ApprovedEntries(x, s, next, q, by, d)]])
<1> DEFINE E(d) == ApprovedEntries(x, s, next, q, by, d)
           v == [d \in Doc |-> IF d \in Job THEN x[d] ELSE [candidates |-> E(d)]]
<1>1. q.cand \in Cand /\ q.feedback \in BOOLEAN
  BY DEF Request
<1>2. \A d \in Step : E(d) \in SUBSET Entry /\ Once(E(d))
  <2> TAKE d \in Step
  <2> DEFINE pushed == IF d = next /\ ~Holds(x[d].candidates, q.cand)
                       THEN x[d].candidates \cup {NewEntry(q.cand, by)}
                       ELSE x[d].candidates
             marked == SetFeedback(pushed, q.cand, q.feedback)
  <2>1. x[d].candidates \in SUBSET Entry /\ Once(x[d].candidates)
    BY StepEntries
  <2>2. NewEntry(q.cand, by) \in Entry /\ NewEntry(q.cand, by).cand = q.cand
    BY <1>1, NewEntryType
  <2>3. pushed \in SUBSET Entry /\ Once(pushed)
    BY <2>1, <2>2 DEF Once, Holds
  <2> HIDE DEF pushed
  <2>4. marked \in SUBSET Entry /\ Once(marked)
    BY <1>1, <2>3, SetFeedbackOK
  <2> HIDE DEF marked
  <2>5. /\ SetStatus(marked, q.cand, "APPROVED", NoStep) \in SUBSET Entry
        /\ Once(SetStatus(marked, q.cand, "APPROVED", NoStep))
    BY <1>1, <2>4, SetStatusOK DEF Status
  <2>6. E(d) = IF Order[d] <= Order[s]
               THEN SetStatus(marked, q.cand, "APPROVED", NoStep) ELSE marked
    BY DEF ApprovedEntries, marked, pushed
  <2> HIDE DEF E
  <2> QED
    BY <2>4, <2>5, <2>6
<1> HIDE DEF E
<1>3. /\ v \in [Doc -> JobDoc \cup StepDoc]
      /\ \A j \in Job : v[j] = x[j]
      /\ \A d \in Step : v[d] \in StepDoc /\ Once(v[d].candidates)
  BY <1>2, PipelineAssumption DEF Sound, Contents, StepDoc, Doc
<1>4. Sound(v)
  BY <1>3, StepsRewritten
<1> QED
  BY <1>4 DEF E

LEMMA ReprovedSound ==
  ASSUME NEW x, Sound(x), NEW q \in Request, q.step \in Step
  PROVE  Sound([d \in Doc |->
                  IF d \in Job THEN x[d]
                  ELSE [candidates |-> ReprovedEntries(x, q.step, q, d)]])
<1> DEFINE s == q.step
           E(d) == ReprovedEntries(x, s, q, d)
           v == [d \in Doc |-> IF d \in Job THEN x[d] ELSE [candidates |-> E(d)]]
<1>1. q.cand \in Cand /\ q.feedback \in BOOLEAN
  BY DEF Request
<1>2. \A d \in Step : E(d) \in SUBSET Entry /\ Once(E(d))
  <2> TAKE d \in Step
  <2> DEFINE kept == IF s \notin LastStep /\ Order[d] > Order[s]
                     THEN Without(x[d].candidates, q.cand)
                     ELSE x[d].candidates
             marked == SetFeedback(kept, q.cand, q.feedback)
  <2>1. x[d].candidates \in SUBSET Entry /\ Once(x[d].candidates)
    BY StepEntries
  <2>2. kept \in SUBSET Entry /\ Once(kept)
    BY <2>1 DEF Once, Without
  <2> HIDE DEF kept
  <2>3. marked \in SUBSET Entry /\ Once(marked)
    BY <1>1, <2>2, SetFeedbackOK
  <2> HIDE DEF marked
  <2>4. /\ SetStatus(marked, q.cand, "REPROVED", s) \in SUBSET Entry
        /\ Once(SetStatus(marked, q.cand, "REPROVED", s))
    BY <1>1, <2>3, SetStatusOK DEF Status
  <2>5. E(d) = IF d = s THEN SetStatus(marked, q.cand, "REPROVED", s) ELSE marked
    BY DEF ReprovedEntries, marked, kept
  <2> HIDE DEF E
  <2> QED
    BY <2>3, <2>4, <2>5
<1> HIDE DEF E
<1>3. /\ v \in [Doc -> JobDoc \cup StepDoc]
      /\ \A j \in Job : v[j] = x[j]
      /\ \A d \in Step : v[d] \in StepDoc /\ Once(v[d].candidates)
  BY <1>2, PipelineAssumption DEF Sound, Contents, StepDoc, Doc
<1>4. Sound(v)
  BY <1>3, StepsRewritten
<1> QED
  BY <1>4 DEF E

LEMMA WithdrawnSound ==
  ASSUME NEW x, Sound(x), NEW j \in Job, NEW c \in Cand
  PROVE  Sound([d \in Doc |-> WithdrawnDoc(x[d], j, d, c)])
<1> DEFINE v == [d \in Doc |-> WithdrawnDoc(x[d], j, d, c)]
<1>1. \A k \in Job : x[k] \in JobDoc
  BY DEF Sound, Contents
<1>2. \A d \in Step : d # j /\ x[d] \in StepDoc
  BY PipelineAssumption DEF Sound, Contents
<1>3. \A k \in Job : v[k] = IF k = j
                           THEN [closed |-> x[j].closed,
                                 newCandidates |-> Without(x[j].newCandidates, c),
                                 participants |-> Without(x[j].participants, c)]
                           ELSE x[k]
  BY PipelineAssumption DEF WithdrawnDoc, StepsOf, Doc
<1>4. \A d \in Step : v[d] = IF JobOf[d] = j
                             THEN [candidates |-> Without(x[d].candidates, c)]
                             ELSE x[d]
  BY <1>2 DEF WithdrawnDoc, StepsOf, Doc
<1>8. v = [d \in Doc |-> v[d]]
  OBVIOUS
<1> HIDE DEF v
<1>5. /\ v[j] \in JobDoc
      /\ v[j].newCandidates = Without(x[j].newCandidates, c)
      /\ v[j].participants = Without(x[j].participants, c)
  <2>1. v[j] = [closed |-> x[j].closed,
                newCandidates |-> Without(x[j].newCandidates, c),
                participants |-> Without(x[j].participants, c)]
    BY <1>3
  <2>2. /\ x[j].closed \in BOOLEAN
        /\ Without(x[j].newCandidates, c) \in SUBSET Entry
        /\ Without(x[j].participants, c) \in SUBSET Participant
    BY <1>1 DEF JobDoc, Without
  <2> QED
    BY <2>1, <2>2 DEF JobDoc
<1>6. \A k \in Job \ {j} : v[k] = x[k]
  BY <1>3
<1>7. \A d \in Step : v[d] \in StepDoc /\ Once(v[d].candidates)
  <2> TAKE d \in Step
  <2>1. x[d].candidates \in SUBSET Entry /\ Once(x[d].candidates)
    BY StepEntries
  <2>2. /\ Without(x[d].candidates, c) \in SUBSET Entry
        /\ Once(Without(x[d].candidates, c))
    BY <2>1 DEF Once, Without
  <2>3. CASE JobOf[d] = j
    <3>1. v[d] = [candidates |-> Without(x[d].candidates, c)]
      BY <1>4, <2>3
    <3> QED
      BY <2>2, <3>1 DEF StepDoc
  <2>4. CASE JobOf[d] # j
    BY <1>2, <1>4, <2>1, <2>4
  <2> QED
    BY <2>3, <2>4
<1>9. v \in Contents
  BY <1>1, <1>5, <1>6, <1>7, <1>8 DEF Contents, Doc
<1>10. Matched(v)
  BY <1>5, <1>6 DEF Sound, Matched, Without
<1>11. Sound(v)
  BY <1>7, <1>9, <1>10 DEF Sound, OnceIn, Once
<1> QED
  BY <1>11 DEF v

-----------------------------------------------------------------------------
(* The actions *)

LEMMA RequestFields ==
  ASSUME IInv, NEW p \in Active
  PROVE  /\ p \in Proc /\ p[1] \in Req
         /\ req[p] \in Request
         /\ req[p].job \in Job /\ req[p].cand \in Cand
         /\ req[p].op \in StepOps => req[p].step \in Step
<1>1. p \in Proc /\ req[p] \in Request
  BY DEF IInv, ControlOK, Active
<1> QED
  BY <1>1 DEF Request, Proc

LEMMA CallsAreRequests == Calls \subseteq Request
<1>1. Batches \subseteq Seq(Cand)
  BY SeqDef, PipelineAssumption DEF Batches
<1>2. <<>> \in Seq(Cand)
  OBVIOUS
<1> QED
  BY <1>1, <1>2, PipelineAssumption DEF Calls, Request

LEMMA ArriveOK ==
  ASSUME IInv, NEW r \in Req, Arrive(r)
  PROVE  IInv'
<1> DEFINE p == <<r, "http">>
<1>1. p \in Proc
  BY DEF Proc
<1>2. PICK q \in Request : req' = [req EXCEPT ![p] = q]
  BY CallsAreRequests DEF Arrive
<1>3. pc' = [pc EXCEPT ![p] = "read"] /\ psTests' = psTests
  BY DEF Arrive
<1>4. ControlOK'
  BY <1>1, <1>2, <1>3 DEF IInv, ControlOK, Active, Label
<1>5. StoreOK'
  BY DEF Arrive, IInv, StoreOK, storeVars, Sound, OnceIn, Matched
<1> QED
  BY <1>4, <1>5 DEF IInv

LEMMA CommitOK ==
  ASSUME IInv, NEW p \in Proc, Commit(p)
  PROVE  IInv'
<1>1. p \in Active
  BY DEF Commit, Active
<1>2. StoreOK'
  <2>1. CASE p \in open
    BY <2>1, TxnCommitOK DEF IInv, Commit
  <2>2. CASE writes[p] = {}
    <3>1. db' = db
      BY <2>2 DEF Commit, TxnCommit, IInv, StoreOK, Sound, Contents
    <3>2. Sound(db')
      BY <3>1 DEF IInv, StoreOK
    <3> QED
      BY <2>2, <3>2, EndTxnsOK DEF IInv, Commit, TxnCommit
  <2> QED
    BY <2>1, <2>2 DEF IInv, StoreOK
<1>3. ControlOK'
  <2>1. CASE req[p].rest = <<>>
    BY <2>1, EndOK DEF Commit, IInv
  <2>2. CASE req[p].rest # <<>>
    <3> DEFINE q == [req[p] EXCEPT !.cand = Head(req[p].rest),
                                   !.rest = Tail(req[p].rest)]
    <3>1. req[p] \in Request /\ req[p].rest \in Seq(Cand)
      BY <1>1, RequestFields DEF Request
    <3>2. Head(req[p].rest) \in Cand /\ Tail(req[p].rest) \in Seq(Cand)
      BY <2>2, <3>1
    <3>3. q \in Request
      BY <3>1, <3>2 DEF Request
    <3>4. /\ pc' = [pc EXCEPT ![p] = "read"]
          /\ req' = [req EXCEPT ![p] = q]
          /\ psTests' = psTests
      BY <2>2 DEF Commit
    <3> HIDE DEF q
    <3> QED
      BY <3>3, <3>4 DEF IInv, ControlOK, Active, Label
  <2> QED
    BY <2>1, <2>2
<1> QED
  BY <1>2, <1>3 DEF IInv

LEMMA ApplyOK ==
  ASSUME IInv, NEW p \in Proc, ApplyCheck(p) \/ ApplyPush(p)
  PROVE  IInv'
<1> DEFINE j == req[p].job
           c == req[p].cand
           bg == <<p[1], "send">>
<1>1. p \in Active
  BY DEF ApplyCheck, ApplyPush, At, Active
<1>2. j \in Job /\ c \in Cand /\ p[1] \in Req /\ req[p] \in Request
  BY <1>1, RequestFields
<1>3. CASE Fail(p)
  BY <1>3, FailOK
<1>4. CASE Goto(p, "push") /\ UNCHANGED <<storeVars, psTests>>
  BY <1>1, <1>4, SkipOK DEF Label
<1>5. ASSUME TxnWrite(p, [Seen(p) EXCEPT ![j] = PushCandidate(@, c, p[1])], {j}),
             pc' = [pc EXCEPT ![p] = "commit", ![bg] = "read"],
             req' = [req EXCEPT ![bg] = [req[p] EXCEPT !.op = "send"]],
             psTests' = psTests
      PROVE  IInv'
  <2>1. Sound([Seen(p) EXCEPT ![j] = PushCandidate(@, c, p[1])])
    BY <1>2, SeenSound, PushCandidateSound DEF IInv
  <2>2. StoreOK'
    BY <1>2, <1>5, <2>1, TxnWriteOK DEF IInv, Doc
  <2>3. bg \in Proc
    BY <1>2 DEF Proc
  <2>4. [req[p] EXCEPT !.op = "send"] \in Request
    BY <1>2 DEF Request, Operations, StepOps
  <2>5. ControlOK'
    BY <1>1, <1>2, <1>5, <2>3, <2>4 DEF IInv, ControlOK, Active, Label
  <2> QED
    BY <2>2, <2>5 DEF IInv
<1> QED
  BY <1>3, <1>4, <1>5 DEF ApplyCheck, ApplyPush

LEMMA AddToOK ==
  ASSUME IInv, NEW p \in Active, NEW s \in Step, AddTo(p, s, req[p].cand)
  PROVE  IInv'
<1> DEFINE c == req[p].cand
           v == [Seen(p) EXCEPT ![s].candidates = @ \cup {NewEntry(c, p[1])}]
<1>1. p \in Proc /\ c \in Cand /\ p[1] \in Req
  BY RequestFields
<1>2. CASE Holds(Seen(p)[s].candidates, c)
  BY <1>1, <1>2, FailOK DEF AddTo
<1>3. CASE ~Holds(Seen(p)[s].candidates, c)
  <2>1. Sound(v)
    BY <1>1, <1>3, SeenSound, AddToSound DEF IInv
  <2>2. Update(p, v, {s}, "commit")
    BY <1>3 DEF AddTo
  <2> HIDE DEF v
  <2> QED
    BY <2>1, <2>2, UpdateOK DEF Label, Doc
<1> QED
  BY <1>2, <1>3

LEMMA SendOK ==
  ASSUME IInv, NEW p \in Proc,
         \/ SendCheck(p) \/ SendPull(p) \/ SendTest(p) \/ SendCreate(p) \/ SendAdd(p)
  PROVE  IInv'
<1> DEFINE j == req[p].job
           c == req[p].cand
<1>1. p \in Active
  BY DEF SendCheck, SendPull, SendTest, SendCreate, SendAdd, At, Active
<1>2. j \in Job /\ c \in Cand /\ p[1] \in Req
  BY <1>1, RequestFields
<1>3. CASE SendCheck(p)
  BY <1>1, <1>3, FailOK, SkipOK DEF SendCheck, Label
<1>4. CASE SendPull(p)
  <2> DEFINE v == [Seen(p) EXCEPT ![j] = PullNew(@, c)]
             W == IF Holds(Seen(p)[j].newCandidates, c) THEN {j} ELSE {}
             label == IF j \in PsJob THEN "test" ELSE "add"
  <2>1. Sound(v)
    BY <1>2, SeenSound, PullNewSound DEF IInv
  <2>2. W \in SUBSET Doc /\ label \in Label
    BY <1>2 DEF Doc, Label
  <2>3. Update(p, v, W, label)
    BY <1>4 DEF SendPull
  <2> HIDE DEF v, W, label
  <2> QED
    BY <1>1, <2>1, <2>2, <2>3, UpdateOK
<1>5. CASE SendTest(p)
  BY <1>1, <1>5, SkipOK DEF SendTest, Label
<1>6. CASE SendCreate(p)
  <2>1. psTests' = psTests \cup {[cand |-> c, by |-> p[1]]}
    BY <1>6 DEF SendCreate
  <2>2. pc' = [pc EXCEPT ![p] = "add"] /\ req' = req /\ UNCHANGED storeVars
    BY <1>6 DEF SendCreate, Goto
  <2>3. ControlOK'
    BY <1>1, <1>2, <2>1, <2>2 DEF IInv, ControlOK, Active, Label
  <2>4. StoreOK'
    BY <2>2 DEF IInv, StoreOK, storeVars, Sound, OnceIn, Matched
  <2> QED
    BY <2>3, <2>4 DEF IInv
<1>7. CASE SendAdd(p)
  <2>1. CASE Fail(p)
    BY <2>1, FailOK
  <2>2. ASSUME NEW s \in FirstSteps(j), AddTo(p, s, c) PROVE IInv'
    BY <1>1, <2>2, AddToOK DEF FirstSteps, StepsOf
  <2> QED
    BY <1>7, <2>1, <2>2 DEF SendAdd
<1> QED
  BY <1>3, <1>4, <1>5, <1>6, <1>7

LEMMA StepOperationsOK ==
  ASSUME IInv, NEW p \in Proc,
         \/ AddCandidate(p) \/ RemoveCandidate(p)
         \/ ApproveCandidate(p) \/ ReproveCandidate(p)
  PROVE  IInv'
<1> DEFINE q == req[p]
           s == req[p].step
           c == req[p].cand
           x == Seen(p)
<1>1. p \in Active
  BY DEF AddCandidate, RemoveCandidate, ApproveCandidate, ReproveCandidate, At, Active
<1>2. q \in Request /\ s \in Step /\ c \in Cand /\ p[1] \in Req
  BY <1>1, RequestFields
     DEF AddCandidate, RemoveCandidate, ApproveCandidate, ReproveCandidate, At, StepOps
<1>3. Sound(x)
  BY SeenSound DEF IInv
<1>4. CASE AddCandidate(p)
  BY <1>1, <1>2, <1>4, AddToOK DEF AddCandidate
<1>5. CASE RemoveCandidate(p)
  <2> DEFINE v == [x EXCEPT ![s].candidates = Without(@, c)]
             W == IF Holds(x[s].candidates, c) THEN {s} ELSE {}
  <2>1. Sound(v)
    BY <1>2, <1>3, RemoveSound
  <2>2. Update(p, v, W, "commit") /\ W \in SUBSET Doc
    BY <1>2, <1>5 DEF RemoveCandidate, Doc
  <2> HIDE DEF v, W
  <2> QED
    BY <1>1, <2>1, <2>2, UpdateOK DEF Label
<1>6. CASE ApproveCandidate(p)
  <2> DEFINE After(next) == [d \in Doc |->
        IF d \in Job THEN x[d]
        ELSE [candidates |-> ApprovedEntries(x, s, next, q, p[1], d)]]
  <2>1. CASE Fail(p)
    BY <2>1, FailOK
  <2>2. ASSUME NEW next, Update(p, After(next), StepsHolding(After(next), q.cand), "commit")
        PROVE  IInv'
    <3>1. Sound(After(next))
      BY <1>2, <1>3, ApprovedSound
    <3>2. StepsHolding(After(next), q.cand) \in SUBSET Doc
      BY DEF StepsHolding, Doc
    <3> HIDE DEF After
    <3> QED
      BY <1>1, <2>2, <3>1, <3>2, UpdateOK DEF Label
  <2> QED
    BY <1>6, <2>1, <2>2 DEF ApproveCandidate
<1>7. CASE ReproveCandidate(p)
  <2> DEFINE v == [d \in Doc |->
        IF d \in Job THEN x[d]
        ELSE [candidates |-> ReprovedEntries(x, q.step, q, d)]]
  <2>1. Sound(v)
    BY <1>2, <1>3, ReprovedSound
  <2>2. Update(p, v, StepsHolding(x, q.cand), "commit")
    BY <1>7 DEF ReproveCandidate
  <2>3. StepsHolding(x, q.cand) \in SUBSET Doc
    BY DEF StepsHolding, Doc
  <2> HIDE DEF v
  <2> QED
    BY <1>1, <2>1, <2>2, <2>3, UpdateOK DEF Label
<1> QED
  BY <1>4, <1>5, <1>6, <1>7

LEMMA JobOperationsOK ==
  ASSUME IInv, NEW p \in Proc,
         \/ ReproveFromJob(p) \/ WithdrawCheck(p) \/ Withdraw(p)
         \/ CloseJob(p) \/ OpenJob(p)
  PROVE  IInv'
<1> DEFINE j == req[p].job
           c == req[p].cand
           x == Seen(p)
<1>1. p \in Active
  BY DEF ReproveFromJob, WithdrawCheck, Withdraw, CloseJob, OpenJob, At, Active
<1>2. j \in Job /\ c \in Cand
  BY <1>1, RequestFields
<1>3. Sound(x)
  BY SeenSound DEF IInv
<1>4. CASE ReproveFromJob(p)
  <2> DEFINE v == [x EXCEPT ![j].newCandidates = SetStatus(@, c, "REPROVED", NoStep)]
             W == IF Holds(x[j].newCandidates, c) THEN {j} ELSE {}
  <2>1. Sound(v)
    BY <1>2, <1>3, ReproveFromJobSound
  <2>2. Update(p, v, W, "commit") /\ W \in SUBSET Doc
    BY <1>2, <1>4 DEF ReproveFromJob, Doc
  <2> HIDE DEF v, W
  <2> QED
    BY <1>1, <2>1, <2>2, UpdateOK DEF Label
<1>5. CASE WithdrawCheck(p)
  BY <1>1, <1>5, SkipOK, FailOK DEF WithdrawCheck, Label
<1>6. CASE Withdraw(p)
  <2> DEFINE v == [d \in Doc |-> WithdrawnDoc(x[d], j, d, c)]
             W == {d \in Doc : v[d] # x[d]}
  <2>1. Sound(v)
    BY <1>2, <1>3, WithdrawnSound
  <2>2. Update(p, v, W, "commit") /\ W \in SUBSET Doc
    BY <1>6 DEF Withdraw
  <2> HIDE DEF v, W
  <2> QED
    BY <1>1, <2>1, <2>2, UpdateOK DEF Label
<1>7. ASSUME NEW b \in BOOLEAN, PlainWrite(j, [db[j] EXCEPT !.closed = b]),
             End({p}), UNCHANGED psTests
      PROVE  IInv'
  <2> DEFINE doc == [db[j] EXCEPT !.closed = b]
  <2>1. Sound(db) /\ db[j] \in JobDoc
    BY <1>2 DEF IInv, StoreOK, Sound, Contents
  <2>2. /\ doc \in JobDoc
        /\ doc.newCandidates = db[j].newCandidates
        /\ doc.participants = db[j].participants
    BY <2>1 DEF JobDoc
  <2>3. PlainWrite(j, doc)
    BY <1>7
  <2> HIDE DEF doc
  <2>4. Sound([db EXCEPT ![j] = doc])
    BY <1>2, <2>1, <2>2, JobRewritten DEF Sound, Matched
  <2>5. StoreOK'
    BY <1>2, <2>3, <2>4, PlainWriteOK DEF IInv, Doc
  <2>6. ControlOK'
    BY <1>7, EndOK DEF IInv
  <2> QED
    BY <2>5, <2>6 DEF IInv
<1> QED
  BY <1>4, <1>5, <1>6, <1>7 DEF CloseJob, OpenJob

-----------------------------------------------------------------------------
LEMMA StartDocs ==
  ASSUME NEW g \in Stages, NEW d \in Doc
  PROVE  /\ d \in Job => /\ StartDoc(g, d) \in JobDoc
                         /\ \A e \in StartDoc(g, d).newCandidates :
                              [cand |-> e.cand, by |-> e.by] \in StartDoc(g, d).participants
         /\ d \in Step => /\ StartDoc(g, d) \in StepDoc
                          /\ Once(StartDoc(g, d).candidates)
<1>1. CASE d \in Job
  <2> DEFINE New == {NewEntry(c, Earlier) : c \in {y \in Cand : g[d][y] = "new"}}
             Part == [cand : {y \in Cand : g[d][y] \notin {"out", "added"}}, by : {Earlier}]
  <2>1. StartDoc(g, d) = [closed |-> FALSE, newCandidates |-> New, participants |-> Part]
    BY <1>1 DEF StartDoc
  <2>2. New \in SUBSET Entry
    BY NewEntryType
  <2>3. Part \in SUBSET Participant
    BY DEF Participant
  <2>4. \A e \in New : [cand |-> e.cand, by |-> e.by] \in Part
    BY DEF NewEntry
  <2> HIDE DEF New, Part
  <2> QED
    BY <1>1, <2>1, <2>2, <2>3, <2>4, PipelineAssumption DEF JobDoc
<1>2. CASE d \in Step
  <2> DEFINE st(c) == IF g[JobOf[d]][c] \in {d, "added"} THEN "INITIAL" ELSE "APPROVED"
             e(c) == [NewEntry(c, Earlier) EXCEPT !.status = st(c)]
  <2>1. StartDoc(g, d) = [candidates |-> {e(c) : c \in Reached(g, d)}]
    BY <1>2, PipelineAssumption DEF StartDoc
  <2>2. \A c \in Cand : e(c) \in Entry /\ e(c).cand = c
    BY DEF NewEntry, Entry, Status
  <2>3. Reached(g, d) \subseteq Cand
    BY DEF Reached
  <2> HIDE DEF e
  <2> QED
    BY <1>2, <2>1, <2>2, <2>3, PipelineAssumption DEF StepDoc, Once
<1> QED
  BY <1>1, <1>2

LEMMA InitOK == Init => IInv
<1> SUFFICES ASSUME Init PROVE IInv
  OBVIOUS
<1>1. PICK g \in Stages : db = [d \in Doc |-> StartDoc(g, d)]
  BY DEF Init
<1>2. \A d \in Doc : db[d] = StartDoc(g, d)
  BY <1>1
<1>3. Sound(db)
  <2>1. \A j \in Job : /\ db[j] \in JobDoc
                       /\ \A e \in db[j].newCandidates :
                            [cand |-> e.cand, by |-> e.by] \in db[j].participants
    BY <1>2, StartDocs DEF Doc
  <2>2. \A s \in Step : db[s] \in StepDoc /\ Once(db[s].candidates)
    BY <1>2, StartDocs DEF Doc
  <2>3. db \in Contents
    BY <1>1, <2>1, <2>2 DEF Contents, Doc
  <2>4. OnceIn(db)
    BY <2>2 DEF OnceIn, Once
  <2>5. Matched(db)
    BY <2>1 DEF Matched
  <2> QED
    BY <2>3, <2>4, <2>5 DEF Sound
<1>4. StoreOK
  BY <1>3 DEF Init, MongoInit, StoreOK
<1>5. ControlOK
  BY DEF Init, ControlOK, Active, Label
<1> QED
  BY <1>4, <1>5 DEF IInv

LEMMA NextOK == IInv /\ [Next]_vars => IInv'
<1> SUFFICES ASSUME IInv, [Next]_vars PROVE IInv'
  OBVIOUS
<1>1. CASE UNCHANGED vars
  BY <1>1 DEF vars, IInv, StoreOK, ControlOK, Active, Sound, OnceIn, Matched
<1>2. ASSUME NEW r \in Req, Arrive(r) PROVE IInv'
  BY <1>2, ArriveOK
<1>3. ASSUME NEW p \in Proc, Progress(p) PROVE IInv'
  BY <1>3, ApplyOK, SendOK, StepOperationsOK, JobOperationsOK, CommitOK DEF Progress
<1>4. ASSUME NEW p \in Proc, CallFails(p) PROVE IInv'
  BY <1>4, FailOK DEF CallFails
<1>5. CASE ProcessExit
  BY <1>5, TxnAbortOK, EndOK DEF ProcessExit, IInv, Active
<1> QED
  BY <1>1, <1>2, <1>3, <1>4, <1>5 DEF Next

LEMMA Invariance == Spec => []IInv
BY InitOK, NextOK, PTL DEF Spec

-----------------------------------------------------------------------------
\* Every variable keeps its type, for all jobs, steps, candidates and requests.
THEOREM TypeCorrect == Spec => []TypeOK
<1>1. IInv => TypeOK
  BY DEF IInv, StoreOK, ControlOK, Sound, TypeOK
<1> QED
  BY <1>1, Invariance, PTL

\* No interleaving of adds, approvals and background sends puts a candidate
\* twice into the list of a step.
THEOREM OncePerStep == Spec => []CandidateOncePerStep
<1>1. IInv => CandidateOncePerStep
  BY DEF IInv, StoreOK, Sound, OnceIn, CandidateOncePerStep
<1> QED
  BY <1>1, Invariance, PTL

\* newCandidates and participants of a job always agree about who applied.
THEOREM NewCandidatesParticipate == Spec => []NewCandidateIsParticipant
<1>1. IInv => NewCandidateIsParticipant
  BY DEF IInv, StoreOK, Sound, Matched, NewCandidateIsParticipant
<1> QED
  BY <1>1, Invariance, PTL

-----------------------------------------------------------------------------
(* What a transaction publishes replaces the version it was computed from, *)
(* and it changes the entries of one candidate only.                       *)

(***************************************************************************)
(* The commit of p publishes view[p][d] for d in writes[p].  OwnOnly says   *)
(* that it differs from the committed db[d] in the entries of the candidate *)
(* of p only.  It is inductive together with PendingWritesFresh, because a  *)
(* document enters writes[p] only while view[p] still agrees with db.       *)
(***************************************************************************)
SameOthers(d, new, old, c) ==
  \A y \in Cand \ {c} : EntriesOf(d, new, y) = EntriesOf(d, old, y)

OwnOnly ==
  \A p \in open : \A d \in writes[p] :
     SameOthers(d, view[p][d], db[d], req[p].cand)

\* A transaction exists only between its first write and its commit.
OpenPlaces == {"test", "create", "add", "commit"}

\* Where the call chains can be.  The background send of an application is idle
\* until the application has pushed, so that the send inherits no transaction.
ChainsOK ==
  /\ \A p \in open : pc[p] \in OpenPlaces
  /\ \A p \in Proc : pc[p] \in {"read", "push"} /\ req[p].op = "apply" =>
       p[2] = "http" /\ pc[<<p[1], "send">>] = "idle"
  /\ \A r \in Req : pc[<<r, "http">>] = "idle" => pc[<<r, "send">>] = "idle"
  /\ \A p \in Active : req[p].op \notin StepOps => req[p].rest = <<>>

Isolated == PendingWritesFresh /\ OwnOnly

FInv == IInv /\ Isolated /\ ChainsOK

\* From version x to version v, only documents in W and, in them, only entries
\* of candidate c change.
Frame(x, v, W, c) ==
  /\ \A d \in Doc \ W : v[d] = x[d]
  /\ \A d \in W : SameOthers(d, v[d], x[d], c)

-----------------------------------------------------------------------------
(* The store *)

LEMMA WriteIsolated ==
  ASSUME IInv, Isolated, NEW p \in Proc, NEW v, NEW W \in SUBSET Doc,
         Frame(Seen(p), v, W, req[p].cand), TxnWrite(p, v, W),
         \A q \in open \cup {p} : req'[q].cand = req[q].cand
  PROVE  Isolated'
<1>1. /\ open' = open \cup {p} /\ db' = db /\ stale' = stale
      /\ view' = [view EXCEPT ![p] = v]
      /\ writes' = [writes EXCEPT ![p] = @ \cup W]
      /\ W \cap stale[p] = {}
      /\ \A q \in open \ {p} : W \cap writes[q] = {}
  BY DEF TxnWrite, Conflicting
<1>2. /\ view \in [Proc -> Contents \cup {NoView}] /\ writes \in [Proc -> SUBSET Doc]
      /\ open \subseteq Proc
      /\ p \notin open => writes[p] = {}
  BY DEF IInv, StoreOK
<1>3. /\ view'[p] = v /\ writes'[p] = writes[p] \cup W
      /\ \A q \in Proc \ {p} : view'[q] = view[q] /\ writes'[q] = writes[q]
  BY <1>1, <1>2
<1>4. \A d \in Doc \ (writes[p] \cup stale[p]) : Seen(p)[d] = db[d]
  BY DEF Seen, Isolated, PendingWritesFresh
<1>5. PendingWritesFresh'
  <2>1. \A q \in open' : writes'[q] \cap stale'[q] = {}
    BY <1>1, <1>2, <1>3 DEF Isolated, PendingWritesFresh
  <2>2. \A q \in open' : \A d \in Doc \ (writes'[q] \cup stale'[q]) : view'[q][d] = db'[d]
    <3> SUFFICES ASSUME NEW q \in open', NEW d \in Doc \ (writes'[q] \cup stale'[q])
                 PROVE  view'[q][d] = db'[d]
      OBVIOUS
    <3>1. CASE q = p
      BY <1>1, <1>3, <1>4, <3>1 DEF Frame
    <3>2. CASE q # p
      BY <1>1, <1>2, <1>3, <3>2 DEF Isolated, PendingWritesFresh
    <3> QED
      BY <3>1, <3>2
  <2>3. \A q, u \in open' : q # u => writes'[q] \cap writes'[u] = {}
    BY <1>1, <1>2, <1>3 DEF Isolated, PendingWritesFresh
  <2> QED
    BY <2>1, <2>2, <2>3 DEF PendingWritesFresh
<1>6. OwnOnly'
  <2> SUFFICES ASSUME NEW q \in open', NEW d \in writes'[q]
               PROVE  SameOthers(d, view'[q][d], db'[d], req'[q].cand)
    BY DEF OwnOnly
  <2>1. CASE q # p
    BY <1>1, <1>2, <1>3, <2>1 DEF Isolated, OwnOnly
  <2>2. CASE q = p
    <3>1. d \in Doc /\ req'[p].cand = req[p].cand
      BY <1>2, <1>3, <2>2
    <3>2. SameOthers(d, Seen(p)[d], db[d], req[p].cand)
      <4>1. CASE d \in writes[p]
        BY <1>2, <4>1 DEF Seen, Isolated, OwnOnly
      <4>2. CASE d \notin writes[p]
        BY <1>1, <1>3, <1>4, <2>2, <3>1, <4>2 DEF SameOthers
      <4> QED
        BY <4>1, <4>2
    <3>3. SameOthers(d, v[d], Seen(p)[d], req[p].cand)
      BY <3>1 DEF Frame, SameOthers
    <3> QED
      BY <1>1, <1>3, <2>2, <3>1, <3>2, <3>3 DEF SameOthers
  <2> QED
    BY <2>1, <2>2
<1> QED
  BY <1>5, <1>6 DEF Isolated

\* The end of the transactions of P.  D holds the documents that change in the
\* committed data; no other open transaction has written them.
LEMMA EndIsolated ==
  ASSUME IInv, Isolated, NEW P \in SUBSET Proc, NEW D \in SUBSET Doc,
         EndTxns(P, D),
         \A d \in Doc \ D : db'[d] = db[d],
         \A q \in open \ P : writes[q] \cap D = {},
         \A q \in open \ P : req'[q].cand = req[q].cand
  PROVE  Isolated'
<1>1. /\ open \subseteq Proc /\ writes \in [Proc -> SUBSET Doc]
  BY DEF IInv, StoreOK
<1>2. /\ open' = open \ P
      /\ \A q \in open \ P : /\ view'[q] = view[q] /\ writes'[q] = writes[q]
                             /\ stale'[q] = stale[q] \cup D
  BY <1>1 DEF EndTxns
<1>3. PendingWritesFresh'
  BY <1>1, <1>2 DEF Isolated, PendingWritesFresh
<1>4. OwnOnly'
  <2> SUFFICES ASSUME NEW q \in open', NEW d \in writes'[q]
               PROVE  SameOthers(d, view'[q][d], db'[d], req'[q].cand)
    BY DEF OwnOnly
  <2>1. d \in writes[q] /\ q \in open \ P /\ d \in Doc \ D
    BY <1>1, <1>2
  <2> QED
    BY <1>2, <2>1 DEF Isolated, OwnOnly
<1> QED
  BY <1>3, <1>4 DEF Isolated

LEMMA CommitIsolated ==
  ASSUME IInv, Isolated, NEW p \in Proc, TxnCommit(p),
         \A q \in open \ {p} : req'[q].cand = req[q].cand
  PROVE  Isolated'
<1>1. /\ writes[p] \in SUBSET Doc /\ open \subseteq Proc
      /\ p \notin open => writes[p] = {}
  BY DEF IInv, StoreOK
<1>2. \A d \in Doc \ writes[p] : db'[d] = db[d]
  BY DEF TxnCommit
<1>3. \A q \in open \ {p} : writes[q] \cap writes[p] = {}
  BY <1>1 DEF Isolated, PendingWritesFresh
<1> QED
  BY <1>1, <1>2, <1>3, EndIsolated DEF TxnCommit

LEMMA AbortIsolated ==
  ASSUME IInv, Isolated, NEW P \in SUBSET Proc, TxnAbort(P),
         \A q \in open \ P : req'[q].cand = req[q].cand
  PROVE  Isolated'
BY EndIsolated DEF TxnAbort

LEMMA PlainIsolated ==
  ASSUME IInv, Isolated, NEW d \in Doc, NEW v, PlainWrite(d, v),
         \A q \in open : req'[q].cand = req[q].cand
  PROVE  Isolated'
<1>1. db \in [Doc -> JobDoc \cup StepDoc]
  BY DEF IInv, StoreOK, Sound, Contents
<1>2. /\ \A e \in Doc \ {d} : db'[e] = db[e]
      /\ \A q \in open : writes[q] \cap {d} = {}
      /\ EndTxns({}, {d})
  BY <1>1 DEF PlainWrite
<1> QED
  BY <1>2, EndIsolated

\* Nothing of the store changes.
LEMMA SkipIsolated ==
  ASSUME Isolated, UNCHANGED storeVars,
         \A q \in open : req'[q].cand = req[q].cand
  PROVE  Isolated'
BY DEF storeVars, Isolated, PendingWritesFresh, OwnOnly

-----------------------------------------------------------------------------
(* The control *)

\* A call chain goes on.
LEMMA GotoChains ==
  ASSUME IInv, ChainsOK, NEW p \in Active, NEW label \in Label, Goto(p, label),
         open' \subseteq open \cup {p},
         p \in open' => label \in OpenPlaces,
         label \notin {"idle", "done"},
         label \in {"read", "push"} => pc[p] \in {"read", "push"}
  PROVE  ChainsOK'
<1>1. /\ pc \in [Proc -> Label] /\ p \in Proc /\ open \subseteq Proc
      /\ pc' = [pc EXCEPT ![p] = label] /\ req' = req
      /\ pc[p] \notin {"idle", "done"}
  BY DEF IInv, ControlOK, StoreOK, Active, Goto
<1>2. \A q \in open' : pc'[q] \in OpenPlaces
  BY <1>1 DEF ChainsOK
<1>3. ASSUME NEW q \in Proc, pc'[q] \in {"read", "push"}, req'[q].op = "apply"
      PROVE  q[2] = "http" /\ pc'[<<q[1], "send">>] = "idle"
  <2>1. pc[q] \in {"read", "push"} /\ req[q].op = "apply"
    BY <1>1, <1>3
  <2>2. q[2] = "http" /\ pc[<<q[1], "send">>] = "idle"
    BY <2>1 DEF ChainsOK
  <2>3. <<q[1], "send">> \in Proc
    BY DEF Proc
  <2> QED
    BY <1>1, <2>2, <2>3
<1>4. \A r \in Req : pc'[<<r, "http">>] = "idle" => pc'[<<r, "send">>] = "idle"
  <2> TAKE r \in Req
  <2>1. <<r, "http">> \in Proc /\ <<r, "send">> \in Proc
    BY DEF Proc
  <2>2. pc[<<r, "http">>] = "idle" => pc[<<r, "send">>] = "idle"
    BY DEF ChainsOK
  <2> QED
    BY <1>1, <2>1, <2>2
<1>5. Active' = Active
  BY <1>1 DEF Active
<1> QED
  BY <1>1, <1>2, <1>3, <1>4, <1>5 DEF ChainsOK

\* Call chains end.
LEMMA EndChains ==
  ASSUME IInv, ChainsOK, NEW P \in SUBSET Proc, End(P),
         \A p \in P : pc[p] # "idle",
         open' \subseteq open \ P
  PROVE  ChainsOK'
<1>1. open \subseteq Proc /\ pc \in [Proc -> Label]
  BY DEF IInv, ControlOK, StoreOK
<1>2. /\ \A q \in P : pc'[q] = "done"
      /\ \A q \in Proc \ P : pc'[q] = pc[q] /\ req'[q] = req[q]
  BY DEF End
<1>3. \A q \in open' : pc'[q] \in OpenPlaces
  BY <1>1, <1>2 DEF ChainsOK
<1>4. ASSUME NEW q \in Proc, pc'[q] \in {"read", "push"}, req'[q].op = "apply"
      PROVE  q[2] = "http" /\ pc'[<<q[1], "send">>] = "idle"
  <2>1. <<q[1], "send">> \in Proc
    BY DEF Proc
  <2>2. q[2] = "http" /\ pc[<<q[1], "send">>] = "idle"
    BY <1>2, <1>4 DEF ChainsOK
  <2> QED
    BY <1>2, <2>1, <2>2
<1>5. \A r \in Req : pc'[<<r, "http">>] = "idle" => pc'[<<r, "send">>] = "idle"
  <2> TAKE r \in Req
  <2>1. <<r, "http">> \in Proc /\ <<r, "send">> \in Proc
    BY DEF Proc
  <2>2. pc[<<r, "http">>] = "idle" => pc[<<r, "send">>] = "idle"
    BY DEF ChainsOK
  <2> QED
    BY <1>2, <2>1, <2>2
<1>6. \A q \in Active' : q \in Active /\ req'[q] = req[q]
  BY <1>2 DEF Active
<1> QED
  BY <1>3, <1>4, <1>5, <1>6 DEF ChainsOK

LEMMA FailKeeps ==
  ASSUME IInv, Isolated, ChainsOK, NEW p \in Active, Fail(p)
  PROVE  Isolated' /\ ChainsOK'
<1> DEFINE P == IF p[2] = "send" THEN Active ELSE {p}
<1>1. P \in SUBSET Proc /\ \A q \in P : pc[q] # "idle"
  BY DEF Active
<1>2. End(P) /\ TxnAbort(P)
  BY DEF Fail
<1> HIDE DEF P
<1>3. open' = open \ P /\ open \subseteq Proc
  BY <1>2 DEF TxnAbort, EndTxns, IInv, StoreOK
<1>4. \A q \in open \ P : req'[q] = req[q]
  BY <1>2, <1>3 DEF End
<1> QED
  BY <1>1, <1>2, <1>3, <1>4, AbortIsolated, EndChains

\* An update of documents in the session of p.
LEMMA UpdateKeeps ==
  ASSUME IInv, Isolated, ChainsOK, NEW p \in Active, NEW v,
         NEW W \in SUBSET Doc, NEW label \in OpenPlaces,
         Frame(Seen(p), v, W, req[p].cand), Update(p, v, W, label)
  PROVE  Isolated' /\ ChainsOK'
<1>1. CASE TxnWrite(p, v, W) /\ Goto(p, label)
  <2>1. p \in Proc
    BY DEF Active
  <2>2. Isolated'
    BY <1>1, <2>1, WriteIsolated DEF Goto
  <2>3. ChainsOK'
    BY <1>1, GotoChains DEF TxnWrite, OpenPlaces, Label
  <2> QED
    BY <2>2, <2>3
<1>2. CASE Fail(p)
  BY <1>2, FailKeeps
<1> QED
  BY <1>1, <1>2 DEF Update

\* A step of p that leaves the store alone.
LEMMA SkipKeeps ==
  ASSUME IInv, Isolated, ChainsOK, NEW p \in Active, NEW label \in Label,
         Goto(p, label), UNCHANGED storeVars,
         label \notin {"idle", "done"},
         p \in open => label \in OpenPlaces,
         label \in {"read", "push"} => pc[p] \in {"read", "push"}
  PROVE  Isolated' /\ ChainsOK'
<1>1. open' = open /\ req' = req
  BY DEF storeVars, Goto
<1> QED
  BY <1>1, SkipIsolated, GotoChains

-----------------------------------------------------------------------------
(* What the updates keep of one list *)

KeepsOthers(E, F, c) ==
  \A y \in Cand \ {c} : {e \in F : e.cand = y} = {e \in E : e.cand = y}

LEMMA SetStatusKeeps ==
  ASSUME NEW E \in SUBSET Entry, NEW c \in Cand, NEW status, NEW at
  PROVE  /\ KeepsOthers(E, SetStatus(E, c, status, at), c)
         /\ Holds(SetStatus(E, c, status, at), c) <=> Holds(E, c)
         /\ ~Holds(E, c) => SetStatus(E, c, status, at) = E
<1> DEFINE g(e) == IF e.cand = c
                   THEN [e EXCEPT !.status = status, !.reprovedStep = at]
                   ELSE e
<1>1. \A e \in E : g(e).cand = e.cand /\ (e.cand # c => g(e) = e)
  BY DEF Entry
<1>2. SetStatus(E, c, status, at) = {g(e) : e \in E}
  BY DEF SetStatus
<1> HIDE DEF g
<1> QED
  BY <1>1, <1>2 DEF KeepsOthers, Holds

LEMMA SetFeedbackKeeps ==
  ASSUME NEW E \in SUBSET Entry, NEW c \in Cand, NEW given
  PROVE  /\ KeepsOthers(E, SetFeedback(E, c, given), c)
         /\ Holds(SetFeedback(E, c, given), c) <=> Holds(E, c)
         /\ ~Holds(E, c) => SetFeedback(E, c, given) = E
<1> DEFINE g(e) == IF e.cand = c THEN [e EXCEPT !.feedback = given] ELSE e
<1>1. \A e \in E : g(e).cand = e.cand /\ (e.cand # c => g(e) = e)
  BY DEF Entry
<1>2. SetFeedback(E, c, given) = {g(e) : e \in E}
  BY DEF SetFeedback
<1> HIDE DEF g
<1> QED
  BY <1>1, <1>2 DEF KeepsOthers, Holds

LEMMA WithoutKeeps ==
  ASSUME NEW E, NEW c
  PROVE  /\ KeepsOthers(E, Without(E, c), c)
         /\ ~Holds(E, c) => Without(E, c) = E
BY DEF KeepsOthers, Without, Holds

LEMMA AddKeeps ==
  ASSUME NEW E, NEW c, NEW e, e.cand = c
  PROVE  KeepsOthers(E, E \cup {e}, c) /\ Holds(E \cup {e}, c)
BY DEF KeepsOthers, Holds

-----------------------------------------------------------------------------
(* What the updates keep of one version of the documents *)

\* Updates of the lists of the steps in W.
LEMMA StepsFrame ==
  ASSUME NEW x, NEW v, NEW W \in SUBSET Step, NEW c,
         \A d \in Doc \ W : v[d] = x[d],
         \A s \in W : KeepsOthers(x[s].candidates, v[s].candidates, c)
  PROVE  Frame(x, v, W, c)
BY PipelineAssumption DEF Frame, SameOthers, EntriesOf, KeepsOthers

\* An update of the document of job j.
LEMMA JobDocFrame ==
  ASSUME NEW j \in Job, NEW new, NEW old, NEW c,
         KeepsOthers(old.newCandidates, new.newCandidates, c),
         KeepsOthers(old.participants, new.participants, c)
  PROVE  SameOthers(j, new, old, c)
<1> SUFFICES ASSUME NEW y \in Cand \ {c}
             PROVE  EntriesOf(j, new, y) = EntriesOf(j, old, y)
  BY DEF SameOthers
<1>1. /\ {e \in new.newCandidates : e.cand = y} = {e \in old.newCandidates : e.cand = y}
      /\ {e \in new.participants : e.cand = y} = {e \in old.participants : e.cand = y}
  BY DEF KeepsOthers
<1> QED
  BY <1>1 DEF EntriesOf

LEMMA PushCandidateFrame ==
  ASSUME NEW x, Sound(x), NEW j \in Job, NEW c \in Cand, NEW by \in Req
  PROVE  Frame(x, [x EXCEPT ![j] = PushCandidate(@, c, by)], {j}, c)
<1> DEFINE doc == PushCandidate(x[j], c, by)
<1>1. x \in [Doc -> JobDoc \cup StepDoc] /\ j \in Doc
  BY DEF Sound, Contents, Doc
<1>2. /\ doc.newCandidates = x[j].newCandidates \cup {NewEntry(c, by)}
      /\ doc.participants = x[j].participants \cup {[cand |-> c, by |-> by]}
  BY DEF PushCandidate
<1> HIDE DEF doc
<1>3. KeepsOthers(x[j].newCandidates, doc.newCandidates, c)
  <2>1. NewEntry(c, by).cand = c
    BY DEF NewEntry
  <2> QED
    BY <1>2, <2>1, AddKeeps DEF KeepsOthers
<1>4. KeepsOthers(x[j].participants, doc.participants, c)
  <2>1. [cand |-> c, by |-> by].cand = c
    OBVIOUS
  <2> DEFINE t == [cand |-> c, by |-> by]
  <2>2. doc.participants = x[j].participants \cup {t} /\ t.cand = c
    BY <1>2, <2>1
  <2> HIDE DEF t
  <2> QED
    BY <2>2, AddKeeps DEF KeepsOthers
<1>5. SameOthers(j, doc, x[j], c)
  BY <1>3, <1>4, JobDocFrame
<1>6. Frame(x, [x EXCEPT ![j] = doc], {j}, c)
  BY <1>1, <1>5 DEF Frame
<1> QED
  BY <1>6 DEF doc

LEMMA PullNewFrame ==
  ASSUME NEW x, Sound(x), NEW j \in Job, NEW c \in Cand
  PROVE  Frame(x, [x EXCEPT ![j] = PullNew(@, c)],
               IF Holds(x[j].newCandidates, c) THEN {j} ELSE {}, c)
<1> DEFINE doc == PullNew(x[j], c)
<1>1. /\ x \in [Doc -> JobDoc \cup StepDoc] /\ j \in Doc
      /\ x[j] \in JobDoc
  BY DEF Sound, Contents, Doc
<1>2. /\ doc.newCandidates = Without(x[j].newCandidates, c)
      /\ doc.participants = x[j].participants
  BY <1>1 DEF PullNew, JobDoc
<1>3. SameOthers(j, doc, x[j], c)
  BY <1>2, WithoutKeeps, JobDocFrame DEF KeepsOthers
<1>4. ~Holds(x[j].newCandidates, c) => doc = x[j]
  BY <1>1, WithoutKeeps DEF PullNew, JobDoc
<1> HIDE DEF doc
<1>5. Frame(x, [x EXCEPT ![j] = doc],
            IF Holds(x[j].newCandidates, c) THEN {j} ELSE {}, c)
  BY <1>1, <1>3, <1>4 DEF Frame
<1> QED
  BY <1>5 DEF doc

LEMMA ReproveFromJobFrame ==
  ASSUME NEW x, Sound(x), NEW j \in Job, NEW c \in Cand
  PROVE  Frame(x, [x EXCEPT ![j].newCandidates = SetStatus(@, c, "REPROVED", NoStep)],
               IF Holds(x[j].newCandidates, c) THEN {j} ELSE {}, c)
<1> DEFINE E == SetStatus(x[j].newCandidates, c, "REPROVED", NoStep)
           doc == [x[j] EXCEPT !.newCandidates = E]
<1>1. /\ x \in [Doc -> JobDoc \cup StepDoc] /\ j \in Doc
      /\ x[j] \in JobDoc
  BY DEF Sound, Contents, Doc
<1>2. /\ KeepsOthers(x[j].newCandidates, E, c)
      /\ ~Holds(x[j].newCandidates, c) => E = x[j].newCandidates
  BY <1>1, SetStatusKeeps DEF JobDoc
<1> HIDE DEF E
<1>3. doc.newCandidates = E /\ doc.participants = x[j].participants
  BY <1>1 DEF JobDoc
<1>4. SameOthers(j, doc, x[j], c)
  BY <1>2, <1>3, JobDocFrame DEF KeepsOthers
<1>5. ~Holds(x[j].newCandidates, c) => doc = x[j]
  BY <1>1, <1>2 DEF JobDoc
<1> HIDE DEF doc
<1>6. Frame(x, [x EXCEPT ![j] = doc],
            IF Holds(x[j].newCandidates, c) THEN {j} ELSE {}, c)
  BY <1>1, <1>4, <1>5 DEF Frame
<1> QED
  BY <1>6 DEF doc, E

LEMMA AddToFrame ==
  ASSUME NEW x, Sound(x), NEW s \in Step, NEW c \in Cand, NEW by \in Req
  PROVE  Frame(x, [x EXCEPT ![s].candidates = @ \cup {NewEntry(c, by)}], {s}, c)
<1> DEFINE E == x[s].candidates \cup {NewEntry(c, by)}
           v == [x EXCEPT ![s] = [x[s] EXCEPT !.candidates = E]]
<1>1. x[s] \in StepDoc /\ x \in [Doc -> JobDoc \cup StepDoc] /\ s \in Doc
  BY DEF Sound, Contents, Doc
<1>2. NewEntry(c, by).cand = c
  BY DEF NewEntry
<1>3. KeepsOthers(x[s].candidates, E, c)
  BY <1>2, AddKeeps
<1> HIDE DEF E
<1>4. /\ v[s].candidates = E
      /\ \A d \in Doc \ {s} : v[d] = x[d]
  BY <1>1 DEF StepDoc
<1> HIDE DEF v
<1>5. Frame(x, v, {s}, c)
  BY <1>3, <1>4, StepsFrame
<1> QED
  BY <1>5 DEF v, E

LEMMA RemoveFrame ==
  ASSUME NEW x, Sound(x), NEW s \in Step, NEW c \in Cand
  PROVE  Frame(x, [x EXCEPT ![s].candidates = Without(@, c)],
               IF Holds(x[s].candidates, c) THEN {s} ELSE {}, c)
<1> DEFINE E == Without(x[s].candidates, c)
           v == [x EXCEPT ![s] = [x[s] EXCEPT !.candidates = E]]
<1>1. x[s] \in StepDoc /\ x \in [Doc -> JobDoc \cup StepDoc] /\ s \in Doc
  BY DEF Sound, Contents, Doc
<1>2. /\ KeepsOthers(x[s].candidates, E, c)
      /\ ~Holds(x[s].candidates, c) => E = x[s].candidates
  BY WithoutKeeps
<1> HIDE DEF E
<1>3. /\ v[s].candidates = E
      /\ \A d \in Doc \ {s} : v[d] = x[d]
      /\ E = x[s].candidates => v[s] = x[s]
  BY <1>1 DEF StepDoc
<1> HIDE DEF v
<1>4. Frame(x, v, IF Holds(x[s].candidates, c) THEN {s} ELSE {}, c)
  <2>1. CASE Holds(x[s].candidates, c)
    BY <1>2, <1>3, <2>1, StepsFrame
  <2>2. CASE ~Holds(x[s].candidates, c)
    BY <1>2, <1>3, <2>2 DEF Frame
  <2> QED
    BY <2>1, <2>2
<1> QED
  BY <1>4 DEF v, E

\* The lists that an approval rewrites are those that hold the candidate
\* afterwards.
LEMMA ApprovedFrame ==
  ASSUME NEW x, Sound(x), NEW q \in Request, NEW s \in Step, NEW next,
         NEW by \in Req, NEW v,
         v = [d \in Doc |->
                IF d \in Job THEN x[d]
                ELSE [candidates |-> ApprovedEntries(x, s, next, q, by, d)]]
  PROVE  Frame(x, v, StepsHolding(v, q.cand), q.cand)
<1> DEFINE c == q.cand
           E(d) == ApprovedEntries(x, s, next, q, by, d)
<1>1. c \in Cand /\ q.feedback \in BOOLEAN
  BY DEF Request
<1>2. ASSUME NEW d \in Step
      PROVE  /\ KeepsOthers(x[d].candidates, E(d), c)
             /\ ~Holds(E(d), c) => E(d) = x[d].candidates
  <2> DEFINE pushed == IF d = next /\ ~Holds(x[d].candidates, c)
                       THEN x[d].candidates \cup {NewEntry(c, by)}
                       ELSE x[d].candidates
             marked == SetFeedback(pushed, c, q.feedback)
             status == SetStatus(marked, c, "APPROVED", NoStep)
  <2>1. x[d].candidates \in SUBSET Entry
    BY StepEntries
  <2>2. NewEntry(c, by) \in Entry /\ NewEntry(c, by).cand = c
    BY <1>1, NewEntryType
  <2>3. /\ pushed \in SUBSET Entry
        /\ KeepsOthers(x[d].candidates, pushed, c)
        /\ ~Holds(pushed, c) => pushed = x[d].candidates
    BY <2>1, <2>2, AddKeeps DEF KeepsOthers
  <2> HIDE DEF pushed
  <2>4. /\ marked \in SUBSET Entry
        /\ KeepsOthers(pushed, marked, c)
        /\ Holds(marked, c) <=> Holds(pushed, c)
        /\ ~Holds(pushed, c) => marked = pushed
    BY <1>1, <2>3, SetFeedbackOK, SetFeedbackKeeps
  <2> HIDE DEF marked
  <2>5. /\ KeepsOthers(marked, status, c)
        /\ Holds(status, c) <=> Holds(marked, c)
        /\ ~Holds(marked, c) => status = marked
    BY <1>1, <2>4, SetStatusKeeps
  <2>6. E(d) = status \/ E(d) = marked
    BY DEF ApprovedEntries, marked, pushed
  <2> HIDE DEF E, status
  <2> QED
    BY <2>3, <2>4, <2>5, <2>6 DEF KeepsOthers
<1>3. /\ \A d \in Job : v[d] = x[d]
      /\ \A d \in Step : v[d] = [candidates |-> E(d)]
      /\ \A d \in Step : v[d].candidates = E(d)
  BY PipelineAssumption DEF Doc
<1> HIDE DEF E
<1>4. \A d \in Step : x[d] = [candidates |-> x[d].candidates]
  BY DEF Sound, Contents, StepDoc
<1>5. \A d \in Doc \ StepsHolding(v, c) : v[d] = x[d]
  BY <1>2, <1>3, <1>4 DEF StepsHolding, Doc
<1>6. \A d \in StepsHolding(v, c) : KeepsOthers(x[d].candidates, v[d].candidates, c)
  <2> TAKE d \in StepsHolding(v, c)
  <2>1. d \in Step
    BY DEF StepsHolding
  <2>2. v[d].candidates = E(d)
    BY <1>3, <2>1
  <2>3. KeepsOthers(x[d].candidates, E(d), c)
    BY <1>2, <2>1
  <2> QED
    BY <2>2, <2>3
<1>7. StepsHolding(v, c) \in SUBSET Step
  BY DEF StepsHolding
<1> QED
  BY <1>5, <1>6, <1>7, StepsFrame

\* Those that a reproval rewrites hold the candidate before.
LEMMA ReprovedFrame ==
  ASSUME NEW x, Sound(x), NEW q \in Request, NEW s \in Step, NEW v,
         v = [d \in Doc |->
                IF d \in Job THEN x[d]
                ELSE [candidates |-> ReprovedEntries(x, s, q, d)]]
  PROVE  Frame(x, v, StepsHolding(x, q.cand), q.cand)
<1> DEFINE c == q.cand
           E(d) == ReprovedEntries(x, s, q, d)
<1>1. c \in Cand /\ q.feedback \in BOOLEAN
  BY DEF Request
<1>2. ASSUME NEW d \in Step
      PROVE  /\ KeepsOthers(x[d].candidates, E(d), c)
             /\ ~Holds(x[d].candidates, c) => E(d) = x[d].candidates
  <2> DEFINE kept == IF s \notin LastStep /\ Order[d] > Order[s]
                     THEN Without(x[d].candidates, c)
                     ELSE x[d].candidates
             marked == SetFeedback(kept, c, q.feedback)
             status == SetStatus(marked, c, "REPROVED", s)
  <2>1. x[d].candidates \in SUBSET Entry
    BY StepEntries
  <2>2. /\ kept \in SUBSET Entry
        /\ KeepsOthers(x[d].candidates, kept, c)
        /\ ~Holds(x[d].candidates, c) => kept = x[d].candidates
    BY <2>1, WithoutKeeps DEF KeepsOthers, Without
  <2> HIDE DEF kept
  <2>3. /\ marked \in SUBSET Entry
        /\ KeepsOthers(kept, marked, c)
        /\ Holds(marked, c) <=> Holds(kept, c)
        /\ ~Holds(kept, c) => marked = kept
    BY <1>1, <2>2, SetFeedbackOK, SetFeedbackKeeps
  <2> HIDE DEF marked
  <2>4. /\ KeepsOthers(marked, status, c)
        /\ ~Holds(marked, c) => status = marked
    BY <1>1, <2>3, SetStatusKeeps
  <2>5. E(d) = status \/ E(d) = marked
    BY DEF ReprovedEntries, marked, kept
  <2> HIDE DEF E, status
  <2> QED
    BY <2>2, <2>3, <2>4, <2>5 DEF KeepsOthers
<1>3. /\ \A d \in Job : v[d] = x[d]
      /\ \A d \in Step : v[d] = [candidates |-> E(d)]
      /\ \A d \in Step : v[d].candidates = E(d)
  BY PipelineAssumption DEF Doc
<1> HIDE DEF E
<1>4. \A d \in Step : x[d] = [candidates |-> x[d].candidates]
  BY DEF Sound, Contents, StepDoc
<1>5. \A d \in Doc \ StepsHolding(x, c) : v[d] = x[d]
  BY <1>2, <1>3, <1>4 DEF StepsHolding, Doc
<1>6. \A d \in StepsHolding(x, c) : KeepsOthers(x[d].candidates, v[d].candidates, c)
  <2> TAKE d \in StepsHolding(x, c)
  <2>1. d \in Step
    BY DEF StepsHolding
  <2>2. v[d].candidates = E(d)
    BY <1>3, <2>1
  <2>3. KeepsOthers(x[d].candidates, E(d), c)
    BY <1>2, <2>1
  <2> QED
    BY <2>2, <2>3
<1>7. StepsHolding(x, c) \in SUBSET Step
  BY DEF StepsHolding
<1> QED
  BY <1>5, <1>6, <1>7, StepsFrame

LEMMA WithdrawnFrame ==
  ASSUME NEW x, Sound(x), NEW j \in Job, NEW c \in Cand, NEW v,
         v = [d \in Doc |-> WithdrawnDoc(x[d], j, d, c)]
  PROVE  Frame(x, v, {d \in Doc : v[d] # x[d]}, c)
<1> SUFFICES ASSUME NEW d \in Doc, v[d] # x[d]
             PROVE  SameOthers(d, v[d], x[d], c)
  BY DEF Frame
<1>1. v[d] = WithdrawnDoc(x[d], j, d, c)
  OBVIOUS
<1>2. CASE d = j
  <2>1. /\ v[d].newCandidates = Without(x[d].newCandidates, c)
        /\ v[d].participants = Without(x[d].participants, c)
    BY <1>1, <1>2 DEF WithdrawnDoc
  <2> QED
    BY <1>2, <2>1, WithoutKeeps, JobDocFrame
<1>3. CASE d # j /\ d \in StepsOf(j)
  <2>1. v[d].candidates = Without(x[d].candidates, c) /\ d \in Step /\ d \notin Job
    BY <1>1, <1>3, PipelineAssumption DEF WithdrawnDoc, StepsOf
  <2>2. KeepsOthers(x[d].candidates, v[d].candidates, c)
    BY <2>1, WithoutKeeps
  <2> QED
    BY <2>1, <2>2 DEF KeepsOthers, SameOthers, EntriesOf
<1> QED
  BY <1>1, <1>2, <1>3 DEF WithdrawnDoc

-----------------------------------------------------------------------------
(* The actions *)

LEMMA ArriveKeeps ==
  ASSUME IInv, Isolated, ChainsOK, NEW r \in Req, Arrive(r)
  PROVE  Isolated' /\ ChainsOK'
<1> DEFINE p == <<r, "http">>
<1>1. p \in Proc /\ p[1] = r /\ p[2] = "http" /\ pc[p] = "idle"
  BY DEF Proc, Arrive
<1>2. PICK q \in Calls : req' = [req EXCEPT ![p] = q]
  BY DEF Arrive
<1>3. q.op \notin StepOps => q.rest = <<>>
  BY DEF Calls
<1>4. /\ pc \in [Proc -> Label] /\ req \in [Proc -> Request \cup {NoRequest}]
      /\ open \subseteq Proc
      /\ pc' = [pc EXCEPT ![p] = "read"] /\ UNCHANGED storeVars
  BY DEF Arrive, IInv, ControlOK, StoreOK
<1> HIDE DEF p
<1>5. p \notin open
  BY <1>1 DEF ChainsOK, OpenPlaces
<1>6. /\ pc'[p] = "read" /\ req'[p] = q
      /\ \A u \in Proc \ {p} : pc'[u] = pc[u] /\ req'[u] = req[u]
  BY <1>1, <1>2, <1>4
<1>7. Isolated'
  BY <1>4, <1>5, <1>6, SkipIsolated
<1>8. ChainsOK'
  <2>1. \A u \in open' : pc'[u] \in OpenPlaces
    BY <1>4, <1>5, <1>6 DEF storeVars, ChainsOK
  <2>2. ASSUME NEW u \in Proc, pc'[u] \in {"read", "push"}, req'[u].op = "apply"
        PROVE  u[2] = "http" /\ pc'[<<u[1], "send">>] = "idle"
    <3>1. <<u[1], "send">> \in Proc \ {p}
      BY DEF Proc, p
    <3>2. u[2] = "http" /\ pc[<<u[1], "send">>] = "idle"
      <4>1. CASE u = p
        <5>1. pc[<<r, "http">>] = "idle"
          BY <1>1 DEF p
        <5> QED
          BY <1>1, <4>1, <5>1 DEF ChainsOK
      <4>2. CASE u # p
        BY <1>6, <2>2, <4>2 DEF ChainsOK
      <4> QED
        BY <4>1, <4>2
    <3> QED
      BY <1>6, <3>1, <3>2
  <2>3. ASSUME NEW u \in Req, pc'[<<u, "http">>] = "idle"
        PROVE  pc'[<<u, "send">>] = "idle"
    <3>1. <<u, "http">> \in Proc /\ <<u, "send">> \in Proc \ {p}
      BY DEF Proc, p
    <3>2. pc[<<u, "http">>] = "idle"
      BY <1>6, <2>3, <3>1
    <3> QED
      BY <1>6, <3>1, <3>2 DEF ChainsOK
  <2>4. \A u \in Active' : req'[u].op \notin StepOps => req'[u].rest = <<>>
    BY <1>3, <1>6 DEF Active, ChainsOK
  <2> QED
    BY <2>1, <2>2, <2>3, <2>4 DEF ChainsOK
<1> QED
  BY <1>7, <1>8

LEMMA CommitKeeps ==
  ASSUME IInv, Isolated, ChainsOK, NEW p \in Proc, Commit(p)
  PROVE  Isolated' /\ ChainsOK'
<1>1. p \in Active /\ pc[p] = "commit"
  BY DEF Commit, Active
<1>2. open' = open \ {p} /\ open \subseteq Proc
  BY DEF Commit, TxnCommit, EndTxns, IInv, StoreOK
<1>3. pc \in [Proc -> Label] /\ req \in [Proc -> Request \cup {NoRequest}]
  BY DEF IInv, ControlOK
<1>4. CASE req[p].rest = <<>>
  <2>1. End({p})
    BY <1>4 DEF Commit
  <2>2. \A q \in open \ {p} : req'[q] = req[q]
    BY <1>2, <2>1 DEF End
  <2>3. Isolated'
    BY <2>2, CommitIsolated DEF Commit
  <2>4. ChainsOK'
    BY <1>1, <1>2, <2>1, EndChains
  <2> QED
    BY <2>3, <2>4
<1>5. CASE req[p].rest # <<>>
  <2> DEFINE q == [req[p] EXCEPT !.cand = Head(req[p].rest),
                                 !.rest = Tail(req[p].rest)]
  <2>1. req[p] \in Request
    BY <1>1, RequestFields
  <2>2. q.op = req[p].op
    BY <2>1 DEF Request
  <2>3. /\ pc' = [pc EXCEPT ![p] = "read"]
        /\ req' = [req EXCEPT ![p] = q]
    BY <1>5 DEF Commit
  <2> HIDE DEF q
  <2>4. /\ pc'[p] = "read" /\ req'[p] = q
        /\ \A u \in Proc \ {p} : pc'[u] = pc[u] /\ req'[u] = req[u]
    BY <1>3, <2>3
  <2>5. Isolated'
    BY <1>2, <2>4, CommitIsolated DEF Commit
  <2>6. q.op \in StepOps
    BY <1>1, <1>5, <2>2 DEF ChainsOK
  <2>7. ChainsOK'
    <3>1. \A u \in open' : pc'[u] \in OpenPlaces
      BY <1>2, <2>4 DEF ChainsOK
    <3>2. ASSUME NEW u \in Proc, pc'[u] \in {"read", "push"}, req'[u].op = "apply"
          PROVE  u[2] = "http" /\ pc'[<<u[1], "send">>] = "idle"
      <4>1. u # p
        BY <2>4, <2>6, <3>2 DEF StepOps
      <4>2. u[2] = "http" /\ pc[<<u[1], "send">>] = "idle"
        BY <2>4, <3>2, <4>1 DEF ChainsOK
      <4>3. <<u[1], "send">> \in Proc \ {p}
        BY <1>1, <4>2 DEF Proc
      <4> QED
        BY <2>4, <4>2, <4>3
    <3>3. ASSUME NEW u \in Req, pc'[<<u, "http">>] = "idle"
          PROVE  pc'[<<u, "send">>] = "idle"
      <4>1. <<u, "http">> \in Proc /\ <<u, "send">> \in Proc
        BY DEF Proc
      <4>2. pc[<<u, "http">>] = "idle"
        BY <2>4, <3>3, <4>1
      <4>3. pc[<<u, "send">>] = "idle"
        BY <4>2 DEF ChainsOK
      <4> QED
        BY <1>1, <2>4, <4>1, <4>3
    <3>4. \A u \in Active' : req'[u].op \notin StepOps => req'[u].rest = <<>>
      BY <2>4, <2>6 DEF Active, ChainsOK
    <3> QED
      BY <3>1, <3>2, <3>3, <3>4 DEF ChainsOK
  <2> QED
    BY <2>5, <2>7
<1> QED
  BY <1>4, <1>5

\* The push starts the background send, which was idle and so held nothing.
LEMMA ApplyPushKeeps ==
  ASSUME IInv, Isolated, ChainsOK, NEW p \in Proc, ApplyPush(p)
  PROVE  Isolated' /\ ChainsOK'
<1> DEFINE j == req[p].job
           c == req[p].cand
           bg == <<p[1], "send">>
           w == [req[p] EXCEPT !.op = "send"]
           v == [Seen(p) EXCEPT ![j] = PushCandidate(@, c, p[1])]
<1>1. p \in Active /\ pc[p] = "push" /\ req[p].op = "apply"
  BY DEF ApplyPush, At, Active
<1>2. j \in Job /\ c \in Cand /\ p[1] \in Req /\ req[p] \in Request
  BY <1>1, RequestFields
<1>3. p[2] = "http" /\ pc[bg] = "idle"
  BY <1>1 DEF ChainsOK
<1>4. /\ bg \in Proc /\ bg # p /\ p = <<p[1], "http">>
  BY <1>2, <1>3 DEF Proc
<1>5. bg \notin open
  BY <1>3 DEF ChainsOK, OpenPlaces
<1>6. CASE Fail(p)
  BY <1>1, <1>6, FailKeeps
<1>7. CASE /\ TxnWrite(p, v, {j})
           /\ pc' = [pc EXCEPT ![p] = "commit", ![bg] = "read"]
           /\ req' = [req EXCEPT ![bg] = w]
  <2>1. Frame(Seen(p), v, {j}, c)
    BY <1>2, SeenSound, PushCandidateFrame DEF IInv
  <2>2. w.op = "send" /\ w.rest = <<>>
    BY <1>1, <1>2 DEF Request, ChainsOK, StepOps
  <2> HIDE DEF v, w, bg
  <2>3. /\ pc'[p] = "commit" /\ pc'[bg] = "read"
        /\ req'[bg] = w
        /\ \A u \in Proc \ {p, bg} : pc'[u] = pc[u]
        /\ \A u \in Proc \ {bg} : req'[u] = req[u]
    BY <1>4, <1>7 DEF IInv, ControlOK
  <2>4. open \subseteq Proc /\ open' = open \cup {p}
    BY <1>7 DEF IInv, StoreOK, TxnWrite
  <2>5. Isolated'
    <3>1. \A u \in open \cup {p} : req'[u].cand = req[u].cand
      BY <1>4, <1>5, <2>3, <2>4
    <3>2. {j} \in SUBSET Doc
      BY <1>2 DEF Doc
    <3> QED
      BY <1>7, <2>1, <3>1, <3>2, WriteIsolated
  <2>6. \A u \in open' : pc'[u] \in OpenPlaces
    BY <1>5, <2>3, <2>4 DEF ChainsOK, OpenPlaces
  <2>7. ASSUME NEW u \in Proc, pc'[u] \in {"read", "push"}, req'[u].op = "apply"
        PROVE  u[2] = "http" /\ pc'[<<u[1], "send">>] = "idle"
    <3>1. u # p /\ u # bg
      BY <2>2, <2>3, <2>7
    <3>2. u[2] = "http" /\ pc[<<u[1], "send">>] = "idle"
      BY <2>3, <2>7, <3>1 DEF ChainsOK
    <3>3. u = <<u[1], "http">> /\ <<u[1], "send">> \in Proc
      BY <3>2 DEF Proc
    <3>4. <<u[1], "send">> # bg /\ <<u[1], "send">> # p
      BY <1>3, <1>4, <3>1, <3>3 DEF bg
    <3> QED
      BY <2>3, <3>2, <3>3, <3>4
  <2>8. ASSUME NEW u \in Req, pc'[<<u, "http">>] = "idle"
        PROVE  pc'[<<u, "send">>] = "idle"
    <3>1. <<u, "http">> \in Proc /\ <<u, "send">> \in Proc
      BY DEF Proc
    <3>2. <<u, "http">> # p /\ <<u, "http">> # bg
      BY <2>3, <2>8 DEF bg
    <3>3. pc[<<u, "send">>] = "idle"
      BY <2>3, <2>8, <3>1, <3>2 DEF ChainsOK
    <3>4. <<u, "send">> # bg /\ <<u, "send">> # p
      BY <1>4, <3>2 DEF bg
    <3> QED
      BY <2>3, <3>1, <3>3, <3>4
  <2>9. \A u \in Active' : req'[u].op \notin StepOps => req'[u].rest = <<>>
    <3> TAKE u \in Active'
    <3>1. CASE u = bg
      BY <2>2, <2>3, <3>1
    <3>2. CASE u # bg
      BY <1>1, <2>3, <3>2 DEF Active, ChainsOK
    <3> QED
      BY <3>1, <3>2
  <2> QED
    BY <2>5, <2>6, <2>7, <2>8, <2>9 DEF ChainsOK
<1> QED
  BY <1>6, <1>7 DEF ApplyPush

\* The reads outside the session that come before any write.
LEMMA ChecksKeep ==
  ASSUME IInv, Isolated, ChainsOK, NEW p \in Proc,
         ApplyCheck(p) \/ SendCheck(p) \/ WithdrawCheck(p)
  PROVE  Isolated' /\ ChainsOK'
<1>1. p \in Active /\ pc[p] = "read"
  BY DEF ApplyCheck, SendCheck, WithdrawCheck, At, Active
<1>2. p \notin open
  BY <1>1 DEF ChainsOK, OpenPlaces
<1>3. CASE Fail(p)
  BY <1>1, <1>3, FailKeeps
<1>4. ASSUME NEW label \in {"push", "pull", "write"}, Goto(p, label),
             UNCHANGED <<storeVars, psTests>>
      PROVE  Isolated' /\ ChainsOK'
  BY <1>1, <1>2, <1>4, SkipKeeps DEF Label
<1> QED
  BY <1>3, <1>4 DEF ApplyCheck, SendCheck, WithdrawCheck

LEMMA AddToKeeps ==
  ASSUME IInv, Isolated, ChainsOK, NEW p \in Active, NEW s \in Step,
         AddTo(p, s, req[p].cand)
  PROVE  Isolated' /\ ChainsOK'
<1> DEFINE c == req[p].cand
           v == [Seen(p) EXCEPT ![s].candidates = @ \cup {NewEntry(c, p[1])}]
<1>1. p \in Proc /\ c \in Cand /\ p[1] \in Req
  BY RequestFields
<1>2. CASE Fail(p)
  BY <1>2, FailKeeps
<1>3. CASE Update(p, v, {s}, "commit")
  <2>1. Frame(Seen(p), v, {s}, c)
    BY <1>1, SeenSound, AddToFrame DEF IInv
  <2>2. {s} \in SUBSET Doc
    BY DEF Doc
  <2> HIDE DEF v
  <2> QED
    BY <1>3, <2>1, <2>2, UpdateKeeps DEF OpenPlaces
<1> QED
  BY <1>2, <1>3 DEF AddTo

LEMMA SendKeeps ==
  ASSUME IInv, Isolated, ChainsOK, NEW p \in Proc,
         SendPull(p) \/ SendTest(p) \/ SendCreate(p) \/ SendAdd(p)
  PROVE  Isolated' /\ ChainsOK'
<1> DEFINE j == req[p].job
           c == req[p].cand
<1>1. p \in Active
  BY DEF SendPull, SendTest, SendCreate, SendAdd, At, Active
<1>2. j \in Job /\ c \in Cand /\ p[1] \in Req
  BY <1>1, RequestFields
<1>3. CASE SendPull(p)
  <2> DEFINE v == [Seen(p) EXCEPT ![j] = PullNew(@, c)]
             W == IF Holds(Seen(p)[j].newCandidates, c) THEN {j} ELSE {}
             label == IF j \in PsJob THEN "test" ELSE "add"
  <2>1. Frame(Seen(p), v, W, c)
    BY <1>2, SeenSound, PullNewFrame DEF IInv
  <2>2. W \in SUBSET Doc /\ label \in OpenPlaces
    BY <1>2 DEF Doc, OpenPlaces
  <2>3. Update(p, v, W, label)
    BY <1>3 DEF SendPull
  <2> HIDE DEF v, W, label
  <2> QED
    BY <1>1, <2>1, <2>2, <2>3, UpdateKeeps
<1>4. ASSUME NEW label \in {"add", "create"}, Goto(p, label), UNCHANGED storeVars
      PROVE  Isolated' /\ ChainsOK'
  BY <1>1, <1>4, SkipKeeps DEF Label, OpenPlaces
<1>5. CASE SendTest(p)
  BY <1>4, <1>5 DEF SendTest
<1>6. CASE SendCreate(p)
  BY <1>4, <1>6 DEF SendCreate
<1>7. CASE SendAdd(p)
  <2>1. CASE Fail(p)
    BY <1>1, <2>1, FailKeeps
  <2>2. ASSUME NEW s \in FirstSteps(j), AddTo(p, s, c)
        PROVE  Isolated' /\ ChainsOK'
    BY <1>1, <2>2, AddToKeeps DEF FirstSteps, StepsOf
  <2> QED
    BY <1>7, <2>1, <2>2 DEF SendAdd
<1> QED
  BY <1>3, <1>5, <1>6, <1>7

LEMMA StepOperationsKeep ==
  ASSUME IInv, Isolated, ChainsOK, NEW p \in Proc,
         \/ AddCandidate(p) \/ RemoveCandidate(p)
         \/ ApproveCandidate(p) \/ ReproveCandidate(p)
  PROVE  Isolated' /\ ChainsOK'
<1> DEFINE q == req[p]
           s == req[p].step
           c == req[p].cand
           x == Seen(p)
<1>1. p \in Active
  BY DEF AddCandidate, RemoveCandidate, ApproveCandidate, ReproveCandidate, At, Active
<1>2. q \in Request /\ s \in Step /\ c \in Cand /\ p[1] \in Req
  BY <1>1, RequestFields
     DEF AddCandidate, RemoveCandidate, ApproveCandidate, ReproveCandidate, At, StepOps
<1>3. Sound(x)
  BY SeenSound DEF IInv
<1>4. CASE AddCandidate(p)
  BY <1>1, <1>2, <1>4, AddToKeeps DEF AddCandidate
<1>5. CASE RemoveCandidate(p)
  <2> DEFINE v == [x EXCEPT ![s].candidates = Without(@, c)]
             W == IF Holds(x[s].candidates, c) THEN {s} ELSE {}
  <2>1. Frame(x, v, W, c)
    BY <1>2, <1>3, RemoveFrame
  <2>2. Update(p, v, W, "commit") /\ W \in SUBSET Doc
    BY <1>2, <1>5 DEF RemoveCandidate, Doc
  <2> HIDE DEF v, W
  <2> QED
    BY <1>1, <2>1, <2>2, UpdateKeeps DEF OpenPlaces
<1>6. CASE ApproveCandidate(p)
  <2> DEFINE After(next) == [d \in Doc |->
        IF d \in Job THEN x[d]
        ELSE [candidates |-> ApprovedEntries(x, s, next, q, p[1], d)]]
  <2>1. CASE Fail(p)
    BY <1>1, <2>1, FailKeeps
  <2>2. ASSUME NEW next, Update(p, After(next), StepsHolding(After(next), q.cand), "commit")
        PROVE  Isolated' /\ ChainsOK'
    <3>1. Frame(x, After(next), StepsHolding(After(next), q.cand), q.cand)
      BY <1>2, <1>3, ApprovedFrame
    <3>2. StepsHolding(After(next), q.cand) \in SUBSET Doc
      BY DEF StepsHolding, Doc
    <3> HIDE DEF After
    <3> QED
      BY <1>1, <2>2, <3>1, <3>2, UpdateKeeps DEF OpenPlaces
  <2> QED
    BY <1>6, <2>1, <2>2 DEF ApproveCandidate
<1>7. CASE ReproveCandidate(p)
  <2> DEFINE v == [d \in Doc |->
        IF d \in Job THEN x[d]
        ELSE [candidates |-> ReprovedEntries(x, q.step, q, d)]]
  <2>1. Frame(x, v, StepsHolding(x, q.cand), q.cand)
    BY <1>2, <1>3, ReprovedFrame
  <2>2. Update(p, v, StepsHolding(x, q.cand), "commit")
    BY <1>7 DEF ReproveCandidate
  <2>3. StepsHolding(x, q.cand) \in SUBSET Doc
    BY DEF StepsHolding, Doc
  <2> HIDE DEF v
  <2> QED
    BY <1>1, <2>1, <2>2, <2>3, UpdateKeeps DEF OpenPlaces
<1> QED
  BY <1>4, <1>5, <1>6, <1>7

LEMMA JobOperationsKeep ==
  ASSUME IInv, Isolated, ChainsOK, NEW p \in Proc,
         ReproveFromJob(p) \/ Withdraw(p) \/ CloseJob(p) \/ OpenJob(p)
  PROVE  Isolated' /\ ChainsOK'
<1> DEFINE j == req[p].job
           c == req[p].cand
           x == Seen(p)
<1>1. p \in Active
  BY DEF ReproveFromJob, Withdraw, CloseJob, OpenJob, At, Active
<1>2. j \in Job /\ c \in Cand
  BY <1>1, RequestFields
<1>3. Sound(x)
  BY SeenSound DEF IInv
<1>4. CASE ReproveFromJob(p)
  <2> DEFINE v == [x EXCEPT ![j].newCandidates = SetStatus(@, c, "REPROVED", NoStep)]
             W == IF Holds(x[j].newCandidates, c) THEN {j} ELSE {}
  <2>1. Frame(x, v, W, c)
    BY <1>2, <1>3, ReproveFromJobFrame
  <2>2. Update(p, v, W, "commit") /\ W \in SUBSET Doc
    BY <1>2, <1>4 DEF ReproveFromJob, Doc
  <2> HIDE DEF v, W
  <2> QED
    BY <1>1, <2>1, <2>2, UpdateKeeps DEF OpenPlaces
<1>5. CASE Withdraw(p)
  <2> DEFINE v == [d \in Doc |-> WithdrawnDoc(x[d], j, d, c)]
             W == {d \in Doc : v[d] # x[d]}
  <2>1. Frame(x, v, W, c)
    BY <1>2, <1>3, WithdrawnFrame
  <2>2. Update(p, v, W, "commit") /\ W \in SUBSET Doc
    BY <1>5 DEF Withdraw
  <2> HIDE DEF v, W
  <2> QED
    BY <1>1, <2>1, <2>2, UpdateKeeps DEF OpenPlaces
<1>6. ASSUME NEW doc, pc[p] = "read", PlainWrite(j, doc), End({p})
      PROVE  Isolated' /\ ChainsOK'
  <2>1. open \subseteq Proc /\ p \notin open
    BY <1>6 DEF IInv, StoreOK, ChainsOK, OpenPlaces
  <2>2. \A q \in open : req'[q] = req[q]
    BY <1>6, <2>1 DEF End
  <2>3. j \in Doc
    BY <1>2 DEF Doc
  <2>4. Isolated'
    BY <1>6, <2>2, <2>3, PlainIsolated
  <2>5. open' = open
    BY <1>6 DEF PlainWrite, EndTxns
  <2>6. ChainsOK'
    BY <1>6, <2>1, <2>5, EndChains
  <2> QED
    BY <2>4, <2>6
<1> QED
  BY <1>4, <1>5, <1>6 DEF CloseJob, OpenJob, At

LEMMA ExitKeeps ==
  ASSUME IInv, Isolated, ChainsOK, ProcessExit
  PROVE  Isolated' /\ ChainsOK'
<1>1. Active \in SUBSET Proc /\ \A q \in Active : pc[q] # "idle"
  BY DEF Active
<1>2. End(Active) /\ TxnAbort(Active)
  BY DEF ProcessExit
<1>3. open' = open \ Active /\ open \subseteq Proc
  BY <1>2 DEF TxnAbort, EndTxns, IInv, StoreOK
<1>4. \A q \in open \ Active : req'[q] = req[q]
  BY <1>2, <1>3 DEF End
<1> QED
  BY <1>1, <1>2, <1>3, <1>4, AbortIsolated, EndChains

-----------------------------------------------------------------------------
LEMMA FInvInit == Init => FInv
<1> SUFFICES ASSUME Init PROVE FInv
  OBVIOUS
<1>1. Isolated
  BY DEF Init, MongoInit, Isolated, PendingWritesFresh, OwnOnly
<1>2. ChainsOK
  BY DEF Init, MongoInit, ChainsOK, Active, Proc
<1> QED
  BY <1>1, <1>2, InitOK DEF FInv

LEMMA FInvNext == FInv /\ [Next]_vars => FInv'
<1> SUFFICES ASSUME FInv, [Next]_vars PROVE Isolated' /\ ChainsOK'
  BY NextOK DEF FInv
<1>1. IInv /\ Isolated /\ ChainsOK
  BY DEF FInv
<1>2. CASE UNCHANGED vars
  <2>1. UNCHANGED storeVars /\ pc' = pc /\ req' = req
    BY <1>2 DEF vars, storeVars
  <2>2. ChainsOK'
    BY <1>1, <2>1 DEF storeVars, ChainsOK, Active
  <2> QED
    BY <1>1, <2>1, <2>2, SkipIsolated
<1>3. ASSUME NEW r \in Req, Arrive(r) PROVE Isolated' /\ ChainsOK'
  BY <1>1, <1>3, ArriveKeeps
<1>4. ASSUME NEW p \in Proc, Progress(p) PROVE Isolated' /\ ChainsOK'
  BY <1>1, <1>4, ApplyPushKeeps, ChecksKeep, SendKeeps, StepOperationsKeep,
     JobOperationsKeep, CommitKeeps DEF Progress
<1>5. ASSUME NEW p \in Proc, CallFails(p) PROVE Isolated' /\ ChainsOK'
  BY <1>1, <1>5, FailKeeps DEF CallFails
<1>6. CASE ProcessExit
  BY <1>1, <1>6, ExitKeeps
<1> QED
  BY <1>2, <1>3, <1>4, <1>5, <1>6 DEF Next

LEMMA Isolation == Spec => []FInv
BY FInvInit, FInvNext, PTL DEF Spec

\* What is committed changes in a commit, and when a job is closed or opened.
LEMMA OthersKeepDb ==
  ASSUME NEW p \in Proc, Progress(p), ~Commit(p), ~CloseJob(p), ~OpenJob(p)
  PROVE  db' = db
<1>1. Fail(p) => db' = db
  BY DEF Fail, TxnAbort
<1>2. ASSUME NEW v, NEW W, NEW label, Update(p, v, W, label) PROVE db' = db
  BY <1>1, <1>2 DEF Update, TxnWrite
<1>3. ASSUME NEW s, NEW c, AddTo(p, s, c) PROVE db' = db
  BY <1>1, <1>2, <1>3 DEF AddTo
<1>4. UNCHANGED storeVars => db' = db
  BY DEF storeVars
<1>5. ApplyCheck(p) \/ SendCheck(p) \/ WithdrawCheck(p) => db' = db
  BY <1>1, <1>4 DEF ApplyCheck, SendCheck, WithdrawCheck
<1>6. ApplyPush(p) => db' = db
  BY <1>1 DEF ApplyPush, TxnWrite
<1>7. SendPull(p) \/ SendTest(p) \/ SendCreate(p) \/ SendAdd(p) => db' = db
  BY <1>1, <1>2, <1>3, <1>4 DEF SendPull, SendTest, SendCreate, SendAdd
<1>8. AddCandidate(p) \/ RemoveCandidate(p) => db' = db
  BY <1>2, <1>3 DEF AddCandidate, RemoveCandidate
<1>9. ApproveCandidate(p) \/ ReproveCandidate(p) => db' = db
  BY <1>1, <1>2 DEF ApproveCandidate, ReproveCandidate
<1>10. ReproveFromJob(p) \/ Withdraw(p) => db' = db
  BY <1>2 DEF ReproveFromJob, Withdraw
<1> QED
  BY <1>5, <1>6, <1>7, <1>8, <1>9, <1>10 DEF Progress

\* The document that a commit of p replaces, candidate by candidate.
LEMMA CommitOnlyItsOwn ==
  ASSUME FInv, NEW p \in Proc, Commit(p), NEW d \in Doc,
         NEW c \in Cand \ {req[p].cand}
  PROVE  EntriesOf(d, db'[d], c) = EntriesOf(d, db[d], c)
<1>1. db'[d] = IF d \in writes[p] THEN view[p][d] ELSE db[d]
  BY DEF Commit, TxnCommit
<1>2. CASE d \in writes[p]
  <2>1. p \in open
    BY <1>2 DEF FInv, IInv, StoreOK
  <2>2. SameOthers(d, view[p][d], db[d], req[p].cand)
    BY <1>2, <2>1 DEF FInv, Isolated, OwnOnly
  <2> QED
    BY <1>1, <1>2, <2>2 DEF SameOthers
<1>3. CASE d \notin writes[p]
  BY <1>1, <1>3
<1> QED
  BY <1>2, <1>3

\* The step in which p commits is the action Commit(p).
LEMMA CommittingCommits ==
  ASSUME FInv, Next, NEW p \in Proc, Committing(p)
  PROVE  Commit(p)
<1>1. pc[p] = "commit" /\ pc'[p] # "commit" /\ db' # db
  BY DEF Committing
<1>2. pc \in [Proc -> Label]
  BY DEF FInv, IInv, ControlOK
<1>3. ASSUME NEW r \in Req, Arrive(r) PROVE FALSE
  BY <1>1, <1>3 DEF Arrive, storeVars
<1>4. ASSUME NEW u \in Proc, CallFails(u) PROVE FALSE
  BY <1>1, <1>4 DEF CallFails, Fail, TxnAbort
<1>5. CASE ProcessExit
  BY <1>1, <1>5 DEF ProcessExit, TxnAbort
<1>6. ASSUME NEW u \in Proc, Progress(u) PROVE Commit(p)
  <2>1. Commit(u) \/ CloseJob(u) \/ OpenJob(u)
    BY <1>1, <1>6, OthersKeepDb
  <2>2. CASE CloseJob(u) \/ OpenJob(u)
    <3>1. pc[u] = "read" /\ \A w \in Proc \ {u} : pc'[w] = pc[w]
      BY <2>2 DEF CloseJob, OpenJob, At, End
    <3> QED
      BY <1>1, <3>1
  <2>3. CASE Commit(u)
    <3>1. \A w \in Proc \ {u} : pc'[w] = pc[w]
      BY <1>2, <2>3 DEF Commit, End
    <3> QED
      BY <1>1, <2>3, <3>1
  <2> QED
    BY <2>1, <2>2, <2>3
<1> QED
  BY <1>3, <1>4, <1>5, <1>6 DEF Next

\* A commit changes the entries of the candidate of its request only, however
\* many requests share the lists, the documents and the transactions.
THEOREM OnlyItsOwn == Spec => OnlyItsCandidate
<1> DEFINE Own ==
      \A p \in Proc : Committing(p) =>
        \A d \in Doc, c \in Cand \ {req[p].cand} :
           EntriesOf(d, db'[d], c) = EntriesOf(d, db[d], c)
<1>1. FInv /\ [Next]_vars => [Own]_vars
  <2> SUFFICES ASSUME FInv, Next PROVE Own
    OBVIOUS
  <2> QED
    BY CommittingCommits, CommitOnlyItsOwn
<1>2. Spec => [][Own]_vars
  BY <1>1, Isolation, PTL DEF Spec
<1> QED
  BY <1>2 DEF OnlyItsCandidate
=============================================================================
