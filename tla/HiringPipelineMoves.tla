------------------------- MODULE HiringPipelineMoves -------------------------
(***************************************************************************)
(* Proofs about where a candidacy goes: what each commit does to the lists *)
(* of its candidate, that no participant is left outside the funnel of the *)
(* job, and that the pipeline implements Candidacy.                        *)
(***************************************************************************)
EXTENDS HiringPipelineProofs

\* Where candidate c is in version x of the documents.
Waits(x, j, c) == Holds(x[j].newCandidates, c)
TakesPart(x, j, c) == Holds(x[j].participants, c)
InStep(x, s, c) == Holds(x[s].candidates, c)

(***************************************************************************)
(* What the transaction of request r has prepared: x are the committed     *)
(* documents, v those that it sees, W those that it will replace.  Of x    *)
(* only the documents in W count, which stay as they are until it commits. *)
(***************************************************************************)
ApplyEffect(r, v, W) ==
  W = {r.job} /\ Waits(v, r.job, r.cand) /\ TakesPart(v, r.job, r.cand)

\* The pull comes first; at the commit the first step is written, too.
SendEffect(r, at, x, v, W) ==
  /\ r.job \in W => /\ ~Waits(v, r.job, r.cand)
                    /\ TakesPart(v, r.job, r.cand) <=> TakesPart(x, r.job, r.cand)
  /\ at # "commit" => W \subseteq {r.job}
  /\ at = "commit" =>
       \E f \in FirstSteps(r.job) :
          /\ f \in W /\ W \subseteq {r.job, f}
          /\ ~InStep(x, f, r.cand) /\ InStep(v, f, r.cand)

AddEffect(r, x, v, W) ==
  W = {r.step} /\ ~InStep(x, r.step, r.cand) /\ InStep(v, r.step, r.cand)

RemoveEffect(r, x, v, W) ==
  /\ W \subseteq {r.step}
  /\ r.step \in W => InStep(x, r.step, r.cand) /\ ~InStep(v, r.step, r.cand)

ApproveEffect(r, x, v, W) ==
  /\ W \subseteq Step
  /\ \A d \in W : InStep(v, d, r.cand)
  /\ r.step \in LastStep => \A d \in W : InStep(x, d, r.cand)
  /\ r.step \notin LastStep =>
       \E t \in NextSteps(r.job, r.step) :
          t \in W /\ \A d \in W \ {t} : InStep(x, d, r.cand)

ReproveEffect(r, x, v, W) ==
  /\ W \subseteq Step
  /\ \A d \in W : InStep(x, d, r.cand)
  /\ \A d \in W : ~InStep(v, d, r.cand) =>
       r.step \notin LastStep /\ Order[d] > Order[r.step]

ReproveFromJobEffect(r, x, v, W) ==
  /\ W \subseteq {r.job}
  /\ r.job \in W => /\ Waits(x, r.job, r.cand) /\ Waits(v, r.job, r.cand)
                    /\ TakesPart(v, r.job, r.cand) <=> TakesPart(x, r.job, r.cand)

\* A withdrawal may have found the candidate in the steps only.
WithdrawEffect(r, v, W) ==
  /\ W \subseteq {r.job} \cup StepsOf(r.job)
  /\ \A d \in W \ {r.job} : ~InStep(v, d, r.cand)
  /\ r.job \in W => ~Waits(v, r.job, r.cand) /\ ~TakesPart(v, r.job, r.cand)

Effect(r, at, x, v, W) ==
  \/ r.op = "apply" /\ ApplyEffect(r, v, W)
  \/ r.op = "send" /\ SendEffect(r, at, x, v, W)
  \/ r.op = "add" /\ AddEffect(r, x, v, W)
  \/ r.op = "remove" /\ RemoveEffect(r, x, v, W)
  \/ r.op = "approve" /\ ApproveEffect(r, x, v, W)
  \/ r.op = "reprove" /\ ReproveEffect(r, x, v, W)
  \/ r.op = "reproveFromJob" /\ ReproveFromJobEffect(r, x, v, W)
  \/ r.op = "withdraw" /\ WithdrawEffect(r, v, W)

EffectsOK == \A p \in open : Effect(req[p], pc[p], db, view[p], writes[p])

\* What the controller and applyToJob pass on.
CallsOK ==
  \A p \in Active : /\ req[p].op \in StepOps => JobOf[req[p].step] = req[p].job
                    /\ req[p].op \in Ops \cup {"send"}

\* p is about to take c out of f and to leave the lists of j as they are.
Overlooks(p, j, c, f) ==
  /\ req[p].op = "withdraw" /\ req[p].job = j /\ req[p].cand = c
  /\ f \in writes[p] /\ j \notin writes[p]

(***************************************************************************)
(* A withdrawal that started before its candidate applied overlooks the    *)
(* new participant.  The participant stays in the funnel because such a    *)
(* withdrawal holds the first steps it is going to clear, and the          *)
(* background send can only have entered one that it does not hold.        *)
(***************************************************************************)
FunnelAt(j, c) ==
  TakesPart(db, j, c) /\ FirstSteps(j) # {} =>
    \/ Waits(db, j, c)
    \/ \E f \in FirstSteps(j) :
         InStep(db, f, c) /\ \A p \in open : ~Overlooks(p, j, c, f)

FunnelOK == "remove" \notin Ops => \A j \in Job, c \in Cand : FunnelAt(j, c)

Placed == CallsOK /\ EffectsOK /\ FunnelOK

MInv == FInv /\ Placed

-----------------------------------------------------------------------------
(* The store *)

\* An effect depends on the documents that it replaces only.
LEMMA EffectAgrees ==
  ASSUME NEW r, NEW at, NEW x, NEW y, NEW v, NEW W,
         Effect(r, at, x, v, W), \A d \in W : y[d] = x[d]
  PROVE  Effect(r, at, y, v, W)
<1>1. SendEffect(r, at, x, v, W) => SendEffect(r, at, y, v, W)
  BY DEF SendEffect, TakesPart, InStep
<1>2. AddEffect(r, x, v, W) => AddEffect(r, y, v, W)
  BY DEF AddEffect, InStep
<1>3. RemoveEffect(r, x, v, W) => RemoveEffect(r, y, v, W)
  BY DEF RemoveEffect, InStep
<1>4. ApproveEffect(r, x, v, W) => ApproveEffect(r, y, v, W)
  BY DEF ApproveEffect, InStep
<1>5. ReproveEffect(r, x, v, W) => ReproveEffect(r, y, v, W)
  BY DEF ReproveEffect, InStep
<1>6. ReproveFromJobEffect(r, x, v, W) => ReproveFromJobEffect(r, y, v, W)
  BY DEF ReproveFromJobEffect, Waits, TakesPart
<1> QED
  BY <1>1, <1>2, <1>3, <1>4, <1>5, <1>6 DEF Effect

\* A write of p leaves the transactions of the others and what is committed.
LEMMA WriteEffects ==
  ASSUME FInv, EffectsOK, NEW p \in Proc, NEW v, NEW W \in SUBSET Doc,
         TxnWrite(p, v, W),
         \A q \in open \cup {p} : req'[q] = req[q],
         \A q \in open \ {p} : pc'[q] = pc[q],
         Effect(req[p], pc'[p], db, v, writes[p] \cup W)
  PROVE  EffectsOK'
<1>1. /\ open' = open \cup {p} /\ db' = db
      /\ view \in [Proc -> Contents \cup {NoView}]
      /\ writes \in [Proc -> SUBSET Doc] /\ open \subseteq Proc
      /\ view' = [view EXCEPT ![p] = v]
      /\ writes' = [writes EXCEPT ![p] = @ \cup W]
  BY DEF TxnWrite, FInv, IInv, StoreOK
<1>2. /\ view'[p] = v /\ writes'[p] = writes[p] \cup W
      /\ \A q \in open \ {p} : view'[q] = view[q] /\ writes'[q] = writes[q]
  BY <1>1
<1> SUFFICES ASSUME NEW q \in open'
             PROVE  Effect(req'[q], pc'[q], db', view'[q], writes'[q])
  BY DEF EffectsOK
<1>3. CASE q = p
  BY <1>1, <1>2, <1>3
<1>4. CASE q # p
  <2>1. Effect(req[q], pc[q], db, view[q], writes[q])
    BY <1>1, <1>4 DEF EffectsOK
  <2> QED
    BY <1>1, <1>2, <1>4, <2>1
<1> QED
  BY <1>3, <1>4

\* The end of the transactions of P, which changes documents D that no other
\* open transaction has written.
LEMMA EndEffects ==
  ASSUME FInv, EffectsOK, NEW P \in SUBSET Proc, NEW D, EndTxns(P, D),
         \A d \in Doc \ D : db'[d] = db[d],
         \A q \in open \ P : writes[q] \cap D = {},
         \A q \in open \ P : req'[q] = req[q] /\ pc'[q] = pc[q]
  PROVE  EffectsOK'
<1>1. /\ open' = open \ P /\ open \subseteq Proc
      /\ writes \in [Proc -> SUBSET Doc]
      /\ \A q \in open \ P : view'[q] = view[q] /\ writes'[q] = writes[q]
  BY DEF EndTxns, FInv, IInv, StoreOK
<1> SUFFICES ASSUME NEW q \in open'
             PROVE  Effect(req'[q], pc'[q], db', view'[q], writes'[q])
  BY DEF EffectsOK
<1>2. Effect(req[q], pc[q], db, view[q], writes[q])
  BY <1>1 DEF EffectsOK
<1>3. \A d \in writes[q] : db'[d] = db[d]
  BY <1>1
<1>4. Effect(req[q], pc[q], db', view[q], writes[q])
  BY <1>2, <1>3, EffectAgrees
<1> QED
  BY <1>1, <1>4

-----------------------------------------------------------------------------
(* The control *)

LEMMA GotoCalls ==
  ASSUME FInv, CallsOK, NEW p \in Active, NEW label, Goto(p, label)
  PROVE  CallsOK'
BY DEF FInv, IInv, ControlOK, CallsOK, Goto, Active

LEMMA EndCalls ==
  ASSUME FInv, CallsOK, NEW P \in SUBSET Proc, End(P)
  PROVE  CallsOK'
BY DEF FInv, IInv, ControlOK, CallsOK, End, Active

\* The funnel of j loses nothing but what a withdrawal holds, and nobody new
\* overlooks a participant.
LEMMA FunnelKept ==
  ASSUME NEW j \in Job, NEW c \in Cand, FunnelAt(j, c),
         TakesPart(db', j, c) => TakesPart(db, j, c),
         Waits(db, j, c) => Waits(db', j, c),
         \A f \in FirstSteps(j) :
            InStep(db, f, c) /\ (\A p \in open : ~Overlooks(p, j, c, f)) =>
              InStep(db', f, c),
         \A p \in open' : p \in open /\ req'[p] = req[p] /\ writes'[p] = writes[p]
  PROVE  FunnelAt(j, c)'
<1> SUFFICES ASSUME TakesPart(db', j, c), FirstSteps(j) # {}, ~Waits(db, j, c)
             PROVE  \E f \in FirstSteps(j) :
                       InStep(db', f, c) /\ \A p \in open' : ~Overlooks(p, j, c, f)'
  BY DEF FunnelAt
<1>1. PICK f \in FirstSteps(j) :
         InStep(db, f, c) /\ \A p \in open : ~Overlooks(p, j, c, f)
  BY DEF FunnelAt
<1> QED
  BY <1>1 DEF Overlooks

LEMMA FunnelStays ==
  ASSUME FunnelOK,
         \A j \in Job, c \in Cand : /\ Waits(db', j, c) <=> Waits(db, j, c)
                                    /\ TakesPart(db', j, c) <=> TakesPart(db, j, c),
         \A s \in Step, c \in Cand : InStep(db', s, c) <=> InStep(db, s, c),
         \A p \in open' : p \in open /\ req'[p] = req[p] /\ writes'[p] = writes[p]
  PROVE  FunnelOK'
<1> SUFFICES ASSUME "remove" \notin Ops, NEW j \in Job, NEW c \in Cand
             PROVE  FunnelAt(j, c)'
  BY DEF FunnelOK
<1>1. FunnelAt(j, c)
  BY DEF FunnelOK
<1>2. \A f \in FirstSteps(j) : f \in Step
  BY DEF FirstSteps, StepsOf
<1> QED
  BY <1>1, <1>2, FunnelKept

LEMMA FailMoves ==
  ASSUME FInv, Placed, NEW p \in Active, Fail(p)
  PROVE  Placed'
<1> DEFINE P == IF p[2] = "send" THEN Active ELSE {p}
<1>1. P \in SUBSET Proc
  BY DEF Active
<1>2. End(P) /\ EndTxns(P, {}) /\ db' = db
  BY DEF Fail, TxnAbort
<1> HIDE DEF P
<1>3. /\ open' = open \ P /\ open \subseteq Proc
      /\ \A q \in open \ P : writes'[q] = writes[q]
      /\ \A q \in open \ P : req'[q] = req[q] /\ pc'[q] = pc[q]
  BY <1>2 DEF EndTxns, End, FInv, IInv, StoreOK
<1>4. EffectsOK'
  BY <1>1, <1>2, <1>3, EndEffects DEF Placed
<1>5. FunnelOK'
  BY <1>2, <1>3, FunnelStays DEF Placed
<1>6. CallsOK'
  BY <1>1, <1>2, EndCalls DEF Placed
<1> QED
  BY <1>4, <1>5, <1>6 DEF Placed

\* A write in the session of p.  A withdrawal that leaves the lists of its job
\* alone has not found its candidate there.
LEMMA WriteFunnel ==
  ASSUME FInv, FunnelOK, NEW p \in Proc, NEW v, NEW W \in SUBSET Doc,
         TxnWrite(p, v, W),
         \A q \in open \cup {p} : req'[q] = req[q],
         req[p].op = "withdraw" /\ req[p].job \notin W =>
           ~TakesPart(db, req[p].job, req[p].cand)
  PROVE  FunnelOK'
<1>1. /\ open' = open \cup {p} /\ db' = db
      /\ writes \in [Proc -> SUBSET Doc] /\ open \subseteq Proc
      /\ writes' = [writes EXCEPT ![p] = @ \cup W]
  BY DEF TxnWrite, FInv, IInv, StoreOK
<1>2. /\ writes'[p] = writes[p] \cup W
      /\ \A q \in open \ {p} : writes'[q] = writes[q]
  BY <1>1
<1> SUFFICES ASSUME "remove" \notin Ops, NEW j \in Job, NEW c \in Cand,
                    TakesPart(db, j, c), FirstSteps(j) # {}, ~Waits(db, j, c)
             PROVE  \E f \in FirstSteps(j) :
                       InStep(db, f, c) /\ \A q \in open' : ~Overlooks(q, j, c, f)'
  BY <1>1 DEF FunnelOK, FunnelAt
<1>3. PICK f \in FirstSteps(j) :
         InStep(db, f, c) /\ \A q \in open : ~Overlooks(q, j, c, f)
  BY DEF FunnelOK, FunnelAt
<1>4. ASSUME NEW q \in open', Overlooks(q, j, c, f)' PROVE FALSE
  <2>1. CASE q = p
    BY <1>2, <1>4, <2>1 DEF Overlooks
  <2>2. CASE q # p
    BY <1>1, <1>2, <1>3, <1>4, <2>2 DEF Overlooks
  <2> QED
    BY <2>1, <2>2
<1> QED
  BY <1>3, <1>4

LEMMA UpdateMoves ==
  ASSUME FInv, Placed, NEW p \in Active, NEW v, NEW W \in SUBSET Doc,
         NEW label, Update(p, v, W, label),
         TxnWrite(p, v, W) => Effect(req[p], label, db, v, writes[p] \cup W),
         req[p].op = "withdraw" /\ req[p].job \notin W =>
           ~TakesPart(db, req[p].job, req[p].cand)
  PROVE  Placed'
<1>1. CASE TxnWrite(p, v, W) /\ Goto(p, label)
  <2>1. /\ p \in Proc /\ pc \in [Proc -> Label] /\ req' = req
        /\ open \subseteq Proc /\ pc' = [pc EXCEPT ![p] = label]
    BY <1>1 DEF Active, Goto, FInv, IInv, ControlOK, StoreOK
  <2>2. /\ pc'[p] = label
        /\ \A q \in open \ {p} : pc'[q] = pc[q]
    BY <2>1
  <2>3. EffectsOK'
    BY <1>1, <2>1, <2>2, WriteEffects DEF Placed
  <2>4. FunnelOK'
    BY <1>1, <2>1, WriteFunnel DEF Placed
  <2>5. CallsOK'
    BY <1>1, GotoCalls DEF Placed
  <2> QED
    BY <2>3, <2>4, <2>5 DEF Placed
<1>2. CASE Fail(p)
  BY <1>2, FailMoves
<1> QED
  BY <1>1, <1>2 DEF Update

\* A step of p that leaves the store alone.  A send with an open transaction
\* goes on to another place than its commit.
LEMMA SkipMoves ==
  ASSUME FInv, Placed, NEW p \in Active, NEW label, Goto(p, label),
         UNCHANGED storeVars,
         p \in open => req[p].op = "send" /\ pc[p] # "commit" /\ label # "commit"
  PROVE  Placed'
<1>1. /\ p \in Proc /\ pc \in [Proc -> Label] /\ req' = req
      /\ open \subseteq Proc /\ pc' = [pc EXCEPT ![p] = label]
      /\ db' = db /\ open' = open /\ view' = view /\ writes' = writes
  BY DEF Active, Goto, FInv, IInv, ControlOK, StoreOK, storeVars
<1>2. EffectsOK'
  <2> SUFFICES ASSUME NEW q \in open
               PROVE  Effect(req[q], pc'[q], db, view[q], writes[q])
    BY <1>1 DEF EffectsOK
  <2>1. Effect(req[q], pc[q], db, view[q], writes[q])
    BY DEF Placed, EffectsOK
  <2>2. CASE q = p
    <3>1. SendEffect(req[p], pc[p], db, view[p], writes[p])
      BY <2>1, <2>2 DEF Effect
    <3>2. SendEffect(req[p], pc'[p], db, view[p], writes[p])
      BY <1>1, <2>2, <3>1 DEF SendEffect
    <3> QED
      BY <2>2, <3>2 DEF Effect
  <2>3. CASE q # p
    BY <1>1, <2>1, <2>3
  <2> QED
    BY <2>2, <2>3
<1>3. FunnelOK'
  BY <1>1, FunnelStays DEF Placed
<1>4. CallsOK'
  BY GotoCalls DEF Placed
<1> QED
  BY <1>2, <1>3, <1>4 DEF Placed

-----------------------------------------------------------------------------
(* What the updates do to the lists of the candidate *)

LEMMA PushCandidatePlaces ==
  ASSUME NEW x, Sound(x), NEW j \in Job, NEW c \in Cand, NEW by \in Req, NEW v,
         v = [x EXCEPT ![j] = PushCandidate(@, c, by)]
  PROVE  Waits(v, j, c) /\ TakesPart(v, j, c)
<1> DEFINE doc == PushCandidate(x[j], c, by)
           t == [cand |-> c, by |-> by]
<1>1. x \in [Doc -> JobDoc \cup StepDoc] /\ j \in Doc
  BY DEF Sound, Contents, Doc
<1>2. /\ doc.newCandidates = x[j].newCandidates \cup {NewEntry(c, by)}
      /\ doc.participants = x[j].participants \cup {t}
  BY DEF PushCandidate
<1>3. NewEntry(c, by).cand = c /\ t.cand = c
  BY DEF NewEntry
<1> HIDE DEF doc, t
<1>4. v[j] = doc
  BY <1>1 DEF doc
<1> QED
  BY <1>2, <1>3, <1>4 DEF Waits, TakesPart, Holds

LEMMA PullNewPlaces ==
  ASSUME NEW x, Sound(x), NEW j \in Job, NEW c \in Cand, NEW v,
         v = [x EXCEPT ![j] = PullNew(@, c)]
  PROVE  /\ ~Waits(v, j, c)
         /\ TakesPart(v, j, c) <=> TakesPart(x, j, c)
<1> DEFINE doc == PullNew(x[j], c)
<1>1. /\ x \in [Doc -> JobDoc \cup StepDoc] /\ j \in Doc
      /\ x[j] \in JobDoc
  BY DEF Sound, Contents, Doc
<1>2. /\ doc.newCandidates = Without(x[j].newCandidates, c)
      /\ doc.participants = x[j].participants
  BY <1>1 DEF PullNew, JobDoc
<1> HIDE DEF doc
<1>3. v[j] = doc
  BY <1>1 DEF doc
<1> QED
  BY <1>2, <1>3 DEF Waits, TakesPart, Holds, Without

LEMMA ReproveFromJobPlaces ==
  ASSUME NEW x, Sound(x), NEW j \in Job, NEW c \in Cand, NEW v,
         v = [x EXCEPT ![j].newCandidates = SetStatus(@, c, "REPROVED", NoStep)]
  PROVE  /\ Waits(v, j, c) <=> Waits(x, j, c)
         /\ TakesPart(v, j, c) <=> TakesPart(x, j, c)
<1> DEFINE E == SetStatus(x[j].newCandidates, c, "REPROVED", NoStep)
           doc == [x[j] EXCEPT !.newCandidates = E]
<1>1. /\ x \in [Doc -> JobDoc \cup StepDoc] /\ j \in Doc
      /\ x[j] \in JobDoc
  BY DEF Sound, Contents, Doc
<1>2. Holds(E, c) <=> Holds(x[j].newCandidates, c)
  BY <1>1, SetStatusKeeps DEF JobDoc
<1> HIDE DEF E
<1>3. doc.newCandidates = E /\ doc.participants = x[j].participants
  BY <1>1 DEF JobDoc
<1> HIDE DEF doc
<1>4. v[j] = doc
  BY <1>1 DEF doc, E
<1> QED
  BY <1>2, <1>3, <1>4 DEF Waits, TakesPart

LEMMA AddToPlaces ==
  ASSUME NEW x, Sound(x), NEW s \in Step, NEW c \in Cand, NEW by \in Req, NEW v,
         v = [x EXCEPT ![s].candidates = @ \cup {NewEntry(c, by)}]
  PROVE  InStep(v, s, c) /\ \A d \in Doc \ {s} : v[d] = x[d]
<1> DEFINE E == x[s].candidates \cup {NewEntry(c, by)}
           doc == [x[s] EXCEPT !.candidates = E]
<1>1. x[s] \in StepDoc /\ x \in [Doc -> JobDoc \cup StepDoc] /\ s \in Doc
  BY DEF Sound, Contents, Doc
<1>2. Holds(E, c)
  BY AddKeeps DEF NewEntry
<1> HIDE DEF E
<1>3. doc.candidates = E
  BY <1>1 DEF StepDoc
<1> HIDE DEF doc
<1>4. v[s] = doc /\ \A d \in Doc \ {s} : v[d] = x[d]
  BY <1>1 DEF doc, E
<1> QED
  BY <1>2, <1>3, <1>4 DEF InStep

LEMMA RemovePlaces ==
  ASSUME NEW x, Sound(x), NEW s \in Step, NEW c \in Cand, NEW v,
         v = [x EXCEPT ![s].candidates = Without(@, c)]
  PROVE  ~InStep(v, s, c)
<1> DEFINE E == Without(x[s].candidates, c)
           doc == [x[s] EXCEPT !.candidates = E]
<1>1. x[s] \in StepDoc /\ x \in [Doc -> JobDoc \cup StepDoc] /\ s \in Doc
  BY DEF Sound, Contents, Doc
<1>2. ~Holds(E, c)
  BY DEF Without, Holds
<1> HIDE DEF E
<1>3. doc.candidates = E
  BY <1>1 DEF StepDoc
<1> HIDE DEF doc
<1>4. v[s] = doc
  BY <1>1 DEF doc, E
<1> QED
  BY <1>2, <1>3, <1>4 DEF InStep

\* An approval adds the candidate to the next step and to no other.
LEMMA ApprovedPlaces ==
  ASSUME NEW x, Sound(x), NEW q \in Request, NEW s \in Step, NEW next,
         NEW by \in Req, NEW v,
         v = [d \in Doc |->
                IF d \in Job THEN x[d]
                ELSE [candidates |-> ApprovedEntries(x, s, next, q, by, d)]]
  PROVE  \A d \in Step : InStep(v, d, q.cand) <=> (InStep(x, d, q.cand) \/ d = next)
<1> DEFINE c == q.cand
           E(d) == ApprovedEntries(x, s, next, q, by, d)
<1>1. c \in Cand /\ q.feedback \in BOOLEAN
  BY DEF Request
<1>2. ASSUME NEW d \in Step
      PROVE  Holds(E(d), c) <=> (Holds(x[d].candidates, c) \/ d = next)
  <2> DEFINE pushed == IF d = next /\ ~Holds(x[d].candidates, c)
                       THEN x[d].candidates \cup {NewEntry(c, by)}
                       ELSE x[d].candidates
             marked == SetFeedback(pushed, c, q.feedback)
             status == SetStatus(marked, c, "APPROVED", NoStep)
  <2>1. x[d].candidates \in SUBSET Entry
    BY StepEntries
  <2>2. NewEntry(c, by) \in Entry /\ NewEntry(c, by).cand = c
    BY <1>1, NewEntryType
  <2>3. /\ pushed \in SUBSET Entry
        /\ Holds(pushed, c) <=> (Holds(x[d].candidates, c) \/ d = next)
    BY <2>1, <2>2 DEF Holds
  <2> HIDE DEF pushed
  <2>4. /\ marked \in SUBSET Entry
        /\ Holds(marked, c) <=> Holds(pushed, c)
    BY <1>1, <2>3, SetFeedbackOK, SetFeedbackKeeps
  <2> HIDE DEF marked
  <2>5. Holds(status, c) <=> Holds(marked, c)
    BY <1>1, <2>4, SetStatusKeeps
  <2>6. E(d) = status \/ E(d) = marked
    BY DEF ApprovedEntries, marked, pushed
  <2> HIDE DEF E, status
  <2> QED
    BY <2>3, <2>4, <2>5, <2>6
<1>3. \A d \in Step : v[d].candidates = E(d)
  BY PipelineAssumption DEF Doc
<1> HIDE DEF E
<1> QED
  BY <1>2, <1>3 DEF InStep

\* A reproval takes the candidate out of later steps at most.
LEMMA ReprovedPlaces ==
  ASSUME NEW x, Sound(x), NEW q \in Request, NEW s \in Step, NEW v,
         v = [d \in Doc |->
                IF d \in Job THEN x[d]
                ELSE [candidates |-> ReprovedEntries(x, s, q, d)]]
  PROVE  \A d \in Step : InStep(x, d, q.cand) /\ ~InStep(v, d, q.cand) =>
           s \notin LastStep /\ Order[d] > Order[s]
<1> DEFINE c == q.cand
           E(d) == ReprovedEntries(x, s, q, d)
<1>1. c \in Cand /\ q.feedback \in BOOLEAN
  BY DEF Request
<1>2. ASSUME NEW d \in Step, ~(s \notin LastStep /\ Order[d] > Order[s])
      PROVE  Holds(E(d), c) <=> Holds(x[d].candidates, c)
  <2> DEFINE kept == x[d].candidates
             marked == SetFeedback(kept, c, q.feedback)
             status == SetStatus(marked, c, "REPROVED", s)
  <2>1. kept \in SUBSET Entry
    BY StepEntries
  <2>2. E(d) = status \/ E(d) = marked
    BY <1>2 DEF ReprovedEntries
  <2> HIDE DEF kept
  <2>3. /\ marked \in SUBSET Entry
        /\ Holds(marked, c) <=> Holds(kept, c)
    BY <1>1, <2>1, SetFeedbackOK, SetFeedbackKeeps
  <2> HIDE DEF marked
  <2>4. Holds(status, c) <=> Holds(marked, c)
    BY <1>1, <2>3, SetStatusKeeps
  <2> HIDE DEF E, status
  <2> QED
    BY <2>2, <2>3, <2>4 DEF kept
<1>3. \A d \in Step : v[d].candidates = E(d)
  BY PipelineAssumption DEF Doc
<1> HIDE DEF E
<1> QED
  BY <1>2, <1>3 DEF InStep

\* A withdrawal clears the lists that it finds the candidate in.
LEMMA WithdrawnPlaces ==
  ASSUME NEW x, Sound(x), NEW j \in Job, NEW c \in Cand, NEW v, NEW W,
         v = [d \in Doc |-> WithdrawnDoc(x[d], j, d, c)],
         W = {d \in Doc : v[d] # x[d]}
  PROVE  /\ W \subseteq {j} \cup StepsOf(j)
         /\ \A d \in W \ {j} : ~InStep(v, d, c)
         /\ ~Waits(v, j, c) /\ ~TakesPart(v, j, c)
         /\ j \notin W => ~TakesPart(x, j, c)
<1>1. j \in Doc
  BY DEF Doc
<1>2. W \subseteq {j} \cup StepsOf(j)
  BY DEF WithdrawnDoc
<1>3. ASSUME NEW d \in W \ {j} PROVE ~InStep(v, d, c)
  <2>1. d \in StepsOf(j) /\ d \in Doc
    BY <1>2, <1>3
  <2>2. v[d].candidates = Without(x[d].candidates, c)
    BY <1>3, <2>1 DEF WithdrawnDoc
  <2> QED
    BY <2>2 DEF InStep, Holds, Without
<1>4. ~Waits(v, j, c) /\ ~TakesPart(v, j, c)
  <2>1. /\ v[j].newCandidates = Without(x[j].newCandidates, c)
        /\ v[j].participants = Without(x[j].participants, c)
    BY <1>1 DEF WithdrawnDoc
  <2> QED
    BY <2>1 DEF Waits, TakesPart, Holds, Without
<1>5. j \notin W => ~TakesPart(x, j, c)
  BY <1>1, <1>4 DEF TakesPart
<1> QED
  BY <1>2, <1>3, <1>4, <1>5

-----------------------------------------------------------------------------
(* The actions *)

\* Before its first update a call chain has no transaction.
LEMMA NothingOpen ==
  ASSUME FInv, NEW p \in Proc, pc[p] \notin OpenPlaces
  PROVE  p \notin open /\ Seen(p) = db /\ writes[p] = {}
BY DEF FInv, ChainsOK, Seen, IInv, StoreOK

LEMMA ArriveMoves ==
  ASSUME FInv, Placed, NEW r \in Req, Arrive(r)
  PROVE  Placed'
<1> DEFINE p == <<r, "http">>
<1>1. p \in Proc /\ pc[p] = "idle"
  BY DEF Proc, Arrive
<1>2. PICK q \in Calls : ValidCall(q) /\ req' = [req EXCEPT ![p] = q]
  BY DEF Arrive
<1>3. /\ pc \in [Proc -> Label] /\ req \in [Proc -> Request \cup {NoRequest}]
      /\ open \subseteq Proc /\ writes \in [Proc -> SUBSET Doc]
      /\ pc' = [pc EXCEPT ![p] = "read"]
      /\ db' = db /\ open' = open /\ view' = view /\ writes' = writes
  BY DEF Arrive, FInv, IInv, ControlOK, StoreOK, storeVars
<1> HIDE DEF p
<1>4. p \notin open
  BY <1>1, NothingOpen DEF OpenPlaces
<1>5. /\ pc'[p] = "read" /\ req'[p] = q
      /\ \A u \in Proc \ {p} : pc'[u] = pc[u] /\ req'[u] = req[u]
  BY <1>1, <1>2, <1>3
<1>6. EffectsOK'
  BY <1>3, <1>4, <1>5 DEF Placed, EffectsOK
<1>7. FunnelOK'
  BY <1>3, <1>4, <1>5, FunnelStays DEF Placed
<1>8. CallsOK'
  <2>1. q.op \in StepOps => JobOf[q.step] = q.job
    BY <1>2 DEF Calls, ValidCall
  <2>2. q.op \in Ops
    BY <1>2 DEF Calls
  <2> QED
    BY <1>5, <2>1, <2>2 DEF Placed, CallsOK, Active
<1> QED
  BY <1>6, <1>7, <1>8 DEF Placed

LEMMA ApplyPushMoves ==
  ASSUME FInv, Placed, NEW p \in Proc, ApplyPush(p)
  PROVE  Placed'
<1> DEFINE j == req[p].job
           c == req[p].cand
           bg == <<p[1], "send">>
           w == [req[p] EXCEPT !.op = "send"]
           v == [Seen(p) EXCEPT ![j] = PushCandidate(@, c, p[1])]
<1>1. p \in Active /\ pc[p] = "push" /\ req[p].op = "apply"
  BY DEF ApplyPush, At, Active
<1>2. j \in Job /\ c \in Cand /\ p[1] \in Req /\ req[p] \in Request
  BY <1>1, RequestFields DEF FInv
<1>3. p[2] = "http" /\ pc[bg] = "idle"
  BY <1>1 DEF FInv, ChainsOK
<1>4. bg \in Proc /\ bg # p
  BY <1>2, <1>3 DEF Proc
<1>5. bg \notin open /\ p \notin open /\ Seen(p) = db /\ writes[p] = {}
  BY <1>1, <1>3, <1>4, NothingOpen DEF OpenPlaces
<1>6. CASE Fail(p)
  BY <1>1, <1>6, FailMoves
<1>7. CASE /\ TxnWrite(p, v, {j})
           /\ pc' = [pc EXCEPT ![p] = "commit", ![bg] = "read"]
           /\ req' = [req EXCEPT ![bg] = w]
  <2>1. Waits(v, j, c) /\ TakesPart(v, j, c)
    BY <1>2, SeenSound, PushCandidatePlaces DEF FInv, IInv
  <2>2. w.op = "send"
    BY <1>2 DEF Request
  <2> HIDE DEF v, w, bg
  <2>3. /\ pc'[p] = "commit" /\ pc'[bg] = "read" /\ req'[bg] = w
        /\ \A u \in Proc \ {p, bg} : pc'[u] = pc[u]
        /\ \A u \in Proc \ {bg} : req'[u] = req[u]
    BY <1>4, <1>7 DEF FInv, IInv, ControlOK
  <2>4. open \subseteq Proc /\ {j} \in SUBSET Doc
    BY <1>2 DEF FInv, IInv, StoreOK, Doc
  <2>5. /\ \A u \in open \cup {p} : req'[u] = req[u]
        /\ \A u \in open \ {p} : pc'[u] = pc[u]
    BY <1>4, <1>5, <2>3, <2>4
  <2>6. Effect(req[p], pc'[p], db, v, writes[p] \cup {j})
    BY <1>1, <1>5, <2>1 DEF Effect, ApplyEffect
  <2>7. EffectsOK'
    BY <1>7, <2>4, <2>5, <2>6, WriteEffects DEF Placed
  <2>8. FunnelOK'
    BY <1>1, <1>7, <2>4, <2>5, WriteFunnel DEF Placed
  <2>9. CallsOK'
    <3> SUFFICES ASSUME NEW u \in Active'
                 PROVE  /\ req'[u].op \in StepOps => JobOf[req'[u].step] = req'[u].job
                        /\ req'[u].op \in Ops \cup {"send"}
      BY DEF CallsOK
    <3>1. CASE u = bg
      BY <2>2, <2>3, <3>1 DEF StepOps
    <3>2. CASE u # bg
      BY <1>1, <2>3, <3>2 DEF Active, Placed, CallsOK
    <3> QED
      BY <3>1, <3>2
  <2> QED
    BY <2>7, <2>8, <2>9 DEF Placed
<1> QED
  BY <1>6, <1>7 DEF ApplyPush

\* The reads outside the session that come before any write.
LEMMA ChecksMove ==
  ASSUME FInv, Placed, NEW p \in Proc,
         ApplyCheck(p) \/ SendCheck(p) \/ WithdrawCheck(p)
  PROVE  Placed'
<1>1. p \in Active /\ pc[p] = "read"
  BY DEF ApplyCheck, SendCheck, WithdrawCheck, At, Active
<1>2. p \notin open
  BY <1>1, NothingOpen DEF OpenPlaces
<1>3. CASE Fail(p)
  BY <1>1, <1>3, FailMoves
<1>4. ASSUME NEW label, Goto(p, label), UNCHANGED <<storeVars, psTests>>
      PROVE  Placed'
  BY <1>1, <1>2, <1>4, SkipMoves
<1> QED
  BY <1>3, <1>4 DEF ApplyCheck, SendCheck, WithdrawCheck

\* addCandidate as the operation of an employer: no other write came before.
LEMMA AddMoves ==
  ASSUME FInv, Placed, NEW p \in Proc, AddCandidate(p)
  PROVE  Placed'
<1> DEFINE s == req[p].step
           c == req[p].cand
           v == [Seen(p) EXCEPT ![s].candidates = @ \cup {NewEntry(c, p[1])}]
<1>1. p \in Active /\ pc[p] = "read" /\ req[p].op = "add"
  BY DEF AddCandidate, At, Active
<1>2. s \in Step /\ c \in Cand /\ p[1] \in Req
  BY <1>1, RequestFields DEF FInv, StepOps
<1>3. Seen(p) = db /\ writes[p] = {} /\ {s} \in SUBSET Doc
  BY <1>1, <1>2, NothingOpen DEF OpenPlaces, Doc
<1>4. CASE Fail(p)
  BY <1>1, <1>4, FailMoves
<1>5. CASE ~Holds(Seen(p)[s].candidates, c) /\ Update(p, v, {s}, "commit")
  <2>1. InStep(v, s, c)
    BY <1>2, SeenSound, AddToPlaces DEF FInv, IInv
  <2> HIDE DEF v
  <2>2. Effect(req[p], "commit", db, v, writes[p] \cup {s})
    BY <1>1, <1>3, <1>5, <2>1 DEF Effect, AddEffect, InStep
  <2> QED
    BY <1>1, <1>3, <1>5, <2>2, UpdateMoves
<1> QED
  BY <1>4, <1>5 DEF AddCandidate, AddTo

LEMMA SendAddMoves ==
  ASSUME FInv, Placed, NEW p \in Proc, SendAdd(p)
  PROVE  Placed'
<1> DEFINE j == req[p].job
           c == req[p].cand
           x == Seen(p)
<1>1. p \in Active /\ pc[p] = "add" /\ req[p].op = "send"
  BY DEF SendAdd, At, Active
<1>2. j \in Job /\ c \in Cand /\ p[1] \in Req
  BY <1>1, RequestFields DEF FInv
<1>3. CASE Fail(p)
  BY <1>1, <1>3, FailMoves
<1>4. ASSUME NEW f \in FirstSteps(j), ~Holds(x[f].candidates, c),
             Update(p, [x EXCEPT ![f].candidates = @ \cup {NewEntry(c, p[1])}],
                    {f}, "commit")
      PROVE  Placed'
  <2> DEFINE v == [x EXCEPT ![f].candidates = @ \cup {NewEntry(c, p[1])}]
  <2>1. f \in Step /\ f \in Doc /\ f # j /\ j \in Doc
    BY <1>2, PipelineAssumption DEF FirstSteps, StepsOf, Doc
  <2>2. InStep(v, f, c) /\ v[j] = x[j]
    BY <1>2, <2>1, SeenSound, AddToPlaces DEF FInv, IInv
  <2>3. /\ writes[p] \subseteq {j}
        /\ j \in writes[p] => /\ ~Waits(x, j, c)
                              /\ TakesPart(x, j, c) <=> TakesPart(db, j, c)
    <3>1. CASE p \in open
      <4>1. SendEffect(req[p], pc[p], db, view[p], writes[p])
        BY <1>1, <3>1 DEF Placed, EffectsOK, Effect
      <4> QED
        BY <1>1, <3>1, <4>1 DEF SendEffect, Seen
    <3>2. CASE p \notin open
      BY <3>2 DEF FInv, IInv, StoreOK
    <3> QED
      BY <3>1, <3>2
  <2>4. ASSUME {f} \cap Conflicting(p) = {}
        PROVE  x[f] = db[f]
    <3>1. f \notin stale[p] /\ f \notin writes[p]
      BY <2>1, <2>3, <2>4 DEF Conflicting
    <3> QED
      BY <2>1, <3>1 DEF Seen, FInv, Isolated, PendingWritesFresh
  <2> HIDE DEF v
  <2>5. ASSUME TxnWrite(p, v, {f})
        PROVE  Effect(req[p], "commit", db, v, writes[p] \cup {f})
    <3>1. x[f] = db[f]
      BY <2>4, <2>5 DEF TxnWrite
    <3>2. j \in writes[p] \cup {f} =>
            /\ ~Waits(v, j, c)
            /\ TakesPart(v, j, c) <=> TakesPart(db, j, c)
      BY <2>1, <2>2, <2>3 DEF Waits, TakesPart
    <3>3. /\ f \in writes[p] \cup {f} /\ writes[p] \cup {f} \subseteq {j, f}
          /\ ~InStep(db, f, c) /\ InStep(v, f, c)
      BY <1>4, <2>2, <2>3, <3>1 DEF InStep
    <3>4. SendEffect(req[p], "commit", db, v, writes[p] \cup {f})
      BY <3>2, <3>3 DEF SendEffect
    <3> QED
      BY <1>1, <3>4 DEF Effect
  <2>6. Update(p, v, {f}, "commit") /\ {f} \in SUBSET Doc
    BY <1>4, <2>1 DEF v
  <2> QED
    BY <1>1, <2>5, <2>6, UpdateMoves
<1> QED
  BY <1>3, <1>4 DEF SendAdd, AddTo

LEMMA SendMoves ==
  ASSUME FInv, Placed, NEW p \in Proc,
         SendPull(p) \/ SendTest(p) \/ SendCreate(p)
  PROVE  Placed'
<1> DEFINE j == req[p].job
           c == req[p].cand
<1>1. p \in Active /\ req[p].op = "send"
  BY DEF SendPull, SendTest, SendCreate, At, Active
<1>2. j \in Job /\ c \in Cand
  BY <1>1, RequestFields DEF FInv
<1>3. CASE SendPull(p)
  <2> DEFINE v == [Seen(p) EXCEPT ![j] = PullNew(@, c)]
             W == IF Holds(Seen(p)[j].newCandidates, c) THEN {j} ELSE {}
             label == IF j \in PsJob THEN "test" ELSE "add"
  <2>1. Seen(p) = db /\ writes[p] = {}
    BY <1>3, NothingOpen DEF SendPull, At, OpenPlaces
  <2>2. ~Waits(v, j, c) /\ (TakesPart(v, j, c) <=> TakesPart(db, j, c))
    BY <1>2, <2>1, SeenSound, PullNewPlaces DEF FInv, IInv
  <2>3. W \in SUBSET Doc /\ W \subseteq {j} /\ label # "commit"
    BY <1>2 DEF Doc
  <2>4. Update(p, v, W, label)
    BY <1>3 DEF SendPull
  <2> HIDE DEF v, W, label
  <2>5. Effect(req[p], label, db, v, writes[p] \cup W)
    BY <1>1, <2>1, <2>2, <2>3 DEF Effect, SendEffect
  <2> QED
    BY <1>1, <2>3, <2>4, <2>5, UpdateMoves
<1>4. ASSUME NEW label \in {"add", "create"}, Goto(p, label), UNCHANGED storeVars,
             pc[p] # "commit"
      PROVE  Placed'
  BY <1>1, <1>4, SkipMoves
<1>5. CASE SendTest(p)
  BY <1>4, <1>5 DEF SendTest, At
<1>6. CASE SendCreate(p)
  BY <1>4, <1>6 DEF SendCreate, At
<1> QED
  BY <1>3, <1>5, <1>6

LEMMA StepOperationsMove ==
  ASSUME FInv, Placed, NEW p \in Proc,
         RemoveCandidate(p) \/ ApproveCandidate(p) \/ ReproveCandidate(p)
  PROVE  Placed'
<1> DEFINE q == req[p]
           s == req[p].step
           c == req[p].cand
           x == Seen(p)
<1>1. p \in Active /\ pc[p] = "read"
  BY DEF RemoveCandidate, ApproveCandidate, ReproveCandidate, At, Active
<1>2. q \in Request /\ s \in Step /\ c \in Cand /\ p[1] \in Req
  BY <1>1, RequestFields
     DEF RemoveCandidate, ApproveCandidate, ReproveCandidate, At, StepOps, FInv
<1>3. Sound(x) /\ x = db /\ writes[p] = {}
  BY <1>1, SeenSound, NothingOpen DEF FInv, IInv, OpenPlaces
<1>4. CASE RemoveCandidate(p)
  <2> DEFINE v == [x EXCEPT ![s].candidates = Without(@, c)]
             W == IF Holds(x[s].candidates, c) THEN {s} ELSE {}
  <2>1. ~InStep(v, s, c)
    BY <1>2, <1>3, RemovePlaces
  <2>2. Update(p, v, W, "commit") /\ W \in SUBSET Doc /\ q.op = "remove"
    BY <1>2, <1>4 DEF RemoveCandidate, Doc, At
  <2>3. RemoveEffect(q, db, v, W)
    BY <1>3, <2>1 DEF RemoveEffect, InStep
  <2> HIDE DEF v, W
  <2> QED
    BY <1>1, <1>3, <2>2, <2>3, UpdateMoves DEF Effect
<1>5. CASE ApproveCandidate(p)
  <2> DEFINE After(next) == [d \in Doc |->
        IF d \in Job THEN x[d]
        ELSE [candidates |-> ApprovedEntries(x, s, next, q, p[1], d)]]
  <2>1. CASE Fail(p)
    BY <1>1, <2>1, FailMoves
  <2>2. ASSUME NEW next \in IF s \in LastStep THEN {NoStep} ELSE NextSteps(q.job, s),
               Update(p, After(next), StepsHolding(After(next), c), "commit")
        PROVE  Placed'
    <3> DEFINE W == StepsHolding(After(next), c)
    <3>1. \A d \in Step : InStep(After(next), d, c) <=> (InStep(x, d, c) \/ d = next)
      BY <1>2, <1>3, ApprovedPlaces
    <3> HIDE DEF After
    <3>2. W \subseteq Step /\ \A d \in Step : d \in W <=> InStep(After(next), d, c)
      BY DEF StepsHolding, InStep
    <3>3. s \in LastStep => next \notin Step
      BY PipelineAssumption
    <3>4. s \notin LastStep => next \in NextSteps(q.job, s) /\ next \in Step
      BY DEF NextSteps, StepsOf
    <3> HIDE DEF W
    <3>5. ApproveEffect(q, db, After(next), W)
      BY <1>3, <3>1, <3>2, <3>3, <3>4 DEF ApproveEffect
    <3>6. W \in SUBSET Doc /\ q.op = "approve"
      BY <1>5, <3>2 DEF Doc, ApproveCandidate, At
    <3>7. Update(p, After(next), W, "commit")
      BY <2>2 DEF W
    <3> QED
      BY <1>1, <1>3, <3>5, <3>6, <3>7, UpdateMoves DEF Effect
  <2> QED
    BY <1>5, <2>1, <2>2 DEF ApproveCandidate
<1>6. CASE ReproveCandidate(p)
  <2> DEFINE v == [d \in Doc |->
        IF d \in Job THEN x[d]
        ELSE [candidates |-> ReprovedEntries(x, q.step, q, d)]]
             W == StepsHolding(x, c)
  <2>1. \A d \in Step : InStep(x, d, c) /\ ~InStep(v, d, c) =>
          s \notin LastStep /\ Order[d] > Order[s]
    BY <1>2, <1>3, ReprovedPlaces
  <2>2. W \subseteq Step /\ \A d \in W : InStep(x, d, c)
    BY DEF StepsHolding, InStep
  <2>3. Update(p, v, W, "commit") /\ q.op = "reprove" /\ W \in SUBSET Doc
    BY <1>6, <2>2 DEF ReproveCandidate, At, Doc
  <2> HIDE DEF v, W
  <2>4. ReproveEffect(q, db, v, W)
    BY <1>3, <2>1, <2>2 DEF ReproveEffect
  <2> QED
    BY <1>1, <1>3, <2>3, <2>4, UpdateMoves DEF Effect
<1> QED
  BY <1>4, <1>5, <1>6

LEMMA JobOperationsMove ==
  ASSUME FInv, Placed, NEW p \in Proc,
         ReproveFromJob(p) \/ Withdraw(p)
  PROVE  Placed'
<1> DEFINE j == req[p].job
           c == req[p].cand
           x == Seen(p)
<1>1. p \in Active /\ pc[p] \in {"read", "write"}
  BY DEF ReproveFromJob, Withdraw, At, Active
<1>2. j \in Job /\ c \in Cand
  BY <1>1, RequestFields DEF FInv
<1>3. Sound(x) /\ x = db /\ writes[p] = {}
  BY <1>1, SeenSound, NothingOpen DEF FInv, IInv, OpenPlaces
<1>4. CASE ReproveFromJob(p)
  <2> DEFINE v == [x EXCEPT ![j].newCandidates = SetStatus(@, c, "REPROVED", NoStep)]
             W == IF Holds(x[j].newCandidates, c) THEN {j} ELSE {}
  <2>1. /\ Waits(v, j, c) <=> Waits(x, j, c)
        /\ TakesPart(v, j, c) <=> TakesPart(x, j, c)
    BY <1>2, <1>3, ReproveFromJobPlaces
  <2>2. Update(p, v, W, "commit") /\ W \in SUBSET Doc /\ req[p].op = "reproveFromJob"
    BY <1>2, <1>4 DEF ReproveFromJob, Doc, At
  <2> HIDE DEF v
  <2>3. ReproveFromJobEffect(req[p], db, v, W)
    BY <1>3, <2>1 DEF ReproveFromJobEffect, Waits
  <2> HIDE DEF W
  <2> QED
    BY <1>1, <1>3, <2>2, <2>3, UpdateMoves DEF Effect
<1>5. CASE Withdraw(p)
  <2> DEFINE v == [d \in Doc |-> WithdrawnDoc(x[d], j, d, c)]
             W == {d \in Doc : v[d] # x[d]}
  <2>1. /\ W \subseteq {j} \cup StepsOf(j)
        /\ \A d \in W \ {j} : ~InStep(v, d, c)
        /\ ~Waits(v, j, c) /\ ~TakesPart(v, j, c)
        /\ j \notin W => ~TakesPart(x, j, c)
    BY <1>2, <1>3, WithdrawnPlaces
  <2>2. Update(p, v, W, "commit") /\ W \in SUBSET Doc /\ req[p].op = "withdraw"
    BY <1>5 DEF Withdraw, At
  <2> HIDE DEF v, W
  <2>3. WithdrawEffect(req[p], v, W)
    BY <2>1 DEF WithdrawEffect
  <2> QED
    BY <1>1, <1>3, <2>1, <2>2, <2>3, UpdateMoves DEF Effect
<1> QED
  BY <1>4, <1>5

\* Closing and opening a job changes none of its lists.
LEMMA CloseOpenMove ==
  ASSUME FInv, Placed, NEW p \in Proc, CloseJob(p) \/ OpenJob(p)
  PROVE  /\ Placed'
         /\ \A j \in Job : /\ db'[j].newCandidates = db[j].newCandidates
                           /\ db'[j].participants = db[j].participants
         /\ \A s \in Step : db'[s] = db[s]
<1> DEFINE j == req[p].job
<1>1. p \in Active /\ pc[p] = "read" /\ End({p})
  BY DEF CloseJob, OpenJob, At, Active
<1>2. j \in Job /\ j \in Doc
  BY <1>1, RequestFields DEF FInv, Doc
<1>3. PICK b \in BOOLEAN : PlainWrite(j, [db[j] EXCEPT !.closed = b])
  BY DEF CloseJob, OpenJob
<1>4. /\ db \in [Doc -> JobDoc \cup StepDoc] /\ db[j] \in JobDoc
      /\ open \subseteq Proc /\ writes \in [Proc -> SUBSET Doc]
  BY <1>2 DEF FInv, IInv, StoreOK, Sound, Contents
<1> DEFINE doc == [db[j] EXCEPT !.closed = b]
<1>5. /\ doc.newCandidates = db[j].newCandidates
      /\ doc.participants = db[j].participants
  BY <1>4 DEF JobDoc
<1>6. PlainWrite(j, doc)
  BY <1>3
<1> HIDE DEF doc, j
<1>7. db'[j] = doc /\ \A d \in Doc \ {j} : db'[d] = db[d]
  BY <1>2, <1>4, <1>6 DEF PlainWrite
<1>8. p \notin open
  BY <1>1, NothingOpen DEF OpenPlaces
<1>9. /\ EndTxns({}, {j})
      /\ \A q \in open : writes[q] \cap {j} = {}
      /\ open' = open
      /\ \A q \in open : writes'[q] = writes[q]
  BY <1>4, <1>6 DEF PlainWrite, EndTxns
<1>10. \A q \in open : req'[q] = req[q] /\ pc'[q] = pc[q]
  BY <1>1, <1>4, <1>8 DEF End
<1>11. \A k \in Job : /\ db'[k].newCandidates = db[k].newCandidates
                      /\ db'[k].participants = db[k].participants
  BY <1>5, <1>7 DEF Doc
<1>12. \A s \in Step : db'[s] = db[s]
  BY <1>2, <1>7, PipelineAssumption DEF Doc
<1>13. EffectsOK'
  BY <1>7, <1>9, <1>10, EndEffects DEF Placed
<1>14. FunnelOK'
  <2>1. \A q \in open' : q \in open /\ req'[q] = req[q] /\ writes'[q] = writes[q]
    BY <1>9, <1>10
  <2>2. /\ \A k \in Job, c \in Cand : /\ Waits(db', k, c) <=> Waits(db, k, c)
                                      /\ TakesPart(db', k, c) <=> TakesPart(db, k, c)
        /\ \A s \in Step, c \in Cand : InStep(db', s, c) <=> InStep(db, s, c)
    BY <1>11, <1>12 DEF Waits, TakesPart, InStep
  <2> QED
    BY <2>1, <2>2, FunnelStays DEF Placed
<1>15. CallsOK'
  BY <1>1, EndCalls DEF Placed
<1> QED
  BY <1>11, <1>12, <1>13, <1>14, <1>15 DEF Placed

LEMMA ExitMoves ==
  ASSUME FInv, Placed, ProcessExit
  PROVE  Placed'
<1>1. Active \in SUBSET Proc
  BY DEF Active
<1>2. End(Active) /\ EndTxns(Active, {}) /\ db' = db
  BY DEF ProcessExit, TxnAbort
<1>3. /\ open' = open \ Active /\ open \subseteq Proc
      /\ \A q \in open \ Active : writes'[q] = writes[q]
      /\ \A q \in open \ Active : req'[q] = req[q] /\ pc'[q] = pc[q]
  BY <1>2 DEF EndTxns, End, FInv, IInv, StoreOK
<1>4. EffectsOK'
  BY <1>1, <1>2, <1>3, EndEffects DEF Placed
<1>5. FunnelOK'
  BY <1>2, <1>3, FunnelStays DEF Placed
<1>6. CallsOK'
  BY <1>1, <1>2, EndCalls DEF Placed
<1> QED
  BY <1>4, <1>5, <1>6 DEF Placed

-----------------------------------------------------------------------------
(* The commits *)

\* Entries and participants are told apart by their fields, so that what
\* SameOthers says of both lists of a job it says of each.
LEMMA OthersInJob ==
  ASSUME NEW j \in Job, NEW new \in JobDoc, NEW old \in JobDoc, NEW y \in Cand,
         EntriesOf(j, new, y) = EntriesOf(j, old, y)
  PROVE  /\ Holds(new.newCandidates, y) <=> Holds(old.newCandidates, y)
         /\ Holds(new.participants, y) <=> Holds(old.participants, y)
<1>1. /\ new.newCandidates \subseteq Entry /\ old.newCandidates \subseteq Entry
      /\ new.participants \subseteq Participant /\ old.participants \subseteq Participant
  BY DEF JobDoc
<1>2. \A e \in Entry : DOMAIN e = {"cand", "by", "status", "reprovedStep", "feedback"}
  BY DEF Entry
<1>3. \A t \in Participant : DOMAIN t = {"cand", "by"}
  BY DEF Participant
<1>4. Entry \cap Participant = {}
  BY <1>2, <1>3
<1>5. \A e : /\ e \in new.newCandidates \cup new.participants
             /\ e.cand = y
             <=> /\ e \in old.newCandidates \cup old.participants
                 /\ e.cand = y
  BY DEF EntriesOf
<1> QED
  BY <1>1, <1>4, <1>5 DEF Holds

\* The lists of the other candidates.
LEMMA OthersStay ==
  ASSUME FInv, NEW p \in Proc, Commit(p), NEW c \in Cand \ {req[p].cand}
  PROVE  /\ \A j \in Job : /\ Waits(db', j, c) <=> Waits(db, j, c)
                           /\ TakesPart(db', j, c) <=> TakesPart(db, j, c)
         /\ \A s \in Step : InStep(db', s, c) <=> InStep(db, s, c)
<1>1. db \in Contents /\ \A q \in open : view[q] \in Contents
  BY DEF FInv, IInv, StoreOK, Sound
<1>2. \A d \in writes[p] : p \in open
  BY DEF FInv, IInv, StoreOK
<1>3. /\ \A j \in Job : db[j] \in JobDoc /\ db'[j] \in JobDoc
      /\ \A s \in Step : db[s] \in StepDoc /\ db'[s] \in StepDoc
  BY <1>1, <1>2 DEF Commit, TxnCommit, Contents, Doc
<1>4. \A d \in Doc : EntriesOf(d, db'[d], c) = EntriesOf(d, db[d], c)
  BY CommitOnlyItsOwn
<1>5. ASSUME NEW j \in Job
      PROVE  /\ Waits(db', j, c) <=> Waits(db, j, c)
             /\ TakesPart(db', j, c) <=> TakesPart(db, j, c)
  BY <1>3, <1>4, <1>5, OthersInJob DEF Waits, TakesPart, Doc
<1>6. ASSUME NEW s \in Step
      PROVE  InStep(db', s, c) <=> InStep(db, s, c)
  <2>1. s \notin Job /\ s \in Doc
    BY PipelineAssumption DEF Doc
  <2>2. {e \in db'[s].candidates : e.cand = c} = {e \in db[s].candidates : e.cand = c}
    BY <1>4, <2>1 DEF EntriesOf
  <2> QED
    BY <2>2 DEF InStep, Holds
<1> QED
  BY <1>5, <1>6

\* What is published, by the effect of the operation.
LEMMA Published ==
  ASSUME FInv, Placed, NEW p \in Proc, Commit(p), db' # db
  PROVE  /\ p \in open /\ p \in Active
         /\ Effect(req[p], "commit", db, view[p], writes[p])
         /\ \A d \in writes[p] : db'[d] = view[p][d]
         /\ \A d \in Doc \ writes[p] : db'[d] = db[d]
         /\ writes[p] \subseteq Doc
<1>1. db' = [d \in Doc |-> IF d \in writes[p] THEN view[p][d] ELSE db[d]]
  BY DEF Commit, TxnCommit
<1>2. /\ writes[p] \subseteq Doc
      /\ db = [d \in Doc |-> db[d]]
      /\ p \notin open => writes[p] = {}
  BY DEF FInv, IInv, StoreOK, Sound, Contents
<1>3. p \in open
  BY <1>1, <1>2
<1>4. Effect(req[p], "commit", db, view[p], writes[p])
  BY <1>3 DEF Placed, EffectsOK, Commit
<1>5. p \in Active
  BY DEF Commit, Active
<1> QED
  BY <1>1, <1>2, <1>3, <1>4, <1>5

\* What a commit does to the funnel of job j for its candidate.  Only a
\* withdrawal from j and a removal from a step of j take anything away.
LEMMA CommitFunnel ==
  ASSUME FInv, Placed, NEW p \in Proc, Commit(p), db' # db,
         NEW j \in Job, NEW c \in Cand, c = req[p].cand,
         ~(req[p].op \in {"withdraw", "remove"} /\ req[p].job = j)
  PROVE  /\ TakesPart(db', j, c) => TakesPart(db, j, c) \/ Waits(db', j, c)
         /\ Waits(db, j, c) =>
              Waits(db', j, c) \/ \E f \in FirstSteps(j) : f \in writes[p] /\ InStep(db', f, c)
         /\ \A f \in FirstSteps(j) : InStep(db, f, c) => InStep(db', f, c)
<1> DEFINE r == req[p]
           v == view[p]
           W == writes[p]
<1>1. /\ Effect(r, "commit", db, v, W) /\ p \in Active
      /\ \A d \in W : db'[d] = v[d]
      /\ \A d \in Doc \ W : db'[d] = db[d]
      /\ W \subseteq Doc
  BY Published
<1>2. r.job \in Job /\ (r.op \in StepOps => r.step \in Step)
  BY <1>1, RequestFields DEF FInv, StepOps
<1>3. j \in Doc /\ j \notin Step /\ \A f \in FirstSteps(j) : /\ f \in Step /\ f \in Doc
                                             /\ f \notin Job /\ JobOf[f] = j
                                             /\ Order[f] = 1
  BY PipelineAssumption DEF FirstSteps, StepsOf, Doc
<1>4. ASSUME j \notin W
      PROVE  /\ Waits(db', j, c) <=> Waits(db, j, c)
             /\ TakesPart(db', j, c) <=> TakesPart(db, j, c)
  BY <1>1, <1>3, <1>4 DEF Waits, TakesPart
<1>5. \A f \in FirstSteps(j) : f \notin W => (InStep(db', f, c) <=> InStep(db, f, c))
  BY <1>1, <1>3 DEF InStep
<1>6. \A f \in FirstSteps(j) : f \in W => (InStep(db', f, c) <=> InStep(v, f, c))
  BY <1>1, <1>3 DEF InStep
<1>7. j \in W => /\ Waits(db', j, c) <=> Waits(v, j, c)
                 /\ TakesPart(db', j, c) <=> TakesPart(v, j, c)
  BY <1>1, <1>3 DEF Waits, TakesPart
<1>8. r.job \in Job /\ r.job \notin Step
  BY <1>2, PipelineAssumption
<1> HIDE DEF v, W
<1>9. CASE r.op = "apply" /\ ApplyEffect(r, v, W)
  BY <1>3, <1>4, <1>5, <1>7, <1>8, <1>9 DEF ApplyEffect
<1>10. CASE r.op = "send" /\ SendEffect(r, "commit", db, v, W)
  <2>1. PICK f \in FirstSteps(r.job) :
           f \in W /\ W \subseteq {r.job, f} /\ InStep(v, f, c)
    BY <1>10 DEF SendEffect
  <2>2. f \in Step /\ f # j /\ JobOf[f] = r.job
    BY <1>3, <2>1 DEF FirstSteps, StepsOf
  <2>3. \A g \in FirstSteps(j) : InStep(db, g, c) => InStep(db', g, c)
    BY <1>3, <1>5, <1>6, <1>8, <2>1
  <2>4. CASE j = r.job
    <3>1. InStep(db', f, c)
      BY <1>6, <2>1, <2>4
    <3>2. TakesPart(db', j, c) => TakesPart(db, j, c)
      BY <1>4, <1>7, <1>10, <2>4 DEF SendEffect
    <3> QED
      BY <2>1, <2>3, <2>4, <3>1, <3>2 DEF W
  <2>5. CASE j # r.job
    BY <1>4, <2>1, <2>2, <2>3, <2>5
  <2> QED
    BY <2>4, <2>5
<1>11. CASE r.op = "add" /\ AddEffect(r, db, v, W)
  BY <1>2, <1>3, <1>4, <1>5, <1>6, <1>11 DEF AddEffect, StepOps
<1>12. CASE r.op = "approve" /\ ApproveEffect(r, db, v, W)
  BY <1>3, <1>4, <1>5, <1>6, <1>12 DEF ApproveEffect
<1>13. CASE r.op = "reprove" /\ ReproveEffect(r, db, v, W)
  <2>1. Order[r.step] \in Nat \ {0}
    BY <1>2, <1>13, PipelineAssumption DEF StepOps
  <2>2. j \notin W
    BY <1>3, <1>13 DEF ReproveEffect
  <2>3. \A f \in FirstSteps(j) : f \in W => InStep(v, f, c)
    BY <1>3, <1>13, <2>1 DEF ReproveEffect
  <2> QED
    BY <1>4, <1>5, <1>6, <2>2, <2>3
<1>14. CASE r.op = "reproveFromJob" /\ ReproveFromJobEffect(r, db, v, W)
  BY <1>3, <1>4, <1>5, <1>7, <1>8, <1>14 DEF ReproveFromJobEffect
<1>15. CASE r.op = "withdraw" /\ WithdrawEffect(r, v, W)
  <2>1. j # r.job /\ W \subseteq {r.job} \cup StepsOf(r.job)
    BY <1>15 DEF WithdrawEffect
  <2>2. j \notin W /\ \A f \in FirstSteps(j) : f \notin W
    BY <1>3, <1>8, <2>1 DEF StepsOf
  <2> QED
    BY <1>4, <1>5, <2>2
<1>16. CASE r.op = "remove" /\ RemoveEffect(r, db, v, W)
  <2>1. r.step \in Step /\ JobOf[r.step] = r.job /\ r.job # j
    BY <1>1, <1>2, <1>16 DEF Placed, CallsOK, StepOps
  <2>2. j \notin W /\ \A f \in FirstSteps(j) : f \notin W
    BY <1>3, <1>16, <2>1 DEF RemoveEffect
  <2> QED
    BY <1>4, <1>5, <2>2
<1> QED
  BY <1>1, <1>9, <1>10, <1>11, <1>12, <1>13, <1>14, <1>15, <1>16 DEF Effect, v, W

\* After a commit the other transactions are what they were.
LEMMA CommitLeavesOthers ==
  ASSUME FInv, NEW p \in Proc, Commit(p)
  PROVE  /\ open' = open \ {p} /\ open \subseteq Proc
         /\ writes[p] \subseteq Doc
         /\ \A q \in open \ {p} : /\ writes'[q] = writes[q]
                                  /\ req'[q] = req[q] /\ pc'[q] = pc[q]
                                  /\ p \in open => writes[q] \cap writes[p] = {}
<1>1. open' = open \ {p} /\ open \subseteq Proc /\ writes[p] \subseteq Doc
  BY DEF Commit, TxnCommit, EndTxns, FInv, IInv, StoreOK
<1>2. \A q \in open \ {p} : writes'[q] = writes[q]
  BY <1>1 DEF Commit, TxnCommit, EndTxns
<1>3. \A q \in Proc \ {p} : req'[q] = req[q] /\ pc'[q] = pc[q]
  <2>1. pc \in [Proc -> Label] /\ req \in [Proc -> Request \cup {NoRequest}]
    BY DEF FInv, IInv, ControlOK
  <2> QED
    BY <2>1 DEF Commit, End
<1>4. \A q \in open \ {p} : p \in open => writes[q] \cap writes[p] = {}
  BY DEF FInv, Isolated, PendingWritesFresh
<1> QED
  BY <1>1, <1>2, <1>3, <1>4

LEMMA CommitMovesFunnel ==
  ASSUME FInv, Placed, NEW p \in Proc, Commit(p), "remove" \notin Ops,
         NEW j \in Job, NEW c \in Cand
  PROVE  FunnelAt(j, c)'
<1>1. FunnelAt(j, c)
  BY DEF Placed, FunnelOK
<1>2. \A q \in open' : q \in open /\ req'[q] = req[q] /\ writes'[q] = writes[q]
  BY CommitLeavesOthers
<1>3. \A f \in FirstSteps(j) : f \in Step /\ f \in Doc /\ JobOf[f] = j
  BY DEF FirstSteps, StepsOf, Doc
<1>4. CASE db' = db
  BY <1>1, <1>2, <1>4, FunnelKept
<1>5. CASE c # req[p].cand
  BY <1>1, <1>2, <1>3, <1>5, FunnelKept, OthersStay
<1>6. CASE db' # db /\ c = req[p].cand
  <2>1. /\ Effect(req[p], "commit", db, view[p], writes[p])
        /\ p \in open /\ p \in Active
        /\ \A d \in writes[p] : db'[d] = view[p][d]
        /\ \A d \in Doc \ writes[p] : db'[d] = db[d]
    BY <1>6, Published
  <2>2. req[p].op # "remove"
    BY <2>1 DEF Placed, CallsOK
  <2>3. CASE req[p].op = "withdraw" /\ req[p].job = j
    <3>1. WithdrawEffect(req[p], view[p], writes[p])
      BY <2>1, <2>3 DEF Effect
    <3>2. CASE j \in writes[p]
      <4>1. ~TakesPart(db', j, c)
        BY <1>6, <2>1, <2>3, <3>1, <3>2 DEF WithdrawEffect, TakesPart
      <4> QED
        BY <4>1 DEF FunnelAt
    <3>3. CASE j \notin writes[p]
      <4>1. db'[j] = db[j]
        BY <2>1, <3>3 DEF Doc
      <4>2. \A f \in FirstSteps(j) : ~Overlooks(p, j, c, f) => db'[f] = db[f]
        BY <1>3, <1>6, <2>1, <2>3, <3>3 DEF Overlooks
      <4> QED
        BY <1>1, <1>2, <2>1, <4>1, <4>2, FunnelKept DEF Waits, TakesPart, InStep
    <3> QED
      BY <3>2, <3>3
  <2>4. CASE ~(req[p].op = "withdraw" /\ req[p].job = j)
    <3>1. /\ TakesPart(db', j, c) => TakesPart(db, j, c) \/ Waits(db', j, c)
          /\ Waits(db, j, c) =>
               Waits(db', j, c) \/ \E f \in FirstSteps(j) : f \in writes[p] /\ InStep(db', f, c)
          /\ \A f \in FirstSteps(j) : InStep(db, f, c) => InStep(db', f, c)
      BY <1>6, <2>2, <2>4, CommitFunnel
    <3>2. \A f \in writes[p] : \A q \in open' : ~Overlooks(q, j, c, f)'
      BY <2>1, CommitLeavesOthers DEF Overlooks
    <3>3. CASE TakesPart(db, j, c) /\ FirstSteps(j) # {} /\ Waits(db, j, c)
      BY <3>1, <3>2, <3>3 DEF FunnelAt
    <3>4. CASE ~TakesPart(db, j, c) \/ FirstSteps(j) = {}
      BY <3>1, <3>4 DEF FunnelAt
    <3>5. CASE ~Waits(db, j, c) /\ TakesPart(db, j, c)
      BY <1>1, <1>2, <3>1, <3>5, FunnelKept
    <3> QED
      BY <3>3, <3>4, <3>5
  <2> QED
    BY <2>3, <2>4
<1> QED
  BY <1>4, <1>5, <1>6

LEMMA CommitMoves ==
  ASSUME FInv, Placed, NEW p \in Proc, Commit(p)
  PROVE  Placed'
<1>1. p \in Active /\ pc[p] = "commit" /\ req[p] \in Request
  BY RequestFields DEF Commit, Active, FInv
<1>2. EffectsOK'
  <2>1. /\ EndTxns({p}, writes[p])
        /\ \A d \in Doc \ writes[p] : db'[d] = db[d]
    BY DEF Commit, TxnCommit
  <2>2. \A q \in open \ {p} : writes[q] \cap writes[p] = {}
    BY CommitLeavesOthers DEF FInv, IInv, StoreOK
  <2> QED
    BY <2>1, <2>2, CommitLeavesOthers, EndEffects DEF Placed
<1>3. FunnelOK'
  BY CommitMovesFunnel DEF FunnelOK
<1>4. CallsOK'
  <2>1. CASE req[p].rest = <<>>
    BY <2>1, EndCalls DEF Commit, Placed
  <2>2. CASE req[p].rest # <<>>
    <3> DEFINE q == [req[p] EXCEPT !.cand = Head(req[p].rest),
                                   !.rest = Tail(req[p].rest)]
    <3>1. q.op = req[p].op /\ q.step = req[p].step /\ q.job = req[p].job
      BY <1>1 DEF Request
    <3>2. pc' = [pc EXCEPT ![p] = "read"] /\ req' = [req EXCEPT ![p] = q]
      BY <2>2 DEF Commit
    <3> HIDE DEF q
    <3> QED
      BY <1>1, <3>1, <3>2 DEF Placed, CallsOK, Active, FInv, IInv, ControlOK
  <2> QED
    BY <2>1, <2>2
<1> QED
  BY <1>2, <1>3, <1>4 DEF Placed

-----------------------------------------------------------------------------
LEMMA MInvInit == Init => MInv
<1> SUFFICES ASSUME Init PROVE MInv
  OBVIOUS
<1>1. FInv /\ open = {} /\ Active = {}
  BY FInvInit DEF Init, MongoInit, Active
<1>2. CallsOK /\ EffectsOK
  BY <1>1 DEF CallsOK, EffectsOK
<1>3. ASSUME NEW j \in Job, NEW c \in Cand, TakesPart(db, j, c), ~Waits(db, j, c),
             NEW f \in FirstSteps(j)
      PROVE  InStep(db, f, c)
  <2>1. PICK g \in Stages : db = [d \in Doc |-> StartDoc(g, d)]
    BY DEF Init
  <2>2. j \in Doc /\ f \in Doc /\ f \in Step /\ f \notin Job /\ JobOf[f] = j /\ Order[f] = 1
    BY PipelineAssumption DEF FirstSteps, StepsOf, Doc
  <2>3. /\ db[j].newCandidates = {NewEntry(y, Earlier) : y \in {z \in Cand : g[j][z] = "new"}}
        /\ db[j].participants = [cand : {z \in Cand : g[j][z] \notin {"out", "added"}},
                                 by : {Earlier}]
    BY <2>1, <2>2 DEF StartDoc
  <2>4. g[j][c] \notin {"out", "added"}
    <3>1. PICK t \in db[j].participants : t.cand = c
      BY <1>3 DEF TakesPart, Holds
    <3> QED
      BY <2>3, <3>1
  <2>5. g[j][c] # "new"
    <3>1. ASSUME g[j][c] = "new" PROVE FALSE
      <4>1. NewEntry(c, Earlier) \in db[j].newCandidates
        BY <2>3, <3>1
      <4>2. NewEntry(c, Earlier).cand = c
        BY DEF NewEntry
      <4> QED
        BY <1>3, <4>1, <4>2 DEF Waits, Holds
    <3> QED
      BY <3>1
  <2>6. g[j][c] \in Step
    BY <2>4, <2>5 DEF Stages
  <2>7. Order[f] <= Order[g[j][c]]
    BY <2>2, <2>6, PipelineAssumption
  <2>8. c \in Reached(g, f)
    BY <2>2, <2>6, <2>7 DEF Reached
  <2> DEFINE e == [NewEntry(c, Earlier) EXCEPT
                     !.status = IF g[JobOf[f]][c] \in {f, "added"} THEN "INITIAL" ELSE "APPROVED"]
  <2>9. e \in db[f].candidates
    BY <2>1, <2>2, <2>8 DEF StartDoc
  <2>10. e.cand = c
    BY DEF NewEntry
  <2> QED
    BY <2>9, <2>10 DEF InStep, Holds
<1>4. FunnelOK
  BY <1>1, <1>3 DEF FunnelOK, FunnelAt
<1> QED
  BY <1>1, <1>2, <1>4 DEF MInv, Placed

LEMMA MInvNext == MInv /\ [Next]_vars => MInv'
<1> SUFFICES ASSUME MInv, [Next]_vars PROVE Placed'
  BY FInvNext DEF MInv
<1>1. FInv /\ Placed
  BY DEF MInv
<1>2. CASE UNCHANGED vars
  BY <1>1, <1>2 DEF vars, Placed, CallsOK, Active, EffectsOK, FunnelOK, FunnelAt, Overlooks
<1>3. ASSUME NEW r \in Req, Arrive(r) PROVE Placed'
  BY <1>1, <1>3, ArriveMoves
<1>4. ASSUME NEW p \in Proc, Progress(p) PROVE Placed'
  BY <1>1, <1>4, ApplyPushMoves, ChecksMove, AddMoves, SendAddMoves, SendMoves,
     StepOperationsMove, JobOperationsMove, CloseOpenMove, CommitMoves DEF Progress
<1>5. ASSUME NEW p \in Proc, CallFails(p) PROVE Placed'
  BY <1>1, <1>5, FailMoves DEF CallFails
<1>6. CASE ProcessExit
  BY <1>1, <1>6, ExitMoves
<1> QED
  BY <1>2, <1>3, <1>4, <1>5, <1>6 DEF Next

LEMMA Placement == Spec => []MInv
BY MInvInit, MInvNext, PTL DEF Spec

\* The lists of the jobs and steps change in commits only.
LEMMA ChangedByCommit ==
  ASSUME FInv, Placed, Next
  PROVE  \/ \E p \in Proc : Commit(p) /\ db' # db
         \/ /\ \A j \in Job : /\ db'[j].newCandidates = db[j].newCandidates
                              /\ db'[j].participants = db[j].participants
            /\ \A s \in Step : db'[s] = db[s]
<1>1. CASE db' = db
  BY <1>1
<1>2. CASE db' # db
  <2>1. ASSUME NEW r \in Req, Arrive(r) PROVE FALSE
    BY <1>2, <2>1 DEF Arrive, storeVars
  <2>2. ASSUME NEW p \in Proc, CallFails(p) PROVE FALSE
    BY <1>2, <2>2 DEF CallFails, Fail, TxnAbort
  <2>3. ~ProcessExit
    BY <1>2 DEF ProcessExit, TxnAbort
  <2>4. PICK p \in Proc : Progress(p)
    BY <2>1, <2>2, <2>3 DEF Next
  <2>5. Commit(p) \/ CloseJob(p) \/ OpenJob(p)
    BY <1>2, <2>4, OthersKeepDb
  <2> QED
    BY <1>2, <2>5, CloseOpenMove
<1> QED
  BY <1>1, <1>2

\* When no employer deletes candidates from steps, whoever takes part in a job
\* waits in it or is in one of its first steps.  Withdrawals overlook those who
\* apply after their snapshot: that nobody is lost all the same is FunnelOK.
THEOREM ParticipantsPlaced == Spec => []ParticipantInFunnel
<1>1. MInv => ParticipantInFunnel
  <2> SUFFICES ASSUME MInv, "remove" \notin Ops, NEW j \in Job,
                      NEW t \in db[j].participants, FirstSteps(j) # {}
               PROVE  InFunnel(j, t.cand)
    BY DEF ParticipantInFunnel
  <2>1. t.cand \in Cand
    BY DEF MInv, FInv, IInv, StoreOK, Sound, Contents, JobDoc, Participant
  <2>2. FunnelAt(j, t.cand)
    BY <2>1 DEF MInv, Placed, FunnelOK
  <2>3. TakesPart(db, j, t.cand)
    BY DEF TakesPart, Holds
  <2> QED
    BY <2>2, <2>3 DEF FunnelAt, InFunnel, Waits, InStep
<1> QED
  BY <1>1, Placement, PTL

\* An approved candidate is in the next step when the approval commits, whatever
\* was removed from that step meanwhile: the approval always writes the list.
THEOREM ApprovedAdvance == Spec => ApprovalAdvances
<1> DEFINE Advances ==
      \A p \in Proc :
        Committing(p) /\ req[p].op = "approve" /\ req[p].step \notin LastStep =>
          \E t \in NextSteps(req[p].job, req[p].step) :
             Holds(db'[t].candidates, req[p].cand)
<1>1. MInv /\ [Next]_vars => [Advances]_vars
  <2> SUFFICES ASSUME MInv, Next, NEW p \in Proc, Committing(p),
                      req[p].op = "approve", req[p].step \notin LastStep
               PROVE  \E t \in NextSteps(req[p].job, req[p].step) :
                         Holds(db'[t].candidates, req[p].cand)
    OBVIOUS
  <2>1. Commit(p) /\ db' # db
    BY CommittingCommits DEF MInv, Committing
  <2>2. /\ Effect(req[p], "commit", db, view[p], writes[p])
        /\ \A d \in writes[p] : db'[d] = view[p][d]
    BY <2>1, Published DEF MInv
  <2>3. ApproveEffect(req[p], db, view[p], writes[p])
    BY <2>2 DEF Effect
  <2>4. PICK t \in NextSteps(req[p].job, req[p].step) : t \in writes[p]
    BY <2>3 DEF ApproveEffect
  <2> QED
    BY <2>2, <2>3, <2>4 DEF ApproveEffect, InStep
<1>2. Spec => [][Advances]_vars
  BY <1>1, Placement, PTL DEF Spec
<1> QED
  BY <1>2 DEF ApprovalAdvances

\* A candidate drops out of the funnel of a job only when a withdrawal or a
\* removal of that candidate from that job commits.
THEOREM OnlyRemovalLeaves == Spec => LeavesFunnelOnlyByRemoval
<1> DEFINE Leaves ==
      \A j \in Job, c \in Cand : InFunnel(j, c) /\ ~InFunnel(j, c)' =>
        \E p \in Proc : /\ Committing(p)
                        /\ req[p].op \in {"withdraw", "remove"}
                        /\ req[p].job = j /\ req[p].cand = c
<1>1. MInv /\ [Next]_vars => [Leaves]_vars
  <2> SUFFICES ASSUME MInv, Next, NEW j \in Job, NEW c \in Cand,
                      InFunnel(j, c), ~InFunnel(j, c)'
               PROVE  \E p \in Proc : /\ Committing(p)
                                      /\ req[p].op \in {"withdraw", "remove"}
                                      /\ req[p].job = j /\ req[p].cand = c
    OBVIOUS
  <2>1. FInv /\ Placed
    BY DEF MInv
  <2>2. \A f \in FirstSteps(j) : f \in Step
    BY DEF FirstSteps, StepsOf
  <2>3. ~ /\ \A k \in Job : /\ db'[k].newCandidates = db[k].newCandidates
                            /\ db'[k].participants = db[k].participants
          /\ \A s \in Step : db'[s] = db[s]
    BY <2>2 DEF InFunnel
  <2>4. PICK p \in Proc : Commit(p) /\ db' # db
    BY <2>1, <2>3, ChangedByCommit
  <2>5. c = req[p].cand
    <3>1. ASSUME c # req[p].cand PROVE FALSE
      BY <2>1, <2>2, <2>4, <3>1, OthersStay DEF InFunnel, Waits, InStep
    <3> QED
      BY <3>1
  <2>6. req[p].op \in {"withdraw", "remove"} /\ req[p].job = j
    <3>1. ASSUME ~(req[p].op \in {"withdraw", "remove"} /\ req[p].job = j)
          PROVE  FALSE
      BY <2>1, <2>4, <2>5, <3>1, CommitFunnel DEF InFunnel, Waits, InStep
    <3> QED
      BY <3>1
  <2>7. Committing(p)
    <3>1. pc \in [Proc -> Label]
      BY <2>1 DEF FInv, IInv, ControlOK
    <3> QED
      BY <2>4, <3>1 DEF Commit, End, Committing
  <2> QED
    BY <2>5, <2>6, <2>7
<1>2. Spec => [][Leaves]_vars
  BY <1>1, Placement, PTL DEF Spec
<1> QED
  BY <1>2 DEF LeavesFunnelOnlyByRemoval

-----------------------------------------------------------------------------
(***************************************************************************)
(* The pipeline implements Candidacy: a commit is one move of the          *)
(* candidate of its request, everything else leaves all candidates where   *)
(* they are.                                                               *)
(***************************************************************************)

\* The two lists of Places, read one place at a time.
LEMMA PlacesAt ==
  ASSUME NEW c \in Cand
  PROVE  /\ Places[c] = {j \in Job : Waits(db, j, c)} \cup {s \in Step : InStep(db, s, c)}
         /\ Places'[c] = {j \in Job : Waits(db', j, c)} \cup {s \in Step : InStep(db', s, c)}
BY DEF Places, Waits, InStep

LEMMA MembersAt ==
  ASSUME FInv, FInv'
  PROVE  /\ Members \in [Job -> SUBSET Cand] /\ Members' \in [Job -> SUBSET Cand]
         /\ \A j \in Job, c \in Cand : c \in Members[j] <=> TakesPart(db, j, c)
         /\ \A j \in Job, c \in Cand : c \in Members'[j] <=> TakesPart(db', j, c)
<1>1. \A t \in Participant : t.cand \in Cand
  BY DEF Participant
<1>2. \A k \in Job : db[k].participants \subseteq Participant
  BY DEF FInv, IInv, StoreOK, Sound, Contents, JobDoc
<1>3. \A k \in Job : db'[k].participants \subseteq Participant
  BY DEF FInv, IInv, StoreOK, Sound, Contents, JobDoc
<1>4. /\ Members \in [Job -> SUBSET Cand]
      /\ \A j \in Job, c \in Cand : c \in Members[j] <=> TakesPart(db, j, c)
  BY <1>1, <1>2 DEF Members, TakesPart, Holds
<1>5. /\ Members' \in [Job -> SUBSET Cand]
      /\ \A j \in Job, c \in Cand : c \in Members'[j] <=> TakesPart(db', j, c)
  BY <1>1, <1>3 DEF Members, TakesPart, Holds
<1> QED
  BY <1>4, <1>5

\* The candidate of a commit is in S afterwards, and nobody else has moved.
LEMMA MoveTo ==
  ASSUME FInv, NEW p \in Proc, Commit(p), NEW c \in Cand, c = req[p].cand,
         NEW S, S = {j \in Job : Waits(db', j, c)} \cup {s \in Step : InStep(db', s, c)}
  PROVE  Moves!Move(c, S)
<1>1. \A y \in Cand \ {c} : Places'[y] = Places[y]
  BY OthersStay, PlacesAt
<1>2. Places'[c] = S
  BY PlacesAt
<1>3. Places = [y \in Cand |-> Places[y]] /\ Places' = [y \in Cand |-> Places'[y]]
  BY DEF Places
<1>4. Places' = [Places EXCEPT ![c] = S]
  BY <1>1, <1>2, <1>3
<1> QED
  BY <1>4 DEF Moves!Move

\* The participants change in job k at most, to those of M.
LEMMA MembersTo ==
  ASSUME FInv, FInv', NEW p \in Proc, Commit(p), NEW c \in Cand, c = req[p].cand,
         NEW k \in Job, \A j \in Job \ {k} : TakesPart(db', j, c) <=> TakesPart(db, j, c)
  PROVE  /\ TakesPart(db', k, c) => Members' = [Members EXCEPT ![k] = @ \cup {c}]
         /\ ~TakesPart(db', k, c) => Members' = [Members EXCEPT ![k] = @ \ {c}]
         /\ (TakesPart(db', k, c) <=> TakesPart(db, k, c)) => Members' = Members
<1>1. /\ Members \in [Job -> SUBSET Cand] /\ Members' \in [Job -> SUBSET Cand]
      /\ \A j \in Job, y \in Cand : y \in Members[j] <=> TakesPart(db, j, y)
      /\ \A j \in Job, y \in Cand : y \in Members'[j] <=> TakesPart(db', j, y)
  BY MembersAt
<1>2. \A j \in Job, y \in Cand \ {c} : TakesPart(db', j, y) <=> TakesPart(db, j, y)
  BY OthersStay
<1>3. \A j \in Job \ {k} : Members'[j] = Members[j]
  BY <1>1, <1>2
<1>4. ASSUME TakesPart(db', k, c) PROVE Members' = [Members EXCEPT ![k] = @ \cup {c}]
  <2>1. Members'[k] = Members[k] \cup {c}
    BY <1>1, <1>2, <1>4
  <2> QED
    BY <1>1, <1>3, <2>1
<1>5. ASSUME ~TakesPart(db', k, c) PROVE Members' = [Members EXCEPT ![k] = @ \ {c}]
  <2>1. Members'[k] = Members[k] \ {c}
    BY <1>1, <1>2, <1>5
  <2> QED
    BY <1>1, <1>3, <2>1
<1>6. ASSUME TakesPart(db', k, c) <=> TakesPart(db, k, c) PROVE Members' = Members
  <2>1. Members'[k] = Members[k]
    BY <1>1, <1>2, <1>6
  <2> QED
    BY <1>1, <1>3, <2>1
<1> QED
  BY <1>4, <1>5, <1>6

LEMMA CommitIsMove ==
  ASSUME FInv, FInv', Placed, NEW p \in Proc, Commit(p), db' # db
  PROVE  Moves!Next \/ UNCHANGED <<Places, Members>>
<1> DEFINE r == req[p]
           c == req[p].cand
           k == req[p].job
           v == view[p]
           W == writes[p]
           Before == {j \in Job : Waits(db, j, c)} \cup {s \in Step : InStep(db, s, c)}
           After == {j \in Job : Waits(db', j, c)} \cup {s \in Step : InStep(db', s, c)}
<1>1. /\ Effect(r, "commit", db, v, W) /\ p \in Active
      /\ \A d \in W : db'[d] = v[d]
      /\ \A d \in Doc \ W : db'[d] = db[d]
      /\ W \subseteq Doc
  BY Published
<1>2. /\ c \in Cand /\ k \in Job /\ k \notin Step
      /\ r.op \in StepOps => r.step \in Step
      /\ r.op \in StepOps => JobOf[r.step] = k
      /\ r.op \in StepOps => r.step \notin Job
  BY <1>1, RequestFields, PipelineAssumption DEF FInv, StepOps, Placed, CallsOK
<1>3. /\ \A j \in Job : j \notin W => /\ Waits(db', j, c) <=> Waits(db, j, c)
                                      /\ TakesPart(db', j, c) <=> TakesPart(db, j, c)
      /\ \A j \in Job : j \in W => /\ Waits(db', j, c) <=> Waits(v, j, c)
                                   /\ TakesPart(db', j, c) <=> TakesPart(v, j, c)
      /\ \A s \in Step : s \notin W => (InStep(db', s, c) <=> InStep(db, s, c))
      /\ \A s \in Step : s \in W => (InStep(db', s, c) <=> InStep(v, s, c))
  BY <1>1 DEF Waits, TakesPart, InStep, Doc
<1>4. Places[c] = Before /\ Moves!Move(c, After) /\ Job \cap Step = {}
  BY <1>2, PlacesAt, MoveTo, PipelineAssumption
<1>5. W # {}
  <2>1. db = [d \in Doc |-> db[d]] /\ db' = [d \in Doc |-> db'[d]]
    BY DEF FInv, IInv, StoreOK, Sound, Contents
  <2> QED
    BY <1>1, <2>1
<1>6. (\A j \in Job \ {k} : TakesPart(db', j, c) <=> TakesPart(db, j, c)) =>
        /\ TakesPart(db', k, c) => Members' = [Members EXCEPT ![k] = @ \cup {c}]
        /\ ~TakesPart(db', k, c) => Members' = [Members EXCEPT ![k] = @ \ {c}]
        /\ (TakesPart(db', k, c) <=> TakesPart(db, k, c)) => Members' = Members
  BY <1>2, MembersTo
<1>7. After = Before => Places' = Places
  <2> SUFFICES ASSUME After = Before PROVE Places' = Places
    OBVIOUS
  <2>1. Places = [y \in Cand |-> Places[y]]
    BY DEF Places
  <2>2. Places' = [Places EXCEPT ![c] = Places[c]]
    BY <1>4 DEF Moves!Move
  <2> QED
    BY <1>2, <2>1, <2>2
<1> HIDE DEF v, W
<1>8. W \subseteq Step => Members' = Members
  BY <1>3, <1>4, <1>6, <1>2
<1>9. CASE r.op = "apply" /\ ApplyEffect(r, v, W)
  <2>1. After = Before \cup {k}
    BY <1>2, <1>3, <1>4, <1>9 DEF ApplyEffect
  <2>2. Members' = [Members EXCEPT ![k] = @ \cup {c}]
    BY <1>2, <1>3, <1>6, <1>9 DEF ApplyEffect
  <2>3. Moves!Apply(c, k)
    BY <1>4, <2>1, <2>2 DEF Moves!Apply
  <2> QED
    BY <1>2, <2>3 DEF Moves!Next
<1>10. CASE r.op = "send" /\ SendEffect(r, "commit", db, v, W)
  <2>1. PICK f \in FirstSteps(k) :
           /\ f \in W /\ W \subseteq {k, f}
           /\ ~InStep(db, f, c) /\ InStep(v, f, c)
    BY <1>10 DEF SendEffect
  <2>2. f \in Step /\ JobOf[f] = k /\ Order[f] = 1 /\ f \notin Job
    BY <1>4, <2>1 DEF FirstSteps, StepsOf
  <2>3. Members' = Members
    BY <1>2, <1>3, <1>6, <1>10, <2>1, <2>2 DEF SendEffect
  <2>4. f \notin Before
    BY <2>1, <2>2
  <2>5. CASE k \in W
    <3>1. After = (Before \ {k}) \cup {f}
      BY <1>2, <1>3, <1>10, <2>1, <2>2, <2>5 DEF SendEffect
    <3>2. Moves!Send(c, k)
      BY <1>4, <2>2, <2>3, <2>4, <3>1 DEF Moves!Send, Moves!At
    <3> QED
      BY <1>2, <3>2 DEF Moves!Next
  <2>6. CASE k \notin W
    <3>1. After = Before \cup {f}
      BY <1>2, <1>3, <2>1, <2>2, <2>6
    <3>2. Moves!Add(c, f)
      BY <1>4, <2>3, <2>4, <3>1 DEF Moves!Add
    <3> QED
      BY <1>2, <2>2, <3>2 DEF Moves!Next
  <2> QED
    BY <2>5, <2>6
<1>11. CASE r.op = "add" /\ AddEffect(r, db, v, W)
  <2>1. After = Before \cup {r.step} /\ r.step \notin Before /\ r.step \in Step
    BY <1>2, <1>3, <1>4, <1>11 DEF AddEffect, StepOps
  <2>2. Moves!Add(c, r.step)
    BY <1>4, <1>8, <1>11, <2>1 DEF Moves!Add, AddEffect
  <2> QED
    BY <1>2, <2>1, <2>2 DEF Moves!Next
<1>12. CASE r.op = "remove" /\ RemoveEffect(r, db, v, W)
  <2>1. r.step \in Step /\ W = {r.step}
    BY <1>2, <1>5, <1>12 DEF RemoveEffect, StepOps
  <2>2. After = Before \ {r.step} /\ r.step \in Before
    BY <1>3, <1>4, <1>12, <2>1 DEF RemoveEffect
  <2>3. Moves!Remove(c, r.step)
    BY <1>4, <1>8, <2>1, <2>2 DEF Moves!Remove
  <2> QED
    BY <1>2, <2>1, <2>3 DEF Moves!Next
<1>13. CASE r.op = "approve" /\ ApproveEffect(r, db, v, W)
  <2>1. r.step \in Step /\ JobOf[r.step] = k /\ W \subseteq Step /\ Members' = Members
    BY <1>2, <1>8, <1>13 DEF StepOps, ApproveEffect
  <2>2. CASE r.step \in LastStep
    BY <1>3, <1>4, <1>7, <1>13, <2>1, <2>2 DEF ApproveEffect
  <2>3. CASE r.step \notin LastStep
    <3>1. PICK t \in NextSteps(k, r.step) : t \in W /\ \A d \in W \ {t} : InStep(db, d, c)
      BY <1>13, <2>3 DEF ApproveEffect
    <3>2. t \in Moves!At(JobOf[r.step]) /\ Order[t] = Order[r.step] + 1
      BY <2>1 DEF NextSteps, StepsOf, Moves!At
    <3>3. After = Before \cup {t}
      BY <1>3, <1>4, <1>13, <2>1, <3>1 DEF ApproveEffect
    <3>4. Moves!Approve(c, r.step)
      BY <1>4, <2>1, <2>3, <3>2, <3>3 DEF Moves!Approve
    <3> QED
      BY <1>2, <2>1, <3>4 DEF Moves!Next
  <2> QED
    BY <2>2, <2>3
<1>14. CASE r.op = "reprove" /\ ReproveEffect(r, db, v, W)
  <2> DEFINE T == {d \in W : ~InStep(v, d, c)}
  <2>1. r.step \in Step /\ W \subseteq Step /\ Members' = Members
    BY <1>2, <1>8, <1>14 DEF StepOps, ReproveEffect
  <2>2. After = Before \ T
    BY <1>3, <1>4, <1>14, <2>1 DEF ReproveEffect
  <2>3. CASE r.step \in LastStep
    <3>1. T = {}
      BY <1>14, <2>3 DEF ReproveEffect
    <3> QED
      BY <1>7, <2>1, <2>2, <3>1
  <2>4. CASE r.step \notin LastStep
    <3>1. T \in SUBSET {d \in Step : Order[d] > Order[r.step]}
      BY <1>14, <2>1 DEF ReproveEffect
    <3> HIDE DEF T
    <3>2. Moves!Reprove(c, r.step)
      BY <1>4, <2>1, <2>2, <2>4, <3>1 DEF Moves!Reprove
    <3> QED
      BY <1>2, <2>1, <3>2 DEF Moves!Next
  <2> QED
    BY <2>3, <2>4
<1>15. CASE r.op = "reproveFromJob" /\ ReproveFromJobEffect(r, db, v, W)
  <2>1. After = Before
    BY <1>2, <1>3, <1>4, <1>15 DEF ReproveFromJobEffect
  <2>2. Members' = Members
    BY <1>2, <1>3, <1>6, <1>15 DEF ReproveFromJobEffect
  <2> QED
    BY <1>7, <2>1, <2>2
<1>16. CASE r.op = "withdraw" /\ WithdrawEffect(r, v, W)
  <2> DEFINE T == W \ {k}
  <2>1. T \in SUBSET Moves!At(k) /\ T \subseteq Step /\ W \subseteq {k} \cup Step
    BY <1>16 DEF WithdrawEffect, Moves!At, StepsOf
  <2>2. \A j \in Job \ {k} : j \notin W
    BY <1>4, <2>1
  <2>3. CASE k \in W
    <3>1. After = Before \ (T \cup {k})
      BY <1>2, <1>3, <1>4, <1>16, <2>1, <2>2, <2>3 DEF WithdrawEffect
    <3>2. Members' = [Members EXCEPT ![k] = @ \ {c}]
      BY <1>2, <1>3, <1>6, <1>16, <2>2, <2>3 DEF WithdrawEffect
    <3> HIDE DEF T
    <3>3. Moves!Withdraw(c, k)
      BY <1>4, <2>1, <3>1, <3>2 DEF Moves!Withdraw
    <3> QED
      BY <1>2, <3>3 DEF Moves!Next
  <2>4. CASE k \notin W
    <3>1. After = Before \ T
      BY <1>2, <1>3, <1>4, <1>16, <2>1, <2>2, <2>4 DEF WithdrawEffect
    <3>2. Members' = Members
      BY <1>2, <1>3, <1>6, <2>2, <2>4
    <3> HIDE DEF T
    <3>3. Moves!Withdraw(c, k)
      BY <1>4, <2>1, <3>1, <3>2 DEF Moves!Withdraw
    <3> QED
      BY <1>2, <3>3 DEF Moves!Next
  <2> QED
    BY <2>3, <2>4
<1> QED
  BY <1>1, <1>9, <1>10, <1>11, <1>12, <1>13, <1>14, <1>15, <1>16 DEF Effect, v, W

\* However the calls of concurrent requests interleave, conflict, fail or are
\* cut off, candidates move as Candidacy says: one at a time, each in one
\* indivisible step.
THEOREM ImplementsCandidacy == Spec => Candidacies
<1>1. Init => Moves!Init
  <2> SUFFICES ASSUME Init PROVE Moves!Init
    OBVIOUS
  <2>1. Sound(db)
    BY FInvInit DEF FInv, IInv, StoreOK
  <2>2. Places \in [Cand -> SUBSET (Job \cup Step)]
    BY DEF Places
  <2>3. Members \in [Job -> SUBSET Cand]
    BY <2>1 DEF Members, Sound, Contents, JobDoc, Participant
  <2>4. ASSUME NEW c \in Cand, NEW j \in Job, j \in Places[c]
        PROVE  c \in Members[j]
    <3>1. PICK e \in db[j].newCandidates : e.cand = c
      BY <2>4, PipelineAssumption DEF Places, Holds
    <3>2. [cand |-> e.cand, by |-> e.by] \in db[j].participants
      BY <2>1 DEF Sound, Matched
    <3> QED
      BY <3>1, <3>2 DEF Members
  <2> QED
    BY <2>2, <2>3, <2>4 DEF Moves!Init
<1>2. MInv /\ MInv' /\ [Next]_vars => [Moves!Next]_<<Places, Members>>
  <2> SUFFICES ASSUME MInv, MInv', [Next]_vars
               PROVE  Moves!Next \/ UNCHANGED <<Places, Members>>
    OBVIOUS
  <2>1. FInv /\ FInv' /\ Placed
    BY DEF MInv
  <2>2. CASE UNCHANGED vars
    BY <2>2 DEF vars, Places, Members
  <2>3. ASSUME NEW p \in Proc, Commit(p), db' # db
        PROVE  Moves!Next \/ UNCHANGED <<Places, Members>>
    BY <2>1, <2>3, CommitIsMove
  <2>4. CASE /\ \A j \in Job : /\ db'[j].newCandidates = db[j].newCandidates
                               /\ db'[j].participants = db[j].participants
             /\ \A s \in Step : db'[s] = db[s]
    BY <2>4 DEF Places, Members
  <2>5. CASE Next
    BY <2>1, <2>3, <2>4, <2>5, ChangedByCommit
  <2> QED
    BY <2>2, <2>5
<1> QED
  BY <1>1, <1>2, Placement, PTL DEF Spec, Candidacies, Moves!Spec
=============================================================================
