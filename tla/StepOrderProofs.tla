--------------------------- MODULE StepOrderProofs ---------------------------
(***************************************************************************)
(* Proofs about StepOrder, for any number of requests, steps and clients.  *)
(***************************************************************************)
EXTENDS StepOrder, SequenceTheorems, FiniteSetTheorems, TLAPS

-----------------------------------------------------------------------------
(* Lists without repetitions *)

\* The place of an element is where it is found, and only there.
LEMMA PlaceFound ==
  ASSUME NEW S, NEW steps \in Seq(S), NEW s \in Range(steps)
  PROVE  Place(steps, s) \in DOMAIN steps /\ steps[Place(steps, s)] = s
<1>1. \E i \in DOMAIN steps : steps[i] = s
  BY DEF Range
<1> QED
  BY <1>1 DEF Place

LEMMA PlaceOfElement ==
  ASSUME NEW S, NEW steps \in Seq(S), IsInjective(steps), NEW i \in DOMAIN steps
  PROVE  Place(steps, steps[i]) = i
<1>1. steps[i] \in Range(steps)
  BY DEF Range
<1> QED
  BY <1>1, PlaceFound DEF IsInjective

LEMMA AppendLists ==
  ASSUME NEW S, NEW steps \in Seq(S), NEW s \in S
  PROVE  /\ Append(steps, s) \in Seq(S)
         /\ Range(Append(steps, s)) = Range(steps) \cup {s}
         /\ IsInjective(steps) /\ s \notin Range(steps) =>
              IsInjective(Append(steps, s))
<1> DEFINE t == Append(steps, s)
           n == Len(steps)
<1>1. /\ t \in Seq(S) /\ Len(t) = n + 1 /\ t[n + 1] = s
      /\ \A i \in 1..n : t[i] = steps[i]
  BY AppendProperties
<1>2. n \in Nat /\ DOMAIN steps = 1..n /\ DOMAIN t = 1..(n + 1)
  BY <1>1, LenProperties
<1> HIDE DEF t, n
<1>3. Range(t) = Range(steps) \cup {s}
  BY <1>1, <1>2 DEF Range
<1>4. ASSUME IsInjective(steps), s \notin Range(steps)
      PROVE  IsInjective(t)
  <2> SUFFICES ASSUME NEW i \in 1..(n + 1), NEW j \in 1..(n + 1), t[i] = t[j]
               PROVE  i = j
    BY <1>2 DEF IsInjective
  <2>1. \A k \in 1..n : t[k] # s
    BY <1>1, <1>2, <1>4 DEF Range
  <2>2. CASE i \in 1..n /\ j \in 1..n
    BY <1>1, <1>2, <1>4, <2>2 DEF IsInjective
  <2>3. CASE i = n + 1 \/ j = n + 1
    BY <1>1, <1>2, <2>1, <2>3
  <2> QED
    BY <1>2, <2>2, <2>3
<1> QED
  BY <1>1, <1>3, <1>4 DEF t

LEMMA RemoveLists ==
  ASSUME NEW S, NEW steps \in Seq(S), IsInjective(steps), NEW i \in DOMAIN steps
  PROVE  /\ RemoveAt(steps, i) \in Seq(S)
         /\ IsInjective(RemoveAt(steps, i))
         /\ Range(RemoveAt(steps, i)) = Range(steps) \ {steps[i]}
<1> DEFINE n == Len(steps)
           a == SubSeq(steps, 1, i - 1)
           b == SubSeq(steps, i + 1, n)
           t == a \o b
<1>1. n \in Nat /\ DOMAIN steps = 1..n /\ \A k \in 1..n : steps[k] \in S
  BY LenProperties, ElementOfSeq
<1>2. /\ a \in Seq(S) /\ Len(a) = i - 1
      /\ \A k \in 1..(i - 1) : a[k] = steps[k]
  <2>1. \A k \in 1..(i - 1) : steps[k] \in S
    BY <1>1
  <2>2. i \in Nat /\ i >= 1
    BY <1>1
  <2> HIDE DEF n
  <2> QED
    BY <2>1, <2>2, SubSeqProperties
<1>3. /\ b \in Seq(S) /\ Len(b) = n - i
      /\ \A k \in 1..(n - i) : b[k] = steps[k + i]
  <2>1. \A k \in (i + 1)..n : steps[k] \in S
    BY <1>1
  <2>2. i \in Nat /\ i >= 1 /\ i <= n
    BY <1>1
  <2> HIDE DEF n
  <2>3. /\ b \in Seq(S) /\ Len(b) = IF i + 1 <= n THEN n - (i + 1) + 1 ELSE 0
        /\ \A k \in 1..(n - (i + 1) + 1) : b[k] = steps[(i + 1) + k - 1]
    BY <1>1, <2>1, <2>2, SubSeqProperties
  <2> QED
    BY <1>1, <2>2, <2>3
<1> HIDE DEF n, a, b
<1>4. /\ t \in Seq(S) /\ Len(t) = n - 1
      /\ \A k \in 1..(n - 1) : t[k] = IF k <= i - 1 THEN a[k] ELSE b[k - (i - 1)]
  <2>1. /\ t \in Seq(S) /\ Len(t) = Len(a) + Len(b)
        /\ \A k \in 1..(Len(a) + Len(b)) :
             t[k] = IF k <= Len(a) THEN a[k] ELSE b[k - Len(a)]
    BY <1>2, <1>3, ConcatProperties
  <2>2. i \in Nat /\ (i - 1) + (n - i) = n - 1
    BY <1>1
  <2> QED
    BY <1>2, <1>3, <2>1, <2>2
<1>5. DOMAIN t = 1..(n - 1)
  BY <1>4, LenProperties
<1> HIDE DEF t
<1>6. \A k \in 1..(n - 1) : t[k] = IF k < i THEN steps[k] ELSE steps[k + 1]
  <2> TAKE k \in 1..(n - 1)
  <2>1. CASE k < i
    BY <1>1, <1>2, <1>4, <2>1
  <2>2. CASE ~(k < i)
    <3>1. k - (i - 1) \in 1..(n - i) /\ k - (i - 1) + i = k + 1 /\ ~(k <= i - 1)
      BY <1>1, <2>2
    <3>2. b[k - (i - 1)] = steps[k - (i - 1) + i]
      BY <1>3, <3>1
    <3> QED
      BY <1>4, <2>2, <3>1, <3>2
  <2> QED
    BY <2>1, <2>2
<1>7. IsInjective(t)
  <2> SUFFICES ASSUME NEW k \in 1..(n - 1), NEW l \in 1..(n - 1), t[k] = t[l]
               PROVE  k = l
    BY <1>5 DEF IsInjective
  <2>1. \A x, y \in 1..n : steps[x] = steps[y] => x = y
    BY <1>1 DEF IsInjective
  <2> QED
    BY <1>1, <1>6, <2>1
<1>8. Range(t) = Range(steps) \ {steps[i]}
  <2>1. ASSUME NEW k \in 1..(n - 1) PROVE t[k] \in Range(steps) \ {steps[i]}
    BY <1>1, <1>6 DEF Range, IsInjective
  <2>2. ASSUME NEW k \in 1..n, steps[k] # steps[i]
        PROVE  \E l \in 1..(n - 1) : t[l] = steps[k]
    <3>1. k # i
      BY <2>2
    <3>2. CASE k < i
      BY <1>1, <1>6, <3>2
    <3>3. CASE k > i
      <4>1. k - 1 \in 1..(n - 1) /\ ~(k - 1 < i) /\ (k - 1) + 1 = k
        BY <1>1, <3>3
      <4>2. t[k - 1] = steps[k]
        BY <1>6, <4>1
      <4> QED
        BY <4>1, <4>2
    <3> QED
      BY <1>1, <3>1, <3>2, <3>3
  <2>3. Range(t) \subseteq Range(steps) \ {steps[i]}
    BY <1>5, <2>1 DEF Range
  <2>4. ASSUME NEW y \in Range(steps) \ {steps[i]} PROVE y \in Range(t)
    <3>1. PICK k \in 1..n : y = steps[k]
      BY <1>1 DEF Range
    <3> QED
      BY <1>5, <2>2, <3>1 DEF Range
  <2> QED
    BY <2>3, <2>4
<1> QED
  BY <1>4, <1>7, <1>8 DEF RemoveAt, t, a, b, n

LEMMA PullLists ==
  ASSUME NEW S, NEW steps \in Seq(S), IsInjective(steps), NEW s
  PROVE  /\ PullStep(steps, s) \in Seq(S)
         /\ IsInjective(PullStep(steps, s))
         /\ Range(PullStep(steps, s)) = Range(steps) \ {s}
<1>1. CASE s \in Range(steps)
  BY <1>1, PlaceFound, RemoveLists DEF PullStep
<1>2. CASE s \notin Range(steps)
  BY <1>2 DEF PullStep
<1> QED
  BY <1>1, <1>2

\* The places that populate keeps.
LEMMA FilledFinite ==
  ASSUME NEW x, NEW steps, NEW n \in Nat
  PROVE  /\ IsFiniteSet(Filled(x, steps, n)) /\ Cardinality(Filled(x, steps, n)) \in Nat
         /\ Filled(x, steps, n) # {} => Cardinality(Filled(x, steps, n)) # 0
<1>1. IsFiniteSet(1..n) /\ Filled(x, steps, n) \in SUBSET (1..n)
  BY FS_Interval DEF Filled
<1>2. IsFiniteSet(Filled(x, steps, n))
  BY <1>1, FS_Subset
<1> QED
  BY <1>2, FS_CardinalityType, FS_EmptySet

LEMMA RankOfStored ==
  ASSUME NEW S, NEW x, NEW steps \in Seq(S), NEW s \in Range(steps), x[s].there
  PROVE  Rank(x, steps, s) \in Nat \ {0}
<1>1. /\ Place(steps, s) \in Nat /\ Place(steps, s) \in 1..Place(steps, s)
      /\ steps[Place(steps, s)] = s
  BY PlaceFound, LenProperties
<1>2. Place(steps, s) \in Filled(x, steps, Place(steps, s))
  BY <1>1 DEF Filled
<1> QED
  BY <1>1, <1>2, FilledFinite DEF Rank

\* Where every listed step is stored, populate drops nothing.
LEMMA RankIsPlace ==
  ASSUME NEW S, NEW x, NEW steps \in Seq(S), \A s \in Range(steps) : x[s].there,
         NEW s \in Range(steps)
  PROVE  /\ Rank(x, steps, s) = Place(steps, s)
         /\ IsLast(x, steps, s) <=> Place(steps, s) = Len(steps)
<1>1. /\ Len(steps) \in Nat /\ DOMAIN steps = 1..Len(steps)
      /\ Place(steps, s) \in 1..Len(steps)
  BY PlaceFound, LenProperties
<1>2. \A i \in 1..Len(steps) : x[steps[i]].there
  BY <1>1 DEF Range
<1> DEFINE p == Place(steps, s)
           n == Len(steps)
<1>3. /\ n \in Nat /\ p \in Nat /\ 1 <= p /\ p <= n
      /\ \A i \in 1..n : x[steps[i]].there
  BY <1>1, <1>2
<1> HIDE DEF p, n
<1>4. Filled(x, steps, p) = 1..p /\ Filled(x, steps, n) = 1..n
  BY <1>3 DEF Filled
<1>5. Cardinality(1..p) = p
  BY <1>3, FS_Interval
<1>6. 1..p = 1..n <=> p = n
  <2>1. n \in 1..n /\ (n \in 1..p => n <= p)
    BY <1>3
  <2> QED
    BY <1>3, <2>1
<1>7. Rank(x, steps, s) = p /\ (IsLast(x, steps, s) <=> p = n)
  BY <1>4, <1>5, <1>6 DEF Rank, IsLast, p, n
<1> QED
  BY <1>7 DEF p, n

-----------------------------------------------------------------------------
(***************************************************************************)
(* The invariant.  StepsListed is not inductive: it rests on what the open *)
(* transactions are about to publish.  As every writing handler opens its  *)
(* transaction with its writes, and then only commits, that is a function  *)
(* of the committed job for as long as no one else writes the job.         *)
(***************************************************************************)

\* The list of a job has no step twice, and agrees with the stored steps where
\* no client replaces it.
Listed(x, f) ==
  x[JobId].there =>
    /\ IsInjective(Steps(x))
    /\ "updateJob" \notin f.ops => Range(Steps(x)) = StepsThere(x)

\* A document that is not there holds nothing.
Tidy(x) ==
  /\ \A s \in Step : ~x[s].there => x[s] = Missing
  /\ ~x[JobId].there => x[JobId] = NoJob

\* Who has a transaction, and what it stands on.
TxnsOK ==
  /\ open = {r \in Req : pc[r] = "commit"}
  /\ \A r \in Req \ open : writes[r] = {} /\ stale[r] = {}
  /\ PendingWritesFresh

\* The step that r may create is stored and listed nowhere, nor in a list on its way.
Fresh(r) ==
  /\ ~db[r].there /\ r \notin Range(Steps(db))
  /\ \A q \in Active : r \notin Range(req[q].steps)

\* What a call has fixed by the time it is served.
CallsOK ==
  /\ \A r \in Req : pc[r] \in {"write", "commit"} =>
       req[r].op \notin {"update", "updateJob"}
  /\ \A r \in Active :
       /\ req[r].op \in profile.ops
       /\ req[r].op \in {"add", "deleteJob"} => req[r].step = r
       /\ req[r].op = "update" \/ (req[r].op = "add" /\ pc[r] # "read") =>
            req[r].order # 0
       /\ req[r].op = "add" => req[r].lastStep \in profile.flags
       /\ IsInjective(req[r].steps)
  /\ \A r \in Req : pc[r] # "done" => Fresh(r)

\* The writes of r neither create nor delete a step outside S.
KeepsSteps(r, S) ==
  \A d \in (Step \cap writes[r]) \ S : view[r][d].there = db[d].there

AddEffect(r) ==
  /\ KeepsSteps(r, {r})
  /\ r \in writes[r] /\ view[r][r].there
  /\ IF JobId \in writes[r]
     THEN /\ db[JobId].there
          /\ view[r][JobId] = [there |-> TRUE, steps |-> Append(Steps(db), r)]
     ELSE ~db[JobId].there

\* Some client replaces the list of steps.
Relisted == "updateJob" \in profile.ops

\* A removal that does not write the job came after another one of its step, or
\* after a PATCH that left the step out of the list.
RemoveEffect(r) ==
  /\ req[r].step \in writes[r] => ~view[r][req[r].step].there
  /\ KeepsSteps(r, {req[r].step})
  /\ IF JobId \in writes[r]
     THEN /\ db[JobId].there
          /\ view[r][JobId] =
               [there |-> TRUE, steps |-> PullStep(Steps(db), req[r].step)]
          /\ ~Relisted => req[r].step \in writes[r]
     ELSE ~Relisted => KeepsSteps(r, {})

DeleteEffect(r) ==
  /\ \A d \in Doc : ~view[r][d].there
  /\ JobId \in writes[r] \/ ~db[JobId].there

EffectsOK ==
  \A r \in open :
    /\ Tidy(view[r])
    /\ req[r].op = "add" => AddEffect(r)
    /\ req[r].op = "remove" => RemoveEffect(r)
    /\ req[r].op = "deleteJob" => DeleteEffect(r)

JobKept == "deleteJob" \notin profile.ops => db[JobId].there

IInv == TypeOK /\ TxnsOK /\ CallsOK /\ EffectsOK /\ JobKept /\ Tidy(db) /\ Listed(db, profile)

LEMMA Apart ==
  /\ JobId \notin Step /\ Doc = {JobId} \cup Step
  /\ Req \subseteq Step /\ \A r \in Req : r \notin Range(Start)
  BY StepOrderAssumption DEF Step, Doc

LEMMA InContents ==
  ASSUME NEW x, x \in [Doc -> JobDoc \cup StepDoc], x[JobId] \in JobDoc,
         \A s \in Step : x[s] \in StepDoc
  PROVE  x \in Contents
  BY DEF Contents

LEMMA ContentsFields ==
  ASSUME NEW x \in Contents
  PROVE  /\ x \in [Doc -> JobDoc \cup StepDoc]
         /\ x[JobId] \in JobDoc /\ x[JobId].there \in BOOLEAN /\ Steps(x) \in Seq(Step)
         /\ x[JobId] = [there |-> x[JobId].there, steps |-> Steps(x)]
         /\ \A s \in Step : /\ x[s] \in StepDoc
                             /\ x[s].there \in BOOLEAN /\ x[s].lastStep \in BOOLEAN
                             /\ x[s].order \in Nat \ {0}
  BY DEF Contents, JobDoc, StepDoc, Steps

-----------------------------------------------------------------------------
(* The initial states *)

LEMMA InitOK == Init => IInv
<1> SUFFICES ASSUME Init PROVE IInv
  OBVIOUS
<1>1. PICK n \in 0..Len(Start) :
        db = [d \in Doc |->
                IF d = JobId THEN [there |-> TRUE, steps |-> SubSeq(Start, 1, n)]
                ELSE IF d \in Range(SubSeq(Start, 1, n))
                THEN Stored(Place(SubSeq(Start, 1, n), d), Place(SubSeq(Start, 1, n), d) = n)
                ELSE Missing]
  BY DEF Init
<1> DEFINE steps == SubSeq(Start, 1, n)
<1>2. /\ Start \in Seq(Range(Start)) /\ IsInjective(Start)
      /\ Len(Start) \in Nat /\ DOMAIN Start = 1..Len(Start)
      /\ \A i \in 1..Len(Start) : Start[i] \in Range(Start)
  BY StepOrderAssumption, LenProperties DEF Range
<1>3. /\ n \in Nat /\ steps \in Seq(Range(Start)) /\ Len(steps) = n
      /\ \A i \in 1..n : steps[i] = Start[i]
  <2>1. n \in Int /\ n >= 0 /\ n <= Len(Start)
    BY <1>2
  <2>2. \A i \in 1..n : Start[i] \in Range(Start)
    BY <1>2, <2>1
  <2>3. /\ steps \in Seq(Range(Start))
        /\ Len(steps) = IF 1 <= n THEN n - 1 + 1 ELSE 0
        /\ \A i \in 1..(n - 1 + 1) : steps[i] = Start[1 + i - 1]
    BY <2>1, <2>2, SubSeqProperties
  <2>4. (IF 1 <= n THEN n - 1 + 1 ELSE 0) = n /\ n - 1 + 1 = n
    BY <2>1
  <2>5. \A i \in 1..n : 1 + i - 1 = i
    BY <2>1
  <2> QED
    BY <2>1, <2>3, <2>4, <2>5
<1>4. db = [d \in Doc |->
              IF d = JobId THEN [there |-> TRUE, steps |-> steps]
              ELSE IF d \in Range(steps)
              THEN Stored(Place(steps, d), Place(steps, d) = n) ELSE Missing]
  BY <1>1
<1> HIDE DEF steps
<1>5. /\ steps \in Seq(Step) /\ IsInjective(steps) /\ DOMAIN steps = 1..n
      /\ Range(steps) \subseteq Range(Start) /\ Range(steps) \subseteq Step
  <2>1. DOMAIN steps = 1..n
    BY <1>3, LenProperties
  <2>2. Range(steps) \subseteq Range(Start)
    BY <1>3, <2>1, ElementOfSeq DEF Range
  <2>3. IsInjective(steps)
    BY <1>2, <1>3, <2>1 DEF IsInjective
  <2>4. Range(Start) \subseteq Step
    BY DEF Step
  <2> QED
    BY <1>3, <2>1, <2>2, <2>3, <2>4
<1>6. /\ db \in [Doc -> JobDoc \cup StepDoc] /\ db[JobId] \in JobDoc
      /\ db[JobId] = [there |-> TRUE, steps |-> steps]
      /\ \A s \in Step : db[s] \in StepDoc
      /\ \A s \in Step : db[s].there <=> s \in Range(steps)
      /\ \A s \in Step : ~db[s].there => db[s] = Missing
  <2>1. db[JobId] = [there |-> TRUE, steps |-> steps] /\ db[JobId] \in JobDoc
    BY <1>4, <1>5 DEF Doc, JobDoc
  <2>2. ASSUME NEW s \in Step
        PROVE  /\ db[s] \in StepDoc /\ (db[s].there <=> s \in Range(steps))
               /\ ~db[s].there => db[s] = Missing
    <3>1. s # JobId /\ s \in Doc
      BY Apart
    <3>2. CASE s \in Range(steps)
      <4>1. Place(steps, s) \in Nat \ {0}
        BY <1>3, <1>5, <3>2, PlaceFound
      <4>2. db[s] = Stored(Place(steps, s), Place(steps, s) = n)
        BY <1>4, <3>1, <3>2
      <4> QED
        BY <3>2, <4>1, <4>2 DEF Stored, StepDoc
    <3>3. CASE s \notin Range(steps)
      BY <1>4, <3>1, <3>3 DEF Missing, StepDoc
    <3> QED
      BY <3>2, <3>3
  <2> QED
    BY <1>4, <2>1, <2>2, Apart
<1>7. db \in Contents
  BY <1>6 DEF Contents
<1>8. /\ profile \in Profiles
      /\ open = {} /\ view = [r \in Req |-> NoView]
      /\ writes = [r \in Req |-> {}] /\ stale = [r \in Req |-> {}]
      /\ pc = [r \in Req |-> "idle"] /\ req = [r \in Req |-> NoRequest]
  BY DEF Init, MongoInit, Proc
<1>9. Active = {}
  BY <1>8 DEF Active
<1>10. TypeOK
  BY <1>7, <1>8, <1>9 DEF TypeOK
<1>11. TxnsOK
  BY <1>8 DEF TxnsOK, PendingWritesFresh
<1>12. CallsOK
  <2>1. \A r \in Req : r \in Step /\ r \notin Range(steps)
    BY <1>5, Apart
  <2>2. \A r \in Req : ~db[r].there
    BY <1>6, <2>1
  <2>3. Steps(db) = steps
    BY <1>6 DEF Steps
  <2>4. \A r \in Req : Fresh(r)
    BY <1>9, <2>1, <2>2, <2>3 DEF Fresh
  <2> QED
    BY <1>8, <1>9, <2>4 DEF CallsOK
<1>13. EffectsOK
  BY <1>8 DEF EffectsOK
<1>14. JobKept /\ Listed(db, profile)
  <2>1. Steps(db) = steps /\ db[JobId].there
    BY <1>6 DEF Steps
  <2>2. StepsThere(db) = Range(steps)
    BY <1>5, <1>6 DEF StepsThere
  <2> QED
    BY <1>5, <2>1, <2>2 DEF JobKept, Listed
<1>15. Tidy(db)
  BY <1>6 DEF Tidy
<1> QED
  BY <1>10, <1>11, <1>12, <1>13, <1>14, <1>15 DEF IInv

-----------------------------------------------------------------------------
(* Transactions *)

\* A handler writes once, in a new transaction, from committed data.
LEMMA WriteFacts ==
  ASSUME IInv, NEW r \in Req, pc[r] = "write", NEW v, NEW W \in SUBSET Doc,
         TxnWrite(r, v, W), Goto(r, "commit")
  PROVE  /\ r \notin open /\ open' = open \cup {r}
         /\ db' = db /\ stale' = stale /\ req' = req
         /\ view' \in [Req -> Contents \cup {NoView, v}] /\ view'[r] = v
         /\ writes' \in [Req -> SUBSET Doc] /\ writes'[r] = W
         /\ stale[r] = {}
         /\ \A q \in open : W \cap writes[q] = {}
         /\ pc' = [pc EXCEPT ![r] = "commit"]
         /\ \A q \in Req \ {r} : /\ view'[q] = view[q] /\ writes'[q] = writes[q]
                                /\ pc'[q] = pc[q]
<1>1. /\ pc \in [Req -> {"idle", "read", "write", "commit", "done"}]
      /\ view \in [Req -> Contents \cup {NoView}] /\ writes \in [Req -> SUBSET Doc]
  BY DEF IInv, TypeOK
<1>2. r \notin open /\ writes[r] = {} /\ stale[r] = {}
  BY DEF IInv, TxnsOK
<1>3. /\ open' = open \cup {r} /\ view' = [view EXCEPT ![r] = v]
      /\ writes' = [writes EXCEPT ![r] = @ \cup W] /\ db' = db /\ stale' = stale
      /\ W \cap UNION {writes[q] : q \in open \ {r}} = {}
  BY DEF TxnWrite, Conflicting
<1>4. pc' = [pc EXCEPT ![r] = "commit"] /\ req' = req
  BY DEF Goto
<1>5. \A q \in open : W \cap writes[q] = {}
  BY <1>2, <1>3
<1> QED
  BY <1>1, <1>2, <1>3, <1>4, <1>5

LEMMA WriteKeeps ==
  ASSUME IInv, NEW r \in Req, pc[r] = "write", NEW v \in Contents,
         NEW W \in SUBSET Doc, TxnWrite(r, v, W), Goto(r, "commit"),
         UNCHANGED profile, Tidy(v), \A d \in Doc \ W : v[d] = db[d],
         (req[r].op = "add" => AddEffect(r))',
         (req[r].op = "remove" => RemoveEffect(r))',
         (req[r].op = "deleteJob" => DeleteEffect(r))'
  PROVE  IInv'
<1>1. /\ r \notin open /\ open' = open \cup {r}
      /\ db' = db /\ stale' = stale /\ req' = req
      /\ view' \in [Req -> Contents \cup {NoView}] /\ view'[r] = v
      /\ writes' \in [Req -> SUBSET Doc] /\ writes'[r] = W
      /\ stale[r] = {}
      /\ \A q \in open : W \cap writes[q] = {}
      /\ pc' = [pc EXCEPT ![r] = "commit"]
      /\ \A q \in Req \ {r} : /\ view'[q] = view[q] /\ writes'[q] = writes[q]
                             /\ pc'[q] = pc[q]
  BY WriteFacts
<1>2. pc \in [Req -> {"idle", "read", "write", "commit", "done"}] /\ open \subseteq Req
  BY DEF IInv, TypeOK
<1>3. pc'[r] = "commit" /\ Active' = Active
  BY <1>1, <1>2 DEF Active
<1>4. TypeOK'
  <2>1. \A q \in open' : view'[q] \in Contents
    BY <1>1, <1>2 DEF IInv, TypeOK
  <2> QED
    BY <1>1, <1>2, <1>3, <2>1 DEF IInv, TypeOK
<1>5. TxnsOK'
  <2>1. open' = {q \in Req : pc'[q] = "commit"}
    BY <1>1, <1>2, <1>3 DEF IInv, TxnsOK
  <2>2. \A q \in Req \ open' : writes'[q] = {} /\ stale'[q] = {}
    BY <1>1 DEF IInv, TxnsOK
  <2>3. PendingWritesFresh'
    <3>1. \A q \in open' : writes'[q] \cap stale'[q] = {}
      BY <1>1, <1>2 DEF IInv, TxnsOK, PendingWritesFresh
    <3>2. \A q \in open' : \A d \in Doc \ (writes'[q] \cup stale'[q]) :
            view'[q][d] = db'[d]
      BY <1>1, <1>2 DEF IInv, TxnsOK, PendingWritesFresh
    <3>3. \A p, q \in open' : p # q => writes'[p] \cap writes'[q] = {}
      BY <1>1, <1>2 DEF IInv, TxnsOK, PendingWritesFresh
    <3> QED
      BY <3>1, <3>2, <3>3 DEF PendingWritesFresh
  <2> QED
    BY <2>1, <2>2, <2>3 DEF TxnsOK
<1>6. CallsOK'
  <2>1. \A q \in Req : Fresh(q) => Fresh(q)'
    BY <1>1, <1>3 DEF Fresh, Steps
  <2> QED
    BY <1>1, <1>2, <1>3, <2>1 DEF IInv, CallsOK
<1>7. EffectsOK'
  <2> SUFFICES ASSUME NEW q \in open'
               PROVE  /\ Tidy(view'[q])
                      /\ (req[q].op = "add" => AddEffect(q))'
                      /\ (req[q].op = "remove" => RemoveEffect(q))'
                      /\ (req[q].op = "deleteJob" => DeleteEffect(q))'
    BY DEF EffectsOK
  <2>1. CASE q = r
    BY <1>1, <2>1
  <2>2. CASE q # r
    <3>1. q \in open /\ view'[q] = view[q] /\ writes'[q] = writes[q]
      BY <1>1, <1>2, <2>2
    <3>2. /\ Tidy(view[q])
          /\ req[q].op = "add" => AddEffect(q)
          /\ req[q].op = "remove" => RemoveEffect(q)
          /\ req[q].op = "deleteJob" => DeleteEffect(q)
      BY <3>1 DEF IInv, EffectsOK
    <3>3. /\ AddEffect(q)' = AddEffect(q) /\ RemoveEffect(q)' = RemoveEffect(q)
          /\ DeleteEffect(q)' = DeleteEffect(q)
      <4>1. UNCHANGED <<db, req, profile>>
        BY <1>1
      <4>2. AddEffect(q)' = AddEffect(q)
        BY <3>1, <4>1 DEF AddEffect, KeepsSteps
      <4>3. RemoveEffect(q)' = RemoveEffect(q)
        BY <3>1, <4>1 DEF RemoveEffect, KeepsSteps, Relisted
      <4>4. DeleteEffect(q)' = DeleteEffect(q)
        BY <3>1, <4>1 DEF DeleteEffect
      <4> QED
        BY <4>2, <4>3, <4>4
    <3> QED
      BY <1>1, <3>1, <3>2, <3>3
  <2> QED
    BY <2>1, <2>2
<1> QED
  BY <1>1, <1>4, <1>5, <1>6, <1>7 DEF IInv, JobKept

\* The transactions of R end; D are the documents that change.
LEMMA EndStore ==
  ASSUME IInv, NEW R \in SUBSET Req, NEW D \in SUBSET Doc, EndTxns(R, D),
         db' \in Contents, \A d \in Doc \ D : db'[d] = db[d],
         \A q \in open \ R : writes[q] \cap D = {} /\ req'[q] = req[q],
         db'[JobId].there => db[JobId].there, UNCHANGED profile,
         {r \in Req : pc'[r] = "commit"} = open \ R
  PROVE  /\ view' \in [Req -> Contents \cup {NoView}] /\ \A r \in open' : view'[r] \in Contents
         /\ writes' \in [Req -> SUBSET Doc] /\ stale' \in [Req -> SUBSET Doc]
         /\ TxnsOK' /\ EffectsOK'
<1>1. /\ view \in [Req -> Contents \cup {NoView}] /\ \A r \in open : view[r] \in Contents
      /\ writes \in [Req -> SUBSET Doc] /\ stale \in [Req -> SUBSET Doc]
      /\ open \subseteq Req
  BY DEF IInv, TypeOK
<1>2. /\ open' = open \ R
      /\ view' = [p \in Req |-> IF p \in R THEN NoView ELSE view[p]]
      /\ writes' = [p \in Req |-> IF p \in R THEN {} ELSE writes[p]]
      /\ stale' = [p \in Req |-> IF p \in open \ R THEN stale[p] \cup D ELSE {}]
  BY DEF EndTxns, Proc
<1>3. \A q \in open \ R : /\ q \in Req /\ view'[q] = view[q] /\ writes'[q] = writes[q]
                          /\ stale'[q] = stale[q] \cup D
  BY <1>1, <1>2
<1>4. PendingWritesFresh'
  BY <1>1, <1>2, <1>3 DEF IInv, TxnsOK, PendingWritesFresh
<1>5. TxnsOK'
  <2>1. \A q \in Req \ open' : writes'[q] = {} /\ stale'[q] = {}
    BY <1>2 DEF IInv, TxnsOK
  <2> QED
    BY <1>2, <1>4, <2>1 DEF TxnsOK
<1>6. EffectsOK'
  <2> SUFFICES ASSUME NEW q \in open \ R
               PROVE  /\ Tidy(view'[q])
                      /\ (req[q].op = "add" => AddEffect(q))'
                      /\ (req[q].op = "remove" => RemoveEffect(q))'
                      /\ (req[q].op = "deleteJob" => DeleteEffect(q))'
    BY <1>2 DEF EffectsOK
  <2>1. /\ view'[q] = view[q] /\ writes'[q] = writes[q] /\ req'[q] = req[q]
        /\ writes[q] \subseteq Doc /\ \A d \in writes[q] : db'[d] = db[d]
    BY <1>1, <1>3
  <2>2. /\ Tidy(view[q])
        /\ req[q].op = "add" => AddEffect(q)
        /\ req[q].op = "remove" => RemoveEffect(q)
        /\ req[q].op = "deleteJob" => DeleteEffect(q)
    BY DEF IInv, EffectsOK
  <2>3. JobId \in writes[q] => Steps(db') = Steps(db) /\ db'[JobId] = db[JobId]
    BY <2>1 DEF Steps
  <2>4. (req[q].op = "add" => AddEffect(q))'
    BY <2>1, <2>2, <2>3 DEF AddEffect, KeepsSteps
  <2>5. (req[q].op = "remove" => RemoveEffect(q))'
    <3>1. CASE req[q].op # "remove"
      BY <2>1, <3>1
    <3>2. CASE req[q].op = "remove" /\ JobId \in writes[q]
      BY <2>1, <2>2, <2>3, <3>2 DEF RemoveEffect, KeepsSteps, Relisted
    <3>3. CASE req[q].op = "remove" /\ JobId \notin writes[q]
      BY <2>1, <2>2, <3>3 DEF RemoveEffect, KeepsSteps, Relisted
    <3> QED
      BY <3>1, <3>2, <3>3
  <2>6. (req[q].op = "deleteJob" => DeleteEffect(q))'
    BY <2>1, <2>2, <2>3 DEF DeleteEffect
  <2> QED
    BY <2>1, <2>2, <2>4, <2>5, <2>6
<1> QED
  BY <1>1, <1>2, <1>5, <1>6

LEMMA EndCalls ==
  ASSUME IInv, NEW R \in SUBSET Active, End(R), UNCHANGED profile,
         \A q \in Req \ R : pc[q] # "done" => ~db'[q].there /\ q \notin Range(Steps(db'))
  PROVE  /\ CallsOK'
         /\ pc' \in [Req -> {"idle", "read", "write", "commit", "done"}]
         /\ req' \in [Req -> Request \cup {NoRequest}]
         /\ \A r \in Active' : req'[r] \in Request
         /\ {r \in Req : pc'[r] = "commit"} = open \ R
         /\ \A q \in open \ R : req'[q] = req[q]
<1>1. /\ pc \in [Req -> {"idle", "read", "write", "commit", "done"}]
      /\ req \in [Req -> Request \cup {NoRequest}]
      /\ \A r \in Active : req[r] \in Request
      /\ open = {r \in Req : pc[r] = "commit"} /\ R \subseteq Req
  BY DEF IInv, TypeOK, TxnsOK, Active
<1>2. /\ pc' = [r \in Req |-> IF r \in R THEN "done" ELSE pc[r]]
      /\ req' = [r \in Req |-> IF r \in R THEN NoRequest ELSE req[r]]
  BY DEF End
<1>3. /\ pc' \in [Req -> {"idle", "read", "write", "commit", "done"}]
      /\ req' \in [Req -> Request \cup {NoRequest}]
  BY <1>1, <1>2
<1>4. /\ \A q \in Req \ R : pc'[q] = pc[q] /\ req'[q] = req[q]
      /\ \A q \in R : pc'[q] = "done"
  BY <1>1, <1>2
<1>5. Active' = Active \ R
  BY <1>4 DEF Active
<1>6. CallsOK'
  <2>1. \A q \in Req : pc'[q] \in {"write", "commit"} =>
          req'[q].op \notin {"update", "updateJob"}
    BY <1>4 DEF IInv, CallsOK
  <2>2. \A q \in Active' : req'[q] = req[q] /\ pc'[q] = pc[q] /\ q \in Active
    BY <1>4, <1>5 DEF Active
  <2>3. \A q \in Req : pc'[q] # "done" => Fresh(q)'
    <3> SUFFICES ASSUME NEW q \in Req, pc'[q] # "done" PROVE Fresh(q)'
      OBVIOUS
    <3>1. q \notin R /\ pc[q] # "done" /\ Fresh(q)
      BY <1>4 DEF IInv, CallsOK
    <3>2. ~db'[q].there /\ q \notin Range(Steps(db'))
      BY <3>1
    <3>3. \A t \in Active' : q \notin Range(req'[t].steps)
      BY <2>2, <3>1 DEF Fresh
    <3> QED
      BY <3>2, <3>3 DEF Fresh
  <2> QED
    BY <2>1, <2>2, <2>3 DEF IInv, CallsOK
<1>7. \A q \in Active' : req'[q] \in Request
  BY <1>1, <1>4, <1>5 DEF Active
<1>8. {r \in Req : pc'[r] = "commit"} = open \ R
  BY <1>1, <1>4
<1> QED
  BY <1>1, <1>3, <1>4, <1>6, <1>7, <1>8

\* The requests R end, and with them the transactions of T; D changes.
LEMMA EndKeeps ==
  ASSUME IInv, NEW R \in SUBSET Active, NEW T \in SUBSET R, NEW D \in SUBSET Doc,
         UNCHANGED profile, End(R), EndTxns(T, D), open \ T = open \ R,
         db' \in Contents, \A d \in Doc \ D : db'[d] = db[d],
         \A q \in open \ R : writes[q] \cap D = {},
         db'[JobId].there => db[JobId].there,
         \A q \in Req \ R : pc[q] # "done" => ~db'[q].there /\ q \notin Range(Steps(db')),
         JobKept', Tidy(db'), Listed(db', profile)
  PROVE  IInv'
<1>1. /\ CallsOK'
      /\ pc' \in [Req -> {"idle", "read", "write", "commit", "done"}]
      /\ req' \in [Req -> Request \cup {NoRequest}]
      /\ \A r \in Active' : req'[r] \in Request
      /\ {r \in Req : pc'[r] = "commit"} = open \ R
      /\ \A q \in open \ R : req'[q] = req[q]
  BY EndCalls
<1>2. T \in SUBSET Req /\ open \subseteq Req /\ profile \in Profiles
  BY DEF Active, IInv, TypeOK
<1>3. /\ view' \in [Req -> Contents \cup {NoView}] /\ \A r \in open' : view'[r] \in Contents
      /\ writes' \in [Req -> SUBSET Doc] /\ stale' \in [Req -> SUBSET Doc]
      /\ TxnsOK' /\ EffectsOK'
  <2>1. \A q \in open \ T : writes[q] \cap D = {} /\ req'[q] = req[q]
    BY <1>1
  <2>2. {r \in Req : pc'[r] = "commit"} = open \ T
    BY <1>1
  <2> QED
    BY <1>2, <2>1, <2>2, EndStore
<1>4. TypeOK'
  <2>1. open' \subseteq Req
    BY <1>2 DEF EndTxns
  <2> QED
    BY <1>1, <1>2, <1>3, <2>1 DEF TypeOK
<1> QED
  BY <1>1, <1>3, <1>4 DEF IInv

LEMMA FailKeeps ==
  ASSUME IInv, NEW R \in SUBSET Active, Fail(R), UNCHANGED profile
  PROVE  IInv'
<1>1. End(R) /\ EndTxns(R, {}) /\ db' = db
  BY DEF Fail, TxnAbort
<1>2. /\ db \in Contents /\ JobKept /\ Tidy(db) /\ Listed(db, profile)
      /\ \A q \in Req : pc[q] # "done" => ~db[q].there /\ q \notin Range(Steps(db))
  BY DEF IInv, TypeOK, CallsOK, Fresh
<1>3. /\ JobKept' /\ Tidy(db') /\ Listed(db', profile)
      /\ \A q \in Req : pc[q] # "done" => ~db'[q].there /\ q \notin Range(Steps(db'))
  BY <1>1, <1>2 DEF JobKept
<1>4. open \ R = open \ R /\ R \in SUBSET R /\ {} \in SUBSET Doc
  OBVIOUS
<1>5. db' \in Contents /\ (\A d \in Doc \ {} : db'[d] = db[d])
  BY <1>1, <1>2
<1> QED
  BY <1>1, <1>3, <1>4, <1>5, EndKeeps

\* A step of r that leaves the store alone.
LEMMA ControlKeeps ==
  ASSUME IInv, NEW r \in Req, r \notin open, UNCHANGED <<profile, storeVars>>,
         pc[r] # "done", pc'[r] \in {"read", "write"}, req'[r] \in Request,
         pc' = [pc EXCEPT ![r] = pc'[r]], req' = [req EXCEPT ![r] = req'[r]],
         req'[r].op \in profile.ops,
         pc'[r] = "write" => req'[r].op \notin {"update", "updateJob"},
         req'[r].op \in {"add", "deleteJob"} => req'[r].step = r,
         req'[r].op = "update" \/ (req'[r].op = "add" /\ pc'[r] # "read") =>
           req'[r].order # 0,
         req'[r].op = "add" => req'[r].lastStep \in profile.flags,
         IsInjective(req'[r].steps),
         \A q \in Req : pc[q] # "done" => q \notin Range(req'[r].steps)
  PROVE  IInv'
<1>1. /\ pc \in [Req -> {"idle", "read", "write", "commit", "done"}]
      /\ req \in [Req -> Request \cup {NoRequest}]
      /\ \A q \in Active : req[q] \in Request
      /\ open = {q \in Req : pc[q] = "commit"}
  BY DEF IInv, TypeOK, TxnsOK
<1>2. UNCHANGED <<profile, db, open, view, writes, stale>>
  BY DEF storeVars
<1>3. \A q \in Req \ {r} : pc'[q] = pc[q] /\ req'[q] = req[q]
  BY <1>1
<1>4. /\ pc' \in [Req -> {"idle", "read", "write", "commit", "done"}]
      /\ req' \in [Req -> Request \cup {NoRequest}]
  BY <1>1
<1>5. \A q \in Active' \ {r} : q \in Active
  BY <1>3 DEF Active
<1>6. TypeOK'
  <2>1. \A q \in Active' : req'[q] \in Request
    BY <1>1, <1>3, <1>5 DEF Active
  <2> QED
    BY <1>2, <1>4, <2>1 DEF IInv, TypeOK
<1>7. TxnsOK'
  <2>1. open' = {q \in Req : pc'[q] = "commit"}
    BY <1>1, <1>2, <1>3
  <2> QED
    BY <1>2, <2>1 DEF IInv, TxnsOK, PendingWritesFresh
<1>8. CallsOK'
  <2>1. \A q \in Req : pc'[q] \in {"write", "commit"} =>
          req'[q].op \notin {"update", "updateJob"}
    BY <1>3 DEF IInv, CallsOK
  <2>2. \A q \in Active' \ {r} : q \in Active /\ pc'[q] = pc[q] /\ req'[q] = req[q]
    BY <1>3, <1>5 DEF Active
  <2>3. \A q \in Req : pc'[q] # "done" => Fresh(q)'
    <3> SUFFICES ASSUME NEW q \in Req, pc'[q] # "done" PROVE Fresh(q)'
      OBVIOUS
    <3>1. pc[q] # "done" /\ Fresh(q)
      BY <1>3 DEF IInv, CallsOK
    <3>2. ~db'[q].there /\ q \notin Range(Steps(db'))
      BY <1>2, <3>1 DEF Fresh, Steps
    <3>3. \A t \in Active' : q \notin Range(req'[t].steps)
      BY <2>2, <3>1 DEF Fresh
    <3> QED
      BY <3>2, <3>3 DEF Fresh
  <2> QED
    BY <1>2, <2>1, <2>2, <2>3 DEF IInv, CallsOK
<1>9. EffectsOK'
  <2>1. \A q \in open : req'[q] = req[q]
    BY <1>1, <1>3
  <2> QED
    BY <1>2, <2>1
    DEF IInv, EffectsOK, AddEffect, RemoveEffect, DeleteEffect, KeepsSteps, Relisted
<1> QED
  BY <1>2, <1>6, <1>7, <1>8, <1>9 DEF IInv, JobKept

-----------------------------------------------------------------------------
(* Steps that read *)

LEMMA ActiveAt ==
  ASSUME IInv, NEW r \in Req, NEW op, NEW label \in {"read", "write", "commit"},
         At(r, op, label)
  PROVE  /\ r \in Active /\ pc[r] = label /\ req[r].op = op /\ req[r] \in Request
         /\ req[r].step \in Step /\ req[r].order \in Nat /\ req[r].lastStep \in BOOLEAN
         /\ req[r].known \in SUBSET Step /\ op \in profile.ops
         /\ req[r].steps \in Seq(Step) /\ IsInjective(req[r].steps)
         /\ (r \in open <=> label = "commit") /\ ~db[r].there
         /\ r \notin Range(Steps(db))
         /\ \A q \in Req : pc[q] # "done" => q \notin Range(req[r].steps)
         /\ op \in {"add", "deleteJob"} => req[r].step = r
<1>1. pc[r] = label /\ req[r].op = op /\ r \in Active
  BY DEF At, Active
<1>2. req[r] \in Request
  BY <1>1 DEF IInv, TypeOK
<1>3. /\ Fresh(r) /\ \A q \in Req : pc[q] # "done" => Fresh(q)
      /\ IsInjective(req[r].steps)
  BY <1>1 DEF IInv, CallsOK
<1>4. \A q \in Req : pc[q] # "done" => q \notin Range(req[r].steps)
  BY <1>1, <1>3 DEF Fresh
<1> QED
  BY <1>1, <1>2, <1>3, <1>4 DEF IInv, TxnsOK, CallsOK, Request, Fresh

LEMMA ArriveKeeps ==
  ASSUME IInv, NEW r \in Req, Arrive(r), UNCHANGED profile
  PROVE  IInv'
<1>1. PICK q \in Calls : \E s_1 \in Step, steps_1 \in Lists(q) :
        /\ IF q.op \in {"add", "deleteJob", "updateJob"} THEN s_1 = r ELSE db[s_1].there
        /\ q.op = "remove" /\ ~profile.repeats =>
             \A t \in Active : req[t].op = "remove" => req[t].step # s_1
        /\ req' = [req EXCEPT ![r] = [op |-> q.op, step |-> s_1, order |-> q.order,
                                      lastStep |-> q.lastStep, steps |-> steps_1,
                                      known |-> {}]]
  BY DEF Arrive
<1>0. PICK s \in Step, steps \in Lists(q) :
        /\ IF q.op \in {"add", "deleteJob", "updateJob"} THEN s = r ELSE db[s].there
        /\ req' = [req EXCEPT ![r] = [op |-> q.op, step |-> s, order |-> q.order,
                                      lastStep |-> q.lastStep, steps |-> steps,
                                      known |-> {}]]
  BY <1>1
<1>2. /\ pc[r] = "idle" /\ pc' = [pc EXCEPT ![r] = "read"] /\ UNCHANGED storeVars
      /\ pc \in [Req -> {"idle", "read", "write", "commit", "done"}]
      /\ req \in [Req -> Request \cup {NoRequest}]
      /\ r \notin open
  BY DEF Arrive, IInv, TypeOK, TxnsOK
<1>3. /\ profile.ops \subseteq Ops /\ profile.lengths \subseteq Nat
      /\ profile.orders \subseteq Nat /\ profile.flags \subseteq BOOLEAN
  BY StepOrderAssumption DEF IInv, TypeOK
<1>4. /\ q.op \in profile.ops /\ q.order \in Nat /\ q.lastStep \in BOOLEAN
      /\ q.op = "update" => q.order # 0
      /\ q.op = "add" => q.lastStep \in profile.flags
  <2>1. CASE q \in [op : profile.ops \cap {"add"}, order : profile.orders,
                    lastStep : profile.flags]
    BY <1>3, <2>1
  <2>2. CASE q \in [op : profile.ops \cap {"update"}, order : profile.orders \ {0},
                    lastStep : BOOLEAN]
    BY <1>3, <2>2
  <2>3. CASE q \in [op : profile.ops \cap {"remove", "deleteJob", "updateJob"},
                    order : {0}, lastStep : {FALSE}]
    <3>1. q.op \in profile.ops /\ q.op \in {"remove", "deleteJob", "updateJob"}
      BY <2>3
    <3>2. q.order \in Nat
      BY <2>3
    <3>3. q.lastStep \in BOOLEAN
      <4>1. q.lastStep \in {FALSE}
        BY <2>3
      <4> QED
        BY <4>1, Zenon
    <3>4. q.op # "update" /\ q.op # "add"
      BY <3>1
    <3> QED
      BY <3>1, <3>2, <3>3, <3>4
  <2> QED
    BY <2>1, <2>2, <2>3 DEF Calls
<1>12. /\ steps \in Seq(Step) /\ IsInjective(steps)
       /\ \A t \in Req : pc[t] # "done" => t \notin Range(steps)
  <2>1. CASE q.op = "updateJob"
    <3>1. PICK n \in profile.lengths : steps \in [1..n -> StepsThere(db)]
      BY <2>1 DEF Lists
    <3>2. n \in Nat /\ IsInjective(steps)
      BY <1>3, <2>1 DEF Lists
    <3>3. \A i \in 1..n : steps[i] \in Step /\ db[steps[i]].there
      BY <3>1 DEF StepsThere
    <3>4. steps \in [1..n -> Step]
      BY <3>1, <3>3
    <3>5. steps \in Seq(Step)
      BY <3>2, <3>4, SeqDef
    <3>6. \A t \in Req : pc[t] # "done" => ~db[t].there
      BY DEF IInv, CallsOK, Fresh
    <3> QED
      BY <3>1, <3>2, <3>3, <3>5, <3>6 DEF Range
  <2>2. CASE q.op # "updateJob"
    <3>1. steps = <<>>
      BY <2>2 DEF Lists
    <3> QED
      BY <3>1, EmptySeq DEF IsInjective, Range
  <2> QED
    BY <2>1, <2>2
<1> DEFINE call == [op |-> q.op, step |-> s, order |-> q.order,
                    lastStep |-> q.lastStep, steps |-> steps, known |-> {}]
<1>5. /\ call \in Request /\ call.op = q.op /\ call.step = s /\ call.order = q.order
      /\ call.lastStep = q.lastStep /\ call.steps = steps
  BY <1>3, <1>4, <1>12 DEF Request
<1>6. req' = [req EXCEPT ![r] = call]
  BY <1>0
<1> HIDE DEF call
<1>7. /\ pc'[r] = "read" /\ pc' = [pc EXCEPT ![r] = pc'[r]]
      /\ req'[r] = call /\ req' = [req EXCEPT ![r] = req'[r]]
  BY <1>2, <1>6
<1>8. call.op \in {"add", "deleteJob"} => call.step = r
  BY <1>0, <1>5
<1>9. UNCHANGED <<profile, storeVars>>
  BY <1>2
<1>10. /\ req'[r] \in Request /\ req'[r].op \in profile.ops
       /\ req'[r].op \in {"add", "deleteJob"} => req'[r].step = r
       /\ req'[r].op = "update" => req'[r].order # 0
       /\ req'[r].op = "add" => req'[r].lastStep \in profile.flags
       /\ IsInjective(req'[r].steps)
       /\ \A t \in Req : pc[t] # "done" => t \notin Range(req'[r].steps)
  BY <1>4, <1>5, <1>7, <1>8, <1>12
<1>11. pc[r] # "done" /\ pc'[r] \in {"read", "write"} /\ pc'[r] # "write"
  BY <1>2, <1>7
<1> QED
  BY <1>2, <1>7, <1>9, <1>10, <1>11, ControlKeeps

LEMMA AddReadKeeps ==
  ASSUME IInv, NEW r \in Req, AddRead(r), UNCHANGED profile
  PROVE  IInv'
<1>1. /\ r \in Active /\ pc[r] = "read" /\ req[r].op = "add" /\ req[r] \in Request
      /\ req[r].order \in Nat /\ req[r].lastStep \in BOOLEAN /\ req[r].step = r
      /\ r \notin open /\ "add" \in profile.ops /\ IsInjective(req[r].steps)
      /\ \A q \in Req : pc[q] # "done" => q \notin Range(req[r].steps)
  BY ActiveAt DEF AddRead
<1>2. CASE ~db[JobId].there /\ Fail({r})
  BY <1>1, <1>2, FailKeeps
<1>3. CASE /\ db[JobId].there
           /\ req' = [req EXCEPT
                        ![r].order = IF @ = 0 THEN Count(db, Steps(db)) + 1 ELSE @,
                        ![r].known = Range(Steps(db)) \cap StepsThere(db)]
           /\ pc' = [pc EXCEPT ![r] = "write"]
           /\ UNCHANGED storeVars
  <2> DEFINE n == IF req[r].order = 0 THEN Count(db, Steps(db)) + 1 ELSE req[r].order
             S == Range(Steps(db)) \cap StepsThere(db)
             call == [req[r] EXCEPT !.order = n, !.known = S]
  <2>1. n \in Nat \ {0}
    <3>1. Steps(db) \in Seq(Step)
      BY ContentsFields DEF IInv, TypeOK
    <3>2. Count(db, Steps(db)) \in Nat
      BY <3>1, FilledFinite, LenProperties DEF Count
    <3> QED
      BY <1>1, <3>2
  <2>2. S \in SUBSET Step
    BY DEF StepsThere
  <2>3. /\ pc \in [Req -> {"idle", "read", "write", "commit", "done"}]
        /\ req \in [Req -> Request \cup {NoRequest}]
    BY DEF IInv, TypeOK
  <2>4. req' = [req EXCEPT ![r] = call]
    BY <1>3, <2>3
  <2> HIDE DEF n, S
  <2>5. /\ call \in Request /\ call.op = "add" /\ call.step = r /\ call.order = n
        /\ call.lastStep = req[r].lastStep /\ call.steps = req[r].steps
    BY <1>1, <2>1, <2>2 DEF Request
  <2> HIDE DEF call
  <2>6. /\ req'[r] = call /\ req' = [req EXCEPT ![r] = req'[r]]
        /\ pc'[r] = "write" /\ pc' = [pc EXCEPT ![r] = pc'[r]]
        /\ UNCHANGED <<profile, storeVars>>
    BY <1>3, <2>3, <2>4
  <2>7. req[r].lastStep \in profile.flags
    BY <1>1 DEF IInv, CallsOK
  <2> QED
    BY <1>1, <2>1, <2>5, <2>6, <2>7, ControlKeeps
<1> QED
  BY <1>2, <1>3 DEF AddRead

LEMMA GotoWriteKeeps ==
  ASSUME IInv, NEW r \in Req, NEW op \in {"remove", "deleteJob"}, At(r, op, "read"),
         Goto(r, "write"), UNCHANGED <<profile, storeVars>>
  PROVE  IInv'
<1>1. /\ pc[r] = "read" /\ req[r].op = op /\ req[r] \in Request /\ r \notin open
      /\ op \in profile.ops /\ (op = "deleteJob" => req[r].step = r)
      /\ IsInjective(req[r].steps)
      /\ \A q \in Req : pc[q] # "done" => q \notin Range(req[r].steps)
  BY ActiveAt
<1>2. /\ pc \in [Req -> {"idle", "read", "write", "commit", "done"}]
      /\ req \in [Req -> Request \cup {NoRequest}]
  BY DEF IInv, TypeOK
<1>3. /\ pc' = [pc EXCEPT ![r] = pc'[r]] /\ pc'[r] = "write"
      /\ req' = [req EXCEPT ![r] = req'[r]] /\ req'[r] = req[r]
  BY <1>2 DEF Goto
<1> QED
  BY <1>1, <1>3, ControlKeeps

LEMMA RemoveReadKeeps ==
  ASSUME IInv, NEW r \in Req, RemoveRead(r), UNCHANGED profile
  PROVE  IInv'
<1>1. At(r, "remove", "read") /\ r \in Active
  BY ActiveAt DEF RemoveRead
<1>2. CASE Fail({r})
  BY <1>1, <1>2, FailKeeps
<1>3. CASE Goto(r, "write") /\ UNCHANGED storeVars
  BY <1>1, <1>3, GotoWriteKeeps
<1> QED
  BY <1>2, <1>3 DEF RemoveRead

LEMMA DeleteReadKeeps ==
  ASSUME IInv, NEW r \in Req, DeleteRead(r), UNCHANGED profile
  PROVE  IInv'
<1>1. At(r, "deleteJob", "read") /\ r \in Active
  BY ActiveAt DEF DeleteRead
<1>2. CASE Fail({r})
  BY <1>1, <1>2, FailKeeps
<1>3. CASE Goto(r, "write") /\ UNCHANGED storeVars
  BY <1>1, <1>3, GotoWriteKeeps
<1> QED
  BY <1>2, <1>3 DEF DeleteRead

-----------------------------------------------------------------------------
(* Steps that write *)

LEMMA UpdateKeeps ==
  ASSUME IInv, NEW r \in Req, UpdateStep(r), UNCHANGED profile
  PROVE  IInv'
<1> DEFINE s == req[r].step
           doc == Stored(req[r].order, req[r].lastStep)
<1>1. /\ r \in Active /\ r \notin open /\ s \in Step
      /\ req[r].order \in Nat \ {0} /\ req[r].lastStep \in BOOLEAN
  <2>1. /\ At(r, "update", "read") /\ r \in Active /\ r \notin open /\ s \in Step
        /\ req[r].order \in Nat /\ req[r].lastStep \in BOOLEAN /\ req[r].op = "update"
    BY ActiveAt DEF UpdateStep
  <2>2. req[r].order # 0
    BY <2>1 DEF IInv, CallsOK
  <2> QED
    BY <2>1, <2>2
<1>2. doc \in StepDoc /\ doc.there
  BY <1>1 DEF Stored, StepDoc
<1>3. s # JobId /\ s \in Doc /\ JobId \in Doc
  BY <1>1, Apart
<1>4. End({r}) /\ IF db[s].there /\ db[s] # doc THEN PlainWrite(s, doc) ELSE UNCHANGED storeVars
  BY DEF UpdateStep
<1> HIDE DEF s, doc
<1>5. /\ db \in Contents /\ open \subseteq Req /\ view \in [Req -> Contents \cup {NoView}]
      /\ writes \in [Req -> SUBSET Doc] /\ stale \in [Req -> SUBSET Doc]
      /\ \A q \in Req \ open : stale[q] = {}
      /\ \A q \in Req : pc[q] # "done" => ~db[q].there /\ q \notin Range(Steps(db))
      /\ JobKept /\ Tidy(db) /\ Listed(db, profile)
  BY DEF IInv, TypeOK, TxnsOK, CallsOK, Fresh
<1>6. CASE db[s].there /\ PlainWrite(s, doc)
  <2>1. /\ EndTxns({}, {s}) /\ db' = [db EXCEPT ![s] = doc]
        /\ \A q \in open : writes[q] \cap {s} = {}
    BY <1>6 DEF PlainWrite
  <2>2. db \in [Doc -> JobDoc \cup StepDoc]
    BY <1>5, ContentsFields
  <2>3. /\ db'[JobId] = db[JobId] /\ db'[s] = doc
        /\ \A d \in Doc \ {s} : db'[d] = db[d]
    BY <1>3, <2>1, <2>2
  <2>4. db' \in Contents
    BY <1>2, <1>5, <2>1, <2>2, <2>3, Apart DEF Contents
  <2>5. \A d \in Doc : db'[d].there <=> db[d].there
    BY <1>2, <1>6, <2>3
  <2>6. Steps(db') = Steps(db) /\ StepsThere(db') = StepsThere(db)
    BY <2>3, <2>5, Apart DEF Steps, StepsThere
  <2>7. JobKept' /\ Tidy(db') /\ Listed(db', profile)
    BY <1>2, <1>5, <2>3, <2>5, <2>6, Apart DEF JobKept, Tidy, Listed
  <2>8. \A q \in Req \ {r} : pc[q] # "done" => ~db'[q].there /\ q \notin Range(Steps(db'))
    BY <1>5, <2>5, <2>6, Apart
  <2>9. {r} \in SUBSET Active /\ {} \in SUBSET {r} /\ open \ {} = open \ {r}
    BY <1>1
  <2> QED
    BY <1>3, <1>4, <2>1, <2>3, <2>4, <2>7, <2>8, <2>9, EndKeeps
<1>7. CASE UNCHANGED storeVars
  <2>1. UNCHANGED <<db, open, view, writes, stale>>
    BY <1>7 DEF storeVars
  <2>2. EndTxns({}, {})
    BY <1>5, <2>1 DEF EndTxns, Proc
  <2>3. JobKept' /\ Tidy(db') /\ Listed(db', profile)
    BY <1>5, <2>1 DEF JobKept
  <2>4. {r} \in SUBSET Active /\ {} \in SUBSET {r} /\ open \ {} = open \ {r}
    BY <1>1
  <2>5. \A q \in Req \ {r} : pc[q] # "done" => ~db'[q].there /\ q \notin Range(Steps(db'))
    BY <1>5, <2>1
  <2> QED
    BY <1>4, <1>5, <2>1, <2>2, <2>3, <2>4, <2>5, EndKeeps
<1> QED
  BY <1>4, <1>6, <1>7

\* A PATCH of the job replaces the list by one without repetitions, in which no
\* step occurs that is still to be created.
LEMMA UpdateJobKeeps ==
  ASSUME IInv, NEW r \in Req, UpdateJob(r), UNCHANGED profile
  PROVE  IInv'
<1> DEFINE doc == [there |-> TRUE, steps |-> req[r].steps]
<1>1. /\ r \in Active /\ r \notin open /\ req[r].steps \in Seq(Step)
      /\ IsInjective(req[r].steps) /\ "updateJob" \in profile.ops
      /\ \A q \in Req : pc[q] # "done" => q \notin Range(req[r].steps)
  BY ActiveAt DEF UpdateJob
<1>2. doc \in JobDoc /\ doc.there /\ doc.steps = req[r].steps
  BY <1>1 DEF JobDoc
<1>3. JobId \in Doc
  BY Apart
<1>4. End({r}) /\ IF db[JobId].there /\ db[JobId] # doc
                  THEN PlainWrite(JobId, doc) ELSE UNCHANGED storeVars
  BY DEF UpdateJob
<1> HIDE DEF doc
<1>5. /\ db \in Contents /\ open \subseteq Req /\ view \in [Req -> Contents \cup {NoView}]
      /\ writes \in [Req -> SUBSET Doc] /\ stale \in [Req -> SUBSET Doc]
      /\ \A q \in Req \ open : stale[q] = {}
      /\ \A q \in Req : pc[q] # "done" => ~db[q].there /\ q \notin Range(Steps(db))
      /\ JobKept /\ Tidy(db) /\ Listed(db, profile)
  BY DEF IInv, TypeOK, TxnsOK, CallsOK, Fresh
<1>6. {r} \in SUBSET Active /\ {} \in SUBSET {r} /\ open \ {} = open \ {r}
  BY <1>1
<1>7. CASE db[JobId].there /\ PlainWrite(JobId, doc)
  <2>1. /\ EndTxns({}, {JobId}) /\ db' = [db EXCEPT ![JobId] = doc]
        /\ \A q \in open : writes[q] \cap {JobId} = {}
    BY <1>7 DEF PlainWrite
  <2>2. db \in [Doc -> JobDoc \cup StepDoc] /\ \A s \in Step : db[s] \in StepDoc
    BY <1>5, ContentsFields
  <2>3. db'[JobId] = doc /\ \A d \in Doc \ {JobId} : db'[d] = db[d]
    BY <1>3, <2>1, <2>2
  <2>4. \A s \in Step : db'[s] = db[s]
    BY <2>3, Apart
  <2>5. db' \in Contents
    BY <1>2, <2>1, <2>2, <2>3, <2>4 DEF Contents
  <2>6. Steps(db') = req[r].steps /\ db'[JobId].there
    BY <1>2, <2>3 DEF Steps
  <2>7. JobKept' /\ Tidy(db') /\ Listed(db', profile)
    BY <1>1, <1>5, <2>4, <2>6 DEF JobKept, Tidy, Listed
  <2>8. \A q \in Req \ {r} : pc[q] # "done" => ~db'[q].there /\ q \notin Range(Steps(db'))
    BY <1>1, <1>5, <2>4, <2>6, Apart
  <2>9. {JobId} \in SUBSET Doc /\ \A d \in Doc \ {JobId} : db'[d] = db[d]
    BY <1>3, <2>3
  <2> QED
    BY <1>4, <1>6, <1>7, <2>1, <2>5, <2>7, <2>8, <2>9, EndKeeps
<1>8. CASE UNCHANGED storeVars
  <2>1. UNCHANGED <<db, open, view, writes, stale>>
    BY <1>8 DEF storeVars
  <2>2. EndTxns({}, {})
    BY <1>5, <2>1 DEF EndTxns, Proc
  <2>3. JobKept' /\ Tidy(db') /\ Listed(db', profile)
    BY <1>5, <2>1 DEF JobKept
  <2>4. \A q \in Req \ {r} : pc[q] # "done" => ~db'[q].there /\ q \notin Range(Steps(db'))
    BY <1>5, <2>1
  <2> QED
    BY <1>4, <1>5, <1>6, <2>1, <2>2, <2>3, <2>4, EndKeeps
<1> QED
  BY <1>4, <1>7, <1>8

\* What the handlers write, from the committed data x.
LEMMA AddedFacts ==
  ASSUME NEW x \in Contents, Tidy(x), NEW q \in Request, NEW r \in Req,
         q.order # 0, ~x[r].there,
         NEW v, v = [d \in Doc |-> Added(x, q, r, d)]
  PROVE  /\ v \in Contents /\ Tidy(v)
         /\ v[r] = Stored(q.order, q.lastStep) /\ v[r].there
         /\ v[JobId] = PushStep(x[JobId], q, r)
         /\ \A d \in Step \ {r} : v[d].there = x[d].there
         /\ \A d \in Step \ {r} : v[d].order = x[d].order
         /\ \A d \in Step \ {r} : d \notin Predecessors(x, q) => v[d] = x[d]
<1>1. /\ x \in [Doc -> JobDoc \cup StepDoc] /\ x[JobId] \in JobDoc
      /\ x[JobId].there \in BOOLEAN /\ Steps(x) \in Seq(Step)
      /\ x[JobId] = [there |-> x[JobId].there, steps |-> Steps(x)]
      /\ \A s \in Step : x[s] \in StepDoc
  BY ContentsFields
<1>2. q.order \in Nat \ {0} /\ q.lastStep \in BOOLEAN
  BY DEF Request
<1>3. Stored(q.order, q.lastStep) \in StepDoc /\ Stored(q.order, q.lastStep).there
  BY <1>2 DEF Stored, StepDoc
<1>4. r \in Step /\ r \in Doc /\ JobId \in Doc /\ r # JobId
  BY Apart
<1>5. v[r] = Stored(q.order, q.lastStep) /\ v[JobId] = PushStep(x[JobId], q, r)
  BY <1>4 DEF Added
<1>6. PushStep(x[JobId], q, r) \in JobDoc
  <2>1. Append(Steps(x), r) \in Seq(Step)
    BY <1>1, <1>4, AppendProperties
  <2> QED
    BY <1>1, <2>1 DEF PushStep, JobDoc, Steps
<1>7. ASSUME NEW d \in Step \ {r}
      PROVE  /\ v[d] = IF d \in Predecessors(x, q) THEN [x[d] EXCEPT !.lastStep = FALSE]
                       ELSE x[d]
             /\ v[d] \in StepDoc /\ v[d].there = x[d].there /\ v[d].order = x[d].order
             /\ ~v[d].there => v[d] = x[d]
  <2>1. d \in Doc /\ d # JobId /\ x[d] \in StepDoc
    BY <1>1, Apart
  <2>2. v[d] = IF d \in Predecessors(x, q) THEN [x[d] EXCEPT !.lastStep = FALSE]
               ELSE x[d]
    BY <2>1 DEF Added
  <2>3. d \in Predecessors(x, q) => x[d].there
    BY DEF Predecessors
  <2> QED
    BY <2>1, <2>2, <2>3 DEF StepDoc
<1>8. \A d \in Step : v[d] \in StepDoc
  BY <1>3, <1>5, <1>7
<1>9. v \in Contents
  <2>1. \A d \in Doc : v[d] \in JobDoc \cup StepDoc
    BY <1>5, <1>6, <1>8, Apart
  <2>2. DOMAIN v = Doc /\ v = [d \in Doc |-> v[d]]
    OBVIOUS
  <2>3. v \in [Doc -> JobDoc \cup StepDoc]
    BY <2>1, <2>2
  <2> QED
    BY <1>5, <1>6, <1>8, <2>3 DEF Contents
<1>10. Tidy(v)
  <2>1. ASSUME NEW d \in Step, ~v[d].there PROVE v[d] = Missing
    BY <1>3, <1>5, <1>7, <2>1 DEF Tidy
  <2>2. ~v[JobId].there => v[JobId] = NoJob
    BY <1>1, <1>5 DEF PushStep, Tidy
  <2> QED
    BY <2>1, <2>2 DEF Tidy
<1> QED
  BY <1>3, <1>5, <1>7, <1>9, <1>10

LEMMA AddWriteKeeps ==
  ASSUME IInv, NEW r \in Req, AddWrite(r), UNCHANGED profile
  PROVE  IInv'
<1> DEFINE v == [d \in Doc |-> Added(db, req[r], r, d)]
           W == {d \in Doc : v[d] # db[d]}
<1>1. /\ r \in Active /\ pc[r] = "write" /\ req[r].op = "add" /\ req[r] \in Request
      /\ r \notin open /\ ~db[r].there /\ req[r].step = r
  BY ActiveAt DEF AddWrite
<1>2. Seen(r) = db
  BY <1>1 DEF Seen
<1>3. /\ v \in Contents /\ Tidy(v) /\ v[r].there
      /\ v[JobId] = PushStep(db[JobId], req[r], r)
      /\ \A d \in Step \ {r} : v[d].there = db[d].there
  <2>1. db \in Contents /\ Tidy(db) /\ req[r].order # 0
    BY <1>1 DEF IInv, TypeOK, CallsOK
  <2>2. v = [d \in Doc |-> Added(db, req[r], r, d)]
    OBVIOUS
  <2> HIDE DEF v
  <2> QED
    BY <1>1, <2>1, <2>2, AddedFacts
<1>4. (TxnWrite(r, v, W) /\ Goto(r, "commit")) \/ Fail({r})
  BY <1>2 DEF AddWrite
<1> HIDE DEF v
<1>5. CASE TxnWrite(r, v, W) /\ Goto(r, "commit")
  <2>1. W \in SUBSET Doc /\ \A d \in Doc \ W : v[d] = db[d]
    OBVIOUS
  <2>2. r \in Step /\ r \in Doc /\ JobId \in Doc /\ r # JobId
    BY Apart
  <2>3. r \in W
    BY <1>1, <1>3, <2>2
  <2>4. /\ db[JobId].there \in BOOLEAN /\ Steps(db) \in Seq(Step)
        /\ db[JobId] = [there |-> db[JobId].there, steps |-> Steps(db)]
    BY ContentsFields DEF IInv, TypeOK
  <2>5. db[JobId].there =>
          /\ v[JobId] = [there |-> TRUE, steps |-> Append(Steps(db), r)]
          /\ JobId \in W
    <3> SUFFICES ASSUME db[JobId].there
                 PROVE  /\ v[JobId] = [there |-> TRUE, steps |-> Append(Steps(db), r)]
                        /\ JobId \in W
      OBVIOUS
    <3>1. v[JobId] = [there |-> TRUE, steps |-> Append(Steps(db), r)]
      BY <1>3, <2>4 DEF PushStep, Steps
    <3>2. Len(Append(Steps(db), r)) = Len(Steps(db)) + 1 /\ Len(Steps(db)) \in Nat
      BY <2>2, <2>4, AppendProperties, LenProperties
    <3>3. v[JobId].steps # db[JobId].steps
      BY <3>1, <3>2 DEF Steps
    <3> QED
      BY <2>2, <3>1, <3>3
  <2>6. ~db[JobId].there => JobId \notin W
    BY <1>3 DEF PushStep
  <2>7. db' = db /\ req' = req /\ view'[r] = v /\ writes'[r] = W
    BY <1>1, <1>5, <2>1, WriteFacts
  <2> HIDE DEF W
  <2>8. AddEffect(r)'
    <3>1. KeepsSteps(r, {r})'
      BY <1>3, <2>7 DEF KeepsSteps
    <3>2. Steps(db') = Steps(db)
      BY <2>7
    <3> QED
      BY <1>3, <2>3, <2>5, <2>6, <2>7, <3>1, <3>2 DEF AddEffect
  <2>9. req'[r].op = "add"
    BY <1>1, <2>7
  <2> QED
    BY <1>1, <1>3, <1>5, <2>1, <2>8, <2>9, WriteKeeps
<1>6. CASE Fail({r})
  BY <1>1, <1>6, FailKeeps
<1> QED
  BY <1>4, <1>5, <1>6

LEMMA JobThere ==
  ASSUME NEW doc \in JobDoc, doc.there
  PROVE  doc = [there |-> TRUE, steps |-> doc.steps]
<1>1. doc.there = TRUE
  BY DEF JobDoc
<1>2. doc = [there |-> doc.there, steps |-> doc.steps]
  BY DEF JobDoc
<1> QED
  BY <1>1, <1>2, Zenon

LEMMA RemovedFacts ==
  ASSUME NEW x \in Contents, Tidy(x), IsInjective(Steps(x)), x[JobId].there, NEW s \in Step,
         NEW steps, steps = PullStep(Steps(x), s),
         NEW v, v = [d \in Doc |-> Removed(x, s, d)]
  PROVE  /\ v \in Contents /\ Tidy(v)
         /\ v[JobId] = [there |-> TRUE, steps |-> steps] /\ v[s] = Missing
         /\ steps \in Seq(Step) /\ IsInjective(steps)
         /\ Range(steps) = Range(Steps(x)) \ {s}
         /\ \A d \in Step \ {s} : v[d].there = x[d].there
         /\ Range(Steps(x)) \subseteq StepsThere(x) =>
              \A d \in Range(steps) :
                v[d].order = Place(steps, d) /\ v[d].lastStep = (Place(steps, d) = Len(steps))
<1>1. /\ x \in [Doc -> JobDoc \cup StepDoc] /\ Steps(x) \in Seq(Step)
      /\ x[JobId] = [there |-> TRUE, steps |-> Steps(x)]
      /\ \A d \in Step : x[d] \in StepDoc
  BY ContentsFields
<1>2. IsInjective(Steps(x))
  OBVIOUS
<1>3. steps \in Seq(Step) /\ IsInjective(steps) /\ Range(steps) = Range(Steps(x)) \ {s}
  BY <1>1, <1>2, PullLists
<1>4. JobId \in Doc /\ s \in Doc /\ s # JobId
  BY Apart
<1>5. \A d \in Doc :
        v[d] = IF d = JobId THEN [x[d] EXCEPT !.steps = steps]
               ELSE IF d = s THEN Missing
               ELSE IF d \in Range(steps) /\ x[d].there THEN Renumbered(x, steps, d)
               ELSE x[d]
  BY DEF Removed
<1>6. /\ v[JobId] \in JobDoc /\ v[JobId] = [there |-> TRUE, steps |-> steps]
      /\ v[s] = Missing
  <2>1. v[JobId] = [x[JobId] EXCEPT !.steps = steps] /\ v[s] = Missing
    BY <1>4, <1>5
  <2>2. x[JobId] \in JobDoc
    BY ContentsFields
  <2>3. v[JobId] \in JobDoc /\ v[JobId].there = x[JobId].there /\ v[JobId].steps = steps
    BY <1>3, <2>1, <2>2 DEF JobDoc
  <2>4. v[JobId].there
    BY <2>3
  <2>5. v[JobId] = [there |-> TRUE, steps |-> v[JobId].steps]
    BY <2>3, <2>4, JobThere
  <2> QED
    BY <2>1, <2>3, <2>5
<1>7. ASSUME NEW d \in Range(steps), x[d].there
      PROVE  /\ d \in Step \ {s} /\ v[d] \in StepDoc /\ v[d].there
             /\ v[d].order = Rank(x, steps, d)
             /\ v[d].lastStep = IsLast(x, steps, d)
  <2>1. d \in Step /\ d # s
    <3>1. PICK i \in DOMAIN steps : d = steps[i]
      BY DEF Range
    <3>2. d \in Step
      BY <1>3, <3>1, LenProperties, ElementOfSeq
    <3> QED
      BY <1>3, <3>2
  <2>2. Rank(x, steps, d) \in Nat \ {0}
    BY <1>3, <1>7, RankOfStored
  <2>3. v[d] = Renumbered(x, steps, d) /\ x[d] \in StepDoc
    BY <1>1, <1>5, <1>7, <2>1, Apart
  <2> DEFINE n == Rank(x, steps, d)
             last == IsLast(x, steps, d)
  <2>4. v[d] = [x[d] EXCEPT !.order = n, !.lastStep = last]
    BY <2>3 DEF Renumbered
  <2>5. n \in Nat \ {0} /\ last \in BOOLEAN
    BY <2>2 DEF IsLast
  <2> HIDE DEF n, last
  <2>6. v[d] \in StepDoc /\ v[d].there = x[d].there /\ v[d].order = n /\ v[d].lastStep = last
    <3>1. v[d].there = x[d].there /\ v[d].order = n
      BY <2>3, <2>4, <2>5 DEF StepDoc
    <3>3. v[d] \in StepDoc
      BY <2>3, <2>4, <2>5 DEF StepDoc
    <3>2. v[d].lastStep = last
      BY <2>3, <2>4, <2>5 DEF StepDoc
    <3> QED
      BY <3>1, <3>2, <3>3
  <2>7. v[d].there
    BY <1>7, <2>6
  <2> QED
    BY <2>1, <2>6, <2>7 DEF n, last
<1>8. ASSUME NEW d \in Step \ {s}, d \notin Range(steps) \/ ~x[d].there
      PROVE  v[d] = x[d]
  <2>1. d \in Doc /\ d # JobId /\ d # s
    BY Apart
  <2> QED
    BY <1>5, <1>8, <2>1
<1>9. \A d \in Step : v[d] \in StepDoc
  <2>1. Missing \in StepDoc
    BY DEF Missing, StepDoc
  <2> QED
    BY <1>1, <1>6, <1>7, <1>8, <2>1
<1>10. v \in Contents
  <2>1. v[JobId] \in JobDoc
    BY <1>6
  <2>2. \A d \in Doc : v[d] \in JobDoc \cup StepDoc
    BY <1>9, <2>1, Apart
  <2>3. v = [d \in Doc |-> v[d]]
    OBVIOUS
  <2>4. v \in [Doc -> JobDoc \cup StepDoc]
    BY <2>2, <2>3
  <2> QED
    BY <1>9, <2>1, <2>4 DEF Contents
<1>11. Tidy(v)
  <2>1. ASSUME NEW d \in Step, ~v[d].there PROVE v[d] = Missing
    BY <1>6, <1>7, <1>8, <2>1 DEF Tidy
  <2> QED
    BY <1>6, <2>1 DEF Tidy
<1>12. \A d \in Step \ {s} : v[d].there = x[d].there
  <2> TAKE d \in Step \ {s}
  <2>1. CASE d \in Range(steps) /\ x[d].there
    <3>1. v[d].there /\ v[d] \in StepDoc /\ x[d] \in StepDoc
      BY <1>1, <1>7, <2>1
    <3> QED
      BY <2>1, <3>1 DEF StepDoc
  <2>2. CASE d \notin Range(steps) \/ ~x[d].there
    BY <1>8, <2>2
  <2> QED
    BY <2>1, <2>2
<1>13. ASSUME Range(Steps(x)) \subseteq StepsThere(x), NEW d \in Range(steps)
       PROVE  v[d].order = Place(steps, d) /\ v[d].lastStep = (Place(steps, d) = Len(steps))
  <2>1. \A t \in Range(steps) : x[t].there
    BY <1>3, <1>13 DEF StepsThere
  <2>2. /\ Rank(x, steps, d) = Place(steps, d)
        /\ IsLast(x, steps, d) <=> Place(steps, d) = Len(steps)
    BY <1>3, <2>1, RankIsPlace
  <2>3. v[d].order = Rank(x, steps, d) /\ v[d].lastStep = IsLast(x, steps, d)
    BY <1>7, <2>1
  <2> QED
    BY <2>2, <2>3 DEF IsLast
<1> QED
  BY <1>3, <1>6, <1>10, <1>11, <1>12, <1>13

LEMMA RemoveWriteKeeps ==
  ASSUME IInv, NEW r \in Req, RemoveWrite(r), UNCHANGED profile
  PROVE  IInv'
<1> DEFINE s == req[r].step
           steps == PullStep(Steps(db), s)
           v == [d \in Doc |-> Removed(db, s, d)]
           W == {d \in Doc : v[d] # db[d]}
<1>1. /\ r \in Active /\ pc[r] = "write" /\ req[r].op = "remove" /\ s \in Step
      /\ r \notin open
  BY ActiveAt DEF RemoveWrite
<1>2. Seen(r) = db
  BY <1>1 DEF Seen
<1>3. \/ ~db[JobId].there /\ Fail({r})
      \/ db[JobId].there /\ TxnWrite(r, v, W) /\ Goto(r, "commit")
      \/ TxnAbort({r}) /\ UNCHANGED <<pc, req>>
  BY <1>2 DEF RemoveWrite
<1>4. steps = PullStep(Steps(db), s) /\ v = [d \in Doc |-> Removed(db, s, d)]
  OBVIOUS
<1> HIDE DEF steps, v
<1>5. CASE Fail({r})
  BY <1>1, <1>5, FailKeeps
<1>6. CASE db[JobId].there /\ TxnWrite(r, v, W) /\ Goto(r, "commit")
  <2>1. /\ db \in Contents /\ Tidy(db) /\ Listed(db, profile)
        /\ IsInjective(Steps(db)) /\ (~Relisted => Range(Steps(db)) = StepsThere(db))
    BY <1>6 DEF IInv, TypeOK, Listed, Relisted
  <2>2. /\ v \in Contents /\ Tidy(v)
        /\ v[JobId] = [there |-> TRUE, steps |-> steps] /\ v[s] = Missing
        /\ Range(steps) = Range(Steps(db)) \ {s}
        /\ \A d \in Step \ {s} : v[d].there = db[d].there
    BY <1>1, <1>4, <1>6, <2>1, RemovedFacts
  <2>3. W \in SUBSET Doc /\ \A d \in Doc \ W : v[d] = db[d]
    OBVIOUS
  <2>4. s \in Doc /\ JobId \in Doc
    BY <1>1, Apart
  <2>5. CASE s \in Range(Steps(db))
    <3>1. JobId \in W
      BY <2>2, <2>4, <2>5 DEF Steps
    <3>2. (~Relisted => s \in W) /\ ~v[s].there
      BY <2>1, <2>2, <2>4, <2>5 DEF StepsThere, Missing
    <3>3. db' = db /\ req' = req /\ view'[r] = v /\ writes'[r] = W
      BY <1>1, <1>6, <2>3, WriteFacts
    <3> HIDE DEF W
    <3>4. KeepsSteps(r, {s})'
      BY <2>2, <3>3 DEF KeepsSteps
    <3>5. RemoveEffect(r)'
      <4>1. Relisted' = Relisted /\ Steps(db') = Steps(db)
        BY <3>3 DEF Relisted
      <4> QED
        BY <1>4, <1>6, <2>2, <3>1, <3>2, <3>3, <3>4, <4>1 DEF RemoveEffect
    <3> QED
      BY <1>1, <1>6, <2>2, <2>3, <3>3, <3>5, WriteKeeps DEF W
  <2>6. CASE s \notin Range(Steps(db))
    <3>1. steps = Steps(db)
      BY <1>4, <2>6 DEF PullStep
    <3>2. db[JobId] = [there |-> TRUE, steps |-> Steps(db)]
      BY <1>6, <2>1, ContentsFields
    <3>3. JobId \notin W
      BY <2>2, <3>1, <3>2
    <3>4. ~Relisted => db[s] = Missing
      BY <1>1, <2>1, <2>6 DEF Tidy, StepsThere
    <3>5. db' = db /\ req' = req /\ view'[r] = v /\ writes'[r] = W
      BY <1>1, <1>6, <2>3, WriteFacts
    <3>6. ~v[s].there /\ (~Relisted => \A d \in Step : v[d].there = db[d].there)
      BY <2>2, <3>4 DEF Missing
    <3> HIDE DEF W
    <3>7. RemoveEffect(r)'
      <4>1. Relisted' = Relisted
        BY DEF Relisted
      <4>2. KeepsSteps(r, {s})' /\ (~Relisted => KeepsSteps(r, {})')
        BY <2>2, <3>5, <3>6 DEF KeepsSteps
      <4> QED
        BY <3>3, <3>5, <3>6, <4>1, <4>2 DEF RemoveEffect
    <3> QED
      BY <1>1, <1>6, <2>2, <2>3, <3>5, <3>7, WriteKeeps DEF W
  <2> QED
    BY <2>5, <2>6
<1>7. CASE TxnAbort({r}) /\ UNCHANGED <<pc, req>>
  <2>1. EndTxns({r}, {}) /\ db' = db /\ pc' = pc /\ req' = req
    BY <1>7 DEF TxnAbort
  <2>2. /\ db \in Contents /\ profile \in Profiles /\ open \subseteq Req
        /\ open = {q \in Req : pc[q] = "commit"}
        /\ pc \in [Req -> {"idle", "read", "write", "commit", "done"}]
        /\ req \in [Req -> Request \cup {NoRequest}]
        /\ \A q \in Active : req[q] \in Request
    BY DEF IInv, TypeOK, TxnsOK
  <2>3. {q \in Req : pc'[q] = "commit"} = open \ {r}
    BY <1>1, <2>1, <2>2
  <2>4. /\ view' \in [Req -> Contents \cup {NoView}] /\ \A q \in open' : view'[q] \in Contents
        /\ writes' \in [Req -> SUBSET Doc] /\ stale' \in [Req -> SUBSET Doc]
        /\ TxnsOK' /\ EffectsOK'
    BY <2>1, <2>2, <2>3, EndStore
  <2>5. open' \subseteq Req /\ Active' = Active
    BY <2>1, <2>2 DEF EndTxns, Active
  <2>6. TypeOK'
    BY <2>1, <2>2, <2>4, <2>5 DEF TypeOK
  <2>7. CallsOK'
    <3>1. \A q \in Req : Fresh(q)' = Fresh(q)
      BY <2>1, <2>5 DEF Fresh
    <3> QED
      BY <2>1, <2>5, <3>1 DEF IInv, CallsOK
  <2> QED
    BY <2>1, <2>4, <2>6, <2>7 DEF IInv, JobKept
<1> QED
  BY <1>3, <1>5, <1>6, <1>7

LEMMA DeleteWriteKeeps ==
  ASSUME IInv, NEW r \in Req, DeleteWrite(r), UNCHANGED profile
  PROVE  IInv'
<1> DEFINE v == [d \in Doc |-> IF d = JobId THEN NoJob ELSE Missing]
           W == {d \in Doc : db[d].there}
<1>1. /\ r \in Active /\ pc[r] = "write" /\ req[r].op = "deleteJob" /\ r \notin open
  BY ActiveAt DEF DeleteWrite
<1>2. Seen(r) = db
  BY <1>1 DEF Seen
<1>3. (TxnWrite(r, v, W) /\ Goto(r, "commit")) \/ Fail({r})
  BY <1>2 DEF DeleteWrite
<1>4. CASE TxnWrite(r, v, W) /\ Goto(r, "commit")
  <2>1. v[JobId] = NoJob /\ \A d \in Step : v[d] = Missing
    BY Apart
  <2>2. /\ NoJob \in JobDoc /\ ~NoJob.there /\ Missing \in StepDoc /\ ~Missing.there
        /\ \A d \in Doc : v[d] \in JobDoc \cup StepDoc
    BY <2>1, Apart DEF NoJob, Missing, JobDoc, StepDoc
  <2>3. v \in Contents
    BY <2>1, <2>2 DEF Contents
  <2>4. W \in SUBSET Doc
    OBVIOUS
  <2>5. \A d \in Doc \ W : v[d] = db[d]
    BY <2>1, Apart DEF IInv, Tidy
  <2>6. Tidy(v)
    BY <2>1 DEF Tidy
  <2>7. JobId \in W \/ ~db[JobId].there
    BY Apart
  <2> HIDE DEF v, W
  <2>8. db' = db /\ req' = req /\ view'[r] = v /\ writes'[r] = W
    BY <1>1, <1>4, <2>4, WriteFacts
  <2>9. DeleteEffect(r)'
    BY <2>1, <2>2, <2>7, <2>8, Apart DEF DeleteEffect
  <2> QED
    BY <1>1, <1>4, <2>3, <2>4, <2>5, <2>6, <2>8, <2>9, WriteKeeps
<1>5. CASE Fail({r})
  BY <1>1, <1>5, FailKeeps
<1> QED
  BY <1>3, <1>4, <1>5

-----------------------------------------------------------------------------
(* Commits *)

\* The commit of r publishes what r has written and nothing else.
LEMMA CommitFacts ==
  ASSUME IInv, NEW r \in Req, Commit(r)
  PROVE  /\ r \in open /\ r \in Active /\ view[r] \in Contents /\ Tidy(view[r])
         /\ writes[r] \in SUBSET Doc /\ req[r] \in Request
         /\ req[r].op \in {"add", "remove", "deleteJob"} \cap profile.ops
         /\ req[r].op \in {"add", "deleteJob"} => req[r].step = r
         /\ db' \in Contents /\ Tidy(db')
         /\ \A d \in writes[r] : db'[d] = view[r][d]
         /\ \A d \in Doc \ writes[r] : db'[d] = db[d]
<1>1. /\ pc[r] = "commit" /\ r \in open /\ r \in Active
      /\ req[r] \in Request /\ req[r].op \notin {"update", "updateJob"}
      /\ req[r].op \in profile.ops
      /\ req[r].op \in {"add", "deleteJob"} => req[r].step = r
      /\ view[r] \in Contents /\ writes[r] \in SUBSET Doc /\ Tidy(view[r])
      /\ db \in Contents /\ Tidy(db)
  BY DEF Commit, IInv, TypeOK, TxnsOK, CallsOK, EffectsOK, Active
<1>2. req[r].op \in {"add", "remove", "deleteJob"}
  BY <1>1 DEF Request, Ops
<1>3. db' = [d \in Doc |-> IF d \in writes[r] THEN view[r][d] ELSE db[d]]
  BY DEF Commit, TxnCommit
<1>4. /\ \A d \in writes[r] : db'[d] = view[r][d]
      /\ \A d \in Doc \ writes[r] : db'[d] = db[d]
  BY <1>1, <1>3
<1>5. /\ view[r] \in [Doc -> JobDoc \cup StepDoc] /\ view[r][JobId] \in JobDoc
      /\ \A s \in Step : view[r][s] \in StepDoc
      /\ db \in [Doc -> JobDoc \cup StepDoc] /\ db[JobId] \in JobDoc
      /\ \A s \in Step : db[s] \in StepDoc
  BY <1>1, ContentsFields
<1>6. \A d \in Doc : db'[d] \in {view[r][d], db[d]}
  BY <1>4
<1>7. db' \in Contents
  <2>1. db'[JobId] \in JobDoc /\ \A s \in Step : db'[s] \in StepDoc
    BY <1>5, <1>6, Apart
  <2>2. \A d \in Doc : db'[d] \in JobDoc \cup StepDoc
    BY <2>1, Apart
  <2>3. db' = [d \in Doc |-> db'[d]]
    BY <1>3
  <2>4. db' \in [Doc -> JobDoc \cup StepDoc]
    BY <2>2, <2>3
  <2> QED
    BY <2>1, <2>4 DEF Contents
<1>8. Tidy(db')
  BY <1>1, <1>6, Apart DEF Tidy
<1> QED
  BY <1>1, <1>2, <1>4, <1>7, <1>8

LEMMA AddCommitted ==
  ASSUME IInv, NEW r \in Req, Commit(r), req[r].op = "add"
  PROVE  /\ \A d \in Step \ {r} : db'[d].there = db[d].there
         /\ db'[r].there /\ ~db[r].there
         /\ db[JobId].there =>
              db'[JobId] = [there |-> TRUE, steps |-> Append(Steps(db), r)]
         /\ ~db[JobId].there => ~db'[JobId].there
<1>1. /\ r \in open /\ writes[r] \in SUBSET Doc
      /\ \A d \in writes[r] : db'[d] = view[r][d]
      /\ \A d \in Doc \ writes[r] : db'[d] = db[d]
  BY CommitFacts
<1>2. AddEffect(r) /\ ~db[r].there
  BY <1>1 DEF IInv, EffectsOK, CallsOK, Commit, Fresh
<1>3. \A d \in Step \ {r} : db'[d].there = db[d].there
  BY <1>1, <1>2, Apart DEF AddEffect, KeepsSteps
<1>4. db'[r].there
  BY <1>1, <1>2 DEF AddEffect
<1>5. CASE JobId \in writes[r]
  BY <1>1, <1>2, <1>3, <1>4, <1>5 DEF AddEffect
<1>6. CASE JobId \notin writes[r]
  BY <1>1, <1>2, <1>3, <1>4, <1>6, Apart DEF AddEffect
<1> QED
  BY <1>5, <1>6

LEMMA RemoveCommitted ==
  ASSUME IInv, NEW r \in Req, Commit(r), req[r].op = "remove"
  PROVE  /\ \A d \in Step \ {req[r].step} : db'[d].there = db[d].there
         /\ db'[req[r].step].there => db[req[r].step].there
         /\ \/ /\ db[JobId].there
               /\ db'[JobId] = [there |-> TRUE, steps |-> PullStep(Steps(db), req[r].step)]
               /\ ~Relisted => ~db'[req[r].step].there
            \/ /\ db'[JobId] = db[JobId]
               /\ ~Relisted => \A d \in Step : db'[d].there = db[d].there
<1>1. /\ r \in open /\ writes[r] \in SUBSET Doc /\ req[r].step \in Step
      /\ \A d \in writes[r] : db'[d] = view[r][d]
      /\ \A d \in Doc \ writes[r] : db'[d] = db[d]
  BY CommitFacts DEF Request
<1>2. RemoveEffect(r)
  BY <1>1 DEF IInv, EffectsOK
<1>3. \A d \in Step \ {req[r].step} : db'[d].there = db[d].there
  BY <1>1, <1>2, Apart DEF RemoveEffect, KeepsSteps
<1>4. db'[req[r].step].there => db[req[r].step].there
  BY <1>1, <1>2, Apart DEF RemoveEffect
<1>5. CASE JobId \in writes[r]
  <2>1. ~Relisted => ~db'[req[r].step].there
    BY <1>1, <1>2, <1>5 DEF RemoveEffect
  <2> QED
    BY <1>1, <1>2, <1>3, <1>4, <1>5, <2>1 DEF RemoveEffect
<1>6. CASE JobId \notin writes[r]
  <2>1. ~Relisted => \A d \in Step : db'[d].there = db[d].there
    BY <1>1, <1>2, <1>6, Apart DEF RemoveEffect, KeepsSteps
  <2>2. db'[JobId] = db[JobId]
    BY <1>1, <1>6, Apart
  <2> QED
    BY <1>3, <1>4, <2>1, <2>2
<1> QED
  BY <1>5, <1>6

LEMMA DeleteCommitted ==
  ASSUME IInv, NEW r \in Req, Commit(r), req[r].op = "deleteJob"
  PROVE  ~db'[JobId].there /\ \A d \in Step : db'[d].there => db[d].there
<1>1. /\ r \in open /\ writes[r] \in SUBSET Doc
      /\ \A d \in writes[r] : db'[d] = view[r][d]
      /\ \A d \in Doc \ writes[r] : db'[d] = db[d]
  BY CommitFacts
<1>2. DeleteEffect(r)
  BY <1>1 DEF IInv, EffectsOK
<1> QED
  BY <1>1, <1>2, Apart DEF DeleteEffect

\* What a commit makes of the list.
LEMMA CommitSteps ==
  ASSUME IInv, NEW r \in Req, Commit(r), db'[JobId].there
  PROVE  /\ db[JobId].there /\ req[r].op \in {"add", "remove"}
         /\ Steps(db) \in Seq(Step) /\ IsInjective(Steps(db)) /\ r \notin Range(Steps(db))
         /\ r \in Step
         /\ req[r].op = "add" => Steps(db') = Append(Steps(db), r)
         /\ req[r].op = "remove" =>
              \/ Steps(db') = PullStep(Steps(db), req[r].step)
              \/ Steps(db') = Steps(db)
<1>1. /\ db \in Contents /\ Listed(db, profile) /\ r \in Step /\ r \notin Range(Steps(db))
      /\ Steps(db) \in Seq(Step)
      /\ req[r].op \in {"add", "remove", "deleteJob"}
  <2>1. /\ db \in Contents /\ Listed(db, profile) /\ Fresh(r)
        /\ req[r].op \in {"add", "remove", "deleteJob"}
    BY CommitFacts DEF IInv, TypeOK, CallsOK, Commit
  <2> QED
    BY <2>1, ContentsFields, Apart DEF Fresh
<1>2. req[r].op # "deleteJob"
  BY DeleteCommitted
<1>3. CASE req[r].op = "add"
  <2>1. /\ db[JobId].there
        /\ db'[JobId] = [there |-> TRUE, steps |-> Append(Steps(db), r)]
    BY <1>3, AddCommitted
  <2>2. Steps(db') = Append(Steps(db), r) /\ IsInjective(Steps(db))
    BY <1>1, <2>1 DEF Steps, Listed
  <2> QED
    BY <1>1, <1>3, <2>1, <2>2
<1>4. CASE req[r].op = "remove"
  <2>1. \/ /\ db[JobId].there
           /\ db'[JobId] = [there |-> TRUE, steps |-> PullStep(Steps(db), req[r].step)]
        \/ db'[JobId] = db[JobId]
    BY <1>4, RemoveCommitted
  <2>2. /\ db[JobId].there
        /\ Steps(db') = PullStep(Steps(db), req[r].step) \/ Steps(db') = Steps(db)
    BY <2>1 DEF Steps
  <2>3. IsInjective(Steps(db))
    BY <1>1, <2>2 DEF Listed
  <2> QED
    BY <1>1, <1>4, <2>2, <2>3
<1> QED
  BY <1>1, <1>2, <1>3, <1>4

LEMMA CommitListed ==
  ASSUME IInv, NEW r \in Req, Commit(r)
  PROVE  Listed(db', profile)
<1> SUFFICES ASSUME db'[JobId].there
             PROVE  /\ IsInjective(Steps(db'))
                    /\ ~Relisted => Range(Steps(db')) = StepsThere(db')
  BY DEF Listed, Relisted
<1>1. /\ db[JobId].there /\ req[r].op \in {"add", "remove"}
      /\ Steps(db) \in Seq(Step) /\ IsInjective(Steps(db)) /\ r \notin Range(Steps(db))
      /\ r \in Step
      /\ req[r].op = "add" => Steps(db') = Append(Steps(db), r)
      /\ req[r].op = "remove" =>
           \/ Steps(db') = PullStep(Steps(db), req[r].step)
           \/ Steps(db') = Steps(db)
  BY CommitSteps
<1>2. ~Relisted => Range(Steps(db)) = StepsThere(db)
  BY <1>1 DEF IInv, Listed, Relisted
<1>3. CASE req[r].op = "add"
  <2>1. /\ IsInjective(Steps(db')) /\ Range(Steps(db')) = Range(Steps(db)) \cup {r}
    <3>1. /\ Range(Append(Steps(db), r)) = Range(Steps(db)) \cup {r}
          /\ IsInjective(Append(Steps(db), r))
      BY <1>1, AppendLists
    <3>2. Steps(db') = Append(Steps(db), r)
      BY <1>1, <1>3
    <3> QED
      BY <3>1, <3>2
  <2>2. StepsThere(db') = StepsThere(db) \cup {r}
    BY <1>1, <1>3, AddCommitted DEF StepsThere
  <2> QED
    BY <1>2, <2>1, <2>2
<1>4. CASE req[r].op = "remove"
  <2>1. IsInjective(Steps(db'))
    BY <1>1, <1>4, PullLists
  <2>2. ASSUME ~Relisted PROVE Range(Steps(db')) = StepsThere(db')
    <3>1. CASE /\ db'[JobId] = [there |-> TRUE, steps |-> PullStep(Steps(db), req[r].step)]
               /\ ~db'[req[r].step].there
      <4>1. Steps(db') = PullStep(Steps(db), req[r].step)
        BY <3>1 DEF Steps
      <4>2. StepsThere(db') = StepsThere(db) \ {req[r].step}
        BY <1>4, <3>1, RemoveCommitted DEF StepsThere
      <4> QED
        BY <1>1, <1>2, <2>2, <4>1, <4>2, PullLists
    <3>2. CASE /\ db'[JobId] = db[JobId]
               /\ \A d \in Step : db'[d].there = db[d].there
      <4>1. Steps(db') = Steps(db) /\ StepsThere(db') = StepsThere(db)
        BY <3>2 DEF Steps, StepsThere
      <4> QED
        BY <1>2, <2>2, <4>1
    <3> QED
      BY <1>4, <2>2, <3>1, <3>2, RemoveCommitted
  <2> QED
    BY <2>1, <2>2
<1> QED
  BY <1>1, <1>3, <1>4

\* No commit creates the job or a step other than its own; only deleteJob
\* deletes the job.
LEMMA CommitThere ==
  ASSUME IInv, NEW r \in Req, Commit(r)
  PROVE  /\ db'[JobId].there => db[JobId].there
         /\ \A d \in Step \ {r} : db'[d].there => db[d].there
         /\ req[r].op # "deleteJob" /\ db[JobId].there => db'[JobId].there
<1>0. req[r].op \in {"add", "remove", "deleteJob"}
  BY CommitFacts
<1>1. CASE req[r].op = "add"
  <2>1. /\ \A d \in Step \ {r} : db'[d].there = db[d].there
        /\ db[JobId].there =>
             db'[JobId] = [there |-> TRUE, steps |-> Append(Steps(db), r)]
        /\ ~db[JobId].there => ~db'[JobId].there
    BY <1>1, AddCommitted
  <2>2. \A d \in Step \ {r} : db'[d].there => db[d].there
    BY <2>1
  <2>3. db[JobId].there => db'[JobId].there
    BY <2>1
  <2> QED
    BY <2>1, <2>2, <2>3
<1>2. CASE req[r].op = "remove"
  <2>1. /\ \A d \in Step \ {req[r].step} : db'[d].there = db[d].there
        /\ db'[req[r].step].there => db[req[r].step].there
        /\ \/ db[JobId].there /\ db'[JobId].there
           \/ db'[JobId] = db[JobId]
    <3>1. \/ /\ db[JobId].there
             /\ db'[JobId] = [there |-> TRUE, steps |-> PullStep(Steps(db), req[r].step)]
          \/ db'[JobId] = db[JobId]
      BY <1>2, RemoveCommitted
    <3>2. /\ \A d \in Step \ {req[r].step} : db'[d].there = db[d].there
          /\ db'[req[r].step].there => db[req[r].step].there
      BY <1>2, RemoveCommitted
    <3> QED
      BY <3>1, <3>2
  <2>2. \A d \in Step : db'[d].there => db[d].there
    BY <2>1
  <2> QED
    BY <2>1, <2>2
<1>3. CASE req[r].op = "deleteJob"
  <2>1. /\ ~db'[JobId].there /\ \A d \in Step : db'[d].there => db[d].there
    BY <1>3, DeleteCommitted
  <2> QED
    BY <1>3, <2>1
<1> QED
  BY <1>0, <1>1, <1>2, <1>3

LEMMA CommitKeeps ==
  ASSUME IInv, NEW r \in Req, Commit(r), UNCHANGED profile
  PROVE  IInv'
<1>1. /\ r \in open /\ r \in Active
      /\ writes[r] \in SUBSET Doc /\ req[r] \in Request
      /\ req[r].op \in {"add", "remove", "deleteJob"} /\ req[r].op \in profile.ops
      /\ db' \in Contents /\ Tidy(db')
      /\ \A d \in Doc \ writes[r] : db'[d] = db[d]
  BY CommitFacts
<1>2. EndTxns({r}, writes[r]) /\ End({r})
  BY DEF Commit, TxnCommit
<1>3. \A q \in open \ {r} : writes[q] \cap writes[r] = {}
  BY <1>1 DEF IInv, TxnsOK, PendingWritesFresh
<1>4. /\ db'[JobId].there => db[JobId].there
      /\ \A d \in Step \ {r} : db'[d].there => db[d].there
      /\ req[r].op # "deleteJob" /\ db[JobId].there => db'[JobId].there
  BY CommitThere
<1>8. Range(Steps(db')) \subseteq Range(Steps(db)) \cup {r}
  <2>1. CASE ~db'[JobId].there
    <3>1. Steps(db') = <<>>
      BY <1>1, <2>1 DEF Tidy, NoJob, Steps
    <3> QED
      BY <3>1, EmptySeq DEF Range
  <2>2. CASE db'[JobId].there
    <3>1. /\ Steps(db) \in Seq(Step) /\ IsInjective(Steps(db)) /\ r \in Step
          /\ \/ Steps(db') = Append(Steps(db), r)
             \/ Steps(db') = PullStep(Steps(db), req[r].step)
             \/ Steps(db') = Steps(db)
      BY <2>2, CommitSteps
    <3>2. /\ Range(Append(Steps(db), r)) = Range(Steps(db)) \cup {r}
          /\ Range(PullStep(Steps(db), req[r].step)) = Range(Steps(db)) \ {req[r].step}
      BY <3>1, AppendLists, PullLists
    <3> QED
      BY <3>1, <3>2
  <2> QED
    BY <2>1, <2>2
<1>5. \A q \in Req \ {r} : pc[q] # "done" => ~db'[q].there /\ q \notin Range(Steps(db'))
  BY <1>4, <1>8, Apart DEF IInv, CallsOK, Fresh
<1>6. JobKept'
  BY <1>1, <1>4 DEF IInv, JobKept
<1>7. {r} \in SUBSET Active /\ {r} \in SUBSET {r}
  BY <1>1
<1> QED
  BY <1>1, <1>2, <1>3, <1>4, <1>5, <1>6, <1>7, CommitListed, EndKeeps

-----------------------------------------------------------------------------
LEMMA NextKeeps == IInv /\ [Next]_vars => IInv'
<1> SUFFICES ASSUME IInv, [Next]_vars PROVE IInv'
  OBVIOUS
<1>1. ASSUME NEW r \in Req, Progress(r) PROVE IInv'
  <2>1. UNCHANGED profile
    BY <1>1 DEF Progress
  <2>2. CASE AddRead(r)
    BY <2>1, <2>2, AddReadKeeps
  <2>3. CASE AddWrite(r)
    BY <2>1, <2>3, AddWriteKeeps
  <2>4. CASE UpdateStep(r)
    BY <2>1, <2>4, UpdateKeeps
  <2>5. CASE RemoveRead(r)
    BY <2>1, <2>5, RemoveReadKeeps
  <2>6. CASE RemoveWrite(r)
    BY <2>1, <2>6, RemoveWriteKeeps
  <2>7. CASE DeleteRead(r)
    BY <2>1, <2>7, DeleteReadKeeps
  <2>8. CASE DeleteWrite(r)
    BY <2>1, <2>8, DeleteWriteKeeps
  <2>9. CASE Commit(r)
    BY <2>1, <2>9, CommitKeeps
  <2>10. CASE UpdateJob(r)
    BY <2>1, <2>10, UpdateJobKeeps
  <2> QED
    BY <1>1, <2>2, <2>3, <2>4, <2>5, <2>6, <2>7, <2>8, <2>9, <2>10 DEF Progress
<1>2. ASSUME NEW r \in Req, Arrive(r), UNCHANGED profile PROVE IInv'
  BY <1>2, ArriveKeeps
<1>3. ASSUME NEW r \in Req, CallFails(r), UNCHANGED profile PROVE IInv'
  BY <1>3, FailKeeps DEF CallFails
<1>4. ASSUME ProcessExit, UNCHANGED profile PROVE IInv'
  BY <1>4, FailKeeps DEF ProcessExit
<1>5. CASE UNCHANGED vars
  <2>1. UNCHANGED <<profile, db, open, view, writes, stale, pc, req>>
    BY <1>5 DEF vars
  <2>2. Active' = Active
    BY <2>1 DEF Active
  <2>3. TypeOK'
    BY <2>1, <2>2 DEF IInv, TypeOK
  <2>4. TxnsOK'
    BY <2>1 DEF IInv, TxnsOK, PendingWritesFresh
  <2>5. CallsOK'
    <3>1. \A r \in Req : Fresh(r)' = Fresh(r)
      BY <2>1, <2>2 DEF Fresh
    <3> QED
      BY <2>1, <2>2, <3>1 DEF IInv, CallsOK
  <2>6. EffectsOK'
    <3>1. EffectsOK /\ open' = open
      BY <2>1 DEF IInv
    <3>2. \A r \in open : /\ AddEffect(r)' = AddEffect(r)
                          /\ RemoveEffect(r)' = RemoveEffect(r)
                          /\ DeleteEffect(r)' = DeleteEffect(r)
      BY <2>1 DEF AddEffect, RemoveEffect, DeleteEffect, KeepsSteps, Relisted
    <3> QED
      BY <2>1, <3>1, <3>2 DEF EffectsOK
  <2> QED
    BY <2>1, <2>3, <2>4, <2>5, <2>6 DEF IInv, JobKept
<1> QED
  BY <1>1, <1>2, <1>3, <1>4, <1>5 DEF Next

LEMMA Invariance == Spec => []IInv
  BY InitOK, NextKeeps, PTL DEF Spec

(***************************************************************************)
(* Every variable stays in its type: orders are never 0, whatever a client *)
(* sends and whichever removal numbers the steps, and a request is served  *)
(* with what it has read.                                                  *)
(***************************************************************************)
THEOREM TypeCorrect == Spec => []TypeOK
<1>1. IInv => TypeOK
  BY DEF IInv
<1> QED
  BY <1>1, Invariance, PTL

(***************************************************************************)
(* As long as nobody deletes the job, job.steps lists no step twice, and   *)
(* where no PATCH of the job replaces the list, it lists every stored step *)
(* and nothing else, however additions, updates and removals interleave,   *)
(* fail, and repeat their transactions.                                    *)
(***************************************************************************)
THEOREM ListsItsSteps == Spec => []StepsListed
<1>1. IInv => StepsListed
  BY DEF IInv, StepsListed, JobKept, Listed
<1> QED
  BY <1>1, Invariance, PTL

\* Only three kinds of steps touch the list.
LEMMA ListSteps ==
  ASSUME IInv, [Next]_vars, Steps(db') # Steps(db), db'[JobId].there
  PROVE  \E r \in Active :
           \/ req[r].op = "add" /\ Steps(db') = Append(Steps(db), r)
           \/ /\ req[r].op = "remove"
              /\ Range(Steps(db')) = Range(Steps(db)) \ {req[r].step}
           \/ req[r].op = "updateJob" /\ Steps(db') = req[r].steps
<1>1. db' # db /\ ~UNCHANGED vars
  BY DEF vars
<1>2. ASSUME NEW r \in Req, Commit(r)
      PROVE  /\ r \in Active
             /\ \/ req[r].op = "add" /\ Steps(db') = Append(Steps(db), r)
                \/ /\ req[r].op = "remove"
                   /\ Range(Steps(db')) = Range(Steps(db)) \ {req[r].step}
  <2>1. r \in Active
    BY <1>2, CommitFacts
  <2>2. /\ Steps(db) \in Seq(Step) /\ IsInjective(Steps(db))
        /\ \/ req[r].op = "add" /\ Steps(db') = Append(Steps(db), r)
           \/ req[r].op = "remove" /\ Steps(db') = PullStep(Steps(db), req[r].step)
    BY <1>2, CommitSteps
  <2> QED
    BY <2>1, <2>2, PullLists
<1>3. ASSUME NEW r \in Req, UpdateStep(r)
      PROVE  FALSE
  <2>1. req[r].step \in Step /\ db \in [Doc -> JobDoc \cup StepDoc]
    BY <1>3, ActiveAt, ContentsFields DEF UpdateStep, IInv, TypeOK
  <2>2. db'[JobId] = db[JobId]
    BY <1>1, <1>3, <2>1, Apart DEF UpdateStep, PlainWrite, storeVars
  <2> QED
    BY <2>2 DEF Steps
<1>4. ASSUME NEW r \in Req, UpdateJob(r)
      PROVE  r \in Active /\ req[r].op = "updateJob" /\ Steps(db') = req[r].steps
  <2>1. /\ r \in Active /\ req[r].op = "updateJob" /\ JobId \in Doc
        /\ db \in [Doc -> JobDoc \cup StepDoc]
    <3>1. At(r, "updateJob", "read") /\ db \in Contents
      BY <1>4 DEF UpdateJob, IInv, TypeOK
    <3>2. r \in Active /\ req[r].op = "updateJob"
      BY <3>1, ActiveAt
    <3> QED
      BY <3>1, <3>2, ContentsFields, Apart
  <2>2. db' = [db EXCEPT ![JobId] = [there |-> TRUE, steps |-> req[r].steps]]
    BY <1>1, <1>4 DEF UpdateJob, PlainWrite, storeVars
  <2> QED
    BY <2>1, <2>2 DEF Steps
<1>5. ASSUME NEW r \in Req
      PROVE  ~(\/ AddRead(r) \/ AddWrite(r) \/ RemoveRead(r) \/ RemoveWrite(r)
               \/ DeleteRead(r) \/ DeleteWrite(r) \/ Arrive(r) \/ CallFails(r))
  BY <1>1 DEF AddRead, AddWrite, RemoveRead, RemoveWrite, DeleteRead, DeleteWrite,
              Arrive, CallFails, Fail, TxnAbort, TxnWrite, storeVars
<1>6. ~ProcessExit
  BY <1>1 DEF ProcessExit, Fail, TxnAbort
<1>7. PICK r \in Req : Progress(r)
  BY <1>1, <1>5, <1>6 DEF Next
<1>8. Commit(r) \/ UpdateJob(r)
  BY <1>3, <1>5, <1>7 DEF Progress
<1> QED
  BY <1>2, <1>4, <1>8

(***************************************************************************)
(* No change of job.steps is lost: an addition and a removal, which read   *)
(* the job before their transactions, change the list that is stored when  *)
(* they commit, and only a PATCH replaces it.                              *)
(***************************************************************************)
THEOREM ListChangesKept == Spec => NoListChangeLost
<1> DEFINE Kept ==
             Steps(db') # Steps(db) /\ db'[JobId].there =>
               \E r \in Active :
                 \/ req[r].op = "add" /\ Steps(db') = Append(Steps(db), r)
                 \/ /\ req[r].op = "remove"
                    /\ Range(Steps(db')) = Range(Steps(db)) \ {req[r].step}
                 \/ req[r].op = "updateJob" /\ Steps(db') = req[r].steps
<1>1. IInv /\ [Next]_vars => [Kept]_vars
  BY ListSteps
<1>2. Spec => [][Kept]_vars
  BY <1>1, Invariance, PTL DEF Spec
<1> QED
  BY <1>2 DEF NoListChangeLost

-----------------------------------------------------------------------------
(***************************************************************************)
(* The numbering.  Without plain updates and repeated removals every       *)
(* transaction on a job that is there writes the job document, so that at  *)
(* most one of them commits and what it publishes is what it saw.          *)
(***************************************************************************)

\* The steps are numbered along job.steps, and the last one is flagged.
Numbered(x) ==
  \A i \in DOMAIN Steps(x) :
    /\ x[Steps(x)[i]].order = i
    /\ x[Steps(x)[i]].lastStep <=> i = Len(Steps(x))

\* Every step without the flag has a next one.
Follows(x) ==
  \A s \in StepsThere(x) : ~x[s].lastStep =>
    \E t \in StepsThere(x) : x[t].order = x[s].order + 1

\* A removal that has not written finds its step, unless the job is gone.
OneRemoval ==
  ~profile.repeats =>
    \A r \in Active : req[r].op = "remove" =>
      /\ pc[r] # "commit" /\ db[JobId].there => db[req[r].step].there
      /\ \A t \in Active \ {r} : req[t].op = "remove" => req[t].step # req[r].step

Exclusive == profile.ops \cap {"update", "updateJob"} = {} /\ ~profile.repeats

Serial ==
  Exclusive /\ db[JobId].there =>
    \A r \in open : JobId \in writes[r] /\ stale[r] = {}

RemovalsNumber ==
  ~Relisted =>
    \A r \in open : req[r].op = "remove" =>
      Numbered(view[r]) /\ Listed(view[r], profile)

FollowsOK == DefaultSteps => Follows(db) /\ \A r \in open : Follows(view[r])

NInv == OneRemoval /\ Serial /\ RemovalsNumber /\ FollowsOK

LEMMA NumberedFollows ==
  ASSUME NEW x \in Contents, Range(Steps(x)) = StepsThere(x), Numbered(x)
  PROVE  Follows(x)
<1> SUFFICES ASSUME NEW s \in StepsThere(x), ~x[s].lastStep
             PROVE  \E t \in StepsThere(x) : x[t].order = x[s].order + 1
  BY DEF Follows
<1> DEFINE steps == Steps(x)
           n == Len(steps)
<1>1. steps \in Seq(Step) /\ Range(steps) = StepsThere(x)
  BY ContentsFields
<1>2. n \in Nat /\ DOMAIN steps = 1..n
  BY <1>1, LenProperties
<1>3. PICK i \in 1..n : steps[i] = s
  BY <1>1, <1>2 DEF Range
<1>4. x[s].order = i /\ i # n
  <2>1. x[steps[i]].order = i /\ (x[steps[i]].lastStep <=> i = n)
    BY <1>2 DEF Numbered
  <2> QED
    BY <1>3, <2>1
<1>5. i + 1 \in 1..n
  <2>1. n \in Nat /\ i \in 1..n /\ i # n
    BY <1>2, <1>4
  <2> HIDE DEF n
  <2> QED
    BY <2>1
<1>6. steps[i + 1] \in StepsThere(x) /\ x[steps[i + 1]].order = i + 1
  BY <1>1, <1>2, <1>5 DEF Numbered, Range
<1> QED
  BY <1>4, <1>6

LEMMA NInit == Init => NInv
<1> SUFFICES ASSUME Init PROVE NInv
  OBVIOUS
<1>1. open = {} /\ Active = {} /\ IInv
  BY InitOK DEF Init, MongoInit, Active
<1>2. PICK n \in 0..Len(Start) :
        db = [d \in Doc |->
                IF d = JobId THEN [there |-> TRUE, steps |-> SubSeq(Start, 1, n)]
                ELSE IF d \in Range(SubSeq(Start, 1, n))
                THEN Stored(Place(SubSeq(Start, 1, n), d), Place(SubSeq(Start, 1, n), d) = n)
                ELSE Missing]
  BY DEF Init
<1> DEFINE steps == SubSeq(Start, 1, n)
<1>3. /\ db[JobId].there /\ Steps(db) = steps
      /\ \A d \in Step : d \in Range(steps) =>
           db[d] = Stored(Place(steps, d), Place(steps, d) = n)
  BY <1>2, Apart DEF Steps
<1>4. Len(steps) = n
  <2>1. /\ Start \in Seq(Range(Start)) /\ Len(Start) \in Nat
        /\ \A i \in 1..Len(Start) : Start[i] \in Range(Start)
    BY StepOrderAssumption, LenProperties DEF Range
  <2>2. n \in Int /\ n >= 0 /\ \A i \in 1..n : Start[i] \in Range(Start)
    BY <2>1
  <2>3. Len(steps) = IF 1 <= n THEN n - 1 + 1 ELSE 0
    BY <2>2, SubSeqProperties
  <2> QED
    BY <2>2, <2>3
<1> HIDE DEF steps
<1>5. /\ db \in Contents /\ Listed(db, profile) /\ steps \in Seq(Step) /\ IsInjective(steps)
  <2>1. db \in Contents /\ Listed(db, profile)
    BY <1>1 DEF IInv, TypeOK
  <2> QED
    BY <1>3, <2>1, ContentsFields DEF Listed
<1>6. Numbered(db)
  <2> SUFFICES ASSUME NEW i \in DOMAIN steps
               PROVE  db[steps[i]].order = i /\ (db[steps[i]].lastStep <=> i = n)
    BY <1>3, <1>4 DEF Numbered
  <2>1. Place(steps, steps[i]) = i
    BY <1>5, PlaceOfElement
  <2>2. steps[i] \in Step /\ steps[i] \in Range(steps)
    BY <1>5, LenProperties, ElementOfSeq DEF Range
  <2>3. db[steps[i]] = Stored(Place(steps, steps[i]), Place(steps, steps[i]) = n)
    BY <1>3, <2>2
  <2>4. db[steps[i]].order = Place(steps, steps[i])
    BY <2>3 DEF Stored
  <2>5. db[steps[i]].lastStep = (Place(steps, steps[i]) = n)
    BY <2>3 DEF Stored
  <2> QED
    BY <2>1, <2>4, <2>5
<1>7. DefaultSteps => Follows(db)
  <2>1. DefaultSteps => Range(Steps(db)) = StepsThere(db)
    BY <1>3, <1>5 DEF Listed, DefaultSteps
  <2> QED
    BY <1>5, <1>6, <2>1, NumberedFollows
<1> QED
  BY <1>1, <1>7 DEF NInv, OneRemoval, Serial, RemovalsNumber, FollowsOK

\* Steps that change neither the committed data nor what remains open.
LEMMA QuietNumbers ==
  ASSUME IInv, IInv', NInv, UNCHANGED <<profile, db>>, open' \subseteq open,
         \A q \in open' : /\ view'[q] = view[q] /\ writes'[q] = writes[q]
                          /\ stale'[q] = stale[q],
         \A q \in Active' : /\ q \in Active /\ (pc[q] = "commit" => pc'[q] = "commit")
                            /\ req'[q].op = req[q].op /\ req'[q].step = req[q].step
  PROVE  NInv'
<1>1. open' \subseteq Active'
  BY DEF IInv, TxnsOK, Active
<1>2. OneRemoval'
  BY DEF NInv, OneRemoval
<1>3. Serial'
  BY DEF NInv, Serial, Exclusive
<1>4. RemovalsNumber'
  BY <1>1 DEF NInv, RemovalsNumber, Relisted
<1>5. FollowsOK'
  BY DEF NInv, FollowsOK, DefaultSteps
<1> QED
  BY <1>2, <1>3, <1>4, <1>5 DEF NInv

LEMMA FailNumbers ==
  ASSUME IInv, IInv', NInv, NEW R \in SUBSET Active, Fail(R), UNCHANGED profile
  PROVE  NInv'
<1>1. R \subseteq Req /\ open \subseteq Req
  BY DEF Active, IInv, TypeOK
<1>2. End(R) /\ EndTxns(R, {}) /\ db' = db
  BY DEF Fail, TxnAbort
<1>3. /\ open' \subseteq open
      /\ \A q \in open' : /\ view'[q] = view[q] /\ writes'[q] = writes[q]
                           /\ stale'[q] = stale[q]
  BY <1>1, <1>2 DEF EndTxns, Proc
<1>4. \A q \in Active' : q \in Active /\ pc'[q] = pc[q] /\ req'[q] = req[q]
  BY <1>1, <1>2 DEF End, Active
<1> QED
  BY <1>2, <1>3, <1>4, QuietNumbers

\* A step of an active request that leaves the store alone.
LEMMA ControlNumbers ==
  ASSUME IInv, IInv', NInv, NEW r \in Active, pc[r] # "commit",
         UNCHANGED <<profile, storeVars>>,
         \A q \in Req \ {r} : pc'[q] = pc[q] /\ req'[q] = req[q],
         req'[r].op = req[r].op, req'[r].step = req[r].step
  PROVE  NInv'
<1>1. UNCHANGED <<profile, db, open, view, writes, stale>>
  BY DEF storeVars
<1>2. \A q \in Active' : /\ q \in Active /\ (pc[q] = "commit" => pc'[q] = "commit")
                         /\ req'[q].op = req[q].op /\ req'[q].step = req[q].step
  BY DEF Active
<1> QED
  BY <1>1, <1>2, QuietNumbers

LEMMA ReadNumbers ==
  ASSUME IInv, IInv', NInv, NEW r \in Req, UNCHANGED profile,
         AddRead(r) \/ RemoveRead(r) \/ DeleteRead(r)
  PROVE  NInv'
<1>1. /\ pc \in [Req -> {"idle", "read", "write", "commit", "done"}]
      /\ req \in [Req -> Request \cup {NoRequest}]
      /\ pc[r] = "read" /\ r \in Active
  BY DEF IInv, TypeOK, AddRead, RemoveRead, DeleteRead, At, Active
<1>2. CASE Fail({r})
  BY <1>1, <1>2, FailNumbers
<1>3. CASE Goto(r, "write") /\ UNCHANGED storeVars
  <2>1. /\ \A q \in Req \ {r} : pc'[q] = pc[q] /\ req'[q] = req[q]
        /\ req' = req
    BY <1>1, <1>3 DEF Goto
  <2> QED
    BY <1>1, <1>3, <2>1, ControlNumbers
<1>4. CASE AddRead(r) /\ ~Fail({r})
  <2>1. r \in Active /\ req[r] \in Request
    BY <1>1 DEF IInv, TypeOK
  <2> DEFINE n == IF req[r].order = 0 THEN Count(db, Steps(db)) + 1 ELSE req[r].order
             S == Range(Steps(db)) \cap StepsThere(db)
             call == [req[r] EXCEPT !.order = n, !.known = S]
  <2>2. /\ req' = [req EXCEPT ![r] = call] /\ pc' = [pc EXCEPT ![r] = "write"]
        /\ UNCHANGED storeVars
    BY <1>1, <1>4 DEF AddRead
  <2> HIDE DEF n, S
  <2>3. call.op = req[r].op /\ call.step = req[r].step
    BY <2>1 DEF Request
  <2> HIDE DEF call
  <2>4. /\ \A q \in Req \ {r} : pc'[q] = pc[q] /\ req'[q] = req[q]
        /\ req'[r] = call
    BY <1>1, <2>2
  <2> QED
    BY <1>1, <2>2, <2>3, <2>4, ControlNumbers
<1> QED
  BY <1>2, <1>3, <1>4 DEF AddRead, RemoveRead, DeleteRead

LEMMA ArriveNumbers ==
  ASSUME IInv, IInv', NInv, NEW r \in Req, Arrive(r), UNCHANGED profile
  PROVE  NInv'
<1>1. PICK q \in Calls : \E s_1 \in Step, steps_1 \in Lists(q) :
        /\ IF q.op \in {"add", "deleteJob", "updateJob"} THEN s_1 = r ELSE db[s_1].there
        /\ q.op = "remove" /\ ~profile.repeats =>
             \A t \in Active : req[t].op = "remove" => req[t].step # s_1
        /\ req' = [req EXCEPT ![r] = [op |-> q.op, step |-> s_1, order |-> q.order,
                                      lastStep |-> q.lastStep, steps |-> steps_1,
                                      known |-> {}]]
  BY DEF Arrive
<1>0. PICK s \in Step, steps \in Lists(q) :
        /\ IF q.op \in {"add", "deleteJob", "updateJob"} THEN s = r ELSE db[s].there
        /\ q.op = "remove" /\ ~profile.repeats =>
             \A t \in Active : req[t].op = "remove" => req[t].step # s
        /\ req' = [req EXCEPT ![r] = [op |-> q.op, step |-> s, order |-> q.order,
                                      lastStep |-> q.lastStep, steps |-> steps,
                                      known |-> {}]]
  BY <1>1
<1>2. /\ pc[r] = "idle" /\ pc' = [pc EXCEPT ![r] = "read"] /\ UNCHANGED storeVars
      /\ pc \in [Req -> {"idle", "read", "write", "commit", "done"}]
      /\ req \in [Req -> Request \cup {NoRequest}]
      /\ open = {q_1 \in Req : pc[q_1] = "commit"}
  BY DEF Arrive, IInv, TypeOK, TxnsOK
<1>3. UNCHANGED <<profile, db, open, view, writes, stale>>
  BY <1>2 DEF storeVars
<1>4. /\ \A t \in Req \ {r} : pc'[t] = pc[t] /\ req'[t] = req[t]
      /\ pc'[r] = "read" /\ req'[r].op = q.op /\ req'[r].step = s
  BY <1>0, <1>2
<1>5. /\ Active' = Active \cup {r} /\ r \notin Active /\ r \notin open /\ open \subseteq Req
  BY <1>2, <1>4 DEF Active
<1>6. OneRemoval'
  <2> SUFFICES ASSUME ~profile.repeats, NEW t \in Active', req'[t].op = "remove"
               PROVE  /\ pc'[t] # "commit" /\ db[JobId].there => db[req'[t].step].there
                      /\ \A u \in Active' \ {t} :
                           req'[u].op = "remove" => req'[u].step # req'[t].step
    BY <1>3 DEF OneRemoval
  <2>1. CASE t = r
    BY <1>0, <1>4, <1>5, <2>1 DEF Active
  <2>2. CASE t # r
    <3>1. t \in Active /\ pc'[t] = pc[t] /\ req'[t] = req[t]
      BY <1>4, <1>5, <2>2 DEF Active
    <3>2. \A u \in Active \ {t} : req'[u] = req[u]
      BY <1>4, <1>5 DEF Active
    <3> QED
      BY <1>0, <1>4, <1>5, <3>1, <3>2 DEF NInv, OneRemoval
  <2> QED
    BY <2>1, <2>2
<1>7. Serial' /\ FollowsOK'
  BY <1>3 DEF NInv, Serial, Exclusive, FollowsOK, DefaultSteps
<1>8. RemovalsNumber'
  BY <1>3, <1>4, <1>5 DEF NInv, RemovalsNumber, Relisted
<1> QED
  BY <1>6, <1>7, <1>8 DEF NInv

LEMMA WriteNumbers ==
  ASSUME IInv, IInv', NInv, NEW r \in Req, r \in Active, pc[r] = "write", NEW v,
         NEW W \in SUBSET Doc, TxnWrite(r, v, W), Goto(r, "commit"), UNCHANGED profile,
         Exclusive /\ db[JobId].there => JobId \in W,
         req[r].op = "remove" /\ ~Relisted => Numbered(v) /\ Listed(v, profile),
         DefaultSteps => Follows(v)
  PROVE  NInv'
<1>1. /\ r \notin open /\ open' = open \cup {r}
      /\ db' = db /\ stale' = stale /\ req' = req
      /\ view'[r] = v /\ writes'[r] = W /\ stale[r] = {}
      /\ pc' = [pc EXCEPT ![r] = "commit"]
      /\ \A q \in Req \ {r} : /\ view'[q] = view[q] /\ writes'[q] = writes[q]
                             /\ pc'[q] = pc[q]
  BY WriteFacts
<1>2. /\ pc \in [Req -> {"idle", "read", "write", "commit", "done"}] /\ open \subseteq Req
      /\ r \notin open
  BY <1>1 DEF IInv, TypeOK
<1>3. pc'[r] = "commit" /\ Active' = Active
  BY <1>1, <1>2 DEF Active
<1>4. \A q \in open : view'[q] = view[q] /\ writes'[q] = writes[q]
  BY <1>1, <1>2
<1>5. OneRemoval'
  <2>1. \A q \in Active : pc'[q] # "commit" => pc[q] # "commit"
    BY <1>1, <1>3 DEF Active
  <2> QED
    BY <1>1, <1>3, <2>1 DEF NInv, OneRemoval
<1>6. Serial'
  BY <1>1, <1>4 DEF NInv, Serial, Exclusive
<1>7. RemovalsNumber'
  BY <1>1, <1>4 DEF NInv, RemovalsNumber, Relisted
<1>8. FollowsOK'
  BY <1>1, <1>4 DEF NInv, FollowsOK, DefaultSteps
<1> QED
  BY <1>5, <1>6, <1>7, <1>8 DEF NInv

LEMMA AddedFollows ==
  ASSUME NEW x \in Contents, Tidy(x), Follows(x), NEW q \in Request, NEW r \in Req,
         q.order # 0, ~x[r].there,
         NEW v, v = [d \in Doc |-> Added(x, q, r, d)], v[r].lastStep
  PROVE  Follows(v)
<1>1. /\ v \in Contents /\ v[r] = Stored(q.order, q.lastStep) /\ v[r].there
      /\ \A d \in Step \ {r} : v[d].there = x[d].there
      /\ \A d \in Step \ {r} : v[d].order = x[d].order
      /\ \A d \in Step \ {r} : d \notin Predecessors(x, q) => v[d] = x[d]
  BY AddedFacts
<1>2. r \in Step /\ q.order \in Nat \ {0} /\ v[r].order = q.order
  BY <1>1, Apart DEF Request, Stored
<1> SUFFICES ASSUME NEW s \in StepsThere(v), ~v[s].lastStep
             PROVE  \E t \in StepsThere(v) : v[t].order = v[s].order + 1
  BY DEF Follows
<1>3. s \in Step \ {r} /\ v[s].there
  BY <1>2 DEF StepsThere
<1>4. CASE s \in Predecessors(x, q)
  <2>1. x[s].order = q.order - 1
    BY <1>4 DEF Predecessors
  <2>2. v[r].order = v[s].order + 1
    <3>1. v[s].order = q.order - 1
      BY <1>1, <1>3, <2>1
    <3> QED
      BY <1>2, <3>1
  <2>3. r \in StepsThere(v)
    BY <1>1, <1>2 DEF StepsThere
  <2> QED
    BY <2>2, <2>3
<1>5. CASE s \notin Predecessors(x, q)
  <2>1. s \in StepsThere(x) /\ ~x[s].lastStep
    BY <1>1, <1>3, <1>5 DEF StepsThere
  <2>2. PICK t \in StepsThere(x) : x[t].order = x[s].order + 1
    BY <2>1 DEF Follows
  <2>3. t \in Step \ {r} /\ t \in StepsThere(v)
    BY <1>1, <2>2 DEF StepsThere
  <2> QED
    BY <1>1, <1>3, <2>2, <2>3
<1> QED
  BY <1>4, <1>5

LEMMA AddWriteNumbers ==
  ASSUME IInv, IInv', NInv, NEW r \in Req, AddWrite(r), UNCHANGED profile
  PROVE  NInv'
<1> DEFINE v == [d \in Doc |-> Added(db, req[r], r, d)]
           W == {d \in Doc : v[d] # db[d]}
<1>1. /\ r \in Active /\ pc[r] = "write" /\ req[r].op = "add" /\ req[r] \in Request
      /\ r \notin open /\ ~db[r].there /\ r \in Step
  BY ActiveAt, Apart DEF AddWrite
<1>2. Seen(r) = db
  BY <1>1 DEF Seen
<1>3. (TxnWrite(r, v, W) /\ Goto(r, "commit")) \/ Fail({r})
  BY <1>2 DEF AddWrite
<1>4. db \in Contents /\ Tidy(db) /\ req[r].order # 0 /\ req[r].lastStep \in profile.flags
  BY <1>1 DEF IInv, TypeOK, CallsOK
<1>5. v = [d \in Doc |-> Added(db, req[r], r, d)]
  OBVIOUS
<1> HIDE DEF v
<1>6. CASE TxnWrite(r, v, W) /\ Goto(r, "commit")
  <2>1. db[JobId].there => JobId \in W
    <3> SUFFICES ASSUME db[JobId].there PROVE JobId \in W
      OBVIOUS
    <3>1. v[JobId] = PushStep(db[JobId], req[r], r)
      BY <1>1, <1>4, <1>5, AddedFacts
    <3>2. Steps(db) \in Seq(Step) /\ db[JobId] \in JobDoc
      BY <1>4, ContentsFields
    <3>3. v[JobId].steps = Append(Steps(db), r)
      BY <3>1, <3>2 DEF PushStep, Steps, JobDoc
    <3>4. Len(Append(Steps(db), r)) = Len(Steps(db)) + 1 /\ Len(Steps(db)) \in Nat
      BY <1>1, <3>2, AppendProperties, LenProperties
    <3> QED
      BY <3>3, <3>4, Apart DEF Steps
  <2>2. DefaultSteps => Follows(v)
    <3> SUFFICES ASSUME DefaultSteps PROVE Follows(v)
      OBVIOUS
    <3>1. v[r].lastStep
      <4>1. v[r] = Stored(req[r].order, req[r].lastStep)
        BY <1>1, <1>4, <1>5, AddedFacts
      <4>2. v[r].lastStep = req[r].lastStep
        BY <4>1 DEF Stored
      <4>3. req[r].lastStep \in {TRUE}
        BY <1>4 DEF DefaultSteps
      <4> QED
        BY <4>2, <4>3
    <3>2. Follows(db)
      BY DEF NInv, FollowsOK
    <3> QED
      BY <1>1, <1>4, <1>5, <3>1, <3>2, AddedFollows
  <2>3. W \in SUBSET Doc
    OBVIOUS
  <2> HIDE DEF W
  <2> QED
    BY <1>1, <1>6, <2>1, <2>2, <2>3, WriteNumbers
<1>7. CASE Fail({r})
  BY <1>1, <1>7, FailNumbers
<1> QED
  BY <1>3, <1>6, <1>7

LEMMA RemoveWriteNumbers ==
  ASSUME IInv, IInv', NInv, NEW r \in Req, RemoveWrite(r), UNCHANGED profile
  PROVE  NInv'
<1> DEFINE s == req[r].step
           steps == PullStep(Steps(db), s)
           v == [d \in Doc |-> Removed(db, s, d)]
           W == {d \in Doc : v[d] # db[d]}
<1>1. /\ r \in Active /\ pc[r] = "write" /\ req[r].op = "remove" /\ s \in Step
      /\ r \notin open
  BY ActiveAt DEF RemoveWrite
<1>2. Seen(r) = db
  BY <1>1 DEF Seen
<1>3. \/ ~db[JobId].there /\ Fail({r})
      \/ db[JobId].there /\ TxnWrite(r, v, W) /\ Goto(r, "commit")
      \/ TxnAbort({r}) /\ UNCHANGED <<pc, req>>
  BY <1>2 DEF RemoveWrite
<1>4. steps = PullStep(Steps(db), s) /\ v = [d \in Doc |-> Removed(db, s, d)]
  OBVIOUS
<1> HIDE DEF steps, v
<1>5. CASE Fail({r})
  BY <1>1, <1>5, FailNumbers
<1>6. CASE db[JobId].there /\ TxnWrite(r, v, W) /\ Goto(r, "commit")
  <2>1. /\ db \in Contents /\ Tidy(db) /\ IsInjective(Steps(db))
        /\ ~Relisted => Range(Steps(db)) = StepsThere(db)
    BY <1>6 DEF IInv, TypeOK, Listed, Relisted
  <2>2. /\ v \in Contents
        /\ v[JobId] = [there |-> TRUE, steps |-> steps] /\ v[s] = Missing
        /\ steps \in Seq(Step) /\ IsInjective(steps)
        /\ Range(steps) = Range(Steps(db)) \ {s}
        /\ \A d \in Step \ {s} : v[d].there = db[d].there
        /\ ~Relisted =>
             \A d \in Range(steps) :
               v[d].order = Place(steps, d) /\ v[d].lastStep = (Place(steps, d) = Len(steps))
    BY <1>1, <1>4, <1>6, <2>1, RemovedFacts
  <2>3. Steps(v) = steps /\ v[JobId].there
    BY <2>2 DEF Steps
  <2>4. ~Relisted => Range(Steps(v)) = StepsThere(v)
    <3>1. StepsThere(v) = StepsThere(db) \ {s}
      BY <2>2 DEF StepsThere, Missing
    <3> QED
      BY <2>1, <2>2, <2>3, <3>1
  <2>9. ~Relisted => Listed(v, profile)
    BY <2>2, <2>3, <2>4 DEF Listed
  <2>5. ~Relisted => Numbered(v)
    <3> SUFFICES ASSUME ~Relisted, NEW i \in DOMAIN steps
                 PROVE  v[steps[i]].order = i /\ (v[steps[i]].lastStep <=> i = Len(steps))
      BY <2>3 DEF Numbered
    <3>1. Place(steps, steps[i]) = i /\ steps[i] \in Range(steps)
      BY <2>2, PlaceOfElement DEF Range
    <3>2. /\ v[steps[i]].order = Place(steps, steps[i])
          /\ v[steps[i]].lastStep = (Place(steps, steps[i]) = Len(steps))
      BY <2>2, <3>1
    <3> QED
      BY <3>1, <3>2
  <2>6. DefaultSteps => Follows(v)
    <3>1. DefaultSteps => ~Relisted
      BY DEF DefaultSteps, Relisted
    <3> QED
      BY <2>2, <2>4, <2>5, <3>1, NumberedFollows
  <2>7. Exclusive => JobId \in W
    <3> SUFFICES ASSUME Exclusive PROVE JobId \in W
      OBVIOUS
    <3>0. ~Relisted
      BY DEF Exclusive, Relisted
    <3>1. db[s].there
      BY <1>1, <1>6 DEF Exclusive, NInv, OneRemoval
    <3>2. s \in Range(Steps(db)) /\ s \notin Range(steps)
      BY <1>1, <2>1, <2>2, <3>0, <3>1 DEF StepsThere
    <3>3. v[JobId].steps # db[JobId].steps
      BY <2>3, <3>2 DEF Steps
    <3> QED
      BY <3>3, Apart
  <2>8. W \in SUBSET Doc
    OBVIOUS
  <2> HIDE DEF W
  <2> QED
    BY <1>1, <1>6, <2>5, <2>6, <2>7, <2>8, <2>9, WriteNumbers
<1>7. CASE TxnAbort({r}) /\ UNCHANGED <<pc, req>>
  <2>1. EndTxns({r}, {}) /\ db' = db /\ pc' = pc /\ req' = req /\ open \subseteq Req
    BY <1>7 DEF TxnAbort, IInv, TypeOK
  <2>2. /\ open' \subseteq open
        /\ \A q \in open' : /\ view'[q] = view[q] /\ writes'[q] = writes[q]
                             /\ stale'[q] = stale[q]
    BY <2>1 DEF EndTxns, Proc
  <2>3. Active' = Active
    BY <2>1 DEF Active
  <2> QED
    BY <2>1, <2>2, <2>3, QuietNumbers
<1> QED
  BY <1>3, <1>5, <1>6, <1>7

LEMMA DeleteWriteNumbers ==
  ASSUME IInv, IInv', NInv, NEW r \in Req, DeleteWrite(r), UNCHANGED profile
  PROVE  NInv'
<1> DEFINE v == [d \in Doc |-> IF d = JobId THEN NoJob ELSE Missing]
           W == {d \in Doc : db[d].there}
<1>1. /\ r \in Active /\ pc[r] = "write" /\ req[r].op = "deleteJob" /\ r \notin open
      /\ "deleteJob" \in profile.ops
  BY ActiveAt DEF DeleteWrite
<1>2. Seen(r) = db
  BY <1>1 DEF Seen
<1>3. (TxnWrite(r, v, W) /\ Goto(r, "commit")) \/ Fail({r})
  BY <1>2 DEF DeleteWrite
<1>4. CASE TxnWrite(r, v, W) /\ Goto(r, "commit")
  <2>1. W \in SUBSET Doc /\ (db[JobId].there => JobId \in W)
    BY Apart
  <2>2. ~DefaultSteps
    BY <1>1 DEF DefaultSteps
  <2> HIDE DEF v, W
  <2> QED
    BY <1>1, <1>4, <2>1, <2>2, WriteNumbers
<1>5. CASE Fail({r})
  BY <1>1, <1>5, FailNumbers
<1> QED
  BY <1>3, <1>4, <1>5

LEMMA UpdateNumbers ==
  ASSUME IInv, IInv', NInv, NEW r \in Req, UpdateStep(r), UNCHANGED profile
  PROVE  NInv'
<1> DEFINE s == req[r].step
           doc == Stored(req[r].order, req[r].lastStep)
<1>1. r \in Active /\ r \notin open /\ s \in Step /\ "update" \in profile.ops
  BY ActiveAt DEF UpdateStep
<1>2. End({r}) /\ (\/ db[s].there /\ PlainWrite(s, doc)
                   \/ UNCHANGED storeVars)
  BY DEF UpdateStep
<1>3. \A q \in Active' : q \in Active /\ pc'[q] = pc[q] /\ req'[q] = req[q]
  BY <1>2 DEF End, Active
<1>4. doc.there
  BY DEF Stored
<1> HIDE DEF s, doc
<1>5. CASE db[s].there /\ PlainWrite(s, doc)
  <2>1. EndTxns({}, {s}) /\ db' = [db EXCEPT ![s] = doc]
    BY <1>5 DEF PlainWrite
  <2>2. db \in [Doc -> JobDoc \cup StepDoc] /\ open \subseteq Req
        /\ view \in [Req -> Contents \cup {NoView}]
    BY ContentsFields DEF IInv, TypeOK
  <2>3. db'[JobId] = db[JobId] /\ \A d \in Step : db'[d].there <=> db[d].there
    BY <1>1, <1>4, <1>5, <2>1, <2>2, Apart
  <2>4. OneRemoval'
    <3>1. \A q \in Active : req[q].step \in Step
      BY DEF IInv, TypeOK, Request
    <3> QED
      BY <1>3, <2>3, <3>1 DEF NInv, OneRemoval
  <2>5. Serial' /\ FollowsOK'
    BY <1>1 DEF Serial, Exclusive, FollowsOK, DefaultSteps
  <2>6. RemovalsNumber'
    <3>1. open' = open /\ view' = view
      BY <2>1, <2>2 DEF EndTxns, Proc
    <3>2. open' \subseteq Active'
      BY DEF IInv, TxnsOK, Active
    <3> QED
      BY <1>3, <3>1, <3>2 DEF NInv, RemovalsNumber, Relisted
  <2> QED
    BY <2>4, <2>5, <2>6 DEF NInv
<1>6. CASE UNCHANGED storeVars
  BY <1>3, <1>6, QuietNumbers DEF storeVars
<1> QED
  BY <1>2, <1>5, <1>6

LEMMA UpdateJobNumbers ==
  ASSUME IInv, IInv', NInv, NEW r \in Req, UpdateJob(r), UNCHANGED profile
  PROVE  NInv'
<1> DEFINE doc == [there |-> TRUE, steps |-> req[r].steps]
<1>1. r \in Active /\ r \notin open /\ "updateJob" \in profile.ops
  BY ActiveAt DEF UpdateJob
<1>2. End({r}) /\ (\/ db[JobId].there /\ PlainWrite(JobId, doc)
                   \/ UNCHANGED storeVars)
  BY DEF UpdateJob
<1>3. \A q \in Active' : q \in Active /\ pc'[q] = pc[q] /\ req'[q] = req[q]
  BY <1>2 DEF End, Active
<1>4. CASE db[JobId].there /\ PlainWrite(JobId, doc)
  <2>1. db' = [db EXCEPT ![JobId] = doc]
    BY <1>4 DEF PlainWrite
  <2>2. db \in [Doc -> JobDoc \cup StepDoc]
    BY ContentsFields DEF IInv, TypeOK
  <2>3. \A d \in Step : db'[d] = db[d]
    BY <2>1, <2>2, Apart
  <2>4. OneRemoval'
    <3>1. \A q \in Active : req[q].step \in Step
      BY DEF IInv, TypeOK, Request
    <3> QED
      BY <1>3, <1>4, <2>3, <3>1 DEF NInv, OneRemoval
  <2>5. Serial' /\ FollowsOK' /\ RemovalsNumber'
    BY <1>1 DEF Serial, Exclusive, FollowsOK, DefaultSteps, RemovalsNumber, Relisted
  <2> QED
    BY <2>4, <2>5 DEF NInv
<1>5. CASE UNCHANGED storeVars
  BY <1>3, <1>5, QuietNumbers DEF storeVars
<1> QED
  BY <1>2, <1>4, <1>5

\* Without updates and repeated removals a commit publishes what it saw.
LEMMA SerialCommit ==
  ASSUME IInv, NInv, NEW r \in Req, Commit(r), Exclusive, db[JobId].there
  PROVE  db' = view[r] /\ open = {r}
<1>1. /\ r \in open /\ view[r] \in Contents /\ db \in Contents /\ db' \in Contents
      /\ writes[r] \in SUBSET Doc
      /\ \A d \in writes[r] : db'[d] = view[r][d]
      /\ \A d \in Doc \ writes[r] : db'[d] = db[d]
  BY CommitFacts DEF IInv, TypeOK
<1>2. \A q \in open : JobId \in writes[q] /\ stale[q] = {}
  BY DEF NInv, Serial
<1>3. \A d \in Doc \ writes[r] : view[r][d] = db[d]
  BY <1>1, <1>2 DEF IInv, TxnsOK, PendingWritesFresh
<1>4. \A d \in Doc : db'[d] = view[r][d]
  BY <1>1, <1>3
<1>5. db' \in [Doc -> JobDoc \cup StepDoc] /\ view[r] \in [Doc -> JobDoc \cup StepDoc]
  BY <1>1, ContentsFields
<1>6. db' = view[r]
  BY <1>4, <1>5
<1>7. open = {r}
  BY <1>1, <1>2 DEF IInv, TxnsOK, PendingWritesFresh
<1> QED
  BY <1>6, <1>7

LEMMA CommitNumbers ==
  ASSUME IInv, IInv', NInv, NEW r \in Req, Commit(r), UNCHANGED profile
  PROVE  NInv'
<1>1. /\ r \in open /\ r \in Active /\ req[r] \in Request
      /\ req[r].op \in {"add", "remove", "deleteJob"}
      /\ open \subseteq Req
  BY CommitFacts DEF IInv, TypeOK
<1>2. EndTxns({r}, writes[r]) /\ End({r})
  BY DEF Commit, TxnCommit
<1>3. /\ open' = open \ {r}
      /\ \A q \in open' : view'[q] = view[q] /\ writes'[q] = writes[q]
      /\ \A q \in Active' : q \in Active \ {r} /\ pc'[q] = pc[q] /\ req'[q] = req[q]
  BY <1>1, <1>2 DEF EndTxns, End, Active, Proc
<1>4. OneRemoval'
  <2> SUFFICES ASSUME ~profile.repeats, NEW t \in Active', req'[t].op = "remove"
               PROVE  /\ pc'[t] # "commit" /\ db'[JobId].there => db'[req'[t].step].there
                      /\ \A u \in Active' \ {t} :
                           req'[u].op = "remove" => req'[u].step # req'[t].step
    BY DEF OneRemoval
  <2>1. /\ t \in Active \ {r} /\ pc'[t] = pc[t] /\ req'[t] = req[t]
        /\ \A u \in Active' : u \in Active /\ req'[u] = req[u]
    BY <1>3
  <2>2. \A u \in Active \ {t} : req[u].op = "remove" => req[u].step # req[t].step
    BY <2>1 DEF NInv, OneRemoval
  <2>3. ASSUME pc[t] # "commit", db'[JobId].there PROVE db'[req[t].step].there
    <3>1. db[JobId].there
      BY <2>3, CommitThere
    <3>2. db[req[t].step].there /\ req[t].step \in Step
      BY <2>1, <2>3, <3>1 DEF NInv, OneRemoval, IInv, TypeOK, Request
    <3>3. CASE req[r].op = "add"
      BY <3>2, <3>3, AddCommitted
    <3>4. CASE req[r].op = "remove"
      <4>1. req[r].step # req[t].step
        BY <1>1, <2>1, <2>2, <3>4
      <4>2. \A d \in Step \ {req[r].step} : db'[d].there = db[d].there
        BY <3>4, RemoveCommitted
      <4> QED
        BY <3>2, <4>1, <4>2
    <3>5. CASE req[r].op = "deleteJob"
      BY <2>3, <3>5, DeleteCommitted
    <3> QED
      BY <1>1, <3>3, <3>4, <3>5
  <2> QED
    BY <2>1, <2>2, <2>3
<1>5. ASSUME Exclusive, db'[JobId].there PROVE db' = view[r] /\ open' = {}
  <2>1. db[JobId].there
    BY <1>5, CommitThere
  <2> QED
    BY <1>3, <1>5, <2>1, SerialCommit
<1>6. Serial'
  BY <1>5 DEF Serial, Exclusive
<1>7. RemovalsNumber'
  <2>1. open' \subseteq Active'
    BY DEF IInv, TxnsOK, Active
  <2> QED
    BY <1>3, <2>1 DEF NInv, RemovalsNumber, Relisted
<1>8. FollowsOK'
  <2> SUFFICES ASSUME DefaultSteps
               PROVE  Follows(db') /\ \A q \in open' : Follows(view'[q])
    BY DEF FollowsOK, DefaultSteps
  <2>1. Exclusive /\ "deleteJob" \notin profile.ops
    BY DEF DefaultSteps, Exclusive
  <2>2. db'[JobId].there
    BY <2>1 DEF IInv, JobKept
  <2>3. Follows(view[r])
    BY <1>1 DEF NInv, FollowsOK
  <2> QED
    BY <1>5, <2>1, <2>2, <2>3
<1> QED
  BY <1>4, <1>6, <1>7, <1>8 DEF NInv

LEMMA NextNumbers == IInv /\ IInv' /\ NInv /\ [Next]_vars => NInv'
<1> SUFFICES ASSUME IInv, IInv', NInv, [Next]_vars PROVE NInv'
  OBVIOUS
<1>1. ASSUME NEW r \in Req, Progress(r) PROVE NInv'
  <2>1. UNCHANGED profile
    BY <1>1 DEF Progress
  <2>2. CASE AddRead(r) \/ RemoveRead(r) \/ DeleteRead(r)
    BY <2>1, <2>2, ReadNumbers
  <2>3. CASE AddWrite(r)
    BY <2>1, <2>3, AddWriteNumbers
  <2>4. CASE UpdateStep(r)
    BY <2>1, <2>4, UpdateNumbers
  <2>5. CASE RemoveWrite(r)
    BY <2>1, <2>5, RemoveWriteNumbers
  <2>6. CASE DeleteWrite(r)
    BY <2>1, <2>6, DeleteWriteNumbers
  <2>7. CASE Commit(r)
    BY <2>1, <2>7, CommitNumbers
  <2>8. CASE UpdateJob(r)
    BY <2>1, <2>8, UpdateJobNumbers
  <2> QED
    BY <1>1, <2>2, <2>3, <2>4, <2>5, <2>6, <2>7, <2>8 DEF Progress
<1>2. ASSUME NEW r \in Req, Arrive(r), UNCHANGED profile PROVE NInv'
  BY <1>2, ArriveNumbers
<1>3. ASSUME NEW r \in Req, CallFails(r), UNCHANGED profile PROVE NInv'
  BY <1>3, FailNumbers DEF CallFails
<1>4. ASSUME ProcessExit, UNCHANGED profile PROVE NInv'
  BY <1>4, FailNumbers DEF ProcessExit
<1>5. CASE UNCHANGED vars
  <2>1. UNCHANGED <<profile, db, open, view, writes, stale, pc, req>>
    BY <1>5 DEF vars
  <2>2. Active' = Active
    BY <2>1 DEF Active
  <2> QED
    BY <2>1, <2>2, QuietNumbers
<1> QED
  BY <1>1, <1>2, <1>3, <1>4, <1>5 DEF Next

LEMMA NumbersInvariance == Spec => [](IInv /\ NInv)
<1>1. Init => IInv /\ NInv
  BY InitOK, NInit
<1>2. IInv /\ NInv /\ [Next]_vars => (IInv /\ NInv)'
  BY NextKeeps, NextNumbers
<1> QED
  BY <1>1, <1>2, PTL DEF Spec

(***************************************************************************)
(* Where clients use the default order and flag, remove a step once and    *)
(* leave the list alone, every committed state has a next step for every   *)
(* step that is not flagged as the last one, whatever stale lengths the    *)
(* additions have read.  That is what an approval needs that looks the     *)
(* next step up while its reading of the step still holds.                 *)
(***************************************************************************)
THEOREM NextStepFound == Spec => []NextStepExists
<1>1. IInv /\ NInv => NextStepExists
  BY DEF NInv, FollowsOK, Follows, NextStepExists
<1> QED
  BY <1>1, NumbersInvariance, PTL

\* What a removal publishes is numbered.
LEMMA RemovalCommit ==
  ASSUME IInv, NInv, IInv', [Next]_vars, NEW r \in Req, Exclusive,
         pc[r] = "commit", req[r].op = "remove", db' # db, pc'[r] = "done",
         db'[JobId].there
  PROVE  Numbered(db')
<1>1. ASSUME NEW q \in Req, Commit(q) PROVE q = r
  BY <1>1 DEF Commit, End
<1>2. Commit(r)
  <2>1. ~UNCHANGED vars
    BY DEF vars
  <2>2. ASSUME NEW q \in Req, Progress(q) PROVE Commit(q)
    <3>1. q # r \/ pc[q] = "commit"
      OBVIOUS
    <3>2. ~UpdateStep(q) /\ ~UpdateJob(q)
      BY ActiveAt DEF UpdateStep, UpdateJob, Exclusive
    <3>3. ~(AddRead(q) \/ AddWrite(q) \/ RemoveRead(q) \/ RemoveWrite(q)
             \/ DeleteRead(q) \/ DeleteWrite(q))
      BY DEF AddRead, AddWrite, RemoveRead, RemoveWrite, DeleteRead, DeleteWrite,
             Fail, TxnAbort, TxnWrite, storeVars
    <3> QED
      BY <2>2, <3>2, <3>3 DEF Progress
  <2>3. ASSUME NEW q \in Req PROVE ~(Arrive(q) \/ CallFails(q))
    BY DEF Arrive, CallFails, Fail, TxnAbort, storeVars
  <2>4. ~ProcessExit
    BY DEF ProcessExit, Fail, TxnAbort
  <2> QED
    BY <1>1, <2>1, <2>2, <2>3, <2>4 DEF Next
<1>3. db[JobId].there
  BY <1>2, CommitThere
<1>4. db' = view[r] /\ r \in open /\ ~Relisted
  BY <1>2, <1>3, SerialCommit DEF Exclusive, Relisted
<1> QED
  BY <1>4 DEF NInv, RemovalsNumber

(***************************************************************************)
(* A removal that commits, while no step and no list is changed outside a  *)
(* session and no step is removed by two requests at a time, leaves the    *)
(* steps numbered along job.steps and the last one, and no other, flagged. *)
(***************************************************************************)
THEOREM RemovalKeepsNumbers == Spec => RemovalRenumbers
<1> DEFINE Numbers ==
             \A r \in Req :
               /\ profile.ops \cap {"update", "updateJob"} = {} /\ ~profile.repeats
               /\ pc[r] = "commit" /\ req[r].op = "remove" /\ db' # db
               /\ pc'[r] = "done" /\ db'[JobId].there
               => \A i \in DOMAIN Steps(db') :
                    /\ db'[Steps(db')[i]].order = i
                    /\ db'[Steps(db')[i]].lastStep <=> i = Len(Steps(db'))
<1>1. IInv /\ NInv /\ IInv' /\ [Next]_vars => Numbers
  BY RemovalCommit DEF Numbered, Exclusive
<1>2. IInv /\ NInv /\ IInv' /\ [Next]_vars => [Numbers]_vars
  BY <1>1
<1>3. Spec => [][Numbers]_vars
  BY <1>2, NumbersInvariance, PTL DEF Spec
<1> QED
  BY <1>3 DEF RemovalRenumbers
=============================================================================
