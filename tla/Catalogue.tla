----------------------------- MODULE Catalogue -----------------------------
(***************************************************************************)
(* The job catalogue under concurrent HTTP requests: creating, updating    *)
(* and deleting jobs and the lists of jobs their employers keep            *)
(* (job.service.ts, employer.service.ts), the jobs of a macro job          *)
(* (macro-job.service.ts) and the favourites, which are stored on both     *)
(* sides (job, employer and employee services).                            *)
(*                                                                         *)
(* Request r is the process <<r,"http">>; what it starts without awaiting  *)
(* it (the default steps of a new job, the mails of an invitation) is      *)
(* <<r,"bg">>.  The job that r creates has the identity r.                 *)
(***************************************************************************)
EXTENDS Naturals

CONSTANTS Req,       \* requests that may arrive, each once
          OldJob,    \* jobs stored before the model starts
          Employer, Employee, Macro,
          Earlier,   \* the image of an old job
          None,      \* no employer, employee or image
          Default,   \* the names of DefaultJobStepsMock
          Areas      \* sets of operations; the requests of one behaviour call
                     \* those of one set

Operations == {"create", "update", "image", "delete", "invite", "favJob",
               "favEmployee", "macroCreate", "macroUpdate", "macroAdd", "macroDrop",
               "macroDelete"}

Job == OldJob \cup Req
DefaultStep == Job \X Default

\* The documents of different collections differ.
ASSUME CatalogueAssumption ==
  /\ OldJob \cap Req = {}
  /\ Job \cap (DefaultStep \cup Employer \cup Employee \cup Macro) = {}
  /\ DefaultStep \cap (Employer \cup Employee \cup Macro) = {}
  /\ Employer \cap (Employee \cup Macro) = {} /\ Employee \cap Macro = {}
  /\ Earlier \notin Req
  /\ None \notin Req \cup {Earlier} \cup Employer \cup Employee
  /\ Areas \subseteq SUBSET Operations

VARIABLES area,    \* the member of Areas that this behaviour follows
          db, open, view, writes, stale,
          s3,      \* the uploaded images
          pc, req,
          mixed    \* favourites of which two toggles overlapped or one failed

Doc == Job \cup DefaultStep \cup Employer \cup Employee \cup Macro
Proc == Req \X {"http", "bg"}

INSTANCE MongoTxn

storeVars == <<db, open, view, writes, stale>>

vars == <<area, db, open, view, writes, stale, s3, pc, req, mixed>>

-----------------------------------------------------------------------------
(* Documents.  The lists that $push may fill with duplicates are bags.      *)

JobDoc == [there : BOOLEAN, employer : Employer \cup {None}, externalJobId : Nat,
           image : Req \cup {Earlier, None}, favs : [Employee -> Nat]]

EmployerDoc == [jobs : SUBSET Job, favs : [Employee -> Nat]]

EmployeeDoc == [favs : [Job \cup Employer -> Nat]]

MacroDoc == [there : BOOLEAN, jobs : [Job -> Nat], version : Nat]

NoFavs(S) == [x \in S |-> 0]

NoJob == [there |-> FALSE, employer |-> None, externalJobId |-> 0, image |-> None,
          favs |-> NoFavs(Employee)]

NoMacro == [there |-> FALSE, jobs |-> NoFavs(Job), version |-> 0]

Stored(x) == {j \in Job : x[j].there}

\* The call; settled: the client knows of the job from an answered creation.
\* next, has and list are what the handler keeps of its readings; for an answered
\* macroUpdate, the version that it left and whether it replaced the jobs.
Request == [op : Operations, job : Job, employer : Employer \cup {None},
            employee : Employee \cup {None}, macro : Macro, settled : BOOLEAN,
            next : Nat, has : BOOLEAN, list : [Job -> Nat]]

NoRequest == <<>>

Label == {"idle", "read", "save", "push", "write", "commit", "step",
          "mail", "own", "find", "other", "answered", "failed"}

Active == {p \in Proc : pc[p] \notin {"idle", "answered", "failed"}}

\* Each old job is listed by its employer and has been given its steps.  A macro
\* job is not stored yet, or holds the old jobs.
Init ==
  /\ area \in Areas
  /\ \E owner \in [OldJob -> Employer], old \in SUBSET Macro :
       db = [d \in Doc |->
               IF d \in OldJob
               THEN [NoJob EXCEPT !.there = TRUE, !.employer = owner[d], !.image = Earlier]
               ELSE IF d \in Req THEN NoJob
               ELSE IF d \in DefaultStep THEN d[1] \in OldJob
               ELSE IF d \in Employer
               THEN [jobs |-> {j \in OldJob : owner[j] = d}, favs |-> NoFavs(Employee)]
               ELSE IF d \in Employee THEN [favs |-> NoFavs(Job \cup Employer)]
               ELSE IF d \in old
               THEN [NoMacro EXCEPT !.there = TRUE,
                                    !.jobs = [j \in Job |-> IF j \in OldJob THEN 1 ELSE 0]]
               ELSE NoMacro]
  /\ MongoInit
  /\ s3 = {Earlier}
  /\ pc = [p \in Proc |-> "idle"]
  /\ req = [p \in Proc |-> NoRequest]
  /\ mixed = {}

-----------------------------------------------------------------------------
(* Control *)

At(p, ops, label) == pc[p] = label /\ req[p].op \in ops

\* The call alone: nothing is kept of what its handler has read.
Call(q) == [q EXCEPT !.next = 0, !.has = FALSE, !.list = NoFavs(Job)]

\* The processes in P leave their handlers.
End(P, label) ==
  /\ pc' = [p \in Proc |-> IF p \in P THEN label ELSE pc[p]]
  /\ req' = [p \in Proc |-> IF p \in P THEN Call(req[p]) ELSE req[p]]

Goto(p, label) ==
  IF label = "answered" THEN End({p}, label)
  ELSE pc' = [pc EXCEPT ![p] = label] /\ UNCHANGED req

\* p goes on with what it has read; q is its call with that.
Keep(p, label, q) == pc' = [pc EXCEPT ![p] = label] /\ req' = [req EXCEPT ![p] = q]

Toggling(q) == req[q].op \in {"favJob", "favEmployee"}

\* The favourite that a toggle is about.
Pair(q) ==
  <<IF req[q].op = "favJob" THEN req[q].job ELSE req[q].employer, req[q].employee>>

\* The toggles under way, and those that have written the first side.
Toggles == {q \in Active : Toggling(q)}

HalfDone(P) == {q \in P \cap Toggles : pc[q] \in {"find", "other"}}

\* An exception: 'http' chains answer with an error; nobody awaits a 'bg' chain,
\* whose unhandled rejection ends the Node process with all its call chains.
Fail(p) ==
  LET P == IF p[2] = "bg" THEN Active ELSE {p}
  IN  /\ End(P, "failed")
      /\ mixed' = mixed \cup {Pair(q) : q \in HalfDone(P)}
      /\ TxnAbort(P)
      /\ UNCHANGED s3

CallFails(p) == p \in Active /\ Fail(p)

ProcessExit ==
  /\ Active # {}
  /\ End(Active, "failed")
  /\ mixed' = mixed \cup {Pair(q) : q \in HalfDone(Active)}
  /\ TxnAbort(Active)
  /\ UNCHANGED s3

\* The arguments of the operations.  A client names a stored job, also one whose
\* creation is not answered yet.
Jobs(op, r) ==
  IF op \in {"create", "favEmployee", "macroCreate", "macroUpdate", "macroDelete"}
  THEN {r}
  ELSE Stored(db)

Employers(op) ==
  IF op \in {"create", "update", "favEmployee"} THEN Employer ELSE {None}

Employees(op) ==
  IF op \in {"favJob", "favEmployee"} THEN Employee ELSE {None}

Arrive(r) ==
  LET p == <<r, "http">>
  IN  /\ pc[p] = "idle"
      /\ \E op \in area : \E j \in Jobs(op, r), e \in Employers(op), c \in Employees(op),
                          m \in Macro :
           /\ req' = [req EXCEPT ![p] =
                [op |-> op, job |-> j, employer |-> e, employee |-> c, macro |-> m,
                 settled |-> j \in OldJob \/ pc[<<j, "http">>] = "answered",
                 next |-> 0, has |-> FALSE, list |-> NoFavs(Job)]]
      /\ pc' = [pc EXCEPT ![p] = "read"]
      /\ mixed' = mixed \cup ({Pair(p)' : t \in {p} \cap Toggles'}
                               \cap {Pair(t) : t \in Toggles})
      /\ UNCHANGED <<storeVars, s3>>

\* A plain update of document d, which matches nothing when it is not there.
Write(d, there, v) == IF there /\ v # db[d] THEN PlainWrite(d, v) ELSE UNCHANGED storeVars

-----------------------------------------------------------------------------
(* createJob *)

\* The last externalJobId plus one, in a read of its own; then uploadMedia, under
\* a fresh key that no other call looks at before the job is stored.
CreateRead(p) ==
  LET ids == {db[j].externalJobId : j \in Stored(db)}
      next == IF ids = {} THEN 0 ELSE 1 + CHOOSE i \in ids : \A k \in ids : k <= i
  IN  /\ At(p, {"create"}, "read")
      /\ Keep(p, "save", [req[p] EXCEPT !.next = next])
      /\ s3' = s3 \cup {p[1]}
      /\ UNCHANGED <<storeVars, mixed>>

\* save() gets no session: the job is stored at once.  externalJobId is a unique
\* index.
CreateSave(p) ==
  LET q == req[p]
      doc == [there |-> TRUE, employer |-> q.employer, externalJobId |-> q.next,
              image |-> p[1], favs |-> NoFavs(Employee)]
  IN  /\ At(p, {"create"}, "save")
      /\ IF \E j \in Stored(db) : db[j].externalJobId = q.next
         THEN Fail(p)
         ELSE /\ PlainWrite(q.job, doc)
              /\ Goto(p, "push")
              /\ UNCHANGED <<s3, mixed>>

\* Faulty variant: the whole list is written back as it was read for the check
\* of the employer, outside the session.
CreatePushStale(p) ==
  LET e == req[p].employer
      bg == <<p[1], "bg">>
      listed == {j \in OldJob : db[j].employer = e}
  IN  /\ At(p, {"create"}, "push")
      /\ PlainWrite(e, [db[e] EXCEPT !.jobs = listed \cup {req[p].job}])
      /\ pc' = [pc EXCEPT ![p] = "commit", ![bg] = "step"]
      /\ req' = [req EXCEPT ![bg] = req[p]]
      /\ UNCHANGED <<s3, mixed>>

\* addEmployerJobs in the session; then addDefaultStepsOnJobCreated is started.
CreatePush(p) ==
  LET e == req[p].employer
      x == Seen(p)
      bg == <<p[1], "bg">>
  IN  /\ At(p, {"create"}, "push")
      /\ \/ /\ TxnWrite(p, [x EXCEPT ![e].jobs = @ \cup {req[p].job}], {e})
            /\ pc' = [pc EXCEPT ![p] = "commit", ![bg] = "step"]
            /\ req' = [req EXCEPT ![bg] = req[p]]
            /\ UNCHANGED <<s3, mixed>>
         \/ {e} \cap Conflicting(p) # {} /\ Fail(p)

Commit(p) ==
  /\ pc[p] = "commit"
  /\ TxnCommit(p)
  /\ Goto(p, "answered")
  /\ UNCHANGED <<s3, mixed>>

\* The default steps are stored one by one, each outside the session.
CreateStep(p) ==
  LET left == {k \in Default : ~db[<<req[p].job, k>>]}
  IN  /\ At(p, {"create"}, "step")
      /\ \E k \in left :
           /\ PlainWrite(<<req[p].job, k>>, TRUE)
           /\ Goto(p, IF left = {k} THEN "answered" ELSE "step")
      /\ UNCHANGED <<s3, mixed>>

-----------------------------------------------------------------------------
(* updateJob, updateJobImage, deleteJob, sendJobInvites *)

\* The body may name another employer; no list of jobs follows it.  It may also
\* replace the steps of the job, which are not kept here: see UpdateJob of StepOrder.
UpdateJob(p) ==
  LET j == req[p].job
  IN  /\ At(p, {"update"}, "read")
      /\ Write(j, db[j].there, [db[j] EXCEPT !.employer = req[p].employer])
      /\ Goto(p, "answered")
      /\ UNCHANGED <<s3, mixed>>

UploadImage(p) ==
  /\ At(p, {"image"}, "read")
  /\ s3' = s3 \cup {p[1]}
  /\ Goto(p, "save")
  /\ UNCHANGED <<storeVars, mixed>>

\* Faulty variant: the job keeps its own identity for the key of the upload.
SetImageOfJob(p) ==
  LET j == req[p].job
  IN  /\ At(p, {"image"}, "save")
      /\ Write(j, db[j].there, [db[j] EXCEPT !.image = j])
      /\ Goto(p, "answered")
      /\ UNCHANGED <<s3, mixed>>

SetImage(p) ==
  LET j == req[p].job
  IN  /\ At(p, {"image"}, "save")
      /\ Write(j, db[j].there, [db[j] EXCEPT !.image = p[1]])
      /\ Goto(p, "answered")
      /\ UNCHANGED <<s3, mixed>>

\* The job is read outside the session; without it job.employer throws.
DeleteRead(p) ==
  LET j == req[p].job
  IN  /\ At(p, {"delete"}, "read")
      /\ IF ~db[j].there THEN Fail(p)
         ELSE /\ Keep(p, "write", [req[p] EXCEPT !.employer = db[j].employer])
              /\ UNCHANGED <<storeVars, s3, mixed>>

\* Faulty variant: the list of the employer is left alone.
DeletedDocKeepsList(x, j, e, d) ==
  IF d = j THEN NoJob
  ELSE IF d \in {j} \X Default THEN FALSE
  ELSE x[d]

\* deleteEmployerJobs, deleteMany on the steps, findOneAndRemove.
DeletedDoc(x, j, e, d) ==
  IF d = j THEN NoJob
  ELSE IF d = e THEN [x[d] EXCEPT !.jobs = @ \ {j}]
  ELSE IF d \in {j} \X Default THEN FALSE
  ELSE x[d]

DeleteWrite(p) ==
  LET q == req[p]
      x == Seen(p)
      v == [d \in Doc |-> DeletedDoc(x, q.job, q.employer, d)]
      W == {d \in Doc : v[d] # x[d]}
  IN  /\ At(p, {"delete"}, "write")
      /\ \/ TxnWrite(p, v, W) /\ Goto(p, "commit") /\ UNCHANGED <<s3, mixed>>
         \/ W \cap Conflicting(p) # {} /\ Fail(p)

\* The mails are sent in callbacks of forEach, which nobody awaits.
Invite(p) ==
  /\ At(p, {"invite"}, "read")
  /\ IF ~db[req[p].job].there THEN Fail(p)
     ELSE /\ pc' = [pc EXCEPT ![p] = "answered", ![<<p[1], "bg">>] = "mail"]
          /\ req' = [req EXCEPT ![<<p[1], "bg">>] = req[p]]
          /\ UNCHANGED <<storeVars, s3, mixed>>

InviteMail(p) ==
  /\ At(p, {"invite"}, "mail")
  /\ Goto(p, "answered")
  /\ UNCHANGED <<storeVars, s3, mixed>>

-----------------------------------------------------------------------------
(* Favourites: no write of the two toggles is in their session *)

\* The document that holds the employee's side of nothing: a job or an employer.
Own(p) == Pair(p)[1]

ToggleRead(p) ==
  LET d == Own(p)
      c == req[p].employee
  IN  /\ pc[p] = "read" /\ Toggling(p)
      /\ IF d \in Job /\ ~db[d].there THEN Fail(p)
         ELSE /\ Keep(p, "own", [req[p] EXCEPT !.has = db[d].favs[c] > 0])
              /\ UNCHANGED <<storeVars, s3, mixed>>

\* $pull takes every occurrence away, $push adds one.
Toggled(n, has) == IF has THEN 0 ELSE n + 1

ToggleOwn(p) ==
  LET d == Own(p)
      c == req[p].employee
  IN  /\ pc[p] = "own" /\ Toggling(p)
      /\ Write(d, d \in Employer \/ (d \in Job /\ db[d].there),
               [db[d] EXCEPT !.favs[c] = Toggled(@, req[p].has)])
      /\ Goto(p, "find")
      /\ UNCHANGED <<s3, mixed>>

\* Faulty variant: the second side is pushed whatever it holds.
ToggleFindAlwaysPushes(p) ==
  /\ pc[p] = "find" /\ Toggling(p)
  /\ Keep(p, "other", [req[p] EXCEPT !.has = FALSE])
  /\ UNCHANGED <<storeVars, s3, mixed>>

\* toggleJobFavorite and toggleEmployerFavorite read the employee.  favoriteJobs
\* is populated, which drops jobs that are not stored any more.
ToggleFind(p) ==
  LET d == Own(p)
      n == db[req[p].employee].favs[d]
  IN  /\ pc[p] = "find" /\ Toggling(p)
      /\ Keep(p, "other", [req[p] EXCEPT !.has = n > 0 /\ (d \in Job => db[d].there)])
      /\ UNCHANGED <<storeVars, s3, mixed>>

ToggleOther(p) ==
  LET c == req[p].employee
  IN  /\ pc[p] = "other" /\ Toggling(p)
      /\ Write(c, TRUE, [db[c] EXCEPT !.favs[Own(p)] = Toggled(@, req[p].has)])
      /\ Goto(p, "answered")
      /\ UNCHANGED <<s3, mixed>>

-----------------------------------------------------------------------------
(* Macro jobs *)

\* The lists of jobs that a body may hold.  Their ids are not looked up.
MacroJobs == {[j \in Job |-> IF j \in S THEN 1 ELSE 0] : S \in SUBSET Stored(db)}

MacroCreate(p) ==
  LET m == req[p].macro
  IN  /\ At(p, {"macroCreate"}, "read")
      /\ ~db[m].there /\ db[m].version = 0
      /\ \E jobs \in MacroJobs :
           PlainWrite(m, [there |-> TRUE, jobs |-> jobs, version |-> 0])
      /\ Goto(p, "answered")
      /\ UNCHANGED <<s3, mixed>>

\* update: findOneAndUpdate of the macro job with this slug.  A body with jobs
\* replaces the array; the version is neither looked at nor counted up.
MacroUpdate(p) ==
  LET m == req[p].macro
  IN  /\ At(p, {"macroUpdate"}, "read")
      /\ IF ~db[m].there THEN Fail(p)
         ELSE \E jobs \in MacroJobs \cup {db[m].jobs} :
                /\ Write(m, TRUE, [db[m] EXCEPT !.jobs = jobs])
                /\ Keep(p, "answered", [Call(req[p]) EXCEPT !.next = db[m].version,
                                                            !.has = jobs # db[m].jobs])
                /\ UNCHANGED <<s3, mixed>>

\* findById
MacroRead(p) ==
  LET m == req[p].macro
  IN  /\ At(p, {"macroAdd", "macroDrop"}, "read")
      /\ IF ~db[m].there THEN Fail(p)
         ELSE /\ Keep(p, IF req[p].op = "macroAdd" THEN "find" ELSE "save",
                      [req[p] EXCEPT !.list = db[m].jobs, !.next = db[m].version])
              /\ UNCHANGED <<storeVars, s3, mixed>>

\* jobModel.find({ _id: { $in } })
MacroFind(p) ==
  /\ At(p, {"macroAdd"}, "find")
  /\ Keep(p, "save", [req[p] EXCEPT !.has = db[req[p].job].there])
  /\ UNCHANGED <<storeVars, s3, mixed>>

\* save() after jobs.push(...): a $push that counts the version up and does not
\* look at it.  Nothing was pushed when the job was not found.
MacroAddSave(p) ==
  LET m == req[p].macro
      doc == [db[m] EXCEPT !.jobs[req[p].job] = @ + 1, !.version = @ + 1]
  IN  /\ At(p, {"macroAdd"}, "save")
      /\ IF req[p].has /\ ~db[m].there THEN Fail(p)
         ELSE /\ Write(m, req[p].has, doc)
              /\ Goto(p, "answered")
              /\ UNCHANGED <<s3, mixed>>

\* Faulty variant: the filtered array is written with findByIdAndUpdate.
MacroDropUnversioned(p) ==
  LET m == req[p].macro
      doc == [db[m] EXCEPT !.jobs = [req[p].list EXCEPT ![req[p].job] = 0]]
  IN  /\ At(p, {"macroDrop"}, "save")
      /\ Write(m, db[m].there, doc)
      /\ Goto(p, "answered")
      /\ UNCHANGED <<s3, mixed>>

\* save() after assigning the filtered array: a $set that requires the version
\* that was read (VersionError).  An array that is left equal is not saved.
MacroDropSave(p) ==
  LET m == req[p].macro
      doc == [db[m] EXCEPT !.jobs = [req[p].list EXCEPT ![req[p].job] = 0],
                           !.version = @ + 1]
      changed == req[p].list[req[p].job] > 0
  IN  /\ At(p, {"macroDrop"}, "save")
      /\ IF changed /\ (~db[m].there \/ db[m].version # req[p].next)
         THEN Fail(p)
         ELSE /\ Write(m, changed, doc)
              /\ Goto(p, "answered")
              /\ UNCHANGED <<s3, mixed>>

\* findByIdAndRemove; the id is not used again.
MacroDelete(p) ==
  LET m == req[p].macro
  IN  /\ At(p, {"macroDelete"}, "read")
      /\ IF ~db[m].there THEN Fail(p)
         ELSE /\ PlainWrite(m, [NoMacro EXCEPT !.version = db[m].version + 1])
              /\ Goto(p, "answered")
              /\ UNCHANGED <<s3, mixed>>

-----------------------------------------------------------------------------
Progress(p) ==
  \/ CreateRead(p) \/ CreateSave(p) \/ CreatePush(p) \/ CreateStep(p)
  \/ UpdateJob(p) \/ UploadImage(p) \/ SetImage(p) \/ DeleteRead(p) \/ DeleteWrite(p)
  \/ Invite(p) \/ InviteMail(p)
  \/ ToggleRead(p) \/ ToggleOwn(p) \/ ToggleFind(p) \/ ToggleOther(p)
  \/ MacroCreate(p) \/ MacroUpdate(p) \/ MacroRead(p) \/ MacroFind(p)
  \/ MacroAddSave(p) \/ MacroDropSave(p) \/ MacroDelete(p)
  \/ Commit(p)

Next ==
  /\ \/ \E r \in Req : Arrive(r)
     \/ \E p \in Proc : Progress(p) \/ CallFails(p)
     \/ ProcessExit
  /\ UNCHANGED area

Spec == Init /\ [][Next]_vars

-----------------------------------------------------------------------------
(* Properties *)

Contents(x) ==
  /\ DOMAIN x = Doc
  /\ \A j \in Job : x[j] \in JobDoc
  /\ \A k \in DefaultStep : x[k] \in BOOLEAN
  /\ \A e \in Employer : x[e] \in EmployerDoc
  /\ \A c \in Employee : x[c] \in EmployeeDoc
  /\ \A m \in Macro : x[m] \in MacroDoc

TypeOK ==
  /\ area \in Areas
  /\ Contents(db)
  /\ open \subseteq Proc
  /\ \A p \in Proc : IF p \in open THEN Contents(view[p]) ELSE view[p] = NoView
  /\ writes \in [Proc -> SUBSET Doc]
  /\ stale \in [Proc -> SUBSET Doc]
  /\ s3 \subseteq Req \cup {Earlier}
  /\ pc \in [Proc -> Label]
  /\ \A p \in Proc : IF p \in Active THEN req[p] \in Request
                       ELSE req[p] \in Request \cup {NoRequest}
  /\ mixed \subseteq (Job \cup Employer) \X Employee

Done(p, op) == pc[p] = "answered" /\ req[p].op = op

\* A creation that was answered, although it stores the job outside the session
\* that lists it, left a listed job with a stored image until the job is deleted:
\* no concurrent creation or deletion loses the entry in the employer's list.
CreatedJobListed ==
  \A r \in Req :
    Done(<<r, "http">>, "create") /\ db[r].there =>
      /\ r \in db[req[<<r, "http">>].employer].jobs
      /\ db[r].image \in s3

\* Once a job is deleted by a client who had seen its creation answered, no
\* employer lists it, save one from whom an update had taken the job.
DeletedJobUnlisted ==
  [][\A p \in Proc :
       LET j == req[p].job
       IN  /\ pc[p] = "commit" /\ pc'[p] = "answered"
           /\ req[p].op = "delete" /\ req[p].settled
           => \/ \A e \in Employer : j \notin db'[e].jobs
              \/ \E q \in Proc : Done(q, "update") /\ req[q].job = j]_vars

\* An update has replaced the jobs of m within its present version.
Overwritten(m) ==
  \E p \in Proc : /\ Done(p, "macroUpdate") /\ req[p].macro = m
                   /\ req[p].has /\ req[p].next = db[m].version

\* A job leaves a macro job only by a removal that names it, with the macro job, or
\* by an update that replaces the list: a removal that saves the array it has read
\* loses no concurrent addition.  An update leaves the version as it is, so that a
\* removal that has read this version may write back what the update replaced.
MacroAddKept ==
  [][\A m \in Macro, j \in Job :
       db[m].jobs[j] > 0 /\ db'[m].jobs[j] = 0 =>
         \E p \in Proc : /\ pc[p] # "answered" /\ pc'[p] = "answered"
                         /\ req[p].macro = m
                         /\ \/ /\ req[p].op = "macroDrop"
                               /\ req[p].job = j \/ Overwritten(m)
                            \/ req[p].op \in {"macroUpdate", "macroDelete"}]_vars

\* Both sides of a favourite agree and hold it at most once when no toggle of it
\* is under way, unless two of them overlapped or one stopped half way.
FavouritesAgree ==
  \A d \in Stored(db) \cup Employer, c \in Employee :
    \/ <<d, c>> \in mixed
    \/ \E p \in Toggles : Pair(p) = <<d, c>>
    \/ db[d].favs[c] = db[c].favs[d] /\ db[d].favs[c] <= 1
=============================================================================
