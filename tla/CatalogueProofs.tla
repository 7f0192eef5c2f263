-------------------------- MODULE CatalogueProofs --------------------------
(***************************************************************************)
(* What the job catalogue keeps, for any number of requests, jobs,         *)
(* employers, employees and macro jobs.                                    *)
(***************************************************************************)
EXTENDS Catalogue, WellFoundedInduction, TLAPS

-----------------------------------------------------------------------------
(* The inductive invariant *)

\* The value w has the type of document d.
ValueOK(d, w) ==
  /\ d \in Job => w \in JobDoc
  /\ d \in DefaultStep => w \in BOOLEAN
  /\ d \in Employer => w \in EmployerDoc
  /\ d \in Employee => w \in EmployeeDoc
  /\ d \in Macro => w \in MacroDoc

ImageOK(x) == DOMAIN x = Doc /\ \A d \in Doc : ValueOK(d, x[d])

StoreOK ==
  /\ ImageOK(db)
  /\ open \subseteq Proc
  /\ DOMAIN view = Proc
  /\ \A p \in Proc : IF p \in open THEN ImageOK(view[p]) ELSE view[p] = NoView
  /\ writes \in [Proc -> SUBSET Doc]
  /\ stale \in [Proc -> SUBSET Doc]
  /\ \A p \in Proc \ open : writes[p] = {} /\ stale[p] = {}
  /\ PendingWritesFresh

\* A transaction is open exactly between its last operation and its commit.
\* What runs unawaited was started by its request.
ControlOK ==
  /\ pc \in [Proc -> Label]
  /\ DOMAIN req = Proc
  /\ \A p \in Proc : IF pc[p] = "idle" THEN req[p] = NoRequest ELSE req[p] \in Request
  /\ open = {p \in Proc : pc[p] = "commit"}
  /\ \A p \in open : req[p].op \in {"create", "delete"}
  /\ \A r \in Req :
       /\ pc[<<r, "bg">>] \in {"idle", "step", "mail", "answered", "failed"}
       /\ pc[<<r, "bg">>] # "idle" => pc[<<r, "http">>] \in {"commit", "answered", "failed"}
       /\ pc[<<r, "http">>] \notin {"step", "mail"}
  /\ \A p \in Toggles : pc[p] \in {"read", "own", "find", "other"}

Finished(p) == pc[p] \in {"answered", "failed"}

Announced == {"push", "commit", "answered", "failed"}

\* The calls whose job argument is but the request's own name.
OwnJob == {"create", "favEmployee", "macroCreate", "macroUpdate", "macroDelete"}

\* The jobs that some client may know: the old ones and those stored since.
Known(j) ==
  \/ j \in OldJob
  \/ pc[<<j, "http">>] \in Announced /\ req[<<j, "http">>].op = "create"

CallOK(p) ==
  LET q == req[p]
  IN  /\ IF q.op \in OwnJob THEN q.job = p[1] ELSE Known(q.job)
      /\ q.op \in {"create", "update", "favEmployee"} => q.employer \in Employer
      /\ q.op = "delete" /\ pc[p] \in {"write", "commit"} => q.employer \in Employer
      /\ q.op \in {"favJob", "favEmployee"} => q.employee \in Employee
      /\ q.settled => \/ q.op \in OwnJob
                      \/ q.job \in OldJob
                      \/ Done(<<q.job, "http">>, "create")

CallsOK == \A p \in Proc : pc[p] # "idle" => CallOK(p)

\* Nothing names a job before it is stored.
UnknownOK ==
  \A j \in Job : ~Known(j) =>
    /\ ~db[j].there
    /\ \A e \in Employer : j \notin db[e].jobs
    /\ \A c \in Employee : db[c].favs[j] = 0

JobsOK ==
  /\ s3 \subseteq Req \cup {Earlier}
  /\ \E n \in Nat : \A j \in Stored(db) : db[j].externalJobId <= n
  /\ \A j \in Stored(db) : db[j].image \in s3 /\ db[j].employer \in Employer
  /\ \A p \in Proc : At(p, {"create", "image"}, "save") => p[1] \in s3

TypeInv == area \in Areas /\ mixed \subseteq (Job \cup Employer) \X Employee

BaseInv ==
  /\ TypeInv
  /\ StoreOK
  /\ ControlOK
  /\ CallsOK
  /\ UnknownOK
  /\ JobsOK

\* What a transaction will publish is its change of what is committed now.
PendingOK ==
  \A p \in open :
    LET q == req[p]
    IN  IF q.op = "create"
        THEN /\ writes[p] = {q.employer}
             /\ view[p][q.employer] = [db[q.employer] EXCEPT !.jobs = @ \cup {q.job}]
        ELSE /\ \A d \in writes[p] : view[p][d] = DeletedDoc(db, q.job, q.employer, d)
             /\ writes[p] \subseteq {q.job, q.employer} \cup ({q.job} \X Default)
             /\ q.job \notin writes[p] => ~db[q.job].there
             /\ q.settled /\ q.employer \notin writes[p] => q.job \notin db[q.employer].jobs

\* A job whose creation was answered is listed by its employer while stored.
ListedOK ==
  \A r \in Req :
    Done(<<r, "http">>, "create") /\ db[r].there =>
      r \in db[req[<<r, "http">>].employer].jobs

\* An update of job j was answered: its employer may have changed.
Moved(j) == \E p \in Proc : Done(p, "update") /\ req[p].job = j

\* A creation about to list its job, and one that is about to be committed, name
\* the employer of the job.
CreatesFor(p) ==
  LET q == req[p]
  IN  db[q.job].there /\ ~Moved(q.job) => db[q.job].employer = q.employer

\* A deletion has read the only employer that lists the job.
DeletesFor(p) ==
  LET q == req[p]
  IN  q.settled /\ ~Moved(q.job) =>
        \A e \in Employer : q.job \in db[e].jobs => e = q.employer

\* A stored job that no update moved is listed by its own employer only.
OwnersOK ==
  /\ \A j \in Stored(db), e \in Employer :
       j \in db[e].jobs /\ ~Moved(j) => e = db[j].employer
  /\ \A p \in Proc :
       /\ pc[p] \in {"push", "commit"} /\ req[p].op = "create" => CreatesFor(p)
       /\ pc[p] \in {"write", "commit"} /\ req[p].op = "delete" => DeletesFor(p)

\* A removal about to save has read the macro job as it is, or an older version,
\* or this version before an update replaced the jobs.
DropOK(p) ==
  LET m == req[p].macro
  IN  \/ db[m].version > req[p].next
      \/ /\ db[m].version = req[p].next /\ db[m].there
         /\ db[m].jobs = req[p].list \/ Overwritten(m)

MacrosOK ==
  /\ \A m \in Macro : ~db[m].there => db[m].jobs = NoFavs(Job)
  /\ \A p \in Proc : At(p, {"macroDrop"}, "save") => DropOK(p)

\* The toggles under way of one favourite.
About(d, c) == {p \in Toggles : Pair(p) = <<d, c>>}

Turned(n) == IF n > 0 THEN 0 ELSE 1

\* Of a favourite with at most one toggle under way, the two sides agree until
\* its first write, then the first is ahead, and what it has read is true.
PairOK(d, c) ==
  LET n == db[c].favs[d]
      m == db[d].favs[c]
  IN  /\ n <= 1
      /\ \A p, q \in About(d, c) : p = q
      /\ (\A p \in About(d, c) : pc[p] \in {"read", "own"}) => m = n
      /\ \A p \in About(d, c) :
           /\ pc[p] \in {"find", "other"} => m = Turned(n)
           /\ pc[p] \in {"own", "other"} => (req[p].has <=> n > 0)

FavouritesOK ==
  \A d \in Stored(db) \cup Employer, c \in Employee :
    <<d, c>> \in mixed \/ PairOK(d, c)

-----------------------------------------------------------------------------
(* The document store *)

\* The transactions of the processes in Q are left alone.
TxnsKept(Q) ==
  /\ DOMAIN view' = Proc
  /\ \A q \in Q : /\ q \in open' <=> q \in open
                  /\ view'[q] = view[q] /\ writes'[q] = writes[q]

\* Document d is stored as w outside any session, which no transaction prevents.
Puts(d, w) ==
  /\ db'[d] = w
  /\ \A x \in Doc \ {d} : db'[x] = db[x]
  /\ w # db[d] => \A q \in open : d \notin writes[q]
  /\ open' = open
  /\ TxnsKept(Proc)

\* Nothing is written.
Quiet == db' = db /\ open' = open /\ TxnsKept(Proc)

\* An update outside any session keeps the store consistent.
LEMMA PlainWritePuts ==
  ASSUME StoreOK, NEW d \in Doc, NEW w, ValueOK(d, w), PlainWrite(d, w)
  PROVE  StoreOK' /\ Puts(d, w)
<1> USE DEF StoreOK, PlainWrite, EndTxns
<1>1. open' = open
  OBVIOUS
<1>2. DOMAIN view' = Proc /\ \A q \in Proc : view'[q] = view[q] /\ writes'[q] = writes[q]
  OBVIOUS
<1>3. DOMAIN db' = Doc /\ db'[d] = w /\ \A x \in Doc \ {d} : db'[x] = db[x]
  BY DEF ImageOK
<1>4. stale' = [q \in Proc |-> IF q \in open THEN stale[q] \cup {d} ELSE {}]
  OBVIOUS
<1>5. ImageOK(db)'
  BY <1>3 DEF ImageOK, ValueOK
<1>6. \A p \in Proc : IF p \in open' THEN ImageOK(view[p])' ELSE view'[p] = NoView
  BY <1>1, <1>2 DEF ImageOK, ValueOK
<1>7. writes' \in [Proc -> SUBSET Doc] /\ stale' \in [Proc -> SUBSET Doc]
  BY <1>4
<1>8. PendingWritesFresh'
  BY <1>1, <1>2, <1>3, <1>4 DEF PendingWritesFresh
<1>9. \A q \in open : d \notin writes[q]
  OBVIOUS
<1> QED  BY <1>1, <1>2, <1>3, <1>4, <1>5, <1>6, <1>7, <1>8, <1>9 DEF Puts, TxnsKept, ImageOK

\* A step that leaves the store alone.
LEMMA QuietStore ==
  ASSUME StoreOK, UNCHANGED storeVars
  PROVE  StoreOK' /\ Quiet
BY DEF StoreOK, storeVars, Quiet, TxnsKept, ImageOK, ValueOK, PendingWritesFresh

\* A plain update writes the document where its filter matches.
LEMMA WritePuts ==
  ASSUME StoreOK, NEW d \in Doc, NEW there \in BOOLEAN, NEW w, there => ValueOK(d, w),
         Write(d, there, w)
  PROVE  StoreOK' /\ Puts(d, IF there THEN w ELSE db[d])
<1>1. CASE there /\ w # db[d]
  BY <1>1, PlainWritePuts DEF Write
<1>2. CASE ~(there /\ w # db[d])
  BY <1>2, QuietStore DEF Write, Quiet, Puts
<1> QED  BY <1>1, <1>2

\* The first and only operation of a session: its image differs from what is
\* committed in the written documents alone.
LEMMA TxnWriteStore ==
  ASSUME StoreOK, NEW p \in Proc \ open, NEW v, NEW W \in SUBSET Doc, ImageOK(v),
         \A d \in Doc \ W : v[d] = db[d], TxnWrite(p, v, W)
  PROVE  /\ StoreOK' /\ db' = db
         /\ p \in open' /\ view'[p] = v /\ writes'[p] = W
         /\ open' = open \cup {p} /\ TxnsKept(Proc \ {p})
<1> USE DEF StoreOK, TxnWrite
<1>1. open' = open \cup {p} /\ db' = db /\ stale' = stale
  OBVIOUS
<1>2. DOMAIN view' = Proc /\ view'[p] = v /\ writes'[p] = W
  OBVIOUS
<1>3. \A q \in Proc \ {p} : view'[q] = view[q] /\ writes'[q] = writes[q]
  OBVIOUS
<1>4. \A q \in Proc : IF q \in open' THEN ImageOK(view[q])' ELSE view'[q] = NoView
  <2> SUFFICES ASSUME NEW q \in Proc
               PROVE  IF q \in open' THEN ImageOK(view[q])' ELSE view'[q] = NoView
    OBVIOUS
  <2>1. CASE q = p
    BY <2>1, <1>1, <1>2 DEF ImageOK, ValueOK
  <2>2. CASE q # p
    BY <2>2, <1>1, <1>3 DEF ImageOK, ValueOK
  <2> QED  BY <2>1, <2>2
<1>5. stale[p] = {} /\ \A q \in open : W \cap writes[q] = {}
  <2> SUFFICES ASSUME NEW q \in open PROVE W \cap writes[q] = {}
    OBVIOUS
  <2>1. writes[q] \subseteq Conflicting(p)
    BY DEF Conflicting
  <2> QED  BY <2>1
<1>6. PendingWritesFresh'
  <2>1. \A q \in open' : writes'[q] \cap stale'[q] = {}
    BY <1>1, <1>2, <1>3, <1>5 DEF PendingWritesFresh
  <2>2. \A q \in open' : \A d \in Doc \ (writes'[q] \cup stale'[q]) : view'[q][d] = db'[d]
    BY <1>1, <1>2, <1>3, <1>5 DEF PendingWritesFresh
  <2>3. \A q, s \in open' : q # s => writes'[q] \cap writes'[s] = {}
    BY <1>1, <1>2, <1>3, <1>5 DEF PendingWritesFresh
  <2> QED  BY <2>1, <2>2, <2>3 DEF PendingWritesFresh
<1>7. ImageOK(db)'
  BY <1>1 DEF ImageOK, ValueOK
<1>8. writes' \in [Proc -> SUBSET Doc]
  OBVIOUS
<1>9. \A q \in Proc \ open' : writes'[q] = {} /\ stale'[q] = {}
  BY <1>1, <1>3
<1> QED  BY <1>1, <1>2, <1>3, <1>4, <1>6, <1>7, <1>8, <1>9 DEF TxnsKept, ImageOK, ValueOK

\* A commit publishes what its transaction wrote.
LEMMA TxnCommitStore ==
  ASSUME StoreOK, NEW p \in open, TxnCommit(p)
  PROVE  /\ StoreOK'
         /\ \A d \in Doc : db'[d] = IF d \in writes[p] THEN view[p][d] ELSE db[d]
         /\ open' = open \ {p} /\ TxnsKept(Proc \ {p})
<1> USE DEF StoreOK, TxnCommit, EndTxns
<1>1. open' = open \ {p} /\ DOMAIN view' = Proc
  OBVIOUS
<1>2. \A q \in Proc : /\ view'[q] = IF q = p THEN NoView ELSE view[q]
                      /\ writes'[q] = IF q = p THEN {} ELSE writes[q]
                      /\ stale'[q] = IF q \in open \ {p} THEN stale[q] \cup writes[p] ELSE {}
  OBVIOUS
<1>3. DOMAIN db' = Doc /\ \A d \in Doc : db'[d] = IF d \in writes[p] THEN view[p][d] ELSE db[d]
  OBVIOUS
<1>4. ImageOK(view[p]) /\ p \in Proc
  OBVIOUS
<1>5. ImageOK(db)'
  <2> SUFFICES ASSUME NEW d \in Doc PROVE ValueOK(d, db'[d])
    BY <1>3 DEF ImageOK, ValueOK
  <2> QED  BY <1>3, <1>4 DEF ImageOK
<1>6. \A q \in Proc : IF q \in open' THEN ImageOK(view[q])' ELSE view'[q] = NoView
  <2> SUFFICES ASSUME NEW q \in Proc
               PROVE  IF q \in open' THEN ImageOK(view[q])' ELSE view'[q] = NoView
    OBVIOUS
  <2>1. CASE q = p
    BY <2>1, <1>1, <1>2
  <2>2. CASE q # p
    BY <2>2, <1>1, <1>2 DEF ImageOK, ValueOK
  <2> QED  BY <2>1, <2>2
<1>7. writes' \in [Proc -> SUBSET Doc] /\ stale' \in [Proc -> SUBSET Doc]
  OBVIOUS
<1>8. \A q \in Proc \ open' : writes'[q] = {} /\ stale'[q] = {}
  BY <1>1, <1>2
<1>9. PendingWritesFresh'
  <2>1. \A q \in open' : writes'[q] \cap stale'[q] = {}
    BY <1>1, <1>2 DEF PendingWritesFresh
  <2>2. \A q \in open' : \A d \in Doc \ (writes'[q] \cup stale'[q]) : view'[q][d] = db'[d]
    BY <1>1, <1>2, <1>3 DEF PendingWritesFresh
  <2>3. \A q, s \in open' : q # s => writes'[q] \cap writes'[s] = {}
    BY <1>1, <1>2 DEF PendingWritesFresh
  <2> QED  BY <2>1, <2>2, <2>3 DEF PendingWritesFresh
<1> QED  BY <1>1, <1>2, <1>3, <1>5, <1>6, <1>7, <1>8, <1>9 DEF TxnsKept

\* Ending transactions without a commit.
LEMMA TxnAbortStore ==
  ASSUME StoreOK, NEW P \in SUBSET Proc, TxnAbort(P)
  PROVE  StoreOK' /\ db' = db /\ open' = open \ P /\ TxnsKept(Proc \ P)
<1> USE DEF StoreOK, TxnAbort, EndTxns
<1>1. open' = open \ P /\ DOMAIN view' = Proc /\ db' = db
  OBVIOUS
<1>2. \A q \in Proc : /\ view'[q] = IF q \in P THEN NoView ELSE view[q]
                      /\ writes'[q] = IF q \in P THEN {} ELSE writes[q]
                      /\ stale'[q] = IF q \in open \ P THEN stale[q] ELSE {}
  OBVIOUS
<1>3. \A q \in Proc : IF q \in open' THEN ImageOK(view[q])' ELSE view'[q] = NoView
  <2> SUFFICES ASSUME NEW q \in Proc
               PROVE  IF q \in open' THEN ImageOK(view[q])' ELSE view'[q] = NoView
    OBVIOUS
  <2>1. CASE q \in P
    BY <2>1, <1>1, <1>2
  <2>2. CASE q \notin P
    BY <2>2, <1>1, <1>2 DEF ImageOK, ValueOK
  <2> QED  BY <2>1, <2>2
<1>4. writes' \in [Proc -> SUBSET Doc] /\ stale' \in [Proc -> SUBSET Doc]
  OBVIOUS
<1>5. \A q \in Proc \ open' : writes'[q] = {} /\ stale'[q] = {}
  BY <1>1, <1>2
<1>6. PendingWritesFresh'
  BY <1>1, <1>2 DEF PendingWritesFresh
<1>7. ImageOK(db)'
  BY <1>1 DEF ImageOK, ValueOK
<1> QED  BY <1>1, <1>2, <1>3, <1>4, <1>5, <1>6, <1>7 DEF TxnsKept

-----------------------------------------------------------------------------
(* Calls *)

\* p keeps its call; only a deletion learns its employer, from its first read.
Continues(p) ==
  /\ req'[p] \in Request
  /\ req'[p].op = req[p].op /\ req'[p].job = req[p].job
  /\ req'[p].employee = req[p].employee /\ req'[p].macro = req[p].macro
  /\ req'[p].settled = req[p].settled
  /\ ~At(p, {"delete"}, "read") => req'[p].employer = req[p].employer

OthersIdle(Q) ==
  /\ DOMAIN req' = Proc /\ pc' \in [Proc -> Label]
  /\ \A q \in Proc \ Q : pc'[q] = pc[q] /\ req'[q] = req[q]

\* p alone goes on, at label l.
Moves(p, l) == OthersIdle({p}) /\ pc'[p] = l /\ Continues(p)

\* The request p goes on at label l and starts its unawaited chain at label b.
Spawns(p, l, b) ==
  LET bg == <<p[1], "bg">>
  IN  /\ OthersIdle({p, bg}) /\ pc'[p] = l /\ pc'[bg] = b
      /\ req'[p] = req[p] /\ req'[bg] = req[p]

\* The call chains of P stop with an exception.
Stops(P) ==
  /\ P \in SUBSET Active
  /\ End(P, "failed")
  /\ mixed' = mixed \cup {Pair(q) : q \in HalfDone(P)}
  /\ TxnAbort(P)
  /\ UNCHANGED s3

\* A process outside "idle" has a call.
LEMMA Called ==
  ASSUME ControlOK, CallsOK, NEW p \in Proc, pc[p] # "idle"
  PROVE  req[p] \in Request /\ CallOK(p)
BY DEF ControlOK, CallsOK

\* The call alone is a call with the same arguments.
LEMMA CallOf ==
  ASSUME NEW q \in Request
  PROVE  /\ Call(q) \in Request
         /\ Call(q).op = q.op /\ Call(q).job = q.job /\ Call(q).employer = q.employer
         /\ Call(q).employee = q.employee /\ Call(q).macro = q.macro
         /\ Call(q).settled = q.settled
BY DEF Call, Request, NoFavs

\* Leaving or going on.
LEMMA GotoMoves ==
  ASSUME ControlOK, NEW p \in Proc, pc[p] # "idle", NEW l \in Label, Goto(p, l)
  PROVE  Moves(p, l) /\ (l # "answered" => req' = req)
<1>1. pc \in [Proc -> Label] /\ DOMAIN req = Proc /\ req[p] \in Request
  BY DEF ControlOK
<1>2. CASE l = "answered"
  <2>1. pc' = [q \in Proc |-> IF q \in {p} THEN l ELSE pc[q]]
    BY <1>2 DEF Goto, End
  <2>2. req' = [q \in Proc |-> IF q \in {p} THEN Call(req[q]) ELSE req[q]]
    BY <1>2 DEF Goto, End
  <2>3. OthersIdle({p}) /\ pc'[p] = l
    BY <2>1, <2>2, <1>1 DEF OthersIdle
  <2>4. req'[p] = Call(req[p])
    BY <2>2
  <2> QED  BY <2>3, <2>4, <1>1, <1>2, CallOf DEF Moves, Continues
<1>3. CASE l # "answered"
  BY <1>1, <1>3 DEF Goto, Moves, Continues, OthersIdle
<1> QED  BY <1>2, <1>3

\* Going on with what was read.
LEMMA KeepMoves ==
  ASSUME ControlOK, NEW p \in Proc, pc[p] # "idle", NEW l \in Label, NEW q \in Request,
         Keep(p, l, q), q.op = req[p].op, q.job = req[p].job, q.employee = req[p].employee,
         q.macro = req[p].macro, q.settled = req[p].settled,
         ~At(p, {"delete"}, "read") => q.employer = req[p].employer
  PROVE  Moves(p, l) /\ req'[p] = q
BY DEF ControlOK, Keep, Moves, Continues, OthersIdle

\* An exception stops p, or with it all call chains.
LEMMA FailStops ==
  ASSUME NEW p \in Active, Fail(p)
  PROVE  \E P \in SUBSET Active : Stops(P)
<1>1. (IF p[2] = "bg" THEN Active ELSE {p}) \in SUBSET Active
  OBVIOUS
<1> QED  BY <1>1 DEF Fail, Stops

\* An exit of the Node process stops every chain.
LEMMA ExitStops ==
  ASSUME ProcessExit
  PROVE  \E P \in SUBSET Active : Stops(P)
BY DEF ProcessExit, Stops

\* The processes at an operation are active, and hold no transaction before
\* their commit.
LEMMA AtOperation ==
  ASSUME ControlOK, CallsOK, NEW p \in Proc, pc[p] \notin {"idle", "answered", "failed"}
  PROVE  /\ p \in Active /\ req[p] \in Request /\ CallOK(p)
         /\ pc[p] # "commit" => p \notin open /\ Seen(p) = db
<1>1. p \in Active
  BY DEF Active
<1>2. req[p] \in Request /\ CallOK(p)
  BY Called
<1>3. pc[p] # "commit" => p \notin open
  BY DEF ControlOK
<1> QED  BY <1>1, <1>2, <1>3 DEF Seen

\* A request, not its unawaited chain, is at a label other than those three.
LEMMA IsRequest ==
  ASSUME ControlOK, NEW p \in Proc, pc[p] \notin {"idle", "step", "mail", "answered", "failed"}
  PROVE  p = <<p[1], "http">> /\ p[1] \in Req
<1>1. PICK r \in Req : p = <<r, "http">> \/ p = <<r, "bg">>
  BY DEF Proc
<1>2. p # <<r, "bg">>
  BY DEF ControlOK
<1> QED  BY <1>1, <1>2

-----------------------------------------------------------------------------
(* What each operation does *)

\* The documents of one collection.
LEMMA Collections ==
  ASSUME NEW d, NEW w
  PROVE  /\ d \in Job => (ValueOK(d, w) <=> w \in JobDoc)
         /\ d \in DefaultStep => (ValueOK(d, w) <=> w \in BOOLEAN)
         /\ d \in Employer => (ValueOK(d, w) <=> w \in EmployerDoc)
         /\ d \in Employee => (ValueOK(d, w) <=> w \in EmployeeDoc)
         /\ d \in Macro => (ValueOK(d, w) <=> w \in MacroDoc)
BY CatalogueAssumption DEF ValueOK

\* The stored documents by collection.
LEMMA DocTypes ==
  ASSUME StoreOK
  PROVE  /\ \A j \in Job : db[j] \in JobDoc
         /\ \A k \in DefaultStep : db[k] \in BOOLEAN
         /\ \A e \in Employer : db[e] \in EmployerDoc
         /\ \A c \in Employee : db[c] \in EmployeeDoc
         /\ \A m \in Macro : db[m] \in MacroDoc
BY Collections DEF StoreOK, ImageOK, Doc

\* A bounded set of numbers has a largest one.
LEMMA HasMaximum ==
  ASSUME NEW S \in SUBSET Nat, S # {}, NEW n \in Nat, \A k \in S : k <= n
  PROVE  \E i \in S : \A k \in S : k <= i
<1> DEFINE U == {u \in Nat : \A k \in S : k <= u}
<1>1. U \subseteq Nat /\ n \in U
  OBVIOUS
<1>2. PICK u \in U : \A m \in U : ~(<<m, u>> \in OpToRel(<, Nat))
  <2> HIDE DEF U
  <2> QED  BY <1>1, WFMin, NatLessThanWellFounded
<1>3. u \in Nat /\ \A k \in S : k <= u
  OBVIOUS
<1>4. ASSUME u \notin S PROVE FALSE
  <2>1. PICK k \in S : TRUE
    OBVIOUS
  <2>2. k <= u /\ k # u /\ k \in Nat
    BY <1>3, <1>4
  <2>3. u - 1 \in Nat /\ \A i \in S : i <= u - 1
    BY <1>3, <1>4, <2>2
  <2>4. u - 1 \in U
    BY <2>3
  <2>5. <<u - 1, u>> \in OpToRel(<, Nat)
    BY <2>3, <1>3 DEF OpToRel
  <2> QED  BY <1>2, <2>4, <2>5
<1> QED  BY <1>3, <1>4

\* createJob has read the last externalJobId and uploaded its image.
LEMMA CreateReadDoes ==
  ASSUME BaseInv, NEW p \in Proc, CreateRead(p)
  PROVE  /\ At(p, {"create"}, "read") /\ Moves(p, "save")
         /\ StoreOK' /\ Quiet /\ s3' = s3 \cup {p[1]} /\ mixed' = mixed
<1> DEFINE ids == {db[j].externalJobId : j \in Stored(db)}
           next == IF ids = {} THEN 0 ELSE 1 + CHOOSE i \in ids : \A k \in ids : k <= i
<1>1. At(p, {"create"}, "read") /\ Keep(p, "save", [req[p] EXCEPT !.next = next])
  BY DEF CreateRead
<1>2. pc[p] = "read" /\ req[p] \in Request
  BY <1>1, AtOperation DEF BaseInv, At
<1>3. ids \subseteq Nat
  BY DocTypes DEF BaseInv, Stored, JobDoc
<1>4. next \in Nat
  <2>1. CASE ids = {}
    BY <2>1
  <2>2. CASE ids # {}
    <3>1. PICK n \in Nat : \A j \in Stored(db) : db[j].externalJobId <= n
      BY DEF BaseInv, JobsOK
    <3>2. \A k \in ids : k <= n
      BY <3>1
    <3>3. \E i \in ids : \A k \in ids : k <= i
      <4> HIDE DEF ids
      <4> QED  BY <1>3, <2>2, <3>2, HasMaximum
    <3>4. PICK m : m = CHOOSE i \in ids : \A k \in ids : k <= i
      OBVIOUS
    <3>5. m \in ids
      <4> HIDE DEF ids
      <4> QED  BY <3>3, <3>4
    <3>6. next = 1 + m
      BY <2>2, <3>4
    <3> HIDE DEF ids, next
    <3> QED  BY <3>5, <3>6, <1>3
  <2> QED  BY <2>1, <2>2
<1> HIDE DEF ids, next
<1>5. PICK q : q = [req[p] EXCEPT !.next = next]
  OBVIOUS
<1>6. /\ q \in Request
      /\ q.op = req[p].op /\ q.job = req[p].job /\ q.employer = req[p].employer
      /\ q.employee = req[p].employee /\ q.macro = req[p].macro /\ q.settled = req[p].settled
  BY <1>2, <1>4, <1>5 DEF Request
<1>7. Moves(p, "save")
  <2>1. Keep(p, "save", q)
    BY <1>1, <1>5
  <2>2. "save" \in Label /\ pc[p] # "idle" /\ ControlOK
    BY <1>2 DEF Label, BaseInv
  <2> QED  BY <2>1, <2>2, <1>6, KeepMoves
<1>8. UNCHANGED storeVars /\ s3' = s3 \cup {p[1]} /\ mixed' = mixed
  BY DEF CreateRead, storeVars
<1> QED  BY <1>1, <1>7, <1>8, QuietStore DEF BaseInv

\* The job of a creation is stored as a document of its own.
NewJob(p) ==
  [there |-> TRUE, employer |-> req[p].employer, externalJobId |-> req[p].next,
   image |-> p[1], favs |-> NoFavs(Employee)]

\* createJob stores its job, under an externalJobId of its own.
LEMMA CreateSaveDoes ==
  ASSUME BaseInv, NEW p \in Proc, CreateSave(p), ~Fail(p)
  PROVE  /\ At(p, {"create"}, "save") /\ Moves(p, "push")
         /\ NewJob(p) \in JobDoc /\ req[p].employer \in Employer /\ req[p].job = p[1]
         /\ StoreOK' /\ Puts(p[1], NewJob(p)) /\ p[1] \in Req
         /\ s3' = s3 /\ mixed' = mixed
<1>1. At(p, {"create"}, "save") /\ PlainWrite(req[p].job, NewJob(p)) /\ Goto(p, "push")
      /\ s3' = s3 /\ mixed' = mixed
  BY DEF CreateSave, NewJob
<1>2. /\ pc[p] = "save" /\ req[p].op = "create" /\ ControlOK /\ CallsOK /\ StoreOK
      /\ req[p] \in Request /\ CallOK(p)
  BY <1>1, AtOperation DEF BaseInv, At
<1>3. p[1] \in Req
  BY <1>2, IsRequest
<1>4. req[p].job = p[1] /\ req[p].employer \in Employer
  BY <1>2 DEF CallOK, OwnJob
<1>5. NewJob(p) \in JobDoc
  BY <1>2, <1>3 DEF NewJob, JobDoc, Request, NoFavs
<1>6. p[1] \in Job /\ p[1] \in Doc
  BY <1>3 DEF Job, Doc
<1>7. StoreOK' /\ Puts(p[1], NewJob(p))
  BY <1>1, <1>2, <1>4, <1>5, <1>6, Collections, PlainWritePuts
<1>8. Moves(p, "push")
  BY <1>1, <1>2, GotoMoves DEF Label
<1> QED  BY <1>1, <1>3, <1>4, <1>5, <1>7, <1>8

\* createJob lists its job in its transaction and starts the default steps.
LEMMA CreatePushDoes ==
  ASSUME BaseInv, NEW p \in Proc, CreatePush(p), ~Fail(p)
  PROVE  /\ At(p, {"create"}, "push") /\ Spawns(p, "commit", "step")
         /\ p = <<p[1], "http">> /\ p[1] \in Req /\ req[p] \in Request
         /\ req[p].employer \in Employer
         /\ StoreOK' /\ db' = db /\ s3' = s3 /\ mixed' = mixed
         /\ open' = open \cup {p} /\ TxnsKept(Proc \ {p})
         /\ writes'[p] = {req[p].employer}
         /\ view'[p][req[p].employer]
              = [db[req[p].employer] EXCEPT !.jobs = @ \cup {req[p].job}]
<1>1. PICK e : e = req[p].employer
  OBVIOUS
<1>2. PICK x : x = Seen(p)
  OBVIOUS
<1>3. PICK v : v = [x EXCEPT ![e].jobs = @ \cup {req[p].job}]
  OBVIOUS
<1>4. /\ At(p, {"create"}, "push") /\ TxnWrite(p, v, {e})
      /\ pc' = [pc EXCEPT ![p] = "commit", ![<<p[1], "bg">>] = "step"]
      /\ req' = [req EXCEPT ![<<p[1], "bg">>] = req[p]]
      /\ s3' = s3 /\ mixed' = mixed
  BY <1>1, <1>2, <1>3 DEF CreatePush
<1>5. /\ pc[p] = "push" /\ req[p].op = "create" /\ ControlOK /\ CallsOK /\ StoreOK
      /\ req[p] \in Request /\ CallOK(p) /\ p \notin open /\ x = db
  BY <1>4, <1>2, AtOperation DEF BaseInv, At
<1>6. p = <<p[1], "http">> /\ p[1] \in Req
  BY <1>5, IsRequest
<1>7. e \in Employer /\ e \in Doc /\ db[e] \in EmployerDoc /\ req[p].job \in Job
  BY <1>1, <1>5, DocTypes DEF CallOK, Doc, Request
<1>8. [db[e] EXCEPT !.jobs = @ \cup {req[p].job}] \in EmployerDoc
  BY <1>7 DEF EmployerDoc
<1>9. /\ DOMAIN v = Doc /\ v[e] = [db[e] EXCEPT !.jobs = @ \cup {req[p].job}]
      /\ \A d \in Doc \ {e} : v[d] = db[d]
  BY <1>3, <1>5, <1>7 DEF StoreOK, ImageOK
<1>10. ImageOK(v)
  <2>1. ValueOK(e, v[e])
    BY <1>7, <1>8, <1>9, Collections
  <2>2. \A d \in Doc \ {e} : ValueOK(d, v[d])
    BY <1>5, <1>9 DEF StoreOK, ImageOK
  <2> QED  BY <2>1, <2>2, <1>9 DEF ImageOK
<1>11. /\ StoreOK' /\ db' = db /\ view'[p] = v /\ writes'[p] = {e}
       /\ open' = open \cup {p} /\ TxnsKept(Proc \ {p})
  BY <1>4, <1>5, <1>7, <1>9, <1>10, TxnWriteStore
<1>12. Spawns(p, "commit", "step")
  <2>1. <<p[1], "bg">> \in Proc /\ <<p[1], "bg">> # p
    BY <1>6 DEF Proc
  <2> QED  BY <1>4, <1>5, <2>1 DEF Spawns, OthersIdle, ControlOK, Label
<1> QED  BY <1>1, <1>4, <1>5, <1>6, <1>7, <1>9, <1>11, <1>12

\* One default step of a new job is stored.
LEMMA CreateStepDoes ==
  ASSUME BaseInv, NEW p \in Proc, CreateStep(p)
  PROVE  /\ At(p, {"create"}, "step")
         /\ Moves(p, "step") \/ Moves(p, "answered")
         /\ StoreOK' /\ s3' = s3 /\ mixed' = mixed
         /\ \E d \in DefaultStep : Puts(d, TRUE)
<1>1. At(p, {"create"}, "step") /\ s3' = s3 /\ mixed' = mixed
  BY DEF CreateStep
<1>2. PICK k \in Default :
        /\ PlainWrite(<<req[p].job, k>>, TRUE)
        /\ Goto(p, "answered") \/ Goto(p, "step")
  BY DEF CreateStep
<1>3. pc[p] = "step" /\ ControlOK /\ CallsOK /\ StoreOK /\ req[p] \in Request
  BY <1>1, AtOperation DEF BaseInv, At
<1>4. PICK d : d = <<req[p].job, k>>
  OBVIOUS
<1>5. d \in DefaultStep /\ d \in Doc
  BY <1>3, <1>4 DEF DefaultStep, Request, Doc
<1>6. StoreOK' /\ Puts(d, TRUE)
  BY <1>2, <1>3, <1>4, <1>5, Collections, PlainWritePuts
<1>7. Moves(p, "step") \/ Moves(p, "answered")
  BY <1>2, <1>3, GotoMoves DEF Label
<1> QED  BY <1>1, <1>5, <1>6, <1>7

\* An update changes the employer of a stored job, and answers.
LEMMA UpdateJobDoes ==
  ASSUME BaseInv, NEW p \in Proc, UpdateJob(p)
  PROVE  LET j == req[p].job
         IN  /\ At(p, {"update"}, "read") /\ Moves(p, "answered")
             /\ j \in Job /\ req[p].employer \in Employer
             /\ StoreOK' /\ s3' = s3 /\ mixed' = mixed
             /\ Puts(j, IF db[j].there THEN [db[j] EXCEPT !.employer = req[p].employer]
                        ELSE db[j])
<1>1. PICK j : j = req[p].job
  OBVIOUS
<1>2. /\ At(p, {"update"}, "read") /\ Goto(p, "answered") /\ s3' = s3 /\ mixed' = mixed
      /\ Write(j, db[j].there, [db[j] EXCEPT !.employer = req[p].employer])
  BY <1>1 DEF UpdateJob
<1>3. /\ pc[p] = "read" /\ req[p].op = "update" /\ ControlOK /\ CallsOK /\ StoreOK
      /\ req[p] \in Request /\ CallOK(p)
  BY <1>2, AtOperation DEF BaseInv, At
<1>4. j \in Job /\ j \in Doc /\ db[j] \in JobDoc /\ req[p].employer \in Employer
  BY <1>1, <1>3, DocTypes DEF CallOK, Doc, Request
<1>5. [db[j] EXCEPT !.employer = req[p].employer] \in JobDoc /\ db[j].there \in BOOLEAN
  BY <1>4 DEF JobDoc
<1>6. StoreOK' /\ Puts(j, IF db[j].there THEN [db[j] EXCEPT !.employer = req[p].employer]
                          ELSE db[j])
  BY <1>2, <1>3, <1>4, <1>5, Collections, WritePuts
<1>7. Moves(p, "answered")
  BY <1>2, <1>3, GotoMoves DEF Label
<1> QED  BY <1>1, <1>2, <1>4, <1>6, <1>7

\* A new image is uploaded, and no document changed.
LEMMA UploadImageDoes ==
  ASSUME BaseInv, NEW p \in Proc, UploadImage(p)
  PROVE  /\ At(p, {"image"}, "read") /\ Moves(p, "save") /\ p[1] \in Req
         /\ StoreOK' /\ Quiet /\ s3' = s3 \cup {p[1]} /\ mixed' = mixed
<1>1. /\ At(p, {"image"}, "read") /\ Goto(p, "save") /\ UNCHANGED storeVars
      /\ s3' = s3 \cup {p[1]} /\ mixed' = mixed
  BY DEF UploadImage, storeVars
<1>2. pc[p] = "read" /\ ControlOK /\ StoreOK
  BY <1>1 DEF BaseInv, At
<1> QED  BY <1>1, <1>2, GotoMoves, QuietStore, IsRequest DEF Label

\* A stored job gets the image of the request, and the call answers.
LEMMA SetImageDoes ==
  ASSUME BaseInv, NEW p \in Proc, SetImage(p)
  PROVE  LET j == req[p].job
         IN  /\ At(p, {"image"}, "save") /\ Moves(p, "answered")
             /\ j \in Job /\ p[1] \in Req
             /\ StoreOK' /\ s3' = s3 /\ mixed' = mixed
             /\ Puts(j, IF db[j].there THEN [db[j] EXCEPT !.image = p[1]] ELSE db[j])
<1>1. PICK j : j = req[p].job
  OBVIOUS
<1>2. /\ At(p, {"image"}, "save") /\ Goto(p, "answered") /\ s3' = s3 /\ mixed' = mixed
      /\ Write(j, db[j].there, [db[j] EXCEPT !.image = p[1]])
  BY <1>1 DEF SetImage
<1>3. /\ pc[p] = "save" /\ req[p].op = "image" /\ ControlOK /\ CallsOK /\ StoreOK
      /\ req[p] \in Request /\ p[1] \in Req
  BY <1>2, AtOperation, IsRequest DEF BaseInv, At
<1>4. j \in Job /\ j \in Doc /\ db[j] \in JobDoc
  BY <1>1, <1>3, DocTypes DEF Doc, Request
<1>5. [db[j] EXCEPT !.image = p[1]] \in JobDoc /\ db[j].there \in BOOLEAN
  BY <1>3, <1>4 DEF JobDoc
<1>6. StoreOK' /\ Puts(j, IF db[j].there THEN [db[j] EXCEPT !.image = p[1]] ELSE db[j])
  BY <1>2, <1>3, <1>4, <1>5, Collections, WritePuts
<1>7. Moves(p, "answered")
  BY <1>2, <1>3, GotoMoves DEF Label
<1> QED  BY <1>1, <1>2, <1>3, <1>4, <1>6, <1>7

\* A deletion has read a stored job and the employer it names.
LEMMA DeleteReadDoes ==
  ASSUME BaseInv, NEW p \in Proc, DeleteRead(p), ~Fail(p)
  PROVE  LET j == req[p].job
         IN  /\ At(p, {"delete"}, "read") /\ Moves(p, "write")
             /\ j \in Job /\ db[j].there
             /\ req'[p].employer = db[j].employer /\ db[j].employer \in Employer
             /\ StoreOK' /\ Quiet /\ s3' = s3 /\ mixed' = mixed
<1>1. PICK j : j = req[p].job
  OBVIOUS
<1>2. PICK q : q = [req[p] EXCEPT !.employer = db[j].employer]
  OBVIOUS
<1>3. /\ At(p, {"delete"}, "read") /\ Keep(p, "write", q) /\ db[j].there
      /\ UNCHANGED storeVars /\ s3' = s3 /\ mixed' = mixed
  BY <1>1, <1>2 DEF DeleteRead, storeVars
<1>4. pc[p] = "read" /\ ControlOK /\ CallsOK /\ StoreOK /\ req[p] \in Request
  BY <1>3, AtOperation DEF BaseInv, At
<1>5. j \in Job /\ j \in Stored(db) /\ db[j].employer \in Employer
  BY <1>1, <1>3, <1>4 DEF BaseInv, JobsOK, Request, Stored
<1>6. /\ q \in Request /\ q.employer = db[j].employer
      /\ q.op = req[p].op /\ q.job = req[p].job
      /\ q.employee = req[p].employee /\ q.macro = req[p].macro /\ q.settled = req[p].settled
  BY <1>2, <1>4, <1>5 DEF Request
<1>7. Moves(p, "write") /\ req'[p] = q
  BY <1>3, <1>4, <1>6, KeepMoves DEF Label
<1> QED  BY <1>1, <1>3, <1>4, <1>5, <1>6, <1>7, QuietStore

\* The documents after a deletion.
LEMMA DeletedDocIs ==
  ASSUME StoreOK, NEW j \in Job, NEW e \in Employer, NEW d \in Doc
  PROVE  /\ ValueOK(d, DeletedDoc(db, j, e, d))
         /\ d \notin {j, e} \cup ({j} \X Default) => DeletedDoc(db, j, e, d) = db[d]
         /\ DeletedDoc(db, j, e, j) = NoJob
         /\ DeletedDoc(db, j, e, e) = [db[e] EXCEPT !.jobs = @ \ {j}]
<1>1. e # j
  BY CatalogueAssumption
<1>2. NoJob \in JobDoc
  BY DEF NoJob, JobDoc, NoFavs
<1>3. db[e] \in EmployerDoc /\ [db[e] EXCEPT !.jobs = @ \ {j}] \in EmployerDoc
  BY DocTypes DEF EmployerDoc
<1>4. ValueOK(d, DeletedDoc(db, j, e, d))
  <2>1. CASE d = j
    BY <2>1, <1>2, Collections DEF DeletedDoc
  <2>2. CASE d = e /\ d # j
    BY <2>2, <1>3, Collections DEF DeletedDoc
  <2>3. CASE d \notin {j, e} /\ d \in {j} \X Default
    <3>1. d \in DefaultStep
      BY <2>3 DEF DefaultStep
    <3> QED  BY <2>3, <3>1, Collections DEF DeletedDoc
  <2>4. CASE d \notin {j, e} /\ d \notin {j} \X Default
    BY <2>4 DEF DeletedDoc, StoreOK, ImageOK
  <2> QED  BY <2>1, <2>2, <2>3, <2>4
<1> QED  BY <1>1, <1>4 DEF DeletedDoc

\* A deletion changes, in its transaction, what DeletedDoc says of what is committed.
LEMMA DeleteWriteDoes ==
  ASSUME BaseInv, NEW p \in Proc, DeleteWrite(p), ~Fail(p)
  PROVE  LET j == req[p].job
             e == req[p].employer
         IN  /\ At(p, {"delete"}, "write") /\ Moves(p, "commit") /\ req' = req
             /\ j \in Job /\ e \in Employer
             /\ StoreOK' /\ db' = db /\ s3' = s3 /\ mixed' = mixed
             /\ open' = open \cup {p} /\ TxnsKept(Proc \ {p})
             /\ \A d \in Doc : view'[p][d] = DeletedDoc(db, j, e, d)
             /\ writes'[p] = {d \in Doc : DeletedDoc(db, j, e, d) # db[d]}
<1>1. PICK j, e : j = req[p].job /\ e = req[p].employer
  OBVIOUS
<1>2. PICK x : x = Seen(p)
  OBVIOUS
<1>3. PICK v : v = [d \in Doc |-> DeletedDoc(x, j, e, d)]
  OBVIOUS
<1>4. PICK W : W = {d \in Doc : v[d] # x[d]}
  OBVIOUS
<1>5. /\ At(p, {"delete"}, "write") /\ TxnWrite(p, v, W) /\ Goto(p, "commit")
      /\ s3' = s3 /\ mixed' = mixed
  BY <1>1, <1>2, <1>3, <1>4 DEF DeleteWrite
<1>6. /\ pc[p] = "write" /\ req[p].op = "delete" /\ ControlOK /\ CallsOK /\ StoreOK
      /\ req[p] \in Request /\ CallOK(p) /\ p \notin open /\ x = db
  BY <1>5, <1>2, AtOperation DEF BaseInv, At
<1>7. j \in Job /\ e \in Employer
  BY <1>1, <1>6 DEF CallOK, Request
<1>8. ImageOK(v)
  BY <1>3, <1>6, <1>7, DeletedDocIs DEF ImageOK
<1>9. W \in SUBSET Doc /\ \A d \in Doc \ W : v[d] = db[d]
  BY <1>4, <1>6
<1>10. /\ StoreOK' /\ db' = db /\ view'[p] = v /\ writes'[p] = W
       /\ open' = open \cup {p} /\ TxnsKept(Proc \ {p})
  BY <1>5, <1>6, <1>8, <1>9, TxnWriteStore
<1>11. Moves(p, "commit") /\ req' = req
  BY <1>5, <1>6, GotoMoves DEF Label
<1> QED  BY <1>1, <1>3, <1>4, <1>5, <1>6, <1>7, <1>10, <1>11

\* An invitation answers and starts its mails.
LEMMA InviteDoes ==
  ASSUME BaseInv, NEW p \in Proc, Invite(p), ~Fail(p)
  PROVE  /\ At(p, {"invite"}, "read") /\ Spawns(p, "answered", "mail")
         /\ p = <<p[1], "http">> /\ p[1] \in Req /\ req[p] \in Request
         /\ StoreOK' /\ Quiet /\ s3' = s3 /\ mixed' = mixed
<1>1. /\ At(p, {"invite"}, "read") /\ UNCHANGED storeVars /\ s3' = s3 /\ mixed' = mixed
      /\ pc' = [pc EXCEPT ![p] = "answered", ![<<p[1], "bg">>] = "mail"]
      /\ req' = [req EXCEPT ![<<p[1], "bg">>] = req[p]]
  BY DEF Invite, storeVars
<1>2. pc[p] = "read" /\ ControlOK /\ CallsOK /\ StoreOK /\ req[p] \in Request
  BY <1>1, AtOperation DEF BaseInv, At
<1>3. p = <<p[1], "http">> /\ p[1] \in Req
  BY <1>2, IsRequest
<1>4. <<p[1], "bg">> \in Proc /\ <<p[1], "bg">> # p
  BY <1>3 DEF Proc
<1>5. Spawns(p, "answered", "mail")
  BY <1>1, <1>2, <1>4 DEF Spawns, OthersIdle, ControlOK, Label
<1> QED  BY <1>1, <1>2, <1>3, <1>5, QuietStore

\* The mails of an invitation change no document.
LEMMA InviteMailDoes ==
  ASSUME BaseInv, NEW p \in Proc, InviteMail(p)
  PROVE  /\ At(p, {"invite"}, "mail") /\ Moves(p, "answered")
         /\ StoreOK' /\ Quiet /\ s3' = s3 /\ mixed' = mixed
<1>1. /\ At(p, {"invite"}, "mail") /\ Goto(p, "answered") /\ UNCHANGED storeVars
      /\ s3' = s3 /\ mixed' = mixed
  BY DEF InviteMail, storeVars
<1>2. pc[p] = "mail" /\ ControlOK /\ StoreOK
  BY <1>1 DEF BaseInv, At
<1> QED  BY <1>1, <1>2, GotoMoves, QuietStore DEF Label

\* The two sides of the favourite that a toggle is about.
LEMMA TogglePair ==
  ASSUME BaseInv, NEW p \in Proc, pc[p] \notin {"idle", "answered", "failed"}, Toggling(p)
  PROVE  /\ p \in Toggles /\ Own(p) \in Job \cup Employer /\ Own(p) \in Doc
         /\ req[p].employee \in Employee /\ req[p].employee \in Doc
         /\ Pair(p) = <<Own(p), req[p].employee>>
         /\ req[p] \in Request
<1>1. req[p] \in Request /\ CallOK(p) /\ p \in Active
  BY AtOperation DEF BaseInv
<1>2. req[p].employee \in Employee
  BY <1>1 DEF CallOK, Toggling
<1>3. CASE req[p].op = "favJob"
  BY <1>1, <1>2, <1>3 DEF Own, Pair, Doc, Toggles, Request
<1>4. CASE req[p].op = "favEmployee"
  BY <1>1, <1>2, <1>4 DEF Own, Pair, Doc, Toggles, CallOK
<1> QED  BY <1>3, <1>4 DEF Toggling

\* A toggle has read the first side of its favourite.
LEMMA ToggleReadDoes ==
  ASSUME BaseInv, NEW p \in Proc, ToggleRead(p), ~Fail(p)
  PROVE  LET d == Own(p)
             c == req[p].employee
         IN  /\ pc[p] = "read" /\ Toggling(p) /\ Moves(p, "own")
             /\ d \in Job => db[d].there
             /\ req'[p].has <=> db[d].favs[c] > 0
             /\ StoreOK' /\ Quiet /\ s3' = s3 /\ mixed' = mixed
<1>1. PICK d, c : d = Own(p) /\ c = req[p].employee
  OBVIOUS
<1>2. PICK h : h = (db[d].favs[c] > 0)
  OBVIOUS
<1>3. PICK q : q = [req[p] EXCEPT !.has = h]
  OBVIOUS
<1>4. /\ pc[p] = "read" /\ Toggling(p) /\ Keep(p, "own", q) /\ (d \in Job => db[d].there)
      /\ UNCHANGED storeVars /\ s3' = s3 /\ mixed' = mixed
  BY <1>1, <1>2, <1>3 DEF ToggleRead, storeVars
<1>5. ControlOK /\ CallsOK /\ StoreOK /\ req[p] \in Request /\ h \in BOOLEAN
  BY <1>2, <1>4, AtOperation DEF BaseInv
<1>6. /\ q \in Request /\ q.employer = req[p].employer /\ q.has = h
      /\ q.op = req[p].op /\ q.job = req[p].job
      /\ q.employee = req[p].employee /\ q.macro = req[p].macro /\ q.settled = req[p].settled
  BY <1>3, <1>5 DEF Request
<1>7. Moves(p, "own") /\ req'[p] = q
  BY <1>4, <1>5, <1>6, KeepMoves DEF Label
<1> QED  BY <1>1, <1>2, <1>4, <1>5, <1>6, <1>7, QuietStore

\* Setting one counter of a favourite.
LEMMA FavsSet ==
  ASSUME StoreOK, NEW n \in Nat
  PROVE  /\ \A d \in Job, c \in Employee : [db[d] EXCEPT !.favs[c] = n] \in JobDoc
         /\ \A d \in Employer, c \in Employee : [db[d] EXCEPT !.favs[c] = n] \in EmployerDoc
         /\ \A c \in Employee, d \in Job \cup Employer :
              [db[c] EXCEPT !.favs[d] = n] \in EmployeeDoc
<1>1. \A d \in Job, c \in Employee : [db[d] EXCEPT !.favs[c] = n] \in JobDoc
  <2> SUFFICES ASSUME NEW d \in Job, NEW c \in Employee
               PROVE  [db[d] EXCEPT !.favs[c] = n] \in JobDoc
    OBVIOUS
  <2>1. db[d] \in JobDoc
    BY DocTypes
  <2> QED  BY <2>1 DEF JobDoc
<1>2. \A d \in Employer, c \in Employee : [db[d] EXCEPT !.favs[c] = n] \in EmployerDoc
  BY DocTypes DEF EmployerDoc
<1>3. \A c \in Employee, d \in Job \cup Employer :
        [db[c] EXCEPT !.favs[d] = n] \in EmployeeDoc
  BY DocTypes DEF EmployeeDoc
<1> QED  BY <1>1, <1>2, <1>3

\* The counters are numbers.
LEMMA FavsTypes ==
  ASSUME StoreOK
  PROVE  \A d \in Job \cup Employer, c \in Employee :
           /\ db[d].favs \in [Employee -> Nat] /\ db[c].favs \in [Job \cup Employer -> Nat]
           /\ db[d].favs[c] \in Nat /\ db[c].favs[d] \in Nat
BY DocTypes DEF JobDoc, EmployerDoc, EmployeeDoc

\* Document d with the counter of c set to n.
WithFav(d, c, n) == [db[d] EXCEPT !.favs[c] = n]

\* A toggle sets the first side, if its document is still there.
LEMMA ToggleOwnDoes ==
  ASSUME BaseInv, NEW p \in Proc, ToggleOwn(p)
  PROVE  LET d == Own(p)
             c == req[p].employee
             n == Toggled(db[d].favs[c], req[p].has)
         IN  /\ pc[p] = "own" /\ Toggling(p) /\ Moves(p, "find") /\ req' = req
             /\ n \in Nat
             /\ StoreOK' /\ s3' = s3 /\ mixed' = mixed
             /\ Puts(d, IF d \in Employer \/ (d \in Job /\ db[d].there)
                        THEN WithFav(d, c, n) ELSE db[d])
<1>1. PICK d, c : d = Own(p) /\ c = req[p].employee
  OBVIOUS
<1>2. PICK n : n = Toggled(db[d].favs[c], req[p].has)
  OBVIOUS
<1>3. PICK there : there = (d \in Employer \/ (d \in Job /\ db[d].there))
  OBVIOUS
<1>4. /\ pc[p] = "own" /\ Toggling(p) /\ Goto(p, "find") /\ s3' = s3 /\ mixed' = mixed
      /\ Write(d, there, WithFav(d, c, n))
  BY <1>1, <1>2, <1>3 DEF ToggleOwn, WithFav
<1>5. /\ d \in Job \cup Employer /\ d \in Doc /\ c \in Employee /\ req[p] \in Request
      /\ StoreOK /\ ControlOK
  BY <1>1, <1>4, TogglePair DEF BaseInv
<1>6. n \in Nat
  BY <1>2, <1>5, FavsTypes DEF Toggled
<1>7. there \in BOOLEAN
  BY <1>3
<1>8. ValueOK(d, WithFav(d, c, n))
  BY <1>5, <1>6, FavsSet, Collections DEF WithFav
<1>9. StoreOK' /\ Puts(d, IF there THEN WithFav(d, c, n) ELSE db[d])
  BY <1>4, <1>5, <1>7, <1>8, WritePuts
<1>10. Moves(p, "find") /\ req' = req
  BY <1>4, <1>5, GotoMoves DEF Label
<1> QED  BY <1>1, <1>2, <1>3, <1>4, <1>6, <1>9, <1>10

\* A toggle has read the second side.
LEMMA ToggleFindDoes ==
  ASSUME BaseInv, NEW p \in Proc, ToggleFind(p)
  PROVE  LET d == Own(p)
             c == req[p].employee
         IN  /\ pc[p] = "find" /\ Toggling(p) /\ Moves(p, "other")
             /\ req'[p].has <=> db[c].favs[d] > 0 /\ (d \in Job => db[d].there)
             /\ StoreOK' /\ Quiet /\ s3' = s3 /\ mixed' = mixed
<1>1. PICK d, c : d = Own(p) /\ c = req[p].employee
  OBVIOUS
<1>2. PICK h : h = (db[c].favs[d] > 0 /\ (d \in Job => db[d].there))
  OBVIOUS
<1>3. PICK q : q = [req[p] EXCEPT !.has = h]
  OBVIOUS
<1>4. /\ pc[p] = "find" /\ Toggling(p) /\ Keep(p, "other", q)
      /\ UNCHANGED storeVars /\ s3' = s3 /\ mixed' = mixed
  BY <1>1, <1>2, <1>3 DEF ToggleFind, storeVars
<1>5. ControlOK /\ CallsOK /\ StoreOK /\ req[p] \in Request /\ h \in BOOLEAN
  BY <1>2, <1>4, AtOperation DEF BaseInv
<1>6. /\ q \in Request /\ q.employer = req[p].employer /\ q.has = h
      /\ q.op = req[p].op /\ q.job = req[p].job
      /\ q.employee = req[p].employee /\ q.macro = req[p].macro /\ q.settled = req[p].settled
  BY <1>3, <1>5 DEF Request
<1>7. Moves(p, "other") /\ req'[p] = q
  BY <1>4, <1>5, <1>6, KeepMoves DEF Label
<1> QED  BY <1>1, <1>2, <1>4, <1>5, <1>6, <1>7, QuietStore

\* A toggle sets the second side, and answers.
LEMMA ToggleOtherDoes ==
  ASSUME BaseInv, NEW p \in Proc, ToggleOther(p)
  PROVE  LET d == Own(p)
             c == req[p].employee
             n == Toggled(db[c].favs[d], req[p].has)
         IN  /\ pc[p] = "other" /\ Toggling(p) /\ Moves(p, "answered")
             /\ n \in Nat
             /\ StoreOK' /\ s3' = s3 /\ mixed' = mixed
             /\ Puts(c, WithFav(c, d, n))
<1>1. PICK d, c : d = Own(p) /\ c = req[p].employee
  OBVIOUS
<1>2. PICK n : n = Toggled(db[c].favs[d], req[p].has)
  OBVIOUS
<1>4. /\ pc[p] = "other" /\ Toggling(p) /\ Goto(p, "answered") /\ s3' = s3 /\ mixed' = mixed
      /\ Write(c, TRUE, WithFav(c, d, n))
  BY <1>1, <1>2 DEF ToggleOther, WithFav
<1>5. /\ d \in Job \cup Employer /\ c \in Doc /\ c \in Employee /\ req[p] \in Request
      /\ StoreOK /\ ControlOK
  BY <1>1, <1>4, TogglePair DEF BaseInv
<1>6. n \in Nat
  BY <1>2, <1>5, FavsTypes DEF Toggled
<1>8. ValueOK(c, WithFav(c, d, n))
  BY <1>5, <1>6, FavsSet, Collections DEF WithFav
<1>9. StoreOK' /\ Puts(c, WithFav(c, d, n))
  BY <1>4, <1>5, <1>8, WritePuts
<1>10. Moves(p, "answered")
  BY <1>4, <1>5, GotoMoves DEF Label
<1> QED  BY <1>1, <1>2, <1>4, <1>6, <1>9, <1>10

\* A macro job as it is created, and after an update with these jobs.
MacroNew(jobs) == [there |-> TRUE, jobs |-> jobs, version |-> 0]

MacroWithJobs(m, jobs) == [db[m] EXCEPT !.jobs = jobs]

\* The lists that a body may hold are lists of jobs.
LEMMA MacroJobsTyped ==
  ASSUME NEW jobs \in MacroJobs
  PROVE  jobs \in [Job -> Nat]
<1>1. PICK S \in SUBSET Stored(db) : jobs = [j \in Job |-> IF j \in S THEN 1 ELSE 0]
  BY DEF MacroJobs
<1> QED  BY <1>1

\* A macro job that was never stored is stored, with the jobs of the body.
LEMMA MacroCreateDoes ==
  ASSUME BaseInv, NEW p \in Proc, MacroCreate(p)
  PROVE  LET m == req[p].macro
         IN  /\ At(p, {"macroCreate"}, "read") /\ Moves(p, "answered")
             /\ m \in Macro /\ ~db[m].there /\ db[m].version = 0
             /\ StoreOK' /\ s3' = s3 /\ mixed' = mixed
             /\ \E jobs \in [Job -> Nat] : Puts(m, MacroNew(jobs))
<1>1. PICK m : m = req[p].macro
  OBVIOUS
<1>2. /\ At(p, {"macroCreate"}, "read") /\ Goto(p, "answered") /\ s3' = s3 /\ mixed' = mixed
      /\ ~db[m].there /\ db[m].version = 0
      /\ \E jobs \in MacroJobs : PlainWrite(m, MacroNew(jobs))
  BY <1>1 DEF MacroCreate, MacroNew
<1>3. pc[p] = "read" /\ ControlOK /\ CallsOK /\ StoreOK /\ req[p] \in Request
  BY <1>2, AtOperation DEF BaseInv, At
<1>4. m \in Macro /\ m \in Doc
  BY <1>1, <1>3 DEF Doc, Request
<1>5. PICK jobs \in MacroJobs : PlainWrite(m, MacroNew(jobs))
  BY <1>2
<1>6. jobs \in [Job -> Nat] /\ MacroNew(jobs) \in MacroDoc
  BY MacroJobsTyped DEF MacroNew, MacroDoc
<1>7. StoreOK' /\ Puts(m, MacroNew(jobs))
  BY <1>3, <1>4, <1>5, <1>6, Collections, PlainWritePuts
<1>8. Moves(p, "answered")
  BY <1>2, <1>3, GotoMoves DEF Label
<1> QED  BY <1>1, <1>2, <1>4, <1>6, <1>7, <1>8

\* An update replaces the jobs of a stored macro job, or leaves them; the call
\* keeps the version that it left and whether it replaced them.
LEMMA MacroUpdateDoes ==
  ASSUME BaseInv, NEW p \in Proc, MacroUpdate(p), ~Fail(p)
  PROVE  LET m == req[p].macro
         IN  /\ At(p, {"macroUpdate"}, "read") /\ Moves(p, "answered")
             /\ m \in Macro /\ db[m].there
             /\ StoreOK' /\ s3' = s3 /\ mixed' = mixed
             /\ req'[p].next = db[m].version
             /\ \E jobs \in [Job -> Nat] :
                  /\ Puts(m, MacroWithJobs(m, jobs))
                  /\ jobs # db[m].jobs => req'[p].has
<1>1. PICK m : m = req[p].macro
  OBVIOUS
<1>2. /\ At(p, {"macroUpdate"}, "read") /\ db[m].there
      /\ \E jobs \in MacroJobs \cup {db[m].jobs} :
           /\ Write(m, TRUE, MacroWithJobs(m, jobs))
           /\ Keep(p, "answered", [Call(req[p]) EXCEPT !.next = db[m].version,
                                                       !.has = jobs # db[m].jobs])
           /\ s3' = s3 /\ mixed' = mixed
  BY <1>1 DEF MacroUpdate, MacroWithJobs
<1>3. pc[p] = "read" /\ ControlOK /\ CallsOK /\ StoreOK /\ req[p] \in Request
  BY <1>2, AtOperation DEF BaseInv, At
<1>4. m \in Macro /\ m \in Doc /\ db[m] \in MacroDoc
  BY <1>1, <1>3, DocTypes DEF Doc, Request
<1>5. PICK jobs \in MacroJobs \cup {db[m].jobs} :
        /\ Write(m, TRUE, MacroWithJobs(m, jobs))
        /\ Keep(p, "answered", [Call(req[p]) EXCEPT !.next = db[m].version,
                                                    !.has = jobs # db[m].jobs])
        /\ s3' = s3 /\ mixed' = mixed
  BY <1>2
<1>6. jobs \in [Job -> Nat] /\ db[m].version \in Nat
  BY <1>4, MacroJobsTyped DEF MacroDoc
<1>7. MacroWithJobs(m, jobs) \in MacroDoc
  BY <1>4, <1>6 DEF MacroWithJobs, MacroDoc
<1>8. StoreOK' /\ Puts(m, MacroWithJobs(m, jobs))
  <2>1. StoreOK' /\ Puts(m, IF TRUE THEN MacroWithJobs(m, jobs) ELSE db[m])
    BY <1>3, <1>4, <1>5, <1>7, Collections, WritePuts
  <2> QED  BY <2>1
<1>9. PICK c : c = Call(req[p])
  OBVIOUS
<1>10. PICK h \in BOOLEAN : h <=> jobs # db[m].jobs
  OBVIOUS
<1>11. (jobs # db[m].jobs) = h
  BY <1>10
<1>12. PICK q : q = [c EXCEPT !.next = db[m].version, !.has = h]
  OBVIOUS
<1>13. Keep(p, "answered", q)
  BY <1>5, <1>9, <1>11, <1>12
<1>14. c \in Request /\ c.op = req[p].op /\ c.job = req[p].job /\ c.employer = req[p].employer
       /\ c.employee = req[p].employee /\ c.macro = req[p].macro
       /\ c.settled = req[p].settled
  BY <1>3, <1>9, CallOf
<1>15. /\ q \in Request /\ q.op = c.op /\ q.job = c.job /\ q.employer = c.employer
       /\ q.employee = c.employee /\ q.macro = c.macro /\ q.settled = c.settled
       /\ q.next = db[m].version /\ q.has = h
  BY <1>6, <1>12, <1>14 DEF Request
<1>16. Moves(p, "answered") /\ req'[p] = q
  BY <1>3, <1>13, <1>14, <1>15, KeepMoves DEF Label
<1>17. req'[p].next = db[m].version /\ (jobs # db[m].jobs => req'[p].has)
  BY <1>10, <1>15, <1>16
<1> QED  BY <1>1, <1>2, <1>4, <1>5, <1>6, <1>8, <1>16, <1>17

\* An addition or a removal has read the jobs and the version of a stored macro job.
LEMMA MacroReadDoes ==
  ASSUME BaseInv, NEW p \in Proc, MacroRead(p), ~Fail(p)
  PROVE  LET m == req[p].macro
         IN  /\ At(p, {"macroAdd", "macroDrop"}, "read")
             /\ Moves(p, "find") \/ Moves(p, "save")
             /\ m \in Macro /\ db[m].there
             /\ req'[p].list = db[m].jobs /\ req'[p].next = db[m].version
             /\ StoreOK' /\ Quiet /\ s3' = s3 /\ mixed' = mixed
<1>1. PICK m : m = req[p].macro
  OBVIOUS
<1>2. PICK q : q = [req[p] EXCEPT !.list = db[m].jobs, !.next = db[m].version]
  OBVIOUS
<1>3. /\ At(p, {"macroAdd", "macroDrop"}, "read") /\ db[m].there
      /\ Keep(p, "find", q) \/ Keep(p, "save", q)
      /\ UNCHANGED storeVars /\ s3' = s3 /\ mixed' = mixed
  BY <1>1, <1>2 DEF MacroRead, storeVars
<1>4. /\ pc[p] = "read" /\ req[p].op \in {"macroAdd", "macroDrop"}
      /\ ControlOK /\ CallsOK /\ StoreOK /\ req[p] \in Request
  BY <1>3, AtOperation DEF BaseInv, At
<1>5. m \in Macro /\ db[m].jobs \in [Job -> Nat] /\ db[m].version \in Nat
  BY <1>1, <1>4, DocTypes DEF Request, MacroDoc
<1>6. /\ q \in Request /\ q.list = db[m].jobs /\ q.next = db[m].version
      /\ q.op = req[p].op /\ q.job = req[p].job /\ q.employer = req[p].employer
      /\ q.employee = req[p].employee /\ q.macro = req[p].macro /\ q.settled = req[p].settled
  BY <1>2, <1>4, <1>5 DEF Request
<1>7. (Moves(p, "find") \/ Moves(p, "save")) /\ req'[p] = q
  BY <1>3, <1>4, <1>6, KeepMoves DEF Label
<1> QED  BY <1>1, <1>3, <1>5, <1>6, <1>7, <1>4, QuietStore

\* An addition has looked for the job it adds.
LEMMA MacroFindDoes ==
  ASSUME BaseInv, NEW p \in Proc, MacroFind(p)
  PROVE  /\ At(p, {"macroAdd"}, "find") /\ Moves(p, "save")
         /\ StoreOK' /\ Quiet /\ s3' = s3 /\ mixed' = mixed
<1>1. PICK h : h = db[req[p].job].there
  OBVIOUS
<1>2. PICK q : q = [req[p] EXCEPT !.has = h]
  OBVIOUS
<1>3. /\ At(p, {"macroAdd"}, "find") /\ Keep(p, "save", q)
      /\ UNCHANGED storeVars /\ s3' = s3 /\ mixed' = mixed
  BY <1>1, <1>2 DEF MacroFind, storeVars
<1>4. pc[p] = "find" /\ ControlOK /\ CallsOK /\ StoreOK /\ req[p] \in Request
  BY <1>3, AtOperation DEF BaseInv, At
<1>5. h \in BOOLEAN
  BY <1>1, <1>4, DocTypes DEF Request, JobDoc
<1>6. /\ q \in Request
      /\ q.op = req[p].op /\ q.job = req[p].job /\ q.employer = req[p].employer
      /\ q.employee = req[p].employee /\ q.macro = req[p].macro /\ q.settled = req[p].settled
  BY <1>2, <1>4, <1>5 DEF Request
<1>7. Moves(p, "save")
  BY <1>3, <1>4, <1>6, KeepMoves DEF Label
<1> QED  BY <1>3, <1>4, <1>7, QuietStore

\* The macro job after an addition and after a removal.
MacroPlus(m, j) == [db[m] EXCEPT !.jobs[j] = @ + 1, !.version = @ + 1]

MacroMinus(m, list, j) ==
  [db[m] EXCEPT !.jobs = [list EXCEPT ![j] = 0], !.version = @ + 1]

\* A macro job with other jobs and another version, or another version alone.
LEMMA MacroWith ==
  ASSUME NEW x \in MacroDoc, NEW f \in [Job -> Nat], NEW n \in Nat
  PROVE  /\ [x EXCEPT !.jobs = f, !.version = n] \in MacroDoc
         /\ [x EXCEPT !.version = n] \in MacroDoc
BY DEF MacroDoc

\* An addition pushes its job where it found it, and counts the version up.
LEMMA MacroAddSaveDoes ==
  ASSUME BaseInv, NEW p \in Proc, MacroAddSave(p), ~Fail(p)
  PROVE  LET m == req[p].macro
             j == req[p].job
         IN  /\ At(p, {"macroAdd"}, "save") /\ Moves(p, "answered")
             /\ m \in Macro /\ j \in Job
             /\ req[p].has => db[m].there
             /\ StoreOK' /\ s3' = s3 /\ mixed' = mixed
             /\ Puts(m, IF req[p].has THEN MacroPlus(m, j) ELSE db[m])
<1>1. PICK m, j : m = req[p].macro /\ j = req[p].job
  OBVIOUS
<1>2. /\ At(p, {"macroAdd"}, "save") /\ Goto(p, "answered") /\ s3' = s3 /\ mixed' = mixed
      /\ req[p].has => db[m].there
      /\ Write(m, req[p].has, MacroPlus(m, j))
  BY <1>1 DEF MacroAddSave, MacroPlus
<1>3. pc[p] = "save" /\ ControlOK /\ CallsOK /\ StoreOK /\ req[p] \in Request
  BY <1>2, AtOperation DEF BaseInv, At
<1>4. m \in Macro /\ m \in Doc /\ j \in Job /\ req[p].has \in BOOLEAN /\ db[m] \in MacroDoc
  BY <1>1, <1>3, DocTypes DEF Doc, Request
<1>5. MacroPlus(m, j) \in MacroDoc
  <2>1. PICK x : x = db[m]
    OBVIOUS
  <2>2. PICK f, n : f = [x.jobs EXCEPT ![j] = @ + 1] /\ n = x.version + 1
    OBVIOUS
  <2>3. f \in [Job -> Nat] /\ n \in Nat
    BY <1>4, <2>1, <2>2 DEF MacroDoc
  <2>4. MacroPlus(m, j) = [x EXCEPT !.jobs = f, !.version = n]
    BY <2>1, <2>2 DEF MacroPlus
  <2>5. [x EXCEPT !.jobs = f, !.version = n] \in MacroDoc
    <3>1. x \in MacroDoc
      BY <1>4, <2>1
    <3> QED  BY <3>1, <2>3 DEF MacroDoc
  <2> QED  BY <2>4, <2>5
<1>6. StoreOK' /\ Puts(m, IF req[p].has THEN MacroPlus(m, j) ELSE db[m])
  BY <1>2, <1>3, <1>4, <1>5, Collections, WritePuts
<1>7. Moves(p, "answered")
  BY <1>2, <1>3, GotoMoves DEF Label
<1> QED  BY <1>1, <1>2, <1>4, <1>6, <1>7

\* A removal writes what it has read without its job, if that is the version stored.
LEMMA MacroDropSaveDoes ==
  ASSUME BaseInv, NEW p \in Proc, MacroDropSave(p), ~Fail(p)
  PROVE  LET m == req[p].macro
             j == req[p].job
             changed == req[p].list[j] > 0
         IN  /\ At(p, {"macroDrop"}, "save") /\ Moves(p, "answered")
             /\ m \in Macro /\ j \in Job /\ req[p] \in Request
             /\ changed => db[m].there /\ db[m].version = req[p].next
             /\ StoreOK' /\ s3' = s3 /\ mixed' = mixed
             /\ Puts(m, IF changed THEN MacroMinus(m, req[p].list, j) ELSE db[m])
<1>1. PICK m, j : m = req[p].macro /\ j = req[p].job
  OBVIOUS
<1>2. PICK changed : changed = (req[p].list[j] > 0)
  OBVIOUS
<1>3. /\ At(p, {"macroDrop"}, "save") /\ Goto(p, "answered") /\ s3' = s3 /\ mixed' = mixed
      /\ changed => db[m].there /\ db[m].version = req[p].next
      /\ Write(m, changed, MacroMinus(m, req[p].list, j))
  BY <1>1, <1>2 DEF MacroDropSave, MacroMinus
<1>4. pc[p] = "save" /\ ControlOK /\ CallsOK /\ StoreOK /\ req[p] \in Request
  BY <1>3, AtOperation DEF BaseInv, At
<1>5. /\ m \in Macro /\ m \in Doc /\ j \in Job /\ changed \in BOOLEAN /\ db[m] \in MacroDoc
      /\ req[p].list \in [Job -> Nat]
  BY <1>1, <1>2, <1>4, DocTypes DEF Doc, Request
<1>6. MacroMinus(m, req[p].list, j) \in MacroDoc
  <2>1. PICK x : x = db[m]
    OBVIOUS
  <2>2. PICK f, n : f = [req[p].list EXCEPT ![j] = 0] /\ n = x.version + 1
    OBVIOUS
  <2>3. f \in [Job -> Nat] /\ n \in Nat
    BY <1>5, <2>1, <2>2 DEF MacroDoc
  <2>4. MacroMinus(m, req[p].list, j) = [x EXCEPT !.jobs = f, !.version = n]
    BY <2>1, <2>2 DEF MacroMinus
  <2>5. [x EXCEPT !.jobs = f, !.version = n] \in MacroDoc
    <3>1. x \in MacroDoc
      BY <1>5, <2>1
    <3> QED  BY <3>1, <2>3 DEF MacroDoc
  <2> QED  BY <2>4, <2>5
<1>7. StoreOK' /\ Puts(m, IF changed THEN MacroMinus(m, req[p].list, j) ELSE db[m])
  BY <1>3, <1>4, <1>5, <1>6, Collections, WritePuts
<1>8. Moves(p, "answered")
  BY <1>3, <1>4, GotoMoves DEF Label
<1> QED  BY <1>1, <1>2, <1>3, <1>4, <1>5, <1>7, <1>8

\* A macro job that is deleted keeps a version that no reading has seen.
LEMMA MacroDeleteDoes ==
  ASSUME BaseInv, NEW p \in Proc, MacroDelete(p), ~Fail(p)
  PROVE  LET m == req[p].macro
         IN  /\ At(p, {"macroDelete"}, "read") /\ Moves(p, "answered")
             /\ m \in Macro /\ db[m].there
             /\ StoreOK' /\ s3' = s3 /\ mixed' = mixed
             /\ Puts(m, [NoMacro EXCEPT !.version = db[m].version + 1])
<1>1. PICK m : m = req[p].macro
  OBVIOUS
<1>2. /\ At(p, {"macroDelete"}, "read") /\ Goto(p, "answered") /\ s3' = s3 /\ mixed' = mixed
      /\ db[m].there
      /\ PlainWrite(m, [NoMacro EXCEPT !.version = db[m].version + 1])
  BY <1>1 DEF MacroDelete
<1>3. pc[p] = "read" /\ ControlOK /\ CallsOK /\ StoreOK /\ req[p] \in Request
  BY <1>2, AtOperation DEF BaseInv, At
<1>4. m \in Macro /\ m \in Doc /\ db[m] \in MacroDoc
  BY <1>1, <1>3, DocTypes DEF Doc, Request
<1>5. [NoMacro EXCEPT !.version = db[m].version + 1] \in MacroDoc
  <2>1. NoMacro \in MacroDoc
    BY DEF NoMacro, MacroDoc, NoFavs
  <2>2. PICK n : n = db[m].version + 1
    OBVIOUS
  <2>3. n \in Nat
    BY <1>4, <2>2 DEF MacroDoc
  <2>4. NoFavs(Job) \in [Job -> Nat]
    BY DEF NoFavs
  <2> QED  BY <2>1, <2>2, <2>3, <2>4, MacroWith
<1>6. StoreOK' /\ Puts(m, [NoMacro EXCEPT !.version = db[m].version + 1])
  BY <1>2, <1>3, <1>4, <1>5, Collections, PlainWritePuts
<1>7. Moves(p, "answered")
  BY <1>2, <1>3, GotoMoves DEF Label
<1> QED  BY <1>1, <1>2, <1>4, <1>6, <1>7

\* A commit publishes what the transaction of a creation or a deletion has written.
LEMMA CommitDoes ==
  ASSUME BaseInv, NEW p \in Proc, Commit(p)
  PROVE  /\ pc[p] = "commit" /\ Moves(p, "answered") /\ p \in open
         /\ req[p] \in Request /\ req[p].op \in {"create", "delete"}
         /\ req[p].employer \in Employer
         /\ p = <<p[1], "http">> /\ p[1] \in Req
         /\ StoreOK' /\ s3' = s3 /\ mixed' = mixed
         /\ \A d \in Doc : db'[d] = IF d \in writes[p] THEN view[p][d] ELSE db[d]
         /\ open' = open \ {p} /\ TxnsKept(Proc \ {p})
<1>1. pc[p] = "commit" /\ TxnCommit(p) /\ Goto(p, "answered") /\ s3' = s3 /\ mixed' = mixed
  BY DEF Commit
<1>2. ControlOK /\ CallsOK /\ StoreOK /\ req[p] \in Request /\ CallOK(p)
  BY <1>1, AtOperation DEF BaseInv
<1>3. p \in open /\ req[p].op \in {"create", "delete"}
  BY <1>1, <1>2 DEF ControlOK
<1>4. req[p].employer \in Employer
  BY <1>1, <1>2, <1>3 DEF CallOK
<1>5. Moves(p, "answered")
  BY <1>1, <1>2, GotoMoves DEF Label
<1>6. p = <<p[1], "http">> /\ p[1] \in Req
  BY <1>1, <1>2, IsRequest
<1> QED  BY <1>1, <1>2, <1>3, <1>4, <1>5, <1>6, TxnCommitStore

-----------------------------------------------------------------------------
(* The steps *)

\* The new call of request r; everything else is left alone.
LEMMA ArriveDoes ==
  ASSUME BaseInv, NEW r \in Req, Arrive(r)
  PROVE  LET p == <<r, "http">>
         IN  /\ p \in Proc /\ pc[p] = "idle" /\ pc'[p] = "read" /\ OthersIdle({p})
             /\ req'[p] \in Request
             /\ req'[p].job \in Jobs(req'[p].op, r)
             /\ req'[p].employer \in Employers(req'[p].op)
             /\ req'[p].employee \in Employees(req'[p].op)
             /\ req'[p].settled =
                  (req'[p].job \in OldJob \/ pc[<<req'[p].job, "http">>] = "answered")
             /\ StoreOK' /\ Quiet /\ s3' = s3
             /\ mixed' = mixed \cup ({Pair(p)' : t \in {p} \cap Toggles'}
                                       \cap {Pair(t) : t \in Toggles})
<1>1. PICK p : p = <<r, "http">>
  OBVIOUS
<1>2. /\ pc[p] = "idle" /\ pc' = [pc EXCEPT ![p] = "read"]
      /\ UNCHANGED storeVars /\ s3' = s3
      /\ mixed' = mixed \cup ({Pair(p)' : t \in {p} \cap Toggles'}
                                \cap {Pair(t) : t \in Toggles})
  BY <1>1 DEF Arrive
<1>3. PICK op \in area, j \in Job, e \in Employer \cup {None}, c \in Employee \cup {None},
           m \in Macro :
        /\ j \in Jobs(op, r) /\ e \in Employers(op) /\ c \in Employees(op)
        /\ req' = [req EXCEPT ![<<r, "http">>] =
              [op |-> op, job |-> j, employer |-> e, employee |-> c, macro |-> m,
               settled |-> j \in OldJob \/ pc[<<j, "http">>] = "answered",
               next |-> 0, has |-> FALSE, list |-> NoFavs(Job)]]
  <2>0. PICK op \in area :
          \E j \in Jobs(op, r), e \in Employers(op), c \in Employees(op), m \in Macro :
            req' = [req EXCEPT ![<<r, "http">>] =
              [op |-> op, job |-> j, employer |-> e, employee |-> c, macro |-> m,
               settled |-> j \in OldJob \/ pc[<<j, "http">>] = "answered",
               next |-> 0, has |-> FALSE, list |-> NoFavs(Job)]]
    BY Zenon DEF Arrive
  <2>1. PICK j \in Jobs(op, r), e \in Employers(op), c \in Employees(op), m \in Macro :
          req' = [req EXCEPT ![<<r, "http">>] =
              [op |-> op, job |-> j, employer |-> e, employee |-> c, macro |-> m,
               settled |-> j \in OldJob \/ pc[<<j, "http">>] = "answered",
               next |-> 0, has |-> FALSE, list |-> NoFavs(Job)]]
    BY <2>0
  <2>2. j \in Job /\ e \in Employer \cup {None} /\ c \in Employee \cup {None}
    BY DEF Jobs, Employers, Employees, Job, Stored
  <2> QED  BY <2>1, <2>2
<1>4. p \in Proc /\ DOMAIN req = Proc /\ pc \in [Proc -> Label]
  BY <1>1 DEF Proc, BaseInv, ControlOK
<1>5. op \in Operations
  BY CatalogueAssumption DEF BaseInv, TypeInv
<1>6. PICK st : st = (j \in OldJob \/ pc[<<j, "http">>] = "answered")
  OBVIOUS
<1>7. PICK q : q = [op |-> op, job |-> j, employer |-> e, employee |-> c, macro |-> m,
                    settled |-> st, next |-> 0, has |-> FALSE, list |-> NoFavs(Job)]
  OBVIOUS
<1>8. req' = [req EXCEPT ![p] = q]
  BY <1>1, <1>3, <1>6, <1>7
<1>9. /\ q \in Request /\ q.op = op /\ q.job = j /\ q.employer = e /\ q.employee = c
      /\ q.settled = st
  <2>1. st \in BOOLEAN /\ NoFavs(Job) \in [Job -> Nat]
    BY <1>6 DEF NoFavs
  <2> QED  BY <1>3, <1>5, <1>7, <2>1 DEF Request
<1>10. req'[p] = q /\ OthersIdle({p}) /\ pc'[p] = "read"
  BY <1>2, <1>4, <1>8 DEF OthersIdle, Label
<1>11. StoreOK' /\ Quiet
  BY <1>2, QuietStore DEF BaseInv
<1> QED  BY <1>1, <1>2, <1>3, <1>4, <1>6, <1>9, <1>10, <1>11

\* The chains that stop keep their calls; their transactions are given up.
LEMMA StopsDoes ==
  ASSUME BaseInv, NEW P, Stops(P)
  PROVE  /\ P \in SUBSET Active /\ P \in SUBSET Proc /\ OthersIdle(P)
         /\ \A q \in P : pc'[q] = "failed" /\ Continues(q)
         /\ StoreOK' /\ db' = db /\ open' = open \ P /\ TxnsKept(Proc \ P) /\ s3' = s3
<1>1. P \in SUBSET Active /\ P \in SUBSET Proc /\ s3' = s3
  BY DEF Stops, Active
<1>2. /\ pc' = [q \in Proc |-> IF q \in P THEN "failed" ELSE pc[q]]
      /\ req' = [q \in Proc |-> IF q \in P THEN Call(req[q]) ELSE req[q]]
  BY DEF Stops, End
<1>3. pc \in [Proc -> Label] /\ "failed" \in Label
  BY DEF BaseInv, ControlOK, Label
<1>4. OthersIdle(P)
  BY <1>2, <1>3 DEF OthersIdle
<1>5. ASSUME NEW q \in P PROVE pc'[q] = "failed" /\ Continues(q)
  <2>1. req[q] \in Request
    BY <1>1, AtOperation DEF Active, BaseInv
  <2>2. pc'[q] = "failed" /\ req'[q] = Call(req[q])
    BY <1>1, <1>2
  <2> QED  BY <2>1, <2>2, CallOf DEF Continues
<1>6. StoreOK' /\ db' = db /\ open' = open \ P /\ TxnsKept(Proc \ P)
  BY <1>1, TxnAbortStore DEF Stops, BaseInv
<1> QED  BY <1>1, <1>4, <1>5, <1>6

\* How an operation that does not fail moves its process.
Passes(p) ==
  /\ pc[p] \in {"read", "save", "own", "find"} /\ open' = open
  /\ TxnsKept(Proc \ {p})
  /\ \/ Moves(p, "save") /\ ~Toggling(p)
     \/ Moves(p, "push") /\ ~Toggling(p)
     \/ Moves(p, "write") /\ ~Toggling(p)
     \/ Moves(p, "own") \/ Moves(p, "find") \/ Moves(p, "other")

Answers(p) ==
  /\ Moves(p, "answered") /\ open' = open \ {p} /\ TxnsKept(Proc \ {p})

StepsOn(p) ==
  pc[p] = "step" /\ Moves(p, "step") /\ open' = open /\ TxnsKept(Proc \ {p})

Deletes(p) ==
  /\ At(p, {"delete"}, "write") /\ Moves(p, "commit")
  /\ open' = open \cup {p} /\ TxnsKept(Proc \ {p})

Lists(p) ==
  /\ At(p, {"create"}, "push") /\ Spawns(p, "commit", "step")
  /\ open' = open \cup {p} /\ TxnsKept(Proc \ {p})

Invites(p) ==
  /\ At(p, {"invite"}, "read") /\ Spawns(p, "answered", "mail")
  /\ open' = open /\ TxnsKept(Proc \ {p})

Goes(p) ==
  \/ Passes(p) \/ Answers(p) \/ StepsOn(p) \/ Deletes(p) \/ Lists(p) \/ Invites(p)

\* A process without a transaction that answers.
LEMMA AnswersAt ==
  ASSUME BaseInv, NEW p \in Proc, pc[p] # "commit", Moves(p, "answered"),
         open' = open, TxnsKept(Proc)
  PROVE  Answers(p)
BY DEF Answers, TxnsKept, BaseInv, ControlOK

\* The store stays consistent, and the process goes on.
LEMMA ProgressGoes ==
  ASSUME BaseInv, NEW p \in Proc, Progress(p), ~Fail(p)
  PROVE  StoreOK' /\ p \in Active /\ Goes(p)
<1> DEFINE Goal == StoreOK' /\ p \in Active /\ Goes(p)
<1>a. ASSUME NEW d, NEW w, Puts(d, w) PROVE open' = open /\ TxnsKept(Proc)
  BY <1>a DEF Puts
<1>b. Quiet => open' = open /\ TxnsKept(Proc)
  BY DEF Quiet
<1>c. TxnsKept(Proc) => TxnsKept(Proc \ {p})
  BY DEF TxnsKept
<1>d. pc[p] \notin {"idle", "answered", "failed"} => p \in Active
  BY DEF Active
<1> HIDE DEF Goal
<1>1. CASE CreateRead(p)
  BY <1>1, <1>b, <1>c, <1>d, CreateReadDoes DEF Goal, Goes, Passes, At, Toggling
<1>2. CASE CreateSave(p)
  BY <1>2, <1>a, <1>c, <1>d, CreateSaveDoes DEF Goal, Goes, Passes, At, Toggling
<1>3. CASE CreatePush(p)
  BY <1>3, <1>d, CreatePushDoes DEF Goal, Goes, Lists, At
<1>4. CASE CreateStep(p)
  BY <1>4, <1>a, <1>c, <1>d, CreateStepDoes, AnswersAt DEF Goal, Goes, StepsOn, At
<1>5. CASE UpdateJob(p)
  BY <1>5, <1>a, <1>d, UpdateJobDoes, AnswersAt DEF Goal, Goes, At
<1>6. CASE UploadImage(p)
  BY <1>6, <1>b, <1>c, <1>d, UploadImageDoes DEF Goal, Goes, Passes, At, Toggling
<1>7. CASE SetImage(p)
  BY <1>7, <1>a, <1>d, SetImageDoes, AnswersAt DEF Goal, Goes, At
<1>8. CASE DeleteRead(p)
  BY <1>8, <1>b, <1>c, <1>d, DeleteReadDoes DEF Goal, Goes, Passes, At, Toggling
<1>9. CASE DeleteWrite(p)
  BY <1>9, <1>d, DeleteWriteDoes DEF Goal, Goes, Deletes, At
<1>10. CASE Invite(p)
  BY <1>10, <1>b, <1>c, <1>d, InviteDoes DEF Goal, Goes, Invites, At
<1>11. CASE InviteMail(p)
  BY <1>11, <1>b, <1>d, InviteMailDoes, AnswersAt DEF Goal, Goes, At
<1>12. CASE ToggleRead(p)
  BY <1>12, <1>b, <1>c, <1>d, ToggleReadDoes DEF Goal, Goes, Passes
<1>13. CASE ToggleOwn(p)
  BY <1>13, <1>a, <1>c, <1>d, ToggleOwnDoes DEF Goal, Goes, Passes
<1>14. CASE ToggleFind(p)
  BY <1>14, <1>b, <1>c, <1>d, ToggleFindDoes DEF Goal, Goes, Passes
<1>15. CASE ToggleOther(p)
  BY <1>15, <1>a, <1>d, ToggleOtherDoes, AnswersAt DEF Goal, Goes
<1>16. CASE MacroCreate(p)
  BY <1>16, <1>a, <1>d, MacroCreateDoes, AnswersAt DEF Goal, Goes, At
<1>17. CASE MacroRead(p)
  BY <1>17, <1>b, <1>c, <1>d, MacroReadDoes DEF Goal, Goes, Passes, At, Toggling
<1>18. CASE MacroFind(p)
  BY <1>18, <1>b, <1>c, <1>d, MacroFindDoes DEF Goal, Goes, Passes, At, Toggling
<1>19. CASE MacroAddSave(p)
  BY <1>19, <1>a, <1>d, MacroAddSaveDoes, AnswersAt DEF Goal, Goes, At
<1>20. CASE MacroDropSave(p)
  BY <1>20, <1>a, <1>d, MacroDropSaveDoes, AnswersAt DEF Goal, Goes, At
<1>21. CASE MacroDelete(p)
  BY <1>21, <1>a, <1>d, MacroDeleteDoes, AnswersAt DEF Goal, Goes, At
<1>22. CASE Commit(p)
  BY <1>22, <1>d, CommitDoes DEF Goal, Goes, Answers
<1>23. CASE MacroUpdate(p)
  BY <1>23, <1>a, <1>d, MacroUpdateDoes, AnswersAt DEF Goal, Goes, At
<1> QED  BY <1>1, <1>2, <1>3, <1>4, <1>5, <1>6, <1>7, <1>8, <1>9, <1>10, <1>11, <1>12,
            <1>13, <1>14, <1>15, <1>16, <1>17, <1>18, <1>19, <1>20, <1>21, <1>22, <1>23
         DEF Goal, Progress

\* A step is a new call, an operation that does not fail, or a stop.
LEMMA StepIs ==
  ASSUME BaseInv, Next
  PROVE  /\ area' = area
         /\ \/ \E r \in Req : Arrive(r)
            \/ \E p \in Proc : Progress(p) /\ ~Fail(p)
            \/ \E P \in SUBSET Active : Stops(P)
<1>1. area' = area
  BY DEF Next
<1>2. CASE \E r \in Req : Arrive(r)
  BY <1>1, <1>2
<1>3. ASSUME NEW p \in Proc, Progress(p), Fail(p)
      PROVE  \E P \in SUBSET Active : Stops(P)
  <2>1. pc[p] \notin {"idle", "answered", "failed"}
    BY <1>3 DEF Progress, CreateRead, CreateSave, CreatePush, CreateStep, UpdateJob,
      UploadImage, SetImage, DeleteRead, DeleteWrite, Invite, InviteMail, ToggleRead,
      ToggleOwn, ToggleFind, ToggleOther, MacroCreate, MacroRead, MacroFind, MacroAddSave,
      MacroDropSave, MacroUpdate, MacroDelete, Commit, At
  <2>2. p \in Active
    BY <2>1 DEF Active
  <2> QED  BY <2>2, <1>3, FailStops
<1>4. ASSUME NEW p \in Proc, CallFails(p)
      PROVE  \E P \in SUBSET Active : Stops(P)
  BY <1>4, FailStops DEF CallFails
<1>5. CASE ProcessExit
  BY <1>1, <1>5, ExitStops
<1>6. CASE \E p \in Proc : Progress(p) \/ CallFails(p)
  <2>1. PICK p \in Proc : Progress(p) \/ CallFails(p)
    BY <1>6
  <2>2. CASE Progress(p) /\ ~Fail(p)
    BY <1>1, <2>2
  <2>3. CASE Progress(p) /\ Fail(p)
    BY <1>1, <1>3, <2>3
  <2>4. CASE CallFails(p)
    BY <1>1, <1>4, <2>4
  <2> QED  BY <2>1, <2>2, <2>3, <2>4
<1>7. (\E r \in Req : Arrive(r)) \/ (\E p \in Proc : Progress(p) \/ CallFails(p)) \/ ProcessExit
  BY DEF Next
<1> QED  BY <1>1, <1>2, <1>5, <1>6, <1>7

\* A call goes on as it was made and, once over, is not taken up again.
CallKept(q) ==
  pc[q] # "idle" =>
    /\ pc'[q] # "idle" /\ Continues(q)
    /\ Finished(q) => pc'[q] = pc[q] /\ req'[q] = req[q]
    /\ pc[q] \in Announced => pc'[q] \in Announced

\* An unchanged process keeps its call.
LEMMA SameKept ==
  ASSUME ControlOK, NEW q \in Proc, pc'[q] = pc[q], req'[q] = req[q]
  PROVE  CallKept(q)
BY DEF CallKept, ControlOK, Continues

\* A new call disturbs neither the control of the others nor their calls.
LEMMA ArriveKeeps ==
  ASSUME BaseInv, NEW r \in Req, Arrive(r)
  PROVE  ControlOK' /\ \A q \in Proc : CallKept(q)
<1>1. PICK p : p = <<r, "http">>
  OBVIOUS
<1>2. /\ p \in Proc /\ pc[p] = "idle" /\ pc'[p] = "read" /\ OthersIdle({p})
      /\ req'[p] \in Request /\ open' = open
  BY <1>1, ArriveDoes DEF Quiet
<1>3. ControlOK
  BY DEF BaseInv
<1>4. \A q \in Proc : CallKept(q)
  <2> SUFFICES ASSUME NEW q \in Proc PROVE CallKept(q)
    OBVIOUS
  <2>1. CASE q = p
    BY <2>1, <1>2 DEF CallKept
  <2>2. CASE q # p
    BY <2>2, <1>2, <1>3, SameKept DEF OthersIdle
  <2> QED  BY <2>1, <2>2
<1>5. ControlOK'
  <2> USE <1>2, <1>3 DEF ControlOK, OthersIdle
  <2>1. pc' \in [Proc -> Label] /\ DOMAIN req' = Proc
    OBVIOUS
  <2>2. \A q \in Proc : IF pc'[q] = "idle" THEN req'[q] = NoRequest ELSE req'[q] \in Request
    OBVIOUS
  <2>3. open' = {q \in Proc : pc'[q] = "commit"}
    OBVIOUS
  <2>4. \A q \in open' : req'[q].op \in {"create", "delete"}
    OBVIOUS
  <2>5. ASSUME NEW s \in Req
        PROVE  /\ pc'[<<s, "bg">>] \in {"idle", "step", "mail", "answered", "failed"}
               /\ pc'[<<s, "bg">>] # "idle"
                    => pc'[<<s, "http">>] \in {"commit", "answered", "failed"}
               /\ pc'[<<s, "http">>] \notin {"step", "mail"}
    <3>1. <<s, "bg">> # p /\ <<s, "bg">> \in Proc /\ <<s, "http">> \in Proc
      BY <1>1 DEF Proc
    <3>2. pc'[<<s, "bg">>] = pc[<<s, "bg">>]
      BY <3>1
    <3>3. <<s, "http">> = p => pc[<<s, "bg">>] = "idle"
      OBVIOUS
    <3> QED  BY <3>1, <3>2, <3>3
  <2>6. \A q \in Toggles' : pc'[q] \in {"read", "own", "find", "other"}
    BY DEF Toggles, Active, Toggling
  <2> QED  BY <2>1, <2>2, <2>3, <2>4, <2>5, <2>6
<1> QED  BY <1>4, <1>5

\* Chains that stop disturb neither the control of the others nor their calls.
LEMMA StopsKeeps ==
  ASSUME BaseInv, NEW P, Stops(P)
  PROVE  ControlOK' /\ \A q \in Proc : CallKept(q)
<1>1. /\ P \in SUBSET Active /\ P \in SUBSET Proc /\ OthersIdle(P) /\ open' = open \ P
      /\ \A q \in P : pc'[q] = "failed" /\ Continues(q)
  BY StopsDoes
<1>2. ControlOK
  BY DEF BaseInv
<1>3. \A q \in Proc : CallKept(q)
  <2> SUFFICES ASSUME NEW q \in Proc PROVE CallKept(q)
    OBVIOUS
  <2>1. CASE q \in P
    BY <2>1, <1>1 DEF CallKept, Finished, Active, Announced
  <2>2. CASE q \notin P
    BY <2>2, <1>1, <1>2, SameKept DEF OthersIdle
  <2> QED  BY <2>1, <2>2
<1>4. ControlOK'
  <2> USE <1>1, <1>2 DEF ControlOK, OthersIdle
  <2>1. pc' \in [Proc -> Label] /\ DOMAIN req' = Proc
    OBVIOUS
  <2>2. \A q \in Proc : IF pc'[q] = "idle" THEN req'[q] = NoRequest ELSE req'[q] \in Request
    BY DEF Continues
  <2>3. open' = {q \in Proc : pc'[q] = "commit"}
    OBVIOUS
  <2>4. \A q \in open' : req'[q].op \in {"create", "delete"}
    OBVIOUS
  <2>5. ASSUME NEW s \in Req
        PROVE  /\ pc'[<<s, "bg">>] \in {"idle", "step", "mail", "answered", "failed"}
               /\ pc'[<<s, "bg">>] # "idle"
                    => pc'[<<s, "http">>] \in {"commit", "answered", "failed"}
               /\ pc'[<<s, "http">>] \notin {"step", "mail"}
    <3>1. <<s, "bg">> \in Proc /\ <<s, "http">> \in Proc
      BY DEF Proc
    <3>2. <<s, "bg">> \in P => pc[<<s, "bg">>] # "idle"
      BY DEF Active
    <3> QED  BY <3>1, <3>2
  <2>6. \A q \in Toggles' : pc'[q] \in {"read", "own", "find", "other"}
    BY DEF Toggles, Active, Toggling
  <2> QED  BY <2>1, <2>2, <2>3, <2>4, <2>5, <2>6
<1> QED  BY <1>3, <1>4

\* Facts about one process that goes on alone.
LEMMA MovesKeeps ==
  ASSUME ControlOK, NEW p \in Active, NEW l, Moves(p, l), l # "idle",
         pc[p] \in Announced => l \in Announced,
         open' = IF l = "commit" THEN open \cup {p} ELSE open \ {p},
         l = "commit" => req[p].op \in {"create", "delete"},
         pc[p] \in {"step", "mail"} => l \in {"step", "answered"},
         pc[p] = "commit" => l = "answered", l \in {"step", "mail"} => pc[p] = l,
         l # "answered" /\ Toggling(p) => l \in {"own", "find", "other"}
  PROVE  ControlOK' /\ \A q \in Proc : CallKept(q)
<1>1. p \in Proc /\ pc[p] \notin {"idle", "answered", "failed"}
  BY DEF Active
<1>2. OthersIdle({p}) /\ pc'[p] = l /\ Continues(p)
  BY DEF Moves
<1>3. \A q \in Proc : CallKept(q)
  <2> SUFFICES ASSUME NEW q \in Proc PROVE CallKept(q)
    OBVIOUS
  <2>1. CASE q = p
    BY <2>1, <1>1, <1>2 DEF CallKept, Finished
  <2>2. CASE q # p
    BY <2>2, <1>2, SameKept DEF OthersIdle
  <2> QED  BY <2>1, <2>2
<1>4. ControlOK'
  <2> USE <1>1, <1>2 DEF ControlOK, OthersIdle
  <2>1. pc' \in [Proc -> Label] /\ DOMAIN req' = Proc
    OBVIOUS
  <2>2. \A q \in Proc : IF pc'[q] = "idle" THEN req'[q] = NoRequest ELSE req'[q] \in Request
    BY DEF Continues
  <2>3. open' = {q \in Proc : pc'[q] = "commit"}
    OBVIOUS
  <2>4. \A q \in open' : req'[q].op \in {"create", "delete"}
    BY DEF Continues
  <2>5. ASSUME NEW s \in Req
        PROVE  /\ pc'[<<s, "bg">>] \in {"idle", "step", "mail", "answered", "failed"}
               /\ pc'[<<s, "bg">>] # "idle"
                    => pc'[<<s, "http">>] \in {"commit", "answered", "failed"}
               /\ pc'[<<s, "http">>] \notin {"step", "mail"}
    <3>1. <<s, "bg">> \in Proc /\ <<s, "http">> \in Proc /\ <<s, "bg">> # <<s, "http">>
      BY DEF Proc
    <3>2. CASE p = <<s, "bg">>
      BY <3>1, <3>2
    <3>3. CASE p = <<s, "http">>
      BY <3>1, <3>3
    <3>4. CASE p # <<s, "bg">> /\ p # <<s, "http">>
      BY <3>1, <3>4
    <3> QED  BY <3>2, <3>3, <3>4
  <2>6. \A q \in Toggles' : pc'[q] \in {"read", "own", "find", "other"}
    <3> SUFFICES ASSUME NEW q \in Toggles' PROVE pc'[q] \in {"read", "own", "find", "other"}
      OBVIOUS
    <3>1. q \in Proc /\ pc'[q] \notin {"idle", "answered", "failed"} /\ Toggling(q)'
      BY DEF Toggles, Active
    <3>2. CASE q = p
      BY <3>1, <3>2 DEF Toggling, Continues
    <3>3. CASE q # p
      <4>1. q \in Toggles
        BY <3>1, <3>3 DEF Toggles, Active, Toggling
      <4> QED  BY <4>1, <3>1, <3>3
    <3> QED  BY <3>2, <3>3
  <2> QED  BY <2>1, <2>2, <2>3, <2>4, <2>5, <2>6
<1> QED  BY <1>3, <1>4

\* The same for a request that starts its unawaited chain.
LEMMA SpawnsKeeps ==
  ASSUME BaseInv, NEW p \in Active, Lists(p) \/ Invites(p)
  PROVE  ControlOK' /\ \A q \in Proc : CallKept(q)
<1>1. ControlOK /\ p \in Proc /\ pc[p] \in {"push", "read"} /\ req[p] \in Request
      /\ req[p].op \in {"create", "invite"}
  BY AtOperation DEF BaseInv, Active, Lists, Invites, At
<1>2. p = <<p[1], "http">> /\ p[1] \in Req
  BY <1>1, IsRequest
<1>3. PICK b : b = <<p[1], "bg">>
  OBVIOUS
<1>4. b \in Proc /\ b # p /\ pc[b] = "idle"
  <2>1. b \in Proc /\ b # p
    BY <1>2, <1>3 DEF Proc
  <2>2. pc[b] # "idle" => pc[<<p[1], "http">>] \in {"commit", "answered", "failed"}
    BY <1>1, <1>2, <1>3 DEF ControlOK
  <2> QED  BY <1>1, <1>2, <2>1, <2>2
<1>5. /\ OthersIdle({p, b}) /\ req'[p] = req[p] /\ req'[b] = req[p]
      /\ \/ /\ pc'[p] = "commit" /\ pc'[b] = "step" /\ open' = open \cup {p}
            /\ pc[p] = "push" /\ req[p].op = "create"
         \/ /\ pc'[p] = "answered" /\ pc'[b] = "mail" /\ open' = open /\ pc[p] = "read"
            /\ req[p].op = "invite"
  BY <1>3 DEF Lists, Invites, Spawns, At
<1>6. \A q \in Proc : CallKept(q)
  <2> SUFFICES ASSUME NEW q \in Proc PROVE CallKept(q)
    OBVIOUS
  <2>1. CASE q = p
    BY <2>1, <1>1, <1>5 DEF CallKept, Finished, Announced, Continues
  <2>2. CASE q = b
    BY <2>2, <1>4 DEF CallKept
  <2>3. CASE q # p /\ q # b
    BY <2>3, <1>1, <1>5, SameKept DEF OthersIdle
  <2> QED  BY <2>1, <2>2, <2>3
<1>7. ControlOK'
  <2> USE <1>1, <1>4, <1>5 DEF ControlOK, OthersIdle
  <2>1. pc' \in [Proc -> Label] /\ DOMAIN req' = Proc
    OBVIOUS
  <2>2. \A q \in Proc : IF pc'[q] = "idle" THEN req'[q] = NoRequest ELSE req'[q] \in Request
    OBVIOUS
  <2>3. open' = {q \in Proc : pc'[q] = "commit"}
    OBVIOUS
  <2>4. \A q \in open' : req'[q].op \in {"create", "delete"}
    OBVIOUS
  <2>5. ASSUME NEW s \in Req
        PROVE  /\ pc'[<<s, "bg">>] \in {"idle", "step", "mail", "answered", "failed"}
               /\ pc'[<<s, "bg">>] # "idle"
                    => pc'[<<s, "http">>] \in {"commit", "answered", "failed"}
               /\ pc'[<<s, "http">>] \notin {"step", "mail"}
    <3>1. /\ <<s, "bg">> \in Proc /\ <<s, "http">> \in Proc
          /\ <<s, "bg">> # p /\ <<s, "http">> # b
      BY <1>2, <1>3 DEF Proc
    <3>2. CASE s = p[1]
      BY <3>1, <3>2, <1>2, <1>3
    <3>3. CASE s # p[1]
      <4>1. <<s, "bg">> # b /\ <<s, "http">> # p
        BY <3>3, <1>2, <1>3
      <4> QED  BY <3>1, <4>1
    <3> QED  BY <3>2, <3>3
  <2>6. \A q \in Toggles' : pc'[q] \in {"read", "own", "find", "other"}
    <3> SUFFICES ASSUME NEW q \in Toggles' PROVE pc'[q] \in {"read", "own", "find", "other"}
      OBVIOUS
    <3>1. q \in Proc /\ pc'[q] \notin {"idle", "answered", "failed"} /\ Toggling(q)'
      BY DEF Toggles, Active
    <3>2. q # p /\ q # b
      BY <3>1 DEF Toggling
    <3>3. q \in Toggles
      BY <3>1, <3>2 DEF Toggles, Active, Toggling
    <3> QED  BY <3>1, <3>2, <3>3
  <2> QED  BY <2>1, <2>2, <2>3, <2>4, <2>5, <2>6
<1> QED  BY <1>6, <1>7

\* An operation keeps the control consistent and every call as it was made.
LEMMA ProgressKeeps ==
  ASSUME BaseInv, NEW p \in Proc, Progress(p), ~Fail(p)
  PROVE  ControlOK' /\ \A q \in Proc : CallKept(q)
<1>1. p \in Active /\ Goes(p) /\ ControlOK
  BY ProgressGoes DEF BaseInv
<1>2. p \in open <=> pc[p] = "commit"
  BY <1>1 DEF ControlOK
<1>3. CASE Passes(p)
  <2>1. PICK l \in {"save", "push", "write", "own", "find", "other"} :
          Moves(p, l) /\ (Toggling(p) => l \in {"own", "find", "other"})
    BY <1>3 DEF Passes
  <2> QED  BY <1>1, <1>2, <1>3, <2>1, MovesKeeps DEF Passes, Announced
<1>4. CASE Answers(p)
  BY <1>1, <1>4, MovesKeeps DEF Answers, Announced
<1>5. CASE StepsOn(p)
  <2>1. ~Toggling(p)
    BY <1>1, <1>5 DEF StepsOn, ControlOK, Toggles
  <2> QED  BY <1>1, <1>2, <1>5, <2>1, MovesKeeps DEF StepsOn, Announced
<1>6. CASE Deletes(p)
  BY <1>1, <1>6, MovesKeeps DEF Deletes, At, Announced, Toggling
<1>7. CASE Lists(p) \/ Invites(p)
  BY <1>1, <1>7, SpawnsKeeps
<1> QED  BY <1>1, <1>3, <1>4, <1>5, <1>6, <1>7 DEF Goes

\* Every step keeps the calls and the store.
LEMMA StepKeeps ==
  ASSUME BaseInv, Next
  PROVE  ControlOK' /\ StoreOK' /\ \A q \in Proc : CallKept(q)
<1>1. CASE \E r \in Req : Arrive(r)
  BY <1>1, ArriveKeeps, ArriveDoes
<1>2. CASE \E p \in Proc : Progress(p) /\ ~Fail(p)
  BY <1>2, ProgressKeeps, ProgressGoes
<1>3. CASE \E P \in SUBSET Active : Stops(P)
  BY <1>3, StopsKeeps, StopsDoes
<1> QED  BY <1>1, <1>2, <1>3, StepIs

-----------------------------------------------------------------------------
(* Which documents a step changes *)

\* The operations that change a committed document.
Changes(p) ==
  \/ CreateSave(p) \/ UpdateJob(p) \/ SetImage(p) \/ ToggleOwn(p) \/ ToggleOther(p)
  \/ MacroCreate(p) \/ MacroUpdate(p) \/ MacroAddSave(p) \/ MacroDropSave(p)
  \/ MacroDelete(p) \/ Commit(p)

\* The others change no document, or a step of a job.
NoneChanged == \A d \in Doc \ DefaultStep : db'[d] = db[d]

\* An operation that is none of these changes no document but steps.
LEMMA ProgressChanges ==
  ASSUME BaseInv, NEW p \in Proc, Progress(p), ~Fail(p)
  PROVE  NoneChanged \/ Changes(p)
<1>1. Quiet \/ db' = db => NoneChanged
  BY DEF Quiet, NoneChanged
<1>2. ASSUME NEW d \in DefaultStep, NEW w, Puts(d, w) PROVE NoneChanged
  BY <1>2 DEF Puts, NoneChanged
<1>3. CASE CreateStep(p)
  BY <1>2, <1>3, CreateStepDoes
<1>4. CASE CreateRead(p) \/ UploadImage(p) \/ InviteMail(p) \/ ToggleFind(p) \/ MacroFind(p)
  BY <1>1, <1>4, CreateReadDoes, UploadImageDoes, InviteMailDoes, ToggleFindDoes, MacroFindDoes
<1>5. CASE DeleteRead(p) \/ Invite(p) \/ ToggleRead(p) \/ MacroRead(p)
  BY <1>1, <1>5, DeleteReadDoes, InviteDoes, ToggleReadDoes, MacroReadDoes
<1>6. CASE CreatePush(p) \/ DeleteWrite(p)
  BY <1>1, <1>6, CreatePushDoes, DeleteWriteDoes
<1> QED  BY <1>3, <1>4, <1>5, <1>6 DEF Progress, Changes

\* One document of a collection is stored anew; the other collections are kept.
LEMMA PutsOthers ==
  ASSUME NEW d, NEW w, Puts(d, w)
  PROVE  /\ d \notin Job => \A j \in Job : db'[j] = db[j]
         /\ d \notin Employer => \A e \in Employer : db'[e] = db[e]
         /\ d \notin Employee => \A c \in Employee : db'[c] = db[c]
         /\ d \notin Macro => \A m \in Macro : db'[m] = db[m]
BY DEF Puts, Doc

\* What a commit publishes.
LEMMA CommitPublishes ==
  ASSUME BaseInv, PendingOK, NEW p \in Proc, Commit(p)
  PROVE  LET q == req[p]
         IN  /\ q.op = "create" =>
                  /\ \A d \in Doc \ {q.employer} : db'[d] = db[d]
                  /\ db'[q.employer] = [db[q.employer] EXCEPT !.jobs = @ \cup {q.job}]
             /\ q.op = "delete" =>
                  /\ \A d \in Doc \ ({q.job, q.employer} \cup DefaultStep) : db'[d] = db[d]
                  /\ db'[q.job] \in {db[q.job], NoJob} /\ ~db'[q.job].there
                  /\ db'[q.employer] \in {db[q.employer],
                                          [db[q.employer] EXCEPT !.jobs = @ \ {q.job}]}
                  /\ q.settled => q.job \notin db'[q.employer].jobs
<1>1. PICK j, e : j = req[p].job /\ e = req[p].employer
  OBVIOUS
<1>2. /\ p \in open /\ req[p] \in Request /\ e \in Employer
      /\ \A d \in Doc : db'[d] = IF d \in writes[p] THEN view[p][d] ELSE db[d]
  BY <1>1, CommitDoes
<1>3. j \in Job /\ j \in Doc /\ e \in Doc /\ j # e /\ db[e] \in EmployerDoc
  BY <1>1, <1>2, CatalogueAssumption, DocTypes DEF Request, Doc, BaseInv
<1>4. ASSUME req[p].op = "create"
      PROVE  /\ \A d \in Doc \ {e} : db'[d] = db[d]
             /\ db'[e] = [db[e] EXCEPT !.jobs = @ \cup {j}]
  <2>1. writes[p] = {e} /\ view[p][e] = [db[e] EXCEPT !.jobs = @ \cup {j}]
    BY <1>1, <1>2, <1>4 DEF PendingOK
  <2> QED  BY <1>2, <1>3, <2>1
<1>5. ASSUME req[p].op = "delete"
      PROVE  /\ \A d \in Doc \ ({j, e} \cup DefaultStep) : db'[d] = db[d]
             /\ db'[j] \in {db[j], NoJob} /\ ~db'[j].there
             /\ db'[e] \in {db[e], [db[e] EXCEPT !.jobs = @ \ {j}]}
             /\ req[p].settled => j \notin db'[e].jobs
  <2>1. /\ \A d \in writes[p] : view[p][d] = DeletedDoc(db, j, e, d)
        /\ writes[p] \subseteq {j, e} \cup ({j} \X Default)
        /\ j \notin writes[p] => ~db[j].there
        /\ req[p].settled /\ e \notin writes[p] => j \notin db[e].jobs
    BY <1>1, <1>2, <1>5 DEF PendingOK
  <2>2. {j} \X Default \subseteq DefaultStep
    BY <1>3 DEF DefaultStep
  <2>3. \A d \in Doc \ ({j, e} \cup DefaultStep) : db'[d] = db[d]
    BY <1>2, <2>1, <2>2
  <2>4. DeletedDoc(db, j, e, j) = NoJob /\ DeletedDoc(db, j, e, e) = [db[e] EXCEPT !.jobs = @ \ {j}]
    BY <1>2, <1>3, DeletedDocIs DEF BaseInv
  <2>5. db'[j] \in {db[j], NoJob} /\ ~db'[j].there
    BY <1>2, <1>3, <2>1, <2>4 DEF NoJob
  <2>6. db'[e] = IF e \in writes[p] THEN [db[e] EXCEPT !.jobs = @ \ {j}] ELSE db[e]
    BY <1>2, <1>3, <2>1, <2>4
  <2>7. req[p].settled => j \notin db'[e].jobs
    BY <1>3, <2>1, <2>6 DEF EmployerDoc
  <2> QED  BY <2>3, <2>5, <2>6, <2>7
<1> QED  BY <1>1, <1>4, <1>5

\* How the step of p changes job j.
JobChange(p, j) ==
  \/ db'[j] = db[j]
  \/ CreateSave(p) /\ j = p[1] /\ db'[j] = NewJob(p)
  \/ /\ UpdateJob(p) /\ j = req[p].job /\ db[j].there
     /\ db'[j] = [db[j] EXCEPT !.employer = req[p].employer]
  \/ /\ SetImage(p) /\ j = req[p].job /\ db[j].there
     /\ db'[j] = [db[j] EXCEPT !.image = p[1]]
  \/ /\ ToggleOwn(p) /\ j = Own(p) /\ db[j].there
     /\ db'[j] = WithFav(j, req[p].employee,
                         Toggled(db[j].favs[req[p].employee], req[p].has))
  \/ Commit(p) /\ req[p].op = "delete" /\ j = req[p].job /\ db'[j] = NoJob

\* These are all the changes of a job.
LEMMA JobChanges ==
  ASSUME BaseInv, PendingOK, NEW p \in Proc, Progress(p), ~Fail(p), NEW j \in Job
  PROVE  JobChange(p, j)
<1>1. j \in Doc \ DefaultStep /\ j \notin Employer /\ j \notin Employee /\ j \notin Macro
  BY CatalogueAssumption DEF Doc
<1>2. CASE NoneChanged
  BY <1>1, <1>2 DEF NoneChanged, JobChange
<1>3. CASE CreateSave(p)
  BY <1>1, <1>3, CreateSaveDoes DEF Puts, JobChange
<1>4. CASE UpdateJob(p)
  BY <1>1, <1>4, UpdateJobDoes DEF Puts, JobChange
<1>5. CASE SetImage(p)
  BY <1>1, <1>5, SetImageDoes DEF Puts, JobChange
<1>6. CASE ToggleOwn(p)
  BY <1>1, <1>6, ToggleOwnDoes DEF Puts, JobChange
<1>7. CASE ToggleOther(p)
  <2>1. req[p].employee \notin Job
    BY <1>7, TogglePair, CatalogueAssumption DEF ToggleOther
  <2> QED  BY <1>7, <2>1, ToggleOtherDoes, PutsOthers DEF JobChange
<1>8. CASE \/ MacroCreate(p) \/ MacroUpdate(p) \/ MacroAddSave(p)
           \/ MacroDropSave(p) \/ MacroDelete(p)
  <2>1. \E m \in Macro : \E w : Puts(m, w)
    BY <1>8, MacroCreateDoes, MacroUpdateDoes, MacroAddSaveDoes, MacroDropSaveDoes,
       MacroDeleteDoes
  <2> QED  BY <2>1, PutsOthers, CatalogueAssumption DEF JobChange
<1>9. CASE Commit(p)
  <2>1. req[p].employer \in Employer /\ req[p].op \in {"create", "delete"}
    BY <1>9, CommitDoes
  <2> QED  BY <1>1, <1>9, <2>1, CommitPublishes DEF JobChange
<1> QED  BY <1>2, <1>3, <1>4, <1>5, <1>6, <1>7, <1>8, <1>9, ProgressChanges DEF Changes

\* How the step of p changes employer e.
EmployerChange(p, e) ==
  \/ db'[e] = db[e]
  \/ /\ ToggleOwn(p) /\ e = Own(p)
     /\ db'[e] = WithFav(e, req[p].employee,
                         Toggled(db[e].favs[req[p].employee], req[p].has))
  \/ /\ Commit(p) /\ req[p].op = "create" /\ e = req[p].employer
     /\ db'[e] = [db[e] EXCEPT !.jobs = @ \cup {req[p].job}]
  \/ /\ Commit(p) /\ req[p].op = "delete" /\ e = req[p].employer
     /\ db'[e] = [db[e] EXCEPT !.jobs = @ \ {req[p].job}]

\* These are all the changes of an employer.
LEMMA EmployerChanges ==
  ASSUME BaseInv, PendingOK, NEW p \in Proc, Progress(p), ~Fail(p), NEW e \in Employer
  PROVE  EmployerChange(p, e)
<1>1. e \in Doc \ DefaultStep /\ e \notin Job /\ e \notin Employee /\ e \notin Macro
  BY CatalogueAssumption DEF Doc
<1>2. CASE NoneChanged
  BY <1>1, <1>2 DEF NoneChanged, EmployerChange
<1>3. CASE CreateSave(p)
  BY <1>1, <1>3, CreateSaveDoes DEF Puts, EmployerChange, Job
<1>4. CASE UpdateJob(p)
  BY <1>1, <1>4, UpdateJobDoes DEF Puts, EmployerChange
<1>5. CASE SetImage(p)
  BY <1>1, <1>5, SetImageDoes DEF Puts, EmployerChange
<1>6. CASE ToggleOwn(p)
  BY <1>1, <1>6, ToggleOwnDoes DEF Puts, EmployerChange
<1>7. CASE ToggleOther(p)
  <2>1. req[p].employee \notin Employer
    BY <1>7, TogglePair, CatalogueAssumption DEF ToggleOther
  <2> QED  BY <1>7, <2>1, ToggleOtherDoes, PutsOthers DEF EmployerChange
<1>8. CASE \/ MacroCreate(p) \/ MacroUpdate(p) \/ MacroAddSave(p)
           \/ MacroDropSave(p) \/ MacroDelete(p)
  <2>1. \E m \in Macro : \E w : Puts(m, w)
    BY <1>8, MacroCreateDoes, MacroUpdateDoes, MacroAddSaveDoes, MacroDropSaveDoes,
       MacroDeleteDoes
  <2> QED  BY <2>1, PutsOthers, CatalogueAssumption DEF EmployerChange
<1>9. CASE Commit(p)
  <2>1. req[p] \in Request /\ req[p].op \in {"create", "delete"}
    BY <1>9, CommitDoes
  <2>2. req[p].job \in Job
    BY <2>1 DEF Request
  <2>3. CASE req[p].op = "create"
    BY <1>1, <1>9, <2>2, <2>3, CommitPublishes DEF EmployerChange
  <2>4. CASE req[p].op = "delete"
    <3>1. PICK x : x = [db[req[p].employer] EXCEPT !.jobs = @ \ {req[p].job}]
      OBVIOUS
    <3>2. e # req[p].employer => db'[e] = db[e]
      BY <1>1, <1>9, <2>2, <2>4, CommitPublishes
    <3>3. e = req[p].employer => db'[e] \in {db[e], x}
      BY <1>9, <2>4, <3>1, CommitPublishes
    <3> QED  BY <1>9, <2>4, <3>1, <3>2, <3>3 DEF EmployerChange
  <2> QED  BY <2>1, <2>3, <2>4
<1> QED  BY <1>2, <1>3, <1>4, <1>5, <1>6, <1>7, <1>8, <1>9, ProgressChanges DEF Changes

\* How the step of p changes employee c.
EmployeeChange(p, c) ==
  \/ db'[c] = db[c]
  \/ /\ ToggleOther(p) /\ c = req[p].employee
     /\ db'[c] = WithFav(c, Own(p), Toggled(db[c].favs[Own(p)], req[p].has))

\* These are all the changes of an employee.
LEMMA EmployeeChanges ==
  ASSUME BaseInv, PendingOK, NEW p \in Proc, Progress(p), ~Fail(p), NEW c \in Employee
  PROVE  EmployeeChange(p, c)
<1>1. c \in Doc \ DefaultStep /\ c \notin Job /\ c \notin Employer /\ c \notin Macro
  BY CatalogueAssumption DEF Doc
<1>2. CASE NoneChanged
  BY <1>1, <1>2 DEF NoneChanged, EmployeeChange
<1>3. CASE CreateSave(p)
  BY <1>1, <1>3, CreateSaveDoes DEF Puts, EmployeeChange, Job
<1>4. CASE UpdateJob(p)
  BY <1>1, <1>4, UpdateJobDoes DEF Puts, EmployeeChange
<1>5. CASE SetImage(p)
  BY <1>1, <1>5, SetImageDoes DEF Puts, EmployeeChange
<1>6. CASE ToggleOwn(p)
  <2>1. Own(p) \notin Employee
    BY <1>6, TogglePair, CatalogueAssumption DEF ToggleOwn
  <2> QED  BY <1>6, <2>1, ToggleOwnDoes, PutsOthers DEF EmployeeChange
<1>7. CASE ToggleOther(p)
  BY <1>1, <1>7, ToggleOtherDoes DEF Puts, EmployeeChange
<1>8. CASE \/ MacroCreate(p) \/ MacroUpdate(p) \/ MacroAddSave(p)
           \/ MacroDropSave(p) \/ MacroDelete(p)
  <2>1. \E m \in Macro : \E w : Puts(m, w)
    BY <1>8, MacroCreateDoes, MacroUpdateDoes, MacroAddSaveDoes, MacroDropSaveDoes,
       MacroDeleteDoes
  <2> QED  BY <2>1, PutsOthers, CatalogueAssumption DEF EmployeeChange
<1>9. CASE Commit(p)
  <2>1. /\ req[p].op \in {"create", "delete"}
        /\ req[p].employer \in Employer /\ req[p].job \in Job
    BY <1>9, CommitDoes DEF Request
  <2> QED  BY <1>1, <1>9, <2>1, CommitPublishes DEF EmployeeChange
<1> QED  BY <1>2, <1>3, <1>4, <1>5, <1>6, <1>7, <1>8, <1>9, ProgressChanges DEF Changes

\* How the step of p changes macro job m.
MacroChange(p, m) ==
  \/ db'[m] = db[m]
  \/ /\ m = req[p].macro
     /\ \/ MacroCreate(p) \/ MacroUpdate(p) \/ MacroAddSave(p)
        \/ MacroDropSave(p) \/ MacroDelete(p)

\* These are all the changes of a macro job.
LEMMA MacroChanges ==
  ASSUME BaseInv, PendingOK, NEW p \in Proc, Progress(p), ~Fail(p), NEW m \in Macro
  PROVE  MacroChange(p, m)
<1>1. m \in Doc \ DefaultStep /\ m \notin Job /\ m \notin Employer /\ m \notin Employee
  BY CatalogueAssumption DEF Doc
<1>2. CASE NoneChanged
  BY <1>1, <1>2 DEF NoneChanged, MacroChange
<1>3. CASE CreateSave(p)
  BY <1>1, <1>3, CreateSaveDoes DEF Puts, MacroChange, Job
<1>4. CASE UpdateJob(p)
  BY <1>1, <1>4, UpdateJobDoes DEF Puts, MacroChange
<1>5. CASE SetImage(p)
  BY <1>1, <1>5, SetImageDoes DEF Puts, MacroChange
<1>6. CASE ToggleOwn(p)
  <2>1. Own(p) \notin Macro
    BY <1>6, TogglePair, CatalogueAssumption DEF ToggleOwn
  <2> QED  BY <1>6, <2>1, ToggleOwnDoes, PutsOthers DEF MacroChange
<1>7. CASE ToggleOther(p)
  <2>1. req[p].employee \notin Macro
    BY <1>7, TogglePair, CatalogueAssumption DEF ToggleOther
  <2> QED  BY <1>7, <2>1, ToggleOtherDoes, PutsOthers DEF MacroChange
<1>8. CASE \/ MacroCreate(p) \/ MacroUpdate(p) \/ MacroAddSave(p)
           \/ MacroDropSave(p) \/ MacroDelete(p)
  <2>1. \E w : Puts(req[p].macro, w)
    BY <1>8, MacroCreateDoes, MacroUpdateDoes, MacroAddSaveDoes, MacroDropSaveDoes,
       MacroDeleteDoes
  <2> QED  BY <1>1, <1>8, <2>1 DEF MacroChange, Puts
<1>9. CASE Commit(p)
  <2>1. /\ req[p].op \in {"create", "delete"}
        /\ req[p].employer \in Employer /\ req[p].job \in Job
    BY <1>9, CommitDoes DEF Request
  <2> QED  BY <1>1, <1>9, <2>1, CommitPublishes DEF MacroChange
<1> QED  BY <1>2, <1>3, <1>4, <1>5, <1>6, <1>7, <1>8, <1>9, ProgressChanges DEF Changes

-----------------------------------------------------------------------------
(* The invariant is kept *)

\* A job stays known, and an answered call answered.
LEMMA KnownKept ==
  ASSUME ControlOK, \A q \in Proc : CallKept(q), NEW j \in Job, Known(j)
  PROVE  Known(j)'
<1>1. CASE j \in OldJob
  BY <1>1 DEF Known
<1>2. CASE j \notin OldJob
  <2>1. <<j, "http">> \in Proc
    BY <1>2 DEF Proc, Job
  <2>2. pc[<<j, "http">>] \in Announced /\ req[<<j, "http">>].op = "create"
    BY <1>2 DEF Known
  <2> QED  BY <2>1, <2>2 DEF CallKept, Continues, Announced, Known
<1> QED  BY <1>1, <1>2

\* What was answered stays answered, with the same call.
LEMMA DoneKept ==
  ASSUME \A q \in Proc : CallKept(q), NEW q \in Proc, NEW op, Done(q, op)
  PROVE  Done(q, op)' /\ req'[q] = req[q]
BY DEF CallKept, Done, Finished

\* What a job that is stored is called by.
LEMMA StoredKnown ==
  ASSUME UnknownOK, NEW j \in Stored(db)
  PROVE  Known(j) /\ j \in Job
BY DEF UnknownOK, Stored

\* A creation that has not stored its job is not known.
LEMMA NotYetKnown ==
  ASSUME BaseInv, NEW p \in Proc, At(p, {"create"}, "save")
  PROVE  p[1] \in Req /\ p = <<p[1], "http">> /\ ~Known(p[1]) /\ req[p].job = p[1]
<1>1. pc[p] = "save" /\ req[p].op = "create" /\ ControlOK /\ CallOK(p)
  BY AtOperation DEF At, BaseInv
<1>2. p[1] \in Req /\ p = <<p[1], "http">>
  BY <1>1, IsRequest
<1>3. p[1] \notin OldJob
  BY <1>2, CatalogueAssumption
<1> QED  BY <1>1, <1>2, <1>3 DEF Known, Announced, CallOK, OwnJob

\* The arguments of the calls stay known, also those that a started chain takes over.
LEMMA CallsKept ==
  ASSUME BaseInv, Next
  PROVE  CallsOK'
<1> SUFFICES ASSUME NEW p \in Proc, pc'[p] # "idle" PROVE CallOK(p)'
  BY DEF CallsOK
<1>1. ControlOK' /\ \A q \in Proc : CallKept(q)
  BY StepKeeps
<1>2. ControlOK /\ CallsOK /\ UnknownOK
  BY DEF BaseInv
<1>a. \A j \in Job : Known(j) => Known(j)'
  BY <1>1, <1>2, KnownKept
<1>b. \A j \in Job \ OldJob : Done(<<j, "http">>, "create") => Done(<<j, "http">>, "create")'
  <2> SUFFICES ASSUME NEW j \in Job \ OldJob, Done(<<j, "http">>, "create")
               PROVE  Done(<<j, "http">>, "create")'
    OBVIOUS
  <2>1. <<j, "http">> \in Proc
    BY DEF Job, Proc
  <2> QED  BY <1>1, <2>1, DoneKept
<1>3. CASE pc[p] # "idle"
  <2>1. CallOK(p) /\ req[p] \in Request /\ Continues(p)
    BY <1>1, <1>2, <1>3, Called DEF CallKept
  <2>0. PICK j : j = req[p].job /\ j = req'[p].job
    BY <2>1 DEF Continues
  <2>2. IF req'[p].op \in OwnJob THEN j = p[1] ELSE Known(j)'
    BY <1>a, <2>0, <2>1 DEF CallOK, Continues, Request
  <2>3. req'[p].op \in {"create", "update", "favEmployee"} => req'[p].employer \in Employer
    BY <2>1 DEF CallOK, Continues, At
  <2>4. req'[p].op \in {"favJob", "favEmployee"} => req'[p].employee \in Employee
    BY <2>1 DEF CallOK, Continues
  <2>5. req'[p].settled => \/ req'[p].op \in OwnJob \/ j \in OldJob
                           \/ Done(<<j, "http">>, "create")'
    BY <1>b, <2>0, <2>1 DEF CallOK, Continues, Request
  <2>6. req'[p].op = "delete" /\ pc'[p] \in {"write", "commit"} => req'[p].employer \in Employer
    <3>1. CASE ~At(p, {"delete"}, "read") /\ pc[p] \in {"write", "commit"}
      BY <2>1, <3>1 DEF CallOK, Continues
    <3>2. CASE pc'[p] = pc[p] /\ req'[p] = req[p]
      BY <2>1, <3>2 DEF CallOK
    <3>3. CASE \E P \in SUBSET Active : Stops(P)
      <4>1. PICK P \in SUBSET Active : Stops(P)
        BY <3>3
      <4>2. p \in P => pc'[p] = "failed"
        BY <4>1, StopsDoes
      <4>3. p \notin P => pc'[p] = pc[p] /\ req'[p] = req[p]
        BY <4>1, StopsDoes DEF OthersIdle
      <4> QED  BY <3>2, <4>2, <4>3
    <3>4. CASE \E r \in Req : Arrive(r)
      <4>1. PICK r \in Req : Arrive(r)
        BY <3>4
      <4>2. p # <<r, "http">>
        BY <1>3, <4>1, ArriveDoes
      <4>3. pc'[p] = pc[p] /\ req'[p] = req[p]
        BY <4>1, <4>2, ArriveDoes DEF OthersIdle
      <4> QED  BY <3>2, <4>3
    <3>5. ASSUME NEW q \in Proc, Progress(q), ~Fail(q), At(p, {"delete"}, "read")
          PROVE  \/ pc'[p] = pc[p] /\ req'[p] = req[p]
                 \/ pc'[p] \notin {"write", "commit"}
                 \/ req'[p].employer \in Employer
      <4>1. CASE q = p
        <5>1. DeleteRead(p)
          BY <3>5, <4>1 DEF Progress, CreateRead, CreateSave, CreatePush, CreateStep,
            UpdateJob, UploadImage, SetImage, DeleteWrite, Invite, InviteMail, ToggleRead,
            ToggleOwn, ToggleFind, ToggleOther, MacroCreate, MacroRead, MacroFind,
            MacroAddSave, MacroDropSave, MacroUpdate, MacroDelete, Commit, At, Toggling
        <5> QED  BY <3>5, <4>1, <5>1, DeleteReadDoes
      <4>2. CASE q # p
        <5>1. Goes(q) /\ q \in Active
          BY <3>5, ProgressGoes
        <5>2. CASE OthersIdle({q})
          BY <4>2, <5>2 DEF OthersIdle
        <5>3. CASE Lists(q) \/ Invites(q)
          BY <3>5, <4>2, <5>3 DEF Lists, Invites, Spawns, OthersIdle
        <5> QED  BY <5>1, <5>2, <5>3 DEF Goes, Passes, Answers, StepsOn, Deletes, Moves
      <4> QED  BY <4>1, <4>2
    <3>6. ASSUME NEW q \in Proc, Progress(q), ~Fail(q), ~At(p, {"delete"}, "read"),
                 pc[p] \notin {"write", "commit"}, req[p].op = "delete"
          PROVE  pc'[p] \notin {"write", "commit"}
      <4>1. Goes(q)
        BY <3>6, ProgressGoes
      <4>2. CASE q = p
        <5>1. pc[p] \in {"read", "save", "push", "step", "mail", "own", "find", "other"}
          BY <2>1, <3>6, <4>2, <1>2, ProgressGoes DEF ControlOK, Label, Active
        <5>2. Progress(p)
          BY <3>6, <4>2
        <5>3. FALSE
          BY <3>6, <5>1, <5>2 DEF Progress, CreateRead, CreateSave, CreatePush,
            CreateStep, UpdateJob, UploadImage, SetImage, DeleteRead, DeleteWrite, Invite,
            InviteMail, ToggleRead, ToggleOwn, ToggleFind, ToggleOther, MacroCreate,
            MacroRead, MacroFind, MacroAddSave, MacroDropSave, MacroUpdate, MacroDelete, Commit, At,
            Toggling
        <5> QED  BY <5>3
      <4>3. CASE q # p /\ OthersIdle({q})
        BY <3>6, <4>3 DEF OthersIdle
      <4>4. CASE q # p /\ (Lists(q) \/ Invites(q))
        BY <3>6, <4>4 DEF Lists, Invites, Spawns, OthersIdle
      <4> QED  BY <4>1, <4>2, <4>3, <4>4 DEF Goes, Passes, Answers, StepsOn, Deletes, Moves
    <3>7. req'[p].op = req[p].op
      BY <2>1 DEF Continues
    <3>8. CASE \E q \in Proc : Progress(q) /\ ~Fail(q)
      <4>1. PICK q \in Proc : Progress(q) /\ ~Fail(q)
        BY <3>8
      <4>2. CASE At(p, {"delete"}, "read")
        BY <3>2, <3>5, <4>1, <4>2
      <4>3. CASE ~At(p, {"delete"}, "read")
        BY <3>1, <3>6, <3>7, <4>1, <4>3
      <4> QED  BY <4>2, <4>3
    <3> QED  BY <3>3, <3>4, <3>8, StepIs
  <2> QED  BY <2>0, <2>2, <2>3, <2>4, <2>5, <2>6 DEF CallOK
<1>4. CASE pc[p] = "idle"
  <2>1. CASE \E r \in Req : Arrive(r)
    <3>1. PICK r \in Req : Arrive(r)
      BY <2>1
    <3>2. p = <<r, "http">>
      <4> SUFFICES ASSUME p # <<r, "http">> PROVE FALSE
        OBVIOUS
      <4>1. pc'[p] = pc[p]
        BY <3>1, ArriveDoes DEF OthersIdle
      <4> QED  BY <1>4, <4>1
    <3>3. /\ req'[p] \in Request /\ pc'[p] = "read"
          /\ req'[p].job \in Jobs(req'[p].op, r)
          /\ req'[p].employer \in Employers(req'[p].op)
          /\ req'[p].employee \in Employees(req'[p].op)
          /\ req'[p].settled =
               (req'[p].job \in OldJob \/ pc[<<req'[p].job, "http">>] = "answered")
      BY <3>1, <3>2, ArriveDoes
    <3>4. PICK op, j : op = req'[p].op /\ j = req'[p].job
      OBVIOUS
    <3>5. CASE op \in OwnJob
      BY <3>2, <3>3, <3>4, <3>5 DEF CallOK, Jobs, Employers, Employees, OwnJob
    <3>6. CASE op \notin OwnJob
      <4>1. j \in Stored(db)
        BY <3>3, <3>4, <3>6 DEF Jobs, OwnJob
      <4>2. Known(j) /\ j \in Job
        BY <1>2, <4>1, StoredKnown
      <4>3. Known(j)'
        BY <1>a, <4>2
      <4>4. req'[p].settled => j \in OldJob \/ Done(<<j, "http">>, "create")
        BY <3>3, <3>4, <4>2 DEF Known, Done
      <4>5. req'[p].settled => j \in OldJob \/ Done(<<j, "http">>, "create")'
        BY <1>b, <4>2, <4>4
      <4> QED  BY <3>3, <3>4, <3>6, <4>3, <4>5 DEF CallOK, Employers, Employees, OwnJob
    <3> QED  BY <3>5, <3>6
  <2>2. CASE \E P \in SUBSET Active : Stops(P)
    <3>1. PICK P \in SUBSET Active : Stops(P)
      BY <2>2
    <3>2. p \notin P
      BY <1>4 DEF Active
    <3>3. pc'[p] = pc[p]
      BY <3>1, <3>2, StopsDoes DEF OthersIdle
    <3> QED  BY <1>4, <3>3
  <2>3. CASE \E q \in Proc : Progress(q) /\ ~Fail(q)
    <3>1. PICK q \in Proc : Progress(q) /\ ~Fail(q)
      BY <2>3
    <3>2. Goes(q) /\ q \in Active /\ q # p
      BY <1>4, <3>1, ProgressGoes DEF Active
    <3>3. CASE OthersIdle({q})
      BY <1>4, <3>2, <3>3 DEF OthersIdle
    <3>4. CASE Lists(q) \/ Invites(q)
      <4>1. CASE p # <<q[1], "bg">>
        BY <1>4, <3>2, <3>4, <4>1 DEF Lists, Invites, Spawns, OthersIdle
      <4>2. CASE p = <<q[1], "bg">>
        <5>1. /\ req'[p] = req[q] /\ pc'[p] \in {"step", "mail"} /\ p[1] = q[1]
              /\ req[q].op \in {"create", "invite"}
          BY <3>4, <4>2 DEF Lists, Invites, Spawns, At
        <5>2. CallOK(q) /\ req[q] \in Request
          BY <1>2, <3>2, Called DEF Active
        <5>3. PICK j : j = req[q].job
          OBVIOUS
        <5>4. IF req[q].op \in OwnJob THEN j = p[1] ELSE Known(j)'
          BY <1>a, <5>1, <5>2, <5>3 DEF CallOK, Request
        <5>5. req[q].settled => \/ req[q].op \in OwnJob \/ j \in OldJob
                                \/ Done(<<j, "http">>, "create")'
          BY <1>b, <5>2, <5>3 DEF CallOK, Request
        <5> QED  BY <5>1, <5>2, <5>3, <5>4, <5>5 DEF CallOK
      <4> QED  BY <4>1, <4>2
    <3> QED  BY <3>2, <3>3, <3>4 DEF Goes, Passes, Answers, StepsOn, Deletes, Moves
  <2> QED  BY <2>1, <2>2, <2>3, StepIs
<1> QED  BY <1>3, <1>4

\* Where no operation goes on, no document changes.
LEMMA ArriveStopsStore ==
  ASSUME BaseInv, (\E r \in Req : Arrive(r)) \/ (\E P \in SUBSET Active : Stops(P))
  PROVE  db' = db /\ s3' = s3
BY ArriveDoes, StopsDoes DEF Quiet

\* A changed counter leaves the rest of a document alone.
LEMMA WithFavIs ==
  ASSUME StoreOK, NEW n \in Nat
  PROVE  /\ \A d \in Job, c \in Employee :
              LET x == WithFav(d, c, n)
              IN  /\ x.there = db[d].there /\ x.employer = db[d].employer
                  /\ x.externalJobId = db[d].externalJobId /\ x.image = db[d].image
                  /\ x.favs[c] = n /\ \A y \in Employee \ {c} : x.favs[y] = db[d].favs[y]
         /\ \A d \in Employer, c \in Employee :
              LET x == WithFav(d, c, n)
              IN  /\ x.jobs = db[d].jobs
                  /\ x.favs[c] = n /\ \A y \in Employee \ {c} : x.favs[y] = db[d].favs[y]
         /\ \A c \in Employee, d \in Job \cup Employer :
              LET x == WithFav(c, d, n)
              IN  /\ x.favs[d] = n
                  /\ \A y \in (Job \cup Employer) \ {d} : x.favs[y] = db[c].favs[y]
<1>1. ASSUME NEW d \in Job, NEW c \in Employee
      PROVE  LET x == WithFav(d, c, n)
             IN  /\ x.there = db[d].there /\ x.employer = db[d].employer
                 /\ x.externalJobId = db[d].externalJobId /\ x.image = db[d].image
                 /\ x.favs[c] = n /\ \A y \in Employee \ {c} : x.favs[y] = db[d].favs[y]
  BY DocTypes DEF WithFav, JobDoc
<1>2. ASSUME NEW d \in Employer, NEW c \in Employee
      PROVE  LET x == WithFav(d, c, n)
             IN  /\ x.jobs = db[d].jobs
                 /\ x.favs[c] = n /\ \A y \in Employee \ {c} : x.favs[y] = db[d].favs[y]
  BY DocTypes DEF WithFav, EmployerDoc
<1>3. ASSUME NEW c \in Employee, NEW d \in Job \cup Employer
      PROVE  LET x == WithFav(c, d, n)
             IN  /\ x.favs[d] = n
                 /\ \A y \in (Job \cup Employer) \ {d} : x.favs[y] = db[c].favs[y]
  BY DocTypes DEF WithFav, EmployeeDoc
<1> QED  BY <1>1, <1>2, <1>3

\* What changes a job: the fields of one that stays, and those of the new one.
LEMMA JobKept ==
  ASSUME BaseInv, PendingOK, NEW p \in Proc, Progress(p), ~Fail(p), NEW j \in Job, db'[j].there
  PROVE  \/ CreateSave(p) /\ j = p[1] /\ db'[j] = NewJob(p)
         \/ /\ db[j].there
            /\ db'[j].externalJobId = db[j].externalJobId
            /\ db'[j].employer # db[j].employer =>
                 UpdateJob(p) /\ j = req[p].job /\ db'[j].employer = req[p].employer
            /\ db'[j].image # db[j].image =>
                 SetImage(p) /\ j = req[p].job /\ db'[j].image = p[1]
<1>1. db[j] \in JobDoc /\ StoreOK
  BY DocTypes DEF BaseInv
<1>2. CASE db'[j] = db[j]
  BY <1>2
<1>3. CASE /\ UpdateJob(p) /\ j = req[p].job /\ db[j].there
           /\ db'[j] = [db[j] EXCEPT !.employer = req[p].employer]
  BY <1>1, <1>3 DEF JobDoc
<1>4. CASE /\ SetImage(p) /\ j = req[p].job /\ db[j].there
           /\ db'[j] = [db[j] EXCEPT !.image = p[1]]
  BY <1>1, <1>4 DEF JobDoc
<1>5. CASE /\ ToggleOwn(p) /\ j = Own(p) /\ db[j].there
           /\ db'[j] = WithFav(j, req[p].employee,
                               Toggled(db[j].favs[req[p].employee], req[p].has))
  <2>1. /\ req[p].employee \in Employee
        /\ Toggled(db[j].favs[req[p].employee], req[p].has) \in Nat
    BY <1>5, ToggleOwnDoes, TogglePair DEF ToggleOwn
  <2> QED  BY <1>1, <1>5, <2>1, WithFavIs
<1>6. CASE db'[j] = NoJob
  BY <1>6 DEF NoJob
<1> QED  BY <1>2, <1>3, <1>4, <1>5, <1>6, JobChanges DEF JobChange

\* A job that is not known yet is not stored, listed or a favourite after the step.
LEMMA UnknownKept ==
  ASSUME BaseInv, PendingOK, Next
  PROVE  UnknownOK'
<1> SUFFICES ASSUME NEW j \in Job, ~Known(j)'
             PROVE  /\ ~db'[j].there
                    /\ \A e \in Employer : j \notin db'[e].jobs
                    /\ \A c \in Employee : db'[c].favs[j] = 0
  BY DEF UnknownOK
<1>1. ControlOK /\ StoreOK /\ CallsOK /\ \A q \in Proc : CallKept(q)
  BY StepKeeps DEF BaseInv
<1>2. ~Known(j)
  BY <1>1, KnownKept
<1>3. /\ ~db[j].there
      /\ \A e \in Employer : j \notin db[e].jobs
      /\ \A c \in Employee : db[c].favs[j] = 0
  BY <1>2 DEF BaseInv, UnknownOK
<1>4. CASE db' = db
  BY <1>3, <1>4
<1>5. CASE \E p \in Proc : Progress(p) /\ ~Fail(p)
  <2>1. PICK p \in Proc : Progress(p) /\ ~Fail(p)
    BY <1>5
  <2>2. ~db'[j].there
    <3> SUFFICES ASSUME CreateSave(p), j = p[1] PROVE FALSE
      BY <1>3, <2>1, JobKept
    <3>1. /\ At(p, {"create"}, "save") /\ pc'[p] = "push" /\ Continues(p)
      BY <2>1, CreateSaveDoes DEF Moves
    <3>2. p = <<j, "http">>
      BY <3>1, NotYetKnown
    <3>3. pc'[<<j, "http">>] = "push" /\ req'[<<j, "http">>].op = "create"
      BY <3>1, <3>2 DEF At, Continues
    <3> QED  BY <3>3 DEF Known, Announced
  <2>3. ASSUME NEW e \in Employer PROVE j \notin db'[e].jobs
    <3>1. db[e] \in EmployerDoc
      BY <1>1, DocTypes
    <3>2. CASE ToggleOwn(p) /\ e = Own(p)
               /\ db'[e] = WithFav(e, req[p].employee,
                                   Toggled(db[e].favs[req[p].employee], req[p].has))
      <4>1. /\ req[p].employee \in Employee
            /\ Toggled(db[e].favs[req[p].employee], req[p].has) \in Nat
        BY <3>2, ToggleOwnDoes, TogglePair DEF ToggleOwn
      <4> QED  BY <1>1, <1>3, <3>2, <4>1, WithFavIs
    <3>3. CASE Commit(p) /\ req[p].op = "create"
               /\ db'[e] = [db[e] EXCEPT !.jobs = @ \cup {req[p].job}]
      <4>1. pc[p] = "commit" /\ p = <<p[1], "http">> /\ CallOK(p)
        BY <1>1, <3>3, CommitDoes, AtOperation
      <4>2. req[p].job = p[1]
        BY <3>3, <4>1 DEF CallOK, OwnJob
      <4>3. j # req[p].job
        BY <1>2, <3>3, <4>1, <4>2 DEF Known, Announced
      <4> QED  BY <1>3, <3>1, <3>3, <4>3 DEF EmployerDoc
    <3>4. CASE db'[e] = [db[e] EXCEPT !.jobs = @ \ {req[p].job}]
      BY <1>3, <3>1, <3>4 DEF EmployerDoc
    <3> QED  BY <1>3, <2>1, <3>2, <3>3, <3>4, EmployerChanges DEF EmployerChange
  <2>4. ASSUME NEW c \in Employee PROVE db'[c].favs[j] = 0
    <3>1. CASE ToggleOther(p) /\ c = req[p].employee
               /\ db'[c] = WithFav(c, Own(p), Toggled(db[c].favs[Own(p)], req[p].has))
      <4>1. Own(p) \in Job \cup Employer /\ Toggled(db[c].favs[Own(p)], req[p].has) \in Nat
        BY <3>1, ToggleOtherDoes, TogglePair DEF ToggleOther
      <4>2. Own(p) # j
        <5>1. pc[p] = "other" /\ Toggling(p) /\ CallOK(p)
          BY <1>1, <3>1, AtOperation DEF ToggleOther
        <5>2. CASE req[p].op = "favJob"
          <6>1. Known(req[p].job) /\ Own(p) = req[p].job
            BY <5>1, <5>2 DEF CallOK, OwnJob, Own, Pair
          <6> QED  BY <6>1, <1>2
        <5>3. CASE req[p].op = "favEmployee"
          BY <5>1, <5>3, CatalogueAssumption DEF CallOK, Own, Pair
        <5> QED  BY <5>1, <5>2, <5>3 DEF Toggling
      <4> QED  BY <1>1, <1>3, <3>1, <4>1, <4>2, WithFavIs
    <3> QED  BY <1>3, <2>1, <3>1, EmployeeChanges DEF EmployeeChange
  <2> QED  BY <2>2, <2>3, <2>4
<1> QED  BY <1>4, <1>5, ArriveStopsStore, StepIs

\* Which operations go on to the second half of an upload.
LEMMA ToSave ==
  ASSUME BaseInv, NEW p \in Proc, Progress(p), ~Fail(p), pc'[p] = "save"
  PROVE  CreateRead(p) \/ UploadImage(p) \/ MacroRead(p) \/ MacroFind(p)
<1>1. ~CreateSave(p) /\ ~CreatePush(p) /\ ~CreateStep(p) /\ ~UpdateJob(p) /\ ~SetImage(p)
  BY CreateSaveDoes, CreatePushDoes, CreateStepDoes, UpdateJobDoes, SetImageDoes
    DEF Moves, Spawns
<1>2. ~DeleteRead(p) /\ ~DeleteWrite(p) /\ ~Invite(p) /\ ~InviteMail(p)
  BY DeleteReadDoes, DeleteWriteDoes, InviteDoes, InviteMailDoes DEF Moves, Spawns
<1>3. ~ToggleRead(p) /\ ~ToggleOwn(p) /\ ~ToggleFind(p) /\ ~ToggleOther(p)
  BY ToggleReadDoes, ToggleOwnDoes, ToggleFindDoes, ToggleOtherDoes DEF Moves
<1>4. /\ ~MacroCreate(p) /\ ~MacroUpdate(p) /\ ~MacroAddSave(p) /\ ~MacroDropSave(p)
      /\ ~MacroDelete(p) /\ ~Commit(p)
  BY MacroCreateDoes, MacroUpdateDoes, MacroAddSaveDoes, MacroDropSaveDoes,
     MacroDeleteDoes, CommitDoes DEF Moves
<1> QED  BY <1>1, <1>2, <1>3, <1>4 DEF Progress

\* Another process than the one that goes on is left alone, or was just started.
LEMMA OthersStay ==
  ASSUME BaseInv, NEW p \in Proc, Progress(p), ~Fail(p), NEW q \in Proc, q # p
  PROVE  \/ pc'[q] = pc[q] /\ req'[q] = req[q]
         \/ pc[q] = "idle" /\ pc'[q] \in {"step", "mail"}
<1>1. Goes(p) /\ p \in Active /\ ControlOK
  BY ProgressGoes DEF BaseInv
<1>2. CASE OthersIdle({p})
  BY <1>2 DEF OthersIdle
<1>3. CASE Lists(p) \/ Invites(p)
  <2>1. CASE q # <<p[1], "bg">>
    BY <1>3, <2>1 DEF Lists, Invites, Spawns, OthersIdle
  <2>2. CASE q = <<p[1], "bg">>
    <3>1. pc[p] \in {"push", "read"}
      BY <1>3 DEF Lists, Invites, At
    <3>2. p = <<p[1], "http">> /\ p[1] \in Req
      BY <1>1, <3>1, IsRequest
    <3>3. pc[q] = "idle"
      <4>1. pc[q] # "idle" => pc[<<p[1], "http">>] \in {"commit", "answered", "failed"}
        BY <1>1, <2>2, <3>2 DEF ControlOK
      <4> QED  BY <3>1, <3>2, <4>1
    <3> QED  BY <1>3, <2>2, <3>3 DEF Lists, Invites, Spawns
  <2> QED  BY <2>1, <2>2
<1> QED  BY <1>1, <1>2, <1>3 DEF Goes, Passes, Answers, StepsOn, Deletes, Moves

\* Images are only added, and never from elsewhere than an upload.
LEMMA ImagesKept ==
  ASSUME BaseInv, NEW p \in Proc, Progress(p), ~Fail(p)
  PROVE  s3 \subseteq s3' /\ s3' \subseteq s3 \cup Req
<1>1. CASE CreateRead(p) \/ UploadImage(p)
  <2>1. pc[p] = "read" /\ ControlOK
    BY <1>1, CreateReadDoes, UploadImageDoes DEF At, BaseInv
  <2>2. p[1] \in Req
    BY <2>1, IsRequest
  <2> QED  BY <1>1, <2>2, CreateReadDoes, UploadImageDoes
<1>2. CASE s3' = s3
  BY <1>2
<1>3. CASE CreateSave(p) \/ CreatePush(p) \/ CreateStep(p) \/ UpdateJob(p) \/ SetImage(p)
  BY <1>2, <1>3, CreateSaveDoes, CreatePushDoes, CreateStepDoes, UpdateJobDoes, SetImageDoes
<1>4. CASE DeleteRead(p) \/ DeleteWrite(p) \/ Invite(p) \/ InviteMail(p) \/ Commit(p)
  BY <1>2, <1>4, DeleteReadDoes, DeleteWriteDoes, InviteDoes, InviteMailDoes, CommitDoes
<1>5. CASE ToggleRead(p) \/ ToggleOwn(p) \/ ToggleFind(p) \/ ToggleOther(p)
  BY <1>2, <1>5, ToggleReadDoes, ToggleOwnDoes, ToggleFindDoes, ToggleOtherDoes
<1>6. CASE MacroCreate(p) \/ MacroRead(p) \/ MacroFind(p)
  BY <1>2, <1>6, MacroCreateDoes, MacroReadDoes, MacroFindDoes
<1>7. CASE MacroUpdate(p) \/ MacroAddSave(p) \/ MacroDropSave(p) \/ MacroDelete(p)
  BY <1>2, <1>7, MacroUpdateDoes, MacroAddSaveDoes, MacroDropSaveDoes, MacroDeleteDoes
<1> QED  BY <1>1, <1>3, <1>4, <1>5, <1>6, <1>7 DEF Progress

\* Stored jobs keep bounded ids, stored images and employers.
LEMMA JobsKept ==
  ASSUME BaseInv, PendingOK, Next
  PROVE  JobsOK'
<1>1. ControlOK /\ StoreOK /\ JobsOK /\ \A q \in Proc : CallKept(q)
  BY StepKeeps DEF BaseInv
<1>2. ASSUME NEW p \in Proc, Progress(p), ~Fail(p) PROVE JobsOK'
  <2>1. s3 \subseteq s3' /\ s3' \subseteq Req \cup {Earlier}
    BY <1>1, <1>2, ImagesKept DEF JobsOK
  <2>2. \E n \in Nat : \A j \in Stored(db)' : db'[j].externalJobId <= n
    <3>1. PICK n \in Nat : \A j \in Stored(db) : db[j].externalJobId <= n
      BY <1>1 DEF JobsOK
    <3>2. \A j \in Stored(db) : db[j].externalJobId \in Nat
      BY <1>1, DocTypes DEF Stored, JobDoc
    <3>3. CASE CreateSave(p)
      <4>1. PICK k : k = NewJob(p).externalJobId
        OBVIOUS
      <4>2. k \in Nat
        BY <1>2, <3>3, <4>1, CreateSaveDoes DEF JobDoc
      <4>3. PICK m \in Nat : m = n + k
        BY <4>2
      <4>4. ASSUME NEW j \in Stored(db)' PROVE db'[j].externalJobId <= m
        <5>1. j \in Job /\ db'[j].there
          BY DEF Stored
        <5>2. CASE db'[j] = NewJob(p)
          BY <4>1, <4>2, <4>3, <5>2
        <5>3. CASE j \in Stored(db) /\ db'[j].externalJobId = db[j].externalJobId
          BY <3>1, <3>2, <4>2, <4>3, <5>3
        <5> QED  BY <1>2, <5>1, <5>2, <5>3, JobKept DEF Stored
      <4> QED  BY <4>4
    <3>4. CASE ~CreateSave(p)
      <4>1. ASSUME NEW j \in Stored(db)' PROVE db'[j].externalJobId <= n
        BY <1>2, <3>1, <3>4, JobKept DEF Stored
      <4> QED  BY <4>1
    <3> QED  BY <3>3, <3>4
  <2>3. ASSUME NEW j \in Stored(db)' PROVE db'[j].image \in s3' /\ db'[j].employer \in Employer
    <3>1. j \in Job /\ db'[j].there
      BY DEF Stored
    <3>2. CASE CreateSave(p) /\ j = p[1] /\ db'[j] = NewJob(p)
      <4>1. At(p, {"create"}, "save") /\ req[p].employer \in Employer
        BY <1>2, <3>2, CreateSaveDoes
      <4>2. p[1] \in s3
        BY <1>1, <4>1 DEF JobsOK, At
      <4> QED  BY <2>1, <3>2, <4>1, <4>2 DEF NewJob
    <3>3. CASE /\ db[j].there
               /\ db'[j].employer # db[j].employer =>
                    UpdateJob(p) /\ j = req[p].job /\ db'[j].employer = req[p].employer
               /\ db'[j].image # db[j].image =>
                    SetImage(p) /\ j = req[p].job /\ db'[j].image = p[1]
      <4>1. db[j].image \in s3 /\ db[j].employer \in Employer
        BY <1>1, <3>1, <3>3 DEF JobsOK, Stored
      <4>2. UpdateJob(p) => req[p].employer \in Employer
        BY <1>2, UpdateJobDoes
      <4>3. SetImage(p) => p[1] \in s3
        BY <1>1, <1>2, SetImageDoes DEF JobsOK, At
      <4> QED  BY <2>1, <3>3, <4>1, <4>2, <4>3
    <3> QED  BY <1>2, <3>1, <3>2, <3>3, JobKept
  <2>4. ASSUME NEW q \in Proc, At(q, {"create", "image"}, "save")' PROVE q[1] \in s3'
    <3>1. pc'[q] = "save" /\ req'[q].op \in {"create", "image"}
      BY <2>4 DEF At
    <3>2. CASE q = p
      <4>1. CASE CreateRead(p) \/ UploadImage(p)
        BY <1>2, <3>2, <4>1, CreateReadDoes, UploadImageDoes
      <4>2. CASE MacroRead(p) \/ MacroFind(p)
        <5>1. req[p].op \in {"macroAdd", "macroDrop"} /\ Continues(p)
          BY <1>2, <4>2, MacroReadDoes, MacroFindDoes DEF At, Moves
        <5> QED  BY <3>1, <3>2, <5>1 DEF Continues
      <4> QED  BY <1>2, <3>1, <3>2, <4>1, <4>2, ToSave
    <3>3. CASE q # p
      <4>1. pc'[q] = pc[q] /\ req'[q] = req[q]
        BY <1>2, <3>1, <3>3, OthersStay
      <4> QED  BY <1>1, <2>1, <3>1, <4>1 DEF JobsOK, At
    <3> QED  BY <3>2, <3>3
  <2> QED  BY <2>1, <2>2, <2>3, <2>4 DEF JobsOK
<1>3. ASSUME (\E r \in Req : Arrive(r)) \/ (\E P \in SUBSET Active : Stops(P)) PROVE JobsOK'
  <2>1. db' = db /\ s3' = s3
    BY <1>3, ArriveStopsStore
  <2>2. ASSUME NEW q \in Proc, At(q, {"create", "image"}, "save")'
        PROVE  At(q, {"create", "image"}, "save")
    <3>1. pc'[q] = "save" /\ req'[q].op \in {"create", "image"}
      BY <2>2 DEF At
    <3>2. CASE \E r \in Req : Arrive(r)
      <4>1. PICK r \in Req : Arrive(r)
        BY <3>2
      <4>2. q # <<r, "http">>
        BY <3>1, <4>1, ArriveDoes
      <4> QED  BY <3>1, <4>1, <4>2, ArriveDoes DEF OthersIdle, At
    <3>3. CASE \E P \in SUBSET Active : Stops(P)
      <4>1. PICK P \in SUBSET Active : Stops(P)
        BY <3>3
      <4>2. q \notin P
        BY <3>1, <4>1, StopsDoes
      <4> QED  BY <3>1, <4>1, <4>2, StopsDoes DEF OthersIdle, At
    <3> QED  BY <1>3, <3>2, <3>3
  <2> QED  BY <1>1, <2>1, <2>2 DEF JobsOK, Stored
<1> QED  BY <1>2, <1>3, StepIs

\* No operation that goes on makes a favourite ambiguous.
LEMMA MixedKept ==
  ASSUME BaseInv, NEW p \in Proc, Progress(p), ~Fail(p)
  PROVE  mixed' = mixed
<1>1. CASE CreateRead(p) \/ CreateSave(p) \/ CreatePush(p) \/ CreateStep(p) \/ UpdateJob(p)
  BY <1>1, CreateReadDoes, CreateSaveDoes, CreatePushDoes, CreateStepDoes, UpdateJobDoes
<1>2. CASE UploadImage(p) \/ SetImage(p) \/ DeleteRead(p) \/ DeleteWrite(p) \/ Invite(p)
  BY <1>2, UploadImageDoes, SetImageDoes, DeleteReadDoes, DeleteWriteDoes, InviteDoes
<1>3. CASE InviteMail(p) \/ ToggleRead(p) \/ ToggleOwn(p) \/ ToggleFind(p) \/ ToggleOther(p)
  BY <1>3, InviteMailDoes, ToggleReadDoes, ToggleOwnDoes, ToggleFindDoes, ToggleOtherDoes
<1>4. CASE MacroCreate(p) \/ MacroRead(p) \/ MacroFind(p) \/ MacroAddSave(p)
  BY <1>4, MacroCreateDoes, MacroReadDoes, MacroFindDoes, MacroAddSaveDoes
<1>5. CASE MacroUpdate(p) \/ MacroDropSave(p) \/ MacroDelete(p) \/ Commit(p)
  BY <1>5, MacroUpdateDoes, MacroDropSaveDoes, MacroDeleteDoes, CommitDoes
<1> QED  BY <1>1, <1>2, <1>3, <1>4, <1>5 DEF Progress

\* The area and the ambiguous favourites keep their types.
LEMMA TypesKept ==
  ASSUME BaseInv, Next
  PROVE  TypeInv'
<1>1. area' = area
  BY StepIs
<1>2. ASSUME NEW t \in Toggles PROVE Pair(t) \in (Job \cup Employer) \X Employee
  <2>1. t \in Proc /\ pc[t] \notin {"idle", "answered", "failed"} /\ Toggling(t)
    BY DEF Toggles, Active
  <2> QED  BY <2>1, TogglePair
<1>3. CASE mixed' = mixed
  BY <1>1, <1>3 DEF BaseInv, TypeInv
<1>4. CASE \E r \in Req : Arrive(r)
  <2>1. PICK r \in Req : Arrive(r)
    BY <1>4
  <2>2. PICK S : S = {Pair(p)' : p \in {<<r, "http">>} \cap Toggles'}
    OBVIOUS
  <2>3. mixed' = mixed \cup (S \cap {Pair(t) : t \in Toggles})
    BY <2>1, <2>2 DEF Arrive
  <2> QED  BY <1>1, <1>2, <2>3 DEF BaseInv, TypeInv
<1>5. CASE \E P \in SUBSET Active : Stops(P)
  BY <1>1, <1>2, <1>5 DEF BaseInv, TypeInv, Stops, HalfDone
<1>6. CASE \E p \in Proc : Progress(p) /\ ~Fail(p)
  <2>1. PICK p \in Proc : Progress(p) /\ ~Fail(p)
    BY <1>6
  <2>2. mixed' = mixed
    BY <2>1, MixedKept
  <2> QED  BY <1>3, <2>2
<1> QED  BY <1>4, <1>5, <1>6, StepIs

\* The part of the invariant that the types rest on is kept.
LEMMA TypeStep ==
  ASSUME BaseInv, PendingOK, Next
  PROVE  BaseInv'
BY StepKeeps, CallsKept, UnknownKept, JobsKept, TypesKept DEF BaseInv

\* What an operation writes.
LEMMA ProgressWrites ==
  ASSUME BaseInv, NEW p \in Proc, Progress(p), ~Fail(p)
  PROVE  db' = db \/ (\E d : \E w : Puts(d, w)) \/ Commit(p)
<1>1. CASE CreateRead(p) \/ UploadImage(p) \/ InviteMail(p) \/ ToggleFind(p) \/ MacroFind(p)
  BY <1>1, CreateReadDoes, UploadImageDoes, InviteMailDoes, ToggleFindDoes, MacroFindDoes DEF Quiet
<1>2. CASE DeleteRead(p) \/ Invite(p) \/ ToggleRead(p) \/ MacroRead(p)
  BY <1>2, DeleteReadDoes, InviteDoes, ToggleReadDoes, MacroReadDoes DEF Quiet
<1>3. CASE CreatePush(p) \/ DeleteWrite(p)
  BY <1>3, CreatePushDoes, DeleteWriteDoes
<1>4. CASE CreateSave(p) \/ CreateStep(p) \/ UpdateJob(p) \/ SetImage(p)
  BY <1>4, CreateSaveDoes, CreateStepDoes, UpdateJobDoes, SetImageDoes
<1>5. CASE ToggleOwn(p) \/ ToggleOther(p) \/ MacroCreate(p)
  BY <1>5, ToggleOwnDoes, ToggleOtherDoes, MacroCreateDoes
<1>6. CASE MacroUpdate(p) \/ MacroAddSave(p) \/ MacroDropSave(p) \/ MacroDelete(p)
  BY <1>6, MacroUpdateDoes, MacroAddSaveDoes, MacroDropSaveDoes, MacroDeleteDoes
<1> QED  BY <1>1, <1>2, <1>3, <1>4, <1>5, <1>6 DEF Progress

\* A transaction that stays open keeps what it has written, and nobody else
\* changes those documents.
TxnStays(q) ==
  /\ req'[q] = req[q] /\ view'[q] = view[q] /\ writes'[q] = writes[q]
  /\ \A d \in writes[q] : db'[d] = db[d]

\* A transaction that stays open has the same call and the same writes.
LEMMA OpenStays ==
  ASSUME BaseInv, Next, NEW q \in open, q \in open'
  PROVE  TxnStays(q)
<1>1. q \in Proc /\ pc[q] = "commit" /\ StoreOK /\ writes[q] \in SUBSET Doc
  BY DEF BaseInv, ControlOK, StoreOK
<1>2. CASE \E r \in Req : Arrive(r)
  <2>1. PICK r \in Req : Arrive(r)
    BY <1>2
  <2>2. q # <<r, "http">>
    BY <1>1, <2>1, ArriveDoes
  <2> QED  BY <1>1, <2>1, <2>2, ArriveDoes DEF Quiet, OthersIdle, TxnsKept, TxnStays
<1>3. CASE \E P \in SUBSET Active : Stops(P)
  <2>1. PICK P \in SUBSET Active : Stops(P)
    BY <1>3
  <2>2. q \notin P
    BY <2>1, StopsDoes
  <2> QED  BY <1>1, <2>1, <2>2, StopsDoes DEF OthersIdle, TxnsKept, TxnStays
<1>4. CASE \E p \in Proc : Progress(p) /\ ~Fail(p)
  <2>1. PICK p \in Proc : Progress(p) /\ ~Fail(p)
    BY <1>4
  <2>2. Goes(p)
    BY <2>1, ProgressGoes
  <2>3. q # p
    BY <1>1, <2>2 DEF Goes, Passes, Answers, StepsOn, Deletes, Lists, Invites, At
  <2>4. req'[q] = req[q]
    BY <1>1, <2>1, <2>3, OthersStay
  <2>5. view'[q] = view[q] /\ writes'[q] = writes[q]
    BY <1>1, <2>2, <2>3
      DEF Goes, Passes, Answers, StepsOn, Deletes, Lists, Invites, TxnsKept
  <2>6. ASSUME NEW d \in writes[q] PROVE db'[d] = db[d]
    <3>1. d \in Doc
      BY <1>1
    <3>2. CASE \E e : \E w : Puts(e, w)
      <4>1. PICK e, w : Puts(e, w)
        BY <3>2
      <4> QED  BY <3>1, <4>1 DEF Puts
    <3>3. CASE Commit(p)
      <4>1. p \in open /\ (db'[d] = IF d \in writes[p] THEN view[p][d] ELSE db[d])
        BY <3>1, <3>3, CommitDoes
      <4>2. d \notin writes[p]
        BY <1>1, <2>3, <4>1 DEF StoreOK, PendingWritesFresh
      <4> QED  BY <4>1, <4>2
    <3> QED  BY <2>1, <3>2, <3>3, ProgressWrites
  <2> QED  BY <2>4, <2>5, <2>6 DEF TxnStays
<1> QED  BY <1>2, <1>3, <1>4, StepIs

\* Only these two operations open a transaction.
LEMMA WhichOpens ==
  ASSUME BaseInv, Next, NEW q \in open', q \notin open
  PROVE  q \in Proc /\ Progress(q) /\ ~Fail(q) /\ (CreatePush(q) \/ DeleteWrite(q))
<1>1. CASE \E r \in Req : Arrive(r)
  BY <1>1, ArriveDoes DEF Quiet
<1>2. CASE \E P \in SUBSET Active : Stops(P)
  BY <1>2, StopsDoes
<1>3. CASE \E p \in Proc : Progress(p) /\ ~Fail(p)
  <2>1. PICK p \in Proc : Progress(p) /\ ~Fail(p)
    BY <1>3
  <2>2. Goes(p)
    BY <2>1, ProgressGoes
  <2>3. q = p /\ (At(p, {"delete"}, "write") \/ At(p, {"create"}, "push"))
    BY <2>2 DEF Goes, Passes, Answers, StepsOn, Deletes, Lists, Invites
  <2>4. CreatePush(p) \/ DeleteWrite(p)
    BY <2>1, <2>3 DEF Progress, CreateRead, CreateSave, CreateStep,
      UpdateJob, UploadImage, SetImage, DeleteRead, Invite, InviteMail, ToggleRead,
      ToggleOwn, ToggleFind, ToggleOther, MacroCreate, MacroRead, MacroFind,
      MacroAddSave, MacroDropSave, MacroUpdate, MacroDelete, Commit, At, Toggling
  <2> QED  BY <2>1, <2>3, <2>4
<1> QED  BY <1>1, <1>2, <1>3, StepIs

\* PendingOK for one transaction.
PendingFor(p) ==
  LET q == req[p]
  IN  IF q.op = "create"
      THEN /\ writes[p] = {q.employer}
           /\ view[p][q.employer] = [db[q.employer] EXCEPT !.jobs = @ \cup {q.job}]
      ELSE /\ \A d \in writes[p] : view[p][d] = DeletedDoc(db, q.job, q.employer, d)
           /\ writes[p] \subseteq {q.job, q.employer} \cup ({q.job} \X Default)
           /\ q.job \notin writes[p] => ~db[q.job].there
           /\ q.settled /\ q.employer \notin writes[p] => q.job \notin db[q.employer].jobs

\* What a transaction will publish stays its change of what is committed.
LEMMA PendingStays ==
  ASSUME BaseInv, PendingOK, Next, NEW q \in open, q \in open'
  PROVE  PendingFor(q)'
<1>1. TxnStays(q)
  BY OpenStays
<1>2. /\ q \in Proc /\ pc[q] = "commit" /\ req[q] \in Request /\ CallOK(q)
      /\ req[q].op \in {"create", "delete"}
  BY Called DEF BaseInv, ControlOK
<1>3. PICK j, e : j = req[q].job /\ e = req[q].employer
  OBVIOUS
<1>4. req'[q].job = j /\ req'[q].employer = e /\ req'[q].op = req[q].op
      /\ req'[q].settled = req[q].settled
  BY <1>1, <1>3 DEF TxnStays
<1>5. CASE req[q].op = "create"
  <2>1. writes[q] = {e} /\ view[q][e] = [db[e] EXCEPT !.jobs = @ \cup {j}]
    BY <1>3, <1>5 DEF PendingOK
  <2>2. writes'[q] = {e} /\ view'[q][e] = [db'[e] EXCEPT !.jobs = @ \cup {j}]
    BY <1>1, <2>1 DEF TxnStays
  <2> QED  BY <1>4, <1>5, <2>2 DEF PendingFor
<1>6. CASE req[q].op = "delete"
  <2>1. /\ \A d \in writes[q] : view[q][d] = DeletedDoc(db, j, e, d)
        /\ writes[q] \subseteq {j, e} \cup ({j} \X Default)
        /\ j \notin writes[q] => ~db[j].there
        /\ req[q].settled /\ e \notin writes[q] => j \notin db[e].jobs
    BY <1>3, <1>6 DEF PendingOK
  <2>2. \A d \in writes'[q] : view'[q][d] = DeletedDoc(db', j, e, d)
    BY <1>1, <2>1 DEF TxnStays, DeletedDoc
  <2>3. writes'[q] \subseteq {j, e} \cup ({j} \X Default)
    BY <1>1, <2>1 DEF TxnStays
  <2>4. j \in Job /\ e \in Employer /\ Known(j) /\ j \in Doc
    BY <1>2, <1>3, <1>6 DEF CallOK, Request, OwnJob, Doc
  <2>5. ASSUME j \notin writes'[q] PROVE ~db'[j].there
    <3>1. ~db[j].there
      BY <1>1, <2>1, <2>5 DEF TxnStays
    <3>2. CASE db' = db
      BY <3>1, <3>2
    <3>3. CASE \E p \in Proc : Progress(p) /\ ~Fail(p)
      <4>1. PICK p \in Proc : Progress(p) /\ ~Fail(p)
        BY <3>3
      <4>2. ~(CreateSave(p) /\ j = p[1])
        BY <2>4, <4>1, CreateSaveDoes, NotYetKnown
      <4> QED  BY <2>4, <3>1, <4>1, <4>2, JobKept
    <3> QED  BY <3>2, <3>3, ArriveStopsStore, StepIs
  <2>6. ASSUME req[q].settled, e \notin writes'[q] PROVE j \notin db'[e].jobs
    <3>1. j \notin db[e].jobs /\ db[e] \in EmployerDoc /\ StoreOK
      BY <1>1, <2>1, <2>4, <2>6, DocTypes DEF TxnStays, BaseInv
    <3>2. CASE db' = db
      BY <3>1, <3>2
    <3>3. CASE \E p \in Proc : Progress(p) /\ ~Fail(p)
      <4>1. PICK p \in Proc : Progress(p) /\ ~Fail(p)
        BY <3>3
      <4>2. CASE ToggleOwn(p) /\ e = Own(p)
                 /\ db'[e] = WithFav(e, req[p].employee,
                                     Toggled(db[e].favs[req[p].employee], req[p].has))
        <5>1. /\ req[p].employee \in Employee
              /\ Toggled(db[e].favs[req[p].employee], req[p].has) \in Nat
          BY <4>2, ToggleOwnDoes, TogglePair DEF ToggleOwn
        <5> QED  BY <2>4, <3>1, <4>2, <5>1, WithFavIs
      <4>3. CASE Commit(p) /\ req[p].op = "create"
                 /\ db'[e] = [db[e] EXCEPT !.jobs = @ \cup {req[p].job}]
        <5>1. pc[p] = "commit" /\ p = <<p[1], "http">> /\ p[1] \in Req /\ CallOK(p)
          BY <4>3, CommitDoes, AtOperation DEF BaseInv
        <5>2. req[p].job = p[1]
          BY <4>3, <5>1 DEF CallOK, OwnJob
        <5>3. j \in OldJob \/ pc[<<j, "http">>] = "answered"
          BY <1>2, <1>3, <1>6, <2>6 DEF CallOK, OwnJob, Done
        <5>4. j # p[1]
          BY <5>1, <5>3, CatalogueAssumption
        <5> QED  BY <3>1, <4>3, <5>2, <5>4 DEF EmployerDoc
      <4>4. CASE db'[e] = [db[e] EXCEPT !.jobs = @ \ {req[p].job}]
        BY <3>1, <4>4 DEF EmployerDoc
      <4> QED  BY <2>4, <3>1, <4>1, <4>2, <4>3, <4>4, EmployerChanges DEF EmployerChange
    <3> QED  BY <3>2, <3>3, ArriveStopsStore, StepIs
  <2> QED  BY <1>4, <1>6, <2>2, <2>3, <2>5, <2>6 DEF PendingFor
<1> QED  BY <1>2, <1>5, <1>6

\* PendingOK is kept, also by the operation that opens a transaction.
LEMMA PendingKept ==
  ASSUME BaseInv, PendingOK, Next
  PROVE  PendingOK'
<1> SUFFICES ASSUME NEW q \in open' PROVE PendingFor(q)'
  BY DEF PendingOK, PendingFor
<1>1. CASE q \in open
  BY <1>1, PendingStays
<1>2. CASE q \notin open
  <2>1. q \in Proc /\ ~Fail(q) /\ (CreatePush(q) \/ DeleteWrite(q))
    BY <1>2, WhichOpens
  <2>2. PICK j, e : j = req[q].job /\ e = req[q].employer
    OBVIOUS
  <2>3. CASE CreatePush(q)
    <3>1. req'[q] = req[q] /\ req[q].op = "create"
      BY <2>1, <2>3, CreatePushDoes DEF Spawns, At
    <3>2. writes'[q] = {e} /\ view'[q][e] = [db'[e] EXCEPT !.jobs = @ \cup {j}]
      BY <2>1, <2>2, <2>3, CreatePushDoes
    <3> QED  BY <2>2, <3>1, <3>2 DEF PendingFor
  <2>4. CASE DeleteWrite(q)
    <3>1. /\ req' = req /\ req[q].op = "delete" /\ j \in Job /\ e \in Employer /\ db' = db
          /\ \A d \in Doc : view'[q][d] = DeletedDoc(db, j, e, d)
          /\ writes'[q] = {d \in Doc : DeletedDoc(db, j, e, d) # db[d]}
      BY <2>1, <2>2, <2>4, DeleteWriteDoes DEF At
    <3>2. j \in Doc /\ e \in Doc /\ StoreOK
      BY <3>1 DEF Doc, BaseInv
    <3>3. \A d \in writes'[q] : view'[q][d] = DeletedDoc(db', j, e, d)
      BY <3>1
    <3>4. writes'[q] \subseteq {j, e} \cup ({j} \X Default)
      BY <3>1, <3>2, DeletedDocIs
    <3>5. j \notin writes'[q] => ~db'[j].there
      BY <3>1, <3>2, DeletedDocIs DEF NoJob
    <3>6. e \notin writes'[q] => j \notin db'[e].jobs
      <4>1. DeletedDoc(db, j, e, e) = [db[e] EXCEPT !.jobs = @ \ {j}] /\ db[e] \in EmployerDoc
        BY <3>1, <3>2, DeletedDocIs, DocTypes
      <4>2. e \notin writes'[q] => [db[e] EXCEPT !.jobs = @ \ {j}] = db[e]
        BY <3>1, <3>2, <4>1
      <4> QED  BY <3>1, <4>1, <4>2 DEF EmployerDoc
    <3>7. req'[q].op = "delete" /\ req'[q].job = j /\ req'[q].employer = e
      BY <2>2, <3>1
    <3> QED  BY <3>3, <3>4, <3>5, <3>6, <3>7 DEF PendingFor
  <2> QED  BY <2>1, <2>3, <2>4
<1> QED  BY <1>1, <1>2

\* ListedOK is kept: a commit adds or removes one entry of the list as it is then.
LEMMA ListedKept ==
  ASSUME BaseInv, PendingOK, ListedOK, Next
  PROVE  ListedOK'
<1> SUFFICES ASSUME NEW r \in Req, Done(<<r, "http">>, "create")', db'[r].there
             PROVE  r \in db'[req'[<<r, "http">>].employer].jobs
  BY DEF ListedOK
<1>1. PICK p : p = <<r, "http">>
  OBVIOUS
<1>2. p \in Proc /\ r \in Job
  BY <1>1 DEF Proc, Job
<1>3. ControlOK /\ CallsOK /\ StoreOK /\ \A q \in Proc : CallKept(q)
  BY StepKeeps DEF BaseInv
<1>4. CASE Done(p, "create")
  <2>1. req'[p] = req[p]
    BY <1>2, <1>3, <1>4, DoneKept
  <2>2. PICK e : e = req[p].employer
    OBVIOUS
  <2>3. e \in Employer
    BY <1>2, <1>3, <1>4, <2>2, Called DEF Done, CallOK
  <2>4. Known(r)
    BY <1>1, <1>4 DEF Known, Done, Announced
  <2>5. CASE db' = db
    BY <1>1, <1>4, <2>1, <2>5 DEF ListedOK
  <2>6. CASE \E q \in Proc : Progress(q) /\ ~Fail(q)
    <3>1. PICK q \in Proc : Progress(q) /\ ~Fail(q)
      BY <2>6
    <3>2. ~(CreateSave(q) /\ r = q[1])
      BY <2>4, <3>1, CreateSaveDoes, NotYetKnown
    <3>3. db[r].there
      BY <1>2, <3>1, <3>2, JobKept
    <3>4. r \in db[e].jobs /\ db[e] \in EmployerDoc
      BY <1>1, <1>3, <1>4, <2>2, <2>3, <3>3, DocTypes DEF ListedOK
    <3>5. CASE ToggleOwn(q) /\ e = Own(q)
               /\ db'[e] = WithFav(e, req[q].employee,
                                   Toggled(db[e].favs[req[q].employee], req[q].has))
      <4>1. /\ req[q].employee \in Employee
            /\ Toggled(db[e].favs[req[q].employee], req[q].has) \in Nat
        BY <3>5, ToggleOwnDoes, TogglePair DEF ToggleOwn
      <4>2. r \in db'[e].jobs
        BY <1>3, <2>3, <3>4, <3>5, <4>1, WithFavIs
      <4> QED  BY <1>1, <2>1, <2>2, <4>2
    <3>6. CASE db'[e] = [db[e] EXCEPT !.jobs = @ \cup {req[q].job}]
      BY <1>1, <2>1, <2>2, <3>4, <3>6 DEF EmployerDoc
    <3>7. CASE Commit(q) /\ req[q].op = "delete"
               /\ db'[e] = [db[e] EXCEPT !.jobs = @ \ {req[q].job}]
      <4>1. req[q].job # r
        BY <3>1, <3>7, CommitPublishes
      <4> QED  BY <1>1, <2>1, <2>2, <3>4, <3>7, <4>1 DEF EmployerDoc
    <3>8. CASE db'[e] = db[e]
      BY <1>1, <2>1, <2>2, <3>4, <3>8
    <3> QED  BY <2>3, <3>1, <3>5, <3>6, <3>7, <3>8, EmployerChanges DEF EmployerChange
  <2> QED  BY <2>5, <2>6, ArriveStopsStore, StepIs
<1>5. CASE ~Done(p, "create")
  <2>1. pc'[p] = "answered" /\ req'[p].op = "create"
    BY <1>1 DEF Done
  <2>2. CASE \E s \in Req : Arrive(s)
    <3>1. PICK s \in Req : Arrive(s)
      BY <2>2
    <3>2. p # <<s, "http">>
      BY <2>1, <3>1, ArriveDoes
    <3> QED  BY <1>2, <1>5, <2>1, <3>1, <3>2, ArriveDoes DEF OthersIdle, Done
  <2>3. CASE \E P \in SUBSET Active : Stops(P)
    <3>1. PICK P \in SUBSET Active : Stops(P)
      BY <2>3
    <3>2. p \notin P
      BY <2>1, <3>1, StopsDoes
    <3> QED  BY <1>2, <1>5, <2>1, <3>1, <3>2, StopsDoes DEF OthersIdle, Done
  <2>4. CASE \E q \in Proc : Progress(q) /\ ~Fail(q)
    <3>1. PICK q \in Proc : Progress(q) /\ ~Fail(q)
      BY <2>4
    <3>2. q = p
      <4> SUFFICES ASSUME q # p PROVE FALSE
        OBVIOUS
      <4> QED  BY <1>2, <1>5, <2>1, <3>1, OthersStay DEF Done
    <3>3. p \in Active /\ Continues(p)
      BY <1>2, <1>3, <3>1, <3>2, ProgressGoes DEF CallKept, Active
    <3>4. req[p].op = "create" /\ pc[p] # "step"
      BY <1>1, <1>3, <2>1, <3>3 DEF Continues, ControlOK
    <3>5. CreateRead(p) \/ CreateSave(p) \/ CreatePush(p) \/ Commit(p)
      BY <3>1, <3>2, <3>4 DEF Progress, CreateStep,
        UpdateJob, UploadImage, SetImage, DeleteRead, DeleteWrite, Invite, InviteMail,
        ToggleRead, ToggleOwn, ToggleFind, ToggleOther, MacroCreate, MacroRead, MacroFind,
        MacroAddSave, MacroDropSave, MacroUpdate, MacroDelete, At, Toggling
    <3>6. Commit(p)
      BY <2>1, <3>1, <3>2, <3>5, CreateReadDoes, CreateSaveDoes, CreatePushDoes DEF Moves, Spawns
    <3>7. PICK e : e = req[p].employer
      OBVIOUS
    <3>8. e \in Employer /\ CallOK(p) /\ req'[p].employer = e
      BY <1>2, <1>3, <3>3, <3>4, <3>6, <3>7, CommitDoes, Called DEF Active, Continues, At
    <3>9. req[p].job = r
      BY <1>1, <3>4, <3>8 DEF CallOK, OwnJob
    <3>10. db'[e] = [db[e] EXCEPT !.jobs = @ \cup {r}]
      BY <1>2, <3>4, <3>6, <3>7, <3>9, CommitPublishes
    <3>11. db[e] \in EmployerDoc
      BY <1>3, <3>8, DocTypes
    <3> QED  BY <1>1, <3>8, <3>10, <3>11 DEF EmployerDoc
  <2> QED  BY <2>2, <2>3, <2>4, StepIs
<1> QED  BY <1>4, <1>5

\* A macro job after each operation on it.
LEMMA MacroFields ==
  ASSUME StoreOK, NEW m \in Macro, NEW j \in Job, NEW list \in [Job -> Nat]
  PROVE  /\ db[m].version \in Nat /\ db[m].jobs \in [Job -> Nat] /\ db[m].there \in BOOLEAN
         /\ MacroPlus(m, j).there = db[m].there
         /\ MacroPlus(m, j).version = db[m].version + 1
         /\ MacroPlus(m, j).jobs = [db[m].jobs EXCEPT ![j] = @ + 1]
         /\ MacroMinus(m, list, j).there = db[m].there
         /\ MacroMinus(m, list, j).version = db[m].version + 1
         /\ MacroMinus(m, list, j).jobs = [list EXCEPT ![j] = 0]
<1>1. db[m] \in MacroDoc
  BY DocTypes
<1>2. PICK x : x = db[m]
  OBVIOUS
<1>3. DOMAIN x = {"there", "jobs", "version"}
  BY <1>1, <1>2 DEF MacroDoc
<1>4. /\ MacroPlus(m, j).there = db[m].there
      /\ MacroPlus(m, j).version = db[m].version + 1
      /\ MacroPlus(m, j).jobs = [db[m].jobs EXCEPT ![j] = @ + 1]
  <2>1. PICK f, n : f = [x.jobs EXCEPT ![j] = @ + 1] /\ n = x.version + 1
    OBVIOUS
  <2>2. MacroPlus(m, j) = [x EXCEPT !.jobs = f, !.version = n]
    BY <1>2, <2>1 DEF MacroPlus
  <2>3. PICK y : y = [x EXCEPT !.jobs = f, !.version = n]
    OBVIOUS
  <2>4. y.there = x.there /\ y.version = n /\ y.jobs = f
    BY <1>3, <2>3
  <2> QED  BY <1>2, <2>1, <2>2, <2>3, <2>4
<1>5. /\ MacroMinus(m, list, j).there = db[m].there
      /\ MacroMinus(m, list, j).version = db[m].version + 1
      /\ MacroMinus(m, list, j).jobs = [list EXCEPT ![j] = 0]
  <2>1. PICK f, n : f = [list EXCEPT ![j] = 0] /\ n = x.version + 1
    OBVIOUS
  <2>2. MacroMinus(m, list, j) = [x EXCEPT !.jobs = f, !.version = n]
    BY <1>2, <2>1 DEF MacroMinus
  <2>3. PICK y : y = [x EXCEPT !.jobs = f, !.version = n]
    OBVIOUS
  <2>4. y.there = x.there /\ y.version = n /\ y.jobs = f
    BY <1>3, <2>3
  <2> QED  BY <1>2, <2>1, <2>2, <2>3, <2>4
<1> QED  BY <1>1, <1>4, <1>5 DEF MacroDoc

\* What happens to macro job m when p goes on.
MacroEffect(p, m) ==
  \/ db'[m] = db[m]
  \/ /\ ~db[m].there /\ db[m].version = 0
     /\ db'[m].there /\ db'[m].version = 0
  \/ /\ At(p, {"macroUpdate"}, "read") /\ req[p].macro = m /\ pc'[p] = "answered"
     /\ db[m].there /\ db'[m].there /\ db'[m].version = db[m].version
     /\ Overwritten(m)'
  \/ /\ db[m].there /\ db'[m].there /\ db'[m].version = db[m].version + 1
     /\ db'[m].jobs = [db[m].jobs EXCEPT ![req[p].job] = @ + 1]
  \/ /\ At(p, {"macroDrop"}, "save") /\ req[p].macro = m /\ pc'[p] = "answered"
     /\ db[m].there /\ db'[m].there /\ db'[m].version = db[m].version + 1
     /\ db[m].version = req[p].next
     /\ db'[m].jobs = [req[p].list EXCEPT ![req[p].job] = 0]
  \/ /\ At(p, {"macroDelete"}, "read") /\ req[p].macro = m /\ pc'[p] = "answered"
     /\ ~db'[m].there /\ db'[m].version = db[m].version + 1 /\ db'[m].jobs = NoFavs(Job)

\* These are all the changes of a macro job, in full.
LEMMA MacroEffects ==
  ASSUME BaseInv, PendingOK, NEW p \in Proc, Progress(p), ~Fail(p), NEW m \in Macro
  PROVE  MacroEffect(p, m)
<1>1. StoreOK
  BY DEF BaseInv
<1>2. CASE db'[m] = db[m]
  BY <1>2 DEF MacroEffect
<1>3. CASE MacroCreate(p) /\ m = req[p].macro
  <2>1. /\ ~db[m].there /\ db[m].version = 0
        /\ \E jobs \in [Job -> Nat] : db'[m] = MacroNew(jobs)
    BY <1>3, MacroCreateDoes DEF Puts
  <2>2. db'[m].there /\ db'[m].version = 0
    BY <2>1 DEF MacroNew
  <2> QED  BY <2>1, <2>2 DEF MacroEffect
<1>4. CASE MacroAddSave(p) /\ m = req[p].macro
  <2>1. PICK j : j = req[p].job
    OBVIOUS
  <2>2. /\ j \in Job /\ (req[p].has => db[m].there)
        /\ db'[m] = IF req[p].has THEN MacroPlus(m, j) ELSE db[m]
    BY <1>4, <2>1, MacroAddSaveDoes DEF Puts
  <2>3. NoFavs(Job) \in [Job -> Nat]
    BY DEF NoFavs
  <2>4. CASE req[p].has
    <3>1. db'[m] = MacroPlus(m, j) /\ db[m].there
      BY <2>2, <2>4
    <3>2. /\ MacroPlus(m, j).there = db[m].there
          /\ MacroPlus(m, j).version = db[m].version + 1
          /\ MacroPlus(m, j).jobs = [db[m].jobs EXCEPT ![j] = @ + 1]
      BY <1>1, <2>2, <2>3, MacroFields
    <3>3. /\ db'[m].there /\ db'[m].version = db[m].version + 1
          /\ db'[m].jobs = [db[m].jobs EXCEPT ![j] = @ + 1]
      BY <3>1, <3>2
    <3> QED  BY <2>1, <3>1, <3>3 DEF MacroEffect
  <2> QED  BY <1>2, <2>2, <2>4
<1>5. CASE MacroDropSave(p) /\ m = req[p].macro
  <2>1. PICK j, list : j = req[p].job /\ list = req[p].list
    OBVIOUS
  <2>2. /\ j \in Job /\ list \in [Job -> Nat] /\ At(p, {"macroDrop"}, "save")
        /\ pc'[p] = "answered"
        /\ list[j] > 0 => db[m].there /\ db[m].version = req[p].next
        /\ db'[m] = IF list[j] > 0 THEN MacroMinus(m, list, j) ELSE db[m]
    BY <1>5, <2>1, MacroDropSaveDoes DEF Puts, Request, Moves
  <2>3. CASE list[j] > 0
    <3>1. db'[m] = MacroMinus(m, list, j) /\ db[m].there /\ db[m].version = req[p].next
      BY <2>2, <2>3
    <3> QED  BY <1>1, <1>5, <2>1, <2>2, <3>1, MacroFields DEF MacroEffect
  <2> QED  BY <1>2, <2>2, <2>3
<1>6. CASE MacroDelete(p) /\ m = req[p].macro
  BY <1>6, MacroDeleteDoes DEF Puts, MacroEffect, NoMacro, Moves
<1>7. CASE MacroUpdate(p) /\ m = req[p].macro
  <2>1. /\ At(p, {"macroUpdate"}, "read") /\ Moves(p, "answered") /\ db[m].there
        /\ req'[p].next = db[m].version
    BY <1>7, MacroUpdateDoes
  <2>2. PICK jobs \in [Job -> Nat] : /\ db'[m] = MacroWithJobs(m, jobs)
                                     /\ jobs # db[m].jobs => req'[p].has
    BY <1>7, MacroUpdateDoes DEF Puts
  <2>3. PICK x : x = db[m]
    OBVIOUS
  <2>4. DOMAIN x = {"there", "jobs", "version"} /\ x \in MacroDoc
    BY <1>1, <2>3, DocTypes DEF MacroDoc
  <2>5. PICK y : y = [x EXCEPT !.jobs = jobs]
    OBVIOUS
  <2>6. y.there = x.there /\ y.version = x.version /\ (jobs = x.jobs => y = x)
    BY <2>4, <2>5 DEF MacroDoc
  <2>7. db'[m] = y
    BY <2>2, <2>3, <2>5 DEF MacroWithJobs
  <2>8. CASE jobs = x.jobs
    BY <1>2, <2>3, <2>6, <2>7, <2>8
  <2>9. CASE jobs # x.jobs
    <3>1. /\ pc'[p] = "answered" /\ req'[p].op = "macroUpdate" /\ req'[p].macro = m
          /\ req'[p].has /\ req'[p].next = db'[m].version
      BY <1>7, <2>1, <2>2, <2>3, <2>6, <2>7, <2>9 DEF Moves, Continues, At
    <3>2. Overwritten(m)'
      BY <3>1 DEF Overwritten, Done
    <3> QED  BY <1>7, <2>1, <2>3, <2>6, <2>7, <3>1, <3>2 DEF MacroEffect
  <2> QED  BY <2>8, <2>9
<1> QED  BY <1>2, <1>3, <1>4, <1>5, <1>6, <1>7, MacroChanges DEF MacroChange

\* An update that replaced the jobs of a version keeps having done so.
LEMMA OverwrittenKept ==
  ASSUME \A q \in Proc : CallKept(q), NEW m, db'[m].version = db[m].version, Overwritten(m)
  PROVE  Overwritten(m)'
<1>1. PICK p \in Proc : /\ Done(p, "macroUpdate") /\ req[p].macro = m
                        /\ req[p].has /\ req[p].next = db[m].version
  BY DEF Overwritten
<1>2. Done(p, "macroUpdate")' /\ req'[p] = req[p]
  BY <1>1, DoneKept
<1> QED  BY <1>1, <1>2 DEF Overwritten

\* MacrosOK is kept: whoever changes a macro job counts its version up, or is an
\* update that is on record.
LEMMA MacrosKept ==
  ASSUME BaseInv, PendingOK, MacrosOK, Next
  PROVE  MacrosOK'
<1>1. StoreOK /\ ControlOK /\ CallsOK /\ StoreOK' /\ \A q \in Proc : CallKept(q)
  BY StepKeeps DEF BaseInv
<1>t. \A m \in Macro : db[m].version \in Nat /\ db[m] \in MacroDoc
  BY <1>1, DocTypes DEF MacroDoc
<1>2. ASSUME NEW m \in Macro, ~db'[m].there PROVE db'[m].jobs = NoFavs(Job)
  <2>1. CASE db' = db
    BY <1>2, <2>1 DEF MacrosOK
  <2>2. CASE \E p \in Proc : Progress(p) /\ ~Fail(p)
    <3>1. PICK p \in Proc : Progress(p) /\ ~Fail(p)
      BY <2>2
    <3>2. MacroEffect(p, m)
      BY <3>1, MacroEffects
    <3> QED  BY <1>2, <3>2 DEF MacroEffect, MacrosOK
  <2> QED  BY <2>1, <2>2, ArriveStopsStore, StepIs
<1>3. ASSUME NEW q \in Proc, At(q, {"macroDrop"}, "save"), pc'[q] = pc[q], req'[q] = req[q]
      PROVE  DropOK(q)'
  <2>1. PICK m : m = req[q].macro
    OBVIOUS
  <2>2. pc[q] = "save" /\ DropOK(q)
    BY <1>3 DEF MacrosOK, At
  <2>3. m \in Macro /\ req[q].next \in Nat /\ db[m].version \in Nat
    BY <1>1, <1>t, <2>1, <2>2, Called DEF Request
  <2>4. \/ db[m].version > req[q].next
        \/ /\ db[m].version = req[q].next /\ db[m].there
           /\ db[m].jobs = req[q].list \/ Overwritten(m)
    BY <2>1, <2>2 DEF DropOK
  <2>a. CASE db'[m] = db[m]
    <3>1. Overwritten(m) => Overwritten(m)'
      BY <1>1, <2>a, OverwrittenKept
    <3> QED  BY <1>3, <2>1, <2>4, <2>a, <3>1 DEF DropOK
  <2>5. CASE db' = db
    BY <2>a, <2>5
  <2>6. CASE \E p \in Proc : Progress(p) /\ ~Fail(p)
    <3>1. PICK p \in Proc : Progress(p) /\ ~Fail(p)
      BY <2>6
    <3>2. MacroEffect(p, m)
      BY <2>3, <3>1, MacroEffects
    <3>3. CASE db'[m] = db[m]
      BY <2>a, <3>3
    <3>4. CASE ~db[m].there /\ db[m].version = 0
      BY <2>3, <2>4, <3>4
    <3>5. CASE db'[m].version = db[m].version + 1
      <4>1. db'[m].version > req[q].next
        BY <2>3, <2>4, <3>5
      <4> QED  BY <1>3, <2>1, <4>1 DEF DropOK
    <3>6. CASE db'[m].there /\ db'[m].version = db[m].version /\ Overwritten(m)'
      BY <1>3, <2>1, <2>4, <3>6 DEF DropOK
    <3> QED  BY <3>2, <3>3, <3>4, <3>5, <3>6 DEF MacroEffect
  <2> QED  BY <2>5, <2>6, ArriveStopsStore, StepIs
<1>4. ASSUME NEW q \in Proc, At(q, {"macroDrop"}, "save")' PROVE DropOK(q)'
  <2>1. pc'[q] = "save" /\ req'[q].op = "macroDrop"
    BY <1>4 DEF At
  <2>2. CASE pc'[q] = pc[q] /\ req'[q] = req[q]
    BY <1>3, <2>1, <2>2 DEF At
  <2>3. CASE \E r \in Req : Arrive(r)
    <3>1. PICK r \in Req : Arrive(r)
      BY <2>3
    <3>2. q # <<r, "http">>
      BY <2>1, <3>1, ArriveDoes
    <3> QED  BY <2>2, <3>1, <3>2, ArriveDoes DEF OthersIdle
  <2>4. CASE \E P \in SUBSET Active : Stops(P)
    <3>1. PICK P \in SUBSET Active : Stops(P)
      BY <2>4
    <3>2. q \notin P
      BY <2>1, <3>1, StopsDoes
    <3> QED  BY <2>2, <3>1, <3>2, StopsDoes DEF OthersIdle
  <2>5. CASE \E p \in Proc : Progress(p) /\ ~Fail(p)
    <3>1. PICK p \in Proc : Progress(p) /\ ~Fail(p)
      BY <2>5
    <3>2. CASE q # p
      BY <2>1, <2>2, <3>1, <3>2, OthersStay
    <3>3. CASE q = p
      <4>1. CreateRead(p) \/ UploadImage(p) \/ MacroRead(p) \/ MacroFind(p)
        BY <2>1, <3>1, <3>3, ToSave
      <4>2. CASE CreateRead(p) \/ UploadImage(p) \/ MacroFind(p)
        <5>1. req[p].op \in {"create", "image", "macroAdd"} /\ Continues(p)
          BY <3>1, <4>2, CreateReadDoes, UploadImageDoes, MacroFindDoes DEF At, Moves
        <5> QED  BY <2>1, <3>3, <5>1 DEF Continues
      <4>3. CASE MacroRead(p)
        <5>1. PICK m : m = req[p].macro
          OBVIOUS
        <5>2. /\ m \in Macro /\ db[m].there /\ req'[p].macro = m
              /\ req'[p].list = db[m].jobs /\ req'[p].next = db[m].version
              /\ db' = db
          BY <3>1, <4>3, <5>1, MacroReadDoes DEF Moves, Continues, Quiet
        <5> QED  BY <3>3, <5>2 DEF DropOK
      <4> QED  BY <4>1, <4>2, <4>3
    <3> QED  BY <3>2, <3>3
  <2> QED  BY <2>3, <2>4, <2>5, StepIs
<1> QED  BY <1>2, <1>4 DEF MacrosOK

\* MacroAddKept for one step.
LEMMA MacroAddStep ==
  ASSUME BaseInv, PendingOK, MacrosOK, Next, NEW m \in Macro, NEW j \in Job,
         db[m].jobs[j] > 0, db'[m].jobs[j] = 0
  PROVE  \E p \in Proc : /\ pc[p] # "answered" /\ pc'[p] = "answered"
                         /\ req[p].macro = m
                         /\ \/ /\ req[p].op = "macroDrop"
                               /\ req[p].job = j \/ Overwritten(m)
                            \/ req[p].op \in {"macroUpdate", "macroDelete"}
<1>1. StoreOK /\ ControlOK /\ CallsOK /\ db[m] \in MacroDoc
  BY DocTypes DEF BaseInv
<1>2. db[m].jobs \in [Job -> Nat] /\ db[m].version \in Nat /\ db[m].jobs[j] \in Nat
  BY <1>1 DEF MacroDoc
<1>3. db'[m] # db[m]
  BY <1>2
<1>4. PICK p \in Proc : Progress(p) /\ ~Fail(p)
  BY <1>3, ArriveStopsStore, StepIs
<1>5. MacroEffect(p, m)
  BY <1>4, MacroEffects
<1>6. CASE ~db[m].there
  BY <1>2, <1>6 DEF MacrosOK, NoFavs
<1>7. CASE db'[m].jobs = [db[m].jobs EXCEPT ![req[p].job] = @ + 1]
  <2>1. CASE req[p].job = j
    BY <1>2, <1>7, <2>1
  <2>2. CASE req[p].job # j
    BY <1>2, <1>7, <2>2
  <2> QED  BY <2>1, <2>2
<1>8. CASE /\ At(p, {"macroDrop"}, "save") /\ req[p].macro = m /\ pc'[p] = "answered"
           /\ db[m].version = req[p].next
           /\ db'[m].jobs = [req[p].list EXCEPT ![req[p].job] = 0]
  <2>1. pc[p] = "save" /\ req[p].op = "macroDrop" /\ DropOK(p)
    BY <1>8 DEF At, MacrosOK
  <2>2. req[p].list = db[m].jobs \/ Overwritten(m)
    BY <1>2, <1>8, <2>1 DEF DropOK
  <2>3. req[p].job = j \/ Overwritten(m)
    <3> SUFFICES ASSUME req[p].job # j, ~Overwritten(m) PROVE FALSE
      OBVIOUS
    <3> QED  BY <1>2, <1>8, <2>2
  <2> QED  BY <1>8, <2>1, <2>3
<1>9. CASE At(p, {"macroDelete"}, "read") /\ req[p].macro = m /\ pc'[p] = "answered"
  BY <1>9 DEF At
<1>10. CASE At(p, {"macroUpdate"}, "read") /\ req[p].macro = m /\ pc'[p] = "answered"
  BY <1>10 DEF At
<1> QED  BY <1>3, <1>5, <1>6, <1>7, <1>8, <1>9, <1>10 DEF MacroEffect

\* The operations of a toggle.
LEMMA ToggleWhich ==
  ASSUME BaseInv, NEW p \in Proc, Progress(p), Toggling(p)
  PROVE  ToggleRead(p) \/ ToggleOwn(p) \/ ToggleFind(p) \/ ToggleOther(p)
<1>1. ~Commit(p)
  BY DEF Commit, BaseInv, ControlOK, Toggling
<1> QED  BY <1>1 DEF Progress, CreateRead, CreateSave, CreatePush, CreateStep, UpdateJob,
      UploadImage, SetImage, DeleteRead, DeleteWrite, Invite, InviteMail, MacroCreate,
      MacroRead, MacroFind, MacroAddSave, MacroDropSave, MacroUpdate, MacroDelete, At, Toggling

\* What a toggle of the favourite <<d, c>> is about.
LEMMA AboutIs ==
  ASSUME BaseInv, NEW d, NEW c, NEW p \in About(d, c)
  PROVE  /\ p \in Proc /\ p \in Active /\ Toggling(p) /\ Own(p) = d /\ req[p].employee = c
         /\ pc[p] \in {"read", "own", "find", "other"}
<1>1. p \in Toggles /\ Pair(p) = <<d, c>> /\ p \in Active /\ p \in Proc /\ Toggling(p)
  BY DEF About, Toggles, Active
<1>2. pc[p] \notin {"idle", "answered", "failed"} /\ pc[p] \in {"read", "own", "find", "other"}
  BY <1>1 DEF Active, BaseInv, ControlOK
<1>3. Pair(p) = <<Own(p), req[p].employee>>
  BY <1>1, <1>2, TogglePair
<1> QED  BY <1>1, <1>2, <1>3

\* A toggle that was under way before and goes on, or began.
LEMMA AboutStays ==
  ASSUME BaseInv, NEW d, NEW c, NEW q \in About(d, c)', pc[q] # "idle",
         ControlOK', CallKept(q)
  PROVE  q \in About(d, c)
<1>1. /\ q \in Proc /\ pc'[q] \notin {"idle", "answered", "failed"}
      /\ req'[q].op \in {"favJob", "favEmployee"}
      /\ Pair(q)' = <<d, c>>
  BY DEF About, Toggles, Active, Toggling
<1>2. Continues(q) /\ ~Finished(q)
  BY <1>1 DEF CallKept, Finished
<1>3. req[q].op \in {"favJob", "favEmployee"} /\ ~At(q, {"delete"}, "read")
  BY <1>1, <1>2 DEF Continues, At
<1>4. /\ req'[q].op = req[q].op /\ req'[q].job = req[q].job
      /\ req'[q].employer = req[q].employer /\ req'[q].employee = req[q].employee
  BY <1>2, <1>3 DEF Continues
<1>5. Pair(q)' = Pair(q)
  BY <1>4 DEF Pair
<1>6. q \in Toggles
  BY <1>1, <1>2, <1>3 DEF Toggles, Active, Toggling, Finished
<1> QED  BY <1>1, <1>5, <1>6 DEF About

\* PairOK carries over where the counters and the toggles are the same.
LEMMA PairSame ==
  ASSUME NEW d, NEW c, PairOK(d, c),
         db'[d].favs[c] = db[d].favs[c], db'[c].favs[d] = db[c].favs[d],
         About(d, c)' = About(d, c),
         \A q \in About(d, c) : pc'[q] = pc[q] /\ req'[q] = req[q]
  PROVE  PairOK(d, c)'
BY DEF PairOK

\* A toggle that begins is the only one of its favourite, or makes it ambiguous.
LEMMA ArriveFavourite ==
  ASSUME BaseInv, NEW r \in Req, Arrive(r), NEW d \in Job \cup Employer, NEW c \in Employee,
         PairOK(d, c), <<d, c>> \notin mixed'
  PROVE  PairOK(d, c)'
<1>1. PICK p : p = <<r, "http">>
  OBVIOUS
<1>2. p \in Proc /\ pc[p] = "idle" /\ pc'[p] = "read" /\ OthersIdle({p}) /\ db' = db
  BY <1>1, ArriveDoes DEF Quiet
<1>3. ControlOK' /\ \A q \in Proc : CallKept(q)
  BY ArriveKeeps
<1>4. p \notin About(d, c)
  BY <1>2 DEF About, Toggles, Active
<1>5. \A q \in About(d, c) : pc'[q] = pc[q] /\ req'[q] = req[q]
  BY <1>2, <1>4, AboutIs DEF OthersIdle
<1>6. ASSUME NEW q \in About(d, c) PROVE q \in About(d, c)'
  <2>1. /\ q \in Proc /\ q \in Toggles /\ Pair(q) = <<d, c>>
        /\ pc'[q] = pc[q] /\ req'[q] = req[q]
    BY <1>5, <1>6, AboutIs DEF About
  <2> QED  BY <2>1 DEF About, Toggles, Active, Toggling, Pair
<1>7. ASSUME NEW q \in About(d, c)', q # p PROVE q \in About(d, c)
  <2>1. q \in Proc /\ pc'[q] # "idle"
    BY DEF About, Toggles, Active
  <2>2. pc[q] # "idle"
    BY <1>2, <1>7, <2>1 DEF OthersIdle
  <2> QED  BY <1>3, <2>1, <2>2, AboutStays
<1>8. CASE p \notin About(d, c)'
  <2>1. About(d, c)' = About(d, c)
    BY <1>6, <1>7, <1>8
  <2> QED  BY <1>2, <1>5, <2>1, PairSame
<1>9. CASE p \in About(d, c)'
  <2>1. About(d, c) = {}
    <3> SUFFICES ASSUME NEW q \in About(d, c) PROVE FALSE
      OBVIOUS
    <3>1. p \in Toggles' /\ Pair(p)' = <<d, c>> /\ q \in Toggles /\ Pair(q) = <<d, c>>
      BY <1>9 DEF About
    <3>2. mixed' = mixed \cup ({Pair(p)' : t \in {p} \cap Toggles'}
                                 \cap {Pair(t) : t \in Toggles})
      BY <1>1, ArriveDoes
    <3>3. <<d, c>> \in {Pair(t) : t \in Toggles}
      BY <3>1
    <3>4. <<d, c>> \in {Pair(p)' : t \in {p} \cap Toggles'}
      BY <3>1
    <3> QED  BY <3>2, <3>3, <3>4
  <2>2. About(d, c)' = {p}
    BY <1>7, <1>9, <2>1
  <2>3. db[c].favs[d] <= 1 /\ db[d].favs[c] = db[c].favs[d]
    BY <2>1 DEF PairOK
  <2> QED  BY <1>2, <2>2, <2>3 DEF PairOK
<1> QED  BY <1>8, <1>9

\* A toggle that stops has not written yet, or makes its favourite ambiguous.
LEMMA StopsFavourite ==
  ASSUME BaseInv, NEW P, Stops(P), NEW d \in Job \cup Employer, NEW c \in Employee,
         PairOK(d, c), <<d, c>> \notin mixed'
  PROVE  PairOK(d, c)'
<1>1. /\ P \in SUBSET Active /\ OthersIdle(P) /\ db' = db
      /\ \A q \in P : pc'[q] = "failed"
  BY StopsDoes
<1>2. ControlOK' /\ \A q \in Proc : CallKept(q)
  BY StopsKeeps
<1>3. \A q \in About(d, c) \ P : pc'[q] = pc[q] /\ req'[q] = req[q]
  BY <1>1, AboutIs DEF OthersIdle
<1>4. ASSUME NEW q \in About(d, c) \ P PROVE q \in About(d, c)'
  <2>1. /\ q \in Proc /\ q \in Toggles /\ Pair(q) = <<d, c>>
        /\ pc'[q] = pc[q] /\ req'[q] = req[q]
    BY <1>3, <1>4, AboutIs DEF About
  <2> QED  BY <2>1 DEF About, Toggles, Active, Toggling, Pair
<1>5. ASSUME NEW q \in About(d, c)' PROVE q \in About(d, c) \ P
  <2>1. q \in Proc /\ pc'[q] \notin {"idle", "failed"}
    BY DEF About, Toggles, Active
  <2>2. q \notin P
    BY <1>1, <2>1
  <2>3. pc[q] # "idle"
    BY <1>1, <2>1, <2>2 DEF OthersIdle
  <2> QED  BY <1>2, <2>1, <2>2, <2>3, AboutStays
<1>6. About(d, c)' = About(d, c) \ P
  BY <1>4, <1>5
<1>7. CASE About(d, c) \cap P = {}
  <2>1. About(d, c)' = About(d, c) /\ \A q \in About(d, c) : pc'[q] = pc[q] /\ req'[q] = req[q]
    BY <1>3, <1>6, <1>7
  <2> QED  BY <1>1, <2>1, PairSame
<1>8. CASE About(d, c) \cap P # {}
  <2>1. PICK q \in About(d, c) : q \in P
    BY <1>8
  <2>2. About(d, c) = {q}
    BY <2>1 DEF PairOK
  <2>3. pc[q] \in {"read", "own"}
    <3> SUFFICES ASSUME pc[q] \in {"find", "other"} PROVE FALSE
      BY <2>1, AboutIs
    <3>1. q \in Toggles /\ Pair(q) = <<d, c>>
      BY <2>1 DEF About
    <3>2. q \in HalfDone(P)
      BY <2>1, <3>1 DEF HalfDone
    <3> QED  BY <3>1, <3>2 DEF Stops
  <2>4. db[d].favs[c] = db[c].favs[d] /\ db[c].favs[d] <= 1
    BY <2>2, <2>3 DEF PairOK
  <2>5. About(d, c)' = {}
    BY <1>6, <2>1, <2>2
  <2> QED  BY <1>1, <2>4, <2>5 DEF PairOK
<1> QED  BY <1>7, <1>8

\* What p does leaves the toggles of the other processes as they are.
LEMMA AboutOthers ==
  ASSUME BaseInv, NEW p \in Proc, Progress(p), ~Fail(p), NEW d, NEW c,
         NEW q \in Proc, q # p
  PROVE  /\ q \in About(d, c)' <=> q \in About(d, c)
         /\ q \in About(d, c) => pc'[q] = pc[q] /\ req'[q] = req[q]
<1>1. ControlOK' /\ \A s \in Proc : CallKept(s)
  BY ProgressKeeps
<1>2. CASE pc'[q] = pc[q] /\ req'[q] = req[q]
  BY <1>2 DEF About, Toggles, Active, Toggling, Pair
<1>3. CASE pc[q] = "idle" /\ pc'[q] \in {"step", "mail"}
  <2>1. q \notin About(d, c)
    BY <1>3 DEF About, Toggles, Active
  <2>2. q \notin Toggles'
    BY <1>1, <1>3 DEF ControlOK
  <2> QED  BY <2>1, <2>2 DEF About
<1> QED  BY <1>2, <1>3, OthersStay

\* A job that is stored just now is nobody's favourite yet.
LEMMA NewFavourite ==
  ASSUME BaseInv, PendingOK, NEW p \in Proc, CreateSave(p), Progress(p), ~Fail(p),
         NEW d \in Job, NEW c \in Employee, d = p[1], db'[d] = NewJob(p)
  PROVE  PairOK(d, c)'
<1>1. /\ At(p, {"create"}, "save") /\ Continues(p) /\ ~Known(d)
      /\ ControlOK /\ CallsOK
  BY CreateSaveDoes, NotYetKnown DEF Moves, BaseInv
<1>2. db'[d].favs[c] = 0
  BY DEF NewJob, NoFavs
<1>3. db[c].favs[d] = 0
  BY <1>1 DEF BaseInv, UnknownOK
<1>4. db'[c] = db[c]
  BY <1>1, EmployeeChanges DEF EmployeeChange, ToggleOther, At
<1>5. ASSUME NEW q \in About(d, c)' PROVE FALSE
  <2>1. q \in Proc /\ req'[q].op \in {"favJob", "favEmployee"}
    BY DEF About, Toggles, Active, Toggling
  <2>2. q # p
    BY <1>1, <2>1 DEF At, Continues
  <2>3. q \in About(d, c)
    BY <2>1, <2>2, AboutOthers
  <2>4. Own(q) = d /\ pc[q] # "idle" /\ Toggling(q)
    BY <2>3, AboutIs
  <2>5. CallOK(q)
    BY <1>1, <2>1, <2>4, Called
  <2>6. CASE req[q].op = "favJob"
    BY <1>1, <2>4, <2>5, <2>6 DEF CallOK, OwnJob, Own, Pair
  <2>7. CASE req[q].op = "favEmployee"
    BY <2>4, <2>5, <2>7, CatalogueAssumption DEF CallOK, Own, Pair
  <2> QED  BY <2>4, <2>6, <2>7 DEF Toggling
<1> QED  BY <1>2, <1>3, <1>4, <1>5 DEF PairOK

\* Only a toggle of the favourite changes its two sides.
LEMMA CountersStay ==
  ASSUME BaseInv, PendingOK, NEW p \in Proc, Progress(p), ~Fail(p),
         NEW d \in Job \cup Employer, NEW c \in Employee, p \notin About(d, c),
         d \in Job => db[d].there /\ db'[d].there
  PROVE  db'[d].favs[c] = db[d].favs[c] /\ db'[c].favs[d] = db[c].favs[d]
<1>1. StoreOK
  BY DEF BaseInv
<1>2. \A y \in {"own", "other"} : pc[p] = y /\ Toggling(p) =>
        /\ <<Own(p), req[p].employee>> # <<d, c>>
        /\ Own(p) \in Job \cup Employer /\ req[p].employee \in Employee
  BY TogglePair DEF About
<1>3. db'[c].favs[d] = db[c].favs[d]
  <2>1. CASE ToggleOther(p) /\ c = req[p].employee
             /\ db'[c] = WithFav(c, Own(p), Toggled(db[c].favs[Own(p)], req[p].has))
    <3>1. Own(p) \in Job \cup Employer /\ Own(p) # d
          /\ Toggled(db[c].favs[Own(p)], req[p].has) \in Nat
      BY <1>2, <2>1, ToggleOtherDoes
    <3> QED  BY <1>1, <2>1, <3>1, WithFavIs
  <2> QED  BY <2>1, EmployeeChanges DEF EmployeeChange
<1>4. CASE ToggleOwn(p) /\ d = Own(p)
           /\ db'[d] = WithFav(d, req[p].employee,
                               Toggled(db[d].favs[req[p].employee], req[p].has))
  <2>1. /\ req[p].employee \in Employee /\ req[p].employee # c
        /\ Toggled(db[d].favs[req[p].employee], req[p].has) \in Nat
    BY <1>2, <1>4, ToggleOwnDoes
  <2>2. db'[d].favs[c] = db[d].favs[c]
    BY <1>1, <1>4, <2>1, WithFavIs
  <2> QED  BY <1>3, <2>2
<1>5. CASE d \in Job
  <2>1. db[d] \in JobDoc
    BY <1>1, <1>5, DocTypes
  <2>2. ~(CreateSave(p) /\ d = p[1])
    <3> SUFFICES ASSUME CreateSave(p), d = p[1] PROVE FALSE
      OBVIOUS
    <3>1. ~Known(d)
      BY CreateSaveDoes, NotYetKnown
    <3> QED  BY <1>5, <3>1 DEF BaseInv, UnknownOK
  <2>3. ~(db'[d] = NoJob)
    BY <1>5 DEF NoJob
  <2>4. CASE \/ db'[d] = db[d]
             \/ db'[d] = [db[d] EXCEPT !.employer = req[p].employer]
             \/ db'[d] = [db[d] EXCEPT !.image = p[1]]
    <3>1. db'[d].favs = db[d].favs
      BY <2>1, <2>4 DEF JobDoc
    <3> QED  BY <1>3, <3>1
  <2> QED  BY <1>4, <1>5, <2>2, <2>3, <2>4, JobChanges DEF JobChange
<1>6. CASE d \in Employer
  <2>1. db[d] \in EmployerDoc
    BY <1>1, <1>6, DocTypes
  <2>2. CASE \/ db'[d] = db[d]
             \/ db'[d] = [db[d] EXCEPT !.jobs = @ \cup {req[p].job}]
             \/ db'[d] = [db[d] EXCEPT !.jobs = @ \ {req[p].job}]
    <3>1. db'[d].favs = db[d].favs
      BY <2>1, <2>2 DEF EmployerDoc
    <3> QED  BY <1>3, <3>1
  <2> QED  BY <1>4, <1>6, <2>2, EmployerChanges DEF EmployerChange
<1> QED  BY <1>5, <1>6

\* The toggle of a favourite goes on.
LEMMA ToggleFavourite ==
  ASSUME BaseInv, NEW p \in Proc, Progress(p), ~Fail(p),
         NEW d \in Stored(db) \cup Employer, NEW c \in Employee, p \in About(d, c),
         PairOK(d, c)
  PROVE  PairOK(d, c)'
<1>1. PICK n, m : n = db[c].favs[d] /\ m = db[d].favs[c]
  OBVIOUS
<1>2. /\ Toggling(p) /\ Own(p) = d /\ req[p].employee = c /\ StoreOK
      /\ ControlOK' /\ \A q \in Proc : CallKept(q)
  BY AboutIs, ProgressKeeps DEF BaseInv
<1>3. d \in Job \cup Employer /\ (d \in Job => db[d].there) /\ d \in Doc /\ c \in Doc /\ c # d
  BY CatalogueAssumption DEF Stored, Doc
<1>4. n \in Nat /\ m \in Nat /\ n <= 1
  BY <1>1, <1>2, <1>3, FavsTypes DEF PairOK
<1>5. About(d, c) = {p}
  BY DEF PairOK
<1>6. About(d, c)' \subseteq {p}
  <2> SUFFICES ASSUME NEW q \in About(d, c)', q # p PROVE FALSE
    OBVIOUS
  <2>1. q \in Proc
    BY DEF About, Toggles, Active
  <2> QED  BY <1>5, <2>1, AboutOthers
<1>a. ASSUME Continues(p), pc'[p] \in {"find", "other"} PROVE p \in About(d, c)'
  <2>1. req[p].op \in {"favJob", "favEmployee"} /\ ~At(p, {"delete"}, "read")
        /\ Pair(p) = <<d, c>>
    BY <1>2 DEF Toggling, At, About
  <2>2. Pair(p)' = Pair(p) /\ Toggling(p)'
    BY <1>a, <2>1 DEF Pair, Continues, Toggling
  <2> QED  BY <1>a, <2>1, <2>2 DEF About, Toggles, Active
<1>7. CASE ToggleRead(p)
  <2>1. /\ pc[p] = "read" /\ pc'[p] = "own" /\ (req'[p].has <=> m > 0)
        /\ db'[d] = db[d] /\ db'[c] = db[c]
    BY <1>1, <1>2, <1>3, <1>7, ToggleReadDoes DEF Moves, Quiet
  <2>2. m = n
    BY <1>1, <1>5, <2>1 DEF PairOK
  <2> QED  BY <1>1, <1>4, <1>6, <2>1, <2>2 DEF PairOK
<1>8. CASE ToggleOwn(p)
  <2>1. /\ pc[p] = "own" /\ pc'[p] = "find" /\ Continues(p) /\ Toggled(m, req[p].has) \in Nat
        /\ db'[d] = WithFav(d, c, Toggled(m, req[p].has)) /\ db'[c] = db[c]
    BY <1>1, <1>2, <1>3, <1>8, ToggleOwnDoes DEF Moves, Puts
  <2>2. db'[d].favs[c] = Toggled(m, req[p].has)
    BY <1>2, <1>3, <2>1, WithFavIs
  <2>3. m = n /\ (req[p].has <=> n > 0)
    BY <1>1, <1>5, <2>1 DEF PairOK
  <2>4. Toggled(m, req[p].has) = Turned(n)
    BY <1>4, <2>3 DEF Toggled, Turned
  <2>5. p \in About(d, c)'
    BY <1>a, <2>1
  <2> QED  BY <1>1, <1>4, <1>6, <2>1, <2>2, <2>4, <2>5 DEF PairOK
<1>9. CASE ToggleFind(p)
  <2>1. /\ pc[p] = "find" /\ pc'[p] = "other" /\ Continues(p) /\ db'[d] = db[d] /\ db'[c] = db[c]
        /\ req'[p].has <=> n > 0
    BY <1>1, <1>2, <1>3, <1>9, ToggleFindDoes DEF Moves, Quiet
  <2>2. m = Turned(n)
    BY <1>1, <1>5, <2>1 DEF PairOK
  <2>3. p \in About(d, c)'
    BY <1>a, <2>1
  <2> QED  BY <1>1, <1>4, <1>6, <2>1, <2>2, <2>3 DEF PairOK
<1>10. CASE ToggleOther(p)
  <2>1. /\ pc[p] = "other" /\ pc'[p] = "answered" /\ Toggled(n, req[p].has) \in Nat
        /\ db'[c] = WithFav(c, d, Toggled(n, req[p].has)) /\ db'[d] = db[d]
    BY <1>1, <1>2, <1>3, <1>10, ToggleOtherDoes DEF Moves, Puts
  <2>2. db'[c].favs[d] = Toggled(n, req[p].has)
    BY <1>2, <1>3, <2>1, WithFavIs
  <2>3. m = Turned(n) /\ (req[p].has <=> n > 0)
    BY <1>1, <1>5, <2>1 DEF PairOK
  <2>4. Toggled(n, req[p].has) = Turned(n) /\ Turned(n) <= 1
    BY <1>4, <2>3 DEF Toggled, Turned
  <2>5. About(d, c)' = {}
    BY <1>6, <2>1 DEF About, Toggles, Active
  <2> QED  BY <1>1, <2>1, <2>2, <2>3, <2>4, <2>5 DEF PairOK
<1> QED  BY <1>2, <1>7, <1>8, <1>9, <1>10, ToggleWhich

\* FavouritesOK is kept.
LEMMA FavouritesKept ==
  ASSUME BaseInv, PendingOK, FavouritesOK, Next
  PROVE  FavouritesOK'
<1> SUFFICES ASSUME NEW d \in Stored(db)' \cup Employer, NEW c \in Employee,
                    <<d, c>> \notin mixed'
             PROVE  PairOK(d, c)'
  BY DEF FavouritesOK
<1>1. d \in Job \cup Employer /\ (d \in Job => db'[d].there)
  BY CatalogueAssumption DEF Stored
<1>2. CASE \E r \in Req : Arrive(r)
  <2>1. PICK r \in Req : Arrive(r)
    BY <1>2
  <2>2. db' = db /\ mixed \subseteq mixed'
    BY <2>1, ArriveStopsStore, ArriveDoes
  <2>3. PairOK(d, c)
    BY <2>2 DEF FavouritesOK, Stored
  <2> QED  BY <1>1, <2>1, <2>3, ArriveFavourite
<1>3. CASE \E P \in SUBSET Active : Stops(P)
  <2>1. PICK P \in SUBSET Active : Stops(P)
    BY <1>3
  <2>2. db' = db /\ mixed \subseteq mixed'
    BY <2>1, ArriveStopsStore DEF Stops
  <2>3. PairOK(d, c)
    BY <2>2 DEF FavouritesOK, Stored
  <2> QED  BY <1>1, <2>1, <2>3, StopsFavourite
<1>4. CASE \E p \in Proc : Progress(p) /\ ~Fail(p)
  <2>1. PICK p \in Proc : Progress(p) /\ ~Fail(p)
    BY <1>4
  <2>2. mixed' = mixed
    BY <2>1, MixedKept
  <2>3. CASE d \in Job /\ CreateSave(p) /\ d = p[1] /\ db'[d] = NewJob(p)
    BY <2>1, <2>3, NewFavourite
  <2>4. CASE d \in Job => db[d].there
    <3>1. d \in Stored(db) \cup Employer
      BY <1>1, <2>4 DEF Stored
    <3>2. PairOK(d, c)
      BY <2>2, <3>1 DEF FavouritesOK
    <3>3. CASE p \in About(d, c)
      BY <2>1, <3>1, <3>2, <3>3, ToggleFavourite
    <3>4. CASE p \notin About(d, c)
      <4>1. db'[d].favs[c] = db[d].favs[c] /\ db'[c].favs[d] = db[c].favs[d]
        BY <1>1, <2>1, <2>4, <3>4, CountersStay
      <4>2. p \notin About(d, c)'
        <5> SUFFICES ASSUME p \in About(d, c)' PROVE FALSE
          OBVIOUS
        <5>1. pc[p] # "idle" /\ ControlOK' /\ CallKept(p)
          BY <2>1, ProgressGoes, ProgressKeeps DEF Active
        <5> QED  BY <2>1, <3>4, <5>1, AboutStays
      <4>3. About(d, c) \subseteq Proc /\ About(d, c)' \subseteq Proc
        BY DEF About, Toggles, Active
      <4>4. About(d, c)' = About(d, c)
        BY <2>1, <3>4, <4>2, <4>3, AboutOthers
      <4>5. \A q \in About(d, c) : pc'[q] = pc[q] /\ req'[q] = req[q]
        BY <2>1, <3>4, <4>3, AboutOthers
      <4> QED  BY <3>2, <4>1, <4>4, <4>5, PairSame
    <3> QED  BY <3>3, <3>4
  <2> QED  BY <1>1, <2>1, <2>3, <2>4, JobKept
<1> QED  BY <1>2, <1>3, <1>4, StepIs

\* An update that was answered stays so.
LEMMA MovedKept ==
  ASSUME BaseInv, Next, NEW j, Moved(j)
  PROVE  Moved(j)'
<1>1. PICK p \in Proc : Done(p, "update") /\ req[p].job = j
  BY DEF Moved
<1>2. Done(p, "update")' /\ req'[p] = req[p]
  BY <1>1, StepKeeps, DoneKept
<1> QED  BY <1>1, <1>2 DEF Moved

\* Only the commit of its creation lists a job.
LEMMA JobListed ==
  ASSUME BaseInv, PendingOK, NEW p \in Proc, Progress(p), ~Fail(p),
         NEW e \in Employer, NEW j \in Job, j \in db'[e].jobs
  PROVE  \/ j \in db[e].jobs
         \/ /\ Commit(p) /\ req[p].op = "create" /\ e = req[p].employer
            /\ j = req[p].job /\ j = p[1] /\ p = <<j, "http">> /\ j \in Req
<1>1. StoreOK /\ ControlOK /\ CallsOK /\ db[e] \in EmployerDoc
  BY DocTypes DEF BaseInv
<1>2. CASE db'[e] = db[e]
  BY <1>2
<1>3. CASE ToggleOwn(p) /\ e = Own(p)
           /\ db'[e] = WithFav(e, req[p].employee,
                               Toggled(db[e].favs[req[p].employee], req[p].has))
  <2>1. /\ req[p].employee \in Employee
        /\ Toggled(db[e].favs[req[p].employee], req[p].has) \in Nat
    BY <1>3, ToggleOwnDoes, TogglePair DEF ToggleOwn
  <2> QED  BY <1>1, <1>3, <2>1, WithFavIs
<1>4. CASE Commit(p) /\ req[p].op = "create" /\ e = req[p].employer
           /\ db'[e] = [db[e] EXCEPT !.jobs = @ \cup {req[p].job}]
  <2>1. pc[p] = "commit" /\ p = <<p[1], "http">> /\ p[1] \in Req /\ CallOK(p)
    BY <1>1, <1>4, CommitDoes, AtOperation
  <2>2. req[p].job = p[1]
    BY <1>4, <2>1 DEF CallOK, OwnJob
  <2>3. j \in db[e].jobs \/ j = req[p].job
    BY <1>1, <1>4 DEF EmployerDoc
  <2> QED  BY <1>4, <2>1, <2>2, <2>3
<1>5. CASE db'[e] = [db[e] EXCEPT !.jobs = @ \ {req[p].job}]
  BY <1>1, <1>5 DEF EmployerDoc
<1> QED  BY <1>2, <1>3, <1>4, <1>5, EmployerChanges DEF EmployerChange

\* Which operations come to list or to delete a job.
LEMMA ToList ==
  ASSUME BaseInv, NEW p \in Proc, Progress(p), ~Fail(p), pc'[p] \in {"push", "write", "commit"}
  PROVE  CreateSave(p) \/ CreatePush(p) \/ DeleteRead(p) \/ DeleteWrite(p)
<1>1. ~CreateRead(p) /\ ~CreateStep(p) /\ ~UpdateJob(p) /\ ~UploadImage(p) /\ ~SetImage(p)
  BY CreateReadDoes, CreateStepDoes, UpdateJobDoes, UploadImageDoes, SetImageDoes DEF Moves
<1>2. ~Invite(p) /\ ~InviteMail(p)
  BY InviteDoes, InviteMailDoes DEF Moves, Spawns
<1>3. ~ToggleRead(p) /\ ~ToggleOwn(p) /\ ~ToggleFind(p) /\ ~ToggleOther(p)
  BY ToggleReadDoes, ToggleOwnDoes, ToggleFindDoes, ToggleOtherDoes DEF Moves
<1>4. ~MacroCreate(p) /\ ~MacroRead(p) /\ ~MacroFind(p)
  BY MacroCreateDoes, MacroReadDoes, MacroFindDoes DEF Moves
<1>5. /\ ~MacroUpdate(p) /\ ~MacroAddSave(p) /\ ~MacroDropSave(p) /\ ~MacroDelete(p)
      /\ ~Commit(p)
  BY MacroUpdateDoes, MacroAddSaveDoes, MacroDropSaveDoes, MacroDeleteDoes, CommitDoes DEF Moves
<1> QED  BY <1>1, <1>2, <1>3, <1>4, <1>5 DEF Progress

\* The process that comes to list or to delete a job is the one that goes on.
LEMMA WhoLists ==
  ASSUME BaseInv, Next, NEW q \in Proc, pc'[q] \in {"push", "write", "commit"}
  PROVE  \/ pc'[q] = pc[q] /\ req'[q] = req[q]
         \/ /\ Progress(q) /\ ~Fail(q)
            /\ CreateSave(q) \/ CreatePush(q) \/ DeleteRead(q) \/ DeleteWrite(q)
<1>1. CASE \E r \in Req : Arrive(r)
  <2>1. PICK r \in Req : Arrive(r)
    BY <1>1
  <2>2. q # <<r, "http">>
    BY <2>1, ArriveDoes
  <2> QED  BY <2>1, <2>2, ArriveDoes DEF OthersIdle
<1>2. CASE \E P \in SUBSET Active : Stops(P)
  <2>1. PICK P \in SUBSET Active : Stops(P)
    BY <1>2
  <2>2. q \notin P
    BY <2>1, StopsDoes
  <2> QED  BY <2>1, <2>2, StopsDoes DEF OthersIdle
<1>3. CASE \E p \in Proc : Progress(p) /\ ~Fail(p)
  <2>1. PICK p \in Proc : Progress(p) /\ ~Fail(p)
    BY <1>3
  <2>2. CASE q = p
    BY <2>1, <2>2, ToList
  <2>3. CASE q # p
    BY <2>1, <2>3, OthersStay
  <2> QED  BY <2>2, <2>3
<1> QED  BY <1>1, <1>2, <1>3, StepIs

\* A stored job that no update moves keeps its employer.
LEMMA OwnerKept ==
  ASSUME BaseInv, PendingOK, Next, NEW j \in Job, db'[j].there, ~Moved(j)'
  PROVE  \/ db[j].there /\ db'[j].employer = db[j].employer
         \/ /\ ~Known(j) /\ db'[j].employer = req[<<j, "http">>].employer
            /\ CreateSave(<<j, "http">>) /\ ~Fail(<<j, "http">>)
            /\ <<j, "http">> \in Proc /\ Progress(<<j, "http">>)
<1>1. CASE db' = db
  BY <1>1
<1>2. CASE \E p \in Proc : Progress(p) /\ ~Fail(p)
  <2>1. PICK p \in Proc : Progress(p) /\ ~Fail(p)
    BY <1>2
  <2>2. CASE CreateSave(p) /\ j = p[1] /\ db'[j] = NewJob(p)
    <3>1. p = <<j, "http">> /\ ~Known(j)
      BY <2>1, <2>2, CreateSaveDoes, NotYetKnown
    <3> QED  BY <2>1, <2>2, <3>1 DEF NewJob
  <2>3. CASE db[j].there /\ db'[j].employer # db[j].employer
    <3>1. UpdateJob(p) /\ j = req[p].job
      BY <2>1, <2>3, JobKept, CreateSaveDoes, NotYetKnown DEF BaseInv, UnknownOK
    <3>2. pc'[p] = "answered" /\ req'[p].op = "update" /\ req'[p].job = j
      BY <3>1, UpdateJobDoes DEF Moves, Continues, At
    <3> QED  BY <2>1, <3>2 DEF Moved, Done
  <2> QED  BY <2>1, <2>2, <2>3, JobKept
<1> QED  BY <1>1, <1>2, ArriveStopsStore, StepIs

\* OwnersOK is kept.
LEMMA OwnersKept ==
  ASSUME BaseInv, PendingOK, OwnersOK, Next
  PROVE  OwnersOK'
<1>1. /\ StoreOK /\ ControlOK /\ CallsOK /\ UnknownOK
      /\ \A q \in Proc : CallKept(q)
  BY StepKeeps DEF BaseInv
<1>2. ASSUME NEW j \in Job, db'[j].there, NEW e \in Employer, j \in db'[e].jobs, ~Moved(j)'
      PROVE  e = db'[j].employer
  <2>1. ~Moved(j)
    BY <1>2, MovedKept
  <2>2. CASE db' = db
    BY <1>2, <2>1, <2>2 DEF OwnersOK, Stored
  <2>3. CASE \E p \in Proc : Progress(p) /\ ~Fail(p)
    <3>1. PICK p \in Proc : Progress(p) /\ ~Fail(p)
      BY <2>3
    <3>2. CASE Commit(p) /\ req[p].op = "create" /\ e = req[p].employer /\ j = req[p].job
               /\ j = p[1] /\ p = <<j, "http">> /\ j \in Req
      <4>1. pc[p] = "commit" /\ CreatesFor(p)
        BY <3>1, <3>2, CommitDoes DEF OwnersOK
      <4>2. Known(j)
        BY <3>2, <4>1 DEF Known, Announced
      <4>3. db[j].there /\ db'[j].employer = db[j].employer
        BY <1>2, <4>2, OwnerKept
      <4> QED  BY <2>1, <3>2, <4>1, <4>3 DEF CreatesFor
    <3>3. CASE j \in db[e].jobs
      <4>1. Known(j)
        BY <1>1, <3>3 DEF UnknownOK
      <4>2. db[j].there /\ db'[j].employer = db[j].employer
        BY <1>2, <4>1, OwnerKept
      <4> QED  BY <2>1, <3>3, <4>2 DEF OwnersOK, Stored
    <3> QED  BY <1>2, <3>1, <3>2, <3>3, JobListed
  <2> QED  BY <2>2, <2>3, ArriveStopsStore, StepIs
<1>3. ASSUME NEW q \in Proc, pc'[q] \in {"push", "commit"}, req'[q].op = "create"
      PROVE  CreatesFor(q)'
  <2>1. PICK j, e : j = req'[q].job /\ e = req'[q].employer
    OBVIOUS
  <2> SUFFICES ASSUME db'[j].there, ~Moved(j)' PROVE db'[j].employer = e
    BY <2>1 DEF CreatesFor
  <2>2. CASE pc'[q] = pc[q] /\ req'[q] = req[q]
    <3>1. pc[q] \in {"push", "commit"} /\ req[q].op = "create" /\ CreatesFor(q)
      BY <1>3, <2>2 DEF OwnersOK
    <3>2. CallOK(q) /\ req[q] \in Request /\ q = <<q[1], "http">>
      BY <1>1, <3>1, Called, IsRequest
    <3>3. q[1] = j /\ j \in Job
      BY <2>1, <2>2, <3>1, <3>2 DEF CallOK, OwnJob, Request
    <3>4. Known(j)
      BY <3>1, <3>2, <3>3 DEF Known, Announced
    <3>5. ~Moved(j) /\ db[j].there /\ db'[j].employer = db[j].employer
      BY <3>3, <3>4, OwnerKept, MovedKept
    <3> QED  BY <2>1, <2>2, <3>1, <3>5 DEF CreatesFor
  <2>3. CASE CreateSave(q) /\ Progress(q) /\ ~Fail(q)
    <3>1. Moves(q, "push") /\ At(q, {"create"}, "save") /\ Puts(q[1], NewJob(q))
          /\ req[q].job = q[1] /\ q[1] \in Req
      BY <2>3, CreateSaveDoes
    <3>2. j = q[1] /\ e = req[q].employer
      BY <2>1, <3>1 DEF Moves, Continues, At
    <3> QED  BY <3>1, <3>2 DEF Puts, NewJob, Doc, Job
  <2>4. CASE CreatePush(q) /\ Progress(q) /\ ~Fail(q)
    <3>1. req'[q] = req[q] /\ db' = db /\ At(q, {"create"}, "push") /\ req[q] \in Request
      BY <2>4, CreatePushDoes DEF Spawns
    <3>2. CreatesFor(q)
      BY <3>1 DEF OwnersOK, At
    <3>3. ~Moved(j)
      BY MovedKept
    <3> QED  BY <2>1, <3>1, <3>2, <3>3 DEF CreatesFor
  <2>5. CASE (DeleteRead(q) \/ DeleteWrite(q)) /\ ~Fail(q)
    <3>1. req[q].op = "delete" /\ Continues(q)
      BY <2>5, DeleteReadDoes, DeleteWriteDoes DEF Moves, At
    <3> QED  BY <1>3, <3>1 DEF Continues
  <2> QED  BY <1>3, <2>2, <2>3, <2>4, <2>5, WhoLists
<1>4. ASSUME NEW q \in Proc, pc'[q] \in {"write", "commit"}, req'[q].op = "delete"
      PROVE  DeletesFor(q)'
  <2>1. PICK j, e : j = req'[q].job /\ e = req'[q].employer
    OBVIOUS
  <2> SUFFICES ASSUME req'[q].settled, ~Moved(j)', NEW x \in Employer, j \in db'[x].jobs
               PROVE  x = e
    BY <2>1 DEF DeletesFor
  <2>2. ~Moved(j)
    BY MovedKept
  <2>3. CASE pc'[q] = pc[q] /\ req'[q] = req[q]
    <3>1. pc[q] \in {"write", "commit"} /\ req[q].op = "delete" /\ DeletesFor(q)
      BY <1>4, <2>3 DEF OwnersOK
    <3>2. CallOK(q) /\ req[q] \in Request
      BY <1>1, <3>1, Called
    <3>3. j \in Job /\ (j \in OldJob \/ Done(<<j, "http">>, "create"))
      BY <2>1, <2>3, <3>1, <3>2 DEF CallOK, OwnJob, Request
    <3>4. j \in db[x].jobs
      <4>1. CASE db' = db
        BY <4>1
      <4>2. CASE \E p \in Proc : Progress(p) /\ ~Fail(p)
        <5>1. PICK p \in Proc : Progress(p) /\ ~Fail(p)
          BY <4>2
        <5>2. ~(Commit(p) /\ p = <<j, "http">> /\ j \in Req)
          BY <3>3, CatalogueAssumption DEF Commit, Done
        <5> QED  BY <3>3, <5>1, <5>2, JobListed
      <4> QED  BY <4>1, <4>2, ArriveStopsStore, StepIs
    <3> QED  BY <2>1, <2>2, <2>3, <3>1, <3>4 DEF DeletesFor
  <2>4. CASE DeleteRead(q) /\ Progress(q) /\ ~Fail(q)
    <3>1. PICK k : k = req[q].job
      OBVIOUS
    <3>2. /\ Moves(q, "write") /\ Quiet /\ req'[q].employer = db[k].employer
          /\ k \in Job /\ db[k].there
      BY <2>4, <3>1, DeleteReadDoes
    <3>3. k = j /\ db' = db
      BY <2>1, <3>1, <3>2 DEF Moves, Continues, Quiet
    <3> QED  BY <2>1, <2>2, <3>2, <3>3 DEF OwnersOK, Stored
  <2>5. CASE DeleteWrite(q) /\ Progress(q) /\ ~Fail(q)
    <3>1. req' = req /\ db' = db /\ At(q, {"delete"}, "write")
      BY <2>5, DeleteWriteDoes
    <3>2. DeletesFor(q)
      BY <3>1 DEF OwnersOK, At
    <3> QED  BY <2>1, <2>2, <3>1, <3>2 DEF DeletesFor
  <2>6. CASE (CreateSave(q) \/ CreatePush(q)) /\ ~Fail(q)
    <3>1. req[q].op = "create" /\ req'[q].op = req[q].op
      BY <2>6, CreateSaveDoes, CreatePushDoes DEF Moves, Spawns, Continues, At
    <3> QED  BY <1>4, <3>1
  <2> QED  BY <1>4, <2>3, <2>4, <2>5, <2>6, WhoLists
<1> QED  BY <1>2, <1>3, <1>4 DEF OwnersOK, Stored

\* DeletedJobUnlisted for one step.
LEMMA DeletedStep ==
  ASSUME BaseInv, PendingOK, OwnersOK, Next, NEW p \in Proc,
         pc[p] = "commit", pc'[p] = "answered", req[p].op = "delete", req[p].settled,
         ~Moved(req[p].job)
  PROVE  \A e \in Employer : req[p].job \notin db'[e].jobs
<1>1. PICK j : j = req[p].job
  OBVIOUS
<1>2. Commit(p)
  <2>1. CASE \E r \in Req : Arrive(r)
    <3>1. PICK r \in Req : Arrive(r)
      BY <2>1
    <3>2. p # <<r, "http">>
      BY <3>1, ArriveDoes
    <3> QED  BY <3>1, <3>2, ArriveDoes DEF OthersIdle
  <2>2. CASE \E P \in SUBSET Active : Stops(P)
    <3>1. PICK P \in SUBSET Active : Stops(P)
      BY <2>2
    <3>2. p \notin P
      BY <3>1, StopsDoes
    <3> QED  BY <3>1, <3>2, StopsDoes DEF OthersIdle
  <2>3. CASE \E q \in Proc : Progress(q) /\ ~Fail(q)
    <3>1. PICK q \in Proc : Progress(q) /\ ~Fail(q)
      BY <2>3
    <3>2. q = p
      BY <3>1, OthersStay
    <3> QED  BY <3>1, <3>2 DEF Progress, CreateRead, CreateSave, CreatePush,
      CreateStep, UpdateJob, UploadImage, SetImage, DeleteRead, DeleteWrite, Invite,
      InviteMail, ToggleRead, ToggleOwn, ToggleFind, ToggleOther, MacroCreate,
      MacroRead, MacroFind, MacroAddSave, MacroDropSave, MacroUpdate, MacroDelete, At
  <2> QED  BY <2>1, <2>2, <2>3, StepIs
<1>3. /\ req[p].employer \in Employer /\ req[p] \in Request /\ DeletesFor(p)
  BY <1>2, CommitDoes DEF OwnersOK
<1>4. j \notin db'[req[p].employer].jobs
  BY <1>1, <1>2, CommitPublishes
<1>5. ASSUME NEW e \in Employer, e # req[p].employer PROVE j \notin db'[e].jobs
  <2>1. j \notin db[e].jobs
    BY <1>1, <1>3, <1>5 DEF DeletesFor
  <2>2. e \in Doc \ ({j, req[p].employer} \cup DefaultStep)
    BY <1>1, <1>3, <1>5, CatalogueAssumption DEF Doc, Request
  <2>3. db'[e] = db[e]
    BY <1>1, <1>2, <2>2, CommitPublishes
  <2> QED  BY <2>1, <2>3
<1> QED  BY <1>1, <1>4, <1>5

-----------------------------------------------------------------------------
(* The theorems *)

Inv ==
  /\ BaseInv
  /\ PendingOK
  /\ ListedOK
  /\ OwnersOK
  /\ MacrosOK
  /\ FavouritesOK

\* The documents at the start.
LEMMA InitDocs ==
  ASSUME Init
  PROVE  /\ ImageOK(db) /\ NoJob \in JobDoc
         /\ \A j \in Req : db[j] = NoJob
         /\ \A j \in OldJob : /\ db[j].there /\ db[j].externalJobId = 0 /\ db[j].image = Earlier
                              /\ db[j].employer \in Employer
         /\ \A j \in Job : db[j].favs = NoFavs(Employee)
         /\ \A e \in Employer : /\ db[e].favs = NoFavs(Employee)
                                /\ db[e].jobs = {j \in OldJob : db[j].employer = e}
         /\ \A c \in Employee : db[c].favs = NoFavs(Job \cup Employer)
         /\ \A m \in Macro : ~db[m].there => db[m].jobs = NoFavs(Job)
<1> DEFINE First(d, owner, old) ==
       IF d \in OldJob
       THEN [NoJob EXCEPT !.there = TRUE, !.employer = owner[d], !.image = Earlier]
       ELSE IF d \in Req THEN NoJob
       ELSE IF d \in DefaultStep THEN d[1] \in OldJob
       ELSE IF d \in Employer
       THEN [jobs |-> {j \in OldJob : owner[j] = d}, favs |-> NoFavs(Employee)]
       ELSE IF d \in Employee THEN [favs |-> NoFavs(Job \cup Employer)]
       ELSE IF d \in old
       THEN [NoMacro EXCEPT !.there = TRUE,
                            !.jobs = [j \in Job |-> IF j \in OldJob THEN 1 ELSE 0]]
       ELSE NoMacro
<1>0. PICK owner \in [OldJob -> Employer], old \in SUBSET Macro :
        db = [d \in Doc |-> First(d, owner, old)]
  BY DEF Init
<1> HIDE DEF First
<1>1. \A d \in Doc : db[d] = First(d, owner, old)
  BY <1>0
<1> USE DEF First
<1>2. NoJob \in JobDoc
  BY DEF NoJob, JobDoc, NoFavs
<1>3. ASSUME NEW j \in OldJob
      PROVE  /\ db[j].there /\ db[j].externalJobId = 0 /\ db[j].image = Earlier
             /\ db[j].employer = owner[j] /\ db[j].favs = NoFavs(Employee) /\ db[j] \in JobDoc
  <2>1. PICK e : e = owner[j]
    OBVIOUS
  <2>2. e \in Employer
    BY <2>1
  <2>3. db[j] = [NoJob EXCEPT !.there = TRUE, !.employer = e, !.image = Earlier]
    BY <1>1, <2>1 DEF Doc, Job
  <2> QED  BY <2>1, <2>2, <2>3, <1>2 DEF NoJob, JobDoc
<1>4. \A j \in Req : db[j] = NoJob
  BY <1>1, CatalogueAssumption DEF Doc, Job
<1>5. ASSUME NEW e \in Employer
      PROVE  /\ db[e] \in EmployerDoc /\ db[e].favs = NoFavs(Employee)
             /\ db[e].jobs = {j \in OldJob : db[j].employer = e}
  <2>1. e \notin OldJob /\ e \notin Req /\ e \notin DefaultStep /\ e \in Doc
    BY CatalogueAssumption DEF Doc, Job
  <2>2. db[e] = [jobs |-> {j \in OldJob : owner[j] = e}, favs |-> NoFavs(Employee)]
    BY <1>1, <2>1
  <2>3. {j \in OldJob : owner[j] = e} = {j \in OldJob : db[j].employer = e}
    BY <1>3
  <2> QED  BY <2>2, <2>3 DEF EmployerDoc, NoFavs, Job
<1>6. ASSUME NEW c \in Employee
      PROVE  db[c] \in EmployeeDoc /\ db[c].favs = NoFavs(Job \cup Employer)
  <2>1. c \notin OldJob /\ c \notin Req /\ c \notin DefaultStep /\ c \notin Employer /\ c \in Doc
    BY CatalogueAssumption DEF Doc, Job
  <2>2. db[c] = [favs |-> NoFavs(Job \cup Employer)]
    BY <1>1, <2>1
  <2> QED  BY <2>2 DEF EmployeeDoc, NoFavs
<1>7. ASSUME NEW m \in Macro
      PROVE  db[m] \in MacroDoc /\ (~db[m].there => db[m].jobs = NoFavs(Job))
  <2>1. /\ m \notin OldJob /\ m \notin Req /\ m \notin DefaultStep /\ m \notin Employer
        /\ m \notin Employee /\ m \in Doc
    BY CatalogueAssumption DEF Doc, Job
  <2>2. PICK f : f = [j \in Job |-> IF j \in OldJob THEN 1 ELSE 0]
    OBVIOUS
  <2>3. f \in [Job -> Nat] /\ NoFavs(Job) \in [Job -> Nat]
    BY <2>2 DEF NoFavs
  <2>4. \/ db[m] = [NoMacro EXCEPT !.there = TRUE, !.jobs = f]
        \/ db[m] = NoMacro
    BY <1>1, <2>1, <2>2
  <2>5. CASE db[m] = NoMacro
    BY <2>3, <2>5 DEF MacroDoc, NoMacro
  <2>6. CASE db[m] = [NoMacro EXCEPT !.there = TRUE, !.jobs = f]
    <3>1. db[m] = [there |-> TRUE, jobs |-> f, version |-> 0]
      BY <2>6 DEF NoMacro
    <3> QED  BY <2>3, <3>1 DEF MacroDoc
  <2> QED  BY <2>4, <2>5, <2>6
<1>10. \A j \in Req : db[j].favs = NoFavs(Employee)
  <2>1. NoJob.favs = NoFavs(Employee)
    BY DEF NoJob
  <2> QED  BY <1>4, <2>1
<1>8. ASSUME NEW d \in Doc PROVE ValueOK(d, db[d])
  <2>1. \A k \in DefaultStep : db[k] \in BOOLEAN
    <3> SUFFICES ASSUME NEW k \in DefaultStep PROVE db[k] \in BOOLEAN
      OBVIOUS
    <3>1. k \notin OldJob /\ k \notin Req /\ k \in Doc
      BY CatalogueAssumption DEF Doc, Job
    <3>2. First(k, owner, old) = (k[1] \in OldJob)
      BY Zenon, <3>1
    <3> HIDE DEF First
    <3>3. First(k, owner, old) \in BOOLEAN
      BY <3>2
    <3> QED  BY <1>1, <3>1, <3>3
  <2> QED  BY <1>2, <1>3, <1>4, <1>5, <1>6, <1>7, <2>1 DEF ValueOK, Job
<1>9. DOMAIN db = Doc
  BY <1>0
<1>11. \A j \in OldJob : db[j].employer \in Employer
  BY <1>3
<1> QED  BY <1>2, <1>3, <1>4, <1>5, <1>6, <1>7, <1>8, <1>9, <1>10, <1>11 DEF ImageOK, Job

\* No call has been made, so nothing is known but the old jobs.
LEMMA InitInv ==
  ASSUME Init
  PROVE  Inv
<1>1. /\ pc = [p \in Proc |-> "idle"] /\ req = [p \in Proc |-> NoRequest]
      /\ s3 = {Earlier} /\ mixed = {} /\ area \in Areas
      /\ open = {} /\ view = [p \in Proc |-> NoView]
      /\ writes = [p \in Proc |-> {}] /\ stale = [p \in Proc |-> {}]
  BY DEF Init, MongoInit
<1>2. TypeInv
  BY <1>1 DEF TypeInv
<1>3. StoreOK
  BY <1>1, InitDocs DEF StoreOK, PendingWritesFresh
<1>4. Toggles = {}
  BY <1>1 DEF Toggles, Active
<1>5. ControlOK
  <2>1. pc \in [Proc -> Label] /\ DOMAIN req = Proc
    BY <1>1 DEF Label
  <2>2. \A r \in Req : pc[<<r, "bg">>] = "idle" /\ pc[<<r, "http">>] = "idle"
    BY <1>1 DEF Proc
  <2> QED  BY <1>1, <1>4, <2>1, <2>2 DEF ControlOK
<1>6. CallsOK
  BY <1>1 DEF CallsOK
<1>7. UnknownOK
  <2> SUFFICES ASSUME NEW j \in Job, ~Known(j)
               PROVE  /\ ~db[j].there
                      /\ \A e \in Employer : j \notin db[e].jobs
                      /\ \A c \in Employee : db[c].favs[j] = 0
    BY DEF UnknownOK
  <2>1. j \notin OldJob /\ j \in Req
    BY DEF Known, Job
  <2> QED  BY <2>1, InitDocs DEF NoJob, NoFavs
<1>8. JobsOK
  <2>0. ~NoJob.there
    BY DEF NoJob
  <2>1. \A j \in Stored(db) : j \in OldJob
    BY <2>0, InitDocs DEF Stored, Job
  <2>2. \A p \in Proc : ~At(p, {"create", "image"}, "save")
    BY <1>1 DEF At
  <2>3. 0 \in Nat /\ \A j \in Stored(db) : db[j].externalJobId <= 0
    BY <2>1, InitDocs
  <2> QED  BY <1>1, <2>1, <2>2, <2>3, InitDocs DEF JobsOK
<1>9. PendingOK
  BY <1>1 DEF PendingOK
<1>10. ListedOK
  BY <1>1 DEF ListedOK, Done, Proc
<1>11. OwnersOK
  BY <1>1, InitDocs DEF OwnersOK
<1>12. MacrosOK
  BY <1>1, InitDocs DEF MacrosOK, At
<1>13. FavouritesOK
  <2> SUFFICES ASSUME NEW d \in Stored(db) \cup Employer, NEW c \in Employee
               PROVE  PairOK(d, c)
    BY DEF FavouritesOK
  <2>1. d \in Job \cup Employer
    BY DEF Stored
  <2>2. db[c].favs[d] = 0 /\ db[d].favs[c] = 0
    BY <2>1, InitDocs DEF NoFavs
  <2>3. About(d, c) = {}
    BY <1>4 DEF About
  <2> QED  BY <2>2, <2>3 DEF PairOK
<1> QED  BY <1>2, <1>3, <1>5, <1>6, <1>7, <1>8, <1>9, <1>10, <1>11, <1>12, <1>13 DEF Inv, BaseInv

\* Nothing that the invariant speaks of changes.
LEMMA StutterInv ==
  ASSUME Inv, UNCHANGED vars
  PROVE  Inv'
<1>1. /\ area' = area /\ db' = db /\ open' = open /\ view' = view /\ writes' = writes
      /\ stale' = stale /\ s3' = s3 /\ pc' = pc /\ req' = req /\ mixed' = mixed
  BY DEF vars
<1>2. Toggles' = Toggles /\ \A q : Pair(q)' = Pair(q)
  BY <1>1 DEF Toggles, Active, Toggling, Pair
<1>3. TypeInv' /\ StoreOK'
  BY <1>1 DEF Inv, BaseInv, TypeInv, StoreOK, ImageOK, ValueOK, PendingWritesFresh
<1>4. ControlOK'
  BY <1>1, <1>2 DEF Inv, BaseInv, ControlOK
<1>5. CallsOK' /\ UnknownOK' /\ JobsOK'
  BY <1>1 DEF Inv, BaseInv, CallsOK, CallOK, Known, Done, UnknownOK, JobsOK, Stored, At
<1>6. PendingOK'
  BY <1>1 DEF Inv, PendingOK, DeletedDoc
<1>7. ListedOK' /\ OwnersOK'
  BY <1>1 DEF Inv, ListedOK, OwnersOK, CreatesFor, DeletesFor, Moved, Done, Stored
<1>8. MacrosOK'
  <2>1. \A m : Overwritten(m)' <=> Overwritten(m)
    BY <1>1 DEF Overwritten, Done
  <2> QED  BY <1>1, <2>1 DEF Inv, MacrosOK, DropOK, At
<1>9. FavouritesOK'
  <2>1. Stored(db)' = Stored(db)
    BY <1>1 DEF Stored
  <2>2. ASSUME NEW d \in Stored(db) \cup Employer, NEW c \in Employee
        PROVE  <<d, c>> \in mixed \/ PairOK(d, c)'
    <3>1. <<d, c>> \in mixed \/ PairOK(d, c)
      BY DEF Inv, FavouritesOK
    <3>2. About(d, c)' = About(d, c)
      BY <1>2 DEF About
    <3> QED  BY <1>1, <3>1, <3>2, PairSame
  <2> QED  BY <1>1, <2>1, <2>2 DEF FavouritesOK
<1> QED  BY <1>3, <1>4, <1>5, <1>6, <1>7, <1>8, <1>9 DEF Inv, BaseInv

\* The invariant is inductive.
LEMMA StepInv ==
  ASSUME Inv, [Next]_vars
  PROVE  Inv'
<1>1. CASE Next
  <2>1. BaseInv /\ PendingOK /\ ListedOK /\ OwnersOK /\ MacrosOK /\ FavouritesOK
    BY DEF Inv
  <2>2. BaseInv'
    BY <1>1, <2>1, TypeStep
  <2>3. PendingOK' /\ ListedOK'
    BY <1>1, <2>1, PendingKept, ListedKept
  <2>4. OwnersOK' /\ MacrosOK' /\ FavouritesOK'
    BY <1>1, <2>1, OwnersKept, MacrosKept, FavouritesKept
  <2> QED  BY <2>2, <2>3, <2>4 DEF Inv
<1>2. CASE UNCHANGED vars
  BY <1>2, StutterInv
<1> QED  BY <1>1, <1>2

\* Inv holds throughout every behaviour of the catalogue.
THEOREM Invariant == Spec => []Inv
<1>1. Init => Inv
  BY InitInv
<1>2. Inv /\ [Next]_vars => Inv'
  BY StepInv
<1> QED  BY <1>1, <1>2, PTL DEF Spec

\* The documents, what open transactions see and have written, the images and
\* the calls stay of their types, whatever requests interleave or fail.
THEOREM TypeCorrect == Spec => []TypeOK
<1>1. Inv => TypeOK
  <2> SUFFICES ASSUME Inv PROVE TypeOK
    OBVIOUS
  <2>1. StoreOK /\ ControlOK /\ TypeInv /\ JobsOK
    BY DEF Inv, BaseInv
  <2>2. ASSUME NEW x, ImageOK(x) PROVE Contents(x)
    BY <2>2 DEF ImageOK, ValueOK, Contents, Doc
  <2>3. Contents(db) /\ \A p \in Proc : IF p \in open THEN Contents(view[p]) ELSE view[p] = NoView
    BY <2>1, <2>2 DEF StoreOK
  <2>4. \A p \in Proc : IF p \in Active THEN req[p] \in Request
                          ELSE req[p] \in Request \cup {NoRequest}
    BY <2>1 DEF ControlOK, Active
  <2> QED  BY <2>1, <2>3, <2>4 DEF TypeOK, StoreOK, ControlOK, TypeInv, JobsOK
<1> QED  BY <1>1, Invariant, PTL

\* A creation that was answered, although save() stores the job outside the
\* session that lists it, left a listed job with a stored image until the job is
\* deleted: however many creations, deletions, updates and toggles of the same
\* employer interleave, none loses the entry.
THEOREM CreatedListed == Spec => []CreatedJobListed
<1>1. Inv => CreatedJobListed
  <2> SUFFICES ASSUME Inv, NEW r \in Req, Done(<<r, "http">>, "create"), db[r].there
               PROVE  /\ r \in db[req[<<r, "http">>].employer].jobs
                      /\ db[r].image \in s3
    BY DEF CreatedJobListed
  <2>1. r \in db[req[<<r, "http">>].employer].jobs
    BY DEF Inv, ListedOK
  <2>2. r \in Stored(db)
    BY DEF Stored, Job
  <2> QED  BY <2>1, <2>2 DEF Inv, BaseInv, JobsOK
<1> QED  BY <1>1, Invariant, PTL

\* Both sides of a favourite agree, and hold it at most once, whenever no toggle
\* of it is under way, unless two toggles of it overlapped or one stopped between
\* its two writes.
THEOREM FavouriteSides == Spec => []FavouritesAgree
<1>1. Inv => FavouritesAgree
  <2> SUFFICES ASSUME Inv, NEW d \in Stored(db) \cup Employer, NEW c \in Employee,
                      <<d, c>> \notin mixed, ~\E p \in Toggles : Pair(p) = <<d, c>>
               PROVE  db[d].favs[c] = db[c].favs[d] /\ db[d].favs[c] <= 1
    BY DEF FavouritesAgree
  <2>1. PairOK(d, c)
    BY DEF Inv, FavouritesOK
  <2>2. About(d, c) = {}
    BY DEF About
  <2> QED  BY <2>1, <2>2 DEF PairOK
<1> QED  BY <1>1, Invariant, PTL

\* A job leaves a macro job only by a removal that names it, with the macro job, or
\* by an update of its list: the version that a save() requires keeps a removal
\* from writing back an array that misses a concurrent addition.  Where an update
\* has replaced the list within the version, a removal may undo the update.
THEOREM MacroJobsKept == Spec => MacroAddKept
<1>1. Inv /\ [Next]_vars =>
        \A m \in Macro, j \in Job :
          db[m].jobs[j] > 0 /\ db'[m].jobs[j] = 0 =>
            \E p \in Proc : /\ pc[p] # "answered" /\ pc'[p] = "answered"
                            /\ req[p].macro = m
                            /\ \/ /\ req[p].op = "macroDrop"
                                  /\ req[p].job = j \/ Overwritten(m)
                               \/ req[p].op \in {"macroUpdate", "macroDelete"}
  <2> SUFFICES ASSUME Inv, [Next]_vars, NEW m \in Macro, NEW j \in Job,
                      db[m].jobs[j] > 0, db'[m].jobs[j] = 0
               PROVE  \E p \in Proc : /\ pc[p] # "answered" /\ pc'[p] = "answered"
                                      /\ req[p].macro = m
                                      /\ \/ /\ req[p].op = "macroDrop"
                                            /\ req[p].job = j \/ Overwritten(m)
                                         \/ req[p].op \in {"macroUpdate", "macroDelete"}
    OBVIOUS
  <2>1. CASE Next
    BY <2>1, MacroAddStep DEF Inv
  <2>2. CASE UNCHANGED vars
    <3>1. db' = db
      BY <2>2 DEF vars
    <3> QED  BY <3>1
  <2> QED  BY <2>1, <2>2
<1> QED  BY <1>1, Invariant, PTL DEF Spec, MacroAddKept

\* Once a job is deleted by a client who had seen its creation answered, no
\* employer lists it, save one from whom an update had taken the job: the
\* deletion reads the employer outside its session, and neither a creation under
\* way nor another deletion makes that reading miss an entry.
THEOREM DeletedUnlisted == Spec => DeletedJobUnlisted
<1>1. Inv /\ [Next]_vars =>
        \A p \in Proc :
          LET j == req[p].job
          IN  /\ pc[p] = "commit" /\ pc'[p] = "answered"
              /\ req[p].op = "delete" /\ req[p].settled
              => \/ \A e \in Employer : j \notin db'[e].jobs
                 \/ \E q \in Proc : Done(q, "update") /\ req[q].job = j
  <2> SUFFICES ASSUME Inv, [Next]_vars, NEW p \in Proc,
                      pc[p] = "commit", pc'[p] = "answered",
                      req[p].op = "delete", req[p].settled, ~Moved(req[p].job)
               PROVE  \A e \in Employer : req[p].job \notin db'[e].jobs
    BY DEF Moved
  <2>1. CASE Next
    BY <2>1, DeletedStep DEF Inv
  <2>2. CASE UNCHANGED vars
    BY <2>2 DEF vars
  <2> QED  BY <2>1, <2>2
<1> QED  BY <1>1, Invariant, PTL DEF Spec, DeletedJobUnlisted
=============================================================================
