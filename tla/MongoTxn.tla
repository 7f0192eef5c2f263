------------------------------ MODULE MongoTxn ------------------------------
(***************************************************************************)
(* The document store the services talk to: a MongoDB replica set reached  *)
(* through mongoose sessions.  It is not part of the repository; it is     *)
(* modelled from how src/ uses it (startSession, startTransaction, updates *)
(* with .session(session), commitTransaction, abortTransaction, and plain  *)
(* updates without a session).                                             *)
(*                                                                         *)
(* A transaction reads from the snapshot taken at its first operation plus *)
(* its own writes.  A write of a document that another open transaction    *)
(* has written, or that was committed after the snapshot, fails with a     *)
(* WriteConflict.  A commit publishes the written documents atomically, an *)
(* abort discards them.  A read outside a session sees committed data; a   *)
(* write outside a session waits for the transaction that holds the        *)
(* document.  An update that matches nothing writes nothing.               *)
(***************************************************************************)
CONSTANTS Doc,    \* the documents
          Proc    \* the asynchronous call chains that may hold a session

VARIABLES db,     \* [Doc -> value]: the committed documents
          open,   \* the processes whose transaction has done an operation
          view,   \* view[p]: the documents as the transaction of p sees them
          writes, \* writes[p]: the documents written by the transaction of p
          stale   \* stale[p]: documents committed by others since p's snapshot

\* What is stored for a process that has no transaction.
NoView == <<>>

MongoInit ==
  /\ open = {}
  /\ view = [p \in Proc |-> NoView]
  /\ writes = [p \in Proc |-> {}]
  /\ stale = [p \in Proc |-> {}]

\* The documents as an operation in the session of p reads them.
Seen(p) == IF p \in open THEN view[p] ELSE db

\* Documents whose write by p would raise a WriteConflict.
Conflicting(p) == stale[p] \cup UNION {writes[q] : q \in open \ {p}}

\* p reads and writes in its transaction; v is what it sees afterwards and W
\* the set of documents the updates really modified.
TxnWrite(p, v, W) ==
  /\ W \cap Conflicting(p) = {}
  /\ open' = open \cup {p}
  /\ view' = [view EXCEPT ![p] = v]
  /\ writes' = [writes EXCEPT ![p] = @ \cup W]
  /\ UNCHANGED <<db, stale>>

\* The transactions of the processes in P end; D are the documents that
\* changed in the committed data.
EndTxns(P, D) ==
  /\ open' = open \ P
  /\ view' = [p \in Proc |-> IF p \in P THEN NoView ELSE view[p]]
  /\ writes' = [p \in Proc |-> IF p \in P THEN {} ELSE writes[p]]
  /\ stale' = [p \in Proc |-> IF p \in open \ P THEN stale[p] \cup D ELSE {}]

TxnCommit(p) ==
  /\ db' = [d \in Doc |-> IF d \in writes[p] THEN view[p][d] ELSE db[d]]
  /\ EndTxns({p}, writes[p])

TxnAbort(P) ==
  /\ EndTxns(P, {})
  /\ UNCHANGED db

\* An update outside any session.
PlainWrite(d, v) ==
  /\ \A p \in open : d \notin writes[p]
  /\ db' = [db EXCEPT ![d] = v]
  /\ EndTxns({}, {d})

\* What the proofs about the users of this store rest on, a fact of the store and of no
\* code that uses it.  First committer wins: what a transaction is about to publish was
\* computed from the committed version it replaces, and no two transactions hold pending
\* writes of one document.
PendingWritesFresh ==
  /\ \A p \in open : writes[p] \cap stale[p] = {}
  /\ \A p \in open : \A d \in Doc \ (writes[p] \cup stale[p]) : view[p][d] = db[d]
  /\ \A p, q \in open : p # q => writes[p] \cap writes[q] = {}
=============================================================================
