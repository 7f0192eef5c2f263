------------------------------ MODULE Profiles ------------------------------
(***************************************************************************)
(* The profiles of employees and employers and what is kept outside the    *)
(* database about them: pictures and curricula in S3, contacts at RD       *)
(* Station with the backup of the failed ones in the cache, courses at     *)
(* Learn Worlds and tests at Push Start (employee.service.ts,              *)
(* employer.service.ts, events/, libs/).                                   *)
(*                                                                         *)
(* Request r is the process <<r,"http">>.  The events it emits are handled *)
(* later and awaited by nobody: <<r,"contact">> and <<r,"sync">> handle    *)
(* CLIENT_CREATED, <<r,"update">> handles CLIENT_UPDATED.                  *)
(***************************************************************************)
EXTENDS Naturals, FiniteSets, Sequences, SequencesExt

CONSTANTS Req,       \* requests that may arrive, each once
          Employee, Employer,
          First,     \* the employee stored first, found by an empty filter
          Step,      \* first steps of distinct jobs; also the ids of their tests
          Earlier,   \* the request that wrote what is stored at the start
          None,
          MaxExit,   \* bound on the exits of the process
          Areas      \* the requests of one behaviour call operations of one area,
                     \* and at most so many of them arrive

List == {"academicBackgrounds", "experiences", "languages", "tools", "certificates"}

Operations ==
  {"image", "pdf", "avatar", "add", "set", "delete", "patch", "company", "segment",
   "benefit", "signup", "course", "award", "sso", "code", "join", "place", "result"}

\* The keys of files: a fresh UUID of the request that uploads an employee's file,
\* one stored before, or the one that the employer service has drawn.
OldKey == Employee \X {"image", "pdf"}
AvatarKey == {"avatar"} \X (0..MaxExit)
Key == Req \cup OldKey \cup AvatarKey

ASSUME ProfilesAssumption ==
  /\ First \in Employee
  /\ Earlier \notin Req
  /\ None \notin Key \cup {Earlier} \cup Employee \cup Employer \cup Step \cup List
  /\ Employee \cap Employer = {}
  /\ MaxExit \in Nat
  /\ OldKey \cap Req = {} /\ AvatarKey \cap (Req \cup OldKey) = {}
  /\ \A a \in Areas : a.ops \subseteq Operations /\ a.calls \in Nat

VARIABLES area,      \* the member of Areas that this behaviour follows
          employee, employer,
          s3,        \* whose file each key holds
          exits,     \* exits of the process; its pictures of employers have one key
          contacts,  \* the version of each employee that RD Station has
          access,    \* access_data is in the cache
          backup,    \* contact_with_error in the cache
          created,   \* the tests that Push Start knows
          rows,      \* push_start_candidate_results, in their order
          entries,   \* the entries of first steps and their psTestResults
          pc, req,
          overlapped \* what two concurrent calls, one that was cut short or the
                     \* end of a cache entry touched

vars == <<area, employee, employer, s3, exits, contacts, access, backup, created,
          rows, entries, pc, req, overlapped>>

Proc == Req \X {"http", "contact", "sync", "update"}

-----------------------------------------------------------------------------
(* Documents and files *)

Item == Req \cup {Earlier}
Writer == Req \cup {Earlier, None}

\* version: the last request that wrote plain fields; lists: who wrote each item.
EmployeeDoc == [there : BOOLEAN, image : Key \cup {None}, pdf : Key \cup {None},
                lists : [List -> [Item -> Writer]], version : Writer,
                completed : BOOLEAN, learnWorldsUserId : Employee \cup {None}]

EmployerDoc == [image : Key \cup {None}, version : Writer, segment : Writer,
                benefits : Writer]

Row == [user : Employee, test : Step, result : Req \cup {None}]

\* byHand: addCandidate was called by its route, which looks no test up.
Entry == [in : BOOLEAN, result : Req \cup {None}, byHand : BOOLEAN]

NoEntry == [in |-> FALSE, result |-> None, byHand |-> FALSE]

Failed == [email : Employee \cup {None}, version : Writer]

Request == [op : Operations, who : Employee \cup Employer \cup {None},
            list : List \cup {None}, item : Item \cup {None}, step : Step \cup {None},
            key : Key \cup {None}, version : Writer, seen : SUBSET Failed,
            copy : Req \cup {None}]

NoRequest == <<>>

Label == {"idle", "read", "remove", "upload", "write", "event", "post", "get",
          "patch", "backup", "keep", "create", "save", "push", "rows", "entries",
          "answered", "failed"}

Active == {p \in Proc : pc[p] \notin {"idle", "answered", "failed"}}

Media == {"image", "pdf", "avatar"}

NoItems == [l \in List |-> [i \in Item |-> None]]

Init ==
  /\ area \in Areas
  /\ employee = [c \in Employee |->
       [there |-> c = First,
        image |-> IF c = First THEN <<c, "image">> ELSE None,
        pdf |-> None,
        lists |-> [l \in List |-> [i \in Item |-> IF c = First /\ i = Earlier
                                                  THEN Earlier ELSE None]],
        version |-> IF c = First THEN Earlier ELSE None,
        completed |-> FALSE, learnWorldsUserId |-> None]]
  /\ employer = [e \in Employer |-> [image |-> None, version |-> Earlier,
                                      segment |-> Earlier, benefits |-> Earlier]]
  /\ s3 = [k \in Key |-> IF k = <<First, "image">> THEN First ELSE None]
  /\ exits = 0
  /\ contacts \in [Employee -> {Earlier, None}]
  /\ \A c \in Employee \ {First} : contacts[c] = None
  /\ access = ("code" \notin area.ops)
  /\ backup = {}
  /\ created = {} /\ rows = <<>>
  /\ entries = [s \in Step |-> [c \in Employee |-> NoEntry]]
  /\ pc = [p \in Proc |-> "idle"]
  /\ req = [p \in Proc |-> NoRequest]
  /\ overlapped = {}

profiles == <<employee, employer>>
rd == <<contacts, access, backup>>
tests == <<created, rows, entries>>

-----------------------------------------------------------------------------
(* Control *)

At(p, ops, label) == pc[p] = label /\ req[p].op \in ops

\* An answered signup is remembered: ContactKept is about it.
Kept(q) == IF q.op = "signup" THEN [q EXCEPT !.seen = {}] ELSE NoRequest

End(P, label) ==
  /\ pc' = [p \in Proc |-> IF p \in P THEN label ELSE pc[p]]
  /\ req' = [p \in Proc |-> IF p \in P THEN Kept(req[p]) ELSE req[p]]

Goto(p, label) ==
  IF label = "answered" THEN End({p}, label)
  ELSE pc' = [pc EXCEPT ![p] = label] /\ UNCHANGED req

Keep(p, label, q) ==
  /\ pc' = [pc EXCEPT ![p] = label]
  /\ req' = [req EXCEPT ![p] = q]

\* What p leaves half done: a file removed whose key is still in the profile, a
\* contact whose backup is not stored, results that are in a row and in no entry.
HalfDone(p) ==
  IF pc[p] \in {"upload", "write"} /\ req[p].key # None
  THEN {<<req[p].who, req[p].op, req[p].key>>}
  ELSE IF p[2] = "contact" THEN {p}
  ELSE IF pc[p] = "entries" THEN {<<s, req[p].who>> : s \in Step}
  ELSE {}

\* An exception answers a request with an error.  The handlers of events are not
\* awaited: theirs are unhandled rejections, which end the process.
Stop(P, exit) ==
  /\ exit => exits < MaxExit
  /\ exits' = IF exit THEN exits + 1 ELSE exits
  /\ End(P, "failed")
  /\ overlapped' = overlapped \cup UNION {HalfDone(p) : p \in P}
  /\ UNCHANGED <<profiles, s3, rd, tests>>

Fail(p) == IF p[2] = "http" THEN Stop({p}, FALSE) ELSE Stop(Active, TRUE)

\* Calls of RD Station and of Learn Worlds that fail inside their try are actions
\* of their own; any other call may throw.
CallFails(p) ==
  /\ p \in Active
  /\ pc[p] \notin {"post", "get", "patch"}
  /\ pc[p] # "event" \/ p[2] = "http"
  /\ p[2] # "sync" \/ pc[p] = "read"
  /\ Fail(p)

ProcessExit == Active # {} /\ Stop(Active, TRUE)

There == {c \in Employee : employee[c].there}

\* Who a call is about: its client, or the person that a webhook names.
Whom(op) ==
  IF op \in {"avatar", "company", "segment", "benefit"} THEN Employer
  ELSE IF op = "signup"
       THEN {c \in Employee \ There : \A p \in Active : req[p].op = "signup" => req[p].who # c}
  ELSE IF op \in {"course", "award"} THEN There \cup Employer \cup {None}
  ELSE IF op = "result" THEN {t[1] : t \in created}
  ELSE IF op = "code" THEN {None}
  ELSE There

Lists(op) ==
  IF op \in {"add", "set", "delete"} THEN List
  ELSE IF op = "patch" THEN List \cup {None} ELSE {None}

Items(op) == IF op \in {"set", "delete"} THEN Item ELSE {None}

Steps(op, c) ==
  IF op \in {"join", "place"} THEN Step
  ELSE IF op = "result" THEN {t[2] : t \in {u \in created : u[1] = c}} ELSE {None}

Call(op, c, l, i, s) ==
  [op |-> op, who |-> c, list |-> l, item |-> i, step |-> s, key |-> None,
   version |-> None, seen |-> {}, copy |-> None]

Arrive(r) ==
  LET p == <<r, "http">>
  IN  /\ pc[p] = "idle"
      /\ Cardinality({q \in Req : pc[<<q, "http">>] # "idle"}) < area.calls
      /\ \E op \in area.ops : \E c \in Whom(op) :
           \E l \in Lists(op), i \in Items(op), s \in Steps(op, c) :
             req' = [req EXCEPT ![p] = Call(op, c, l, i, s)]
      /\ pc' = [pc EXCEPT ![p] = "read"]
      /\ UNCHANGED <<profiles, s3, exits, rd, tests, overlapped>>

\* CLIENT_CREATED with the employee that was stored, or CLIENT_UPDATED with the
\* one that findOneAndUpdate returned; p leaves its handler.
Emit(p, events, c, version) ==
  LET heard == {<<p[1], e>> : e \in events}
      data == [Call("patch", c, None, None, None) EXCEPT !.version = version]
  IN  /\ pc' = [q \in Proc |-> IF q = p THEN "answered"
                               ELSE IF q \in heard THEN "event" ELSE pc[q]]
      /\ req' = [q \in Proc |-> IF q = p THEN Kept(req[p])
                                ELSE IF q \in heard THEN data ELSE req[q]]

-----------------------------------------------------------------------------
(* Pictures and curricula *)

KeyOf(q) == IF q.op = "avatar" THEN employer[q.who].image ELSE employee[q.who][q.op]

MediaRead(p) ==
  LET key == KeyOf(req[p])
  IN  /\ At(p, Media, "read")
      /\ Keep(p, IF key = None THEN "upload" ELSE "remove", [req[p] EXCEPT !.key = key])
      /\ UNCHANGED <<profiles, s3, exits, rd, tests, overlapped>>

MediaRemove(p) ==
  /\ At(p, Media, "remove")
  /\ s3' = [s3 EXCEPT ![req[p].key] = None]
  /\ Goto(p, "upload")
  /\ UNCHANGED <<profiles, exits, rd, tests, overlapped>>

\* Faulty variant: every file goes under the key drawn when the service started.
NewKeyOfProcess(p) == <<"avatar", exits>>

\* A fresh UUID per call; profileImagePath of the employer service is drawn once,
\* in its constructor.
NewKey(p) == IF req[p].op = "avatar" THEN <<"avatar", exits>> ELSE p[1]

MediaUpload(p) ==
  /\ At(p, Media, "upload")
  /\ s3' = [s3 EXCEPT ![NewKey(p)] = req[p].who]
  /\ Goto(p, "write")
  /\ UNCHANGED <<profiles, exits, rd, tests, overlapped>>

MediaWrite(p) ==
  LET q == req[p]
  IN  /\ At(p, Media, "write")
      /\ IF q.op = "avatar"
         THEN /\ employer' = [employer EXCEPT ![q.who].image = NewKey(p)]
              /\ UNCHANGED employee
         ELSE /\ employee' = [employee EXCEPT ![q.who][q.op] = NewKey(p)]
              /\ UNCHANGED employer
      /\ Goto(p, "answered")
      /\ UNCHANGED <<s3, exits, rd, tests, overlapped>>

-----------------------------------------------------------------------------
(* The lists of an employee and the profile of an employer: one update each *)

\* Faulty variant: the item is added to the list that the client knows.
EditedWhole(items, q, r) ==
  IF q.op = "add" THEN [i \in Item |-> IF i \in {r, Earlier} THEN r ELSE None]
  ELSE [items EXCEPT ![q.item] = IF q.op = "delete" \/ @ = None THEN None ELSE r]

\* $push of an item with a new id, the positional $set, which matches no document
\* when the item is gone, or $pull.
Edited(items, q, r) ==
  IF q.op = "add" THEN [items EXCEPT ![r] = r]
  ELSE [items EXCEPT ![q.item] = IF q.op = "delete" \/ @ = None THEN None ELSE r]

Edit(p, list) ==
  LET q == req[p]
  IN  /\ At(p, {"add", "set", "delete"}, "read") /\ q.list = list
      /\ employee' = [employee EXCEPT ![q.who].lists[list] = Edited(@, q, p[1])]
      /\ Goto(p, "answered")
      /\ UNCHANGED <<employer, s3, exits, rd, tests, overlapped>>

AcademicBackground(p) == Edit(p, "academicBackgrounds")
\* The id of the university is no ObjectID: a ValidationException.
InvalidUniversity(p) == At(p, {"add"}, "read") /\ req[p].list = "academicBackgrounds" /\ Fail(p)
Experience(p) == Edit(p, "experiences")
Language(p) == Edit(p, "languages")
Tool(p) == Edit(p, "tools")
Certificate(p) == Edit(p, "certificates")

\* updateEmployeeByUserId: the body may hold a whole list.
Patched(c, q, r) ==
  [employee EXCEPT ![c].version = r,
     ![c].lists = [l \in List |-> IF l = q.list THEN [i \in Item |-> IF i = r THEN r ELSE None]
                                  ELSE @[l]]]

Patch(p) ==
  LET q == req[p]
  IN  /\ At(p, {"patch"}, "read") /\ p[2] = "http"
      /\ employee' = Patched(q.who, q, p[1])
      /\ Emit(p, {"update"}, q.who, p[1])
      /\ UNCHANGED <<employer, s3, exits, rd, tests, overlapped>>

\* updateEmployerByUserId and updateEmployerById: a body with a profile replaces
\* it, segment and benefits included.
Company(p) ==
  LET e == req[p].who
  IN  /\ At(p, {"company"}, "read")
      /\ \/ employer' = [employer EXCEPT ![e].version = p[1]]
         \/ \E segment, benefits \in {p[1], None} :
              employer' = [employer EXCEPT ![e].version = p[1], ![e].segment = segment,
                                           ![e].benefits = benefits]
      /\ Goto(p, "answered")
      /\ UNCHANGED <<employee, s3, exits, rd, tests, overlapped>>

Segment(p) ==
  LET e == req[p].who
  IN  /\ At(p, {"segment"}, "read")
      /\ \E segment \in {p[1], None} : employer' = [employer EXCEPT ![e].segment = segment]
      /\ Goto(p, "answered")
      /\ UNCHANGED <<employee, s3, exits, rd, tests, overlapped>>

\* The benefits are set; their deletion pulls from a path that is no list and
\* removes nothing.
Benefit(p) ==
  LET e == req[p].who
  IN  /\ At(p, {"benefit"}, "read")
      /\ \E benefits \in {p[1], employer[e].benefits} :
           employer' = [employer EXCEPT ![e].benefits = benefits]
      /\ Goto(p, "answered")
      /\ UNCHANGED <<employee, s3, exits, rd, tests, overlapped>>

-----------------------------------------------------------------------------
(* Signup, Learn Worlds *)

\* createEmployee; the mail and the event follow.
SignupStore(p) ==
  LET c == req[p].who
  IN  /\ At(p, {"signup"}, "read")
      /\ employee' = [employee EXCEPT ![c].there = TRUE, ![c].version = p[1]]
      /\ Goto(p, "event")
      /\ UNCHANGED <<employer, s3, exits, rd, tests, overlapped>>

SignupEmit(p) ==
  /\ At(p, {"signup"}, "event")
  /\ Emit(p, {"contact", "sync"}, req[p].who, p[1])
  /\ UNCHANGED <<profiles, s3, exits, rd, tests, overlapped>>

\* findByEmail, which finds users of both kinds.
CourseRead(p) ==
  /\ At(p, {"course"}, "read")
  /\ Goto(p, IF req[p].who = None THEN "answered" ELSE "write")
  /\ UNCHANGED <<profiles, s3, exits, rd, tests, overlapped>>

\* For the user of an employer nothing is updated and the event carries null.
CourseWrite(p) ==
  LET c == req[p].who
  IN  /\ At(p, {"course"}, "write")
      /\ IF c \in Employee
         THEN /\ employee' = [employee EXCEPT ![c].completed = TRUE]
              /\ Emit(p, {"update"}, c, employee[c].version)
         ELSE Emit(p, {"update"}, None, None) /\ UNCHANGED employee
      /\ UNCHANGED <<employer, s3, exits, rd, tests, overlapped>>

\* awardedCertificate hands courseCompleted the data without its wrapper.
Award(p) == At(p, {"award"}, "read") /\ Fail(p)

\* syncUserProfile: findByEmail, then the certificates at Learn Worlds; an error
\* of Learn Worlds or of the update is only logged.
SyncRead(p) ==
  /\ pc[p] = "event" /\ p[2] = "sync"
  /\ Goto(p, "read")
  /\ UNCHANGED <<profiles, s3, exits, rd, tests, overlapped>>

SyncNone(p) ==
  /\ p[2] = "sync" /\ pc[p] \in {"read", "write"}
  /\ Goto(p, "answered")
  /\ UNCHANGED <<profiles, s3, exits, rd, tests, overlapped>>

SyncFound(p) ==
  /\ p[2] = "sync" /\ pc[p] = "read"
  /\ Goto(p, "write")
  /\ UNCHANGED <<profiles, s3, exits, rd, tests, overlapped>>

SyncWrite(p) ==
  LET c == req[p].who
  IN  /\ p[2] = "sync" /\ pc[p] = "write"
      /\ employee' = [employee EXCEPT ![c].completed = TRUE]
      /\ Emit(p, {"update"}, c, employee[c].version)
      /\ UNCHANGED <<employer, s3, exits, rd, tests, overlapped>>

\* sso: findByUserId and the call of Learn Worlds.
SsoRead(p) ==
  /\ At(p, {"sso"}, "read")
  /\ Goto(p, "write")
  /\ UNCHANGED <<profiles, s3, exits, rd, tests, overlapped>>

\* updateEmployeeById filters by { id }, which is in no schema and is dropped.
SsoWrite(p) ==
  /\ At(p, {"sso"}, "write")
  /\ employee' = [employee EXCEPT ![First].learnWorldsUserId = req[p].who]
  /\ Goto(p, "answered")
  /\ UNCHANGED <<employer, s3, exits, rd, tests, overlapped>>

-----------------------------------------------------------------------------
(* RD Station *)

\* getFirstAccessToken; the cache is written without awaiting it.
FirstAccess(p) ==
  /\ At(p, {"code"}, "read")
  /\ access' = TRUE
  /\ Goto(p, "answered")
  /\ UNCHANGED <<profiles, s3, exits, contacts, backup, tests, overlapped>>

\* The payload is built when the event is heard; null.user throws.
ContactEvent(p) ==
  /\ pc[p] = "event" /\ p[2] \in {"contact", "update"}
  /\ IF req[p].who = None THEN Fail(p)
     ELSE /\ Goto(p, IF p[2] = "contact" THEN "post" ELSE "get")
          /\ UNCHANGED <<profiles, s3, exits, rd, tests, overlapped>>

\* Every call first refreshes the token that is in the cache; it fails without one,
\* and RD Station may refuse any.  updateContact deletes the email of the payload
\* before it patches, so the backup of a failed patch has none.
Refused(p) ==
  /\ pc[p] \in {"post", "get", "patch"}
  /\ IF pc[p] = "patch" THEN Keep(p, "backup", [req[p] EXCEPT !.who = None]) ELSE Goto(p, "backup")
  /\ UNCHANGED <<profiles, s3, exits, rd, tests, overlapped>>

PostContact(p) ==
  /\ pc[p] = "post" /\ access
  /\ contacts' = [contacts EXCEPT ![req[p].who] = req[p].version]
  /\ Goto(p, "answered")
  /\ UNCHANGED <<profiles, s3, exits, access, backup, tests, overlapped>>

\* A contact that is not there is an error 404: Refused.
GetContact(p) ==
  /\ pc[p] = "get" /\ access
  /\ contacts[req[p].who] # None
  /\ Goto(p, "patch")
  /\ UNCHANGED <<profiles, s3, exits, rd, tests, overlapped>>

PatchContact(p) ==
  /\ pc[p] = "patch" /\ access
  /\ contacts' = [contacts EXCEPT ![req[p].who] = req[p].version]
  /\ Goto(p, "answered")
  /\ UNCHANGED <<profiles, s3, exits, access, backup, tests, overlapped>>

\* contactBackupError reads the list and sets it.  Two that overlap may lose one.
BackupRead(p) ==
  LET others == {q \in Proc : pc[q] = "keep"}
  IN  /\ pc[p] = "backup"
      /\ Keep(p, "keep", [req[p] EXCEPT !.seen = backup])
      /\ overlapped' = overlapped \cup (IF others = {} THEN {} ELSE others \cup {p})
      /\ UNCHANGED <<profiles, s3, exits, rd, tests>>

BackupEntry(p) == [email |-> req[p].who, version |-> req[p].version]

\* Faulty variant: the list is set to the new entry alone.
BackupSetAlone(p) ==
  /\ pc[p] = "keep"
  /\ backup' = {BackupEntry(p)}
  /\ Goto(p, "answered")
  /\ UNCHANGED <<profiles, s3, exits, contacts, access, tests, overlapped>>

BackupSet(p) ==
  /\ pc[p] = "keep"
  /\ backup' = req[p].seen \cup {BackupEntry(p)}
  /\ Goto(p, "answered")
  /\ UNCHANGED <<profiles, s3, exits, contacts, access, tests, overlapped>>

\* The entries of the cache end after the ttl of the module: their set names none.
\* What the ended backup held is nowhere else.
CacheExpires ==
  /\ \/ access /\ access' = FALSE /\ UNCHANGED <<backup, overlapped>>
     \/ /\ backup # {} /\ backup' = {}
        /\ overlapped' = overlapped \cup
             {<<r, "contact">> : r \in {q \in Req :
                /\ pc[<<q, "http">>] = "answered" /\ pc[<<q, "contact">>] = "answered"
                /\ \E b \in backup : b.email = req[<<q, "http">>].who}}
        /\ UNCHANGED access
  /\ UNCHANGED <<profiles, s3, exits, contacts, tests, pc, req>>

-----------------------------------------------------------------------------
(* Push Start: the test of a candidate who joins the first step of a job *)

\* findOne({ userId }): the oldest row, of whatever job; 0 if there is none.
FirstRow(c) == SelectInSeq(rows, LAMBDA row : row.user = c)

\* A job whose psTestId is not set asks for no test; an update may set or clear it.
JoinRead(p) ==
  LET i == FirstRow(req[p].who)
  IN  /\ At(p, {"join"}, "read")
      /\ IF i # 0 THEN Keep(p, "push", [req[p] EXCEPT !.copy = rows[i].result])
         ELSE \E label \in {"create", "push"} : Goto(p, label)
      /\ UNCHANGED <<profiles, s3, exits, rd, tests, overlapped>>

CreateTest(p) ==
  /\ At(p, {"join"}, "create")
  /\ created' = created \cup {<<req[p].who, req[p].step>>}
  /\ Goto(p, "save")
  /\ UNCHANGED <<profiles, s3, exits, rd, rows, entries, overlapped>>

\* Faulty variant: the two numbers of savePsTestUrlInfo are swapped.
SaveTestSwapped(p) ==
  /\ At(p, {"join"}, "save")
  /\ rows' = Append(rows, [user |-> req[p].step, test |-> req[p].who, result |-> None])
  /\ Goto(p, "push")
  /\ UNCHANGED <<profiles, s3, exits, rd, created, entries, overlapped>>

SaveTest(p) ==
  /\ At(p, {"join"}, "save")
  /\ rows' = Append(rows, [user |-> req[p].who, test |-> req[p].step, result |-> None])
  /\ Goto(p, "push")
  /\ UNCHANGED <<profiles, s3, exits, rd, created, entries, overlapped>>

\* Faulty variant: the copied result is not handed to addCandidate.
JoinPushWithoutResult(p) ==
  LET q == req[p]
  IN  /\ At(p, {"join"}, "push")
      /\ IF entries[q.step][q.who].in THEN Fail(p)
         ELSE /\ entries' = [entries EXCEPT ![q.step][q.who] = [NoEntry EXCEPT !.in = TRUE]]
              /\ Goto(p, "answered")
              /\ UNCHANGED <<profiles, s3, exits, rd, created, rows, overlapped>>

\* addCandidate and the commit.
JoinPush(p) ==
  LET q == req[p]
  IN  /\ At(p, {"join"}, "push")
      /\ IF entries[q.step][q.who].in THEN Fail(p)
         ELSE /\ entries' = [entries EXCEPT ![q.step][q.who] =
                           [in |-> TRUE, result |-> q.copy, byHand |-> FALSE]]
              /\ Goto(p, "answered")
              /\ UNCHANGED <<profiles, s3, exits, rd, created, rows, overlapped>>

\* addCandidate by the route of its own: the entry gets no result.
Place(p) ==
  LET q == req[p]
  IN  /\ At(p, {"place"}, "read")
      /\ IF entries[q.step][q.who].in THEN Fail(p)
         ELSE /\ entries' = [entries EXCEPT ![q.step][q.who] =
                           [in |-> TRUE, result |-> None, byHand |-> TRUE]]
              /\ Goto(p, "answered")
              /\ UNCHANGED <<profiles, s3, exits, rd, created, rows, overlapped>>

\* The webhook: findByExternalId.
ResultRead(p) ==
  /\ At(p, {"result"}, "read")
  /\ Goto(p, "rows")
  /\ UNCHANGED <<profiles, s3, exits, rd, tests, overlapped>>

\* findOneAndUpdate of the oldest row of this candidate and test.  A join that has
\* read the rows and has not pushed its entry overlaps.
ResultRow(p) ==
  LET q == req[p]
      i == SelectInSeq(rows, LAMBDA row : row.user = q.who /\ row.test = q.step)
      joins == {j \in Active : /\ req[j].op = "join" /\ req[j].who = q.who
                               /\ pc[j] # "read"}
  IN  /\ At(p, {"result"}, "rows")
      /\ rows' = IF i = 0 THEN rows ELSE [rows EXCEPT ![i].result = p[1]]
      /\ Goto(p, "entries")
      /\ overlapped' = overlapped \cup {<<req[j].step, q.who>> : j \in joins}
      /\ UNCHANGED <<profiles, s3, exits, rd, created, entries>>

\* updateMany over the steps of all jobs; errors are only logged.
ResultEntries(p) ==
  LET c == req[p].who
  IN  /\ At(p, {"result"}, "entries")
      /\ entries' = [s \in Step |-> IF entries[s][c].in
                                    THEN [entries[s] EXCEPT ![c].result = p[1]]
                                    ELSE entries[s]]
      /\ Goto(p, "answered")
      /\ UNCHANGED <<profiles, s3, exits, rd, created, rows, overlapped>>

-----------------------------------------------------------------------------
Progress(p) ==
  \/ MediaRead(p) \/ MediaRemove(p) \/ MediaUpload(p) \/ MediaWrite(p)
  \/ AcademicBackground(p) \/ InvalidUniversity(p) \/ Experience(p) \/ Language(p)
  \/ Tool(p) \/ Certificate(p) \/ Patch(p) \/ Company(p) \/ Segment(p) \/ Benefit(p)
  \/ SignupStore(p) \/ SignupEmit(p) \/ CourseRead(p) \/ CourseWrite(p) \/ Award(p)
  \/ SyncRead(p) \/ SyncNone(p) \/ SyncFound(p) \/ SyncWrite(p) \/ SsoRead(p) \/ SsoWrite(p)
  \/ FirstAccess(p) \/ ContactEvent(p) \/ Refused(p) \/ PostContact(p) \/ GetContact(p)
  \/ PatchContact(p) \/ BackupRead(p) \/ BackupSet(p)
  \/ JoinRead(p) \/ CreateTest(p) \/ SaveTest(p) \/ JoinPush(p) \/ Place(p)
  \/ ResultRead(p) \/ ResultRow(p) \/ ResultEntries(p)

Next ==
  /\ \/ \E r \in Req : Arrive(r)
     \/ \E p \in Proc : Progress(p) \/ CallFails(p)
     \/ ProcessExit
     \/ CacheExpires
  /\ UNCHANGED area

Spec == Init /\ [][Next]_vars

-----------------------------------------------------------------------------
(* Properties *)

TypeOK ==
  /\ area \in Areas
  /\ employee \in [Employee -> EmployeeDoc]
  /\ employer \in [Employer -> EmployerDoc]
  /\ s3 \in [Key -> Employee \cup Employer \cup {None}]
  /\ exits \in 0..MaxExit
  /\ contacts \in [Employee -> Writer]
  /\ access \in BOOLEAN
  /\ backup \subseteq Failed
  /\ created \subseteq Employee \X Step
  /\ rows \in Seq(Row)
  /\ entries \in [Step -> [Employee -> Entry]]
  /\ pc \in [Proc -> Label]
  /\ \A p \in Proc : IF p \in Active THEN req[p] \in Request
                       ELSE req[p] \in Request \cup {NoRequest}

\* The picture and the curriculum that a profile names are stored and are those of
\* that employee, whatever updates of them overlap, unless an update has removed
\* the file and has not written the new key yet, or stopped there.
MediaStored ==
  \A c \in Employee, op \in {"image", "pdf"} :
    LET k == employee[c][op]
    IN  \/ k = None
        \/ s3[k] = c
        \/ <<c, op, k>> \in overlapped
        \/ \E p \in Active : /\ req[p].who = c /\ req[p].op = op
                              /\ pc[p] \in {"upload", "write"}

\* An item of a profile appears by its addition and leaves by a deletion that names
\* it, or a PATCH of the profile replaces its list: no concurrent edit of another
\* item loses it, and the update of a deleted item does not bring it back.
ItemsByName ==
  [][\A c \in Employee, l \in List, i \in Item :
       LET before == employee[c].lists[l][i]
           after == employee'[c].lists[l][i]
       IN  (before = None) # (after = None) =>
             \E p \in Active :
               /\ pc'[p] = "answered" /\ req[p].who = c /\ req[p].list = l
               /\ \/ req[p].op = "patch"
                  \/ req[p].op = "add" /\ p[1] = i /\ before = None
                  \/ req[p].op = "delete" /\ req[p].item = i /\ after = None]_vars

\* Once the event of an answered signup is handled, RD Station has the contact or
\* the backup has it with its email, unless its backup overlapped with another one,
\* was cut short, or ended with its cache entry, seven days after the last backup.
ContactKept ==
  \A r \in Req :
    LET p == <<r, "contact">>
        c == req[<<r, "http">>].who
    IN  /\ pc[<<r, "http">>] = "answered" /\ pc[p] = "answered"
        /\ p \notin overlapped
        => contacts[c] # None \/ \E b \in backup : b.email = c

\* When the oldest test of a candidate has a result, every entry that a join gave
\* the candidate in a first step shows one, although the join copies it and the
\* webhook sets it, unless the two overlapped or the webhook stopped between its two
\* updates.  Of an entry that was placed by hand nothing is said: addCandidate looks
\* no result up, and such an entry shows only what a later webhook sets.
EntryShowsResult ==
  \A c \in Employee, s \in Step :
    LET i == FirstRow(c)
    IN  i # 0 /\ entries[s][c].in /\ ~entries[s][c].byHand =>
          \/ rows[i].result = None
          \/ entries[s][c].result # None
          \/ <<s, c>> \in overlapped
          \/ \E p \in Active : req[p].op = "result" /\ pc[p] = "entries" /\ req[p].who = c
=============================================================================
