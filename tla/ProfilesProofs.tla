--------------------------- MODULE ProfilesProofs ---------------------------
(***************************************************************************)
(* What the profiles and the systems beside them keep, for any number of   *)
(* requests, employees, employers and steps.                               *)
(***************************************************************************)
EXTENDS Profiles, WellFoundedInduction, TLAPS

-----------------------------------------------------------------------------
(* The inductive invariant *)

EmployeeMedia == {"image", "pdf"}

\* The files of employees never have the key of an employer's picture.
FileKey == Req \cup OldKey

\* The labels of a process of each kind, http aside, while it is active.
LabelsOf(kind) ==
  IF kind = "contact" THEN {"event", "post", "backup", "keep"}
  ELSE IF kind = "sync" THEN {"event", "read", "write"}
  ELSE {"event", "get", "patch", "backup", "keep"}

\* Who a request may be about, when the employees in T are there.
WhomEver(op, T) ==
  IF op \in {"avatar", "company", "segment", "benefit"} THEN Employer
  ELSE IF op \in {"signup", "result"} THEN Employee
  ELSE IF op \in {"course", "award"} THEN T \cup Employer \cup {None}
  ELSE IF op = "code" THEN {None}
  ELSE T

KeysOf(op) ==
  IF op = "avatar" THEN AvatarKey \cup {None}
  ELSE IF op \in EmployeeMedia THEN FileKey \cup {None}
  ELSE {None}

\* The call q of a request at label l.
HttpCallOK(l, q, T) ==
  /\ l \notin {"post", "get", "patch", "backup", "keep"}
  /\ q.who \in WhomEver(q.op, T)
  /\ q.list \in Lists(q.op)
  /\ q.item \in Items(q.op)
  /\ q.op \in {"join", "place", "result"} => q.step \in Step
  /\ q.key \in KeysOf(q.op)
  /\ q.op = "signup" /\ l = "event" => q.who \in T

\* The call q of an event handler of this kind at label l: CLIENT_CREATED has an
\* employee, whose version is known, and so has CLIENT_UPDATED or it has null.
EventCallOK(kind, l, q, T) ==
  /\ l \in LabelsOf(kind)
  /\ q.op = "patch" /\ q.key = None
  /\ q.who \in T \cup {None}
  /\ q.who # None => q.version # None
  /\ kind \in {"contact", "sync"} => q.who \in T

CallOK(p, l, q, T) ==
  IF p[2] = "http" THEN HttpCallOK(l, q, T) ELSE EventCallOK(p[2], l, q, T)

\* The contact of a signup is handled after its answer, for the same employee.
SignupOK(r) ==
  LET h == <<r, "http">>
      p == <<r, "contact">>
  IN  pc[p] # "idle" =>
        /\ pc[h] = "answered" /\ req[h] \in Request
        /\ req[h].op = "signup" /\ req[h].who \in Employee
        /\ p \in Active => req[p].who = req[h].who

ControlOK ==
  /\ pc \in [Proc -> Label]
  /\ DOMAIN req = Proc
  /\ \A p \in Proc : IF p \in Active THEN req[p] \in Request /\ CallOK(p, pc[p], req[p], There)
                     ELSE req[p] \in Request \cup {NoRequest}
  /\ \A r \in Req : SignupOK(r)

\* Who is stored has a version; each kind of profile has keys of its own.
DocsOK ==
  /\ employee \in [Employee -> EmployeeDoc]
  /\ employer \in [Employer -> EmployerDoc]
  /\ \A c \in There : employee[c].version # None
  /\ \A c \in Employee, op \in EmployeeMedia : employee[c][op] \in FileKey \cup {None}
  /\ \A e \in Employer : employer[e].image \in AvatarKey \cup {None}

OutsideOK ==
  /\ area \in Areas
  /\ s3 \in [Key -> Employee \cup Employer \cup {None}]
  /\ exits \in 0..MaxExit
  /\ contacts \in [Employee -> Writer]
  /\ access \in BOOLEAN
  /\ backup \subseteq Failed

TestsTyped ==
  /\ created \subseteq Employee \X Step
  /\ rows \in Seq(Row)
  /\ entries \in [Step -> [Employee -> Entry]]

BaseInv == ControlOK /\ DocsOK /\ OutsideOK /\ TestsTyped

-----------------------------------------------------------------------------
MediaCalls == {p \in Active : req[p].op \in EmployeeMedia}

\* The key that a request draws is in a profile or in a call once it has answered.
Answered(k) == k \in Req => pc[<<k, "http">>] = "answered"

\* Two profile entries never have the same file; an update that has read a key has
\* the key of its own entry; what it has uploaded stays stored until it writes.
KeysOK ==
  /\ \A c \in Employee, op \in EmployeeMedia : Answered(employee[c][op])
  /\ \A c, d \in Employee, op, o \in EmployeeMedia :
       employee[c][op] = employee[d][o] /\ employee[c][op] # None => c = d /\ op = o
  /\ \A p \in MediaCalls : Answered(req[p].key)
  /\ \A p \in MediaCalls, c \in Employee, op \in EmployeeMedia :
       req[p].key = employee[c][op] /\ employee[c][op] # None
         => c = req[p].who /\ op = req[p].op
  /\ \A p \in MediaCalls : pc[p] = "write" => s3[p[1]] = req[p].who

\* MediaStored, where the update that has removed the file is the one that read k.
FileOK(c, op) ==
  LET k == employee[c][op]
  IN  \/ k = None
      \/ s3[k] = c
      \/ <<c, op, k>> \in overlapped
      \/ \E p \in MediaCalls : /\ req[p].who = c /\ req[p].op = op /\ req[p].key = k
                               /\ pc[p] \in {"upload", "write"}

MediaOK == KeysOK /\ \A c \in Employee, op \in EmployeeMedia : FileOK(c, op)

-----------------------------------------------------------------------------
Keeping == {q \in Proc : pc[q] = "keep"}

Backed(c) == \E b \in backup : b.email = c

\* The contact of employee c is at RD Station, or in the backup and in all that is
\* about to be the backup.
KeptFor(c) ==
  \/ contacts[c] # None
  \/ Backed(c) /\ \A q \in Keeping : \E b \in req[q].seen : b.email = c

ContactsOK ==
  /\ \A p, q \in Keeping : p # q => p \in overlapped
  /\ \A r \in Req :
       LET p == <<r, "contact">>
       IN  pc[p] = "answered" /\ p \notin overlapped => KeptFor(req[<<r, "http">>].who)

-----------------------------------------------------------------------------
\* The oldest test of c has a result.
HasResult(c) == FirstRow(c) # 0 /\ rows[FirstRow(c)].result # None

\* The joins that have read the rows.
Joins == {p \in Active : req[p].op = "join" /\ pc[p] # "read"}

\* A webhook that has set the row of c and not yet the entries.
Showing(c) == \E p \in Active : req[p].op = "result" /\ pc[p] = "entries" /\ req[p].who = c

\* A join has copied the result, or a webhook has overlapped with it.
JoinOK(p) ==
  HasResult(req[p].who) =>
    req[p].copy # None \/ <<req[p].step, req[p].who>> \in overlapped

ResultsOK ==
  /\ \A c \in Employee, s \in Step :
       HasResult(c) /\ entries[s][c].in /\ ~entries[s][c].byHand =>
         entries[s][c].result # None \/ <<s, c>> \in overlapped \/ Showing(c)
  /\ \A p \in Joins : JoinOK(p)

IInv == BaseInv /\ MediaOK /\ ContactsOK /\ ResultsOK

-----------------------------------------------------------------------------
(* How a step changes the calls *)

\* The process q is left alone.
Same(q) == pc'[q] = pc[q] /\ req'[q] = req[q]

\* The process q starts to handle an event that p has emitted.
Hears(q, p) ==
  /\ q[2] # "http" /\ pc'[q] = "event" /\ req'[q] \in Request
  /\ EventCallOK(q[2], "event", req'[q], There')
  /\ q[2] = "contact" => /\ p = <<q[1], "http">> /\ pc'[p] = "answered"
                         /\ req[p].op = "signup" /\ req'[q].who = req[p].who

Ends(p) == pc'[p] = "answered" /\ req'[p] = Kept(req[p])

Goes(p) ==
  /\ pc'[p] \in Label \ {"idle", "answered", "failed"}
  /\ req'[p] \in Request /\ req'[p].op = req[p].op
  /\ CallOK(p, pc'[p], req'[p], There')
  /\ p[2] = "contact" => req'[p].who = req[p].who

\* One operation of p.
Turns(p) ==
  /\ DOMAIN req' = Proc /\ pc' \in [Proc -> Label]
  /\ \A q \in Proc \ {p} : Same(q) \/ Hears(q, p)
  /\ Ends(p) \/ Goes(p)

\* A process is a pair.
LEMMA Pairs ==
  ASSUME NEW p \in Proc
  PROVE  p = <<p[1], p[2]>> /\ p[1] \in Req /\ p[2] \in {"http", "contact", "sync", "update"}
BY DEF Proc

\* An active process has a call.
LEMMA Called ==
  ASSUME ControlOK, NEW p \in Active
  PROVE  /\ p \in Proc /\ req[p] \in Request /\ CallOK(p, pc[p], req[p], There)
         /\ pc[p] \in Label \ {"idle", "answered", "failed"}
BY DEF ControlOK, Active

\* Active, primed.
LEMMA ActiveNext ==
  Active' = {p \in Proc : pc'[p] \notin {"idle", "answered", "failed"}}
BY DEF Active

\* A call stays as it should be when more employees are there.
LEMMA CallGrows ==
  ASSUME NEW p, NEW l, NEW q, NEW T, NEW U, T \subseteq U, CallOK(p, l, q, T)
  PROVE  CallOK(p, l, q, U)
BY DEF CallOK, HttpCallOK, EventCallOK, WhomEver

\* What is kept of an answered call.
LEMMA KeptType ==
  ASSUME NEW q \in Request
  PROVE  /\ Kept(q) \in Request \cup {NoRequest}
         /\ q.op = "signup" => Kept(q) \in Request /\ Kept(q).op = "signup" /\ Kept(q).who = q.who
BY DEF Kept, Request

\* Leaving or going on with the same call.
LEMMA GotoTurns ==
  ASSUME ControlOK, There \subseteq There', NEW p \in Active,
         NEW l \in Label \ {"idle", "failed"}, Goto(p, l),
         l # "answered" => CallOK(p, l, req[p], There)
  PROVE  /\ Turns(p) /\ pc'[p] = l /\ (l # "answered" => req'[p] = req[p])
         /\ \A q \in Proc \ {p} : Same(q)
<1>1. p \in Proc /\ req[p] \in Request /\ pc \in [Proc -> Label] /\ DOMAIN req = Proc
  BY Called DEF ControlOK
<1>2. CASE l = "answered"
  <2>1. pc' = [q \in Proc |-> IF q \in {p} THEN l ELSE pc[q]]
    BY <1>2 DEF Goto, End
  <2>2. req' = [q \in Proc |-> IF q \in {p} THEN Kept(req[q]) ELSE req[q]]
    BY <1>2 DEF Goto, End
  <2>3. \A q \in Proc \ {p} : Same(q)
    BY <2>1, <2>2 DEF Same
  <2>4. Ends(p)
    BY <2>1, <2>2, <1>1, <1>2 DEF Ends
  <2>5. DOMAIN req' = Proc /\ pc' \in [Proc -> Label]
    BY <2>1, <2>2, <1>1
  <2> QED  BY <2>3, <2>4, <2>5, <1>2 DEF Turns, Ends
<1>3. CASE l # "answered"
  <2>1. pc' = [pc EXCEPT ![p] = l] /\ req' = req
    BY <1>3 DEF Goto
  <2>2. \A q \in Proc \ {p} : Same(q)
    BY <2>1, <1>1 DEF Same
  <2>3. CallOK(p, l, req[p], There')
    BY <1>3, CallGrows
  <2>4. pc'[p] = l /\ req'[p] = req[p]
    BY <2>1, <1>1
  <2>5. Goes(p)
    BY <2>3, <2>4, <1>1, <1>3 DEF Goes
  <2>6. DOMAIN req' = Proc /\ pc' \in [Proc -> Label]
    BY <2>1, <1>1
  <2> QED  BY <2>2, <2>4, <2>5, <2>6 DEF Turns
<1> QED  BY <1>2, <1>3

\* Going on with what was read.
LEMMA KeepTurns ==
  ASSUME ControlOK, There \subseteq There', NEW p \in Active,
         NEW l \in Label \ {"idle", "answered", "failed"}, NEW q \in Request, Keep(p, l, q),
         q.op = req[p].op, CallOK(p, l, q, There), p[2] = "contact" => q.who = req[p].who
  PROVE  /\ Turns(p) /\ pc'[p] = l /\ req'[p] = q
         /\ \A s \in Proc \ {p} : Same(s)
<1>1. p \in Proc /\ pc \in [Proc -> Label] /\ DOMAIN req = Proc
  BY Called DEF ControlOK
<1>2. pc' = [pc EXCEPT ![p] = l] /\ req' = [req EXCEPT ![p] = q]
  BY DEF Keep
<1>3. \A s \in Proc \ {p} : Same(s)
  BY <1>1, <1>2 DEF Same
<1>4. pc'[p] = l /\ req'[p] = q
  BY <1>1, <1>2
<1>5. CallOK(p, l, q, There')
  BY CallGrows
<1>6. Goes(p)
  BY <1>4, <1>5 DEF Goes
<1>7. DOMAIN req' = Proc /\ pc' \in [Proc -> Label]
  BY <1>1, <1>2
<1> QED  BY <1>3, <1>4, <1>6, <1>7 DEF Turns

\* Leaving with an event.
LEMMA EmitTurns ==
  ASSUME ControlOK, There \subseteq There', NEW p \in Active, p[2] \in {"http", "sync"},
         NEW events \in {{"contact", "sync"}, {"update"}},
         NEW c \in There' \cup {None}, NEW v \in Writer, c # None => v # None,
         "contact" \in events => /\ p[2] = "http" /\ req[p].op = "signup"
                                 /\ c = req[p].who /\ c \in There',
         Emit(p, events, c, v)
  PROVE  Turns(p) /\ pc'[p] = "answered"
<1> DEFINE heard == {<<p[1], e>> : e \in events}
           data == [Call("patch", c, None, None, None) EXCEPT !.version = v]
<1>1. p \in Proc /\ req[p] \in Request /\ pc \in [Proc -> Label]
  BY Called DEF ControlOK
<1>2. pc' = [q \in Proc |-> IF q = p THEN "answered" ELSE IF q \in heard THEN "event" ELSE pc[q]]
  BY DEF Emit
<1>3. req' = [q \in Proc |-> IF q = p THEN Kept(req[p]) ELSE IF q \in heard THEN data ELSE req[q]]
  BY DEF Emit
<1>4. c \in Employee \cup {None}
  BY DEF There
<1>5. /\ data \in Request /\ data.op = "patch" /\ data.who = c /\ data.key = None
      /\ data.version = v
  BY <1>4 DEF Call, Request, Operations
<1> HIDE DEF data
<1>6. Ends(p)
  BY <1>1, <1>2, <1>3 DEF Ends
<1>7. ASSUME NEW q \in Proc \ {p} PROVE Same(q) \/ Hears(q, p)
  <2>1. CASE q \notin heard
    BY <2>1, <1>2, <1>3 DEF Same
  <2>2. CASE q \in heard
    <3>1. q[1] = p[1] /\ q[2] \in events
      BY <2>2
    <3>2. q[2] \in {"contact", "sync", "update"}
      BY <3>1
    <3>3. pc'[q] = "event" /\ req'[q] = data
      BY <2>2, <1>2, <1>3
    <3>4. q[2] \in {"contact", "sync"} => "contact" \in events
      BY <3>1
    <3>5. EventCallOK(q[2], "event", data, There')
      BY <1>5, <3>2, <3>4 DEF EventCallOK, LabelsOf
    <3>6. q[2] = "contact" => p = <<q[1], "http">>
      BY <3>1, <3>4, Pairs, <1>1
    <3> QED  BY <3>2, <3>3, <3>4, <3>5, <3>6, <1>5, <1>6 DEF Hears, Ends
  <2> QED  BY <2>1, <2>2
<1>8. DOMAIN req' = Proc /\ pc' \in [Proc -> Label]
  BY <1>1, <1>2, <1>3 DEF Label
<1> QED  BY <1>6, <1>7, <1>8 DEF Turns, Ends

\* One operation keeps the control consistent.
LEMMA TurnsControl ==
  ASSUME ControlOK, There \subseteq There', NEW p \in Active, Turns(p)
  PROVE  ControlOK'
<1>1. p \in Proc /\ req[p] \in Request
  BY Called
<1>2. ASSUME NEW q \in Proc
      PROVE  IF q \in Active' THEN req'[q] \in Request /\ CallOK(q, pc'[q], req'[q], There')
             ELSE req'[q] \in Request \cup {NoRequest}
  <2>1. CASE q = p /\ Ends(p)
    BY <2>1, <1>1, ActiveNext, KeptType DEF Ends
  <2>2. CASE q = p /\ Goes(p)
    BY <2>2 DEF Goes
  <2>3. CASE q # p /\ Same(q)
    <3>1. q \in Active' <=> q \in Active
      BY <2>3, ActiveNext DEF Same, Active
    <3>2. IF q \in Active THEN req[q] \in Request /\ CallOK(q, pc[q], req[q], There)
          ELSE req[q] \in Request \cup {NoRequest}
      BY DEF ControlOK
    <3> QED  BY <2>3, <3>1, <3>2, CallGrows DEF Same
  <2>4. CASE q # p /\ Hears(q, p)
    BY <2>4 DEF Hears, CallOK
  <2> QED  BY <2>1, <2>2, <2>3, <2>4 DEF Turns
<1>3. ASSUME NEW r \in Req PROVE SignupOK(r)'
  <2> DEFINE h == <<r, "http">>
             s == <<r, "contact">>
  <2>1. h \in Proc /\ s \in Proc /\ h # s /\ s[2] = "contact" /\ h[2] = "http" /\ s[1] = r
    BY DEF Proc
  <2>2. SignupOK(r)
    BY DEF ControlOK
  <2>3. CASE s # p /\ Hears(s, p)
    <3>1. p = h /\ pc'[h] = "answered" /\ req[h].op = "signup" /\ req'[s].who = req[h].who
      BY <2>1, <2>3 DEF Hears
    <3>2. req'[h] = Kept(req[h])
      BY <3>1 DEF Turns, Ends, Goes
    <3>3. req'[h] \in Request /\ req'[h].op = "signup" /\ req'[h].who = req[h].who
      BY <3>1, <3>2, <1>1, KeptType
    <3>4. req[h].who \in Employee
      BY <3>1, <2>1, Called DEF CallOK, HttpCallOK, WhomEver
    <3> QED  BY <3>1, <3>3, <3>4 DEF SignupOK
  <2>4. CASE (s = p \/ Same(s)) /\ pc'[s] # "idle"
    <3>1. pc[s] # "idle"
      BY <2>4 DEF Same, Active
    <3>2. /\ pc[h] = "answered" /\ req[h] \in Request /\ req[h].op = "signup"
          /\ req[h].who \in Employee /\ (s \in Active => req[s].who = req[h].who)
      BY <2>2, <3>1 DEF SignupOK
    <3>3. Same(h)
      BY <2>1, <3>2 DEF Active, Turns, Hears
    <3>4. s \in Active' => req'[s].who = req[h].who
      <4>1. CASE s = p
        BY <4>1, <2>1, <3>2, ActiveNext DEF Turns, Ends, Goes
      <4>2. CASE s # p
        BY <4>2, <2>1, <2>4, <3>2, ActiveNext DEF Same, Active
      <4> QED  BY <4>1, <4>2
    <3> QED  BY <3>2, <3>3, <3>4 DEF SignupOK, Same
  <2>5. CASE pc'[s] = "idle"
    BY <2>5 DEF SignupOK
  <2> QED  BY <2>1, <2>3, <2>4, <2>5 DEF Turns
<1> QED  BY <1>2, <1>3 DEF ControlOK, Turns

\* A call that arrives is one that the operation may get.
LEMMA CallTypes ==
  ASSUME BaseInv, NEW op \in Operations, NEW c \in Whom(op), NEW l \in Lists(op),
         NEW i \in Items(op), NEW s \in Steps(op, c)
  PROVE  /\ Call(op, c, l, i, s) \in Request
         /\ HttpCallOK("read", Call(op, c, l, i, s), There)
         /\ Call(op, c, l, i, s).op = op /\ Call(op, c, l, i, s).key = None
<1>1. created \subseteq Employee \X Step
  BY DEF BaseInv, TestsTyped
<1>2. There \subseteq Employee
  BY DEF There
<1>3. CASE op = "result"
  <2>1. PICK t \in created : c = t[1]
    BY <1>3 DEF Whom
  <2>2. c \in Employee
    BY <2>1, <1>1
  <2>3. s \in Step
    BY <1>1, <1>3 DEF Steps
  <2> QED  BY <2>2, <2>3, <1>3 DEF Call, Request, Writer, HttpCallOK, WhomEver, KeysOf,
                                   EmployeeMedia, Lists, Items
<1>4. CASE op # "result"
  <2>1. c \in WhomEver(op, There)
    BY <1>2, <1>4 DEF Whom, WhomEver
  <2>2. c \in Employee \cup Employer \cup {None}
    BY <2>1, <1>2 DEF WhomEver
  <2>3. s \in Step \cup {None} /\ (op \in {"join", "place"} => s \in Step)
    BY <1>4 DEF Steps
  <2>4. l \in List \cup {None} /\ i \in Item \cup {None}
    BY DEF Lists, Items
  <2> QED  BY <2>1, <2>2, <2>3, <2>4, <1>4 DEF Call, Request, Writer, HttpCallOK, KeysOf,
                                          EmployeeMedia
<1> QED  BY <1>3, <1>4

\* What the arrival of request r does.
Arrived(r) ==
  LET p == <<r, "http">>
  IN  /\ pc[p] = "idle" /\ pc'[p] = "read"
      /\ DOMAIN req' = Proc /\ pc' \in [Proc -> Label]
      /\ req'[p] \in Request /\ HttpCallOK("read", req'[p], There) /\ req'[p].key = None
      /\ \A q \in Proc \ {p} : Same(q)
      /\ UNCHANGED <<profiles, s3, exits, rd, tests, overlapped>>

\* An arrival, unfolded.
LEMMA ArriveDoes ==
  ASSUME BaseInv, NEW r \in Req, Arrive(r)
  PROVE  Arrived(r)
<1> DEFINE p == <<r, "http">>
<1>1. p \in Proc /\ pc \in [Proc -> Label] /\ DOMAIN req = Proc
  BY DEF Proc, BaseInv, ControlOK
<1>2. PICK op \in area.ops, c \in Employee \cup Employer \cup {None} :
        /\ c \in Whom(op)
        /\ \E l \in Lists(op), i \in Items(op), s \in Steps(op, c) :
             req' = [req EXCEPT ![p] = Call(op, c, l, i, s)]
  <2>1. PICK op \in area.ops : \E c \in Whom(op) :
          \E l \in Lists(op), i \in Items(op), s \in Steps(op, c) :
             req' = [req EXCEPT ![p] = Call(op, c, l, i, s)]
    BY DEF Arrive
  <2>2. PICK c \in Whom(op) :
          \E l \in Lists(op), i \in Items(op), s \in Steps(op, c) :
             req' = [req EXCEPT ![p] = Call(op, c, l, i, s)]
    BY <2>1
  <2>3. c \in Employee \cup Employer \cup {None}
    BY DEF Whom, There, BaseInv, TestsTyped
  <2> QED  BY <2>1, <2>2, <2>3
<1>3. PICK l \in Lists(op), i \in Items(op), s \in Steps(op, c) :
        req' = [req EXCEPT ![p] = Call(op, c, l, i, s)]
  BY <1>2
<1>4. op \in Operations
  BY ProfilesAssumption DEF BaseInv, OutsideOK
<1>5. /\ Call(op, c, l, i, s) \in Request /\ HttpCallOK("read", Call(op, c, l, i, s), There)
      /\ Call(op, c, l, i, s).key = None
  BY <1>2, <1>4, CallTypes
<1>6. req'[p] = Call(op, c, l, i, s) /\ DOMAIN req' = Proc
  BY <1>1, <1>3
<1>7. pc[p] = "idle" /\ pc' = [pc EXCEPT ![p] = "read"]
  BY DEF Arrive
<1>8. pc'[p] = "read" /\ pc' \in [Proc -> Label]
  BY <1>1, <1>7 DEF Label
<1>9. \A q \in Proc \ {p} : Same(q)
  BY <1>1, <1>3, <1>7 DEF Same
<1>10. UNCHANGED <<profiles, s3, exits, rd, tests, overlapped>>
  BY DEF Arrive
<1> QED  BY <1>5, <1>6, <1>7, <1>8, <1>9, <1>10 DEF Arrived

\* What it does when the calls of P stop.
Stopped(P) ==
  /\ DOMAIN req' = Proc /\ pc' \in [Proc -> Label]
  /\ \A p \in P : pc'[p] = "failed" /\ req'[p] = Kept(req[p])
  /\ \A p \in Proc \ P : Same(p)
  /\ overlapped \subseteq overlapped' /\ \A p \in P : HalfDone(p) \subseteq overlapped'
  /\ UNCHANGED <<profiles, s3, rd, tests>>

\* Calls that stop, unfolded.
LEMMA StopDoes ==
  ASSUME ControlOK, NEW P \in SUBSET Active, NEW exit, Stop(P, exit)
  PROVE  Stopped(P)
<1>1. P \subseteq Proc /\ pc \in [Proc -> Label] /\ DOMAIN req = Proc
  BY DEF Active, ControlOK
<1>2. /\ pc' = [p \in Proc |-> IF p \in P THEN "failed" ELSE pc[p]]
      /\ req' = [p \in Proc |-> IF p \in P THEN Kept(req[p]) ELSE req[p]]
  BY DEF Stop, End
<1>3. pc' \in [Proc -> Label] /\ DOMAIN req' = Proc
  BY <1>1, <1>2 DEF Label
<1>4. \A p \in P : pc'[p] = "failed" /\ req'[p] = Kept(req[p])
  BY <1>1, <1>2
<1>5. \A p \in Proc \ P : Same(p)
  BY <1>2 DEF Same
<1>6. overlapped' = overlapped \cup UNION {HalfDone(p) : p \in P}
  BY DEF Stop
<1>7. UNCHANGED <<profiles, s3, rd, tests>>
  BY DEF Stop
<1> QED  BY <1>3, <1>4, <1>5, <1>6, <1>7 DEF Stopped

\* An arrival keeps the control consistent.
LEMMA ArrivedControl ==
  ASSUME ControlOK, There' = There, NEW r \in Req, Arrived(r)
  PROVE  ControlOK'
<1> DEFINE p == <<r, "http">>
<1>1. p \in Proc /\ p[2] = "http" /\ pc[p] = "idle" /\ pc'[p] = "read"
  BY DEF Proc, Arrived
<1>2. ASSUME NEW q \in Proc
      PROVE  IF q \in Active' THEN req'[q] \in Request /\ CallOK(q, pc'[q], req'[q], There')
             ELSE req'[q] \in Request \cup {NoRequest}
  <2>1. CASE q = p
    BY <2>1, <1>1, ActiveNext DEF Arrived, CallOK
  <2>2. CASE q # p
    <3>1. Same(q)
      BY <2>2 DEF Arrived
    <3>2. q \in Active' <=> q \in Active
      BY <3>1, ActiveNext DEF Same, Active
    <3> QED  BY <3>1, <3>2 DEF Same, ControlOK
  <2> QED  BY <2>1, <2>2
<1>3. ASSUME NEW t \in Req PROVE SignupOK(t)'
  <2> DEFINE h == <<t, "http">>
             s == <<t, "contact">>
  <2>1. h \in Proc /\ s \in Proc /\ s # p
    BY DEF Proc
  <2>2. SignupOK(t)
    BY DEF ControlOK
  <2>3. Same(s)
    BY <2>1 DEF Arrived
  <2>4. ASSUME pc'[s] # "idle" PROVE Same(h)
    <3>1. pc[h] = "answered"
      BY <2>2, <2>3, <2>4 DEF SignupOK, Same
    <3>2. h # p
      BY <3>1, <1>1
    <3> QED  BY <3>2, <2>1 DEF Arrived
  <2>5. s \in Active' <=> s \in Active
    BY <2>1, <2>3, ActiveNext DEF Same, Active
  <2> QED  BY <2>2, <2>3, <2>4, <2>5 DEF SignupOK, Same
<1> QED  BY <1>2, <1>3 DEF ControlOK, Arrived

\* Calls that stop keep the control consistent.
LEMMA StoppedControl ==
  ASSUME ControlOK, There' = There, NEW P \in SUBSET Active, Stopped(P)
  PROVE  ControlOK'
<1>1. ASSUME NEW q \in Proc
      PROVE  IF q \in Active' THEN req'[q] \in Request /\ CallOK(q, pc'[q], req'[q], There')
             ELSE req'[q] \in Request \cup {NoRequest}
  <2>1. CASE q \in P
    <3>1. req[q] \in Request /\ q \notin Active'
      BY <2>1, Called, ActiveNext DEF Stopped
    <3> QED  BY <2>1, <3>1, KeptType DEF Stopped
  <2>2. CASE q \notin P
    <3>1. Same(q)
      BY <2>2 DEF Stopped
    <3>2. q \in Active' <=> q \in Active
      BY <3>1, ActiveNext DEF Same, Active
    <3> QED  BY <3>1, <3>2 DEF Same, ControlOK
  <2> QED  BY <2>1, <2>2
<1>2. ASSUME NEW t \in Req PROVE SignupOK(t)'
  <2> DEFINE h == <<t, "http">>
             s == <<t, "contact">>
  <2>1. h \in Proc /\ s \in Proc
    BY DEF Proc
  <2>2. SignupOK(t)
    BY DEF ControlOK
  <2>3. pc[s] = "idle" => pc'[s] = "idle"
    BY <2>1 DEF Stopped, Same, Active
  <2>4. pc[h] = "answered" => Same(h)
    BY <2>1 DEF Stopped, Active
  <2>5. s \in Active' => s \in Active /\ Same(s)
    BY <2>1, ActiveNext DEF Stopped, Same, Active
  <2> QED  BY <2>2, <2>3, <2>4, <2>5 DEF SignupOK, Same
<1> QED  BY <1>1, <1>2 DEF ControlOK, Stopped

-----------------------------------------------------------------------------
(* What a step leaves alone *)

\* The pictures and the curricula that profiles name stay the same.
FilesKept == \A c \in Employee, op \in EmployeeMedia : employee'[c][op] = employee[c][op]

\* No file of an employee is stored or removed.
StoredKept == \A k \in FileKey : s3'[k] = s3[k]

\* Process q is where it was, in the same call.
Stays(q) == q \in Active' /\ Same(q)

\* Files, when no update of one goes on: it starts, ends with an exception or stays.
LEMMA MediaQuiet ==
  ASSUME ControlOK, DocsOK, MediaOK, FilesKept, StoredKept, overlapped \subseteq overlapped',
         \A r \in Req : pc[<<r, "http">>] = "answered" => pc'[<<r, "http">>] = "answered",
         \A q \in MediaCalls' : \/ q \in MediaCalls /\ Same(q)
                                \/ pc'[q] = "read" /\ req'[q].key = None,
         \A q \in MediaCalls :
           pc[q] \in {"upload", "write"} /\ req[q].key # None =>
             Stays(q) \/ <<req[q].who, req[q].op, req[q].key>> \in overlapped'
  PROVE  MediaOK'
<1> USE DEF MediaOK
<1>1. \A c \in Employee, op \in EmployeeMedia : employee[c][op] \in FileKey \cup {None}
  BY DEF DocsOK
<1>2. None \notin FileKey /\ None \notin Req
  BY ProfilesAssumption DEF FileKey, Key
<1>3. \A k \in FileKey \cup {None} : Answered(k) => Answered(k)'
  BY DEF Answered
<1>4. \A c \in Employee, op \in EmployeeMedia : Answered(employee[c][op])'
  BY <1>1, <1>3 DEF KeysOK, FilesKept, Answered
<1>5. \A c, d \in Employee, op, o \in EmployeeMedia :
        employee'[c][op] = employee'[d][o] /\ employee'[c][op] # None => c = d /\ op = o
  BY DEF KeysOK, FilesKept
<1>6. ASSUME NEW q \in MediaCalls'
      PROVE  /\ Answered(req[q].key)'
             /\ \A c \in Employee, op \in EmployeeMedia :
                  req'[q].key = employee'[c][op] /\ employee'[c][op] # None
                    => c = req'[q].who /\ op = req'[q].op
             /\ pc'[q] = "write" => s3'[q[1]] = req'[q].who
  <2>1. CASE q \in MediaCalls /\ Same(q)
    <3>1. q[1] \in FileKey
      BY <2>1, Pairs DEF MediaCalls, Active, FileKey
    <3>2. Answered(req[q].key)'
      BY <2>1 DEF KeysOK, Same, Answered
    <3>3. \A c \in Employee, op \in EmployeeMedia :
            req'[q].key = employee'[c][op] /\ employee'[c][op] # None
              => c = req'[q].who /\ op = req'[q].op
      BY <2>1 DEF KeysOK, Same, FilesKept
    <3>4. pc'[q] = "write" => s3'[q[1]] = req'[q].who
      BY <2>1, <3>1 DEF KeysOK, Same, StoredKept
    <3> QED  BY <3>2, <3>3, <3>4
  <2>2. CASE pc'[q] = "read" /\ req'[q].key = None
    BY <2>2, <1>2 DEF Answered
  <2> QED  BY <2>1, <2>2
<1>7. KeysOK'
  BY <1>4, <1>5, <1>6 DEF KeysOK
<1>8. ASSUME NEW c \in Employee, NEW op \in EmployeeMedia PROVE FileOK(c, op)'
  <2> DEFINE k == employee[c][op]
  <2>1. k \in FileKey \cup {None} /\ employee'[c][op] = k
    BY <1>1 DEF FilesKept
  <2>2. FileOK(c, op)
    OBVIOUS
  <2>3. CASE k = None \/ s3[k] = c \/ <<c, op, k>> \in overlapped
    BY <2>1, <2>3 DEF FileOK, StoredKept
  <2>4. CASE k # None /\ \E q \in MediaCalls : /\ req[q].who = c /\ req[q].op = op /\ req[q].key = k
                                              /\ pc[q] \in {"upload", "write"}
    <3>1. PICK q \in MediaCalls : /\ req[q].who = c /\ req[q].op = op /\ req[q].key = k
                                  /\ pc[q] \in {"upload", "write"}
      BY <2>4
    <3>2. CASE <<c, op, k>> \in overlapped'
      BY <2>1, <3>2 DEF FileOK
    <3>3. CASE Stays(q)
      <4>1. q \in MediaCalls' /\ req'[q] = req[q] /\ pc'[q] = pc[q]
        BY <3>1, <3>3 DEF Stays, Same, MediaCalls
      <4> QED  BY <2>1, <3>1, <4>1 DEF FileOK
    <3> QED  BY <2>4, <3>1, <3>2, <3>3
  <2> QED  BY <2>2, <2>3, <2>4 DEF FileOK
<1> QED  BY <1>7, <1>8

\* Contacts, when no backup is read or set and no call of RD Station succeeds.
LEMMA ContactsQuiet ==
  ASSUME ControlOK, ContactsOK, contacts' = contacts, backup' = backup,
         overlapped \subseteq overlapped',
         \A q \in Keeping' : q \in Keeping /\ Same(q),
         \A r \in Req : LET h == <<r, "http">>
                            p == <<r, "contact">>
                        IN  pc'[p] = "answered" /\ p \notin overlapped' =>
                              pc[p] = "answered" /\ Same(h)
  PROVE  ContactsOK'
<1>1. \A p, q \in Keeping' : p # q => p \in overlapped'
  BY DEF ContactsOK
<1>2. ASSUME NEW c, KeptFor(c) PROVE KeptFor(c)'
  <2>1. Backed(c)' <=> Backed(c)
    BY DEF Backed
  <2>2. \A q \in Keeping' : q \in Keeping /\ req'[q] = req[q]
    BY DEF Same
  <2> QED  BY <1>2, <2>1, <2>2 DEF KeptFor
<1>3. ASSUME NEW r \in Req, pc'[<<r, "contact">>] = "answered",
             <<r, "contact">> \notin overlapped'
      PROVE  KeptFor(req[<<r, "http">>].who)'
  <2>1. KeptFor(req[<<r, "http">>].who) /\ req'[<<r, "http">>].who = req[<<r, "http">>].who
    BY <1>3 DEF ContactsOK, Same
  <2>2. PICK c : c = req[<<r, "http">>].who
    OBVIOUS
  <2>3. KeptFor(c)'
    BY <2>1, <2>2, <1>2
  <2> QED  BY <2>1, <2>2, <2>3 DEF KeptFor, Backed
<1> QED  BY <1>1, <1>3 DEF ContactsOK

\* The rows of candidate c.
RowsOf(c) == {i \in 1..Len(rows) : rows[i].user = c}

\* FirstRow is the first of them, or 0.
LEMMA FirstRowIs ==
  ASSUME NEW c
  PROVE  FirstRow(c) = IF RowsOf(c) # {} THEN Min(RowsOf(c)) ELSE 0
BY DEF FirstRow, SelectInSeq, RowsOf

\* The same after a step.
LEMMA FirstRowNext ==
  ASSUME NEW c
  PROVE  FirstRow(c)' = IF RowsOf(c)' # {} THEN Min(RowsOf(c)') ELSE 0
BY DEF FirstRow, SelectInSeq, RowsOf

\* Results, when the rows and the entries stay and no join has read the rows.
LEMMA ResultsQuiet ==
  ASSUME ResultsOK, rows' = rows, entries' = entries, overlapped \subseteq overlapped',
         \A q \in Joins' : q \in Joins /\ req'[q] = req[q],
         \A q \in Active : req[q].op = "result" /\ pc[q] = "entries" =>
           Stays(q) \/ \A s \in Step : <<s, req[q].who>> \in overlapped'
  PROVE  ResultsOK'
<1>1. ASSUME NEW c PROVE HasResult(c)' <=> HasResult(c)
  <2>1. RowsOf(c)' = RowsOf(c)
    BY DEF RowsOf
  <2>2. FirstRow(c)' = FirstRow(c)
    BY <2>1, FirstRowIs, FirstRowNext
  <2> QED  BY <2>2 DEF HasResult
<1>2. ASSUME NEW c \in Employee, NEW s \in Step, HasResult(c)', entries'[s][c].in,
             ~entries'[s][c].byHand
      PROVE  entries'[s][c].result # None \/ <<s, c>> \in overlapped' \/ Showing(c)'
  <2>1. HasResult(c)
    BY <1>1, <1>2
  <2>2. entries[s][c].result # None \/ <<s, c>> \in overlapped \/ Showing(c)
    BY <1>2, <2>1 DEF ResultsOK
  <2>3. ASSUME Showing(c) PROVE <<s, c>> \in overlapped' \/ Showing(c)'
    <3>1. PICK q \in Active : req[q].op = "result" /\ pc[q] = "entries" /\ req[q].who = c
      BY <2>3 DEF Showing
    <3>2. CASE Stays(q)
      BY <3>1, <3>2 DEF Stays, Same, Showing
    <3>3. CASE \A t \in Step : <<t, req[q].who>> \in overlapped'
      BY <3>1, <3>3
    <3> QED  BY <3>1, <3>2, <3>3
  <2> QED  BY <2>2, <2>3
<1>3. ASSUME NEW q \in Joins' PROVE JoinOK(q)'
  <2>1. q \in Joins /\ req'[q] = req[q] /\ JoinOK(q)
    BY DEF ResultsOK
  <2>2. PICK c : c = req[q].who
    OBVIOUS
  <2>3. HasResult(c)' <=> HasResult(c)
    BY <1>1
  <2>4. HasResult(req[q].who)' <=> HasResult(c)'
    BY <2>1, <2>2 DEF HasResult, FirstRow
  <2> QED  BY <2>1, <2>2, <2>3, <2>4 DEF JoinOK
<1> QED  BY <1>2, <1>3 DEF ResultsOK

\* What hears an event handles no file, no join and no result.
LEMMA HearsOnly ==
  ASSUME ControlOK, NEW p \in Active, NEW q \in Proc \ {p}, Hears(q, p)
  PROVE  /\ q \in Active' /\ req'[q].op = "patch" /\ pc'[q] = "event"
         /\ q \in Active => req[q].op = "patch"
         /\ q[2] # "http"
<1>1. q[2] # "http" /\ pc'[q] = "event" /\ req'[q].op = "patch"
  BY DEF Hears, EventCallOK
<1>2. q \in Active => req[q].op = "patch"
  BY <1>1, Called DEF CallOK, EventCallOK
<1> QED  BY <1>1, <1>2, ActiveNext

\* A request that answered is left alone by an operation of another process.
LEMMA AnsweredSame ==
  ASSUME ControlOK, NEW p \in Active, Turns(p), NEW r \in Req,
         pc[<<r, "http">>] = "answered"
  PROVE  Same(<<r, "http">>)
<1>1. <<r, "http">> \in Proc \ {p} /\ <<r, "http">>[2] = "http"
  BY DEF Proc, Active
<1> QED  BY <1>1 DEF Turns, Hears

\* An operation on no file of an employee.
LEMMA TurnsMedia ==
  ASSUME ControlOK, DocsOK, MediaOK, FilesKept, StoredKept, overlapped \subseteq overlapped',
         NEW p \in Active, Turns(p), req[p].op \notin EmployeeMedia
  PROVE  MediaOK'
<1>1. \A r \in Req : pc[<<r, "http">>] = "answered" => pc'[<<r, "http">>] = "answered"
  BY AnsweredSame DEF Same
<1>2. ASSUME NEW q \in MediaCalls' PROVE q \in MediaCalls /\ Same(q)
  <2>1. q \in Proc /\ q \in Active' /\ req'[q].op \in EmployeeMedia
    BY <1>2, ActiveNext DEF MediaCalls
  <2>2. q # p
    BY <2>1, ActiveNext DEF Turns, Ends, Goes
  <2>3. Same(q)
    BY <2>1, <2>2, HearsOnly DEF Turns, EmployeeMedia
  <2> QED  BY <2>1, <2>3, ActiveNext DEF Same, MediaCalls, Active
<1>3. ASSUME NEW q \in MediaCalls PROVE Stays(q)
  <2>1. q \in Proc /\ q \in Active /\ q # p /\ req[q].op # "patch"
    BY DEF MediaCalls, Active, EmployeeMedia
  <2>2. Same(q)
    BY <2>1, HearsOnly DEF Turns
  <2> QED  BY <2>1, <2>2, ActiveNext DEF Same, Stays, Active
<1> QED  BY <1>1, <1>2, <1>3, MediaQuiet

\* An operation on no contact.
LEMMA TurnsContacts ==
  ASSUME ControlOK, ContactsOK, contacts' = contacts, backup' = backup,
         overlapped \subseteq overlapped',
         NEW p \in Active, Turns(p), pc'[p] # "keep",
         p[2] = "contact" => pc'[p] # "answered"
  PROVE  ContactsOK'
<1>1. ASSUME NEW q \in Keeping' PROVE q \in Keeping /\ Same(q)
  <2>1. q \in Proc \ {p} /\ pc'[q] = "keep"
    BY DEF Keeping
  <2>2. Same(q)
    BY <2>1 DEF Turns, Hears
  <2> QED  BY <2>1, <2>2 DEF Same, Keeping
<1>2. ASSUME NEW r \in Req, pc'[<<r, "contact">>] = "answered"
      PROVE  pc[<<r, "contact">>] = "answered" /\ Same(<<r, "http">>)
  <2>1. <<r, "contact">> \in Proc \ {p}
    BY <1>2 DEF Proc
  <2>2. pc[<<r, "contact">>] = "answered"
    BY <1>2, <2>1 DEF Turns, Hears, Same
  <2>3. pc[<<r, "http">>] = "answered"
    BY <2>2 DEF ControlOK, SignupOK
  <2> QED  BY <2>2, <2>3, AnsweredSame
<1> QED  BY <1>1, <1>2, ContactsQuiet

\* An operation on no test.
LEMMA TurnsResults ==
  ASSUME ControlOK, ResultsOK, rows' = rows, entries' = entries,
         overlapped \subseteq overlapped', NEW p \in Active, Turns(p),
         req[p].op \notin {"join", "result"}
  PROVE  ResultsOK'
<1>1. ASSUME NEW q \in Joins' PROVE q \in Joins /\ req'[q] = req[q]
  <2>1. q \in Proc /\ q \in Active' /\ req'[q].op = "join" /\ pc'[q] # "read"
    BY <1>1, ActiveNext DEF Joins
  <2>2. q # p
    BY <2>1, ActiveNext DEF Turns, Ends, Goes
  <2>3. Same(q)
    BY <2>1, <2>2, HearsOnly DEF Turns
  <2> QED  BY <2>1, <2>3, ActiveNext DEF Same, Joins, Active
<1>2. ASSUME NEW q \in Active, req[q].op = "result" PROVE Stays(q)
  <2>1. q \in Proc /\ q \in Active /\ q # p
    BY <1>2 DEF Active
  <2>2. Same(q)
    BY <1>2, <2>1, HearsOnly DEF Turns
  <2> QED  BY <2>1, <2>2, ActiveNext DEF Same, Stays, Active
<1> QED  BY <1>1, <1>2, ResultsQuiet

\* Calls that stop leave the invariant as it was.
LEMMA StoppedKeeps ==
  ASSUME IInv, NEW P \in SUBSET Active, Stopped(P)
  PROVE  MediaOK' /\ ContactsOK' /\ ResultsOK'
<1> USE DEF IInv, BaseInv
<1>1. /\ FilesKept /\ StoredKept /\ overlapped \subseteq overlapped'
      /\ contacts' = contacts /\ backup' = backup /\ rows' = rows /\ entries' = entries
  BY DEF Stopped, profiles, rd, tests, FilesKept, StoredKept
<1>2. ASSUME NEW q \in Proc, q \notin P
      PROVE  Same(q) /\ (q \in Active' <=> q \in Active) /\ (q \in Active => Stays(q))
  BY <1>2, ActiveNext DEF Stopped, Same, Active, Stays
<1>3. P \subseteq Proc /\ P \cap Active' = {}
  BY ActiveNext DEF Stopped, Active
<1>4. MediaOK'
  <2>1. ASSUME NEW r \in Req, pc[<<r, "http">>] = "answered"
        PROVE  pc'[<<r, "http">>] = "answered"
    <3>1. <<r, "http">> \in Proc /\ <<r, "http">> \notin P
      BY <2>1 DEF Proc, Active
    <3> QED  BY <2>1, <3>1, <1>2 DEF Same
  <2>2. ASSUME NEW q \in MediaCalls' PROVE q \in MediaCalls /\ Same(q)
    <3>1. q \in Active' /\ q \in Proc /\ q \notin P
      BY <1>3, ActiveNext DEF MediaCalls
    <3> QED  BY <3>1, <1>2 DEF Same, MediaCalls
  <2>3. ASSUME NEW q \in MediaCalls, pc[q] \in {"upload", "write"}, req[q].key # None
        PROVE  Stays(q) \/ <<req[q].who, req[q].op, req[q].key>> \in overlapped'
    <3>1. CASE q \in P
      BY <2>3, <3>1 DEF Stopped, HalfDone
    <3>2. CASE q \notin P
      BY <3>2, <1>2 DEF MediaCalls, Active
    <3> QED  BY <3>1, <3>2
  <2> QED  BY <1>1, <2>1, <2>2, <2>3, MediaQuiet
<1>5. ContactsOK'
  <2>1. ASSUME NEW q \in Keeping' PROVE q \in Keeping /\ Same(q)
    <3>1. q \in Proc /\ q \notin P
      BY DEF Keeping, Stopped
    <3> QED  BY <3>1, <1>2 DEF Same, Keeping
  <2>2. ASSUME NEW r \in Req, pc'[<<r, "contact">>] = "answered"
        PROVE  pc[<<r, "contact">>] = "answered" /\ Same(<<r, "http">>)
    <3>1. <<r, "contact">> \in Proc /\ <<r, "contact">> \notin P
      BY <2>2 DEF Proc, Stopped
    <3>2. pc[<<r, "contact">>] = "answered"
      BY <2>2, <3>1, <1>2 DEF Same
    <3>3. pc[<<r, "http">>] = "answered" /\ <<r, "http">> \in Proc
      BY <3>2 DEF ControlOK, SignupOK, Proc
    <3>4. <<r, "http">> \notin P
      BY <3>3 DEF Active
    <3> QED  BY <3>2, <3>3, <3>4, <1>2
  <2> QED  BY <1>1, <2>1, <2>2, ContactsQuiet
<1>6. ResultsOK'
  <2>1. ASSUME NEW q \in Joins' PROVE q \in Joins /\ req'[q] = req[q]
    <3>1. q \in Active' /\ q \in Proc /\ q \notin P
      BY <1>3, ActiveNext DEF Joins
    <3> QED  BY <3>1, <1>2 DEF Same, Joins
  <2>2. ASSUME NEW q \in Active, req[q].op = "result", pc[q] = "entries"
        PROVE  Stays(q) \/ \A s \in Step : <<s, req[q].who>> \in overlapped'
    <3>1. CASE q \in P
      <4>1. q[2] = "http"
        BY <2>2, Called DEF CallOK, EventCallOK
      <4>2. HalfDone(q) = {<<s, req[q].who>> : s \in Step}
        BY <2>2, <4>1 DEF HalfDone
      <4> QED  BY <3>1, <4>2 DEF Stopped
    <3>2. CASE q \notin P
      BY <3>2, <1>2 DEF Active
    <3> QED  BY <3>1, <3>2
  <2> QED  BY <1>1, <2>1, <2>2, ResultsQuiet
<1> QED  BY <1>4, <1>5, <1>6

\* So does the arrival of a request.
LEMMA ArrivedKeeps ==
  ASSUME IInv, NEW r \in Req, Arrived(r)
  PROVE  MediaOK' /\ ContactsOK' /\ ResultsOK'
<1> USE DEF IInv, BaseInv
<1> DEFINE p == <<r, "http">>
<1>1. /\ FilesKept /\ StoredKept /\ overlapped \subseteq overlapped'
      /\ contacts' = contacts /\ backup' = backup /\ rows' = rows /\ entries' = entries
  BY DEF Arrived, profiles, rd, tests, FilesKept, StoredKept
<1>2. p \in Proc /\ p \notin Active /\ pc[p] = "idle" /\ pc'[p] = "read" /\ req'[p].key = None
  BY DEF Arrived, Proc, Active
<1>3. ASSUME NEW q \in Proc \ {p}
      PROVE  Same(q) /\ (q \in Active' <=> q \in Active) /\ (q \in Active => Stays(q))
  BY ActiveNext DEF Arrived, Same, Active, Stays
<1>4. MediaOK'
  <2>1. ASSUME NEW t \in Req, pc[<<t, "http">>] = "answered"
        PROVE  pc'[<<t, "http">>] = "answered"
    <3>1. <<t, "http">> \in Proc \ {p}
      BY <2>1, <1>2 DEF Proc
    <3> QED  BY <2>1, <3>1, <1>3 DEF Same
  <2>2. ASSUME NEW q \in MediaCalls', q # p PROVE q \in MediaCalls /\ Same(q)
    <3>1. q \in Active' /\ q \in Proc \ {p}
      BY <2>2, ActiveNext DEF MediaCalls
    <3> QED  BY <3>1, <1>3 DEF Same, MediaCalls
  <2>3. ASSUME NEW q \in MediaCalls PROVE Stays(q)
    BY <1>2, <1>3 DEF MediaCalls, Active
  <2> QED  BY <1>1, <1>2, <2>1, <2>2, <2>3, MediaQuiet
<1>5. ContactsOK'
  <2>1. ASSUME NEW q \in Keeping' PROVE q \in Keeping /\ Same(q)
    <3>1. q \in Proc \ {p}
      BY <1>2 DEF Keeping
    <3> QED  BY <3>1, <1>3 DEF Same, Keeping
  <2>2. ASSUME NEW t \in Req, pc'[<<t, "contact">>] = "answered"
        PROVE  pc[<<t, "contact">>] = "answered" /\ Same(<<t, "http">>)
    <3>1. <<t, "contact">> \in Proc \ {p}
      BY DEF Proc
    <3>2. pc[<<t, "contact">>] = "answered"
      BY <2>2, <3>1, <1>3 DEF Same
    <3>3. pc[<<t, "http">>] = "answered" /\ <<t, "http">> \in Proc
      BY <3>2 DEF ControlOK, SignupOK, Proc
    <3> QED  BY <3>2, <3>3, <1>2, <1>3
  <2> QED  BY <1>1, <2>1, <2>2, ContactsQuiet
<1>6. ResultsOK'
  <2>1. ASSUME NEW q \in Joins' PROVE q \in Joins /\ req'[q] = req[q]
    <3>1. q \in Active' /\ q \in Proc \ {p}
      BY <1>2, ActiveNext DEF Joins
    <3> QED  BY <3>1, <1>3 DEF Same, Joins
  <2>2. ASSUME NEW q \in Active PROVE Stays(q)
    BY <1>2, <1>3 DEF Active
  <2> QED  BY <1>1, <2>1, <2>2, ResultsQuiet
<1> QED  BY <1>4, <1>5, <1>6

-----------------------------------------------------------------------------
(* Profiles *)

\* The items of the profiles stay the same.
ListsKept == \A c \in Employee : employee'[c].lists = employee[c].lists

\* An operation that touches no file, no contact and no test.
Plain(p) ==
  /\ Turns(p) /\ DocsOK' /\ FilesKept /\ There \subseteq There'
  /\ UNCHANGED <<s3, exits, contacts, backup, created, rows, entries, overlapped>>
  /\ access' \in BOOLEAN
  /\ req[p].op \notin EmployeeMedia \cup {"join", "result"}
  /\ pc'[p] # "keep" /\ (p[2] = "contact" => pc'[p] # "answered")

\* Such an operation keeps the invariant.
LEMMA PlainKeeps ==
  ASSUME IInv, NEW p \in Active, Plain(p), area' = area
  PROVE  IInv'
<1> USE DEF IInv, BaseInv, Plain
<1>1. ControlOK'
  BY TurnsControl
<1>2. OutsideOK' /\ TestsTyped'
  BY DEF OutsideOK, TestsTyped
<1>3. MediaOK'
  BY TurnsMedia DEF StoredKept
<1>4. ContactsOK'
  BY TurnsContacts
<1>5. ResultsOK'
  BY TurnsResults
<1> QED  BY <1>1, <1>2, <1>3, <1>4, <1>5

\* No profile and no call changes.
LEMMA SameControl ==
  ASSUME ControlOK, UNCHANGED <<pc, req, profiles>>
  PROVE  ControlOK'
<1>1. Active' = Active /\ There' = There /\ pc' = pc /\ req' = req
  BY DEF Active, There, profiles
<1>2. ASSUME NEW p \in Proc
      PROVE  IF p \in Active' THEN req'[p] \in Request /\ CallOK(p, pc'[p], req'[p], There')
             ELSE req'[p] \in Request \cup {NoRequest}
  BY <1>1 DEF ControlOK
<1>3. ASSUME NEW r \in Req PROVE SignupOK(r)'
  <2>1. SignupOK(r)
    BY DEF ControlOK
  <2> QED  BY <1>1, <2>1 DEF SignupOK
<1> QED  BY <1>1, <1>2, <1>3 DEF ControlOK

\* No profile changes.
LEMMA SameDocs ==
  ASSUME DocsOK, UNCHANGED profiles
  PROVE  DocsOK' /\ FilesKept /\ There' = There /\ ListsKept
BY DEF DocsOK, profiles, FilesKept, There, ListsKept

\* The profile of one employee changes, its files excepted.
LEMMA EmployeeSet ==
  ASSUME DocsOK, NEW c \in Employee, employee' \in [Employee -> EmployeeDoc],
         \A d \in Employee \ {c} : employee'[d] = employee[d],
         employee'[c].image = employee[c].image, employee'[c].pdf = employee[c].pdf,
         employee[c].there => employee'[c].there,
         employee'[c].there => employee'[c].version # None,
         employer' = employer
  PROVE  DocsOK' /\ FilesKept /\ There \subseteq There'
<1>1. FilesKept
  <2> SUFFICES ASSUME NEW d \in Employee, NEW op \in EmployeeMedia
               PROVE  employee'[d][op] = employee[d][op]
    BY DEF FilesKept
  <2>1. employee \in [Employee -> EmployeeDoc]
    BY DEF DocsOK
  <2>2. CASE op = "image"
    BY <2>1, <2>2 DEF EmployeeDoc
  <2>3. CASE op = "pdf"
    BY <2>1, <2>3 DEF EmployeeDoc
  <2> QED  BY <2>2, <2>3 DEF EmployeeMedia
<1>2. There \subseteq There'
  BY DEF There
<1>3. \A d \in There' : employee'[d].version # None
  BY DEF There, DocsOK
<1> QED  BY <1>1, <1>2, <1>3 DEF DocsOK, FilesKept

\* The profile of one employer changes, its picture excepted.
LEMMA EmployerSet ==
  ASSUME DocsOK, NEW e \in Employer, employer' \in [Employer -> EmployerDoc],
         \A d \in Employer \ {e} : employer'[d] = employer[d],
         employer'[e].image = employer[e].image, employee' = employee
  PROVE  DocsOK' /\ FilesKept /\ There' = There /\ ListsKept
BY DEF DocsOK, FilesKept, There, ListsKept

\* One edit of a list.
LEMMA EditedType ==
  ASSUME NEW items \in [Item -> Writer], NEW q, NEW r \in Req
  PROVE  Edited(items, q, r) \in [Item -> Writer]
BY DEF Edited, Item, Writer

\* An edit changes one list of one employee, and answers.
EditsList(p, list) ==
  LET q == req[p]
  IN  /\ q.op \in {"add", "set", "delete"} /\ q.list = list /\ pc'[p] = "answered"
      /\ q.item \in Items(q.op)
      /\ \A c \in Employee, l \in List :
           employee'[c].lists[l] = IF c = q.who /\ l = list
                                   THEN Edited(employee[c].lists[l], q, p[1])
                                   ELSE employee[c].lists[l]

\* An edit of a list.
LEMMA EditDoes ==
  ASSUME BaseInv, NEW p \in Active, NEW list \in List, Edit(p, list)
  PROVE  Plain(p) /\ EditsList(p, list)
<1> DEFINE q == req[p]
           c == q.who
           items == Edited(employee[c].lists[list], q, p[1])
<1> USE DEF BaseInv
<1>1. /\ pc[p] = "read" /\ q.op \in {"add", "set", "delete"} /\ q.list = list
      /\ employee' = [employee EXCEPT ![c].lists[list] = items]
      /\ Goto(p, "answered")
      /\ UNCHANGED <<employer, s3, exits, rd, tests, overlapped>>
  BY DEF Edit, At
<1>2. p \in Proc /\ p[1] \in Req /\ q \in Request /\ CallOK(p, "read", q, There)
  BY <1>1, Called, Pairs
<1>3. HttpCallOK("read", q, There)
  BY <1>1, <1>2 DEF CallOK, EventCallOK
<1>4. c \in There /\ c \in Employee /\ q.item \in Items(q.op)
  BY <1>1, <1>3 DEF HttpCallOK, WhomEver, There
<1>5. employee \in [Employee -> EmployeeDoc]
  BY DEF DocsOK
<1>6. employee[c] \in EmployeeDoc
  BY <1>4, <1>5
<1>7. employee[c].lists \in [List -> [Item -> Writer]]
  BY <1>6 DEF EmployeeDoc
<1>8. items \in [Item -> Writer]
  BY <1>2, <1>7, EditedType
<1> HIDE DEF items
<1>9. PICK w : w = [employee[c] EXCEPT !.lists[list] = items]
  OBVIOUS
<1>10. /\ w \in EmployeeDoc /\ w.image = employee[c].image /\ w.pdf = employee[c].pdf
       /\ w.there = employee[c].there /\ w.version = employee[c].version
       /\ w.lists = [employee[c].lists EXCEPT ![list] = items]
  BY <1>6, <1>7, <1>8, <1>9 DEF EmployeeDoc
<1>11. employee'[c] = w /\ \A d \in Employee \ {c} : employee'[d] = employee[d]
  BY <1>1, <1>4, <1>5, <1>9
<1>12. employee' \in [Employee -> EmployeeDoc]
  BY <1>1, <1>4, <1>5, <1>10, <1>11
<1>13. employee[c].there /\ employee[c].version # None
  BY <1>4 DEF There, DocsOK
<1>14. DocsOK' /\ FilesKept /\ There \subseteq There'
  BY <1>1, <1>4, <1>10, <1>11, <1>12, <1>13, EmployeeSet
<1>15. Turns(p) /\ pc'[p] = "answered"
  BY <1>1, <1>14, GotoTurns DEF Label
<1>16. Plain(p)
  BY <1>1, <1>2, <1>3, <1>14, <1>15 DEF Plain, EmployeeMedia, rd, tests, CallOK, EventCallOK, OutsideOK
<1>17. ASSUME NEW d \in Employee, NEW l \in List
       PROVE  employee'[d].lists[l] = IF d = c /\ l = list THEN items
                                      ELSE employee[d].lists[l]
  BY <1>7, <1>10, <1>11
<1>18. ASSUME NEW d \in Employee, NEW l \in List
       PROVE  employee'[d].lists[l] = IF d = c /\ l = list
                                      THEN Edited(employee[d].lists[l], q, p[1])
                                      ELSE employee[d].lists[l]
  BY <1>17 DEF items
<1> QED  BY <1>1, <1>4, <1>15, <1>16, <1>18 DEF EditsList

\* A PATCH of the profile may replace one list of one employee, and answers.
PatchesList(p) ==
  LET q == req[p]
  IN  /\ q.op = "patch" /\ pc'[p] = "answered"
      /\ \A c \in Employee, l \in List :
           (c = q.who /\ l = q.list) \/ employee'[c].lists[l] = employee[c].lists[l]

\* A PATCH of a profile.
LEMMA PatchDoes ==
  ASSUME BaseInv, NEW p \in Active, Patch(p)
  PROVE  Plain(p) /\ PatchesList(p)
<1> DEFINE q == req[p]
           c == q.who
           r == p[1]
           new == [l \in List |-> IF l = q.list THEN [i \in Item |-> IF i = r THEN r ELSE None]
                                  ELSE employee[c].lists[l]]
<1> USE DEF BaseInv
<1>1. /\ pc[p] = "read" /\ q.op = "patch" /\ p[2] = "http"
      /\ employee' = [employee EXCEPT ![c].version = r, ![c].lists = new]
      /\ Emit(p, {"update"}, c, r)
      /\ UNCHANGED <<employer, s3, exits, rd, tests, overlapped>>
  BY DEF Patch, At, Patched
<1>2. p \in Proc /\ r \in Req /\ q \in Request /\ HttpCallOK("read", q, There)
  BY <1>1, Called, Pairs DEF CallOK
<1>3. c \in There /\ c \in Employee
  BY <1>1, <1>2 DEF HttpCallOK, WhomEver, There
<1>4. employee \in [Employee -> EmployeeDoc] /\ employee[c] \in EmployeeDoc
  BY <1>3 DEF DocsOK
<1>5. employee[c].lists \in [List -> [Item -> Writer]]
  BY <1>4 DEF EmployeeDoc
<1>6. new \in [List -> [Item -> Writer]]
  BY <1>2, <1>5 DEF Writer
<1>7. \A l \in List : l # q.list => new[l] = employee[c].lists[l]
  OBVIOUS
<1> HIDE DEF new
<1>8. r \in Writer /\ r # None
  BY <1>2, ProfilesAssumption DEF Writer, Key
<1>9. PICK w : w = [employee[c] EXCEPT !.version = r, !.lists = new]
  OBVIOUS
<1>10. /\ w \in EmployeeDoc /\ w.image = employee[c].image /\ w.pdf = employee[c].pdf
       /\ w.there = employee[c].there /\ w.version = r /\ w.lists = new
  BY <1>4, <1>6, <1>8, <1>9 DEF EmployeeDoc
<1>11. employee'[c] = w /\ \A d \in Employee \ {c} : employee'[d] = employee[d]
  BY <1>1, <1>3, <1>4, <1>9
<1>12. employee' \in [Employee -> EmployeeDoc]
  BY <1>1, <1>3, <1>4, <1>10, <1>11
<1>13. DocsOK' /\ FilesKept /\ There \subseteq There'
  BY <1>1, <1>3, <1>8, <1>10, <1>11, <1>12, EmployeeSet
<1>14. Turns(p) /\ pc'[p] = "answered"
  BY <1>1, <1>3, <1>8, <1>13, EmitTurns
<1>15. Plain(p)
  BY <1>1, <1>13, <1>14 DEF Plain, EmployeeMedia, rd, tests, OutsideOK
<1>16. \A d \in Employee, l \in List :
         (d = c /\ l = q.list) \/ employee'[d].lists[l] = employee[d].lists[l]
  BY <1>7, <1>10, <1>11
<1> QED  BY <1>1, <1>14, <1>15, <1>16 DEF PatchesList

\* The request of an operation on employers has one.
LEMMA EmployerCalled ==
  ASSUME BaseInv, NEW p \in Active, NEW op \in {"company", "segment", "benefit"},
         At(p, {op}, "read")
  PROVE  p[1] \in Writer /\ req[p].op = op /\ req[p].who \in Employer /\ p[2] = "http"
<1>1. p \in Proc /\ CallOK(p, "read", req[p], There) /\ req[p].op = op
  BY Called DEF BaseInv, At
<1>2. p[2] = "http" /\ HttpCallOK("read", req[p], There)
  BY <1>1 DEF CallOK, EventCallOK
<1> QED  BY <1>1, <1>2, Pairs DEF HttpCallOK, WhomEver, Writer

\* Updates of the profile of an employer.
LEMMA EmployerDoes ==
  ASSUME BaseInv, NEW p \in Active, Company(p) \/ Segment(p) \/ Benefit(p)
  PROVE  Plain(p) /\ ListsKept
<1> DEFINE e == req[p].who
           r == p[1]
<1> USE DEF BaseInv
<1>1. PICK op \in {"company", "segment", "benefit"} : At(p, {op}, "read")
  BY DEF Company, Segment, Benefit
<1>2. r \in Writer /\ req[p].op = op /\ e \in Employer /\ p[2] = "http"
  BY <1>1, EmployerCalled
<1>3. employer \in [Employer -> EmployerDoc] /\ None \in Writer /\ employer[e].benefits \in Writer
  BY <1>2 DEF DocsOK, Writer, EmployerDoc
<1>4. /\ employer' \in [Employer -> EmployerDoc] /\ employer'[e].image = employer[e].image
      /\ \A d \in Employer \ {e} : employer'[d] = employer[d]
  <2>1. CASE Company(p)
    <3>1. CASE employer' = [employer EXCEPT ![e].version = r]
      BY <1>2, <1>3, <3>1 DEF EmployerDoc
    <3>2. CASE \E segment, benefits \in {r, None} :
                 employer' = [employer EXCEPT ![e].version = r, ![e].segment = segment,
                                              ![e].benefits = benefits]
      <4>1. PICK segment, benefits \in {r, None} :
              employer' = [employer EXCEPT ![e].version = r, ![e].segment = segment,
                                           ![e].benefits = benefits]
        BY <3>2
      <4>2. PICK doc : doc = [employer[e] EXCEPT !.version = r, !.segment = segment,
                                                 !.benefits = benefits]
        OBVIOUS
      <4>3. employer[e] \in EmployerDoc
        BY <1>2, <1>3
      <4>4. segment \in Writer /\ benefits \in Writer
        BY <1>2, <1>3
      <4>5. doc \in EmployerDoc /\ doc.image = employer[e].image
        BY <1>2, <4>2, <4>3, <4>4 DEF EmployerDoc
      <4>6. employer' = [employer EXCEPT ![e] = doc]
        BY <1>2, <1>3, <4>1, <4>2
      <4> QED  BY <1>2, <1>3, <4>5, <4>6
    <3> QED  BY <2>1, <3>1, <3>2 DEF Company
  <2>2. CASE Segment(p)
    BY <1>2, <1>3, <2>2 DEF EmployerDoc, Segment
  <2>3. CASE Benefit(p)
    <3>1. PICK benefits \in {r, employer[e].benefits} :
            employer' = [employer EXCEPT ![e].benefits = benefits]
      BY <2>3 DEF Benefit
    <3> QED  BY <1>2, <1>3, <3>1 DEF EmployerDoc
  <2> QED  BY <2>1, <2>2, <2>3
<1>5. Goto(p, "answered") /\ UNCHANGED <<employee, s3, exits, rd, tests, overlapped>>
  BY DEF Company, Segment, Benefit
<1>6. DocsOK' /\ FilesKept /\ There' = There /\ ListsKept
  BY <1>2, <1>4, <1>5, EmployerSet
<1>7. Turns(p) /\ pc'[p] = "answered"
  BY <1>5, <1>6, GotoTurns DEF Label
<1> QED  BY <1>2, <1>5, <1>6, <1>7 DEF Plain, EmployeeMedia, rd, tests, OutsideOK

\* An operation that only moves its process on, with the same call, or ends it.
LEMMA GotoPlain ==
  ASSUME BaseInv, NEW p \in Active, NEW l \in Label \ {"idle", "failed", "keep"}, Goto(p, l),
         req[p].op \notin EmployeeMedia \cup {"join", "result"},
         l # "answered" => CallOK(p, l, req[p], There),
         p[2] = "contact" => l # "answered",
         UNCHANGED <<profiles, s3, exits, contacts, backup, tests, overlapped>>,
         access' \in BOOLEAN
  PROVE  Plain(p) /\ ListsKept
<1>1. DocsOK' /\ FilesKept /\ There' = There /\ ListsKept
  BY SameDocs DEF BaseInv
<1>2. Turns(p) /\ pc'[p] = l
  BY <1>1, GotoTurns DEF BaseInv
<1> QED  BY <1>1, <1>2 DEF Plain, tests

\* The call of a process at the label of an operation.
LEMMA CalledAt ==
  ASSUME BaseInv, NEW p \in Active, NEW op, op # "patch", NEW l, At(p, {op}, l)
  PROVE  /\ p \in Proc /\ p[2] = "http" /\ p = <<p[1], "http">> /\ p[1] \in Req
         /\ pc[p] = l /\ req[p] \in Request /\ req[p].op = op
         /\ HttpCallOK(l, req[p], There)
<1>1. /\ p \in Proc /\ req[p] \in Request /\ CallOK(p, l, req[p], There) /\ pc[p] = l
      /\ req[p].op = op
  BY Called DEF BaseInv, At
<1>2. p[2] = "http" /\ HttpCallOK(l, req[p], There)
  BY <1>1 DEF CallOK, EventCallOK
<1> QED  BY <1>1, <1>2, Pairs

\* createEmployee stores the employee.
LEMMA SignupStoreDoes ==
  ASSUME BaseInv, NEW p \in Active, SignupStore(p)
  PROVE  Plain(p) /\ ListsKept
<1> DEFINE q == req[p]
           c == q.who
           r == p[1]
<1> USE DEF BaseInv
<1>1. /\ At(p, {"signup"}, "read") /\ Goto(p, "event")
      /\ employee' = [employee EXCEPT ![c].there = TRUE, ![c].version = r]
      /\ UNCHANGED <<employer, s3, exits, rd, tests, overlapped>>
  BY DEF SignupStore
<1>2. p[2] = "http" /\ r \in Req /\ q.op = "signup" /\ HttpCallOK("read", q, There)
  <2>1. At(p, {"signup"}, "read")
    BY <1>1
  <2> QED  BY <2>1, CalledAt
<1>3. c \in Employee
  BY <1>2 DEF HttpCallOK, WhomEver
<1>4. employee \in [Employee -> EmployeeDoc] /\ employee[c] \in EmployeeDoc
  BY <1>3 DEF DocsOK
<1>5. r \in Writer /\ r # None
  BY <1>2, ProfilesAssumption DEF Writer, Key
<1>6. PICK w : w = [employee[c] EXCEPT !.there = TRUE, !.version = r]
  OBVIOUS
<1>7. /\ w \in EmployeeDoc /\ w.image = employee[c].image /\ w.pdf = employee[c].pdf
      /\ w.there /\ w.version = r /\ w.lists = employee[c].lists
  BY <1>4, <1>5, <1>6 DEF EmployeeDoc
<1>8. employee'[c] = w /\ \A d \in Employee \ {c} : employee'[d] = employee[d]
  BY <1>1, <1>3, <1>4, <1>6
<1>9. employee' \in [Employee -> EmployeeDoc]
  BY <1>1, <1>3, <1>4, <1>7, <1>8
<1>10. DocsOK' /\ FilesKept /\ There \subseteq There'
  BY <1>1, <1>3, <1>5, <1>7, <1>8, <1>9, EmployeeSet
<1>11. pc' = [pc EXCEPT ![p] = "event"] /\ req' = req
  BY <1>1 DEF Goto
<1>12. p \in Proc /\ q \in Request /\ pc \in [Proc -> Label] /\ DOMAIN req = Proc
  BY Called DEF ControlOK
<1>13. c \in There'
  BY <1>3, <1>7, <1>8 DEF There
<1>14. CallOK(p, "event", q, There')
  BY <1>2, <1>3, <1>13 DEF CallOK, HttpCallOK, WhomEver
<1>15. pc'[p] = "event" /\ req'[p] = q /\ pc' \in [Proc -> Label]
  BY <1>11, <1>12 DEF Label
<1>16. Goes(p)
  BY <1>2, <1>12, <1>14, <1>15 DEF Goes, Label
<1>17. Turns(p)
  BY <1>11, <1>12, <1>15, <1>16 DEF Turns, Same
<1>18. ListsKept
  BY <1>7, <1>8 DEF ListsKept
<1> QED  BY <1>1, <1>2, <1>10, <1>15, <1>17, <1>18 DEF Plain, EmployeeMedia, rd, tests, OutsideOK

\* Its event.
LEMMA SignupEmitDoes ==
  ASSUME BaseInv, NEW p \in Active, SignupEmit(p)
  PROVE  Plain(p) /\ ListsKept
<1> DEFINE c == req[p].who
<1> USE DEF BaseInv
<1>1. /\ At(p, {"signup"}, "event") /\ Emit(p, {"contact", "sync"}, c, p[1])
      /\ UNCHANGED <<profiles, s3, exits, rd, tests, overlapped>>
  BY DEF SignupEmit
<1>2. p[2] = "http" /\ p[1] \in Req /\ req[p].op = "signup" /\ HttpCallOK("event", req[p], There)
  BY <1>1, CalledAt
<1>3. DocsOK' /\ FilesKept /\ There' = There /\ ListsKept
  BY <1>1, SameDocs
<1>4. c \in There' /\ p[1] \in Writer /\ p[1] # None
  BY <1>2, <1>3, ProfilesAssumption DEF HttpCallOK, Writer, Key
<1>5. Turns(p) /\ pc'[p] = "answered"
  BY <1>1, <1>2, <1>3, <1>4, EmitTurns
<1> QED  BY <1>1, <1>2, <1>3, <1>5 DEF Plain, EmployeeMedia, rd, tests, OutsideOK

\* Courses: a profile completed, by the webhook or by the synchronisation.
Completes(p, c) ==
  /\ employee' = [employee EXCEPT ![c].completed = TRUE]
  /\ Emit(p, {"update"}, c, employee[c].version)
  /\ UNCHANGED <<employer, s3, exits, rd, tests, overlapped>>

\* The completed courses are stored and CLIENT_UPDATED tells of it.
LEMMA CompletesDoes ==
  ASSUME BaseInv, NEW p \in Active, NEW c \in There, Completes(p, c),
         p[2] \in {"http", "sync"}, req[p].op \notin EmployeeMedia \cup {"join", "result"}
  PROVE  Plain(p) /\ ListsKept
<1> USE DEF BaseInv
<1>1. c \in Employee
  BY DEF There
<1>2. /\ employee \in [Employee -> EmployeeDoc] /\ employee[c] \in EmployeeDoc
      /\ employee[c].version # None
  BY <1>1 DEF DocsOK
<1>3. PICK w : w = [employee[c] EXCEPT !.completed = TRUE]
  OBVIOUS
<1>4. /\ w \in EmployeeDoc /\ w.image = employee[c].image /\ w.pdf = employee[c].pdf
      /\ w.there = employee[c].there /\ w.version = employee[c].version
      /\ w.lists = employee[c].lists
  BY <1>2, <1>3 DEF EmployeeDoc
<1>5. employee'[c] = w /\ \A d \in Employee \ {c} : employee'[d] = employee[d]
  BY <1>1, <1>2, <1>3 DEF Completes
<1>6. employee' \in [Employee -> EmployeeDoc]
  BY <1>1, <1>2, <1>4, <1>5 DEF Completes
<1>7. DocsOK' /\ FilesKept /\ There \subseteq There'
  BY <1>1, <1>2, <1>4, <1>5, <1>6, EmployeeSet DEF Completes
<1>8. employee[c].version \in Writer
  BY <1>2 DEF EmployeeDoc
<1>9. Turns(p) /\ pc'[p] = "answered"
  BY <1>2, <1>7, <1>8, EmitTurns DEF Completes
<1>10. ListsKept
  BY <1>4, <1>5 DEF ListsKept
<1> QED  BY <1>7, <1>9, <1>10 DEF Plain, Completes, rd, tests, OutsideOK

\* The same for a course that Learn Worlds names, or an event without a client.
LEMMA CourseWriteDoes ==
  ASSUME BaseInv, NEW p \in Active, CourseWrite(p)
  PROVE  Plain(p) /\ ListsKept
<1> DEFINE c == req[p].who
<1> USE DEF BaseInv
<1>1. /\ At(p, {"course"}, "write")
      /\ IF c \in Employee
         THEN /\ employee' = [employee EXCEPT ![c].completed = TRUE]
              /\ Emit(p, {"update"}, c, employee[c].version)
         ELSE Emit(p, {"update"}, None, None) /\ UNCHANGED employee
      /\ UNCHANGED <<employer, s3, exits, rd, tests, overlapped>>
  BY DEF CourseWrite
<1>2. p[2] = "http" /\ req[p].op = "course" /\ HttpCallOK("write", req[p], There)
  BY <1>1, CalledAt
<1>3. CASE c \in Employee
  <2>1. c \in There
    BY <1>2, <1>3, ProfilesAssumption DEF HttpCallOK, WhomEver
  <2> QED  BY <2>1, <1>1, <1>2, <1>3, CompletesDoes DEF Completes, EmployeeMedia
<1>4. CASE c \notin Employee
  <2>1. Emit(p, {"update"}, None, None) /\ UNCHANGED employee
    BY <1>1, <1>4
  <2>2. DocsOK' /\ FilesKept /\ There' = There /\ ListsKept
    BY <1>1, <2>1, SameDocs DEF profiles
  <2>3. None \in There' \cup {None} /\ None \in Writer
    BY DEF Writer
  <2>4. Turns(p) /\ pc'[p] = "answered"
    BY <2>1, <2>2, <2>3, <1>2, EmitTurns
  <2> QED  BY <1>1, <1>2, <2>2, <2>4 DEF Plain, EmployeeMedia, rd, tests, OutsideOK
<1> QED  BY <1>3, <1>4

\* Some calls stop with an exception.
Fails == \E P \in SUBSET Active, exit \in BOOLEAN : Stop(P, exit)

\* An exception is one of the ways to stop.
LEMMA FailFails ==
  ASSUME NEW p \in Active, Fail(p)
  PROVE  Fails
<1>1. {p} \in SUBSET Active /\ Active \in SUBSET Active
  OBVIOUS
<1> QED  BY <1>1 DEF Fail, Fails

\* The call of the handler of an event.
LEMMA EventCalled ==
  ASSUME BaseInv, NEW p \in Active, p[2] # "http" \/ pc[p] \in {"post", "get", "patch", "backup", "keep"}
  PROVE  /\ p \in Proc /\ p[2] # "http" /\ p[2] \in {"contact", "sync", "update"}
         /\ req[p] \in Request /\ req[p].op = "patch"
         /\ EventCallOK(p[2], pc[p], req[p], There)
<1>1. p \in Proc /\ req[p] \in Request /\ CallOK(p, pc[p], req[p], There)
  BY Called DEF BaseInv
<1>2. p[2] # "http"
  BY <1>1 DEF CallOK, HttpCallOK
<1> QED  BY <1>1, <1>2, Pairs DEF CallOK, EventCallOK

\* The webhook of a course looks for its user.
LEMMA CourseReadDoes ==
  ASSUME BaseInv, NEW p \in Active, CourseRead(p)
  PROVE  Plain(p) /\ ListsKept
<1> DEFINE l == IF req[p].who = None THEN "answered" ELSE "write"
<1>1. At(p, {"course"}, "read") /\ Goto(p, l)
  BY DEF CourseRead
<1>2. /\ p[2] = "http" /\ req[p].op = "course" /\ HttpCallOK("read", req[p], There)
  BY <1>1, CalledAt
<1>3. CallOK(p, "write", req[p], There)
  BY <1>2 DEF CallOK, HttpCallOK
<1>4. UNCHANGED <<profiles, s3, exits, contacts, backup, tests, overlapped>> /\ access' \in BOOLEAN
  BY DEF CourseRead, rd, BaseInv, OutsideOK
<1>5. l \in Label \ {"idle", "failed", "keep"} /\ (l # "answered" => l = "write")
  BY DEF Label
<1> QED  BY <1>1, <1>2, <1>3, <1>4, <1>5, GotoPlain DEF EmployeeMedia

\* The single sign-on reads the employee.
LEMMA SsoReadDoes ==
  ASSUME BaseInv, NEW p \in Active, SsoRead(p)
  PROVE  Plain(p) /\ ListsKept
<1>1. At(p, {"sso"}, "read") /\ Goto(p, "write")
  BY DEF SsoRead
<1>2. p[2] = "http" /\ req[p].op = "sso" /\ HttpCallOK("read", req[p], There)
  BY <1>1, CalledAt
<1>3. CallOK(p, "write", req[p], There)
  BY <1>2 DEF CallOK, HttpCallOK
<1>4. UNCHANGED <<profiles, s3, exits, contacts, backup, tests, overlapped>> /\ access' \in BOOLEAN
  BY DEF SsoRead, rd, BaseInv, OutsideOK
<1> QED  BY <1>1, <1>2, <1>3, <1>4, GotoPlain DEF EmployeeMedia, Label

\* The first employee is there, whose profile gets the id of another one.
LEMMA SsoWriteDoes ==
  ASSUME BaseInv, NEW p \in Active, SsoWrite(p)
  PROVE  Plain(p) /\ ListsKept
<1> DEFINE c == First
           id == req[p].who
<1> USE DEF BaseInv
<1>1. /\ At(p, {"sso"}, "write") /\ Goto(p, "answered")
      /\ employee' = [employee EXCEPT ![c].learnWorldsUserId = id]
      /\ UNCHANGED <<employer, s3, exits, rd, tests, overlapped>>
  BY DEF SsoWrite
<1>2. p[2] = "http" /\ req[p].op = "sso" /\ HttpCallOK("write", req[p], There)
  <2>1. At(p, {"sso"}, "write")
    BY <1>1
  <2> QED  BY <2>1, CalledAt
<1>3. c \in Employee /\ id \in Employee
  BY <1>2, ProfilesAssumption DEF HttpCallOK, WhomEver, There
<1>4. employee \in [Employee -> EmployeeDoc] /\ employee[c] \in EmployeeDoc
  BY <1>3 DEF DocsOK
<1>5. PICK w : w = [employee[c] EXCEPT !.learnWorldsUserId = id]
  OBVIOUS
<1>6. /\ w \in EmployeeDoc /\ w.image = employee[c].image /\ w.pdf = employee[c].pdf
      /\ w.there = employee[c].there /\ w.version = employee[c].version
      /\ w.lists = employee[c].lists
  BY <1>3, <1>4, <1>5 DEF EmployeeDoc
<1>7. employee'[c] = w /\ \A d \in Employee \ {c} : employee'[d] = employee[d]
  BY <1>1, <1>3, <1>4, <1>5
<1>8. employee' \in [Employee -> EmployeeDoc]
  BY <1>1, <1>3, <1>4, <1>6, <1>7
<1>9. w.there => w.version # None
  BY <1>3, <1>6 DEF DocsOK, There
<1>10. DocsOK' /\ FilesKept /\ There \subseteq There'
  BY <1>1, <1>3, <1>6, <1>7, <1>8, <1>9, EmployeeSet
<1>11. Turns(p) /\ pc'[p] = "answered"
  BY <1>1, <1>10, GotoTurns DEF Label
<1>12. ListsKept
  BY <1>6, <1>7 DEF ListsKept
<1> QED  BY <1>1, <1>2, <1>10, <1>11, <1>12 DEF Plain, EmployeeMedia, rd, tests, OutsideOK

\* The handler that asks Learn Worlds for certificates.
LEMMA SyncDoes ==
  ASSUME BaseInv, NEW p \in Active,
         SyncRead(p) \/ SyncNone(p) \/ SyncFound(p) \/ SyncWrite(p)
  PROVE  Plain(p) /\ ListsKept
<1>1. p[2] = "sync"
  BY DEF SyncRead, SyncNone, SyncFound, SyncWrite
<1>2. /\ req[p].op = "patch" /\ req[p] \in Request /\ EventCallOK("sync", pc[p], req[p], There)
  BY <1>1, EventCalled
<1>3. req[p].op \notin EmployeeMedia \cup {"join", "result"}
  BY <1>2 DEF EmployeeMedia
<1>4. CASE SyncWrite(p)
  <2>1. req[p].who \in There
    BY <1>2 DEF EventCallOK
  <2> QED  BY <1>1, <1>3, <1>4, <2>1, CompletesDoes DEF SyncWrite, Completes
<1>5. CASE SyncRead(p) \/ SyncNone(p) \/ SyncFound(p)
  <2>1. PICK l \in {"read", "write", "answered"} : Goto(p, l)
    BY <1>5 DEF SyncRead, SyncNone, SyncFound
  <2>2. l # "answered" => CallOK(p, l, req[p], There)
    BY <2>1, <1>1, <1>2 DEF CallOK, EventCallOK, LabelsOf
  <2>3. UNCHANGED <<profiles, s3, exits, contacts, backup, tests, overlapped>>
        /\ access' \in BOOLEAN
    BY <1>5 DEF SyncRead, SyncNone, SyncFound, rd, BaseInv, OutsideOK
  <2>4. l \in Label \ {"idle", "failed", "keep"}
    BY <2>1 DEF Label
  <2> QED  BY <1>1, <1>3, <2>1, <2>2, <2>3, <2>4, GotoPlain
<1> QED  BY <1>4, <1>5

\* The access data of RD Station is stored.
LEMMA FirstAccessDoes ==
  ASSUME BaseInv, NEW p \in Active, FirstAccess(p)
  PROVE  Plain(p) /\ ListsKept
<1>1. At(p, {"code"}, "read") /\ Goto(p, "answered")
  BY DEF FirstAccess
<1>2. p[2] = "http" /\ req[p].op = "code"
  BY <1>1, CalledAt
<1>3. UNCHANGED <<profiles, s3, exits, contacts, backup, tests, overlapped>> /\ access' \in BOOLEAN
  BY DEF FirstAccess
<1> QED  BY <1>1, <1>2, <1>3, GotoPlain DEF EmployeeMedia, Label

\* The handlers of contacts build their payload.
LEMMA ContactEventDoes ==
  ASSUME BaseInv, NEW p \in Active, ContactEvent(p), ~Fails
  PROVE  Plain(p) /\ ListsKept
<1> DEFINE l == IF p[2] = "contact" THEN "post" ELSE "get"
<1>1. p[2] \in {"contact", "update"} /\ pc[p] = "event"
  BY DEF ContactEvent
<1>2. /\ Goto(p, l)
      /\ UNCHANGED <<profiles, s3, exits, rd, tests, overlapped>>
  BY FailFails DEF ContactEvent
<1>3. req[p].op = "patch" /\ EventCallOK(p[2], "event", req[p], There)
  BY <1>1, EventCalled
<1>4. CallOK(p, l, req[p], There)
  BY <1>1, <1>3 DEF CallOK, EventCallOK, LabelsOf
<1>5. UNCHANGED <<contacts, backup>> /\ access' \in BOOLEAN
  BY <1>2 DEF rd, BaseInv, OutsideOK
<1>6. l \in Label \ {"idle", "answered", "failed", "keep"}
  BY DEF Label
<1> QED  BY <1>2, <1>3, <1>4, <1>5, <1>6, GotoPlain DEF EmployeeMedia

\* The contact to be updated is found.
LEMMA GetContactDoes ==
  ASSUME BaseInv, NEW p \in Active, GetContact(p)
  PROVE  Plain(p) /\ ListsKept
<1>1. pc[p] = "get" /\ Goto(p, "patch") /\ UNCHANGED <<profiles, s3, exits, rd, tests, overlapped>>
  BY DEF GetContact
<1>2. req[p].op = "patch" /\ EventCallOK(p[2], "get", req[p], There) /\ p[2] # "http"
  BY <1>1, EventCalled
<1>3. CallOK(p, "patch", req[p], There)
  BY <1>2 DEF CallOK, EventCallOK, LabelsOf
<1>4. UNCHANGED <<contacts, backup>> /\ access' \in BOOLEAN
  BY <1>1 DEF rd, BaseInv, OutsideOK
<1> QED  BY <1>1, <1>2, <1>3, <1>4, GotoPlain DEF EmployeeMedia, Label

\* After a failed patch the backup has no email.
LEMMA RefusedDoes ==
  ASSUME BaseInv, NEW p \in Active, Refused(p)
  PROVE  Plain(p) /\ ListsKept
<1> USE DEF BaseInv
<1>1. /\ pc[p] \in {"post", "get", "patch"}
      /\ UNCHANGED <<profiles, s3, exits, rd, tests, overlapped>>
  BY DEF Refused
<1>2. /\ p[2] # "http" /\ p[2] \in {"contact", "sync", "update"} /\ req[p] \in Request
      /\ req[p].op = "patch" /\ EventCallOK(p[2], pc[p], req[p], There)
  BY <1>1, EventCalled
<1>3. UNCHANGED <<contacts, backup>> /\ access' \in BOOLEAN
  BY <1>1 DEF rd, OutsideOK
<1>4. CASE pc[p] = "patch"
  <2>1. PICK q : q = [req[p] EXCEPT !.who = None]
    OBVIOUS
  <2>2. Keep(p, "backup", q)
    BY <1>4, <2>1 DEF Refused
  <2>3. /\ q \in Request /\ q.op = "patch" /\ q.who = None /\ q.key = req[p].key
    BY <1>2, <2>1 DEF Request
  <2>4. p[2] = "update"
    BY <1>2, <1>4 DEF EventCallOK, LabelsOf
  <2>5. CallOK(p, "backup", q, There)
    BY <1>2, <2>3, <2>4 DEF CallOK, EventCallOK, LabelsOf
  <2>6. DocsOK' /\ FilesKept /\ There' = There /\ ListsKept
    BY <1>1, SameDocs
  <2>7. Turns(p) /\ pc'[p] = "backup"
    BY <1>2, <2>2, <2>3, <2>4, <2>5, <2>6, KeepTurns DEF Label
  <2> QED  BY <1>1, <1>2, <1>3, <2>6, <2>7 DEF Plain, EmployeeMedia, tests
<1>5. CASE pc[p] # "patch"
  <2>1. Goto(p, "backup")
    BY <1>5 DEF Refused
  <2>2. CallOK(p, "backup", req[p], There)
    BY <1>1, <1>2, <1>5 DEF CallOK, EventCallOK, LabelsOf
  <2> QED  BY <1>1, <1>2, <1>3, <2>1, <2>2, GotoPlain DEF EmployeeMedia, Label
<1> QED  BY <1>4, <1>5

-----------------------------------------------------------------------------
(* Contacts *)

\* The rest of the invariant, after an operation on contacts.
LEMMA ContactKeeps ==
  ASSUME IInv, NEW p \in Active, Turns(p), ContactsOK', contacts' \in [Employee -> Writer],
         backup' \subseteq Failed, overlapped \subseteq overlapped',
         UNCHANGED <<area, profiles, s3, exits, access, tests>>, req[p].op = "patch"
  PROVE  IInv' /\ ListsKept
<1> USE DEF IInv, BaseInv
<1>1. DocsOK' /\ FilesKept /\ There' = There /\ ListsKept
  BY SameDocs
<1>2. ControlOK'
  BY <1>1, TurnsControl
<1>3. OutsideOK' /\ TestsTyped'
  BY DEF OutsideOK, TestsTyped, tests
<1>4. MediaOK'
  BY <1>1, TurnsMedia DEF StoredKept, EmployeeMedia
<1>5. ResultsOK'
  BY TurnsResults DEF tests
<1> QED  BY <1>1, <1>2, <1>3, <1>4, <1>5

\* Another contact was handled before this operation.
LEMMA HandledBefore ==
  ASSUME ControlOK, NEW p \in Active, Turns(p), NEW r \in Req, <<r, "contact">> # p,
         pc'[<<r, "contact">>] = "answered"
  PROVE  /\ pc[<<r, "contact">>] = "answered"
         /\ req'[<<r, "http">>].who = req[<<r, "http">>].who
         /\ req[<<r, "http">>].who \in Employee
<1>1. <<r, "contact">> \in Proc \ {p}
  BY DEF Proc
<1>2. pc[<<r, "contact">>] = "answered"
  BY <1>1 DEF Turns, Hears, Same
<1>3. pc[<<r, "http">>] = "answered" /\ req[<<r, "http">>].who \in Employee
  BY <1>2 DEF ControlOK, SignupOK
<1> QED  BY <1>2, <1>3, AnsweredSame DEF Same

\* The contact that is handled now is about the employee of its signup.
LEMMA HandledNow ==
  ASSUME ControlOK, NEW p \in Active, Turns(p), NEW r \in Req, p = <<r, "contact">>
  PROVE  /\ req'[<<r, "http">>].who = req[p].who /\ req[p].who \in There
         /\ req[p].who \in Employee /\ req[p].version # None
<1>1. pc[p] # "idle" /\ CallOK(p, pc[p], req[p], There) /\ p[2] = "contact"
  BY Called
<1>2. pc[<<r, "http">>] = "answered" /\ req[<<r, "http">>].who = req[p].who
  BY <1>1 DEF ControlOK, SignupOK
<1>3. req'[<<r, "http">>].who = req[p].who
  BY <1>2, AnsweredSame DEF Same
<1>4. req[p].who \in There /\ (req[p].who # None => req[p].version # None)
  BY <1>1 DEF CallOK, EventCallOK
<1> QED  BY <1>3, <1>4, ProfilesAssumption DEF There

\* Who is at "keep" after a step of p that does not go there was there before.
LEMMA KeepingStays ==
  ASSUME ControlOK, NEW p \in Active, Turns(p), pc'[p] # "keep", NEW q \in Keeping'
  PROVE  q \in Keeping /\ req'[q] = req[q] /\ q # p
<1>1. q \in Proc \ {p} /\ pc'[q] = "keep"
  BY DEF Keeping
<1>2. Same(q)
  BY <1>1 DEF Turns, Hears
<1> QED  BY <1>1, <1>2 DEF Same, Keeping

\* RD Station has the contact.
LEMMA ContactSet ==
  ASSUME IInv, area' = area, NEW p \in Active, PostContact(p) \/ PatchContact(p)
  PROVE  IInv' /\ ListsKept
<1> DEFINE d == req[p].who
           v == req[p].version
<1> USE DEF IInv, BaseInv
<1>1. /\ contacts' = [contacts EXCEPT ![d] = v] /\ pc[p] \in {"post", "patch"}
      /\ Goto(p, "answered")
      /\ UNCHANGED <<profiles, s3, exits, access, backup, tests, overlapped>>
  BY DEF PostContact, PatchContact
<1>2. req[p] \in Request /\ req[p].op = "patch" /\ EventCallOK(p[2], pc[p], req[p], There)
  BY <1>1, EventCalled
<1>3. v \in Writer /\ d \in There \cup {None} /\ (d # None => v # None)
  BY <1>2 DEF Request, EventCallOK
<1>4. There' = There
  BY <1>1, SameDocs
<1>5. Turns(p) /\ pc'[p] = "answered"
  BY <1>1, <1>4, GotoTurns DEF Label
<1>6. contacts \in [Employee -> Writer] /\ contacts' \in [Employee -> Writer]
  BY <1>1, <1>3 DEF OutsideOK
<1>7. ASSUME NEW c \in Employee, KeptFor(c) PROVE KeptFor(c)'
  <2>1. contacts[c] # None => contacts'[c] # None
    BY <1>1, <1>3, <1>6, ProfilesAssumption
  <2>2. Backed(c)' <=> Backed(c)
    BY <1>1 DEF Backed
  <2>3. \A q \in Keeping' : q \in Keeping /\ req'[q] = req[q]
    BY <1>5, KeepingStays
  <2> QED  BY <1>7, <2>1, <2>2, <2>3 DEF KeptFor
<1>8. \A q, s \in Keeping' : q # s => q \in overlapped'
  BY <1>1, <1>5, KeepingStays DEF ContactsOK
<1>9. ASSUME NEW r \in Req, pc'[<<r, "contact">>] = "answered",
             <<r, "contact">> \notin overlapped'
      PROVE  KeptFor(req[<<r, "http">>].who)'
  <2>1. PICK c : c = req'[<<r, "http">>].who
    OBVIOUS
  <2>2. CASE p = <<r, "contact">>
    <3>1. c = d /\ d \in Employee /\ v # None
      BY <1>5, <2>1, <2>2, HandledNow
    <3>2. contacts'[c] # None
      BY <1>1, <1>6, <3>1
    <3> QED  BY <2>1, <3>2 DEF KeptFor
  <2>3. CASE p # <<r, "contact">>
    <3>1. /\ pc[<<r, "contact">>] = "answered" /\ c = req[<<r, "http">>].who /\ c \in Employee
      BY <1>5, <1>9, <2>1, <2>3, HandledBefore
    <3>2. KeptFor(c)
      BY <1>1, <1>9, <3>1 DEF ContactsOK
    <3>3. KeptFor(c)'
      BY <1>7, <3>1, <3>2
    <3> QED  BY <2>1, <3>3 DEF KeptFor, Backed
  <2> QED  BY <2>2, <2>3
<1>10. ContactsOK'
  BY <1>8, <1>9 DEF ContactsOK
<1>11. backup' \subseteq Failed /\ overlapped \subseteq overlapped'
  BY <1>1 DEF OutsideOK
<1> QED  BY <1>1, <1>2, <1>5, <1>6, <1>10, <1>11, ContactKeeps

\* The backup is read; whoever reads it too before it is set overlaps.
LEMMA BackupReadDoes ==
  ASSUME IInv, area' = area, NEW p \in Active, BackupRead(p)
  PROVE  IInv' /\ ListsKept
<1> DEFINE others == {s \in Proc : pc[s] = "keep"}
<1> USE DEF IInv, BaseInv
<1>1. PICK q : q = [req[p] EXCEPT !.seen = backup]
  OBVIOUS
<1>2. /\ pc[p] = "backup" /\ Keep(p, "keep", q)
      /\ overlapped' = overlapped \cup (IF others = {} THEN {} ELSE others \cup {p})
      /\ UNCHANGED <<profiles, s3, exits, rd, tests>>
  BY <1>1 DEF BackupRead
<1>3. /\ p[2] # "http" /\ req[p] \in Request /\ req[p].op = "patch"
      /\ EventCallOK(p[2], "backup", req[p], There)
  BY <1>2, EventCalled
<1>4. /\ q \in Request /\ q.op = "patch" /\ q.who = req[p].who /\ q.key = req[p].key
      /\ q.version = req[p].version /\ q.seen = backup
  BY <1>1, <1>3 DEF Request, OutsideOK
<1>5. CallOK(p, "keep", q, There)
  BY <1>3, <1>4 DEF CallOK, EventCallOK, LabelsOf
<1>6. There' = There
  BY <1>2, SameDocs
<1>7. Turns(p) /\ pc'[p] = "keep" /\ req'[p] = q /\ \A s \in Proc \ {p} : Same(s)
  BY <1>2, <1>3, <1>4, <1>5, <1>6, KeepTurns DEF Label
<1>8. ASSUME NEW s \in Keeping' PROVE s = p \/ (s \in Keeping /\ Same(s))
  BY <1>7 DEF Keeping, Same
<1>9. others = Keeping /\ p \in Proc
  BY Called DEF Keeping
<1>10. \A s, t \in Keeping' : s # t => s \in overlapped'
  <2> SUFFICES ASSUME NEW s \in Keeping', NEW t \in Keeping', s # t PROVE s \in overlapped'
    OBVIOUS
  <2>1. CASE s = p
    BY <2>1, <1>2, <1>8, <1>9
  <2>2. CASE t = p
    BY <2>2, <1>2, <1>8, <1>9
  <2>3. CASE s # p /\ t # p
    BY <2>3, <1>2, <1>8 DEF ContactsOK
  <2> QED  BY <2>1, <2>2, <2>3
<1>11. contacts' = contacts /\ backup' = backup /\ access' = access
  BY <1>2 DEF rd
<1>12. ASSUME NEW c, KeptFor(c) PROVE KeptFor(c)'
  <2>1. Backed(c)' <=> Backed(c)
    BY <1>11 DEF Backed
  <2>2. CASE contacts[c] # None
    BY <2>2, <1>11 DEF KeptFor
  <2>3. CASE Backed(c) /\ \A s \in Keeping : \E b \in req[s].seen : b.email = c
    <3>1. ASSUME NEW s \in Keeping' PROVE \E b \in req'[s].seen : b.email = c
      <4>1. CASE s = p
        BY <4>1, <2>3, <1>4, <1>7 DEF Backed
      <4>2. CASE s \in Keeping /\ Same(s)
        BY <4>2, <2>3 DEF Same
      <4> QED  BY <4>1, <4>2, <1>8
    <3> QED  BY <2>1, <2>3, <3>1 DEF KeptFor
  <2> QED  BY <1>12, <2>2, <2>3 DEF KeptFor
<1>13. ASSUME NEW r \in Req, pc'[<<r, "contact">>] = "answered",
              <<r, "contact">> \notin overlapped'
       PROVE  KeptFor(req[<<r, "http">>].who)'
  <2>1. PICK c : c = req'[<<r, "http">>].who
    OBVIOUS
  <2>2. /\ pc[<<r, "contact">>] = "answered" /\ c = req[<<r, "http">>].who
    BY <1>7, <1>13, <2>1, HandledBefore
  <2>3. KeptFor(c)'
    BY <1>2, <1>12, <1>13, <2>2 DEF ContactsOK
  <2> QED  BY <2>1, <2>3 DEF KeptFor, Backed
<1>14. ContactsOK'
  BY <1>10, <1>13 DEF ContactsOK
<1>15. contacts' \in [Employee -> Writer] /\ backup' \subseteq Failed
  BY <1>11 DEF OutsideOK
<1> QED  BY <1>2, <1>3, <1>7, <1>11, <1>14, <1>15, ContactKeeps

\* The backup is set to what was read and the new entry.
LEMMA BackupSetDoes ==
  ASSUME IInv, area' = area, NEW p \in Active, BackupSet(p)
  PROVE  IInv' /\ ListsKept
<1> DEFINE seen == req[p].seen
<1> USE DEF IInv, BaseInv
<1>1. /\ pc[p] = "keep" /\ Goto(p, "answered") /\ backup' = seen \cup {BackupEntry(p)}
      /\ UNCHANGED <<profiles, s3, exits, contacts, access, tests, overlapped>>
  BY DEF BackupSet
<1>2. /\ p \in Proc /\ req[p] \in Request /\ req[p].op = "patch"
      /\ EventCallOK(p[2], "keep", req[p], There)
  BY <1>1, EventCalled
<1>3. There' = There /\ There \subseteq Employee
  BY <1>1, SameDocs DEF There
<1>4. Turns(p) /\ pc'[p] = "answered"
  BY <1>1, <1>3, GotoTurns DEF Label
<1>5. p \in Keeping
  BY <1>1, <1>2 DEF Keeping
<1>6. BackupEntry(p) \in Failed /\ BackupEntry(p).email = req[p].who
  BY <1>2, <1>3 DEF EventCallOK, BackupEntry, Failed, Request
<1>7. backup' \subseteq Failed
  BY <1>1, <1>2, <1>6 DEF Request
<1>8. ASSUME NEW c, KeptFor(c) PROVE KeptFor(c)'
  <2>1. CASE contacts[c] # None
    BY <2>1, <1>1 DEF KeptFor
  <2>2. CASE \A q \in Keeping : \E b \in req[q].seen : b.email = c
    <3>1. Backed(c)'
      BY <2>2, <1>1, <1>5 DEF Backed
    <3>2. \A q \in Keeping' : q \in Keeping /\ req'[q] = req[q]
      BY <1>4, KeepingStays
    <3> QED  BY <2>2, <3>1, <3>2 DEF KeptFor
  <2> QED  BY <1>8, <2>1, <2>2 DEF KeptFor
<1>9. \A q, s \in Keeping' : q # s => q \in overlapped'
  BY <1>1, <1>4, KeepingStays DEF ContactsOK
<1>10. ASSUME NEW r \in Req, pc'[<<r, "contact">>] = "answered",
              <<r, "contact">> \notin overlapped'
       PROVE  KeptFor(req[<<r, "http">>].who)'
  <2>1. PICK c : c = req'[<<r, "http">>].who
    OBVIOUS
  <2>2. CASE p = <<r, "contact">>
    <3>1. c = req[p].who
      BY <1>4, <2>1, <2>2, HandledNow
    <3>2. Keeping' = {}
      BY <1>1, <1>4, <1>5, <1>10, <2>2, KeepingStays DEF ContactsOK
    <3>3. Backed(c)'
      BY <1>1, <1>6, <3>1 DEF Backed
    <3> QED  BY <2>1, <3>2, <3>3 DEF KeptFor, Backed
  <2>3. CASE p # <<r, "contact">>
    <3>1. /\ pc[<<r, "contact">>] = "answered" /\ c = req[<<r, "http">>].who
      BY <1>4, <1>10, <2>1, <2>3, HandledBefore
    <3>2. KeptFor(c)'
      BY <1>1, <1>8, <1>10, <3>1 DEF ContactsOK
    <3> QED  BY <2>1, <3>2 DEF KeptFor, Backed
  <2> QED  BY <2>2, <2>3
<1>11. ContactsOK'
  BY <1>9, <1>10 DEF ContactsOK
<1>12. contacts' \in [Employee -> Writer] /\ overlapped \subseteq overlapped'
  BY <1>1 DEF OutsideOK
<1> QED  BY <1>1, <1>2, <1>4, <1>7, <1>11, <1>12, ContactKeeps

-----------------------------------------------------------------------------
(* Files *)

\* The call of an operation on files.
LEMMA MediaCalled ==
  ASSUME BaseInv, NEW p \in Active, NEW l, At(p, Media, l)
  PROVE  /\ p \in Proc /\ p[2] = "http" /\ p = <<p[1], "http">> /\ p[1] \in Req /\ pc[p] = l
         /\ req[p] \in Request /\ req[p].op \in Media
         /\ HttpCallOK(l, req[p], There) /\ req[p].key \in KeysOf(req[p].op)
         /\ req[p].op = "avatar" => req[p].who \in Employer
         /\ req[p].op \in EmployeeMedia => req[p].who \in There /\ req[p].who \in Employee
<1>1. /\ p \in Proc /\ req[p] \in Request /\ CallOK(p, l, req[p], There) /\ pc[p] = l
      /\ req[p].op \in Media
  BY Called DEF BaseInv, At
<1>2. p[2] = "http" /\ HttpCallOK(l, req[p], There)
  BY <1>1 DEF CallOK, EventCallOK, Media
<1>3. req[p].key \in KeysOf(req[p].op) /\ req[p].who \in WhomEver(req[p].op, There)
  BY <1>2 DEF HttpCallOK
<1> QED  BY <1>1, <1>2, <1>3, Pairs DEF WhomEver, EmployeeMedia, There

\* Two requests that draw the same key are the same.
LEMMA MediaHttp ==
  ASSUME ControlOK, NEW q \in MediaCalls
  PROVE  q \in Active /\ q \in Proc /\ q = <<q[1], "http">> /\ q[1] \in Req /\ pc[q] # "answered"
<1>1. q \in Active /\ q \in Proc /\ CallOK(q, pc[q], req[q], There) /\ req[q].op \in EmployeeMedia
  BY Called DEF MediaCalls
<1>2. q[2] = "http"
  BY <1>1 DEF CallOK, EventCallOK, EmployeeMedia
<1> QED  BY <1>1, <1>2, Pairs DEF Active

\* An operation of p leaves the other calls on files alone.
LEMMA MediaOthers ==
  ASSUME ControlOK, NEW p \in Active, Turns(p)
  PROVE  /\ \A q \in MediaCalls' : q # p => q \in MediaCalls /\ Same(q)
         /\ \A q \in MediaCalls : q # p => q \in MediaCalls' /\ Same(q)
         /\ \A r \in Req : pc[<<r, "http">>] = "answered" => pc'[<<r, "http">>] = "answered"
<1>1. ASSUME NEW q \in MediaCalls', q # p PROVE q \in MediaCalls /\ Same(q)
  <2>1. q \in Proc /\ q \in Active' /\ req'[q].op \in EmployeeMedia
    BY <1>1, ActiveNext DEF MediaCalls
  <2>2. Same(q)
    BY <1>1, <2>1, HearsOnly DEF Turns, EmployeeMedia
  <2> QED  BY <2>1, <2>2, ActiveNext DEF Same, MediaCalls, Active
<1>2. ASSUME NEW q \in MediaCalls, q # p PROVE q \in MediaCalls' /\ Same(q)
  <2>1. q \in Proc /\ q \in Active /\ req[q].op # "patch" /\ req[q].op \in EmployeeMedia
    BY DEF MediaCalls, Active, EmployeeMedia
  <2>2. Same(q)
    BY <1>2, <2>1, HearsOnly DEF Turns
  <2> QED  BY <2>1, <2>2, ActiveNext DEF Same, MediaCalls, Active
<1> QED  BY <1>1, <1>2, AnsweredSame DEF Same

\* An update of a file that goes on.
LEMMA MediaGoesOn ==
  ASSUME ControlOK, DocsOK, MediaOK, FilesKept, overlapped' = overlapped,
         NEW p \in MediaCalls, p \in MediaCalls', Turns(p),
         req'[p].who = req[p].who, req'[p].op = req[p].op,
         Answered(req'[p].key),
         \A c \in Employee, op \in EmployeeMedia :
           req'[p].key = employee[c][op] /\ employee[c][op] # None
             => c = req[p].who /\ op = req[p].op,
         pc'[p] = "write" => s3'[p[1]] = req[p].who,
         \A q \in MediaCalls : q # p /\ pc[q] = "write" => s3'[q[1]] = s3[q[1]],
         \A c \in Employee, op \in EmployeeMedia :
           LET k == employee[c][op]
           IN  k # None /\ s3[k] = c =>
                 \/ s3'[k] = c
                 \/ /\ req[p].who = c /\ req[p].op = op /\ req'[p].key = k
                    /\ pc'[p] \in {"upload", "write"},
         pc[p] \in {"upload", "write"} =>
           pc'[p] \in {"upload", "write"} /\ req'[p].key = req[p].key
  PROVE  MediaOK'
<1> USE DEF MediaOK
<1>1. p \in Active
  BY DEF MediaCalls
<1>2. /\ \A q \in MediaCalls' : q # p => q \in MediaCalls /\ Same(q)
      /\ \A q \in MediaCalls : q # p => q \in MediaCalls' /\ Same(q)
      /\ \A r \in Req : pc[<<r, "http">>] = "answered" => pc'[<<r, "http">>] = "answered"
  BY <1>1, MediaOthers
<1>3. ASSUME NEW k, Answered(k) PROVE Answered(k)'
  BY <1>2, <1>3 DEF Answered
<1>4. \A c \in Employee, op \in EmployeeMedia : Answered(employee[c][op])'
  <2> SUFFICES ASSUME NEW c \in Employee, NEW op \in EmployeeMedia
               PROVE  Answered(employee[c][op])'
    OBVIOUS
  <2>1. PICK k : k = employee[c][op]
    OBVIOUS
  <2>2. Answered(k)'
    BY <2>1, <1>3 DEF KeysOK
  <2> QED  BY <2>1, <2>2 DEF Answered, FilesKept
<1>5. \A c, d \in Employee, op, o \in EmployeeMedia :
        employee'[c][op] = employee'[d][o] /\ employee'[c][op] # None => c = d /\ op = o
  BY DEF KeysOK, FilesKept
<1>6. ASSUME NEW q \in MediaCalls'
      PROVE  /\ Answered(req[q].key)'
             /\ \A c \in Employee, op \in EmployeeMedia :
                  req'[q].key = employee'[c][op] /\ employee'[c][op] # None
                    => c = req'[q].who /\ op = req'[q].op
             /\ pc'[q] = "write" => s3'[q[1]] = req'[q].who
  <2>1. CASE q = p
    <3>1. PICK k : k = req'[p].key
      OBVIOUS
    <3>2. Answered(k)'
      BY <3>1, <1>3
    <3>3. Answered(req[p].key)'
      BY <3>1, <3>2 DEF Answered
    <3> QED  BY <2>1, <3>3 DEF FilesKept
  <2>2. CASE q # p
    <3>1. q \in MediaCalls /\ Same(q)
      BY <2>2, <1>2
    <3>2. PICK k : k = req[q].key
      OBVIOUS
    <3>3. Answered(k)'
      BY <3>1, <3>2, <1>3 DEF KeysOK
    <3>4. Answered(req[q].key)'
      BY <3>1, <3>2, <3>3 DEF Answered, Same
    <3>5. \A c \in Employee, op \in EmployeeMedia :
            req'[q].key = employee'[c][op] /\ employee'[c][op] # None
              => c = req'[q].who /\ op = req'[q].op
      BY <3>1 DEF KeysOK, Same, FilesKept
    <3>6. pc'[q] = "write" => s3'[q[1]] = req'[q].who
      BY <2>2, <3>1 DEF KeysOK, Same
    <3> QED  BY <3>4, <3>5, <3>6
  <2> QED  BY <2>1, <2>2
<1>7. KeysOK'
  BY <1>4, <1>5, <1>6 DEF KeysOK
<1>8. ASSUME NEW c \in Employee, NEW op \in EmployeeMedia PROVE FileOK(c, op)'
  <2> DEFINE k == employee[c][op]
  <2>1. employee'[c][op] = k /\ FileOK(c, op)
    BY DEF FilesKept
  <2>2. CASE k = None \/ <<c, op, k>> \in overlapped
    BY <2>1, <2>2 DEF FileOK
  <2>3. CASE k # None /\ s3[k] = c
    <3>1. CASE s3'[k] = c
      BY <2>1, <3>1 DEF FileOK
    <3>2. CASE /\ req[p].who = c /\ req[p].op = op /\ req'[p].key = k
               /\ pc'[p] \in {"upload", "write"}
      BY <2>1, <3>2 DEF FileOK
    <3> QED  BY <2>3, <3>1, <3>2
  <2>4. CASE \E q \in MediaCalls : /\ req[q].who = c /\ req[q].op = op /\ req[q].key = k
                                  /\ pc[q] \in {"upload", "write"}
    <3>1. PICK q \in MediaCalls : /\ req[q].who = c /\ req[q].op = op /\ req[q].key = k
                                  /\ pc[q] \in {"upload", "write"}
      BY <2>4
    <3>2. /\ q \in MediaCalls' /\ req'[q].who = c /\ req'[q].op = op /\ req'[q].key = k
          /\ pc'[q] \in {"upload", "write"}
      <4>1. CASE q = p
        BY <3>1, <4>1
      <4>2. CASE q # p
        BY <3>1, <4>2, <1>2 DEF Same
      <4> QED  BY <4>1, <4>2
    <3> QED  BY <2>1, <3>2 DEF FileOK
  <2> QED  BY <2>1, <2>2, <2>3, <2>4 DEF FileOK
<1> QED  BY <1>7, <1>8

\* The rest of the invariant, after an operation on files.
LEMMA MediaKeeps ==
  ASSUME IInv, area' = area, NEW p \in Active, Turns(p), p[2] = "http",
         req[p].op \in Media, pc'[p] # "keep", MediaOK', DocsOK', There' = There,
         s3' \in [Key -> Employee \cup Employer \cup {None}],
         UNCHANGED <<exits, rd, tests, overlapped>>
  PROVE  IInv'
<1> USE DEF IInv, BaseInv
<1>1. ControlOK'
  BY TurnsControl
<1>2. OutsideOK' /\ TestsTyped'
  BY DEF OutsideOK, TestsTyped, tests, rd
<1>3. ContactsOK'
  BY TurnsContacts DEF rd
<1>4. ResultsOK'
  BY TurnsResults DEF tests, Media
<1> QED  BY <1>1, <1>2, <1>3, <1>4

\* The key of what a call replaces.
LEMMA KeyOfType ==
  ASSUME BaseInv, NEW p \in Active, NEW l, At(p, Media, l)
  PROVE  KeyOf(req[p]) \in KeysOf(req[p].op)
BY MediaCalled DEF KeyOf, KeysOf, BaseInv, DocsOK, EmployeeMedia, Media

\* No two profile entries have the same file.
LEMMA OneEntry ==
  ASSUME KeysOK, NEW c \in Employee, NEW op \in EmployeeMedia,
         NEW d \in Employee, NEW o \in EmployeeMedia,
         employee[c][op] = employee[d][o], employee[c][op] # None
  PROVE  c = d /\ op = o
BY DEF KeysOK

\* The key of the file to be replaced is read.
LEMMA MediaReadDoes ==
  ASSUME IInv, area' = area, NEW p \in Active, MediaRead(p)
  PROVE  IInv' /\ ListsKept
<1> DEFINE key == KeyOf(req[p])
           l == IF key = None THEN "upload" ELSE "remove"
<1> USE DEF IInv, BaseInv
<1>1. PICK q : q = [req[p] EXCEPT !.key = key]
  OBVIOUS
<1>2. /\ At(p, Media, "read") /\ Keep(p, l, q)
      /\ UNCHANGED <<profiles, s3, exits, rd, tests, overlapped>>
  BY <1>1 DEF MediaRead
<1>3. /\ p \in Proc /\ p[2] = "http" /\ req[p] \in Request /\ req[p].op \in Media /\ pc[p] = "read"
      /\ HttpCallOK("read", req[p], There)
      /\ req[p].op \in EmployeeMedia => req[p].who \in Employee
  BY <1>2, MediaCalled
<1>4. key \in KeysOf(req[p].op)
  BY <1>2, KeyOfType
<1>5. key \in Key \cup {None}
  BY <1>4 DEF KeysOf, FileKey, Key
<1>6. /\ q \in Request /\ q.op = req[p].op /\ q.who = req[p].who /\ q.key = key
      /\ q.list = req[p].list /\ q.item = req[p].item /\ q.step = req[p].step
  BY <1>1, <1>3, <1>5 DEF Request
<1>7. l \in {"upload", "remove"}
  OBVIOUS
<1> HIDE DEF l
<1>8. CallOK(p, l, q, There)
  BY <1>3, <1>4, <1>6, <1>7 DEF CallOK, HttpCallOK
<1>9. DocsOK' /\ FilesKept /\ There' = There /\ ListsKept
  BY <1>2, SameDocs
<1>10. Turns(p) /\ pc'[p] = l /\ req'[p] = q
  BY <1>2, <1>3, <1>6, <1>7, <1>8, <1>9, KeepTurns DEF Label
<1>11. StoredKept /\ overlapped' = overlapped
  BY <1>2 DEF StoredKept
<1>12. MediaOK'
  <2>1. CASE req[p].op \notin EmployeeMedia
    BY <2>1, <1>9, <1>10, <1>11, TurnsMedia
  <2>2. CASE req[p].op \in EmployeeMedia
    <3>1. p \in MediaCalls /\ p \in MediaCalls'
      BY <2>2, <1>3, <1>6, <1>7, <1>10, ActiveNext DEF MediaCalls
    <3>2. key = employee[req[p].who][req[p].op]
      BY <2>2 DEF KeyOf, EmployeeMedia
    <3>3. Answered(key)
      <4>1. \A c \in Employee, op \in EmployeeMedia : Answered(employee[c][op])
        BY DEF MediaOK, KeysOK
      <4> QED  BY <4>1, <3>2, <2>2, <1>3
    <3>4. \A c \in Employee, op \in EmployeeMedia :
            key = employee[c][op] /\ employee[c][op] # None => c = req[p].who /\ op = req[p].op
      <4> SUFFICES ASSUME NEW c \in Employee, NEW op \in EmployeeMedia,
                          key = employee[c][op], employee[c][op] # None
                   PROVE  c = req[p].who /\ op = req[p].op
        OBVIOUS
      <4>1. PICK d \in Employee, o \in EmployeeMedia : d = req[p].who /\ o = req[p].op
        BY <2>2, <1>3
      <4>2. employee[c][op] = employee[d][o]
        BY <4>1, <3>2
      <4>3. c = d /\ op = o
        BY <4>2, OneEntry DEF MediaOK
      <4> QED  BY <4>1, <4>3
    <3>5. req'[p].key = key /\ req'[p].who = req[p].who /\ req'[p].op = req[p].op
      BY <1>6, <1>10
    <3>6. Answered(req'[p].key)
      BY <3>3, <3>5
    <3> HIDE DEF key
    <3>7. \A c \in Employee, op \in EmployeeMedia :
            req'[p].key = employee[c][op] /\ employee[c][op] # None
              => c = req[p].who /\ op = req[p].op
      BY <3>4, <3>5
    <3>8. s3' = s3 /\ pc'[p] # "write" /\ pc[p] \notin {"upload", "write"}
      BY <1>2, <1>3, <1>7, <1>10
    <3> QED  BY <1>9, <1>10, <1>11, <3>1, <3>5, <3>6, <3>7, <3>8, MediaGoesOn
  <2> QED  BY <2>1, <2>2
<1>13. s3' \in [Key -> Employee \cup Employer \cup {None}]
  BY <1>2 DEF OutsideOK
<1> QED  BY <1>2, <1>3, <1>7, <1>9, <1>10, <1>12, <1>13, MediaKeeps

\* The label after an operation that goes on with the same call.
LEMMA MediaLabel ==
  ASSUME BaseInv, NEW p \in Active, NEW l, At(p, Media, l), NEW m \in {"upload", "write"}
  PROVE  CallOK(p, m, req[p], There)
BY MediaCalled DEF CallOK, HttpCallOK

\* That file is removed: no other entry of a profile has its key.
LEMMA MediaRemoveDoes ==
  ASSUME IInv, area' = area, NEW p \in Active, MediaRemove(p)
  PROVE  IInv' /\ ListsKept
<1> DEFINE key == req[p].key
<1> USE DEF IInv, BaseInv
<1>1. /\ At(p, Media, "remove") /\ Goto(p, "upload") /\ s3' = [s3 EXCEPT ![key] = None]
      /\ UNCHANGED <<profiles, exits, rd, tests, overlapped>>
  BY DEF MediaRemove
<1>2. /\ p \in Proc /\ p[2] = "http" /\ req[p].op \in Media /\ pc[p] = "remove"
      /\ key \in KeysOf(req[p].op)
  BY <1>1, MediaCalled
<1>3. DocsOK' /\ FilesKept /\ There' = There /\ ListsKept
  BY <1>1, SameDocs
<1>4. CallOK(p, "upload", req[p], There)
  BY <1>1, MediaLabel
<1>5. Turns(p) /\ pc'[p] = "upload" /\ req'[p] = req[p]
  BY <1>1, <1>3, <1>4, GotoTurns DEF Label
<1>6. /\ s3 \in [Key -> Employee \cup Employer \cup {None}]
      /\ s3' \in [Key -> Employee \cup Employer \cup {None}]
      /\ \A k \in Key : k # key => s3'[k] = s3[k]
  BY <1>1 DEF OutsideOK
<1>7. MediaOK'
  <2>1. CASE req[p].op \notin EmployeeMedia
    <3>1. key \notin FileKey
      BY <2>1, <1>2, ProfilesAssumption DEF KeysOf, FileKey, Key, Media, EmployeeMedia
    <3>2. StoredKept
      BY <3>1, <1>6 DEF StoredKept, FileKey, Key
    <3> QED  BY <2>1, <3>2, <1>1, <1>3, <1>5, TurnsMedia
  <2>2. CASE req[p].op \in EmployeeMedia
    <3>1. p \in MediaCalls /\ p \in MediaCalls'
      BY <2>2, <1>2, <1>5, ActiveNext DEF MediaCalls
    <3>2. Answered(key)
      BY <3>1 DEF MediaOK, KeysOK
    <3>3. \A c \in Employee, op \in EmployeeMedia :
            key = employee[c][op] /\ employee[c][op] # None => c = req[p].who /\ op = req[p].op
      BY <3>1 DEF MediaOK, KeysOK
    <3>4. ASSUME NEW q \in MediaCalls PROVE s3'[q[1]] = s3[q[1]]
      <4>1. q[1] \in Req /\ pc[<<q[1], "http">>] # "answered"
        BY MediaHttp
      <4>2. q[1] # key
        BY <4>1, <3>2 DEF Answered
      <4> QED  BY <4>1, <4>2, <1>6 DEF Key
    <3>5. ASSUME NEW c \in Employee, NEW op \in EmployeeMedia, employee[c][op] # None,
                 s3[employee[c][op]] = c
          PROVE  \/ s3'[employee[c][op]] = c
                 \/ req[p].who = c /\ req[p].op = op /\ req'[p].key = employee[c][op]
      <4>1. CASE employee[c][op] = key
        BY <4>1, <3>3, <3>5, <1>5
      <4>2. CASE employee[c][op] # key
        <5>1. employee[c][op] \in Key
          BY <3>5 DEF DocsOK, FileKey, Key
        <5> QED  BY <4>2, <5>1, <3>5, <1>6
      <4> QED  BY <4>1, <4>2
    <3> QED  BY <1>1, <1>2, <1>3, <1>5, <3>1, <3>2, <3>3, <3>4, <3>5, MediaGoesOn
  <2> QED  BY <2>1, <2>2
<1> QED  BY <1>1, <1>2, <1>3, <1>5, <1>6, <1>7, MediaKeeps

\* The new file is stored under a key that no entry has.
LEMMA MediaUploadDoes ==
  ASSUME IInv, area' = area, NEW p \in Active, MediaUpload(p)
  PROVE  IInv' /\ ListsKept
<1> DEFINE key == req[p].key
<1> USE DEF IInv, BaseInv
<1>1. /\ At(p, Media, "upload") /\ Goto(p, "write")
      /\ s3' = [s3 EXCEPT ![NewKey(p)] = req[p].who]
      /\ UNCHANGED <<profiles, exits, rd, tests, overlapped>>
  BY DEF MediaUpload
<1>2. /\ p \in Proc /\ p[2] = "http" /\ p[1] \in Req /\ req[p].op \in Media /\ pc[p] = "upload"
      /\ p = <<p[1], "http">> /\ req[p].who \in Employee \cup Employer
  BY <1>1, MediaCalled DEF EmployeeMedia, Media
<1>3. DocsOK' /\ FilesKept /\ There' = There /\ ListsKept
  BY <1>1, SameDocs
<1>4. CallOK(p, "write", req[p], There)
  BY <1>1, MediaLabel
<1>5. Turns(p) /\ pc'[p] = "write" /\ req'[p] = req[p]
  BY <1>1, <1>3, <1>4, GotoTurns DEF Label
<1>6. NewKey(p) \in Key
  BY <1>2 DEF NewKey, Key, AvatarKey, OutsideOK
<1>7. /\ s3 \in [Key -> Employee \cup Employer \cup {None}]
      /\ s3' \in [Key -> Employee \cup Employer \cup {None}]
      /\ s3'[NewKey(p)] = req[p].who
      /\ \A k \in Key : k # NewKey(p) => s3'[k] = s3[k]
  BY <1>1, <1>2, <1>6 DEF OutsideOK
<1>8. MediaOK'
  <2>1. CASE req[p].op \notin EmployeeMedia
    <3>1. NewKey(p) \in AvatarKey
      BY <2>1, <1>2 DEF NewKey, AvatarKey, OutsideOK, Media, EmployeeMedia
    <3>2. StoredKept
      BY <3>1, <1>7, ProfilesAssumption DEF StoredKept, FileKey, Key
    <3> QED  BY <2>1, <3>2, <1>1, <1>3, <1>5, TurnsMedia
  <2>2. CASE req[p].op \in EmployeeMedia
    <3>1. p \in MediaCalls /\ p \in MediaCalls'
      BY <2>2, <1>2, <1>5, ActiveNext DEF MediaCalls
    <3>2. NewKey(p) = p[1]
      BY <2>2 DEF NewKey, EmployeeMedia
    <3>3. Answered(key) /\ ~Answered(p[1])
      BY <3>1, <1>2 DEF MediaOK, KeysOK, Answered
    <3>4. \A c \in Employee, op \in EmployeeMedia :
            key = employee[c][op] /\ employee[c][op] # None => c = req[p].who /\ op = req[p].op
      BY <3>1 DEF MediaOK, KeysOK
    <3>5. ASSUME NEW q \in MediaCalls, q # p PROVE s3'[q[1]] = s3[q[1]]
      BY <3>2, <3>5, <1>2, <1>7, MediaHttp DEF Key
    <3>6. ASSUME NEW c \in Employee, NEW op \in EmployeeMedia, employee[c][op] # None,
                 s3[employee[c][op]] = c
          PROVE  s3'[employee[c][op]] = c
      <4>1. Answered(employee[c][op])
        BY DEF MediaOK, KeysOK
      <4>2. employee[c][op] # p[1]
        BY <4>1, <3>3
      <4>3. employee[c][op] \in Key
        BY <3>6 DEF DocsOK, FileKey, Key
      <4> QED  BY <4>2, <4>3, <3>2, <3>6, <1>7
    <3>7. s3'[p[1]] = req[p].who
      BY <3>2, <1>7
    <3> QED  BY <1>1, <1>2, <1>3, <1>5, <3>1, <3>3, <3>4, <3>5, <3>6, <3>7, MediaGoesOn
  <2> QED  BY <2>1, <2>2
<1> QED  BY <1>1, <1>2, <1>3, <1>5, <1>7, <1>8, MediaKeeps

\* The key that was drawn is named by the profile.
LEMMA MediaWriteDoes ==
  ASSUME IInv, area' = area, NEW p \in Active, MediaWrite(p)
  PROVE  IInv' /\ ListsKept
<1> DEFINE c0 == req[p].who
           o0 == req[p].op
<1> USE DEF IInv, BaseInv
<1>0. PICK new : new = NewKey(p)
  OBVIOUS
<1>1. /\ At(p, Media, "write") /\ Goto(p, "answered")
      /\ IF o0 = "avatar"
         THEN /\ employer' = [employer EXCEPT ![c0].image = new]
              /\ UNCHANGED employee
         ELSE /\ employee' = [employee EXCEPT ![c0][o0] = new]
              /\ UNCHANGED employer
      /\ UNCHANGED <<s3, exits, rd, tests, overlapped>>
  BY <1>0 DEF MediaWrite
<1>2. At(p, Media, "write")
  BY <1>1
<1>3. /\ p \in Proc /\ p[2] = "http" /\ p[1] \in Req /\ o0 \in Media /\ pc[p] = "write"
      /\ p = <<p[1], "http">>
      /\ o0 = "avatar" => c0 \in Employer
      /\ o0 \in EmployeeMedia => c0 \in Employee
  BY <1>2, MediaCalled
<1>4. new \in Key
  BY <1>0, <1>3 DEF NewKey, Key, AvatarKey, OutsideOK
<1>5. s3' \in [Key -> Employee \cup Employer \cup {None}]
  BY <1>1 DEF OutsideOK
<1>6. CASE o0 = "avatar"
  <2>1. employer \in [Employer -> EmployerDoc] /\ c0 \in Employer
    BY <1>3, <1>6 DEF DocsOK
  <2>2. new \in AvatarKey
    BY <1>0, <1>6 DEF NewKey, AvatarKey, OutsideOK
  <2>3. employer' = [employer EXCEPT ![c0].image = new] /\ employee' = employee
    BY <1>1, <1>6
  <2>4. /\ employer' \in [Employer -> EmployerDoc]
        /\ \A e \in Employer : employer'[e].image \in {employer[e].image, new}
    BY <1>4, <2>1, <2>3 DEF EmployerDoc
  <2>5. DocsOK' /\ FilesKept /\ There' = There /\ ListsKept
    BY <2>2, <2>3, <2>4 DEF DocsOK, FilesKept, There, ListsKept
  <2>6. Turns(p) /\ pc'[p] = "answered"
    BY <1>1, <2>5, GotoTurns DEF Label
  <2>7. StoredKept /\ overlapped' = overlapped
    BY <1>1 DEF StoredKept
  <2>8. MediaOK'
    BY <1>6, <2>5, <2>6, <2>7, TurnsMedia DEF EmployeeMedia
  <2> QED  BY <1>1, <1>3, <1>5, <2>5, <2>6, <2>8, MediaKeeps
<1>7. CASE o0 # "avatar"
  <2>1. o0 \in EmployeeMedia /\ c0 \in Employee
    BY <1>3, <1>7 DEF Media, EmployeeMedia
  <2>2. new = p[1] /\ new \in FileKey
    BY <1>0, <1>3, <1>7 DEF NewKey, FileKey
  <2>3. employee' = [employee EXCEPT ![c0][o0] = new] /\ employer' = employer
    BY <1>1, <1>7
  <2>4. employee \in [Employee -> EmployeeDoc] /\ employee[c0] \in EmployeeDoc
    BY <2>1 DEF DocsOK
  <2>5. PICK w : w = [employee[c0] EXCEPT ![o0] = new]
    OBVIOUS
  <2>6. /\ w \in EmployeeDoc /\ w.there = employee[c0].there /\ w.version = employee[c0].version
        /\ w.lists = employee[c0].lists /\ w[o0] = new
        /\ \A op \in EmployeeMedia : op # o0 => w[op] = employee[c0][op]
    <3>1. CASE o0 = "image"
      BY <1>4, <2>4, <2>5, <3>1 DEF EmployeeDoc, EmployeeMedia
    <3>2. CASE o0 = "pdf"
      BY <1>4, <2>4, <2>5, <3>2 DEF EmployeeDoc, EmployeeMedia
    <3> QED  BY <2>1, <3>1, <3>2 DEF EmployeeMedia
  <2>7. employee'[c0] = w /\ \A d \in Employee \ {c0} : employee'[d] = employee[d]
    BY <2>1, <2>3, <2>4, <2>5
  <2>8. employee' \in [Employee -> EmployeeDoc]
    BY <2>1, <2>3, <2>4, <2>6, <2>7
  <2>9. \A c \in Employee, op \in EmployeeMedia :
          employee'[c][op] = IF c = c0 /\ op = o0 THEN new ELSE employee[c][op]
    BY <2>1, <2>6, <2>7
  <2>10. There' = There /\ ListsKept
    <3>1. \A c \in Employee : /\ employee'[c].there = employee[c].there
                              /\ employee'[c].version = employee[c].version
                              /\ employee'[c].lists = employee[c].lists
      BY <2>6, <2>7
    <3> QED  BY <3>1 DEF There, ListsKept
  <2>11. DocsOK'
    <3>1. \A c \in There' : employee'[c].version # None
      BY <2>6, <2>7, <2>10 DEF DocsOK, There
    <3>2. \A c \in Employee, op \in EmployeeMedia : employee'[c][op] \in FileKey \cup {None}
      BY <2>2, <2>9 DEF DocsOK
    <3> QED  BY <2>3, <2>8, <3>1, <3>2 DEF DocsOK
  <2>12. Turns(p) /\ pc'[p] = "answered"
    BY <1>1, <2>10, GotoTurns DEF Label
  <2>13. MediaOK'
    <3>1. p \in MediaCalls /\ p \notin MediaCalls'
      BY <2>1, <1>3, <2>12, ActiveNext DEF MediaCalls, Active
    <3>2. /\ \A q \in MediaCalls' : q \in MediaCalls /\ Same(q)
          /\ \A q \in MediaCalls : q # p => q \in MediaCalls' /\ Same(q)
          /\ \A r \in Req : pc[<<r, "http">>] = "answered" => pc'[<<r, "http">>] = "answered"
      BY <2>12, <3>1, MediaOthers
    <3>3. /\ ~Answered(new)
          /\ \A c \in Employee, op \in EmployeeMedia : Answered(employee[c][op])
          /\ \A q \in MediaCalls : Answered(req[q].key)
      BY <1>3, <2>2 DEF Answered, MediaOK, KeysOK
    <3>4. \A c \in Employee, op \in EmployeeMedia : employee[c][op] # new
      BY <3>3
    <3>5. ASSUME NEW k, Answered(k) PROVE Answered(k)'
      BY <3>2, <3>5 DEF Answered
    <3>6. Answered(new)'
      BY <1>3, <2>2, <2>12 DEF Answered
    <3>7. ASSUME NEW c \in Employee, NEW op \in EmployeeMedia
          PROVE  Answered(employee[c][op])'
      <4>1. PICK k : k = employee'[c][op]
        OBVIOUS
      <4>2. Answered(k)'
        <5>1. CASE k = new
          <6>1. k \in Req => pc'[<<k, "http">>] = "answered"
            BY <3>6, <5>1 DEF Answered
          <6> QED  BY <6>1 DEF Answered
        <5>2. CASE k # new
          BY <4>1, <5>2, <2>9, <3>3, <3>5
        <5> QED  BY <5>1, <5>2
      <4> QED  BY <4>1, <4>2 DEF Answered
    <3>8. ASSUME NEW c \in Employee, NEW d \in Employee, NEW op \in EmployeeMedia,
                 NEW o \in EmployeeMedia, employee'[c][op] = employee'[d][o],
                 employee'[c][op] # None
          PROVE  c = d /\ op = o
      <4>1. /\ employee'[c][op] = IF c = c0 /\ op = o0 THEN new ELSE employee[c][op]
            /\ employee'[d][o] = IF d = c0 /\ o = o0 THEN new ELSE employee[d][o]
        BY <2>9
      <4>2. employee[c][op] # new /\ employee[d][o] # new
        BY <3>4
      <4>3. CASE employee[c][op] = employee[d][o] /\ employee[c][op] # None
        BY <4>3, OneEntry DEF MediaOK
      <4> QED  BY <3>8, <4>1, <4>2, <4>3
    <3>9. ASSUME NEW q \in MediaCalls'
          PROVE  /\ Answered(req[q].key)'
                 /\ \A c \in Employee, op \in EmployeeMedia :
                      req'[q].key = employee'[c][op] /\ employee'[c][op] # None
                        => c = req'[q].who /\ op = req'[q].op
                 /\ pc'[q] = "write" => s3'[q[1]] = req'[q].who
      <4>1. q \in MediaCalls /\ pc'[q] = pc[q] /\ req'[q] = req[q]
        BY <3>2 DEF Same
      <4>2. PICK k : k = req[q].key
        OBVIOUS
      <4>3. Answered(k) /\ Answered(k)' /\ k # new
        BY <3>3, <3>5, <4>1, <4>2
      <4>4. Answered(req[q].key)'
        BY <4>1, <4>2, <4>3 DEF Answered
      <4>5. \A c \in Employee, op \in EmployeeMedia :
              k = employee[c][op] /\ employee[c][op] # None => c = req[q].who /\ op = req[q].op
        BY <4>1, <4>2 DEF MediaOK, KeysOK
      <4>6. \A c \in Employee, op \in EmployeeMedia :
              k = employee'[c][op] /\ employee'[c][op] # None => c = req[q].who /\ op = req[q].op
        BY <2>9, <4>3, <4>5
      <4>7. pc[q] = "write" => s3'[q[1]] = req[q].who
        BY <1>1, <4>1 DEF MediaOK, KeysOK
      <4> QED  BY <4>1, <4>2, <4>4, <4>6, <4>7
    <3>10. KeysOK'
      BY <3>7, <3>8, <3>9 DEF KeysOK
    <3>11. s3' = s3 /\ overlapped' = overlapped /\ s3[new] = c0
      BY <1>1, <1>3, <2>2, <3>1 DEF MediaOK, KeysOK
    <3>12. ASSUME NEW c \in Employee, NEW op \in EmployeeMedia PROVE FileOK(c, op)'
      <4>1. CASE c = c0 /\ op = o0
        BY <4>1, <2>9, <3>11 DEF FileOK
      <4>2. CASE ~(c = c0 /\ op = o0)
        <5>1. employee'[c][op] = employee[c][op] /\ FileOK(c, op)
          BY <2>9, <4>2 DEF MediaOK
        <5>2. ASSUME NEW q \in MediaCalls, req[q].who = c, req[q].op = op
              PROVE  q \in MediaCalls' /\ Same(q)
          BY <3>2, <4>2, <5>2
        <5> QED  BY <3>11, <5>1, <5>2 DEF FileOK, Same
      <4> QED  BY <4>1, <4>2
    <3> QED  BY <3>10, <3>12 DEF MediaOK
  <2> QED  BY <1>1, <1>3, <1>5, <2>10, <2>11, <2>12, <2>13, MediaKeeps
<1> QED  BY <1>6, <1>7

-----------------------------------------------------------------------------
(* Tests *)

\* The least of some numbers.
LEMMA MinOf ==
  ASSUME NEW S \in SUBSET Nat, S # {}
  PROVE  Min(S) \in S /\ \A y \in S : Min(S) =< y
<1>1. PICK x \in S : \A y \in S : ~(<<y, x>> \in OpToRel(<, Nat))
  BY WFMin, NatLessThanWellFounded
<1>2. ASSUME NEW y \in S PROVE x =< y
  <2>1. ~(<<y, x>> \in OpToRel(<, Nat))
    BY <1>1
  <2>2. ~(y < x)
    BY <2>1 DEF OpToRel
  <2> QED  BY <2>2
<1> QED  BY <1>2 DEF Min

\* FirstRow is 0 without rows of c, and otherwise the first of them.
LEMMA FirstRowFacts ==
  ASSUME TestsTyped, NEW c
  PROVE  /\ FirstRow(c) = 0 <=> RowsOf(c) = {}
         /\ FirstRow(c) # 0 => /\ FirstRow(c) \in RowsOf(c)
                               /\ \A i \in RowsOf(c) : FirstRow(c) =< i
<1>1. RowsOf(c) \in SUBSET Nat /\ 0 \notin RowsOf(c)
  BY DEF RowsOf, TestsTyped
<1> QED  BY <1>1, MinOf, FirstRowIs

\* The call of an operation on tests.
LEMMA TestCalled ==
  ASSUME BaseInv, NEW p \in Active, NEW op \in {"join", "place", "result"}, NEW l, At(p, {op}, l)
  PROVE  /\ p \in Proc /\ p[2] = "http" /\ p[1] \in Req /\ pc[p] = l
         /\ req[p] \in Request /\ req[p].op = op /\ HttpCallOK(l, req[p], There)
         /\ req[p].who \in Employee /\ req[p].step \in Step
<1>1. /\ p \in Proc /\ p[2] = "http" /\ p[1] \in Req /\ pc[p] = l /\ req[p] \in Request
      /\ req[p].op = op /\ HttpCallOK(l, req[p], There)
  BY CalledAt
<1>2. req[p].who \in Employee /\ req[p].step \in Step
  BY <1>1 DEF HttpCallOK, WhomEver, There
<1> QED  BY <1>1, <1>2

\* The rest of the invariant, after an operation on tests.
LEMMA TestKeeps ==
  ASSUME IInv, area' = area, NEW p \in Active, Turns(p), p[2] = "http",
         req[p].op \in {"join", "place", "result"}, pc'[p] # "keep", ResultsOK', TestsTyped',
         UNCHANGED <<profiles, s3, exits, rd>>, overlapped \subseteq overlapped'
  PROVE  IInv' /\ ListsKept
<1> USE DEF IInv, BaseInv
<1>1. DocsOK' /\ FilesKept /\ There' = There /\ ListsKept
  BY SameDocs
<1>2. ControlOK'
  BY <1>1, TurnsControl
<1>3. OutsideOK'
  BY DEF OutsideOK, rd
<1>4. MediaOK'
  BY <1>1, TurnsMedia DEF StoredKept, EmployeeMedia
<1>5. ContactsOK'
  BY TurnsContacts DEF rd
<1> QED  BY <1>1, <1>2, <1>3, <1>4, <1>5

\* An operation of p leaves the other calls on tests alone.
LEMMA TestOthers ==
  ASSUME ControlOK, NEW p \in Active, Turns(p)
  PROVE  /\ \A q \in Joins' : q # p => q \in Joins /\ Same(q)
         /\ \A q \in Active : req[q].op = "result" /\ q # p => Stays(q)
<1>1. ASSUME NEW q \in Joins', q # p PROVE q \in Joins /\ Same(q)
  <2>1. q \in Proc /\ q \in Active' /\ req'[q].op = "join" /\ pc'[q] # "read"
    BY <1>1, ActiveNext DEF Joins
  <2>2. Same(q)
    BY <1>1, <2>1, HearsOnly DEF Turns
  <2> QED  BY <2>1, <2>2, ActiveNext DEF Same, Joins, Active
<1>2. ASSUME NEW q \in Active, req[q].op = "result", q # p PROVE Stays(q)
  <2>1. q \in Proc
    BY DEF Active
  <2>2. Same(q)
    BY <1>2, <2>1, HearsOnly DEF Turns
  <2> QED  BY <2>1, <2>2, ActiveNext DEF Same, Stays, Active
<1> QED  BY <1>1, <1>2

\* An operation that gives no oldest row a result and changes no entry.
LEMMA ResultsStep ==
  ASSUME ControlOK, ResultsOK, entries' = entries, overlapped \subseteq overlapped',
         \A c : HasResult(c)' => HasResult(c),
         NEW p \in Active, Turns(p), req[p].op = "result" => pc[p] # "entries",
         p \in Joins' => JoinOK(p)'
  PROVE  ResultsOK'
<1>1. /\ \A q \in Joins' : q # p => q \in Joins /\ Same(q)
      /\ \A q \in Active : req[q].op = "result" /\ q # p => Stays(q)
  BY TestOthers
<1>2. ASSUME NEW c \in Employee, NEW s \in Step, HasResult(c)', entries'[s][c].in,
             ~entries'[s][c].byHand
      PROVE  entries'[s][c].result # None \/ <<s, c>> \in overlapped' \/ Showing(c)'
  <2>1. HasResult(c)
    BY <1>2
  <2>2. entries[s][c].result # None \/ <<s, c>> \in overlapped \/ Showing(c)
    BY <1>2, <2>1 DEF ResultsOK
  <2>3. ASSUME Showing(c) PROVE Showing(c)'
    <3>1. PICK q \in Active : req[q].op = "result" /\ pc[q] = "entries" /\ req[q].who = c
      BY <2>3 DEF Showing
    <3>2. Stays(q)
      BY <1>1, <3>1
    <3> QED  BY <3>1, <3>2 DEF Stays, Same, Showing
  <2> QED  BY <2>2, <2>3
<1>3. ASSUME NEW q \in Joins', q # p PROVE JoinOK(q)'
  <2>1. q \in Joins /\ req'[q] = req[q] /\ JoinOK(q)
    BY <1>1, <1>3 DEF ResultsOK, Same
  <2>2. PICK c : c = req[q].who
    OBVIOUS
  <2>3. HasResult(c)' => HasResult(c)
    OBVIOUS
  <2>4. HasResult(req[q].who)' <=> HasResult(c)'
    BY <2>1, <2>2 DEF HasResult, FirstRow
  <2> QED  BY <2>1, <2>2, <2>3, <2>4 DEF JoinOK
<1> QED  BY <1>2, <1>3 DEF ResultsOK

\* Rows that stay have the results they had.
LEMMA RowsStay ==
  ASSUME rows' = rows, NEW c
  PROVE  FirstRow(c)' = FirstRow(c) /\ (HasResult(c)' <=> HasResult(c))
<1>1. RowsOf(c)' = RowsOf(c)
  BY DEF RowsOf
<1>2. FirstRow(c)' = FirstRow(c)
  BY <1>1, FirstRowIs, FirstRowNext
<1> QED  BY <1>2 DEF HasResult

\* A join that has read the rows goes on with the same call.
LEMMA JoinStays ==
  ASSUME ResultsOK, NEW p \in Joins, req'[p] = req[p], overlapped \subseteq overlapped',
         \A c : HasResult(c)' => HasResult(c)
  PROVE  JoinOK(p)'
<1>1. JoinOK(p)
  BY DEF ResultsOK
<1>2. PICK c : c = req[p].who
  OBVIOUS
<1>3. HasResult(c)' => HasResult(c)
  OBVIOUS
<1>4. HasResult(req[p].who)' <=> HasResult(c)'
  BY <1>2 DEF HasResult, FirstRow
<1> QED  BY <1>1, <1>2, <1>3, <1>4 DEF JoinOK

\* A join reads the rows and copies the result of the oldest one.
LEMMA JoinReadDoes ==
  ASSUME IInv, area' = area, NEW p \in Active, JoinRead(p)
  PROVE  IInv' /\ ListsKept
<1> USE DEF IInv, BaseInv
<1>0. PICK c, i : c = req[p].who /\ i = FirstRow(c)
  OBVIOUS
<1>1. /\ At(p, {"join"}, "read")
      /\ IF i # 0 THEN Keep(p, "push", [req[p] EXCEPT !.copy = rows[i].result])
         ELSE \E label \in {"create", "push"} : Goto(p, label)
      /\ UNCHANGED <<profiles, s3, exits, rd, tests, overlapped>>
  BY <1>0 DEF JoinRead
<1>2. /\ p[2] = "http" /\ req[p] \in Request /\ req[p].op = "join" /\ pc[p] = "read"
      /\ HttpCallOK("read", req[p], There) /\ c \in Employee
  <2>1. At(p, {"join"}, "read")
    BY <1>1
  <2> QED  BY <1>0, <2>1, TestCalled
<1>3. There' = There
  BY <1>1, SameDocs
<1>4. rows' = rows /\ entries' = entries /\ overlapped' = overlapped
  BY <1>1 DEF tests
<1>5. \A d : HasResult(d)' <=> HasResult(d)
  BY <1>4, RowsStay
<1>6. CASE i # 0
  <2>1. PICK q : q = [req[p] EXCEPT !.copy = rows[i].result]
    OBVIOUS
  <2>2. i \in 1..Len(rows) /\ rows \in Seq(Row)
    BY <1>0, <1>6, FirstRowFacts DEF TestsTyped, RowsOf
  <2>3. rows[i] \in Row
    BY <2>2
  <2>4. rows[i].result \in Req \cup {None}
    BY <2>3 DEF Row
  <2>5. /\ q \in Request /\ q.op = "join" /\ q.who = c /\ q.key = req[p].key /\ q.list = req[p].list
        /\ q.item = req[p].item /\ q.step = req[p].step /\ q.copy = rows[i].result
    BY <1>0, <1>2, <2>1, <2>4 DEF Request
  <2>6. CallOK(p, "push", q, There)
    BY <1>0, <1>2, <2>5 DEF CallOK, HttpCallOK
  <2>7. Turns(p) /\ pc'[p] = "push" /\ req'[p] = q
    <3>1. Keep(p, "push", q)
      BY <1>1, <1>6, <2>1
    <3> QED  BY <1>0, <1>2, <1>3, <2>5, <2>6, <3>1, KeepTurns DEF Label
  <2>8. JoinOK(p)'
    <3>1. HasResult(c)' => q.copy # None
      BY <1>0, <1>5, <2>5 DEF HasResult
    <3>2. req'[p].who = c
      BY <2>5, <2>7
    <3>3. HasResult(req[p].who)' <=> HasResult(c)'
      BY <3>2 DEF HasResult, FirstRow
    <3> QED  BY <2>7, <3>1, <3>3 DEF JoinOK
  <2>9. ResultsOK'
    BY <1>2, <1>4, <1>5, <2>7, <2>8, ResultsStep
  <2> QED  BY <1>1, <1>2, <2>7, <2>9, TestKeeps DEF TestsTyped, tests
<1>7. CASE i = 0
  <2>1. PICK l \in {"create", "push"} : Goto(p, l)
    BY <1>1, <1>7
  <2>2. CallOK(p, l, req[p], There)
    BY <1>2, <2>1 DEF CallOK, HttpCallOK
  <2>3. Turns(p) /\ pc'[p] = l /\ req'[p] = req[p]
    BY <1>3, <2>1, <2>2, GotoTurns DEF Label
  <2>4. ~HasResult(c)'
    BY <1>0, <1>5, <1>7 DEF HasResult
  <2>5. HasResult(req[p].who)' <=> HasResult(c)'
    BY <1>0, <2>3 DEF HasResult, FirstRow
  <2>6. ResultsOK'
    BY <1>2, <1>4, <1>5, <2>3, <2>4, <2>5, ResultsStep DEF JoinOK
  <2> QED  BY <1>1, <1>2, <2>1, <2>3, <2>6, TestKeeps DEF TestsTyped, tests
<1> QED  BY <1>6, <1>7

\* Push Start knows the test.
LEMMA CreateTestDoes ==
  ASSUME IInv, area' = area, NEW p \in Active, CreateTest(p)
  PROVE  IInv' /\ ListsKept
<1> USE DEF IInv, BaseInv
<1>1. /\ At(p, {"join"}, "create") /\ Goto(p, "save")
      /\ created' = created \cup {<<req[p].who, req[p].step>>}
      /\ UNCHANGED <<profiles, s3, exits, rd, rows, entries, overlapped>>
  BY DEF CreateTest
<1>2. /\ p[2] = "http" /\ req[p].op = "join" /\ pc[p] = "create" /\ HttpCallOK("create", req[p], There)
      /\ req[p].who \in Employee /\ req[p].step \in Step
  <2>1. At(p, {"join"}, "create")
    BY <1>1
  <2> QED  BY <2>1, TestCalled
<1>3. There' = There
  BY <1>1, SameDocs
<1>4. CallOK(p, "save", req[p], There)
  BY <1>2 DEF CallOK, HttpCallOK
<1>5. Turns(p) /\ pc'[p] = "save" /\ req'[p] = req[p]
  BY <1>1, <1>3, <1>4, GotoTurns DEF Label
<1>6. TestsTyped'
  BY <1>1, <1>2 DEF TestsTyped
<1>7. \A c : HasResult(c)' => HasResult(c)
  BY <1>1, RowsStay
<1>8. p \in Joins
  BY <1>2 DEF Joins
<1>9. ResultsOK'
  BY <1>1, <1>2, <1>5, <1>7, <1>8, JoinStays, ResultsStep
<1> QED  BY <1>1, <1>2, <1>5, <1>6, <1>9, TestKeeps

\* A new row is the oldest of its candidate only if it is the first, and has no
\* result yet.
LEMMA AppendRow ==
  ASSUME TestsTyped, NEW row \in Row, row.result = None, rows' = Append(rows, row), NEW c,
         HasResult(c)'
  PROVE  HasResult(c)
<1> USE DEF TestsTyped
<1>1. rows \in Seq(Row) /\ Len(rows) \in Nat /\ rows' \in Seq(Row) /\ Len(rows') = Len(rows) + 1
  OBVIOUS
<1>2. /\ \A i \in 1..Len(rows) : rows'[i] = rows[i]
      /\ rows'[Len(rows) + 1] = row
  BY <1>1
<1>3. RowsOf(c)' \in SUBSET Nat /\ RowsOf(c) = {i \in RowsOf(c)' : i <= Len(rows)}
  BY <1>1, <1>2 DEF RowsOf
<1>4. FirstRow(c)' # 0 /\ rows'[FirstRow(c)'].result # None
  BY DEF HasResult
<1>5. PICK j : j = FirstRow(c)'
  OBVIOUS
<1>6. j = Min(RowsOf(c)') /\ RowsOf(c)' # {}
  BY <1>4, <1>5, FirstRowNext
<1>7. j \in RowsOf(c)' /\ \A i \in RowsOf(c)' : j =< i
  BY <1>3, <1>6, MinOf
<1>8. j \in 1..(Len(rows) + 1) /\ j # Len(rows) + 1
  BY <1>1, <1>2, <1>4, <1>5, <1>7 DEF RowsOf
<1>9. j \in RowsOf(c) /\ \A i \in RowsOf(c) : j =< i
  BY <1>1, <1>3, <1>7, <1>8
<1>10. FirstRow(c) \in RowsOf(c) /\ \A i \in RowsOf(c) : FirstRow(c) =< i
  BY <1>9, FirstRowFacts
<1>11. FirstRow(c) = j
  BY <1>9, <1>10, <1>3
<1> QED  BY <1>1, <1>2, <1>4, <1>5, <1>8, <1>11 DEF HasResult

\* The row of the new test.
LEMMA SaveTestDoes ==
  ASSUME IInv, area' = area, NEW p \in Active, SaveTest(p)
  PROVE  IInv' /\ ListsKept
<1> USE DEF IInv, BaseInv
<1>0. PICK row : row = [user |-> req[p].who, test |-> req[p].step, result |-> None]
  OBVIOUS
<1>1. /\ At(p, {"join"}, "save") /\ Goto(p, "push") /\ rows' = Append(rows, row)
      /\ UNCHANGED <<profiles, s3, exits, rd, created, entries, overlapped>>
  BY <1>0 DEF SaveTest
<1>2. /\ p[2] = "http" /\ req[p].op = "join" /\ pc[p] = "save" /\ HttpCallOK("save", req[p], There)
      /\ req[p].who \in Employee /\ req[p].step \in Step
  <2>1. At(p, {"join"}, "save")
    BY <1>1
  <2> QED  BY <2>1, TestCalled
<1>3. There' = There
  BY <1>1, SameDocs
<1>4. CallOK(p, "push", req[p], There)
  BY <1>2 DEF CallOK, HttpCallOK
<1>5. Turns(p) /\ pc'[p] = "push" /\ req'[p] = req[p]
  BY <1>1, <1>3, <1>4, GotoTurns DEF Label
<1>6. row \in Row /\ row.result = None
  BY <1>0, <1>2 DEF Row
<1>7. TestsTyped'
  BY <1>1, <1>6 DEF TestsTyped
<1>8. \A c : HasResult(c)' => HasResult(c)
  BY <1>1, <1>6, AppendRow
<1>9. p \in Joins
  BY <1>2 DEF Joins
<1>10. ResultsOK'
  BY <1>1, <1>2, <1>5, <1>8, <1>9, JoinStays, ResultsStep
<1> QED  BY <1>1, <1>2, <1>5, <1>7, <1>10, TestKeeps

\* The entry gets the result that was copied.
LEMMA JoinPushDoes ==
  ASSUME IInv, area' = area, NEW p \in Active, JoinPush(p), ~Fails
  PROVE  IInv' /\ ListsKept
<1> USE DEF IInv, BaseInv
<1>0. PICK c, s, e : c = req[p].who /\ s = req[p].step /\ 
          e = [in |-> TRUE, result |-> req[p].copy, byHand |-> FALSE]
  OBVIOUS
<1>1. /\ At(p, {"join"}, "push") /\ Goto(p, "answered")
      /\ entries' = [entries EXCEPT ![s][c] = e]
      /\ UNCHANGED <<profiles, s3, exits, rd, created, rows, overlapped>>
  BY <1>0, FailFails DEF JoinPush
<1>2. /\ p[2] = "http" /\ req[p] \in Request /\ req[p].op = "join" /\ pc[p] = "push"
      /\ c \in Employee /\ s \in Step
  <2>1. At(p, {"join"}, "push")
    BY <1>1
  <2> QED  BY <1>0, <2>1, TestCalled
<1>3. There' = There
  BY <1>1, SameDocs
<1>4. Turns(p) /\ pc'[p] = "answered"
  BY <1>1, <1>3, GotoTurns DEF Label
<1>5. e \in Entry /\ e.result = req[p].copy
  BY <1>0, <1>2 DEF Entry, Request
<1>6. /\ entries \in [Step -> [Employee -> Entry]] /\ entries' \in [Step -> [Employee -> Entry]]
      /\ entries'[s][c] = e
      /\ \A t \in Step, d \in Employee : t # s \/ d # c => entries'[t][d] = entries[t][d]
  BY <1>1, <1>2, <1>5 DEF TestsTyped
<1>7. TestsTyped'
  BY <1>1, <1>6 DEF TestsTyped
<1>8. \A d : HasResult(d)' <=> HasResult(d)
  BY <1>1, RowsStay
<1>9. /\ \A q \in Joins' : q # p => q \in Joins /\ Same(q)
      /\ \A q \in Active : req[q].op = "result" /\ q # p => Stays(q)
  BY <1>4, TestOthers
<1>10. p \in Joins /\ p \notin Joins'
  BY <1>2, <1>4, ActiveNext DEF Joins
<1>11. ASSUME NEW d \in Employee, NEW t \in Step, HasResult(d)', entries'[t][d].in,
             ~entries'[t][d].byHand
       PROVE  entries'[t][d].result # None \/ <<t, d>> \in overlapped' \/ Showing(d)'
  <2>1. CASE t = s /\ d = c
    <3>1. JoinOK(p) /\ HasResult(c)
      BY <1>8, <1>10, <1>11, <2>1 DEF ResultsOK
    <3>2. req[p].copy # None \/ <<s, c>> \in overlapped
      BY <1>0, <3>1 DEF JoinOK
    <3> QED  BY <2>1, <3>2, <1>1, <1>5, <1>6
  <2>2. CASE t # s \/ d # c
    <3>1. entries'[t][d] = entries[t][d] /\ HasResult(d)
      BY <1>6, <1>8, <1>11, <2>2
    <3>2. entries[t][d].result # None \/ <<t, d>> \in overlapped \/ Showing(d)
      BY <1>11, <3>1 DEF ResultsOK
    <3>3. ASSUME Showing(d) PROVE Showing(d)'
      <4>1. PICK q \in Active : req[q].op = "result" /\ pc[q] = "entries" /\ req[q].who = d
        BY <3>3 DEF Showing
      <4>2. Stays(q)
        BY <1>2, <1>9, <4>1
      <4> QED  BY <4>1, <4>2 DEF Stays, Same, Showing
    <3> QED  BY <3>1, <3>2, <3>3, <1>1
  <2> QED  BY <2>1, <2>2
<1>12. ASSUME NEW q \in Joins' PROVE JoinOK(q)'
  <2>1. q \in Joins /\ req'[q] = req[q]
    BY <1>9, <1>10 DEF Same
  <2> QED  BY <2>1, <1>1, <1>8, JoinStays
<1>13. ResultsOK'
  BY <1>11, <1>12 DEF ResultsOK
<1> QED  BY <1>1, <1>2, <1>4, <1>7, <1>13, TestKeeps

\* An entry is placed by hand.
LEMMA PlaceDoes ==
  ASSUME IInv, area' = area, NEW p \in Active, Place(p), ~Fails
  PROVE  IInv' /\ ListsKept
<1> USE DEF IInv, BaseInv
<1>0. PICK c, s, e : /\ c = req[p].who /\ s = req[p].step
                     /\ e = [in |-> TRUE, result |-> None, byHand |-> TRUE]
  OBVIOUS
<1>1. /\ At(p, {"place"}, "read") /\ Goto(p, "answered")
      /\ entries' = [entries EXCEPT ![s][c] = e]
      /\ UNCHANGED <<profiles, s3, exits, rd, created, rows, overlapped>>
  BY <1>0, FailFails DEF Place
<1>2. /\ p[2] = "http" /\ req[p] \in Request /\ req[p].op = "place" /\ pc[p] = "read"
      /\ c \in Employee /\ s \in Step
  <2>1. At(p, {"place"}, "read")
    BY <1>1
  <2> QED  BY <1>0, <2>1, TestCalled
<1>3. There' = There
  BY <1>1, SameDocs
<1>4. Turns(p) /\ pc'[p] = "answered"
  BY <1>1, <1>3, GotoTurns DEF Label
<1>5. e \in Entry /\ e.byHand
  BY <1>0 DEF Entry
<1>6. /\ entries' \in [Step -> [Employee -> Entry]] /\ entries'[s][c] = e
      /\ \A t \in Step, d \in Employee : t # s \/ d # c => entries'[t][d] = entries[t][d]
  BY <1>1, <1>2, <1>5 DEF TestsTyped
<1>7. TestsTyped'
  BY <1>1, <1>6 DEF TestsTyped
<1>8. \A d : HasResult(d)' <=> HasResult(d)
  BY <1>1, RowsStay
<1>9. /\ \A q \in Joins' : q # p => q \in Joins /\ Same(q)
      /\ \A q \in Active : req[q].op = "result" /\ q # p => Stays(q)
  BY <1>4, TestOthers
<1>10. p \notin Joins'
  BY <1>4, ActiveNext DEF Joins
<1>11. ASSUME NEW d \in Employee, NEW t \in Step, HasResult(d)', entries'[t][d].in,
              ~entries'[t][d].byHand
       PROVE  entries'[t][d].result # None \/ <<t, d>> \in overlapped' \/ Showing(d)'
  <2>1. t # s \/ d # c
    BY <1>5, <1>6, <1>11
  <2>2. entries'[t][d] = entries[t][d] /\ HasResult(d)
    BY <1>6, <1>8, <1>11, <2>1
  <2>3. entries[t][d].result # None \/ <<t, d>> \in overlapped \/ Showing(d)
    BY <1>11, <2>2 DEF ResultsOK
  <2>4. ASSUME Showing(d) PROVE Showing(d)'
    <3>1. PICK q \in Active : req[q].op = "result" /\ pc[q] = "entries" /\ req[q].who = d
      BY <2>4 DEF Showing
    <3>2. Stays(q)
      BY <1>2, <1>9, <3>1
    <3> QED  BY <3>1, <3>2 DEF Stays, Same, Showing
  <2> QED  BY <2>2, <2>3, <2>4, <1>1
<1>12. ASSUME NEW q \in Joins' PROVE JoinOK(q)'
  <2>1. q \in Joins /\ req'[q] = req[q]
    BY <1>9, <1>10 DEF Same
  <2> QED  BY <2>1, <1>1, <1>8, JoinStays
<1>13. ResultsOK'
  BY <1>11, <1>12 DEF ResultsOK
<1> QED  BY <1>1, <1>2, <1>4, <1>7, <1>13, TestKeeps

\* The webhook has found its candidate.
LEMMA ResultReadDoes ==
  ASSUME IInv, area' = area, NEW p \in Active, ResultRead(p)
  PROVE  IInv' /\ ListsKept
<1> USE DEF IInv, BaseInv
<1>1. /\ At(p, {"result"}, "read") /\ Goto(p, "rows")
      /\ UNCHANGED <<profiles, s3, exits, rd, tests, overlapped>>
  BY DEF ResultRead
<1>2. /\ p[2] = "http" /\ req[p].op = "result" /\ pc[p] = "read" /\ HttpCallOK("read", req[p], There)
  <2>1. At(p, {"result"}, "read")
    BY <1>1
  <2> QED  BY <2>1, TestCalled
<1>3. There' = There
  BY <1>1, SameDocs
<1>4. CallOK(p, "rows", req[p], There)
  BY <1>2 DEF CallOK, HttpCallOK
<1>5. Turns(p) /\ pc'[p] = "rows" /\ req'[p] = req[p]
  BY <1>1, <1>3, <1>4, GotoTurns DEF Label
<1>6. TestsTyped' /\ entries' = entries /\ rows' = rows
  BY <1>1 DEF TestsTyped, tests
<1>7. \A c : HasResult(c)' => HasResult(c)
  BY <1>6, RowsStay
<1>8. p \notin Joins'
  BY <1>2, <1>5 DEF Joins
<1>9. ResultsOK'
  BY <1>1, <1>2, <1>5, <1>6, <1>7, <1>8, ResultsStep
<1> QED  BY <1>1, <1>2, <1>5, <1>6, <1>9, TestKeeps

\* The row that the webhook finds for candidate c and test s, or 0.
TestRow(c, s) == SelectInSeq(rows, LAMBDA row : row.user = c /\ row.test = s)

\* It is one of the candidate.
LEMMA RowOfTest ==
  ASSUME TestsTyped, NEW c, NEW s, TestRow(c, s) # 0
  PROVE  TestRow(c, s) \in 1..Len(rows) /\ rows[TestRow(c, s)].user = c
<1> DEFINE I == {k \in 1..Len(rows) : rows[k].user = c /\ rows[k].test = s}
<1>1. TestRow(c, s) = IF I # {} THEN Min(I) ELSE 0
  BY DEF TestRow, SelectInSeq
<1>2. I \in SUBSET Nat /\ I # {}
  BY <1>1 DEF TestsTyped
<1> HIDE DEF I
<1>3. TestRow(c, s) \in I
  BY <1>1, <1>2, MinOf
<1> QED  BY <1>3 DEF I

\* The webhook sets the result of a row and the joins that have read the rows overlap.
LEMMA ResultRowDoes ==
  ASSUME IInv, area' = area, NEW p \in Active, ResultRow(p)
  PROVE  IInv' /\ ListsKept
<1> USE DEF IInv, BaseInv
<1>0. PICK c, i : c = req[p].who /\ i = TestRow(c, req[p].step)
  OBVIOUS
<1>1. /\ At(p, {"result"}, "rows") /\ Goto(p, "entries")
      /\ rows' = IF i = 0 THEN rows ELSE [rows EXCEPT ![i].result = p[1]]
      /\ overlapped' = overlapped \cup
           {<<req[j].step, c>> : j \in {k \in Active : /\ req[k].op = "join" /\ req[k].who = c
                                                     /\ pc[k] # "read"}}
      /\ UNCHANGED <<profiles, s3, exits, rd, created, entries>>
  BY <1>0 DEF ResultRow, TestRow
<1>2. /\ p[2] = "http" /\ p[1] \in Req /\ req[p].op = "result" /\ pc[p] = "rows"
      /\ HttpCallOK("rows", req[p], There) /\ c \in Employee
  <2>1. At(p, {"result"}, "rows")
    BY <1>1
  <2> QED  BY <1>0, <2>1, TestCalled
<1>3. There' = There
  BY <1>1, SameDocs
<1>4. CallOK(p, "entries", req[p], There)
  BY <1>2 DEF CallOK, HttpCallOK
<1>5. Turns(p) /\ pc'[p] = "entries" /\ req'[p] = req[p]
  BY <1>1, <1>3, <1>4, GotoTurns DEF Label
<1>6. /\ rows \in Seq(Row) /\ Len(rows) \in Nat
      /\ i # 0 => i \in 1..Len(rows) /\ rows[i].user = c
  BY <1>0, RowOfTest DEF TestsTyped
<1>7. /\ rows' \in Seq(Row) /\ Len(rows') = Len(rows)
      /\ \A k \in 1..Len(rows) : /\ rows'[k].user = rows[k].user
                                 /\ rows[k].user # c => rows'[k] = rows[k]
  <2>1. CASE i = 0
    BY <2>1, <1>1, <1>6
  <2>2. CASE i # 0
    <3>1. PICK row : row = [rows[i] EXCEPT !.result = p[1]]
      OBVIOUS
    <3>2. rows[i] \in Row
      BY <2>2, <1>6
    <3>3. row \in Row /\ row.user = c
      BY <3>1, <3>2, <2>2, <1>2, <1>6 DEF Row
    <3>4. rows' = [rows EXCEPT ![i] = row]
      BY <3>1, <2>2, <1>1
    <3> QED  BY <3>3, <3>4, <2>2, <1>6
  <2> QED  BY <2>1, <2>2
<1>8. \A d : RowsOf(d)' = RowsOf(d)
  BY <1>7 DEF RowsOf
<1>9. \A d : FirstRow(d)' = FirstRow(d)
  BY <1>8, FirstRowIs, FirstRowNext
<1>10. ASSUME NEW d, d # c, HasResult(d)' PROVE HasResult(d)
  <2>1. FirstRow(d) # 0 /\ rows'[FirstRow(d)].result # None
    BY <1>9, <1>10 DEF HasResult
  <2>2. FirstRow(d) \in RowsOf(d)
    BY <2>1, FirstRowFacts
  <2>3. rows'[FirstRow(d)] = rows[FirstRow(d)]
    BY <2>2, <1>7, <1>10 DEF RowsOf
  <2> QED  BY <2>1, <2>3 DEF HasResult
<1>11. TestsTyped'
  BY <1>1, <1>7 DEF TestsTyped
<1>12. /\ \A q \in Joins' : q # p => q \in Joins /\ Same(q)
       /\ \A q \in Active : req[q].op = "result" /\ q # p => Stays(q)
  BY <1>5, TestOthers
<1>13. overlapped \subseteq overlapped' /\ entries' = entries
  BY <1>1
<1>14. ASSUME NEW d \in Employee, NEW t \in Step, HasResult(d)', entries'[t][d].in,
             ~entries'[t][d].byHand
       PROVE  entries'[t][d].result # None \/ <<t, d>> \in overlapped' \/ Showing(d)'
  <2>1. CASE d = c
    <3>1. p \in Active' /\ req'[p].op = "result" /\ pc'[p] = "entries" /\ req'[p].who = d
      BY <2>1, <1>0, <1>2, <1>5, ActiveNext, Called
    <3> QED  BY <3>1 DEF Showing
  <2>2. CASE d # c
    <3>1. HasResult(d)
      BY <2>2, <1>10, <1>14
    <3>2. entries[t][d].result # None \/ <<t, d>> \in overlapped \/ Showing(d)
      BY <3>1, <1>13, <1>14 DEF ResultsOK
    <3>3. ASSUME Showing(d) PROVE Showing(d)'
      <4>1. PICK q \in Active : req[q].op = "result" /\ pc[q] = "entries" /\ req[q].who = d
        BY <3>3 DEF Showing
      <4>2. Stays(q)
        BY <1>2, <1>12, <4>1
      <4> QED  BY <4>1, <4>2 DEF Stays, Same, Showing
    <3> QED  BY <3>2, <3>3, <1>13
  <2> QED  BY <2>1, <2>2
<1>15. ASSUME NEW q \in Joins' PROVE JoinOK(q)'
  <2>1. q # p
    BY <1>2, <1>5 DEF Joins
  <2>2. q \in Joins /\ req'[q] = req[q]
    BY <2>1, <1>12 DEF Same
  <2>3. PICK d : d = req[q].who
    OBVIOUS
  <2>4. CASE d = c
    <3>1. <<req[q].step, c>> \in overlapped'
      BY <2>2, <2>3, <2>4, <1>1 DEF Joins
    <3> QED  BY <3>1, <2>2, <2>3, <2>4 DEF JoinOK
  <2>5. CASE d # c
    <3>1. HasResult(d)' => HasResult(d)
      BY <2>5, <1>10
    <3>2. JoinOK(q)
      BY <2>2 DEF ResultsOK
    <3>3. HasResult(req[q].who)' <=> HasResult(d)'
      BY <2>2, <2>3 DEF HasResult, FirstRow
    <3> QED  BY <2>2, <2>3, <3>1, <3>2, <3>3, <1>13 DEF JoinOK
  <2> QED  BY <2>4, <2>5
<1>16. ResultsOK'
  BY <1>14, <1>15 DEF ResultsOK
<1> QED  BY <1>1, <1>2, <1>5, <1>11, <1>13, <1>16, TestKeeps

\* The webhook sets the result of every entry of its candidate.
LEMMA ResultEntriesDoes ==
  ASSUME IInv, area' = area, NEW p \in Active, ResultEntries(p)
  PROVE  IInv' /\ ListsKept
<1> USE DEF IInv, BaseInv
<1>0. PICK c : c = req[p].who
  OBVIOUS
<1>1. /\ At(p, {"result"}, "entries") /\ Goto(p, "answered")
      /\ entries' = [s \in Step |-> IF entries[s][c].in
                                    THEN [entries[s] EXCEPT ![c].result = p[1]]
                                    ELSE entries[s]]
      /\ UNCHANGED <<profiles, s3, exits, rd, created, rows, overlapped>>
  BY <1>0 DEF ResultEntries
<1>2. p[2] = "http" /\ p[1] \in Req /\ req[p].op = "result" /\ pc[p] = "entries" /\ c \in Employee
  <2>1. At(p, {"result"}, "entries")
    BY <1>1
  <2> QED  BY <1>0, <2>1, TestCalled
<1>3. There' = There
  BY <1>1, SameDocs
<1>4. Turns(p) /\ pc'[p] = "answered"
  BY <1>1, <1>3, GotoTurns DEF Label
<1>5. ASSUME NEW s \in Step
      PROVE  /\ entries'[s] \in [Employee -> Entry]
             /\ entries'[s][c].in => entries'[s][c].result = p[1]
             /\ \A d \in Employee : d # c => entries'[s][d] = entries[s][d]
  <2>1. entries[s] \in [Employee -> Entry] /\ entries[s][c] \in Entry
    BY <1>2 DEF TestsTyped
  <2>2. CASE ~entries[s][c].in
    BY <2>1, <2>2, <1>1
  <2>3. CASE entries[s][c].in
    <3>1. PICK e : e = [entries[s][c] EXCEPT !.result = p[1]]
      OBVIOUS
    <3>2. e \in Entry /\ e.result = p[1]
      BY <3>1, <2>1, <1>2 DEF Entry
    <3>3. entries'[s] = [entries[s] EXCEPT ![c] = e]
      BY <3>1, <2>3, <1>1
    <3> QED  BY <3>2, <3>3, <2>1, <1>2
  <2> QED  BY <2>2, <2>3
<1>6. TestsTyped'
  <2>1. entries' \in [Step -> [Employee -> Entry]]
    BY <1>1, <1>5
  <2> QED  BY <2>1, <1>1 DEF TestsTyped
<1>7. \A d : HasResult(d)' <=> HasResult(d)
  BY <1>1, RowsStay
<1>8. /\ \A q \in Joins' : q # p => q \in Joins /\ Same(q)
      /\ \A q \in Active : req[q].op = "result" /\ q # p => Stays(q)
  BY <1>4, TestOthers
<1>9. ASSUME NEW d \in Employee, NEW t \in Step, HasResult(d)', entries'[t][d].in,
             ~entries'[t][d].byHand
      PROVE  entries'[t][d].result # None \/ <<t, d>> \in overlapped' \/ Showing(d)'
  <2>1. CASE d = c
    BY <2>1, <1>2, <1>5, <1>9, ProfilesAssumption DEF Key
  <2>2. CASE d # c
    <3>1. entries'[t][d] = entries[t][d] /\ HasResult(d)
      BY <1>5, <1>7, <1>9, <2>2
    <3>2. entries[t][d].result # None \/ <<t, d>> \in overlapped \/ Showing(d)
      BY <1>9, <3>1 DEF ResultsOK
    <3>3. ASSUME Showing(d) PROVE Showing(d)'
      <4>1. PICK q \in Active : req[q].op = "result" /\ pc[q] = "entries" /\ req[q].who = d
        BY <3>3 DEF Showing
      <4>2. Stays(q)
        BY <1>0, <1>8, <2>2, <4>1
      <4> QED  BY <4>1, <4>2 DEF Stays, Same, Showing
    <3> QED  BY <3>1, <3>2, <3>3, <1>1
  <2> QED  BY <2>1, <2>2
<1>10. ASSUME NEW q \in Joins' PROVE JoinOK(q)'
  <2>1. p \notin Joins'
    BY <1>4, ActiveNext DEF Joins
  <2>2. q \in Joins /\ req'[q] = req[q]
    BY <2>1, <1>8 DEF Same
  <2> QED  BY <2>2, <1>1, <1>7, JoinStays
<1>11. ResultsOK'
  BY <1>9, <1>10 DEF ResultsOK
<1> QED  BY <1>1, <1>2, <1>4, <1>6, <1>11, TestKeeps

-----------------------------------------------------------------------------
(* The invariant *)

\* The profiles have no file but the first employee's picture, no call goes on and
\* no candidate has a test.
LEMMA InitInv ==
  ASSUME Init
  PROVE  IInv
<1> USE DEF Init
<1>1. <<First, "image">> \in OldKey /\ <<First, "image">> \in Key /\ <<First, "image">> \in FileKey
  BY ProfilesAssumption DEF OldKey, Key, FileKey
<1>2. <<First, "image">> \notin Req /\ <<First, "image">> # None
  BY <1>1, ProfilesAssumption
<1>3. Active = {}
  BY DEF Active
<1>4. \A c \in Employee :
        /\ employee[c].there = (c = First)
        /\ employee[c].image = IF c = First THEN <<First, "image">> ELSE None
        /\ employee[c].pdf = None
        /\ employee[c].version = IF c = First THEN Earlier ELSE None
        /\ employee[c].completed = FALSE /\ employee[c].learnWorldsUserId = None
  OBVIOUS
<1>5. \A c \in Employee, op \in EmployeeMedia :
        employee[c][op] = IF c = First /\ op = "image" THEN <<First, "image">> ELSE None
  BY <1>4 DEF EmployeeMedia
<1>6. ControlOK
  <2>1. pc \in [Proc -> Label] /\ DOMAIN req = Proc
    BY DEF Label
  <2>2. \A p \in Proc : req[p] = NoRequest
    OBVIOUS
  <2>3. \A r \in Req : SignupOK(r)
    BY DEF SignupOK, Proc
  <2> QED  BY <1>3, <2>1, <2>2, <2>3 DEF ControlOK
<1>7. DocsOK
  <2>1. employee \in [Employee -> EmployeeDoc]
    <3>1. ASSUME NEW c \in Employee PROVE employee[c] \in EmployeeDoc
      <4>1. PICK lists : lists = [l \in List |-> [i \in Item |-> IF c = First /\ i = Earlier
                                                                THEN Earlier ELSE None]]
        OBVIOUS
      <4>2. lists \in [List -> [Item -> Writer]]
        BY <4>1 DEF Writer
      <4>3. employee[c] =
              [there |-> c = First, image |-> IF c = First THEN <<c, "image">> ELSE None,
               pdf |-> None, lists |-> lists,
               version |-> IF c = First THEN Earlier ELSE None,
               completed |-> FALSE, learnWorldsUserId |-> None]
        BY <4>1
      <4>4. /\ (c = First) \in BOOLEAN
            /\ (IF c = First THEN <<c, "image">> ELSE None) \in Key \cup {None}
            /\ (IF c = First THEN Earlier ELSE None) \in Writer
        BY <1>1 DEF Writer
      <4> QED  BY <4>2, <4>3, <4>4 DEF EmployeeDoc
    <3> QED  BY <3>1
  <2>2. employer \in [Employer -> EmployerDoc]
    BY DEF EmployerDoc, Writer
  <2>3. \A c \in There : employee[c].version # None
    BY <1>4, ProfilesAssumption DEF There
  <2>4. \A c \in Employee, op \in EmployeeMedia : employee[c][op] \in FileKey \cup {None}
    BY <1>1, <1>5
  <2>5. \A e \in Employer : employer[e].image \in AvatarKey \cup {None}
    OBVIOUS
  <2> QED  BY <2>1, <2>2, <2>3, <2>4, <2>5 DEF DocsOK
<1>8. OutsideOK
  <2>1. s3 \in [Key -> Employee \cup Employer \cup {None}]
    BY ProfilesAssumption
  <2>2. contacts \in [Employee -> Writer]
    BY DEF Writer
  <2> QED  BY <2>1, <2>2, ProfilesAssumption DEF OutsideOK
<1>9. TestsTyped
  BY DEF TestsTyped, Entry, NoEntry
<1>10. MediaOK
  <2>1. MediaCalls = {}
    BY <1>3 DEF MediaCalls
  <2>2. \A c \in Employee, op \in EmployeeMedia : Answered(employee[c][op])
    BY <1>2, <1>5, ProfilesAssumption DEF Answered, Key
  <2>3. \A c \in Employee, op \in EmployeeMedia : FileOK(c, op)
    BY <1>1, <1>5 DEF FileOK
  <2> HIDE DEF Init
  <2>4. ASSUME NEW c \in Employee, NEW d \in Employee,
               NEW op \in EmployeeMedia, NEW o \in EmployeeMedia,
               employee[c][op] = employee[d][o], employee[c][op] # None
        PROVE  c = d /\ op = o
    <3>1. c = First /\ op = "image"
      BY <1>5, <2>4
    <3>2. d = First /\ o = "image"
      BY <1>5, <2>4
    <3> QED  BY <3>1, <3>2
  <2>5. KeysOK
    BY <2>1, <2>2, <2>4 DEF KeysOK
  <2> QED  BY <2>3, <2>5 DEF MediaOK
<1>11. ContactsOK
  BY DEF ContactsOK, Keeping, Proc
<1>12. ResultsOK
  <2>1. ASSUME NEW c PROVE ~HasResult(c)
    <3>1. RowsOf(c) = {}
      BY DEF RowsOf
    <3> QED  BY <3>1, FirstRowIs DEF HasResult
  <2>2. Joins = {}
    BY <1>3 DEF Joins
  <2> QED  BY <2>1, <2>2 DEF ResultsOK
<1> QED  BY <1>6, <1>7, <1>8, <1>9, <1>10, <1>11, <1>12 DEF IInv, BaseInv

\* Exceptions and exits of the process keep it.
LEMMA FailsKeeps ==
  ASSUME IInv, area' = area, Fails
  PROVE  IInv' /\ ListsKept
<1> USE DEF IInv, BaseInv
<1>1. PICK P \in SUBSET Active, exit \in BOOLEAN : Stop(P, exit)
  BY DEF Fails
<1>2. Stopped(P)
  BY <1>1, StopDoes
<1>3. UNCHANGED <<profiles, s3, rd, tests>>
  BY <1>2 DEF Stopped
<1>4. DocsOK' /\ There' = There /\ ListsKept
  BY <1>3, SameDocs
<1>5. ControlOK'
  BY <1>2, <1>4, StoppedControl
<1>6. (exit => exits < MaxExit) /\ exits' = IF exit THEN exits + 1 ELSE exits
  BY <1>1 DEF Stop
<1>7. exits' \in 0..MaxExit
  BY <1>6, ProfilesAssumption DEF OutsideOK
<1>8. OutsideOK' /\ TestsTyped'
  BY <1>3, <1>7 DEF OutsideOK, TestsTyped, rd, tests
<1>9. MediaOK' /\ ContactsOK' /\ ResultsOK'
  BY <1>2, StoppedKeeps
<1> QED  BY <1>4, <1>5, <1>8, <1>9

\* So do arrivals.
LEMMA ArriveDoesKeep ==
  ASSUME IInv, area' = area, NEW r \in Req, Arrive(r)
  PROVE  IInv' /\ ListsKept
<1> USE DEF IInv, BaseInv
<1>1. Arrived(r)
  BY ArriveDoes
<1>2. UNCHANGED <<profiles, s3, exits, rd, tests>>
  BY <1>1 DEF Arrived
<1>3. DocsOK' /\ There' = There /\ ListsKept
  BY <1>2, SameDocs
<1>4. ControlOK'
  BY <1>1, <1>3, ArrivedControl
<1>5. OutsideOK' /\ TestsTyped'
  BY <1>2 DEF OutsideOK, TestsTyped, rd, tests
<1>6. MediaOK' /\ ContactsOK' /\ ResultsOK'
  BY <1>1, ArrivedKeeps
<1> QED  BY <1>3, <1>4, <1>5, <1>6

\* The end of an entry of the cache keeps it: who loses the backup is marked.
LEMMA CacheExpiresKeeps ==
  ASSUME IInv, area' = area, CacheExpires
  PROVE  IInv' /\ ListsKept
<1> USE DEF IInv, BaseInv
<1>1. UNCHANGED <<profiles, s3, exits, contacts, tests, pc, req>>
  BY DEF CacheExpires
<1>2. /\ access' \in BOOLEAN
      /\ backup' = backup \/ backup' = {}
      /\ overlapped \subseteq overlapped'
  BY DEF CacheExpires, OutsideOK
<1>3. DocsOK' /\ FilesKept /\ ListsKept
  BY <1>1, SameDocs
<1>4. ControlOK'
  BY <1>1, SameControl
<1>5. OutsideOK' /\ TestsTyped'
  BY <1>1, <1>2 DEF OutsideOK, TestsTyped, tests
<1>6. \A q \in Active : Stays(q)
  BY <1>1 DEF Stays, Same, Active
<1>7. MediaOK'
  <2>1. \A q \in MediaCalls' : q \in MediaCalls /\ Same(q)
    BY <1>1 DEF MediaCalls, Same, Active
  <2>2. \A q \in MediaCalls : Stays(q)
    BY <1>6 DEF MediaCalls
  <2> QED  BY <1>1, <1>2, <1>3, <2>1, <2>2, MediaQuiet DEF StoredKept
<1>8. ContactsOK'
  <2>1. \A p, q \in Keeping' : p # q => p \in overlapped'
    BY <1>1, <1>2 DEF ContactsOK, Keeping
  <2>2. ASSUME NEW r \in Req, pc'[<<r, "contact">>] = "answered",
               <<r, "contact">> \notin overlapped'
        PROVE  KeptFor(req[<<r, "http">>].who)'
    <3>1. PICK c : c = req[<<r, "http">>].who
      OBVIOUS
    <3>2. KeptFor(c) /\ pc[<<r, "contact">>] = "answered" /\ pc[<<r, "http">>] = "answered"
      BY <1>1, <1>2, <2>2, <3>1 DEF ContactsOK, ControlOK, SignupOK
    <3>3. CASE contacts[c] # None
      BY <1>1, <3>1, <3>3 DEF KeptFor
    <3>4. CASE contacts[c] = None
      <4>1. PICK b \in backup : b.email = c
        BY <3>2, <3>4 DEF KeptFor, Backed
      <4>2. backup' = backup
        BY <2>2, <3>1, <3>2, <4>1 DEF CacheExpires
      <4>3. Keeping' = Keeping /\ req' = req
        BY <1>1 DEF Keeping
      <4>4. KeptFor(c)'
        BY <3>2, <3>4, <4>2, <4>3 DEF KeptFor, Backed
      <4> QED  BY <1>1, <3>1, <4>4 DEF KeptFor, Backed
    <3> QED  BY <3>3, <3>4
  <2> QED  BY <2>1, <2>2 DEF ContactsOK
<1>9. ResultsOK'
  <2>1. \A q \in Joins' : q \in Joins /\ req'[q] = req[q]
    BY <1>1 DEF Joins, Active
  <2> QED  BY <1>1, <1>2, <1>6, <2>1, ResultsQuiet DEF tests
<1> QED  BY <1>3, <1>4, <1>5, <1>7, <1>8, <1>9

\* What a step does to the lists of the profiles.
ListsStep ==
  \/ ListsKept
  \/ \E p \in Active, list \in List : EditsList(p, list)
  \/ \E p \in Active : PatchesList(p)

\* An operation goes on with a call.
LEMMA ProgressActive ==
  ASSUME NEW p \in Proc, Progress(p)
  PROVE  p \in Active
<1>1. CASE MediaRead(p) \/ MediaRemove(p) \/ MediaUpload(p) \/ MediaWrite(p)
  BY <1>1 DEF Active, At, MediaRead, MediaRemove, MediaUpload, MediaWrite
<1>2. CASE AcademicBackground(p) \/ InvalidUniversity(p) \/ Experience(p) \/ Language(p)
           \/ Tool(p) \/ Certificate(p) \/ Patch(p) \/ Company(p) \/ Segment(p) \/ Benefit(p)
  BY <1>2 DEF Active, At, AcademicBackground, InvalidUniversity, Experience, Language, Tool,
              Certificate, Edit, Patch, Company, Segment, Benefit
<1>3. CASE SignupStore(p) \/ SignupEmit(p) \/ CourseRead(p) \/ CourseWrite(p) \/ Award(p)
  BY <1>3 DEF Active, At, SignupStore, SignupEmit, CourseRead, CourseWrite, Award
<1>4. CASE SyncRead(p) \/ SyncNone(p) \/ SyncFound(p) \/ SyncWrite(p) \/ SsoRead(p) \/ SsoWrite(p)
  BY <1>4 DEF Active, At, SyncRead, SyncNone, SyncFound, SyncWrite, SsoRead, SsoWrite
<1>5. CASE FirstAccess(p) \/ ContactEvent(p) \/ Refused(p) \/ PostContact(p) \/ GetContact(p)
           \/ PatchContact(p) \/ BackupRead(p) \/ BackupSet(p)
  BY <1>5 DEF Active, At, FirstAccess, ContactEvent, Refused, PostContact, GetContact,
              PatchContact, BackupRead, BackupSet
<1>6. CASE JoinRead(p) \/ CreateTest(p) \/ SaveTest(p) \/ JoinPush(p) \/ Place(p)
           \/ ResultRead(p) \/ ResultRow(p) \/ ResultEntries(p)
  BY <1>6 DEF Active, At, JoinRead, CreateTest, SaveTest, JoinPush, Place, ResultRead, ResultRow,
              ResultEntries
<1> QED  BY <1>1, <1>2, <1>3, <1>4, <1>5, <1>6 DEF Progress

\* Every operation keeps the invariant.
LEMMA ProgressKeeps ==
  ASSUME IInv, area' = area, NEW p \in Active, Progress(p)
  PROVE  IInv' /\ ListsStep
<1>1. BaseInv
  BY DEF IInv
<1>2. CASE MediaRead(p) \/ MediaRemove(p) \/ MediaUpload(p) \/ MediaWrite(p)
  BY <1>2, MediaReadDoes, MediaRemoveDoes, MediaUploadDoes, MediaWriteDoes DEF ListsStep
<1>3. CASE AcademicBackground(p) \/ Experience(p) \/ Language(p) \/ Tool(p) \/ Certificate(p)
  <2>1. PICK list \in List : Edit(p, list)
    BY <1>3 DEF AcademicBackground, Experience, Language, Tool, Certificate, List
  <2>2. Plain(p) /\ EditsList(p, list)
    BY <1>1, <2>1, EditDoes
  <2> QED  BY <2>2, PlainKeeps DEF ListsStep
<1>4. CASE Patch(p)
  <2>1. Plain(p) /\ PatchesList(p)
    BY <1>1, <1>4, PatchDoes
  <2> QED  BY <2>1, PlainKeeps DEF ListsStep
<1>5. CASE Company(p) \/ Segment(p) \/ Benefit(p)
  BY <1>1, <1>5, EmployerDoes, PlainKeeps DEF ListsStep
<1>6. CASE SignupStore(p) \/ SignupEmit(p) \/ CourseRead(p) \/ CourseWrite(p)
  BY <1>1, <1>6, SignupStoreDoes, SignupEmitDoes, CourseReadDoes, CourseWriteDoes, PlainKeeps
  DEF ListsStep
<1>7. CASE SyncRead(p) \/ SyncNone(p) \/ SyncFound(p) \/ SyncWrite(p)
  BY <1>1, <1>7, SyncDoes, PlainKeeps DEF ListsStep
<1>8. CASE SsoRead(p) \/ SsoWrite(p) \/ FirstAccess(p) \/ GetContact(p) \/ Refused(p)
  BY <1>1, <1>8, SsoReadDoes, SsoWriteDoes, FirstAccessDoes, GetContactDoes, RefusedDoes,
     PlainKeeps DEF ListsStep
<1>9. CASE Fails
  BY <1>9, FailsKeeps DEF ListsStep
<1>10. CASE InvalidUniversity(p) \/ Award(p)
  BY <1>9, <1>10, FailFails DEF InvalidUniversity, Award
<1>11. CASE ContactEvent(p) /\ ~Fails
  BY <1>1, <1>11, ContactEventDoes, PlainKeeps DEF ListsStep
<1>12. CASE PostContact(p) \/ PatchContact(p) \/ BackupRead(p) \/ BackupSet(p)
  BY <1>12, ContactSet, BackupReadDoes, BackupSetDoes DEF ListsStep
<1>13. CASE JoinRead(p) \/ CreateTest(p) \/ SaveTest(p) \/ (JoinPush(p) /\ ~Fails)
           \/ (Place(p) /\ ~Fails)
  BY <1>13, JoinReadDoes, CreateTestDoes, SaveTestDoes, JoinPushDoes, PlaceDoes DEF ListsStep
<1>14. CASE ResultRead(p) \/ ResultRow(p) \/ ResultEntries(p)
  BY <1>14, ResultReadDoes, ResultRowDoes, ResultEntriesDoes DEF ListsStep
<1> QED  BY <1>2, <1>3, <1>4, <1>5, <1>6, <1>7, <1>8, <1>9, <1>10, <1>11, <1>12, <1>13, <1>14
         DEF Progress

\* Every step keeps it.
LEMMA NextKeeps ==
  ASSUME IInv, Next
  PROVE  IInv' /\ ListsStep
<1>1. area' = area
  BY DEF Next
<1>2. CASE \E r \in Req : Arrive(r)
  BY <1>1, <1>2, ArriveDoesKeep DEF ListsStep
<1>3. CASE \E p \in Proc : Progress(p)
  BY <1>1, <1>3, ProgressActive, ProgressKeeps
<1>4. CASE \E p \in Proc : CallFails(p)
  <2>1. Fails
    BY <1>4, FailFails DEF CallFails
  <2> QED  BY <2>1, <1>1, FailsKeeps DEF ListsStep
<1>5. CASE ProcessExit
  <2>1. Fails
    BY <1>5 DEF ProcessExit, Fails
  <2> QED  BY <2>1, <1>1, FailsKeeps DEF ListsStep
<1>6. CASE CacheExpires
  BY <1>1, <1>6, CacheExpiresKeeps DEF ListsStep
<1> QED  BY <1>2, <1>3, <1>4, <1>5, <1>6 DEF Next

\* Nothing happens.
LEMMA StutterKeeps ==
  ASSUME IInv, UNCHANGED vars
  PROVE  IInv' /\ ListsKept
<1> USE DEF vars, IInv, BaseInv
<1>1. ControlOK'
  BY SameControl DEF profiles
<1>2. DocsOK' /\ ListsKept
  BY DEF DocsOK, There, ListsKept
<1>3. OutsideOK' /\ TestsTyped'
  BY DEF OutsideOK, TestsTyped
<1>4. MediaOK'
  BY DEF MediaOK, KeysOK, FileOK, Answered, MediaCalls, Active
<1>5. ContactsOK'
  BY DEF ContactsOK, Keeping, KeptFor, Backed
<1>6. ResultsOK'
  <2>1. rows' = rows /\ entries' = entries /\ overlapped \subseteq overlapped'
    OBVIOUS
  <2>2. \A q \in Joins' : q \in Joins /\ req'[q] = req[q]
    BY DEF Joins, Active
  <2>3. \A q \in Active : Stays(q)
    BY DEF Stays, Same, Active
  <2> QED  BY <2>1, <2>2, <2>3, ResultsQuiet
<1> QED  BY <1>1, <1>2, <1>3, <1>4, <1>5, <1>6

-----------------------------------------------------------------------------
(* The theorems *)

\* The invariant holds in every reachable state.
THEOREM Invariant == Spec => []IInv
<1>1. Init => IInv
  BY InitInv
<1>2. IInv /\ [Next]_vars => IInv'
  BY NextKeeps, StutterKeeps
<1> QED  BY <1>1, <1>2, PTL DEF Spec

\* What the profiles, the other systems and the calls hold has its type.
THEOREM TypeCorrect == Spec => []TypeOK
<1>1. IInv => TypeOK
  BY DEF IInv, BaseInv, ControlOK, DocsOK, OutsideOK, TestsTyped, TypeOK
<1> QED  BY <1>1, Invariant, PTL

\* The file that a profile names is stored and is that employee's own, whatever
\* uploads of it overlap, save while one that has removed it has not written the new
\* key, or when one stopped there.
THEOREM FilesStored == Spec => []MediaStored
<1>1. IInv => MediaStored
  <2> SUFFICES ASSUME IInv, NEW c \in Employee, NEW op \in {"image", "pdf"}
               PROVE  LET k == employee[c][op]
                      IN  \/ k = None
                          \/ s3[k] = c
                          \/ <<c, op, k>> \in overlapped
                          \/ \E p \in Active : /\ req[p].who = c /\ req[p].op = op
                                                /\ pc[p] \in {"upload", "write"}
    BY DEF MediaStored
  <2>1. FileOK(c, op)
    BY DEF IInv, MediaOK, EmployeeMedia
  <2> QED  BY <2>1 DEF FileOK, MediaCalls
<1> QED  BY <1>1, Invariant, PTL

\* A contact whose event is handled is at RD Station or in the backup, unless two
\* backups overlapped, one was cut short or the cache entry of the backup ended.
THEOREM ContactsStored == Spec => []ContactKept
<1>1. IInv => ContactKept
  BY DEF IInv, ContactsOK, ContactKept, KeptFor, Backed
<1> QED  BY <1>1, Invariant, PTL

\* The result of a candidate's oldest test shows in every entry that a join gave the
\* candidate, however joins, placements by hand and webhooks interleave, unless a join
\* and a webhook overlap or a webhook stops between its two updates.
THEOREM ResultsShown == Spec => []EntryShowsResult
<1>1. IInv => EntryShowsResult
  <2> SUFFICES ASSUME IInv, NEW c \in Employee, NEW s \in Step,
                      FirstRow(c) # 0, entries[s][c].in, ~entries[s][c].byHand,
                      rows[FirstRow(c)].result # None
               PROVE  \/ entries[s][c].result # None
                      \/ <<s, c>> \in overlapped
                      \/ \E p \in Active : /\ req[p].op = "result" /\ pc[p] = "entries"
                                           /\ req[p].who = c
    BY DEF EntryShowsResult
  <2> QED  BY DEF IInv, ResultsOK, HasResult, Showing
<1> QED  BY <1>1, Invariant, PTL

\* An item appears in a list or leaves it.
Changes(c, l, i) ==
  (employee[c].lists[l][i] = None) # (employee'[c].lists[l][i] = None)

\* A request names it: a PATCH of the list, the addition of the item or its deletion.
Names(p, c, l, i) ==
  /\ pc'[p] = "answered" /\ req[p].who = c /\ req[p].list = l
  /\ \/ req[p].op = "patch"
     \/ req[p].op = "add" /\ p[1] = i /\ employee[c].lists[l][i] = None
     \/ req[p].op = "delete" /\ req[p].item = i /\ employee'[c].lists[l][i] = None

\* Every step changes only items that its request names.
LEMMA ItemsStep ==
  ASSUME IInv, ListsStep, NEW c \in Employee, NEW l \in List, NEW i \in Item, Changes(c, l, i)
  PROVE  \E p \in Active : Names(p, c, l, i)
<1>1. CASE ListsKept
  BY <1>1 DEF ListsKept, Changes
<1>2. ASSUME NEW p \in Active, PatchesList(p) PROVE Names(p, c, l, i)
  BY <1>2 DEF PatchesList, Changes, Names
<1>3. ASSUME NEW p \in Active, NEW list \in List, EditsList(p, list) PROVE Names(p, c, l, i)
  <2>1. PICK items : items = employee[c].lists[l]
    OBVIOUS
  <2>2. items \in [Item -> Writer]
    <3>1. employee[c] \in EmployeeDoc
      BY DEF IInv, BaseInv, DocsOK
    <3> QED  BY <2>1, <3>1 DEF EmployeeDoc
  <2>3. /\ req[p].op \in {"add", "set", "delete"} /\ req[p].list = list /\ pc'[p] = "answered"
        /\ req[p].item \in Items(req[p].op)
        /\ employee'[c].lists[l] = IF c = req[p].who /\ l = list
                                   THEN Edited(items, req[p], p[1]) ELSE items
    BY <1>3, <2>1 DEF EditsList
  <2>4. c = req[p].who /\ l = list /\ (items[i] = None) # (Edited(items, req[p], p[1])[i] = None)
    BY <2>1, <2>3 DEF Changes
  <2>5. p[1] \in Req /\ p[1] # None
    BY ProfilesAssumption DEF Active, Proc, Key
  <2>6. CASE req[p].op = "add"
    <3>1. Edited(items, req[p], p[1]) = [items EXCEPT ![p[1]] = p[1]]
      BY <2>6 DEF Edited
    <3>2. p[1] = i /\ items[i] = None
      BY <2>2, <2>4, <2>5, <3>1 DEF Item
    <3> QED  BY <2>1, <2>3, <2>4, <2>6, <3>2 DEF Names
  <2>7. CASE req[p].op # "add"
    <3>1. Edited(items, req[p], p[1]) =
            [items EXCEPT ![req[p].item] =
               IF req[p].op = "delete" \/ items[req[p].item] = None THEN None ELSE p[1]]
      BY <2>7 DEF Edited
    <3>2. req[p].item = i /\ req[p].op = "delete"
      BY <2>2, <2>4, <2>5, <3>1
    <3>3. Edited(items, req[p], p[1])[i] = None
      BY <2>2, <3>1, <3>2
    <3> QED  BY <2>3, <2>4, <3>2, <3>3 DEF Names
  <2> QED  BY <2>6, <2>7
<1> QED  BY <1>1, <1>2, <1>3 DEF ListsStep

\* An item of a profile appears by its addition and leaves by a deletion that names
\* it, or with its list by a PATCH: no edit of another item loses it, and the update
\* of a deleted one does not bring it back.
THEOREM ItemsKept == Spec => ItemsByName
<1>1. IInv /\ [Next]_vars =>
        \A c \in Employee, l \in List, i \in Item :
          LET before == employee[c].lists[l][i]
              after == employee'[c].lists[l][i]
          IN  (before = None) # (after = None) =>
                \E p \in Active :
                  /\ pc'[p] = "answered" /\ req[p].who = c /\ req[p].list = l
                  /\ \/ req[p].op = "patch"
                     \/ req[p].op = "add" /\ p[1] = i /\ before = None
                     \/ req[p].op = "delete" /\ req[p].item = i /\ after = None
  <2> SUFFICES ASSUME IInv, [Next]_vars, NEW c \in Employee, NEW l \in List, NEW i \in Item,
                      Changes(c, l, i)
               PROVE  \E p \in Active : Names(p, c, l, i)
    BY DEF Changes, Names
  <2>1. ListsStep
    BY NextKeeps, StutterKeeps DEF ListsStep
  <2> QED  BY <2>1, ItemsStep
<1> QED  BY <1>1, Invariant, PTL DEF Spec, ItemsByName
=============================================================================
