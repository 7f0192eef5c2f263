--------------------------- MODULE AccountsProofs ---------------------------
(***************************************************************************)
(* Proofs about Accounts, for any number of requests, emails and keys.     *)
(***************************************************************************)
EXTENDS Accounts, SequenceTheorems, TLAPS

Signups == {"signupEmployee", "signupEmployer", "social"}

RoleFor(op) == IF op = "signupEmployer" THEN "employer" ELSE "employee"

(***************************************************************************)
(* The invariant.  OneEntityPerUser is not inductive: that a signup stores *)
(* the only entity of its user rests on what the signup did before, which  *)
(* Owned states of the processes between the two writes.                   *)
(***************************************************************************)

\* The stores.  A last externalId exists, and the signup reads it.
StoresOK ==
  /\ users \in [Email -> User \cup {NoUser}]
  /\ employees \subseteq EmployeeDoc
  /\ employers \subseteq EmployerDoc
  /\ tokens \in [Email -> Seq(Code)]
  /\ mailed \subseteq Mail
  /\ employees # {} =>
       \E x \in employees : \A y \in employees : y.externalId <= x.externalId

\* Past these awaits the user has been found.
Found == {"link", "write", "name", "code"}

\* At these the refresh token has been signed and not been stored yet.
Storing == {"rotate", "insert"}

\* A process that has started knows its call, and only signups get to their writes.
CallOK(p) ==
  /\ req[p] \in Request
  /\ req[p].op = "signupEmployer" => req[p].key \in Key
  /\ pc[p] = "user" => req[p].op \in Signups
  /\ pc[p] = "last" => req[p].op \in Signups \ {"signupEmployer"}
  /\ pc[p] = "entity" => req[p].op \in Signups
  /\ pc[p] \in Found => users[req[p].email] # NoUser
  /\ pc[p] \in Storing => req[p].issued \in Code

ControlOK ==
  /\ pc \in [Proc -> Label]
  /\ req \in [Proc -> Request \cup {NoRequest}]
  /\ \A p \in Proc : pc[p] # "idle" => CallOK(p)

\* Signups that have stored their user and not yet its entity.
Pending == {p \in Proc : pc[p] \in {"last", "entity"}}

Owned ==
  /\ \A p \in Pending :
       /\ users[req[p].email] # NoUser
       /\ users[req[p].email].role = RoleFor(req[p].op)
       /\ ~EmployeeOf(req[p].email) /\ ~EmployerOf(req[p].email)
  /\ \A p, q \in Pending : req[p].email = req[q].email => p = q

IInv == StoresOK /\ ControlOK /\ Owned /\ OneEntityPerUser

\* The tokens of the second are typed on their own: only signing reads them.
RecentOK == recent \in [Email -> Code \cup {NoCode}]

-----------------------------------------------------------------------------
(* Control *)

UsersKept == \A e \in Email : users[e] # NoUser => users'[e] # NoUser

LEMMA GotoOK ==
  ASSUME ControlOK, UsersKept, NEW p \in Proc, pc[p] # "idle", NEW label \in Label,
         Goto(p, label),
         label = "user" => req[p].op \in Signups,
         label = "last" => req[p].op \in Signups \ {"signupEmployer"},
         label = "entity" => req[p].op \in Signups,
         label \in Found => users'[req[p].email] # NoUser,
         label \in Storing => req[p].issued \in Code
  PROVE  ControlOK'
<1>1. pc' \in [Proc -> Label] /\ req' = req
  BY DEF Goto, ControlOK
<1>2. ASSUME NEW q \in Proc, pc'[q] # "idle" PROVE CallOK(q)'
  <2>1. pc[q] # "idle" /\ CallOK(q)
    BY <1>2 DEF Goto, ControlOK
  <2>2. req[q].email \in Email
    BY <2>1 DEF CallOK, Request
  <2>3. CASE q = p
    <3>1. pc'[q] = label
      BY <2>3 DEF Goto, ControlOK
    <3> QED
      BY <1>1, <2>1, <2>3, <3>1 DEF CallOK
  <2>4. CASE q # p
    <3>1. pc'[q] = pc[q]
      BY <2>4 DEF Goto, ControlOK
    <3> QED
      BY <1>1, <2>1, <2>2, <3>1 DEF CallOK, UsersKept
  <2> QED
    BY <2>3, <2>4
<1> QED
  BY <1>1, <1>2 DEF ControlOK

\* The processes P fail.
LEMMA EndOK ==
  ASSUME ControlOK, UsersKept, NEW P \in SUBSET Proc, \A q \in P : pc[q] # "idle",
         pc' = [q \in Proc |-> IF q \in P THEN "failed" ELSE pc[q]], req' = req
  PROVE  ControlOK'
<1>1. pc' \in [Proc -> Label]
  BY DEF ControlOK, Label
<1>2. ASSUME NEW q \in Proc, pc'[q] # "idle" PROVE CallOK(q)'
  <2>1. pc[q] # "idle" /\ CallOK(q)
    BY <1>2 DEF ControlOK
  <2>2. req[q].email \in Email
    BY <2>1 DEF CallOK, Request
  <2>3. pc'[q] \in {"failed", pc[q]}
    OBVIOUS
  <2> QED
    BY <2>1, <2>2, <2>3 DEF CallOK, UsersKept, Found, Storing
<1> QED
  BY <1>1, <1>2 DEF ControlOK

LEMMA FailOK ==
  ASSUME ControlOK, UsersKept, NEW p \in Proc, pc[p] # "idle", Fail(p)
  PROVE  ControlOK'
<1> DEFINE P == IF p[2] = "resend" THEN Active ELSE {p}
<1>1. P \in SUBSET Proc /\ \A q \in P : pc[q] # "idle"
  BY DEF Active
<1>2. pc' = [q \in Proc |-> IF q \in P THEN "failed" ELSE pc[q]] /\ req' = req
  BY DEF Fail
<1> HIDE DEF P
<1> QED
  BY <1>1, <1>2, EndOK

LEMMA ResendOK ==
  ASSUME ControlOK, UsersKept, NEW p \in Proc, pc[p] # "idle", FailAndResend(p),
         users'[req[p].email] # NoUser
  PROVE  ControlOK'
<1> DEFINE bg == <<p[1], "resend">>
<1>1. bg \in Proc
  BY DEF Proc
<1>2. CallOK(p)
  BY DEF ControlOK
<1> DEFINE call == [req[p] EXCEPT !.op = "resend"]
<1>4. call \in Request /\ call.op = "resend" /\ call.email = req[p].email
  BY <1>2 DEF CallOK, Request, Operations
<1>5. pc' = [pc EXCEPT ![p] = "failed", ![bg] = "name"] /\ req' = [req EXCEPT ![bg] = call]
  BY DEF FailAndResend
<1> HIDE DEF bg, call
<1>6. pc' \in [Proc -> Label] /\ req' \in [Proc -> Request \cup {NoRequest}]
  BY <1>1, <1>4, <1>5 DEF ControlOK, Label
<1>7. ASSUME NEW q \in Proc, pc'[q] # "idle" PROVE CallOK(q)'
  <2>1. CASE q = bg
    BY <1>1, <1>4, <1>5, <2>1 DEF CallOK, ControlOK, Storing
  <2>2. CASE q # bg
    <3>1. req'[q] = req[q] /\ pc'[q] \in {"failed", pc[q]} /\ pc[q] # "idle"
      BY <1>5, <1>7, <2>2 DEF ControlOK
    <3>2. CallOK(q)
      BY <3>1 DEF ControlOK
    <3>3. req[q].email \in Email
      BY <3>2 DEF CallOK, Request
    <3> QED
      BY <3>1, <3>2, <3>3 DEF CallOK, UsersKept, Found, Storing
  <2> QED
    BY <2>1, <2>2
<1> QED
  BY <1>6, <1>7 DEF ControlOK

-----------------------------------------------------------------------------
(* Ownership of the entity *)

RolesKept ==
  \A e \in Email : users[e] # NoUser =>
    users'[e] # NoUser /\ users'[e].role = users[e].role

\* No process starts to be between the two writes, and those that are keep their call.
PendingKept ==
  Pending' \subseteq Pending /\ \A q \in Pending' :
    req'[q].email = req[q].email /\ req'[q].op = req[q].op

LEMMA Frame ==
  ASSUME IInv, RolesKept, PendingKept, UNCHANGED <<employees, employers>>
  PROVE  Owned' /\ OneEntityPerUser'
<1>1. \A q \in Pending : req[q].email \in Email
  BY DEF IInv, ControlOK, Pending, CallOK, Request
<1>2. Owned'
  BY <1>1 DEF IInv, Owned, RolesKept, PendingKept, EmployeeOf, EmployerOf
<1>3. (\A x \in employees : x.user \in Email) /\ (\A x \in employers : x.user \in Email)
  BY DEF IInv, StoresOK, EmployeeDoc, EmployerDoc
<1>4. OneEntityPerUser'
  BY <1>3 DEF IInv, OneEntityPerUser, RolesKept
<1> QED
  BY <1>2, <1>4

LEMMA GotoKeepsPending ==
  ASSUME ControlOK, NEW p \in Proc, NEW label \in Label, Goto(p, label),
         label \in {"last", "entity"} => p \in Pending
  PROVE  PendingKept
<1>1. req' = req /\ \A q \in Proc : pc'[q] = IF q = p THEN label ELSE pc[q]
  BY DEF Goto, ControlOK
<1> QED
  BY <1>1 DEF PendingKept, Pending

LEMMA FailKeepsPending ==
  ASSUME ControlOK, NEW p \in Proc, Fail(p) \/ FailAndResend(p)
  PROVE  PendingKept
<1>1. CASE Fail(p)
  <2>1. req' = req /\ \A q \in Proc : pc'[q] \in {"failed", pc[q]}
    BY <1>1 DEF Fail
  <2> QED
    BY <2>1 DEF PendingKept, Pending
<1>2. CASE FailAndResend(p)
  <2> DEFINE bg == <<p[1], "resend">>
             call == [req[p] EXCEPT !.op = "resend"]
  <2>1. pc' = [pc EXCEPT ![p] = "failed", ![bg] = "name"] /\ req' = [req EXCEPT ![bg] = call]
    BY <1>2 DEF FailAndResend
  <2>2. bg \in Proc
    BY DEF Proc
  <2> HIDE DEF bg, call
  <2>3. \A q \in Proc : pc'[q] \in {"failed", "name"} \/ (pc'[q] = pc[q] /\ req'[q] = req[q])
    BY <2>1, <2>2 DEF ControlOK
  <2> QED
    BY <2>3 DEF PendingKept, Pending
<1> QED
  BY <1>1, <1>2

\* Steps that change neither users nor entities, and the control as one of these.
LEMMA Quiet ==
  ASSUME IInv, UNCHANGED <<users, employees, employers>>, PendingKept
  PROVE  Owned' /\ OneEntityPerUser'
<1>1. RolesKept
  BY DEF RolesKept
<1> QED
  BY <1>1, Frame

-----------------------------------------------------------------------------
(* Steps *)

\* How the actions but the writes of a signup end.
Moves(p) ==
  \/ \E label \in Label \ {"user", "last", "entity"} :
       /\ Goto(p, label)
       /\ label \in Found => users'[req[p].email] # NoUser
       /\ label \in Storing => req[p].issued \in Code
  \/ Goto(p, "user") /\ req[p].op \in Signups
  \/ Fail(p)
  \/ FailAndResend(p) /\ users'[req[p].email] # NoUser

LEMMA StepOK ==
  ASSUME IInv, NEW p \in Proc, pc[p] # "idle", Moves(p), RolesKept, StoresOK',
         UNCHANGED <<employees, employers>>
  PROVE  IInv'
<1>1. ControlOK /\ UsersKept
  BY DEF IInv, RolesKept, UsersKept
<1>2. ControlOK' /\ PendingKept
  <2>1. ASSUME NEW label \in Label \ {"user", "last", "entity"}, Goto(p, label),
               label \in Found => users'[req[p].email] # NoUser,
               label \in Storing => req[p].issued \in Code
        PROVE  ControlOK' /\ PendingKept
    BY <1>1, <2>1, GotoOK, GotoKeepsPending
  <2>2. CASE Goto(p, "user") /\ req[p].op \in Signups
    <3>1. "user" \in Label /\ "user" \notin Found /\ "user" \notin Storing
      BY DEF Label, Found, Storing
    <3> QED
      BY <1>1, <2>2, <3>1, GotoOK, GotoKeepsPending
  <2>3. CASE Fail(p)
    BY <1>1, <2>3, FailOK, FailKeepsPending
  <2>4. CASE FailAndResend(p) /\ users'[req[p].email] # NoUser
    BY <1>1, <2>4, ResendOK, FailKeepsPending
  <2> QED
    BY <2>1, <2>2, <2>3, <2>4 DEF Moves
<1> QED
  BY <1>2, Frame DEF IInv

\* A step that reads.
LEMMA ReadOK ==
  ASSUME IInv, NEW p \in Proc, pc[p] # "idle", Moves(p), UNCHANGED stores
  PROVE  IInv'
<1>1. RolesKept /\ StoresOK'
  BY DEF stores, RolesKept, IInv, StoresOK
<1> QED
  BY <1>1, StepOK DEF stores

\* A step of a call whose user was found and that changes fields of it.
LEMMA UserOK ==
  ASSUME IInv, NEW p \in Proc, pc[p] # "idle", Moves(p), NEW u \in User,
         users[req[p].email] # NoUser,
         u.role = users[req[p].email].role,
         users' = [users EXCEPT ![req[p].email] = u],
         UNCHANGED <<employees, employers, tokens, mailed>>
  PROVE  IInv'
<1>1. RolesKept /\ StoresOK'
  BY NoUserAssumption DEF RolesKept, IInv, StoresOK
<1> QED
  BY <1>1, StepOK

LEMMA EmailOK ==
  ASSUME IInv, NEW p \in Proc, pc[p] # "idle"
  PROVE  /\ CallOK(p) /\ req[p].email \in Email
         /\ users[req[p].email] # NoUser => users[req[p].email] \in User
BY DEF IInv, ControlOK, StoresOK, CallOK, Request

LEMMA ReadersOK ==
  ASSUME IInv, NEW p \in Proc,
         \/ CheckEmployee(p) \/ CheckEmployer(p) \/ FindEntity(p) \/ LoginRead(p)
         \/ SocialRead(p) \/ RefreshRead(p) \/ FindName(p) \/ ResetRead(p)
         \/ ConfirmRead(p) \/ ResendRead(p)
  PROVE  IInv'
<1>1. pc[p] # "idle" /\ UNCHANGED stores
  BY DEF CheckEmployee, CheckEmployer, FindEntity, LoginRead, SocialRead, RefreshRead,
         FindName, ResetRead, ConfirmRead, ResendRead, At
<1>2. users' = users /\ CallOK(p)
  BY <1>1, EmailOK DEF stores
<1>3. Moves(p)
  <2>1. CASE CheckEmployee(p) \/ CheckEmployer(p)
    BY <2>1 DEF CheckEmployee, CheckEmployer, At, Moves, Signups
  <2>2. CASE FindEntity(p)
    BY <2>2 DEF FindEntity, Moves, Label, Found, Storing
  <2>3. CASE LoginRead(p)
    BY <1>2, <2>3 DEF LoginRead, Moves, Label, Found, Storing
  <2>4. CASE SocialRead(p)
    BY <1>2, <2>4 DEF SocialRead, Moves, Label, Found, Storing
  <2>5. CASE RefreshRead(p)
    BY <2>5 DEF RefreshRead, Moves, Label, Found, Storing
  <2>6. CASE FindName(p)
    BY <1>2, <2>6 DEF FindName, CallOK, Moves, Label, Found, Storing
  <2>7. CASE ResetRead(p)
    BY <1>2, <2>7 DEF ResetRead, Moves, Label, Found, Storing
  <2>8. CASE ConfirmRead(p)
    BY <1>2, <2>8 DEF ConfirmRead, Moves, Label, Found, Storing
  <2>9. CASE ResendRead(p)
    BY <1>2, <2>9 DEF ResendRead, Moves, Label, Found, Storing
  <2> QED
    BY <2>1, <2>2, <2>3, <2>4, <2>5, <2>6, <2>7, <2>8, <2>9
<1> QED
  BY <1>1, <1>3, ReadOK

LEMMA UserWritesOK ==
  ASSUME IInv, NEW p \in Proc,
         SocialLink(p) \/ Forgot(p) \/ ResetWrite(p) \/ ConfirmWrite(p) \/ StoreCode(p)
  PROVE  IInv'
<1> DEFINE e == req[p].email
           u == users[e]
<1>1. pc[p] # "idle"
  BY DEF SocialLink, Forgot, ResetWrite, ConfirmWrite, StoreCode, At
<1>2. CallOK(p) /\ e \in Email /\ (u # NoUser => u \in User)
  BY <1>1, EmailOK
<1>3. users \in [Email -> User \cup {NoUser}]
  BY DEF IInv, StoresOK
<1>4. CASE Forgot(p) /\ u = NoUser
  <2>1. UNCHANGED stores /\ Goto(p, "answered")
    BY <1>4 DEF Forgot, stores
  <2>2. Moves(p)
    BY <2>1 DEF Moves, Label, Found, Storing
  <2> QED
    BY <1>1, <2>1, <2>2, ReadOK
<1>5. ASSUME SocialLink(p) \/ ResetWrite(p) \/ ConfirmWrite(p) \/ StoreCode(p)
      PROVE  u # NoUser
  BY <1>2, <1>5 DEF SocialLink, ResetWrite, ConfirmWrite, StoreCode, At, CallOK, Found
<1>6. CASE Forgot(p) /\ u # NoUser
  <2> DEFINE v == [u EXCEPT !.reset = p, !.resetAge = "valid"]
  <2>1. v \in User /\ v.role = u.role
    BY <1>2, <1>6 DEF User, Code, Age
  <2>2. users' = [users EXCEPT ![e] = v] /\ UNCHANGED <<employees, employers, tokens, mailed>>
    BY <1>6 DEF Forgot
  <2>3. users'[e] # NoUser
    BY <1>2, <1>3, <2>1, <2>2, NoUserAssumption
  <2>4. Moves(p)
    BY <1>6, <2>3 DEF Forgot, Moves, Label, Storing
  <2> QED
    BY <1>1, <1>6, <2>1, <2>2, <2>4, UserOK
<1>7. CASE SocialLink(p)
  <2> DEFINE v == [u EXCEPT !.social = TRUE]
  <2>1. v \in User /\ v.role = u.role
    BY <1>2, <1>5, <1>7 DEF User
  <2>2. /\ users' = [users EXCEPT ![e] = v] /\ UNCHANGED <<employees, employers, tokens, mailed>>
        /\ Goto(p, "find")
    BY <1>7 DEF SocialLink
  <2>3. Moves(p)
    BY <2>2 DEF Moves, Label, Found, Storing
  <2> QED
    BY <1>1, <1>5, <1>7, <2>1, <2>2, <2>3, UserOK
<1>8. CASE ResetWrite(p)
  <2> DEFINE v == [u EXCEPT !.password = TRUE, !.reset = NoCode, !.resetAge = "none"]
  <2>1. v \in User /\ v.role = u.role
    BY <1>2, <1>5, <1>8 DEF User, Age
  <2>2. /\ users' = [users EXCEPT ![e] = v] /\ UNCHANGED <<employees, employers, tokens, mailed>>
        /\ Goto(p, "answered")
    BY <1>8 DEF ResetWrite
  <2>3. Moves(p)
    BY <2>2 DEF Moves, Label, Found, Storing
  <2> QED
    BY <1>1, <1>5, <1>8, <2>1, <2>2, <2>3, UserOK
<1>9. CASE ConfirmWrite(p)
  <2> DEFINE v == [u EXCEPT !.confirmed = TRUE, !.code = NoCode, !.codeAge = "none"]
  <2>1. v \in User /\ v.role = u.role
    BY <1>2, <1>5, <1>9 DEF User, Age
  <2>2. /\ users' = [users EXCEPT ![e] = v] /\ UNCHANGED <<employees, employers, tokens, mailed>>
        /\ Goto(p, "find")
    BY <1>9 DEF ConfirmWrite
  <2>3. Moves(p)
    BY <2>2 DEF Moves, Label, Found, Storing
  <2> QED
    BY <1>1, <1>5, <1>9, <2>1, <2>2, <2>3, UserOK
<1>10. CASE StoreCode(p)
  <2> DEFINE v == [u EXCEPT !.code = p, !.codeAge = "valid"]
  <2>1. v \in User /\ v.role = u.role
    BY <1>2, <1>5, <1>10 DEF User, Age, Code
  <2>2. /\ users' = [users EXCEPT ![e] = v] /\ UNCHANGED <<employees, employers, tokens, mailed>>
        /\ Goto(p, "mail")
    BY <1>10 DEF StoreCode
  <2>3. Moves(p)
    BY <2>2 DEF Moves, Label, Found, Storing
  <2> QED
    BY <1>1, <1>5, <1>10, <2>1, <2>2, <2>3, UserOK
<1> QED
  BY <1>4, <1>6, <1>7, <1>8, <1>9, <1>10

-----------------------------------------------------------------------------
(* Mails and tokens *)

LEMMA MailsAndTokensOK ==
  ASSUME IInv, NEW p \in Proc,
         SendConfirmation(p) \/ SendResetCode(p) \/ Rotate(p) \/ InsertToken(p)
  PROVE  IInv'
<1> DEFINE e == req[p].email
<1>1. pc[p] # "idle" /\ UNCHANGED <<users, employees, employers>>
  BY DEF SendConfirmation, SendResetCode, Rotate, InsertToken, At
<1> DEFINE t == req[p].issued
<1>2. /\ e \in Email /\ p \in Code
      /\ Rotate(p) \/ InsertToken(p) => t \in Code
  BY <1>1, EmailOK DEF Code, CallOK, Storing, Rotate, InsertToken
<1>3. RolesKept
  BY <1>1 DEF RolesKept
<1>4. mailed \subseteq Mail /\ tokens \in [Email -> Seq(Code)]
  BY DEF IInv, StoresOK
<1>5. Moves(p) /\ mailed' \subseteq Mail /\ tokens' \in [Email -> Seq(Code)]
  <2>1. CASE SendConfirmation(p)
    BY <1>2, <1>4, <2>1 DEF SendConfirmation, Mail, Moves, Label, Found, Storing
  <2>2. CASE SendResetCode(p)
    BY <1>2, <1>4, <2>2 DEF SendResetCode, Mail, Moves, Label, Found, Storing
  <2>3. CASE Rotate(p)
    <3>1. Moves(p) /\ mailed' = mailed
      BY <1>2, <2>3 DEF Rotate, Moves, Label, Found, Storing
    <3>2. ASSUME tokens[e] # <<>> PROVE [tokens[e] EXCEPT ![1] = t] \in Seq(Code)
      <4>1. tokens[e] \in Seq(Code) /\ 1 \in 1..Len(tokens[e])
        BY <1>2, <1>4, <3>2, EmptySeq, LenProperties
      <4> QED
        BY <1>2, <2>3, <4>1, ExceptSeq
    <3>3. tokens' = tokens \/ (tokens[e] # <<>>
                               /\ tokens' = [tokens EXCEPT ![e] = [tokens[e] EXCEPT ![1] = t]])
      BY <2>3 DEF Rotate
    <3> QED
      BY <1>2, <1>4, <3>1, <3>2, <3>3
  <2>4. CASE InsertToken(p)
    <3>1. Append(tokens[e], t) \in Seq(Code)
      BY <1>2, <1>4, <2>4, AppendProperties
    <3> QED
      BY <1>2, <1>4, <2>4, <3>1 DEF InsertToken, Moves, Label, Found, Storing
  <2> QED
    BY <2>1, <2>2, <2>3, <2>4
<1>6. StoresOK'
  BY <1>1, <1>5 DEF IInv, StoresOK
<1> QED
  BY <1>1, <1>3, <1>5, <1>6, StepOK

-----------------------------------------------------------------------------
(* The writes of a signup *)

LEMMA CreateUserOK ==
  ASSUME IInv, NEW p \in Proc, CreateUser(p)
  PROVE  IInv'
<1> DEFINE e == req[p].email
           label == IF req[p].op = "signupEmployer" THEN "entity" ELSE "last"
<1>1. pc[p] = "user" /\ UNCHANGED <<employees, employers, tokens, mailed>>
  BY DEF CreateUser
<1>2. CallOK(p) /\ e \in Email
  BY <1>1, EmailOK
<1>3. CASE users[e] # NoUser
  <2>1. Fail(p) /\ UNCHANGED stores
    BY <1>1, <1>3 DEF CreateUser, stores
  <2> QED
    BY <1>1, <2>1, ReadOK DEF Moves
<1>4. CASE users[e] = NoUser
  <2>1. users' = [users EXCEPT ![e] = NewUser(p)] /\ Goto(p, label)
    BY <1>4 DEF CreateUser
  <2>2. NewUser(p) \in User
    BY DEF NewUser, User, Code, Age
  <2>3. NewUser(p).role = RoleFor(req[p].op)
    BY DEF NewUser, RoleFor
  <2>4. /\ users \in [Email -> User \cup {NoUser}] /\ users'[e] = NewUser(p)
        /\ users' \in [Email -> User \cup {NoUser}]
        /\ \A x \in Email \ {e} : users'[x] = users[x]
    BY <1>2, <2>1, <2>2 DEF IInv, StoresOK
  <2>5. users'[e] # NoUser
    BY <2>2, <2>4, NoUserAssumption
  <2>6. StoresOK'
    BY <1>1, <2>4 DEF IInv, StoresOK
  <2>7. RolesKept /\ UsersKept
    BY <1>4, <2>4 DEF RolesKept, UsersKept
  <2>8. ControlOK'
    <3>1. /\ label \in Label /\ label \notin Found /\ label \notin Storing
          /\ label # "user"
      BY DEF Label, Found, Storing
    <3>2. req[p].op \in Signups /\ (label = "last" => req[p].op # "signupEmployer")
      BY <1>1, <1>2 DEF CallOK
    <3> HIDE DEF label
    <3> QED
      BY <1>1, <2>1, <2>7, <3>1, <3>2, GotoOK DEF IInv
  <2>9. ~EmployeeOf(e) /\ ~EmployerOf(e)
    BY <1>4 DEF IInv, OneEntityPerUser, EmployeeOf, EmployerOf
  <2>10. \A q \in Pending : req[q].email \in Email /\ req[q].email # e
    BY <1>4 DEF IInv, Owned, ControlOK, CallOK, Request, Pending
  <2>11. req' = req /\ Pending' = Pending \cup {p}
    BY <1>1, <2>1 DEF Goto, Pending, IInv, ControlOK
  <2>12. Owned'
    <3>1. ASSUME NEW q \in Pending'
          PROVE  /\ users'[req'[q].email] # NoUser
                 /\ users'[req'[q].email].role = RoleFor(req'[q].op)
                 /\ \A x \in employees' : x.user # req'[q].email
                 /\ \A x \in employers' : x.user # req'[q].email
      <4>1. CASE q = p
        BY <1>1, <2>3, <2>4, <2>5, <2>9, <2>11, <4>1 DEF EmployeeOf, EmployerOf
      <4>2. CASE q # p
        <5>1. q \in Pending
          BY <2>11, <4>2
        <5> QED
          BY <1>1, <2>4, <2>10, <2>11, <5>1 DEF IInv, Owned, EmployeeOf, EmployerOf
      <4> QED
        BY <4>1, <4>2
    <3>2. \A q, r \in Pending' : req'[q].email = req'[r].email => q = r
      BY <2>10, <2>11 DEF IInv, Owned
    <3> QED
      BY <3>1, <3>2 DEF Owned, EmployeeOf, EmployerOf
  <2>13. OneEntityPerUser'
    <3>1. (\A x \in employees : x.user \in Email) /\ (\A x \in employers : x.user \in Email)
      BY DEF IInv, StoresOK, EmployeeDoc, EmployerDoc
    <3> QED
      BY <1>1, <2>7, <3>1 DEF IInv, OneEntityPerUser, RolesKept
  <2> QED
    BY <2>6, <2>8, <2>12, <2>13 DEF IInv
<1> QED
  BY <1>3, <1>4

LEMMA LastEmployeeOK ==
  ASSUME IInv, NEW p \in Proc, LastEmployee(p)
  PROVE  IInv'
<1> DEFINE ids == {x.externalId : x \in employees}
           next == IF ids = {} THEN 0 ELSE 1 + CHOOSE i \in ids : \A j \in ids : j <= i
           call == [req[p] EXCEPT !.next = next]
<1>1. /\ pc[p] = "last" /\ UNCHANGED <<users, employees, employers, tokens, mailed>>
      /\ pc' = [pc EXCEPT ![p] = "entity"] /\ req' = [req EXCEPT ![p] = call]
  BY DEF LastEmployee, stores
<1>2. next \in Nat
  <2>1. \A i \in ids : i \in Nat
    BY DEF IInv, StoresOK, EmployeeDoc
  <2>2. ids # {} => \E i \in ids : \A j \in ids : j <= i
    BY DEF IInv, StoresOK
  <2> HIDE DEF ids
  <2>3. ids # {} => (CHOOSE i \in ids : \A j \in ids : j <= i) \in ids
    BY <2>2
  <2> DEFINE m == CHOOSE i \in ids : \A j \in ids : j <= i
  <2>4. ids # {} => m \in Nat
    BY <2>1, <2>3
  <2>5. next = IF ids = {} THEN 0 ELSE 1 + m
    OBVIOUS
  <2> HIDE DEF m, next
  <2> QED
    BY <2>4, <2>5
<1>3. CallOK(p)
  BY <1>1, EmailOK
<1> HIDE DEF next
<1>4. /\ call \in Request /\ call.op = req[p].op /\ call.email = req[p].email
      /\ call.key = req[p].key
  BY <1>2, <1>3 DEF CallOK, Request
<1> HIDE DEF call
<1>5. StoresOK' /\ RolesKept
  BY <1>1 DEF IInv, StoresOK, RolesKept
<1>6. /\ req'[p] = call /\ pc'[p] = "entity"
      /\ \A q \in Proc \ {p} : req'[q] = req[q] /\ pc'[q] = pc[q]
  BY <1>1 DEF IInv, ControlOK
<1>7. PendingKept
  BY <1>1, <1>4, <1>6 DEF PendingKept, Pending
<1>8. ControlOK'
  <2>1. pc' \in [Proc -> Label] /\ req' \in [Proc -> Request \cup {NoRequest}]
    BY <1>1, <1>4 DEF IInv, ControlOK, Label
  <2>2. CallOK(p)'
    BY <1>1, <1>3, <1>4, <1>6 DEF CallOK, Found, Storing
  <2>3. \A q \in Proc \ {p} : pc'[q] # "idle" => CallOK(q)'
    BY <1>1, <1>6 DEF IInv, ControlOK, CallOK
  <2> QED
    BY <2>1, <2>2, <2>3 DEF ControlOK
<1> QED
  BY <1>1, <1>5, <1>7, <1>8, Frame DEF IInv

\* The entity of a pending signup is stored and the signup is not pending any more.
LEMMA EntityOK ==
  ASSUME IInv, NEW p \in Pending, NEW label \in Label \ {"user", "last", "entity"},
         label \notin Found, label \notin Storing, Goto(p, label), UNCHANGED <<users, tokens, mailed>>,
         NEW doc, doc.user = req[p].email,
         \/ /\ doc \in EmployeeDoc /\ req[p].op # "signupEmployer"
            /\ employees' = employees \cup {doc} /\ employers' = employers
         \/ /\ doc \in EmployerDoc /\ req[p].op = "signupEmployer"
            /\ employers' = employers \cup {doc} /\ employees' = employees
  PROVE  IInv'
<1> DEFINE e == req[p].email
<1>1. p \in Proc /\ pc[p] # "idle"
  BY DEF Pending
<1>2. e \in Email
  BY <1>1, EmailOK
<1>3. ControlOK'
  BY <1>1, GotoOK DEF IInv, UsersKept
<1>4. StoresOK'
  <2>1. \A x \in employees : x.externalId \in Nat
    BY DEF IInv, StoresOK, EmployeeDoc
  <2>2. ASSUME employees' # {}
        PROVE  \E x \in employees' : \A y \in employees' : y.externalId <= x.externalId
    <3>1. CASE employees' = employees
      BY <2>2, <3>1 DEF IInv, StoresOK
    <3>2. CASE employees' = employees \cup {doc} /\ doc \in EmployeeDoc
      <4>1. doc.externalId \in Nat
        BY <3>2 DEF EmployeeDoc
      <4>2. CASE employees = {}
        BY <3>2, <4>1, <4>2
      <4>3. CASE employees # {}
        <5>1. PICK x \in employees : \A y \in employees : y.externalId <= x.externalId
          BY <4>3 DEF IInv, StoresOK
        <5>2. CASE doc.externalId <= x.externalId
          BY <3>2, <5>1, <5>2
        <5>3. CASE ~(doc.externalId <= x.externalId)
          <6>1. \A y \in employees : y.externalId <= doc.externalId
            BY <2>1, <4>1, <5>1, <5>3
          <6> QED
            BY <3>2, <4>1, <6>1
        <5> QED
          BY <5>2, <5>3
      <4> QED
        BY <4>2, <4>3
    <3> QED
      BY <3>1, <3>2
  <2> QED
    BY <2>2 DEF IInv, StoresOK
<1>5. /\ users[e] # NoUser /\ users[e].role = RoleFor(req[p].op)
      /\ \A x \in employees : x.user # e
      /\ \A x \in employers : x.user # e
  BY DEF IInv, Owned, EmployeeOf, EmployerOf
<1>6. req' = req /\ Pending' = Pending \ {p}
  BY <1>1 DEF Goto, Pending, IInv, ControlOK
<1>7. \A q \in Pending \ {p} : req[q].email # e
  BY DEF IInv, Owned
<1>8. Owned'
  BY <1>6, <1>7 DEF IInv, Owned, EmployeeOf, EmployerOf
<1>9. OneEntityPerUser'
  <2>1. CASE /\ req[p].op # "signupEmployer"
             /\ employees' = employees \cup {doc} /\ employers' = employers
    <3>1. users[e].role = "employee"
      BY <1>5, <2>1 DEF RoleFor
    <3> QED
      BY <1>5, <2>1, <3>1 DEF IInv, OneEntityPerUser
  <2>2. CASE /\ req[p].op = "signupEmployer"
             /\ employers' = employers \cup {doc} /\ employees' = employees
    <3>1. users[e].role = "employer"
      BY <1>5, <2>2 DEF RoleFor
    <3> QED
      BY <1>5, <2>2, <3>1 DEF IInv, OneEntityPerUser
  <2> QED
    BY <2>1, <2>2
<1> QED
  BY <1>3, <1>4, <1>8, <1>9 DEF IInv

LEMMA CreateEmployeeOK ==
  ASSUME IInv, NEW p \in Proc, CreateEmployee(p)
  PROVE  IInv'
<1> DEFINE doc == [user |-> req[p].email, cpf |-> req[p].key, externalId |-> req[p].next]
           label == IF req[p].op = "social" THEN "find" ELSE "mail"
<1>1. /\ pc[p] = "entity" /\ req[p].op \in {"signupEmployee", "social"}
      /\ UNCHANGED <<users, employers, tokens, mailed>>
  BY DEF CreateEmployee, At
<1>2. \/ Fail(p) /\ UNCHANGED employees
      \/ employees' = employees \cup {doc} /\ Goto(p, label)
  BY DEF CreateEmployee
<1>3. CASE Fail(p) /\ UNCHANGED employees
  BY <1>1, <1>3, ReadOK DEF Moves, stores
<1>4. CASE employees' = employees \cup {doc} /\ Goto(p, label)
  <2>1. p \in Pending /\ doc \in EmployeeDoc /\ doc.user = req[p].email
    BY <1>1, EmailOK DEF Pending, EmployeeDoc, CallOK, Request
  <2>2. /\ label \in Label \ {"user", "last", "entity"}
        /\ label \notin Found /\ label \notin Storing
    BY DEF Label, Found, Storing
  <2> HIDE DEF doc, label
  <2> QED
    BY <1>1, <1>4, <2>1, <2>2, EntityOK
<1> QED
  BY <1>2, <1>3, <1>4

LEMMA CreateEmployerOK ==
  ASSUME IInv, NEW p \in Proc, CreateEmployer(p)
  PROVE  IInv'
<1> DEFINE doc == [user |-> req[p].email, cnpj |-> req[p].key,
                   slug |-> IF req[p].slug THEN req[p].key ELSE NoKey]
<1>1. /\ pc[p] = "entity" /\ req[p].op = "signupEmployer"
      /\ UNCHANGED <<users, employees, tokens, mailed>>
  BY DEF CreateEmployer, At
<1>2. \/ Fail(p) /\ UNCHANGED employers
      \/ employers' = employers \cup {doc} /\ Goto(p, "mail")
  BY DEF CreateEmployer
<1>3. CASE Fail(p) /\ UNCHANGED employers
  BY <1>1, <1>3, ReadOK DEF Moves, stores
<1>4. CASE employers' = employers \cup {doc} /\ Goto(p, "mail")
  <2>1. p \in Pending /\ doc \in EmployerDoc /\ doc.user = req[p].email
    BY <1>1, EmailOK DEF Pending, EmployerDoc, CallOK
  <2>2. /\ "mail" \in Label \ {"user", "last", "entity"}
        /\ "mail" \notin Found /\ "mail" \notin Storing
    BY DEF Label, Found, Storing
  <2> HIDE DEF doc
  <2> QED
    BY <1>1, <1>4, <2>1, <2>2, EntityOK
<1> QED
  BY <1>2, <1>3, <1>4

-----------------------------------------------------------------------------
(* The rest of Next *)

LEMMA ArriveOK ==
  ASSUME IInv, NEW r \in Req, Arrive(r)
  PROVE  IInv'
<1> DEFINE p == <<r, "http">>
<1>1. p \in Proc
  BY DEF Proc
<1>2. PICK op \in Ops, e \in Email :
        \E k \in Keys(op), t \in Presented(op, e),
           b \in IF op = "signupEmployer" THEN BOOLEAN ELSE {FALSE} :
          req' = [req EXCEPT ![p] = [op |-> op, email |-> e, key |-> k,
                                     slug |-> b, token |-> t, next |-> 0, issued |-> NoCode]]
  BY DEF Arrive
<1>3. PICK k \in Keys(op), t \in Presented(op, e),
           b \in IF op = "signupEmployer" THEN BOOLEAN ELSE {FALSE} :
        req' = [req EXCEPT ![p] = [op |-> op, email |-> e, key |-> k,
                                   slug |-> b, token |-> t, next |-> 0, issued |-> NoCode]]
  BY <1>2
<1> DEFINE call == [op |-> op, email |-> e, key |-> k, slug |-> b, token |-> t, next |-> 0,
                    issued |-> NoCode]
<1>4. /\ pc[p] = "idle" /\ pc' = [pc EXCEPT ![p] = "read"]
      /\ UNCHANGED <<users, employees, employers, tokens, mailed>>
  BY DEF Arrive, stores
<1>5. t \in Code \cup {Wrong, NoCode}
  <2>1. \A q \in Proc : pc[q] = "answered" => req[q].issued \in Code \cup {NoCode}
    BY DEF IInv, ControlOK, CallOK, Request
  <2> QED
    BY <2>1 DEF Presented, Code, IInv, StoresOK, Mail
<1>6. k \in Key \cup {NoKey} /\ (op = "signupEmployer" => k \in Key) /\ b \in BOOLEAN
  BY DEF Keys
<1>7. op \in Operations
  BY AccountsAssumption
<1>8. call \in Request /\ (call.op = "signupEmployer" => call.key \in Key)
  BY <1>5, <1>6, <1>7 DEF Request
<1>9. req' = [req EXCEPT ![p] = call]
  BY <1>3
<1> HIDE DEF p, call
<1>10. /\ req'[p] = call /\ pc'[p] = "read"
       /\ \A q \in Proc \ {p} : req'[q] = req[q] /\ pc'[q] = pc[q]
  BY <1>1, <1>4, <1>9 DEF IInv, ControlOK
<1>11. ControlOK'
  <2>1. pc' \in [Proc -> Label] /\ req' \in [Proc -> Request \cup {NoRequest}]
    BY <1>1, <1>4, <1>8, <1>9 DEF IInv, ControlOK, Label
  <2>2. CallOK(p)'
    BY <1>8, <1>10 DEF CallOK, Found, Storing
  <2>3. \A q \in Proc \ {p} : pc'[q] # "idle" => CallOK(q)'
    BY <1>4, <1>10 DEF IInv, ControlOK, CallOK
  <2> QED
    BY <2>1, <2>2, <2>3 DEF ControlOK
<1>12. PendingKept
  BY <1>10 DEF PendingKept, Pending
<1>13. StoresOK' /\ RolesKept
  BY <1>4 DEF IInv, StoresOK, RolesKept
<1> QED
  BY <1>4, <1>11, <1>12, <1>13, Frame DEF IInv

LEMMA ExitOK ==
  ASSUME IInv, ProcessExit
  PROVE  IInv'
<1>1. /\ pc' = [p \in Proc |-> IF p \in Active THEN "failed" ELSE pc[p]] /\ req' = req
      /\ UNCHANGED <<users, employees, employers, tokens, mailed>>
  BY DEF ProcessExit, stores
<1>2. Active \in SUBSET Proc /\ \A p \in Active : pc[p] # "idle"
  BY DEF Active
<1>3. StoresOK' /\ RolesKept /\ UsersKept
  BY <1>1 DEF IInv, StoresOK, RolesKept, UsersKept
<1>4. ControlOK'
  BY <1>1, <1>2, <1>3, EndOK DEF IInv
<1>5. PendingKept
  BY <1>1 DEF PendingKept, Pending
<1> QED
  BY <1>1, <1>3, <1>4, <1>5, Frame DEF IInv

LEMMA ExpireOK ==
  ASSUME IInv, NEW e \in Email, Expire(e)
  PROVE  IInv'
<1>1. /\ users[e] # NoUser
      /\ UNCHANGED <<employees, employers, tokens, mailed, pc, req>>
  BY DEF Expire
<1>2. users[e] \in User
  BY <1>1 DEF IInv, StoresOK
<1>3. PICK u \in User : users' = [users EXCEPT ![e] = u] /\ u.role = users[e].role
  <2>1. CASE users[e].codeAge \in {"valid", "expired"}
             /\ users' = [users EXCEPT ![e].codeAge = IF @ = "valid" THEN "expired" ELSE "old"]
    <3> DEFINE age == IF users[e].codeAge = "valid" THEN "expired" ELSE "old"
    <3>1. age \in Age
      BY DEF Age
    <3>2. users' = [users EXCEPT ![e] = [users[e] EXCEPT !.codeAge = age]]
      BY <2>1
    <3> HIDE DEF age
    <3>3. [users[e] EXCEPT !.codeAge = age] \in User
          /\ [users[e] EXCEPT !.codeAge = age].role = users[e].role
      BY <1>2, <3>1 DEF User
    <3> QED
      BY <3>2, <3>3
  <2>2. CASE users' = [users EXCEPT ![e].resetAge = "expired"]
    <3>1. [users[e] EXCEPT !.resetAge = "expired"] \in User
          /\ [users[e] EXCEPT !.resetAge = "expired"].role = users[e].role
      BY <1>2 DEF User, Age
    <3>2. users' = [users EXCEPT ![e] = [users[e] EXCEPT !.resetAge = "expired"]]
      BY <2>2
    <3> QED
      BY <3>1, <3>2
  <2> QED
    BY <2>1, <2>2 DEF Expire
<1>4. RolesKept /\ StoresOK'
  BY <1>1, <1>3, NoUserAssumption DEF RolesKept, IInv, StoresOK
<1>5. ControlOK'
  <2>1. \A p \in Proc : pc[p] # "idle" => req[p].email \in Email
    BY DEF IInv, ControlOK, CallOK, Request
  <2> QED
    BY <1>1, <1>4, <2>1 DEF IInv, ControlOK, CallOK, RolesKept
<1>6. PendingKept
  BY <1>1 DEF PendingKept, Pending
<1> QED
  BY <1>1, <1>4, <1>5, <1>6, Frame DEF IInv

\* A token is signed: the call knows it from here on.
LEMMA SignOK ==
  ASSUME IInv, RecentOK, NEW p \in Proc, Sign(p)
  PROVE  IInv' /\ RecentOK'
<1> DEFINE e == req[p].email
           token == IF recent[e] = NoCode THEN p ELSE recent[e]
           call == [req[p] EXCEPT !.issued = token]
<1>1. /\ pc[p] = "sign" /\ UNCHANGED <<users, employees, employers, tokens, mailed>>
      /\ pc' = [pc EXCEPT ![p] = "rotate"] /\ req' = [req EXCEPT ![p] = call]
      /\ recent' = [recent EXCEPT ![e] = token]
  BY DEF Sign, stores
<1>2. CallOK(p) /\ e \in Email
  BY <1>1, EmailOK
<1>3. token \in Code
  BY <1>2 DEF RecentOK, Code
<1>4. RecentOK'
  BY <1>1, <1>2, <1>3 DEF RecentOK
<1> HIDE DEF token
<1>5. /\ call \in Request /\ call.op = req[p].op /\ call.email = req[p].email
      /\ call.key = req[p].key /\ call.issued = token
  BY <1>2, <1>3 DEF CallOK, Request
<1> HIDE DEF call
<1>6. /\ req'[p] = call /\ pc'[p] = "rotate"
      /\ \A q \in Proc \ {p} : req'[q] = req[q] /\ pc'[q] = pc[q]
  BY <1>1 DEF IInv, ControlOK
<1>7. ControlOK'
  <2>1. pc' \in [Proc -> Label] /\ req' \in [Proc -> Request \cup {NoRequest}]
    BY <1>1, <1>5 DEF IInv, ControlOK, Label
  <2>2. CallOK(p)'
    BY <1>2, <1>3, <1>5, <1>6 DEF CallOK, Found
  <2>3. \A q \in Proc \ {p} : pc'[q] # "idle" => CallOK(q)'
    BY <1>1, <1>6 DEF IInv, ControlOK, CallOK
  <2> QED
    BY <2>1, <2>2, <2>3 DEF ControlOK
<1>8. PendingKept
  BY <1>6 DEF PendingKept, Pending
<1>9. StoresOK' /\ RolesKept
  BY <1>1 DEF IInv, StoresOK, RolesKept
<1> QED
  BY <1>1, <1>4, <1>7, <1>8, <1>9, Frame DEF IInv

LEMMA SecondOK ==
  ASSUME IInv, RecentOK, NewSecond
  PROVE  IInv' /\ RecentOK'
<1>1. /\ UNCHANGED <<users, employees, employers, tokens, mailed, pc, req>>
      /\ recent' = [e \in Email |-> NoCode]
  BY DEF NewSecond, stores
<1>2. RolesKept /\ PendingKept
  BY <1>1 DEF RolesKept, PendingKept, Pending
<1>3. StoresOK' /\ ControlOK'
  BY <1>1 DEF IInv, StoresOK, ControlOK, CallOK
<1>4. RecentOK'
  BY <1>1 DEF RecentOK
<1> QED
  BY <1>1, <1>2, <1>3, <1>4, Frame DEF IInv

LEMMA ProgressOK ==
  ASSUME IInv, NEW p \in Proc, Progress(p)
  PROVE  IInv'
BY ReadersOK, UserWritesOK, MailsAndTokensOK, CreateUserOK, LastEmployeeOK,
   CreateEmployeeOK, CreateEmployerOK DEF Progress

LEMMA NextOK == IInv /\ RecentOK /\ [Next]_vars => IInv' /\ RecentOK'
<1> SUFFICES ASSUME IInv, RecentOK, [Next]_vars PROVE IInv' /\ RecentOK'
  OBVIOUS
<1>1. CASE SignsNothing /\ UNCHANGED recent
  <2>1. ASSUME NEW r \in Req, Arrive(r) PROVE IInv'
    BY <2>1, ArriveOK
  <2>2. ASSUME NEW p \in Proc, Progress(p) PROVE IInv'
    BY <2>2, ProgressOK
  <2>3. ASSUME NEW p \in Proc, CallFails(p) PROVE IInv'
    <3>1. pc[p] # "idle" /\ Moves(p) /\ UNCHANGED stores
      BY <2>3 DEF CallFails, Active, Moves
    <3> QED
      BY <3>1, ReadOK
  <2>4. ASSUME ProcessExit PROVE IInv'
    BY <2>4, ExitOK
  <2>5. ASSUME NEW e \in Email, Expire(e) PROVE IInv'
    BY <2>5, ExpireOK
  <2>6. RecentOK'
    BY <1>1 DEF RecentOK
  <2> QED
    BY <1>1, <2>1, <2>2, <2>3, <2>4, <2>5, <2>6 DEF SignsNothing
<1>2. ASSUME NEW p \in Proc, Sign(p) PROVE IInv' /\ RecentOK'
  BY <1>2, SignOK
<1>3. CASE NewSecond
  BY <1>3, SecondOK
<1>4. CASE UNCHANGED vars
  <2>1. RolesKept /\ PendingKept /\ UNCHANGED <<employees, employers>>
    BY <1>4 DEF vars, RolesKept, PendingKept, Pending
  <2>2. StoresOK' /\ ControlOK' /\ RecentOK'
    BY <1>4 DEF vars, IInv, StoresOK, ControlOK, CallOK, RecentOK
  <2> QED
    BY <2>1, <2>2, Frame DEF IInv
<1> QED
  BY <1>1, <1>2, <1>3, <1>4 DEF Next

-----------------------------------------------------------------------------
LEMMA InitOK == Init => IInv /\ RecentOK
<1> SUFFICES ASSUME Init PROVE IInv /\ RecentOK
  OBVIOUS
<1>1. PICK s \in [Email -> {"free", "half", "waiting", "confirmed"}] :
        /\ users = [e \in Email |-> StartUser(s[e], "employee")]
        /\ employees = {[user |-> e, cpf |-> NoKey, externalId |-> 0] :
                          e \in {x \in Email : s[x] \in {"waiting", "confirmed"}}}
        /\ tokens \in [Email -> {<<>>, <<Earlier>>}]
        /\ mailed = {[email |-> e, kind |-> "reset", code |-> Earlier] :
                       e \in {x \in Email : s[x] = "confirmed"}}
                    \cup {[email |-> e, kind |-> "confirm", code |-> Earlier] :
                            e \in {x \in Email : s[x] = "waiting"}}
  BY DEF Init
<1>2. /\ employers = {} /\ pc = [p \in Proc |-> "idle"]
      /\ req = [p \in Proc |-> NoRequest]
  BY DEF Init
<1>3. ASSUME NEW e \in Email
      PROVE  /\ StartUser(s[e], "employee") \in User \cup {NoUser}
             /\ s[e] \in {"waiting", "confirmed"} =>
                  /\ StartUser(s[e], "employee") \in User
                  /\ StartUser(s[e], "employee").role = "employee"
  BY DEF StartUser, User, Code, Age
<1>4. StoresOK
  <2>1. employees \subseteq EmployeeDoc /\ \A x \in employees : x.externalId = 0
    BY <1>1 DEF EmployeeDoc
  <2>2. mailed \subseteq Mail
    BY <1>1 DEF Mail, Code
  <2>3. tokens \in [Email -> Seq(Code)]
    <3>1. <<>> \in Seq(Code) /\ <<Earlier>> \in Seq(Code)
      BY DEF Code
    <3> QED
      BY <1>1, <3>1
  <2> QED
    BY <1>1, <1>2, <1>3, <2>1, <2>2, <2>3 DEF StoresOK
<1>5. ControlOK
  BY <1>2 DEF ControlOK, Label
<1>6. Owned
  BY <1>2 DEF Owned, Pending
<1>7. OneEntityPerUser
  BY <1>1, <1>2, <1>3, NoUserAssumption DEF OneEntityPerUser
<1>8. RecentOK
  BY DEF Init, RecentOK, Code
<1> QED
  BY <1>4, <1>5, <1>6, <1>7, <1>8 DEF IInv

LEMMA Invariance == Spec => [](IInv /\ RecentOK)
BY InitOK, NextOK, PTL DEF Spec

-----------------------------------------------------------------------------
\* Every variable of the accounts keeps its type; in particular nobody writes into a
\* user that does not exist, and an externalId is a number.
THEOREM TypeCorrect == Spec => []TypeOK
<1>1. IInv /\ RecentOK => TypeOK
  <2> SUFFICES ASSUME IInv, RecentOK PROVE TypeOK
    OBVIOUS
  <2>1. ASSUME NEW p \in Proc, pc[p] # "idle", req[p] = NoRequest PROVE FALSE
    <3>1. NoRequest \in Request
      BY <2>1 DEF IInv, ControlOK, CallOK
    <3>2. \A q \in Request : "op" \in DOMAIN q
      BY DEF Request
    <3>3. DOMAIN NoRequest = {}
      BY DEF NoRequest
    <3> QED
      BY <3>1, <3>2, <3>3
  <2> QED
    BY <2>1 DEF IInv, StoresOK, ControlOK, RecentOK, TypeOK
<1> QED
  BY <1>1, Invariance, PTL

\* However signups of one email, with their checks before two separate writes, race
\* with each other and are cut short, a user never gets a second entity, nor one of
\* the other role.
THEOREM OnlyEntity == Spec => []OneEntityPerUser
<1>1. IInv => OneEntityPerUser
  BY DEF IInv
<1> QED
  BY <1>1, Invariance, PTL


-----------------------------------------------------------------------------
(* What is answered.  At which awaits a call may stand, what it has done by *)
(* then, and where its code or token comes from.  Users, entities and rows *)
(* of tokens stay, so a call keeps what it had found or stored.            *)

\* The call op for e is served up to label.
Serves(op, e, label) ==
  /\ label \in {"sign", "rotate"} => op \in Sessions
  /\ label = "insert" => op \in {"login", "social"}
  /\ label = "name" => op \in {"forgot", "reset", "resend"}
  /\ label = "forgot" => op = "reset" /\ users[e] # NoUser
  /\ op = "signupEmployee" /\ label \in {"mail", "answered"} => EmployeeOf(e)
  /\ op = "signupEmployer" /\ label \in {"mail", "answered"} => EmployerOf(e)
  /\ op = "social" /\ label \in {"link", "find"} =>
       users[e] # NoUser /\ users[e].role = "employee"
  /\ op = "social" /\ label \in {"sign", "rotate", "insert", "answered"} => EmployeeOf(e)
  /\ op = "refresh" /\ label \in {"sign", "rotate"} => tokens[e] # <<>>
  /\ op = "reset" /\ label = "answered" => users[e] # NoUser

\* Where a process stands that has not stored a code yet.
Unsent == {"idle", "read", "forgot"}

\* A code that a client may have, and a refresh token that it may have.
Sent(t) == t \in {Wrong, Earlier} \/ (t \in Proc /\ pc[t] \notin Unsent)

\* The token is named for another call, and was the answer of an awaited one.
Again(e, t) ==
  \E q \in Proc \ {t} : /\ q[2] = "http" /\ Answered(q, Sessions)
                        /\ req[q].email = e /\ req[q].issued = t

Given(e, t) ==
  \/ t = Earlier
  \/ t \in Proc /\ t[2] = "http" /\ pc[t] = "answered"
  \/ Again(e, t)

CallServed(p) ==
  /\ p[2] = "resend" => req[p].op = "resend"
  /\ Serves(req[p].op, req[p].email, pc[p])
  /\ req[p].op = "refresh" => Given(req[p].email, req[p].token)
  /\ req[p].op \in {"reset", "confirm"} => Sent(req[p].token)

Serving ==
  /\ \A p \in Proc : pc[p] # "idle" => CallServed(p)
  /\ \A m \in mailed : Sent(m.code)

\* A password code that was used is not the one that is stored.
UsedCodeGone ==
  \A p \in Proc : Answered(p, {"reset"}) => users[req[p].email].reset # req[p].token

\* ExchangedTokenDead, by a call that nobody starts again.
TokenDead ==
  \A p \in Proc : /\ Answered(p, {"refresh"})
                  /\ Accepts(req[p].email, req[p].token)
                  => Again(req[p].email, req[p].token)

AInv == IInv /\ RecentOK /\ Serving /\ UsedCodeGone /\ TokenDead

-----------------------------------------------------------------------------
(* What a step changes *)

\* The fields of a stored user that a step may change, and how.
LEMMA UserChanges ==
  ASSUME IInv, [Next]_vars, NEW e \in Email, users[e] # NoUser
  PROVE  /\ users'[e] # NoUser
         /\ users'[e].role = users[e].role
         /\ users[e].confirmed => users'[e].confirmed
         /\ \/ users'[e].reset \in {users[e].reset, NoCode}
            \/ \E p \in Proc : users'[e].reset = p /\ pc[p] \in Unsent
<1> DEFINE Goal == /\ users'[e] # NoUser
                   /\ users'[e].role = users[e].role
                   /\ users[e].confirmed => users'[e].confirmed
                   /\ \/ users'[e].reset \in {users[e].reset, NoCode}
                      \/ \E p \in Proc : users'[e].reset = p /\ pc[p] \in Unsent
<1>0. users \in [Email -> User \cup {NoUser}] /\ users[e] \in User
  BY DEF IInv, StoresOK
<1>1. CASE UNCHANGED users
  BY <1>1
<1>2. ASSUME NEW p \in Proc, CreateUser(p) PROVE Goal
  <2>1. users'[e] = users[e]
    BY <1>0, <1>2 DEF CreateUser
  <2> QED
    BY <2>1
<1>3. ASSUME NEW c \in Email, Expire(c) PROVE Goal
  <2>1. users[c] \in User
    BY <1>0, <1>3 DEF Expire
  <2>2. PICK u : /\ users' = [users EXCEPT ![c] = u] /\ u \in User
                 /\ u.confirmed = users[c].confirmed
                 /\ u.role = users[c].role /\ u.reset = users[c].reset
    <3>1. CASE users[c].codeAge \in {"valid", "expired"}
               /\ users' = [users EXCEPT ![c].codeAge = IF @ = "valid" THEN "expired" ELSE "old"]
      <4> DEFINE age == IF users[c].codeAge = "valid" THEN "expired" ELSE "old"
                 v == [users[c] EXCEPT !.codeAge = age]
      <4>1. age \in Age /\ users' = [users EXCEPT ![c] = v]
        BY <3>1 DEF Age
      <4> HIDE DEF age
      <4>2. /\ v \in User /\ v.confirmed = users[c].confirmed
            /\ v.role = users[c].role /\ v.reset = users[c].reset
        BY <2>1, <4>1 DEF User
      <4> QED
        BY <4>1, <4>2
    <3>2. CASE users' = [users EXCEPT ![c].resetAge = "expired"]
      <4> DEFINE v == [users[c] EXCEPT !.resetAge = "expired"]
      <4>1. /\ v \in User /\ v.confirmed = users[c].confirmed
            /\ v.role = users[c].role /\ v.reset = users[c].reset
        BY <2>1 DEF User, Age
      <4>2. users' = [users EXCEPT ![c] = v]
        BY <3>2
      <4> QED
        BY <4>1, <4>2
    <3> QED
      BY <1>3, <3>1, <3>2 DEF Expire
  <2>3. CASE c = e
    <3>1. users'[e] = u
      BY <1>0, <2>2, <2>3
    <3> QED
      BY <2>2, <2>3, <3>1, NoUserAssumption
  <2>4. CASE c # e
    <3>1. users'[e] = users[e]
      BY <1>0, <2>2, <2>4
    <3> QED
      BY <3>1
  <2> QED
    BY <2>3, <2>4
<1>4. ASSUME NEW p \in Proc, SocialLink(p) \/ Forgot(p) \/ ResetWrite(p) \/ StoreCode(p)
                             \/ ConfirmWrite(p)
      PROVE  Goal
  <2>1. req[p].email \in Email
    <3>1. pc[p] # "idle"
      BY <1>4 DEF SocialLink, Forgot, ResetWrite, ConfirmWrite, StoreCode, At
    <3> QED
      BY <3>1, EmailOK
  <2>2. CASE req[p].email # e
    <3>1. users'[e] = users[e]
      BY <1>0, <1>4, <2>1, <2>2 DEF SocialLink, Forgot, ResetWrite, ConfirmWrite, StoreCode
    <3> QED
      BY <3>1
  <2>3. CASE req[p].email = e
    <3>1. CASE SocialLink(p)
      <4>1. users' = [users EXCEPT ![e] = [users[e] EXCEPT !.social = TRUE]]
        BY <2>3, <3>1 DEF SocialLink
      <4> DEFINE v == [users[e] EXCEPT !.social = TRUE]
      <4>2. /\ v \in User /\ v.role = users[e].role /\ v.confirmed = users[e].confirmed
            /\ v.reset = users[e].reset
        BY <1>0 DEF User
      <4>3. users'[e] = v
        BY <1>0, <4>1
      <4> QED
        BY <4>2, <4>3, NoUserAssumption
    <3>2. CASE Forgot(p)
      <4>1. users' = [users EXCEPT ![e] = [users[e] EXCEPT !.reset = p, !.resetAge = "valid"]]
        BY <2>3, <3>2 DEF Forgot
      <4> DEFINE v == [users[e] EXCEPT !.reset = p, !.resetAge = "valid"]
      <4>2. /\ v \in User /\ v.role = users[e].role /\ v.confirmed = users[e].confirmed
            /\ v.reset = p
        BY <1>0 DEF User, Code, Age
      <4>3. users'[e] = v
        BY <1>0, <4>1
      <4>4. pc[p] \in Unsent
        BY <3>2 DEF Forgot, At, Unsent
      <4> QED
        BY <4>2, <4>3, <4>4, NoUserAssumption
    <3>3. CASE ResetWrite(p)
      <4>1. users' = [users EXCEPT ![e] = [users[e] EXCEPT !.password = TRUE,
                                             !.reset = NoCode, !.resetAge = "none"]]
        BY <2>3, <3>3 DEF ResetWrite
      <4> DEFINE v == [users[e] EXCEPT !.password = TRUE, !.reset = NoCode, !.resetAge = "none"]
      <4>2. /\ v \in User /\ v.role = users[e].role /\ v.confirmed = users[e].confirmed
            /\ v.reset = NoCode
        BY <1>0 DEF User, Age
      <4>3. users'[e] = v
        BY <1>0, <4>1
      <4> QED
        BY <4>2, <4>3, NoUserAssumption
    <3>4. CASE StoreCode(p)
      <4>1. users' = [users EXCEPT ![e] = [users[e] EXCEPT !.code = p, !.codeAge = "valid"]]
        BY <2>3, <3>4 DEF StoreCode
      <4> DEFINE v == [users[e] EXCEPT !.code = p, !.codeAge = "valid"]
      <4>2. /\ v \in User /\ v.role = users[e].role /\ v.confirmed = users[e].confirmed
            /\ v.reset = users[e].reset
        BY <1>0 DEF User, Age, Code
      <4>3. users'[e] = v
        BY <1>0, <4>1
      <4> QED
        BY <4>2, <4>3, NoUserAssumption
    <3>5. CASE ConfirmWrite(p)
      <4>1. users' = [users EXCEPT ![e] = [users[e] EXCEPT !.confirmed = TRUE,
                                             !.code = NoCode, !.codeAge = "none"]]
        BY <2>3, <3>5 DEF ConfirmWrite
      <4> DEFINE v == [users[e] EXCEPT !.confirmed = TRUE, !.code = NoCode, !.codeAge = "none"]
      <4>2. /\ v \in User /\ v.role = users[e].role /\ v.confirmed
            /\ v.reset = users[e].reset
        BY <1>0 DEF User, Age
      <4>3. users'[e] = v
        BY <1>0, <4>1
      <4> QED
        BY <4>2, <4>3, NoUserAssumption
    <3> QED
      BY <1>4, <3>1, <3>2, <3>3, <3>4, <3>5
  <2> QED
    BY <2>2, <2>3
<1> QED
  BY <1>1, <1>2, <1>3, <1>4
     DEF Next, SignsNothing, Sign, NewSecond, Progress, CallFails, ProcessExit, Arrive,
         stores, vars, CheckEmployee, CheckEmployer, LastEmployee, CreateEmployee, CreateEmployer, SendConfirmation,
         LoginRead, SocialRead, FindEntity, RefreshRead, Rotate, InsertToken, FindName,
         SendResetCode, ResetRead, ConfirmRead, ResendRead

\* The call of p is answered with the token that it has made the first of user e.
Handed(p, e) ==
  /\ p \in Active /\ pc[p] \in Storing /\ pc'[p] = "answered" /\ req'[p] = req[p]
  /\ req[p].email = e /\ Head(tokens'[e]) = req[p].issued /\ tokens'[e] # <<>>

\* A list of tokens keeps its head or gets one that a process still at work signed.
LEMMA TokenChanges ==
  ASSUME IInv, [Next]_vars, NEW e \in Email
  PROVE  \/ tokens'[e] = tokens[e]
         \/ tokens[e] # <<>> /\ tokens'[e] # <<>> /\ Head(tokens'[e]) = Head(tokens[e])
         \/ \E p \in Proc : Handed(p, e)
<1> DEFINE Goal == \/ tokens'[e] = tokens[e]
                   \/ tokens[e] # <<>> /\ tokens'[e] # <<>> /\ Head(tokens'[e]) = Head(tokens[e])
                   \/ \E p \in Proc : Handed(p, e)
<1>1. tokens \in [Email -> Seq(Code)] /\ ControlOK
  BY DEF IInv, StoresOK
<1>2. ASSUME NEW p \in Proc, Rotate(p) PROVE Goal
  <2> DEFINE t == req[p].issued
             s == [tokens[e] EXCEPT ![1] = t]
  <2>1. p \in Active /\ pc[p] \in Storing /\ t \in Code
    BY <1>2, EmailOK DEF Rotate, Active, Storing, CallOK
  <2>2. CASE tokens'[e] # tokens[e]
    <3>1. /\ tokens[e] # <<>> /\ tokens'[e] = s /\ req[p].email = e
          /\ Goto(p, "answered")
      BY <1>1, <1>2, <2>2 DEF Rotate
    <3>2. tokens[e] \in Seq(Code) /\ 1 \in 1..Len(tokens[e])
      BY <1>1, <3>1, EmptySeq, LenProperties
    <3>3. s \in Seq(Code) /\ Len(s) = Len(tokens[e]) /\ s[1] = t
      BY <2>1, <3>2, ExceptSeq
    <3>4. s # <<>> /\ Head(s) = t
      BY <3>2, <3>3
    <3>5. pc'[p] = "answered" /\ req'[p] = req[p]
      BY <1>1, <3>1 DEF Goto, ControlOK
    <3> HIDE DEF s
    <3>6. Handed(p, e)
      BY <2>1, <3>1, <3>4, <3>5 DEF Handed
    <3> QED
      BY <3>6
  <2> QED
    BY <2>2
<1>3. ASSUME NEW p \in Proc, InsertToken(p) PROVE Goal
  <2> DEFINE t == req[p].issued
             s == Append(tokens[e], t)
  <2>1. p \in Active /\ pc[p] \in Storing /\ t \in Code
    BY <1>3, EmailOK DEF InsertToken, Active, Storing, CallOK
  <2>2. CASE tokens'[e] # tokens[e]
    <3>1. tokens'[e] = s /\ req[p].email = e /\ Goto(p, "answered")
      BY <1>1, <1>3, <2>2 DEF InsertToken
    <3>2. /\ tokens[e] \in Seq(Code) /\ s \in Seq(Code) /\ Len(s) = Len(tokens[e]) + 1
          /\ s[Len(tokens[e]) + 1] = t
          /\ \A i \in 1..Len(tokens[e]) : s[i] = tokens[e][i]
      BY <1>1, <2>1, AppendProperties
    <3>3. s # <<>> /\ Head(s) = s[1]
      BY <3>2
    <3>4. CASE tokens[e] = <<>>
      <4>1. Len(tokens[e]) = 0 /\ Head(s) = t
        BY <3>2, <3>3, <3>4
      <4>2. pc'[p] = "answered" /\ req'[p] = req[p]
        BY <1>1, <3>1 DEF Goto, ControlOK
      <4> HIDE DEF s
      <4>3. Handed(p, e)
        BY <2>1, <3>1, <3>3, <4>1, <4>2 DEF Handed
      <4> QED
        BY <4>3
    <3>5. CASE tokens[e] # <<>>
      <4>1. 1 \in 1..Len(tokens[e]) /\ Head(tokens[e]) = tokens[e][1]
        BY <3>2, <3>5
      <4> QED
        BY <3>1, <3>2, <3>3, <3>5, <4>1
    <3> QED
      BY <3>4, <3>5
  <2> QED
    BY <2>2
<1>4. CASE UNCHANGED tokens
  BY <1>4
<1> QED
  BY <1>2, <1>3, <1>4
     DEF Next, SignsNothing, Sign, NewSecond, Progress, CallFails, ProcessExit, Arrive,
         Expire, stores, vars, CheckEmployee, CheckEmployer, CreateUser, LastEmployee,
         CreateEmployee, CreateEmployer, SendConfirmation, LoginRead, SocialRead,
         SocialLink, FindEntity, RefreshRead, Forgot, FindName, SendResetCode, ResetRead,
         ResetWrite, ConfirmRead, ConfirmWrite, ResendRead, StoreCode

\* Users, entities and sessions are never taken away.
Grows ==
  /\ RolesKept
  /\ employees \subseteq employees' /\ employers \subseteq employers'
  /\ \A e \in Email : tokens[e] # <<>> => tokens'[e] # <<>>

LEMMA StepGrows ==
  ASSUME IInv, [Next]_vars
  PROVE  Grows
<1>1. RolesKept
  BY UserChanges DEF RolesKept
<1>2. employees \subseteq employees' /\ employers \subseteq employers'
  <2>1. ASSUME NEW p \in Proc, CreateEmployee(p) \/ CreateEmployer(p)
        PROVE  employees \subseteq employees' /\ employers \subseteq employers'
    BY <2>1 DEF CreateEmployee, CreateEmployer
  <2>2. CASE UNCHANGED <<employees, employers>>
    BY <2>2
  <2> QED
    BY <2>1, <2>2
       DEF Next, SignsNothing, Sign, NewSecond, Progress, CallFails, ProcessExit, Arrive,
           Expire, stores, vars, CheckEmployee, CheckEmployer, CreateUser, LastEmployee,
           SendConfirmation, LoginRead, SocialRead, SocialLink, FindEntity, RefreshRead, Rotate, InsertToken, Forgot, FindName,
           SendResetCode, ResetRead, ResetWrite, ConfirmRead, ConfirmWrite, ResendRead, StoreCode
<1>3. ASSUME NEW e \in Email, tokens[e] # <<>> PROVE tokens'[e] # <<>>
  BY <1>3, TokenChanges DEF Handed
<1> QED
  BY <1>1, <1>2, <1>3 DEF Grows

\* What has been answered stays so, and what has been sent.
PastKept ==
  \A q \in Proc : /\ q[2] = "http" /\ pc[q] = "answered" =>
                       pc'[q] = "answered" /\ req'[q] = req[q]
                  /\ pc[q] \notin Unsent => pc'[q] \notin Unsent

LEMMA GivenStays ==
  ASSUME PastKept, NEW e, NEW t
  PROVE  /\ Again(e, t) => Again(e, t)'
         /\ Given(e, t) => Given(e, t)'
BY DEF PastKept, Given, Again, Answered

SameCall(q) ==
  /\ req'[q].op = req[q].op /\ req'[q].email = req[q].email /\ req'[q].token = req[q].token

LEMMA StillServed ==
  ASSUME IInv, Grows, PastKept, NEW q \in Proc, pc[q] # "idle", CallServed(q), SameCall(q),
         pc'[q] \in {pc[q], "failed"}
  PROVE  CallServed(q)'
<1> DEFINE e == req[q].email
           op == req[q].op
<1>1. e \in Email
  BY EmailOK
<1>2. /\ EmployeeOf(e) => \E x \in employees' : x.user = e
      /\ EmployerOf(e) => \E x \in employers' : x.user = e
      /\ users[e] # NoUser => users'[e] # NoUser /\ users'[e].role = users[e].role
      /\ tokens[e] # <<>> => tokens'[e] # <<>>
  BY <1>1 DEF Grows, RolesKept, EmployeeOf, EmployerOf
<1>3. Serves(req[q].op, req[q].email, pc[q])'
  <2>1. CASE pc'[q] = "failed"
    BY <2>1 DEF Serves
  <2>2. CASE pc'[q] = pc[q]
    BY <1>2, <2>2 DEF Serves, CallServed, SameCall, EmployeeOf, EmployerOf
  <2> QED
    BY <2>1, <2>2
<1>4. /\ req'[q].op = "refresh" => Given(req[q].email, req[q].token)'
      /\ req'[q].op \in {"reset", "confirm"} => Sent(req[q].token)'
  BY GivenStays DEF PastKept, Sent, CallServed, SameCall
<1> QED
  BY <1>3, <1>4 DEF CallServed, SameCall

\* What a step of p does to the other processes: a failure of a background chain
\* ends them, and p may start its own resend.
Others(p) ==
  \A q \in Proc \ {p} :
    \/ req'[q] = req[q] /\ (pc'[q] = pc[q] \/ (q \in Active /\ pc'[q] = "failed"))
    \/ q[2] = "resend" /\ pc'[q] = "name" /\ req'[q].op = "resend"

LEMMA StillServing ==
  ASSUME IInv, Serving, Grows, NEW p \in Active, Others(p), SameCall(p),
         pc'[p] \notin {"idle", "read"}, pc'[p] = "forgot" => pc[p] = "read",
         Serves(req[p].op, req[p].email, pc[p])',
         \A m \in mailed' \ mailed : m.code = p /\ pc'[p] # "forgot"
  PROVE  Serving'
<1>0. p \in Proc /\ pc[p] \notin {"idle", "answered", "failed"}
  BY DEF Active
<1>1. PastKept
  <2>1. ASSUME NEW q \in Proc
        PROVE  /\ q[2] = "http" /\ pc[q] = "answered" =>
                    pc'[q] = "answered" /\ req'[q] = req[q]
               /\ pc[q] \notin Unsent => pc'[q] \notin Unsent
    <3>1. CASE q = p
      BY <1>0, <3>1 DEF Unsent
    <3>2. CASE q # p
      BY <3>2 DEF Others, Unsent, Active
    <3> QED
      BY <3>1, <3>2
  <2> QED
    BY <2>1 DEF PastKept
<1>2. ASSUME NEW q \in Proc, pc'[q] # "idle" PROVE CallServed(q)'
  <2>1. CASE q = p
    <3>1. CallServed(p)
      BY <1>0 DEF Serving
    <3>2. /\ req'[p].op = "refresh" => Given(req[p].email, req[p].token)'
          /\ req'[p].op \in {"reset", "confirm"} => Sent(req[p].token)'
      BY <1>0, <1>1, <3>1, GivenStays DEF PastKept, Sent, CallServed, SameCall
    <3> QED
      BY <2>1, <3>1, <3>2 DEF CallServed, SameCall
  <2>2. CASE q # p /\ q[2] = "resend" /\ pc'[q] = "name" /\ req'[q].op = "resend"
    BY <2>2 DEF CallServed, Serves
  <2>3. CASE /\ q # p /\ req'[q] = req[q]
             /\ (pc'[q] = pc[q] \/ (q \in Active /\ pc'[q] = "failed"))
    <3>1. pc[q] # "idle" /\ SameCall(q)
      BY <1>2, <2>3 DEF Active, SameCall
    <3> QED
      BY <1>1, <2>3, <3>1, StillServed DEF Serving
  <2> QED
    BY <2>1, <2>2, <2>3 DEF Others
<1>3. ASSUME NEW m \in mailed' PROVE Sent(m.code)'
  <2>1. CASE m \in mailed
    BY <1>1, <2>1 DEF Serving, PastKept, Sent
  <2>2. CASE m \notin mailed
    BY <1>0, <1>3, <2>2 DEF Sent, Unsent
  <2> QED
    BY <2>1, <2>2
<1> QED
  BY <1>2, <1>3 DEF Serving

LEMMA GotoOthers ==
  ASSUME ControlOK, NEW p \in Proc, NEW label, Goto(p, label)
  PROVE  Others(p) /\ SameCall(p) /\ pc'[p] = label /\ req'[p] = req[p]
BY DEF ControlOK, Goto, Others, SameCall

LEMMA FailOthers ==
  ASSUME ControlOK, NEW p \in Active, Fail(p)
  PROVE  Others(p) /\ SameCall(p) /\ pc'[p] = "failed" /\ req'[p] = req[p]
<1> DEFINE P == IF p[2] = "resend" THEN Active ELSE {p}
<1>1. req' = req /\ pc' = [q \in Proc |-> IF q \in P THEN "failed" ELSE pc[q]]
  BY DEF Fail
<1>2. p \in P /\ \A q \in P : q \in Active
  OBVIOUS
<1>3. p \in Proc
  BY DEF Active
<1> HIDE DEF P
<1> QED
  BY <1>1, <1>2, <1>3 DEF Others, SameCall

LEMMA ResendOthers ==
  ASSUME ControlOK, NEW p \in Active, p[2] # "resend", FailAndResend(p)
  PROVE  Others(p) /\ SameCall(p) /\ pc'[p] = "failed" /\ req'[p] = req[p]
<1> DEFINE bg == <<p[1], "resend">>
           call == [req[p] EXCEPT !.op = "resend"]
<1>1. pc' = [pc EXCEPT ![p] = "failed", ![bg] = "name"] /\ req' = [req EXCEPT ![bg] = call]
  BY DEF FailAndResend
<1>2. p \in Proc /\ bg \in Proc /\ bg # p /\ bg[2] = "resend"
  BY DEF Active, Proc
<1>3. req[p] \in Request
  BY <1>2 DEF ControlOK, Active, CallOK
<1>4. call.op = "resend"
  BY <1>3 DEF Request
<1> HIDE DEF bg, call
<1> QED
  BY <1>1, <1>2, <1>4 DEF ControlOK, Others, SameCall

-----------------------------------------------------------------------------
(* Serving is kept *)

\* A step that ends with Goto, to what the call may then rely on.
LEMMA GotoServes ==
  ASSUME IInv, Serving, Grows, NEW p \in Active, NEW label, Goto(p, label),
         label \notin {"idle", "read"}, label = "forgot" => pc[p] = "read",
         \A m \in mailed' \ mailed : m.code = p /\ label # "forgot",
         Serves(req[p].op, req[p].email, label)'
  PROVE  Serving'
<1>1. p \in Proc /\ ControlOK
  BY DEF Active, IInv
<1>2. Others(p) /\ SameCall(p) /\ pc'[p] = label
  BY <1>1, GotoOthers
<1>3. Serves(req[p].op, req[p].email, pc[p])'
  BY <1>2
<1> QED
  BY <1>2, <1>3, StillServing

LEMMA FailServes ==
  ASSUME IInv, Serving, Grows, NEW p \in Active, UNCHANGED mailed,
         Fail(p) \/ (FailAndResend(p) /\ req[p].op # "resend")
  PROVE  Serving'
<1>1. p \in Proc /\ ControlOK
  BY DEF Active, IInv
<1>2. p[2] = "resend" => req[p].op = "resend"
  BY DEF Active, Serving, CallServed
<1>3. Others(p) /\ SameCall(p) /\ pc'[p] = "failed"
  BY <1>1, <1>2, FailOthers, ResendOthers
<1>4. Serves(req[p].op, req[p].email, pc[p])'
  BY <1>3 DEF Serves
<1> QED
  BY <1>3, <1>4, StillServing

\* A process at work has a call that is served so far and a user in the type.
LEMMA ServedSoFar ==
  ASSUME IInv, Serving, NEW p \in Active
  PROVE  /\ p \in Proc /\ pc[p] # "idle"
         /\ CallOK(p) /\ Serves(req[p].op, req[p].email, pc[p])
         /\ req[p].email \in Email
BY EmailOK DEF Active, Serving, CallServed

LEMMA ReadersServe ==
  ASSUME IInv, Serving, Grows, NEW p \in Active,
         \/ CheckEmployee(p) \/ CheckEmployer(p) \/ LoginRead(p) \/ SocialRead(p)
         \/ FindEntity(p) \/ RefreshRead(p) \/ FindName(p) \/ ResetRead(p)
         \/ ConfirmRead(p) \/ ResendRead(p)
  PROVE  Serving'
<1> DEFINE e == req[p].email
           op == req[p].op
<1>1. /\ p \in Proc /\ CallOK(p) /\ Serves(op, e, pc[p]) /\ e \in Email
  BY ServedSoFar
<1>2. UNCHANGED <<users, employees, employers, tokens, mailed>>
  BY DEF CheckEmployee, CheckEmployer, FindEntity, LoginRead, SocialRead, RefreshRead,
         FindName, ResetRead, ConfirmRead, ResendRead, stores
<1>3. \/ Fail(p) \/ (FailAndResend(p) /\ op # "resend")
      \/ \E label : /\ Goto(p, label) /\ label \notin {"idle", "read"}
                    /\ label = "forgot" => pc[p] = "read"
                    /\ Serves(op, e, label)
  <2>1. CASE CheckEmployee(p) \/ CheckEmployer(p)
    <3>1. Serves(op, e, "user")
      BY DEF Serves
    <3> QED
      BY <2>1, <3>1 DEF CheckEmployee, CheckEmployer
  <2>2. CASE LoginRead(p)
    <3>1. op = "login"
      BY <2>2 DEF LoginRead, At
    <3>2. Serves(op, e, "find")
      BY <3>1 DEF Serves
    <3> QED
      BY <2>2, <3>1, <3>2 DEF LoginRead
  <2>3. CASE SocialRead(p)
    <3>1. op = "social"
      BY <2>3 DEF SocialRead, At
    <3>2. Serves(op, e, "check")
      BY <3>1 DEF Serves
    <3>3. ASSUME users[e] # NoUser, users[e].role = "employee"
          PROVE  Serves(op, e, "find") /\ Serves(op, e, "link")
      BY <3>1, <3>3 DEF Serves
    <3> QED
      BY <2>3, <3>2, <3>3 DEF SocialRead
  <2>4. CASE FindEntity(p)
    <3>1. op \in {"login", "social", "confirm"} /\ pc[p] = "find"
      BY <2>4 DEF FindEntity, At
    <3>2. CASE ~HasEntity(e)
      BY <2>4, <3>2 DEF FindEntity
    <3>3. CASE HasEntity(e) /\ op = "confirm"
      <4>1. Serves(op, e, "answered")
        BY <3>3 DEF Serves
      <4> QED
        BY <2>4, <3>3, <4>1 DEF FindEntity
    <3>4. CASE HasEntity(e) /\ op # "confirm"
      <4>1. op = "social" => EmployeeOf(e)
        BY <1>1, <3>1, <3>4 DEF HasEntity, Serves
      <4>2. Serves(op, e, "sign")
        BY <3>1, <3>4, <4>1 DEF Serves, Sessions
      <4> QED
        BY <2>4, <3>4, <4>2 DEF FindEntity
    <3> QED
      BY <3>2, <3>3, <3>4
  <2>5. CASE RefreshRead(p)
    <3>1. op = "refresh"
      BY <2>5 DEF RefreshRead, At
    <3>2. tokens[e] # <<>> => Serves(op, e, "sign")
      BY <3>1 DEF Serves, Sessions
    <3> QED
      BY <2>5, <3>2 DEF RefreshRead, Accepts
  <2>6. CASE FindName(p)
    <3>1. pc[p] = "name"
      BY <2>6 DEF FindName
    <3>2. op \in {"forgot", "reset", "resend"}
      BY <1>1, <3>1 DEF Serves
    <3>3. Serves(op, e, "code") /\ Serves(op, e, "mail")
      BY <3>2 DEF Serves
    <3> QED
      BY <2>6, <3>3 DEF FindName
  <2>7. CASE ResetRead(p)
    <3>1. op = "reset" /\ pc[p] = "read"
      BY <2>7 DEF ResetRead, At
    <3>2. Serves(op, e, "write") /\ (users[e] # NoUser => Serves(op, e, "forgot"))
      BY <3>1 DEF Serves
    <3> QED
      BY <2>7, <3>1, <3>2 DEF ResetRead
  <2>8. CASE ConfirmRead(p)
    <3>1. op = "confirm"
      BY <2>8 DEF ConfirmRead, At
    <3>2. Serves(op, e, "write")
      BY <3>1 DEF Serves
    <3> QED
      BY <2>8, <3>1, <3>2 DEF ConfirmRead
  <2>9. CASE ResendRead(p)
    <3>1. op = "resend"
      BY <2>9 DEF ResendRead, At
    <3>2. Serves(op, e, "name")
      BY <3>1 DEF Serves
    <3> QED
      BY <2>9, <3>2 DEF ResendRead
  <2> QED
    BY <2>1, <2>2, <2>3, <2>4, <2>5, <2>6, <2>7, <2>8, <2>9
<1>4. CASE Fail(p) \/ (FailAndResend(p) /\ op # "resend")
  BY <1>2, <1>4, FailServes
<1>5. ASSUME NEW label, Goto(p, label), label \notin {"idle", "read"},
             label = "forgot" => pc[p] = "read", Serves(op, e, label)
      PROVE  Serving'
  <2>1. req' = req
    BY <1>5 DEF Goto
  <2>2. Serves(req[p].op, req[p].email, label)'
    BY <1>2, <1>5, <2>1 DEF Serves, EmployeeOf, EmployerOf
  <2> QED
    BY <1>2, <1>5, <2>2, GotoServes
<1> QED
  BY <1>3, <1>4, <1>5

LEMMA WritersServe ==
  ASSUME IInv, IInv', Serving, Grows, NEW p \in Active,
         \/ SocialLink(p) \/ Forgot(p) \/ ResetWrite(p) \/ ConfirmWrite(p) \/ StoreCode(p)
         \/ SendConfirmation(p) \/ SendResetCode(p)
  PROVE  Serving'
<1> DEFINE e == req[p].email
           op == req[p].op
<1>1. /\ p \in Proc /\ CallOK(p) /\ Serves(op, e, pc[p]) /\ e \in Email
  BY ServedSoFar
<1>2. UNCHANGED <<employees, employers, tokens>>
  BY DEF SocialLink, Forgot, ResetWrite, ConfirmWrite, StoreCode, SendConfirmation,
         SendResetCode
<1>3. users[e] # NoUser => users'[e] # NoUser /\ users'[e].role = users[e].role
  BY <1>1 DEF Grows, RolesKept
<1>4. ASSUME NEW m \in mailed' \ mailed PROVE m.code = p
  <2>1. CASE mailed' = mailed
    BY <1>4, <2>1
  <2>2. CASE \E x : mailed' = mailed \cup {x} /\ x.code = p
    BY <1>4, <2>2
  <2>3. CASE SendConfirmation(p)
    <3> DEFINE x == [email |-> req[p].email, kind |-> "confirm", code |-> p]
    <3>1. x.code = p /\ (mailed' = mailed \cup {x} \/ mailed' = mailed)
      BY <2>3 DEF SendConfirmation
    <3> HIDE DEF x
    <3> QED
      BY <2>1, <2>2, <3>1
  <2>4. CASE SendResetCode(p)
    <3> DEFINE x == [email |-> req[p].email, kind |-> "reset", code |-> p]
    <3>1. x.code = p /\ mailed' = mailed \cup {x}
      BY <2>4 DEF SendResetCode
    <3> HIDE DEF x
    <3> QED
      BY <2>2, <3>1
  <2> QED
    BY <2>1, <2>3, <2>4 DEF SocialLink, Forgot, ResetWrite, ConfirmWrite, StoreCode
<1>5. CASE Forgot(p) /\ ~(users[e] = NoUser) /\ ~users[e].confirmed
  <2>1. FailAndResend(p) /\ op # "resend" /\ UNCHANGED mailed
    BY <1>5 DEF Forgot, At
  <2> QED
    BY <2>1, FailServes
<1>6. CASE ~(Forgot(p) /\ ~(users[e] = NoUser) /\ ~users[e].confirmed)
  <2>1. PICK label : /\ Goto(p, label) /\ label \notin {"idle", "read", "forgot"}
                     /\ Serves(req[p].op, req[p].email, label)'
    <3>1. ASSUME NEW label, Goto(p, label),
                 label \notin {"idle", "read", "forgot", "sign", "rotate", "insert"},
                 label = "name" => op \in {"forgot", "reset", "resend"},
                 op = "signupEmployee" /\ label \in {"mail", "answered"} => EmployeeOf(e),
                 op = "signupEmployer" /\ label \in {"mail", "answered"} => EmployerOf(e),
                 op = "social" => label \in {"link", "find"} /\ users'[e] # NoUser
                                  /\ users'[e].role = "employee",
                 op = "reset" /\ label = "answered" => users'[e] # NoUser
          PROVE  Serves(req[p].op, req[p].email, label)'
      <4>1. req' = req
        BY <3>1 DEF Goto
      <4> QED
        BY <1>2, <3>1, <4>1 DEF Serves, EmployeeOf, EmployerOf
    <3>2. CASE SocialLink(p)
      <4>1. op = "social" /\ pc[p] = "link" /\ Goto(p, "find")
        BY <3>2 DEF SocialLink, At
      <4> QED
        BY <1>1, <1>3, <3>1, <4>1 DEF Serves
    <3>3. CASE Forgot(p)
      <4>1. \/ op = "forgot" \/ (op = "reset" /\ pc[p] = "forgot")
        BY <3>3 DEF Forgot, At
      <4>2. CASE users[e] = NoUser
        <5>1. op = "forgot" /\ Goto(p, "answered")
          BY <1>1, <3>3, <4>1, <4>2 DEF Forgot, Serves
        <5> QED
          BY <3>1, <5>1
      <4>3. CASE users[e] # NoUser
        <5>1. Goto(p, "name")
          BY <1>6, <3>3, <4>3 DEF Forgot
        <5> QED
          BY <3>1, <4>1, <5>1
      <4> QED
        BY <4>2, <4>3
    <3>4. CASE ResetWrite(p)
      <4>1. op = "reset" /\ pc[p] = "write" /\ Goto(p, "answered")
        BY <3>4 DEF ResetWrite, At
      <4> QED
        BY <1>1, <1>3, <3>1, <4>1 DEF CallOK, Found
    <3>5. CASE ConfirmWrite(p)
      <4>1. op = "confirm" /\ Goto(p, "find")
        BY <3>5 DEF ConfirmWrite, At
      <4> QED
        BY <3>1, <4>1
    <3>6. CASE StoreCode(p)
      <4>1. op = "resend" /\ Goto(p, "mail")
        BY <3>6 DEF StoreCode, At
      <4> QED
        BY <3>1, <4>1
    <3>7. CASE SendConfirmation(p)
      <4>1. /\ op \in {"signupEmployee", "signupEmployer", "resend"} /\ pc[p] = "mail"
            /\ Goto(p, "answered")
        BY <3>7 DEF SendConfirmation, At
      <4> QED
        BY <1>1, <3>1, <4>1 DEF Serves
    <3>8. CASE SendResetCode(p)
      <4>1. CASE op = "forgot"
        <5>1. Goto(p, "answered")
          BY <3>8, <4>1 DEF SendResetCode
        <5> QED
          BY <3>1, <4>1, <5>1
      <4>2. CASE op # "forgot"
        <5>1. op = "reset" /\ Goto(p, "failed")
          BY <3>8, <4>2 DEF SendResetCode, At
        <5> QED
          BY <3>1, <5>1
      <4> QED
        BY <4>1, <4>2
    <3> QED
      BY <3>2, <3>3, <3>4, <3>5, <3>6, <3>7, <3>8
  <2> QED
    BY <1>4, <2>1, GotoServes
<1> QED
  BY <1>5, <1>6

LEMMA SignupsServe ==
  ASSUME IInv, IInv', Serving, Grows, NEW p \in Active,
         CreateUser(p) \/ LastEmployee(p) \/ CreateEmployee(p) \/ CreateEmployer(p)
  PROVE  Serving'
<1> DEFINE e == req[p].email
           op == req[p].op
<1>1. /\ p \in Proc /\ CallOK(p) /\ Serves(op, e, pc[p]) /\ e \in Email /\ ControlOK
  BY ServedSoFar DEF IInv
<1>2. UNCHANGED mailed
  BY DEF CreateUser, LastEmployee, CreateEmployee, CreateEmployer, stores
<1>3. CASE Fail(p)
  BY <1>2, <1>3, FailServes
<1>4. CASE CreateUser(p) /\ ~Fail(p)
  <2>1. PICK label \in {"entity", "last"} : Goto(p, label)
    BY <1>4 DEF CreateUser
  <2>2. Serves(req[p].op, req[p].email, label)'
    BY DEF Serves
  <2> QED
    BY <1>2, <2>1, <2>2, GotoServes
<1>5. CASE LastEmployee(p)
  <2> DEFINE ids == {x.externalId : x \in employees}
             next == IF ids = {} THEN 0 ELSE 1 + CHOOSE i \in ids : \A j \in ids : j <= i
             call == [req[p] EXCEPT !.next = next]
  <2>1. pc' = [pc EXCEPT ![p] = "entity"] /\ req' = [req EXCEPT ![p] = call]
    BY <1>5 DEF LastEmployee
  <2>2. req[p] \in Request
    BY <1>1 DEF CallOK
  <2> HIDE DEF next
  <2>3. call.op = op /\ call.email = e /\ call.token = req[p].token
    BY <2>2 DEF Request
  <2> HIDE DEF call
  <2>4. /\ pc'[p] = "entity" /\ req'[p] = call
        /\ \A q \in Proc \ {p} : pc'[q] = pc[q] /\ req'[q] = req[q]
    BY <1>1, <2>1 DEF ControlOK
  <2>5. Others(p) /\ SameCall(p)
    BY <2>3, <2>4 DEF Others, SameCall
  <2>6. Serves(req[p].op, req[p].email, pc[p])'
    BY <2>4 DEF Serves
  <2> QED
    BY <1>2, <2>4, <2>5, <2>6, StillServing
<1>6. CASE CreateEmployee(p) /\ ~Fail(p)
  <2> DEFINE doc == [user |-> e, cpf |-> req[p].key, externalId |-> req[p].next]
             label == IF op = "social" THEN "find" ELSE "mail"
  <2>1. /\ op \in {"signupEmployee", "social"} /\ pc[p] = "entity"
        /\ employees' = employees \cup {doc} /\ Goto(p, label) /\ UNCHANGED users
    BY <1>6 DEF CreateEmployee, At
  <2>2. users[e] # NoUser /\ users[e].role = "employee"
    BY <1>1, <2>1 DEF IInv, Owned, Pending, RoleFor
  <2>3. req' = req /\ doc.user = e
    BY <2>1 DEF Goto
  <2> HIDE DEF doc
  <2>4. \E x \in employees' : x.user = e
    BY <2>1, <2>3
  <2>5. PICK to \in {"find", "mail"} : to = label
    OBVIOUS
  <2>6. Serves(req[p].op, req[p].email, to)'
    BY <2>1, <2>2, <2>3, <2>4, <2>5 DEF Serves, EmployeeOf
  <2> QED
    BY <1>2, <2>1, <2>5, <2>6, GotoServes
<1>7. CASE CreateEmployer(p) /\ ~Fail(p)
  <2> DEFINE doc == [user |-> req[p].email, cnpj |-> req[p].key,
                     slug |-> IF req[p].slug THEN req[p].key ELSE NoKey]
  <2>1. op = "signupEmployer" /\ employers' = employers \cup {doc} /\ Goto(p, "mail")
    BY <1>7 DEF CreateEmployer, At
  <2>2. req' = req /\ doc.user = e
    BY <2>1 DEF Goto
  <2> HIDE DEF doc
  <2>3. \E x \in employers' : x.user = e
    BY <2>1, <2>2
  <2>4. Serves(req[p].op, req[p].email, "mail")'
    BY <2>1, <2>2, <2>3 DEF Serves, EmployerOf
  <2> QED
    BY <1>2, <2>1, <2>4, GotoServes
<1> QED
  BY <1>3, <1>4, <1>5, <1>6, <1>7

LEMMA SessionsServe ==
  ASSUME IInv, IInv', Serving, Grows, NEW p \in Active, Rotate(p) \/ InsertToken(p)
  PROVE  Serving'
<1> DEFINE e == req[p].email
           op == req[p].op
<1>1. /\ p \in Proc /\ Serves(op, e, pc[p])
  BY ServedSoFar
<1>2. UNCHANGED <<users, employees, employers, mailed>>
  BY DEF Rotate, InsertToken
<1>3. /\ op \in {"login", "social", "refresh"} /\ (op = "social" => EmployeeOf(e))
      /\ InsertToken(p) => op # "refresh"
  BY <1>1 DEF Rotate, InsertToken, Serves, Sessions
<1>4. CASE Goto(p, "answered")
  <2>1. req' = req
    BY <1>4 DEF Goto
  <2>2. Serves(req[p].op, req[p].email, "answered")'
    BY <1>2, <1>3, <2>1 DEF Serves, EmployeeOf
  <2> QED
    BY <1>2, <1>4, <2>2, GotoServes
<1>5. CASE Rotate(p) /\ Goto(p, "insert") /\ tokens[e] = <<>>
  <2>1. req' = req /\ op # "refresh"
    BY <1>1, <1>5 DEF Goto, Rotate, Serves
  <2>2. Serves(req[p].op, req[p].email, "insert")'
    BY <1>2, <1>3, <2>1 DEF Serves, EmployeeOf
  <2> QED
    BY <1>2, <1>5, <2>2, GotoServes
<1> QED
  BY <1>4, <1>5 DEF Rotate, InsertToken

LEMMA SignServes ==
  ASSUME IInv, Serving, Grows, NEW p \in Proc, Sign(p)
  PROVE  Serving'
<1> DEFINE e == req[p].email
           token == IF recent[e] = NoCode THEN p ELSE recent[e]
           call == [req[p] EXCEPT !.issued = token]
<1>1. /\ p \in Active /\ pc[p] = "sign"
      /\ UNCHANGED <<users, employees, employers, tokens, mailed>>
      /\ pc' = [pc EXCEPT ![p] = "rotate"] /\ req' = [req EXCEPT ![p] = call]
  BY DEF Sign, stores, Active
<1>2. req[p] \in Request /\ Serves(req[p].op, e, "sign") /\ ControlOK
  BY <1>1, ServedSoFar DEF CallOK, IInv
<1> HIDE DEF token
<1>3. call.op = req[p].op /\ call.email = e /\ call.token = req[p].token
  BY <1>2 DEF Request
<1> HIDE DEF call
<1>4. /\ pc'[p] = "rotate" /\ req'[p] = call
      /\ \A q \in Proc \ {p} : pc'[q] = pc[q] /\ req'[q] = req[q]
  BY <1>1, <1>2 DEF ControlOK
<1>5. Others(p) /\ SameCall(p)
  BY <1>3, <1>4 DEF Others, SameCall
<1>6. Serves(req[p].op, req[p].email, pc[p])'
  BY <1>1, <1>2, <1>3, <1>4 DEF Serves, EmployeeOf
<1> QED
  BY <1>1, <1>4, <1>5, <1>6, StillServing

\* A request brings no code that has not been sent to somebody.
LEMMA ArriveServes ==
  ASSUME IInv, Serving, Grows, NEW r \in Req, Arrive(r)
  PROVE  Serving'
<1> DEFINE p == <<r, "http">>
<1>1. p \in Proc /\ p[2] = "http" /\ pc[p] = "idle" /\ UNCHANGED mailed
  BY DEF Proc, Arrive, stores
<1>2. PICK op \in Ops, e \in Email :
        \E k \in Keys(op), t \in Presented(op, e),
           b \in IF op = "signupEmployer" THEN BOOLEAN ELSE {FALSE} :
          req' = [req EXCEPT ![p] = [op |-> op, email |-> e, key |-> k,
                                     slug |-> b, token |-> t, next |-> 0, issued |-> NoCode]]
  BY DEF Arrive
<1>3. PICK k \in Keys(op), t \in Presented(op, e),
           b \in IF op = "signupEmployer" THEN BOOLEAN ELSE {FALSE} :
        req' = [req EXCEPT ![p] = [op |-> op, email |-> e, key |-> k,
                                   slug |-> b, token |-> t, next |-> 0, issued |-> NoCode]]
  BY <1>2
<1> DEFINE call == [op |-> op, email |-> e, key |-> k, slug |-> b, token |-> t, next |-> 0,
                    issued |-> NoCode]
<1>4. call.op = op /\ call.token = t /\ call.email = e
  OBVIOUS
<1>5. req' = [req EXCEPT ![p] = call] /\ pc' = [pc EXCEPT ![p] = "read"]
  BY <1>3 DEF Arrive
<1> HIDE DEF call, p
<1>6. /\ req'[p] = call /\ pc'[p] = "read"
      /\ \A q \in Proc \ {p} : req'[q] = req[q] /\ pc'[q] = pc[q]
  BY <1>1, <1>5 DEF IInv, ControlOK
<1>7. PastKept
  BY <1>1, <1>6 DEF PastKept, Unsent
<1>8. op = "refresh" => Given(e, t)
  <2>1. ASSUME op = "refresh", t # Earlier PROVE Given(e, t)
    <3>1. PICK q \in Proc : /\ pc[q] = "answered" /\ req[q].op \in Sessions
                            /\ req[q].email = e /\ req[q].issued = t
      BY <2>1 DEF Presented
    <3>2. q[2] = "http"
      BY <3>1 DEF Serving, CallServed, Proc, Sessions
    <3>3. CASE q = t
      BY <3>1, <3>2, <3>3 DEF Given
    <3>4. CASE q # t
      BY <3>1, <3>2, <3>4 DEF Given, Again, Answered
    <3> QED
      BY <3>3, <3>4
  <2> QED
    BY <2>1 DEF Given
<1>9. op \in {"reset", "confirm"} => Sent(t)
  BY DEF Presented, Serving, Sent
<1>10. CallServed(p)'
  <2>1. Serves(req[p].op, req[p].email, pc[p])'
    BY <1>6 DEF Serves
  <2>2. /\ op = "refresh" => Given(e, t)'
        /\ op \in {"reset", "confirm"} => Sent(t)'
    BY <1>7, <1>8, <1>9, GivenStays DEF PastKept, Sent
  <2> QED
    BY <1>1, <1>4, <1>6, <2>1, <2>2 DEF CallServed
<1>11. ASSUME NEW q \in Proc \ {p}, pc'[q] # "idle" PROVE CallServed(q)'
  <2>1. SameCall(q) /\ CallServed(q) /\ pc[q] # "idle" /\ pc'[q] = pc[q]
    BY <1>6, <1>11 DEF SameCall, Serving
  <2> QED
    BY <1>7, <2>1, StillServed
<1>12. \A m \in mailed' : Sent(m.code)'
  BY <1>1, <1>7 DEF Serving, PastKept, Sent
<1> QED
  BY <1>10, <1>11, <1>12 DEF Serving

LEMMA ServingOK ==
  ASSUME IInv, IInv', Serving, [Next]_vars
  PROVE  Serving'
<1>0. Grows
  BY StepGrows
<1>1. ASSUME NEW r \in Req, Arrive(r) PROVE Serving'
  BY <1>0, <1>1, ArriveServes
<1>2. ASSUME NEW p \in Proc, Progress(p) PROVE Serving'
  <2>1. p \in Active
    BY <1>2 DEF Active, Progress, CheckEmployee, CheckEmployer, CreateUser, LastEmployee,
       CreateEmployee, CreateEmployer, SendConfirmation, LoginRead, SocialRead, SocialLink,
       FindEntity, RefreshRead, Rotate, InsertToken, Forgot, FindName, SendResetCode,
       ResetRead, ResetWrite, ConfirmRead, ConfirmWrite, ResendRead, StoreCode, At
  <2> QED
    BY <1>0, <1>2, <2>1, ReadersServe, WritersServe, SignupsServe, SessionsServe
       DEF Progress
<1>3. ASSUME NEW p \in Proc, CallFails(p) PROVE Serving'
  BY <1>0, <1>3, FailServes DEF CallFails, stores
<1>4. ASSUME NEW p \in Proc, Sign(p) PROVE Serving'
  BY <1>0, <1>4, SignServes
<1>5. ASSUME \/ ProcessExit \/ (\E e \in Email : Expire(e)) \/ NewSecond
             \/ UNCHANGED vars
      PROVE  Serving'
  <2>1. /\ req' = req /\ UNCHANGED mailed
        /\ \A q \in Proc : pc'[q] = pc[q] \/ (q \in Active /\ pc'[q] = "failed")
    BY <1>5 DEF ProcessExit, Expire, NewSecond, stores, vars
  <2>2. PastKept
    BY <2>1 DEF PastKept, Unsent, Active
  <2>3. ASSUME NEW q \in Proc, pc'[q] # "idle" PROVE CallServed(q)'
    <3>1. /\ pc[q] # "idle" /\ CallServed(q) /\ SameCall(q)
          /\ pc'[q] \in {pc[q], "failed"}
      BY <2>1, <2>3 DEF Active, Serving, SameCall
    <3> QED
      BY <1>0, <2>2, <3>1, StillServed
  <2>4. \A m \in mailed' : Sent(m.code)'
    BY <2>1, <2>2 DEF Serving, PastKept, Sent
  <2> QED
    BY <2>3, <2>4 DEF Serving
<1> QED
  BY <1>1, <1>2, <1>3, <1>4, <1>5 DEF Next, SignsNothing

-----------------------------------------------------------------------------
(* Codes and tokens *)

\* A step answers with its own action or leaves the answers as they are.
LEMMA Answers ==
  ASSUME IInv, [Next]_vars, NEW q \in Proc
  PROVE  \/ req'[q] = req[q] /\ pc'[q] = pc[q]
         \/ /\ pc'[q] \in {"failed", "name", "read", "rotate"}
            /\ pc[q] = "answered" => q[2] = "resend"
         \/ Progress(q)
<1> DEFINE Goal == \/ req'[q] = req[q] /\ pc'[q] = pc[q]
                   \/ /\ pc'[q] \in {"failed", "name", "read", "rotate"}
                      /\ pc[q] = "answered" => q[2] = "resend"
                   \/ Progress(q)
<1>0. ControlOK
  BY DEF IInv
<1>1. ASSUME NEW p, p \in Proc \ {q}, NEW label, Goto(p, label) PROVE Goal
  BY <1>0, <1>1, GotoOthers DEF Others, Active
<1>2. ASSUME NEW p, p \in Proc \ {q}, Fail(p) PROVE Goal
  <2>1. req' = req /\ (pc'[q] = pc[q] \/ (pc'[q] = "failed" /\ pc[q] # "answered"))
    BY <1>2 DEF Fail, Active
  <2> QED
    BY <2>1
<1>3. ASSUME NEW p, p \in Proc \ {q}, FailAndResend(p) PROVE Goal
  <2> DEFINE bg == <<p[1], "resend">>
             call == [req[p] EXCEPT !.op = "resend"]
  <2>1. pc' = [pc EXCEPT ![p] = "failed", ![bg] = "name"] /\ req' = [req EXCEPT ![bg] = call]
    BY <1>3 DEF FailAndResend
  <2>2. bg[2] = "resend"
    OBVIOUS
  <2> HIDE DEF bg, call
  <2>3. q = bg \/ (pc'[q] = pc[q] /\ req'[q] = req[q])
    BY <1>0, <1>3, <2>1 DEF ControlOK
  <2>4. q = bg => pc'[q] = "name"
    BY <1>0, <2>1 DEF ControlOK
  <2> QED
    BY <2>2, <2>3, <2>4
<1>4. ASSUME NEW p, p \in Proc \ {q}, LastEmployee(p) PROVE Goal
  BY <1>0, <1>4 DEF LastEmployee, ControlOK
<1>5. ASSUME NEW p, p \in Proc, Progress(p) PROVE Goal
  <2>1. CASE p = q
    BY <1>5, <2>1
  <2>2. CASE p # q
    BY <1>1, <1>2, <1>3, <1>4, <1>5, <2>2
       DEF Progress, CheckEmployee, CheckEmployer, CreateUser, CreateEmployee, CreateEmployer,
           SendConfirmation, LoginRead, SocialRead, SocialLink, FindEntity, RefreshRead, Rotate,
           InsertToken, Forgot, FindName, SendResetCode, ResetRead, ResetWrite, ConfirmRead,
           ConfirmWrite, ResendRead, StoreCode
  <2> QED
    BY <2>1, <2>2
<1>6. ASSUME NEW p, p \in Proc, CallFails(p) PROVE Goal
  <2>1. req' = req /\ (pc'[q] = pc[q] \/ (pc'[q] = "failed" /\ pc[q] # "answered"))
    BY <1>6 DEF CallFails, Fail, Active
  <2> QED
    BY <2>1
<1>7. CASE ProcessExit
  <2>1. req' = req /\ (pc'[q] = pc[q] \/ (pc'[q] = "failed" /\ pc[q] # "answered"))
    BY <1>7 DEF ProcessExit, Active
  <2> QED
    BY <2>1
<1>8. ASSUME NEW r \in Req, Arrive(r) PROVE Goal
  <2> DEFINE p == <<r, "http">>
  <2>1. /\ pc[p] = "idle" /\ pc' = [pc EXCEPT ![p] = "read"]
        /\ \E call : req' = [req EXCEPT ![p] = call]
    BY <1>8 DEF Arrive
  <2> HIDE DEF p
  <2> QED
    BY <1>0, <2>1 DEF ControlOK
<1>9. CASE (\E e \in Email : Expire(e)) \/ NewSecond \/ UNCHANGED vars
  BY <1>9 DEF Expire, NewSecond, vars
<1>10. ASSUME NEW p \in Proc, Sign(p) PROVE Goal
  <2>1. /\ pc[p] = "sign" /\ pc' = [pc EXCEPT ![p] = "rotate"]
        /\ \E call : req' = [req EXCEPT ![p] = call]
    BY <1>10 DEF Sign
  <2> QED
    BY <1>0, <2>1 DEF ControlOK
<1> QED
  BY <1>5, <1>6, <1>7, <1>8, <1>9, <1>10 DEF Next, SignsNothing

\* A step of a reset or a refresh that answers it.
LEMMA AnswersOne ==
  ASSUME IInv, Serving, NEW q \in Proc, Progress(q), pc'[q] = "answered"
  PROVE  /\ req'[q] = req[q]
         /\ req[q].op = "reset" => ResetWrite(q)
         /\ req[q].op = "refresh" =>
              /\ pc[q] = "rotate"
              /\ tokens' = [tokens EXCEPT ![req[q].email] = [tokens[req[q].email] EXCEPT ![1] = req[q].issued]]
<1> DEFINE Goal == /\ req'[q] = req[q]
                   /\ req[q].op = "reset" => ResetWrite(q)
                   /\ req[q].op = "refresh" =>
                        /\ pc[q] = "rotate"
                        /\ tokens' = [tokens EXCEPT ![req[q].email] =
                                        [tokens[req[q].email] EXCEPT ![1] = req[q].issued]]
<1>0. q \in Active
  BY DEF Active, Progress, CheckEmployee, CheckEmployer, CreateUser, LastEmployee,
     CreateEmployee, CreateEmployer, SendConfirmation, LoginRead, SocialRead, SocialLink,
     FindEntity, RefreshRead, Rotate, InsertToken, Forgot, FindName, SendResetCode,
     ResetRead, ResetWrite, ConfirmRead, ConfirmWrite, ResendRead, StoreCode, At
<1>1. /\ Serves(req[q].op, req[q].email, pc[q]) /\ ControlOK
  BY <1>0, ServedSoFar DEF IInv
<1>2. ASSUME NEW label, Goto(q, label) PROVE label = "answered" /\ req' = req
  BY <1>1, <1>2, GotoOthers DEF Goto
<1>3. ~Fail(q)
  BY <1>0, <1>1, FailOthers
<1>4. ~FailAndResend(q)
  <2> DEFINE bg == <<q[1], "resend">>
  <2>1. ASSUME pc' = [pc EXCEPT ![q] = "failed", ![bg] = "name"] PROVE FALSE
    BY <1>1, <2>1 DEF ControlOK
  <2> QED
    BY <2>1 DEF FailAndResend
<1>5. ~LastEmployee(q)
  BY <1>1 DEF LastEmployee, ControlOK
<1>6. CASE SendConfirmation(q)
  BY <1>2, <1>6 DEF SendConfirmation, At
<1>7. CASE FindEntity(q)
  BY <1>2, <1>3, <1>7 DEF FindEntity, At
<1>8. CASE Rotate(q)
  <2>1. req' = req /\ pc[q] = "rotate" /\ req[q].op # "reset"
    BY <1>1, <1>2, <1>8 DEF Rotate, Serves, Sessions
  <2>2. CASE tokens[req[q].email] = <<>>
    BY <1>2, <1>8, <2>2 DEF Rotate
  <2>3. CASE tokens[req[q].email] # <<>>
    BY <1>8, <2>1, <2>3 DEF Rotate
  <2> QED
    BY <2>2, <2>3
<1>9. CASE InsertToken(q)
  BY <1>1, <1>2, <1>9 DEF InsertToken, Serves
<1>10. CASE Forgot(q)
  <2>1. req[q].op = "forgot" \/ (req[q].op = "reset" /\ pc[q] = "forgot")
    BY <1>10 DEF Forgot, At
  <2>2. req[q].op = "reset" => users[req[q].email] # NoUser
    BY <1>1, <2>1 DEF Serves
  <2> QED
    BY <1>2, <1>4, <1>10, <2>1, <2>2 DEF Forgot
<1>11. CASE SendResetCode(q)
  BY <1>2, <1>11 DEF SendResetCode, At
<1>12. CASE ResetWrite(q)
  BY <1>2, <1>12 DEF ResetWrite, At
<1>13. ~(CheckEmployee(q) \/ CheckEmployer(q) \/ LoginRead(q) \/ SocialRead(q))
  BY <1>2, <1>3, <1>4 DEF CheckEmployee, CheckEmployer, LoginRead, SocialRead
<1>14. ~(RefreshRead(q) \/ FindName(q) \/ ResetRead(q) \/ ConfirmRead(q) \/ ResendRead(q))
  BY <1>2, <1>3, <1>4 DEF RefreshRead, FindName, ResetRead, ConfirmRead, ResendRead
<1>15. ~(CreateUser(q) \/ CreateEmployee(q) \/ CreateEmployer(q))
  BY <1>2, <1>3 DEF CreateUser, CreateEmployee, CreateEmployer
<1>16. ~(SocialLink(q) \/ ConfirmWrite(q) \/ StoreCode(q))
  BY <1>2 DEF SocialLink, ConfirmWrite, StoreCode
<1> QED
  BY <1>5, <1>6, <1>7, <1>8, <1>9, <1>10, <1>11, <1>12, <1>13, <1>14, <1>15,
     <1>16 DEF Progress

LEMMA UsedCodeGoneOK ==
  ASSUME IInv, Serving, UsedCodeGone, [Next]_vars
  PROVE  UsedCodeGone'
<1> SUFFICES ASSUME NEW q \in Proc, pc'[q] = "answered", req'[q].op = "reset"
             PROVE  users'[req'[q].email].reset # req'[q].token
  BY DEF UsedCodeGone, Answered
<1> DEFINE e == req[q].email
           t == req[q].token
<1>1. req'[q] = req[q] /\ (pc[q] = "answered" \/ ResetWrite(q))
  BY Answers, AnswersOne
<1>2. pc[q] # "idle" /\ pc[q] # "failed"
  BY <1>1 DEF ResetWrite, At
<1>3. CallServed(q) /\ CallOK(q) /\ e \in Email
  BY <1>2, EmailOK DEF Serving
<1>4. Sent(t)
  BY <1>1, <1>3 DEF CallServed
<1>5. t # NoCode /\ \A p \in Proc : pc[p] \in Unsent => t # p
  BY <1>4, AccountsAssumption DEF Sent, Proc
<1>6. CASE ResetWrite(q)
  <2> DEFINE v == [users[e] EXCEPT !.password = TRUE, !.reset = NoCode, !.resetAge = "none"]
  <2>1. users[e] # NoUser
    BY <1>3, <1>6 DEF ResetWrite, At, CallOK, Found
  <2>2. users[e] \in User /\ users \in [Email -> User \cup {NoUser}]
    BY <1>3, <2>1 DEF IInv, StoresOK
  <2>3. users'[e] = v
    BY <1>3, <1>6, <2>2 DEF ResetWrite
  <2>4. v.reset = NoCode
    BY <2>2 DEF User
  <2> QED
    BY <1>1, <1>5, <2>3, <2>4
<1>7. CASE pc[q] = "answered"
  <2>1. users[e] # NoUser /\ users[e].reset # t
    BY <1>1, <1>3, <1>7 DEF CallServed, Serves, UsedCodeGone, Answered
  <2>2. \/ users'[e].reset \in {users[e].reset, NoCode}
        \/ \E p \in Proc : users'[e].reset = p /\ pc[p] \in Unsent
    BY <1>3, <2>1, UserChanges
  <2> QED
    BY <1>1, <1>5, <2>1, <2>2
<1> QED
  BY <1>1, <1>6, <1>7

LEMMA TokenDeadOK ==
  ASSUME IInv, Serving, TokenDead, [Next]_vars
  PROVE  TokenDead'
<1> SUFFICES ASSUME NEW q \in Proc, pc'[q] = "answered", req'[q].op = "refresh",
                    tokens'[req'[q].email] # <<>>,
                    Head(tokens'[req'[q].email]) = req'[q].token
             PROVE  Again(req[q].email, req[q].token)'
  BY DEF TokenDead, Answered, Accepts
<1> DEFINE e == req[q].email
           t == req[q].token
<1>1. \/ req'[q] = req[q] /\ pc[q] = "answered"
      \/ req'[q] = req[q] /\ pc[q] = "rotate"
  BY Answers, AnswersOne
<1>2. pc[q] # "idle"
  BY <1>1
<1>3. CallServed(q) /\ e \in Email
  BY <1>2, EmailOK DEF Serving
<1>4. Given(e, t)
  BY <1>1, <1>3 DEF CallServed
<1>5. CASE Again(e, t)
  <2>1. PICK p \in Proc \ {t} : /\ p[2] = "http" /\ Answered(p, Sessions)
                                /\ req[p].email = e /\ req[p].issued = t
    BY <1>5 DEF Again
  <2>2. req'[p] = req[p] /\ pc'[p] = "answered"
    <3>1. ~Progress(p)
      BY <2>1 DEF Answered, Progress, CheckEmployee, CheckEmployer, CreateUser, LastEmployee,
         CreateEmployee, CreateEmployer, SendConfirmation, LoginRead, SocialRead, SocialLink,
         FindEntity, RefreshRead, Rotate, InsertToken, Forgot, FindName, SendResetCode,
         ResetRead, ResetWrite, ConfirmRead, ConfirmWrite, ResendRead, StoreCode, At
    <3> QED
      BY <2>1, <3>1, Answers DEF Answered
  <2> QED
    BY <1>1, <2>1, <2>2 DEF Again, Answered
<1>6. ASSUME NEW p \in Proc, Handed(p, e), ~Again(e, t) PROVE Again(e, t)'
  <2>1. Head(tokens'[e]) = t /\ req'[q] = req[q]
    BY <1>1
  <2>2. p \in Active /\ req'[p] = req[p] /\ pc'[p] = "answered" /\ req[p].email = e
        /\ req[p].issued = t /\ pc[p] \in Storing
    BY <1>6, <2>1 DEF Handed
  <2>3. p # t
    BY <1>4, <1>6, <2>2, AccountsAssumption DEF Given, Active, Proc
  <2>4. Serves(req[p].op, req[p].email, pc[p]) /\ (p[2] = "resend" => req[p].op = "resend")
    BY <2>2 DEF Serving, CallServed, Active
  <2>5. req[p].op \in Sessions /\ p[2] = "http"
    BY <2>2, <2>4 DEF Serves, Sessions, Storing, Proc
  <2> QED
    BY <2>1, <2>2, <2>3, <2>5 DEF Again, Answered
<1>7. CASE ~Again(e, t) /\ pc[q] = "answered"
  <2>1. ~(tokens[e] # <<>> /\ Head(tokens[e]) = t)
    BY <1>1, <1>7 DEF TokenDead, Answered, Accepts
  <2>2. PICK p \in Proc : Handed(p, e)
    BY <1>1, <1>3, <2>1, TokenChanges
  <2> QED
    BY <1>1, <1>6, <1>7, <2>2
<1>8. CASE ~Again(e, t) /\ pc[q] = "rotate"
  <2>1. tokens' = [tokens EXCEPT ![e] = [tokens[e] EXCEPT ![1] = req[q].issued]]
        /\ req'[q] = req[q]
    BY <1>1, <1>8, Answers, AnswersOne
  <2>2. tokens[e] # <<>>
    BY <1>1, <1>3, <1>8 DEF CallServed, Serves
  <2>3. /\ tokens \in [Email -> Seq(Code)] /\ 1 \in 1..Len(tokens[e])
        /\ req[q].issued \in Code
    BY <1>3, <1>8, <2>2, EmptySeq, LenProperties, EmailOK
       DEF IInv, StoresOK, CallOK, Storing
  <2> DEFINE s == [tokens[e] EXCEPT ![1] = req[q].issued]
  <2>4. s \in Seq(Code) /\ Len(s) = Len(tokens[e]) /\ s[1] = req[q].issued
    BY <1>3, <2>3, ExceptSeq
  <2>5. Head(s) = req[q].issued /\ s # <<>>
    BY <2>3, <2>4
  <2>6. tokens'[e] = s
    BY <1>3, <2>1, <2>3
  <2> HIDE DEF s
  <2>7. Handed(q, e)
    BY <1>8, <2>1, <2>5, <2>6 DEF Handed, Active, Storing
  <2> QED
    BY <1>1, <1>6, <1>8, <2>7
<1> QED
  BY <1>1, <1>5, <1>7, <1>8

LEMMA AInvInit == Init => AInv
<1> SUFFICES ASSUME Init PROVE AInv
  OBVIOUS
<1>1. /\ \A p \in Proc : pc[p] = "idle"
      /\ \A m \in mailed : m.code = Earlier
  BY DEF Init
<1> QED
  BY <1>1, InitOK DEF AInv, Serving, UsedCodeGone, TokenDead, Answered, Sent

LEMMA AInvariance == Spec => []AInv
<1>1. AInv /\ [Next]_vars => AInv'
  BY NextOK, ServingOK, UsedCodeGoneOK, TokenDeadOK DEF AInv
<1> QED
  BY <1>1, AInvInit, PTL DEF Spec

-----------------------------------------------------------------------------
\* Whoever got the answer of a signup has a user with the entity of its role,
\* whatever signups and social logins of the same email or key raced with it.
THEOREM SignupComplete == Spec => []SignupAnswered
<1>1. AInv => SignupAnswered
  BY DEF AInv, Serving, CallServed, Serves, SignupAnswered, Answered
<1> QED
  BY <1>1, AInvariance, PTL

\* A refresh token that was exchanged is refused for ever, also where concurrent
\* first logins stored several tokens for one user, unless the same string was
\* signed twice: another call of the user, or the exchange, got it as its answer in
\* the second in which it was signed first.
THEOREM TokenExchangedOnce == Spec => []ExchangedTokenDead
<1>1. AInv => ExchangedTokenDead
  BY DEF AInv, TokenDead, ExchangedTokenDead, Again, SignedTwice
<1> QED
  BY <1>1, AInvariance, PTL

\* The code of a password that was changed passes no later check.
THEOREM CodeUsedOnce == Spec => UsedCodeRejected
<1>1. ASSUME AInv, [Next]_vars, NEW p \in Proc, pc[p] = "read", req[p].op = "reset",
             pc'[p] = "write",
             NEW q \in Proc, Answered(q, {"reset"}), req[q].email = req[p].email
      PROVE  req[q].token # req[p].token
  <2>1. Progress(p) /\ p \in Active /\ ControlOK
    BY <1>1, Answers DEF AInv, Active, IInv
  <2>2. ResetRead(p) \/ Forgot(p)
    BY <1>1, <2>1
       DEF Progress, CheckEmployee, CheckEmployer, CreateUser, LastEmployee,
           CreateEmployee, CreateEmployer, SendConfirmation, LoginRead, SocialRead, SocialLink,
           FindEntity, RefreshRead, Rotate, InsertToken, FindName, SendResetCode,
           ResetWrite, ConfirmRead, ConfirmWrite, ResendRead, StoreCode, At
  <2>3. ResetRead(p)
    BY <1>1, <2>2 DEF Forgot, At
  <2>4. ~Fail(p)
    BY <1>1, <2>1, FailOthers
  <2>5. ~Goto(p, "forgot")
    BY <1>1, <2>1, GotoOthers DEF Active
  <2>6. users[req[p].email].reset = req[p].token
    BY <2>3, <2>4, <2>5 DEF ResetRead
  <2> QED
    BY <1>1, <2>6 DEF AInv, UsedCodeGone
<1>2. AInv /\ [Next]_vars =>
        [\A p \in Proc :
           /\ pc[p] = "read" /\ req[p].op = "reset" /\ pc'[p] = "write"
           => \A q \in Proc : ~(/\ Answered(q, {"reset"})
                                /\ req[q].email = req[p].email
                                /\ req[q].token = req[p].token)]_vars
  BY <1>1
<1> QED
  BY <1>2, AInvariance, PTL DEF Spec, UsedCodeRejected

\* No resend that looked the user up before the confirmation, and no other step,
\* takes a confirmation back.
THEOREM StaysConfirmed == Spec => ConfirmedForGood
<1>1. IInv /\ [Next]_vars =>
        [\A e \in Email : users[e] # NoUser /\ users[e].confirmed =>
           users'[e] # NoUser /\ users'[e].confirmed]_vars
  BY UserChanges
<1> QED
  BY <1>1, Invariance, PTL DEF Spec, ConfirmedForGood
=============================================================================
