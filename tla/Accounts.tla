------------------------------ MODULE Accounts ------------------------------
(***************************************************************************)
(* Accounts: src/src/modules/auth/auth.service.ts with the user service    *)
(* and the signups of the employee and employer services, under concurrent *)
(* HTTP requests.  A signup stores a User and then its Employee or Employer *)
(* in separate writes; sessions are rows of refresh_tokens; confirmation   *)
(* and password codes are stored in the User and mailed.  Several handlers *)
(* start resendEmailConfirmation without awaiting it: request r owns the   *)
(* processes <<r,"http">> and <<r,"resend">>.                              *)
(*                                                                         *)
(* A code is identified with the process that generated it, and so is a    *)
(* refresh token, except that the tokens signed for one user within one    *)
(* second are one string.  A User is identified with its email, which is a *)
(* unique index.                                                           *)
(***************************************************************************)
EXTENDS Naturals, Sequences, FiniteSets

CONSTANTS Req,      \* requests that may arrive, each once
          Email,
          Key,      \* CPFs, and CNPJs with the slug of the business name
          NoKey,    \* no CPF, no business name
          Earlier,  \* the code or token generated before the model starts
          NoCode,   \* no code is stored
          Wrong,    \* a code that was never generated
          NoUser,   \* the email has no User
          Ops       \* the operations that requests may call

Operations == {"signupEmployee", "signupEmployer", "social", "login", "refresh",
               "forgot", "reset", "confirm", "resend"}

ASSUME AccountsAssumption ==
  /\ NoKey \notin Key
  /\ Ops \subseteq Operations
  /\ {Earlier, NoCode, Wrong} \cap (Req \X {"http", "resend"}) = {}
  /\ Earlier # NoCode /\ Wrong \notin {Earlier, NoCode}

VARIABLES users,      \* [Email -> User]
          employees, employers,
          tokens,     \* tokens[e]: the refresh_tokens rows of e, oldest first
          mailed,     \* the codes that were mailed
          recent,     \* recent[e]: the token signed for e in this second
          pc, req

vars == <<users, employees, employers, tokens, mailed, recent, pc, req>>

Proc == Req \X {"http", "resend"}
Code == Proc \cup {Earlier}
Age == {"none", "valid", "expired", "old"}

User == [role : {"employee", "employer"}, password : BOOLEAN, social : BOOLEAN,
         confirmed : BOOLEAN,
         code : Code \cup {NoCode}, codeAge : Age,
         reset : Code \cup {NoCode}, resetAge : Age]

\* findOne returns null or a user, never both.
ASSUME NoUserAssumption == NoUser \notin User

EmployeeDoc == [user : Email, cpf : Key \cup {NoKey}, externalId : Nat]

EmployerDoc == [user : Email, cnpj : Key, slug : Key \cup {NoKey}]

\* A mailed link: sendEmailConfirmation or sendPasswordResetCode.
Mail == [email : Email, kind : {"confirm", "reset"}, code : Code]

Request == [op : Operations, email : Email, key : Key \cup {NoKey},
            slug : BOOLEAN, token : Code \cup {Wrong, NoCode}, next : Nat,
            issued : Code \cup {NoCode}]

NoRequest == <<>>

\* "answered" is an HTTP success, "failed" an error.
Label == {"idle", "read", "check", "user", "last", "entity", "mail", "link",
          "find", "sign", "rotate", "insert", "forgot", "name", "code", "write",
          "answered", "failed"}

Active == {p \in Proc : pc[p] \notin {"idle", "answered", "failed"}}

-----------------------------------------------------------------------------
(* Initial states: an email is free, half registered (a signup stopped      *)
(* between its two writes), waiting for its confirmation, or confirmed.     *)

StartUser(s, role) ==
  IF s = "free" THEN NoUser
  ELSE [role |-> role, password |-> TRUE, social |-> FALSE,
        confirmed |-> s = "confirmed",
        code |-> IF s = "confirmed" THEN NoCode ELSE Earlier,
        codeAge |-> IF s = "confirmed" THEN "none" ELSE "valid",
        reset |-> IF s = "confirmed" THEN Earlier ELSE NoCode,
        resetAge |-> IF s = "confirmed" THEN "valid" ELSE "none"]

Init ==
  /\ \E s \in [Email -> {"free", "half", "waiting", "confirmed"}] :
       /\ users = [e \in Email |-> StartUser(s[e], "employee")]
       /\ employees = {[user |-> e, cpf |-> NoKey, externalId |-> 0] :
                         e \in {x \in Email : s[x] \in {"waiting", "confirmed"}}}
       /\ Cardinality(employees) <= 1
       /\ tokens \in [Email -> {<<>>, <<Earlier>>}]
       /\ \A e \in Email : tokens[e] # <<>> => s[e] = "confirmed"
       /\ mailed = {[email |-> e, kind |-> "reset", code |-> Earlier] :
                      e \in {x \in Email : s[x] = "confirmed"}}
                   \cup {[email |-> e, kind |-> "confirm", code |-> Earlier] :
                           e \in {x \in Email : s[x] = "waiting"}}
  /\ employers = {}
  /\ recent \in [Email -> {NoCode, Earlier}]
  /\ \A e \in Email : recent[e] = Earlier => tokens[e] = <<Earlier>>
  /\ pc = [p \in Proc |-> "idle"]
  /\ req = [p \in Proc |-> NoRequest]

-----------------------------------------------------------------------------
(* Control *)

At(p, ops, label) == pc[p] = label /\ req[p].op \in ops

Goto(p, label) == pc' = [pc EXCEPT ![p] = label] /\ UNCHANGED req

stores == <<users, employees, employers, tokens, mailed>>

\* An exception.  Nobody awaits the "resend" chain: its rejection is unhandled
\* and ends the Node process with every call chain in it.
Fail(p) ==
  LET P == IF p[2] = "resend" THEN Active ELSE {p}
  IN  pc' = [q \in Proc |-> IF q \in P THEN "failed" ELSE pc[q]] /\ UNCHANGED req

\* The client gets an error and a new confirmation code is on its way.
FailAndResend(p) ==
  LET bg == <<p[1], "resend">>
  IN  /\ pc' = [pc EXCEPT ![p] = "failed", ![bg] = "name"]
      /\ req' = [req EXCEPT ![bg] = [req[p] EXCEPT !.op = "resend"]]

\* Any awaited call may throw; the process may stop.
CallFails(p) == p \in Active /\ Fail(p) /\ UNCHANGED stores

ProcessExit ==
  /\ Active # {}
  /\ pc' = [p \in Proc |-> IF p \in Active THEN "failed" ELSE pc[p]]
  /\ UNCHANGED <<stores, req>>

\* The calls that are answered with a refresh token.
Sessions == {"social", "login", "refresh"}

\* What a client may present: a code it was mailed, or something else, and a
\* refresh token that it was given.
Presented(op, e) ==
  CASE op \in {"reset", "confirm"} ->
         {Wrong} \cup {m.code : m \in {x \in mailed : x.email = e}}
    [] op = "refresh" ->
         {Earlier} \cup {req[p].issued : p \in
                           {q \in Proc : /\ pc[q] = "answered"
                                         /\ req[q].op \in Sessions
                                         /\ req[q].email = e}}
    [] OTHER -> {NoCode}

Keys(op) == CASE op = "signupEmployee" -> Key \cup {NoKey}
              [] op = "signupEmployer" -> Key
              [] OTHER -> {NoKey}

Arrive(r) ==
  LET p == <<r, "http">>
  IN  /\ pc[p] = "idle"
      /\ \E op \in Ops, e \in Email :
           \E k \in Keys(op), t \in Presented(op, e),
              b \in IF op = "signupEmployer" THEN BOOLEAN ELSE {FALSE} :
             req' = [req EXCEPT ![p] = [op |-> op, email |-> e, key |-> k,
                                        slug |-> b, token |-> t, next |-> 0,
                                        issued |-> NoCode]]
      /\ pc' = [pc EXCEPT ![p] = "read"]
      /\ UNCHANGED stores

-----------------------------------------------------------------------------
(* Signup *)

EmployeeOf(e) == \E x \in employees : x.user = e
EmployerOf(e) == \E x \in employers : x.user = e

\* findByUserId of the service that the role names.
HasEntity(e) ==
  IF users[e].role = "employee" THEN EmployeeOf(e) ELSE EmployerOf(e)

\* isUserCreated
CheckEmployee(p) ==
  /\ \/ At(p, {"signupEmployee"}, "read") \/ At(p, {"social"}, "check")
  /\ IF \/ users[req[p].email] # NoUser
        \/ \E x \in employees : x.cpf # NoKey /\ x.cpf = req[p].key
     THEN Fail(p)
     ELSE Goto(p, "user")
  /\ UNCHANGED stores

CheckEmployer(p) ==
  /\ At(p, {"signupEmployer"}, "read")
  /\ IF \E x \in employers : x.cnpj = req[p].key THEN Fail(p) ELSE Goto(p, "user")
  /\ UNCHANGED stores

NewUser(p) ==
  LET social == req[p].op = "social"
  IN  [role |-> IF req[p].op = "signupEmployer" THEN "employer" ELSE "employee",
       password |-> ~social, social |-> social, confirmed |-> social,
       code |-> IF social THEN NoCode ELSE p,
       codeAge |-> IF social THEN "none" ELSE "valid",
       reset |-> NoCode, resetAge |-> "none"]

\* Faulty variant: an email that is taken is given the new role and password.
CreateUserAnyway(p) ==
  /\ pc[p] = "user"
  /\ users' = [users EXCEPT ![req[p].email] = NewUser(p)]
  /\ Goto(p, IF req[p].op = "signupEmployer" THEN "entity" ELSE "last")
  /\ UNCHANGED <<employees, employers, tokens, mailed>>

\* createUser: the exists() check or, after it, the unique index on email.
CreateUser(p) ==
  LET e == req[p].email
  IN  /\ pc[p] = "user"
      /\ IF users[e] # NoUser
         THEN Fail(p) /\ UNCHANGED users
         ELSE /\ users' = [users EXCEPT ![e] = NewUser(p)]
              /\ Goto(p, IF req[p].op = "signupEmployer" THEN "entity" ELSE "last")
      /\ UNCHANGED <<employees, employers, tokens, mailed>>

\* The last externalId plus one, in a read of its own.
LastEmployee(p) ==
  LET ids == {x.externalId : x \in employees}
      next == IF ids = {} THEN 0
              ELSE 1 + CHOOSE i \in ids : \A j \in ids : j <= i
  IN  /\ pc[p] = "last"
      /\ req' = [req EXCEPT ![p].next = next]
      /\ pc' = [pc EXCEPT ![p] = "entity"]
      /\ UNCHANGED stores

\* Faulty variant: the promise of employeeModel.create is not awaited.
CreateEmployeeUnawaited(p) ==
  LET doc == [user |-> req[p].email, cpf |-> req[p].key, externalId |-> req[p].next]
      taken == \E x \in employees : \/ x.externalId = doc.externalId
                                    \/ x.cpf # NoKey /\ x.cpf = doc.cpf
  IN  /\ At(p, {"signupEmployee", "social"}, "entity")
      /\ employees' = IF taken THEN employees ELSE employees \cup {doc}
      /\ Goto(p, IF req[p].op = "social" THEN "find" ELSE "mail")
      /\ UNCHANGED <<users, employers, tokens, mailed>>

\* employeeModel.create; cpf and externalId are sparse unique indexes.
CreateEmployee(p) ==
  LET doc == [user |-> req[p].email, cpf |-> req[p].key, externalId |-> req[p].next]
  IN  /\ At(p, {"signupEmployee", "social"}, "entity")
      /\ IF \E x \in employees : \/ x.externalId = doc.externalId
                                 \/ x.cpf # NoKey /\ x.cpf = doc.cpf
         THEN Fail(p) /\ UNCHANGED employees
         ELSE /\ employees' = employees \cup {doc}
              /\ Goto(p, IF req[p].op = "social" THEN "find" ELSE "mail")
      /\ UNCHANGED <<users, employers, tokens, mailed>>

\* employer.save(): the hook derives the slug from the business name.  cnpj and
\* slug are unique indexes, and slug is not sparse: a missing one counts.
CreateEmployer(p) ==
  LET doc == [user |-> req[p].email, cnpj |-> req[p].key,
              slug |-> IF req[p].slug THEN req[p].key ELSE NoKey]
  IN  /\ At(p, {"signupEmployer"}, "entity")
      /\ IF \E x \in employers : x.cnpj = doc.cnpj \/ x.slug = doc.slug
         THEN Fail(p) /\ UNCHANGED employers
         ELSE employers' = employers \cup {doc} /\ Goto(p, "mail")
      /\ UNCHANGED <<users, employees, tokens, mailed>>

\* sendEmailConfirmation logs a failure and returns: the mail may be lost.
SendConfirmation(p) ==
  /\ At(p, {"signupEmployee", "signupEmployer", "resend"}, "mail")
  /\ \/ mailed' = mailed \cup {[email |-> req[p].email, kind |-> "confirm", code |-> p]}
     \/ UNCHANGED mailed
  /\ Goto(p, "answered")
  /\ UNCHANGED <<users, employees, employers, tokens>>

-----------------------------------------------------------------------------
(* Sessions *)

\* validateUser; an absent user or a wrong password is CallFails.
LoginRead(p) ==
  LET u == users[req[p].email]
  IN  /\ At(p, {"login"}, "read")
      /\ IF u = NoUser \/ (u # NoUser /\ ~u.password) THEN Fail(p)
         ELSE IF u.confirmed THEN Goto(p, "find")
         ELSE IF u.codeAge \in {"valid", "expired"} THEN Fail(p)
         ELSE FailAndResend(p)
      /\ UNCHANGED stores

\* googleSignin and facebookSignin
SocialRead(p) ==
  LET u == users[req[p].email]
  IN  /\ At(p, {"social"}, "read")
      /\ IF u = NoUser THEN Goto(p, "check")
         ELSE IF u.role # "employee" THEN Fail(p)
         ELSE Goto(p, IF u.social THEN "find" ELSE "link")
      /\ UNCHANGED stores

SocialLink(p) ==
  /\ At(p, {"social"}, "link")
  /\ users' = [users EXCEPT ![req[p].email].social = TRUE]
  /\ Goto(p, "find")
  /\ UNCHANGED <<employees, employers, tokens, mailed>>

\* findByUserId dereferences the entity: a half registered user throws.
FindEntity(p) ==
  /\ At(p, {"login", "social", "confirm"}, "find")
  /\ IF ~HasEntity(req[p].email) THEN Fail(p)
     ELSE Goto(p, IF req[p].op = "confirm" THEN "answered" ELSE "sign")
  /\ UNCHANGED stores

\* findOne({ user }) returns the oldest row, and the token must be the one in it.
Accepts(e, t) == tokens[e] # <<>> /\ Head(tokens[e]) = t

RefreshRead(p) ==
  /\ At(p, {"refresh"}, "read")
  /\ IF Accepts(req[p].email, req[p].token) THEN Goto(p, "sign") ELSE Fail(p)
  /\ UNCHANGED stores

\* jwtService.sign: the payload names the user, its entity and the second, and
\* nothing else, so a second token of the same second is the same string.
Sign(p) ==
  LET e == req[p].email
      token == IF recent[e] = NoCode THEN p ELSE recent[e]
  IN  /\ pc[p] = "sign"
      /\ req' = [req EXCEPT ![p].issued = token]
      /\ recent' = [recent EXCEPT ![e] = token]
      /\ pc' = [pc EXCEPT ![p] = "rotate"]
      /\ UNCHANGED stores

\* The clock of the server gets to the next second.
NewSecond ==
  /\ \E e \in Email : recent[e] # NoCode
  /\ recent' = [e \in Email |-> NoCode]
  /\ UNCHANGED <<stores, pc, req>>

\* Faulty variant: every token gets a row of its own.
RotateAlwaysInserts(p) ==
  /\ pc[p] = "rotate"
  /\ Goto(p, "insert")
  /\ UNCHANGED stores

\* generateRefreshToken: findOneAndUpdate, and an insert when it returned null.
Rotate(p) ==
  LET e == req[p].email
  IN  /\ pc[p] = "rotate"
      /\ IF tokens[e] = <<>>
         THEN Goto(p, "insert") /\ UNCHANGED tokens
         ELSE tokens' = [tokens EXCEPT ![e][1] = req[p].issued] /\ Goto(p, "answered")
      /\ UNCHANGED <<users, employees, employers, mailed>>

InsertToken(p) ==
  /\ pc[p] = "insert"
  /\ tokens' = [tokens EXCEPT ![req[p].email] = Append(@, req[p].issued)]
  /\ Goto(p, "answered")
  /\ UNCHANGED <<users, employees, employers, mailed>>

-----------------------------------------------------------------------------
(* Password and confirmation codes *)

\* requestResetPasswordCode stores the code before it looks at the account.
Forgot(p) ==
  LET e == req[p].email
      u == users[e]
  IN  /\ \/ At(p, {"forgot"}, "read") \/ At(p, {"reset"}, "forgot")
      /\ IF u = NoUser THEN Goto(p, "answered") /\ UNCHANGED users
         ELSE /\ users' = [users EXCEPT ![e].reset = p, ![e].resetAge = "valid"]
              /\ IF u.confirmed THEN Goto(p, "name") ELSE FailAndResend(p)
      /\ UNCHANGED <<employees, employers, tokens, mailed>>

FindName(p) ==
  /\ pc[p] = "name"
  /\ IF ~HasEntity(req[p].email) THEN Fail(p)
     ELSE Goto(p, IF req[p].op = "resend" THEN "code" ELSE "mail")
  /\ UNCHANGED stores

\* A reset that asked for a new code answers with an error in any case.
SendResetCode(p) ==
  /\ At(p, {"forgot", "reset"}, "mail")
  /\ mailed' = mailed \cup {[email |-> req[p].email, kind |-> "reset", code |-> p]}
  /\ Goto(p, IF req[p].op = "forgot" THEN "answered" ELSE "failed")
  /\ UNCHANGED <<users, employees, employers, tokens>>

ResetRead(p) ==
  LET u == users[req[p].email]
  IN  /\ At(p, {"reset"}, "read")
      /\ IF u = NoUser THEN Fail(p)
         ELSE Goto(p, IF u.resetAge = "valid" /\ u.reset = req[p].token
                      THEN "write" ELSE "forgot")
      /\ UNCHANGED stores

\* Faulty variant: the code outlives the password it changed.
ResetWriteKeepsCode(p) ==
  /\ At(p, {"reset"}, "write")
  /\ users' = [users EXCEPT ![req[p].email].password = TRUE]
  /\ Goto(p, "answered")
  /\ UNCHANGED <<employees, employers, tokens, mailed>>

\* Faulty variant: the cleared code and its date are exchanged.
ResetWriteSwapped(p) ==
  /\ At(p, {"reset"}, "write")
  /\ users' = [users EXCEPT ![req[p].email].password = TRUE,
                            ![req[p].email].reset = "none",
                            ![req[p].email].resetAge = NoCode]
  /\ Goto(p, "answered")
  /\ UNCHANGED <<employees, employers, tokens, mailed>>

ResetWrite(p) ==
  /\ At(p, {"reset"}, "write")
  /\ users' = [users EXCEPT ![req[p].email].password = TRUE,
                            ![req[p].email].reset = NoCode,
                            ![req[p].email].resetAge = "none"]
  /\ Goto(p, "answered")
  /\ UNCHANGED <<employees, employers, tokens, mailed>>

ConfirmRead(p) ==
  LET u == users[req[p].email]
  IN  /\ At(p, {"confirm"}, "read")
      /\ IF u = NoUser \/ (u # NoUser /\ u.confirmed) THEN Fail(p)
         ELSE IF u.codeAge = "valid" /\ u.code = req[p].token THEN Goto(p, "write")
         ELSE FailAndResend(p)
      /\ UNCHANGED stores

ConfirmWrite(p) ==
  LET e == req[p].email
  IN  /\ At(p, {"confirm"}, "write")
      /\ users' = [users EXCEPT ![e].confirmed = TRUE, ![e].code = NoCode,
                                ![e].codeAge = "none"]
      /\ Goto(p, "find")
      /\ UNCHANGED <<employees, employers, tokens, mailed>>

\* PUT resend-email-confirmation looks the user up; the background chain got it.
ResendRead(p) ==
  LET u == users[req[p].email]
  IN  /\ At(p, {"resend"}, "read")
      /\ IF u = NoUser \/ (u # NoUser /\ u.confirmed) THEN Fail(p) ELSE Goto(p, "name")
      /\ UNCHANGED stores

\* Faulty variant: the update carries the whole user as it was looked up.
StoreCodeUnconfirms(p) ==
  LET e == req[p].email
  IN  /\ At(p, {"resend"}, "code")
      /\ users' = [users EXCEPT ![e].code = p, ![e].codeAge = "valid",
                                ![e].confirmed = FALSE]
      /\ Goto(p, "mail")
      /\ UNCHANGED <<employees, employers, tokens, mailed>>

\* The account may have been confirmed since it was looked up.
StoreCode(p) ==
  LET e == req[p].email
  IN  /\ At(p, {"resend"}, "code")
      /\ users' = [users EXCEPT ![e].code = p, ![e].codeAge = "valid"]
      /\ Goto(p, "mail")
      /\ UNCHANGED <<employees, employers, tokens, mailed>>

\* Time passes: a code expires, and five minutes later login sends another one.
Expire(e) ==
  /\ users[e] # NoUser
  /\ \/ /\ users[e].codeAge \in {"valid", "expired"}
        /\ users' = [users EXCEPT ![e].codeAge = IF @ = "valid" THEN "expired" ELSE "old"]
     \/ /\ users[e].resetAge = "valid"
        /\ users' = [users EXCEPT ![e].resetAge = "expired"]
  /\ UNCHANGED <<employees, employers, tokens, mailed, pc, req>>

-----------------------------------------------------------------------------
Progress(p) ==
  \/ CheckEmployee(p) \/ CheckEmployer(p) \/ CreateUser(p) \/ LastEmployee(p)
  \/ CreateEmployee(p) \/ CreateEmployer(p) \/ SendConfirmation(p)
  \/ LoginRead(p) \/ SocialRead(p) \/ SocialLink(p) \/ FindEntity(p)
  \/ RefreshRead(p) \/ Rotate(p) \/ InsertToken(p)
  \/ Forgot(p) \/ FindName(p) \/ SendResetCode(p) \/ ResetRead(p) \/ ResetWrite(p)
  \/ ConfirmRead(p) \/ ConfirmWrite(p) \/ ResendRead(p) \/ StoreCode(p)

\* The steps that neither sign a token nor see the clock.
SignsNothing ==
  \/ \E r \in Req : Arrive(r)
  \/ \E p \in Proc : Progress(p) \/ CallFails(p)
  \/ ProcessExit
  \/ \E e \in Email : Expire(e)

Next ==
  \/ SignsNothing /\ UNCHANGED recent
  \/ \E p \in Proc : Sign(p)
  \/ NewSecond

Spec == Init /\ [][Next]_vars

-----------------------------------------------------------------------------
(* Properties *)

TypeOK ==
  /\ users \in [Email -> User \cup {NoUser}]
  /\ employees \subseteq EmployeeDoc
  /\ employers \subseteq EmployerDoc
  /\ tokens \in [Email -> Seq(Code)]
  /\ mailed \subseteq Mail
  /\ recent \in [Email -> Code \cup {NoCode}]
  /\ pc \in [Proc -> Label]
  /\ req \in [Proc -> Request \cup {NoRequest}]
  /\ \A p \in Proc : pc[p] # "idle" /\ req[p] = NoRequest => pc[p] = "failed"

Answered(p, ops) == pc[p] = "answered" /\ req[p].op \in ops

\* A signup that was answered left both documents, whatever signups of the same
\* email, CPF, CNPJ or externalId raced with it: a half registered user is only
\* left by a request that got an error or was cut off.
SignupAnswered ==
  \A p \in Proc :
    /\ Answered(p, {"signupEmployee", "social"}) => EmployeeOf(req[p].email)
    /\ Answered(p, {"signupEmployer"}) => EmployerOf(req[p].email)

\* A user is an employee or an employer, never both, and once: the entity agrees
\* with the role by which every handler looks it up.
OneEntityPerUser ==
  /\ \A x \in employees : users[x.user] # NoUser /\ users[x.user].role = "employee"
  /\ \A x \in employers : users[x.user] # NoUser /\ users[x.user].role = "employer"
  /\ \A x, y \in employees : x.user = y.user => x = y
  /\ \A x, y \in employers : x.user = y.user => x = y

\* The token t of user e was signed for another call than the one it is named for.
SignedTwice(e, t) ==
  \E q \in Proc \ {t} : /\ Answered(q, Sessions)
                        /\ req[q].email = e /\ req[q].issued = t

\* A refresh token that has been exchanged is never accepted again, also when
\* concurrent first logins left the user with several rows, unless the very same
\* string was signed twice: another sign-in or refresh of the user, or this one,
\* got it within the second in which it was signed first.
ExchangedTokenDead ==
  \A p \in Proc : /\ Answered(p, {"refresh"})
                  /\ Accepts(req[p].email, req[p].token)
                  => SignedTwice(req[p].email, req[p].token)

\* A password code that has changed a password passes the check of no request
\* that reads the user afterwards, whatever codes are requested meanwhile.
UsedCodeRejected ==
  [][\A p \in Proc :
       /\ pc[p] = "read" /\ req[p].op = "reset" /\ pc'[p] = "write"
       => \A q \in Proc : ~(/\ Answered(q, {"reset"})
                            /\ req[q].email = req[p].email
                            /\ req[q].token = req[p].token)]_vars

\* A confirmed account stays confirmed, although resends that looked the user up
\* before the confirmation store their codes after it.
ConfirmedForGood ==
  [][\A e \in Email : users[e] # NoUser /\ users[e].confirmed =>
       users'[e] # NoUser /\ users'[e].confirmed]_vars
=============================================================================
