--------------------------- MODULE Authorization ---------------------------
(***************************************************************************)
(* Roles and permissions: the migrations that store them, with the seeds   *)
(* that run between them, and the ability that a request computes from     *)
(* what is stored (casl-ability.factory.ts).                               *)
(*                                                                         *)
(* A migration is a list of commands; each is one action, since a single   *)
(* process runs them one after the other.  `up' applies the files that the *)
(* changelog does not have, in order, and records each when it has ended;  *)
(* `down' takes back the last one.  A process may stop between any two     *)
(* commands, and the next one starts the unrecorded file from its          *)
(* beginning.                                                              *)
(*                                                                         *)
(* A stored document is a record with the number of the insertion that     *)
(* made it: its name and that number are its identity, and what find       *)
(* returns first.  A table of seed data is one of its rows.                *)
(***************************************************************************)
EXTENDS Naturals, Sequences, Functions

CONSTANTS Employees,  \* users who sign up as employees
          Employers,  \* users who sign up as employers
          MaxUps,     \* bound on the runs of `up'
          MaxCuts     \* bound on the runs that stop before their end

ASSUME AuthorizationAssumption ==
  /\ Employees \cap Employers = {}
  /\ MaxUps \in Nat /\ MaxCuts \in Nat

VARIABLES subjects,     \* the stored subjects
          permissions,  \* the stored permissions
          roles,        \* the stored roles
          rows,         \* the copies of a seeded row, by file
          indexed,      \* the collections with a unique index on name
          applied,      \* the number of files in the changelog
          run,          \* the migration process
          last,         \* the number of the last insertion
          ups, cuts,    \* runs of `up', and runs that were cut short
          cutDown,      \* whether a `down' was cut short
          users         \* the role that a user refers to

data == <<subjects, permissions, roles, rows>>
history == <<ups, cuts, cutDown>>
vars == <<data, indexed, applied, run, last, history, users>>

Users == Employees \cup Employers
RoleOf(u) == IF u \in Employees THEN "employee" ELSE "employer"
NoRole == <<>>

Files == <<"authorization", "states", "universities", "languages", "benefits", "tools",
           "segments", "new-languages", "permissions-jobs", "courses">>

\* The names of the list that occur elsewhere.
DefaultSubjects == <<"all", "users", "employees", "employers", "states", "universities", "courses">>

\* The seeds that also store their subject, and those that delete one row per name.
WithSubject == {"states", "universities", "courses"}
RowByRow == {"languages", "benefits", "new-languages"}

Named(D, name) == {d \in D : d.name = name}
Stored(D, name) == Named(D, name) # {}
Oldest(D) == CHOOSE d \in D : \A x \in D : d.batch <= x.batch
FindOne(D, name) == Oldest(Named(D, name))
DeleteOne(D, name) == IF Stored(D, name) THEN D \ {FindOne(D, name)} ELSE D

-----------------------------------------------------------------------------
(* The process *)

\* The commands of a file, to apply it and to take it back.
Steps(does, f) ==
  LET up == does = "up"
  IN  CASE f = "authorization" ->
             IF up THEN <<"subjects", "permissions", "roles">>
                   ELSE <<"roles", "permissions", "subjects">>
        [] f = "permissions-jobs" ->
             IF up THEN <<"subject", "permissions", "employee", "employer">>
                   ELSE <<"employer", "employee", "permissions", "subject">>
        [] f \in WithSubject -> IF up THEN <<"subject", "rows">> ELSE <<"rows", "subject">>
        [] OTHER -> <<"rows">>

Idle == [does |-> "nothing", file |-> 0, step |-> 0, left |-> {}]

Begin(does, n) ==
  [does |-> does, file |-> n, step |-> 1,
   left |-> IF does = "down" /\ n = 1 THEN Range(DefaultSubjects) ELSE {}]

Running == run.does # "nothing"
File == Files[run.file]
Ended == run.step > Len(Steps(run.does, File))

At(does, f, step) ==
  Running /\ ~Ended /\ run.does = does /\ File = f /\ Steps(does, f)[run.step] = step

Advance == [run EXCEPT !.step = @ + 1]

\* insertMany stops at the first document that the unique index refuses.
Accepted(coll, stored, names) ==
  LET ok == {n \in 0..Len(names) :
               \A i \in 1..n : coll \in indexed => ~Stored(stored, names[i])}
  IN  CHOOSE n \in ok : \A m \in ok : m <= n

InsertSubjects(names) ==
  LET n == Accepted("subjects", subjects, names)
  IN  /\ last' = last + 1
      /\ subjects' = subjects \cup {[name |-> names[i], batch |-> last + 1] : i \in 1..n}
      /\ run' = IF n = Len(names) THEN Advance ELSE Idle
      /\ UNCHANGED <<permissions, roles, rows, indexed, applied, history, users>>

InsertPermissions(set) ==
  /\ last' = last + 1
  /\ permissions' = permissions \cup set
  /\ run' = Advance
  /\ UNCHANGED <<subjects, roles, rows, indexed, applied, history, users>>

\* What this run has just inserted: the driver has put the ids into the filters.
Mine == {p \in permissions : p.batch = last}

\* A permission that the next insertion stores.
Perm(action, s, condition) ==
  [action |-> action, subject |-> s, condition |-> condition, batch |-> last + 1]

On(name) == FindOne(subjects, name)

-----------------------------------------------------------------------------
(* Authorization, up and down *)

RUD == {"read", "update", "delete"}

UserPermissions == {Perm(a, On("users"), "self") : a \in RUD}

\* Of one's own kind each may change its own record, of the other kind see all.
EntityPermissions(own, other) ==
  {Perm(a, On(own), "own") : a \in RUD} \cup {Perm("read", On(other), "none")}

UpSubjects == At("up", "authorization", "subjects") /\ InsertSubjects(DefaultSubjects)

UpPermissions ==
  /\ At("up", "authorization", "permissions")
  /\ InsertPermissions(EntityPermissions("employees", "employers")
                         \cup EntityPermissions("employers", "employees")
                         \cup {Perm("manage", On("all"), "none")} \cup UserPermissions)

\* What a role is given is found by its fields, whichever run has stored it.
OfEntity(own, other) ==
  {p \in permissions :
     \/ p.action \in RUD /\ p.subject = On(own) /\ p.condition # "none"
     \/ p.action = "read" /\ p.subject = On(other) /\ p.condition = "none"}

RoleGrants(name) ==
  LET self == {p \in Mine : p.subject = On("users")}
  IN  CASE name = "admin" -> {p \in permissions : p.action = "manage" /\ p.subject = On("all")}
        [] name = "employee" -> OfEntity("employees", "employers") \cup self
        [] name = "employer" -> OfEntity("employers", "employees") \cup self

UpRoles ==
  LET names == <<"admin", "employee", "employer">>
      n == Accepted("roles", roles, names)
  IN  /\ At("up", "authorization", "roles")
      /\ last' = last + 1
      /\ roles' = roles \cup
           {[name |-> names[i], batch |-> last + 1, permissions |-> RoleGrants(names[i])] :
              i \in 1..n}
      /\ run' = IF n = Len(names) THEN Advance ELSE Idle
      /\ UNCHANGED <<subjects, permissions, rows, indexed, applied, history, users>>

\* down reads the ids of four subjects first, and throws when one is not there.
FoundSubjects == \A n \in {"employees", "employers", "all", "users"} : Stored(subjects, n)

DownRoles ==
  /\ At("down", "authorization", "roles")
  /\ IF FoundSubjects
     THEN roles' = {r \in roles : r.name \notin {"admin", "employee", "employer"}}
            /\ run' = Advance
     ELSE run' = Idle /\ UNCHANGED roles
  /\ UNCHANGED <<subjects, permissions, rows, indexed, applied, last, history, users>>

DownPermissions ==
  /\ At("down", "authorization", "permissions")
  /\ permissions' = permissions \ (OfEntity("employees", "employers")
                                     \cup OfEntity("employers", "employees")
                                     \cup {p \in permissions :
                                             p.subject \in {On("all"), On("users")}})
  /\ run' = Advance
  /\ UNCHANGED <<subjects, roles, rows, indexed, applied, last, history, users>>

\* The deletions of the subjects are sent together.
DownSubject ==
  /\ At("down", "authorization", "subjects")
  /\ \E name \in run.left :
       /\ subjects' = DeleteOne(subjects, name)
       /\ run' = IF run.left = {name} THEN Advance ELSE [run EXCEPT !.left = @ \ {name}]
  /\ UNCHANGED <<permissions, roles, rows, indexed, applied, last, history, users>>

-----------------------------------------------------------------------------
(* Permissions about jobs, up and down *)

UpJobsSubject == At("up", "permissions-jobs", "subject") /\ InsertSubjects(<<"jobs">>)

\* One of the permissions is the employees': to read, without a condition.
UpJobsPermissions ==
  /\ At("up", "permissions-jobs", "permissions")
  /\ InsertPermissions({Perm("create", On("jobs"), "role"), Perm("read", On("jobs"), "none")}
                         \cup {Perm(a, On("jobs"), "company") : a \in RUD})

\* updateOne changes the first role of the name, if there is one.
SetGrants(name, pulled, pushed) ==
  roles' = {IF r.name = name /\ r = FindOne(roles, name)
            THEN [r EXCEPT !.permissions = (@ \ pulled) \cup pushed]
            ELSE r : r \in roles}

\* Faulty variant: the new permissions replace the others.
PushGrantsSet(name, set) ==
  SetGrants(name, UNION {r.permissions : r \in roles}, set)

PushGrants(name, set) == SetGrants(name, {}, set)

PullGrants(name, set) == SetGrants(name, set, {})

\* Faulty variant: the employee is given all that were inserted.
UpJobsEmployeeAll ==
  /\ At("up", "permissions-jobs", "employee")
  /\ PushGrants("employee", Mine)
  /\ run' = Advance
  /\ UNCHANGED <<subjects, permissions, rows, indexed, applied, last, history, users>>

UpJobsEmployee ==
  /\ At("up", "permissions-jobs", "employee")
  /\ PushGrants("employee", {p \in Mine : p.condition = "none"})
  /\ run' = Advance
  /\ UNCHANGED <<subjects, permissions, rows, indexed, applied, last, history, users>>

UpJobsEmployer ==
  /\ At("up", "permissions-jobs", "employer")
  /\ PushGrants("employer", {p \in Mine : p.condition # "none"})
  /\ run' = Advance
  /\ UNCHANGED <<subjects, permissions, rows, indexed, applied, last, history, users>>

JobsOfEmployer ==
  {p \in permissions : p.subject = On("jobs") /\ p.condition \in {"role", "company"}}

\* By its fields this also finds the employers' reading.
JobsOfEmployee == {p \in permissions : p.subject = On("jobs") /\ p.action = "read"}

DownJobsEmployer ==
  /\ At("down", "permissions-jobs", "employer")
  /\ IF Stored(subjects, "jobs")
     THEN PullGrants("employer", JobsOfEmployer) /\ run' = Advance
     ELSE run' = Idle /\ UNCHANGED roles
  /\ UNCHANGED <<subjects, permissions, rows, indexed, applied, last, history, users>>

\* Faulty variant: what is found for the employers is pulled from both roles.
DownJobsEmployeeSame ==
  /\ At("down", "permissions-jobs", "employee")
  /\ PullGrants("employee", JobsOfEmployer)
  /\ run' = Advance
  /\ UNCHANGED <<subjects, permissions, rows, indexed, applied, last, history, users>>

DownJobsEmployee ==
  /\ At("down", "permissions-jobs", "employee")
  /\ PullGrants("employee", JobsOfEmployee)
  /\ run' = Advance
  /\ UNCHANGED <<subjects, permissions, rows, indexed, applied, last, history, users>>

DownJobsPermissions ==
  /\ At("down", "permissions-jobs", "permissions")
  /\ permissions' = permissions \ (JobsOfEmployer \cup JobsOfEmployee)
  /\ run' = Advance
  /\ UNCHANGED <<subjects, roles, rows, indexed, applied, last, history, users>>

DownJobsSubject ==
  /\ At("down", "permissions-jobs", "subject")
  /\ subjects' = DeleteOne(subjects, "jobs")
  /\ run' = Advance
  /\ UNCHANGED <<permissions, roles, rows, indexed, applied, last, history, users>>

-----------------------------------------------------------------------------
(* Seeds *)

UpSeedSubject ==
  \E f \in WithSubject : At("up", f, "subject") /\ InsertSubjects(<<f>>)

\* Faulty variant: the subject is left to the first file, which also has it.
DownSeedSubjectLeft ==
  /\ \E f \in WithSubject : At("down", f, "subject")
  /\ run' = Advance
  /\ UNCHANGED <<data, indexed, applied, last, history, users>>

DownSeedSubject ==
  /\ \E f \in WithSubject :
       At("down", f, "subject") /\ subjects' = DeleteOne(subjects, f)
  /\ run' = Advance
  /\ UNCHANGED <<permissions, roles, rows, indexed, applied, last, history, users>>

\* Nothing keeps a seed that was cut short from being stored twice.
UpRows ==
  /\ \E f \in DOMAIN rows : At("up", f, "rows") /\ rows' = [rows EXCEPT ![f] = @ + 1]
  /\ run' = Advance
  /\ UNCHANGED <<subjects, permissions, roles, indexed, applied, last, history, users>>

\* deleteMany takes back every copy.
DownRows ==
  /\ \E f \in DOMAIN rows \ RowByRow :
       At("down", f, "rows") /\ rows' = [rows EXCEPT ![f] = 0]
  /\ run' = Advance
  /\ UNCHANGED <<subjects, permissions, roles, indexed, applied, last, history, users>>

\* deleteOne takes back one of the copies.
DownEachRow ==
  /\ \E f \in RowByRow :
       At("down", f, "rows") /\ rows' = [rows EXCEPT ![f] = IF @ > 0 THEN @ - 1 ELSE 0]
  /\ run' = Advance
  /\ UNCHANGED <<subjects, permissions, roles, indexed, applied, last, history, users>>

-----------------------------------------------------------------------------
(* Runs and the application *)

Up ==
  /\ ~Running /\ ups < MaxUps /\ applied < Len(Files)
  /\ run' = Begin("up", applied + 1) /\ ups' = ups + 1
  /\ UNCHANGED <<data, indexed, applied, last, cuts, cutDown, users>>

Down ==
  /\ ~Running /\ applied > 0
  /\ run' = Begin("down", applied)
  /\ UNCHANGED <<data, indexed, applied, last, history, users>>

Record ==
  /\ Running /\ Ended
  /\ applied' = IF run.does = "up" THEN run.file ELSE run.file - 1
  /\ run' = IF run.does = "up" /\ run.file < Len(Files) THEN Begin("up", run.file + 1) ELSE Idle
  /\ UNCHANGED <<data, indexed, last, history, users>>

\* A command throws, or the process ends.
Cut ==
  /\ Running /\ cuts < MaxCuts
  /\ run' = Idle /\ cuts' = cuts + 1 /\ cutDown' = (cutDown \/ run.does = "down")
  /\ UNCHANGED <<data, indexed, applied, last, ups, users>>

Distinct(D) == \A d \in D : Named(D, d.name) = {d}

\* mongoose builds the unique indexes when the application starts; it cannot where
\* names occur twice.
AppStart ==
  /\ indexed' = indexed \cup {c \in {"subjects", "roles"} :
                               Distinct(IF c = "roles" THEN roles ELSE subjects)}
  /\ UNCHANGED <<data, applied, run, last, history, users>>

\* A user refers to the role of that name for ever; without one the signup throws.
SignUp(u) ==
  /\ users[u] = NoRole /\ Stored(roles, RoleOf(u))
  /\ LET r == FindOne(roles, RoleOf(u))
     IN  users' = [users EXCEPT ![u] = <<r.name, r.batch>>]
  /\ UNCHANGED <<data, indexed, applied, run, last, history>>

Init ==
  /\ subjects = {} /\ permissions = {} /\ roles = {}
  /\ rows = [f \in Range(Files) \ {"authorization", "permissions-jobs"} |-> 0]
  /\ indexed = {} /\ applied = 0 /\ run = Idle /\ last = 0
  /\ ups = 0 /\ cuts = 0 /\ cutDown = FALSE
  /\ users = [u \in Users |-> NoRole]

Next ==
  \/ UpSubjects \/ UpPermissions \/ UpRoles
  \/ DownRoles \/ DownPermissions \/ DownSubject
  \/ UpJobsSubject \/ UpJobsPermissions \/ UpJobsEmployee \/ UpJobsEmployer
  \/ DownJobsEmployer \/ DownJobsEmployee \/ DownJobsPermissions \/ DownJobsSubject
  \/ UpSeedSubject \/ DownSeedSubject \/ UpRows \/ DownRows \/ DownEachRow
  \/ Up \/ Down \/ Record \/ Cut
  \/ AppStart \/ \E u \in Users : SignUp(u)

Spec == Init /\ [][Next]_vars

-----------------------------------------------------------------------------
(* The ability of a user: what its token may do to an object *)

HasRole(u) == \E r \in roles : <<r.name, r.batch>> = users[u]

Granted(u) ==
  LET r == CHOOSE r \in roles : <<r.name, r.batch>> = users[u]
  IN  r.permissions \cap permissions

\* What is asked where a route names the kind of a record and no record.
KindOnly == <<>>

\* The object's own fields against the token's; a condition on a field that the
\* object does not have is not met.  Of the kind alone every condition is met.
Meets(condition, u, object) ==
  \/ condition = "none"
  \/ object = KindOnly
  \/ condition = "role" /\ "role" \in DOMAIN object /\ object.role \in {"admin", "employer"}
  \/ condition = "company" /\ "employer" \in DOMAIN object /\ object.employer = u
  \/ condition = "own" /\ "user" \in DOMAIN object /\ object.user = u
  \/ condition = "self" /\ "_id" \in DOMAIN object /\ object._id = u

\* Without a role, or with a permission whose subject is gone, the request throws.
Can(u, action, s, object) ==
  /\ HasRole(u)
  /\ \A p \in Granted(u) : p.subject \in subjects
  /\ \E p \in Granted(u) :
       /\ p.action \in {action, "manage"}
       /\ p.subject.name \in {s, "all"}
       /\ Meets(p.condition, u, object)

OwnKind(u) == IF u \in Employees THEN "employees" ELSE "employers"
OtherKind(u) == IF u \in Employees THEN "employers" ELSE "employees"
Of(u) == [user |-> u]
JobOf(e) == [employer |-> e]

\* A PATCH of a job whose body has no employer.
NoCompany == "no company"
Companies == Users \cup {"somebody else"}

\* What the routes of jobs ask when u calls them about a job of e: of the deletion, the
\* steps and the candidates the stored job is asked about, of a PATCH the employer b in
\* its body or else the caller's own, of an image the caller's own, and to create, close
\* or open a job the caller's role.
Asked(u, e, b) ==
  [create |-> [action |-> "create", object |-> [role |-> RoleOf(u)]],
   close  |-> [action |-> "create", object |-> [role |-> RoleOf(u)]],
   patch  |-> [action |-> "update", object |-> JobOf(IF b = NoCompany THEN u ELSE b)],
   image  |-> [action |-> "update", object |-> JobOf(u)],
   steps  |-> [action |-> "update", object |-> JobOf(e)],
   delete |-> [action |-> "delete", object |-> JobOf(e)]]

JobRoutes == {"create", "close", "patch", "image", "steps", "delete"}

MayCall(u, route, e, b) ==
  LET q == Asked(u, e, b)[route] IN Can(u, q.action, "jobs", q.object)

-----------------------------------------------------------------------------
(* Properties *)

\* Whatever runs are cut short and repeated, no role refers to a permission that is
\* gone and no permission to a subject that is gone: such a permission would make
\* every request of every user of the role throw.
ReferencesStored ==
  /\ \A r \in roles : r.permissions \subseteq permissions
  /\ \A p \in permissions : p.subject \in subjects

\* In no state, also between the commands of a migration, does a route let a user do
\* more than its role is meant to: an employee passes the check of no route that creates
\* or changes jobs; of a job of another company nobody deletes the job or changes steps
\* and candidates, and a PATCH never gives a job to another company; nobody passes the
\* check of the other kind's profile.  That a job which is patched, closed, opened or
\* given an image is the caller's own is asked by no route and not claimed.
OnlyItsOwnRights ==
  \A u \in Users, e \in Companies, b \in Companies \cup {NoCompany} :
    /\ \A route \in JobRoutes : MayCall(u, route, e, b) => u \in Employers
    /\ \A route \in {"steps", "delete"} : MayCall(u, route, e, b) => e = u
    /\ MayCall(u, "patch", e, b) => b \in {u, NoCompany}
    /\ ~Can(u, "update", OtherKind(u), KindOnly)

\* When every file is recorded and no `down' was cut short, each user whose role is
\* stored has its rights, however many runs of `up' it took, and so passes the checks of
\* its profile and, as an employer, of all routes of its company's jobs.
RightsComplete ==
  applied = Len(Files) /\ ~Running /\ ~cutDown =>
    \A u \in Users :
      HasRole(u) =>
        /\ Can(u, "update", "users", [_id |-> u])
        /\ \A object \in {Of(u), KindOnly} : Can(u, "update", OwnKind(u), object)
        /\ Can(u, "read", OtherKind(u), Of("somebody else"))
        /\ Can(u, "read", "jobs", JobOf(u))
        /\ u \in Employers => \A route \in JobRoutes : MayCall(u, route, u, NoCompany)

\* If no run was cut short, taking back every file leaves nothing behind, although the
\* first file and three of the seeds store the same subjects.
DownRestores ==
  applied = 0 /\ ~Running /\ cuts = 0 =>
    subjects = {} /\ permissions = {} /\ roles = {} /\ \A f \in DOMAIN rows : rows[f] = 0
=============================================================================
