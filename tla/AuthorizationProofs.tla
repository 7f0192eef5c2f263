------------------------ MODULE AuthorizationProofs ------------------------
(***************************************************************************)
(* Theorems about the roles and permissions: whatever runs of the          *)
(* migrations are cut short, repeated and taken back, every reference      *)
(* between the stored documents is to one that is there (ReferencesStored) *)
(* and no user passes the check of a route that its role is not meant to   *)
(* (OnlyItsOwnRights); once every file has been applied, each user whose   *)
(* role is stored has its rights (RightsComplete); and where no run was    *)
(* cut short, taking back every file leaves nothing behind (DownRestores). *)
(***************************************************************************)
EXTENDS Authorization, WellFoundedInduction, TLAPS

-----------------------------------------------------------------------------
(* The inductive invariant *)

\* Where the process is: the next command of the n-th file.
Here(does, n, k) == run.does = does /\ run.file = n /\ run.step = k

RunType ==
  [does : {"nothing", "up", "down"}, file : 0..10, step : Nat,
   left : SUBSET Range(DefaultSubjects)]

\* `up' works on the file after those recorded, `down' on the last of them.
RunOK ==
  /\ run \in RunType /\ applied \in 0..10 /\ last \in Nat /\ cutDown \in BOOLEAN
  /\ run.does # "nothing" => run.step # 0 /\ run.file # 0
  /\ run.does = "up" => run.file = applied + 1
  /\ run.does = "down" => run.file = applied

Numbered(D) == \A d \in D : d.batch \in 0..last

\* The permissions that a migration ever stores.
Shaped(p) ==
  \/ p.action \in RUD /\ p.subject.name \in {"employees", "employers"} /\ p.condition = "own"
  \/ p.action \in RUD /\ p.subject.name = "users" /\ p.condition = "self"
  \/ p.action \in RUD /\ p.subject.name = "jobs" /\ p.condition = "company"
  \/ /\ p.action = "read" /\ p.subject.name \in {"employees", "employers", "jobs"}
     /\ p.condition = "none"
  \/ p.action = "create" /\ p.subject.name = "jobs" /\ p.condition = "role"
  \/ p.action = "manage" /\ p.subject.name = "all" /\ p.condition = "none"

\* Those of them that a role may hold.
Allowed(name, p) ==
  CASE name = "admin" -> p.action = "manage"
    [] name = "employee" ->
         \/ p.condition = "own" /\ p.subject.name = "employees"
         \/ p.condition = "self"
         \/ p.action = "read" /\ p.condition = "none" /\ p.subject.name \in {"employers", "jobs"}
    [] name = "employer" ->
         \/ p.condition = "own" /\ p.subject.name = "employers"
         \/ p.condition \in {"self", "company", "role"}
         \/ p.action = "read" /\ p.condition = "none" /\ p.subject.name = "employees"

StoredOK ==
  /\ Numbered(subjects) /\ Numbered(permissions) /\ Numbered(roles)
  /\ \A p \in permissions : Shaped(p) /\ p.subject \in subjects
  /\ \A r \in roles :
       /\ r = [name |-> r.name, batch |-> r.batch, permissions |-> r.permissions]
       /\ r.name \in {"admin", "employee", "employer"}
       /\ r.permissions \subseteq permissions
       /\ \A p \in r.permissions : Allowed(r.name, p)

\* The role that findOne and updateOne choose, and that a signup refers to.
IsOldest(r) == \A s \in roles : s.name = r.name => r.batch <= s.batch

\* A role is its name and its number; only the oldest of a name is given jobs.
RolesOK ==
  /\ \A r, s \in roles : r.name = s.name /\ r.batch = s.batch => r = s
  /\ \A r \in roles : (\E p \in r.permissions : p.subject.name = "jobs") => IsOldest(r)

\* A user's role is of its kind and, while it is stored, the oldest of its name.
UsersOK ==
  /\ users = [u \in Users |-> users[u]]
  /\ \A u \in Users :
       users[u] # NoRole =>
         /\ users[u] \in {RoleOf(u)} \X (0..last)
         /\ \A r \in roles : r.name = users[u][1] /\ r.batch = users[u][2] => IsOldest(r)

\* What each command leaves to those after it.
CommandsOK ==
  /\ \A k \in {2, 3} : Here("up", 1, k) => \A n \in Range(DefaultSubjects) : Stored(subjects, n)
  /\ \A k \in {2, 3} : Here("down", 1, k) => roles = {}
  /\ Here("down", 1, 3) =>
       \A n \in run.left : Stored(subjects, n) => \A p \in permissions : p.subject # On(n)
  /\ Here("up", 9, 2) => Stored(subjects, "jobs")
  /\ \A k \in {3, 4} : Here("up", 9, k) => \A p \in Mine : p.subject.name = "jobs"
  /\ \A k \in {2, 3, 4} : Here("down", 9, k) => Stored(subjects, "jobs")
  /\ Here("down", 9, 2) =>
       \A r \in roles : r.name # "employee" => \A p \in r.permissions : p.subject # On("jobs")
  /\ Here("down", 9, 3) =>
       \A r \in roles : \A p \in r.permissions : p.subject # On("jobs")
  /\ Here("down", 9, 4) => \A p \in permissions : p.subject # On("jobs")

\* The two files have no rows.
RowsOK == DOMAIN rows \cap {"authorization", "permissions-jobs"} = {}

IInv == RunOK /\ RowsOK /\ StoredOK /\ RolesOK /\ UsersOK /\ CommandsOK

-----------------------------------------------------------------------------
(* The operators of the model *)

\* A set of numbered documents has an oldest one.
LEMMA OldestIs ==
  ASSUME NEW D, D # {}, \A d \in D : d.batch \in Nat
  PROVE  Oldest(D) \in D /\ \A x \in D : Oldest(D).batch <= x.batch
<1> DEFINE T == {d.batch : d \in D}
<1>1. T \subseteq Nat /\ T # {}
  OBVIOUS
<1>2. PICK n \in T : \A m \in T : ~(<<m, n>> \in OpToRel(<, Nat))
  <2> HIDE DEF T
  <2> QED  BY <1>1, WFMin, NatLessThanWellFounded
<1>3. PICK d \in D : n = d.batch
  OBVIOUS
<1>4. \A x \in D : d.batch <= x.batch
  <2> SUFFICES ASSUME NEW x \in D PROVE d.batch <= x.batch
    OBVIOUS
  <2>1. x.batch \in T /\ x.batch \in Nat /\ n \in Nat
    BY <1>1
  <2>2. ~(<<x.batch, n>> \in OpToRel(<, Nat))
    BY <2>1, <1>2
  <2>3. ~(x.batch < n)
    BY <2>1, <2>2 DEF OpToRel
  <2> QED  BY <2>1, <2>3, <1>3
<1>5. \E y \in D : \A x \in D : y.batch <= x.batch
  BY <1>4
<1> QED  BY <1>5 DEF Oldest

\* findOne returns the oldest document of the name, where there is one.
LEMMA FindOneIs ==
  ASSUME NEW D, Numbered(D), last \in Nat, NEW name, Stored(D, name)
  PROVE  /\ FindOne(D, name) \in D /\ FindOne(D, name).name = name
         /\ \A x \in D : x.name = name => FindOne(D, name).batch <= x.batch
<1>1. Named(D, name) # {} /\ \A d \in Named(D, name) : d.batch \in Nat
  BY DEF Numbered, Stored, Named
<1>2. /\ FindOne(D, name) \in Named(D, name)
      /\ \A x \in Named(D, name) : FindOne(D, name).batch <= x.batch
  BY <1>1, OldestIs DEF FindOne
<1> QED  BY <1>2 DEF Named

\* insertMany stores a first part of its list.
LEMMA AcceptedIs ==
  ASSUME NEW coll, NEW stored, NEW names, Len(names) \in Nat
  PROVE  Accepted(coll, stored, names) \in 0..Len(names)
<1> DEFINE L == Len(names)
           ok == {n \in 0..L : \A i \in 1..n : coll \in indexed => ~Stored(stored, names[i])}
           T == {L - m : m \in ok}
<1>0. L \in Nat
  OBVIOUS
<1>1. 0 \in ok
  OBVIOUS
<1>2. ok \subseteq 0..L
  OBVIOUS
<1>3. Accepted(coll, stored, names) = CHOOSE n \in ok : \A m \in ok : m <= n
  BY DEF Accepted
<1> HIDE DEF L, ok
<1>4. T \subseteq Nat /\ T # {}
  BY <1>0, <1>1, <1>2
<1>5. PICK t \in T : \A m \in T : ~(<<m, t>> \in OpToRel(<, Nat))
  <2> HIDE DEF T
  <2> QED  BY <1>4, WFMin, NatLessThanWellFounded
<1>6. PICK n \in ok : t = L - n
  OBVIOUS
<1>7. \A m \in ok : m <= n
  <2> SUFFICES ASSUME NEW m \in ok PROVE m <= n
    OBVIOUS
  <2>1. L - m \in T /\ L - m \in Nat /\ t \in Nat
    BY <1>4
  <2>2. ~(<<L - m, t>> \in OpToRel(<, Nat))
    BY <2>1, <1>5
  <2>3. ~(L - m < t)
    BY <2>1, <2>2 DEF OpToRel
  <2> QED  BY <2>1, <2>3, <1>6, <1>0, <1>2
<1>8. Accepted(coll, stored, names) \in ok
  BY <1>3, <1>7
<1> QED  BY <1>8, <1>2 DEF L

-----------------------------------------------------------------------------
(* Where the process is *)

\* The first and the ninth file are about roles, the others are seeds.
LEMMA FilesAre ==
  /\ Len(Files) = 10
  /\ \A n \in 1..10 : /\ Files[n] = "authorization" <=> n = 1
                      /\ Files[n] = "permissions-jobs" <=> n = 9
BY DEF Files

\* Each command of the two files has its place.
LEMMA Places ==
  ASSUME RunOK
  PROVE  /\ At("up", "authorization", "subjects") => Here("up", 1, 1)
         /\ At("up", "authorization", "permissions") => Here("up", 1, 2)
         /\ At("up", "authorization", "roles") => Here("up", 1, 3)
         /\ At("down", "authorization", "roles") => Here("down", 1, 1)
         /\ At("down", "authorization", "permissions") => Here("down", 1, 2)
         /\ At("down", "authorization", "subjects") => Here("down", 1, 3)
         /\ At("up", "permissions-jobs", "subject") => Here("up", 9, 1)
         /\ At("up", "permissions-jobs", "permissions") => Here("up", 9, 2)
         /\ At("up", "permissions-jobs", "employee") => Here("up", 9, 3)
         /\ At("up", "permissions-jobs", "employer") => Here("up", 9, 4)
         /\ At("down", "permissions-jobs", "employer") => Here("down", 9, 1)
         /\ At("down", "permissions-jobs", "employee") => Here("down", 9, 2)
         /\ At("down", "permissions-jobs", "permissions") => Here("down", 9, 3)
         /\ At("down", "permissions-jobs", "subject") => Here("down", 9, 4)
<1>1. Running => run.file \in 1..10 /\ run.step \in Nat \ {0}
  BY DEF RunOK, RunType, Running
<1>2. \A d, f, s : At(d, f, s) =>
        /\ Running /\ run.does = d /\ Files[run.file] = f
        /\ run.step \in 1..Len(Steps(d, f)) /\ Steps(d, f)[run.step] = s
  <2> SUFFICES ASSUME NEW d, NEW f, NEW s, At(d, f, s)
               PROVE  /\ Running /\ run.does = d /\ Files[run.file] = f
                      /\ run.step \in 1..Len(Steps(d, f)) /\ Steps(d, f)[run.step] = s
    OBVIOUS
  <2>1. Running /\ run.does = d /\ Files[run.file] = f /\ Steps(d, f)[run.step] = s
        /\ ~(run.step > Len(Steps(d, f)))
    BY DEF At, File, Ended
  <2>2. CASE Len(Steps(d, f)) \in Nat
    BY <2>1, <2>2, <1>1
  <2>3. Len(Steps(d, f)) \in Nat
    BY DEF Steps
  <2> QED  BY <2>2, <2>3
<1>3. /\ Steps("up", "authorization") = <<"subjects", "permissions", "roles">>
      /\ Steps("down", "authorization") = <<"roles", "permissions", "subjects">>
      /\ Steps("up", "permissions-jobs") = <<"subject", "permissions", "employee", "employer">>
      /\ Steps("down", "permissions-jobs") = <<"employer", "employee", "permissions", "subject">>
  BY DEF Steps, WithSubject
<1>4. \A d, s : At(d, "authorization", s) => run.does = d /\ run.file = 1
  BY <1>1, <1>2, FilesAre
<1>5. \A d, s : At(d, "permissions-jobs", s) => run.does = d /\ run.file = 9
  BY <1>1, <1>2, FilesAre
<1>6. \A d, f, s : At(d, f, s) =>
        run.step \in 1..Len(Steps(d, f)) /\ Steps(d, f)[run.step] = s
  BY <1>2
<1> HIDE DEF At
<1>7. /\ At("up", "authorization", "subjects") => run.step = 1
      /\ At("up", "authorization", "permissions") => run.step = 2
      /\ At("up", "authorization", "roles") => run.step = 3
  BY <1>6, <1>3
<1>8. /\ At("down", "authorization", "roles") => run.step = 1
      /\ At("down", "authorization", "permissions") => run.step = 2
      /\ At("down", "authorization", "subjects") => run.step = 3
  BY <1>6, <1>3
<1>9. /\ At("up", "permissions-jobs", "subject") => run.step = 1
      /\ At("up", "permissions-jobs", "permissions") => run.step = 2
      /\ At("up", "permissions-jobs", "employee") => run.step = 3
      /\ At("up", "permissions-jobs", "employer") => run.step = 4
  BY <1>6, <1>3
<1>10. /\ At("down", "permissions-jobs", "employer") => run.step = 1
       /\ At("down", "permissions-jobs", "employee") => run.step = 2
       /\ At("down", "permissions-jobs", "permissions") => run.step = 3
       /\ At("down", "permissions-jobs", "subject") => run.step = 4
  BY <1>6, <1>3
<1> QED  BY <1>4, <1>5, <1>7, <1>8, <1>9, <1>10 DEF Here

\* The commands of the seeds are elsewhere.
LEMMA SeedsElsewhere ==
  ASSUME RunOK, NEW does, NEW f, NEW s, At(does, f, s),
         f \notin {"authorization", "permissions-jobs"}
  PROVE  run.file \notin {1, 9}
<1>1. run.file \in 1..10 /\ Files[run.file] = f
  BY DEF RunOK, RunType, Running, At, File
<1> QED  BY <1>1, FilesAre

\* Where no such command is next, nothing is asked of what is stored.
LEMMA Elsewhere ==
  ASSUME \/ run'.does = "nothing" \/ run'.file \notin {1, 9} \/ run'.step \notin {2, 3, 4}
  PROVE  CommandsOK'
BY DEF CommandsOK, Here

-----------------------------------------------------------------------------
(* The steps of the process *)

\* A command leaves the process after it, before it, or ended.
LEMMA CommandMoves ==
  ASSUME RunOK, applied' = applied, cutDown' = cutDown, last' \in {last, last + 1},
         \/ run' \in {run, Advance, Idle}
         \/ \E name \in run.left : run' = [run EXCEPT !.left = @ \ {name}]
  PROVE  RunOK'
<1>1. run \in RunType /\ last' \in Nat
  BY DEF RunOK
<1>2. CASE run' = run
  BY <1>1, <1>2 DEF RunOK
<1>3. CASE run' = Advance
  <2>1. /\ run' \in RunType /\ run'.does = run.does /\ run'.file = run.file
        /\ run'.step = run.step + 1
    BY <1>1, <1>3 DEF Advance, RunType
  <2> QED  BY <1>1, <2>1 DEF RunOK, RunType
<1>4. CASE run' = Idle
  BY <1>1, <1>4 DEF RunOK, RunType, Idle
<1>5. ASSUME NEW name \in run.left, run' = [run EXCEPT !.left = @ \ {name}] PROVE RunOK'
  <2>1. /\ run' \in RunType /\ run'.does = run.does /\ run'.file = run.file
        /\ run'.step = run.step
    BY <1>1, <1>5 DEF RunType
  <2> QED  BY <1>1, <2>1 DEF RunOK
<1> QED  BY <1>2, <1>3, <1>4, <1>5

\* A run begins with the first command of a file.
LEMMA BeginIs ==
  ASSUME NEW does \in {"up", "down"}, NEW n \in 1..10
  PROVE  /\ Begin(does, n) \in RunType
         /\ Begin(does, n).does = does /\ Begin(does, n).file = n /\ Begin(does, n).step = 1
BY DEF Begin, RunType

\* Runs start at the right file and record what they have done.
LEMMA RunStep ==
  ASSUME RunOK, [Next]_vars
  PROVE  RunOK'
<1> DEFINE Moved ==
      /\ applied' = applied /\ cutDown' = cutDown /\ last' \in {last, last + 1}
      /\ \/ run' \in {run, Advance, Idle}
         \/ \E name \in run.left : run' = [run EXCEPT !.left = @ \ {name}]
<1>1. CASE UpSubjects \/ UpPermissions \/ UpRoles
  <2>1. Moved
    BY <1>1 DEF UpSubjects, UpPermissions, UpRoles, InsertSubjects, InsertPermissions, history
  <2> QED  BY <2>1, CommandMoves
<1>2. CASE DownRoles \/ DownPermissions
  <2>1. Moved
    BY <1>2 DEF DownRoles, DownPermissions, history
  <2> QED  BY <2>1, CommandMoves
<1>3. CASE DownSubject
  <2>1. Moved
    BY <1>3 DEF DownSubject, history
  <2> QED  BY <2>1, CommandMoves
<1>4. CASE UpJobsSubject \/ UpJobsPermissions \/ UpJobsEmployee \/ UpJobsEmployer
  <2>1. Moved
    BY <1>4 DEF UpJobsSubject, UpJobsPermissions, UpJobsEmployee, UpJobsEmployer,
                InsertSubjects, InsertPermissions, history
  <2> QED  BY <2>1, CommandMoves
<1>5. CASE DownJobsEmployer \/ DownJobsEmployee \/ DownJobsPermissions \/ DownJobsSubject
  <2>1. Moved
    BY <1>5 DEF DownJobsEmployer, DownJobsEmployee, DownJobsPermissions, DownJobsSubject, history
  <2> QED  BY <2>1, CommandMoves
<1>6. CASE UpSeedSubject \/ DownSeedSubject \/ UpRows \/ DownRows \/ DownEachRow
  <2>1. Moved
    BY <1>6 DEF UpSeedSubject, DownSeedSubject, UpRows, DownRows, DownEachRow,
                InsertSubjects, history
  <2> QED  BY <2>1, CommandMoves
<1>7. CASE AppStart \/ (\E u \in Users : SignUp(u)) \/ UNCHANGED vars
  <2>1. Moved
    BY <1>7 DEF AppStart, SignUp, vars, history
  <2> QED  BY <2>1, CommandMoves
<1>8. CASE Up
  <2>1. applied + 1 \in 1..10 /\ applied' = applied /\ last' = last /\ cutDown' = cutDown
        /\ run' = Begin("up", applied + 1)
    BY <1>8, FilesAre DEF Up, RunOK
  <2> QED  BY <2>1, BeginIs DEF RunOK
<1>9. CASE Down
  <2>1. applied \in 1..10 /\ applied' = applied /\ last' = last /\ cutDown' = cutDown
        /\ run' = Begin("down", applied)
    BY <1>9 DEF Down, RunOK, history
  <2> QED  BY <2>1, BeginIs DEF RunOK
<1>10. CASE Record
  <2>1. /\ run.does \in {"up", "down"} /\ run.file \in 1..10
        /\ last' = last /\ cutDown' = cutDown
        /\ applied' = IF run.does = "up" THEN run.file ELSE run.file - 1
        /\ run' = IF run.does = "up" /\ run.file < 10 THEN Begin("up", run.file + 1) ELSE Idle
    BY <1>10, FilesAre DEF Record, RunOK, RunType, Running, history
  <2>2. CASE run.does = "up" /\ run.file < 10
    <3>1. run.file + 1 \in 1..10 /\ run' = Begin("up", run.file + 1) /\ applied' = run.file
      BY <2>1, <2>2
    <3> QED  BY <2>1, <3>1, BeginIs DEF RunOK
  <2>3. CASE ~(run.does = "up" /\ run.file < 10)
    BY <2>1, <2>3 DEF RunOK, RunType, Idle
  <2> QED  BY <2>2, <2>3
<1>11. CASE Cut
  <2>1. run' = Idle /\ applied' = applied /\ last' = last /\ cutDown' \in BOOLEAN
    BY <1>11 DEF Cut, RunOK
  <2> QED  BY <2>1 DEF RunOK, RunType, Idle
<1> QED  BY <1>1, <1>2, <1>3, <1>4, <1>5, <1>6, <1>7, <1>8, <1>9, <1>10, <1>11 DEF Next

-----------------------------------------------------------------------------
(* What the commands do to what is stored *)

\* Documents are only ever added by new ones, which are younger.
LEMMA InsertsSubjects ==
  ASSUME IInv, NEW names, Len(names) \in Nat, InsertSubjects(names)
  PROVE  /\ StoredOK' /\ RolesOK' /\ UsersOK' /\ subjects \subseteq subjects'
         /\ \/ run' = Idle
            \/ run' = Advance /\ \A i \in 1..Len(names) : Stored(subjects', names[i])
<1> DEFINE n == Accepted("subjects", subjects, names)
           new == {[name |-> names[i], batch |-> last + 1] : i \in 1..n}
<1>1. n \in 0..Len(names)
  BY AcceptedIs
<1>2. /\ last' = last + 1 /\ subjects' = subjects \cup new
      /\ run' = IF n = Len(names) THEN Advance ELSE Idle
      /\ UNCHANGED <<permissions, roles, users>>
  BY DEF InsertSubjects
<1>3. last \in Nat
  BY DEF IInv, RunOK
<1>4. \A s \in new : s.batch = last + 1
  OBVIOUS
<1>5. n = Len(names) => \A i \in 1..Len(names) : Stored(subjects', names[i])
  <2> SUFFICES ASSUME n = Len(names), NEW i \in 1..Len(names) PROVE Stored(subjects', names[i])
    OBVIOUS
  <2>1. [name |-> names[i], batch |-> last + 1] \in subjects'
    BY <1>2
  <2> QED  BY <2>1 DEF Stored, Named
<1> HIDE DEF n, new
<1>6. Numbered(subjects)' /\ Numbered(permissions)' /\ Numbered(roles)'
  BY <1>2, <1>3, <1>4 DEF Numbered, IInv, StoredOK
<1>7. StoredOK'
  BY <1>2, <1>6 DEF StoredOK, IInv
<1>8. RolesOK'
  BY <1>2 DEF RolesOK, IInv, IsOldest
<1>9. UsersOK'
  BY <1>2, <1>3 DEF UsersOK, IInv, IsOldest
<1> QED  BY <1>2, <1>5, <1>7, <1>8, <1>9

\* Permissions that are about stored subjects keep every reference.
LEMMA InsertsPermissions ==
  ASSUME IInv, NEW set, InsertPermissions(set),
         \A p \in set : Shaped(p) /\ p.subject \in subjects /\ p.batch = last + 1
  PROVE  /\ StoredOK' /\ RolesOK' /\ UsersOK' /\ Mine' = set
<1>1. /\ last' = last + 1 /\ permissions' = permissions \cup set
      /\ UNCHANGED <<subjects, roles, users>>
  BY DEF InsertPermissions
<1>2. last \in Nat
  BY DEF IInv, RunOK
<1>3. Numbered(subjects)' /\ Numbered(permissions)' /\ Numbered(roles)'
  BY <1>1, <1>2 DEF Numbered, IInv, StoredOK
<1>4. StoredOK'
  BY <1>1, <1>3 DEF StoredOK, IInv
<1>5. RolesOK'
  BY <1>1 DEF RolesOK, IInv, IsOldest
<1>6. UsersOK'
  BY <1>1, <1>2 DEF UsersOK, IInv, IsOldest
<1>7. \A p \in permissions : p.batch # last + 1
  BY <1>2 DEF IInv, StoredOK, Numbered
<1>8. Mine' = set
  BY <1>1, <1>7 DEF Mine
<1> QED  BY <1>4, <1>5, <1>6, <1>8

\* Where no role holds what is taken away, no reference is lost.
LEMMA RemovesPermissions ==
  ASSUME IInv, NEW set, permissions' = permissions \ set,
         UNCHANGED <<subjects, roles, users, last>>,
         \A r \in roles : r.permissions \cap set = {}
  PROVE  StoredOK' /\ RolesOK' /\ UsersOK'
<1>1. StoredOK'
  BY DEF StoredOK, IInv, Numbered
<1>2. RolesOK' /\ UsersOK'
  BY DEF RolesOK, UsersOK, IInv, IsOldest
<1> QED  BY <1>1, <1>2

\* Nor where no permission is about the subject that is deleted; the subjects of other
\* names are the same as before.
LEMMA RemovesSubject ==
  ASSUME IInv, NEW name, subjects' = DeleteOne(subjects, name),
         UNCHANGED <<permissions, roles, users, last>>,
         Stored(subjects, name) => \A p \in permissions : p.subject # On(name)
  PROVE  /\ StoredOK' /\ RolesOK' /\ UsersOK'
         /\ \A other : other # name => /\ Stored(subjects', other) <=> Stored(subjects, other)
                                       /\ On(other)' = On(other)
<1>1. CASE ~Stored(subjects, name)
  <2>1. subjects' = subjects
    BY <1>1 DEF DeleteOne
  <2> QED  BY <2>1 DEF IInv, StoredOK, RolesOK, UsersOK, IsOldest, Numbered, On
<1>2. CASE Stored(subjects, name)
  <2>1. subjects' = subjects \ {On(name)} /\ On(name).name = name
    BY <1>2, FindOneIs DEF DeleteOne, On, IInv, StoredOK, RunOK
  <2>2. Numbered(subjects)' /\ Numbered(permissions)' /\ Numbered(roles)'
    BY <2>1 DEF IInv, StoredOK, Numbered
  <2>3. StoredOK'
    BY <1>2, <2>1, <2>2 DEF StoredOK, IInv
  <2>4. RolesOK' /\ UsersOK'
    BY DEF IInv, RolesOK, UsersOK, IsOldest
  <2>5. \A other : other # name => Named(subjects', other) = Named(subjects, other)
    BY <2>1 DEF Named
  <2>6. \A other : other # name => /\ Stored(subjects', other) <=> Stored(subjects, other)
                                   /\ FindOne(subjects', other) = FindOne(subjects, other)
    BY <2>5 DEF Stored, FindOne
  <2> QED  BY <2>3, <2>4, <2>6 DEF On
<1> QED  BY <1>1, <1>2

\* The subjects that a file refers to are there, under their names.
LEMMA SubjectIs ==
  ASSUME IInv, NEW name, Stored(subjects, name)
  PROVE  On(name) \in subjects /\ On(name).name = name
BY FindOneIs DEF On, IInv, StoredOK, RunOK

\* What each role is given is stored, is within its rights and is not about jobs.
LEMMA GrantsAllowed ==
  ASSUME IInv, Here("up", 1, 3), NEW name \in {"admin", "employee", "employer"}
  PROVE  /\ RoleGrants(name) \subseteq permissions
         /\ \A p \in RoleGrants(name) : Allowed(name, p) /\ p.subject.name # "jobs"
<1>1. /\ On("all").name = "all" /\ On("users").name = "users"
      /\ On("employees").name = "employees" /\ On("employers").name = "employers"
  <2>1. \A n \in {"all", "users", "employees", "employers"} : n \in Range(DefaultSubjects)
    <3>1. /\ DefaultSubjects[1] = "all" /\ DefaultSubjects[2] = "users"
          /\ DefaultSubjects[3] = "employees" /\ DefaultSubjects[4] = "employers"
          /\ DOMAIN DefaultSubjects = 1..7
      BY DEF DefaultSubjects
    <3> QED  BY <3>1 DEF Range
  <2>2. \A n \in Range(DefaultSubjects) : Stored(subjects, n)
    BY DEF IInv, CommandsOK
  <2> QED  BY <2>1, <2>2, SubjectIs
<1>2. \A p \in permissions : Shaped(p)
  BY DEF IInv, StoredOK
<1>3. CASE name = "admin"
  <2>1. RoleGrants(name) = {p \in permissions : p.action = "manage" /\ p.subject = On("all")}
    BY <1>3 DEF RoleGrants
  <2> QED  BY <2>1, <1>1, <1>3 DEF Allowed
<1> DEFINE self == {p \in Mine : p.subject = On("users")}
<1>4. \A p \in self : p \in permissions /\ p.subject.name = "users" /\ p.condition = "self"
  BY <1>1, <1>2 DEF Mine, Shaped
<1>5. CASE name = "employee"
  <2>1. RoleGrants(name) = OfEntity("employees", "employers") \cup self
    BY <1>5 DEF RoleGrants
  <2>2. \A p \in OfEntity("employees", "employers") :
          /\ p \in permissions /\ p.subject.name # "jobs"
          /\ \/ p.condition = "own" /\ p.subject.name = "employees"
             \/ p.action = "read" /\ p.condition = "none" /\ p.subject.name = "employers"
    BY <1>1, <1>2 DEF OfEntity, Shaped, RUD
  <2> HIDE DEF self
  <2> QED  BY <2>1, <2>2, <1>4, <1>5 DEF Allowed
<1>6. CASE name = "employer"
  <2>1. RoleGrants(name) = OfEntity("employers", "employees") \cup self
    BY <1>6 DEF RoleGrants
  <2>2. \A p \in OfEntity("employers", "employees") :
          /\ p \in permissions /\ p.subject.name # "jobs"
          /\ \/ p.condition = "own" /\ p.subject.name = "employers"
             \/ p.action = "read" /\ p.condition = "none" /\ p.subject.name = "employees"
    BY <1>1, <1>2 DEF OfEntity, Shaped, RUD
  <2> HIDE DEF self
  <2> QED  BY <2>1, <2>2, <1>4, <1>6 DEF Allowed
<1> QED  BY <1>3, <1>5, <1>6

\* The new roles are younger than those there are, and none of them is about jobs.
LEMMA InsertsRoles ==
  ASSUME IInv, UpRoles
  PROVE  /\ StoredOK' /\ RolesOK' /\ UsersOK'
         /\ \A q \in roles' : q \notin roles =>
              q.name \in {"admin", "employee", "employer"} /\ q.permissions = RoleGrants(q.name)
<1> DEFINE names == <<"admin", "employee", "employer">>
           n == Accepted("roles", roles, names)
           new == {[name |-> names[i], batch |-> last + 1, permissions |-> RoleGrants(names[i])] :
                     i \in 1..n}
<1>1. n \in 0..3
  <2>1. Len(names) = 3 /\ Len(names) \in Nat
    OBVIOUS
  <2> HIDE DEF names
  <2>2. n \in 0..Len(names)
    BY <2>1, AcceptedIs
  <2> QED  BY <2>1, <2>2
<1>2. /\ last' = last + 1 /\ roles' = roles \cup new
      /\ UNCHANGED <<subjects, permissions, users>> /\ Here("up", 1, 3)
  BY Places DEF UpRoles, IInv
<1>3. \A q \in new :
        /\ q = [name |-> q.name, batch |-> q.batch, permissions |-> q.permissions]
        /\ q.name \in {"admin", "employee", "employer"} /\ q.batch = last + 1
        /\ q.permissions = RoleGrants(q.name)
  <2> SUFFICES ASSUME NEW i \in 1..n,
                      NEW q, q = [name |-> names[i], batch |-> last + 1,
                                  permissions |-> RoleGrants(names[i])]
               PROVE  /\ q = [name |-> q.name, batch |-> q.batch, permissions |-> q.permissions]
                      /\ q.name \in {"admin", "employee", "employer"} /\ q.batch = last + 1
                      /\ q.permissions = RoleGrants(q.name)
    OBVIOUS
  <2>1. names[i] \in {"admin", "employee", "employer"}
    BY <1>1
  <2> QED  BY <2>1
<1>4. \A q, r \in new : q.name = r.name => q = r
  BY <1>3
<1>5. last \in Nat /\ \A r \in roles : r.batch \in Nat /\ r.batch <= last
  BY DEF IInv, RunOK, StoredOK, Numbered
<1> HIDE DEF n, new, names
<1>6. \A q \in new :
        /\ q.permissions \subseteq permissions
        /\ \A p \in q.permissions : Allowed(q.name, p) /\ p.subject.name # "jobs"
  BY <1>2, <1>3, GrantsAllowed
<1>7. Numbered(subjects)' /\ Numbered(permissions)' /\ Numbered(roles)'
  BY <1>2, <1>3, <1>5 DEF Numbered, IInv, StoredOK
<1>8. StoredOK'
  BY <1>2, <1>3, <1>6, <1>7 DEF StoredOK, IInv
<1>9. \A r \in roles : IsOldest(r) => IsOldest(r)'
  BY <1>2, <1>3, <1>5 DEF IsOldest
<1>10. RolesOK'
  <2>1. ASSUME NEW q \in roles', NEW r \in roles', q.name = r.name, q.batch = r.batch
        PROVE  q = r
    <3>1. \A x \in roles' : IF x.batch = last + 1 THEN x \in new ELSE x \in roles
      <4>1. \A x \in roles : x.batch # last + 1
        BY <1>5
      <4> QED  BY <4>1, <1>2, <1>3
    <3> QED  BY <3>1, <1>4, <2>1 DEF IInv, RolesOK
  <2>2. ASSUME NEW q \in roles', \E p \in q.permissions : p.subject.name = "jobs"
        PROVE  IsOldest(q)'
    BY <2>2, <1>2, <1>6, <1>9 DEF IInv, RolesOK
  <2> QED  BY <2>1, <2>2 DEF RolesOK
<1>11. UsersOK'
  <2> SUFFICES ASSUME NEW u \in Users, users[u] # NoRole
               PROVE  /\ users[u] \in {RoleOf(u)} \X (0..last')
                      /\ \A q \in roles' : q.name = users[u][1] /\ q.batch = users[u][2] =>
                                             IsOldest(q)'
    BY <1>2 DEF UsersOK, IInv
  <2>1. users[u] \in {RoleOf(u)} \X (0..last)
    BY DEF UsersOK, IInv
  <2>2. users[u] \in {RoleOf(u)} \X (0..last') /\ users[u][2] # last + 1
    BY <2>1, <1>2, <1>5
  <2>3. \A q \in roles' : q.name = users[u][1] /\ q.batch = users[u][2] => IsOldest(q)'
    BY <2>2, <1>2, <1>3, <1>9 DEF UsersOK, IInv
  <2> QED  BY <2>2, <2>3
<1> QED  BY <1>2, <1>3, <1>8, <1>10, <1>11

\* updateOne changes the permissions of the oldest role of the name and nothing else.
Regranted(name, pulled, pushed) ==
  \A q \in roles' : \E r \in roles :
    /\ q.name = r.name /\ q.batch = r.batch
    /\ (\A s \in roles' : s.name = q.name => q.batch <= s.batch) => IsOldest(r)
    /\ q.permissions = IF r.name = name /\ IsOldest(r)
                       THEN (r.permissions \ pulled) \cup pushed
                       ELSE r.permissions

\* Such a change keeps every reference and every right where what is pushed is stored
\* and is within the rights of the role.
LEMMA SetsGrants ==
  ASSUME IInv, NEW name, NEW pulled, NEW pushed, SetGrants(name, pulled, pushed),
         UNCHANGED <<subjects, permissions, users, last>>,
         \A p \in pushed : p \in permissions /\ Allowed(name, p)
  PROVE  /\ StoredOK' /\ RolesOK' /\ UsersOK'
         /\ Regranted(name, pulled, pushed)
<1> DEFINE G(r) == IF r.name = name /\ r = FindOne(roles, name)
                   THEN [r EXCEPT !.permissions = (@ \ pulled) \cup pushed] ELSE r
<1>1. roles' = {G(r) : r \in roles}
  BY DEF SetGrants
<1>2. ASSUME NEW r \in roles, r.name = name
      PROVE  r = FindOne(roles, name) <=> IsOldest(r)
  <2>1. Numbered(roles) /\ last \in Nat /\ r.batch \in Nat
    BY DEF IInv, StoredOK, RunOK, Numbered
  <2>2. /\ FindOne(roles, name) \in roles /\ FindOne(roles, name).name = name
        /\ \A x \in roles : x.name = name => FindOne(roles, name).batch <= x.batch
    <3>1. Stored(roles, name)
      BY <1>2 DEF Stored, Named
    <3> QED  BY <2>1, <3>1, FindOneIs
  <2>3. ASSUME r = FindOne(roles, name) PROVE IsOldest(r)
    BY <2>2, <2>3, <1>2 DEF IsOldest
  <2>4. ASSUME IsOldest(r) PROVE r = FindOne(roles, name)
    <3>1. /\ r.batch <= FindOne(roles, name).batch /\ FindOne(roles, name).batch <= r.batch
          /\ FindOne(roles, name).batch \in Nat
      BY <2>1, <2>2, <2>4, <1>2 DEF IsOldest, Numbered
    <3>2. r.batch = FindOne(roles, name).batch
      BY <3>1, <2>1
    <3> QED  BY <3>2, <2>2, <1>2 DEF IInv, RolesOK
  <2> QED  BY <2>3, <2>4
<1>3. ASSUME NEW r \in roles
      PROVE  /\ G(r) = [name |-> r.name, batch |-> r.batch, permissions |-> G(r).permissions]
             /\ G(r).permissions = IF r.name = name /\ IsOldest(r)
                                   THEN (r.permissions \ pulled) \cup pushed
                                   ELSE r.permissions
  <2>1. r = [name |-> r.name, batch |-> r.batch, permissions |-> r.permissions]
    BY DEF IInv, StoredOK
  <2>2. CASE r.name = name /\ IsOldest(r)
    <3>1. G(r) = [r EXCEPT !.permissions = (r.permissions \ pulled) \cup pushed]
      BY <2>2, <1>2
    <3>2. [r EXCEPT !.permissions = (r.permissions \ pulled) \cup pushed] =
            [name |-> r.name, batch |-> r.batch,
             permissions |-> (r.permissions \ pulled) \cup pushed]
      <4>1. ASSUME NEW a, NEW b, NEW c, NEW d, NEW x, x = [name |-> a, batch |-> b, permissions |-> c]
            PROVE  [x EXCEPT !.permissions = d] = [name |-> a, batch |-> b, permissions |-> d]
        BY <4>1
      <4> QED  BY <4>1, <2>1
    <3> QED  BY <3>1, <3>2, <2>2
  <2>3. CASE ~(r.name = name /\ IsOldest(r))
    <3>1. G(r) = r
      BY <2>3, <1>2
    <3> QED  BY <3>1, <2>1, <2>3
  <2> QED  BY <2>2, <2>3
<1>4. \A q \in roles' : \E r \in roles : q = G(r)
  BY <1>1
<1>5. \A r \in roles : G(r) \in roles'
  BY <1>1
<1>6. \A r \in roles : G(r).name = r.name /\ G(r).batch = r.batch
  BY <1>3
<1> HIDE DEF G
<1>7. ASSUME NEW r \in roles
      PROVE  IsOldest(r) <=> \A s \in roles' : s.name = r.name => r.batch <= s.batch
  BY <1>4, <1>5, <1>6 DEF IsOldest
<1>8. ASSUME NEW q \in roles'
      PROVE  \E r \in roles :
               /\ q.name = r.name /\ q.batch = r.batch /\ q = G(r)
               /\ IsOldest(q)' <=> IsOldest(r)
               /\ q.permissions = IF r.name = name /\ IsOldest(r)
                                  THEN (r.permissions \ pulled) \cup pushed
                                  ELSE r.permissions
  <2>1. PICK r \in roles : q = G(r)
    BY <1>4
  <2>2. q.name = r.name /\ q.batch = r.batch
    BY <2>1, <1>6
  <2>3. IsOldest(q)' <=> IsOldest(r)
    BY <2>2, <1>7 DEF IsOldest
  <2> QED  BY <2>1, <2>2, <2>3, <1>3
<1>9. StoredOK'
  <2>1. ASSUME NEW q \in roles'
        PROVE  /\ q = [name |-> q.name, batch |-> q.batch, permissions |-> q.permissions]
               /\ q.batch \in 0..last /\ q.name \in {"admin", "employee", "employer"}
               /\ q.permissions \subseteq permissions
               /\ \A p \in q.permissions : Allowed(q.name, p)
    <3>1. PICK r \in roles : /\ q.name = r.name /\ q.batch = r.batch /\ q = G(r)
                             /\ q.permissions = IF r.name = name /\ IsOldest(r)
                                                THEN (r.permissions \ pulled) \cup pushed
                                                ELSE r.permissions
      BY <1>8
    <3>2. /\ r.batch \in 0..last /\ r.name \in {"admin", "employee", "employer"}
          /\ r.permissions \subseteq permissions
          /\ \A p \in r.permissions : Allowed(r.name, p)
      BY DEF IInv, StoredOK, Numbered
    <3>3. q = [name |-> q.name, batch |-> q.batch, permissions |-> q.permissions]
      BY <3>1, <1>3
    <3> QED  BY <3>1, <3>2, <3>3
  <2>2. Numbered(subjects)' /\ Numbered(permissions)' /\ Numbered(roles)'
    BY <2>1 DEF IInv, StoredOK, Numbered
  <2> QED  BY <2>1, <2>2 DEF IInv, StoredOK
<1>10. RolesOK'
  <2>1. ASSUME NEW q \in roles', NEW s \in roles', q.name = s.name, q.batch = s.batch
        PROVE  q = s
    <3>1. PICK q0 \in roles : q.name = q0.name /\ q.batch = q0.batch /\ q = G(q0)
      BY <1>8
    <3>2. PICK s0 \in roles : s.name = s0.name /\ s.batch = s0.batch /\ s = G(s0)
      BY <1>8
    <3>3. q0 = s0
      BY <3>1, <3>2, <2>1 DEF IInv, RolesOK
    <3> QED  BY <3>1, <3>2, <3>3
  <2>2. ASSUME NEW q \in roles', \E p \in q.permissions : p.subject.name = "jobs"
        PROVE  IsOldest(q)'
    <3>1. PICK r \in roles : /\ IsOldest(q)' <=> IsOldest(r)
                             /\ ~IsOldest(r) => q.permissions = r.permissions
      BY <1>8
    <3>2. ~IsOldest(r) => ~\E p \in r.permissions : p.subject.name = "jobs"
      BY DEF IInv, RolesOK
    <3> QED  BY <3>1, <3>2, <2>2
  <2> QED  BY <2>1, <2>2 DEF RolesOK
<1>11. UsersOK'
  BY <1>8 DEF IInv, UsersOK
<1> QED  BY <1>8, <1>9, <1>10, <1>11 DEF Regranted, IsOldest

-----------------------------------------------------------------------------
(* The invariant is inductive *)

\* At the start nothing is stored and no run has begun.
LEMMA InvariantInit ==
  ASSUME Init
  PROVE  IInv
<1>1. RunOK
  <2>1. run = Idle /\ applied = 0 /\ last = 0 /\ cutDown \in BOOLEAN
    BY DEF Init
  <2> QED  BY <2>1 DEF RunOK, RunType, Idle
<1>2. StoredOK /\ RolesOK
  BY DEF Init, StoredOK, RolesOK, Numbered
<1>3. UsersOK
  BY DEF Init, UsersOK
<1>4. CommandsOK
  BY DEF Init, CommandsOK, Here, Idle
<1>5. RowsOK
  BY DEF Init, RowsOK
<1> QED  BY <1>1, <1>2, <1>3, <1>4, <1>5 DEF IInv

\* A step that changes no document and no user.
LEMMA LeavesData ==
  ASSUME IInv, UNCHANGED <<subjects, permissions, roles, users, last>>
  PROVE  StoredOK' /\ RolesOK' /\ UsersOK'
<1>1. StoredOK'
  BY DEF IInv, StoredOK, Numbered
<1> QED  BY <1>1 DEF IInv, RolesOK, UsersOK, IsOldest

\* The next command is the next of the same file.
LEMMA AdvanceIs ==
  ASSUME RunOK, run' = Advance, NEW does, NEW n, NEW k \in Nat, Here(does, n, k)
  PROVE  Here(does, n, k + 1)' /\ run'.left = run.left
BY DEF RunOK, RunType, Advance, Here

\* The names of the first file's subjects.
LEMMA DefaultNames ==
  /\ Len(DefaultSubjects) = 7
  /\ Range(DefaultSubjects) = {DefaultSubjects[i] : i \in 1..7}
  /\ {"users", "employees", "employers", "all"} \subseteq Range(DefaultSubjects)
  /\ "jobs" \notin Range(DefaultSubjects)
<1>1. Len(DefaultSubjects) = 7 /\ DOMAIN DefaultSubjects = 1..7
  BY DEF DefaultSubjects
<1>2. Range(DefaultSubjects) = {DefaultSubjects[i] : i \in 1..7}
  BY <1>1 DEF Range
<1>3. /\ DefaultSubjects[1] = "all" /\ DefaultSubjects[2] = "users"
      /\ DefaultSubjects[3] = "employees" /\ DefaultSubjects[4] = "employers"
  BY DEF DefaultSubjects
<1>4. \A i \in 1..7 : DefaultSubjects[i] # "jobs"
  BY DEF DefaultSubjects
<1> QED  BY <1>1, <1>2, <1>3, <1>4

\* The first file's subjects are all there when its permissions are to be inserted.
LEMMA UpSubjectsKeeps ==
  ASSUME IInv, UpSubjects
  PROVE  StoredOK' /\ RolesOK' /\ UsersOK' /\ CommandsOK'
<1>1. InsertSubjects(DefaultSubjects) /\ Here("up", 1, 1)
  BY Places DEF UpSubjects, IInv
<1>2. /\ StoredOK' /\ RolesOK' /\ UsersOK'
      /\ \/ run' = Idle
         \/ run' = Advance /\ \A i \in 1..7 : Stored(subjects', DefaultSubjects[i])
  BY <1>1, InsertsSubjects, DefaultNames
<1>3. CASE run' = Idle
  BY <1>2, <1>3, Elsewhere DEF Idle
<1>4. CASE run' = Advance
  <2>1. Here("up", 1, 2)'
    BY <1>1, <1>4, AdvanceIs DEF IInv
  <2>2. run' # Idle
    BY <2>1 DEF Here, Idle
  <2>3. \A n \in Range(DefaultSubjects) : Stored(subjects', n)
    BY <1>2, <2>2, DefaultNames
  <2>4. CommandsOK'
    BY <2>1, <2>3 DEF CommandsOK, Here
  <2> QED  BY <1>2, <2>4
<1> QED  BY <1>2, <1>3, <1>4

\* Its permissions have the shapes known and are about subjects that are there.
LEMMA UpPermissionsKeeps ==
  ASSUME IInv, UpPermissions
  PROVE  StoredOK' /\ RolesOK' /\ UsersOK' /\ CommandsOK'
<1> DEFINE set == EntityPermissions("employees", "employers")
                    \cup EntityPermissions("employers", "employees")
                    \cup {Perm("manage", On("all"), "none")} \cup UserPermissions
<1>1. InsertPermissions(set) /\ Here("up", 1, 2)
  BY Places DEF UpPermissions, IInv
<1>2. \A n \in Range(DefaultSubjects) : Stored(subjects, n)
  BY <1>1 DEF IInv, CommandsOK
<1>3. /\ \A n \in {"users", "employees", "employers", "all"} :
           On(n) \in subjects /\ On(n).name = n
  BY <1>2, DefaultNames, SubjectIs
<1>4. \A a, s, c : /\ Perm(a, s, c).action = a /\ Perm(a, s, c).subject = s
                   /\ Perm(a, s, c).condition = c /\ Perm(a, s, c).batch = last + 1
  BY DEF Perm
<1>5. ASSUME NEW own \in {"employees", "employers"}, NEW other \in {"employees", "employers"},
             NEW p \in EntityPermissions(own, other)
      PROVE  Shaped(p) /\ p.subject \in subjects /\ p.batch = last + 1
  <2>1. CASE p = Perm("read", On(other), "none")
    BY <2>1, <1>3, <1>4 DEF Shaped
  <2>2. CASE \E a \in RUD : p = Perm(a, On(own), "own")
    BY <2>2, <1>3, <1>4 DEF Shaped
  <2> QED  BY <1>5, <2>1, <2>2 DEF EntityPermissions
<1>6. ASSUME NEW p \in UserPermissions
      PROVE  Shaped(p) /\ p.subject \in subjects /\ p.batch = last + 1
  <2>1. PICK a \in RUD : p = Perm(a, On("users"), "self")
    BY <1>6 DEF UserPermissions
  <2> QED  BY <2>1, <1>3, <1>4 DEF Shaped
<1>7. ASSUME NEW p, p = Perm("manage", On("all"), "none")
      PROVE  Shaped(p) /\ p.subject \in subjects /\ p.batch = last + 1
  BY <1>7, <1>3, <1>4 DEF Shaped
<1>8. \A p \in set : Shaped(p) /\ p.subject \in subjects /\ p.batch = last + 1
  BY <1>5, <1>6, <1>7
<1> HIDE DEF set
<1>9. StoredOK' /\ RolesOK' /\ UsersOK'
  BY <1>1, <1>8, InsertsPermissions
<1>10. Here("up", 1, 3)' /\ subjects' = subjects
  BY <1>1, AdvanceIs DEF InsertPermissions, IInv
<1>11. CommandsOK'
  BY <1>2, <1>10 DEF CommandsOK, Here
<1> QED  BY <1>9, <1>11

\* Its roles refer to stored permissions within their rights.
LEMMA UpRolesKeeps ==
  ASSUME IInv, UpRoles
  PROVE  StoredOK' /\ RolesOK' /\ UsersOK' /\ CommandsOK'
<1>1. StoredOK' /\ RolesOK' /\ UsersOK'
  BY InsertsRoles
<1>2. Here("up", 1, 3) /\ run' \in {Advance, Idle}
  BY Places DEF UpRoles, IInv
<1>3. run'.does = "nothing" \/ run'.step \notin {2, 3, 4} \/ Here("up", 1, 4)'
  BY <1>2, AdvanceIs DEF Idle, IInv
<1>4. CommandsOK'
  BY <1>3, Elsewhere DEF CommandsOK, Here
<1> QED  BY <1>1, <1>4

\* Taking the roles back leaves none to refer to the permissions.
LEMMA DownRolesKeeps ==
  ASSUME IInv, DownRoles
  PROVE  StoredOK' /\ RolesOK' /\ UsersOK' /\ CommandsOK'
<1>1. Here("down", 1, 1) /\ UNCHANGED <<subjects, permissions, last, users>>
  BY Places DEF DownRoles, IInv
<1>2. CASE run' = Idle /\ roles' = roles
  BY <1>1, <1>2, LeavesData, Elsewhere DEF Idle
<1>3. CASE run' = Advance /\ roles' = {r \in roles : r.name \notin {"admin", "employee", "employer"}}
  <2>1. roles' = {}
    BY <1>3 DEF IInv, StoredOK
  <2>2. StoredOK'
    BY <1>1, <2>1 DEF IInv, StoredOK, Numbered
  <2>3. RolesOK' /\ UsersOK'
    BY <1>1, <2>1 DEF IInv, RolesOK, UsersOK
  <2>4. Here("down", 1, 2)'
    BY <1>1, <1>3, AdvanceIs DEF IInv
  <2>5. CommandsOK'
    BY <2>1, <2>4 DEF CommandsOK, Here
  <2> QED  BY <2>2, <2>3, <2>5
<1> QED  BY <1>2, <1>3 DEF DownRoles

\* What the filters find is everything about the subjects of the file.
LEMMA DownPermissionsKeeps ==
  ASSUME IInv, DownPermissions
  PROVE  StoredOK' /\ RolesOK' /\ UsersOK' /\ CommandsOK'
<1> DEFINE set == OfEntity("employees", "employers") \cup OfEntity("employers", "employees")
                    \cup {p \in permissions : p.subject \in {On("all"), On("users")}}
<1>1. /\ Here("down", 1, 2) /\ permissions' = permissions \ set /\ run' = Advance
      /\ UNCHANGED <<subjects, roles, last, users>>
  BY Places DEF DownPermissions, IInv
<1>2. roles = {}
  BY <1>1 DEF IInv, CommandsOK
<1>3. ASSUME NEW n \in Range(DefaultSubjects), Stored(subjects, n), NEW p \in permissions \ set
      PROVE  p.subject # On(n)
  <2> SUFFICES ASSUME p.subject = On(n) PROVE FALSE
    OBVIOUS
  <2>1. On(n).name = n /\ n # "jobs" /\ Shaped(p) /\ p \in permissions
    BY <1>3, SubjectIs, DefaultNames DEF IInv, StoredOK
  <2>2. p \notin OfEntity("employees", "employers") /\ p \notin OfEntity("employers", "employees")
        /\ p.subject # On("all") /\ p.subject # On("users")
    BY <1>3
  <2>3. n \in {"employees", "employers"}
    BY <2>1, <2>2 DEF Shaped
  <2>4. \/ p.action \in RUD /\ p.condition = "own"
        \/ p.action = "read" /\ p.condition = "none"
    BY <2>1, <2>3 DEF Shaped
  <2> QED  BY <2>1, <2>2, <2>3, <2>4 DEF OfEntity
<1> HIDE DEF set
<1>4. StoredOK' /\ RolesOK' /\ UsersOK'
  BY <1>1, <1>2, RemovesPermissions
<1>5. Here("down", 1, 3)' /\ run'.left \subseteq Range(DefaultSubjects)
  BY <1>1, AdvanceIs DEF IInv, RunOK, RunType
<1>6. \A n \in run'.left : Stored(subjects', n) => \A p \in permissions' : p.subject # On(n)'
  BY <1>1, <1>3, <1>5 DEF On
<1>7. CommandsOK'
  BY <1>1, <1>2, <1>5, <1>6 DEF CommandsOK, Here
<1> QED  BY <1>4, <1>7

\* The deletion of one subject leaves no permission without its own, and the others to
\* be deleted still without permissions.
LEMMA DownSubjectKeeps ==
  ASSUME IInv, DownSubject
  PROVE  StoredOK' /\ RolesOK' /\ UsersOK' /\ CommandsOK'
<1>1. Here("down", 1, 3) /\ UNCHANGED <<permissions, roles, last, users>>
  BY Places DEF DownSubject, IInv
<1>2. PICK name \in run.left :
        /\ subjects' = DeleteOne(subjects, name)
        /\ run' = IF run.left = {name} THEN Advance ELSE [run EXCEPT !.left = @ \ {name}]
  BY DEF DownSubject
<1>3. /\ roles = {}
      /\ \A n \in run.left : Stored(subjects, n) => \A p \in permissions : p.subject # On(n)
  BY <1>1 DEF IInv, CommandsOK
<1>4. /\ StoredOK' /\ RolesOK' /\ UsersOK'
      /\ \A other : other # name => /\ Stored(subjects', other) <=> Stored(subjects, other)
                                    /\ On(other)' = On(other)
  BY <1>1, <1>2, <1>3, RemovesSubject
<1>5. CASE run' = Advance
  <2>1. Here("down", 1, 4)'
    BY <1>1, <1>5, AdvanceIs DEF IInv
  <2> QED  BY <2>1, <1>4, Elsewhere DEF Here, CommandsOK
<1>6. CASE run' = [run EXCEPT !.left = @ \ {name}]
  <2>1. Here("down", 1, 3)' /\ run'.left = run.left \ {name}
    BY <1>1, <1>6 DEF IInv, RunOK, RunType, Here
  <2>2. \A n \in run'.left : Stored(subjects', n) => \A p \in permissions' : p.subject # On(n)'
    BY <2>1, <1>1, <1>3, <1>4
  <2>3. CommandsOK'
    BY <2>1, <2>2, <1>1, <1>3 DEF CommandsOK, Here
  <2> QED  BY <1>4, <2>3
<1> QED  BY <1>2, <1>5, <1>6

\* The subject of the jobs is there when the permissions about it are to be inserted.
LEMMA UpJobsSubjectKeeps ==
  ASSUME IInv, UpJobsSubject
  PROVE  StoredOK' /\ RolesOK' /\ UsersOK' /\ CommandsOK'
<1>1. InsertSubjects(<<"jobs">>) /\ Here("up", 9, 1)
  BY Places DEF UpJobsSubject, IInv
<1>2. Len(<<"jobs">>) = 1 /\ <<"jobs">>[1] = "jobs"
  OBVIOUS
<1>3. /\ StoredOK' /\ RolesOK' /\ UsersOK'
      /\ \/ run' = Idle
         \/ run' = Advance /\ Stored(subjects', "jobs")
  BY <1>1, <1>2, InsertsSubjects
<1>4. CASE run' = Idle
  BY <1>3, <1>4, Elsewhere DEF Idle
<1>5. CASE run' = Advance /\ Stored(subjects', "jobs")
  <2>1. Here("up", 9, 2)'
    BY <1>1, <1>5, AdvanceIs DEF IInv
  <2>2. CommandsOK'
    BY <2>1, <1>5 DEF CommandsOK, Here
  <2> QED  BY <1>3, <2>2
<1> QED  BY <1>3, <1>4, <1>5

\* What the insertion leaves to the next two commands is about jobs.
LEMMA UpJobsPermissionsKeeps ==
  ASSUME IInv, UpJobsPermissions
  PROVE  StoredOK' /\ RolesOK' /\ UsersOK' /\ CommandsOK'
<1> DEFINE set == {Perm("create", On("jobs"), "role"), Perm("read", On("jobs"), "none")}
                    \cup {Perm(a, On("jobs"), "company") : a \in RUD}
<1>1. InsertPermissions(set) /\ Here("up", 9, 2)
  BY Places DEF UpJobsPermissions, IInv
<1>2. On("jobs") \in subjects /\ On("jobs").name = "jobs"
  BY <1>1, SubjectIs DEF IInv, CommandsOK
<1>3. \A a, s, c : /\ Perm(a, s, c).action = a /\ Perm(a, s, c).subject = s
                   /\ Perm(a, s, c).condition = c /\ Perm(a, s, c).batch = last + 1
  BY DEF Perm
<1>4. ASSUME NEW p \in set
      PROVE  /\ Shaped(p) /\ p.subject \in subjects /\ p.batch = last + 1
             /\ p.subject.name = "jobs"
  <2>1. CASE p = Perm("create", On("jobs"), "role")
    BY <2>1, <1>2, <1>3 DEF Shaped
  <2>2. CASE p = Perm("read", On("jobs"), "none")
    BY <2>2, <1>2, <1>3 DEF Shaped
  <2>3. CASE \E a \in RUD : p = Perm(a, On("jobs"), "company")
    BY <2>3, <1>2, <1>3 DEF Shaped
  <2> QED  BY <1>4, <2>1, <2>2, <2>3
<1> HIDE DEF set
<1>5. StoredOK' /\ RolesOK' /\ UsersOK' /\ Mine' = set
  BY <1>1, <1>4, InsertsPermissions
<1>6. Here("up", 9, 3)'
  BY <1>1, AdvanceIs DEF InsertPermissions, IInv
<1>7. CommandsOK'
  BY <1>4, <1>5, <1>6 DEF CommandsOK, Here
<1> QED  BY <1>5, <1>7

\* Of the permissions just inserted, employees are given the reading and employers
\* the others.
LEMMA UpJobsEmployeeKeeps ==
  ASSUME IInv, UpJobsEmployee
  PROVE  StoredOK' /\ RolesOK' /\ UsersOK' /\ CommandsOK'
<1> DEFINE set == {p \in Mine : p.condition = "none"}
<1>1. /\ Here("up", 9, 3) /\ SetGrants("employee", {}, set) /\ run' = Advance
      /\ UNCHANGED <<subjects, permissions, last, users>>
  BY Places DEF UpJobsEmployee, PushGrants, IInv
<1>2. \A p \in Mine : p \in permissions /\ p.subject.name = "jobs" /\ Shaped(p)
  BY <1>1 DEF Mine, IInv, StoredOK, CommandsOK
<1>3. \A p \in set : p \in permissions /\ Allowed("employee", p)
  BY <1>2 DEF Shaped, Allowed
<1> HIDE DEF set
<1>4. StoredOK' /\ RolesOK' /\ UsersOK'
  BY <1>1, <1>3, SetsGrants
<1>5. Here("up", 9, 4)' /\ Mine' = Mine
  BY <1>1, AdvanceIs DEF Mine, IInv
<1>6. CommandsOK'
  BY <1>2, <1>5 DEF CommandsOK, Here
<1> QED  BY <1>4, <1>6

\* The employers are given the others of them.
LEMMA UpJobsEmployerKeeps ==
  ASSUME IInv, UpJobsEmployer
  PROVE  StoredOK' /\ RolesOK' /\ UsersOK' /\ CommandsOK'
<1> DEFINE set == {p \in Mine : p.condition # "none"}
<1>1. /\ Here("up", 9, 4) /\ SetGrants("employer", {}, set) /\ run' = Advance
      /\ UNCHANGED <<subjects, permissions, last, users>>
  BY Places DEF UpJobsEmployer, PushGrants, IInv
<1>2. \A p \in Mine : p \in permissions /\ p.subject.name = "jobs" /\ Shaped(p)
  BY <1>1 DEF Mine, IInv, StoredOK, CommandsOK
<1>3. \A p \in set : p \in permissions /\ Allowed("employer", p)
  BY <1>2 DEF Shaped, Allowed
<1> HIDE DEF set
<1>4. StoredOK' /\ RolesOK' /\ UsersOK'
  BY <1>1, <1>3, SetsGrants
<1>5. Here("up", 9, 5)'
  BY <1>1, AdvanceIs DEF IInv
<1>6. CommandsOK'
  BY <1>5, Elsewhere DEF Here
<1> QED  BY <1>4, <1>6

\* The oldest role, the only one that is given jobs, is the one they are taken from.
LEMMA DownJobsEmployerKeeps ==
  ASSUME IInv, DownJobsEmployer
  PROVE  StoredOK' /\ RolesOK' /\ UsersOK' /\ CommandsOK'
<1>1. Here("down", 9, 1) /\ UNCHANGED <<subjects, permissions, last, users>>
  BY Places DEF DownJobsEmployer, IInv
<1>2. CASE run' = Idle /\ roles' = roles
  BY <1>1, <1>2, LeavesData, Elsewhere DEF Idle
<1>3. CASE Stored(subjects, "jobs") /\ PullGrants("employer", JobsOfEmployer) /\ run' = Advance
  <2>1. /\ StoredOK' /\ RolesOK' /\ UsersOK'
        /\ Regranted("employer", JobsOfEmployer, {})
    BY <1>1, <1>3, SetsGrants DEF PullGrants
  <2>2. On("jobs").name = "jobs"
    BY <1>3, SubjectIs
  <2>3. ASSUME NEW q \in roles', q.name # "employee", NEW p \in q.permissions,
               p.subject = On("jobs")
        PROVE  FALSE
    <3>1. PICK r \in roles :
            /\ q.name = r.name
            /\ q.permissions = IF r.name = "employer" /\ IsOldest(r)
                               THEN (r.permissions \ JobsOfEmployer) \cup {}
                               ELSE r.permissions
      BY <2>1 DEF Regranted
    <3>2. p \in r.permissions /\ p.subject.name = "jobs"
      BY <2>2, <2>3, <3>1
    <3>3. IsOldest(r) /\ p \in permissions /\ Shaped(p) /\ Allowed(r.name, p)
      BY <3>2 DEF IInv, StoredOK, RolesOK
    <3>4. r.name \in {"admin", "employer"}
      BY <2>3, <3>1 DEF IInv, StoredOK
    <3>5. r.name = "employer" /\ p.condition \in {"role", "company"}
      <4>1. p.action # "manage" /\ (p.condition = "own" => FALSE) /\ p.condition # "self"
        BY <3>2, <3>3 DEF Shaped, RUD
      <4>2. r.name # "admin"
        BY <3>3, <4>1 DEF Allowed
      <4>3. r.name = "employer"
        BY <3>4, <4>2
      <4> QED  BY <3>2, <3>3, <4>1, <4>3 DEF Allowed
    <3>6. p \in JobsOfEmployer
      BY <3>3, <3>5, <2>3 DEF JobsOfEmployer
    <3> QED  BY <3>1, <3>3, <3>5, <3>6, <2>3
  <2>4. Here("down", 9, 2)' /\ Stored(subjects, "jobs")' /\ On("jobs")' = On("jobs")
    BY <1>1, <1>3, AdvanceIs DEF IInv, On
  <2>5. CommandsOK'
    BY <2>3, <2>4 DEF CommandsOK, Here
  <2> QED  BY <2>1, <2>5
<1> QED  BY <1>2, <1>3 DEF DownJobsEmployer

\* After both pulls no role holds a permission that is about jobs.
LEMMA DownJobsEmployeeKeeps ==
  ASSUME IInv, DownJobsEmployee
  PROVE  StoredOK' /\ RolesOK' /\ UsersOK' /\ CommandsOK'
<1>1. /\ Here("down", 9, 2) /\ UNCHANGED <<subjects, permissions, last, users>>
      /\ PullGrants("employee", JobsOfEmployee) /\ run' = Advance
  BY Places DEF DownJobsEmployee, IInv
<1>2. /\ StoredOK' /\ RolesOK' /\ UsersOK'
      /\ Regranted("employee", JobsOfEmployee, {})
  BY <1>1, SetsGrants DEF PullGrants
<1>3. /\ Stored(subjects, "jobs")
      /\ \A r \in roles : r.name # "employee" => \A p \in r.permissions : p.subject # On("jobs")
  BY <1>1 DEF IInv, CommandsOK
<1>4. On("jobs").name = "jobs"
  BY <1>3, SubjectIs
<1>5. ASSUME NEW q \in roles', NEW p \in q.permissions, p.subject = On("jobs")
      PROVE  FALSE
  <2>1. PICK r \in roles :
          /\ q.name = r.name
          /\ q.permissions = IF r.name = "employee" /\ IsOldest(r)
                             THEN (r.permissions \ JobsOfEmployee) \cup {}
                             ELSE r.permissions
    BY <1>2 DEF Regranted
  <2>2. p \in r.permissions /\ p.subject.name = "jobs"
    BY <1>4, <1>5, <2>1
  <2>3. IsOldest(r) /\ p \in permissions /\ Shaped(p) /\ Allowed(r.name, p)
    BY <2>2 DEF IInv, StoredOK, RolesOK
  <2>4. r.name = "employee"
    BY <2>2, <1>3, <1>5
  <2>5. p.action = "read"
    BY <2>2, <2>3, <2>4 DEF Shaped, Allowed
  <2>6. p \in JobsOfEmployee
    BY <2>3, <2>5, <1>5 DEF JobsOfEmployee
  <2> QED  BY <2>1, <2>3, <2>4, <2>6, <1>5
<1>6. Here("down", 9, 3)' /\ Stored(subjects, "jobs")' /\ On("jobs")' = On("jobs")
  BY <1>1, <1>3, AdvanceIs DEF IInv, On
<1>7. CommandsOK'
  BY <1>5, <1>6 DEF CommandsOK, Here
<1> QED  BY <1>2, <1>7

\* Then the permissions about jobs go, all of them.
LEMMA DownJobsPermissionsKeeps ==
  ASSUME IInv, DownJobsPermissions
  PROVE  StoredOK' /\ RolesOK' /\ UsersOK' /\ CommandsOK'
<1> DEFINE set == JobsOfEmployer \cup JobsOfEmployee
<1>1. /\ Here("down", 9, 3) /\ UNCHANGED <<subjects, roles, last, users>>
      /\ permissions' = permissions \ set /\ run' = Advance
  BY Places DEF DownJobsPermissions, IInv
<1>2. /\ Stored(subjects, "jobs")
      /\ \A r \in roles : \A p \in r.permissions : p.subject # On("jobs")
  BY <1>1 DEF IInv, CommandsOK
<1>3. \A r \in roles : r.permissions \cap set = {}
  BY <1>2 DEF JobsOfEmployer, JobsOfEmployee
<1>4. ASSUME NEW p \in permissions \ set PROVE p.subject # On("jobs")
  <2> SUFFICES ASSUME p.subject = On("jobs") PROVE FALSE
    OBVIOUS
  <2>1. p.subject.name = "jobs" /\ Shaped(p)
    BY <1>2, SubjectIs DEF IInv, StoredOK
  <2>2. p.action = "read" \/ p.condition \in {"role", "company"}
    BY <2>1 DEF Shaped
  <2> QED  BY <2>2 DEF JobsOfEmployer, JobsOfEmployee
<1> HIDE DEF set
<1>5. StoredOK' /\ RolesOK' /\ UsersOK'
  BY <1>1, <1>3, RemovesPermissions
<1>6. Here("down", 9, 4)' /\ Stored(subjects, "jobs")' /\ On("jobs")' = On("jobs")
  BY <1>1, <1>2, AdvanceIs DEF IInv, On
<1>7. CommandsOK'
  BY <1>1, <1>4, <1>6 DEF CommandsOK, Here
<1> QED  BY <1>5, <1>7

\* And then their subject, to which none refers any more.
LEMMA DownJobsSubjectKeeps ==
  ASSUME IInv, DownJobsSubject
  PROVE  StoredOK' /\ RolesOK' /\ UsersOK' /\ CommandsOK'
<1>1. /\ Here("down", 9, 4) /\ UNCHANGED <<permissions, roles, last, users>>
      /\ subjects' = DeleteOne(subjects, "jobs") /\ run' = Advance
  BY Places DEF DownJobsSubject, IInv
<1>2. \A p \in permissions : p.subject # On("jobs")
  BY <1>1 DEF IInv, CommandsOK
<1>3. StoredOK' /\ RolesOK' /\ UsersOK'
  BY <1>1, <1>2, RemovesSubject
<1>4. Here("down", 9, 5)'
  BY <1>1, AdvanceIs DEF IInv
<1> QED  BY <1>3, <1>4, Elsewhere DEF Here

\* The subjects of the seeds are not those that permissions are about.
LEMMA SeedsKeep ==
  ASSUME IInv, UpSeedSubject \/ DownSeedSubject \/ UpRows \/ DownRows \/ DownEachRow
  PROVE  StoredOK' /\ RolesOK' /\ UsersOK' /\ CommandsOK'
<1>1. ASSUME NEW does, NEW f, NEW s, At(does, f, s),
             f \notin {"authorization", "permissions-jobs"}, run' \in {Advance, Idle}
      PROVE  CommandsOK'
  <2>1. run.file \notin {1, 9}
    BY <1>1, SeedsElsewhere DEF IInv
  <2>2. run'.file = run.file \/ run'.does = "nothing"
    BY <1>1 DEF Advance, Idle, IInv, RunOK, RunType
  <2> QED  BY <2>1, <2>2, Elsewhere
<1>2. WithSubject \cap {"authorization", "permissions-jobs", "users", "employees", "employers",
                        "all", "jobs"} = {}
  BY DEF WithSubject
<1>3. CASE UpSeedSubject
  <2>1. PICK f \in WithSubject : At("up", f, "subject") /\ InsertSubjects(<<f>>)
    BY <1>3 DEF UpSeedSubject
  <2>2. Len(<<f>>) \in Nat
    OBVIOUS
  <2>3. StoredOK' /\ RolesOK' /\ UsersOK' /\ run' \in {Advance, Idle}
    BY <2>1, <2>2, InsertsSubjects
  <2> QED  BY <2>1, <2>3, <1>1, <1>2
<1>4. CASE DownSeedSubject
  <2>1. PICK f \in WithSubject : At("down", f, "subject") /\ subjects' = DeleteOne(subjects, f)
    BY <1>4 DEF DownSeedSubject
  <2>2. run' = Advance /\ UNCHANGED <<permissions, roles, users, last>>
    BY <1>4 DEF DownSeedSubject
  <2>3. ASSUME Stored(subjects, f), NEW p \in permissions PROVE p.subject # On(f)
    <3>1. On(f).name = f /\ Shaped(p)
      BY <2>3, SubjectIs DEF IInv, StoredOK
    <3> QED  BY <3>1, <1>2 DEF Shaped
  <2>4. StoredOK' /\ RolesOK' /\ UsersOK'
    BY <2>1, <2>2, <2>3, RemovesSubject
  <2> QED  BY <2>1, <2>2, <2>4, <1>1, <1>2
<1>5. CASE UpRows \/ DownRows \/ DownEachRow
  <2>1. run' = Advance /\ UNCHANGED <<subjects, permissions, roles, users, last>>
    BY <1>5 DEF UpRows, DownRows, DownEachRow
  <2>2. \E does, f, s : At(does, f, s) /\ f \notin {"authorization", "permissions-jobs"}
    <3>1. \E f \in DOMAIN rows \cup RowByRow : At("up", f, "rows") \/ At("down", f, "rows")
      BY <1>5 DEF UpRows, DownRows, DownEachRow
    <3> QED  BY <3>1 DEF IInv, RowsOK, RowByRow
  <2> QED  BY <2>1, <2>2, <1>1, LeavesData
<1> QED  BY <1>3, <1>4, <1>5

\* The invariant holds after every step.
LEMMA InvariantStep ==
  ASSUME IInv, [Next]_vars
  PROVE  IInv'
<1>1. RunOK'
  BY RunStep DEF IInv
<1>2. RowsOK'
  <2>1. DOMAIN rows' = DOMAIN rows
    <3>1. CASE UpRows \/ DownRows \/ DownEachRow
      BY <3>1 DEF UpRows, DownRows, DownEachRow
    <3>2. CASE UNCHANGED rows
      BY <3>2
    <3>3. CASE UpSubjects \/ UpPermissions \/ UpRoles \/ DownRoles \/ DownPermissions \/ DownSubject
      BY <3>3, <3>2 DEF UpSubjects, UpPermissions, UpRoles, DownRoles, DownPermissions,
                  DownSubject, InsertSubjects, InsertPermissions
    <3>4. CASE UpJobsSubject \/ UpJobsPermissions \/ UpJobsEmployee \/ UpJobsEmployer \/
               UpSeedSubject \/ DownSeedSubject
      BY <3>4, <3>2 DEF UpJobsSubject, UpJobsPermissions, UpJobsEmployee, UpJobsEmployer,
                  UpSeedSubject, DownSeedSubject, InsertSubjects, InsertPermissions
    <3>5. CASE DownJobsEmployer \/ DownJobsEmployee \/ DownJobsPermissions \/ DownJobsSubject
      BY <3>5, <3>2 DEF DownJobsEmployer, DownJobsEmployee, DownJobsPermissions, DownJobsSubject
    <3>6. CASE Up \/ Down \/ Record \/ Cut \/ AppStart \/ (\E u \in Users : SignUp(u))
               \/ UNCHANGED vars
      BY <3>6, <3>2 DEF Up, Down, Record, Cut, AppStart, SignUp, vars, data
    <3> QED  BY <3>1, <3>3, <3>4, <3>5, <3>6 DEF Next
  <2> QED  BY <2>1 DEF IInv, RowsOK
<1>3. CASE UpSubjects \/ UpPermissions \/ UpRoles \/ DownRoles \/ DownPermissions \/ DownSubject
  BY <1>3, UpSubjectsKeeps, UpPermissionsKeeps, UpRolesKeeps, DownRolesKeeps,
     DownPermissionsKeeps, DownSubjectKeeps, <1>1, <1>2 DEF IInv
<1>4. CASE UpJobsSubject \/ UpJobsPermissions \/ UpJobsEmployee \/ UpJobsEmployer
  BY <1>4, UpJobsSubjectKeeps, UpJobsPermissionsKeeps, UpJobsEmployeeKeeps,
     UpJobsEmployerKeeps, <1>1, <1>2 DEF IInv
<1>5. CASE DownJobsEmployer \/ DownJobsEmployee \/ DownJobsPermissions \/ DownJobsSubject
  BY <1>5, DownJobsEmployerKeeps, DownJobsEmployeeKeeps, DownJobsPermissionsKeeps,
     DownJobsSubjectKeeps, <1>1, <1>2 DEF IInv
<1>6. CASE UpSeedSubject \/ DownSeedSubject \/ UpRows \/ DownRows \/ DownEachRow
  BY <1>6, SeedsKeep, <1>1, <1>2 DEF IInv
<1>7. CASE Up \/ Down \/ Record \/ Cut
  <2>1. UNCHANGED <<subjects, permissions, roles, users, last>>
    BY <1>7 DEF Up, Down, Record, Cut, data
  <2>2. run'.does = "nothing" \/ run'.step = 1
    BY <1>7 DEF Up, Down, Record, Cut, Begin, Idle
  <2> QED  BY <2>1, <2>2, LeavesData, Elsewhere, <1>1, <1>2 DEF IInv
<1>8. CASE AppStart \/ UNCHANGED vars
  <2>1. UNCHANGED <<subjects, permissions, roles, users, last, run>>
    BY <1>8 DEF AppStart, vars, data
  <2>2. CommandsOK'
    BY <2>1 DEF IInv, CommandsOK, Here, On, Mine
  <2> QED  BY <2>1, <2>2, LeavesData, <1>1, <1>2 DEF IInv
<1>9. ASSUME NEW u \in Users, SignUp(u) PROVE IInv'
  <2>1. /\ UNCHANGED <<subjects, permissions, roles, last, run>> /\ Stored(roles, RoleOf(u))
        /\ users' = [users EXCEPT ![u] = <<FindOne(roles, RoleOf(u)).name,
                                          FindOne(roles, RoleOf(u)).batch>>]
    BY <1>9 DEF SignUp, data
  <2>2. CommandsOK' /\ StoredOK' /\ RolesOK'
    BY <2>1 DEF IInv, CommandsOK, Here, On, Mine, StoredOK, RolesOK, IsOldest, Numbered
  <2>3. PICK r \in roles : r.name = RoleOf(u) /\ IsOldest(r) /\ r = FindOne(roles, RoleOf(u))
    <3>1. last \in Nat /\ Numbered(roles)
      BY DEF IInv, RunOK, StoredOK
    <3> QED  BY <2>1, <3>1, FindOneIs DEF IsOldest
  <2>4. users' = [users EXCEPT ![u] = <<RoleOf(u), r.batch>>] /\ r.batch \in 0..last
    BY <2>1, <2>3 DEF IInv, StoredOK, Numbered
  <2>5. ASSUME NEW v \in Users, users'[v] # NoRole
        PROVE  /\ users'[v] \in {RoleOf(v)} \X (0..last)
               /\ \A s \in roles : s.name = users'[v][1] /\ s.batch = users'[v][2] => IsOldest(s)
    <3>1. CASE v = u
      <4>1. users'[v] = <<RoleOf(u), r.batch>>
        BY <2>4, <3>1 DEF IInv, UsersOK
      <4>2. \A s \in roles : s.name = RoleOf(u) /\ s.batch = r.batch => IsOldest(s)
        BY <2>3 DEF IsOldest
      <4> QED  BY <4>1, <4>2, <2>4, <3>1
    <3>2. CASE v # u
      <4>1. users'[v] = users[v]
        BY <2>4, <3>2 DEF IInv, UsersOK
      <4> QED  BY <4>1, <2>5 DEF IInv, UsersOK
    <3> QED  BY <3>1, <3>2
  <2>6. users' = [v \in Users |-> users'[v]]
    BY <2>4 DEF IInv, UsersOK
  <2>7. UsersOK'
    BY <2>1, <2>5, <2>6 DEF UsersOK, IsOldest
  <2> QED  BY <2>2, <2>7, <1>1, <1>2 DEF IInv
<1> QED  BY <1>3, <1>4, <1>5, <1>6, <1>7, <1>8, <1>9 DEF Next

\* The invariant holds in every reachable state.
LEMMA Invariant == Spec => []IInv
<1>1. Init => IInv
  BY InvariantInit
<1>2. IInv /\ [Next]_vars => IInv'
  BY InvariantStep
<1> QED  BY <1>1, <1>2, PTL DEF Spec

-----------------------------------------------------------------------------
(* Theorems *)

\* Whatever runs of `up' and `down' are cut short and repeated, no role refers to a
\* permission that is gone and no permission to a subject that is gone.
THEOREM ReferencesKept == Spec => []ReferencesStored
<1>1. IInv => ReferencesStored
  BY DEF IInv, StoredOK, ReferencesStored
<1> QED  BY <1>1, Invariant, PTL

\* The permissions that a user's own kind may hold and that allow an action.
Grounds(u, action, s, object) ==
  {p \in permissions :
     /\ Allowed(RoleOf(u), p) /\ Shaped(p)
     /\ p.action = action /\ p.subject.name = s /\ Meets(p.condition, u, object)}

\* What a user may do, one of them allows.
LEMMA CanIs ==
  ASSUME IInv, NEW u \in Users, NEW action, NEW s \in {"employees", "employers", "jobs"},
         NEW object, Can(u, action, s, object), action \in {"create", "read", "update", "delete"}
  PROVE  Grounds(u, action, s, object) # {}
<1>1. PICK r \in roles : <<r.name, r.batch>> = users[u] /\ Granted(u) = r.permissions \cap permissions
  BY DEF Can, HasRole, Granted
<1>2. r.name = RoleOf(u)
  <2>1. users[u] # NoRole
    <3>1. Len(users[u]) = 2 /\ Len(NoRole) = 0
      BY <1>1 DEF NoRole
    <3> QED  BY <3>1
  <2>2. users[u] \in {RoleOf(u)} \X (0..last)
    BY <2>1 DEF IInv, UsersOK
  <2> QED  BY <1>1, <2>2
<1>3. RoleOf(u) # "admin"
  BY DEF RoleOf
<1>4. PICK p \in Granted(u) : /\ p.action \in {action, "manage"} /\ p.subject.name \in {s, "all"}
                              /\ Meets(p.condition, u, object)
  BY DEF Can
<1>5. p \in permissions /\ Shaped(p) /\ Allowed(RoleOf(u), p)
  BY <1>1, <1>2, <1>4 DEF IInv, StoredOK
<1>6. RoleOf(u) \in {"employee", "employer"}
  BY DEF RoleOf
<1>7. p.action # "manage" /\ p.subject.name # "all"
  BY <1>5, <1>6 DEF Allowed, Shaped, RUD
<1> QED  BY <1>4, <1>5, <1>7 DEF Grounds

\* What a route asks, by its name.
LEMMA Asks ==
  ASSUME NEW u, NEW e, NEW b, NEW route, NEW a, NEW object,
         Asked(u, e, b)[route] = [action |-> a, object |-> object]
  PROVE  MayCall(u, route, e, b) <=> Can(u, a, "jobs", object)
<1>1. PICK q : q = Asked(u, e, b)[route]
  OBVIOUS
<1>2. q.action = a /\ q.object = object
  BY <1>1
<1>3. MayCall(u, route, e, b) <=> Can(u, q.action, "jobs", q.object)
  BY <1>1, Zenon DEF MayCall
<1> QED  BY <1>2, <1>3

LEMMA AskedOf ==
  ASSUME NEW u, NEW e, NEW b
  PROVE  /\ MayCall(u, "create", e, b) <=> Can(u, "create", "jobs", [role |-> RoleOf(u)])
         /\ MayCall(u, "close", e, b) <=> Can(u, "create", "jobs", [role |-> RoleOf(u)])
         /\ MayCall(u, "patch", e, b) <=>
              Can(u, "update", "jobs", JobOf(IF b = NoCompany THEN u ELSE b))
         /\ MayCall(u, "image", e, b) <=> Can(u, "update", "jobs", JobOf(u))
         /\ MayCall(u, "steps", e, b) <=> Can(u, "update", "jobs", JobOf(e))
         /\ MayCall(u, "delete", e, b) <=> Can(u, "delete", "jobs", JobOf(e))
<1>1. PICK role, own, stored, body : /\ role = [role |-> RoleOf(u)] /\ own = JobOf(u)
                                     /\ stored = JobOf(e)
                                     /\ body = JobOf(IF b = NoCompany THEN u ELSE b)
  OBVIOUS
<1>2. /\ Asked(u, e, b)["create"] = [action |-> "create", object |-> role]
      /\ Asked(u, e, b)["close"] = [action |-> "create", object |-> role]
      /\ Asked(u, e, b)["patch"] = [action |-> "update", object |-> body]
      /\ Asked(u, e, b)["image"] = [action |-> "update", object |-> own]
      /\ Asked(u, e, b)["steps"] = [action |-> "update", object |-> stored]
      /\ Asked(u, e, b)["delete"] = [action |-> "delete", object |-> stored]
  BY <1>1 DEF Asked
<1>3. /\ MayCall(u, "create", e, b) <=> Can(u, "create", "jobs", role)
      /\ MayCall(u, "close", e, b) <=> Can(u, "create", "jobs", role)
      /\ MayCall(u, "patch", e, b) <=> Can(u, "update", "jobs", body)
      /\ MayCall(u, "image", e, b) <=> Can(u, "update", "jobs", own)
      /\ MayCall(u, "steps", e, b) <=> Can(u, "update", "jobs", stored)
      /\ MayCall(u, "delete", e, b) <=> Can(u, "delete", "jobs", stored)
  BY <1>2, Asks
<1> QED  BY <1>1, <1>3, Zenon

\* A route of jobs lets employers through, where it asks about a company only its own.
LEMMA JobsOfItsOwn ==
  ASSUME IInv, NEW u \in Users
  PROVE  /\ \A object : Can(u, "create", "jobs", object) => u \in Employers
         /\ \A e : \A a \in {"update", "delete"} :
              Can(u, a, "jobs", JobOf(e)) => u \in Employers /\ e = u
<1>1. u \notin Employees => u \in Employers
  BY DEF Users
<1>2. u \in Employees => RoleOf(u) = "employee"
  BY DEF RoleOf
<1>3. ASSUME NEW object, Can(u, "create", "jobs", object) PROVE u \in Employers
  <2>1. PICK p \in Grounds(u, "create", "jobs", object) : TRUE
    BY <1>3, CanIs
  <2> QED  BY <1>1, <1>2, <2>1 DEF Grounds, Allowed, Shaped, RUD
<1>4. ASSUME NEW a \in {"update", "delete"}, NEW e, Can(u, a, "jobs", JobOf(e))
      PROVE  u \in Employers /\ e = u
  <2>1. PICK object : object = JobOf(e)
    OBVIOUS
  <2>2. PICK p \in Grounds(u, a, "jobs", object) : TRUE
    BY <1>4, <2>1, CanIs
  <2>3. p.condition = "company" /\ u \notin Employees /\ Meets(p.condition, u, object)
    BY <1>2, <2>2 DEF Grounds, Allowed, Shaped
  <2>4. object # KindOnly
    <3>1. "employer" \in DOMAIN object
      BY <2>1 DEF JobOf
    <3>2. DOMAIN KindOnly = {}
      BY DEF KindOnly
    <3> QED  BY <3>1, <3>2
  <2> QED  BY <1>1, <2>1, <2>3, <2>4 DEF Meets, JobOf
<1> QED  BY <1>3, <1>4

\* In no state, also between two commands of a migration, does a route of jobs let an
\* employee through; of another company's job nobody deletes the job or changes steps and
\* candidates, a PATCH never gives a job to another company, and nobody passes the check
\* of the other kind's profile.
THEOREM NoOthersRights == Spec => []OnlyItsOwnRights
<1>1. ASSUME IInv PROVE OnlyItsOwnRights
  <2> SUFFICES ASSUME NEW u \in Users, NEW e \in Companies, NEW b \in Companies \cup {NoCompany}
               PROVE  /\ \A route \in JobRoutes : MayCall(u, route, e, b) => u \in Employers
                      /\ \A route \in {"steps", "delete"} : MayCall(u, route, e, b) => e = u
                      /\ MayCall(u, "patch", e, b) => b \in {u, NoCompany}
                      /\ ~Can(u, "update", OtherKind(u), KindOnly)
    BY DEF OnlyItsOwnRights
  <2>1. /\ MayCall(u, "create", e, b) => Can(u, "create", "jobs", [role |-> RoleOf(u)])
        /\ MayCall(u, "close", e, b) => Can(u, "create", "jobs", [role |-> RoleOf(u)])
        /\ MayCall(u, "patch", e, b) =>
             Can(u, "update", "jobs", JobOf(IF b = NoCompany THEN u ELSE b))
        /\ MayCall(u, "image", e, b) => Can(u, "update", "jobs", JobOf(u))
        /\ MayCall(u, "steps", e, b) => Can(u, "update", "jobs", JobOf(e))
        /\ MayCall(u, "delete", e, b) => Can(u, "delete", "jobs", JobOf(e))
    BY AskedOf
  <2>2. \A route \in JobRoutes : MayCall(u, route, e, b) => u \in Employers
    BY <1>1, <2>1, JobsOfItsOwn DEF JobRoutes
  <2>3. \A route \in {"steps", "delete"} : MayCall(u, route, e, b) => e = u
    BY <1>1, <2>1, JobsOfItsOwn
  <2>4. MayCall(u, "patch", e, b) => b \in {u, NoCompany}
    <3>1. PICK c : c = IF b = NoCompany THEN u ELSE b
      OBVIOUS
    <3>2. MayCall(u, "patch", e, b) => Can(u, "update", "jobs", JobOf(c))
      BY <2>1, <3>1
    <3> QED  BY <1>1, <3>1, <3>2, JobsOfItsOwn
  <2>5. ~Can(u, "update", OtherKind(u), KindOnly)
    <3> SUFFICES ASSUME Can(u, "update", OtherKind(u), KindOnly) PROVE FALSE
      OBVIOUS
    <3>1. PICK object, s : object = KindOnly /\ s = OtherKind(u)
      OBVIOUS
    <3>2. /\ u \in Employees => RoleOf(u) = "employee" /\ s = "employers"
          /\ u \notin Employees => RoleOf(u) = "employer" /\ s = "employees"
      BY <3>1 DEF RoleOf, OtherKind
    <3>3. PICK p \in Grounds(u, "update", s, object) : TRUE
      BY <1>1, <3>1, <3>2, CanIs
    <3> QED  BY <3>2, <3>3 DEF Grounds, Allowed, Shaped
  <2> QED  BY <2>2, <2>3, <2>4, <2>5
<1> QED  BY <1>1, Invariant, PTL

-----------------------------------------------------------------------------
(* What the roles are given *)

Holds(S, action, name, condition) ==
  \E p \in S : p.action = action /\ p.subject.name = name /\ p.condition = condition

OwnOf(name) == IF name = "employee" THEN "employees" ELSE "employers"
OtherOf(name) == IF name = "employee" THEN "employers" ELSE "employees"

\* The rights to one's own record and to read those of the other kind.
Base(name, S) ==
  /\ Holds(S, "update", "users", "self")
  /\ Holds(S, "update", OwnOf(name), "own")
  /\ Holds(S, "read", OtherOf(name), "none")

\* The rights to jobs.
Jobs(name, S) ==
  IF name = "employee" THEN Holds(S, "read", "jobs", "none")
  ELSE /\ Holds(S, "create", "jobs", "role")
       /\ \A a \in RUD : Holds(S, a, "jobs", "company")

\* No command takes the first away from a role.
BaseHeld ==
  \A r \in roles : r.name \in {"employee", "employer"} => Base(r.name, r.permissions)

JobsHeldBy(name) ==
  \A r \in roles : r.name = name /\ IsOldest(r) => Jobs(name, r.permissions)

\* The second are held from the command that gives them until one takes them back.
JobsGiven == applied >= 9 /\ ~cutDown /\ ~(run.does = "down" /\ run.file = 9 /\ run.step > 1)
UpPast(k) == run.does = "up" /\ run.file = 9 /\ run.step > k

JobsHeld ==
  /\ JobsGiven \/ UpPast(3) => JobsHeldBy("employee")
  /\ JobsGiven \/ UpPast(4) => JobsHeldBy("employer")

\* What an insertion has stored for the commands that refer to it.
Inserted ==
  /\ Here("up", 1, 3) =>
       /\ \E p \in Mine : p.action = "update" /\ p.subject = On("users")
       /\ \A name \in {"employee", "employer"} :
            /\ \E p \in permissions : /\ p.action = "update" /\ p.subject = On(OwnOf(name))
                                      /\ p.condition = "own"
            /\ \E p \in permissions : /\ p.action = "read" /\ p.subject = On(OtherOf(name))
                                      /\ p.condition = "none"
  /\ \A k \in {3, 4} : Here("up", 9, k) => Jobs("employee", Mine) /\ Jobs("employer", Mine)

RInv == IInv /\ BaseHeld /\ Inserted /\ JobsHeld

\* More permissions hold no fewer rights, and no right but those to jobs is lost with
\* permissions that are about jobs.
LEMMA HoldsMore ==
  ASSUME NEW S, NEW T, S \subseteq T, NEW name
  PROVE  (Base(name, S) => Base(name, T)) /\ (Jobs(name, S) => Jobs(name, T))
<1>1. \A a, n, c : Holds(S, a, n, c) => Holds(T, a, n, c)
  BY DEF Holds
<1> QED  BY <1>1 DEF Base, Jobs

\* The rights that are not to jobs do not come from permissions about jobs.
LEMMA BaseWithoutJobs ==
  ASSUME NEW S, NEW T, \A p \in T : p.subject.name = "jobs", NEW name, Base(name, S)
  PROVE  Base(name, S \ T)
<1>1. \A a, n, c : Holds(S, a, n, c) /\ n # "jobs" => Holds(S \ T, a, n, c)
  BY DEF Holds
<1> QED  BY <1>1 DEF Base, OwnOf, OtherOf

\* Between the two commands that give them, nothing else gives or takes rights to jobs.
LEMMA JobsStay ==
  ASSUME IInv, JobsHeld, RunOK', roles' = roles,
         JobsGiven' => JobsGiven \/ UpPast(4),
         UpPast(3)' => JobsGiven \/ UpPast(3), UpPast(4)' => JobsGiven \/ UpPast(4)
  PROVE  JobsHeld'
<1>1. UpPast(4) => UpPast(3)
  BY DEF UpPast, IInv, RunOK, RunType
<1>2. /\ JobsHeldBy("employee") => JobsHeldBy("employee")'
      /\ JobsHeldBy("employer") => JobsHeldBy("employer")'
  BY DEF JobsHeldBy, IsOldest
<1> QED  BY <1>1, <1>2 DEF JobsHeld

\* The roles that are inserted hold the first rights.
LEMMA UpRolesGives ==
  ASSUME RInv, UpRoles
  PROVE  BaseHeld'
<1>1. Here("up", 1, 3)
  BY Places DEF UpRoles, RInv, IInv
<1>2. \A n \in Range(DefaultSubjects) : Stored(subjects, n)
  BY <1>1 DEF RInv, IInv, CommandsOK
<1>3. \A n \in {"users", "employees", "employers"} : On(n).name = n
  BY <1>2, DefaultNames, SubjectIs DEF RInv
<1>4. PICK own : own \in Mine /\ own.action = "update" /\ own.subject = On("users")
  BY <1>1 DEF RInv, Inserted
<1>5. own.condition = "self" /\ own.subject.name = "users"
  BY <1>3, <1>4 DEF Mine, RInv, IInv, StoredOK, Shaped
<1>6. ASSUME NEW name \in {"employee", "employer"} PROVE Base(name, RoleGrants(name))
  <2>1. own \in RoleGrants(name)
    BY <1>4, <1>6 DEF RoleGrants
  <2>2. OfEntity(OwnOf(name), OtherOf(name)) \subseteq RoleGrants(name)
    BY <1>6 DEF RoleGrants, OwnOf, OtherOf
  <2>3. PICK p \in permissions : /\ p.action = "update" /\ p.subject = On(OwnOf(name))
                                 /\ p.condition = "own"
    BY <1>1, <1>6 DEF RInv, Inserted
  <2>4. PICK q \in permissions : /\ q.action = "read" /\ q.subject = On(OtherOf(name))
                                 /\ q.condition = "none"
    BY <1>1, <1>6 DEF RInv, Inserted
  <2>5. p \in RoleGrants(name) /\ q \in RoleGrants(name)
    BY <2>2, <2>3, <2>4 DEF OfEntity, RUD
  <2>6. p.subject.name = OwnOf(name) /\ q.subject.name = OtherOf(name)
    BY <2>3, <2>4, <1>3 DEF OwnOf, OtherOf
  <2> QED  BY <2>1, <2>3, <2>4, <2>5, <2>6, <1>4, <1>5 DEF Base, Holds
<1> QED  BY <1>6, InsertsRoles DEF RInv, BaseHeld

\* Whatever changes the roles, each holds the first rights as long as it is stored.
LEMMA BaseStep ==
  ASSUME RInv, [Next]_vars
  PROVE  BaseHeld'
<1>1. CASE roles' = roles
  BY <1>1 DEF RInv, BaseHeld
<1>2. CASE UpRoles
  BY <1>2, UpRolesGives
<1>3. CASE DownRoles
  BY <1>3 DEF DownRoles, RInv, BaseHeld
<1>4. ASSUME NEW name, NEW pulled, NEW pushed,
             Regranted(name, pulled, pushed),
             \A p \in pulled : p.subject.name = "jobs"
      PROVE  BaseHeld'
  <2> SUFFICES ASSUME NEW q \in roles', q.name \in {"employee", "employer"}
               PROVE  Base(q.name, q.permissions)
    BY DEF BaseHeld
  <2>1. PICK r \in roles : /\ q.name = r.name
                           /\ q.permissions = IF r.name = name /\ IsOldest(r)
                                              THEN (r.permissions \ pulled) \cup pushed
                                              ELSE r.permissions
    BY <1>4 DEF Regranted
  <2>2. Base(q.name, r.permissions)
    BY <2>1 DEF RInv, BaseHeld
  <2>3. Base(q.name, r.permissions \ pulled)
    BY <2>2, <1>4, BaseWithoutJobs
  <2>4. r.permissions \ pulled \subseteq q.permissions
    BY <2>1
  <2> QED  BY <2>3, <2>4, HoldsMore
<1>5. CASE UpJobsEmployee
  <2> DEFINE set == {p \in Mine : p.condition = "none"}
  <2>1. /\ Here("up", 9, 3) /\ SetGrants("employee", {}, set)
        /\ UNCHANGED <<subjects, permissions, last, users>>
    BY <1>5, Places DEF UpJobsEmployee, PushGrants, RInv, IInv
  <2>2. \A p \in set : p \in permissions /\ Allowed("employee", p)
    BY <2>1 DEF Mine, RInv, IInv, StoredOK, CommandsOK, Shaped, Allowed
  <2> HIDE DEF set
  <2>3. Regranted("employee", {}, set)
    BY <2>1, <2>2, SetsGrants DEF RInv
  <2> QED  BY <2>3, <1>4
<1>6. CASE UpJobsEmployer
  <2> DEFINE set == {p \in Mine : p.condition # "none"}
  <2>1. /\ Here("up", 9, 4) /\ SetGrants("employer", {}, set)
        /\ UNCHANGED <<subjects, permissions, last, users>>
    BY <1>6, Places DEF UpJobsEmployer, PushGrants, RInv, IInv
  <2>2. \A p \in set : p \in permissions /\ Allowed("employer", p)
    BY <2>1 DEF Mine, RInv, IInv, StoredOK, CommandsOK, Shaped, Allowed
  <2> HIDE DEF set
  <2>3. Regranted("employer", {}, set)
    BY <2>1, <2>2, SetsGrants DEF RInv
  <2> QED  BY <2>3, <1>4
<1>7. CASE DownJobsEmployer
  <2>1. UNCHANGED <<subjects, permissions, last, users>>
    BY <1>7 DEF DownJobsEmployer
  <2>2. CASE Stored(subjects, "jobs") /\ SetGrants("employer", JobsOfEmployer, {})
    <3>1. \A p \in JobsOfEmployer : p.subject.name = "jobs"
      BY <2>2, SubjectIs DEF JobsOfEmployer, RInv
    <3>2. Regranted("employer", JobsOfEmployer, {})
      BY <2>1, <2>2, SetsGrants DEF RInv
    <3> QED  BY <3>1, <3>2, <1>4
  <2> QED  BY <2>2, <1>1, <1>7 DEF DownJobsEmployer, PullGrants
<1>8. CASE DownJobsEmployee
  <2>1. /\ Here("down", 9, 2) /\ SetGrants("employee", JobsOfEmployee, {})
        /\ UNCHANGED <<subjects, permissions, last, users>>
    BY <1>8, Places DEF DownJobsEmployee, PullGrants, RInv, IInv
  <2>2. Stored(subjects, "jobs")
    BY <2>1 DEF RInv, IInv, CommandsOK
  <2>3. \A p \in JobsOfEmployee : p.subject.name = "jobs"
    BY <2>2, SubjectIs DEF JobsOfEmployee, RInv
  <2>4. Regranted("employee", JobsOfEmployee, {})
    BY <2>1, SetsGrants DEF RInv
  <2> QED  BY <2>3, <2>4, <1>4
<1>9. CASE UpSubjects \/ UpPermissions \/ DownPermissions \/ DownSubject
  BY <1>9, <1>1 DEF UpSubjects, UpPermissions, DownPermissions, DownSubject, InsertSubjects,
                    InsertPermissions
<1>10. CASE UpJobsSubject \/ UpJobsPermissions \/ DownJobsPermissions \/ DownJobsSubject
  BY <1>10, <1>1 DEF UpJobsSubject, UpJobsPermissions, DownJobsPermissions, DownJobsSubject,
                     InsertSubjects, InsertPermissions
<1>11. CASE UpSeedSubject \/ DownSeedSubject \/ UpRows \/ DownRows \/ DownEachRow
  BY <1>11, <1>1 DEF UpSeedSubject, DownSeedSubject, UpRows, DownRows, DownEachRow, InsertSubjects
<1>12. CASE Up \/ Down \/ Record \/ Cut \/ AppStart \/ (\E u \in Users : SignUp(u)) \/ UNCHANGED vars
  BY <1>12, <1>1 DEF Up, Down, Record, Cut, AppStart, SignUp, vars, data
<1> QED  BY <1>2, <1>3, <1>5, <1>6, <1>7, <1>8, <1>9, <1>10, <1>11, <1>12 DEF Next

\* What is inserted is what the next commands refer to.
LEMMA InsertedStep ==
  ASSUME RInv, [Next]_vars
  PROVE  Inserted'
<1>0. RunOK' /\ RunOK /\ IInv
  BY RunStep DEF RInv, IInv
<1>1. CASE UpPermissions
  <2> DEFINE set == EntityPermissions("employees", "employers")
                      \cup EntityPermissions("employers", "employees")
                      \cup {Perm("manage", On("all"), "none")} \cup UserPermissions
  <2>1. InsertPermissions(set) /\ Here("up", 1, 2)
    BY <1>0, <1>1, Places DEF UpPermissions
  <2>2. Here("up", 1, 3)' /\ subjects' = subjects /\ permissions' = permissions \cup set
        /\ last' = last + 1
    BY <1>0, <2>1, AdvanceIs DEF InsertPermissions
  <2>3. \A a, s, c : /\ Perm(a, s, c).action = a /\ Perm(a, s, c).subject = s
                     /\ Perm(a, s, c).condition = c /\ Perm(a, s, c).batch = last + 1
    BY DEF Perm
  <2>4. \A n : On(n)' = On(n)
    BY <2>2 DEF On
  <2>5. Perm("update", On("users"), "self") \in set
    BY DEF UserPermissions, RUD
  <2>6. ASSUME NEW name \in {"employee", "employer"}
        PROVE  /\ Perm("update", On(OwnOf(name)), "own") \in set
               /\ Perm("read", On(OtherOf(name)), "none") \in set
    BY DEF EntityPermissions, RUD, OwnOf, OtherOf
  <2> HIDE DEF set
  <2>7. PICK own : own \in Mine' /\ own.action = "update" /\ own.subject = On("users")
    BY <2>2, <2>3, <2>5 DEF Mine
  <2>8. ASSUME NEW name \in {"employee", "employer"}
        PROVE  /\ \E p \in permissions' : /\ p.action = "update" /\ p.subject = On(OwnOf(name))
                                          /\ p.condition = "own"
               /\ \E p \in permissions' : /\ p.action = "read" /\ p.subject = On(OtherOf(name))
                                          /\ p.condition = "none"
    BY <2>2, <2>3, <2>6
  <2> QED  BY <2>2, <2>4, <2>7, <2>8 DEF Inserted, Here
<1>2. CASE UpJobsPermissions
  <2> DEFINE set == {Perm("create", On("jobs"), "role"), Perm("read", On("jobs"), "none")}
                      \cup {Perm(a, On("jobs"), "company") : a \in RUD}
  <2>1. InsertPermissions(set) /\ Here("up", 9, 2)
    BY <1>0, <1>2, Places DEF UpJobsPermissions
  <2>2. Here("up", 9, 3)' /\ permissions' = permissions \cup set /\ last' = last + 1
    BY <1>0, <2>1, AdvanceIs DEF InsertPermissions
  <2>3. \A a, s, c : /\ Perm(a, s, c).action = a /\ Perm(a, s, c).subject = s
                     /\ Perm(a, s, c).condition = c /\ Perm(a, s, c).batch = last + 1
    BY DEF Perm
  <2>4. On("jobs").name = "jobs"
    BY <1>0, <2>1, SubjectIs DEF IInv, CommandsOK
  <2>5. \A p \in set : p \in Mine'
    BY <2>2, <2>3 DEF Mine
  <2>6. /\ Perm("create", On("jobs"), "role") \in set /\ Perm("read", On("jobs"), "none") \in set
        /\ \A a \in RUD : Perm(a, On("jobs"), "company") \in set
    OBVIOUS
  <2> HIDE DEF set
  <2>7. Jobs("employee", Mine') /\ Jobs("employer", Mine')
    BY <2>3, <2>4, <2>5, <2>6 DEF Jobs, Holds
  <2> QED  BY <2>2, <2>7 DEF Inserted, Here
<1>3. CASE UpJobsEmployee
  <2>1. Here("up", 9, 3) /\ Here("up", 9, 4)' /\ Mine' = Mine
    BY <1>0, <1>3, Places, AdvanceIs DEF UpJobsEmployee, Mine
  <2>2. Jobs("employee", Mine') /\ Jobs("employer", Mine')
    BY <2>1 DEF RInv, Inserted
  <2> QED  BY <2>1, <2>2 DEF Inserted, Here
<1>4. CASE UNCHANGED <<subjects, permissions, last, run>>
  <2>1. Mine' = Mine /\ \A n : On(n)' = On(n)
    BY <1>4 DEF Mine, On
  <2> QED  BY <1>4, <2>1 DEF RInv, Inserted, Here
<1>5. ASSUME ~(Here("up", 1, 3)') /\ ~(Here("up", 9, 3)') /\ ~(Here("up", 9, 4)') PROVE Inserted'
  BY <1>5 DEF Inserted
<1>6. CASE UpSubjects \/ UpRoles \/ UpJobsSubject \/ UpJobsEmployer
  <2>1. Here("up", 1, 1) \/ Here("up", 1, 3) \/ Here("up", 9, 1) \/ Here("up", 9, 4)
    BY <1>0, <1>6, Places DEF UpSubjects, UpRoles, UpJobsSubject, UpJobsEmployer
  <2>2. run' \in {Advance, Idle}
    BY <1>6 DEF UpSubjects, UpRoles, UpJobsSubject, UpJobsEmployer, InsertSubjects
  <2> QED  BY <2>1, <2>2, <1>0, <1>5 DEF Here, Advance, Idle, RunOK, RunType
<1>7. CASE run.does = "down" /\ Running /\ run'.does \in {run.does, "nothing"}
  BY <1>5, <1>7 DEF Here
<1>8. CASE DownRoles \/ DownPermissions \/ DownSubject \/ DownJobsEmployer \/ DownJobsEmployee
  <2>1. run.does = "down" /\ run'.does \in {run.does, "nothing"}
    BY <1>0, <1>8 DEF DownRoles, DownPermissions, DownSubject, DownJobsEmployer, DownJobsEmployee,
                      At, Advance, Idle, RunOK, RunType
  <2> QED  BY <2>1, <1>7 DEF Running
<1>9. CASE DownJobsPermissions \/ DownJobsSubject
  <2>1. run.does = "down" /\ run'.does \in {run.does, "nothing"}
    BY <1>0, <1>9 DEF DownJobsPermissions, DownJobsSubject, At, Advance, RunOK, RunType
  <2> QED  BY <2>1, <1>7 DEF Running
<1>10. CASE UpSeedSubject \/ DownSeedSubject \/ UpRows \/ DownRows \/ DownEachRow
  <2>1. run.file \notin {1, 9} /\ run' \in {Advance, Idle}
    <3>1. \E does, f, s : At(does, f, s) /\ f \notin {"authorization", "permissions-jobs"}
      BY <1>0, <1>10 DEF UpSeedSubject, DownSeedSubject, UpRows, DownRows, DownEachRow, WithSubject,
                         RowByRow, IInv, RowsOK
    <3> QED  BY <3>1, <1>0, <1>10, SeedsElsewhere
          DEF UpSeedSubject, DownSeedSubject, UpRows, DownRows, DownEachRow, InsertSubjects
  <2> QED  BY <2>1, <1>0, <1>5 DEF Here, Advance, Idle, RunOK, RunType
<1>11. CASE Up \/ Down \/ Record \/ Cut
  <2>1. run'.does = "nothing" \/ run'.step = 1
    BY <1>11 DEF Up, Down, Record, Cut, Begin, Idle
  <2> QED  BY <2>1, <1>5 DEF Here
<1>12. CASE AppStart \/ (\E u \in Users : SignUp(u)) \/ UNCHANGED vars
  BY <1>12, <1>4 DEF AppStart, SignUp, vars, data
<1> QED  BY <1>1, <1>2, <1>3, <1>6, <1>8, <1>9, <1>10, <1>11, <1>12 DEF Next

\* The rights to jobs are given to both roles, and stay with them.
LEMMA JobsStep ==
  ASSUME RInv, [Next]_vars
  PROVE  JobsHeld'
<1>0. RunOK' /\ RunOK /\ IInv /\ JobsHeld
  BY RunStep DEF RInv, IInv
<1>1. ASSUME ~JobsGiven', ~UpPast(3)' PROVE JobsHeld'
  <2>1. ~UpPast(4)'
    BY <1>1, <1>0 DEF UpPast, RunOK, RunType
  <2> QED  BY <1>1, <2>1 DEF JobsHeld
<1>2. CASE UpRoles
  <2>1. Here("up", 1, 3) /\ run' \in {Advance, Idle} /\ applied' = applied
    BY <1>0, <1>2, Places DEF UpRoles
  <2>2. applied' < 9 /\ run'.file # 9
    BY <1>0, <2>1 DEF RunOK, RunType, Here, Advance, Idle
  <2> QED  BY <2>2, <1>0, <1>1 DEF JobsGiven, UpPast, RunOK
<1>3. CASE DownRoles
  <2>1. Here("down", 1, 1) /\ run' \in {Advance, Idle} /\ applied' = applied
    BY <1>0, <1>3, Places DEF DownRoles
  <2>2. applied' < 9 /\ run'.file # 9
    BY <1>0, <2>1 DEF RunOK, RunType, Here, Advance, Idle
  <2> QED  BY <2>2, <1>0, <1>1 DEF JobsGiven, UpPast, RunOK
<1>4. CASE UpJobsEmployee
  <2> DEFINE set == {p \in Mine : p.condition = "none"}
  <2>1. /\ Here("up", 9, 3) /\ SetGrants("employee", {}, set) /\ Here("up", 9, 4)'
        /\ UNCHANGED <<subjects, permissions, last, users, applied>>
    BY <1>0, <1>4, Places, AdvanceIs DEF UpJobsEmployee, PushGrants
  <2>2. \A p \in set : p \in permissions /\ Allowed("employee", p)
    BY <2>1 DEF Mine, RInv, IInv, StoredOK, CommandsOK, Shaped, Allowed
  <2>3. Jobs("employee", set)
    BY <2>1 DEF RInv, Inserted, Jobs, Holds
  <2> HIDE DEF set
  <2>4. Regranted("employee", {}, set)
    BY <2>1, <2>2, SetsGrants DEF RInv
  <2>5. JobsHeldBy("employee")'
    <3> SUFFICES ASSUME NEW q \in roles', q.name = "employee",
                        \A s \in roles' : s.name = q.name => q.batch <= s.batch
                 PROVE  Jobs("employee", q.permissions)
      BY DEF JobsHeldBy, IsOldest
    <3>1. set \subseteq q.permissions
      BY <2>4 DEF Regranted
    <3> QED  BY <3>1, <2>3, HoldsMore
  <2>6. ~JobsGiven' /\ ~UpPast(4)'
    BY <2>1, <1>0 DEF JobsGiven, UpPast, Here, RunOK
  <2> QED  BY <2>5, <2>6 DEF JobsHeld
<1>5. CASE UpJobsEmployer
  <2> DEFINE set == {p \in Mine : p.condition # "none"}
  <2>1. /\ Here("up", 9, 4) /\ SetGrants("employer", {}, set) /\ Here("up", 9, 5)'
        /\ UNCHANGED <<subjects, permissions, last, users, applied>>
    BY <1>0, <1>5, Places, AdvanceIs DEF UpJobsEmployer, PushGrants
  <2>2. \A p \in set : p \in permissions /\ Allowed("employer", p)
    BY <2>1 DEF Mine, RInv, IInv, StoredOK, CommandsOK, Shaped, Allowed
  <2>3. Jobs("employer", set)
    BY <2>1 DEF RInv, Inserted, Jobs, Holds
  <2> HIDE DEF set
  <2>4. Regranted("employer", {}, set)
    BY <2>1, <2>2, SetsGrants DEF RInv
  <2>5. JobsHeldBy("employer")'
    <3> SUFFICES ASSUME NEW q \in roles', q.name = "employer",
                        \A s \in roles' : s.name = q.name => q.batch <= s.batch
                 PROVE  Jobs("employer", q.permissions)
      BY DEF JobsHeldBy, IsOldest
    <3>1. set \subseteq q.permissions
      BY <2>4 DEF Regranted
    <3> QED  BY <3>1, <2>3, HoldsMore
  <2>6. JobsHeldBy("employee")'
    <3>1. JobsHeldBy("employee")
      BY <1>0, <2>1 DEF JobsHeld, UpPast, Here
    <3> SUFFICES ASSUME NEW q \in roles', q.name = "employee",
                        \A s \in roles' : s.name = q.name => q.batch <= s.batch
                 PROVE  Jobs("employee", q.permissions)
      BY DEF JobsHeldBy, IsOldest
    <3>2. PICK r \in roles : r.name = "employee" /\ IsOldest(r) /\ q.permissions = r.permissions
      BY <2>4 DEF Regranted
    <3> QED  BY <3>1, <3>2 DEF JobsHeldBy
  <2> QED  BY <2>5, <2>6 DEF JobsHeld
<1>6. CASE DownJobsEmployer
  <2>1. Here("down", 9, 1) /\ applied' = applied /\ cutDown' = cutDown
    BY <1>0, <1>6, Places DEF DownJobsEmployer, history
  <2>2. CASE run' = Idle /\ roles' = roles
    <3>1. JobsGiven' => JobsGiven
      BY <2>1 DEF JobsGiven, Here
    <3>2. ~UpPast(3)' /\ ~UpPast(4)'
      BY <2>2 DEF UpPast, Idle
    <3> QED  BY <3>1, <3>2, <2>2, <1>0, JobsStay
  <2>3. CASE run' = Advance
    <3>1. Here("down", 9, 2)'
      BY <1>0, <2>1, <2>3, AdvanceIs
    <3> QED  BY <3>1, <1>1 DEF JobsGiven, UpPast, Here
  <2> QED  BY <2>2, <2>3, <1>6 DEF DownJobsEmployer
<1>7. CASE DownJobsEmployee
  <2>1. Here("down", 9, 3)'
    BY <1>0, <1>7, Places, AdvanceIs DEF DownJobsEmployee
  <2> QED  BY <2>1, <1>1 DEF JobsGiven, UpPast, Here
\* The commands that leave the roles alone: no further than the next of their file.
<1>8. ASSUME roles' = roles, applied' = applied, cutDown' = cutDown, Running,
             \/ run' = Advance \/ run'.does = "nothing"
             \/ run'.does = run.does /\ run'.file = run.file /\ run'.step = run.step,
             ~Here("up", 9, 3), ~Here("up", 9, 4),
             run'.does = "nothing" => ~(run.does = "down")
      PROVE  JobsHeld'
  <2>1. /\ run'.does \in {run.does, "nothing"}
        /\ run'.does # "nothing" => run'.file = run.file /\ run'.step \in {run.step, run.step + 1}
    BY <1>0, <1>8 DEF RunOK, RunType, Advance
  <2>2. JobsGiven' => JobsGiven
    BY <1>0, <1>8, <2>1 DEF JobsGiven, RunOK, RunType
  <2>3. (UpPast(3)' => UpPast(3)) /\ (UpPast(4)' => UpPast(4))
    BY <1>0, <1>8, <2>1 DEF UpPast, RunOK, RunType, Here
  <2> QED  BY <2>2, <2>3, <1>0, <1>8, JobsStay
<1>9. CASE UpSubjects \/ UpPermissions \/ UpJobsSubject \/ UpJobsPermissions
  <2>1. /\ roles' = roles /\ applied' = applied /\ cutDown' = cutDown
        /\ run' \in {Advance, Idle}
    BY <1>9 DEF UpSubjects, UpPermissions, UpJobsSubject, UpJobsPermissions, InsertSubjects,
                InsertPermissions, history
  <2>2. Here("up", 1, 1) \/ Here("up", 1, 2) \/ Here("up", 9, 1) \/ Here("up", 9, 2)
    BY <1>0, <1>9, Places DEF UpSubjects, UpPermissions, UpJobsSubject, UpJobsPermissions
  <2>3. Running /\ run.does # "down" /\ ~Here("up", 9, 3) /\ ~Here("up", 9, 4)
    BY <2>2 DEF Running, Here
  <2> QED  BY <2>1, <2>3, <1>8 DEF Idle
<1>10. CASE DownPermissions \/ DownSubject \/ DownJobsPermissions \/ DownJobsSubject
  <2>1. roles' = roles /\ applied' = applied /\ cutDown' = cutDown /\ run.does = "down" /\ Running
    BY <1>10 DEF DownPermissions, DownSubject, DownJobsPermissions, DownJobsSubject, At, history
  <2>2. \/ run' = Advance
        \/ run'.does = run.does /\ run'.file = run.file /\ run'.step = run.step
    BY <1>0, <1>10 DEF DownPermissions, DownSubject, DownJobsPermissions, DownJobsSubject,
                       RunOK, RunType
  <2>3. run'.does = "down"
    BY <1>0, <2>1, <2>2 DEF Advance, RunOK, RunType
  <2> QED  BY <2>1, <2>2, <2>3, <1>8 DEF Here
<1>11. CASE UpSeedSubject \/ DownSeedSubject \/ UpRows \/ DownRows \/ DownEachRow
  <2>1. roles' = roles /\ applied' = applied /\ cutDown' = cutDown
    BY <1>11 DEF UpSeedSubject, DownSeedSubject, UpRows, DownRows, DownEachRow, InsertSubjects,
                 history
  <2>2. \E does, f, s : At(does, f, s) /\ f \notin {"authorization", "permissions-jobs"}
    BY <1>0, <1>11 DEF UpSeedSubject, DownSeedSubject, UpRows, DownRows, DownEachRow, WithSubject,
                       RowByRow, IInv, RowsOK
  <2>3. Running /\ run.file \notin {1, 9}
    BY <2>2, <1>0, SeedsElsewhere DEF At
  <2>4. CASE run' = Advance
    <3>1. run'.does = run.does /\ run'.does # "nothing"
      BY <1>0, <2>3, <2>4 DEF Advance, RunOK, RunType, Running
    <3> QED  BY <2>1, <2>3, <2>4, <3>1, <1>8 DEF Here
  <2>5. CASE UpSeedSubject /\ run' = Idle
    <3>1. run.does = "up"
      BY <2>5 DEF UpSeedSubject, At
    <3> QED  BY <2>1, <2>3, <2>5, <3>1, <1>8 DEF Here, Idle
  <2> QED  BY <2>4, <2>5, <1>11
        DEF UpSeedSubject, DownSeedSubject, UpRows, DownRows, DownEachRow, InsertSubjects
<1>12. CASE Up \/ Down
  <2>1. /\ roles' = roles /\ applied' = applied /\ cutDown' = cutDown /\ run.does = "nothing"
        /\ run'.step = 1
    BY <1>12 DEF Up, Down, Begin, Running, data, history
  <2>2. (JobsGiven' => JobsGiven) /\ ~UpPast(3)' /\ ~UpPast(4)'
    BY <2>1 DEF JobsGiven, UpPast
  <2> QED  BY <2>1, <2>2, <1>0, JobsStay
<1>13. CASE Record
  <2>1. /\ roles' = roles /\ cutDown' = cutDown /\ run.does \in {"up", "down"}
        /\ applied' = IF run.does = "up" THEN run.file ELSE run.file - 1
        /\ run'.does = "nothing" \/ run'.step = 1
    BY <1>0, <1>13 DEF Record, Begin, Idle, Running, RunOK, RunType, data, history
  <2>2. ~UpPast(3)' /\ ~UpPast(4)'
    BY <2>1 DEF UpPast
  <2>3. ASSUME JobsGiven' PROVE JobsGiven \/ UpPast(4)
    <3>1. applied' >= 9 /\ ~cutDown
      BY <2>1, <2>3 DEF JobsGiven
    <3>2. CASE run.does = "up"
      <4>1. run.file = applied + 1 /\ run.file \in 9..10
        BY <1>0, <2>1, <3>1, <3>2 DEF RunOK, RunType
      <4>2. CASE run.file = 10
        BY <4>1, <4>2, <3>1, <3>2, <1>0 DEF JobsGiven, RunOK
      <4>3. CASE run.file = 9
        <5>1. Files[9] = "permissions-jobs" /\ Len(Steps("up", "permissions-jobs")) = 4
          BY FilesAre DEF Steps, WithSubject
        <5>2. run.step > 4
          BY <1>13, <3>2, <4>3, <5>1 DEF Record, Ended, File
        <5> QED  BY <5>2, <4>3, <3>2 DEF UpPast
      <4> QED  BY <4>1, <4>2, <4>3
    <3>3. CASE run.does = "down"
      <4>1. run.file = applied /\ run.file = 10
        BY <1>0, <2>1, <3>1, <3>3 DEF RunOK, RunType
      <4> QED  BY <4>1, <3>1 DEF JobsGiven
    <3> QED  BY <2>1, <3>2, <3>3
  <2> QED  BY <2>1, <2>2, <2>3, <1>0, JobsStay
<1>14. CASE Cut
  <2>1. /\ roles' = roles /\ applied' = applied /\ run' = Idle
        /\ cutDown' = (cutDown \/ run.does = "down")
    BY <1>14 DEF Cut, data
  <2>2. ~UpPast(3)' /\ ~UpPast(4)'
    BY <2>1 DEF UpPast, Idle
  <2>3. JobsGiven' => JobsGiven
    BY <2>1 DEF JobsGiven
  <2> QED  BY <2>1, <2>2, <2>3, <1>0, JobsStay
<1>15. CASE AppStart \/ (\E u \in Users : SignUp(u)) \/ UNCHANGED vars
  <2>1. UNCHANGED <<roles, applied, run, cutDown>>
    BY <1>15 DEF AppStart, SignUp, vars, data, history
  <2> QED  BY <2>1, <1>0, JobsStay DEF JobsGiven, UpPast
<1> QED  BY <1>2, <1>3, <1>4, <1>5, <1>6, <1>7, <1>9, <1>10, <1>11, <1>12, <1>13, <1>14, <1>15
      DEF Next

\* The rights of the roles, in every reachable state.
LEMMA RightsInvariant == Spec => []RInv
<1>1. Init => RInv
  <2>1. Init => BaseHeld /\ Inserted /\ JobsHeld
    BY DEF Init, BaseHeld, Inserted, JobsHeld, JobsHeldBy, Here, Idle
  <2> QED  BY <2>1, InvariantInit DEF RInv
<1>2. RInv /\ [Next]_vars => RInv'
  BY InvariantStep, BaseStep, InsertedStep, JobsStep DEF RInv
<1> QED  BY <1>1, <1>2, PTL DEF Spec

\* A user whose role is stored is granted what that role holds.
LEMMA GrantedIs ==
  ASSUME IInv, NEW u \in Users, HasRole(u)
  PROVE  \E r \in roles : r.name = RoleOf(u) /\ IsOldest(r) /\ Granted(u) = r.permissions
<1> DEFINE r == CHOOSE x \in roles : <<x.name, x.batch>> = users[u]
<1>1. r \in roles /\ <<r.name, r.batch>> = users[u]
  BY DEF HasRole
<1>2. Granted(u) = r.permissions \cap permissions
  BY DEF Granted
<1> HIDE DEF r
<1>3. Granted(u) = r.permissions
  BY <1>1, <1>2 DEF IInv, StoredOK
<1>4. users[u] # NoRole
  <2>1. Len(users[u]) = 2 /\ Len(NoRole) = 0
    BY <1>1 DEF NoRole
  <2> QED  BY <2>1
<1>5. users[u][1] = r.name /\ users[u][2] = r.batch
  BY <1>1
<1>6. users[u][1] = RoleOf(u) /\ IsOldest(r)
  BY <1>1, <1>4, <1>5 DEF IInv, UsersOK
<1> QED  BY <1>1, <1>3, <1>5, <1>6

\* Once every file has been applied, and unless a `down' was cut short, every user whose
\* role is stored may do what its kind is meant to, however many runs of `up' it took.
THEOREM RightsGiven == Spec => []RightsComplete
<1>1. ASSUME RInv PROVE RightsComplete
  <2> SUFFICES ASSUME applied = 10, ~Running, ~cutDown, NEW u \in Users, HasRole(u)
               PROVE  /\ Can(u, "update", "users", [_id |-> u])
                      /\ \A object \in {Of(u), KindOnly} : Can(u, "update", OwnKind(u), object)
                      /\ Can(u, "read", OtherKind(u), Of("somebody else"))
                      /\ Can(u, "read", "jobs", JobOf(u))
                      /\ u \in Employers =>
                           \A route \in JobRoutes : MayCall(u, route, u, NoCompany)
    BY FilesAre DEF RightsComplete
  <2>1. PICK r \in roles : r.name = RoleOf(u) /\ IsOldest(r) /\ Granted(u) = r.permissions
    BY <1>1, GrantedIs DEF RInv
  <2>2. \A p \in Granted(u) : p.subject \in subjects
    BY <2>1, <1>1 DEF RInv, IInv, StoredOK
  <2>3. RoleOf(u) \in {"employee", "employer"} /\ JobsGiven
    BY DEF RoleOf, JobsGiven, Running
  <2>4. Base(RoleOf(u), Granted(u)) /\ Jobs(RoleOf(u), Granted(u))
    BY <2>1, <2>3, <1>1 DEF RInv, BaseHeld, JobsHeld, JobsHeldBy
  <2>5. ASSUME NEW a, NEW s, NEW c, NEW object, Holds(Granted(u), a, s, c), Meets(c, u, object)
        PROVE  Can(u, a, s, object)
    BY <2>2, <2>5 DEF Holds, Can
  <2>6. /\ OwnOf(RoleOf(u)) = OwnKind(u) /\ OtherOf(RoleOf(u)) = OtherKind(u)
    BY DEF OwnOf, OtherOf, OwnKind, OtherKind, RoleOf
  <2>7. /\ \A object : Meets("none", u, object)
        /\ Meets("own", u, KindOnly)
        /\ Meets("self", u, [_id |-> u]) /\ Meets("own", u, Of(u))
        /\ Meets("company", u, JobOf(u)) /\ Meets("role", u, [role |-> "employer"])
    BY DEF Meets, Of, JobOf
  <2>8. Can(u, "update", "users", [_id |-> u])
    BY <2>4, <2>5, <2>7 DEF Base
  <2>9. \A object \in {Of(u), KindOnly} : Can(u, "update", OwnKind(u), object)
    BY <2>4, <2>5, <2>6, <2>7 DEF Base
  <2>10. Can(u, "read", OtherKind(u), Of("somebody else"))
    BY <2>4, <2>5, <2>6, <2>7 DEF Base
  <2>11. Can(u, "read", "jobs", JobOf(u))
    BY <2>4, <2>5, <2>7 DEF Jobs, RUD
  <2>12. ASSUME u \in Employers
         PROVE  \A route \in JobRoutes : MayCall(u, route, u, NoCompany)
    <3>1. RoleOf(u) = "employer"
      BY <2>12, AuthorizationAssumption DEF RoleOf
    <3>2. /\ Can(u, "create", "jobs", [role |-> RoleOf(u)])
          /\ \A a \in {"update", "delete"} : Can(u, a, "jobs", JobOf(u))
      BY <3>1, <2>4, <2>5, <2>7 DEF Jobs, RUD
    <3>3. /\ MayCall(u, "create", u, NoCompany) /\ MayCall(u, "close", u, NoCompany)
          /\ MayCall(u, "patch", u, NoCompany) /\ MayCall(u, "image", u, NoCompany)
          /\ MayCall(u, "steps", u, NoCompany) /\ MayCall(u, "delete", u, NoCompany)
      BY <3>2, AskedOf
    <3> QED  BY <3>3 DEF JobRoutes
  <2> QED  BY <2>8, <2>9, <2>10, <2>11, <2>12
<1> QED  BY <1>1, RightsInvariant, PTL

-----------------------------------------------------------------------------
(* What is taken back *)

\* Whether what the u-th command of a file stores is there: from then until the d-th
\* command that takes the file back.
Due(n, u, d) ==
  \/ applied >= n /\ ~(run.does = "down" /\ run.file = n /\ run.step > d)
  \/ run.does = "up" /\ run.file = n /\ run.step > u

\* The number of commands of a file.
Commands(does, n) == Len(Steps(does, Files[n]))

AtMostOne(S) == \A x, y \in S : x = y
AtMostTwo(S) == \A x, y, z \in S : x = y \/ y = z \/ x = z

\* The first file's subject of a name is there until its own deletion.
FirstDue(n) ==
  Due(1, 1, 3) /\ ~(run.does = "down" /\ run.file = 1 /\ n \notin run.left)

\* No run was cut short: what is stored is no more than what is due.
SubjectsDue ==
  /\ \A s \in subjects : s.name \in Range(DefaultSubjects) \cup {"jobs"}
  /\ \A n \in Range(DefaultSubjects) : FirstDue(n) \/ Named(subjects, n) = {}
  /\ \A n \in Range(DefaultSubjects) \ WithSubject : AtMostOne(Named(subjects, n))
  /\ \A k \in 1..10 : Files[k] \in WithSubject =>
       /\ AtMostTwo(Named(subjects, Files[k]))
       /\ Due(k, 1, 2) \/ AtMostOne(Named(subjects, Files[k]))
  /\ AtMostOne(Named(subjects, "jobs"))
  /\ Due(9, 1, 4) \/ Named(subjects, "jobs") = {}

RolesDue ==
  /\ Due(1, 2, 2) \/ \A p \in permissions : p.subject.name = "jobs"
  /\ Due(9, 2, 3) \/ \A p \in permissions : p.subject.name # "jobs"
  /\ Due(1, 3, 1) \/ roles = {}

RowsDue ==
  /\ DOMAIN rows = Range(Files) \ {"authorization", "permissions-jobs"}
  /\ \A k \in 1..10 : Files[k] \in DOMAIN rows =>
       /\ rows[Files[k]] \in {0, 1}
       /\ Due(k, Commands("up", k), 1) \/ rows[Files[k]] = 0

DInv == IInv /\ cuts \in Nat /\ (cuts = 0 => SubjectsDue /\ RolesDue /\ RowsDue)

\* Where no name is stored, insertMany stores the whole list.
LEMMA AcceptsAll ==
  ASSUME NEW coll, NEW stored, NEW names, Len(names) \in Nat,
         \A i \in 1..Len(names) : ~Stored(stored, names[i])
  PROVE  Accepted(coll, stored, names) = Len(names)
<1> DEFINE L == Len(names)
           ok == {n \in 0..L : \A i \in 1..n : coll \in indexed => ~Stored(stored, names[i])}
<1>1. L \in ok /\ ok \subseteq 0..L /\ L \in Nat
  OBVIOUS
<1>2. Accepted(coll, stored, names) = CHOOSE n \in ok : \A m \in ok : m <= n
  BY DEF Accepted
<1> HIDE DEF L, ok
<1>3. \A m \in ok : m <= L
  BY <1>1
<1>4. Accepted(coll, stored, names) \in ok /\ L <= Accepted(coll, stored, names)
  BY <1>1, <1>2, <1>3
<1>5. PICK n \in ok : n = Accepted(coll, stored, names)
  BY <1>4
<1>6. n \in 0..L /\ n <= L /\ L <= n
  BY <1>1, <1>3, <1>4, <1>5
<1>7. n = L
  BY <1>1, <1>6
<1> QED  BY <1>5, <1>7 DEF L

\* The files of the list differ.
LEMMA FilesDiffer ==
  /\ \A i, j \in 1..10 : Files[i] = Files[j] => i = j
  /\ \A k \in 1..10 : Files[k] \in WithSubject => k \in {2, 3, 10}
  /\ WithSubject = {Files[2], Files[3], Files[10]}
  /\ WithSubject \subseteq Range(DefaultSubjects)
<1>1. /\ Files[1] = "authorization" /\ Files[2] = "states" /\ Files[3] = "universities"
      /\ Files[4] = "languages" /\ Files[5] = "benefits" /\ Files[6] = "tools"
      /\ Files[7] = "segments" /\ Files[8] = "new-languages" /\ Files[9] = "permissions-jobs"
      /\ Files[10] = "courses"
  BY DEF Files
<1>2. \A k \in 1..10 : k \in {1, 2, 3, 4, 5, 6, 7, 8, 9, 10}
  OBVIOUS
<1>3. \A i, j \in 1..10 : Files[i] = Files[j] => i = j
  BY <1>1, <1>2
<1>4. /\ DefaultSubjects[5] = "states" /\ DefaultSubjects[6] = "universities"
      /\ DefaultSubjects[7] = "courses"
  BY DEF DefaultSubjects
<1>5. WithSubject \subseteq Range(DefaultSubjects)
  BY <1>4, DefaultNames DEF WithSubject
<1> QED  BY <1>1, <1>2, <1>3, <1>5 DEF WithSubject

\* Where the process is at a command: the file, and the place of the command in it.
LEMMA AtIs ==
  ASSUME RunOK, NEW does, NEW f, NEW s, At(does, f, s)
  PROVE  /\ Running /\ run.does = does /\ run.file \in 1..10 /\ Files[run.file] = f
         /\ Steps(does, f)[run.step] = s /\ run.step \in 1..Len(Steps(does, f))
<1>1. Running /\ run.does = does /\ Files[run.file] = f /\ Steps(does, f)[run.step] = s
      /\ ~(run.step > Len(Steps(does, f)))
  BY DEF At, File, Ended
<1>2. run.file \in 1..10 /\ run.step \in Nat \ {0}
  BY <1>1 DEF RunOK, RunType, Running
<1>3. Len(Steps(does, f)) \in Nat
  BY DEF Steps
<1> QED  BY <1>1, <1>2, <1>3

\* The places of the commands of the seeds.
LEMMA SeedPlaces ==
  ASSUME RunOK, NEW f, f \notin {"authorization", "permissions-jobs"}
  PROVE  /\ At("up", f, "subject") => run.step = 1
         /\ At("down", f, "subject") => run.step = 2 /\ f \in WithSubject
         /\ At("up", f, "rows") => run.step = Len(Steps("up", f))
         /\ At("down", f, "rows") => run.step = 1
<1>1. CASE f \in WithSubject
  <2>1. Steps("up", f) = <<"subject", "rows">> /\ Steps("down", f) = <<"rows", "subject">>
    BY <1>1 DEF Steps, WithSubject
  <2>2. Len(<<"subject", "rows">>) = 2 /\ Len(<<"rows", "subject">>) = 2
    OBVIOUS
  <2>3. \A does, s : At(does, f, s) => run.step \in 1..2 \/ Len(Steps(does, f)) # 2
    BY AtIs
  <2>4. \A does, s : At(does, f, s) => Steps(does, f)[run.step] = s
    BY AtIs
  <2>5. \A does, s : At(does, f, s) /\ does \in {"up", "down"} => run.step \in {1, 2}
    BY <2>1, <2>2, <2>3
  <2>6. /\ Steps("up", f)[1] = "subject" /\ Steps("up", f)[2] = "rows"
        /\ Steps("down", f)[1] = "rows" /\ Steps("down", f)[2] = "subject"
        /\ Len(Steps("up", f)) = 2
    BY <2>1, <2>2
  <2> QED  BY <2>4, <2>5, <2>6, <1>1
<1>2. CASE f \notin WithSubject
  <2>1. Steps("up", f) = <<"rows">> /\ Steps("down", f) = <<"rows">>
    BY <1>2 DEF Steps
  <2>2. Len(<<"rows">>) = 1
    OBVIOUS
  <2>3. \A does, s : At(does, f, s) =>
          run.step \in 1..Len(Steps(does, f)) /\ Steps(does, f)[run.step] = s
    BY AtIs
  <2>4. \A does, s : At(does, f, s) /\ does \in {"up", "down"} => run.step = 1 /\ s = "rows"
    BY <2>1, <2>2, <2>3
  <2>5. Len(Steps("up", f)) = 1
    BY <2>1, <2>2
  <2>6. \A does, s : does \in {"up", "down"} /\ At(does, f, s) => run.step = 1 /\ s = "rows"
    BY <2>4
  <2>7. ~At("up", f, "subject") /\ ~At("down", f, "subject")
    BY <2>6
  <2> QED  BY <2>5, <2>6, <2>7
<1> QED  BY <1>1, <1>2

\* A command that takes something back ends with an advance of the process, and only
\* that command does so there.
LEMMA OnlyCommand ==
  ASSUME IInv, [Next]_vars, run' = Advance
  PROVE  /\ Here("down", 1, 1) => DownRoles
         /\ Here("down", 1, 2) => DownPermissions
         /\ Here("down", 1, 3) => DownSubject
         /\ Here("down", 9, 3) => DownJobsPermissions
         /\ Here("down", 9, 4) => DownJobsSubject
         /\ \A k \in 1..10 : Files[k] \in WithSubject /\ Here("down", k, 2) => DownSeedSubject
         /\ \A k \in 1..10 : Files[k] \in DOMAIN rows /\ Here("down", k, 1) =>
              DownRows \/ DownEachRow
<1>0. RunOK /\ run \in RunType
  BY DEF IInv, RunOK
<1>1. ~(Up \/ Down \/ Record \/ Cut)
  <2>1. run'.does = "nothing" \/ run'.step = 1 => ~Running
    BY <1>0 DEF Advance, RunOK, RunType, Running
  <2>2. Record \/ Cut => Running /\ (run'.does = "nothing" \/ run'.step = 1)
    BY DEF Record, Cut, Begin, Idle
  <2>3. Up \/ Down => run.does = "nothing" /\ run'.does # "nothing"
    BY DEF Up, Down, Begin, Running
  <2>4. run'.does = run.does
    BY <1>0 DEF Advance, RunType
  <2> QED  BY <2>1, <2>2, <2>3, <2>4
<1>2. ~(AppStart \/ (\E u \in Users : SignUp(u)) \/ UNCHANGED vars)
  <2>1. run' # run
    BY <1>0 DEF Advance, RunType
  <2> QED  BY <2>1 DEF AppStart, SignUp, vars
<1>3. run.does = "up" \/ run.does = "down" \/ run.does = "nothing"
  BY <1>0 DEF RunType
<1>4. (UpSubjects \/ UpPermissions \/ UpRoles \/ UpJobsSubject \/ UpJobsPermissions \/ UpJobsEmployee
         \/ UpJobsEmployer) => run.does = "up"
  BY DEF UpSubjects, UpPermissions, UpRoles, UpJobsSubject, UpJobsPermissions, UpJobsEmployee,
         UpJobsEmployer, At
<1>5. UpSeedSubject \/ UpRows => run.does = "up"
  BY DEF UpSeedSubject, UpRows, At
<1>6. /\ DownRoles => Here("down", 1, 1)
      /\ DownPermissions => Here("down", 1, 2)
      /\ DownSubject => Here("down", 1, 3)
      /\ DownJobsEmployer => Here("down", 9, 1)
      /\ DownJobsEmployee => Here("down", 9, 2)
      /\ DownJobsPermissions => Here("down", 9, 3)
      /\ DownJobsSubject => Here("down", 9, 4)
  BY <1>0, Places DEF DownRoles, DownPermissions, DownSubject, DownJobsEmployer, DownJobsEmployee,
                      DownJobsPermissions, DownJobsSubject
<1>7. DownSeedSubject => run.file \notin {1, 9} /\ run.step = 2
  <2>1. \A f \in WithSubject : f \notin {"authorization", "permissions-jobs"}
    BY DEF WithSubject
  <2> QED  BY <1>0, <2>1, SeedsElsewhere, SeedPlaces DEF DownSeedSubject
<1>8. DownRows \/ DownEachRow => run.file \notin {1, 9} /\ run.step = 1
  <2>1. DownRows \/ DownEachRow =>
          \E f : At("down", f, "rows") /\ f \notin {"authorization", "permissions-jobs"}
    BY DEF DownRows, DownEachRow, IInv, RowsOK, RowByRow
  <2> QED  BY <1>0, <2>1, SeedsElsewhere, SeedPlaces
<1>9. run.does = "down" =>
        \/ DownRoles \/ DownPermissions \/ DownSubject \/ DownJobsEmployer \/ DownJobsEmployee
        \/ DownJobsPermissions \/ DownJobsSubject \/ DownSeedSubject \/ DownRows \/ DownEachRow
  BY <1>1, <1>2, <1>4, <1>5 DEF Next
<1>10. \A k \in 1..10 : Files[k] \in WithSubject \cup DOMAIN rows => k \notin {1, 9}
  BY FilesAre DEF IInv, RowsOK, WithSubject
<1> QED  BY <1>6, <1>7, <1>8, <1>9, <1>10 DEF Here

\* What is due ceases to be only with the command that takes it back.
LEMMA DueLost ==
  ASSUME IInv, [Next]_vars, cuts \in Nat, UNCHANGED cuts, roles = {} \/ ~Here("up", 1, 3),
         NEW n \in 1..10, NEW u \in Nat \ {0}, NEW d \in Nat \ {0},
         u <= Commands("up", n), d <= Commands("down", n),
         Due(n, u, d), ~Due(n, u, d)'
  PROVE  Here("down", n, d) /\ run' = Advance
<1>0. RunOK /\ run \in RunType
  BY DEF IInv, RunOK
<1>1. CASE run' = run /\ applied' = applied
  BY <1>1 DEF Due
<1>2. CASE run' = Advance /\ applied' = applied
  <2>1. run'.does = run.does /\ run'.file = run.file /\ run'.step = run.step + 1
    BY <1>0, <1>2 DEF Advance, RunType
  <2> QED  BY <1>0, <1>2, <2>1 DEF Due, Here, RunType
<1>3. ASSUME run' = Idle, applied' = applied, run.step = 1 PROVE FALSE
  BY <1>0, <1>3 DEF Due, Idle, RunType
<1>4. CASE UpSubjects
  <2>1. run.step = 1 /\ run' \in {Idle, Advance} /\ applied' = applied
    BY <1>0, <1>4, Places DEF UpSubjects, InsertSubjects, Here
  <2> QED  BY <2>1, <1>2, <1>3
<1>5. CASE UpPermissions \/ DownPermissions
  <2>1. run' = Advance /\ applied' = applied
    BY <1>5 DEF UpPermissions, InsertPermissions, DownPermissions
  <2> QED  BY <2>1, <1>2
<1>6. CASE UpRoles
  <2> DEFINE names == <<"admin", "employee", "employer">>
  <2>1. roles = {}
    BY <1>0, <1>6, Places DEF UpRoles
  <2>2. Len(names) \in Nat
    OBVIOUS
  <2>3. Accepted("roles", roles, names) = Len(names)
    <3> HIDE DEF names
    <3> QED  BY <2>1, <2>2, AcceptsAll DEF Stored, Named
  <2>4. run' = Advance /\ applied' = applied
    BY <1>6, <2>3 DEF UpRoles
  <2> QED  BY <2>4, <1>2
<1>7. CASE DownRoles \/ DownJobsEmployer
  <2>1. run.step = 1 /\ run' \in {Idle, Advance} /\ applied' = applied
    BY <1>0, <1>7, Places DEF DownRoles, DownJobsEmployer, Here
  <2> QED  BY <2>1, <1>2, <1>3
<1>8. CASE DownSubject
  <2>1. applied' = applied /\ Here("down", 1, 3)
    BY <1>0, <1>8, Places DEF DownSubject
  <2>2. CASE run' = Advance
    BY <2>1, <2>2, <1>2
  <2>3. CASE \E name \in run.left : run' = [run EXCEPT !.left = @ \ {name}]
    <3>1. run'.does = run.does /\ run'.file = run.file /\ run'.step = run.step
      BY <1>0, <2>3 DEF RunType
    <3> QED  BY <2>1, <3>1 DEF Due
  <2> QED  BY <2>2, <2>3, <1>8 DEF DownSubject
<1>9. CASE UpJobsSubject
  <2>1. run.step = 1 /\ run' \in {Idle, Advance} /\ applied' = applied
    BY <1>0, <1>9, Places DEF UpJobsSubject, InsertSubjects, Here
  <2> QED  BY <2>1, <1>2, <1>3
<1>10. CASE UpJobsPermissions \/ UpJobsEmployee \/ UpJobsEmployer
  <2>1. run' = Advance /\ applied' = applied
    BY <1>10 DEF UpJobsPermissions, InsertPermissions, UpJobsEmployee, UpJobsEmployer
  <2> QED  BY <2>1, <1>2
<1>11. CASE DownJobsEmployee \/ DownJobsPermissions \/ DownJobsSubject
  <2>1. run' = Advance /\ applied' = applied
    BY <1>11 DEF DownJobsEmployee, DownJobsPermissions, DownJobsSubject
  <2> QED  BY <2>1, <1>2
<1>12. CASE UpSeedSubject
  <2>1. PICK f \in WithSubject : At("up", f, "subject") /\ InsertSubjects(<<f>>)
    BY <1>12 DEF UpSeedSubject
  <2>2. f \notin {"authorization", "permissions-jobs"}
    BY DEF WithSubject
  <2>3. run.step = 1 /\ run' \in {Idle, Advance} /\ applied' = applied
    BY <1>0, <2>1, <2>2, SeedPlaces DEF InsertSubjects
  <2> QED  BY <2>3, <1>2, <1>3
<1>13. CASE DownSeedSubject \/ UpRows \/ DownRows \/ DownEachRow
  <2>1. run' = Advance /\ applied' = applied
    BY <1>13 DEF DownSeedSubject, UpRows, DownRows, DownEachRow
  <2> QED  BY <2>1, <1>2
<1>14. CASE Up \/ Down
  <2>1. applied' = applied /\ run.does = "nothing" /\ run'.step = 1
    BY <1>14 DEF Up, Down, Begin, Running
  <2> QED  BY <2>1 DEF Due
<1>15. CASE Record
  <2>1. /\ run.does \in {"up", "down"} /\ run.file \in 1..10 /\ applied \in 0..10
        /\ run.step > Commands(run.does, run.file)
        /\ applied' = IF run.does = "up" THEN run.file ELSE run.file - 1
        /\ run'.does = "nothing" \/ run'.step = 1
        /\ run.does = "up" => run.file = applied + 1
        /\ run.does = "down" => run.file = applied
    BY <1>0, <1>15 DEF Record, Begin, Idle, Running, RunOK, RunType, Ended, File, Commands
  <2>2. applied' < n
    BY <2>1 DEF Due
  <2>3. CASE run.does = "up"
    BY <2>1, <2>2, <2>3 DEF Due
  <2>4. CASE run.does = "down"
    <3>1. run.file = n /\ applied = n
      BY <2>1, <2>2, <2>4 DEF Due
    <3>2. ~(run.step > d)
      BY <2>4, <3>1 DEF Due
    <3>3. Commands("down", n) \in Nat /\ run.step \in Nat
      BY <1>0 DEF Commands, Steps, RunType
    <3> QED  BY <2>1, <2>4, <3>1, <3>2, <3>3
  <2> QED  BY <2>1, <2>3, <2>4
<1>16. CASE Cut
  <2>1. cuts' = cuts + 1 /\ cuts' = cuts /\ cuts \in Nat
    BY <1>16 DEF Cut
  <2> QED  BY <2>1
<1>17. CASE AppStart \/ (\E v \in Users : SignUp(v)) \/ UNCHANGED vars
  BY <1>17, <1>1 DEF AppStart, SignUp, vars
<1> QED  BY <1>4, <1>5, <1>6, <1>7, <1>8, <1>9, <1>10, <1>11, <1>12, <1>13, <1>14, <1>15, <1>16, <1>17
      DEF Next

\* What does not change stays due.
LEMMA CutsStay ==
  ASSUME cuts \in Nat, [Next]_vars
  PROVE  cuts' \in Nat /\ (cuts' = 0 => cuts = 0)
<1>1. cuts' = cuts \/ cuts' = cuts + 1
  <2>1. CASE Up \/ Down \/ Record \/ Cut \/ AppStart \/ (\E u \in Users : SignUp(u)) \/ UNCHANGED vars
    BY <2>1 DEF Up, Down, Record, Cut, AppStart, SignUp, vars, history
  <2>2. CASE UpSubjects \/ UpPermissions \/ UpRoles \/ DownRoles \/ DownPermissions \/ DownSubject
    BY <2>2 DEF UpSubjects, UpPermissions, UpRoles, DownRoles, DownPermissions, DownSubject,
                InsertSubjects, InsertPermissions, history
  <2>3. CASE UpJobsSubject \/ UpJobsPermissions \/ UpJobsEmployee \/ UpJobsEmployer
    BY <2>3 DEF UpJobsSubject, UpJobsPermissions, UpJobsEmployee, UpJobsEmployer,
                InsertSubjects, InsertPermissions, history
  <2>4. CASE DownJobsEmployer \/ DownJobsEmployee \/ DownJobsPermissions \/ DownJobsSubject
    BY <2>4 DEF DownJobsEmployer, DownJobsEmployee, DownJobsPermissions, DownJobsSubject, history
  <2>5. CASE UpSeedSubject \/ DownSeedSubject \/ UpRows \/ DownRows \/ DownEachRow
    BY <2>5 DEF UpSeedSubject, DownSeedSubject, UpRows, DownRows, DownEachRow, InsertSubjects, history
  <2> QED  BY <2>1, <2>2, <2>3, <2>4, <2>5 DEF Next
<1> QED  BY <1>1

\* The lengths of the lists of commands.
LEMMA StepLengths ==
  /\ Commands("up", 1) = 3 /\ Commands("down", 1) = 3
  /\ Commands("up", 9) = 4 /\ Commands("down", 9) = 4
  /\ \A k \in 1..10 : Files[k] \in WithSubject => Commands("up", k) = 2 /\ Commands("down", k) = 2
  /\ \A k \in 1..10 : k \notin {1, 9} => Commands("up", k) \in 1..2 /\ Commands("down", k) \in 1..2
<1>1. Files[1] = "authorization" /\ Files[9] = "permissions-jobs"
  BY FilesAre
<1>2. /\ Len(Steps("up", "authorization")) = 3 /\ Len(Steps("down", "authorization")) = 3
      /\ Len(Steps("up", "permissions-jobs")) = 4 /\ Len(Steps("down", "permissions-jobs")) = 4
  BY DEF Steps, WithSubject
<1>3. ASSUME NEW f \in WithSubject
      PROVE  Len(Steps("up", f)) = 2 /\ Len(Steps("down", f)) = 2
  BY DEF Steps, WithSubject
<1>4. ASSUME NEW f, f \notin WithSubject, f \notin {"authorization", "permissions-jobs"}
      PROVE  Len(Steps("up", f)) = 1 /\ Len(Steps("down", f)) = 1
  BY <1>4 DEF Steps
<1>5. \A k \in 1..10 : k \notin {1, 9} => Files[k] \notin {"authorization", "permissions-jobs"}
  BY FilesAre
<1>6. ASSUME NEW k \in 1..10, Files[k] \in WithSubject
      PROVE  Commands("up", k) = 2 /\ Commands("down", k) = 2
  BY <1>3, <1>6 DEF Commands
<1>7. ASSUME NEW k \in 1..10, k \notin {1, 9}
      PROVE  Commands("up", k) \in 1..2 /\ Commands("down", k) \in 1..2
  BY <1>4, <1>5, <1>6, <1>7 DEF Commands
<1>8. Commands("up", 1) = 3 /\ Commands("down", 1) = 3
  BY <1>1, <1>2 DEF Commands
<1>9. Commands("up", 9) = 4 /\ Commands("down", 9) = 4
  BY <1>1, <1>2 DEF Commands
<1> QED  BY <1>6, <1>7, <1>8, <1>9

\* While no run is cut short, a command that takes something back is the only step after
\* which it is no longer due.
LEMMA DueStays ==
  ASSUME DInv, [Next]_vars, cuts' = 0
  PROVE  /\ Due(1, 1, 3) /\ ~Due(1, 1, 3)' => DownSubject /\ run' = Advance
         /\ Due(1, 2, 2) /\ ~Due(1, 2, 2)' => DownPermissions
         /\ Due(1, 3, 1) /\ ~Due(1, 3, 1)' => DownRoles /\ run' = Advance
         /\ Due(9, 1, 4) /\ ~Due(9, 1, 4)' => DownJobsSubject
         /\ Due(9, 2, 3) /\ ~Due(9, 2, 3)' => DownJobsPermissions
         /\ \A k \in 1..10 : Files[k] \in WithSubject /\ Due(k, 1, 2) /\ ~Due(k, 1, 2)' =>
              DownSeedSubject /\ run.file = k
         /\ \A k \in 1..10 : LET u == Commands("up", k) IN
              Files[k] \in DOMAIN rows /\ Due(k, u, 1) /\ ~Due(k, u, 1)' =>
                (DownRows \/ DownEachRow) /\ run.file = k
<1>0. IInv /\ cuts \in Nat /\ cuts = 0 /\ UNCHANGED cuts /\ RolesDue
  BY CutsStay DEF DInv
<1>1. roles = {} \/ ~Here("up", 1, 3)
  <2>1. Here("up", 1, 3) => ~Due(1, 3, 1)
    BY <1>0 DEF Here, Due, IInv, RunOK
  <2> QED  BY <2>1, <1>0 DEF RolesDue
<1>2. /\ Commands("up", 1) = 3 /\ Commands("down", 1) = 3
      /\ Commands("up", 9) = 4 /\ Commands("down", 9) = 4
  BY StepLengths
<1>3. ASSUME Due(1, 1, 3), ~Due(1, 1, 3)' PROVE Here("down", 1, 3) /\ run' = Advance
  BY <1>0, <1>1, <1>2, <1>3, DueLost
<1>4. ASSUME Due(1, 2, 2), ~Due(1, 2, 2)' PROVE Here("down", 1, 2) /\ run' = Advance
  BY <1>0, <1>1, <1>2, <1>4, DueLost
<1>5. ASSUME Due(1, 3, 1), ~Due(1, 3, 1)' PROVE Here("down", 1, 1) /\ run' = Advance
  BY <1>0, <1>1, <1>2, <1>5, DueLost
<1>6. ASSUME Due(9, 1, 4), ~Due(9, 1, 4)' PROVE Here("down", 9, 4) /\ run' = Advance
  BY <1>0, <1>1, <1>2, <1>6, DueLost
<1>7. ASSUME Due(9, 2, 3), ~Due(9, 2, 3)' PROVE Here("down", 9, 3) /\ run' = Advance
  BY <1>0, <1>1, <1>2, <1>7, DueLost
<1>8. ASSUME NEW k \in 1..10, Files[k] \in WithSubject, Due(k, 1, 2), ~Due(k, 1, 2)'
      PROVE  Here("down", k, 2) /\ run' = Advance
  <2>1. Commands("up", k) = 2 /\ Commands("down", k) = 2
    BY <1>8, StepLengths
  <2> QED  BY <2>1, <1>0, <1>1, <1>8, DueLost
<1>9. ASSUME NEW k \in 1..10, NEW u, u = Commands("up", k), Files[k] \in DOMAIN rows,
             Due(k, u, 1), ~Due(k, u, 1)'
      PROVE  Here("down", k, 1) /\ run' = Advance
  <2>1. k \notin {1, 9}
    BY <1>0, <1>9, FilesAre DEF IInv, RowsOK
  <2>2. u \in 1..2 /\ u <= Commands("up", k) /\ Commands("down", k) \in 1..2
    BY <2>1, <1>9, StepLengths
  <2> QED  BY <2>2, <1>0, <1>1, <1>9, DueLost
<1>10. \A k, d : Here("down", k, d) => run.file = k
  BY DEF Here
<1> QED  BY <1>0, <1>3, <1>4, <1>5, <1>6, <1>7, <1>8, <1>9, <1>10, OnlyCommand

\* An insertion adds one document of each name that it stores.
LEMMA AddsOne ==
  ASSUME NEW D, NEW n, NEW new, Named(new, n) = {} \/ \E x : Named(new, n) = {x}
  PROVE  /\ Named(D, n) = {} => AtMostOne(Named(D \cup new, n))
         /\ AtMostOne(Named(D, n)) => AtMostTwo(Named(D \cup new, n))
<1>1. Named(D \cup new, n) = Named(D, n) \cup Named(new, n)
  BY DEF Named
<1>2. PICK x : Named(new, n) \subseteq {x}
  OBVIOUS
<1>3. Named(D \cup new, n) \subseteq Named(D, n) \cup {x}
  BY <1>1, <1>2
<1> QED  BY <1>3 DEF AtMostOne, AtMostTwo

\* A deletion leaves one document less.
LEMMA TakesOne ==
  ASSUME IInv, NEW n
  PROVE  /\ AtMostOne(Named(subjects, n)) => Named(DeleteOne(subjects, n), n) = {}
         /\ AtMostTwo(Named(subjects, n)) => AtMostOne(Named(DeleteOne(subjects, n), n))
         /\ DeleteOne(subjects, n) \subseteq subjects
         /\ \A m : m # n => Named(DeleteOne(subjects, n), m) = Named(subjects, m)
<1>1. CASE ~Stored(subjects, n)
  <2>1. DeleteOne(subjects, n) = subjects /\ Named(subjects, n) = {}
    BY <1>1 DEF DeleteOne, Stored
  <2> QED  BY <2>1 DEF AtMostOne
<1>2. CASE Stored(subjects, n)
  <2>1. PICK d \in subjects : d.name = n /\ DeleteOne(subjects, n) = subjects \ {d}
    BY <1>2, FindOneIs DEF DeleteOne, IInv, StoredOK, RunOK
  <2>2. Named(DeleteOne(subjects, n), n) = Named(subjects, n) \ {d} /\ d \in Named(subjects, n)
    BY <2>1 DEF Named
  <2>3. \A m : m # n => Named(DeleteOne(subjects, n), m) = Named(subjects, m)
    BY <2>1 DEF Named
  <2>4. AtMostOne(Named(subjects, n)) => Named(DeleteOne(subjects, n), n) = {}
    BY <2>2 DEF AtMostOne
  <2>5. AtMostTwo(Named(subjects, n)) => AtMostOne(Named(DeleteOne(subjects, n), n))
    BY <2>2 DEF AtMostOne, AtMostTwo
  <2> QED  BY <2>1, <2>3, <2>4, <2>5
<1> QED  BY <1>1, <1>2

\* The first file's subject of a name ceases to be due with its own deletion.
LEMMA FirstStays ==
  ASSUME DInv, [Next]_vars, cuts' = 0, NEW n \in Range(DefaultSubjects), FirstDue(n), ~FirstDue(n)'
  PROVE  DownSubject
<1>0. RunOK /\ run \in RunType
  BY DEF DInv, IInv, RunOK
<1>1. CASE ~Due(1, 1, 3)'
  <2>1. Due(1, 1, 3)
    BY DEF FirstDue
  <2> QED  BY <1>1, <2>1, DueStays
<1>2. CASE run'.does = "down" /\ run'.file = 1 /\ n \notin run'.left
  <2>1. run'.left # run.left \/ run.does # "down" \/ run.file # 1
    BY <1>2 DEF FirstDue
  <2>2. run' # run
    BY <1>2, <2>1
  <2>3. run' # Advance
    BY <1>0, <1>2, <2>1 DEF Advance, RunType
  <2>4. run' # Idle
    BY <1>2 DEF Idle
  <2>5. ~(run' = Begin("down", applied)) /\ \A m : ~(run' = Begin("up", m))
    <3>1. \A m : Begin("up", m).does = "up"
      BY DEF Begin
    <3>2. Begin("down", applied).file = 1 => Begin("down", applied).left = Range(DefaultSubjects)
      BY DEF Begin
    <3> QED  BY <3>1, <3>2, <1>2
  <2>6. ~(Up \/ Down \/ Record \/ Cut \/ AppStart \/ (\E u \in Users : SignUp(u)) \/ UNCHANGED vars)
    BY <2>2, <2>4, <2>5 DEF Up, Down, Record, Cut, AppStart, SignUp, vars
  <2>7. ~(UpSubjects \/ UpPermissions \/ UpRoles \/ DownRoles \/ DownPermissions)
    BY <2>3, <2>4 DEF UpSubjects, UpPermissions, UpRoles, DownRoles, DownPermissions,
                      InsertSubjects, InsertPermissions
  <2>8. ~(UpJobsSubject \/ UpJobsPermissions \/ UpJobsEmployee \/ UpJobsEmployer)
    BY <2>3, <2>4 DEF UpJobsSubject, UpJobsPermissions, UpJobsEmployee, UpJobsEmployer,
                      InsertSubjects, InsertPermissions
  <2>9. ~(DownJobsEmployer \/ DownJobsEmployee \/ DownJobsPermissions \/ DownJobsSubject)
    BY <2>3, <2>4 DEF DownJobsEmployer, DownJobsEmployee, DownJobsPermissions, DownJobsSubject
  <2>10. ~(UpSeedSubject \/ DownSeedSubject \/ UpRows \/ DownRows \/ DownEachRow)
    BY <2>3, <2>4 DEF UpSeedSubject, DownSeedSubject, UpRows, DownRows, DownEachRow, InsertSubjects
  <2> QED  BY <2>6, <2>7, <2>8, <2>9, <2>10 DEF Next
<1> QED  BY <1>1, <1>2 DEF FirstDue

\* The subjects that are stored are due.
LEMMA SubjectsStep ==
  ASSUME DInv, [Next]_vars, cuts' = 0
  PROVE  SubjectsDue'
<1>0. /\ IInv /\ RunOK /\ SubjectsDue /\ cuts = 0 /\ RunOK'
  BY CutsStay, RunStep DEF DInv, IInv
<1>12. \A k \in 1..10 : Files[k] \in WithSubject => Files[k] \in Range(DefaultSubjects) /\ k \notin {1, 9}
  BY FilesDiffer
<1>13. "jobs" \notin Range(DefaultSubjects)
  BY DefaultNames
<1>1. CASE subjects' = subjects /\ ~DownSubject /\ ~DownJobsSubject /\ ~DownSeedSubject
  <2>1. \A n \in Range(DefaultSubjects) : FirstDue(n)' \/ Named(subjects, n) = {}
    <3> SUFFICES ASSUME NEW n \in Range(DefaultSubjects), ~FirstDue(n)' PROVE Named(subjects, n) = {}
      OBVIOUS
    <3>1. ~FirstDue(n)
      BY <1>1, FirstStays
    <3> QED  BY <3>1, <1>0 DEF SubjectsDue
  <2>2. \A k \in 1..10 : Files[k] \in WithSubject =>
          Due(k, 1, 2)' \/ AtMostOne(Named(subjects, Files[k]))
    <3> SUFFICES ASSUME NEW k \in 1..10, Files[k] \in WithSubject, ~Due(k, 1, 2)'
                 PROVE  AtMostOne(Named(subjects, Files[k]))
      OBVIOUS
    <3>1. ~Due(k, 1, 2)
      BY <1>1, DueStays
    <3> QED  BY <3>1, <1>0 DEF SubjectsDue
  <2>3. Due(9, 1, 4)' \/ Named(subjects, "jobs") = {}
    <3>1. Due(9, 1, 4)' \/ ~Due(9, 1, 4)
      BY <1>1, DueStays
    <3> QED  BY <3>1, <1>0 DEF SubjectsDue
  <2> QED  BY <1>0, <1>1, <2>1, <2>2, <2>3 DEF SubjectsDue
<1>2. CASE UpSubjects
  <2> DEFINE new == {[name |-> DefaultSubjects[i], batch |-> last + 1] : i \in 1..7}
  <2>1. Here("up", 1, 1) /\ InsertSubjects(DefaultSubjects)
    BY <1>0, <1>2, Places DEF UpSubjects
  <2>2. applied = 0 /\ \A n \in Range(DefaultSubjects) : ~FirstDue(n)
    BY <1>0, <2>1 DEF Here, FirstDue, Due, RunOK
  <2>3. \A n \in Range(DefaultSubjects) : Named(subjects, n) = {}
    BY <1>0, <2>2 DEF SubjectsDue
  <2>4. Len(DefaultSubjects) \in Nat /\ Len(DefaultSubjects) = 7
        /\ \A i \in 1..7 : DefaultSubjects[i] \in Range(DefaultSubjects)
    BY DefaultNames
  <2>5. Accepted("subjects", subjects, DefaultSubjects) = 7
    BY <2>3, <2>4, AcceptsAll DEF Stored
  <2>6. subjects' = subjects \cup new /\ run' = Advance /\ applied' = applied
    BY <2>1, <2>4, <2>5 DEF InsertSubjects
  <2>7. Here("up", 1, 2)'
    BY <1>0, <2>1, <2>6, AdvanceIs
  <2>8. ASSUME NEW n PROVE Named(new, n) = {} \/ \E x : Named(new, n) = {x}
    <3>1. \A x \in new : x = [name |-> x.name, batch |-> last + 1]
      OBVIOUS
    <3>2. \A x, y \in Named(new, n) : x = y
      <4> SUFFICES ASSUME NEW x \in Named(new, n), NEW y \in Named(new, n) PROVE x = y
        OBVIOUS
      <4>1. x \in new /\ y \in new /\ x.name = n /\ y.name = n
        BY DEF Named
      <4> QED  BY <4>1, <3>1
    <3> QED  BY <3>2
  <2>9. \A x \in new : x.name \in Range(DefaultSubjects)
    BY <2>4
  <2> HIDE DEF new
  <2>10. \A n : Named(subjects, n) = {} => AtMostOne(Named(subjects', n))
    BY <2>6, <2>8, AddsOne
  <2>11. Named(new, "jobs") = {}
    BY <2>9, <1>13 DEF Named
  <2>12. Named(subjects', "jobs") = Named(subjects, "jobs")
    BY <2>6, <2>11 DEF Named
  <2>13. Named(subjects, "jobs") = {}
    BY <1>0, <2>1, <2>2 DEF SubjectsDue, Due, Here
  <2>14. \A n : FirstDue(n)'
    BY <2>7 DEF FirstDue, Due, Here
  <2>15. \A n \in Range(DefaultSubjects) : AtMostOne(Named(subjects', n))
    BY <2>3, <2>10
  <2>16. \A n : AtMostOne(Named(subjects', n)) => AtMostTwo(Named(subjects', n))
    BY DEF AtMostOne, AtMostTwo
  <2>17. \A s \in subjects' : s.name \in Range(DefaultSubjects) \cup {"jobs"}
    BY <1>0, <2>6, <2>9 DEF SubjectsDue
  <2>18. AtMostOne(Named(subjects', "jobs"))
    BY <2>12, <2>13 DEF AtMostOne
  <2> QED  BY <1>12, <2>12, <2>13, <2>14, <2>15, <2>16, <2>17, <2>18 DEF SubjectsDue
\* The other insertions are of one subject, or of none.
<1>3. ASSUME NEW f, InsertSubjects(<<f>>)
      PROVE  /\ \/ subjects' = subjects
                \/ subjects' = subjects \cup {[name |-> f, batch |-> last + 1]} /\ run' = Advance
             /\ applied' = applied
  <2> DEFINE n == Accepted("subjects", subjects, <<f>>)
  <2>1. Len(<<f>>) = 1 /\ <<f>>[1] = f
    OBVIOUS
  <2>2. n \in 0..1
    <3>1. n \in 0..Len(<<f>>)
      BY <2>1, AcceptedIs
    <3> QED  BY <2>1, <3>1
  <2>3. /\ subjects' = subjects \cup {[name |-> <<f>>[i], batch |-> last + 1] : i \in 1..n}
        /\ run' = (IF n = Len(<<f>>) THEN Advance ELSE Idle) /\ applied' = applied
    BY <1>3 DEF InsertSubjects
  <2> HIDE DEF n
  <2>4. CASE n = 0
    <3>1. 1..n = {}
      BY <2>4
    <3>2. {[name |-> <<f>>[i], batch |-> last + 1] : i \in 1..n} = {}
      BY <3>1
    <3> QED  BY <2>3, <3>2
  <2>5. CASE n = 1
    <3>1. 1..n = {1}
      BY <2>5
    <3>2. {[name |-> <<f>>[i], batch |-> last + 1] : i \in 1..n} = {[name |-> f, batch |-> last + 1]}
      BY <2>1, <3>1
    <3> QED  BY <2>1, <2>3, <2>5, <3>2
  <2> QED  BY <2>2, <2>4, <2>5
<1>4. ASSUME NEW f, subjects' = subjects \cup {[name |-> f, batch |-> last + 1]}
      PROVE  /\ Named(subjects, f) = {} => AtMostOne(Named(subjects', f))
             /\ AtMostOne(Named(subjects, f)) => AtMostTwo(Named(subjects', f))
             /\ \A m : m # f => Named(subjects', m) = Named(subjects, m)
             /\ \A s \in subjects' : s \in subjects \/ s.name = f
  <2> DEFINE new == [name |-> f, batch |-> last + 1]
  <2>1. new.name = f
    OBVIOUS
  <2> HIDE DEF new
  <2>2. subjects' = subjects \cup {new}
    BY <1>4 DEF new
  <2>3. Named({new}, f) = {new}
    BY <2>1 DEF Named
  <2>4. /\ Named(subjects, f) = {} => AtMostOne(Named(subjects \cup {new}, f))
        /\ AtMostOne(Named(subjects, f)) => AtMostTwo(Named(subjects \cup {new}, f))
    BY <2>3, AddsOne
  <2>5. \A m : m # f => Named(subjects', m) = Named(subjects, m)
    BY <2>1, <2>2 DEF Named
  <2> QED  BY <2>1, <2>2, <2>4, <2>5
<1>5. CASE UpJobsSubject /\ subjects' # subjects
  <2>1. Here("up", 9, 1) /\ InsertSubjects(<<"jobs">>)
    BY <1>0, <1>5, Places DEF UpJobsSubject
  <2>2. subjects' = subjects \cup {[name |-> "jobs", batch |-> last + 1]} /\ run' = Advance
        /\ applied' = applied
    BY <2>1, <1>3, <1>5
  <2>3. Here("up", 9, 2)' /\ applied = 8
    BY <1>0, <2>1, <2>2, AdvanceIs DEF Here, RunOK
  <2>4. Named(subjects, "jobs") = {}
    BY <1>0, <2>1, <2>3 DEF SubjectsDue, Due, Here
  <2>5. AtMostOne(Named(subjects', "jobs")) /\ \A m : m # "jobs" => Named(subjects', m) = Named(subjects, m)
    BY <2>2, <2>4, <1>4
  <2>6. Due(9, 1, 4)' /\ \A n : FirstDue(n)'
    BY <1>0, <2>3, <2>2 DEF Due, FirstDue, Here
  <2>7. \A k \in 1..10 : Files[k] \in WithSubject => Due(k, 1, 2)' \/ ~Due(k, 1, 2)
    BY <2>1, <2>2, <2>3, <1>12 DEF Due, Here
  <2>8. \A s \in subjects' : s.name \in Range(DefaultSubjects) \cup {"jobs"}
    BY <1>0, <2>2, <1>4 DEF SubjectsDue
  <2>9. \A n \in Range(DefaultSubjects) : Named(subjects', n) = Named(subjects, n)
    BY <2>5, <1>13
  <2> QED  BY <1>0, <1>12, <2>5, <2>6, <2>7, <2>8, <2>9 DEF SubjectsDue
<1>6. CASE UpSeedSubject /\ subjects' # subjects
  <2>1. PICK f \in WithSubject : At("up", f, "subject") /\ InsertSubjects(<<f>>)
    BY <1>6 DEF UpSeedSubject
  <2>2. subjects' = subjects \cup {[name |-> f, batch |-> last + 1]} /\ run' = Advance
        /\ applied' = applied
    BY <2>1, <1>3, <1>6
  <2>3. f \notin {"authorization", "permissions-jobs"} /\ f \in Range(DefaultSubjects)
    BY FilesDiffer DEF WithSubject
  <2>4. PICK k \in 1..10 : k = run.file /\ Files[k] = f /\ run.does = "up" /\ run.step = 1
    BY <1>0, <2>1, <2>3, AtIs, SeedPlaces
  <2>5. k = applied + 1 /\ k \notin {1, 9} /\ k > 1
    BY <1>0, <1>12, <2>4 DEF RunOK, RunType
  <2>6. run'.does = "up" /\ run'.file = k /\ run'.step = 2
    BY <1>0, <2>2, <2>4 DEF Advance, RunOK, RunType
  <2>7. ~Due(k, 1, 2) /\ Due(k, 1, 2)'
    BY <2>4, <2>5, <2>6, <1>0 DEF Due, RunOK
  <2>8. \A j \in 1..10 : j # k /\ Files[j] \in WithSubject => Files[j] # f /\ (Due(j, 1, 2)' \/ ~Due(j, 1, 2))
    BY <2>2, <2>4, <2>6, FilesDiffer DEF Due
  <2>9. AtMostTwo(Named(subjects', f)) /\ \A m : m # f => Named(subjects', m) = Named(subjects, m)
    <3>1. AtMostOne(Named(subjects, f))
      BY <1>0, <2>1, <2>4, <2>7 DEF SubjectsDue
    <3> QED  BY <3>1, <2>2, <1>4
  <2>10. \A n : FirstDue(n)'
    BY <1>0, <2>2, <2>5, <2>6 DEF FirstDue, Due, RunOK
  <2>11. Due(9, 1, 4)' \/ ~Due(9, 1, 4)
    BY <2>2, <2>4, <2>6, <2>5 DEF Due
  <2>12. Named(subjects', "jobs") = Named(subjects, "jobs")
    BY <2>3, <2>9, <1>13
  <2>13. \A s \in subjects' : s.name \in Range(DefaultSubjects) \cup {"jobs"}
    BY <1>0, <2>2, <2>3, <1>4 DEF SubjectsDue
  <2>14. \A n \in Range(DefaultSubjects) \ WithSubject : Named(subjects', n) = Named(subjects, n)
    BY <2>9, <2>1
  <2>15. ASSUME NEW j \in 1..10, Files[j] \in WithSubject
         PROVE  AtMostTwo(Named(subjects', Files[j])) /\ (Due(j, 1, 2)' \/ AtMostOne(Named(subjects', Files[j])))
    <3>1. CASE j = k
      BY <3>1, <2>4, <2>7, <2>9
    <3>2. CASE j # k
      <4>1. Files[j] # f /\ (Due(j, 1, 2)' \/ ~Due(j, 1, 2))
        BY <3>2, <2>8, <2>15
      <4>2. Named(subjects', Files[j]) = Named(subjects, Files[j])
        BY <4>1, <2>9
      <4> QED  BY <4>1, <4>2, <1>0, <2>15 DEF SubjectsDue
    <3> QED  BY <3>1, <3>2
  <2> QED  BY <1>0, <2>10, <2>11, <2>12, <2>13, <2>14, <2>15 DEF SubjectsDue
<1>7. CASE DownSubject
  <2>1. Here("down", 1, 3) /\ applied' = applied
    BY <1>0, <1>7, Places DEF DownSubject
  <2>2. PICK name \in run.left :
          /\ subjects' = DeleteOne(subjects, name)
          /\ run' = IF run.left = {name} THEN Advance ELSE [run EXCEPT !.left = @ \ {name}]
    BY <1>7 DEF DownSubject
  <2>3. applied = 1 /\ name \in Range(DefaultSubjects) /\ name # "jobs"
    BY <1>0, <1>13, <2>1 DEF Here, RunOK, RunType
  <2>4. \A k \in 1..10 : Files[k] \in WithSubject => ~Due(k, 1, 2)
    BY <2>1, <2>3, <1>12 DEF Due, Here
  <2>5. AtMostOne(Named(subjects, name))
    <3>1. CASE name \notin WithSubject
      BY <3>1, <2>3, <1>0 DEF SubjectsDue
    <3>2. CASE name \in WithSubject
      <4>1. \E k \in 1..10 : Files[k] = name
        BY <3>2, FilesDiffer
      <4> QED  BY <4>1, <3>2, <2>4, <1>0 DEF SubjectsDue
    <3> QED  BY <3>1, <3>2
  <2>6. /\ Named(subjects', name) = {} /\ subjects' \subseteq subjects
        /\ \A m : m # name => Named(subjects', m) = Named(subjects, m)
    BY <2>2, <2>5, <1>0, TakesOne
  <2>7. \A n \in Range(DefaultSubjects) : n # name /\ ~FirstDue(n)' => ~FirstDue(n)
    <3>1. CASE run.left = {name}
      BY <2>1, <3>1 DEF FirstDue, Here
    <3>2. CASE run' = [run EXCEPT !.left = @ \ {name}]
      <4>1. /\ run'.does = run.does /\ run'.file = run.file /\ run'.step = run.step
            /\ run'.left = run.left \ {name}
        BY <3>2, <1>0 DEF RunOK, RunType
      <4>2. Due(1, 1, 3)' <=> Due(1, 1, 3)
        BY <2>1, <4>1 DEF Due
      <4> QED  BY <4>1, <4>2 DEF FirstDue
    <3> QED  BY <2>2, <3>1, <3>2
  <2>8. \A n \in Range(DefaultSubjects) : FirstDue(n)' \/ Named(subjects', n) = {}
    <3> SUFFICES ASSUME NEW n \in Range(DefaultSubjects), ~FirstDue(n)' PROVE Named(subjects', n) = {}
      OBVIOUS
    <3>1. CASE n = name
      BY <3>1, <2>6
    <3>2. CASE n # name
      BY <3>2, <2>6, <2>7, <1>0 DEF SubjectsDue
    <3> QED  BY <3>1, <3>2
  <2>9. \A n : (AtMostOne(Named(subjects, n)) => AtMostOne(Named(subjects', n)))
               /\ (AtMostTwo(Named(subjects, n)) => AtMostTwo(Named(subjects', n)))
    BY <2>6 DEF AtMostOne, AtMostTwo
  <2>10. Named(subjects', "jobs") = Named(subjects, "jobs") /\ Named(subjects, "jobs") = {}
    BY <2>1, <2>3, <2>6, <1>0 DEF SubjectsDue, Due, Here
  <2>11. \A k \in 1..10 : Files[k] \in WithSubject => AtMostOne(Named(subjects', Files[k]))
    BY <2>4, <2>9, <1>0 DEF SubjectsDue
  <2> QED  BY <1>0, <2>6, <2>8, <2>9, <2>10, <2>11 DEF SubjectsDue
<1>8. CASE DownJobsSubject
  <2>1. /\ Here("down", 9, 4) /\ applied' = applied /\ run' = Advance
        /\ subjects' = DeleteOne(subjects, "jobs")
    BY <1>0, <1>8, Places DEF DownJobsSubject
  <2>2. Here("down", 9, 5)' /\ applied = 9
    BY <1>0, <2>1, AdvanceIs DEF Here, RunOK
  <2>3. /\ Named(subjects', "jobs") = {} /\ subjects' \subseteq subjects
        /\ \A m : m # "jobs" => Named(subjects', m) = Named(subjects, m)
    BY <2>1, <1>0, TakesOne DEF SubjectsDue
  <2>4. \A n : FirstDue(n)'
    BY <2>1, <2>2 DEF FirstDue, Due, Here
  <2>5. \A k \in 1..10 : Files[k] \in WithSubject => Due(k, 1, 2)' \/ ~Due(k, 1, 2)
    BY <2>1, <2>2, <1>12 DEF Due, Here
  <2>6. AtMostOne(Named(subjects', "jobs"))
    BY <2>3 DEF AtMostOne
  <2>7. \A n \in Range(DefaultSubjects) : Named(subjects', n) = Named(subjects, n)
    BY <2>3, <1>13
  <2> QED  BY <1>0, <1>12, <2>3, <2>4, <2>5, <2>6, <2>7 DEF SubjectsDue
<1>9. CASE DownSeedSubject
  <2>1. PICK f \in WithSubject : At("down", f, "subject") /\ subjects' = DeleteOne(subjects, f)
    BY <1>9 DEF DownSeedSubject
  <2>2. run' = Advance /\ applied' = applied
    BY <1>9 DEF DownSeedSubject
  <2>3. f \notin {"authorization", "permissions-jobs"} /\ f \in Range(DefaultSubjects) /\ f # "jobs"
    BY FilesDiffer, <1>13 DEF WithSubject
  <2>4. PICK k \in 1..10 : k = run.file /\ Files[k] = f /\ run.does = "down" /\ run.step = 2
    BY <1>0, <2>1, <2>3, AtIs, SeedPlaces
  <2>5. k = applied /\ k \notin {1, 9} /\ k > 1
    BY <1>0, <1>12, <2>1, <2>4 DEF RunOK, RunType
  <2>6. run'.does = "down" /\ run'.file = k /\ run'.step = 3
    BY <1>0, <2>2, <2>4 DEF Advance, RunOK, RunType
  <2>7. AtMostTwo(Named(subjects, f))
    BY <1>0, <2>1, <2>4 DEF SubjectsDue
  <2>8. /\ AtMostOne(Named(subjects', f)) /\ subjects' \subseteq subjects
        /\ \A m : m # f => Named(subjects', m) = Named(subjects, m)
    BY <2>1, <2>7, <1>0, TakesOne
  <2>9. \A n : FirstDue(n)'
    BY <1>0, <2>2, <2>5, <2>6 DEF FirstDue, Due, RunOK
  <2>10. \A j \in 1..10 : j # k /\ Files[j] \in WithSubject => Files[j] # f /\ (Due(j, 1, 2)' \/ ~Due(j, 1, 2))
    BY <2>2, <2>4, <2>6, FilesDiffer DEF Due
  <2>11. (Due(9, 1, 4)' \/ ~Due(9, 1, 4)) /\ Named(subjects', "jobs") = Named(subjects, "jobs")
    BY <2>2, <2>3, <2>4, <2>5, <2>6, <2>8 DEF Due
  <2>12. AtMostTwo(Named(subjects', f))
    BY <2>8 DEF AtMostOne, AtMostTwo
  <2>13. ASSUME NEW j \in 1..10, Files[j] \in WithSubject
         PROVE  AtMostTwo(Named(subjects', Files[j])) /\ (Due(j, 1, 2)' \/ AtMostOne(Named(subjects', Files[j])))
    <3>1. CASE j = k
      BY <3>1, <2>4, <2>8, <2>12
    <3>2. CASE j # k
      <4>1. Files[j] # f /\ (Due(j, 1, 2)' \/ ~Due(j, 1, 2))
        BY <3>2, <2>10, <2>13
      <4>2. Named(subjects', Files[j]) = Named(subjects, Files[j])
        BY <4>1, <2>8
      <4> QED  BY <4>1, <4>2, <1>0, <2>13 DEF SubjectsDue
    <3> QED  BY <3>1, <3>2
  <2>14. \A n \in Range(DefaultSubjects) \ WithSubject : Named(subjects', n) = Named(subjects, n)
    BY <2>8, <2>1
  <2> QED  BY <1>0, <2>8, <2>9, <2>11, <2>13, <2>14 DEF SubjectsDue
<1>10. CASE (UpJobsSubject \/ UpSeedSubject) /\ subjects' = subjects
  <2>1. run.does = "up"
    BY <1>10 DEF UpJobsSubject, UpSeedSubject, At
  <2>2. ~DownSubject /\ ~DownJobsSubject /\ ~DownSeedSubject
    BY <2>1 DEF DownSubject, DownJobsSubject, DownSeedSubject, At
  <2> QED  BY <1>10, <2>2, <1>1
<1>11. CASE /\ ~UpSubjects /\ ~UpJobsSubject /\ ~UpSeedSubject
            /\ ~DownSubject /\ ~DownJobsSubject /\ ~DownSeedSubject
  <2>1. subjects' = subjects
    <3>1. CASE UpPermissions \/ UpRoles \/ DownRoles \/ DownPermissions
      BY <3>1 DEF UpPermissions, UpRoles, DownRoles, DownPermissions, InsertPermissions
    <3>2. CASE UpJobsPermissions \/ UpJobsEmployee \/ UpJobsEmployer
      BY <3>2 DEF UpJobsPermissions, UpJobsEmployee, UpJobsEmployer, InsertPermissions
    <3>3. CASE DownJobsEmployer \/ DownJobsEmployee \/ DownJobsPermissions
      BY <3>3 DEF DownJobsEmployer, DownJobsEmployee, DownJobsPermissions
    <3>4. CASE UpRows \/ DownRows \/ DownEachRow
      BY <3>4 DEF UpRows, DownRows, DownEachRow
    <3>5. CASE Up \/ Down \/ Record \/ Cut \/ AppStart \/ (\E u \in Users : SignUp(u)) \/ UNCHANGED vars
      BY <3>5 DEF Up, Down, Record, Cut, AppStart, SignUp, vars, data
    <3> QED  BY <3>1, <3>2, <3>3, <3>4, <3>5, <1>11 DEF Next
  <2> QED  BY <2>1, <1>11, <1>1
<1> QED  BY <1>2, <1>5, <1>6, <1>7, <1>8, <1>9, <1>10, <1>11

\* Permissions are there only while their file has stored them.
LEMMA PermissionsStep ==
  ASSUME DInv, [Next]_vars, cuts' = 0
  PROVE  /\ Due(1, 2, 2)' \/ \A p \in permissions' : p.subject.name = "jobs"
         /\ Due(9, 2, 3)' \/ \A p \in permissions' : p.subject.name # "jobs"
<1>0. /\ IInv /\ RunOK /\ StoredOK /\ CommandsOK /\ SubjectsDue /\ RolesDue
      /\ run \in RunType
  BY CutsStay DEF DInv, IInv, RunOK
<1>1. \A n \in {"users", "employees", "employers", "all"} : n \in Range(DefaultSubjects) \ WithSubject
  BY DefaultNames DEF WithSubject
<1>2. ASSUME NEW n \in {"users", "employees", "employers", "all", "jobs"},
             NEW s \in subjects, s.name = n
      PROVE  s = On(n)
  <2>1. AtMostOne(Named(subjects, n))
    BY <1>0, <1>1, <1>2 DEF SubjectsDue
  <2>2. Stored(subjects, n) /\ s \in Named(subjects, n)
    BY <1>2 DEF Stored, Named
  <2>3. On(n) \in Named(subjects, n)
    BY <1>0, <2>2, SubjectIs DEF Named
  <2> QED  BY <2>1, <2>2, <2>3 DEF AtMostOne
<1>3. CASE UpPermissions
  <2> DEFINE set == EntityPermissions("employees", "employers")
                      \cup EntityPermissions("employers", "employees")
                      \cup {Perm("manage", On("all"), "none")} \cup UserPermissions
  <2>1. Here("up", 1, 2) /\ InsertPermissions(set)
    BY <1>0, <1>3, Places DEF UpPermissions
  <2>2. permissions' = permissions \cup set /\ run' = Advance /\ applied' = applied
    BY <2>1 DEF InsertPermissions
  <2>3. Here("up", 1, 3)' /\ applied = 0
    BY <1>0, <2>1, <2>2, AdvanceIs DEF Here, RunOK
  <2>4. \A p \in permissions : p.subject.name # "jobs"
    BY <1>0, <2>1, <2>3 DEF RolesDue, Due, Here
  <2>5. ASSUME NEW n \in {"users", "employees", "employers", "all"} PROVE On(n).name = n
    <3>1. Stored(subjects, n)
      BY <1>0, <1>1, <2>1 DEF CommandsOK
    <3> QED  BY <1>0, <3>1, SubjectIs
  <2>6. \A p \in set : p.subject.name # "jobs"
    BY <2>5 DEF EntityPermissions, UserPermissions, Perm
  <2> HIDE DEF set
  <2> QED  BY <2>2, <2>3, <2>4, <2>6 DEF Due, Here
<1>4. CASE UpJobsPermissions
  <2>1. Here("up", 9, 2) /\ run' = Advance /\ applied' = applied
    BY <1>0, <1>4, Places DEF UpJobsPermissions, InsertPermissions
  <2>2. Here("up", 9, 3)' /\ applied = 8
    BY <1>0, <2>1, AdvanceIs DEF Here, RunOK
  <2> QED  BY <2>1, <2>2 DEF Due, Here
<1>5. CASE DownPermissions
  <2>1. Here("down", 1, 2) /\ applied = 1
    BY <1>0, <1>5, Places DEF DownPermissions, Here, RunOK
  <2>2. \A p \in permissions : p.subject.name # "jobs"
    BY <1>0, <2>1 DEF RolesDue, Due, Here
  <2>3. permissions' = permissions \ (OfEntity("employees", "employers")
                                        \cup OfEntity("employers", "employees")
                                        \cup {p \in permissions : p.subject \in {On("all"), On("users")}})
    BY <1>5 DEF DownPermissions
  <2>4. ASSUME NEW p \in permissions PROVE p \notin permissions'
    <3>1. Shaped(p) /\ p.subject \in subjects /\ p.subject.name # "jobs"
      BY <1>0, <2>2 DEF StoredOK
    <3>2. p.subject.name \in {"users", "all"} => p.subject \in {On("all"), On("users")}
      BY <3>1, <1>2
    <3>3. p.subject.name = "employees" => p.subject = On("employees")
      BY <3>1, <1>2
    <3>4. p.subject.name = "employers" => p.subject = On("employers")
      BY <3>1, <1>2
    <3>5. CASE p.subject.name \in {"users", "all"}
      BY <2>3, <3>2, <3>5
    <3>6. CASE p.subject.name = "employees"
      <4>1. \/ p.action \in RUD /\ p.condition = "own"
            \/ p.action = "read" /\ p.condition = "none"
        BY <3>1, <3>6 DEF Shaped
      <4>2. p \in OfEntity("employees", "employers") \cup OfEntity("employers", "employees")
        BY <4>1, <3>3, <3>6 DEF OfEntity
      <4> QED  BY <4>2, <2>3
    <3>7. CASE p.subject.name = "employers"
      <4>1. \/ p.action \in RUD /\ p.condition = "own"
            \/ p.action = "read" /\ p.condition = "none"
        BY <3>1, <3>7 DEF Shaped
      <4>2. p \in OfEntity("employees", "employers") \cup OfEntity("employers", "employees")
        BY <4>1, <3>4, <3>7 DEF OfEntity
      <4> QED  BY <4>2, <2>3
    <3>8. p.subject.name \in {"users", "all", "employees", "employers"}
      BY <3>1 DEF Shaped
    <3> QED  BY <3>5, <3>6, <3>7, <3>8
  <2>5. permissions' = {}
    BY <2>3, <2>4
  <2> QED  BY <2>5
<1>6. CASE DownJobsPermissions
  <2>1. /\ Here("down", 9, 3) /\ run' = Advance /\ applied' = applied
        /\ permissions' = permissions \ (JobsOfEmployer \cup JobsOfEmployee)
    BY <1>0, <1>6, Places DEF DownJobsPermissions
  <2>2. Here("down", 9, 4)' /\ applied = 9
    BY <1>0, <2>1, AdvanceIs DEF Here, RunOK
  <2>3. ASSUME NEW p \in permissions, p.subject.name = "jobs" PROVE p \notin permissions'
    <3>1. Shaped(p) /\ p.subject = On("jobs")
      BY <1>0, <1>2, <2>3 DEF StoredOK
    <3>2. p.condition \in {"role", "company"} \/ p.action = "read"
      BY <3>1, <2>3 DEF Shaped
    <3> QED  BY <2>1, <3>1, <3>2 DEF JobsOfEmployer, JobsOfEmployee
  <2> QED  BY <2>1, <2>2, <2>3 DEF Due, Here
<1>7. CASE ~UpPermissions /\ ~UpJobsPermissions /\ ~DownPermissions /\ ~DownJobsPermissions
  <2>1. permissions' = permissions
    <3>1. CASE UpSubjects \/ UpRoles \/ DownRoles \/ DownSubject
      BY <3>1 DEF UpSubjects, UpRoles, DownRoles, DownSubject, InsertSubjects
    <3>2. CASE UpJobsSubject \/ UpJobsEmployee \/ UpJobsEmployer
      BY <3>2 DEF UpJobsSubject, UpJobsEmployee, UpJobsEmployer, InsertSubjects
    <3>3. CASE DownJobsEmployer \/ DownJobsEmployee \/ DownJobsSubject
      BY <3>3 DEF DownJobsEmployer, DownJobsEmployee, DownJobsSubject
    <3>4. CASE UpSeedSubject \/ DownSeedSubject \/ UpRows \/ DownRows \/ DownEachRow
      BY <3>4 DEF UpSeedSubject, DownSeedSubject, UpRows, DownRows, DownEachRow, InsertSubjects
    <3>5. CASE Up \/ Down \/ Record \/ Cut \/ AppStart \/ (\E u \in Users : SignUp(u)) \/ UNCHANGED vars
      BY <3>5 DEF Up, Down, Record, Cut, AppStart, SignUp, vars, data
    <3> QED  BY <3>1, <3>2, <3>3, <3>4, <3>5, <1>7 DEF Next
  <2>2. Due(1, 2, 2)' \/ ~Due(1, 2, 2)
    BY <1>7, DueStays
  <2>3. Due(9, 2, 3)' \/ ~Due(9, 2, 3)
    BY <1>7, DueStays
  <2> QED  BY <1>0, <2>1, <2>2, <2>3 DEF RolesDue
<1> QED  BY <1>3, <1>4, <1>5, <1>6, <1>7

\* Roles are there only while the first file has stored them.
LEMMA RolesStep ==
  ASSUME DInv, [Next]_vars, cuts' = 0
  PROVE  Due(1, 3, 1)' \/ roles' = {}
<1>0. IInv /\ RunOK /\ StoredOK /\ RolesDue /\ run \in RunType
  BY CutsStay DEF DInv, IInv, RunOK
<1>1. CASE UpRoles
  <2> DEFINE names == <<"admin", "employee", "employer">>
  <2>1. Here("up", 1, 3)
    BY <1>0, <1>1, Places DEF UpRoles
  <2>2. roles = {}
    BY <1>0, <2>1 DEF RolesDue, Due, Here, RunOK
  <2>3. Accepted("roles", roles, names) = Len(names)
    <3>1. Len(names) \in Nat
      OBVIOUS
    <3> HIDE DEF names
    <3> QED  BY <2>2, <3>1, AcceptsAll DEF Stored, Named
  <2>4. run' = Advance
    BY <1>1, <2>3 DEF UpRoles
  <2>5. Here("up", 1, 4)'
    BY <1>0, <2>1, <2>4, AdvanceIs
  <2> QED  BY <2>5 DEF Due, Here
<1>2. CASE DownRoles
  <2>1. Here("down", 1, 1) /\ applied' = applied /\ applied = 1
    BY <1>0, <1>2, Places DEF DownRoles, Here, RunOK
  <2>2. CASE run' = Idle
    BY <2>1, <2>2 DEF Due, Idle
  <2>3. CASE roles' = {r \in roles : r.name \notin {"admin", "employee", "employer"}}
    BY <1>0, <2>3 DEF StoredOK
  <2> QED  BY <1>2, <2>2, <2>3 DEF DownRoles
<1>3. CASE UpJobsEmployee \/ UpJobsEmployer \/ DownJobsEmployer \/ DownJobsEmployee
  <2>1. /\ run.file = 9 /\ run.does \in {"up", "down"} /\ applied' = applied
        /\ run' \in {Advance, Idle}
    BY <1>0, <1>3, Places
       DEF UpJobsEmployee, UpJobsEmployer, DownJobsEmployer, DownJobsEmployee, Here
  <2>2. applied' >= 1 /\ (run'.does = "nothing" \/ run'.file = 9)
    BY <1>0, <2>1 DEF RunOK, RunType, Advance, Idle
  <2> QED  BY <2>2 DEF Due
<1>4. CASE ~(UpRoles \/ DownRoles \/ UpJobsEmployee \/ UpJobsEmployer \/ DownJobsEmployer \/ DownJobsEmployee)
  <2>1. roles' = roles
    <3>1. CASE UpSubjects \/ UpPermissions \/ DownPermissions \/ DownSubject
      BY <3>1 DEF UpSubjects, UpPermissions, DownPermissions, DownSubject, InsertSubjects, InsertPermissions
    <3>2. CASE UpJobsSubject \/ UpJobsPermissions \/ DownJobsPermissions \/ DownJobsSubject
      BY <3>2 DEF UpJobsSubject, UpJobsPermissions, DownJobsPermissions, DownJobsSubject,
                  InsertSubjects, InsertPermissions
    <3>3. CASE UpSeedSubject \/ DownSeedSubject \/ UpRows \/ DownRows \/ DownEachRow
      BY <3>3 DEF UpSeedSubject, DownSeedSubject, UpRows, DownRows, DownEachRow, InsertSubjects
    <3>4. CASE Up \/ Down \/ Record \/ Cut \/ AppStart \/ (\E u \in Users : SignUp(u)) \/ UNCHANGED vars
      BY <3>4 DEF Up, Down, Record, Cut, AppStart, SignUp, vars, data
    <3> QED  BY <3>1, <3>2, <3>3, <3>4, <1>4 DEF Next
  <2>2. Due(1, 3, 1)' \/ ~Due(1, 3, 1)
    BY <1>4, DueStays
  <2> QED  BY <1>0, <2>1, <2>2 DEF RolesDue
<1> QED  BY <1>1, <1>2, <1>3, <1>4

\* Rows are there once, and only while their file has stored them.
LEMMA RowsStep ==
  ASSUME DInv, [Next]_vars, cuts' = 0
  PROVE  RowsDue'
<1>0. /\ IInv /\ RunOK /\ RowsOK /\ RowsDue /\ run \in RunType
  BY CutsStay DEF DInv, IInv, RunOK
<1>1. \A f \in DOMAIN rows : f \notin {"authorization", "permissions-jobs"}
  BY <1>0 DEF RowsOK
<1>2. CASE UpRows
  <2>1. PICK f \in DOMAIN rows : At("up", f, "rows") /\ rows' = [rows EXCEPT ![f] = @ + 1]
    BY <1>2 DEF UpRows
  <2>2. run' = Advance /\ applied' = applied
    BY <1>2 DEF UpRows
  <2>3. PICK k \in 1..10 : k = run.file /\ Files[k] = f /\ run.does = "up"
    BY <1>0, <2>1, AtIs
  <2>4. run.step = Commands("up", k) /\ run.step \in Nat
    BY <1>0, <1>1, <2>1, <2>3, SeedPlaces DEF Commands, RunType
  <2>5. k = applied + 1
    BY <1>0, <2>3 DEF RunOK
  <2>6. run'.does = "up" /\ run'.file = k /\ run'.step = run.step + 1
    BY <1>0, <2>2, <2>3 DEF Advance, RunType
  <2>7. ~Due(k, Commands("up", k), 1) /\ Due(k, Commands("up", k), 1)'
    BY <1>0, <2>2, <2>3, <2>4, <2>5, <2>6 DEF Due, RunOK, Commands
  <2>8. rows[f] = 0
    BY <1>0, <2>1, <2>3, <2>7 DEF RowsDue
  <2>9. rows'[f] = 1 /\ DOMAIN rows' = DOMAIN rows /\ \A g \in DOMAIN rows : g # f => rows'[g] = rows[g]
    BY <2>1, <2>8
  <2>10. ASSUME NEW j \in 1..10, Files[j] \in DOMAIN rows
         PROVE  rows'[Files[j]] \in {0, 1} /\ (Due(j, Commands("up", j), 1)' \/ rows'[Files[j]] = 0)
    <3>1. CASE j = k
      BY <2>3, <2>7, <2>9, <3>1
    <3>2. CASE j # k
      <4>1. Files[j] # f /\ rows'[Files[j]] = rows[Files[j]]
        BY <2>3, <2>9, <2>10, <3>2, FilesDiffer
      <4>2. ~DownRows /\ ~DownEachRow
        BY <2>3 DEF DownRows, DownEachRow, At
      <4>3. Due(j, Commands("up", j), 1)' \/ ~Due(j, Commands("up", j), 1)
        BY <2>10, <4>2, DueStays
      <4> QED  BY <1>0, <2>10, <4>1, <4>3 DEF RowsDue
    <3> QED  BY <3>1, <3>2
  <2> QED  BY <1>0, <2>9, <2>10 DEF RowsDue, Commands
<1>3. CASE DownRows \/ DownEachRow
  <2>1. PICK f \in DOMAIN rows : At("down", f, "rows") /\ DOMAIN rows' = DOMAIN rows
                                 /\ (\A g \in DOMAIN rows : g # f => rows'[g] = rows[g])
                                 /\ (rows[f] \in {0, 1} => rows'[f] = 0)
    <3>1. CASE DownRows
      BY <3>1 DEF DownRows
    <3>2. CASE DownEachRow
      <4>1. RowByRow \subseteq DOMAIN rows
        <5>1. DOMAIN Files = 1..10
          BY DEF Files
        <5>2. Files[4] = "languages" /\ Files[5] = "benefits" /\ Files[8] = "new-languages"
          BY DEF Files
        <5>3. RowByRow \subseteq Range(Files)
          BY <5>1, <5>2 DEF Range, RowByRow
        <5> QED  BY <5>3, <1>0 DEF RowsDue, RowByRow
      <4>2. PICK f \in RowByRow :
              At("down", f, "rows") /\ rows' = [rows EXCEPT ![f] = IF @ > 0 THEN @ - 1 ELSE 0]
        BY <3>2 DEF DownEachRow
      <4>3. f \in DOMAIN rows
        BY <4>1
      <4>4. rows'[f] = IF rows[f] > 0 THEN rows[f] - 1 ELSE 0
        BY <4>2, <4>3
      <4>5. rows[f] \in {0, 1} => rows'[f] = 0
        BY <4>4
      <4> QED  BY <4>2, <4>3, <4>5
    <3> QED  BY <1>3, <3>1, <3>2
  <2>2. PICK k \in 1..10 : k = run.file /\ Files[k] = f
    BY <1>0, <2>1, AtIs
  <2>3. rows'[f] = 0
    BY <1>0, <2>1, <2>2 DEF RowsDue
  <2>4. ASSUME NEW j \in 1..10, Files[j] \in DOMAIN rows
        PROVE  rows'[Files[j]] \in {0, 1} /\ (Due(j, Commands("up", j), 1)' \/ rows'[Files[j]] = 0)
    <3>1. CASE j = k
      BY <2>2, <2>3, <3>1
    <3>2. CASE j # k
      <4>1. Files[j] # f /\ rows'[Files[j]] = rows[Files[j]]
        BY <2>1, <2>2, <2>4, <3>2, FilesDiffer
      <4>2. Due(j, Commands("up", j), 1)' \/ ~Due(j, Commands("up", j), 1)
        BY <2>2, <2>4, <3>2, DueStays
      <4> QED  BY <1>0, <2>4, <4>1, <4>2 DEF RowsDue
    <3> QED  BY <3>1, <3>2
  <2> QED  BY <1>0, <2>1, <2>4 DEF RowsDue, Commands
<1>4. CASE ~UpRows /\ ~DownRows /\ ~DownEachRow
  <2>1. rows' = rows
    <3>1. CASE UpSubjects \/ UpPermissions \/ UpRoles \/ DownRoles \/ DownPermissions \/ DownSubject
      BY <3>1 DEF UpSubjects, UpPermissions, UpRoles, DownRoles, DownPermissions, DownSubject,
                  InsertSubjects, InsertPermissions
    <3>2. CASE UpJobsSubject \/ UpJobsPermissions \/ UpJobsEmployee \/ UpJobsEmployer
      BY <3>2 DEF UpJobsSubject, UpJobsPermissions, UpJobsEmployee, UpJobsEmployer,
                  InsertSubjects, InsertPermissions
    <3>3. CASE DownJobsEmployer \/ DownJobsEmployee \/ DownJobsPermissions \/ DownJobsSubject
      BY <3>3 DEF DownJobsEmployer, DownJobsEmployee, DownJobsPermissions, DownJobsSubject
    <3>4. CASE UpSeedSubject \/ DownSeedSubject
      BY <3>4 DEF UpSeedSubject, DownSeedSubject, InsertSubjects
    <3>5. CASE Up \/ Down \/ Record \/ Cut \/ AppStart \/ (\E u \in Users : SignUp(u)) \/ UNCHANGED vars
      BY <3>5 DEF Up, Down, Record, Cut, AppStart, SignUp, vars, data
    <3> QED  BY <3>1, <3>2, <3>3, <3>4, <3>5, <1>4 DEF Next
  <2>2. ASSUME NEW j \in 1..10, Files[j] \in DOMAIN rows
        PROVE  Due(j, Commands("up", j), 1)' \/ rows[Files[j]] = 0
    <3>1. Due(j, Commands("up", j), 1)' \/ ~Due(j, Commands("up", j), 1)
      BY <1>4, <2>2, DueStays
    <3> QED  BY <1>0, <2>2, <3>1 DEF RowsDue
  <2> QED  BY <1>0, <2>1, <2>2 DEF RowsDue, Commands
<1> QED  BY <1>2, <1>3, <1>4

\* At the start nothing is stored; no step stores more than is due.
LEMMA DueInvariant == Spec => []DInv
<1>1. ASSUME Init PROVE DInv
  <2>1. /\ IInv /\ cuts = 0 /\ applied = 0 /\ run.does = "nothing"
        /\ subjects = {} /\ permissions = {} /\ roles = {}
        /\ rows = [f \in Range(Files) \ {"authorization", "permissions-jobs"} |-> 0]
    BY <1>1, InvariantInit DEF Init, Idle
  <2>2. \A n : Named(subjects, n) = {}
    BY <2>1 DEF Named
  <2>3. SubjectsDue
    BY <2>1, <2>2 DEF SubjectsDue, AtMostOne, AtMostTwo
  <2>4. RolesDue /\ RowsDue
    BY <2>1 DEF RolesDue, RowsDue
  <2> QED  BY <2>1, <2>3, <2>4 DEF DInv
<1>2. ASSUME DInv, [Next]_vars PROVE DInv'
  <2>1. IInv' /\ cuts' \in Nat
    BY <1>2, InvariantStep, CutsStay DEF DInv
  <2>2. ASSUME cuts' = 0 PROVE SubjectsDue' /\ RolesDue' /\ RowsDue'
    <3>1. SubjectsDue' /\ RowsDue'
      BY <1>2, <2>2, SubjectsStep, RowsStep
    <3>2. RolesDue'
      BY <1>2, <2>2, PermissionsStep, RolesStep DEF RolesDue
    <3> QED  BY <3>1, <3>2
  <2> QED  BY <2>1, <2>2 DEF DInv
<1> QED  BY <1>1, <1>2, PTL DEF Spec

\* If no run was cut short, taking back every file leaves nothing behind, although the
\* first file and three of the seeds store the same subjects.
THEOREM AllTakenBack == Spec => []DownRestores
<1>1. ASSUME DInv PROVE DownRestores
  <2> SUFFICES ASSUME applied = 0, ~Running, cuts = 0
               PROVE  /\ subjects = {} /\ permissions = {} /\ roles = {}
                      /\ \A f \in DOMAIN rows : rows[f] = 0
    BY DEF DownRestores
  <2>1. SubjectsDue /\ RolesDue /\ RowsDue
    BY <1>1 DEF DInv
  <2>2. \A n \in 1..10 : \A u, d : ~Due(n, u, d)
    BY DEF Due, Running
  <2>3. subjects = {}
    <3>1. \A n \in Range(DefaultSubjects) \cup {"jobs"} : Named(subjects, n) = {}
      BY <2>1, <2>2 DEF SubjectsDue, FirstDue
    <3>2. \A s \in subjects : s \in Named(subjects, s.name)
      BY DEF Named
    <3> QED  BY <2>1, <3>1, <3>2 DEF SubjectsDue
  <2>4. permissions = {} /\ roles = {}
    BY <2>1, <2>2 DEF RolesDue
  <2>5. ASSUME NEW f \in DOMAIN rows PROVE rows[f] = 0
    <3>1. DOMAIN Files = 1..10
      BY DEF Files
    <3>2. \E k \in 1..10 : Files[k] = f
      BY <2>1, <3>1 DEF RowsDue, Range
    <3> QED  BY <2>1, <2>2, <3>2 DEF RowsDue
  <2> QED  BY <2>3, <2>4, <2>5
<1> QED  BY <1>1, DueInvariant, PTL
=============================================================================
