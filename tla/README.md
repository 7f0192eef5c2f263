# auback: a TLA+ development of the hiring back end

auback is a NestJS server for an internship marketplace. Companies (employers)
publish jobs, students (employees) apply, and the server moves each candidacy
through the steps of the job. It runs as one Node process (`Procfile`,
`Dockerfile`), keeps its data in MongoDB through mongoose 6.11 and the 4.16
driver, and calls a handful of services: Push Start (tests), LearnWorlds
(courses), RD Station (marketing contacts), SendGrid, S3.

Almost all of its difficulty is in one place: many HTTP requests run at the same
time, each of them reads some documents, thinks, and then changes several
documents, sometimes in a transaction, sometimes not, and starts further calls that
nobody awaits. This directory models that, together with the searches and the
migrations, checks it with TLC, and proves with TLAPS, for any number of requests
and documents, what the runs check of the hiring pipeline, the steps, the catalogue,
the accounts, the profiles, the searches and the authorization.

## 1. Inventory

| Component | Module | State | Operations | What is hard | What makes it correct |
|---|---|---|---|---|---|
| **Hiring pipeline** (`modules/job/job.service.ts` 1245-1904) | `HiringPipeline` | `Job.newCandidates`, `Job.participants`, `Job.closed`, `JobStep.candidates` | apply, send to steps, add, remove, approve, reprove (one or a batch), reprove from job, withdraw, close, open | checks made before the transaction; the send that apply starts and never awaits; unhandled rejections end the process; arrays shared by all candidates; filters that mongoose drops | a candidate is once in a step; lists of a job agree; nobody is lost; an approval advances; decisions stay in their job |
| **Steps of a job** (`job.service.ts` 1081-1234, 812-842) | `StepOrder` | `Job.steps`, `JobStep.order`, `JobStep.lastStep` | addStep, updateStep (openStep, closeStep), removeStep, deleteJob, a PATCH of the job with a list | order computed from a stale length; comparator that assigns; retried transactions; write skew with plain updates | `job.steps` lists the stored steps; no change of it is lost; every step but the last has a next one |
| **Job catalogue** (`job.service.ts` 665-842) and **macro jobs** (`modules/macro-job`) | `Catalogue` | `Job`, `Employer.jobs`, `MacroJob.jobs`, `externalJobId`, images | create, update, image, delete, invite; create, update, delete, add to and remove from a macro job | a job is saved outside the session that lists it; default steps and mails not awaited; an array read, changed and saved | a job is listed by its employer until it is deleted; no removal loses an addition |
| **Favourites** (`job`, `employer`, `employee` services) | `Catalogue` | favourite lists on both sides | two toggles | two documents, no session, toggles from stale readings | the two sides agree |
| **Accounts** (`modules/auth`, `user`, signups of `employee` and `employer`) | `Accounts` | users, entities, refresh tokens, confirmation and reset codes, `externalId` | signup, login, social login, refresh, forgot, reset, confirm, resend | a user and its entity in two writes; resends nobody awaits; expiry against reuse; equal tokens within one second | complete and unique accounts; a code or token works once |
| **Employee and employer profiles** | `Profiles` | profile lists, pictures, curriculum, segments, benefits | one edit per list, PATCH, uploads | a file is removed before the new one is stored; edits of one array by several requests | a named file is stored; an item leaves only by its own deletion |
| **Events and RD Station** (`modules/events`, `libs/rd-station`) | `Profiles` | contacts there, tokens and backup list in the cache | CLIENT_CREATED, CLIENT_UPDATED, the backup | handlers nobody awaits; a cached list read and written back, that expires | every contact is sent or in the backup |
| **LearnWorlds** (`libs/learn-worlds`) | `Profiles` | course flag, id of the user there | webhooks, single sign-on, synchronisation | any failure in a handler ends the process | - |
| **Push Start** (`libs/push-start`) | `Profiles`, `HiringPipeline` | `PsTestResult` rows, results copied into step entries | createTest, webhook | webhook early, late or twice; two updates without a session; entries placed by hand | a result reaches the entry it belongs to |
| **Searches** (`talent-database`, `buildQueryFilter`, `findAll`, `findOneStep`) | `Queries` | none | filters built from optional parameters | conditions that replace each other; ages as years; two ways to count half years, to match a name and to ask for universities | a parameter narrows; the searches agree as far as they read alike |
| **Authorization** (`modules/authorization`) and **migrations** (`migrations`) | `Authorization` | roles, permissions, subjects, seed tables, changelog | ten migrations up and down; the ability of a token; what the routes of jobs ask of it | a migration is not a transaction and may be repeated; references between three collections | every reference is stored; rights are complete and only one's own |
| **S3, mail, SendGrid** | `Profiles`, `Catalogue`, `Accounts` (as called) | - | upload, remove, send | - | - |
| **Lookup tables** | `Authorization` (their seeds) | plain records | single calls | - | - |
| **Validation helpers** (`shared/helpers`) | codes and hashes as `Accounts` uses them | none | CPF/CNPJ checksum, password rules | checksum boundaries | - |
| **Infrastructure** | the exit of the process, in every module with requests | - | health, logging, configuration | - | - |

`PROJECT.json` lists the same components with their status, and under `hazards`
every place in the code where something can go wrong that a test would hardly
reach, with the properties that watch over it or the reason there is none.

The components meet in three ways. *Shared documents*: the pipeline, the steps and
the catalogue work on the same jobs; `MongoTxn` is the store under all three, and
`deleteJob` appears in two of them, each with the documents it is about. *Calls
nobody awaits*: an application starts a send, a creation its default steps, a
login a resend, an edit of a profile an event; in every module such a call is a
process of its own that outlives the answer of its request, and its rejection ends
the Node process. *Stored references*: the role of a user, the permissions of a
role and the subjects of a permission are ids that only the code keeps valid.

## 2. Modules

| Module | Models |
|---|---|
| `MongoTxn` | the document store as the services use it (external: no line of it is in the repository) |
| `HiringPipeline` | the pipeline: requests as processes over `MongoTxn` |
| `Candidacy` | the abstract pipeline: one move of one candidate at a time |
| `HiringPipelineProofs` | theorems about the pipeline: types, list invariants, concurrent requests and each other's candidates |
| `HiringPipelineMoves` | theorems about it: placement, approvals, and that it implements `Candidacy` |
| `StepOrder` | the steps of one job, again over `MongoTxn` |
| `StepOrderProofs` | theorems about the steps: types, the list of the job, numbers and next steps |
| `Catalogue` | jobs, employers' lists, macro jobs and favourites, over `MongoTxn` |
| `CatalogueProofs` | theorems about the catalogue: types, the lists of employers, favourites, macro jobs |
| `Accounts` | signups, logins, tokens and codes |
| `AccountsProofs` | theorems about the accounts: types, entities, confirmation, codes and tokens |
| `Profiles` | profiles, files, contacts, courses and tests |
| `ProfilesProofs` | theorems about the profiles: types, files, items of lists, contacts, results of tests |
| `Queries` | the searches |
| `QueriesProofs` | theorems about the searches: further parameters, ages, steps, the list of jobs |
| `Authorization` | the migrations, the stored rights and the ability of a user |
| `AuthorizationProofs` | theorems about them: references, nobody else's rights, complete rights, taking back |
| `MC...` | the small instances of the module of that name |

### MongoTxn

A transaction reads from the snapshot taken at its first operation and its own
writes. Writing a document that another open transaction has written, or that
was committed after the snapshot, raises a WriteConflict. A commit publishes all
written documents at once. A plain update (no session) waits for the transaction
holding the document. An update that matches nothing, or sets what is already
there, writes nothing and therefore conflicts with nothing; this is what makes
write skew possible. `db` is committed data; `view[p]`, `writes[p]`, `stale[p]`
are the snapshot, the write set and the documents committed by others since the
snapshot. The services never retry a transaction, except through
`withTransaction` (removeStep, modelled, and the favourite toggles).

### HiringPipeline

A *document* is a job (closed, newCandidates, participants) or a step
(candidates). An *entry* is the embedded `JobStepCandidate`: its candidate, its
status, its reprovedStep, whether feedback is set, and "by", the request that
pushed it, standing for `createdAt`. Names, texts, scores and URLs are left out.

A *request* `r` is a process `<<r, "http">>`. It runs from one await to the
next: `pc[p]` says at which call it stands and `req[p]` what it was asked to do.
`applyToJob` starts `sendCandidateToSteps` without awaiting it (line 1736); this
second call chain is the process `<<r, "send">>`. It can run before, between and
after the two remaining awaits of its parent.

| Action | Code |
|---|---|
| `Arrive` | a controller accepts a call (permission checks passed) |
| `ApplyCheck`, `ApplyPush` | `applyToJob`: checks on a job read outside the session; the `$push` and the start of the send |
| `SendCheck`, `SendPull`, `SendTest`, `SendCreate`, `SendAdd` | `sendCandidateToSteps`, as a background chain or as `POST :jobId/candidates/:id`, with `pushStartService.findByUserId` and `createTest` |
| `AddCandidate`, `RemoveCandidate` | the same names |
| `ApproveCandidate`, `ReproveCandidate` | the transaction of one candidate; a batch goes round through `Commit`, which takes the next candidate of `rest` |
| `ReproveFromJob` | `reproveCandidateFromJob` |
| `WithdrawCheck`, `Withdraw` | `removeCandidateFromJob` |
| `CloseJob`, `OpenJob` | plain updates; the end date of a job passing is also a `CloseJob` |
| `Commit` | `commitTransaction` |
| `CallFails` | any awaited call throws: `abortTransaction`, error answer, and the end of a batch |
| `ProcessExit` | the process stops; every chain ends, open transactions are aborted by the server |

Several updates of one transaction are one action where nothing the code does
depends on the difference: all of them read the same snapshot, and a conflict of
any of them ends in the same abort. Calls whose result decides the control flow
(the two Push Start calls, the checks before a session) are actions of their own.

Two facts of the environment matter and are easy to miss.

* *Unhandled rejection.* Nobody awaits or catches the background send, and
  nothing in `main.ts` handles `unhandledRejection`; Node 16 then exits. So
  `Fail` of a "send" process ends every active process.
* *strictQuery.* mongoose 6 removes filter keys that are not in the schema.
  `JobStep` has `job`, not `jobId`, so the filters `{ jobId, order: ... }` of
  approve and reprove select the steps of every job. `ApprovedEntries` and
  `ReprovedEntries` range over all steps for this reason. `removeCandidateFromJob`
  filters by `job` and is not affected.

Default steps (created by `createJob`) are never put in `job.steps` and hold no
candidates; `Step` is the set of steps added with `addStep`, whose `defaultStep`
is false.

### Candidacy

What a client of the pipeline may rely on about where candidates are. `place[c]` is
the set of lists that hold candidate `c` and `members[j]` the participants of job
`j`; every operation is one indivisible move of one candidate. `HiringPipeline`
instantiates it (`Moves`) with `Places` and `Members`, which read the committed
lists, and run `races` checks `Moves!Spec` as the property `Candidacies`: a step of
the pipeline is a stutter until a commit, and a commit is exactly one move. Two
allowances come from the code and are visible in the module: a decision works on
the snapshot of its transaction, so a reproval or a withdrawal may spare a list that
the candidate entered since (the sets `T`), and a reproval may reach steps of other
jobs (the finding of `decision_across_jobs`).

### StepOrder

One job and its steps. Each handler first reads the job outside its transaction;
`req[r].order` and `req[r].known` keep what it took from that reading: the order
of the new step (`job.steps.length + 1`) and the ids in the filter of
`updateMany`. `RemoveWrite` is the callback of `withTransaction`: on a conflict it
aborts and runs again. `steps.sort((a, b) => (a.order = b.order))` assigns instead
of comparing; its result is positive for every pair of orders from 1 up, so V8
leaves the array as it is, and the renumbering follows `job.steps` and not the
orders (`Renumbered`). `populate` drops the ids of the list whose step is gone, so
lengths and places are those of what is left (`Filled`, `Count`, `Rank`, `IsLast`).
`UpdateJob` is a `PATCH job/:id` whose body has `steps`: one update outside any session
that replaces the list by what the client sends; the other fields that such a body
may carry are in `HiringPipeline` (closed) and `Catalogue` (employer). `openStep` and
`closeStep` are `updateStep` with fields that
are not modelled (the route of `closeStep` is shadowed by the one of `openStep`).

A behaviour follows one `profile` of clients: the operations they call, the orders and
flags they send, the `lengths` of the lists in a PATCH, and `repeats`, whether the
removal of a step may be asked for again while another removal of it is being served.
Such a repeated removal finds no step to delete and nothing to pull from the job, so it
renumbers the steps of its snapshot without writing the job and conflicts with no
addition.

### Accounts

A `User` is identified with its email, the unique index that decides every race of
signups; the `Employee` or `Employer` is stored by a second write. A code or token is
identified with the process that generated it first; `Earlier` stands for one that was
generated before the behaviour starts.

| Action | Code |
|---|---|
| `CheckEmployee`, `CheckEmployer`, `CreateUser`, `LastEmployee`, `CreateEmployee`, `CreateEmployer`, `SendConfirmation` | `createEmployee`, `signUp` of the employer, `userService.create`: checks, user, counter of `externalId`, entity, mail |
| `LoginRead`, `SocialRead`, `SocialLink`, `FindEntity`, `InsertToken` | local and social login and `generateRefreshToken`; the social signup goes through the employee's creation |
| `RefreshRead`, `Rotate` | `refreshToken`: compares with the oldest row and replaces it |
| `Sign`, `NewSecond` | `jwtService.sign` of user and entity, without a number of its own: two tokens that one user gets in the same second are the same string (`recent`) |
| `Forgot`, `FindName`, `SendResetCode`, `ResetRead`, `ResetWrite` | the reset code and its use |
| `ConfirmRead`, `ConfirmWrite` | confirmation by code |
| `ResendRead`, `StoreCode` | `resendEmailConfirmation`, called or started unawaited as `<<r, "resend">>` by a login, a forgotten password or a confirmation that is refused (`FailAndResend`) |
| `Expire` | the age of a code: valid, past its lifetime, old enough to be replaced |

### Catalogue

The job that request `r` creates is `r`. Lists that `$push` may fill with duplicates
are bags (functions to numbers), others are sets. The `externalJobId` of a new job is
read before the save and its unique index may refuse the save. `<<r, "bg">>` creates
the default steps of a new job, or sends the mails of an invitation. The save of a
macro job after a removal carries mongoose's version of the array (`version`): it
fails when the array was changed since it was read, while an addition is a `$push`.
`MacroUpdate` is a `PATCH macro-job/:id`, which may replace the jobs and neither
requires nor counts the version. `UpdateJob` keeps of the fields in a body the employer;
the steps in it are `UpdateJob` of `StepOrder`.
`mixed` records the favourites of which two toggles overlapped or one stopped half
way; it is a history variable that only `FavouritesAgree` reads.

A behaviour follows one member of `Areas`, a set of operations that share documents
(offers with their images, favourites with deletions, macro jobs with creations):
requests of different areas only meet in the creation and the deletion of a job,
which both sides include.

### Profiles

Each area of `Areas` is a part of the profile with the services behind it, and the
number of calls that may arrive in it.

| Area | Actions | Code |
|---|---|---|
| pictures | `MediaRead`, `MediaRemove`, `MediaUpload`, `MediaWrite` | `updateProfileImage` of both services, `updateEmployeeCurriculum` |
| edits | `AcademicBackground`, `InvalidUniversity`, `Experience`, `Language`, `Tool`, `Certificate`, `Patch` | adding, updating and deleting an item of the five lists, and `updateEmployeeByUserId` |
| companies | `Company`, `Segment`, `Benefit` | the employer's profile |
| events | `SignupStore`, `SignupEmit`, `ContactEvent`, `PostContact`, `GetContact`, `PatchContact`, `BackupRead`, `BackupSet`, `FirstAccess`, `CacheExpires` | `events`, `rd-station`, and the cache, whose entries all live for the ttl of the module |
| LearnWorlds | `CourseRead`, `CourseWrite`, `Award`, `SyncRead`, `SyncNone`, `SyncFound`, `SyncWrite`, `SsoRead`, `SsoWrite` | `learn-worlds` |
| tests | `JoinRead`, `CreateTest`, `SaveTest`, `JoinPush`, `Place`, `ResultRead`, `ResultRow`, `ResultEntries` | `push-start`, the send of a candidate to a first step, and `addCandidate` by its route, which looks no result up (`byHand`) |

The events of a request are handled by `<<r, "contact">>`, `<<r, "sync">>` and
`<<r, "update">>`; a failure in one of them ends the process, up to `MaxExit` times.
The item that a request adds carries the request's name; `lists[l][i]` says who wrote
it last. A picture of an employee has a fresh key, a picture of an employer the key
of the running process. `overlapped` is a history variable like `mixed` above.

### Queries

The filters of the four searches as predicates of one document (`TalentFound`,
`StepKeeps`, `JobFound`, `Listed`); a behaviour gives parameters one by one, so that
every set of parameters up to `MaxParams` is reached and a step compares a query
with the same query and one parameter more. Dates are months, since every bound in
the code is the beginning of a month, half year or year. An entry of a job is found
in a populated or an unpopulated document as the code has it: the age and the
benefits filters of `buildQueryFilter` go through references that are not populated
and find nothing. A text that is asked for has two readings, the stored texts that it
`matches` as a regular expression and those it is `within`: the talent search uses the
first for a name, the filter of a step the second. The talent search asks for a set of
universities, a step for one, by id or name, and it throws for a background without one.

### Authorization

migrate-mongo runs one file after the other; each command of a file is an action, `run`
says where the process stands, `Record` writes the changelog and `Cut` ends the process
before any command. A file that was cut is run again from its beginning. A stored
document is a record with the number of the insertion that made it (`batch`), so that
the same subject inserted twice is two documents, and findOne, updateOne and deleteOne
choose the oldest of the name (`FindOne`). `AppStart` is the start of the application:
mongoose then builds the unique index on `name` where no name occurs twice. `SignUp`
stores the id of the role in the user. `Can` is the ability of a token: the permissions
of the user's role, their subjects and their conditions. `Asked` is what each route of a
job (`JobRoutes`) asks of it, and `MayCall` whether the answer is yes: only the deletion
and the routes of steps and candidates name the stored job's employer. A seed table is
followed by one of its rows.

## 3. Runs

All bounds are the sets and numbers in the `.cfg` files and the definitions of the
`MC` modules. Each request arrives once, so behaviours are finite and runs say
`CHECK_DEADLOCK FALSE`: when all requests are answered the system is at rest.
Requests, and candidates, employers or steps where nothing distinguishes them, are
symmetric in the runs that check no liveness.

| Run | Instance | Shows |
|---|---|---|
| `races` | 1 job, 2 steps, 2 candidates, 2 requests, all operations, batches up to 2 | `TypeOK`; `CandidateOncePerStep`; `NewCandidateIsParticipant`; `OnlyItsCandidate`: no lost update on shared arrays; `ApprovalAdvances`; `LeavesFunnelOnlyByRemoval`: the send is all or nothing; `Candidacies`: the refinement |
| `funnel` | 2 jobs of one step, the second's with order 2 and not last, 1 candidate, 2 requests, no deletion from a step; fairness | `ParticipantInFunnel`: nobody who participates is nowhere; `EveryRequestEnds` |
| `steps` | up to 2 initial steps, 3 requests of one of four kinds of clients (default orders; any orders and updates; deletion of the job; lists in a PATCH); fairness | `TypeOK`; `StepsListed`; `NoListChangeLost`; `NextStepExists`; `RemovalRenumbers`; `EveryRequestEnds` |
| `accounts` | 2 requests with their resends, 2 emails, 1 CPF or CNPJ | `TypeOK`; `SignupAnswered`; `OneEntityPerUser`; `ExchangedTokenDead`; `UsedCodeRejected`; `ConfirmedForGood` |
| `catalogue` | 3 requests, 1 old job, 2 employers, 1 employee, 1 macro job, 1 default step, 3 areas | `TypeOK`; `CreatedJobListed`; `DeletedJobUnlisted`; `MacroAddKept`; `FavouritesAgree` |
| `profiles` | 2 or 3 requests by area, 2 employees, 2 employers, 2 first steps, 1 exit | `TypeOK`; `MediaStored`; `ItemsByName`; `ContactKept`; `EntryShowsResult` |
| `queries` | up to 3 parameters, 2 months, talents and jobs around the bounds | `SearchNarrows`; `AgeRange`; `StepKeepsTalents`; `ListPartition` |
| `authorization` | all ten files, 2 runs of `up`, any number of `down`, 1 cut, 1 employee, 1 employer | `ReferencesStored`; `OnlyItsOwnRights`; `RightsComplete`; `DownRestores` |

Four runs refute what the code, by its own guards, filters and tests, means to
guarantee; each has a short counterexample and an entry under `findings`:

| Run | Claim | What happens |
|---|---|---|
| `apply_twice` | `AppliesOnce` | two applications pass the check before either transaction; the candidate is twice in newCandidates |
| `send_before_applied` | `NewCandidateNotInStep` | the send pulls before the push is committed, then both commit: in newCandidates and in a step |
| `apply_to_closed_job` | `NobodyJoinsClosedJob` | the job is closed between the check and the snapshot of the push |
| `decision_across_jobs` | `DecisionsStayInTheirJob` | approval or reproval reaches the steps of another job |

**Why the bounds are enough to be of use.** Every conflict in this code is between
two calls over one document or two: two transactions, a transaction and a plain
write, a handler and what it started itself. Two requests show each such pair, and
where a race needs a state that a third call makes (a deletion after a creation next
to an update, a third upload, a removal after two additions) there are three. One
candidate is enough for the properties about a candidate's own entries, two for the
interference of different candidates; in `funnel` one step of a job is enough, since
only waiting and the first step count there, and an approval into a second one is in
`races`; two employers show a job that changes hands,
two emails that accounts do not mix. `Init` of `HiringPipeline` starts from every
placement of the candidates (outside, waiting, approved up to any step), that of
`Accounts` from every state of an email (free, half registered, waiting, confirmed),
so short behaviours meet the states that long histories lead to. In `queries` the
talents' births and course starts lie on both sides of every bound of the values
asked for, and the two months are one of each half of a year. In `authorization` a
second run of `up` after a cut, or after any number of `down`, is the repetition that
the code has to survive; one row of a table suffices because its seed treats all
alike.

**What holds with which limits.** These limits are premises in the definitions, and
the hazards name the scenario behind each.

* `ParticipantInFunnel` needs that no employer deletes candidates from steps.
* `StepsListed` does not survive `deleteJob` (an addStep that read the job before
  stores an orphan), and of a job whose list a PATCH may replace it only says that no
  step is listed twice. `NoListChangeLost` says what remains with both of them.
* `RemovalRenumbers` is about clients that neither update a step nor PATCH the list: a
  renumbering that changes nothing in a step does not lock it. `NextStepExists` needs
  default orders and flags, since a client may send any, and is about committed states:
  `approveCandidate` reads the step outside its session (job.service.ts:1384) and looks
  the next one up in it, so that a removal in between may leave it with none (1410), a
  TypeError that aborts the approval. Both need that no two requests
  remove one step at the same time (`repeats`): with four, respectively five, such
  requests TLC finds a repeated removal that publishes numbers of its snapshot beside
  an addition. `StepsListed` holds with them.
* `MacroAddKept` excepts an update, which replaces the list, and a removal whose array
  an update has replaced within the same version (`Overwritten`).
* `ExchangedTokenDead` excepts a token that was signed twice: whoever refreshes, or logs
  in, within the second of the last signing gets the same string once more.
* `FavouritesAgree`, `MediaStored`, `ContactKept` and `EntryShowsResult` except the
  pairs that two calls touched at the same time, or that a failed call left half
  done: the code has no protection against either. What they show is that every
  other interleaving of the calls, with all that goes on beside them, is right.
  `ContactKept` also excepts a contact whose backup ended with its cache entry, seven
  days after the last one was added, and `EntryShowsResult` the entries placed by hand.
* `DeletedJobUnlisted` is about clients who had seen the creation answered, and
  excepts jobs that an update moved: `updateJob` changes `job.employer` and not the
  employers' lists.
* `SearchNarrows` lists the parameters that replace a condition (`Replaces`).
  `StepKeepsTalents` needs that the two searches read what is asked in the same way
  (`SameReading`): no language, a name that is no pattern, one university by its id
  and no background without one, a percentage other than 0, completion only as true.
* `OnlyItsOwnRights` does not say that a job which is patched, closed, opened or given
  an image is the caller's own: no route asks.
* `RightsComplete` is about files that are recorded and needs that no `down` was cut
  short, for it does not put back what was taken; `DownRestores` needs that nothing
  was cut at all, for `deleteOne` takes one of several copies.

**Fairness.** `FairSpec` of `HiringPipeline` and `StepOrder` has weak fairness of each
call chain's next step: Node's event loop resumes a chain when its awaited call is
answered, and MongoDB answers or fails every call. No fairness is put on arrivals,
failures or exits. Plain updates wait for transactions, and those end because their
owners proceed. Weak fairness is enough: a transaction that holds a document is never
waiting. `Catalogue` waits for documents in the same way and for nothing else; the
other modules have neither waiting nor retries, every request ends by going through
its finitely many labels, and liveness would say nothing there.

**Mutants.** Next to a definition that a mutant changes stands its faulty variant
(`SetStatusOfAll`, `StoreCodeUnconfirms`, `NewKeyOfProcess`, ...): a plausible bug of
that code which the property must catch. No specification uses them. Among them are
bugs that the code has in a neighbouring place: `NewKeyOfProcess` gives employees'
pictures the key that employers' pictures have, `BirthDateSwapped` exchanges the ends
of an age range as the job search does.

**Noted while modelling.** These are behaviours of the code that the models contain
and no run lists as a finding, since nothing in the repository says otherwise:

* all pictures of employers uploaded by one process share one key, so that each
  replaces the one before; `sso` changes the employee that an empty filter finds
  first; a certificate webhook always fails; the event of a course webhook for an
  employer's email carries no employee, and any failure in an event handler ends the
  process;
* the backup of a contact whose PATCH failed has no email; `deleteEmployerBenefit`
  never removes; a title in a job search replaces `withCandidate`; age and benefits
  filters of jobs go through unpopulated references, and the ends of the age range
  exchanged; the filter of a step throws for a candidate without a state or with a
  background without a university;
* PATCH, image, close and open of a job ask nothing about the stored job's company, the
  update of an employer nothing about which employer it is, and the routes of macro jobs
  that change one nothing but a valid token; a PATCH may put any ids into `job.steps`
  and `macroJob.jobs`, and a removal that has read a macro job before writes over what
  the PATCH has stored;
* an entry that an employer adds by hand shows no result of a test that is there;
* the subjects of states, universities and courses are inserted by two files, so that
  those seeds fail for good once the unique index exists, and with two copies the
  index is never built; the `down` of `authorization` throws when a cut one has
  deleted some of the subjects; users keep the id of a role that `down` deleted, also
  after the next `up`.

## 4. Proofs

### The pipeline

`HiringPipelineProofs` and `HiringPipelineMoves` prove, for all sets of jobs, steps,
candidates and requests, any order and lastStep flags, and any batch bound:

| Theorem | States |
|---|---|
| `TypeCorrect` | `Spec => []TypeOK` |
| `OncePerStep` | `Spec => []CandidateOncePerStep` |
| `NewCandidatesParticipate` | `Spec => []NewCandidateIsParticipant` |
| `OnlyItsOwn` | `Spec => OnlyItsCandidate` |
| `ParticipantsPlaced` | `Spec => []ParticipantInFunnel` |
| `ApprovedAdvance` | `Spec => ApprovalAdvances` |
| `OnlyRemovalLeaves` | `Spec => LeavesFunnelOnlyByRemoval` |
| `ImplementsCandidacy` | `Spec => Candidacies` |

The only assumption is `PipelineAssumption` on the constants.

The two list invariants are about `db`, but a step changes `db` only in `Commit`,
where the documents come from the transaction's view. They are therefore not
inductive. `Sound(x)` states both, with the type, of any version `x` of the
documents, and the inductive invariant `IInv` says that `db` *and the view of every
open transaction* are sound (`StoreOK`), and that the control state is typed
(`ControlOK`). The argument:

1. Both invariants are local to one document, so mixing sound documents is sound:
   the commit that overwrites some documents by the transaction's keeps `Sound(db)`
   (`TxnCommitOK`). No argument about conflicts is needed here.
2. `Seen(p)` is sound, because it is `db` or a view; hence the store operations
   preserve `StoreOK` whenever the new view is sound.
3. Each operation maps sound documents to sound documents: one lemma per document
   operation (push, pull, `SetStatus`, `ApprovedEntries`, `WithdrawnDoc`, ...).
4. Control lemmas (`Goto`, `End`, `Fail`, the loop of a batch) preserve
   `ControlOK`; one lemma per action puts the two together.

The next theorem does rest on conflicts. `OnlyItsCandidate` speaks of a commit, where
the documents come from a view that may be many steps old, so its inductive form relates
the pending writes to `db` before the commit: `OwnOnly` says that `view[p][d]`, for d in
`writes[p]`, differs from `db[d]` only in the entries of the candidate of p. `FInv` is
`IInv`, `OwnOnly`, `PendingWritesFresh` (of `MongoTxn`: a document that an open
transaction has written is still the one of its snapshot) and `ChainsOK`:

1. A document enters `writes[p]` only if it conflicts with nothing, and then
   `view[p][d]` equals `db[d]` by `PendingWritesFresh`; so what the operation keeps of
   the view it keeps of `db` (`WriteIsolated`). That the committed version does not
   move under a pending write is the third part of `PendingWritesFresh`, together with
   `PlainWrite` waiting (`EndIsolated`, `CommitIsolated`, `PlainIsolated`).
2. `Frame`: each operation changes, in the documents it declares as written, only the
   entries of its candidate, and nothing in the others. One lemma per operation; for
   approve and reprove the declared set is the steps holding the candidate after and
   before the update, and the lemma shows that this is enough.
3. `ChainsOK` is about control: a transaction is open only between its first write
   and its commit; the background send is idle until its application has pushed, so
   that `ApplyPush` cannot hand it an open transaction; only the operations on a step
   have a batch, so that `Commit` takes the next candidate after its transaction ended.

The last four follow one candidate. `MInv` is `FInv` and `Placed`:

1. `EffectsOK` says of every open transaction what its operation has prepared for its
   candidate (`Effect`, one definition per operation): an approval has written a next
   step that holds the candidate; a send at its commit has written a first step that did
   not hold the candidate and now does, and where it has written the job the candidate
   no longer waits there. An effect speaks of `db` only where the transaction writes, so
   it holds until the commit because no other transaction publishes those documents
   (`WriteEffects`, `EffectAgrees`).
2. `FunnelOK` is about one participant: it waits, or is in a first step that no open
   withdrawal is about to clear while it spares the participants (`Overlooks`). The
   second half is what makes it inductive. A withdrawal whose snapshot precedes the
   application leaves the participant in the lists of the job; such a withdrawal holds
   the first steps that it clears, so the send cannot have entered one of those.
3. The refinement is one lemma per operation: the effect, mapped by `Places` and
   `Members`, is the move that `Candidacy` names for it, with the snapshot allowances
   (the sets `T`) filled by the documents that the transaction does not write; every
   other step leaves both mappings alone.

### The steps

`StepOrderProofs` proves, for any requests, any initial list of steps and any profiles
that satisfy `StepOrderAssumption`:

| Theorem | States |
|---|---|
| `TypeCorrect` | `Spec => []TypeOK` |
| `ListsItsSteps` | `Spec => []StepsListed` |
| `ListChangesKept` | `Spec => NoListChangeLost` |
| `NextStepFound` | `Spec => []NextStepExists` |
| `RemovalKeepsNumbers` | `Spec => RemovalRenumbers` |

Its first lemmas are about lists: what `Append` and removal do to the elements and
places of a list without repetitions. `IInv` adds to `TypeOK` what the transactions
stand on (`TxnsOK`, with `PendingWritesFresh`), what a call has fixed (`CallsOK`) and
`EffectsOK`: an addition that wrote the job will publish the *committed* list with its
step appended, a removal the committed list without its step, because whoever writes
the job has it to itself until it commits: a PATCH waits for it too. A removal that does
not write the job neither creates nor deletes a step. This is also what
`ListChangesKept` reads off at each commit.

The numbers do not follow from that: a renumbering replaces the orders of steps by
those of its snapshot. `NInv` says why the snapshot is the committed state where it
matters. Without updates and repeated removals every transaction on an existing job
writes the job document, so of two that overlap only one commits (`Serial`), an open
removal holds a numbered list (`RemovalsNumber`), and each step that is not last has a
successor both in `db` and in every view (`FollowsOK`).

### The catalogue

`CatalogueProofs` proves, for any requests, old jobs, employers, employees and macro
jobs, any sets of operations and any default steps:

| Theorem | States |
|---|---|
| `TypeCorrect` | `Spec => []TypeOK` |
| `CreatedListed` | `Spec => []CreatedJobListed` |
| `DeletedUnlisted` | `Spec => DeletedJobUnlisted` |
| `FavouriteSides` | `Spec => []FavouritesAgree` |
| `MacroJobsKept` | `Spec => MacroAddKept` |

The assumption is `CatalogueAssumption`: the documents of different collections have
different identities. Most of the module is one lemma per operation that says what it
does to the calls and the documents (`...Does`), and one per collection that says which
operations change it at all (`JobChanges`, `EmployerChanges`, ...); the invariants are
then each kept for a reason that fits in a few lines. `Inv` consists of:

* `BaseInv`, the types with what they need: documents and calls are typed, a
  transaction is open exactly at its commit, a call names only jobs that were stored
  before (`Known`), and nothing lists a job before it is stored (`UnknownOK`). That a
  stored job has an employer and an uploaded image (`JobsOK`) is part of it, because a
  deletion takes the employer that it writes to from the job it has read.
* `PendingOK`: what a creation or a deletion will publish is its change of what is
  committed *now*, not of its snapshot. Whoever has written the list of an employer has
  it to itself, by `PendingWritesFresh` and because plain writes wait; a deletion that
  has not written the list has seen that the job is not in it, and only the creation of
  the same job, which the client of a `settled` deletion has seen answered, could add it.
* `ListedOK` (the first half of `CreatedJobListed`) follows from `PendingOK`: every
  commit adds or takes away one entry.
* `OwnersOK`: a stored job that no update moved is listed by its own employer only, a
  creation at its push or commit names the employer of its job, and a deletion past its
  read names the only employer that lists the job. With `PendingOK` this makes the
  commit of a deletion leave no list with the job.
* `MacrosOK`: a removal about to save holds the array of the stored macro job, or the
  stored version is higher than the one it holds and its save will fail, or an update has
  replaced the jobs of this version (`DropOK`, `Overwritten`). Versions only grow, also
  through the deletion of the macro job, and an answered update keeps its request, so
  the last stays true as long as the version does.
* `FavouritesOK`: for each favourite that is not `mixed` at most one toggle is under way
  (`About`). Until its first write the two sides agree; after it the first side is
  ahead by one turn (`Turned`), and what the toggle has read of either side is still
  true. A second toggle, or a stop between the two writes, puts the favourite in `mixed`.

### The accounts

`AccountsProofs` proves, for all sets of requests, emails and keys and any choice of
the operations offered:

| Theorem | States |
|---|---|
| `TypeCorrect` | `Spec => []TypeOK` |
| `OnlyEntity` | `Spec => []OneEntityPerUser` |
| `StaysConfirmed` | `Spec => ConfirmedForGood` |
| `SignupComplete` | `Spec => []SignupAnswered` |
| `TokenExchangedOnce` | `Spec => []ExchangedTokenDead` |
| `CodeUsedOnce` | `Spec => UsedCodeRejected` |

The assumptions are `AccountsAssumption` on the constants and `NoUserAssumption`, that
the mark of an absent user is not a user.

`OneEntityPerUser` is not inductive, since nothing in the action that stores an entity
looks whether the user has one: the unique indexes are on CPF, CNPJ, slug and
`externalId`. It holds because of what the same signup did two awaits earlier. `Owned`
says of every *pending* signup, one that has stored its user and not yet its entity,
that the user exists with the role of the call and has no entity of either kind, and
that no two pending signups have the same email. `CreateUser` establishes it from
`users[e] = NoUser` and `OneEntityPerUser`, every other step frames it (`Frame`:
roles are never changed and no signup becomes pending otherwise), and `EntityOK` spends
it. `ControlOK` gives which call may stand at which await, and that the user was found
before it is written to; `StoresOK` is the type of the stores and that a last
`externalId` exists when there is an employee, which makes the next one a number.

The last three need `AInv`, which adds three parts. `Serving` says of every call at
every await what it has found or stored by then (`Serves`: a social login past `find`
has an employee, a signup at `mail` has its entity), of every code in a call or a mail
that the process it is named after has got as far as sending it (`Sent`), and of every
token that its process has answered or that another answer carried the same string
(`Given`). Users, entities and sessions are never taken away (`Grows`), so each fact
survives the steps of the others. A code that a step stores is new because its process
was not past `Unsent`; hence a used code (`UsedCodeGone`) cannot come back. A token
that a step stores is its own, and then new in the same way, or one of this second,
which some sign-in or refresh got before it: when this step is answered, the token is
one that was signed twice (`TokenDead`, `Again`).

### The profiles

`ProfilesProofs` proves, for any requests, employees, employers and steps, any areas
and any bound on the exits of the process:

| Theorem | States |
|---|---|
| `TypeCorrect` | `Spec => []TypeOK` |
| `FilesStored` | `Spec => []MediaStored` |
| `ItemsKept` | `Spec => ItemsByName` |
| `ContactsStored` | `Spec => []ContactKept` |
| `ResultsShown` | `Spec => []EntryShowsResult` |

The assumption is `ProfilesAssumption`. Of the keys it says that a fresh key is none of
those stored before, and that the key an employer's picture gets is neither; the code
draws all of them with `uuid`.

`Turns(p)` is what an operation may do to the calls: its own goes on or ends, and the
handlers that it wakes get their event; nothing else moves. One lemma per operation
(`...Does`) shows this and what the operation changes. Most are `Plain`: they touch no
file, no contact and no test. `Arrived` and `Stopped` do the same for arrivals and for
exceptions and exits. `IInv` consists of:

* `BaseInv`, the types with what they need: which call may stand at which await, for
  which client (`CallOK`), that whoever is stored has a version, since `contacts` and the
  backup hold one, and that CLIENT_CREATED is handled after the answer of its signup and
  for the same employee (`SignupOK`).
* `MediaOK`. `MediaStored` allows an update that has removed the file; to survive a
  second update of the same entry it must be the one that has *read* that key
  (`FileOK`). Removing is safe because no two entries have the same file and the key
  that an update has read is its own entry's or nobody's; storing is safe because the
  key that a request draws is in no profile and in no call until that request has
  answered (`Answered`), so what it has stored is still there when it writes (`KeysOK`).
* `ContactsOK`. A contact that is only in the backup could be lost by a handler that
  read the list before. So it is also in every list that a handler has read and is about
  to set (`KeptFor`), which a handler that does not overlap guarantees: two that hold a
  list at once are both in `overlapped`, and the contacts in a list that expires are too.
* `ResultsOK`, of the entries that a join pushed. A join at its push carries a result if
  the candidate's oldest row has one (`JoinOK`), or the webhook found it under way and
  the two overlapped. The oldest row stays the oldest: rows are appended, and a new one
  has no result.

`ItemsByName` follows step by step: an operation changes no list, or one list of one
employee by its own item (`EditsList`), or replaces it by a PATCH (`PatchesList`).

### The authorization

`AuthorizationProofs` proves, for any users of both kinds and any bounds on the runs:

| Theorem | States |
|---|---|
| `ReferencesKept` | `Spec => []ReferencesStored` |
| `NoOthersRights` | `Spec => []OnlyItsOwnRights` |
| `RightsGiven` | `Spec => []RightsComplete` |
| `AllTakenBack` | `Spec => []DownRestores` |

The commands of a file depend on each other, and each may be the last before the
process ends. `IInv` says where the process is (`RunOK`), what each command leaves to
those after it (`CommandsOK`: once the roles are taken back no role refers to the
permissions that go next; once those are gone none refers to the subjects), that
stored permissions have one of six shapes and roles hold only what their kind may
(`StoredOK`), and that a role is the oldest of its name if it is given jobs or is a
user's (`RolesOK`, `UsersOK`). The last is what keeps references valid with roles
stored twice: push and pull change the oldest role, so the copies that a pull does not
reach must never have been given jobs.

`RightsGiven` adds `RInv`: roles keep the rights that are not to jobs (`BaseHeld`), the
insertions have stored what the grants look for (`Inserted`), and the oldest roles have
those to jobs from the command that gives them to the one that takes them back
(`JobsHeld`). `AllTakenBack` adds `DInv`, which has premise `cuts = 0`: what is stored
is no more than what is `Due`, where a document is due from the command that stores it
until the one that takes it back. For the subjects that two files store this counts
(`AtMostTwo`, `AtMostOne`), since `deleteOne` takes one of them.

### The searches

`QueriesProofs` proves, for any documents, any values of the parameters, any number of
parameters and any months in which the search is made:

| Theorem | States |
|---|---|
| `AddedNarrows` | `Spec => SearchNarrows` |
| `AgesFound` | `Spec => []AgeRange` |
| `TalentsKept` | `Spec => []StepKeepsTalents` |
| `ListParted` | `Spec => []ListPartition` |

`QueriesAssumption` gives the types of what is added and compared: dates of birth, starts
of courses, ages and periods are integers, and the completed course is a flag. No order
of the periods or the dates is assumed.

A search always asks by its own parameters and values of theirs (`Asked`); that is all
the invariant there is. `StepKeepsTalents` goes parameter by parameter, and
`SameReading` gives those of which the two searches make different conditions. The rest
is arithmetic on months (`Years`, `YearsAgo`, `Age`, `CourseKept`), once for every month
instead of the two that the run knows, and monotonicity of each filter in the parameters
given (`TalentsNarrow`, ...).

### Only model-checked

Liveness (`EveryRequestEnds` of the pipeline and of the steps) is out of reach of the
prover and stays with the runs. Every other property of a passing run is stated by a
theorem.

## 5. Plan

The modules are complete and every property of a passing run is proved, except liveness.

## 6. Not modelled

* Dashboards, statistics, suggestions and populated views: they count or copy what is
  stored, nothing depends on them, and no two of them can disagree by interleaving.
* Texts of mails, names, scores and links. A mail that carries a code is modelled; of
  the others only their failure is.
* CPF and CNPJ checksums and password rules: arithmetic on characters without state,
  which unit tests reach. A refused payload is a call that never arrives.
* The services of the lookup tables, each a single read or write; their seeds are in
  `Authorization`.
* Logging, health, configuration, documentation of the API.
* The guard that maps a route to an action and a subject (decorators on controllers):
  a refused call changes nothing. `createRoles` and `createSubjects`, which no route
  calls, and the bulk calls of the S3 service, which nothing calls.
* The completeness of a profile, which decides whether an application is accepted, is
  in the pipeline a `CallFails`.
