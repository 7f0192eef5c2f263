------------------------------ MODULE Queries ------------------------------
(***************************************************************************)
(* The searches: talents (talent-database.service.ts), the candidates of a *)
(* step (findOneStep), the jobs by their fields (buildQueryFilter of       *)
(* job.service.ts) and the list of jobs (findAll).  Each builds a filter   *)
(* from the parameters that are given; a behaviour adds parameters one by  *)
(* one and watches whether one document is found.                          *)
(*                                                                         *)
(* Dates are months counted from some January, and stand for the first day *)
(* of their month.  A text that is searched for has two readings: matches,  *)
(* the stored texts that it matches as a regular expression without regard  *)
(* to case, and within, those that contain it as it is written.             *)
(***************************************************************************)
EXTENDS Integers, FiniteSets

CONSTANTS Talents,   \* talents, as entries of a step
          Jobs,      \* jobs
          Values,    \* the values of each parameter
          Viewer,    \* the employer or employee who asks for jobs
          Months,    \* the months in which a search may be made
          MaxParams  \* bound on the parameters of one search

\* The types of what is added and compared, and of the one flag.
ASSUME QueriesAssumption ==
  /\ Months \subseteq Nat /\ MaxParams \in Nat
  /\ \A t \in Talents :
       /\ t.born \in Int /\ t.learnWorldsUserCourseCompleted \in BOOLEAN
       /\ \A b \in t.academicBackgrounds : b.startDate \in Int
  /\ Values["AgeMin"] \cup Values["AgeMax"] \subseteq Int
  /\ Values["learnWorldsUserCourseCompleted"] \subseteq BOOLEAN
  /\ \A courses \in Values["course_id"] : \A c \in courses : c.period \in Int

VARIABLES now,       \* the month of the search
          view,      \* the search
          subject,   \* the document it may find
          ask        \* the parameters given, a function

vars == <<now, view, subject, ask>>

YearStart(m) == m - (m % 12)
YearEnd(m) == YearStart(m) + 11
FirstHalf(m) == m % 12 <= 5

Has(q, k) == k \in DOMAIN q

\* The parameters of q, and k with the value v.
With(q, k, v) == [x \in DOMAIN q \cup {k} |-> IF x = k THEN v ELSE q[x]]

\* A regular expression finds a document by one of its texts.
Matches(text, stored) == text.matches \cap stored # {}

\* What a background has where no university is referred to.
NoUniversity == [id |-> "none", name |-> "none"]

-----------------------------------------------------------------------------
(* Talents *)

\* Faulty variant: the ends of the range are exchanged, as the jobs filter has them.
BirthDateSwapped(t, q) ==
  LET minDate == YearStart(now - 12 * q.AgeMin)
      maxDate == YearStart(now - 12 * q.AgeMax)
  IN  Has(q, "AgeMin") /\ Has(q, "AgeMax") =>
        minDate <= t.born /\ t.born <= YearEnd(maxDate)

BirthDate(t, q) ==
  LET born == t.born
      minDate == YearStart(now - 12 * q.AgeMin)
      maxDate == YearStart(now - 12 * q.AgeMax)
  IN  IF Has(q, "AgeMin") /\ Has(q, "AgeMax")
      THEN maxDate <= born /\ born <= YearEnd(minDate)
      ELSE IF Has(q, "AgeMin") THEN minDate <= born /\ born <= YearEnd(minDate)
      ELSE Has(q, "AgeMax") => maxDate <= born

HalfYear == YearStart(now) + (IF FirstHalf(now) THEN 0 ELSE 6)

\* So many half years into the course, by the stored period or by its start.
CourseFor(b, c) ==
  /\ b.course = c.course
  /\ \/ b.period >= c.period
     \/ b.startDate <= (IF c.period > 0 THEN HalfYear - 6 * c.period - 2 ELSE now - 120)

\* The talent search takes a percentage of 0 for none.
Percentage(q) == Has(q, "scholarshipPercentage") /\ q.scholarshipPercentage # 0

\* The parameters that share one $elemMatch.
SameBackground(b, q) ==
  /\ Has(q, "universityId") => b.university.id \in q.universityId
  /\ Percentage(q) => b.scholarshipPercentage = q.scholarshipPercentage
  /\ Has(q, "period") => b.period \in q.period
  /\ Has(q, "shift") => b.shift \in q.shift

TalentFound(t, q) ==
  /\ Has(q, "isAvaliableForChange") => t.isAvailableForChange = q.isAvaliableForChange
  /\ Has(q, "learnWorldsUserCourseCompleted") /\ q.learnWorldsUserCourseCompleted =>
       t.learnWorldsUserCourseCompleted
  /\ Has(q, "sexualOrientation") => t.sexualOrientation \in q.sexualOrientation
  /\ Has(q, "humanRace") => t.humanRace \in q.humanRace
  /\ Has(q, "pcd") => t.pcd \in q.pcd
  /\ Has(q, "city") => t.city = q.city
  /\ Has(q, "state") => t.state = q.state
  /\ Has(q, "name") => Matches(q.name, {t.name})
  /\ Has(q, "tools") => q.tools \subseteq t.tools
  /\ Has(q, "languages") =>
       \A l \in q.languages : \E x \in t.languages : x.id = l.id /\ x.speaking = l.level
  /\ Has(q, "course_id") =>
       \E c \in q.course_id, b \in t.academicBackgrounds : CourseFor(b, c)
  /\ \/ DOMAIN q \cap {"universityId", "period", "shift"} = {} /\ ~Percentage(q)
     \/ \E b \in t.academicBackgrounds : SameBackground(b, q)
  /\ BirthDate(t, q)

-----------------------------------------------------------------------------
(* The candidates of a step *)

Grouped(m) == YearStart(m) + (IF FirstHalf(m) THEN 0 ELSE 5)

\* Faulty variant: a candidate in the half year that is asked for is too early.
StepCourseLater(b, c) ==
  /\ b.course = c.course
  /\ c.period > 0 => \/ Grouped(now) - Grouped(b.startDate) >= c.period * 6 + 6
                     \/ b.period >= c.period

StepCourse(b, c) ==
  /\ b.course = c.course
  /\ c.period > 0 => \/ Grouped(now) - Grouped(b.startDate) >= c.period * 6 - 6
                     \/ b.period >= c.period

\* Each parameter may be met by another background.  university_id is one text, an
\* id or a name; a background without a university makes the comparison throw.
SomeBackground(t, q) ==
  LET B == t.academicBackgrounds
  IN  /\ Has(q, "university_id") =>
           /\ \A b \in B : b.university # NoUniversity
           /\ \E b \in B : q.university_id \in {b.university.id, b.university.name}
      /\ Has(q, "scholarshipPercentage") =>
           \E b \in B : b.scholarshipPercentage = q.scholarshipPercentage
      /\ Has(q, "period") => \E b \in B : b.period \in q.period
      /\ Has(q, "shift") => \E b \in B : b.shift \in q.shift
      /\ Has(q, "course_id") => \E c \in q.course_id, b \in B : StepCourse(b, c)

\* score is the average of psTestResults, 0 without results.
StepKeeps(t, status, score, q) ==
  /\ Has(q, "name") => t.name \in q.name.within
  /\ Has(q, "email") => t.email \in q.email.within
  /\ Has(q, "city") => t.city = q.city
  /\ Has(q, "state") => t.state = q.state
  /\ Has(q, "isAvaliableForChange") => t.isAvailableForChange = q.isAvaliableForChange
  /\ Has(q, "psMinScore") => score >= q.psMinScore
  /\ Has(q, "psMaxScore") => score <= q.psMaxScore
  /\ Has(q, "languages") =>
       \A l \in q.languages : \E x \in t.languages : x.id = l.id /\ x.reading = l.level
  /\ Has(q, "tools") => q.tools \subseteq t.tools
  /\ Has(q, "learnWorldsUserCourseCompleted") =>
       t.learnWorldsUserCourseCompleted = q.learnWorldsUserCourseCompleted
  /\ Has(q, "sexualOrientation") => t.sexualOrientation \in q.sexualOrientation
  /\ Has(q, "pcd") => t.pcd \in q.pcd
  /\ Has(q, "humanRace") => t.humanRace \in q.humanRace
  /\ SomeBackground(t, q)
  /\ status = (IF Has(q, "status") THEN q.status ELSE "INITIAL")

-----------------------------------------------------------------------------
(* Jobs.  A filter is a Mongo document: a key that is set again replaces the *)
(* condition it had.                                                         *)

EmployerFilter(j, q) ==
  IF Has(q, "employeer") THEN j.employer = q.employeer
  ELSE Has(q, "role") /\ q.role = "employer" => j.employer = Viewer

\* withCandidate looks for steps.candidates, which a stored job does not have, or
\* for the participant; the title replaces the $or.
OrFilter(j, q) ==
  IF Has(q, "title") THEN Matches(q.title, {j.title, j.area})
  ELSE Has(q, "withCandidate") /\ q.withCandidate => Viewer \in j.participants

\* Faulty variant: the upper bound replaces the lower one.
InternshipValueMaxOnly(j, q) ==
  IF Has(q, "maxInternshipValue") THEN j.internshipValue <= q.maxInternshipValue
  ELSE Has(q, "minInternshipValue") => j.internshipValue >= q.minInternshipValue

InternshipValue(j, q) ==
  /\ Has(q, "minInternshipValue") => j.internshipValue >= q.minInternshipValue
  /\ Has(q, "maxInternshipValue") => j.internshipValue <= q.maxInternshipValue

\* finish is the parameter status.  benefits._id and steps.candidates.birthDate lead
\* through references that are not populated in the filter: no job has them.
JobFound(j, q) ==
  /\ EmployerFilter(j, q)
  /\ OrFilter(j, q)
  /\ Has(q, "finish") /\ q.finish # "ALL" =>
       IF q.finish = "CLOSED" THEN j.finishAt <= now ELSE j.finishAt >= now
  /\ Has(q, "state") => j.state = q.state
  /\ Has(q, "city") => j.city = q.city
  /\ InternshipValue(j, q)
  /\ ~Has(q, "benefits")
  /\ Has(q, "jobModel") => j.jobModel \in q.jobModel
  /\ ~Has(q, "AgeMin") /\ ~Has(q, "AgeMax")

-----------------------------------------------------------------------------
(* The list of jobs, with their steps looked up *)

InFunnel(j) == j.inSteps \/ j.inNew

\* Faulty variant: a job without the candidate in one of the two places is enough.
WithCandidateEither(j, with) ==
  IF with = "true" THEN InFunnel(j) ELSE ~j.inSteps \/ ~j.inNew

WithCandidate(j, with) == IF with = "true" THEN InFunnel(j) ELSE ~j.inSteps /\ ~j.inNew

\* filterQuery replaces the stages before it; the employer's own comes after.
Listed(j, q) ==
  /\ IF Has(q, "filterQuery") THEN j.city = q.filterQuery
     ELSE /\ Has(q, "with") => WithCandidate(j, q.with)
          /\ Has(q, "closed") => j.closed = (q.closed = "true") /\ j.finishAt >= now
          /\ Has(q, "q") => Matches(q.q, {j.area, j.internshipAddress, j.employerName})
  /\ Has(q, "role") /\ q.role = "employer" => j.employer = Viewer

-----------------------------------------------------------------------------
Background == {"scholarshipPercentage", "period", "shift", "course_id"}

About == {"isAvaliableForChange", "learnWorldsUserCourseCompleted", "sexualOrientation",
          "humanRace", "pcd", "city", "state", "name", "tools", "languages"}

Params ==
  [talents |-> Background \cup About \cup {"universityId", "AgeMin", "AgeMax"},
   step |-> Background \cup About
              \cup {"university_id", "email", "psMinScore", "psMaxScore", "status"},
   jobs |-> {"role", "employeer", "withCandidate", "title", "finish", "state", "city",
             "minInternshipValue", "maxInternshipValue", "benefits", "jobModel",
             "AgeMin", "AgeMax"},
   list |-> {"role", "with", "closed", "q", "filterQuery"}]

Found(v, x, q) ==
  \/ v = "talents" /\ TalentFound(x, q)
  \/ v = "step" /\ StepKeeps(x, x.status, x.score, q)
  \/ v = "jobs" /\ JobFound(x, q)
  \/ v = "list" /\ Listed(x, q)

Init ==
  /\ now \in Months
  /\ \/ view \in {"talents", "step"} /\ subject \in Talents
     \/ view \in {"jobs", "list"} /\ subject \in Jobs
  /\ ask = <<>>

Give ==
  /\ Cardinality(DOMAIN ask) < MaxParams
  /\ \E k \in Params[view] \ DOMAIN ask : \E v \in Values[k] : ask' = With(ask, k, v)
  /\ UNCHANGED <<now, view, subject>>

Next == Give

Spec == Init /\ [][Next]_vars

-----------------------------------------------------------------------------
(* Properties *)

\* The parameters whose addition replaces a condition instead of adding one: the
\* upper age after the lower, the status that is INITIAL by default, the title
\* over withCandidate, the employer over the viewer's own, a whole filterQuery.
Replaces(k) ==
  \/ view = "talents" /\ k = "AgeMax" /\ Has(ask, "AgeMin")
  \/ view = "step" /\ k = "status"
  \/ view = "jobs" /\ k = "title" /\ Has(ask, "withCandidate")
  \/ view = "jobs" /\ k = "employeer" /\ Has(ask, "role")
  \/ view = "list" /\ k = "filterQuery"

\* One more parameter never finds a document that was not found without it, but for
\* the parameters that replace: no filter drops a condition that another one set.
SearchNarrows ==
  [][\A k \in DOMAIN ask' \ DOMAIN ask :
       ~Replaces(k) /\ Found(view, subject, ask') => Found(view, subject, ask)]_vars

\* With both ages the search finds the talents of these ages, give or take the year
\* in which the birthday falls: nobody more than a year too young or too old, and
\* everybody who is within the range and not in its last year.
AgeRange ==
  LET age == (now - subject.born) \div 12
  IN  view = "talents" /\ DOMAIN ask = {"AgeMin", "AgeMax"} /\ ask.AgeMin <= ask.AgeMax =>
        /\ TalentFound(subject, ask) => ask.AgeMin - 1 <= age /\ age <= ask.AgeMax
        /\ ask.AgeMin <= age /\ age < ask.AgeMax => TalentFound(subject, ask)

\* The parameters of a talent search as those of a step: one university, given by its
\* id, instead of a set of them.
AsStep(q) ==
  IF Has(q, "universityId")
  THEN With([k \in DOMAIN q \ {"universityId"} |-> q[k]],
            "university_id", CHOOSE u \in q.universityId : TRUE)
  ELSE q

\* What the two searches read in the same way.  Of a language one asks for speaking,
\* the other for reading; completion as false and a percentage of 0 are asked for in a
\* step only; a name is a regular expression for one and plain text for the other; a
\* step is asked for one university, and throws where a background has none.
SameReading(t, q) ==
  /\ ~Has(q, "languages")
  /\ Has(q, "learnWorldsUserCourseCompleted") => q.learnWorldsUserCourseCompleted
  /\ Has(q, "scholarshipPercentage") => q.scholarshipPercentage # 0
  /\ Has(q, "name") => q.name.matches = q.name.within
  /\ Has(q, "universityId") =>
       /\ \E u \in q.universityId : q.universityId = {u}
       /\ \A b \in t.academicBackgrounds : b.university # NoUniversity

\* A talent whom the talent search finds is kept, as a new entry of a step, by the
\* step's filter of the same parameters, as far as the two read them in the same way:
\* it asks for no more, although each parameter of a background is met by itself and
\* half years are counted its own way.
StepKeepsTalents ==
  view = "talents" /\ SameReading(subject, ask) /\ TalentFound(subject, ask)
    => StepKeeps(subject, "INITIAL", subject.score, AsStep(ask))

\* Whatever else is asked, a job that the list shows is shown either with or without
\* the candidate.
ListPartition ==
  view = "list" /\ ~Has(ask, "with") /\ ~Has(ask, "filterQuery") =>
    (Listed(subject, ask)
       <=> (Listed(subject, With(ask, "with", "true"))
              # Listed(subject, With(ask, "with", "false"))))
=============================================================================
