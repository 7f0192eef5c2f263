--------------------------- MODULE QueriesProofs ---------------------------
(***************************************************************************)
(* What the searches find, for any documents, any values of the parameters *)
(* and any number of them.                                                 *)
(***************************************************************************)
EXTENDS Queries, TLAPS

-----------------------------------------------------------------------------
(* The search *)

View == {"talents", "step", "jobs", "list"}

\* The parameters that are given belong to the search and have values of theirs.
Asked ==
  /\ now \in Months /\ view \in View
  /\ view \in {"talents", "step"} => subject \in Talents
  /\ DOMAIN ask \subseteq Params[view]
  /\ \A k \in DOMAIN ask : ask[k] \in Values[k]

\* A search starts without parameters and is given them one by one.
LEMMA AlwaysAsked == Spec => []Asked
<1>1. Init => Asked
  BY DEF Init, Asked, View
<1>2. Asked /\ [Next]_vars => Asked'
  <2> SUFFICES ASSUME Asked, [Next]_vars PROVE Asked'
    OBVIOUS
  <2>1. CASE Next
    <3>1. PICK k \in Params[view] \ DOMAIN ask : \E v \in Values[k] : ask' = With(ask, k, v)
      BY <2>1 DEF Next, Give
    <3>2. PICK v \in Values[k] : ask' = With(ask, k, v)
      BY <3>1
    <3>3. UNCHANGED <<now, view, subject>>
      BY <2>1 DEF Next, Give
    <3>4. DOMAIN ask' = DOMAIN ask \cup {k}
      BY <3>2 DEF With
    <3>5. \A x \in DOMAIN ask' : ask'[x] \in Values[x]
      BY <3>2 DEF With, Asked
    <3> QED  BY <3>3, <3>4, <3>5 DEF Asked, Params
  <2>2. CASE UNCHANGED vars
    BY <2>2 DEF vars, Asked
  <2> QED  BY <2>1, <2>2
<1> QED  BY <1>1, <1>2, PTL DEF Spec

-----------------------------------------------------------------------------
(* Months and years *)

\* A month and the year it is in.
LEMMA Years ==
  ASSUME NEW m \in Int
  PROVE  /\ m % 12 \in 0..11 /\ YearStart(m) \in Int
         /\ YearStart(m) =< m /\ m =< YearStart(m) + 11
BY DEF YearStart

\* Whole years earlier it is the same month.
LEMMA YearsAgo ==
  ASSUME NEW m \in Int, NEW a \in Int
  PROVE  m - 12 * a \in Int /\ YearStart(m - 12 * a) = YearStart(m) - 12 * a
BY DEF YearStart

\* Who is how old in which months.
LEMMA Age ==
  ASSUME NEW d \in Int, NEW a \in Int
  PROVE  /\ d \div 12 \in Int
         /\ d >= 12 * a - 11 => a - 1 =< d \div 12
         /\ d =< 12 * a + 11 => d \div 12 =< a
         /\ a =< d \div 12 => d >= 12 * a
         /\ d \div 12 < a => d < 12 * a
OBVIOUS

-----------------------------------------------------------------------------
(* The theorems *)

\* With both ages the talent search finds who has them, to the year.
THEOREM AgesFound == Spec => []AgeRange
<1>1. Asked => AgeRange
  <2> SUFFICES ASSUME Asked, view = "talents", DOMAIN ask = {"AgeMin", "AgeMax"},
                      ask.AgeMin <= ask.AgeMax
               PROVE  LET age == (now - subject.born) \div 12
                      IN  /\ TalentFound(subject, ask) => ask.AgeMin - 1 <= age /\ age <= ask.AgeMax
                          /\ ask.AgeMin <= age /\ age < ask.AgeMax => TalentFound(subject, ask)
    BY DEF AgeRange
  <2> DEFINE a == ask.AgeMin
             b == ask.AgeMax
             born == subject.born
             age == (now - born) \div 12
             start == YearStart(now)
  <2>1. a \in Int /\ b \in Int /\ now \in Int /\ born \in Int
    BY QueriesAssumption DEF Asked
  <2>2. /\ start \in Int /\ start =< now /\ now =< start + 11
        /\ YearStart(now - 12 * a) = start - 12 * a /\ YearStart(now - 12 * b) = start - 12 * b
    BY <2>1, Years, YearsAgo
  <2>3. BirthDate(subject, ask) <=> start - 12 * b <= born /\ born <= start - 12 * a + 11
    <3>1. Has(ask, "AgeMin") /\ Has(ask, "AgeMax")
      BY DEF Has
    <3>2. BirthDate(subject, ask) <=> /\ YearStart(now - 12 * b) <= born
                                      /\ born <= YearEnd(YearStart(now - 12 * a))
      BY <3>1 DEF BirthDate
    <3>3. YearEnd(start - 12 * a) = start - 12 * a + 11
      <4>1. PICK m \in Int : m = now - 12 * a /\ YearStart(m) = start - 12 * a
        BY <2>1, <2>2
      <4>2. YearStart(YearStart(m)) = YearStart(m)
        BY DEF YearStart
      <4> QED  BY <4>1, <4>2 DEF YearEnd
    <3> QED  BY <2>2, <3>2, <3>3
  <2>4. TalentFound(subject, ask) <=> BirthDate(subject, ask)
    BY DEF TalentFound, Percentage, Has
  <2> HIDE DEF start
  <2>5. /\ now - born >= 12 * a - 11 => a - 1 =< age
        /\ now - born =< 12 * b + 11 => age =< b
        /\ a =< age => now - born >= 12 * a
        /\ age < b => now - born < 12 * b
    BY <2>1, Age
  <2>6. TalentFound(subject, ask) => a - 1 <= age /\ age <= b
    BY <2>1, <2>2, <2>3, <2>4, <2>5
  <2>7. a <= age /\ age < b => TalentFound(subject, ask)
    BY <2>1, <2>2, <2>3, <2>4, <2>5
  <2> QED  BY <2>6, <2>7
<1> QED  BY <1>1, AlwaysAsked, PTL

\* The half years of a step's filter are not later than those of the talent search.
LEMMA CourseKept ==
  ASSUME now \in Int, NEW b, b.startDate \in Int, NEW c, c.period \in Int, CourseFor(b, c)
  PROVE  StepCourse(b, c)
<1> DEFINE m == b.startDate
<1>1. CASE c.period > 0 /\ ~(b.period >= c.period)
  <2>1. m <= HalfYear - 6 * c.period - 2 /\ b.course = c.course
    BY <1>1 DEF CourseFor
  <2>2. /\ now % 12 \in 0..11 /\ m % 12 \in 0..11
        /\ YearStart(now) = now - (now % 12) /\ YearStart(m) = m - (m % 12)
    BY DEF YearStart
  <2>3. Grouped(m) \in Int /\ Grouped(m) <= m
    <3>1. PICK r \in 0..11 : r = m % 12 /\ YearStart(m) = m - r
      BY <2>2
    <3>2. Grouped(m) = (m - r) + (IF r <= 5 THEN 0 ELSE 5)
      BY <3>1 DEF Grouped, FirstHalf
    <3>3. m \in Int
      OBVIOUS
    <3> HIDE DEF m
    <3> QED  BY <3>2, <3>3
  <2>4. HalfYear \in Int /\ Grouped(now) \in Int /\ HalfYear <= Grouped(now) + 1
    BY <2>2 DEF Grouped, FirstHalf, HalfYear
  <2>5. Grouped(now) - Grouped(m) >= c.period * 6 - 6
    BY <2>1, <2>3, <2>4
  <2> QED  BY <2>1, <2>5 DEF StepCourse
<1>2. CASE ~(c.period > 0 /\ ~(b.period >= c.period))
  BY <1>2 DEF CourseFor, StepCourse
<1> QED  BY <1>1, <1>2

\* Where the two searches read a parameter in the same way the filter of a step keeps
\* whom the talent search finds.
THEOREM TalentsKept == Spec => []StepKeepsTalents
<1>1. Asked => StepKeepsTalents
  <2> SUFFICES ASSUME Asked, view = "talents", SameReading(subject, ask),
                      TalentFound(subject, ask)
               PROVE  StepKeeps(subject, "INITIAL", subject.score, AsStep(ask))
    BY DEF StepKeepsTalents
  <2>1. DOMAIN ask \subseteq Background \cup About \cup {"universityId", "AgeMin", "AgeMax"}
    BY DEF Asked, Params
  <2>2. /\ ~Has(ask, "email") /\ ~Has(ask, "psMinScore") /\ ~Has(ask, "psMaxScore")
        /\ ~Has(ask, "status") /\ ~Has(ask, "university_id") /\ ~Has(ask, "languages")
    BY <2>1 DEF Has, Background, About, SameReading
  <2>3. Has(ask, "learnWorldsUserCourseCompleted") =>
          subject.learnWorldsUserCourseCompleted = ask.learnWorldsUserCourseCompleted
    <3> SUFFICES ASSUME Has(ask, "learnWorldsUserCourseCompleted")
                 PROVE  subject.learnWorldsUserCourseCompleted = ask.learnWorldsUserCourseCompleted
      OBVIOUS
    <3>1. /\ subject.learnWorldsUserCourseCompleted \in BOOLEAN
          /\ ask["learnWorldsUserCourseCompleted"] \in BOOLEAN
      BY QueriesAssumption DEF Asked, Has
    <3>2. ask.learnWorldsUserCourseCompleted /\ subject.learnWorldsUserCourseCompleted
      BY DEF TalentFound, SameReading
    <3> QED  BY <3>1, <3>2
  <2>4. Has(ask, "course_id") =>
          \E c \in ask.course_id, b \in subject.academicBackgrounds : StepCourse(b, c)
    <3> SUFFICES ASSUME Has(ask, "course_id")
                 PROVE  \E c \in ask.course_id, b \in subject.academicBackgrounds : StepCourse(b, c)
      OBVIOUS
    <3>1. PICK c \in ask.course_id, b \in subject.academicBackgrounds : CourseFor(b, c)
      BY DEF TalentFound
    <3>2. now \in Int /\ b.startDate \in Int /\ ask["course_id"] \in Values["course_id"]
      BY QueriesAssumption DEF Asked, Has
    <3>3. c.period \in Int
      BY <3>2, QueriesAssumption
    <3> QED  BY <3>1, <3>2, <3>3, CourseKept
  \* The parameters of the step's filter.
  <2>5. PICK r : r = AsStep(ask)
    OBVIOUS
  <2>6. /\ \A k : k \notin {"universityId", "university_id"} =>
               /\ Has(r, k) <=> Has(ask, k)
               /\ Has(ask, k) => r[k] = ask[k]
        /\ Has(r, "university_id") =>
             Has(ask, "universityId") /\ ask.universityId = {r.university_id}
    <3>1. CASE Has(ask, "universityId")
      <4>1. PICK p : p = [k \in DOMAIN ask \ {"universityId"} |-> ask[k]]
        OBVIOUS
      <4>2. PICK u : ask.universityId = {u}
        BY <3>1 DEF SameReading
      <4>3. r = With(p, "university_id", u)
        BY <2>5, <3>1, <4>1, <4>2 DEF AsStep
      <4> QED  BY <3>1, <4>1, <4>2, <4>3 DEF With, Has
    <3>2. CASE ~Has(ask, "universityId")
      BY <2>2, <2>5, <3>2 DEF AsStep
    <3> QED  BY <3>1, <3>2
  <2>7. SomeBackground(subject, r)
    <3>1. Has(r, "university_id") =>
            /\ \A b \in subject.academicBackgrounds : b.university # NoUniversity
            /\ \E b \in subject.academicBackgrounds :
                 r.university_id \in {b.university.id, b.university.name}
      BY <2>6 DEF TalentFound, SameBackground, SameReading, Has
    <3>2. /\ Has(ask, "scholarshipPercentage") =>
               \E b \in subject.academicBackgrounds :
                 b.scholarshipPercentage = ask.scholarshipPercentage
          /\ Has(ask, "period") => \E b \in subject.academicBackgrounds : b.period \in ask.period
          /\ Has(ask, "shift") => \E b \in subject.academicBackgrounds : b.shift \in ask.shift
      BY DEF TalentFound, SameBackground, SameReading, Percentage, Has
    <3> QED  BY <2>4, <2>6, <3>1, <3>2 DEF SomeBackground
  <2>8. Has(ask, "name") => subject.name \in ask.name.within
    BY DEF TalentFound, SameReading, Matches
  <2>9. StepKeeps(subject, "INITIAL", subject.score, r)
    BY <2>2, <2>3, <2>6, <2>7, <2>8 DEF StepKeeps, TalentFound
  <2> QED  BY <2>5, <2>9
<1> QED  BY <1>1, AlwaysAsked, PTL

\* A listed job is listed either with or without the candidate, never both.
THEOREM ListParted == Spec => []ListPartition
<1>1. ListPartition
  <2> SUFFICES ASSUME view = "list", ~Has(ask, "with"), ~Has(ask, "filterQuery")
               PROVE  Listed(subject, ask)
                        <=> (Listed(subject, With(ask, "with", "true"))
                               # Listed(subject, With(ask, "with", "false")))
    BY DEF ListPartition
  <2> DEFINE Rest == /\ Has(ask, "closed") =>
                          subject.closed = (ask.closed = "true") /\ subject.finishAt >= now
                     /\ Has(ask, "q") =>
                          Matches(ask.q, {subject.area, subject.internshipAddress,
                                          subject.employerName})
                     /\ Has(ask, "role") /\ ask.role = "employer" => subject.employer = Viewer
  <2>1. ASSUME NEW v
        PROVE  LET r == With(ask, "with", v)
               IN  /\ Has(r, "with") /\ r.with = v /\ ~Has(r, "filterQuery")
                   /\ \A k \in {"closed", "q", "role"} :
                        (Has(r, k) <=> Has(ask, k)) /\ (Has(ask, k) => r[k] = ask[k])
    BY DEF With, Has
  <2>2. ASSUME NEW v
        PROVE  Listed(subject, With(ask, "with", v)) <=> WithCandidate(subject, v) /\ Rest
    <3>1. PICK r : r = With(ask, "with", v)
      OBVIOUS
    <3>2. /\ Has(r, "with") /\ r.with = v /\ ~Has(r, "filterQuery")
          /\ \A k \in {"closed", "q", "role"} :
               (Has(r, k) <=> Has(ask, k)) /\ (Has(ask, k) => r[k] = ask[k])
      BY <2>1, <3>1
    <3>3. Listed(subject, r) <=> WithCandidate(subject, v) /\ Rest
      BY <3>2 DEF Listed
    <3> QED  BY <3>1, <3>3
  <2>3. Listed(subject, ask) <=> Rest
    BY DEF Listed
  <2>4. WithCandidate(subject, "true") <=> ~WithCandidate(subject, "false")
    BY DEF WithCandidate, InFunnel
  <2>5. \A v : Listed(subject, With(ask, "with", v)) \in BOOLEAN
    BY DEF Listed
  <2>6. PICK A, B \in BOOLEAN : /\ A = Listed(subject, With(ask, "with", "true"))
                                /\ B = Listed(subject, With(ask, "with", "false"))
    BY <2>5
  <2> HIDE DEF Rest
  <2>7. Listed(subject, ask) <=> (A \/ B) /\ ~(A /\ B)
    BY <2>2, <2>3, <2>4, <2>6
  <2>8. Listed(subject, ask) <=> (A # B)
    BY <2>7
  <2> QED  BY <2>6, <2>8
<1> QED  BY <1>1, PTL

-----------------------------------------------------------------------------
(* One more parameter *)

\* The search r asks for all that q asks.
AsksFor(q, r) == \A k \in DOMAIN q : k \in DOMAIN r /\ r[k] = q[k]

\* The talent search, unless an upper age is added to a lower one.
LEMMA TalentsNarrow ==
  ASSUME NEW t, NEW q, NEW r, AsksFor(q, r),
         Has(r, "AgeMax") /\ Has(q, "AgeMin") => Has(q, "AgeMax"),
         TalentFound(t, r)
  PROVE  TalentFound(t, q)
<1>1. BirthDate(t, q)
  <2>1. BirthDate(t, r)
    BY DEF TalentFound
  <2> QED  BY <2>1 DEF BirthDate, AsksFor, Has
<1>2. \A b : SameBackground(b, r) => SameBackground(b, q)
  BY DEF SameBackground, Percentage, AsksFor, Has
<1>3. \/ DOMAIN q \cap {"universityId", "period", "shift"} = {} /\ ~Percentage(q)
      \/ \E b \in t.academicBackgrounds : SameBackground(b, q)
  BY <1>2 DEF TalentFound, AsksFor, Percentage, Has
<1> QED  BY <1>1, <1>3 DEF TalentFound, AsksFor, Has

\* The candidates of a step, unless the status is added.
LEMMA StepNarrows ==
  ASSUME NEW t, NEW q, NEW r, AsksFor(q, r), Has(r, "status") => Has(q, "status"),
         StepKeeps(t, t.status, t.score, r)
  PROVE  StepKeeps(t, t.status, t.score, q)
<1>1. SomeBackground(t, q)
  BY DEF StepKeeps, SomeBackground, AsksFor, Has
<1> QED  BY <1>1 DEF StepKeeps, AsksFor, Has

\* The jobs, unless a title is added to withCandidate or an employer to the role.
LEMMA JobsNarrow ==
  ASSUME NEW j, NEW q, NEW r, AsksFor(q, r),
         Has(r, "title") /\ Has(q, "withCandidate") => Has(q, "title"),
         Has(r, "employeer") /\ Has(q, "role") => Has(q, "employeer"),
         JobFound(j, r)
  PROVE  JobFound(j, q)
<1>1. EmployerFilter(j, q) /\ OrFilter(j, q) /\ InternshipValue(j, q)
  BY DEF JobFound, EmployerFilter, OrFilter, InternshipValue, AsksFor, Has
<1> QED  BY <1>1 DEF JobFound, AsksFor, Has

\* The list of jobs, unless a filterQuery is added.
LEMMA ListNarrows ==
  ASSUME NEW j, NEW q, NEW r, AsksFor(q, r), Has(r, "filterQuery") => Has(q, "filterQuery"),
         Listed(j, r)
  PROVE  Listed(j, q)
BY DEF Listed, AsksFor, Has

\* No parameter drops a condition that another one set, but for those that replace.
THEOREM AddedNarrows == Spec => SearchNarrows
<1>1. [Next]_vars => \A k \in DOMAIN ask' \ DOMAIN ask :
                       ~Replaces(k) /\ Found(view, subject, ask') => Found(view, subject, ask)
  <2> SUFFICES ASSUME [Next]_vars, NEW k \in DOMAIN ask' \ DOMAIN ask, ~Replaces(k),
                      Found(view, subject, ask')
               PROVE  Found(view, subject, ask)
    OBVIOUS
  <2>1. PICK d, v : ask' = With(ask, d, v)
    BY DEF Next, Give, vars
  <2>2. PICK r : r = ask'
    OBVIOUS
  <2>3. AsksFor(ask, r) /\ \A x : Has(r, x) => Has(ask, x) \/ x = k
    <3>1. DOMAIN r = DOMAIN ask \cup {d} /\ d = k
      BY <2>1, <2>2 DEF With
    <3> QED  BY <2>1, <2>2, <3>1 DEF With, AsksFor, Has
  <2>4. CASE view = "talents"
    BY <2>2, <2>3, <2>4, TalentsNarrow DEF Found, Replaces
  <2>5. CASE view = "step"
    BY <2>2, <2>3, <2>5, StepNarrows DEF Found, Replaces
  <2>6. CASE view = "jobs"
    BY <2>2, <2>3, <2>6, JobsNarrow DEF Found, Replaces
  <2>7. CASE view = "list"
    BY <2>2, <2>3, <2>7, ListNarrows DEF Found, Replaces
  <2> QED  BY <2>4, <2>5, <2>6, <2>7 DEF Found
<1> QED  BY <1>1, PTL DEF Spec, SearchNarrows
=============================================================================
