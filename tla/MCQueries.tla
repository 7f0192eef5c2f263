----------------------------- MODULE MCQueries -----------------------------
(* Small instances of Queries. *)
EXTENDS Queries

\* The search is made in October of the year 40 or in the following March; talents
\* are born in the years 8 to 22, in March or November, and began a course in one of
\* the last 31 months.
MCNow == 40 * 12 + 9

MCMonths == {MCNow, MCNow + 5}

Universities == <<[id |-> "u1", name |-> "n1"], [id |-> "u2", name |-> "n2"], NoUniversity>>

Course(c, u, s, p, start) ==
  [course |-> c, university |-> Universities[u], scholarshipPercentage |-> s, period |-> p,
   shift |-> u, startDate |-> start]

Backgrounds ==
  {{}, {Course(1, 1, 50, 1, MCNow - 4)}, {Course(1, 2, 100, 0, MCNow - 15)},
   {Course(1, 1, 100, 0, MCNow - 8), Course(2, 2, 50, 2, MCNow - 30)},
   {Course(1, 1, 0, 1, MCNow - 4), Course(3, 3, 0, 0, MCNow - 30)}}

\* A plain text that only the first name holds, and an alternative of both names.
Plain == [matches |-> {1}, within |-> {1}]
Pattern == [matches |-> {1, 2}, within |-> {}]

Talent(plain, bgs, born) ==
  [isAvailableForChange |-> plain, learnWorldsUserCourseCompleted |-> plain = 1,
   sexualOrientation |-> plain, humanRace |-> plain, pcd |-> plain, city |-> plain,
   state |-> plain, name |-> plain, email |-> plain, tools |-> {plain, 3},
   languages |-> {[id |-> 1, speaking |-> plain, reading |-> 3 - plain]},
   academicBackgrounds |-> bgs, born |-> born, status |-> "INITIAL", score |-> 5]

MCTalents ==
  {Talent(plain, bgs, 20 * 12) : plain \in {1, 2}, bgs \in Backgrounds}
    \cup {Talent(1, {}, 12 * y + m) : y \in 8..22, m \in {2, 10}}
    \cup {Talent(1, {Course(1, 1, 50, 0, MCNow - d)}, 20 * 12) : d \in 0..30}
    \cup {[Talent(1, {}, 20 * 12) EXCEPT !.status = "APPROVED", !.score = 0]}

MCJobs ==
  {[employer |-> e, participants |-> IF in THEN {"viewer"} ELSE {}, inSteps |-> in,
    inNew |-> new, title |-> e, area |-> "a1", internshipAddress |-> "s1",
    employerName |-> e, finishAt |-> end, closed |-> end < MCNow,
    state |-> 1, city |-> 1, internshipValue |-> pay, jobModel |-> 1] :
     e \in {"viewer", "e2"}, in \in BOOLEAN, new \in BOOLEAN, end \in {MCNow - 1, MCNow + 1},
     pay \in {10, 20}}

MCValues ==
  [k \in UNION {Params[v] : v \in DOMAIN Params} |->
     CASE k \in {"sexualOrientation", "humanRace", "pcd", "shift", "jobModel"}
            -> {{1}, {1, 2}}
       [] k \in {"isAvaliableForChange", "city", "state"} -> {1, 2}
       [] k \in {"name", "email"} -> {Plain, Pattern}
       [] k = "universityId" -> {{"u1"}, {"u1", "u2"}}
       [] k = "university_id" -> {"u1", "n1"}
       [] k = "learnWorldsUserCourseCompleted" -> BOOLEAN
       [] k = "tools" -> {{1, 3}}
       [] k = "languages" -> {{[id |-> 1, level |-> 1]}}
       [] k = "period" -> {{0, 1}, {2}}
       [] k = "scholarshipPercentage" -> {0, 50, 100}
       [] k = "course_id" -> {{[course |-> 1, period |-> p]} : p \in 0..2}
       [] k \in {"AgeMin", "AgeMax"} -> {20, 23, 30}
       [] k = "psMinScore" -> {3, 8}
       [] k = "psMaxScore" -> {3, 8}
       [] k = "status" -> {"INITIAL", "APPROVED"}
       [] k = "role" -> {"employer", "employee"}
       [] k = "employeer" -> {"e2"}
       [] k = "withCandidate" -> BOOLEAN
       [] k \in {"title", "q"} -> {[matches |-> {"e2"}, within |-> {"e2"}],
                                  [matches |-> {"a1", "s1"}, within |-> {}]}
       [] k = "finish" -> {"ALL", "CLOSED", "OPEN"}
       [] k = "minInternshipValue" -> {15}
       [] k = "maxInternshipValue" -> {12, 18}
       [] k = "benefits" -> {{1}}
       [] k \in {"with", "closed"} -> {"true", "false"}
       [] k = "filterQuery" -> {1}]
=============================================================================
