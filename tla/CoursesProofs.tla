--------------------------- MODULE CoursesProofs ---------------------------
(***************************************************************************)
(* Proofs about Courses, for any users, courses, sections, lessons, slugs  *)
(* and requests.                                                           *)
(***************************************************************************)
EXTENDS Courses, SequenceTheorems, FiniteSetTheorems, TLAPS

-----------------------------------------------------------------------------
(* The inductive invariant: what the constraints of the schema keep, and    *)
(* what a request knows of the tables while rows come and go under it.      *)

Kinds ==
    /\ courses \in [CourseIds -> Slugs \cup {Nil}]
    /\ sections \in [Sections -> CourseIds \cup {Nil}]
    /\ lessons \in [Lessons -> Sections \cup {Nil}]
    /\ enrollments \subseteq Users \X CourseIds
    /\ drawn \subseteq CourseIds \cup Sections \cup Lessons
    /\ req \in [Requests -> Request]

(* UNIQUE slug and the foreign keys; an id is drawn once. *)
Constraints ==
    /\ \A c, d \in Stored : courses[c] = courses[d] => c = d
    /\ \A e \in enrollments : e[2] \in Stored
    /\ \A l \in Lessons : lessons[l] # Nil => sections[lessons[l]] # Nil
    /\ Stored \subseteq drawn
    /\ \A x \in Sections : sections[x] # Nil => x \in drawn

Active(q) == q.pc \notin {"idle", "replied"}

(* What an answer says. *)
Told(q) ==
    /\ q.found \subseteq q.ever
    /\ q.op = "course" /\ q.status = "ok" => q.always \subseteq q.found
    /\ q.op = "enrolled" /\ q.status = "ok" /\ ~q.renamed => q.answer \in q.truths
    /\ q.status = "ok" => /\ Len(q.docs) = 1
                          /\ q.op \in {"course", "enrolled"} => q.course # Zero

(* What a request has at each of its statements. *)
Place(q) ==
    /\ q.slug \in Slugs /\ q.op \in {"course", "enrolled", "enroll"}
    /\ q.status \in {"none", "error"}
    /\ q.status = "none" => q.docs = <<>> /\ (q.pc = "find" \/ q.course # Zero)
    /\ q.pc = "find" => /\ q.course = Zero /\ q.status = "none"
                        /\ q.found = {} /\ q.todo = {}
    /\ q.pc \in {"sections", "lessons"} <=> q.op = "course" /\ q.pc # "find"
    /\ q.pc = "sections" => q.todo = {}
    /\ q.pc = "check" <=> q.op = "enrolled" /\ q.pc # "find"
    /\ q.op = "enroll" => q.user = Jti

(* What it knows of the tables.  A section in todo is one of the course or  *)
(* gone, and gone with its lessons; a course that lost its slug without     *)
(* being renamed was deleted, and nobody was enrolled at that moment.       *)
Knows(q) ==
    /\ q.always \subseteq Outline(q.course) /\ Outline(q.course) \subseteq q.ever
    /\ \A x \in q.todo : x \in drawn /\ sections[x] \in {q.course, Nil}
    /\ q.pc = "lessons" /\ q.status = "none" =>
         \A p \in q.always : p[1] \in q.todo \/ p \in q.found
    /\ q.op = "enrolled" => EnrolledIn(courses, enrollments, q.user, q.slug) \in q.truths
    /\ q.pc = "check" /\ q.status = "none" /\ ~q.renamed =>
         /\ q.course \in CourseIds \cap drawn
         /\ courses[q.course] = q.slug \/ (courses[q.course] = Nil /\ FALSE \in q.truths)

Fine(q) == Told(q) /\ (Active(q) => Place(q) /\ Knows(q))

IInv == Kinds /\ Constraints /\ \A r \in Requests : Fine(req[r])

(* No request is served at first. *)
LEMMA InitInv == Init => IInv
<1> SUFFICES ASSUME Init PROVE IInv
  OBVIOUS
<1>1. /\ Idle.pc = "idle" /\ Idle.found = {} /\ Idle.ever = {} /\ Idle.status = "none"
      /\ Idle \in Request
  <2>1. Idle.docs \in Seq({"error", "list", "course", "enrolled", "message"})
    BY EmptySeq DEF Idle
  <2> QED
    BY <2>1 DEF Idle, Request, Outlines
<1>2. Fine(Idle)
  BY <1>1 DEF Fine, Told, Active
<1>3. Kinds
  BY <1>1 DEF Init, Kinds
<1>4. Constraints
  BY DEF Init, Constraints, Stored
<1> QED
  BY <1>2, <1>3, <1>4 DEF Init, IInv

-----------------------------------------------------------------------------
(* Statements that write *)

(* What a statement may do to rows that exist: sections are not moved, and  *)
(* a course that is not renamed keeps its slug or is deleted alone.         *)
Gentle(renaming) ==
    /\ drawn \subseteq drawn'
    /\ \A x \in Sections \cap drawn : sections'[x] \in {sections[x], Nil}
    /\ renaming \/ \A c \in CourseIds \cap drawn :
           \/ courses'[c] = courses[c]
           \/ courses'[c] = Nil /\ \A d \in CourseIds \ {c} : courses'[d] = courses[d]

(* A request stays sound under a statement that is gentle: it has watched.  *)
LEMMA Watching ==
    ASSUME IInv, NEW renaming \in BOOLEAN, Watch(renaming), Gentle(renaming),
           Constraints',
           courses' \in [CourseIds -> Slugs \cup {Nil}],
           sections' \in [Sections -> CourseIds \cup {Nil}],
           lessons' \in [Lessons -> Sections \cup {Nil}],
           enrollments' \subseteq Users \X CourseIds,
           drawn' \subseteq CourseIds \cup Sections \cup Lessons
    PROVE  IInv'
<1> DEFINE watched(q) ==
      [q EXCEPT
         !.truths = @ \cup {EnrolledIn(courses', enrollments', q.user, q.slug)},
         !.renamed = @ \/ (renaming /\ q.op = "enrolled"),
         !.ever = @ \cup OutlineIn(sections', lessons', q.course),
         !.always = @ \cap OutlineIn(sections', lessons', q.course)]
<1>1. req' = [r \in Requests |-> IF req[r].pc \in {"idle", "replied"} THEN req[r]
                                 ELSE watched(req[r])]
  BY DEF Watch
<1>2. ASSUME NEW r \in Requests, ~Active(req[r])
      PROVE  req'[r] \in Request /\ Fine(req[r])'
  BY <1>1, <1>2 DEF IInv, Kinds, Fine, Told, Active
<1>3. ASSUME NEW r \in Requests, Active(req[r])
      PROVE  req'[r] \in Request /\ Fine(req[r])'
  <2> DEFINE q == req[r]
             w == req'[r]
  <2>1. q \in Request /\ Told(q) /\ Place(q) /\ Knows(q)
    BY <1>3 DEF IInv, Kinds, Fine
  <2>2. /\ EnrolledIn(courses', enrollments', q.user, q.slug) \in BOOLEAN
        /\ OutlineIn(sections', lessons', q.course) \in Outlines
    BY DEF EnrolledIn, OutlineIn, Outlines
  <2>3. w = watched(q)
    BY <1>1, <1>3 DEF Active
  <2>4. /\ w.op = q.op /\ w.pc = q.pc /\ w.user = q.user /\ w.slug = q.slug
        /\ w.course = q.course /\ w.todo = q.todo /\ w.found = q.found
        /\ w.answer = q.answer /\ w.docs = q.docs /\ w.status = q.status
        /\ w.truths = q.truths \cup {EnrolledIn(courses', enrollments', q.user, q.slug)}
        /\ w.renamed = (q.renamed \/ (renaming /\ q.op = "enrolled"))
        /\ w.ever = q.ever \cup OutlineIn(sections', lessons', q.course)
        /\ w.always = q.always \cap OutlineIn(sections', lessons', q.course)
    BY <2>1, <2>3 DEF Request
  <2>5. w \in Request
    <3>1. /\ w.truths \in SUBSET BOOLEAN /\ w.ever \in Outlines /\ w.always \in Outlines
          /\ w.renamed \in BOOLEAN
      BY <2>1, <2>2, <2>4 DEF Request, Outlines
    <3> QED
      BY <2>1, <2>3, <3>1 DEF Request
  <2> HIDE DEF watched
  <2>6. Told(w)
    BY <2>1, <2>4 DEF Told, Place
  <2>7. Place(w)
    BY <2>1, <2>4 DEF Place
  <2>8. /\ w.always \subseteq OutlineIn(sections', lessons', w.course)
        /\ OutlineIn(sections', lessons', w.course) \subseteq w.ever
    BY <2>4
  <2>9. \A x \in w.todo : x \in drawn' /\ sections'[x] \in {w.course, Nil}
    <3>1. q.todo \subseteq Sections
      BY <2>1 DEF Request
    <3> QED
      BY <2>1, <2>4, <3>1 DEF Knows, Gentle
  <2>10. w.pc = "lessons" /\ w.status = "none" =>
           \A p \in w.always : p[1] \in w.todo \/ p \in w.found
    BY <2>1, <2>4 DEF Knows
  <2>11. EnrolledIn(courses', enrollments', w.user, w.slug) \in w.truths
    BY <2>4
  <2>12. ASSUME w.pc = "check", w.status = "none", ~w.renamed
         PROVE  /\ w.course \in CourseIds \cap drawn'
                /\ \/ courses'[w.course] = w.slug
                   \/ courses'[w.course] = Nil /\ FALSE \in w.truths
    <3>1. q.op = "enrolled" /\ ~q.renamed /\ ~renaming
      BY <2>1, <2>4, <2>12 DEF Place
    <3>2. /\ q.course \in CourseIds \cap drawn
          /\ courses[q.course] = q.slug \/ (courses[q.course] = Nil /\ FALSE \in q.truths)
      BY <2>1, <2>4, <2>12, <3>1 DEF Knows
    <3>3. q.course \in CourseIds \cap drawn'
      BY <3>2 DEF Gentle
    <3>4. CASE courses'[q.course] = courses[q.course]
      BY <2>4, <3>2, <3>3, <3>4
    <3>5. CASE /\ courses'[q.course] = Nil
               /\ \A d \in CourseIds \ {q.course} : courses'[d] = courses[d]
      <4>1. q.slug # Nil
        BY <2>1, CoursesAssumption DEF CoursesAssumption, Place
      <4>2. CASE courses[q.course] = q.slug
        <5>1. \A d \in CourseIds : courses'[d] # q.slug
          BY <3>2, <3>5, <4>1, <4>2 DEF IInv, Constraints, Stored
        <5>2. EnrolledIn(courses', enrollments', q.user, q.slug) = FALSE
          BY <5>1 DEF EnrolledIn
        <5> QED
          BY <2>4, <3>3, <3>5, <5>2
      <4>3. CASE FALSE \in q.truths
        BY <2>4, <3>3, <3>5, <4>3
      <4> QED
        BY <3>2, <4>2, <4>3
    <3> QED
      BY <3>1, <3>2, <3>4, <3>5 DEF Gentle
  <2> HIDE DEF w
  <2>13. Fine(q)'
    BY <2>6, <2>7, <2>8, <2>9, <2>10, <2>11, <2>12
       DEF w, Fine, Told, Place, Knows, Outline
  <2> QED
    BY <2>5, <2>13 DEF w
<1>4. req' \in [Requests -> Request]
  BY <1>1, <1>2, <1>3
<1> QED
  BY <1>2, <1>3, <1>4 DEF IInv, Kinds

(* Rows of one kind come and go; constraints and gentleness are local.      *)
LEMMA CourseWrites ==
    ASSUME IInv, NEW c \in CourseIds, NEW s \in Slugs,
           CreateCourse(c, s) \/ UpdateCourse(c, s)
    PROVE  IInv'
<1>1. s # Nil
  BY CoursesAssumption DEF CoursesAssumption
<1>2. PICK renaming \in BOOLEAN :
        /\ Watch(renaming)
        /\ renaming \/ c \notin drawn
  <2>1. CASE CreateCourse(c, s)
    <3>1. c \notin drawn
      BY <2>1 DEF CreateCourse
    <3> QED
      BY <2>1, <3>1 DEF CreateCourse
  <2>2. CASE UpdateCourse(c, s)
    BY <2>2 DEF UpdateCourse
  <2> QED
    BY <2>1, <2>2
<1>3. /\ courses' = [courses EXCEPT ![c] = s]
      /\ drawn' = drawn \cup {c}
      /\ UNCHANGED <<sections, lessons, enrollments>>
      /\ SlugFree(s, c)
  BY DEF CreateCourse, UpdateCourse, IInv, Constraints
<1>4. /\ courses' \in [CourseIds -> Slugs \cup {Nil}]
      /\ courses'[c] = s /\ \A d \in CourseIds \ {c} : courses'[d] = courses[d]
  BY <1>3 DEF IInv, Kinds
<1>5. Stored' = Stored \cup {c}
  BY <1>1, <1>4 DEF Stored
<1>6. Constraints'
  BY <1>3, <1>4, <1>5 DEF IInv, Constraints, SlugFree, Stored
<1>7. Gentle(renaming)
  BY <1>2, <1>3, <1>4 DEF Gentle
<1> QED
  BY <1>2, <1>3, <1>4, <1>6, <1>7, Watching DEF IInv, Kinds

(* ON DELETE CASCADE leaves no orphan. *)
LEMMA DeleteCourseStep ==
    ASSUME IInv, NEW c \in CourseIds, DeleteCourse(c)
    PROVE  IInv'
<1>1. /\ courses' \in [CourseIds -> Slugs \cup {Nil}]
      /\ courses'[c] = Nil /\ \A d \in CourseIds \ {c} : courses'[d] = courses[d]
      /\ c \in Stored
  BY DEF DeleteCourse, IInv, Kinds
<1>2. /\ sections' \in [Sections -> CourseIds \cup {Nil}]
      /\ \A x \in Sections : sections'[x] = IF sections[x] = c THEN Nil ELSE sections[x]
  BY DEF DeleteCourse, IInv, Kinds
<1>3. /\ lessons' \in [Lessons -> Sections \cup {Nil}]
      /\ \A l \in Lessons : lessons'[l] = IF lessons[l] \in GetCourseSections(c) THEN Nil
                                          ELSE lessons[l]
  BY DEF DeleteCourse, IInv, Kinds
<1>4. /\ enrollments' = {e \in enrollments : e[2] # c}
      /\ drawn' = drawn /\ Watch(FALSE)
  BY DEF DeleteCourse
<1>5. Stored' = Stored \ {c}
  BY <1>1 DEF Stored
<1>6. Constraints'
  <2>1. \A l \in Lessons : lessons'[l] # Nil => sections'[lessons'[l]] # Nil
    <3> SUFFICES ASSUME NEW l \in Lessons, lessons'[l] # Nil
                 PROVE  sections'[lessons'[l]] # Nil
      OBVIOUS
    <3>1. lessons'[l] = lessons[l] /\ lessons[l] \notin GetCourseSections(c)
      BY <1>3
    <3>2. lessons[l] \in Sections /\ sections[lessons[l]] # Nil
      BY <3>1 DEF IInv, Kinds, Constraints
    <3> QED
      BY <1>2, <3>1, <3>2 DEF GetCourseSections
  <2>2. \A a, b \in Stored' : courses'[a] = courses'[b] => a = b
    BY <1>1, <1>5 DEF IInv, Constraints, Stored
  <2>3. \A e \in enrollments' : e[2] \in Stored'
    BY <1>4, <1>5 DEF IInv, Constraints
  <2>4. Stored' \subseteq drawn' /\ \A x \in Sections : sections'[x] # Nil => x \in drawn'
    BY <1>2, <1>4, <1>5 DEF IInv, Constraints
  <2> QED
    BY <2>1, <2>2, <2>3, <2>4 DEF Constraints
<1>7. Gentle(FALSE)
  BY <1>1, <1>2, <1>4 DEF Gentle
<1> QED
  BY <1>1, <1>2, <1>3, <1>4, <1>6, <1>7, Watching DEF IInv, Kinds

(* Sections and lessons are created where their parents are, and deleted    *)
(* with their children.                                                     *)
LEMMA SectionWrites ==
    ASSUME IInv, NEW x \in Sections,
           (\E c \in CourseIds : CreateSection(x, c)) \/ DeleteSection(x)
    PROVE  IInv'
<1>1. UNCHANGED <<courses, enrollments>> /\ Watch(FALSE)
  BY DEF CreateSection, DeleteSection
<1>2. Stored' = Stored
  BY <1>1 DEF Stored
<1>3. CASE \E c \in CourseIds : CreateSection(x, c)
  <2> PICK c \in CourseIds : CreateSection(x, c)
    BY <1>3
  <2>1. /\ sections' \in [Sections -> CourseIds \cup {Nil}]
        /\ sections'[x] = c /\ \A y \in Sections \ {x} : sections'[y] = sections[y]
        /\ drawn' = drawn \cup {x} /\ x \notin drawn /\ UNCHANGED lessons
    BY DEF CreateSection, IInv, Kinds
  <2>2. c # Nil
    BY CoursesAssumption DEF CoursesAssumption
  <2>3. Constraints'
    BY <1>1, <1>2, <2>1, <2>2 DEF IInv, Kinds, Constraints
  <2>4. Gentle(FALSE)
    BY <1>1, <2>1 DEF Gentle
  <2> QED
    BY <1>1, <2>1, <2>3, <2>4, Watching DEF IInv, Kinds
<1>4. CASE DeleteSection(x)
  <2>1. /\ sections' \in [Sections -> CourseIds \cup {Nil}]
        /\ sections'[x] = Nil /\ \A y \in Sections \ {x} : sections'[y] = sections[y]
        /\ drawn' = drawn
    BY <1>4 DEF DeleteSection, IInv, Kinds
  <2>2. /\ lessons' \in [Lessons -> Sections \cup {Nil}]
        /\ \A l \in Lessons : lessons'[l] = IF lessons[l] = x THEN Nil ELSE lessons[l]
    BY <1>4 DEF DeleteSection, IInv, Kinds
  <2>3. \A l \in Lessons : lessons'[l] # Nil => sections'[lessons'[l]] # Nil
    BY <2>1, <2>2 DEF IInv, Kinds, Constraints
  <2>4. Constraints'
    BY <1>1, <1>2, <2>1, <2>3 DEF IInv, Constraints
  <2>5. Gentle(FALSE)
    BY <1>1, <2>1 DEF Gentle
  <2> QED
    BY <1>1, <2>1, <2>2, <2>4, <2>5, Watching DEF IInv, Kinds
<1> QED
  BY <1>3, <1>4

(* Statements that write lessons keep the invariant. *)
LEMMA LessonWrites ==
    ASSUME IInv, NEW l \in Lessons,
           (\E x \in Sections : CreateLesson(l, x)) \/ DeleteLesson(l)
    PROVE  IInv'
<1>1. /\ UNCHANGED <<courses, sections, enrollments>> /\ Watch(FALSE)
      /\ drawn \subseteq drawn' /\ drawn' \subseteq drawn \cup {l}
  BY DEF CreateLesson, DeleteLesson
<1>2. Stored' = Stored
  BY <1>1 DEF Stored
<1>3. PICK x \in Sections \cup {Nil} :
        lessons' = [lessons EXCEPT ![l] = x] /\ (x # Nil => sections[x] # Nil)
  BY DEF CreateLesson, DeleteLesson
<1>4. /\ lessons' \in [Lessons -> Sections \cup {Nil}]
      /\ lessons'[l] = x /\ \A m \in Lessons \ {l} : lessons'[m] = lessons[m]
  BY <1>3 DEF IInv, Kinds
<1>5. Constraints'
  BY <1>1, <1>2, <1>3, <1>4 DEF IInv, Constraints
<1>6. Gentle(FALSE)
  BY <1>1 DEF Gentle
<1> QED
  BY <1>1, <1>4, <1>5, <1>6, Watching DEF IInv, Kinds

(* Statements that write enrollments keep the invariant. *)
LEMMA EnrollmentWrites ==
    ASSUME IInv, NEW u \in Users, NEW c \in CourseIds,
           EnrollStudent(u, c) \/ UnenrollStudent(u, c)
    PROVE  IInv'
<1>1. UNCHANGED <<courses, sections, lessons, drawn>> /\ Watch(FALSE)
  BY DEF EnrollStudent, UnenrollStudent
<1>2. Stored' = Stored
  BY <1>1 DEF Stored
<1>3. /\ enrollments' \subseteq enrollments \cup {<<u, c>>}
      /\ c \in Stored \/ enrollments' \subseteq enrollments
  BY DEF EnrollStudent, CanEnroll, UnenrollStudent
<1>4. enrollments' \subseteq Users \X CourseIds
  BY <1>3 DEF IInv, Kinds
<1>5. Constraints'
  BY <1>1, <1>2, <1>3 DEF IInv, Constraints
<1>6. Gentle(FALSE)
  BY <1>1 DEF Gentle
<1> QED
  BY <1>1, <1>4, <1>5, <1>6, Watching DEF IInv, Kinds

(* Every statement that writes keeps the invariant. *)
LEMMA WriteStep ==
    ASSUME IInv, Write
    PROVE  IInv'
BY CourseWrites, DeleteCourseStep, SectionWrites, LessonWrites, EnrollmentWrites
   DEF Write

-----------------------------------------------------------------------------
(* Handlers *)

(* One request goes on while the tables stay. *)
LEMMA OneRequest ==
    ASSUME IInv, NEW r \in Requests, NEW q \in Request, Fine(q),
           req' = [req EXCEPT ![r] = q], UNCHANGED tables
    PROVE  IInv'
<1>1. Kinds'
  BY DEF IInv, Kinds, tables
<1>2. Constraints'
  BY DEF IInv, Constraints, Stored, tables
<1>3. req'[r] = q /\ \A s \in Requests \ {r} : req'[s] = req[s]
  BY DEF IInv, Kinds
<1>4. \A s \in Requests : Fine(req'[s])
  BY <1>3 DEF IInv
<1>5. \A s \in Requests : Fine(req[s])'
  BY <1>4 DEF Fine, Told, Knows, Outline, tables
<1> QED
  BY <1>1, <1>2, <1>5 DEF IInv

Docs == {"error", "list", "course", "enrolled", "message"}

(* A first body is the only one.  A second does not change the status. *)
LEMMA Responding ==
    ASSUME NEW q \in Request, NEW doc \in Docs,
           NEW status \in {"ok", "error", "unauthorized"},
           NEW w, w = Respond(q, doc, status)
    PROVE  /\ w \in Request
           /\ w.op = q.op /\ w.pc = q.pc /\ w.user = q.user /\ w.slug = q.slug
           /\ w.course = q.course /\ w.todo = q.todo /\ w.found = q.found
           /\ w.answer = q.answer /\ w.truths = q.truths /\ w.renamed = q.renamed
           /\ w.ever = q.ever /\ w.always = q.always
           /\ w.status = IF q.status = "none" THEN status ELSE q.status
           /\ q.docs = <<>> => Len(w.docs) = 1
<1> DEFINE docs == Append(q.docs, doc)
           code == IF q.status = "none" THEN status ELSE q.status
<1>1. q.docs \in Seq(Docs)
  BY DEF Request, Docs
<1>2. docs \in Seq(Docs) /\ Len(docs) = Len(q.docs) + 1
  BY <1>1, AppendProperties
<1>3. Len(<<>>) = 0
  BY EmptySeq
<1>4. code \in {"none", "ok", "error", "unauthorized"}
  BY DEF Request
<1>5. w = [q EXCEPT !.docs = docs, !.status = code]
  BY DEF Respond
<1>6. q.docs = <<>> => Len(docs) = 1
  BY <1>2, <1>3
<1> HIDE DEF docs
<1>7. w \in Request
  BY <1>2, <1>4, <1>5 DEF Request, Docs
<1>8. w.docs = docs /\ w.status = code
  BY <1>5 DEF Request
<1> HIDE DEF code
<1>9. /\ w.op = q.op /\ w.pc = q.pc /\ w.user = q.user /\ w.slug = q.slug
      /\ w.course = q.course /\ w.todo = q.todo /\ w.found = q.found
      /\ w.answer = q.answer /\ w.truths = q.truths /\ w.renamed = q.renamed
      /\ w.ever = q.ever /\ w.always = q.always
  BY <1>5 DEF Request
<1> QED
  BY <1>6, <1>7, <1>8, <1>9 DEF code

(* A request that ends with an answer, whatever it answered before. *)
LEMMA Answering ==
    ASSUME NEW q \in Request, NEW doc \in Docs,
           NEW status \in {"ok", "error", "unauthorized"},
           q.found \subseteq q.ever,
           q.status \in {"none", "error"},
           q.status = "none" => q.docs = <<>>,
           q.status = "none" /\ status = "ok" =>
             /\ q.op = "course" => q.always \subseteq q.found
             /\ q.op = "enrolled" /\ ~q.renamed => q.answer \in q.truths
             /\ q.op \in {"course", "enrolled"} => q.course # Zero
    PROVE  LET w == Replied(Respond(q, doc, status)) IN w \in Request /\ Fine(w)
<1> DEFINE v == Respond(q, doc, status)
           w == Replied(v)
<1>1. /\ v \in Request
      /\ v.op = q.op /\ v.course = q.course /\ v.found = q.found
      /\ v.answer = q.answer /\ v.truths = q.truths /\ v.renamed = q.renamed
      /\ v.ever = q.ever /\ v.always = q.always
      /\ v.status = IF q.status = "none" THEN status ELSE q.status
      /\ q.docs = <<>> => Len(v.docs) = 1
  BY Responding
<1> HIDE DEF v
<1>2. w \in Request /\ w.pc = "replied"
  BY <1>1 DEF Replied, Request
<1>3. /\ w.op = v.op /\ w.course = v.course /\ w.found = v.found
      /\ w.answer = v.answer /\ w.truths = v.truths /\ w.renamed = v.renamed
      /\ w.ever = v.ever /\ w.always = v.always
      /\ w.status = v.status /\ w.docs = v.docs
  BY <1>1 DEF Replied, Request
<1> HIDE DEF w
<1>4. Fine(w)
  BY <1>1, <1>2, <1>3 DEF Fine, Told, Active
<1> QED
  BY <1>2, <1>4 DEF w, v

(* Idle is a request that nothing has happened to. *)
LEMMA IdleType ==
    /\ Idle \in Request /\ Fine(Idle)
    /\ Idle.pc = "idle" /\ Idle.op = "none" /\ Idle.docs = <<>> /\ Idle.status = "none"
    /\ Idle.found = {} /\ Idle.ever = {} /\ Idle.always = {} /\ Idle.todo = {}
    /\ Idle.truths = {} /\ Idle.course = Zero /\ ~Idle.renamed
<1>1. Idle.docs \in Seq(Docs)
  BY EmptySeq DEF Idle
<1>2. Idle \in Request
  BY <1>1 DEF Idle, Request, Outlines, Docs
<1> QED
  BY <1>2 DEF Idle, Fine, Told, Active

(* No section is of no course. *)
LEMMA NoOutline ==
    ASSUME IInv
    PROVE  Outline(Zero) = {}
BY CoursesAssumption DEF CoursesAssumption, IInv, Kinds, Outline, OutlineIn

(* A request that becomes a sound one keeps the invariant. *)
LEMMA Becoming ==
    ASSUME IInv, NEW r \in Requests, NEW q \in Request, Fine(q), Becomes(r, q)
    PROVE  IInv'
BY OneRequest DEF Becomes

(* GetAll reads the courses and answers in one statement. *)
LEMMA GetAllStep ==
    ASSUME IInv, NEW r \in Requests, GetAll(r)
    PROVE  IInv'
<1> DEFINE q == [Idle EXCEPT !.op = "all"]
<1>1. /\ q \in Request /\ q.op = "all" /\ q.found = {} /\ q.docs = <<>>
      /\ q.status = "none"
  BY IdleType DEF Request
<1> HIDE DEF q
<1>2. CASE Becomes(r, Replied(Respond(q, "list", "ok")))
  <2> DEFINE w == Replied(Respond(q, "list", "ok"))
  <2>1. w \in Request /\ Fine(w)
    BY <1>1, Answering DEF Docs
  <2> HIDE DEF w
  <2>2. Becomes(r, w)
    BY <1>2 DEF w
  <2> QED
    BY <2>1, <2>2, Becoming
<1>3. CASE Becomes(r, Replied(JSONError(q)))
  <2> DEFINE w == Replied(Respond(q, "error", "error"))
  <2>1. w \in Request /\ Fine(w)
    BY <1>1, Answering DEF Docs
  <2> HIDE DEF w
  <2>2. Becomes(r, w)
    BY <1>3 DEF w, JSONError
  <2> QED
    BY <2>1, <2>2, Becoming
<1> QED
  BY <1>2, <1>3 DEF GetAll, q

(* A request that has only been asked knows nothing yet. *)
LEMMA Asking ==
    ASSUME IInv, NEW q \in Request,
           q.op \in {"course", "enrolled", "enroll"}, q.slug \in Slugs, q.pc = "find",
           q.op = "enroll" => q.user = Jti,
           q.op = "enrolled" => EnrolledIn(courses, enrollments, q.user, q.slug) \in q.truths,
           q.course = Zero, q.todo = {}, q.found = {}, q.ever = {}, q.always = {},
           q.docs = <<>>, q.status = "none"
    PROVE  Fine(q)
<1>1. Told(q)
  BY DEF Told
<1>2. Place(q)
  BY DEF Place
<1>3. Knows(q)
  BY NoOutline DEF Knows
<1> QED
  BY <1>1, <1>2, <1>3 DEF Fine

(* A request arrives at a handler. *)
LEMMA SendStep ==
    ASSUME IInv, NEW r \in Requests, NEW s \in Slugs, NEW u \in Users \cup {Nil},
           SendGetCourse(r, s) \/ SendIsEnrolled(r, u, s) \/ SendEnroll(r, u, s)
    PROVE  IInv'
<1>1. CASE SendGetCourse(r, s)
  <2> DEFINE q == [Idle EXCEPT !.op = "course", !.pc = "find", !.slug = s]
  <2>1. /\ q \in Request /\ q.op = "course" /\ q.pc = "find" /\ q.slug = s
        /\ q.course = Zero /\ q.todo = {} /\ q.found = {} /\ q.ever = {} /\ q.always = {}
        /\ q.docs = <<>> /\ q.status = "none"
    BY IdleType DEF Request
  <2>2. Becomes(r, q)
    BY <1>1 DEF SendGetCourse
  <2> HIDE DEF q
  <2>3. Fine(q)
    BY <2>1, Asking
  <2> QED
    BY <2>1, <2>2, <2>3, Becoming
<1>2. CASE SendIsEnrolled(r, u, s)
  <2> DEFINE e == EnrolledIn(courses, enrollments, u, s)
             p == [Idle EXCEPT !.op = "enrolled", !.user = u, !.slug = s]
             q == [p EXCEPT !.pc = "find", !.truths = {e}]
             w == Replied(Respond(p, "error", "unauthorized"))
  <2>1. e \in BOOLEAN
    BY DEF EnrolledIn
  <2>2. /\ p \in Request /\ p.op = "enrolled" /\ p.user = u /\ p.slug = s
        /\ p.course = Zero /\ p.todo = {} /\ p.found = {} /\ p.ever = {} /\ p.always = {}
        /\ p.docs = <<>> /\ p.status = "none"
    BY IdleType DEF Request
  <2>3. IF u = Nil THEN Becomes(r, w) ELSE Becomes(r, q)
    BY <1>2 DEF SendIsEnrolled
  <2> HIDE DEF p, e
  <2>4. /\ q \in Request /\ q.op = "enrolled" /\ q.user = u /\ q.slug = s
        /\ q.pc = "find" /\ q.truths = {e}
        /\ q.course = Zero /\ q.todo = {} /\ q.found = {} /\ q.ever = {} /\ q.always = {}
        /\ q.docs = <<>> /\ q.status = "none"
    BY <2>1, <2>2 DEF Request
  <2>5. w \in Request /\ Fine(w)
    BY <2>2, Answering DEF Docs
  <2> HIDE DEF q, w
  <2>6. Fine(q)
    BY <2>4, Asking DEF e
  <2> QED
    BY <2>3, <2>4, <2>5, <2>6, Becoming
<1>3. CASE SendEnroll(r, u, s)
  <2> DEFINE p == [Idle EXCEPT !.op = "enroll", !.slug = s]
             q == [p EXCEPT !.pc = "find", !.user = Jti]
             w == Replied(Respond(p, "error", "unauthorized"))
  <2>1. /\ p \in Request /\ p.op = "enroll" /\ p.slug = s
        /\ p.course = Zero /\ p.todo = {} /\ p.found = {} /\ p.ever = {} /\ p.always = {}
        /\ p.docs = <<>> /\ p.status = "none"
    BY IdleType DEF Request
  <2>2. IF u = Nil THEN Becomes(r, w) ELSE Becomes(r, q)
    BY <1>3 DEF SendEnroll
  <2> HIDE DEF p
  <2>3. /\ q \in Request /\ q.op = "enroll" /\ q.user = Jti /\ q.slug = s /\ q.pc = "find"
        /\ q.course = Zero /\ q.todo = {} /\ q.found = {} /\ q.ever = {} /\ q.always = {}
        /\ q.docs = <<>> /\ q.status = "none"
    BY <2>1 DEF Request
  <2>4. w \in Request /\ Fine(w)
    BY <2>1, Answering DEF Docs
  <2> HIDE DEF q, w
  <2>5. Fine(q)
    BY <2>3, Asking
  <2> QED
    BY <2>2, <2>3, <2>4, <2>5, Becoming
<1> QED
  BY <1>1, <1>2, <1>3

(* What is known of a request that waits for a statement. *)
LEMMA Waiting ==
    ASSUME IInv, NEW r \in Requests, Active(req[r])
    PROVE  req[r] \in Request /\ Told(req[r]) /\ Place(req[r]) /\ Knows(req[r])
BY DEF IInv, Kinds, Fine

(* The handler looks its course up by slug, and goes on after an error. *)
LEMMA FindCourseStep ==
    ASSUME IInv, NEW r \in Requests, FindCourse(r)
    PROVE  IInv'
<1> DEFINE p == req[r]
           q == [p EXCEPT !.pc = AfterFind(p.op)]
<1>1. p \in Request /\ Told(p) /\ Place(p) /\ Knows(p) /\ p.pc = "find"
  BY Waiting DEF FindCourse, Active
<1>2. /\ (\E c \in CourseIDBySlug(q.slug) :
             Becomes(r, [q EXCEPT !.course = c, !.ever = Outline(c), !.always = Outline(c)]))
         \/ Becomes(r, JSONError(q))
  BY DEF FindCourse
<1>3. /\ AfterFind(p.op) \in {"sections", "check", "insert"}
      /\ AfterFind(p.op) = "sections" <=> p.op = "course"
      /\ AfterFind(p.op) = "check" <=> p.op = "enrolled"
  BY <1>1 DEF AfterFind, Place
<1>4. /\ q \in Request /\ q.pc = AfterFind(p.op)
      /\ q.op = p.op /\ q.user = p.user /\ q.slug = p.slug
      /\ q.course = p.course /\ q.todo = p.todo /\ q.found = p.found
      /\ q.answer = p.answer /\ q.truths = p.truths /\ q.renamed = p.renamed
      /\ q.ever = p.ever /\ q.always = p.always
      /\ q.status = p.status /\ q.docs = p.docs
  BY <1>1, <1>3 DEF Request
<1> HIDE DEF p, q
<1>5. CASE \E c \in CourseIDBySlug(q.slug) :
             Becomes(r, [q EXCEPT !.course = c, !.ever = Outline(c), !.always = Outline(c)])
  <2> PICK c \in CourseIDBySlug(q.slug) :
         Becomes(r, [q EXCEPT !.course = c, !.ever = Outline(c), !.always = Outline(c)])
    BY <1>5
  <2> DEFINE w == [q EXCEPT !.course = c, !.ever = Outline(c), !.always = Outline(c)]
  <2>1. c \in Stored /\ c \in CourseIds /\ courses[c] = q.slug /\ c # Zero
    BY CoursesAssumption DEF CoursesAssumption, CourseIDBySlug, Stored
  <2>2. Outline(c) \in Outlines
    BY DEF Outline, OutlineIn, Outlines
  <2>3. /\ w \in Request /\ w.course = c /\ w.ever = Outline(c) /\ w.always = Outline(c)
        /\ w.op = q.op /\ w.user = q.user /\ w.slug = q.slug /\ w.pc = q.pc
        /\ w.todo = q.todo /\ w.found = q.found
        /\ w.answer = q.answer /\ w.truths = q.truths /\ w.renamed = q.renamed
        /\ w.status = q.status /\ w.docs = q.docs
    BY <1>4, <2>1, <2>2 DEF Request
  <2>4. Becomes(r, w)
    OBVIOUS
  <2> HIDE DEF w
  <2>5. Told(w)
    BY <1>1, <1>4, <2>3 DEF Told, Place
  <2>6. Place(w)
    BY <1>1, <1>3, <1>4, <2>1, <2>3 DEF Place
  <2>7. Knows(w)
    BY <1>1, <1>3, <1>4, <2>1, <2>3 DEF Place, Knows, IInv, Constraints
  <2> QED
    BY <2>3, <2>4, <2>5, <2>6, <2>7, Becoming DEF Fine
<1>6. CASE Becomes(r, JSONError(q))
  <2> DEFINE w == Respond(q, "error", "error")
  <2>1. /\ w \in Request
        /\ w.op = q.op /\ w.pc = q.pc /\ w.user = q.user /\ w.slug = q.slug
        /\ w.course = q.course /\ w.todo = q.todo /\ w.found = q.found
        /\ w.answer = q.answer /\ w.truths = q.truths /\ w.renamed = q.renamed
        /\ w.ever = q.ever /\ w.always = q.always
        /\ w.status = IF q.status = "none" THEN "error" ELSE q.status
    BY <1>4, Responding DEF Docs
  <2>2. Becomes(r, w)
    BY <1>6 DEF JSONError
  <2> HIDE DEF w
  <2>3. w.status = "error"
    BY <1>1, <1>4, <2>1 DEF Place
  <2>4. Told(w)
    BY <1>1, <1>4, <2>1, <2>3 DEF Told
  <2>5. Place(w)
    BY <1>1, <1>3, <1>4, <2>1, <2>3 DEF Place
  <2>6. Knows(w)
    BY <1>1, <1>4, <2>1, <2>3 DEF Knows
  <2> QED
    BY <2>1, <2>2, <2>4, <2>5, <2>6, Becoming DEF Fine
<1> QED
  BY <1>2, <1>5, <1>6 DEF q, p

(* GetCourse between two of its statements: every lesson that was there all *)
(* along is found or in a section to visit.                                 *)
Touring(q) ==
    /\ q.op = "course" /\ q.slug \in Slugs /\ q.status \in {"none", "error"}
    /\ q.status = "none" =>
         /\ q.docs = <<>> /\ q.course # Zero
         /\ \A p \in q.always : p[1] \in q.todo \/ p \in q.found
    /\ q.found \subseteq q.ever
    /\ q.always \subseteq Outline(q.course) /\ Outline(q.course) \subseteq q.ever
    /\ \A x \in q.todo : x \in drawn /\ sections[x] \in {q.course, Nil}

(* GetCourse goes on to its next section, or answers. *)
LEMMA Visiting ==
    ASSUME IInv, NEW r \in Requests, NEW q \in Request, Touring(q), Becomes(r, Visit(q))
    PROVE  IInv'
<1>1. CASE q.todo = {}
  <2> DEFINE w == Replied(Respond(q, "course", "ok"))
  <2>1. w \in Request /\ Fine(w)
    BY <1>1, Answering DEF Docs, Touring
  <2> HIDE DEF w
  <2>2. Becomes(r, w)
    BY <1>1 DEF w, Visit
  <2> QED
    BY <2>1, <2>2, Becoming
<1>2. CASE q.todo # {}
  <2> DEFINE w == [q EXCEPT !.pc = "lessons"]
  <2>1. /\ w \in Request /\ w.pc = "lessons"
        /\ w.op = q.op /\ w.user = q.user /\ w.slug = q.slug
        /\ w.course = q.course /\ w.todo = q.todo /\ w.found = q.found
        /\ w.answer = q.answer /\ w.truths = q.truths /\ w.renamed = q.renamed
        /\ w.ever = q.ever /\ w.always = q.always
        /\ w.status = q.status /\ w.docs = q.docs
    BY DEF Request
  <2>2. Becomes(r, w)
    BY <1>2 DEF Visit
  <2> HIDE DEF w
  <2>3. Told(w)
    BY <2>1 DEF Told, Touring
  <2>4. Place(w)
    BY <2>1 DEF Place, Touring
  <2>5. Knows(w)
    BY <2>1 DEF Knows, Touring
  <2> QED
    BY <2>1, <2>2, <2>3, <2>4, <2>5, Becoming DEF Fine
<1> QED
  BY <1>1, <1>2

(* GetCourse reads the sections of its course. *)
LEMMA ListSectionsStep ==
    ASSUME IInv, NEW r \in Requests, ListSections(r)
    PROVE  IInv'
<1> DEFINE q == req[r]
<1>1. q \in Request /\ Told(q) /\ Place(q) /\ Knows(q) /\ q.pc = "sections"
  BY Waiting DEF ListSections, Active
<1>2. \/ Becomes(r, Visit([q EXCEPT !.todo = GetCourseSections(q.course)]))
      \/ Becomes(r, Visit(JSONError(q)))
  BY DEF ListSections
<1> HIDE DEF q
<1>3. CASE Becomes(r, Visit([q EXCEPT !.todo = GetCourseSections(q.course)]))
  <2> DEFINE w == [q EXCEPT !.todo = GetCourseSections(q.course)]
  <2>1. GetCourseSections(q.course) \subseteq Sections
    BY DEF GetCourseSections
  <2>2. /\ w \in Request /\ w.todo = GetCourseSections(q.course)
        /\ w.op = q.op /\ w.slug = q.slug /\ w.course = q.course /\ w.found = q.found
        /\ w.ever = q.ever /\ w.always = q.always
        /\ w.status = q.status /\ w.docs = q.docs
    BY <1>1, <2>1 DEF Request
  <2> HIDE DEF w
  <2>3. \A p \in w.always : p[1] \in w.todo
    BY <1>1, <2>2 DEF Knows, Outline, OutlineIn, GetCourseSections
  <2>4. q.course # Nil
    BY <1>1, CoursesAssumption DEF CoursesAssumption, Request
  <2>5. \A x \in w.todo : x \in drawn /\ sections[x] \in {w.course, Nil}
    BY <2>2, <2>4 DEF GetCourseSections, IInv, Constraints
  <2>6. Touring(w)
    BY <1>1, <2>2, <2>3, <2>5 DEF Told, Place, Knows, Touring
  <2> QED
    BY <1>3, <2>2, <2>6, Visiting DEF w
<1>4. CASE Becomes(r, Visit(JSONError(q)))
  <2> DEFINE w == Respond(q, "error", "error")
  <2>1. /\ w \in Request
        /\ w.op = q.op /\ w.slug = q.slug /\ w.course = q.course /\ w.todo = q.todo
        /\ w.found = q.found /\ w.ever = q.ever /\ w.always = q.always
        /\ w.status = IF q.status = "none" THEN "error" ELSE q.status
    BY <1>1, Responding DEF Docs
  <2> HIDE DEF w
  <2>2. Touring(w)
    BY <1>1, <2>1 DEF Told, Place, Knows, Touring
  <2> QED
    BY <1>4, <2>1, <2>2, Visiting DEF w, JSONError
<1> QED
  BY <1>2, <1>3, <1>4

(* A section that is gone has no lessons; one that is there is the course's. *)
LEMMA ListLessonsStep ==
    ASSUME IInv, NEW r \in Requests, ListLessons(r)
    PROVE  IInv'
<1> DEFINE q == req[r]
           listed(x) == {x} \X GetSectionLessons(x)
           visited(x) == [q EXCEPT !.todo = @ \ {x}, !.found = @ \cup listed(x)]
<1>1. q \in Request /\ Told(q) /\ Place(q) /\ Knows(q) /\ q.pc = "lessons"
  BY Waiting DEF ListLessons, Active
<1>2. PICK x \in q.todo : \/ Becomes(r, Visit(visited(x)))
                          \/ Becomes(r, Replied(JSONError(q)))
  BY DEF ListLessons
<1> HIDE DEF q
<1>3. x \in Sections /\ x \in drawn /\ sections[x] \in {q.course, Nil}
  BY <1>1 DEF Request, Knows
<1>4. CASE Becomes(r, Visit(visited(x)))
  <2> DEFINE w == visited(x)
  <2>1. listed(x) \in Outlines
    BY <1>3 DEF GetSectionLessons, Outlines
  <2>2. listed(x) \subseteq Outline(q.course)
    <3>1. CASE sections[x] = q.course
      BY <1>3, <3>1 DEF GetSectionLessons, Outline, OutlineIn
    <3>2. CASE sections[x] = Nil
      <4>1. x # Nil
        BY <1>3, CoursesAssumption DEF CoursesAssumption
      <4>2. GetSectionLessons(x) = {}
        BY <3>2, <4>1 DEF GetSectionLessons, IInv, Constraints
      <4> QED
        BY <4>2
    <3> QED
      BY <1>3, <3>1, <3>2
  <2>3. \A p \in q.always : p[1] = x => p \in listed(x)
    BY <1>1 DEF Knows, Outline, OutlineIn, GetSectionLessons
  <2> HIDE DEF listed
  <2>4. /\ w \in Request /\ w.todo = q.todo \ {x} /\ w.found = q.found \cup listed(x)
        /\ w.op = q.op /\ w.slug = q.slug /\ w.course = q.course
        /\ w.ever = q.ever /\ w.always = q.always
        /\ w.status = q.status /\ w.docs = q.docs
    BY <1>1, <2>1 DEF Request, Outlines
  <2> HIDE DEF w
  <2>5. w.found \subseteq w.ever
    BY <1>1, <2>2, <2>4 DEF Told, Knows
  <2>6. Touring(w)
    BY <1>1, <2>3, <2>4, <2>5 DEF Told, Place, Knows, Touring
  <2> QED
    BY <1>4, <2>4, <2>6, Visiting DEF w
<1>5. CASE Becomes(r, Replied(JSONError(q)))
  <2> DEFINE w == Replied(Respond(q, "error", "error"))
  <2>1. w \in Request /\ Fine(w)
    BY <1>1, Answering DEF Docs, Told, Place
  <2> HIDE DEF w
  <2>2. Becomes(r, w)
    BY <1>5 DEF w, JSONError
  <2> QED
    BY <2>1, <2>2, Becoming
<1> QED
  BY <1>2, <1>4, <1>5

(* The course a slug stood for: still under it, or gone with its enrollments. *)
LEMMA CheckEnrolledStep ==
    ASSUME IInv, NEW r \in Requests, CheckEnrolled(r)
    PROVE  IInv'
<1> DEFINE q == req[r]
           a == IsStudentEnrolled(q.user, q.course)
<1>1. q \in Request /\ Told(q) /\ Place(q) /\ Knows(q) /\ q.pc = "check"
  BY Waiting DEF CheckEnrolled, Active
<1>2. \/ Becomes(r, Replied(Respond([q EXCEPT !.answer = a], "enrolled", "ok")))
      \/ Becomes(r, Replied(JSONError(q)))
  BY DEF CheckEnrolled
<1> HIDE DEF q
<1>3. CASE Becomes(r, Replied(Respond([q EXCEPT !.answer = a], "enrolled", "ok")))
  <2> DEFINE v == [q EXCEPT !.answer = a]
             w == Replied(Respond(v, "enrolled", "ok"))
  <2>1. a \in BOOLEAN
    BY DEF IsStudentEnrolled
  <2>2. q.status = "none" /\ ~q.renamed => a \in q.truths
    <3> SUFFICES ASSUME q.status = "none", ~q.renamed PROVE a \in q.truths
      OBVIOUS
    <3>1. /\ q.course \in CourseIds
          /\ courses[q.course] = q.slug \/ (courses[q.course] = Nil /\ FALSE \in q.truths)
      BY <1>1 DEF Knows
    <3>2. q.slug # Nil /\ EnrolledIn(courses, enrollments, q.user, q.slug) \in q.truths
      BY <1>1, CoursesAssumption DEF CoursesAssumption, Place, Knows
    <3>3. CASE courses[q.course] = q.slug
      <4>1. \A d \in CourseIds : courses[d] = q.slug => d = q.course
        BY <3>1, <3>2, <3>3 DEF IInv, Constraints, Stored
      <4>2. a <=> EnrolledIn(courses, enrollments, q.user, q.slug)
        BY <3>1, <3>3, <4>1 DEF EnrolledIn, IsStudentEnrolled
      <4>3. EnrolledIn(courses, enrollments, q.user, q.slug) \in BOOLEAN
        BY DEF EnrolledIn
      <4> HIDE DEF a
      <4> QED
        BY <2>1, <3>2, <4>2, <4>3
    <3>4. CASE courses[q.course] = Nil /\ FALSE \in q.truths
      <4>1. a = FALSE
        BY <3>4 DEF IsStudentEnrolled, IInv, Constraints, Stored
      <4> QED
        BY <3>4, <4>1
    <3> QED
      BY <3>1, <3>3, <3>4
  <2> HIDE DEF a
  <2>3. /\ v \in Request /\ v.answer = a
        /\ v.op = q.op /\ v.course = q.course /\ v.found = q.found
        /\ v.truths = q.truths /\ v.renamed = q.renamed
        /\ v.ever = q.ever /\ v.always = q.always
        /\ v.status = q.status /\ v.docs = q.docs
    BY <1>1, <2>1 DEF Request
  <2> HIDE DEF v
  <2>4. w \in Request /\ Fine(w)
    BY <1>1, <2>2, <2>3, Answering DEF Docs, Told, Place
  <2> HIDE DEF w
  <2>5. Becomes(r, w)
    BY <1>3 DEF w, v
  <2> QED
    BY <2>4, <2>5, Becoming
<1>4. CASE Becomes(r, Replied(JSONError(q)))
  <2> DEFINE w == Replied(Respond(q, "error", "error"))
  <2>1. w \in Request /\ Fine(w)
    BY <1>1, Answering DEF Docs, Told, Place
  <2> HIDE DEF w
  <2>2. Becomes(r, w)
    BY <1>4 DEF w, JSONError
  <2> QED
    BY <2>1, <2>2, Becoming
<1> QED
  BY <1>2, <1>3, <1>4 DEF q

(* The token's id is no user's: the foreign key refuses every row.          *)
LEMMA InsertEnrollmentStep ==
    ASSUME IInv, NEW r \in Requests, InsertEnrollment(r)
    PROVE  IInv' /\ UNCHANGED tables
<1> DEFINE q == req[r]
           w == Replied(Respond(q, "error", "error"))
<1>1. q \in Request /\ Told(q) /\ Place(q) /\ Knows(q) /\ q.pc = "insert"
  BY Waiting DEF InsertEnrollment, Active
<1>2. q.user = Jti
  BY <1>1 DEF Place
<1>3. ~CanEnroll(q.user, q.course)
  BY <1>2, CoursesAssumption DEF CoursesAssumption, CanEnroll
<1>4. req' = [req EXCEPT ![r] = w] /\ UNCHANGED tables
  BY <1>3 DEF InsertEnrollment, JSONError, tables
<1> HIDE DEF q
<1>5. w \in Request /\ Fine(w)
  BY <1>1, Answering DEF Docs, Told, Place
<1> HIDE DEF w
<1> QED
  BY <1>4, <1>5, OneRequest

(* Every statement of a handler keeps the invariant. *)
LEMMA HandleStep ==
    ASSUME IInv, NEW r \in Requests, Handle(r)
    PROVE  IInv'
<1>1. CASE Delivered(r)
  BY <1>1, IdleType, Becoming DEF Delivered
<1>2. CASE \E s \in Slugs :
            \/ SendGetCourse(r, s)
            \/ \E u \in Users \cup {Nil} : SendIsEnrolled(r, u, s) \/ SendEnroll(r, u, s)
  BY <1>2, SendStep
<1> QED
  BY <1>1, <1>2, GetAllStep, FindCourseStep, ListSectionsStep, ListLessonsStep,
     CheckEnrolledStep, InsertEnrollmentStep DEF Handle

(* Neither a page that is read nor a stuttering step touches what the       *)
(* invariant speaks of.                                                     *)
LEMMA NothingStep ==
    ASSUME IInv, UNCHANGED <<tables, req>>
    PROVE  IInv'
BY DEF IInv, Kinds, Constraints, Stored, Fine, Told, Knows, Outline, tables

(* Every step keeps the invariant. *)
LEMMA NextInv == IInv /\ [Next]_vars => IInv'
<1> SUFFICES ASSUME IInv, [Next]_vars PROVE IInv'
  OBVIOUS
<1>1. CASE Write
  BY <1>1, WriteStep
<1>2. CASE UNCHANGED vars
  BY <1>2, NothingStep DEF vars
<1>3. CASE \E r \in Requests : Handle(r)
  BY <1>3, HandleStep
<1> QED
  BY <1>1, <1>2, <1>3 DEF Next

-----------------------------------------------------------------------------
(* Theorems *)

(* The constraints of the schema hold, whatever rows are written and        *)
(* deleted in whatever order, and every request is at a place where what it *)
(* knows of the tables is still so.                                         *)
THEOREM CoursesInvariance == Spec => []IInv
BY InitInv, NextInv, PTL DEF Spec

(* Every variable keeps its type.                                           *)
THEOREM CoursesTypeCorrect == Spec => []TypeOK
<1>1. IInv => TypeOK
  BY DEF IInv, Kinds, TypeOK
<1> QED
  BY <1>1, CoursesInvariance, PTL

(* The answer of GetCourse, read in several statements, holds no lesson     *)
(* that was never the course's and misses none that always was.             *)
THEOREM RegularOutline == Spec => []OutlineIsRegular
<1>1. IInv => OutlineIsRegular
  BY DEF IInv, Fine, Told, OutlineIsRegular
<1> QED
  BY <1>1, CoursesInvariance, PTL

(* The answer of IsEnrolled held at some moment of the request, unless a    *)
(* course was renamed meanwhile.                                            *)
THEOREM LinearizableEnrollment == Spec => []EnrolledIsLinearizable
<1>1. IInv => EnrolledIsLinearizable
  BY DEF IInv, Fine, Told, EnrolledIsLinearizable
<1> QED
  BY <1>1, CoursesInvariance, PTL

(* Under a 200 there is one document, of a course that was found: an error  *)
(* that is answered and then ignored never ends as a success.               *)
THEOREM OneDocument == Spec => []OkIsOneDocument
<1>1. IInv => OkIsOneDocument
  BY DEF IInv, Fine, Told, OkIsOneDocument
<1> QED
  BY <1>1, CoursesInvariance, PTL

(* The handlers change no row: Enroll, which is written to add one, passes  *)
(* the id of a token as the id of a user, and the foreign key refuses it.   *)
THEOREM HandlersOnlyRead ==
    Spec => [][\A r \in Requests : Handle(r) => UNCHANGED tables]_vars
<1>1. IInv /\ [Next]_vars => [\A r \in Requests : Handle(r) => UNCHANGED tables]_vars
  <2> SUFFICES ASSUME IInv, NEW r \in Requests, Handle(r) PROVE UNCHANGED tables
    OBVIOUS
  <2>1. CASE InsertEnrollment(r)
    BY <2>1, InsertEnrollmentStep
  <2>2. CASE ~InsertEnrollment(r)
    BY <2>2 DEF Handle, GetAll, SendGetCourse, SendIsEnrolled, SendEnroll, FindCourse,
                ListSections, ListLessons, CheckEnrolled, Delivered, Becomes
  <2> QED
    BY <2>1, <2>2
<1> QED
  BY <1>1, CoursesInvariance, PTL DEF Spec
=============================================================================
