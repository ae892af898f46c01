------------------------------ MODULE Courses ------------------------------
(***************************************************************************)
(* The course tables of sql/schema.sql, the statements of the generated    *)
(* query layer that change them, and the handlers of CourseHandler.go that *)
(* read them in several statements, none of them in a transaction.         *)
(*                                                                         *)
(* Nothing in the program calls the statements that write yet: whoever     *)
(* edits courses issues them one at a time, beside the handlers.  Of a row *)
(* the module keeps its identity, its parent and its slug.  The columns no *)
(* property tells apart are left out (title, price, published, position):  *)
(* the rows a query orders by position come in any order.                  *)
(***************************************************************************)
EXTENDS Naturals, FiniteSets, Sequences

CONSTANTS
    Users,
    CourseIds, Sections, Lessons,  \* ids that may be drawn (bounds)
    Slugs,
    Requests,  \* slots for the requests being served
    Jti,       \* the id of an access token, a uuid that is no user's
    Zero,      \* uuid.UUID{}, no row's id
    Nil

ASSUME CoursesAssumption ==
    /\ Jti \notin Users
    /\ {Zero, Nil} \cap (CourseIds \cup Slugs \cup Sections \cup Users) = {}
    /\ Zero # Nil

VARIABLES
    courses,      \* the slug of each course, Nil while there is no row
    sections,     \* the course of each section
    lessons,      \* the section of each lesson
    enrollments,  \* course_enrollments: pairs of user and course
    drawn,        \* ids that gen_random_uuid has drawn, of deleted rows too
    req           \* the requests being served

tables == <<courses, sections, lessons, enrollments, drawn>>
vars   == <<tables, req>>

(* truths, ever, always and renamed are history: the true answers to the    *)
(* question asked and the outlines of the course while it was served.       *)
Idle == [op |-> "none", pc |-> "idle", user |-> Nil, slug |-> Nil,
         course |-> Zero, todo |-> {}, found |-> {}, answer |-> FALSE,
         docs |-> <<>>, status |-> "none",
         truths |-> {}, renamed |-> FALSE, ever |-> {}, always |-> {}]

Outlines == SUBSET (Sections \X Lessons)

Request ==
    [op: {"none", "all", "course", "enrolled", "enroll"},
     pc: {"idle", "find", "sections", "lessons", "check", "insert", "replied"},
     user: Users \cup {Jti, Nil}, slug: Slugs \cup {Nil},
     course: CourseIds \cup {Zero}, todo: SUBSET Sections, found: Outlines,
     answer: BOOLEAN,
     docs: Seq({"error", "list", "course", "enrolled", "message"}),
     status: {"none", "ok", "error", "unauthorized"},
     truths: SUBSET BOOLEAN, renamed: BOOLEAN,
     ever: Outlines, always: Outlines]

TypeOK ==
    /\ courses \in [CourseIds -> Slugs \cup {Nil}]
    /\ sections \in [Sections -> CourseIds \cup {Nil}]
    /\ lessons \in [Lessons -> Sections \cup {Nil}]
    /\ enrollments \subseteq Users \X CourseIds
    /\ drawn \subseteq CourseIds \cup Sections \cup Lessons
    /\ req \in [Requests -> Request]

Init ==
    /\ courses = [c \in CourseIds |-> Nil]
    /\ sections = [x \in Sections |-> Nil]
    /\ lessons = [l \in Lessons |-> Nil]
    /\ enrollments = {}
    /\ drawn = {}
    /\ req = [r \in Requests |-> Idle]

-----------------------------------------------------------------------------
(* Queries *)

Stored == {c \in CourseIds : courses[c] # Nil}

CourseIDBySlug(s) == {c \in Stored : courses[c] = s}  \* at most one: UNIQUE

EverySection(c) == {x \in Sections : sections[x] # Nil}  \* mutant: no WHERE

GetCourseSections(c) == {x \in Sections : sections[x] = c}

GetSectionLessons(x) == {l \in Lessons : lessons[l] = x}

IsStudentEnrolledAnywhere(u, c) ==  \* mutant: forgets the course
    \E d \in CourseIds : <<u, d>> \in enrollments

IsStudentEnrolled(u, c) == <<u, c>> \in enrollments

(* History: the lessons of a course, each with its section, at one moment.  *)
OutlineIn(secs, less, c) ==
    {p \in Sections \X Lessons : secs[p[1]] = c /\ less[p[2]] = p[1]}

Outline(c) == OutlineIn(sections, lessons, c)

(* The question IsEnrolled is asked, with the slug in place of the id. *)
EnrolledIn(slugs, rows, u, s) == \E c \in CourseIds : slugs[c] = s /\ <<u, c>> \in rows

-----------------------------------------------------------------------------
(* Statements that write.  One that breaks a constraint changes nothing and *)
(* is left out; the history of the requests follows the tables.             *)

Watch(renaming) ==
    req' = [r \in Requests |->
              LET q == req[r] IN
              IF q.pc \in {"idle", "replied"} THEN q
              ELSE [q EXCEPT
                     !.truths = @ \cup {EnrolledIn(courses', enrollments', q.user, q.slug)},
                     !.renamed = @ \/ (renaming /\ q.op = "enrolled"),
                     !.ever = @ \cup OutlineIn(sections', lessons', q.course),
                     !.always = @ \cap OutlineIn(sections', lessons', q.course)]]

SlugFree(s, c) == \A d \in CourseIds \ {c} : courses[d] # s

CreateCourse(c, s) ==
    /\ c \notin drawn
    /\ SlugFree(s, c)
    /\ courses' = [courses EXCEPT ![c] = s]
    /\ drawn' = drawn \cup {c}
    /\ UNCHANGED <<sections, lessons, enrollments>>
    /\ Watch(FALSE)

UpdateCourse(c, s) ==
    /\ c \in Stored
    /\ SlugFree(s, c)
    /\ courses[c] # s
    /\ courses' = [courses EXCEPT ![c] = s]
    /\ UNCHANGED <<sections, lessons, enrollments, drawn>>
    /\ Watch(TRUE)

(* ON DELETE CASCADE, through sections, lessons and course_enrollments. *)
DeleteCourse(c) ==
    /\ c \in Stored
    /\ courses' = [courses EXCEPT ![c] = Nil]
    /\ sections' = [x \in Sections |-> IF sections[x] = c THEN Nil
                                                          ELSE sections[x]]
    /\ lessons' = [l \in Lessons |->
                     IF lessons[l] \in GetCourseSections(c) THEN Nil
                                                            ELSE lessons[l]]
    /\ enrollments' = {e \in enrollments : e[2] # c}
    /\ UNCHANGED <<drawn>>
    /\ Watch(FALSE)

CreateSection(x, c) ==
    /\ x \notin drawn
    /\ c \in Stored
    /\ sections' = [sections EXCEPT ![x] = c]
    /\ drawn' = drawn \cup {x}
    /\ UNCHANGED <<courses, lessons, enrollments>>
    /\ Watch(FALSE)

DeleteSection(x) ==
    /\ sections[x] # Nil
    /\ sections' = [sections EXCEPT ![x] = Nil]
    /\ lessons' = [l \in Lessons |-> IF lessons[l] = x THEN Nil ELSE lessons[l]]
    /\ UNCHANGED <<courses, enrollments, drawn>>
    /\ Watch(FALSE)

CreateLesson(l, x) ==
    /\ l \notin drawn
    /\ sections[x] # Nil
    /\ lessons' = [lessons EXCEPT ![l] = x]
    /\ drawn' = drawn \cup {l}
    /\ UNCHANGED <<courses, sections, enrollments>>
    /\ Watch(FALSE)

DeleteLesson(l) ==
    /\ lessons[l] # Nil
    /\ lessons' = [lessons EXCEPT ![l] = Nil]
    /\ UNCHANGED <<courses, sections, enrollments, drawn>>
    /\ Watch(FALSE)

Unreferenced(u, c) == c \in Stored  \* mutant: user_id without REFERENCES

(* The foreign keys and UNIQUE (user_id, course_id). *)
CanEnroll(u, c) == u \in Users /\ c \in Stored /\ ~IsStudentEnrolled(u, c)

EnrollStudent(u, c) ==
    /\ CanEnroll(u, c)
    /\ enrollments' = enrollments \cup {<<u, c>>}
    /\ UNCHANGED <<courses, sections, lessons, drawn>>
    /\ Watch(FALSE)

UnenrollStudent(u, c) ==
    /\ IsStudentEnrolled(u, c)
    /\ enrollments' = enrollments \ {<<u, c>>}
    /\ UNCHANGED <<courses, sections, lessons, drawn>>
    /\ Watch(FALSE)

Write ==
    \/ \E c \in CourseIds :
        \/ \E s \in Slugs : CreateCourse(c, s) \/ UpdateCourse(c, s)
        \/ DeleteCourse(c)
        \/ \E x \in Sections : CreateSection(x, c)
        \/ \E u \in Users : EnrollStudent(u, c) \/ UnenrollStudent(u, c)
    \/ \E x \in Sections :
        \/ DeleteSection(x)
        \/ \E l \in Lessons : CreateLesson(l, x)
    \/ \E l \in Lessons : DeleteLesson(l)

-----------------------------------------------------------------------------
(* Handlers *)

Becomes(r, q) ==
    /\ req' = [req EXCEPT ![r] = q]
    /\ UNCHANGED tables

LastStatus(q, doc, status) ==  \* mutant: the last WriteHeader counts
    [q EXCEPT !.docs = Append(@, doc), !.status = status]

(* WriteHeader counts the first time only; a body is appended every time. *)
Respond(q, doc, status) ==
    [q EXCEPT !.docs = Append(@, doc),
              !.status = IF @ = "none" THEN status ELSE @]

JSONError(q) == Respond(q, "error", "error")

Replied(q) == [q EXCEPT !.pc = "replied"]

(* GetAll and GetPaginatedOrderByTitle: one statement. *)
GetAll(r) ==
    /\ req[r].pc = "idle"
    /\ \/ Becomes(r, Replied(Respond([Idle EXCEPT !.op = "all"], "list", "ok")))
       \/ Becomes(r, Replied(JSONError([Idle EXCEPT !.op = "all"])))

SendGetCourse(r, s) ==
    /\ req[r].pc = "idle"
    /\ Becomes(r, [Idle EXCEPT !.op = "course", !.pc = "find", !.slug = s])

(* claimsFromCookie: u is the user_id of a valid access token.  Any other   *)
(* cookie gives an error, or claims whose empty user_id uuid.Parse refuses. *)
SendIsEnrolled(r, u, s) ==
    /\ req[r].pc = "idle"
    /\ LET q == [Idle EXCEPT !.op = "enrolled", !.user = u, !.slug = s] IN
       IF u = Nil THEN Becomes(r, Replied(Respond(q, "error", "unauthorized")))
       ELSE Becomes(r, [q EXCEPT !.pc = "find", 
                           !.truths = {EnrolledIn(courses, enrollments, u, s)}])

(* Enroll is not routed.  It parses claims.ID, the token's id. *)
SendEnroll(r, u, s) ==
    /\ req[r].pc = "idle"
    /\ LET q == [Idle EXCEPT !.op = "enroll", !.slug = s] IN
       IF u = Nil THEN Becomes(r, Replied(Respond(q, "error", "unauthorized")))
       ELSE Becomes(r, [q EXCEPT !.pc = "find", !.user = Jti])

AfterFind(op) == CASE op = "course"   -> "sections"
                   [] op = "enrolled" -> "check"
                   [] op = "enroll"   -> "insert"

(* GetCourseBySlug or GetCourseIDBySlug.  After an error the three handlers *)
(* answer 500 and go on with a zero id.                                     *)
FindCourse(r) ==
    LET q == [req[r] EXCEPT !.pc = AfterFind(req[r].op)] IN
    /\ req[r].pc = "find"
    /\ \/ \E c \in CourseIDBySlug(q.slug) :
            Becomes(r, [q EXCEPT !.course = c, !.ever = Outline(c),
                                 !.always = Outline(c)])
       \/ Becomes(r, JSONError(q))

(* GetCourse visits the sections in turn and then writes its answer. *)
Visit(q) == IF q.todo = {} THEN Replied(Respond(q, "course", "ok"))
            ELSE [q EXCEPT !.pc = "lessons"]

ListSections(r) ==
    LET q == req[r] IN
    /\ q.pc = "sections"
    /\ \/ Becomes(r, Visit([q EXCEPT !.todo = GetCourseSections(q.course)]))
       \/ Becomes(r, Visit(JSONError(q)))

ListLessons(r) ==
    LET q == req[r] IN
    /\ q.pc = "lessons"
    /\ \E x \in q.todo :
        \/ Becomes(r, Visit([q EXCEPT !.todo = @ \ {x},
                                      !.found = @ \cup ({x} \X GetSectionLessons(x))]))
        \/ Becomes(r, Replied(JSONError(q)))

CheckEnrolled(r) ==
    LET q == req[r] IN
    /\ q.pc = "check"
    /\ \/ Becomes(r, Replied(Respond(
              [q EXCEPT !.answer = IsStudentEnrolled(q.user, q.course)],
              "enrolled", "ok")))
       \/ Becomes(r, Replied(JSONError(q)))

(* EnrollStudent, with the errors of its constraints. *)
InsertEnrollment(r) ==
    LET q == req[r]
        row == IF CanEnroll(q.user, q.course) THEN {<<q.user, q.course>>} ELSE {}
    IN  /\ q.pc = "insert"
        /\ enrollments' = enrollments \cup row
        /\ req' = [req EXCEPT ![r] =
                     Replied(IF row = {} THEN JSONError(q)
                             ELSE Respond(q, "message", "ok"))]
        /\ UNCHANGED <<courses, sections, lessons, drawn>>

Delivered(r) ==
    /\ req[r].pc = "replied"
    /\ Becomes(r, Idle)

Handle(r) ==
    \/ GetAll(r)
    \/ \E s \in Slugs :
        \/ SendGetCourse(r, s)
        \/ \E u \in Users \cup {Nil} : SendIsEnrolled(r, u, s) \/ SendEnroll(r, u, s)
    \/ FindCourse(r) \/ ListSections(r) \/ ListLessons(r)
    \/ CheckEnrolled(r) \/ InsertEnrollment(r) \/ Delivered(r)

Next == Write \/ \E r \in Requests : Handle(r)

Spec == Init /\ [][Next]_vars

-----------------------------------------------------------------------------
(* Properties *)

(* GetCourse reads a course in several statements while rows come and go.   *)
(* Its answer is no snapshot, but a lesson in it was a lesson of the course  *)
(* at some moment of the request, under the section it is listed in, and a   *)
(* 200 misses no lesson that was there all along (CourseHandler.go:78).      *)
OutlineIsRegular ==
    \A r \in Requests :
        LET q == req[r] IN
        /\ q.found \subseteq q.ever
        /\ q.op = "course" /\ q.status = "ok" => q.always \subseteq q.found

(* IsEnrolled resolves the slug and asks about the id in two statements: its *)
(* 200 gives the answer that held at some moment of the request, unless a    *)
(* course was renamed meanwhile (CourseHandler.go:149).                      *)
EnrolledIsLinearizable ==
    \A r \in Requests :
        LET q == req[r] IN
        q.op = "enrolled" /\ q.status = "ok" /\ ~q.renamed => q.answer \in q.truths

(* A handler that answers an error and goes on writes a second document     *)
(* (CourseHandler.go:82, :87, :150, :181): under a 200 there is only one, of *)
(* a course that was found.                                                 *)
OkIsOneDocument ==
    \A r \in Requests :
        LET q == req[r] IN
        q.status = "ok" => /\ Len(q.docs) = 1
                           /\ q.op \in {"course", "enrolled"} => q.course # Zero
=============================================================================
