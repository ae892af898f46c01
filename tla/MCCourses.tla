----------------------------- MODULE MCCourses -----------------------------
(* Courses for TLC: model values, and the symmetries that preserve it. *)
EXTENDS Courses, TLC

Symmetry == Permutations(CourseIds) \cup Permutations(Sections)
                \cup Permutations(Lessons) \cup Permutations(Slugs)
=============================================================================
