----------------------- MODULE MCRepositoryLifecycle -----------------------
(***************************************************************************)
(* Small instances of RepositoryLifecycle: two processes; no repository at *)
(* all, or one course with two sources whose files have been edited.       *)
(***************************************************************************)
EXTENDS RepositoryLifecycle

MCCourseOrder == <<"c1", "c2">>
MCSourceOrder == <<"s1", "s2">>
MCManifest == [c \in {"c1"} |-> {"s1", "s2"}]

Files(a, b) == [d \in Desired |-> IF d[2] = "s1" THEN a ELSE b]
CourseEvent == [kind |-> "course", profile |-> DesiredProfile, by |-> None]
SourceEvent(s, t) == [kind |-> "source", source |-> s, text |-> t, by |-> None]
Populated == [c \in Courses |-> IF c = "c1"
    THEN <<CourseEvent, SourceEvent("s1", "old"), SourceEvent("s2", "old")>> ELSE <<>>]

Start(kind, f, inits, plans, edits, others, faults, crashes) ==
    [kind |-> kind, files |-> f, streams |-> IF kind = "absent" THEN NoCourses ELSE Populated,
     inits |-> inits, plans |-> plans, edits |-> edits, others |-> others,
     faults |-> faults, crashes |-> crashes]

MCStarts ==
    {Start("absent", Files("old", "old"), 2, 0, 0, 0, 1, 1),
     Start("absent", Files("old", "old"), 1, 1, 0, 0, 1, 1),
     Start("absent", Files("old", "old"), 0, 1, 0, 0, 0, 1),
     Start("ready", Files("new", "old"), 0, 1, 1, 1, 0, 0),
     Start("ready", Files("new", "new"), 0, 1, 0, 1, 1, 1),
     Start("ready", Files("new", "new"), 0, 2, 0, 0, 0, 0)}
=============================================================================
