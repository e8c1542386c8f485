------------------------- MODULE BlogPostScheduleMC -------------------------
(* Small instances of BlogPostSchedule. *)
EXTENDS BlogPostSchedule, TLC

Symmetric == Permutations(Schedules) \cup Permutations(Workers)
=============================================================================
