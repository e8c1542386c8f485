----------------------------- MODULE AuthoringMC -----------------------------
(***************************************************************************)
(* Instances of two services an author works with, for TLC: the schedules  *)
(* of a post and the media library.  They share no state, so that a        *)
(* behaviour is one of theirs: service says whose.  That lets an instance  *)
(* use the same values for the calls of both, and for schedules and keys,  *)
(* and one symmetry for both.                                              *)
(***************************************************************************)
EXTENDS BlogPostSchedule, MediaAssets, TLC

VARIABLE service

authoringVars == <<service, vars, mediaVars>>

\* Schedules and keys, calls of the scheduler and attempts are interchangeable.
Symmetric == Permutations(Schedules) \cup Permutations(Workers)

AuthoringInit ==
    /\ service \in {"blog", "media"}
    /\ ScheduleInit /\ MediaInit
    /\ service = "blog" => asset = [a \in Assets |-> NoAsset]

AuthoringNext ==
    /\ UNCHANGED service
    /\ \/ service = "blog" /\ ScheduleNext /\ UNCHANGED mediaVars
       \/ service = "media" /\ MediaNext /\ UNCHANGED vars

AuthoringSpec == AuthoringInit /\ [][AuthoringNext]_authoringVars
===============================================================================
