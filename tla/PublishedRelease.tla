-------------------------- MODULE PublishedRelease --------------------------
(***************************************************************************)
(* What publishing a release promises to its readers: what they can see    *)
(* under a tag is nothing or the whole build, and a job that says it has   *)
(* published has.  How the build gets there, in how many calls and runs,   *)
(* does not show.                                                          *)
(***************************************************************************)
VARIABLES
    visible,    \* what a reader finds under the tag: "nothing" or "whole"
    reported    \* the job of the latest run has reported success

vars == <<visible, reported>>

TypeOK == visible \in {"nothing", "whole"} /\ reported \in BOOLEAN

Init == visible = "nothing" /\ reported = FALSE

Publish == visible = "nothing" /\ visible' = "whole" /\ UNCHANGED reported

\* A later run of the job takes the release back before it checks it again.
Withdraw == visible = "whole" /\ ~reported /\ visible' = "nothing" /\ UNCHANGED reported

Succeed == visible = "whole" /\ reported' = TRUE /\ UNCHANGED visible

StartOver == reported /\ reported' = FALSE /\ UNCHANGED visible

Next == Publish \/ Withdraw \/ Succeed \/ StartOver

Spec == Init /\ [][Next]_vars
=============================================================================
