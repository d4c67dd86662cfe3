----------------------------- MODULE MCDurableJobs -----------------------------
(* Values of the constants of DurableJobs for model checking: a chain of two *)
(* registered jobs, the second requiring the success of the first, and one   *)
(* identity for a manual retry to draw.                                      *)
EXTENDS DurableJobs, TLC

CONSTANTS admit, extract, rerun

MCJobs      == {admit, extract, rerun}
MCEnqueued  == {admit, extract}
MCDependsOn == (admit :> {}) @@ (extract :> {admit})
================================================================================
