-------------------------- MODULE MCIntakeRegistration --------------------------
(* Batches for model checking IntakeRegistration: r1 and r2 register the same *)
(* two documents in opposite orders, one of them with the same content; r3    *)
(* repeats r1, as a client does that has seen no answer; the archive of r4    *)
(* breaks off.                                                                *)
EXTENDS IntakeRegistration

CONSTANTS r1, r2, r3, r4, report, drawing, x, y

Good(uploads, rejected) ==
  [uploads |-> uploads, rejected |-> rejected, damaged |-> FALSE, members |-> 0]

Damaged(members) ==
  [uploads |-> <<>>, rejected |-> 0, damaged |-> TRUE, members |-> members]

File(p, d) == [path |-> p, digest |-> d]

MCBatch ==
  [r \in Requests |-> CASE r = r2 -> Good(<<File(drawing, x), File(report, x)>>, 0)
                        [] r = r4 -> Damaged(1)
                        [] OTHER  -> Good(<<File(report, x), File(drawing, y)>>, 0)]
================================================================================
