-------------------------- MODULE MCGuidanceMemory --------------------------
(* Values for TLC: two candidates on one page of two.  The first is read and may *)
(* be refuted and corrected, the second is illegible and has to be recovered;    *)
(* their successors clash.                                                       *)
EXTENDS GuidanceMemory, TLC

CONSTANTS a, b, p, q

MCPageOf  == (a :> p) @@ (b :> p)
MCClashes == {{Second(a), Second(b)}}
MCAnswers == (First(a) :> {"supported", "refuted"}) @@ (Second(a) :> {"supported"})
             @@ (First(b) :> {"model_failed"}) @@ (Second(b) :> {"supported", "model_failed"})
=============================================================================
