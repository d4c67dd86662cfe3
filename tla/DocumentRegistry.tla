---------------------------- MODULE DocumentRegistry ----------------------------
(***************************************************************************)
(* What intake promises of the document registry: batches take effect one  *)
(* after the other, each as a whole and at most once. A batch adds to every *)
(* document the contents it carries that the document does not have yet,   *)
(* as new versions behind the existing ones, and nothing is added while    *)
(* the workspace is closed for writes.                                     *)
(***************************************************************************)
EXTENDS Naturals, Sequences

CONSTANTS
  Paths,    \* documents, by the relative path that identifies them
  Manifests \* client manifests: the uploads and the number of rejected files

VARIABLES
  versions,  \* the contents of the versions of each document, in order
  manifests, \* manifests registered
  fenced     \* the lifecycle state of the workspace closes it for writes

Contents(s)   == {s[i] : i \in DOMAIN s}
Distinct(s)   == \A i, j \in DOMAIN s : s[i] = s[j] => i = j
Carried(m, p) == {u.digest : u \in {v \in Contents(m.uploads) : v.path = p}}

Extends(s, t) ==
  /\ Len(s) <= Len(t)
  /\ \A i \in DOMAIN s : t[i] = s[i]

Register(m) ==
  /\ m \notin manifests
  /\ manifests' = manifests \cup {m}
  /\ fenced' = fenced
  /\ \A p \in Paths : /\ Extends(versions[p], versions'[p])
                      /\ Distinct(versions'[p])
                      /\ Contents(versions'[p]) = Contents(versions[p]) \cup Carried(m, p)
  /\ fenced => versions' = versions

MoveFence == fenced' = ~fenced /\ UNCHANGED <<versions, manifests>>

Init ==
  /\ versions = [p \in Paths |-> <<>>]
  /\ manifests = {}
  /\ fenced = FALSE

Next == MoveFence \/ \E m \in Manifests : Register(m)

Spec == Init /\ [][Next]_<<versions, manifests, fenced>>
================================================================================
