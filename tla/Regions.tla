------------------------------- MODULE Regions -------------------------------
(***************************************************************************)
(* What a heap promises: the regions handed out lie in its memory, overlap *)
(* nowhere, and each is at least as long as the call that made it asked    *)
(* for; no call touches the region of another.                             *)
(***************************************************************************)
EXTENDS Naturals

CONSTANT Memory  \* the number of units

VARIABLE regions \* the regions handed out: [from, to)

Region == [from : 0 .. Memory, to : 0 .. Memory]

Disjoint(r, others) == \A s \in others : r.to <= s.from \/ s.to <= r.from

Init == regions = {}

Allocate(n) ==
  \E r \in Region :
    /\ r.from + n <= r.to /\ Disjoint(r, regions)
    /\ regions' = regions \cup {r}

Release(r) == regions' = regions \ {r}

(* A region is cut, grows in its place, or moves to memory that was free.   *)
Resize(r, n) ==
  \E s \in Region :
    /\ s.from + n <= s.to
    /\ Disjoint(s, IF s.from = r.from THEN regions \ {r} ELSE regions)
    /\ regions' = (regions \ {r}) \cup {s}

Next ==
  \/ \E n \in 1 .. Memory : Allocate(n)
  \/ \E r \in regions : Release(r) \/ \E n \in 1 .. Memory : Resize(r, n)

Spec == Init /\ [][Next]_regions
=============================================================================
