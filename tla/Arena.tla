------------------------------- MODULE Arena -------------------------------
(***************************************************************************)
(* What the memory cache promises its callers, without addresses, block    *)
(* tables or counters: every object belongs to exactly one region from its *)
(* creation to its release, identities are never used twice, and objects   *)
(* leave a region one at a time or with the whole region.                  *)
(***************************************************************************)
CONSTANTS Region, Object

VARIABLES
  live,   \* live[r] is the set of objects that region r owns
  used    \* every object created so far

vars == <<live, used>>

TypeOK ==
  /\ live \in [Region -> SUBSET Object]
  /\ used \in SUBSET Object

Init ==
  /\ live = [r \in Region |-> {}]
  /\ used = {}

Create(r, o) ==
  /\ o \notin used
  /\ live' = [live EXCEPT ![r] = @ \cup {o}]
  /\ used' = used \cup {o}

Release(r, o) ==
  /\ o \in live[r]
  /\ live' = [live EXCEPT ![r] = @ \ {o}]
  /\ UNCHANGED used

ReleaseRegion(r) ==
  /\ live' = [live EXCEPT ![r] = {}]
  /\ UNCHANGED used

Next ==
  \E r \in Region :
    \/ \E o \in Object : Create(r, o) \/ Release(r, o)
    \/ ReleaseRegion(r)

Spec == Init /\ [][Next]_vars
=============================================================================
