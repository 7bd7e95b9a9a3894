----------------------------- MODULE MCRosterSync -----------------------------
(***************************************************************************)
(* Model checking of RosterSync: credentials, writers, and properties that *)
(* do not hold, each with the cfg that shows it.                           *)
(***************************************************************************)
EXTENDS RosterSync

CONSTANTS c1, c2, g1, w1, w2

OneCred  == {c1}
TwoCreds == {c1, c2}
OneWriter  == {w1}
TwoWriters == {w1, w2}

\* What the old firmware left behind.
Legacy == {c1}
NoLegacy == {}

OneGroup == {g1}

(* admin.ts:800-801 "Safe to overlap with the timer.  The writes are idempotent
   merges and a duplicate roster-revision bump only makes doors re-fetch.": then
   a list that bears the backend's revision is the backend's, whatever overlaps. *)
OverlapIsHarmless ==
  ram.mark = "none" /\ ram.rev = rev => Current(ram)

\* OldOrNew without its exception: RosterSyncCut.cfg shows that it fails.
OldOrNewAlways == [][Boot /\ saved # {} => ram' \in saved]_vars

\* A list under the backend's revision, wherever it came from: RosterSyncBlank.cfg
\* shows that a read that failed at the backend makes it another.
NeverBlank == ram.mark # "local" /\ ram.rev = rev => Current(ram)

=============================================================================
