--------------------------- MODULE MCLegacySweep ---------------------------
(* Two instances for TLC in one run.  Ticks that overlap, on one invoice,     *)
(* with any fault; and ticks one at a time, the first of Ticks, on two        *)
(* invoices, whose money and ids anybody may mix up, with reorganisations.    *)
EXTENDS LegacySweep

CONSTANTS i1, i2, t1, t2

VARIABLE overlapping

MCInit ==
    /\ LegacyInit /\ overlapping \in BOOLEAN
    /\ IF overlapping THEN height = 0 /\ i2 \notin exact ELSE height = 1 /\ exact = {i1}

Overlapping == i2 \notin cached' /\ deposits'[i2] = 0 /\ payment'[i2] = Unpaid

OneByOne ==
    /\ UNCHANGED tick[t2] /\ deposits'[i1] <= 1
    /\ faults' = faults \/ height' < height

MCNext ==
    /\ LegacyNext /\ UNCHANGED overlapping
    /\ IF overlapping THEN Overlapping ELSE OneByOne

MCFairness ==
    /\ WF_legacyVars(NewBlock /\ UNCHANGED exact)
    /\ \A t \in Ticks : WF_legacyVars((overlapping \/ t = t1) /\ Step(t) /\ UNCHANGED exact)

MCSpec == MCInit /\ [][MCNext]_<<legacyVars, overlapping>> /\ MCFairness
=============================================================================
