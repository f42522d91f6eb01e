----------------------------- MODULE MCTrackers -----------------------------
EXTENDS Trackers
CONSTANTS k1
MCDays == 1..2
MCPlans == {[limit |-> 1, shown |-> MCDays], [limit |-> 2, shown |-> {2}]}
MCTrackers1 == {k1}
MCButtons == {b \in AllButtons : b.day # 2}
=============================================================================
