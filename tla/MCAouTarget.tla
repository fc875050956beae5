---------------------------- MODULE MCAouTarget ----------------------------
EXTENDS AouTarget

Burst(id, beats) == [id |-> id, beats |-> beats]

\* Two writes of one ID, the first a burst, and one of another; a read burst.
OnePlaneWrites == [rp \in {0} |-> <<Burst(1, 2), Burst(1, 1), Burst(2, 1)>>]
OnePlaneReads  == [rp \in {0} |-> <<Burst(1, 2)>>]

\* A write in one plane, reads in both.
TwoPlaneWrites == [rp \in {0, 1} |-> IF rp = 0 THEN <<Burst(1, 1)>> ELSE <<>>]
TwoPlaneReads  == [rp \in {0, 1} |-> <<Burst(1, 1)>>]

\* Sizes in proportion: a response of two granules in frames of three.
SmallGranules == [kind \in ReqKind \cup RspKind |->
                    IF kind = "ReadData" THEN 2 ELSE 1]
SmallPeer == [kind \in RspKind |-> IF kind = "ReadData" THEN 4 ELSE 1]
=============================================================================
