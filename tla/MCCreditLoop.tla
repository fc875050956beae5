---------------------------- MODULE MCCreditLoop ----------------------------
EXTENDS CreditLoop

\* Every plane and kind has the same capacity, as in AouTarget::capacity.
CONSTANT CapacityPerCell
MCCapacity == [c \in Cell |-> CapacityPerCell]
=============================================================================
