-------------------------- MODULE MCRequestHistory --------------------------
\* Small instances of RequestHistory.
EXTENDS RequestHistory, MCRequestPath

ThreeWrites == <<Write(0, 1, {1}), Write(1, 1, {1}), Write(0, 1, {1})>>
ForRequests == [c \in ReqCell |-> IF c[2] = "WriteData" THEN 0 ELSE 4]
=============================================================================
