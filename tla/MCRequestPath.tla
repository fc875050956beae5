--------------------------- MODULE MCRequestPath ---------------------------
\* Small instances of RequestPath.
EXTENDS RequestPath

Write(rp, beats, full) == [rp |-> rp, beats |-> beats, full |-> full]

\* A message of write data never fits into a frame with a request.
McGranules ==
  [ReadReq |-> 1, WriteReq |-> 1, WriteData |-> 4, WriteDataFull |-> 1,
   WriteResp |-> 1, ReadData |-> 1, CrdtGrant |-> 1]

TwoWrites == <<Write(0, 3, {1, 3}), Write(1, 1, {})>>
NoReads   == <<>>

\* A receiver with room for one message of each cell that is sent to.
ForWrites == [c \in ReqCell |-> IF c[2] = "ReadReq" THEN 0 ELSE McGranules[c[2]]]

NoRx      == [WriteResp |-> 0, ReadData |-> 0]

\* A write in one plane and a read in the other.
OneWrite    == <<Write(0, 1, {})>>
OneRead     == <<1>>
OneRx       == [WriteResp |-> 0, ReadData |-> 1]
ForWriteAndRead ==
  [c \in ReqCell |-> IF (c[1] = 0) = (c[2] = "ReadReq") THEN 0 ELSE McGranules[c[2]]]
=============================================================================
