--------------------------- MODULE MCResponsePath ---------------------------
\* Small instances of ResponsePath.
EXTENDS ResponsePath

Request(id, rp, beats) == [id |-> id, rp |-> rp, beats |-> beats]

\* The last read has the ID of the first but another plane.
McRequests ==
  [WriteResp |-> <<Request(1, 0, 1), Request(1, 1, 1)>>,
   ReadData  |-> <<Request(1, 0, 2), Request(2, 1, 1), Request(1, 1, 1)>>]

\* Two messages of read data share three frames.
McGranules == [WriteResp |-> 1, ReadData |-> 2]
McDepth    == [WriteResp |-> 1, ReadData |-> 1]
=============================================================================
