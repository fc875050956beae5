--------------------------- MODULE RequestHistory ---------------------------
(***************************************************************************)
(* RequestPath with a record of what its states do not show: how often the *)
(* packer passes over a message.                                           *)
(***************************************************************************)
EXTENDS RequestPath

VARIABLE passed   \* how often a cell stood back for another plane of its kind

\* The packer takes a message; another that it could have taken stands back.
Passed(before, choice) ==
  [c \in ReqCell |->
     IF c = choice.taken \/ c \notin choice.eligible THEN 0
     ELSE IF c[2] = choice.taken[2] THEN before[c] + 1 ELSE before[c]]

HistoryInit == Init /\ passed = Nothing

RecordedEdge == Edge /\ passed' = FoldLeft(Passed, passed, Packed.log)

HistoryNext == RecordedEdge \/ (Surroundings /\ UNCHANGED passed)

HistorySpec == HistoryInit /\ [][HistoryNext]_<<vars, passed>>

-----------------------------------------------------------------------------
\* The comment at flit_packer.cpp:187 says that within each kind the planes take
\* turns: a message with credit stands back for each other plane at most once.
RotatesWithinKind == \A c \in ReqCell : passed[c] <= RpCount - 1
=============================================================================
