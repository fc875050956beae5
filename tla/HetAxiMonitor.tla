--------------------------- MODULE HetAxiMonitor ---------------------------
(***************************************************************************)
(* The tap between the system bus and the memories of the gem5 system.  It *)
(* passes every call through and writes, for each source, a trace of AXI   *)
(* events: the beginning of an access when the memory accepts it, the end  *)
(* when the response is taken.  An atomic access returns at once with a    *)
(* delay, so its end lies in the future: it is kept back and written when  *)
(* its time has come, before the next event of its source.  Modelled with  *)
(* unique_packet_ids, where each access in flight gets an ID of its own.   *)
(*                                                                         *)
(* Ticks are relative to the present; one that is more than MaxAge ticks   *)
(* old counts as MaxAge ticks old.                                         *)
(***************************************************************************)
EXTENDS Integers, Sequences, FiniteSets, SequencesExt

CONSTANTS
  Source,     \* Host, Vortex, CoralNpu
  IdCount,    \* 2^axi_id_bits synthetic IDs for each source
  MaxAge

ASSUME MonitorAssumption == IdCount \in Nat \ {0} /\ MaxAge \in Nat

VARIABLES
  liveIds, nextIds,
  senderState,      \* requests in the memory: packet |-> [source, allocatedId]
  pendingAtomic,    \* ends kept back, in order of time: [tick, allocatedId]
  lastTick,         \* tick of the last record written
  nonMonotonic      \* a record was written behind a later one

monVars == <<liveIds, nextIds, senderState, pendingAtomic, lastTick, nonMonotonic>>

MonInit ==
  /\ liveIds = [s \in Source |-> {}] /\ nextIds = [s \in Source |-> 0]
  /\ senderState = <<>>
  /\ pendingAtomic = [s \in Source |-> <<>>]
  /\ lastTick = [s \in Source |-> -MaxAge]
  /\ nonMonotonic = [s \in Source |-> FALSE]

-----------------------------------------------------------------------------
\* Records of source s with these ticks, one after the other.
Write(s, ticks) ==
  /\ lastTick' = [lastTick EXCEPT ![s] = IF ticks = <<>> THEN @ ELSE Last(ticks)]
  /\ nonMonotonic' = [nonMonotonic EXCEPT ![s] =
       \/ @
       \/ \E i \in DOMAIN ticks :
            ticks[i] < IF i = 1 THEN lastTick[s] ELSE ticks[i - 1]]

\* Mutant: an end is written with the next event, its time come or not.
ThroughAll(completions, tick) == Len(completions)

\* How many of the ends kept back, from the earliest on, lie at or before tick.
Through(completions, tick) ==
  CHOOSE n \in 0 .. Len(completions) :
    /\ \A i \in 1 .. n : completions[i].tick <= tick
    /\ n < Len(completions) => completions[n + 1].tick > tick

\* The ends kept back whose time has come, and the IDs they free.
DueCount(s) == Through(pendingAtomic[s], 0)
Due(s)      == SubSeq(pendingAtomic[s], 1, DueCount(s))
Later(s)    == SubSeq(pendingAtomic[s], DueCount(s) + 1, Len(pendingAtomic[s]))
Ticks(completions)  == [i \in DOMAIN completions |-> completions[i].tick]
IdsOf(completions)  == {completions[i].allocatedId : i \in DOMAIN completions}

\* The first free ID from nextIds on.
Distance(s, id) == (id + IdCount - nextIds[s]) % IdCount
FreeId(s, live) == CHOOSE id \in 0 .. IdCount - 1 \ live :
                     \A other \in 0 .. IdCount - 1 \ live :
                       Distance(s, id) <= Distance(s, other)

\* emitBegin: the simulation stops when the IDs are exhausted.
Allocate(s, id) ==
  /\ liveIds[s] \ IdsOf(Due(s)) # 0 .. IdCount - 1
  /\ id = FreeId(s, liveIds[s] \ IdsOf(Due(s)))
  /\ nextIds' = [nextIds EXCEPT ![s] = (id + 1) % IdCount]

\* A request that the memory accepted and will answer, ...
LogRequest(p, s) ==
  \E id \in 0 .. IdCount - 1 :
    /\ Allocate(s, id)
    /\ liveIds' = [liveIds EXCEPT ![s] = (@ \ IdsOf(Due(s))) \cup {id}]
    /\ senderState' = [q \in DOMAIN senderState \cup {p} |->
                         IF q = p THEN [source |-> s, allocatedId |-> id]
                         ELSE senderState[q]]
    /\ pendingAtomic' = [pendingAtomic EXCEPT ![s] = Later(s)]
    /\ Write(s, Ticks(Due(s)) \o <<0>>)

\* ... one without a response, which ends where it begins,
LogPosted(s) ==
  \E id \in 0 .. IdCount - 1 :
    /\ Allocate(s, id)
    /\ liveIds' = [liveIds EXCEPT ![s] = @ \ IdsOf(Due(s))]
    /\ pendingAtomic' = [pendingAtomic EXCEPT ![s] = Later(s)]
    /\ Write(s, Ticks(Due(s)) \o <<0, 0>>)
    /\ UNCHANGED senderState

\* a response that was taken,
LogResponse(p) ==
  LET s == senderState[p].source IN
  /\ liveIds' = [liveIds EXCEPT ![s] = (@ \ IdsOf(Due(s))) \ {senderState[p].allocatedId}]
  /\ senderState' = [q \in DOMAIN senderState \ {p} |-> senderState[q]]
  /\ pendingAtomic' = [pendingAtomic EXCEPT ![s] = Later(s)]
  /\ Write(s, Ticks(Due(s)) \o <<0>>)
  /\ UNCHANGED nextIds

\* an atomic access: its end goes behind those that are not later.
LogAtomic(s, delay) ==
  \E id \in 0 .. IdCount - 1 :
    /\ Allocate(s, id)
    /\ IF delay = 0
         THEN /\ liveIds' = [liveIds EXCEPT ![s] = @ \ IdsOf(Due(s))]
              /\ pendingAtomic' = [pendingAtomic EXCEPT ![s] = Later(s)]
              /\ Write(s, Ticks(Due(s)) \o <<0, 0>>)
         ELSE /\ liveIds' = [liveIds EXCEPT ![s] = (@ \ IdsOf(Due(s))) \cup {id}]
              /\ pendingAtomic' = [pendingAtomic EXCEPT ![s] =
                   InsertAt(Later(s), Through(Later(s), delay) + 1,
                            [tick |-> delay, allocatedId |-> id])]
              /\ Write(s, Ticks(Due(s)) \o <<0>>)
    /\ UNCHANGED senderState

\* closeTrace: the ends kept back are written, however far ahead they lie.
CloseTrace(s) ==
  /\ liveIds' = [liveIds EXCEPT ![s] = @ \ IdsOf(pendingAtomic[s])]
  /\ pendingAtomic' = [pendingAtomic EXCEPT ![s] = <<>>]
  /\ Write(s, Ticks(pendingAtomic[s]))
  /\ UNCHANGED <<nextIds, senderState>>

Older(t) == IF t > -MaxAge THEN t - 1 ELSE t

MonElapse ==
  /\ lastTick' = [s \in Source |-> Older(lastTick[s])]
  /\ pendingAtomic' = [s \in Source |-> [i \in DOMAIN pendingAtomic[s] |->
                         [pendingAtomic[s][i] EXCEPT !.tick = Older(@)]]]
  /\ UNCHANGED <<liveIds, nextIds, senderState, nonMonotonic>>

-----------------------------------------------------------------------------
\* Each trace is in the order of time although ends of atomic accesses are
\* written late, across the switch from atomic to timing accesses; and every
\* access in flight holds an ID of its own, until its end is written.
InFlight(s) == {p \in DOMAIN senderState : senderState[p].source = s}

TraceIsWellFormed ==
  \A s \in Source :
    /\ ~nonMonotonic[s]
    /\ liveIds[s] = {senderState[p].allocatedId : p \in InFlight(s)}
                      \cup IdsOf(pendingAtomic[s])
    /\ Cardinality(liveIds[s]) = Cardinality(InFlight(s)) + Len(pendingAtomic[s])
=============================================================================
