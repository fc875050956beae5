---------------------------- MODULE VortexGpgpu ----------------------------
(***************************************************************************)
(* The Vortex device of the gem5 system in hosted mode with timing memory. *)
(* The command processor (CP) runs as a coroutine: a memory access in the  *)
(* middle of cp_tick starts a DMA operation and yields; the end of the     *)
(* operation schedules the CP tick event, which resumes the coroutine.     *)
(* The same event starts a new cp_tick, and a PIO write or the end of a    *)
(* kernel schedules it too.  The cores issue their accesses from the       *)
(* Vortex tick event, under tokens of their own.                           *)
(*                                                                         *)
(* libvortex is external: a command is a number of CP accesses, before or  *)
(* after it launches a kernel or without one, and a kernel is a number of  *)
(* core accesses.  Since the timing queue function is not installed,       *)
(* cpDmaQueue_ holds nothing but the request that is being started, and is *)
(* left out, as is vortexStartPending_, which only such a queue could keep *)
(* set.                                                                    *)
(***************************************************************************)
EXTENDS Integers, Sequences, FiniteSets

NoLaunch == -1

VARIABLES
  commands,        \* posted and not retired: [accesses, kernel]
  cpSteps,         \* accesses of the first command that were started
  launched,        \* its kernel was started and is not yet seen to be done
  cpSuspended,     \* the coroutine exists and is not finished
  activeCpDma,     \* a CP DMA operation is outstanding
  cpTickEvent, vortexTickEvent,
  kernelLeft,      \* accesses the running kernel has still to issue
  nextToken, coreDmas   \* the tokens of the outstanding core accesses

gpuVars == <<commands, cpSteps, launched, cpSuspended, activeCpDma, cpTickEvent,
             vortexTickEvent, kernelLeft, nextToken, coreDmas>>

Command == [accesses : Nat, kernel : Nat \cup {NoLaunch}]

GpuInit ==
  /\ commands = <<>> /\ cpSteps = 0 /\ launched = FALSE
  /\ cpSuspended = FALSE /\ activeCpDma = FALSE
  /\ cpTickEvent = FALSE /\ vortexTickEvent = FALSE
  /\ kernelLeft = 0 /\ nextToken = 0 /\ coreDmas = {}

-----------------------------------------------------------------------------
\* Mutant: a doorbell or the end of a kernel also wakes a CP that waits for
\* its data.
MaybeWakeCpAlways(work) == cpTickEvent \/ work # <<>>

\* maybeWakeCp: the CP has something to do, or waits for a kernel
\* (cp_has_work), and does not wait for data.
MaybeWakeCp(work) == cpTickEvent \/ (work # <<>> /\ ~activeCpDma)

\* A PIO write that posts a command.  It may come in the middle of a cp_tick.
Doorbell(c) ==
  /\ commands' = Append(commands, c)
  /\ cpTickEvent' = MaybeWakeCp(commands')
  /\ UNCHANGED <<cpSteps, launched, cpSuspended, activeCpDma, vortexTickEvent,
                 kernelLeft, nextToken, coreDmas>>

\* The CP tick event begins a cp_tick or resumes one, which runs on to its
\* next access ...
CpAccess ==
  /\ cpTickEvent
  /\ commands # <<>> /\ cpSteps < Head(commands).accesses
  /\ cpTickEvent' = FALSE
  /\ cpSteps' = cpSteps + 1
  /\ cpSuspended' = TRUE /\ activeCpDma' = TRUE
  /\ UNCHANGED <<commands, launched, vortexTickEvent, kernelLeft, nextToken,
                 coreDmas>>

\* ... or to its end: it launches a kernel,
CpLaunch(busy) ==
  /\ cpTickEvent
  /\ commands # <<>> /\ Head(commands).kernel # NoLaunch /\ ~launched
  /\ launched' = TRUE
  /\ vortexTickEvent' = TRUE /\ kernelLeft' = Head(commands).kernel
  /\ cpSuspended' = FALSE /\ cpTickEvent' = busy
  /\ UNCHANGED <<commands, cpSteps, activeCpDma, nextToken, coreDmas>>

\* finds the kernel still running (and keeps polling or goes idle),
CpPoll(busy) ==
  /\ cpTickEvent
  /\ launched /\ vortexTickEvent
  /\ cpSuspended' = FALSE /\ cpTickEvent' = busy
  /\ UNCHANGED <<commands, cpSteps, launched, activeCpDma, vortexTickEvent,
                 kernelLeft, nextToken, coreDmas>>

\* retires the command,
CpRetire ==
  /\ cpTickEvent
  /\ commands # <<>> /\ cpSteps = Head(commands).accesses
  /\ IF launched THEN ~vortexTickEvent ELSE Head(commands).kernel = NoLaunch
  /\ commands' = Tail(commands)
  /\ cpSteps' = 0 /\ launched' = FALSE
  /\ cpSuspended' = FALSE /\ cpTickEvent' = (commands' # <<>>)
  /\ UNCHANGED <<activeCpDma, vortexTickEvent, kernelLeft, nextToken, coreDmas>>

\* The DMA operation of the suspended cp_tick ends.
DmaComplete ==
  /\ activeCpDma
  /\ activeCpDma' = FALSE
  /\ cpTickEvent' = (cpTickEvent \/ cpSuspended)
  /\ UNCHANGED <<commands, cpSteps, launched, cpSuspended, vortexTickEvent,
                 kernelLeft, nextToken, coreDmas>>

\* A Vortex cycle in which a core starts an access.
IssueCoreTiming ==
  /\ vortexTickEvent /\ kernelLeft > 0
  /\ kernelLeft' = kernelLeft - 1
  /\ nextToken' = nextToken + 1
  /\ coreDmas' = coreDmas \cup {nextToken}
  /\ UNCHANGED <<commands, cpSteps, launched, cpSuspended, activeCpDma,
                 cpTickEvent, vortexTickEvent>>

CoreDmaComplete(token) ==
  /\ token \in coreDmas
  /\ coreDmas' = coreDmas \ {token}
  /\ UNCHANGED <<commands, cpSteps, launched, cpSuspended, activeCpDma,
                 cpTickEvent, vortexTickEvent, kernelLeft, nextToken>>

\* Mutant: the end of a kernel wakes nobody.
WokenByKernelNever == cpTickEvent

WokenByKernel == MaybeWakeCp(commands)

\* The Vortex cycle in which the kernel ends.
KernelEnds ==
  /\ vortexTickEvent /\ kernelLeft = 0 /\ coreDmas = {}
  /\ vortexTickEvent' = FALSE
  /\ cpTickEvent' = WokenByKernel
  /\ UNCHANGED <<commands, cpSteps, launched, cpSuspended, activeCpDma,
                 kernelLeft, nextToken, coreDmas>>

GpuNext ==
  \/ \E c \in Command : Doorbell(c)
  \/ CpAccess \/ CpRetire
  \/ \E busy \in BOOLEAN : CpLaunch(busy) \/ CpPoll(busy)
  \/ DmaComplete
  \/ IssueCoreTiming
  \/ \E token \in coreDmas : CoreDmaComplete(token)
  \/ KernelEnds

GpuSpec == GpuInit /\ [][GpuNext]_gpuVars

-----------------------------------------------------------------------------
\* Type correctness of the device.
GpuTypeOK ==
  /\ commands \in Seq(Command)
  /\ cpSteps \in Nat /\ kernelLeft \in Nat /\ nextToken \in Nat
  /\ launched \in BOOLEAN /\ cpSuspended \in BOOLEAN /\ activeCpDma \in BOOLEAN
  /\ cpTickEvent \in BOOLEAN /\ vortexTickEvent \in BOOLEAN
  /\ coreDmas \subseteq Nat

\* A suspended cp_tick is resumed once and only when its data is there: the CP
\* tick event and the outstanding operation exclude each other, whatever PIO
\* writes and kernels end in between, and one of them exists.  A CP that is not
\* suspended and has a command either has its event or waits for a kernel,
\* whose end wakes it.
ResumedExactlyWithData ==
  /\ activeCpDma => cpSuspended
  /\ cpSuspended => (activeCpDma <=> ~cpTickEvent)
  /\ commands # <<>> /\ ~cpSuspended => cpTickEvent \/ (launched /\ vortexTickEvent)
=============================================================================
