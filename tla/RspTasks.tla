---------------------------------- MODULE RspTasks ----------------------------------
(***************************************************************************)
(* A task of the RSP, as the calls osSpTaskLoad, osSpTaskStartGo,          *)
(* osSpTaskYield and osSpTaskYielded handle it: it is loaded by two        *)
(* transfers, runs, may be asked to yield, and is loaded again where it    *)
(* stopped.                                                                *)
(*                                                                         *)
(* The program runs one task after the other and asks what became of it    *)
(* when the RSP breaks.  The microcode is modelled from how the library    *)
(* uses it: between two pieces of its work it looks whether it shall       *)
(* yield, and leaves its place and its microcode in the task's yield data. *)
(***************************************************************************)
EXTENDS Naturals

CONSTANTS
  RTasks,      \* tasks
  Loadable,    \* those with OS_TASK_LOADABLE, which change their microcode
  Pieces,      \* the pieces of work of a task
  MaxLoads     \* bound on the loads of a behaviour

ASSUME RspTasksAssumption ==
  "none" \notin RTasks /\ Loadable \subseteq RTasks /\ {Pieces, MaxLoads} \subseteq Nat

VARIABLES
  flags,       \* of each OSTask: "yielded", "dp_wait"
  yieldData,   \* of each task: its place and its microcode when it yielded
  tmp,         \* tmp_task
  dma,         \* what is being moved to the RSP
  dmem, imem,  \* the task there, and whether its boot code is
  status,      \* SP_STATUS_REG
  rsp,         \* what the RSP works on: task, place, microcode
  current,     \* the task the program has loaded, or none
  did,         \* ghost: the pieces each task has done, its microcode, and whether all was as it should be
  loads        \* the loads so far

rspVars == << flags, yieldData, tmp, dma, dmem, imem, status, rsp, current, did, loads >>

NoRspTask == [task |-> "none"]
Fresh(ok) == [n |-> 0, ucode |-> 0, ok |-> ok]

RspInit ==
  /\ flags = [t \in RTasks |-> {"dp_wait"}] /\ yieldData = [t \in RTasks |-> [at |-> 0, ucode |-> 0]]
  /\ tmp = NoRspTask /\ dma = "none" /\ dmem = NoRspTask /\ imem = FALSE /\ status = {"halt"} /\ rsp = NoRspTask
  /\ current = "none" /\ did = [t \in RTasks |-> Fresh(TRUE)] /\ loads = 0

\* __osSpRawStartDma: when the RSP is not busy with another transfer
RawStartDma(what) == dma = "none" /\ dma' = what
TransferEnds ==
  /\ dma # "none" /\ dma' = "none"
  /\ IF dma = "header" THEN dmem' = tmp /\ UNCHANGED imem ELSE imem' = TRUE /\ UNCHANGED dmem
  /\ UNCHANGED << flags, yieldData, tmp, status, rsp, current, did, loads >>

\* Mutant: the task stays marked as one that has yielded.
StaysYielded(t) == flags[t]
\* The mark of a task that has yielded is taken away, from the caller's record only.
Unmarked(t) == flags[t] \ {"yielded"}

\* osSpTaskLoad: a copy of the task is made with the yield data for its data, ...
TaskLoad ==
  /\ current = "none" /\ loads < MaxLoads /\ loads' = loads + 1
  /\ \E t \in RTasks :
       LET back == "yielded" \in flags[t] IN
       /\ current' = t /\ flags' = [flags EXCEPT ![t] = Unmarked(t)]
       /\ tmp' = [task |-> t, data |-> IF back THEN "yield" ELSE "start",
                  ucode |-> IF back /\ t \in Loadable THEN yieldData[t].ucode ELSE 0]
  \* ... the bits of the last task are cleared, and the copy goes to the RSP's memory once it has halted, ...
  /\ "halt" \in status /\ status' = (status \ {"yield", "yielded", "taskdone"}) \cup {"intr_break"}
  /\ RawStartDma("header")
  /\ UNCHANGED << yieldData, dmem, imem, rsp, did >>
\* ... with the boot code behind it.
LoadBoot ==
  /\ dmem = tmp /\ tmp # NoRspTask /\ ~imem /\ RawStartDma("boot")
  /\ UNCHANGED << flags, yieldData, tmp, dmem, imem, status, rsp, current, did, loads >>
\* The load has returned as soon as the second transfer has begun.
Loaded == tmp # NoRspTask /\ dmem = tmp /\ (imem \/ dma = "boot")

SpIdle == dma = "none"
\* osSpTaskStartGo
TaskStartGo ==
  /\ Loaded /\ SpIdle
  /\ status' = (status \ {"broke", "halt"}) \cup {"intr_break"}
  /\ LET from == IF dmem.data = "yield" THEN yieldData[dmem.task].at ELSE 0
     IN /\ rsp' = [task |-> dmem.task, at |-> from, ucode |-> dmem.ucode]
        /\ did' = [did EXCEPT ![dmem.task].ok = @ /\ imem]
  /\ tmp' = NoRspTask /\ imem' = FALSE /\ UNCHANGED << flags, yieldData, dma, dmem, current, loads >>

\* osSpTaskYield, while the task is loaded, runs or has ended
TaskYield ==
  /\ current # "none" /\ (tmp = NoRspTask \/ Loaded) /\ "yield" \notin status
  /\ status' = status \cup {"yield"}
  /\ UNCHANGED << flags, yieldData, tmp, dma, dmem, imem, rsp, current, did, loads >>

\* The microcode: a piece of work, by the microcode that is needed there
Working == "halt" \notin status
RspWorks ==
  /\ Working /\ "yield" \notin status /\ rsp.at < Pieces
  /\ \E u \in IF rsp.task \in Loadable THEN {0, 1} ELSE {0} :
       /\ rsp' = [rsp EXCEPT !.at = @ + 1, !.ucode = u]
       /\ did' = [did EXCEPT ![rsp.task] =
            [n |-> @.n + 1, ucode |-> u, ok |-> @.ok /\ rsp.at = @.n /\ rsp.ucode = @.ucode]]
  /\ UNCHANGED << flags, yieldData, tmp, dma, dmem, imem, status, current, loads >>
\* It yields, ...
RspYields ==
  /\ Working /\ "yield" \in status /\ rsp.at < Pieces
  /\ yieldData' = [yieldData EXCEPT ![rsp.task] = [at |-> rsp.at, ucode |-> rsp.ucode]]
  /\ status' = status \cup {"yielded", "broke", "halt"} /\ rsp' = NoRspTask
  /\ UNCHANGED << flags, tmp, dma, dmem, imem, current, did, loads >>
\* ... or has done all its work.
RspEnds ==
  /\ Working /\ rsp.at = Pieces
  /\ status' = status \cup {"taskdone", "broke", "halt"} /\ rsp' = NoRspTask
  /\ UNCHANGED << flags, yieldData, tmp, dma, dmem, imem, current, did, loads >>

\* The RSP has broken: osSpTaskYielded tells whether the task has to be loaded again.
TaskYielded ==
  /\ current # "none" /\ tmp = NoRspTask /\ "halt" \in status
  /\ LET result == "yielded" \in status IN
       /\ flags' = (IF "yield" \in status
                   THEN [flags EXCEPT ![current] = (@ \cup (IF result THEN {"yielded"} ELSE {})) \ {"dp_wait"}]
                   ELSE flags)
       \* The program takes a task that has not yielded for done, and may use its record again.
       /\ did' = (IF result THEN did
                 ELSE [did EXCEPT ![current] = Fresh(@.ok /\ @.n = Pieces)])
  /\ current' = "none"
  /\ UNCHANGED << yieldData, tmp, dma, dmem, imem, status, rsp, loads >>

RspNext ==
  \/ TransferEnds \/ TaskLoad \/ LoadBoot \/ TaskStartGo \/ TaskYield
  \/ RspWorks \/ RspYields \/ RspEnds \/ TaskYielded

RspSpec == RspInit /\ [][RspNext]_rspVars

------------------------------------------------------------------------------
\* Whenever a task is asked to yield, also before it starts or when it ends at the same time, each
\* of its pieces is done once and in order, with the microcode it had reached, and the RSP never
\* runs what was not loaded yet (osSpTaskLoad, osSpTaskYielded).
WorkDoneOnce == \A t \in RTasks : did[t].ok
==============================================================================
