---------------------------------- MODULE Contexts ----------------------------------
(***************************************************************************)
(* What the kernel keeps of a thread while another one runs: the interrupt *)
(* masks of the CPU (in the status register) and of the RCP (in the MI),   *)
(* the interrupt enable bit and the registers of the FPU.                  *)
(*                                                                         *)
(* The registers hold what the running thread asked for, less what is not  *)
(* in __OSGlobalIntMask; the contexts are saved with what is not in it     *)
(* added again.  The PI manager and the handler of the disk drive's        *)
(* interrupt take the PI and the cartridge out of the global mask and put  *)
(* them back.                                                              *)
(*                                                                         *)
(* Interrupts come between the steps of osSetIntMask and __osDisableInt,   *)
(* which read the registers and write them later.                          *)
(***************************************************************************)
EXTENDS FiniteSets, Naturals

CONSTANTS
  CThreads,   \* threads
  AskedMasks, \* what threads ask for: sets of sources
  Drive,      \* there is a disk drive: the global mask changes
  Racing,     \* it may change between the two steps of __osDisableInt
  MaxAsks     \* bound on the calls of a behaviour

ASSUME ContextsAssumption ==
  /\ AskedMasks \subseteq SUBSET {"cart", "rcp", "counter", "pi", "vi"}
  /\ {Drive, Racing} \subseteq BOOLEAN /\ MaxAsks \in Nat

VARIABLES
  runs,   \* __osRunningThread
  regs,   \* the registers: cpu and rcp masks, ie, the FPU's registers and whether it is usable
  ctx,    \* the contexts of the threads
  glob,   \* __OSGlobalIntMask
  inCall,     \* for each thread: what it has read in the call it is in
  asked,  \* what each thread asked for last
  floats, \* what each thread computed last, and whether it has yielded since
  absent, \* the sources that were ever outside of the global mask
  asks    \* the calls so far

ctxVars == << runs, regs, ctx, glob, inCall, asked, floats, absent, asks >>

CpuSources == {"cart", "rcp", "counter"}
RcpSources == {"pi", "vi"}
Everything == CpuSources \cup RcpSources
Cpu(m) == m \cap CpuSources
RcpOf(m) == m \cap RcpSources

Idle == [pc |-> "idle"]

\* osCreateThread: OS_IM_ALL, and the FPU not used.
NewContext(t) == [cpu |-> CpuSources, rcp |-> RcpSources, ie |-> TRUE, fp |-> FALSE,
                  kept |-> << t, 0 >>, scratch |-> << t, 0 >>]

------------------------------------------------------------------------------
\* Mutant: what is saved of the CPU is all that the global mask leaves out.
SavedCpuUnmasked(g) == CpuSources \ g

\* What a context is given for the masks: those outside of the global mask are added, the
\* ones of the RCP only if the context had them; a mask of nothing stays one.
SavedCpu(g) == IF regs.cpu = {} THEN {} ELSE regs.cpu \cup (CpuSources \ g)
SavedRcp(c, g) == IF regs.rcp = {} THEN {} ELSE regs.rcp \cup (c.rcp \ g)
SaveMasks(c) == [c EXCEPT !.cpu = SavedCpu(glob), !.rcp = SavedRcp(c, glob), !.ie = regs.ie]

\* An exception saves all registers of a thread that has used the FPU, a call of the kernel only
\* those that a function keeps.
SaveAll(c) == IF c.fp THEN [SaveMasks(c) EXCEPT !.kept = regs.kept, !.scratch = regs.scratch] ELSE SaveMasks(c)
SaveKept(c) == IF c.fp THEN [SaveMasks(c) EXCEPT !.kept = regs.kept] ELSE SaveMasks(c)

\* __osRcpImTable: what is written to MI_INTR_MASK_REG to have it hold the mask m
ImTable(m) == [s \in RcpSources |-> IF s \in m THEN "set" ELSE "clr"]
WriteMi(word, old) == {s \in RcpSources : word[s] = "set" \/ (s \in old /\ word[s] # "clr")}

\* __osDispatchThread
Dispatch(c, g) ==
  [regs EXCEPT !.cpu = c.cpu \cap g, !.rcp = WriteMi(ImTable(c.rcp \cap g), regs.rcp), !.ie = c.ie,
               !.usable = c.fp,
               !.kept = IF c.fp THEN c.kept ELSE @, !.scratch = IF c.fp THEN c.scratch ELSE @]
Resume(t, saved, g) ==
  /\ runs' = t /\ ctx' = [ctx EXCEPT ![runs] = saved]
  /\ regs' = Dispatch(IF t = runs THEN saved ELSE ctx[t], g)

------------------------------------------------------------------------------
CtxInit ==
  /\ runs \in CThreads /\ ctx = [t \in CThreads |-> NewContext(t)] /\ glob = Everything
  /\ regs = [cpu |-> CpuSources, rcp |-> RcpSources, ie |-> TRUE, usable |-> FALSE,
             kept |-> << "none" >>, scratch |-> << "none" >>]
  /\ inCall = [t \in CThreads |-> Idle] /\ asked = [t \in CThreads |-> Everything]
  /\ floats = [t \in CThreads |-> [n |-> 0, yielded |-> FALSE]] /\ absent = {} /\ asks = 0

Calls0 == asks < MaxAsks /\ asks' = asks + 1

\* An interrupt: the context is saved, the handler of the disk drive may change the global mask,
\* and any thread may be the one to go on.
ExceptionTo(t, g) ==
  /\ regs.ie /\ regs.cpu # {}
  /\ glob' = g /\ absent' = absent \cup (Everything \ g)
  /\ Resume(t, SaveAll(ctx[runs]), g) /\ UNCHANGED << inCall, asked, floats, asks >>
Interrupt == \E t \in CThreads \ {runs} : ExceptionTo(t, glob)
\* __osLeoInterrupt: a DMA is still under way; or the transfer ends.
DriveInterrupts ==
  /\ Drive /\ "cart" \in regs.cpu
  /\ Racing \/ \A t \in CThreads : inCall[t].pc # "disabling"
  /\ \E t \in CThreads, g \in {glob \ {"cart"}, glob \cup {"pi"}} : g # glob /\ ExceptionTo(t, g)

\* osSetIntMask reads the registers and the global mask, ...
SetIntMask ==
  /\ inCall[runs].pc = "idle" /\ Calls0
  /\ \E m \in AskedMasks :
       inCall' = [inCall EXCEPT ![runs] = [pc |-> "rcp", cpu |-> regs.cpu, glob |-> glob, wants |-> m,
          returns |-> regs.cpu \cup (CpuSources \ glob) \cup regs.rcp
                      \cup (IF regs.rcp = {} THEN {} ELSE RcpSources \ glob)]]
  /\ UNCHANGED << runs, regs, ctx, glob, asked, floats, absent >>
\* ... writes the mask of the RCP ...
SetRcpMask ==
  /\ inCall[runs].pc = "rcp"
  /\ regs' = [regs EXCEPT !.rcp = WriteMi(ImTable(RcpOf(inCall[runs].wants) \cap inCall[runs].glob), @)]
  /\ inCall' = [inCall EXCEPT ![runs].pc = "cpu"] /\ UNCHANGED << runs, ctx, glob, asked, floats, absent, asks >>
\* ... and that of the CPU.  The mask it returns is the one that was asked for before.
SetCpuMask ==
  /\ inCall[runs].pc = "cpu"
  /\ regs' = [regs EXCEPT !.cpu = Cpu(inCall[runs].wants) \cap inCall[runs].glob]
  /\ inCall' = [inCall EXCEPT ![runs] = [pc |-> "idle", returned |-> @.returns, before |-> asked[runs]]]
  /\ asked' = [asked EXCEPT ![runs] = inCall[runs].wants]
  /\ UNCHANGED << runs, ctx, glob, floats, absent, asks >>
\* osGetIntMask
GetIntMask ==
  /\ inCall[runs].pc = "idle" /\ Calls0
  /\ inCall' = [inCall EXCEPT ![runs] = [pc |-> "idle", before |-> asked[runs],
       returned |-> regs.cpu \cup (CpuSources \ glob) \cup regs.rcp
                    \cup (IF regs.rcp = {} THEN {} ELSE RcpSources \ glob)]]
  /\ UNCHANGED << runs, regs, ctx, glob, asked, floats, absent >>

\* __osDisableInt reads the status register and the global mask, ...
DisableInt ==
  /\ inCall[runs].pc = "idle" /\ Calls0
  /\ \E why \in {"yield"} \cup (IF Drive THEN {"reset", "set"} ELSE {}) :
       inCall' = [inCall EXCEPT ![runs] = [pc |-> "disabling", cpu |-> regs.cpu, glob |-> Cpu(glob), why |-> why,
                                   ie |-> regs.ie]]
  /\ UNCHANGED << runs, regs, ctx, glob, asked, floats, absent >>
\* ... and writes it without the enable bit; if the global mask has changed, with the mask
\* of what is at __osRunningThread taken for a thread.
DisabledInt ==
  /\ inCall[runs].pc = "disabling"
  /\ \E garbage \in SUBSET CpuSources :
       /\ Cpu(glob) = inCall[runs].glob => garbage = inCall[runs].cpu
       /\ regs' = [regs EXCEPT !.ie = FALSE,
                               !.cpu = IF Cpu(glob) = inCall[runs].glob THEN garbage ELSE garbage \cap glob]
  /\ inCall' = [inCall EXCEPT ![runs].pc = "off"] /\ UNCHANGED << runs, ctx, glob, asked, floats, absent, asks >>

\* __osRestoreInt
RestoreInt == regs' = [regs EXCEPT !.ie = @ \/ inCall[runs].ie] /\ inCall' = [inCall EXCEPT ![runs] = Idle]

\* __osResetGlobalIntMask(OS_IM_PI) and __osSetGlobalIntMask(OS_IM_PI | SR_IBIT4)
ChangeGlobalIntMask ==
  /\ inCall[runs].pc = "off" /\ inCall[runs].why # "yield"
  /\ glob' = (IF inCall[runs].why = "reset" THEN glob \ {"pi"} ELSE glob \cup {"pi", "rcp", "cart"})
  /\ Racing \/ Cpu(glob') = Cpu(glob) \/ \A t \in CThreads : inCall[t].pc # "disabling"
  /\ absent' = absent \cup (Everything \ glob')
  /\ RestoreInt /\ UNCHANGED << runs, ctx, asked, floats, asks >>

\* __osEnqueueAndYield: another thread goes on ...
EnqueueAndYield ==
  /\ inCall[runs].pc = "off" /\ inCall[runs].why = "yield"
  /\ inCall' = [inCall EXCEPT ![runs].pc = "back"] /\ floats' = [floats EXCEPT ![runs].yielded = TRUE]
  /\ \E t \in CThreads : Resume(t, SaveKept(ctx[runs]), glob)
  /\ UNCHANGED << glob, asked, absent, asks >>
\* ... and this one when it is its turn.
ComeBack == inCall[runs].pc = "back" /\ RestoreInt /\ UNCHANGED << runs, ctx, glob, asked, floats, absent, asks >>

\* The FPU is used for the first time: handle_CpU makes it usable.
UnusableFpu ==
  /\ ~regs.usable /\ inCall[runs].pc = "idle" /\ asks < MaxAsks
  /\ Resume(runs, [SaveMasks(ctx[runs]) EXCEPT !.fp = TRUE], glob)
  /\ UNCHANGED << glob, inCall, asked, floats, absent, asks >>
\* A thread computes.
Compute ==
  /\ regs.usable /\ inCall[runs].pc = "idle" /\ Calls0
  /\ floats' = [floats EXCEPT ![runs] = [n |-> 1 - @.n, yielded |-> FALSE]]
  /\ regs' = [regs EXCEPT !.kept = << runs, floats'[runs].n >>, !.scratch = << runs, floats'[runs].n >>]
  /\ UNCHANGED << runs, ctx, glob, inCall, asked, absent >>

CtxNext ==
  \/ Interrupt \/ DriveInterrupts \/ SetIntMask \/ SetRcpMask \/ SetCpuMask \/ GetIntMask
  \/ DisableInt \/ DisabledInt \/ ChangeGlobalIntMask \/ EnqueueAndYield \/ ComeBack
  \/ UnusableFpu \/ Compute

CtxSpec == CtxInit /\ [][CtxNext]_ctxVars

------------------------------------------------------------------------------
\* Whatever preempts a thread, when it goes on the sources that stayed in the global mask are enabled
\* exactly when it asked for them, osSetIntMask and osGetIntMask return what it had asked for, its
\* interrupts are enabled again, and the FPU's registers hold what it computed, except those a
\* call of the kernel may change (osSetIntMask, __osException, __osEnqueueAndYield, __osDispatchThread).
Known == Everything \ absent
ContextKept ==
  /\ inCall[runs].pc = "idle" => (regs.cpu \cup regs.rcp) \cap Known = asked[runs] \cap Known /\ regs.ie
  /\ \A t \in CThreads :
       "returned" \in DOMAIN inCall[t] => inCall[t].returned \cap Known = inCall[t].before \cap Known
  /\ regs.usable => /\ regs.kept = << runs, floats[runs].n >>
                    /\ floats[runs].yielded \/ regs.scratch = << runs, floats[runs].n >>
================================================================================
