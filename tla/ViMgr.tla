--------------------------------- MODULE ViMgr ----------------------------------
(***************************************************************************)
(* The video manager (vimgr.c) and the calls that configure the display    *)
(* (vi*.c, gettime.c).  Calls change the next of two contexts.  At each    *)
(* retrace the manager writes it to the registers and makes it the current *)
(* one, and the other one its copy; after retraceCount of them it sends    *)
(* the program its message.  It also keeps the 64-bit time from the 32     *)
(* bits of Count.                                                          *)
(*                                                                         *)
(* The manager is the most urgent thread, and the calls mask interrupts:   *)
(* each is one action.  Registers are reduced to what the calls select.    *)
(* Timers, which the manager serves as well, are in OSTimer.               *)
(***************************************************************************)
EXTENDS Integers

CONSTANTS
  Frames, Modes,
  FirstFrame, FirstMode,  \* K0BASE and the mode for osTvType
  GammaOf,        \* whether a mode has gamma on
  RetraceCounts,  \* that programs ask for
  RetraceMod,     \* the u16 in which retraces are counted
  ViCountMod,     \* the 32 bits of Count
  MaxTicks,       \* bound on the time
  MaxSettings     \* bound on the calls of programs

ASSUME ViMgrAssumption ==
  /\ FirstFrame \in Frames /\ FirstMode \in Modes
  /\ GammaOf \in [Modes -> BOOLEAN]
  /\ RetraceCounts \subseteq 0..RetraceMod - 1
  /\ {RetraceMod, ViCountMod} \subseteq Nat \ {0} /\ {MaxTicks, MaxSettings} \subseteq Nat

VARIABLES
  vi,             \* the two contexts
  viNext,         \* which of them is __osViNext
  regs,           \* what the registers show
  retrace,
  viTime, viBase, \* __osCurrentTime and __osBaseCounter
  viCount,        \* the Count register
  viTicks,        \* all cycles so far                           (history)
  wanted,         \* what the programs have set                  (history)
  waited, asked,  \* retraces since the last message was due, and the
                  \* longest that was asked for                  (history)
  settings

viVars ==
  << vi, viNext, regs, retrace, viTime, viBase, viCount, viTicks, wanted, waited, asked, settings >>

Flags == {"black", "repeat", "fade", "xscale", "yscale"}

\* What __osViSwapContext writes to the registers for the context c
Display(c) ==
  [ mode |-> c.mode, gamma |-> c.gamma, visible |-> "black" \notin c.flags,
    frame |-> c.frame, fromTop |-> c.flags \cap {"repeat", "fade"} # {},
    xscale |-> IF "xscale" \in c.flags THEN "set" ELSE "mode",
    yscale |-> CASE "fade" \in c.flags -> "fade"
                 [] "fade" \notin c.flags /\ "repeat" \in c.flags -> "line"
                 [] c.flags \cap {"fade", "repeat"} = {} /\ "yscale" \in c.flags -> "set"
                 [] OTHER -> "mode" ]

\* Mutant: the next context is what was on the screen before.
CopiedNot(n) == vi

\* __osViSwapContext: n was the next context; the other one becomes its copy.
Copied(n) == [vi EXCEPT ![1 - n] = vi[n]]

\* osCreateViManager and __osViInit, which swaps once
ViInit ==
  LET c == [frame |-> FirstFrame, mode |-> FirstMode, gamma |-> GammaOf[FirstMode],
            flags |-> {"black"}, event |-> FALSE, count |-> 1]
  IN /\ vi = [i \in {0, 1} |-> c] /\ viNext = 0 /\ regs = Display(c) /\ wanted = c
     /\ retrace = 1 /\ waited = 0 /\ asked = 1
     /\ viTime = 0 /\ viBase = 0 /\ viCount = 0 /\ viTicks = 0 /\ settings = 0

Elapsed == (viCount - viBase) % ViCountMod

\* osGetTime
GetTime == viTime + Elapsed

Reloaded(c, left) == IF left = 0 THEN c.count ELSE left

\* viMgrMain for a retrace
Retrace ==
  LET left == (retrace - 1) % RetraceMod
  IN /\ regs' = Display(vi[viNext])
     /\ vi' = Copied(viNext) /\ viNext' = 1 - viNext
     /\ retrace' = Reloaded(vi[viNext], left)
     /\ waited' = IF left = 0 THEN 0 ELSE waited + 1
     /\ viTime' = viTime + Elapsed /\ viBase' = viCount
     /\ UNCHANGED << viCount, viTicks, wanted, asked, settings >>

\* Retraces come more than once in ViCountMod cycles.
ViTick ==
  /\ viTicks < MaxTicks /\ viTicks - viTime < ViCountMod - 1
  /\ viTicks' = viTicks + 1 /\ viCount' = (viCount + 1) % ViCountMod
  /\ UNCHANGED << vi, viNext, regs, retrace, viTime, viBase, wanted, waited, asked, settings >>

\* A call changes the next context.
Sets(Change(_)) ==
  /\ settings < MaxSettings /\ settings' = settings + 1
  /\ vi' = [vi EXCEPT ![viNext] = Change(@)] /\ wanted' = Change(wanted)
  /\ UNCHANGED << viNext, regs, retrace, viTime, viBase, viCount, viTicks, waited >>

\* osViSwapBuffer
SwapsBuffer(f) == Sets(LAMBDA c : [c EXCEPT !.frame = f]) /\ UNCHANGED asked

\* osViSetMode: it ends black, fade, repeat and the scales.
SetMode(m) ==
  Sets(LAMBDA c : [c EXCEPT !.mode = m, !.gamma = GammaOf[m], !.flags = {}]) /\ UNCHANGED asked

\* osViSetSpecialFeatures
SetGamma(on) == Sets(LAMBDA c : [c EXCEPT !.gamma = on]) /\ UNCHANGED asked

\* osViBlack, osViRepeatLine and osViFade, osViSetXScale and osViSetYScale; the scales
\* are not taken back.
SetFlag(flag) == Sets(LAMBDA c : [c EXCEPT !.flags = @ \cup {flag}]) /\ UNCHANGED asked
ClearFlag(flag) == Sets(LAMBDA c : [c EXCEPT !.flags = @ \ {flag}]) /\ UNCHANGED asked

\* osViSetEvent: the count is used from the next message on.
SetEvent(n) ==
  /\ Sets(LAMBDA c : [c EXCEPT !.event = TRUE, !.count = n])
  /\ asked' = IF n > asked THEN n ELSE asked

ViNext ==
  \/ Retrace \/ ViTick
  \/ \E f \in Frames : SwapsBuffer(f)
  \/ \E m \in Modes : SetMode(m)
  \/ \E on \in BOOLEAN : SetGamma(on)
  \/ \E flag \in Flags : SetFlag(flag)
  \/ \E flag \in Flags \ {"xscale", "yscale"} : ClearFlag(flag)
  \/ \E n \in RetraceCounts : SetEvent(n)

ViSpec == ViInit /\ [][ViNext]_viVars

------------------------------------------------------------------------------
\* A setting stays until it is changed, whichever context it was made in: the next
\* context holds all of them, and the registers show the current one
\* (__osViSwapContext).
SettingsStay ==
  vi[viNext] = wanted /\ regs = Display(vi[1 - viNext])

\* Time and messages are on time: osGetTime tells all the cycles there were, however
\* Count has wrapped, and a message is due within the retraces that were asked for.
OnTime ==
  GetTime = viTicks /\ waited < asked

\* What a retrace does to the contexts, the clock and the messages (viMgrMain).
RetraceKeepsUp == SettingsStay /\ OnTime
=================================================================================
