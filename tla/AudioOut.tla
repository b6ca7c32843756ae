---------------------------------- MODULE AudioOut ----------------------------------
(***************************************************************************)
(* The audio interface: osAiSetNextBuffer queues a buffer behind the one   *)
(* that plays, and makes up for a carry of the hardware that comes too     *)
(* late; osAiSetFrequency computes the two rates.                          *)
(*                                                                         *)
(* The hardware is modelled from how the library uses it: it takes two     *)
(* buffers; when one ends at a multiple of 0x2000, the one behind it       *)
(* begins 0x2000 bytes further than it was told to.                        *)
(***************************************************************************)
EXTENDS Integers, Sequences

CONSTANTS
  Turn,        \* 0x2000
  Buffers0,    \* << address, size >> of the buffers
  Clocks,      \* osViClock
  Frequencies, \* what is asked for
  MaxBuffers   \* bound on the buffers of a behaviour

ASSUME AudioOutAssumption ==
  /\ Turn \in Nat \ {0} /\ Buffers0 \subseteq Nat \X Nat /\ MaxBuffers \in Nat
  /\ Clocks \subseteq Nat \ {0} /\ Frequencies \subseteq Nat \ {0}

VARIABLES
  fifo,        \* AI: the addresses and sizes of the buffers, the first one plays
  carry,       \* AI: the buffer before ended at a multiple of Turn
  hdwrBugFlag, \* static of osAiSetNextBuffer
  wanted,      \* the buffers the program has queued and that have not ended
  misplaced,   \* ghost: a buffer played from a wrong place
  rates,       \* the clock, the frequency, and what osAiSetFrequency wrote: dacRate, bitRate, or refused
  buffersSent

aiVars == << fifo, carry, hdwrBugFlag, wanted, misplaced, rates, buffersSent >>

\* osAiSetFrequency
MinDacRate == 132
MaxBitRate == 16
LessOf(a, b) == IF a < b THEN a ELSE b
\* An unsigned char, clamped
BitRate(dac) == LessOf((dac \div 66) % 256, MaxBitRate)
SetFrequency(clock, f) ==
  LET dac == (2 * clock + f) \div (2 * f) IN
  IF dac < MinDacRate THEN [refused |-> TRUE]
  ELSE [refused |-> FALSE, dac |-> dac, bit |-> BitRate(dac), returned |-> clock \div dac]

AiInit ==
  /\ fifo = << >> /\ carry = FALSE /\ hdwrBugFlag = FALSE /\ wanted = << >> /\ misplaced = FALSE
  /\ \E c \in Clocks, f \in Frequencies : rates = [clock |-> c, f |-> f, set |-> SetFrequency(c, f)]
  /\ buffersSent = 0

\* Mutant: a buffer that begins at a multiple of Turn is taken for one that ends there.
BugNextOfStart(b) == b[1] % Turn = 0

\* The next buffer will be moved: this one, as it is asked for, ends at a multiple of Turn.
BugNext(b) == (b[1] + b[2]) % Turn = 0

\* osAiSetNextBuffer: refused while the queue is full
SetNextBuffer ==
  /\ buffersSent < MaxBuffers /\ Len(fifo) < 2
  /\ \E b \in Buffers0 :
       /\ fifo' = Append(fifo, << IF hdwrBugFlag THEN b[1] - Turn ELSE b[1], b[2] >>)
       /\ hdwrBugFlag' = BugNext(b)
       /\ wanted' = Append(wanted, b)
  /\ buffersSent' = buffersSent + 1 /\ UNCHANGED << carry, misplaced, rates >>

\* The first buffer has played.
BufferEnds ==
  /\ fifo # << >> /\ fifo' = Tail(fifo) /\ wanted' = Tail(wanted)
  /\ LET from == fifo[1][1] + (IF carry THEN Turn ELSE 0) IN
       /\ misplaced' = (misplaced \/ from # wanted[1][1])
       /\ carry' = ((from + fifo[1][2]) % Turn = 0)
  /\ UNCHANGED << hdwrBugFlag, rates, buffersSent >>

AiNext == SetNextBuffer \/ BufferEnds

AiSpec == AiInit /\ [][AiNext]_aiVars

------------------------------------------------------------------------------
\* Every buffer plays from its own place, wherever the one before it ended and whether it was queued
\* behind that one or later; and a frequency that is not refused gives rates the hardware can have,
\* with a period of the DAC that holds 66 of the half periods of the bus (osAiSetNextBuffer,
\* osAiSetFrequency).
AudioAsAsked ==
  /\ ~misplaced
  /\ ~rates.set.refused =>
       /\ rates.set.bit \in 2..MaxBitRate /\ rates.set.dac >= 66 * rates.set.bit
       \* no other period is nearer to the one that was asked for
       /\ LET apart == rates.set.dac * rates.f - rates.clock IN 2 * apart <= rates.f /\ -2 * apart <= rates.f
==============================================================================
