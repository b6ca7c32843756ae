-------------------------------- MODULE OSSched --------------------------------
(***************************************************************************)
(* The RCP task scheduler (src/src/sched/sched.c): a thread that shares    *)
(* the RSP and the RDP between graphics and audio tasks.                   *)
(*                                                                         *)
(* The thread serves one message of interruptQ at a time.  It gives tasks  *)
(* to the processors, which stop in their own time and post a message;     *)
(* retraces post another.  What it does for one message is one action,     *)
(* but for the loop that fetches new tasks, and for a task that ends: the  *)
(* reply may block on the client's queue, and clients and the video        *)
(* interrupt run between the reply, the buffer swap and the search for the *)
(* next task.                                                              *)
(***************************************************************************)
EXTENDS Integers, Sequences, SequencesExt

CONSTANTS
  Tasks,      \* the OSScTask structures
  Kind,       \* list.t.type and the type bits of flags: "AUDIO", or graphics that need both
              \* processors ("XBUS", "DRAM"), only the RSP ("RSP") or only the RDP ("RDP")
  Swaps,      \* tasks with OS_SC_SWAPBUFFER and OS_SC_LAST_TASK
  Mixes,      \* the sets of tasks that are with the scheduler together
  Clients,    \* the OSScClient structures
  Owner,      \* the client each task replies to
  NoTask,     \* a task pointer that is 0
  QueueLen,   \* OS_SC_MAX_MESGS: length of interruptQ and of cmdQ
  ClientLen,  \* length of a client's message queue
  MaxVideo,   \* bound on the retrace messages that wait in interruptQ
  Ndebug      \* assertions are compiled out, with the calls inside them

IsAudio(t) == Kind[t] = "AUDIO"
IsGfx(t)   == Kind[t] # "AUDIO"

ASSUME SchedAssumption ==
  /\ NoTask \notin Tasks /\ {"RETRACE", "PRENMI"} \cap Tasks = {}
  /\ Swaps \subseteq Tasks /\ Mixes \subseteq SUBSET Tasks
  /\ Kind \in [Tasks -> {"AUDIO", "XBUS", "DRAM", "RSP", "RDP"}]
  /\ Owner \in [Tasks -> Clients]
  /\ QueueLen \in Nat \ {0} /\ ClientLen \in Nat \ {0} /\ MaxVideo \in Nat
  /\ Ndebug \in BOOLEAN

VARIABLES
  interruptQ, cmdQ,    \* the scheduler's two message queues
  clientList,          \* registered clients
  audioList, gfxList,  \* tasks waiting for a processor
  doAudio,             \* an audio task waits
  state,               \* OSScTask.state
  curRSPTask, curRDPTask,
  pc,                  \* where the scheduler's thread is
  ending,              \* the task that __scTaskComplete works on
  halted,              \* the scheduler stopped at a failed assertion
  rsp, rdp,            \* what the processors work on
  yieldReq, yielded,   \* SP_STATUS_YIELD and SP_STATUS_YIELDED
  swapPending,         \* the next frame buffer is not the current one
  preNMI,              \* the reset button was pressed
  clientQ,             \* messages waiting for each client
  busy                 \* tasks their clients have submitted and not got back

schedVars  == << audioList, gfxList, doAudio, state, curRSPTask, curRDPTask,
                 pc, ending, halted >>
hwVars     == << rsp, rdp, yieldReq, yielded >>
clientVars == << clientList, clientQ, busy >>
vars       == << interruptQ, cmdQ, schedVars, hwVars, swapPending, preNMI, clientVars >>

Interrupts == {"VIDEO", "RSP", "RDP", "PRENMI"}

\* flags & OS_SC_RCP_MASK
Needs(t) == CASE Kind[t] \in {"AUDIO", "RSP"} -> {"SP"}
              [] Kind[t] = "RDP"              -> {"DP"}
              [] OTHER                        -> {"SP", "DP"}

\* osCreateScheduler.  It leaves doAudio alone: an OSSched in static storage has
\* it zero.
Init ==
  /\ interruptQ = <<>> /\ cmdQ = <<>> /\ clientList = {}
  /\ audioList = <<>> /\ gfxList = <<>> /\ doAudio = FALSE
  /\ state = [t \in Tasks |-> {}]
  /\ curRSPTask = NoTask /\ curRDPTask = NoTask
  /\ pc = "wait" /\ ending = NoTask /\ halted = FALSE
  /\ rsp = NoTask /\ rdp = NoTask /\ yieldReq = FALSE /\ yielded = FALSE
  /\ swapPending = FALSE /\ preNMI = FALSE
  /\ clientQ = [c \in Clients |-> <<>>] /\ busy = {}

------------------------------------------------------------------------------
\* What __scSchedule chooses: a task for each processor that is free in the plan p.
NoPlan ==
  [ sp |-> NoTask, dp |-> NoTask, spFree |-> curRSPTask = NoTask,
    dpFree |-> curRDPTask = NoTask, gfx |-> gfxList, audio |-> audioList,
    doAudio |-> doAudio, asserted |-> TRUE ]

Both(p, g) == [p EXCEPT !.sp = g, !.spFree = FALSE, !.dp = g, !.dpFree = FALSE,
                        !.gfx = Tail(@)]

\* Mutant: the RDP is not waited for.
PickXbusEarly(p, g) ==
  IF "YIELDED" \notin state[g] /\ p.spFree THEN Both(p, g) ELSE p

\* Mutant: a yielded task waits for both processors, like a new one.
PickXbusAnew(p, g) == IF p.spFree /\ p.dpFree THEN Both(p, g) ELSE p

\* A yielded XBUS task takes the RSP back; the RDP, if it needs it, was left to it.
PickXbus(p, g) ==
  IF "YIELDED" \in state[g]
  THEN IF ~p.spFree THEN p
       ELSE IF "DP" \in state[g]
            THEN [Both(p, g) EXCEPT !.asserted = @ /\ curRDPTask = g]
            ELSE [p EXCEPT !.sp = g, !.spFree = FALSE, !.gfx = Tail(@)]
  ELSE IF p.spFree /\ p.dpFree THEN Both(p, g) ELSE p

\* Mutant: a DRAM task does not look whether the RSP is free.
PickDramEarly(p, g) ==
  IF "SP" \in state[g] THEN [p EXCEPT !.sp = g, !.spFree = FALSE] ELSE p

\* A DRAM task stays at the head of the list until its RDP part starts; one that needs
\* only the RSP stays there for good.
PickDram(p, g) ==
  IF "SP" \in state[g]
  THEN IF p.spFree THEN [p EXCEPT !.sp = g, !.spFree = FALSE] ELSE p
  ELSE IF "DP" \in state[g] /\ p.dpFree
       THEN [p EXCEPT !.dp = g, !.dpFree = FALSE, !.gfx = Tail(@)]
       ELSE p

\* Mutant: the frame buffer swap is not waited for.
TaskReadyAlways == TRUE

\* __scTaskReady: graphics wait while a swap is pending.
TaskReady == ~swapPending

\* Graphics that need only the RDP are never chosen.
Pick(p) ==
  IF p.doAudio /\ p.spFree
  THEN [p EXCEPT !.sp = Head(p.audio), !.spFree = FALSE, !.doAudio = FALSE,
                 !.audio = Tail(@)]
  ELSE IF p.gfx = <<>> \/ ~TaskReady THEN p
  ELSE IF Kind[Head(p.gfx)] = "XBUS" THEN PickXbus(p, Head(p.gfx))
  ELSE IF Kind[Head(p.gfx)] = "RDP" THEN p
  ELSE PickDram(p, Head(p.gfx))

\* __scSchedule calls itself while it chooses a task, and each one takes a
\* processor: the third call chooses none.
Schedule == Pick(Pick(NoPlan))

\* The assertions of __scSchedule and __scExec.
AssertionsHold(p) ==
  p.asserted /\ (p.sp # NoTask \/ p.dp # NoTask => curRSPTask = NoTask)

\* The RSP starts p.sp.
StartRSP(p) ==
  IF p.sp = NoTask
  THEN UNCHANGED << state, curRSPTask, rsp, yieldReq, yielded >>
  ELSE /\ state' = [state EXCEPT ![p.sp] = @ \ {"YIELD", "YIELDED"}]
       /\ curRSPTask' = p.sp
       /\ rsp' = p.sp /\ yieldReq' = FALSE /\ yielded' = FALSE

\* The RDP starts p.dp: with the RSP, which feeds it, or on the list in memory; the
\* call that hands it that list stands inside an assertion.
StartRDP(p) ==
  /\ curRDPTask' = IF p.dp = NoTask THEN curRDPTask ELSE p.dp
  /\ rdp' = IF p.dp # NoTask /\ curRDPTask = NoTask /\ (p.dp = p.sp \/ ~Ndebug)
            THEN p.dp ELSE rdp

Exec(p) ==
  /\ audioList' = p.audio /\ gfxList' = p.gfx /\ doAudio' = p.doAudio
  /\ IF AssertionsHold(p) \/ Ndebug
     THEN StartRSP(p) /\ StartRDP(p) /\ halted' = FALSE
     ELSE /\ halted' = TRUE
          /\ UNCHANGED << state, curRSPTask, curRDPTask, hwVars >>

\* __scSchedule, and __scExec if it chose a task.
Dispatch == Exec(Schedule) /\ pc' = "wait" /\ ending' = NoTask

------------------------------------------------------------------------------
\* osRecvMesg in __scMain.
Takes(m) ==
  /\ ~halted /\ pc = "wait"
  /\ interruptQ # <<>> /\ Head(interruptQ) = m
  /\ interruptQ' = Tail(interruptQ)

\* Every registered client that has room gets the message.
Notify(m) ==
  clientQ' = [c \in Clients |->
                IF c \in clientList /\ Len(clientQ[c]) < ClientLen
                THEN Append(clientQ[c], m) ELSE clientQ[c]]

HandleRetrace ==
  /\ Takes("VIDEO")
  /\ pc' = "fetch"
  /\ UNCHANGED << cmdQ, audioList, gfxList, doAudio, state, curRSPTask, curRDPTask, ending,
                  halted, hwVars, swapPending, preNMI, clientVars >>

\* t becomes the last of a list.  Where it is on the list already, those behind it lose
\* their link.
Linked(list, t) ==
  IF t \in ToSet(list)
  THEN SubSeq(list, 1, CHOOSE i \in DOMAIN list : list[i] = t)
  ELSE Append(list, t)

\* A pass of the loop that empties cmdQ, with __scAppendList.
AppendList ==
  /\ pc = "fetch" /\ cmdQ # <<>>
  /\ cmdQ' = Tail(cmdQ)
  /\ LET t == Head(cmdQ)
     IN /\ state' = [state EXCEPT ![t] = Needs(t)]
        /\ IF IsAudio(t)
           THEN audioList' = Linked(audioList, t) /\ doAudio' = TRUE /\ UNCHANGED gfxList
           ELSE gfxList' = Linked(gfxList, t) /\ UNCHANGED << audioList, doAudio >>
  /\ UNCHANGED << interruptQ, curRSPTask, curRDPTask, pc, ending, halted, hwVars,
                  swapPending, preNMI, clientVars >>

\* __scYield: a graphics task is asked to make room for audio.
Yield ==
  /\ pc' = "wait"
  /\ IF IsGfx(curRSPTask)
     THEN /\ state' = [state EXCEPT ![curRSPTask] = @ \cup {"YIELD"}]
          /\ yieldReq' = TRUE
     ELSE UNCHANGED << state, yieldReq >>
  /\ UNCHANGED << audioList, gfxList, doAudio, curRSPTask, curRDPTask, ending, halted,
                  rsp, rdp, yielded >>

\* The rest of __scHandleRetrace.
Retraced ==
  /\ pc = "fetch" /\ cmdQ = <<>>
  /\ IF doAudio /\ curRSPTask # NoTask THEN Yield ELSE Dispatch
  /\ Notify("RETRACE")
  /\ UNCHANGED << interruptQ, cmdQ, clientList, swapPending, preNMI, busy >>

\* A yielded XBUS task goes back to the head of the list, where a DRAM task still is.
PushBack(t) == IF Kind[t] = "XBUS" THEN <<t>> \o gfxList ELSE gfxList

HasYielded(t) == "YIELD" \in state[t] /\ yielded

\* The first test of __scTaskComplete.
Completes(t, needs) ==
  IF needs \cap {"SP", "DP"} = {}
  THEN pc' = "send" /\ ending' = t
  ELSE pc' = "schedule" /\ ending' = NoTask

\* The assertion that there is a current task fails.
NoCurrentTask ==
  /\ halted' = TRUE
  /\ UNCHANGED << gfxList, state, curRSPTask, curRDPTask, pc, ending >>

StoppedRSP(t) ==
  /\ curRSPTask' = NoTask
  /\ IF HasYielded(t)
     THEN /\ state' = [state EXCEPT ![t] = @ \cup {"YIELDED"}]
          /\ gfxList' = PushBack(t)
          /\ pc' = "schedule" /\ ending' = NoTask
     ELSE /\ state' = [state EXCEPT ![t] = @ \ {"SP"}]
          /\ Completes(t, state[t] \ {"SP"})
          /\ UNCHANGED gfxList
  /\ UNCHANGED curRDPTask

HandleRSP ==
  /\ Takes("RSP")
  /\ IF curRSPTask = NoTask THEN NoCurrentTask
     ELSE StoppedRSP(curRSPTask) /\ UNCHANGED halted
  /\ UNCHANGED << cmdQ, audioList, doAudio, hwVars, swapPending, preNMI, clientVars >>

StoppedRDP(t) ==
  /\ curRDPTask' = NoTask
  /\ state' = [state EXCEPT ![t] = @ \ {"DP"}]
  /\ Completes(t, state[t] \ {"DP"})
  /\ UNCHANGED << gfxList, curRSPTask >>

HandleRDP ==
  /\ Takes("RDP")
  /\ IF curRDPTask = NoTask THEN NoCurrentTask
     ELSE StoppedRDP(curRDPTask) /\ UNCHANGED halted
  /\ UNCHANGED << cmdQ, audioList, doAudio, hwVars, swapPending, preNMI, clientVars >>

\* The done message waits for room in the client's queue.
SendDone ==
  /\ pc = "send" /\ Len(clientQ[Owner[ending]]) < ClientLen
  /\ clientQ' = [clientQ EXCEPT ![Owner[ending]] = Append(@, ending)]
  /\ pc' = "swap"
  /\ UNCHANGED << interruptQ, cmdQ, clientList, busy, audioList, gfxList, doAudio, state,
                  curRSPTask, curRDPTask, ending, halted, hwVars, swapPending, preNMI >>

EndsFrame(t) == IsGfx(t) /\ t \in Swaps

\* osViSwapBuffer for the last task of a frame.
SwapBuffer ==
  /\ pc = "swap"
  /\ swapPending' = (swapPending \/ EndsFrame(ending))
  /\ pc' = "schedule" /\ ending' = NoTask
  /\ UNCHANGED << interruptQ, cmdQ, clientVars, audioList, gfxList, doAudio, state,
                  curRSPTask, curRDPTask, halted, hwVars, preNMI >>

\* The end of __scHandleRSP and of __scHandleRDP.
StartNext ==
  /\ pc = "schedule" /\ Dispatch
  /\ UNCHANGED << interruptQ, cmdQ, clientVars, swapPending, preNMI >>

HandlePreNMI ==
  /\ Takes("PRENMI")
  /\ Notify("PRENMI")
  /\ UNCHANGED << cmdQ, clientList, busy, schedVars, hwVars, swapPending, preNMI >>

Scheduler ==
  \/ HandleRetrace \/ AppendList \/ Retraced
  \/ HandleRSP \/ HandleRDP \/ HandlePreNMI
  \/ SendDone \/ SwapBuffer \/ StartNext

------------------------------------------------------------------------------
Occurrences(m) == Cardinality({i \in DOMAIN interruptQ : interruptQ[i] = m})

\* An interrupt whose message finds the queue full is dropped.
Post(m) ==
  interruptQ' = IF Len(interruptQ) < QueueLen THEN Append(interruptQ, m) ELSE interruptQ

\* The RSP runs t to its end, whether or not it was asked to yield.
SpFinish(t) ==
  /\ rsp = t /\ rsp' = NoTask
  /\ Post("RSP")
  /\ UNCHANGED << cmdQ, schedVars, rdp, yieldReq, yielded, swapPending, preNMI, clientVars >>

\* The RSP sees the request and saves the task.
SpYield ==
  /\ rsp # NoTask /\ IsGfx(rsp) /\ yieldReq
  /\ rsp' = NoTask /\ yielded' = TRUE
  /\ Post("RSP")
  /\ UNCHANGED << cmdQ, schedVars, rdp, yieldReq, swapPending, preNMI, clientVars >>

\* The RDP reaches the full sync that ends t.  The RSP may still run t, or have
\* yielded it.
DpDone(t) ==
  /\ rdp = t /\ rdp' = NoTask
  /\ Post("RDP")
  /\ UNCHANGED << cmdQ, schedVars, rsp, yieldReq, yielded, swapPending, preNMI, clientVars >>

\* The video manager shows the next frame buffer, and posts the retrace message at
\* every numFields-th field.
Field ==
  /\ swapPending' = FALSE
  /\ \/ UNCHANGED interruptQ
     \/ Occurrences("VIDEO") < MaxVideo /\ Post("VIDEO")
  /\ UNCHANGED << cmdQ, schedVars, hwVars, preNMI, clientVars >>

PreNMI ==
  /\ ~preNMI /\ preNMI' = TRUE
  /\ Post("PRENMI")
  /\ UNCHANGED << cmdQ, schedVars, hwVars, swapPending, clientVars >>

\* A client sends a task of its own to cmdQ.
Submit(t) ==
  /\ t \notin busy /\ Len(cmdQ) < QueueLen
  /\ \E mix \in Mixes : busy \cup {t} \subseteq mix
  /\ cmdQ' = Append(cmdQ, t) /\ busy' = busy \cup {t}
  /\ UNCHANGED << interruptQ, schedVars, hwVars, swapPending, preNMI, clientList, clientQ >>

ClientRecv(c) ==
  /\ clientQ[c] # <<>>
  /\ clientQ' = [clientQ EXCEPT ![c] = Tail(@)]
  /\ busy' = busy \ {Head(clientQ[c])}
  /\ UNCHANGED << interruptQ, cmdQ, schedVars, hwVars, swapPending, preNMI, clientList >>

\* A client that is on the list is not added again: it would point to itself.
AddClient(c) ==
  /\ c \notin clientList /\ clientList' = clientList \cup {c}
  /\ UNCHANGED << interruptQ, cmdQ, schedVars, hwVars, swapPending, preNMI, clientQ, busy >>

RemoveClient(c) ==
  /\ c \in clientList /\ clientList' = clientList \ {c}
  /\ UNCHANGED << interruptQ, cmdQ, schedVars, hwVars, swapPending, preNMI, clientQ, busy >>

Next ==
  \/ Scheduler
  \/ SpYield \/ Field \/ PreNMI
  \/ \E t \in Tasks : SpFinish(t) \/ DpDone(t) \/ Submit(t)
  \/ \E c \in Clients : ClientRecv(c) \/ AddClient(c) \/ RemoveClient(c)

Spec == Init /\ [][Next]_vars

\* A task that the RSP is given again after each yield ends in the end; so does the
\* drawing of a task that is not waiting for the RSP.  Fields go on, the scheduler
\* runs and clients read their queues.
LiveSpec ==
  /\ Spec
  /\ WF_vars(Scheduler) /\ WF_vars(SpYield)
  /\ WF_vars(Field /\ interruptQ' # interruptQ)
  /\ \A t \in Tasks : /\ SF_vars(SpFinish(t))
                      /\ WF_vars(DpDone(t) /\ "YIELDED" \notin state[t])
  /\ \A c \in Clients : WF_vars(ClientRecv(c))

------------------------------------------------------------------------------
\* The scheduler's view of each processor is true: a task is current from the start
\* of the processor until the message of its end is served, once.
Tracks ==
  /\ rsp # NoTask => curRSPTask = rsp
  /\ rdp # NoTask => curRDPTask = rdp
  /\ curRSPTask # NoTask /\ rsp = NoTask => Occurrences("RSP") = 1
  /\ curRDPTask # NoTask /\ rdp = NoTask => Occurrences("RDP") = 1
  /\ (curRSPTask = NoTask \/ rsp # NoTask) => Occurrences("RSP") = 0
  /\ (curRDPTask = NoTask \/ rdp # NoTask) => Occurrences("RDP") = 0

\* What the scheduler may still touch.
Held == ToSet(cmdQ) \cup ToSet(audioList) \cup ToSet(gfxList)
          \cup ({curRSPTask, curRDPTask} \ {NoTask})
          \cup (IF pc = "send" THEN {ending} ELSE {})

Returned == UNION {ToSet(clientQ[c]) \cap Tasks : c \in Clients}

\* A submitted task is always somewhere, and a task that was sent back to its client
\* is nowhere in the scheduler: no list, no processor.
HandedBack == Held \cup Returned = busy /\ Held \cap Returned = {}

\* Both: every task is where the scheduler and its client believe it to be.
TasksAccounted == Tracks /\ HandedBack

\* sched.c:332: nothing is drawn while a frame waits to be shown, and no frame is
\* replaced before it was shown.
DrawsAfterSwap ==
  /\ rdp # NoTask => ~swapPending
  /\ pc = "swap" /\ EndsFrame(ending) => ~swapPending

\* No assertion of the scheduler fails.
NoAssert == ~halted

\* Every task that is submitted comes back.
TasksReturn == \A t \in Tasks : t \in busy ~> t \notin busy
==============================================================================
