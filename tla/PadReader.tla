------------------------------- MODULE PadReader -------------------------------
(***************************************************************************)
(* What the program is told of the pads (contreaddata.c): which buttons    *)
(* are held, by the map the program has set, and where the sticks are.  A  *)
(* GameCube pad says where its sticks are from 0 to 255, so that the first *)
(* answer of a pad is taken for its centre.  Which sort of pad is asked    *)
(* for is what the last query found (__osContGetInitData of controller.c). *)
(* The exchanges on the wire are those of SiController.                    *)
(***************************************************************************)
EXTENDS Integers

CONSTANTS
  Ports,        \* the first __osMaxControllers
  Positions,    \* of the sticks of a GameCube pad: axis -> 0..255
  Presses,      \* sets of buttons that are held at once
  ButtonMaps,   \* that the program may set
  SwapsUnseen,  \* a pad is exchanged for another between two readings
  Glitches,     \* the answer of a pad that is there may fail
  MaxPadMoves

Axes == {"stick_x", "stick_y", "c_stick_x", "c_stick_y"}
Directions == {"c_left", "c_right", "c_up", "c_down"}
Digital == {"a", "b", "start", "x", "y", "z", "r", "l", "up", "down", "left", "right"}
ButtonNames == Digital \cup Directions

\* What a GameCube pad sets besides its buttons
Origins == {"get_origin", "use_origin"}

ASSUME PadReaderAssumption ==
  /\ Positions \subseteq [Axes -> 0..255] /\ Presses \subseteq SUBSET (ButtonNames \cup Origins)
  /\ ButtonMaps \subseteq [button : [Digital -> ButtonNames], c : [Directions -> ButtonNames], deadzone : Nat]
  /\ {SwapsUnseen, Glitches} \subseteq BOOLEAN /\ MaxPadMoves \in Nat

VARIABLES
  padIn,      \* the pad in each port: "gcn", "n64" or "none"
  types,      \* __osControllerTypes
  centers,    \* __osControllerCenters
  contMap,    \* __osContCurButtonMap
  padData,    \* what the program was told last of each port
  held,       \* what the pad said then, and by which map        (history)
  restAt,       \* what it said first since it was put in          (history)
  polled,     \* the port was read since a pad was taken out     (history)
  padMoves

padReadVars == << padIn, types, centers, contMap, padData, held, restAt, polled, padMoves >>

\* __osDefaultControllerMap
DefaultMap ==
  [button |-> [b \in Digital |-> b], c |-> [d \in Directions |-> d], deadzone |-> 38]

Centre0 == [a \in Axes |-> 0]

PadInit ==
  /\ padIn \in [Ports -> {"gcn", "n64", "none"}]
  /\ types = [p \in Ports |-> IF padIn[p] = "gcn" THEN "gcn" ELSE "n64"]
  /\ centers = [p \in Ports |-> [initialized |-> FALSE, at |-> Centre0]]
  /\ contMap = DefaultMap
  /\ padData = [p \in Ports |-> [errno |-> TRUE, button |-> {}, stick |-> Centre0]]
  /\ held = [p \in Ports |-> [pad |-> "none", press |-> {}, at |-> Centre0, map |-> DefaultMap]]
  /\ restAt = [p \in Ports |-> [known |-> FALSE, at |-> Centre0]]
  /\ polled = [p \in Ports |-> TRUE] /\ padMoves = 0

------------------------------------------------------------------------------
ClampS8(n) == IF n < -128 THEN -128 ELSE IF n > 127 THEN 127 ELSE n

\* Where the C stick is pushed, beyond the dead zone
Pushed(stick, deadzone) ==
  {d \in Directions :
     \/ d = "c_right" /\ stick["c_stick_x"] > deadzone
     \/ d = "c_left" /\ stick["c_stick_x"] < -deadzone
     \/ d = "c_up" /\ stick["c_stick_y"] > deadzone
     \/ d = "c_down" /\ stick["c_stick_y"] < -deadzone}

\* __osTranslateGCNButtons
TranslateGCNButtons(map, press, stick) ==
  {map.button[b] : b \in press \cap Digital} \cup {map.c[d] : d \in Pushed(stick, map.deadzone)}

\* __osTranslateN64Buttons
TranslateN64Buttons(map, press) ==
  {map.button[b] : b \in press \cap (Digital \ {"x", "y"})} \cup {map.c[d] : d \in press \cap Directions}

\* Mutant: every answer is taken for the centre.
CenterAnew(center, at) == [initialized |-> TRUE, at |-> at]

\* The centre of a pad after it said that its sticks are at `at'
CenterOf(center, at) == IF center.initialized THEN center ELSE [initialized |-> TRUE, at |-> at]

FromCenter(center, at) == [a \in Axes |-> ClampS8(at[a] - center.at[a])]

\* The stick of the other pads is as it says; it is left out.
DataOf(type, map, center, said) ==
  LET stick == IF type = "gcn" THEN FromCenter(CenterOf(center, said.at), said.at) ELSE Centre0
  IN [errno |-> FALSE, stick |-> stick,
      button |-> IF type = "gcn" THEN TranslateGCNButtons(map, said.press, stick)
                 ELSE TranslateN64Buttons(map, said.press)]

\* osContStartReadData and osContGetReadData: a pad answers to what it is asked as what it is,
\* and of a port without an answer the program is told the error and no more.
ReadPads(good, said) ==
  LET Ok(p) == p \in good
  IN /\ padMoves < MaxPadMoves /\ padMoves' = padMoves + 1
     /\ good \subseteq {p \in Ports : padIn[p] = types[p]}
     /\ Glitches \/ good = {p \in Ports : padIn[p] = types[p]}
     /\ centers' = [p \in Ports |->
          IF types[p] # "gcn" THEN centers[p]
          ELSE IF Ok(p) THEN CenterOf(centers[p], said[p].at)
          ELSE [centers[p] EXCEPT !.initialized = FALSE]]
     /\ padData' = [p \in Ports |->
          IF Ok(p) THEN DataOf(types[p], contMap, centers[p], said[p]) ELSE [padData[p] EXCEPT !.errno = TRUE]]
     /\ held' = [p \in Ports |->
          IF Ok(p) THEN [pad |-> padIn[p], press |-> said[p].press, at |-> said[p].at, map |-> contMap]
          ELSE held[p]]
     /\ restAt' = [p \in Ports |-> IF Ok(p) /\ ~restAt[p].known THEN [known |-> TRUE, at |-> said[p].at] ELSE restAt[p]]
     /\ polled' = [p \in Ports |-> TRUE]
     /\ UNCHANGED << padIn, types, contMap >>

\* osContStartQuery and osContGetQuery: the type of a port without a pad stays.
QueryPads ==
  /\ padMoves < MaxPadMoves /\ padMoves' = padMoves + 1
  /\ types' = [p \in Ports |-> IF padIn[p] = "none" THEN types[p] ELSE padIn[p]]
  /\ UNCHANGED << padIn, centers, contMap, padData, held, restAt, polled >>

\* osContSetControllerMap, and osContResetControllerMap for the map there was at first
SetControllerMap(map) ==
  /\ padMoves < MaxPadMoves /\ padMoves' = padMoves + 1 /\ contMap' = map
  /\ UNCHANGED << padIn, types, centers, padData, held, restAt, polled >>

\* The user takes a pad out, or puts one in.
MovePad(p, pad) ==
  /\ padMoves < MaxPadMoves /\ padMoves' = padMoves + 1
  /\ (padIn[p] = "none") = (pad # "none") /\ (SwapsUnseen \/ pad = "none" \/ polled[p])
  /\ padIn' = [padIn EXCEPT ![p] = pad]
  /\ polled' = [polled EXCEPT ![p] = pad # "none" /\ @]
  /\ restAt' = [restAt EXCEPT ![p].known = FALSE]
  /\ UNCHANGED << types, centers, contMap, padData, held >>

PadNext ==
  \/ \E good \in SUBSET Ports, said \in [Ports -> [press : Presses, at : Positions]] : ReadPads(good, said)
  \/ QueryPads
  \/ \E map \in ButtonMaps \cup {DefaultMap} : SetControllerMap(map)
  \/ \E p \in Ports, pad \in {"gcn", "n64", "none"} : MovePad(p, pad)

PadSpec == PadInit /\ [][PadNext]_padReadVars

------------------------------------------------------------------------------
\* The sticks of a GameCube pad are told from where they were when that pad was first read, and
\* not from where those of the pad before it were.
SticksTrue ==
  \A p \in Ports :
    ~padData[p].errno /\ held[p].pad = "gcn" /\ restAt[p].known =>
      \A a \in Axes : padData[p].stick[a] = ClampS8(held[p].at[a] - restAt[p].at[a])

\* Without a map of the program the buttons are those that are held: none is lost, none comes of
\* another, and the C stick is never pushed both ways.
ButtonsTrue ==
  \A p \in Ports :
    ~padData[p].errno /\ held[p].map = DefaultMap =>
      /\ held[p].pad = "n64" =>
           padData[p].button = held[p].press \ (Origins \cup {"x", "y"})
      /\ held[p].pad = "gcn" =>
           /\ padData[p].button \cap Digital = held[p].press \cap Digital
           /\ padData[p].button \subseteq ButtonNames
           /\ ~({"c_left", "c_right"} \subseteq padData[p].button)
           /\ ~({"c_up", "c_down"} \subseteq padData[p].button)

\* What the program is told of the pads is what they say (osContGetReadData).
PadsTrue == SticksTrue /\ ButtonsTrue
===================================================================================
