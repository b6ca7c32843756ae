--------------------------------- MODULE VoiceUnit ---------------------------------
(***************************************************************************)
(* The voice recognition unit (voice/): starting and stopping recognition, *)
(* fetching its result in pieces, its gain and dictionary, and the words   *)
(* and masks that are sent.                                                *)
(*                                                                         *)
(* The unit hears, comes to an end and gets ready again by itself, and any *)
(* transfer may fail, before or after the unit took it.  A handle is used  *)
(* by one thread; osVoiceGetReadData goes on where it was when it is       *)
(* called again, and so its transfers are steps of their own.  How a       *)
(* transfer shares the serial interface, and what a wrong checksum leads   *)
(* to, is modelled in SiController.                                        *)
(***************************************************************************)
EXTENDS Integers, Sequences, FiniteSets

CONSTANTS
  Units,          \* handles, each of a unit of its own
  WordBytes,      \* lengths of words, without the zeros behind
  MaskBytes,      \* lengths of masks
  Gains,          \* digital gains, of which 0 to 7 are valid
  MaxHeard, MaxVoiceFaults

ASSUME VoiceAssumption ==
  /\ WordBytes \subseteq {2 * n : n \in 1..16} /\ MaskBytes \subseteq 1..18
  /\ {MaxHeard, MaxVoiceFaults} \subseteq Nat

VARIABLES
  vmode,     \* __mode
  vseen,     \* c, the static variable of osVoiceGetReadData
  vstep,     \* where its call is
  unit,      \* what the unit does and how often it has started to hear
  record,    \* the status in the result that was read
  began,     \* the recognition the program started last, 0 for none     (history)
  given,     \* the recognition whose result the program has, 0 for none   (history)
  unknown,   \* a transfer failed after the unit took it              (history)
  wrong,     \* a result was old, or given before the unit was ready   (history)
  gain,      \* the unit's analog and digital gain
  words,     \* the words its dictionary is for, 0 before it was cleared
  sent,      \* the last word or mask and the bytes that were sent
  vfaults

voiceVars == << vmode, vseen, vstep, unit, record, began, given, unknown, wrong,
  gain, words, sent,
  vfaults >>

VoiceInit ==
  /\ vmode = [h \in Units |-> 0] /\ vstep = [h \in Units |-> "out"] /\ vseen = 0
  /\ unit = [h \in Units |-> [does |-> "ready", heard |-> 0]] /\ record = [h \in Units |-> 0]
  /\ began = [h \in Units |-> 0] /\ given = [h \in Units |-> 0]
  /\ gain = [h \in Units |-> << 1, 0 >>] /\ words = [h \in Units |-> 0]
  /\ unknown = [h \in Units |-> FALSE] /\ wrong = FALSE /\ sent = << >> /\ vfaults = 0

------------------------------------------------------------------------------
\* VOICE_STATUS_READY, START and BUSY, CANCEL, END
Status(h) ==
  CASE unit[h].does = "ready"   -> 0
    [] unit[h].does = "hears"   -> 5
    [] unit[h].does = "cancels" -> 3
    [] unit[h].does = "end"     -> 7

\* The unit by itself
UnitGoesOn(h) ==
  /\ \/ unit[h].does = "hears" /\ unit' = [unit EXCEPT ![h].does = "end"]
     \/ unit[h].does = "cancels" /\ unit' = [unit EXCEPT ![h].does = "ready"]
     \/ unit[h].does = "end" /\ vmode[h] > 2 /\ unit' = [unit EXCEPT ![h].does = "ready"]
  /\ UNCHANGED << vmode, vseen, vstep, record, began, given, unknown, wrong, gain, words, sent, vfaults >>

\* The transfers.  What the channel reports gives one up at once; the unit may have taken
\* the bytes of a write before.
Transfer(ok) == IF ok THEN UNCHANGED vfaults ELSE vfaults < MaxVoiceFaults /\ vfaults' = vfaults + 1
GetStatus(ok)      == Transfer(ok)
Read2(ok)          == Transfer(ok)
Read36(ok)         == Transfer(ok)
Write4(ok)         == Transfer(ok)
Write20(ok)        == Transfer(ok)
SetADConverter(ok) == Transfer(ok)

\* __osVoiceCheckResult: the status and the two bytes of the last command's result
CheckResult(ok) == Read2(ok)

Idle0(h) == vstep[h] = "out"

------------------------------------------------------------------------------
(* Start and stop.  A call that finds the unit not ready, or whose status     *)
(* transfer fails, changes nothing.                                           *)

\* What the unit does with the command; an error is answered when it is not ready.
Starts0(h) ==
  IF unit[h].does = "ready" THEN [does |-> "hears", heard |-> unit[h].heard + 1] ELSE unit[h]

\* osVoiceStartReadData: after the command is taken only an error of the unit, and no
\* error of a transfer, keeps the mode.
StartReadData(h) ==
  /\ Idle0(h) /\ vmode[h] = 0 /\ unit[h].heard < MaxHeard
  /\ unit' = [unit EXCEPT ![h] = Starts0(h)]
  /\ \/ /\ \/ unit[h].does = "ready" /\ CheckResult(TRUE) /\ UNCHANGED unknown
           \/ CheckResult(FALSE) /\ unknown' = [unknown EXCEPT ![h] = TRUE]
        /\ vmode' = [vmode EXCEPT ![h] = 1] /\ began' = [began EXCEPT ![h] = unit'[h].heard]
     \/ unit[h].does # "ready" /\ CheckResult(TRUE) /\ UNCHANGED << vmode, began, unknown >>
     \/ Write4(FALSE) /\ unknown' = [unknown EXCEPT ![h] = TRUE] /\ UNCHANGED << vmode, began >>
  /\ UNCHANGED << vseen, vstep, record, given, wrong, gain, words, sent >>

\* osVoiceStopReadData: once the command was taken the mode is 0, whatever is answered.
StopReadData(h) ==
  /\ Idle0(h) /\ vmode[h] # 0
  /\ unit' = [unit EXCEPT ![h].does = CASE @ = "hears" -> "cancels" [] @ = "end" -> "ready" [] OTHER -> @]
  /\ \/ (\E ok \in BOOLEAN : CheckResult(ok)) /\ vmode' = [vmode EXCEPT ![h] = 0]
     \/ Write4(FALSE) /\ UNCHANGED vmode
  /\ UNCHANGED << vseen, vstep, record, began, given, unknown, wrong, gain, words, sent >>

\* osVoiceInit: the unit is reset, and the command that makes it ready may be lost.
VoiceReset(h) ==
  /\ Idle0(h) /\ vmode' = [vmode EXCEPT ![h] = 0]
  /\ \/ /\ Write4(TRUE) /\ unit' = [unit EXCEPT ![h].does = "ready"]
        /\ gain' = [gain EXCEPT ![h] = << 1, 0 >>] /\ unknown' = [unknown EXCEPT ![h] = FALSE]
     \/ /\ SetADConverter(FALSE) /\ unknown' = [unknown EXCEPT ![h] = TRUE]
        /\ UNCHANGED << unit, gain >>
  /\ UNCHANGED << vseen, vstep, record, began, given, wrong, words, sent >>

\* osVoiceControlGain: the analog gain is set before the digital one is looked at.
ControlGain(h, analog, digital) ==
  /\ Idle0(h)
  /\ \/ digital \in 0..7 /\ SetADConverter(TRUE) /\ gain' = [gain EXCEPT ![h] = << analog, digital >>]
     \/ /\ digital \in 0..7 => SetADConverter(FALSE)
        /\ digital \notin 0..7 => SetADConverter(TRUE)
        /\ gain' = [gain EXCEPT ![h][1] = analog]
  /\ UNCHANGED << vmode, vseen, vstep, unit, record, began, given, unknown, wrong, words, sent >>

\* osVoiceClearDictionary
ClearDictionary(h, n) ==
  /\ Idle0(h) /\ unit[h].does = "ready"
  /\ (\E ok \in BOOLEAN : CheckResult(ok)) /\ words' = [words EXCEPT ![h] = n]
  /\ UNCHANGED << vmode, vseen, vstep, unit, record, began, given, unknown, wrong, gain, sent >>

------------------------------------------------------------------------------
(* osVoiceGetReadData                                                         *)

Leaves(h) == vstep' = [vstep EXCEPT ![h] = "out"]

\* The call begins where the last one ended.
GetReadData(h) ==
  /\ Idle0(h) /\ vmode[h] # 0
  /\ vstep' = [vstep EXCEPT ![h] = << "ended", "order", "read", "wait" >>[vmode[h]]]
  /\ UNCHANGED << vmode, vseen, unit, record, began, given, unknown, wrong, gain, words, sent, vfaults >>

\* Mutant: a unit that still hears is asked for its result.
EndedOrNot(h) ==
  /\ vstep[h] = "ended"
  /\ \/ Read2(FALSE) /\ Leaves(h) /\ UNCHANGED << vmode, vseen >>
     \/ /\ Read2(TRUE) /\ vseen' = Status(h) /\ vstep' = [vstep EXCEPT ![h] = "order"]
        /\ vmode' = [vmode EXCEPT ![h] = 2]
  /\ UNCHANGED << unit, record, began, given, unknown, wrong, gain, words, sent >>

\* Mode 1: has the recognition ended?
Ended(h) ==
  /\ vstep[h] = "ended"
  /\ \/ Read2(FALSE) /\ Leaves(h) /\ UNCHANGED << vmode, vseen >>
     \/ /\ Read2(TRUE) /\ vseen' = Status(h)
        /\ IF vseen' \in {0, 7}
           THEN vstep' = [vstep EXCEPT ![h] = "order"] /\ vmode' = [vmode EXCEPT ![h] = 2]
           ELSE Leaves(h) /\ UNCHANGED vmode
  /\ UNCHANGED << unit, record, began, given, unknown, wrong, gain, words, sent >>

\* Mode 2: the result is ordered; ordering it again does no harm.
Order(h) ==
  /\ vstep[h] = "order"
  /\ \/ Write4(FALSE) /\ Leaves(h) /\ UNCHANGED vmode
     \/ Write4(TRUE) /\ vstep' = [vstep EXCEPT ![h] = "read"] /\ vmode' = [vmode EXCEPT ![h] = 3]
  /\ UNCHANGED << vseen, unit, record, began, given, unknown, wrong, gain, words, sent >>

Done0(h, old) ==
  Leaves(h) /\ vmode' = [vmode EXCEPT ![h] = 0] /\ wrong' = (wrong \/ old \/ unit[h].does # "ready")

\* Mode 3: the result with the status of the unit; there is no wait for a unit that was
\* seen ready.
ReadResult(h) ==
  /\ vstep[h] = "read"
  /\ \/ Read36(FALSE) /\ Leaves(h) /\ UNCHANGED << vmode, record, given, wrong >>
     \/ /\ Read36(TRUE) /\ record' = [record EXCEPT ![h] = Status(h)]
        /\ given' = [given EXCEPT ![h] = unit[h].heard]
        /\ LET old == ~unknown[h] /\ (given[h] = unit[h].heard \/ began[h] # unit[h].heard)
           IN IF vseen = 0 \/ record'[h] = 0 THEN Done0(h, old)
              ELSE /\ vstep' = [vstep EXCEPT ![h] = "wait"] /\ vmode' = [vmode EXCEPT ![h] = 4]
                   /\ wrong' = (wrong \/ old)
  /\ UNCHANGED << vseen, unit, began, unknown, gain, words, sent >>

\* Mode 4: is the unit ready again?
WaitReady(h) ==
  /\ vstep[h] = "wait"
  /\ \/ Read2(FALSE) /\ Leaves(h) /\ UNCHANGED << vmode, wrong >>
     \/ Read2(TRUE) /\ IF Status(h) # 0 THEN Leaves(h) /\ UNCHANGED << vmode, wrong >> ELSE Done0(h, FALSE)
  /\ UNCHANGED << vseen, unit, record, began, given, unknown, gain, words, sent >>

------------------------------------------------------------------------------
(* Words and masks: the bytes of a command, of which the last 20 or all 40 are sent *)

Zeros(n) == [i \in 1..n |-> 0]

\* A word with the bytes of each of its characters swapped
Swapped(k) == [i \in 1..k |-> << "w", IF i % 2 = 1 THEN i + 1 ELSE i - 1 >>]

\* osVoiceSetWord: buf is counted from 0.
WordBuffer(k) ==
  [i \in 1..40 |->
     CASE i - 1 = 40 - 1 - k - 5 -> 3
       [] i - 1 \in (40 - 1 - k - 1)..(40 - 1 - k + (k - 2)) ->
            LET j == (i - 1) - (40 - 1 - k) IN << "w", IF j % 2 = 0 THEN j + 1 ELSE j + 3 >>
       [] OTHER -> 0]

SetWord(h, k) ==
  /\ Idle0(h) /\ k < 34
  /\ \/ Write20(FALSE) /\ UNCHANGED sent
     \/ /\ Write20(TRUE)
        /\ sent' = << 3, k, IF k >= 15 THEN WordBuffer(k) ELSE SubSeq(WordBuffer(k), 21, 40) >>
  /\ UNCHANGED << vmode, vseen, vstep, unit, record, began, given, unknown, wrong, gain, words >>

\* osVoiceMaskDictionary
MaskDictionary(h, size) ==
  LET j == size + (size % 2)
  IN /\ Idle0(h) /\ Write20(TRUE)
     /\ sent' = << 4, size,
          [i \in 1..20 |-> CASE i - 1 = 18 - j -> 4
                             [] i = 20 /\ size % 2 = 1 -> 0
                             [] i - 1 >= 20 - j -> << "w", i - (20 - j) >>
                             [] OTHER -> 0] >>
     /\ UNCHANGED << vmode, vseen, vstep, unit, record, began, given, unknown, wrong, gain, words >>

VoiceNext ==
  \E h \in Units :
    \/ UnitGoesOn(h) \/ StartReadData(h) \/ StopReadData(h) \/ VoiceReset(h)
    \/ GetReadData(h) \/ Ended(h) \/ Order(h) \/ ReadResult(h) \/ WaitReady(h)
    \/ \E analog \in {0, 1}, digital \in Gains : ControlGain(h, analog, digital)
    \/ \E n \in {255} : ClearDictionary(h, n)
    \/ \E k \in WordBytes : SetWord(h, k)
    \/ \E size \in MaskBytes : MaskDictionary(h, size)

------------------------------------------------------------------------------
\* The command begins, with nothing but zeros before it, in a block that is sent, and
\* all of the word or mask follows it.
SentWhole ==
  sent # << >> =>
    LET n == sent[2]  bytes == sent[3]
        command == IF sent[1] = 3 THEN << 3, 0, 0, 0 >> \o Swapped(n) \o << 0, 0 >>
                   ELSE << 4, 0 >> \o [i \in 1..n |-> << "w", i >>] \o Zeros(n % 2)
    IN bytes = Zeros(Len(bytes) - Len(command)) \o command

\* However calls and failed transfers follow each other, a handle whose mode is 0 has no
\* unit that hears, unless the start itself was answered by an error; the program is given
\* the results of its recognitions, each from a unit that has ended it, in their order;
\* after a result the unit is ready; and words and masks are sent whole
\* (osVoiceStartReadData, osVoiceGetReadData, osVoiceStopReadData, osVoiceSetWord).
VoiceInStep ==
  /\ \A h \in Units : Idle0(h) /\ vmode[h] = 0 /\ ~unknown[h] => unit[h].does # "hears"
  /\ \A h \in Units : vmode[h] > 1 /\ ~unknown[h] => unit[h].does \in {"end", "ready"}
  /\ ~wrong
  /\ SentWhole

------------------------------------------------------------------------------
(***************************************************************************)
(* The words of the voice recognition unit: which ones it can register     *)
(* (osVoiceCheckWord) and how much of its dictionary they take             *)
(* (osVoiceCountSyllables).                                                *)
(*                                                                         *)
(* Both walk over a word with the last kana in hand.  Two spellings of one *)
(* word are walked over at once: in hiragana, and with each kana in either *)
(* script.  A kana is named by its sound, in capitals in katakana, with an *)
(* X in front of a small one; "-" is the long sound.                       *)
(***************************************************************************)


CONSTANT MaxKana

VARIABLES
  spelt,      \* the number of kana
  last2,      \* old: the last kana of the two spellings, "" before the first
  refused,    \* ret: osVoiceCheckWord refused a kana of the spelling
  syllables   \* what osVoiceCountSyllables counted

wordVars == << spelt, last2, refused, syllables >>

\* The kana in the order of their codes; the last three are in katakana only.
Hiragana == << "xa", "a", "xi", "i", "xu", "u", "xe", "e", "xo", "o", "ka", "ga", "ki", "gi", "ku",
  "gu", "ke", "ge", "ko", "go", "sa", "za", "si", "zi", "su", "zu", "se", "ze", "so", "zo", "ta",
  "da", "ti", "di", "xtu", "tu", "du", "te", "de", "to", "do", "na", "ni", "nu", "ne", "no", "ha",
  "ba", "pa", "hi", "bi", "pi", "hu", "bu", "pu", "he", "be", "pe", "ho", "bo", "po", "ma", "mi",
  "mu", "me", "mo", "xya", "ya", "xyu", "yu", "xyo", "yo", "ra", "ri", "ru", "re", "ro", "xwa",
  "wa", "wi", "we", "wo", "n" >>
Katakana == << "XA", "A", "XI", "I", "XU", "U", "XE", "E", "XO", "O", "KA", "GA", "KI", "GI", "KU",
  "GU", "KE", "GE", "KO", "GO", "SA", "ZA", "SI", "ZI", "SU", "ZU", "SE", "ZE", "SO", "ZO", "TA",
  "DA", "TI", "DI", "XTU", "TU", "DU", "TE", "DE", "TO", "DO", "NA", "NI", "NU", "NE", "NO", "HA",
  "BA", "PA", "HI", "BI", "PI", "HU", "BU", "PU", "HE", "BE", "PE", "HO", "BO", "PO", "MA", "MI",
  "MU", "ME", "MO", "XYA", "YA", "XYU", "YU", "XYO", "YO", "RA", "RI", "RU", "RE", "RO", "XWA",
  "WA", "WI", "WE", "WO", "N", "VU", "XKA", "XKE" >>

\* The kana between the bounds that osVoiceCheckWord tests, without the gap at 0x837F
IsKana(x) ==
  x = "-" \/ (\E i \in DOMAIN Hiragana : x = Hiragana[i]) \/ (\E i \in DOMAIN Katakana : x = Katakana[i])

------------------------------------------------------------------------------
(* osVoiceCheckWord                                                           *)

NeverFirst == {"-", "n", "xtu", "xwa", "N", "XTU", "XWA", "XKA", "XKE"}

\* What a small kana may stand behind
SmallA == {"hu", "HU", "VU"}
SmallI == {"u", "te", "de", "hu", "U", "TE", "DE", "HU", "VU"}
SmallU == {"to", "do", "hu", "TO", "DO", "HU", "VU"}
SmallE == {"u", "si", "zi", "ti", "di", "tu", "hu", "U", "SI", "ZI", "TI", "DI", "TU", "HU", "VU"}
SmallO == {"u", "hu", "U", "HU", "VU"}
SmallY == {"ki", "si", "ti", "ni", "hi", "mi", "ri", "gi", "zi", "di", "bi", "pi",
           "KI", "SI", "TI", "NI", "HI", "MI", "RI", "GI", "ZI", "DI", "BI", "PI", "VU"}

\* What may not stand behind a small tu
NotDoubled ==
  {"-", "a", "i", "u", "e", "o", "na", "ni", "nu", "ne", "no", "ma", "mi", "mu", "me", "mo", "ya",
   "yu", "yo", "ra", "ri", "ru", "re", "ro", "wa", "wi", "we", "wo", "n", "xa", "xi", "xu", "xe",
   "xo", "xya", "xyu", "xyo", "xtu", "xwa",
   "A", "I", "U", "E", "O", "NA", "NI", "NU", "NE", "NO", "MA", "MI", "MU", "ME", "MO", "YA", "YU",
   "YO", "RA", "RI", "RU", "RE", "RO", "WA", "WI", "WE", "WO", "N", "XA", "XI", "XU", "XE", "XO",
   "XYA", "XYU", "XYO", "XTU", "XWA"}

Refuses(x, old) ==
  \/ ~IsKana(x)
  \/ old = "" /\ x \in NeverFirst
  \/ x \in {"xa", "XA"} /\ old \notin SmallA
  \/ x \in {"xi", "XI"} /\ old \notin SmallI
  \/ x \in {"xu", "XU"} /\ old \notin SmallU
  \/ x \in {"xe", "XE"} /\ old \notin SmallE
  \/ x \in {"xo", "XO"} /\ old \notin SmallO
  \/ x \in {"xya", "xyu", "xyo", "XYA", "XYU", "XYO"} /\ old \notin SmallY
  \/ x = "-" /\ old \in {"n", "xtu", "N", "XTU"}
  \/ x \in {"n", "N"} /\ old \in {"n", "N"}
  \/ old \in {"xtu", "XTU"} /\ x \in NotDoubled

\* The verdict on a word: no kana was refused and it does not end in a small tu.
CheckWord(s) == ~refused[s] /\ last2[s] \notin {"xtu", "XTU"}

------------------------------------------------------------------------------
(* osVoiceCountSyllables                                                      *)

Vowels == {"a", "i", "u", "e", "o", "A", "I", "U", "E", "O"}
Stops  == {"ka", "ki", "ku", "ke", "ko", "ta", "ti", "tu", "te", "to", "pa", "pi", "pu", "pe", "po",
           "KA", "KI", "KU", "KE", "KO", "TA", "TI", "TU", "TE", "TO", "PA", "PI", "PU", "PE", "PO"}
Smalls == {"xa", "xi", "xu", "xe", "xo", "xya", "xyu", "xyo", "xwa",
           "XA", "XI", "XU", "XE", "XO", "XYA", "XYU", "XYO", "XWA", "XKA", "XKE"}

Adds(x, old) ==
  CASE x \in Vowels -> IF old = "" THEN 2 ELSE 1
    [] x \in Stops  -> IF old \in {"", "xtu", "XTU"} THEN 2 ELSE 3
    [] x \in Smalls -> IF old \in Vowels THEN 1 ELSE 0
    [] x \in {"n", "-", "xtu", "N", "XTU"} -> 1
    [] OTHER -> 2

------------------------------------------------------------------------------

WordInit ==
  /\ spelt = 0 /\ last2 = << "", "" >> /\ refused = << FALSE, FALSE >> /\ syllables = << 1, 1 >>

\* The two spellings go on; a word that was refused is left.
Spell(x, y) ==
  LET next == << x, y >>
  IN /\ spelt < MaxKana /\ refused = << FALSE, FALSE >>
     /\ spelt' = spelt + 1 /\ last2' = next
     /\ refused' = [s \in {1, 2} |-> Refuses(next[s], last2[s])]
     /\ syllables' = [s \in {1, 2} |-> syllables[s] + Adds(next[s], last2[s])]

SpellKana ==
  \/ \E i \in DOMAIN Hiragana : \E y \in {Hiragana[i], Katakana[i]} : Spell(Hiragana[i], y)
  \/ \E i \in DOMAIN Katakana \ DOMAIN Hiragana : Spell(Katakana[i], Katakana[i])
  \/ Spell("-", "-")

WordNext == SpellKana

------------------------------------------------------------------------------
\* However the kana of a word are spelt, the word is as good and takes as much of the
\* dictionary as in hiragana, with one part for each kana at most three times, and a word
\* that may be registered is never counted as less than it begins with
\* (osVoiceCheckWord, osVoiceCountSyllables).
ScriptsAlike ==
  /\ CheckWord(1) = CheckWord(2)
  /\ syllables[1] = syllables[2]
  /\ CheckWord(1) /\ spelt > 0 => syllables[1] \in 3..(3 * spelt + 1)
==============================================================================
