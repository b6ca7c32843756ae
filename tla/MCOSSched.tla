------------------------------- MODULE MCOSSched -------------------------------
(***************************************************************************)
(* Small instances of OSSched: XBUS tasks g1 and g2, DRAM tasks h1 and h2, *)
(* audio tasks a1 and a2, a client for the graphics and one for the audio. *)
(***************************************************************************)
EXTENDS OSSched, TLC

CONSTANTS g1, g2, h1, h2, a1, a2, gc, ac

Kinds    == [t \in Tasks |-> CASE t \in {g1, g2} -> "XBUS" [] t \in {h1, h2} -> "DRAM"
                               [] OTHER -> "AUDIO"]
Owners   == [t \in Tasks |-> IF IsAudio(t) THEN ac ELSE gc]
OneOwner == [t \in Tasks |-> gc]
Frames   == {t \in Tasks : IsGfx(t)}

\* Graphics over the XBUS with audio, and graphics of both kinds without
EachMix == { {g1, g2, a1}, {g1, h1, h2} }
AnyMix  == SUBSET Tasks
================================================================================
