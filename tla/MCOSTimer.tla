------------------------------- MODULE MCOSTimer -------------------------------
(***************************************************************************)
(* Small instances of OSTimer: a Count register of 4 or 8 values, one-shot *)
(* and periodic timers, one of them longer than the register.              *)
(***************************************************************************)
EXTENDS OSTimer

ManySettings == { <<0, 2>>, <<0, 0>>, <<5, 0>> }
FewSettings  == { <<0, 2>>, <<3, 0>>, <<5, 0>> }

Interchangeable == Permutations(Timers)

\* stoptimer.c:17 refuses a timer that is not active ("if (t->next == NULL) return
\* -1"), so what follows finds the timer in the list.
StopsActiveOnly == ~crashed
================================================================================
