------------------------------ MODULE WallClock ------------------------------
(***************************************************************************)
(* service->now_time_sec and the timestamps compared with it.  sync_time   *)
(* reads the wall clock, which may be set back, and every timer is the     *)
(* unsigned difference between now and a timestamp of 64 bits.             *)
(*                                                                         *)
(* A model keeps the signed difference, an age, within -1 .. cap: -1       *)
(* stands for every time ahead of the clock, cap for every age of at least *)
(* cap, so that stepping away from either end may as well stay there.      *)
(***************************************************************************)
EXTENDS Integers

\* What an age may be after the clock has moved by d seconds.
AgesAfter(age, d, cap) ==
  {a \in -1 .. cap : \/ a = age + d
                     \/ a = age /\ age = cap
                     \/ a = age /\ age = -1
                     \/ a = cap /\ age + d > cap
                     \/ a = -1 /\ age + d < -1}

\* now_time_sec - timestamp > limit, in words of `word` values.
IsOver(age, limit, word) == age % word > limit
==============================================================================
