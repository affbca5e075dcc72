---------------------------- MODULE SlidingWindow ----------------------------
(***************************************************************************)
(* What a Profiler promises: the latest samples, up to the window's size,  *)
(* in the order they came.                                                 *)
(***************************************************************************)
EXTENDS Integers, Sequences

CONSTANTS Samples, Window

VARIABLE latest

Init == latest = <<>>

Add(x) ==
    latest' = IF Len(latest) < Window THEN Append(latest, x) ELSE Append(Tail(latest), x)

Reset == latest' = <<>>

Next == Reset \/ \E x \in Samples : Add(x)

Spec == Init /\ [][Next]_latest
=============================================================================
