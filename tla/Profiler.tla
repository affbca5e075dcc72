------------------------------- MODULE Profiler -------------------------------
(***************************************************************************)
(* The frame-time profiler: a ring of the latest samples, and percentiles  *)
(* read from a sorted copy of it.                                          *)
(***************************************************************************)
EXTENDS Integers, Sequences, FiniteSets

CONSTANTS
    Samples,  \* frame times, in whole milliseconds
    Window    \* kWindow

ASSUME ConstantsAssumption == Samples \subseteq Nat /\ Window \in Nat \ {0}

VARIABLES
    samples,  \* samples_, from 1
    cursor    \* cursor_

vars == <<samples, cursor>>

TypeOK ==
    /\ samples \in Seq(Samples) /\ Len(samples) <= Window
    /\ cursor \in 0..(Window - 1)

Init == samples = <<>> /\ cursor = 0

AddSample(ms) ==
    /\ samples' = IF Len(samples) < Window THEN Append(samples, ms)
                  ELSE [samples EXCEPT ![cursor + 1] = ms]
    /\ cursor' = (cursor + 1) % Window

Reset_KeepsCursor == samples' = <<>> /\ UNCHANGED cursor
Reset == samples' = <<>> /\ cursor' = 0

Next == Reset \/ \E ms \in Samples : AddSample(ms)

Spec == Init /\ [][Next]_vars

-----------------------------------------------------------------------------
(* stats *)

Sorted == CHOOSE s \in [1..Len(samples) -> Samples] :
    /\ \A i \in 1..(Len(s) - 1) : s[i] <= s[i + 1]
    /\ \A x \in Samples : Cardinality({i \in DOMAIN s : s[i] = x})
                            = Cardinality({i \in DOMAIN samples : samples[i] = x})

Rank_Ceiling(pct) == (pct * Len(samples) + 99) \div 100
\* The index of quantile pct / 100: q * (n - 1) + 0.5 cut to an integer, and
\* no more than n - 1.
Rank(pct) ==
    LET i == (2 * pct * (Len(samples) - 1) + 100) \div 200
    IN  IF i < Len(samples) - 1 THEN i ELSE Len(samples) - 1

Pick(pct) == Sorted[Rank(pct) + 1]

-----------------------------------------------------------------------------
(* Properties *)

\* The comment on the class: a window of raw samples keeps a hitch visible.
\* The ring never loses the order in which it overwrites: read from the
\* cursor on it is the sliding window of the latest samples.
Latest ==
    IF Len(samples) < Window THEN samples
    ELSE SubSeq(samples, cursor + 1, Window) \o SubSeq(samples, 1, cursor)
Ring == INSTANCE SlidingWindow WITH latest <- Latest
SlidesOver == Ring!Spec

\* The percentiles reported are samples, in order, and no rank is outside
\* the sorted copy; at least the quantile's share of the samples below the
\* greatest lies at or under it.
PercentilesOrdered ==
    samples # <<>> =>
        /\ \A pct \in {50, 95, 99} : Rank(pct) \in 0..(Len(samples) - 1)
        /\ Pick(50) <= Pick(95) /\ Pick(95) <= Pick(99)
        /\ \A i \in DOMAIN samples : samples[i] <= Sorted[Len(samples)]
        /\ \A pct \in {50, 95, 99} :
              200 * Cardinality({i \in DOMAIN samples : samples[i] <= Pick(pct)})
                 > 2 * pct * (Len(samples) - 1)
=============================================================================
