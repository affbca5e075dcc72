-------------------------------- MODULE Sweep --------------------------------
(***************************************************************************)
(* The swap-and-pop loop of ParticleSystem::update, which Arena::update    *)
(* runs over the bullets in the same form: every element is aged, and one  *)
(* that is done is overwritten by the last of the vector, which is popped. *)
(* One pass of the loop body is one step.                                  *)
(***************************************************************************)
EXTENDS Integers, Sequences

CONSTANTS
    Ids,       \* names for the elements, to tell them apart
    MaxLife,   \* bound: the life an element starts with, in ticks
    MaxDt,     \* kMaxDt
    Capacity   \* capacity

ASSUME PoolAssumption == {MaxLife, MaxDt, Capacity} \subseteq Nat \ {0}

VARIABLES
    live,    \* the vector, from 1
    at,      \* i, the loop's index, or 0 when no loop runs
    dt,      \* the dt of the running loop
    before   \* the life each element had when the loop began, or 0

poolVars == <<live, at, dt, before>>

Elements == [id : Ids, life : 1..MaxLife]

PoolTypeOK ==
    /\ live \in Seq([id : Ids, life : Int])
    /\ at \in 0..(Capacity + 1)
    /\ dt \in 0..MaxDt
    /\ before \in [Ids -> 0..MaxLife]

PoolInit ==
    /\ live = <<>>
    /\ at = 0
    /\ dt = 0
    /\ before = [d \in Ids |-> 0]

Present == {live[k].id : k \in DOMAIN live}
LifeNow(d) == IF d \in Present THEN (live[CHOOSE k \in DOMAIN live : live[k].id = d]).life ELSE 0

HasRoom == Len(live) < Capacity

\* One turn of burst: a particle is added unless the pool is full.
Spawn(e) ==
    /\ at = 0
    /\ e.id \notin Present
    /\ HasRoom
    /\ live' = Append(live, e)
    /\ UNCHANGED <<at, dt, before>>

Begin(step) ==
    /\ at = 0
    /\ at' = 1
    /\ dt' = step
    /\ before' = [d \in Ids |-> LifeNow(d)]
    /\ UNCHANGED live

Aged == [live EXCEPT ![at].life = @ - dt]

ButLast(s) == SubSeq(s, 1, Len(s) - 1)

Remove_NoPop ==
    /\ at \in 1..Len(live)
    /\ Aged[at].life <= 0
    /\ live' = [Aged EXCEPT ![at] = Aged[Len(live)]]
    /\ at' = at + 1
    /\ UNCHANGED <<dt, before>>
\* The element now at at has come from the end and is yet to be aged: at stays.
Remove ==
    /\ at \in 1..Len(live)
    /\ Aged[at].life <= 0
    /\ live' = ButLast([Aged EXCEPT ![at] = Aged[Len(live)]])
    /\ UNCHANGED <<at, dt, before>>

Keep_Stays ==
    /\ at \in 1..Len(live)
    /\ Aged[at].life > 0
    /\ UNCHANGED poolVars
Keep ==
    /\ at \in 1..Len(live)
    /\ Aged[at].life > 0
    /\ live' = Aged
    /\ at' = at + 1
    /\ UNCHANGED <<dt, before>>

End_LastUnaged ==
    /\ at >= Len(live) /\ at > 0
    /\ at' = 0
    /\ UNCHANGED <<live, dt, before>>
End ==
    /\ at > Len(live)
    /\ at' = 0
    /\ UNCHANGED <<live, dt, before>>

PoolNext ==
    \/ \E e \in Elements : Spawn(e)
    \/ \E step \in 1..MaxDt : Begin(step)
    \/ Remove \/ Keep \/ End

PoolSpec == PoolInit /\ [][PoolNext]_poolVars

FairPoolSpec == PoolSpec /\ WF_poolVars(Remove \/ Keep \/ End)

-----------------------------------------------------------------------------
(* Properties *)

\* While the loop runs the elements before at have been aged once and live,
\* those from at on are untouched, and those that are gone had to go.
SweptOnce ==
    at > 0 =>
        /\ \A k \in DOMAIN live :
              live[k].life = before[live[k].id] - (IF k < at THEN dt ELSE 0) /\ live[k].life > 0
        /\ \A d \in Ids \ Present : before[d] <= dt

\* The pool never outgrows its capacity, the size of the vertex buffer that
\* render fills from it, and holds no element twice: the copy that swap-and-pop
\* takes from the end and the original never both stay.
PoolSound ==
    /\ PoolTypeOK /\ SweptOnce
    /\ Len(live) <= Capacity
    /\ \A j, k \in DOMAIN live : j # k => live[j].id # live[k].id

\* A loop that ends has aged every element exactly once and removed exactly
\* those whose life has run out.
SweepsAll ==
    [][at > 0 /\ at' = 0 =>
          \A d \in Ids : LifeNow(d) = (IF before[d] > dt THEN before[d] - dt ELSE 0)]_poolVars

\* The loop ends.
SweepEnds == at > 0 ~> at = 0
=============================================================================
