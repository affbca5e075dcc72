----------------------------- MODULE EngineProofs -----------------------------
(***************************************************************************)
(* Proofs about the engine: the pool of particles, the mesh handles and    *)
(* the shapes they draw, the profiler and the renderer.  The parts share   *)
(* no state, and each theorem is about the specification of one of them.   *)
(*                                                                         *)
(* - PoolInv: a sweep has aged the slots before its cursor by one tick and *)
(*   no other; what has left the pool had no more to live than that tick.  *)
(* - GpuInv: the handles of different objects are disjoint, and an object  *)
(*   with a shape holds the handles that its draw call reads.              *)
(* - RingInv: until the ring is full its cursor is where the next sample   *)
(*   is appended.                                                          *)
(* - RenderInv: the frustum in use is that of the attitude and position    *)
(*   the frame draws, what was skipped is outside one of its planes, and   *)
(*   the axes of the ship stay perpendicular and of length one.            *)
(*                                                                         *)
(* CulledIsInvisible follows from the last one by geometry: each plane is  *)
(* non-negative on every point the projection puts on the screen, and a    *)
(* sphere outside of it is outside with every point, by Cauchy-Schwarz.    *)
(* A surface is closed when no edge is in two triangles the same way       *)
(* (Parted) and each is in one the other way (Backed).                     *)
(***************************************************************************)
EXTENDS Renderer, Sweep, Mesh, FiniteSetTheorems, FunctionTheorems, TLAPS

-----------------------------------------------------------------------------
(* The pool of particles *)

Pools == Seq([id : Ids, life : Int])

Distinct(s) == \A j, k \in 1..Len(s) : j # k => s[j].id # s[k].id

PoolInv ==
    /\ live \in Pools /\ Len(live) <= Capacity /\ Distinct(live)
    /\ at \in 0..(Len(live) + 1) /\ dt \in 0..MaxDt /\ before \in [Ids -> 0..MaxLife]
    /\ \A k \in 1..Len(live) : live[k].life > 0 /\ live[k].life <= MaxLife
    /\ at > 0 =>
        /\ \A k \in 1..Len(live) : live[k].life = before[live[k].id] - (IF k < at THEN dt ELSE 0)
        /\ \A d \in Ids : (\A k \in 1..Len(live) : live[k].id # d) => before[d] <= dt

LEMMA SeqFacts ==
  ASSUME NEW S, NEW s \in Seq(S)
  PROVE  /\ DOMAIN s = 1..Len(s) /\ Len(s) \in Nat
         /\ \A k \in 1..Len(s) : s[k] \in S
         /\ \A k \in 1..Len(s), e \in S :
               /\ [s EXCEPT ![k] = e] \in Seq(S) /\ Len([s EXCEPT ![k] = e]) = Len(s)
               /\ \A j \in 1..Len(s) : [s EXCEPT ![k] = e][j] = IF j = k THEN e ELSE s[j]
  OBVIOUS

LEMMA SeqConcat ==
  ASSUME NEW S, NEW s \in Seq(S), NEW t \in Seq(S)
  PROVE  /\ s \o t \in Seq(S) /\ Len(s \o t) = Len(s) + Len(t)
         /\ \A k \in 1..Len(s \o t) : (s \o t)[k] = IF k <= Len(s) THEN s[k] ELSE t[k - Len(s)]
  OBVIOUS

LEMMA SeqFront ==
  ASSUME NEW S, NEW s \in Seq(S), NEW n \in 0..Len(s)
  PROVE  /\ SubSeq(s, 1, n) \in Seq(S) /\ Len(SubSeq(s, 1, n)) = n
         /\ \A j \in 1..n : SubSeq(s, 1, n)[j] = s[j]
  OBVIOUS

LEMMA PoolLive ==
  ASSUME live \in Pools
  PROVE  /\ DOMAIN live = 1..Len(live) /\ Len(live) \in Nat
         /\ \A k \in 1..Len(live) : live[k].id \in Ids /\ live[k].life \in Int
                                    /\ live[k] \in [id : Ids, life : Int]
         /\ \A d : d \in Present <=> \E k \in 1..Len(live) : live[k].id = d
<1>1. DOMAIN live = 1..Len(live) /\ Len(live) \in Nat
  BY DEF Pools
<1>2. \A k \in 1..Len(live) : live[k] \in [id : Ids, life : Int]
  BY SeqFacts DEF Pools
<1> QED
  BY <1>1, <1>2 DEF Present

LEMMA PoolLifeNow ==
  ASSUME live \in Pools, Distinct(live)
  PROVE  /\ \A k \in 1..Len(live) : LifeNow(live[k].id) = live[k].life
         /\ \A d : (\A k \in 1..Len(live) : live[k].id # d) => LifeNow(d) = 0
<1>1. ASSUME NEW k \in 1..Len(live) PROVE LifeNow(live[k].id) = live[k].life
  <2>1. live[k].id \in Present
    BY PoolLive
  <2>2. (CHOOSE j \in DOMAIN live : live[j].id = live[k].id) = k
    BY PoolLive DEF Distinct
  <2> QED
    BY <2>1, <2>2 DEF LifeNow
<1> QED
  BY <1>1, PoolLive DEF LifeNow

LEMMA PoolStart == PoolInit => PoolInv
  BY PoolAssumption DEF PoolInit, PoolInv, Pools, Distinct

LEMMA PoolSpawn ==
  ASSUME PoolInv, NEW e \in Elements, Spawn(e)
  PROVE  PoolInv'
<1>1. /\ live \in Pools /\ Len(live) \in Nat /\ Len(live) < Capacity
      /\ e.id \in Ids /\ e.life \in 1..MaxLife /\ e \in [id : Ids, life : Int]
      /\ \A k \in 1..Len(live) : live[k].id # e.id
  BY PoolLive DEF PoolInv, Spawn, HasRoom, Elements
<1>2. /\ live' = Append(live, e) /\ at = 0 /\ at' = at /\ dt' = dt /\ before' = before
  BY DEF Spawn
<1>3. /\ live' \in Pools /\ Len(live') = Len(live) + 1
      /\ \A k \in 1..Len(live) : live'[k] = live[k]
      /\ live'[Len(live) + 1] = e
  BY <1>1, <1>2 DEF Pools
<1>4. Len(live') <= Capacity
  BY <1>1, <1>3, PoolAssumption
<1>5. Distinct(live')
  BY <1>1, <1>3 DEF PoolInv, Distinct
<1>6. \A k \in 1..Len(live') : live'[k].life > 0 /\ live'[k].life <= MaxLife
  BY <1>1, <1>3 DEF PoolInv
<1> QED
  BY <1>1, <1>2, <1>3, <1>4, <1>5, <1>6 DEF PoolInv

LEMMA PoolBegin ==
  ASSUME PoolInv, NEW step \in 1..MaxDt, Begin(step)
  PROVE  PoolInv'
<1>1. /\ live \in Pools /\ Distinct(live) /\ Len(live) \in Nat
      /\ \A k \in 1..Len(live) : live[k].id \in Ids /\ live[k].life \in 1..MaxLife
  BY PoolLive DEF PoolInv
<1>2. live' = live /\ at' = 1 /\ dt' = step /\ before' = [d \in Ids |-> LifeNow(d)]
  BY DEF Begin
<1>3. \A d \in Ids : LifeNow(d) \in 0..MaxLife
  BY <1>1, PoolLifeNow, PoolAssumption
<1>4. before' \in [Ids -> 0..MaxLife]
  BY <1>2, <1>3
<1>5. dt' \in 0..MaxDt /\ at' \in 0..(Len(live) + 1)
  BY <1>1, <1>2, PoolAssumption
<1>6. \A k \in 1..Len(live) : live[k].life = before'[live[k].id] /\ ~(k < 1)
  BY <1>1, <1>2, PoolLifeNow
<1>7. \A d \in Ids : (\A k \in 1..Len(live) : live[k].id # d) => before'[d] <= dt'
  BY <1>1, <1>2, PoolLifeNow
<1>8. \A k \in 1..Len(live) : live[k].life = before'[live[k].id] - (IF k < at' THEN dt' ELSE 0)
  BY <1>1, <1>2, <1>6
<1> QED
  BY <1>2, <1>4, <1>5, <1>7, <1>8 DEF PoolInv

\* One element aged.
LEMMA PoolAged ==
  ASSUME PoolInv, at \in 1..Len(live)
  PROVE  /\ Aged \in Pools /\ Len(Aged) = Len(live)
         /\ \A k \in 1..Len(live) : k # at => Aged[k] = live[k]
         /\ Aged[at].id = live[at].id
         /\ Aged[at].life = before[live[at].id] - dt
<1>1. live \in Pools /\ Len(live) \in Nat /\ live[at] \in [id : Ids, life : Int] /\ dt \in Int
  BY PoolLive, PoolAssumption DEF PoolInv
<1>2. PICK e : e = [live[at] EXCEPT !.life = @ - dt]
  OBVIOUS
<1>3. e \in [id : Ids, life : Int] /\ e.id = live[at].id /\ e.life = live[at].life - dt
  BY <1>1, <1>2
<1>4. Aged = [live EXCEPT ![at] = e]
  BY <1>2 DEF Aged
<1>5. live[at].life = before[live[at].id]
  BY <1>1 DEF PoolInv
<1> QED
  BY <1>1, <1>3, <1>4, <1>5 DEF Pools

LEMMA PoolKeep ==
  ASSUME PoolInv, Keep
  PROVE  PoolInv'
<1>1. /\ live \in Pools /\ Distinct(live) /\ Len(live) \in Nat /\ at \in 1..Len(live) /\ dt \in Nat
      /\ Len(live) <= Capacity
      /\ \A k \in 1..Len(live) : live[k].id \in Ids /\ before[live[k].id] \in 0..MaxLife
  BY PoolLive, PoolAssumption DEF PoolInv, Keep
<1>2. live' = Aged /\ at' = at + 1 /\ dt' = dt /\ before' = before /\ Aged[at].life > 0
  BY DEF Keep
<1>3. /\ live' \in Pools /\ Len(live') = Len(live)
      /\ \A k \in 1..Len(live) : k # at => live'[k] = live[k]
      /\ live'[at].id = live[at].id /\ live'[at].life = before[live[at].id] - dt
  BY <1>1, <1>2, PoolAged
<1>4. \A k \in 1..Len(live) : live'[k].id = live[k].id
  BY <1>3
<1>5. Distinct(live')
  BY <1>1, <1>3, <1>4 DEF Distinct
<1>6. \A k \in 1..Len(live') : live'[k].life > 0 /\ live'[k].life <= MaxLife
  <2>1. live'[at].life > 0 /\ live'[at].life <= MaxLife
    BY <1>1, <1>2, <1>3, PoolAssumption
  <2> QED
    BY <1>3, <2>1 DEF PoolInv
<1>7. \A k \in 1..Len(live') : live'[k].life = before[live'[k].id] - (IF k < at + 1 THEN dt ELSE 0)
  <2> SUFFICES ASSUME NEW k \in 1..Len(live)
               PROVE  live'[k].life = before[live'[k].id] - (IF k < at + 1 THEN dt ELSE 0)
    BY <1>3
  <2>1. CASE k = at
    BY <1>1, <1>3, <2>1
  <2>2. CASE k # at
    <3>1. k < at <=> k < at + 1
      BY <1>1, <2>2
    <3>2. live[k].life = before[live[k].id] - (IF k < at THEN dt ELSE 0)
      BY <1>1 DEF PoolInv
    <3> QED
      BY <1>3, <2>2, <3>1, <3>2
  <2> QED
    BY <2>1, <2>2
<1>8. \A d \in Ids : (\A k \in 1..Len(live') : live'[k].id # d) => before[d] <= dt
  BY <1>1, <1>3, <1>4 DEF PoolInv
<1>9. at' \in 0..(Len(live') + 1) /\ dt' \in 0..MaxDt /\ before' \in [Ids -> 0..MaxLife] /\ Len(live') <= Capacity
  BY <1>1, <1>2, <1>3 DEF PoolInv
<1> QED
  BY <1>2, <1>3, <1>5, <1>6, <1>7, <1>8, <1>9 DEF PoolInv

\* Swap and pop.
LEMMA PoolRemove ==
  ASSUME PoolInv, Remove
  PROVE  PoolInv'
<1> DEFINE n == Len(live)
<1>1. /\ live \in Pools /\ Distinct(live) /\ n \in Nat /\ at \in 1..n /\ dt \in Nat /\ n <= Capacity
      /\ \A k \in 1..n : live[k].id \in Ids /\ before[live[k].id] \in 0..MaxLife
  BY PoolLive, PoolAssumption DEF PoolInv, Remove
<1>2. PICK a : a = Aged
  OBVIOUS
<1>3. /\ a \in Pools /\ Len(a) = n /\ a[at].life <= 0 /\ a[at].life = before[live[at].id] - dt
      /\ \A k \in 1..n : k # at => a[k] = live[k]
  BY <1>1, <1>2, PoolAged DEF Remove
<1>4. PICK b : b = [a EXCEPT ![at] = a[n]]
  OBVIOUS
<1>5. b \in Pools /\ Len(b) = n /\ \A k \in 1..n : b[k] = IF k = at THEN a[n] ELSE a[k]
  <2>1. a[n] \in [id : Ids, life : Int]
    <3>1. n \in 1..Len(a) /\ a \in Seq([id : Ids, life : Int])
      BY <1>1, <1>3 DEF Pools
    <3> QED
      BY <3>1, SeqFacts
  <2> QED
    BY <1>1, <1>3, <1>4, <2>1, SeqFacts DEF Pools
<1>6. live' = SubSeq(b, 1, n - 1) /\ at' = at /\ dt' = dt /\ before' = before
  BY <1>2, <1>3, <1>4, <1>5 DEF Remove, ButLast
<1>7. live' \in Pools /\ Len(live') = n - 1 /\ \A k \in 1..(n - 1) : live'[k] = b[k]
  <2>1. n - 1 \in 0..Len(b) /\ b \in Seq([id : Ids, life : Int])
    BY <1>1, <1>5 DEF Pools
  <2>2. /\ SubSeq(b, 1, n - 1) \in Seq([id : Ids, life : Int]) /\ Len(SubSeq(b, 1, n - 1)) = n - 1
        /\ \A k \in 1..(n - 1) : SubSeq(b, 1, n - 1)[k] = b[k]
    BY <2>1, SeqFront
  <2> QED
    BY <1>6, <2>2 DEF Pools
<1>8. \A k \in 1..(n - 1) : live'[k] = IF k = at THEN live[n] ELSE live[k]
  BY <1>1, <1>3, <1>5, <1>7
<1>9. Distinct(live')
  <2>1. ASSUME NEW j \in 1..(n - 1), NEW k \in 1..(n - 1), j # k PROVE live'[j].id # live'[k].id
    BY <1>1, <1>8, <2>1 DEF Distinct
  <2> QED
    BY <1>7, <2>1 DEF Distinct
<1>10. \A k \in 1..Len(live') : live'[k].life > 0 /\ live'[k].life <= MaxLife
  BY <1>1, <1>7, <1>8 DEF PoolInv
<1>11. \A k \in 1..Len(live') : live'[k].life = before[live'[k].id] - (IF k < at THEN dt ELSE 0)
  <2> SUFFICES ASSUME NEW k \in 1..(n - 1)
               PROVE  live'[k].life = before[live'[k].id] - (IF k < at THEN dt ELSE 0)
    BY <1>7
  <2>1. \A m \in 1..n : live[m].life = before[live[m].id] - (IF m < at THEN dt ELSE 0)
    BY <1>1 DEF PoolInv
  <2>2. CASE k = at
    BY <1>1, <1>8, <2>1, <2>2
  <2>3. CASE k # at
    BY <1>1, <1>8, <2>1, <2>3
  <2> QED
    BY <2>2, <2>3
<1>12. ASSUME NEW d \in Ids, \A k \in 1..Len(live') : live'[k].id # d PROVE before[d] <= dt
  <2>1. CASE \A k \in 1..n : live[k].id # d
    BY <1>1, <2>1 DEF PoolInv
  <2>2. CASE \E k \in 1..n : live[k].id = d
    <3>1. PICK k \in 1..n : live[k].id = d
      BY <2>2
    <3>2. k = at
      <4>1. at < n => at \in 1..(n - 1) /\ live'[at] = live[n]
        BY <1>1, <1>8
      <4>2. k # at /\ k < n => k \in 1..(n - 1) /\ live'[k] = live[k]
        BY <1>1, <1>8
      <4> QED
        BY <1>1, <1>7, <1>12, <3>1, <4>1, <4>2
    <3>3. before[d] - dt <= 0 /\ before[d] \in Nat
      BY <1>1, <1>3, <3>1, <3>2
    <3> QED
      BY <1>1, <3>3
  <2> QED
    BY <2>1, <2>2
<1>13. at' \in 0..(Len(live') + 1) /\ dt' \in 0..MaxDt /\ before' \in [Ids -> 0..MaxLife] /\ Len(live') <= Capacity
  BY <1>1, <1>6, <1>7, PoolAssumption DEF PoolInv
<1> QED
  BY <1>6, <1>7, <1>9, <1>10, <1>11, <1>12, <1>13 DEF PoolInv

LEMMA PoolStep ==
  ASSUME PoolInv, [PoolNext]_poolVars PROVE PoolInv'
<1>1. CASE End
  BY <1>1 DEF PoolInv, End, Distinct
<1>2. CASE UNCHANGED poolVars
  BY <1>2 DEF PoolInv, poolVars, Distinct
<1> QED
  BY <1>1, <1>2, PoolSpawn, PoolBegin, PoolRemove, PoolKeep DEF PoolNext

\* PoolSound for any number of elements and any capacity: swap-and-pop neither
\* skips an element nor ages one twice, and holds none twice.
THEOREM PoolIsSound == PoolSpec => []PoolSound
<1>1. ASSUME PoolInv PROVE PoolSound
  <2>1. live \in Pools /\ DOMAIN live = 1..Len(live) /\ Len(live) \in Nat
    BY <1>1, PoolLive DEF PoolInv
  <2>2. PoolTypeOK
    BY <1>1, <2>1, PoolAssumption DEF PoolInv, Pools, PoolTypeOK
  <2>3. SweptOnce
    BY <1>1, <2>1, PoolLive DEF PoolInv, SweptOnce
  <2> QED
    BY <1>1, <2>1, <2>2, <2>3 DEF PoolInv, Distinct, PoolSound
<1>2. PoolInit => PoolInv
  BY PoolStart
<1>3. PoolInv /\ [PoolNext]_poolVars => PoolInv'
  BY PoolStep
<1> QED
  BY <1>1, <1>2, <1>3, PTL DEF PoolSpec

\* SweepsAll: the loop that ends has aged every element once and removed
\* exactly those whose life had run out.
THEOREM SweepIsWhole == PoolSpec => SweepsAll
<1>1. ASSUME PoolInv, [PoolNext]_poolVars, at > 0 /\ at' = 0, NEW d \in Ids
      PROVE  LifeNow(d) = (IF before[d] > dt THEN before[d] - dt ELSE 0)
  <2>1. at > Len(live) /\ live \in Pools /\ Distinct(live) /\ Len(live) \in Nat /\ at \in Nat
        /\ dt \in Nat /\ before[d] \in Nat
    BY <1>1, PoolLive, PoolAssumption DEF PoolInv, PoolNext, poolVars, Spawn, Begin, Keep, Remove, End
  <2>2. CASE \E k \in 1..Len(live) : live[k].id = d
    <3>1. PICK k \in 1..Len(live) : live[k].id = d
      BY <2>2
    <3>2. live[k].life = before[d] - dt /\ live[k].life > 0
      BY <1>1, <2>1, <3>1 DEF PoolInv
    <3> QED
      BY <2>1, <3>1, <3>2, PoolLifeNow
  <2>3. CASE \A k \in 1..Len(live) : live[k].id # d
    BY <1>1, <2>1, <2>3, PoolLifeNow DEF PoolInv
  <2> QED
    BY <2>2, <2>3
<1>2. PoolInv /\ [PoolNext]_poolVars =>
         [at > 0 /\ at' = 0 => \A d \in Ids :
             LifeNow(d) = (IF before[d] > dt THEN before[d] - dt ELSE 0)]_poolVars
  BY <1>1
<1>3. PoolInit => PoolInv
  BY PoolStart
<1>4. PoolInv /\ [PoolNext]_poolVars => PoolInv'
  BY PoolStep
<1> QED
  BY <1>2, <1>3, <1>4, PTL DEF PoolSpec, SweepsAll

-----------------------------------------------------------------------------
(* OpenGL names *)

GpuInv ==
    /\ built \in SUBSET Objects /\ mesh \in [Objects -> Fields]
    /\ \A m \in built : Handles(m) \subseteq Names
    /\ \A m, o \in built : m # o => Handles(m) \cap Handles(o) = {}
    /\ \A g : g \in gl <=> \E m \in built : g \in Handles(m)
    /\ \A m \in built : mesh[m].shape # "none" =>
          /\ mesh[m].vao # Zero /\ mesh[m].vbo # Zero
          /\ mesh[m].indexed <=> mesh[m].ebo # Zero
          /\ mesh[m].indexed <=> mesh[m].shape \in Solids

LEMMA HandlesAre ==
  ASSUME NEW m
  PROVE  \A g : g \in Handles(m) <=> g # Zero /\ g \in {mesh[m].vao, mesh[m].vbo, mesh[m].ebo}
  BY DEF Handles

\* An object that is given new names, none of which another holds.
LEMMA GpuUpload ==
  ASSUME GpuInv, NEW m \in built, NEW f \in Fields, NEW fresh \in SUBSET Names,
         \A g \in fresh : g \notin gl \/ g \in Handles(m),
         \A g : g \in fresh <=> g # Zero /\ g \in {f.vao, f.vbo, f.ebo},
         f.vao # Zero, f.vbo # Zero, f.indexed <=> f.ebo # Zero, f.indexed <=> f.shape \in Solids,
         mesh' = [mesh EXCEPT ![m] = f], gl' = Destroyed(m) \cup fresh, built' = built
  PROVE  GpuInv'
<1> USE MeshAssumption
<1>1. mesh'[m] = f /\ \A o \in Objects \ {m} : mesh'[o] = mesh[o]
  BY DEF GpuInv
<1>2. \A g : g \in Handles(m)' <=> g \in fresh
  BY <1>1 DEF Handles
<1>3. \A o \in built \ {m} : Handles(o)' = Handles(o)
  BY <1>1 DEF Handles, GpuInv
<1>4. built \in SUBSET Objects /\ mesh' \in [Objects -> Fields]
  BY DEF GpuInv
<1>5. \A o \in built : Handles(o)' \subseteq Names
  BY <1>2, <1>3 DEF GpuInv
<1>6. \A o, p \in built : o # p => Handles(o)' \cap Handles(p)' = {}
  BY <1>2, <1>3 DEF GpuInv
<1>7. \A g : g \in gl' <=> \E o \in built : g \in Handles(o)'
  BY <1>2, <1>3 DEF GpuInv, Destroyed
<1>8. \A o \in built : mesh'[o].shape # "none" =>
          /\ mesh'[o].vao # Zero /\ mesh'[o].vbo # Zero
          /\ mesh'[o].indexed <=> mesh'[o].ebo # Zero
          /\ mesh'[o].indexed <=> mesh'[o].shape \in Solids
  BY <1>1, <1>4 DEF GpuInv
<1> QED
  BY <1>4, <1>5, <1>6, <1>7, <1>8 DEF GpuInv

\* What one object held, another holds; the names m held before are deleted.
LEMMA GpuMove ==
  ASSUME GpuInv, NEW m \in Objects, NEW o \in built, m # o,
         mesh' = [mesh EXCEPT ![m] = mesh[o], ![o] = Emptied(mesh[o])],
         built' = built \cup {m},
         gl' = IF m \in built THEN Destroyed(m) ELSE gl
  PROVE  GpuInv'
<1> USE MeshAssumption
<1>1. /\ mesh'[m] = mesh[o] /\ mesh'[o] = Emptied(mesh[o])
      /\ \A p \in Objects \ {m, o} : mesh'[p] = mesh[p]
      /\ mesh[o] \in Fields /\ o \in Objects
  BY DEF GpuInv
<1>2. Emptied(mesh[o]) \in Fields
      /\ Emptied(mesh[o]).shape = "none" /\ Emptied(mesh[o]).vao = Zero
      /\ Emptied(mesh[o]).vbo = Zero /\ Emptied(mesh[o]).ebo = Zero
  BY <1>1 DEF Emptied, Fields
<1>3. /\ Handles(m)' = Handles(o) /\ Handles(o)' = {}
      /\ \A p \in Objects \ {m, o} : Handles(p)' = Handles(p)
  BY <1>1, <1>2 DEF Handles
<1>4. built' \in SUBSET Objects /\ mesh' \in [Objects -> Fields]
  BY <1>1, <1>2 DEF GpuInv
<1>5. \A p \in built' : Handles(p)' \subseteq Names
  BY <1>3, <1>4 DEF GpuInv
<1>6. \A p, q \in built' : p # q => Handles(p)' \cap Handles(q)' = {}
  <2> SUFFICES ASSUME NEW p \in built', NEW q \in built', p # q, NEW g,
                      g \in Handles(p)', g \in Handles(q)'
               PROVE  FALSE
    OBVIOUS
  <2>1. p \in Objects /\ q \in Objects /\ p # o /\ q # o
    BY <1>3, <1>4
  <2>2. (p # m => p \in built /\ g \in Handles(p)) /\ (q # m => q \in built /\ g \in Handles(q))
    BY <1>3, <2>1
  <2>3. p = m \/ q = m => g \in Handles(o)
    BY <1>3
  <2> QED
    BY <2>1, <2>2, <2>3 DEF GpuInv
<1>7. ASSUME NEW g PROVE g \in gl' <=> \E p \in built' : g \in Handles(p)'
  <2>1. g \in gl' <=> \E p \in built \ {m} : g \in Handles(p)
    <3>1. CASE m \in built
      BY <3>1 DEF Destroyed, GpuInv
    <3>2. CASE m \notin built
      BY <3>2 DEF GpuInv
    <3> QED
      BY <3>1, <3>2
  <2>2. (\E p \in built' : g \in Handles(p)')
           <=> g \in Handles(o) \/ \E p \in built \ {m, o} : g \in Handles(p)
    BY <1>3, <1>4
  <2> QED
    BY <2>1, <2>2
<1>8. \A p \in built' : mesh'[p].shape # "none" =>
          /\ mesh'[p].vao # Zero /\ mesh'[p].vbo # Zero
          /\ mesh'[p].indexed <=> mesh'[p].ebo # Zero
          /\ mesh'[p].indexed <=> mesh'[p].shape \in Solids
  <2> SUFFICES ASSUME NEW p \in built', mesh'[p].shape # "none"
               PROVE  \E q \in built : mesh'[p] = mesh[q] /\ mesh[q].shape # "none"
    BY DEF GpuInv
  <2>1. p # o
    BY <1>1, <1>2
  <2> QED
    BY <1>1, <1>4, <2>1
<1> QED
  BY <1>4, <1>5, <1>6, <1>7, <1>8 DEF GpuInv

\* An object that comes or goes with fields that are zero, or without them.
LEMMA GpuPlace ==
  ASSUME GpuInv, NEW m \in Objects, mesh' = [mesh EXCEPT ![m] = Default],
         \/ m \notin built /\ built' = built \cup {m} /\ gl' = gl
         \/ m \in built /\ built' = built \ {m} /\ gl' = Destroyed(m)
  PROVE  GpuInv'
<1> USE MeshAssumption
<1>1. mesh'[m] = Default /\ \A p \in Objects \ {m} : mesh'[p] = mesh[p]
  BY DEF GpuInv
<1>2. Default \in Fields
  BY DEF Default, Fields
<1>3. Handles(m)' = {} /\ \A p \in Objects \ {m} : Handles(p)' = Handles(p)
  BY <1>1 DEF Handles, Default
<1>4. built' \in SUBSET Objects /\ mesh' \in [Objects -> Fields] /\ built' \ {m} = built \ {m}
  BY <1>2 DEF GpuInv
<1>5. \A p \in built' : Handles(p)' \subseteq Names
  BY <1>3, <1>4 DEF GpuInv
<1>6. \A p, q \in built' : p # q => Handles(p)' \cap Handles(q)' = {}
  BY <1>3, <1>4 DEF GpuInv
<1>7. ASSUME NEW g PROVE g \in gl' <=> \E p \in built' : g \in Handles(p)'
  <2>1. g \in gl' <=> \E p \in built \ {m} : g \in Handles(p)
    BY DEF Destroyed, GpuInv
  <2>2. (\E p \in built' : g \in Handles(p)') <=> \E p \in built \ {m} : g \in Handles(p)
    BY <1>3, <1>4
  <2> QED
    BY <2>1, <2>2
<1>8. \A p \in built' : mesh'[p].shape # "none" =>
          /\ mesh'[p].vao # Zero /\ mesh'[p].vbo # Zero
          /\ mesh'[p].indexed <=> mesh'[p].ebo # Zero
          /\ mesh'[p].indexed <=> mesh'[p].shape \in Solids
  <2> SUFFICES ASSUME NEW p \in built', mesh'[p].shape # "none"
               PROVE  p \in built /\ mesh'[p] = mesh[p]
    BY DEF GpuInv
  <2>1. p # m
    BY <1>1 DEF Default
  <2> QED
    BY <1>1, <1>4, <2>1
<1> QED
  BY <1>4, <1>5, <1>6, <1>7, <1>8 DEF GpuInv

LEMMA GpuStep ==
  ASSUME GpuInv, [MeshNext]_meshVars PROVE GpuInv'
<1> USE MeshAssumption
<1>0. built \in SUBSET Objects /\ mesh \in [Objects -> Fields] /\ gl \subseteq Names
  BY DEF GpuInv
<1>1. ASSUME NEW m \in Objects, Construct(m) \/ Destruct(m) PROVE GpuInv'
  BY <1>1, GpuPlace DEF Construct, Destruct
<1>2. ASSUME NEW m \in Objects, Upload(m) PROVE GpuInv'
  <2>1. m \in built /\ built' = built
    BY <1>2 DEF Upload
  <2>2. PICK a, b, e \in Names \ Destroyed(m), what \in Solids :
          /\ mesh' = [mesh EXCEPT ![m] = [vao |-> a, vbo |-> b, ebo |-> e, shape |-> what, indexed |-> TRUE]]
          /\ gl' = Destroyed(m) \cup {a, b, e}
    BY <1>2 DEF Upload
  <2>3. PICK f : f = [vao |-> a, vbo |-> b, ebo |-> e, shape |-> what, indexed |-> TRUE]
    OBVIOUS
  <2>4. f \in Fields
    BY <2>2, <2>3 DEF Fields
  <2>5. PICK fresh : fresh = {a, b, e}
    OBVIOUS
  <2>6. fresh \in SUBSET Names /\ \A g \in fresh : g \notin gl \/ g \in Handles(m)
    BY <2>2, <2>5 DEF Destroyed
  <2>7. \A g : g \in fresh <=> g # Zero /\ g \in {f.vao, f.vbo, f.ebo}
    BY <2>2, <2>3, <2>5
  <2>8. f.vao # Zero /\ f.vbo # Zero /\ (f.indexed <=> f.ebo # Zero) /\ (f.indexed <=> f.shape \in Solids)
    BY <2>2, <2>3, <2>4
  <2>9. mesh' = [mesh EXCEPT ![m] = f] /\ gl' = Destroyed(m) \cup fresh
    BY <2>2, <2>3, <2>5
  <2> QED
    BY <2>1, <2>4, <2>6, <2>7, <2>8, <2>9, GpuUpload
<1>3. ASSUME NEW m \in Objects, UploadPositions(m) PROVE GpuInv'
  <2>1. m \in built /\ built' = built
    BY <1>3 DEF UploadPositions
  <2>2. PICK a, b \in Names \ Destroyed(m), what \in Outlines :
          /\ mesh' = [mesh EXCEPT ![m] = [vao |-> a, vbo |-> b, ebo |-> Zero, shape |-> what, indexed |-> FALSE]]
          /\ gl' = Destroyed(m) \cup {a, b}
    BY <1>3 DEF UploadPositions
  <2>3. PICK f : f = [vao |-> a, vbo |-> b, ebo |-> Zero, shape |-> what, indexed |-> FALSE]
    OBVIOUS
  <2>4. f \in Fields /\ f.shape \notin Solids
    BY <2>2, <2>3 DEF Fields, Outlines, Solids
  <2>5. PICK fresh : fresh = {a, b}
    OBVIOUS
  <2>6. fresh \in SUBSET Names /\ \A g \in fresh : g \notin gl \/ g \in Handles(m)
    BY <2>2, <2>5 DEF Destroyed
  <2>7. \A g : g \in fresh <=> g # Zero /\ g \in {f.vao, f.vbo, f.ebo}
    BY <2>2, <2>3, <2>5
  <2>8. f.vao # Zero /\ f.vbo # Zero /\ (f.indexed <=> f.ebo # Zero) /\ (f.indexed <=> f.shape \in Solids)
    BY <2>2, <2>3, <2>4
  <2>9. mesh' = [mesh EXCEPT ![m] = f] /\ gl' = Destroyed(m) \cup fresh
    BY <2>2, <2>3, <2>5
  <2> QED
    BY <2>1, <2>4, <2>6, <2>7, <2>8, <2>9, GpuUpload
<1>4. ASSUME NEW m \in Objects, NEW o \in Objects, MoveAssign(m, o) PROVE GpuInv'
  <2>1. built' = built \cup {m}
    BY <1>4 DEF MoveAssign
  <2> QED
    BY <1>4, <2>1, GpuMove DEF MoveAssign
<1>5. ASSUME NEW m \in Objects, NEW o \in Objects, MoveConstruct(m, o) PROVE GpuInv'
  BY <1>5, GpuMove DEF MoveConstruct
<1>6. CASE UNCHANGED meshVars
  BY <1>6 DEF meshVars, GpuInv, Handles
<1> QED
  BY <1>1, <1>2, <1>3, <1>4, <1>5, <1>6 DEF MeshNext

LEMMA GpuInit == MeshInit => GpuInv
  BY DEF MeshInit, GpuInv, Default, Fields

\* NamesOwned for any number of objects and names: a name has one owner, and
\* what is in use is what is owned, whatever is moved, overwritten or destroyed.
THEOREM NamesAreOwned == MeshSpec => []NamesOwned
<1> USE MeshAssumption
<1>1. GpuInv => NamesOwned
  <2> SUFFICES ASSUME GpuInv PROVE NamesOwned
    OBVIOUS
  <2>1. gl = UNION {Handles(m) : m \in built} /\ gl \subseteq Names
    BY DEF GpuInv
  <2> QED
    BY <2>1 DEF GpuInv, NamesOwned, MeshTypeOK
<1>2. GpuInv /\ [MeshNext]_meshVars => GpuInv'
  BY GpuStep
<1> QED
  BY GpuInit, <1>1, <1>2, PTL DEF MeshSpec

-----------------------------------------------------------------------------
(* The ring of the profiler *)

\* Until the ring is full, the cursor is where the next sample is appended.
RingInv == TypeOK /\ (Len(samples) < Window => cursor = Len(samples))

FromCursor(s, c) ==
    IF Len(s) < Window THEN s ELSE SubSeq(s, c + 1, Window) \o SubSeq(s, 1, c)

\* What a ring holds, in the order it came.
LEMMA FromCursorIs ==
  ASSUME NEW s \in Seq(Samples), Len(s) <= Window, NEW c \in 0..(Window - 1)
  PROVE  /\ FromCursor(s, c) \in Seq(Samples) /\ Len(FromCursor(s, c)) = Len(s)
         /\ Len(s) < Window => FromCursor(s, c) = s
         /\ Len(s) = Window => \A k \in 1..Window :
               FromCursor(s, c)[k] = IF k <= Window - c THEN s[c + k] ELSE s[k - (Window - c)]
<1>1. Len(s) \in Nat /\ c \in Nat /\ c < Window /\ Window \in Nat
  BY ConstantsAssumption
<1>2. CASE Len(s) < Window
  BY <1>1, <1>2 DEF FromCursor
<1>3. CASE Len(s) = Window
  <2>1. PICK a : a = SubSeq(s, c + 1, Window)
    OBVIOUS
  <2>2. PICK b : b = SubSeq(s, 1, c)
    OBVIOUS
  <2>3. a \in Seq(Samples) /\ Len(a) = Window - c /\ \A k \in 1..(Window - c) : a[k] = s[c + k]
    BY <1>1, <1>3, <2>1
  <2>4. b \in Seq(Samples) /\ Len(b) = c /\ \A k \in 1..c : b[k] = s[k]
    BY <1>1, <1>3, <2>2
  <2>5. FromCursor(s, c) = a \o b
    BY <1>1, <1>3, <2>1, <2>2 DEF FromCursor
  <2>6. a \o b \in Seq(Samples) /\ Len(a \o b) = Window
        /\ \A k \in 1..Window : (a \o b)[k] = IF k <= Len(a) THEN a[k] ELSE b[k - Len(a)]
    <3>1. a \in Seq(Samples) /\ b \in Seq(Samples)
      BY <2>3, <2>4
    <3>2. Len(a) + Len(b) = Window
      BY <1>1, <2>3, <2>4
    <3> QED
      BY <3>1, <3>2, SeqConcat
  <2>7. \A k \in 1..Window : k > Window - c => k - (Window - c) \in 1..c
    BY <1>1
  <2> QED
    BY <1>1, <1>3, <2>3, <2>4, <2>5, <2>6, <2>7
<1> QED
  BY <1>1, <1>2, <1>3

LEMMA RingAdd ==
  ASSUME RingInv, NEW ms \in Samples, AddSample(ms)
  PROVE  RingInv' /\ Ring!Add(ms)
<1>1. /\ samples \in Seq(Samples) /\ Len(samples) \in Nat /\ Len(samples) <= Window
      /\ cursor \in Nat /\ cursor < Window /\ Window \in Nat \ {0} /\ TypeOK
  BY ConstantsAssumption DEF RingInv, TypeOK
<1>2. cursor' = IF cursor + 1 = Window THEN 0 ELSE cursor + 1
  BY <1>1 DEF AddSample
<1>3. CASE Len(samples) < Window
  <2>1. samples' = Append(samples, ms) /\ cursor = Len(samples)
    BY <1>3 DEF AddSample, RingInv
  <2>2. /\ samples' \in Seq(Samples) /\ Len(samples') = Len(samples) + 1
        /\ \A k \in 1..Len(samples') : samples'[k] = Append(samples, ms)[k]
    BY <1>1, <2>1
  <2>3. TypeOK' /\ RingInv'
    BY <1>1, <1>2, <1>3, <2>1, <2>2 DEF TypeOK, RingInv
  <2>4. Latest = samples
    BY <1>3 DEF Latest
  <2>5. Latest' = samples'
    <3>1. CASE Len(samples') < Window
      BY <3>1 DEF Latest
    <3>2. CASE Len(samples') = Window
      <4>1. cursor' = 0
        BY <1>1, <1>2, <2>1, <2>2, <3>2
      <4>2. SubSeq(samples', 1, Window) = samples'
        BY <1>1, <2>2, <3>2
      <4>3. SubSeq(samples', 1, 0) = <<>>
        BY <2>2
      <4> QED
        BY <2>2, <3>2, <4>1, <4>2, <4>3 DEF Latest
    <3> QED
      BY <1>1, <1>3, <2>2, <3>1, <3>2
  <2> QED
    BY <1>3, <2>1, <2>3, <2>4, <2>5 DEF Ring!Add
<1>4. CASE Len(samples) = Window
  <2>1. samples' = [samples EXCEPT ![cursor + 1] = ms] /\ cursor + 1 \in 1..Window
    BY <1>1, <1>4 DEF AddSample
  <2>2. /\ samples' \in Seq(Samples) /\ Len(samples') = Window
        /\ \A k \in 1..Window : samples'[k] = IF k = cursor + 1 THEN ms ELSE samples[k]
    BY <1>1, <1>4, <2>1, SeqFacts
  <2>3. TypeOK' /\ RingInv'
    BY <1>1, <1>2, <2>2 DEF TypeOK, RingInv
  <2>4. PICK q : q = Latest
    OBVIOUS
  <2>5. /\ q \in Seq(Samples) /\ Len(q) = Window
        /\ \A k \in 1..Window :
              q[k] = IF k <= Window - cursor THEN samples[cursor + k] ELSE samples[k - (Window - cursor)]
    BY <1>1, <1>4, <2>4, FromCursorIs DEF Latest, FromCursor, TypeOK
  <2>6. PICK r : r = Latest'
    OBVIOUS
  <2>7. /\ r \in Seq(Samples) /\ Len(r) = Window
        /\ \A k \in 1..Window :
              r[k] = IF k <= Window - cursor' THEN samples'[cursor' + k] ELSE samples'[k - (Window - cursor')]
    BY <2>2, <2>3, <2>6, FromCursorIs DEF Latest, FromCursor, TypeOK
  <2>8. PICK t : t = Append(Tail(q), ms)
    OBVIOUS
  <2>9. t \in Seq(Samples) /\ Len(t) = Window /\ \A k \in 1..Window : t[k] = IF k = Window THEN ms ELSE q[k + 1]
    BY <1>1, <2>5, <2>8
  <2>10. ASSUME NEW k \in 1..Window PROVE r[k] = t[k]
    <3>1. CASE cursor + 1 = Window
      <4>1. r[k] = samples'[k]
        BY <1>1, <1>2, <2>7, <3>1
      <4>2. k # Window => q[k + 1] = samples[k]
        <5>1. Window - cursor = 1 /\ k + 1 - 1 = k /\ (k # Window => k + 1 \in 1..Window /\ ~(k + 1 <= 1))
          BY <1>1, <3>1
        <5> QED
          BY <2>5, <5>1
      <4> QED
        BY <1>1, <2>2, <2>9, <3>1, <4>1, <4>2
    <3>2. CASE cursor + 1 # Window
      <4>1. CASE k <= Window - cursor - 1
        <5>1. r[k] = samples'[cursor + 1 + k] /\ cursor + 1 + k \in 1..Window
          BY <1>1, <1>2, <2>7, <3>2, <4>1
        <5>2. k # Window /\ q[k + 1] = samples[cursor + 1 + k]
          BY <1>1, <2>5, <4>1
        <5> QED
          BY <1>1, <2>2, <2>9, <5>1, <5>2
      <4>2. CASE k > Window - cursor - 1
        <5>1. r[k] = samples'[k - (Window - cursor - 1)] /\ k - (Window - cursor - 1) \in 1..(cursor + 1)
          BY <1>1, <1>2, <2>7, <3>2, <4>2
        <5>2. CASE k = Window
          BY <1>1, <2>2, <2>9, <5>1, <5>2
        <5>3. CASE k # Window
          <6>1. k + 1 \in 1..Window /\ k + 1 > Window - cursor /\ k + 1 - (Window - cursor) = k - (Window - cursor - 1)
            BY <1>1, <4>2, <5>3
          <6>2. q[k + 1] = samples[k - (Window - cursor - 1)]
            BY <1>1, <2>5, <6>1
          <6>3. k - (Window - cursor - 1) # cursor + 1
            BY <1>1, <5>3
          <6> QED
            BY <1>1, <2>2, <2>9, <5>1, <5>3, <6>2, <6>3
        <5> QED
          BY <5>2, <5>3
      <4> QED
        BY <1>1, <4>1, <4>2
    <3> QED
      BY <3>1, <3>2
  <2>11. r = t
    BY <2>7, <2>9, <2>10
  <2> QED
    BY <1>1, <1>4, <2>3, <2>4, <2>5, <2>6, <2>8, <2>11 DEF Ring!Add
<1> QED
  BY <1>1, <1>3, <1>4

LEMMA RingReset ==
  ASSUME Reset PROVE RingInv' /\ Ring!Reset
<1>1. samples' = <<>> /\ cursor' = 0
  BY DEF Reset
<1> QED
  BY <1>1, ConstantsAssumption DEF RingInv, TypeOK, Latest, Ring!Reset

-----------------------------------------------------------------------------
(* What a frame draws *)

Vecs == [1..3 -> Int]
Attitudes == [right : Vecs, up : Vecs, forward : Vecs]

SkippedOutside ==
    \A s \in skipped :
        s[1] \in Vecs /\ s[2] \in Nat \ {0} /\ \E plane \in frustum : Outside(plane, s[1], s[2])

\* Axes of length one, each at right angles to the others.
Square(a) ==
    /\ Dot(a.right, a.right) = 1 /\ Dot(a.up, a.up) = 1 /\ Dot(a.forward, a.forward) = 1
    /\ Dot(a.right, a.up) = 0 /\ Dot(a.right, a.forward) = 0 /\ Dot(a.up, a.forward) = 0

\* Between two frames nothing is skipped; in a frame the planes are those of
\* where the ship is, since it moves no more before the frame is shown.
RenderInv ==
    /\ RingInv
    /\ attitude \in Attitudes /\ Square(attitude) /\ pos \in Vecs
    /\ counters \in [drawCalls : Nat, culled : Nat, considered : Nat] /\ issued \in Nat
    /\ IsFiniteSet(skipped) /\ CountersAddUp
    /\ stage = "update" => skipped = {}
    /\ stage # "update" => frustum = Extract
    /\ SkippedOutside

LEMMA SumTyped ==
  ASSUME NEW j \in Int, NEW k \in Int, NEW u \in Vecs, NEW v \in Vecs
  PROVE  Sum2(j, u, k, v) \in Vecs /\ \A i \in 1..3 : Sum2(j, u, k, v)[i] = j * u[i] + k * v[i]
  BY DEF Sum2, Vecs

LEMMA TurnTyped ==
  ASSUME NEW b \in Attitudes, NEW n \in -1..1
  PROVE  Yaw(b, n) \in Attitudes /\ Pitch(b, n) \in Attitudes /\ Roll(b, n) \in Attitudes
<1>1. n \in Int /\ 1 - n * n \in Int /\ -n \in Int
  OBVIOUS
<1>2. b.forward \in Vecs /\ b.right \in Vecs /\ b.up \in Vecs
  BY DEF Attitudes
<1> QED
  BY <1>1, <1>2, SumTyped DEF Yaw, Pitch, Roll, Attitudes

LEMMA TurnedTyped ==
  ASSUME NEW a \in Attitudes, NEW t \in [yaw : -1..1, pitch : -1..1, roll : -1..1]
  PROVE  Turned(a, t) \in Attitudes
  BY TurnTyped DEF Turned

LEMMA DotTyped ==
  ASSUME NEW u \in Vecs, NEW v \in Vecs
  PROVE  Dot(u, v) \in Int /\ Dot(u, v) = Dot(v, u)
<1>1. \A i \in 1..3 : u[i] \in Int /\ v[i] \in Int
  BY DEF Vecs
<1> QED
  BY <1>1 DEF Dot

LEMMA DotSum ==
  ASSUME NEW j \in -1..1, NEW k \in -1..1, NEW u \in Vecs, NEW v \in Vecs, NEW w \in Vecs
  PROVE  Dot(Sum2(j, u, k, v), w) = j * Dot(u, w) + k * Dot(v, w)
<1>1. \A i \in 1..3 : u[i] \in Int /\ v[i] \in Int /\ w[i] \in Int
  BY DEF Vecs
<1>2. \A i \in 1..3 : Sum2(j, u, k, v)[i] = j * u[i] + k * v[i]
  BY DEF Sum2
<1>3. ASSUME NEW x \in Int, NEW y \in Int, NEW z \in Int
      PROVE  (j * x + k * y) * z = j * (x * z) + k * (y * z)
  <2>1. (j = -1 \/ j = 0 \/ j = 1) /\ (k = -1 \/ k = 0 \/ k = 1)
    OBVIOUS
  <2> QED
    BY <2>1
<1>4. \A i \in 1..3 : Sum2(j, u, k, v)[i] * w[i] = j * (u[i] * w[i]) + k * (v[i] * w[i])
  BY <1>1, <1>2, <1>3
<1>5. /\ Dot(Sum2(j, u, k, v), w) = Sum2(j, u, k, v)[1] * w[1] + Sum2(j, u, k, v)[2] * w[2]
                                     + Sum2(j, u, k, v)[3] * w[3]
      /\ Dot(u, w) = u[1] * w[1] + u[2] * w[2] + u[3] * w[3]
      /\ Dot(v, w) = v[1] * w[1] + v[2] * w[2] + v[3] * w[3]
  BY DEF Dot
<1>6. ASSUME NEW p \in [1..3 -> Int], NEW q \in [1..3 -> Int]
      PROVE  (j * p[1] + k * q[1]) + (j * p[2] + k * q[2]) + (j * p[3] + k * q[3])
                = j * (p[1] + p[2] + p[3]) + k * (q[1] + q[2] + q[3])
  <2>1. (j = -1 \/ j = 0 \/ j = 1) /\ (k = -1 \/ k = 0 \/ k = 1)
    OBVIOUS
  <2> QED
    BY <2>1
<1> DEFINE p == [i \in 1..3 |-> u[i] * w[i]]
           q == [i \in 1..3 |-> v[i] * w[i]]
<1>7. p \in [1..3 -> Int] /\ q \in [1..3 -> Int]
      /\ \A i \in 1..3 : p[i] = u[i] * w[i] /\ q[i] = v[i] * w[i]
  BY <1>1
<1>8. (j * p[1] + k * q[1]) + (j * p[2] + k * q[2]) + (j * p[3] + k * q[3])
         = j * (p[1] + p[2] + p[3]) + k * (q[1] + q[2] + q[3])
  BY <1>6, <1>7
<1> QED
  BY <1>4, <1>5, <1>7, <1>8

\* Two perpendicular axes turned in their plane stay perpendicular to each
\* other and to what was perpendicular to both.
LEMMA SpinKeeps ==
  ASSUME NEW n \in -1..1, NEW p \in Vecs, NEW q \in Vecs, NEW w \in Vecs,
         Dot(p, p) = 1, Dot(q, q) = 1, Dot(p, q) = 0, Dot(p, w) = 0, Dot(q, w) = 0,
         NEW p1 \in Vecs, NEW q1 \in Vecs,
         p1 = Sum2(1 - n * n, p, n, q), q1 = Sum2(1 - n * n, q, -n, p)
  PROVE  /\ Dot(p1, p1) = 1 /\ Dot(q1, q1) = 1 /\ Dot(p1, q1) = 0
         /\ Dot(p1, w) = 0 /\ Dot(q1, w) = 0
<1>1. n \in -1..1 /\ -n \in -1..1 /\ 1 - n * n \in -1..1 /\ (n = -1 \/ n = 0 \/ n = 1)
  OBVIOUS
<1>2. Dot(q, p) = 0 /\ Dot(p, p1) = Dot(p1, p) /\ Dot(q, p1) = Dot(p1, q) /\ Dot(p, q1) = Dot(q1, p)
      /\ Dot(q, q1) = Dot(q1, q)
  BY DotTyped
<1>3. /\ Dot(p1, p) = (1 - n * n) * 1 + n * 0 /\ Dot(p1, q) = (1 - n * n) * 0 + n * 1
      /\ Dot(q1, p) = (1 - n * n) * 0 + (-n) * 1 /\ Dot(q1, q) = (1 - n * n) * 1 + (-n) * 0
      /\ Dot(p1, w) = (1 - n * n) * 0 + n * 0 /\ Dot(q1, w) = (1 - n * n) * 0 + (-n) * 0
  BY <1>1, <1>2, DotSum
<1>4. /\ Dot(p1, p1) = (1 - n * n) * Dot(p, p1) + n * Dot(q, p1)
      /\ Dot(q1, q1) = (1 - n * n) * Dot(q, q1) + (-n) * Dot(p, q1)
      /\ Dot(p1, q1) = (1 - n * n) * Dot(p, q1) + n * Dot(q, q1)
  BY <1>1, DotSum
<1> QED
  BY <1>1, <1>2, <1>3, <1>4

LEMMA TurnSquare ==
  ASSUME NEW a \in Attitudes, Square(a), NEW n \in -1..1
  PROVE  Square(Yaw(a, n)) /\ Square(Pitch(a, n)) /\ Square(Roll(a, n))
<1>1. a.forward \in Vecs /\ a.right \in Vecs /\ a.up \in Vecs
  BY DEF Attitudes
<1>2. /\ Dot(a.forward, a.right) = 0 /\ Dot(a.forward, a.up) = 0 /\ Dot(a.up, a.right) = 0
      /\ Dot(a.right, a.up) = 0 /\ Dot(a.right, a.forward) = 0 /\ Dot(a.up, a.forward) = 0
      /\ Dot(a.right, a.right) = 1 /\ Dot(a.up, a.up) = 1 /\ Dot(a.forward, a.forward) = 1
  BY <1>1, DotTyped DEF Square
<1>3. /\ Yaw(a, n) \in Attitudes /\ Pitch(a, n) \in Attitudes /\ Roll(a, n) \in Attitudes
  BY TurnTyped
<1>4. Square(Yaw(a, n))
  <2> DEFINE p1 == Yaw(a, n).forward
             q1 == Yaw(a, n).right
  <2>1. p1 = Sum2(1 - n * n, a.forward, n, a.right) /\ q1 = Sum2(1 - n * n, a.right, -n, a.forward)
        /\ Yaw(a, n).up = a.up /\ p1 \in Vecs /\ q1 \in Vecs
    BY <1>3 DEF Yaw, Attitudes
  <2>2. Dot(p1, p1) = 1 /\ Dot(q1, q1) = 1 /\ Dot(p1, q1) = 0 /\ Dot(p1, a.up) = 0 /\ Dot(q1, a.up) = 0
    BY <1>1, <1>2, <2>1, SpinKeeps
  <2>3. Dot(q1, p1) = 0 /\ Dot(a.up, p1) = 0
    BY <1>1, <2>1, <2>2, DotTyped
  <2> QED
    BY <1>2, <2>1, <2>2, <2>3 DEF Square
<1>5. Square(Pitch(a, n))
  <2> DEFINE p1 == Pitch(a, n).up
             q1 == Pitch(a, n).forward
  <2>1. p1 = Sum2(1 - n * n, a.up, n, a.forward) /\ q1 = Sum2(1 - n * n, a.forward, -n, a.up)
        /\ Pitch(a, n).right = a.right /\ p1 \in Vecs /\ q1 \in Vecs
    BY <1>3 DEF Pitch, Attitudes
  <2>2. Dot(p1, p1) = 1 /\ Dot(q1, q1) = 1 /\ Dot(p1, q1) = 0 /\ Dot(p1, a.right) = 0 /\ Dot(q1, a.right) = 0
    BY <1>1, <1>2, <2>1, SpinKeeps
  <2>3. Dot(a.right, p1) = 0 /\ Dot(a.right, q1) = 0
    BY <1>1, <2>1, <2>2, DotTyped
  <2> QED
    BY <1>2, <2>1, <2>2, <2>3 DEF Square
<1>6. Square(Roll(a, n))
  <2> DEFINE p1 == Roll(a, n).right
             q1 == Roll(a, n).up
  <2>1. p1 = Sum2(1 - n * n, a.right, n, a.up) /\ q1 = Sum2(1 - n * n, a.up, -n, a.right)
        /\ Roll(a, n).forward = a.forward /\ p1 \in Vecs /\ q1 \in Vecs
    BY <1>3 DEF Roll, Attitudes
  <2>2. Dot(p1, p1) = 1 /\ Dot(q1, q1) = 1 /\ Dot(p1, q1) = 0 /\ Dot(p1, a.forward) = 0 /\ Dot(q1, a.forward) = 0
    BY <1>1, <1>2, <2>1, SpinKeeps
  <2> QED
    BY <1>2, <2>1, <2>2 DEF Square
<1> QED
  BY <1>4, <1>5, <1>6

LEMMA TurnedSquare ==
  ASSUME NEW a \in Attitudes, Square(a), NEW t \in [yaw : -1..1, pitch : -1..1, roll : -1..1]
  PROVE  Square(Turned(a, t))
<1>1. PICK b \in Attitudes : b = Yaw(a, t.yaw) /\ Square(b)
  BY TurnTyped, TurnSquare
<1>2. PICK c \in Attitudes : c = Pitch(b, t.pitch) /\ Square(c)
  BY <1>1, TurnTyped, TurnSquare
<1>3. Square(Roll(c, t.roll))
  BY <1>2, TurnSquare
<1> QED
  BY <1>1, <1>2, <1>3 DEF Turned

LEMMA SquareStart == Square(Identity) /\ Identity \in Attitudes
  BY DEF Square, Identity, Dot, Attitudes, Vecs

LEMMA RenderStart == RenderInit => RenderInv
<1> SUFFICES ASSUME RenderInit PROVE RenderInv
  OBVIOUS
<1>1. attitude \in Attitudes
  BY DEF RenderInit, Identity, Attitudes, Vecs
<1>2. pos \in Vecs
  BY CameraAssumption DEF RenderInit, Vecs
<1>3. RingInv
  BY ConstantsAssumption DEF RenderInit, Init, RingInv, TypeOK
<1>4. Square(attitude)
  BY SquareStart DEF RenderInit
<1> QED
  BY <1>1, <1>2, <1>3, <1>4, FS_EmptySet DEF RenderInit, RenderInv, NoCounts, CountersAddUp, SkippedOutside

\* Between two frames.
LEMMA BetweenFrames ==
  ASSUME RenderInv, stage = "update", stage' = stage, RingInv', attitude' \in Attitudes, Square(attitude'),
         pos' \in Vecs, UNCHANGED <<counters, issued, skipped>>
  PROVE  RenderInv'
<1>1. skipped' = {} /\ counters' = counters /\ issued' = issued
  BY DEF RenderInv
<1>2. CountersAddUp'
  BY <1>1 DEF RenderInv, CountersAddUp
<1> QED
  BY <1>1, <1>2, FS_EmptySet DEF RenderInv, SkippedOutside, Square

\* The planes stay as long as the ship does.
LEMMA SameFrustum == ASSUME UNCHANGED shipVars PROVE Extract' = Extract
  BY DEF shipVars, Extract, Row0, Row1, Row2, Row3, Through, Eye, Sight, Above

LEMMA FrameDraws ==
  ASSUME RenderInv, stage # "update", stage' # "update", NEW center \in Vecs, NEW radius \in Nat \ {0},
         Draw(center, radius), UNCHANGED <<shipVars, culling, frustum, profileVars>>
  PROVE  RenderInv'
<1> DEFINE seen == Considered(radius) => ContainsSphere(center, radius)
<1>0. /\ UNCHANGED shipVars /\ attitude' = attitude /\ pos' = pos /\ culling' = culling
      /\ frustum' = frustum /\ samples' = samples /\ cursor' = cursor
  BY DEF shipVars, profileVars
<1>1. RingInv'
  BY <1>0 DEF RenderInv, RingInv, TypeOK
<1>2. /\ counters \in [drawCalls : Nat, culled : Nat, considered : Nat] /\ issued \in Nat
      /\ IsFiniteSet(skipped) /\ CountersAddUp /\ SkippedOutside /\ frustum = Extract
  BY DEF RenderInv
<1>3. /\ counters' = [drawCalls  |-> counters.drawCalls + (IF seen THEN 1 ELSE 0),
                      culled     |-> counters.culled + (IF seen THEN 0 ELSE 1),
                      considered |-> counters.considered + (IF Considered(radius) THEN 1 ELSE 0)]
      /\ skipped' = IF seen THEN skipped ELSE skipped \cup {<<center, radius>>}
      /\ issued' = issued + 1
  BY DEF Draw
<1>4. CASE seen
  <2>1. counters' \in [drawCalls : Nat, culled : Nat, considered : Nat] /\ issued' \in Nat /\ skipped' = skipped
    BY <1>2, <1>3, <1>4
  <2>2. /\ counters'.drawCalls = counters.drawCalls + 1 /\ counters'.culled = counters.culled
        /\ counters'.considered >= counters.considered
        /\ ~culling => counters'.considered = counters.considered
    BY <1>2, <1>3, <1>4 DEF Considered
  <2>3. CountersAddUp'
    BY <1>0, <1>2, <1>3, <2>1, <2>2 DEF CountersAddUp
  <2>4. SkippedOutside'
    BY <1>0, <1>2, <2>1 DEF SkippedOutside
  <2> QED
    BY <1>0, <1>1, <1>2, <2>1, <2>3, <2>4, SameFrustum DEF RenderInv
<1>5. CASE ~seen
  <2>0. Considered(radius) /\ ~ContainsSphere(center, radius) /\ culling
    BY <1>5 DEF Considered
  <2>1. counters' \in [drawCalls : Nat, culled : Nat, considered : Nat] /\ issued' \in Nat
        /\ skipped' = skipped \cup {<<center, radius>>}
    BY <1>2, <1>3, <1>5
  <2>2. /\ counters'.drawCalls = counters.drawCalls /\ counters'.culled = counters.culled + 1
        /\ counters'.considered = counters.considered + 1
    BY <1>2, <1>3, <1>5, <2>0
  <2>3. IsFiniteSet(skipped') /\ Cardinality(skipped') <= Cardinality(skipped) + 1 /\ Cardinality(skipped) \in Nat
        /\ Cardinality(skipped') \in Nat
    <3>1. PICK x : x = <<center, radius>>
      OBVIOUS
    <3>2. skipped' = skipped \cup {x} /\ IsFiniteSet(skipped)
      BY <1>2, <2>1, <3>1
    <3>3. /\ IsFiniteSet(skipped \cup {x})
          /\ Cardinality(skipped \cup {x}) = IF x \in skipped THEN Cardinality(skipped) ELSE Cardinality(skipped) + 1
      BY <3>2, FS_AddElement
    <3> QED
      BY <3>2, <3>3, FS_CardinalityType
  <2>4. CountersAddUp'
    BY <1>0, <1>2, <1>3, <2>0, <2>1, <2>2, <2>3 DEF CountersAddUp
  <2>5. SkippedOutside'
    <3>1. \E plane \in frustum : Outside(plane, center, radius)
      BY <2>0 DEF ContainsSphere
    <3> QED
      BY <1>0, <1>2, <2>1, <3>1 DEF SkippedOutside
  <2> QED
    BY <1>0, <1>1, <1>2, <2>1, <2>3, <2>4, <2>5, SameFrustum DEF RenderInv
<1> QED
  BY <1>4, <1>5

\* Calls that are counted and never culled.
LEMMA FrameNotes ==
  ASSUME RenderInv, stage # "update", stage' # "update", NEW n \in Nat,
         NoteDraws(n), UNCHANGED <<shipVars, culling, frustum, skipped, profileVars>>
  PROVE  RenderInv'
<1>0. /\ UNCHANGED shipVars /\ attitude' = attitude /\ pos' = pos /\ culling' = culling
      /\ frustum' = frustum /\ skipped' = skipped /\ samples' = samples /\ cursor' = cursor
  BY DEF shipVars, profileVars
<1>1. RingInv'
  BY <1>0 DEF RenderInv, RingInv, TypeOK
<1>2. /\ counters \in [drawCalls : Nat, culled : Nat, considered : Nat] /\ issued \in Nat
      /\ CountersAddUp /\ SkippedOutside
  BY DEF RenderInv
<1>3. /\ counters' \in [drawCalls : Nat, culled : Nat, considered : Nat] /\ issued' = issued + n
      /\ counters'.drawCalls = counters.drawCalls + n /\ counters'.culled = counters.culled
      /\ counters'.considered = counters.considered
  BY <1>2 DEF NoteDraws
<1>4. CountersAddUp'
  BY <1>0, <1>2, <1>3 DEF CountersAddUp
<1>5. SkippedOutside'
  BY <1>0, <1>2 DEF SkippedOutside
<1> QED
  BY <1>0, <1>1, <1>2, <1>3, <1>4, <1>5, SameFrustum DEF RenderInv

LEMMA RenderStep == ASSUME RenderInv, [RenderNext]_allVars PROVE RenderInv'
<1>0. RingInv /\ attitude \in Attitudes /\ Square(attitude) /\ pos \in Vecs /\ Places \subseteq Vecs /\ Sites \subseteq Vecs
      /\ ShipRadius \in Nat \ {0} /\ BulletRadius \in Nat \ {0}
  BY CameraAssumption DEF RenderInv, Vecs
<1>1. ASSUME NEW t \in Turns, ApplyInput(t) PROVE RenderInv'
  <2>1. attitude' \in Attitudes
    BY <1>0, <1>1, TurnedTyped, CameraAssumption DEF ApplyInput
  <2>2. RingInv'
    BY <1>0, <1>1 DEF ApplyInput, profileVars, RingInv, TypeOK
  <2>3. Square(attitude')
    BY <1>0, <1>1, TurnedSquare, CameraAssumption DEF ApplyInput
  <2> QED
    BY <1>0, <1>1, <2>1, <2>2, <2>3, BetweenFrames DEF ApplyInput
<1>2. CASE Respawn
  <2>1. attitude' \in Attitudes /\ Square(attitude')
    BY <1>2, SquareStart DEF Respawn
  <2>2. RingInv'
    BY <1>0, <1>2 DEF Respawn, profileVars, RingInv, TypeOK
  <2> QED
    BY <1>0, <1>2, <2>1, <2>2, BetweenFrames DEF Respawn
<1>3. CASE SetCullingEnabled
  <2>1. RingInv'
    BY <1>0, <1>3 DEF SetCullingEnabled, profileVars, RingInv, TypeOK
  <2> QED
    BY <1>0, <1>3, <2>1, BetweenFrames DEF SetCullingEnabled, shipVars
<1>4. CASE ResetProfiler
  <2>1. RingInv'
    BY <1>4, RingReset DEF ResetProfiler
  <2> QED
    BY <1>0, <1>4, <2>1, BetweenFrames DEF ResetProfiler, viewVars, shipVars
<1>5. ASSUME NEW ms \in Samples, BeginFrame(ms) PROVE RenderInv'
  <2>1. RingInv'
    BY <1>0, <1>5, RingAdd DEF BeginFrame
  <2>2. stage = "update" /\ stage' = "backdrop" /\ UNCHANGED shipVars /\ attitude' = attitude /\ pos' = pos
    BY <1>5 DEF BeginFrame, Goto, shipVars
  <2>3. skipped' = {} /\ issued' = 0 /\ counters' = NoCounts /\ frustum' = Extract
    BY <1>5, <2>2 DEF BeginFrame, RenderInv
  <2>4. frustum' = Extract'
    BY <2>2, <2>3, SameFrustum
  <2> QED
    BY <1>0, <2>1, <2>2, <2>3, <2>4, FS_EmptySet DEF RenderInv, NoCounts, CountersAddUp, SkippedOutside, Square
<1>6. CASE DrawBackdrop
  BY <1>6, FrameNotes DEF DrawBackdrop, Goto
<1>7. ASSUME NEW site \in Sites, DrawPeer(site) PROVE RenderInv'
  BY <1>0, <1>7, FrameDraws DEF DrawPeer, Goto
<1>8. CASE DrawOwnShip
  <2>1. CASE alive
    BY <1>0, <1>8, <2>1, FrameDraws DEF DrawOwnShip, Goto
  <2>2. CASE ~alive
    <3>2. /\ UNCHANGED <<counters, issued, skipped, shipVars, culling, frustum, profileVars>>
          /\ stage # "update" /\ stage' # "update"
      BY <1>8, <2>2 DEF DrawOwnShip, Goto
    <3>3. RingInv'
      BY <1>0, <3>2 DEF profileVars, RingInv, TypeOK
    <3> QED
      BY <3>2, <3>3, SameFrustum DEF RenderInv, shipVars, CountersAddUp, SkippedOutside
  <2> QED
    BY <2>1, <2>2
<1>9. ASSUME NEW site \in Sites, DrawBullet(site) PROVE RenderInv'
  BY <1>0, <1>9, FrameDraws DEF DrawBullet, Goto
<1>10. CASE DrawParticles
  BY <1>10, FrameNotes DEF DrawParticles, Goto
<1>11. CASE EndFrame
  <2>1. RingInv'
    BY <1>0, <1>11 DEF EndFrame, profileVars, RingInv, TypeOK
  <2>2. /\ UNCHANGED <<counters, issued, culling, attitude, pos>>
        /\ stage' = "update" /\ skipped' = {}
    BY <1>11 DEF EndFrame, Goto, shipVars
  <2>3. CountersAddUp'
    <3>1. IsFiniteSet(skipped) /\ counters.culled \in Nat /\ Cardinality({}) = 0
      BY FS_EmptySet DEF RenderInv
    <3> QED
      BY <2>2, <3>1 DEF RenderInv, CountersAddUp
  <2> QED
    BY <1>0, <2>1, <2>2, <2>3, FS_EmptySet DEF RenderInv, SkippedOutside, Square
<1>12. CASE UNCHANGED allVars
  <2>1. /\ UNCHANGED <<counters, issued, skipped, shipVars, culling, frustum, stage>>
        /\ samples' = samples /\ cursor' = cursor /\ attitude' = attitude /\ pos' = pos
    BY <1>12 DEF allVars, viewVars, profileVars, shipVars
  <2>2. RingInv'
    BY <1>0, <2>1 DEF RingInv, TypeOK
  <2> QED
    BY <2>1, <2>2, SameFrustum DEF RenderInv, CountersAddUp, SkippedOutside
<1> QED
  BY <1>1, <1>2, <1>3, <1>4, <1>5, <1>6, <1>7, <1>8, <1>9, <1>10, <1>11, <1>12 DEF RenderNext

\* CountersAddUp for any scene, camera and order of switching: with culling on
\* or off the counters speak of the same objects.
THEOREM CountersAgree == RenderSpec => []CountersAddUp
<1>1. RenderInv => CountersAddUp
  BY DEF RenderInv
<1>2. RenderInv /\ [RenderNext]_allVars => RenderInv'
  BY RenderStep
<1> QED
  BY RenderStart, <1>1, <1>2, PTL DEF RenderSpec

\* SlidesOver: what the ring holds, read from its cursor, is the sliding window
\* of the latest samples, for every size of the window.
THEOREM RingSlides == RenderSpec => SlidesOver
<1>1. RenderInit => Ring!Init
  BY ConstantsAssumption DEF RenderInit, Init, Latest, Ring!Init
<1>2. ASSUME RenderInv, [RenderNext]_allVars PROVE [Ring!Next]_Latest
  <2>1. RingInv
    BY <1>2 DEF RenderInv
  <2>2. ASSUME UNCHANGED profileVars PROVE Latest' = Latest
    BY <2>2 DEF profileVars, Latest
  <2>3. CASE ResetProfiler
    BY <2>3, RingReset DEF ResetProfiler, Ring!Next
  <2>4. ASSUME NEW ms \in Samples, BeginFrame(ms) PROVE Ring!Next
    BY <2>1, <2>4, RingAdd DEF BeginFrame, Ring!Next
  <2>5. CASE UNCHANGED profileVars
    BY <2>2, <2>5
  <2>6. ResetProfiler \/ (\E ms \in Samples : BeginFrame(ms)) \/ UNCHANGED profileVars
    BY <1>2 DEF RenderNext, ApplyInput, Respawn, SetCullingEnabled, DrawBackdrop, DrawPeer, DrawOwnShip,
       DrawBullet, DrawParticles, EndFrame, allVars
  <2> QED
    BY <2>3, <2>4, <2>5, <2>6
<1>3. RenderInv /\ [RenderNext]_allVars => RenderInv'
  BY RenderStep
<1> QED
  BY RenderStart, <1>1, <1>2, <1>3, PTL DEF RenderSpec, SlidesOver, Ring!Spec

\* RollKeepsControls in every attitude that turns lead to, of any number: the
\* axes stay perpendicular, so what the mouse asks for along the axes of the
\* last frame is what the nose has moved along them.
THEOREM RollKeeps == RenderSpec => RollKeepsControls
<1> DEFINE Keeps ==
      \A t \in Turns : ApplyInput(t) =>
          LET level == 1 - t.pitch * t.pitch IN
          /\ Dot(attitude'.forward, attitude.right) = level * t.yaw
          /\ Dot(attitude'.forward, attitude.up) = -t.pitch
          /\ Dot(attitude'.forward, attitude.forward) = level * (1 - t.yaw * t.yaw)
<1>1. RenderInv => Keeps
  <2> SUFFICES ASSUME RenderInv, NEW t \in Turns, ApplyInput(t)
               PROVE  /\ Dot(attitude'.forward, attitude.right) = (1 - t.pitch * t.pitch) * t.yaw
                      /\ Dot(attitude'.forward, attitude.up) = -t.pitch
                      /\ Dot(attitude'.forward, attitude.forward)
                            = (1 - t.pitch * t.pitch) * (1 - t.yaw * t.yaw)
    OBVIOUS
  <2>1. /\ attitude \in Attitudes /\ attitude.forward \in Vecs /\ attitude.right \in Vecs /\ attitude.up \in Vecs
    BY DEF RenderInv, Attitudes
  <2>2. PICK y \in -1..1, p \in -1..1, r \in -1..1 : y = t.yaw /\ p = t.pitch /\ r = t.roll
    BY CameraAssumption
  <2>3. PICK a \in Attitudes : a = Yaw(attitude, y)
    BY <2>1, TurnTyped
  <2>4. PICK b \in Attitudes : b = Pitch(a, p)
    BY TurnTyped
  <2>5. attitude'.forward = b.forward
    <3>1. attitude' = Roll(b, r)
      BY <2>2, <2>3, <2>4 DEF ApplyInput, Turned
    <3> QED
      BY <3>1 DEF Roll, Attitudes
  <2>6. /\ b.forward = Sum2(1 - p * p, a.forward, -p, a.up) /\ a.up = attitude.up
        /\ a.forward = Sum2(1 - y * y, attitude.forward, y, attitude.right)
        /\ a.forward \in Vecs
    BY <2>1, <2>3, <2>4 DEF Yaw, Pitch, Attitudes
  <2>7. /\ 1 - p * p \in -1..1 /\ -p \in -1..1 /\ 1 - y * y \in -1..1
        /\ (p = -1 \/ p = 0 \/ p = 1) /\ (y = -1 \/ y = 0 \/ y = 1)
    OBVIOUS
  <2>8. \A w \in Vecs : Dot(b.forward, w) = (1 - p * p) * Dot(a.forward, w) + (-p) * Dot(attitude.up, w)
    BY <2>1, <2>6, <2>7, DotSum
  <2>9. \A w \in Vecs : Dot(a.forward, w) = (1 - y * y) * Dot(attitude.forward, w) + y * Dot(attitude.right, w)
    BY <2>1, <2>6, <2>7, DotSum
  <2>10. /\ Dot(attitude.right, attitude.right) = 1 /\ Dot(attitude.up, attitude.up) = 1
         /\ Dot(attitude.forward, attitude.forward) = 1
         /\ Dot(attitude.right, attitude.up) = 0 /\ Dot(attitude.up, attitude.right) = 0
         /\ Dot(attitude.right, attitude.forward) = 0 /\ Dot(attitude.forward, attitude.right) = 0
         /\ Dot(attitude.up, attitude.forward) = 0 /\ Dot(attitude.forward, attitude.up) = 0
    <3>1. Square(attitude)
      BY DEF RenderInv
    <3> QED
      BY <2>1, <3>1, DotTyped DEF Square
  <2>11. /\ Dot(a.forward, attitude.right) = (1 - y * y) * 0 + y * 1
         /\ Dot(a.forward, attitude.up) = (1 - y * y) * 0 + y * 0
         /\ Dot(a.forward, attitude.forward) = (1 - y * y) * 1 + y * 0
    BY <2>1, <2>9, <2>10
  <2>12. /\ Dot(b.forward, attitude.right) = (1 - p * p) * Dot(a.forward, attitude.right) + (-p) * 0
         /\ Dot(b.forward, attitude.up) = (1 - p * p) * Dot(a.forward, attitude.up) + (-p) * 1
         /\ Dot(b.forward, attitude.forward) = (1 - p * p) * Dot(a.forward, attitude.forward) + (-p) * 0
    BY <2>1, <2>8, <2>10
  <2>13. /\ Dot(b.forward, attitude.right) = (1 - p * p) * y
         /\ Dot(b.forward, attitude.up) = -p
         /\ Dot(b.forward, attitude.forward) = (1 - p * p) * (1 - y * y)
    BY <2>7, <2>11, <2>12
  <2> QED
    BY <2>2, <2>5, <2>13, Zenon
<1>2. RenderInv /\ [RenderNext]_allVars => RenderInv' /\ [Keeps]_viewVars
  BY <1>1, RenderStep
<1> QED
  BY RenderStart, <1>2, PTL DEF RenderSpec, RollKeepsControls

-----------------------------------------------------------------------------
(* Culling *)

LEMMA CauchySchwarz ==
  ASSUME NEW a \in Int, NEW b \in Int, NEW c \in Int, NEW x \in Int, NEW y \in Int, NEW z \in Int
  PROVE  (a * x + b * y + c * z) * (a * x + b * y + c * z)
            <= (a * a + b * b + c * c) * (x * x + y * y + z * z)
<1>1. \A q \in Int : q * q >= 0
  OBVIOUS
<1> DEFINE p == a * y - b * x
           q == a * z - c * x
           r == b * z - c * y
<1>2. (a * a + b * b + c * c) * (x * x + y * y + z * z)
         = (a * x + b * y + c * z) * (a * x + b * y + c * z) + p * p + q * q + r * r
  OBVIOUS
<1>3. p * p >= 0 /\ q * q >= 0 /\ r * r >= 0 /\ p * p \in Int /\ q * q \in Int /\ r * r \in Int
  BY <1>1
<1> HIDE DEF p, q, r
<1> QED
  BY <1>2, <1>3

IntPoint(v) == v[1] \in Int /\ v[2] \in Int /\ v[3] \in Int

\* A ball outside a plane has no point on its inner side.
LEMMA BallOutside ==
  ASSUME NEW plane, IntPoint(plane.normal), plane.w \in Int, NEW center, IntPoint(center),
         NEW radius \in Nat, Outside(plane, center, radius), NEW v, IntPoint(v), Dot(v, v) <= radius * radius
  PROVE  Dot(plane.normal, Sum2(1, center, 1, v)) + plane.w < 0
<1> DEFINE n == plane.normal
           d == Dot(n, center) + plane.w
           e == Dot(n, v)
<1>1. d \in Int /\ e \in Int /\ Dot(n, n) \in Nat /\ Dot(v, v) \in Nat
  BY DEF Dot, IntPoint
<1>2. Dot(n, Sum2(1, center, 1, v)) + plane.w = d + e
  <2>1. \A i \in 1..3 : Sum2(1, center, 1, v)[i] = 1 * center[i] + 1 * v[i]
    BY DEF Sum2
  <2>2. /\ Sum2(1, center, 1, v)[1] = center[1] + v[1] /\ Sum2(1, center, 1, v)[2] = center[2] + v[2]
        /\ Sum2(1, center, 1, v)[3] = center[3] + v[3]
    BY <2>1 DEF IntPoint
  <2> QED
    BY <2>2 DEF Dot, IntPoint
<1>3. d < 0 /\ d * d > radius * radius * Dot(n, n)
  BY DEF Outside
<1>4. e * e <= Dot(n, n) * Dot(v, v)
  BY CauchySchwarz DEF Dot, IntPoint
<1>5. Dot(n, n) * Dot(v, v) <= Dot(n, n) * (radius * radius)
  BY <1>1
<1>6. e * e < d * d
  BY <1>1, <1>3, <1>4, <1>5
<1>7. ASSUME e >= -d PROVE FALSE
  <2> HIDE DEF d, e, n
  <2>1. e * e >= (-d) * (-d) /\ (-d) * (-d) = d * d
    BY <1>1, <1>3, <1>7
  <2> QED
    BY <1>1, <1>6, <2>1
<1> QED
  BY <1>1, <1>2, <1>7

\* Where a point lies of a plane: on its inner side when this is not negative.
At(plane, p) == Dot(plane.normal, p) + plane.w
IntPlane(plane) == IntPoint(plane.normal) /\ plane.w \in Int

LEMMA RowSumAt ==
  ASSUME NEW r, IntPlane(r), NEW s, IntPlane(s), NEW k \in Int, NEW p, IntPoint(p)
  PROVE  IntPlane(RowSum(r, k, s)) /\ At(RowSum(r, k, s), p) = At(r, p) + k * At(s, p)
<1> DEFINE n == Sum2(1, r.normal, k, s.normal)
<1>1. \A i \in 1..3 : n[i] = 1 * r.normal[i] + k * s.normal[i]
  BY DEF Sum2
<1>2. /\ n[1] = r.normal[1] + k * s.normal[1] /\ n[2] = r.normal[2] + k * s.normal[2]
      /\ n[3] = r.normal[3] + k * s.normal[3]
  BY <1>1 DEF IntPlane, IntPoint
<1>3. RowSum(r, k, s).normal = n /\ RowSum(r, k, s).w = r.w + k * s.w
  BY DEF RowSum, Row
<1> HIDE DEF n
<1>4. IntPlane(RowSum(r, k, s))
  BY <1>2, <1>3 DEF IntPlane, IntPoint
<1>5. Dot(n, p) = Dot(r.normal, p) + k * Dot(s.normal, p)
  BY <1>2 DEF Dot, IntPlane, IntPoint
<1>6. Dot(r.normal, p) \in Int /\ Dot(s.normal, p) \in Int /\ r.w \in Int /\ s.w \in Int
  BY DEF Dot, IntPlane, IntPoint
<1> QED
  BY <1>3, <1>4, <1>5, <1>6 DEF At

LEMMA ThroughAt ==
  ASSUME Eye \in Vecs, NEW k \in Int, NEW v \in Vecs, NEW w \in Int, NEW p, IntPoint(p)
  PROVE  /\ IntPlane(Through(k, v, w)) /\ Dot(v, Sum2(1, p, -1, Eye)) \in Int
         /\ At(Through(k, v, w), p) = k * Dot(v, Sum2(1, p, -1, Eye)) + w
<1>0. PICK e \in Vecs : e = Eye
  OBVIOUS
<1>1. IntPoint(v) /\ IntPoint(e) /\ -1 \in Int
  BY DEF Vecs, IntPoint
<1>2. PICK u : u = Sum2(1, p, -1, e)
  OBVIOUS
<1>3. \A i \in 1..3 : u[i] = 1 * p[i] + (-1) * e[i]
  BY <1>2 DEF Sum2
<1>4. u[1] = p[1] - e[1] /\ u[2] = p[2] - e[2] /\ u[3] = p[3] - e[3]
  BY <1>1, <1>3 DEF IntPoint
<1>5. PICK n : n = Scaled(k, v)
  OBVIOUS
<1>6. n[1] = k * v[1] /\ n[2] = k * v[2] /\ n[3] = k * v[3]
  BY <1>5 DEF Scaled
<1>7. Through(k, v, w).normal = n /\ Through(k, v, w).w = w - k * Dot(v, e)
  BY <1>0, <1>5 DEF Through, Row
<1>8. IntPlane(Through(k, v, w))
  BY <1>1, <1>6, <1>7 DEF IntPlane, IntPoint, Dot
<1>9. Dot(n, p) + (w - k * Dot(v, e)) = k * Dot(v, u) + w
  <2>1. Dot(v, u) = Dot(v, p) - Dot(v, e)
    BY <1>1, <1>4 DEF Dot, IntPoint
  <2>2. Dot(n, p) = k * Dot(v, p)
    BY <1>1, <1>6 DEF Dot, IntPoint
  <2>3. Dot(v, p) \in Int /\ Dot(v, e) \in Int
    BY <1>1 DEF Dot, IntPoint
  <2>4. k * (Dot(v, p) - Dot(v, e)) = k * Dot(v, p) - k * Dot(v, e)
    BY <2>3
  <2> QED
    BY <2>1, <2>2, <2>3, <2>4
<1>10. Dot(v, u) \in Int
  BY <1>1, <1>4 DEF Dot, IntPoint
<1> QED
  BY <1>0, <1>2, <1>7, <1>8, <1>9, <1>10 DEF At

LEMMA CameraTyped ==
  ASSUME attitude \in Attitudes, pos \in Vecs
  PROVE  /\ Eye \in Vecs /\ Sight \in Vecs /\ Above \in Vecs /\ attitude.right \in Vecs
         /\ {Near, Far, Norm, FocalX, FocalY} \subseteq Int /\ 0 < Near /\ Near < Far /\ 0 < Norm
<1>1. attitude.forward \in Vecs /\ attitude.right \in Vecs /\ attitude.up \in Vecs
  BY DEF Attitudes
<1>2. /\ {Near, Far, Norm, FocalX, FocalY, Back, Lift, Ahead} \subseteq Int
      /\ 0 < Near /\ Near < Far /\ 0 < Norm /\ -Back \in Int /\ -Lift \in Int /\ Back + Ahead \in Int
  BY CameraAssumption
<1>3. Sum2(-Back, attitude.forward, Lift, attitude.up) \in Vecs
  BY <1>1, <1>2, SumTyped
<1> QED
  <2>1. Eye \in Vecs
    <3>1. PICK e \in Vecs : e = Sum2(-Back, attitude.forward, Lift, attitude.up)
      BY <1>3
    <3>2. Sum2(1, pos, 1, e) \in Vecs
      <4>1. 1 \in Int /\ pos \in Vecs /\ e \in Vecs
        OBVIOUS
      <4> QED
        BY <4>1, SumTyped
    <3> QED
      BY <3>1, <3>2 DEF Eye
  <2>2. Sight \in Vecs /\ Above \in Vecs
    BY <1>1, <1>2, SumTyped DEF Sight, Above
  <2> QED
    BY <1>1, <1>2, <2>1, <2>2

\* What projects onto the screen, between the near and the far plane, lies on
\* the inner side of each of the planes.
LEMMA ScreenInside ==
  ASSUME attitude \in Attitudes, pos \in Vecs, NEW p, IntPoint(p), OnScreen(p), NEW plane \in Extract
  PROVE  IntPlane(plane) /\ At(plane, p) >= 0
<1> DEFINE u == Sum2(1, p, -1, Eye)
           depth == Dot(u, Sight)
           x == Dot(u, attitude.right)
           y == Dot(u, Above)
<1>0. /\ Eye \in Vecs /\ Sight \in Vecs /\ Above \in Vecs /\ attitude.right \in Vecs
      /\ Near \in Int /\ Far \in Int /\ Norm \in Int /\ FocalX \in Int /\ FocalY \in Int
      /\ 0 < Near /\ Near < Far /\ 0 < Norm
  BY CameraTyped
<1>1. IntPoint(u)
  <2>1. \A i \in 1..3 : u[i] = 1 * p[i] + (-1) * Eye[i]
    BY DEF Sum2
  <2>2. IntPoint(Eye)
    BY <1>0 DEF Vecs, IntPoint
  <2> QED
    BY <2>1, <2>2 DEF IntPoint
<1>2. \A v \in Vecs : Dot(v, u) = Dot(u, v) /\ Dot(u, v) \in Int
  BY <1>1 DEF Dot, Vecs, IntPoint
<1>3. /\ depth \in Int /\ x \in Int /\ y \in Int
      /\ Near * Norm <= depth /\ depth <= Far * Norm
      /\ -depth <= FocalX * Norm * x /\ FocalX * Norm * x <= depth
      /\ -depth <= FocalY * y /\ FocalY * y <= depth
  BY <1>0, <1>2 DEF OnScreen
<1>4. PICK k \in {1, -1}, r \in {Row0, Row1, Row2} : plane = RowSum(Row3, k, r)
  BY DEF Extract
<1> DEFINE W == Far - Near
<1>5. W \in Int /\ W > 0 /\ W * FocalX * Norm \in Int /\ W * FocalY \in Int /\ Far + Near \in Int
      /\ -2 * Far * Near * Norm \in Int
  BY <1>0
<1>6. IntPlane(Row3) /\ At(Row3, p) = W * depth
  <2>1. IntPlane(Row3) /\ At(Row3, p) = W * Dot(Sight, u) + 0
    BY <1>0, <1>5, ThroughAt DEF Row3
  <2> QED
    BY <1>0, <1>2, <1>3, <1>5, <2>1
<1>7. IntPlane(Row0) /\ At(Row0, p) = W * FocalX * Norm * x
  <2>1. IntPlane(Row0) /\ At(Row0, p) = W * FocalX * Norm * Dot(attitude.right, u) + 0
    BY <1>0, <1>5, ThroughAt DEF Row0
  <2> QED
    BY <1>0, <1>2, <1>3, <1>5, <2>1
<1>8. IntPlane(Row1) /\ At(Row1, p) = W * FocalY * y
  <2>1. IntPlane(Row1) /\ At(Row1, p) = W * FocalY * Dot(Above, u) + 0
    BY <1>0, <1>5, ThroughAt DEF Row1
  <2> QED
    BY <1>0, <1>2, <1>3, <1>5, <2>1
<1>9. IntPlane(Row2) /\ At(Row2, p) = (Far + Near) * depth + (-2 * Far * Near * Norm)
  <2>1. IntPlane(Row2) /\ At(Row2, p) = (Far + Near) * Dot(Sight, u) + (-2 * Far * Near * Norm)
    BY <1>0, <1>5, ThroughAt DEF Row2
  <2> QED
    BY <1>0, <1>2, <2>1
<1>10. IntPlane(r) /\ k \in Int
  BY <1>7, <1>8, <1>9
<1>11. IntPlane(plane) /\ At(plane, p) = At(Row3, p) + k * At(r, p)
  BY <1>4, <1>6, <1>10, RowSumAt
<1> HIDE DEF u, depth, x, y
<1>12. \A z \in Int : -depth <= z /\ z <= depth => W * depth + W * z >= 0 /\ W * depth - W * z >= 0
  <2> SUFFICES ASSUME NEW z \in Int, -depth <= z, z <= depth
               PROVE  W * depth + W * z >= 0 /\ W * depth - W * z >= 0
    OBVIOUS
  <2>1. W * (depth + z) >= 0 /\ W * (depth - z) >= 0
    BY <1>3, <1>5
  <2>2. W * (depth + z) = W * depth + W * z /\ W * (depth - z) = W * depth - W * z
    BY <1>3, <1>5
  <2> QED
    BY <2>1, <2>2
<1>13. CASE r = Row0
  <2>1. PICK z \in Int : z = FocalX * Norm * x
    BY <1>0, <1>3
  <2>2. At(r, p) = W * z
    BY <1>0, <1>3, <1>5, <1>7, <1>13, <2>1
  <2>3. W * depth + W * z >= 0 /\ W * depth - W * z >= 0
    BY <1>3, <1>12, <2>1
  <2> QED
    BY <1>3, <1>5, <1>6, <1>11, <2>2, <2>3
<1>14. CASE r = Row1
  <2>1. PICK z \in Int : z = FocalY * y
    BY <1>0, <1>3
  <2>2. At(r, p) = W * z
    BY <1>0, <1>3, <1>5, <1>8, <1>14, <2>1
  <2>3. W * depth + W * z >= 0 /\ W * depth - W * z >= 0
    BY <1>3, <1>12, <2>1
  <2> QED
    BY <1>3, <1>5, <1>6, <1>11, <2>2, <2>3
<1>15. CASE r = Row2
  <2>1. W * depth + ((Far + Near) * depth + (-2 * Far * Near * Norm)) = 2 * (Far * (depth - Near * Norm))
    BY <1>0, <1>3
  <2>2. W * depth - ((Far + Near) * depth + (-2 * Far * Near * Norm)) = 2 * (Near * (Far * Norm - depth))
    BY <1>0, <1>3
  <2>3. Far * (depth - Near * Norm) >= 0 /\ Near * (Far * Norm - depth) >= 0
    BY <1>0, <1>3
  <2>4. Far * (depth - Near * Norm) \in Int /\ Near * (Far * Norm - depth) \in Int
        /\ At(r, p) \in Int /\ At(Row3, p) \in Int
    BY <1>0, <1>3, <1>5, <1>6, <1>9, <1>15
  <2>5. At(Row3, p) + At(r, p) >= 0 /\ At(Row3, p) - At(r, p) >= 0
    BY <1>6, <1>9, <1>15, <2>1, <2>2, <2>3, <2>4
  <2> QED
    BY <1>11, <2>4, <2>5
<1> QED
  BY <1>11, <1>13, <1>14, <1>15

\* CulledIsInvisible for every attitude, camera offset and projection, and for
\* spheres of any size anywhere: culling takes nothing off the screen.
THEOREM CullingIsSafe == RenderSpec => []CulledIsInvisible
<1>1. ASSUME RenderInv PROVE CulledIsInvisible
  <2> SUFFICES ASSUME NEW s \in skipped, NEW v \in Ball(s[2]), OnScreen(Sum2(1, s[1], 1, v))
               PROVE  FALSE
    BY DEF CulledIsInvisible
  <2>1. attitude \in Attitudes /\ pos \in Vecs /\ s[1] \in Vecs /\ s[2] \in Nat
    BY <1>1 DEF RenderInv, SkippedOutside
  <2>2. PICK plane \in frustum : Outside(plane, s[1], s[2])
    BY <1>1 DEF RenderInv, SkippedOutside
  <2>3. plane \in Extract
    <3>1. stage # "update"
      BY <1>1 DEF RenderInv
    <3> QED
      BY <1>1, <2>2, <3>1 DEF RenderInv
  <2>4. IntPoint(v) /\ Dot(v, v) <= s[2] * s[2]
    <3>1. v \in (-s[2]..s[2]) \X (-s[2]..s[2]) \X (-s[2]..s[2]) /\ Dot(v, v) <= s[2] * s[2]
      BY DEF Ball
    <3> QED
      BY <2>1, <3>1 DEF IntPoint
  <2>5. PICK p : p = Sum2(1, s[1], 1, v)
    OBVIOUS
  <2>6. IntPoint(s[1]) /\ IntPoint(p)
    <3>1. IntPoint(s[1])
      BY <2>1 DEF Vecs, IntPoint
    <3>2. \A i \in 1..3 : p[i] = 1 * s[1][i] + 1 * v[i]
      BY <2>5 DEF Sum2
    <3> QED
      BY <2>4, <3>1, <3>2 DEF IntPoint
  <2>7. IntPlane(plane) /\ At(plane, p) >= 0
    BY <2>1, <2>3, <2>5, <2>6, ScreenInside
  <2>8. At(plane, p) < 0
    BY <2>1, <2>2, <2>4, <2>5, <2>6, <2>7, BallOutside DEF At, IntPlane
  <2>9. At(plane, p) \in Int
    BY <2>6, <2>7 DEF At, IntPlane, IntPoint, Dot
  <2> QED
    BY <2>7, <2>8, <2>9
<1>2. RenderInv /\ [RenderNext]_allVars => RenderInv'
  BY RenderStep
<1> QED
  BY RenderStart, <1>1, <1>2, PTL DEF RenderSpec


-----------------------------------------------------------------------------
(* Percentiles *)

LEMMA LeastNat ==
  ASSUME NEW T \in SUBSET Nat, T # {}
  PROVE  \E m \in T : \A k \in T : m <= k
<1> DEFINE R == OpToRel(<, Nat)
<1>1. IsWellFoundedOn(R, Nat)
  BY NatLessThanWellFounded
<1>2. \A k, m \in Nat : k < m => <<k, m>> \in R
  BY DEF OpToRel
<1> HIDE DEF R
<1>3. PICK m \in T : \A k \in T : <<k, m>> \notin R
  BY <1>1, WFMin
<1>4. \A k \in T : k \in Nat /\ ~(k < m)
  BY <1>2, <1>3
<1> QED
  BY <1>4

\* Induction: the least number outside of T would have a predecessor in it.
LEMMA AllNat ==
  ASSUME NEW T, 0 \in T, \A n \in Nat : n \in T => n + 1 \in T
  PROVE  \A n \in Nat : n \in T
<1> SUFFICES ASSUME Nat \ T # {} PROVE FALSE
  OBVIOUS
<1>1. PICK m \in Nat \ T : \A k \in Nat \ T : m <= k
  BY LeastNat
<1>2. m - 1 \in Nat /\ m - 1 + 1 = m
  BY <1>1
<1>3. m - 1 \notin Nat \ T
  BY <1>1, <1>2
<1> QED
  BY <1>1, <1>2, <1>3

Holding(f, n, x) == {i \in 1..n : f[i] = x}
AtMost(f, n, x) == {i \in 1..n : f[i] <= x}
Rising(f, n) == \A i \in 1..(n - 1) : f[i] <= f[i + 1]
Alike(f, g, n, S) == \A x \in S : Cardinality(Holding(f, n, x)) = Cardinality(Holding(g, n, x))

LEMMA PartsFinite ==
  ASSUME NEW f, NEW n \in Nat, NEW x
  PROVE  /\ IsFiniteSet(Holding(f, n, x)) /\ Cardinality(Holding(f, n, x)) \in Nat
         /\ IsFiniteSet(AtMost(f, n, x)) /\ Cardinality(AtMost(f, n, x)) \in Nat
         /\ IsFiniteSet(1..n) /\ Cardinality(1..n) = n
<1>1. IsFiniteSet(1..n) /\ Cardinality(1..n) = n
  BY FS_Interval
<1>2. Holding(f, n, x) \in SUBSET (1..n) /\ AtMost(f, n, x) \in SUBSET (1..n)
  BY DEF Holding, AtMost
<1> QED
  BY <1>1, <1>2, FS_Subset, FS_CardinalityType

Insertion(f, n, p, x, g) ==
    \A j \in 1..(n + 1) : g[j] = IF j < p THEN f[j] ELSE IF j = p THEN x ELSE f[j - 1]

\* Putting x at place p of f adds one to what holds x.
LEMMA Inserted ==
  ASSUME NEW n \in Nat, NEW f, NEW p \in 1..(n + 1), NEW x, NEW g, NEW y, Insertion(f, n, p, x, g)
  PROVE  Cardinality(Holding(g, n + 1, y)) = Cardinality(Holding(f, n, y)) + (IF y = x THEN 1 ELSE 0)
<1> DEFINE F == Holding(f, n, y)
           G == Holding(g, n + 1, y) \ {p}
           b == [i \in F |-> IF i < p THEN i ELSE i + 1]
<1>0. \A j \in 1..(n + 1) : g[j] = IF j < p THEN f[j] ELSE IF j = p THEN x ELSE f[j - 1]
  BY DEF Insertion
<1>1. b \in [F -> G]
  <2> SUFFICES ASSUME NEW i \in F PROVE (IF i < p THEN i ELSE i + 1) \in G
    OBVIOUS
  <2>1. i \in 1..n /\ f[i] = y
    BY DEF Holding
  <2>2. CASE i < p
    BY <1>0, <2>1, <2>2 DEF Holding
  <2>3. CASE ~(i < p)
    <3>1. i + 1 \in 1..(n + 1) /\ i + 1 # p /\ ~(i + 1 < p) /\ i + 1 - 1 = i
      BY <2>1, <2>3
    <3> QED
      BY <1>0, <2>1, <2>3, <3>1 DEF Holding
  <2> QED
    BY <2>2, <2>3
<1>2. \A i, j \in F : b[i] = b[j] => i = j
  BY DEF Holding
<1>3. \A j \in G : \E i \in F : b[i] = j
  <2> SUFFICES ASSUME NEW j \in G PROVE \E i \in F : b[i] = j
    OBVIOUS
  <2>1. j \in 1..(n + 1) /\ j # p /\ g[j] = y
    BY DEF Holding
  <2>2. CASE j < p
    <3>1. j \in F
      BY <1>0, <2>1, <2>2 DEF Holding
    <3> QED
      BY <2>2, <3>1
  <2>3. CASE j > p
    <3>1. j - 1 \in F /\ ~(j - 1 < p) /\ j - 1 + 1 = j
      BY <1>0, <2>1, <2>3 DEF Holding
    <3> QED
      BY <3>1
  <2> QED
    BY <2>1, <2>2, <2>3
<1>4. ExistsBijection(F, G)
  <2> HIDE DEF b, F, G
  <2>1. b \in Bijection(F, G)
    BY <1>1, <1>2, <1>3, Fun_IsBij
  <2> QED
    BY <2>1 DEF ExistsBijection
<1>5. IsFiniteSet(F) /\ Cardinality(F) \in Nat
  BY PartsFinite
<1>6. IsFiniteSet(G) /\ Cardinality(G) = Cardinality(F)
  <2> HIDE DEF F, G
  <2> QED
    BY <1>4, <1>5, FS_Bijection
<1>7. Holding(g, n + 1, y) = IF y = x THEN G \cup {p} ELSE G
  BY <1>0 DEF Holding
<1>8. p \notin G
  OBVIOUS
<1> HIDE DEF F, G
<1>9. Cardinality(G \cup {p}) = Cardinality(G) + 1
  BY <1>6, <1>8, FS_AddElement
<1> QED
  BY <1>5, <1>6, <1>7, <1>9 DEF F

\* Any numbers can be put in order.
LEMMA SortedExists ==
  ASSUME NEW S \in SUBSET Nat
  PROVE  \A n \in Nat : \A s \in [1..n -> S] : \E f \in [1..n -> S] : Rising(f, n) /\ Alike(f, s, n, S)
<1> DEFINE T == {n \in Nat : \A s \in [1..n -> S] : \E f \in [1..n -> S] : Rising(f, n) /\ Alike(f, s, n, S)}
<1>1. 0 \in T
  <2> SUFFICES ASSUME NEW s \in [1..0 -> S] PROVE Rising(s, 0) /\ Alike(s, s, 0, S)
    OBVIOUS
  <2> QED
    BY DEF Rising, Alike
<1>2. ASSUME NEW n \in Nat, n \in T, NEW s \in [1..(n + 1) -> S]
      PROVE  \E f \in [1..(n + 1) -> S] : Rising(f, n + 1) /\ Alike(f, s, n + 1, S)
  <2>1. PICK t \in [1..n -> S] : \A i \in 1..n : t[i] = s[i]
    <3>1. [i \in 1..n |-> s[i]] \in [1..n -> S]
      OBVIOUS
    <3> QED
      BY <3>1
  <2>2. PICK f \in [1..n -> S] : Rising(f, n) /\ Alike(f, t, n, S)
    BY <1>2
  <2>0. n + 1 \in 1..(n + 1) /\ n + 1 - 1 = n /\ n + 1 \in Nat
    OBVIOUS
  <2>3. PICK x \in S : x = s[n + 1]
    BY <2>0
  <2> DEFINE P == {k \in 1..(n + 1) : k = n + 1 \/ f[k] > x}
  <2>4. PICK p \in P : \A k \in P : p <= k
    <3>1. P \in SUBSET Nat /\ n + 1 \in P
      OBVIOUS
    <3> HIDE DEF P
    <3> QED
      BY <3>1, LeastNat
  <2>5. p \in 1..(n + 1) /\ (p = n + 1 \/ f[p] > x) /\ \A k \in 1..n : k < p => f[k] <= x
    <3>1. \A k \in 1..n : f[k] \in Nat /\ x \in Nat
      BY <2>2
    <3> QED
      BY <2>4, <3>1
  <2> DEFINE g == [j \in 1..(n + 1) |-> IF j < p THEN f[j] ELSE IF j = p THEN x ELSE f[j - 1]]
  <2>6. g \in [1..(n + 1) -> S]
    <3> SUFFICES ASSUME NEW j \in 1..(n + 1)
                 PROVE  (IF j < p THEN f[j] ELSE IF j = p THEN x ELSE f[j - 1]) \in S
      OBVIOUS
    <3>1. (j < p => j \in 1..n) /\ (j > p => j - 1 \in 1..n)
      BY <2>5
    <3> QED
      BY <2>2, <2>5, <3>1
  <2>7. Rising(g, n + 1)
    <3> SUFFICES ASSUME NEW i \in 1..n PROVE g[i] <= g[i + 1]
      <4> HIDE DEF g
      <4> QED
        BY <2>0 DEF Rising
    <3>0. g[i] = (IF i < p THEN f[i] ELSE IF i = p THEN x ELSE f[i - 1])
          /\ g[i + 1] = (IF i + 1 < p THEN f[i + 1] ELSE IF i + 1 = p THEN x ELSE f[i])
      OBVIOUS
    <3>1. x \in Nat /\ f[i] \in Nat
      BY <2>2
    <3>2. CASE i + 1 < p
      BY <2>2, <2>5, <3>0, <3>2 DEF Rising
    <3>3. CASE i + 1 = p
      BY <2>5, <3>0, <3>3
    <3>4. CASE i = p
      BY <2>5, <3>0, <3>1, <3>4
    <3>5. CASE i > p
      <4>1. i - 1 \in 1..(n - 1) /\ i - 1 + 1 = i
        BY <2>5, <3>5
      <4>2. f[i - 1] <= f[i]
        BY <2>2, <4>1 DEF Rising
      <4> QED
        BY <2>5, <3>0, <3>5, <4>2
    <3> QED
      BY <2>5, <3>2, <3>3, <3>4, <3>5
  <2>8. Alike(g, s, n + 1, S)
    <3> SUFFICES ASSUME NEW y \in S
                 PROVE  Cardinality(Holding(g, n + 1, y)) = Cardinality(Holding(s, n + 1, y))
      BY DEF Alike
    <3>1. Cardinality(Holding(g, n + 1, y)) = Cardinality(Holding(f, n, y)) + (IF y = x THEN 1 ELSE 0)
      <4>1. Insertion(f, n, p, x, g)
        BY DEF Insertion
      <4> HIDE DEF g
      <4> QED
        BY <2>5, <4>1, Inserted
    <3>2. Cardinality(Holding(s, n + 1, y)) = Cardinality(Holding(t, n, y)) + (IF y = x THEN 1 ELSE 0)
      <4>1. Insertion(t, n, n + 1, x, s)
        BY <2>1, <2>3 DEF Insertion
      <4> QED
        BY <2>0, <4>1, Inserted
    <3> QED
      BY <2>2, <3>1, <3>2 DEF Alike
  <2> QED
    BY <2>6, <2>7, <2>8
<1>3. \A n \in Nat : n \in T => n + 1 \in T
  BY <1>2
<1> HIDE DEF T
<1>4. \A n \in Nat : n \in T
  BY <1>1, <1>3, AllNat
<1> QED
  BY <1>4 DEF T

LEMMA RisingAll ==
  ASSUME NEW n \in Nat, NEW f \in [1..n -> Nat], Rising(f, n)
  PROVE  \A i, j \in 1..n : i <= j => f[i] <= f[j]
<1> DEFINE T == {d \in Nat : \A i \in 1..n : i + d \in 1..n => f[i] <= f[i + d]}
<1>1. 0 \in T
  OBVIOUS
<1>2. ASSUME NEW d \in Nat, d \in T
      PROVE  \A i \in 1..n : i + (d + 1) \in 1..n => f[i] <= f[i + (d + 1)]
  <2> SUFFICES ASSUME NEW i \in 1..n, i + (d + 1) \in 1..n PROVE f[i] <= f[i + (d + 1)]
    OBVIOUS
  <2>1. i + d \in 1..(n - 1) /\ i + d \in 1..n /\ i + d + 1 = i + (d + 1)
    BY <1>2
  <2>2. f[i] <= f[i + d]
    BY <1>2, <2>1
  <2>3. f[i + d] <= f[i + (d + 1)]
    BY <2>1 DEF Rising
  <2>4. f[i] \in Nat /\ f[i + d] \in Nat /\ f[i + (d + 1)] \in Nat
    BY <1>2, <2>1
  <2> QED
    BY <2>2, <2>3, <2>4
<1>3. ASSUME NEW d \in Nat, d \in T PROVE d + 1 \in T
  <2>1. d + 1 \in Nat
    OBVIOUS
  <2> QED
    BY <1>2, <1>3, <2>1
<1> HIDE DEF T
<1>4. \A d \in Nat : d \in T
  BY <1>1, <1>3, AllNat
<1> SUFFICES ASSUME NEW i \in 1..n, NEW j \in 1..n, i <= j PROVE f[i] <= f[j]
  OBVIOUS
<1>5. j - i \in Nat /\ i + (j - i) = j
  OBVIOUS
<1> QED
  BY <1>4, <1>5 DEF T

\* What holds as many of each number holds as many up to each number.
LEMMA AlikeAtMost ==
  ASSUME NEW S \in SUBSET Nat, NEW n \in Nat, NEW f \in [1..n -> S], NEW g \in [1..n -> S], Alike(f, g, n, S)
  PROVE  \A v \in Nat : Cardinality(AtMost(f, n, v)) = Cardinality(AtMost(g, n, v))
<1> DEFINE T == {v \in Nat : Cardinality(AtMost(f, n, v)) = Cardinality(AtMost(g, n, v))}
<1>1. ASSUME NEW v \in Nat PROVE Cardinality(Holding(f, n, v)) = Cardinality(Holding(g, n, v))
  <2>1. CASE v \in S
    BY <2>1 DEF Alike
  <2>2. CASE v \notin S
    <3>1. Holding(f, n, v) = {} /\ Holding(g, n, v) = {}
      BY <2>2 DEF Holding
    <3> QED
      BY <3>1
  <2> QED
    BY <2>1, <2>2
<1>2. 0 \in T
  <2>1. \A i \in 1..n : f[i] \in Nat /\ g[i] \in Nat
    OBVIOUS
  <2>2. AtMost(f, n, 0) = Holding(f, n, 0) /\ AtMost(g, n, 0) = Holding(g, n, 0)
    BY <2>1 DEF AtMost, Holding
  <2> QED
    BY <1>1, <2>2
<1>3. ASSUME NEW h \in [1..n -> S], NEW v \in Nat
      PROVE  Cardinality(AtMost(h, n, v + 1)) = Cardinality(AtMost(h, n, v)) + Cardinality(Holding(h, n, v + 1))
  <2>0. \A i \in 1..n : h[i] \in Nat
    OBVIOUS
  <2>1. AtMost(h, n, v + 1) = AtMost(h, n, v) \cup Holding(h, n, v + 1)
    BY <2>0 DEF AtMost, Holding
  <2>2. AtMost(h, n, v) \cap Holding(h, n, v + 1) = {}
    BY <2>0 DEF AtMost, Holding
  <2>3. v + 1 \in Nat
    OBVIOUS
  <2>4. /\ IsFiniteSet(AtMost(h, n, v)) /\ Cardinality(AtMost(h, n, v)) \in Nat
        /\ IsFiniteSet(Holding(h, n, v + 1)) /\ Cardinality(Holding(h, n, v + 1)) \in Nat
    BY PartsFinite
  <2>5. Cardinality(AtMost(h, n, v + 1))
          = Cardinality(AtMost(h, n, v)) + Cardinality(Holding(h, n, v + 1)) - Cardinality({})
    BY <2>1, <2>2, <2>4, FS_Union
  <2>6. Cardinality({}) = 0
    BY FS_EmptySet
  <2> QED
    BY <2>4, <2>5, <2>6
<1>4. ASSUME NEW v \in Nat, v \in T PROVE v + 1 \in T
  <2>1. v + 1 \in Nat
    OBVIOUS
  <2> QED
    BY <1>1, <1>3, <1>4, <2>1
<1> HIDE DEF T
<1>5. \A v \in Nat : v \in T
  BY <1>2, <1>4, AllNat
<1> QED
  BY <1>5 DEF T

LEMMA SortedIs ==
  ASSUME samples \in Seq(Samples), NEW n \in Nat, n = Len(samples)
  PROVE  /\ samples \in [1..n -> Samples] /\ DOMAIN samples = 1..n
         /\ Sorted \in [1..n -> Samples] /\ Rising(Sorted, n) /\ Alike(Sorted, samples, n, Samples)
<1>1. samples \in [1..n -> Samples] /\ DOMAIN samples = 1..n
  OBVIOUS
<1>2. ASSUME NEW s \in [1..n -> Samples]
      PROVE  /\ DOMAIN s = 1..n /\ Len(s) = n
  <2>1. s \in Seq(Samples)
    OBVIOUS
  <2> QED
    BY <2>1
<1>3. PICK f \in [1..n -> Samples] : Rising(f, n) /\ Alike(f, samples, n, Samples)
  BY <1>1, SortedExists, ConstantsAssumption
<1> DEFINE Q(s) == /\ \A i \in 1..(Len(s) - 1) : s[i] <= s[i + 1]
                   /\ \A x \in Samples : Cardinality({i \in DOMAIN s : s[i] = x})
                                           = Cardinality({i \in DOMAIN samples : samples[i] = x})
<1>4. \A s \in [1..n -> Samples] : Q(s) <=> Rising(s, n) /\ Alike(s, samples, n, Samples)
  BY <1>1, <1>2 DEF Rising, Alike, Holding
<1>5. Sorted = CHOOSE s \in [1..n -> Samples] : Q(s)
  BY DEF Sorted
<1> HIDE DEF Q
<1>6. Sorted \in [1..n -> Samples] /\ Q(Sorted)
  BY <1>3, <1>4, <1>5
<1> QED
  BY <1>1, <1>4, <1>6

\* What the ranks of n samples are.
RankOrder(n) ==
    /\ \A pct \in {50, 95, 99} : Rank(pct) \in 0..(n - 1) /\ 200 * (Rank(pct) + 1) > 2 * pct * (n - 1)
    /\ Rank(50) <= Rank(95) /\ Rank(95) <= Rank(99)

LEMMA RankIs ==
  ASSUME NEW n \in Nat \ {0}, n = Len(samples)
  PROVE  RankOrder(n)
<1>1. ASSUME NEW pct \in {50, 95, 99}
      PROVE  Rank(pct) \in 0..(n - 1) /\ 200 * (Rank(pct) + 1) > 2 * pct * (n - 1)
  <2>1. PICK k \in Int : k = (2 * pct * (n - 1) + 100) \div 200
    OBVIOUS
  <2>2. k >= 0 /\ 200 * (k + 1) > 2 * pct * (n - 1)
    BY <2>1
  <2>3. Rank(pct) = IF k < n - 1 THEN k ELSE n - 1
    BY <2>1 DEF Rank
  <2> QED
    BY <2>2, <2>3
<1>2. Rank(50) <= Rank(95)
  BY DEF Rank
<1>3. Rank(95) <= Rank(99)
  BY DEF Rank
<1> QED
  BY <1>1, <1>2, <1>3 DEF RankOrder

\* Percentiles are read in order and inside the window, and cover the samples
\* they claim to cover: the sorted copy exists for every window, and a number
\* is at or below a value as often in it as in the ring.
THEOREM PercentilesAreOrdered == RenderSpec => []PercentilesOrdered
<1>1. ASSUME RenderInv, samples # <<>>
      PROVE  /\ \A pct \in {50, 95, 99} : Rank(pct) \in 0..(Len(samples) - 1)
             /\ Pick(50) <= Pick(95) /\ Pick(95) <= Pick(99)
             /\ \A i \in DOMAIN samples : samples[i] <= Sorted[Len(samples)]
             /\ \A pct \in {50, 95, 99} :
                   200 * Cardinality({i \in DOMAIN samples : samples[i] <= Pick(pct)})
                      > 2 * pct * (Len(samples) - 1)
  <2>1. samples \in Seq(Samples)
    BY <1>1 DEF RenderInv, RingInv, TypeOK
  <2>2. PICK n \in Nat \ {0} : n = Len(samples)
    BY <1>1, <2>1
  <2>3. /\ samples \in [1..n -> Samples] /\ DOMAIN samples = 1..n
        /\ Sorted \in [1..n -> Samples] /\ Rising(Sorted, n) /\ Alike(Sorted, samples, n, Samples)
    BY <2>1, <2>2, SortedIs
  <2>4. PICK f \in [1..n -> Nat] : f = Sorted
    BY <2>3, ConstantsAssumption
  <2>5. \A i, j \in 1..n : i <= j => f[i] <= f[j]
    BY <2>3, <2>4, RisingAll
  <2>6. /\ \A pct \in {50, 95, 99} : Rank(pct) \in 0..(n - 1) /\ 200 * (Rank(pct) + 1) > 2 * pct * (n - 1)
        /\ Rank(50) <= Rank(95) /\ Rank(95) <= Rank(99)
    <3>1. RankOrder(n)
      BY <2>2, RankIs
    <3> QED
      BY <3>1 DEF RankOrder
  <2>7. \A v \in Nat : Cardinality(AtMost(f, n, v)) = Cardinality(AtMost(samples, n, v))
    BY <2>3, <2>4, AlikeAtMost, ConstantsAssumption
  <2>8. Pick(50) <= Pick(95) /\ Pick(95) <= Pick(99)
    <3>0. Rank(50) \in 0..(n - 1) /\ Rank(95) \in 0..(n - 1) /\ Rank(99) \in 0..(n - 1)
      BY <2>6
    <3>1. PICK a, b, c \in 0..(n - 1) : a = Rank(50) /\ b = Rank(95) /\ c = Rank(99)
      BY <3>0
    <3>2. a <= b /\ b <= c
      BY <2>6, <3>1
    <3>3. /\ a + 1 \in 1..n /\ b + 1 \in 1..n /\ c + 1 \in 1..n
          /\ a + 1 <= b + 1 /\ b + 1 <= c + 1
      BY <3>2
    <3>4. f[a + 1] <= f[b + 1] /\ f[b + 1] <= f[c + 1]
      BY <2>5, <3>3
    <3> QED
      BY <2>4, <3>1, <3>4 DEF Pick
  <2>9. ASSUME NEW i \in 1..n PROVE samples[i] <= f[n]
    <3>1. n \in 1..n /\ f[n] \in Nat
      OBVIOUS
    <3>2. AtMost(f, n, f[n]) = 1..n
      BY <2>5, <3>1 DEF AtMost
    <3>3. IsFiniteSet(1..n) /\ Cardinality(AtMost(samples, n, f[n])) = Cardinality(1..n)
      BY <2>7, <3>1, <3>2, PartsFinite
    <3>4. AtMost(samples, n, f[n]) \in SUBSET (1..n)
      BY DEF AtMost
    <3>5. AtMost(samples, n, f[n]) = 1..n
      BY <3>3, <3>4, FS_Subset
    <3> QED
      BY <3>5 DEF AtMost
  <2>10. ASSUME NEW pct \in {50, 95, 99}
         PROVE  200 * Cardinality({i \in 1..n : samples[i] <= Pick(pct)}) > 2 * pct * (n - 1)
    <3>1. PICK r \in 0..(n - 1) : r = Rank(pct)
      BY <2>6
    <3>2. r + 1 \in 1..n /\ f[r + 1] \in Nat /\ Pick(pct) = f[r + 1]
      BY <2>4, <3>1 DEF Pick
    <3>3. 1..(r + 1) \subseteq AtMost(f, n, f[r + 1])
      BY <2>5, <3>2 DEF AtMost
    <3>4. IsFiniteSet(AtMost(f, n, f[r + 1])) /\ Cardinality(AtMost(f, n, f[r + 1])) \in Nat
      BY PartsFinite
    <3>5. r + 1 \in Nat /\ Cardinality(1..(r + 1)) = r + 1
      BY PartsFinite
    <3>6. r + 1 <= Cardinality(AtMost(f, n, f[r + 1]))
      BY <3>3, <3>4, <3>5, FS_Subset
    <3>7. AtMost(samples, n, f[r + 1]) = {i \in 1..n : samples[i] <= Pick(pct)}
      BY <3>2 DEF AtMost
    <3>8. PICK k \in Nat : k = Cardinality({i \in 1..n : samples[i] <= Pick(pct)}) /\ r + 1 <= k
      BY <2>7, <3>2, <3>4, <3>6, <3>7
    <3>9. PICK m \in Int : m = 2 * pct * (n - 1)
      OBVIOUS
    <3>10. 200 * (r + 1) > m
      BY <2>6, <3>1, <3>9
    <3> QED
      BY <3>1, <3>8, <3>9, <3>10
  <2> QED
    BY <2>2, <2>3, <2>4, <2>6, <2>8, <2>9, <2>10
<1>2. RenderInv => PercentilesOrdered
  BY <1>1 DEF PercentilesOrdered
<1>3. RenderInv /\ [RenderNext]_allVars => RenderInv'
  BY RenderStep
<1> QED
  BY <1>2, <1>3, RenderStart, PTL DEF RenderSpec


-----------------------------------------------------------------------------
(* Shapes *)

\* The bounding radii that culling tests cover the ship's nose and the sphere:
\* 1.8 against 1.6 and 0.3 against 0.28 in the code.
Reaches == ShipReach >= 160 /\ Radius <= BulletReach

EdgeOf(t, k) == <<t[k], t[IF k = 3 THEN 1 ELSE k + 1]>>

\* An edge of one triangle is no edge of another, nor another edge of it.
Parted(hull) == \A t, u \in hull : \A j, k \in 1..3 : EdgeOf(t, j) = EdgeOf(u, k) => t = u /\ j = k

Backed(hull) ==
    \A t \in hull : \A j \in 1..3 : \E u \in hull : \E k \in 1..3 :
        EdgeOf(u, k) = <<t[IF j = 3 THEN 1 ELSE j + 1], t[j]>>

LEMMA SameCount ==
  ASSUME NEW S
  PROVE  Cardinality(S) = Cardinality(S)
  BY DEF Cardinality, Cardinality

LEMMA EdgesAre ==
  ASSUME NEW hull
  PROVE  /\ \A e \in Edges(hull) : \E t \in hull : \E k \in 1..3 : e = EdgeOf(t, k)
         /\ \A t \in hull : \A k \in 1..3 : EdgeOf(t, k) \in Edges(hull)
<1>1. ASSUME NEW t
      PROVE  {<<t[1], t[2]>>, <<t[2], t[3]>>, <<t[3], t[1]>>} = {EdgeOf(t, 1), EdgeOf(t, 2), EdgeOf(t, 3)}
  BY DEF EdgeOf
<1>2. Edges(hull) = UNION {{EdgeOf(t, 1), EdgeOf(t, 2), EdgeOf(t, 3)} : t \in hull}
  BY <1>1 DEF Edges
<1>3. 1..3 = {1, 2, 3}
  OBVIOUS
<1> QED
  BY <1>2, <1>3

LEMMA Upto ==
  ASSUME NEW n \in Nat
  PROVE  IsFiniteSet(1..n) /\ Cardinality(1..n) = n
  BY FS_Interval

LEMMA ClosedIf ==
  ASSUME NEW hull, IsFiniteSet(hull), Parted(hull), Backed(hull)
  PROVE  Closed(hull)
<1> DEFINE P == hull \X (1..3)
           b == [p \in P |-> EdgeOf(p[1], p[2])]
<1>1. b \in [P -> Edges(hull)]
  BY EdgesAre
<1>2. ASSUME NEW p \in P, NEW q \in P, b[p] = b[q] PROVE p = q
  <2>1. EdgeOf(p[1], p[2]) = EdgeOf(q[1], q[2])
    BY <1>2
  <2>2. p[1] = q[1] /\ p[2] = q[2]
    BY <2>1 DEF Parted
  <2> QED
    BY <2>2
<1>3. ASSUME NEW e \in Edges(hull) PROVE \E p \in P : b[p] = e
  <2>1. PICK t \in hull : \E k \in 1..3 : e = EdgeOf(t, k)
    BY EdgesAre
  <2>2. PICK k \in 1..3 : e = EdgeOf(t, k)
    BY <2>1
  <2>3. <<t, k>> \in P /\ b[<<t, k>>] = e
    BY <2>2
  <2> QED
    BY <2>3
<1>4. Cardinality(P) = Cardinality(hull) * 3 /\ IsFiniteSet(P)
  <2>1. IsFiniteSet(1..3) /\ Cardinality(1..3) = 3
    <3>1. 3 \in Nat
      OBVIOUS
    <3> QED
      BY <3>1, Upto, Zenon
  <2> QED
    BY <2>1, FS_Product
<1>5. Cardinality(P) = Cardinality(Edges(hull))
  <2> HIDE DEF P, b
  <2>1. b \in Bijection(P, Edges(hull))
    BY <1>1, <1>2, <1>3, Fun_IsBij
  <2>2. ExistsBijection(P, Edges(hull))
    BY <2>1 DEF ExistsBijection
  <2> QED
    BY <1>4, <2>2, FS_Bijection
<1>6. Cardinality(hull) \in Nat
  BY FS_CardinalityType
<1>7. Cardinality(Edges(hull)) = 3 * Cardinality(hull)
  <2> HIDE DEF P
  <2> QED
    BY <1>4, <1>5, <1>6
<1>8. ASSUME NEW e \in Edges(hull) PROVE <<e[2], e[1]>> \in Edges(hull)
  <2>1. PICK t \in hull : \E k \in 1..3 : e = EdgeOf(t, k)
    BY EdgesAre
  <2>2. PICK j \in 1..3 : e = EdgeOf(t, j)
    BY <2>1
  <2>3. <<e[2], e[1]>> = <<t[IF j = 3 THEN 1 ELSE j + 1], t[j]>>
    BY <2>2 DEF EdgeOf
  <2>4. PICK u \in hull : \E k \in 1..3 : EdgeOf(u, k) = <<e[2], e[1]>>
    <3>1. \E u \in hull : \E k \in 1..3 :
             EdgeOf(u, k) = <<t[IF j = 3 THEN 1 ELSE j + 1], t[j]>>
      BY DEF Backed
    <3> QED
      BY <2>3, <3>1
  <2> QED
    BY <2>4, EdgesAre
<1> QED
  BY <1>7, <1>8, SameCount DEF Closed

LEMMA RangeFinite ==
  ASSUME NEW S, IsFiniteSet(S), NEW f
  PROVE  IsFiniteSet({f[x] : x \in S})
<1> DEFINE T == {f[x] : x \in S}
           b == [x \in S |-> f[x]]
<1>1. b \in [S -> T] /\ \A y \in T : \E x \in S : b[x] = y
  OBVIOUS
<1>2. b \in Surjection(S, T)
  BY <1>1 DEF Surjection
<1> HIDE DEF b, T
<1>3. IsFiniteSet(T)
  BY <1>2, FS_Surjection
<1> QED
  BY <1>3 DEF T

LEMMA DivMod ==
  ASSUME NEW d \in Nat \ {0}, NEW q \in Nat, NEW m \in 0..(d - 1), NEW a \in Nat, a = q * d + m
  PROVE  a \div d = q /\ a % d = m
<1>1. PICK k \in Int : k = a \div d
  OBVIOUS
<1>2. k * d <= a /\ a < k * d + d
  BY <1>1
<1>3. k = q
  <2>1. CASE k < q
    <3>1. (k + 1) * d <= q * d /\ (k + 1) * d = k * d + d
      BY <2>1
    <3> QED
      BY <1>2, <3>1
  <2>2. CASE k > q
    <3>1. (q + 1) * d <= k * d /\ (q + 1) * d = q * d + d
      BY <2>2
    <3> QED
      BY <1>2, <3>1
  <2> QED
    BY <2>1, <2>2
<1>4. a % d = a - (a \div d) * d
  OBVIOUS
<1> QED
  BY <1>1, <1>3, <1>4

-----------------------------------------------------------------------------
(* The ship *)

LEMMA ShipClosed == Closed(Ship)
<1> DEFINE a == Nose  b == TailLeft  c == TailRight  d == Top  e == Bottom
<1>1. a # b /\ a # c /\ a # d /\ a # e /\ b # c /\ b # d /\ b # e /\ c # d /\ c # e /\ d # e
  BY DEF Nose, TailLeft, TailRight, Top, Bottom
<1>2. Ship = {<<a, b, d>>, <<a, d, c>>, <<a, e, b>>, <<a, c, e>>, <<b, e, d>>, <<c, d, e>>}
  BY DEF Ship
<1> HIDE DEF a, b, c, d, e
<1>3. IsFiniteSet(Ship)
  <2> DEFINE list == <<<<a, b, d>>, <<a, d, c>>, <<a, e, b>>, <<a, c, e>>, <<b, e, d>>, <<c, d, e>>>>
  <2>1. Ship = {list[i] : i \in 1..6}
    BY <1>2
  <2>2. IsFiniteSet(1..6)
    <3>1. 6 \in Nat
      OBVIOUS
    <3> QED
      BY <3>1, Upto, Zenon
  <2> HIDE DEF list
  <2> QED
    BY <2>1, <2>2, RangeFinite
<1>4. Parted(Ship)
  BY <1>1, <1>2 DEF Parted, EdgeOf
<1>5. Backed(Ship)
  BY <1>1, <1>2 DEF Backed, EdgeOf
<1> QED
  BY <1>3, <1>4, <1>5, ClosedIf

LEMMA ShipOut == FacesOut(Ship)
<1> SUFFICES ASSUME NEW t \in Ship
             PROVE  Dot3(Cross(Plus3(t[2], -1, t[1]), Plus3(t[3], -1, t[1])), t[1]) > 0
  BY DEF FacesOut
<1> USE DEF Dot3, Cross, Plus3, Nose, TailLeft, TailRight, Top, Bottom
<1>1. CASE t = <<Nose, TailLeft, Top>>
  BY <1>1
<1>2. CASE t = <<Nose, Top, TailRight>>
  BY <1>2
<1>3. CASE t = <<Nose, Bottom, TailLeft>>
  BY <1>3
<1>4. CASE t = <<Nose, TailRight, Bottom>>
  BY <1>4
<1>5. CASE t = <<TailLeft, Bottom, Top>>
  BY <1>5
<1>6. CASE t = <<TailRight, Top, Bottom>>
  BY <1>6
<1> QED
  BY <1>1, <1>2, <1>3, <1>4, <1>5, <1>6 DEF Ship

LEMMA ShipWithin == ASSUME Reaches PROVE Within(Ship, ShipReach)
<1>1. ShipReach \in Nat /\ 25600 <= ShipReach * ShipReach
  <2>1. ShipReach \in Nat /\ ShipReach >= 160
    BY PrimitivesAssumption DEF Reaches
  <2>2. PICK k \in Nat : ShipReach = 160 + k
    <3>1. ShipReach - 160 \in Nat
      BY <2>1
    <3> QED
      BY <2>1, <3>1
  <2>3. (160 + k) * (160 + k) = 25600 + 320 * k + k * k /\ k * k \in Nat
    OBVIOUS
  <2> QED
    BY <2>1, <2>2, <2>3
<1> DEFINE Points == {Nose, TailLeft, TailRight, Top, Bottom}
<1>2. \A p \in Points : Dot3(p, p) <= 25600
  BY DEF Dot3, Nose, TailLeft, TailRight, Top, Bottom
<1>3. \A p \in Points : Dot3(p, p) \in Int
  BY DEF Dot3, Nose, TailLeft, TailRight, Top, Bottom
<1>4. \A t \in Ship : t[1] \in Points /\ t[2] \in Points /\ t[3] \in Points
  BY DEF Ship
<1>5. ASSUME NEW t \in Ship, NEW k \in 1..3 PROVE Dot3(t[k], t[k]) <= ShipReach * ShipReach
  <2>1. t[k] \in Points
    BY <1>4
  <2> HIDE DEF Points
  <2>2. PICK n \in Int : n = Dot3(t[k], t[k])
    BY <1>3, <2>1
  <2>3. PICK m \in Int : m = ShipReach * ShipReach
    BY <1>1
  <2> QED
    BY <1>1, <1>2, <2>1, <2>2, <2>3
<1> QED
  BY <1>5 DEF Within

LEMMA ShipIsSolid == ASSUME Reaches PROVE ShipSolid
  BY ShipClosed, ShipOut, ShipWithin DEF ShipSolid

-----------------------------------------------------------------------------
(* The cube *)

\* The corners of the cube, numbered like those of the box, and its triangles.
Signed(x, y, z) == [d \in 1..3 |-> IF d = 1 THEN x * Half ELSE IF d = 2 THEN y * Half ELSE z * Half]
Vertices ==
    [c \in 0..7 |-> Signed(IF c \in {1, 2, 5, 6} THEN 1 ELSE -1,
                           IF c \in {2, 3, 6, 7} THEN 1 ELSE -1,
                           IF c \in {4, 5, 6, 7} THEN 1 ELSE -1)]
Numbered ==
    {<<4, 5, 6>>, <<4, 6, 7>>, <<1, 0, 3>>, <<1, 3, 2>>,
     <<5, 1, 2>>, <<5, 2, 6>>, <<0, 4, 7>>, <<0, 7, 3>>,
     <<7, 6, 2>>, <<7, 2, 3>>, <<0, 1, 5>>, <<0, 5, 4>>}

LEMMA CornerIs ==
  ASSUME Half \in Nat, NEW n \in [1..3 -> Int], NEW u \in [1..3 -> Int], NEW v \in [1..3 -> Int], NEW c
  PROVE  Corner(<<n, u, v>>, c)
           = [d \in 1..3 |-> Half * n[d] + (IF c \in {0, 3} THEN -Half ELSE Half) * u[d]
                               + (IF c < 2 THEN -Half ELSE Half) * v[d]]
  BY DEF Corner, Plus3

LEMMA CornerAt ==
  ASSUME Half \in Nat, NEW n \in [1..3 -> Int], NEW u \in [1..3 -> Int], NEW v \in [1..3 -> Int]
  PROVE  /\ Corner(<<n, u, v>>, 0) = Signed(n[1] - u[1] - v[1], n[2] - u[2] - v[2], n[3] - u[3] - v[3])
         /\ Corner(<<n, u, v>>, 1) = Signed(n[1] + u[1] - v[1], n[2] + u[2] - v[2], n[3] + u[3] - v[3])
         /\ Corner(<<n, u, v>>, 2) = Signed(n[1] + u[1] + v[1], n[2] + u[2] + v[2], n[3] + u[3] + v[3])
         /\ Corner(<<n, u, v>>, 3) = Signed(n[1] - u[1] + v[1], n[2] - u[2] + v[2], n[3] - u[3] + v[3])
<1> DEFINE Laid(sx, sy) == [d \in 1..3 |-> Half * n[d] + sx * u[d] + sy * v[d]]
<1>1. /\ Corner(<<n, u, v>>, 0) = Laid(-Half, -Half) /\ Corner(<<n, u, v>>, 1) = Laid(Half, -Half)
      /\ Corner(<<n, u, v>>, 2) = Laid(Half, Half) /\ Corner(<<n, u, v>>, 3) = Laid(-Half, Half)
  BY CornerIs
<1>2. ASSUME NEW sx \in {-1, 1}, NEW sy \in {-1, 1}
      PROVE  Laid(sx * Half, sy * Half)
               = Signed(n[1] + sx * u[1] + sy * v[1], n[2] + sx * u[2] + sy * v[2], n[3] + sx * u[3] + sy * v[3])
  <2>1. ASSUME NEW d \in 1..3
        PROVE  Half * n[d] + (sx * Half) * u[d] + (sy * Half) * v[d] = (n[d] + sx * u[d] + sy * v[d]) * Half
    <3>1. n[d] \in Int /\ u[d] \in Int /\ v[d] \in Int /\ sx \in Int /\ sy \in Int
      OBVIOUS
    <3> QED
      BY <3>1
  <2> QED
    BY <2>1 DEF Signed
<1> HIDE DEF Laid
<1>3. 1 * Half = Half /\ -1 * Half = -Half
  OBVIOUS
<1>4. \A d \in 1..3 : /\ n[d] \in Int /\ u[d] \in Int /\ v[d] \in Int
                      /\ 1 * u[d] = u[d] /\ 1 * v[d] = v[d]
                      /\ n[d] + -1 * u[d] + -1 * v[d] = n[d] - u[d] - v[d]
                      /\ n[d] + u[d] + -1 * v[d] = n[d] + u[d] - v[d]
                      /\ n[d] + -1 * u[d] + v[d] = n[d] - u[d] + v[d]
  OBVIOUS
<1>5. /\ Laid(-Half, -Half) = Signed(n[1] - u[1] - v[1], n[2] - u[2] - v[2], n[3] - u[3] - v[3])
      /\ Laid(Half, -Half) = Signed(n[1] + u[1] - v[1], n[2] + u[2] - v[2], n[3] + u[3] - v[3])
      /\ Laid(Half, Half) = Signed(n[1] + u[1] + v[1], n[2] + u[2] + v[2], n[3] + u[3] + v[3])
      /\ Laid(-Half, Half) = Signed(n[1] - u[1] + v[1], n[2] - u[2] + v[2], n[3] - u[3] + v[3])
  BY <1>2, <1>3, <1>4
<1> QED
  BY <1>1, <1>5

LEMMA CornersAre ==
  ASSUME Half \in Nat
  PROVE  /\ Vertices[0] = Signed(-1, -1, -1) /\ Vertices[1] = Signed(1, -1, -1)
         /\ Vertices[2] = Signed(1, 1, -1) /\ Vertices[3] = Signed(-1, 1, -1)
         /\ Vertices[4] = Signed(-1, -1, 1) /\ Vertices[5] = Signed(1, -1, 1)
         /\ Vertices[6] = Signed(1, 1, 1) /\ Vertices[7] = Signed(-1, 1, 1)
  BY DEF Vertices

LEMMA CubeIs ==
  ASSUME Half \in Nat
  PROVE  Cube = {<<Vertices[t[1]], Vertices[t[2]], Vertices[t[3]]>> : t \in Numbered}
<1> DEFINE C(f, c) == Corner(f, c)
<1>1. /\ C(<< <<0, 0, 1>>, <<1, 0, 0>>, <<0, 1, 0>> >>, 0) = Vertices[4] /\ C(<< <<0, 0, 1>>, <<1, 0, 0>>, <<0, 1, 0>> >>, 1) = Vertices[5]
      /\ C(<< <<0, 0, 1>>, <<1, 0, 0>>, <<0, 1, 0>> >>, 2) = Vertices[6] /\ C(<< <<0, 0, 1>>, <<1, 0, 0>>, <<0, 1, 0>> >>, 3) = Vertices[7]
  <2>1. PICK n, u, v \in [1..3 -> Int] : n = <<0, 0, 1>> /\ u = <<1, 0, 0>> /\ v = <<0, 1, 0>>
    <3>1. <<0, 0, 1>> \in [1..3 -> Int] /\ <<1, 0, 0>> \in [1..3 -> Int] /\ <<0, 1, 0>> \in [1..3 -> Int]
      OBVIOUS
    <3> QED
      BY <3>1
  <2>2. /\ n[1] - u[1] - v[1] = -1 /\ n[1] + u[1] - v[1] = 1 /\ n[1] + u[1] + v[1] = 1 /\ n[1] - u[1] + v[1] = -1
        /\ n[2] - u[2] - v[2] = -1 /\ n[2] + u[2] - v[2] = -1 /\ n[2] + u[2] + v[2] = 1 /\ n[2] - u[2] + v[2] = 1
        /\ n[3] - u[3] - v[3] = 1 /\ n[3] + u[3] - v[3] = 1 /\ n[3] + u[3] + v[3] = 1 /\ n[3] - u[3] + v[3] = 1
    BY <2>1
  <2> QED
    BY <2>1, <2>2, CornerAt, CornersAre
<1>2. /\ C(<< <<0, 0, -1>>, <<-1, 0, 0>>, <<0, 1, 0>> >>, 0) = Vertices[1] /\ C(<< <<0, 0, -1>>, <<-1, 0, 0>>, <<0, 1, 0>> >>, 1) = Vertices[0]
      /\ C(<< <<0, 0, -1>>, <<-1, 0, 0>>, <<0, 1, 0>> >>, 2) = Vertices[3] /\ C(<< <<0, 0, -1>>, <<-1, 0, 0>>, <<0, 1, 0>> >>, 3) = Vertices[2]
  <2>1. PICK n, u, v \in [1..3 -> Int] : n = <<0, 0, -1>> /\ u = <<-1, 0, 0>> /\ v = <<0, 1, 0>>
    <3>1. <<0, 0, -1>> \in [1..3 -> Int] /\ <<-1, 0, 0>> \in [1..3 -> Int] /\ <<0, 1, 0>> \in [1..3 -> Int]
      OBVIOUS
    <3> QED
      BY <3>1
  <2>2. /\ n[1] - u[1] - v[1] = 1 /\ n[1] + u[1] - v[1] = -1 /\ n[1] + u[1] + v[1] = -1 /\ n[1] - u[1] + v[1] = 1
        /\ n[2] - u[2] - v[2] = -1 /\ n[2] + u[2] - v[2] = -1 /\ n[2] + u[2] + v[2] = 1 /\ n[2] - u[2] + v[2] = 1
        /\ n[3] - u[3] - v[3] = -1 /\ n[3] + u[3] - v[3] = -1 /\ n[3] + u[3] + v[3] = -1 /\ n[3] - u[3] + v[3] = -1
    BY <2>1
  <2> QED
    BY <2>1, <2>2, CornerAt, CornersAre
<1>3. /\ C(<< <<1, 0, 0>>, <<0, 0, -1>>, <<0, 1, 0>> >>, 0) = Vertices[5] /\ C(<< <<1, 0, 0>>, <<0, 0, -1>>, <<0, 1, 0>> >>, 1) = Vertices[1]
      /\ C(<< <<1, 0, 0>>, <<0, 0, -1>>, <<0, 1, 0>> >>, 2) = Vertices[2] /\ C(<< <<1, 0, 0>>, <<0, 0, -1>>, <<0, 1, 0>> >>, 3) = Vertices[6]
  <2>1. PICK n, u, v \in [1..3 -> Int] : n = <<1, 0, 0>> /\ u = <<0, 0, -1>> /\ v = <<0, 1, 0>>
    <3>1. <<1, 0, 0>> \in [1..3 -> Int] /\ <<0, 0, -1>> \in [1..3 -> Int] /\ <<0, 1, 0>> \in [1..3 -> Int]
      OBVIOUS
    <3> QED
      BY <3>1
  <2>2. /\ n[1] - u[1] - v[1] = 1 /\ n[1] + u[1] - v[1] = 1 /\ n[1] + u[1] + v[1] = 1 /\ n[1] - u[1] + v[1] = 1
        /\ n[2] - u[2] - v[2] = -1 /\ n[2] + u[2] - v[2] = -1 /\ n[2] + u[2] + v[2] = 1 /\ n[2] - u[2] + v[2] = 1
        /\ n[3] - u[3] - v[3] = 1 /\ n[3] + u[3] - v[3] = -1 /\ n[3] + u[3] + v[3] = -1 /\ n[3] - u[3] + v[3] = 1
    BY <2>1
  <2> QED
    BY <2>1, <2>2, CornerAt, CornersAre
<1>4. /\ C(<< <<-1, 0, 0>>, <<0, 0, 1>>, <<0, 1, 0>> >>, 0) = Vertices[0] /\ C(<< <<-1, 0, 0>>, <<0, 0, 1>>, <<0, 1, 0>> >>, 1) = Vertices[4]
      /\ C(<< <<-1, 0, 0>>, <<0, 0, 1>>, <<0, 1, 0>> >>, 2) = Vertices[7] /\ C(<< <<-1, 0, 0>>, <<0, 0, 1>>, <<0, 1, 0>> >>, 3) = Vertices[3]
  <2>1. PICK n, u, v \in [1..3 -> Int] : n = <<-1, 0, 0>> /\ u = <<0, 0, 1>> /\ v = <<0, 1, 0>>
    <3>1. <<-1, 0, 0>> \in [1..3 -> Int] /\ <<0, 0, 1>> \in [1..3 -> Int] /\ <<0, 1, 0>> \in [1..3 -> Int]
      OBVIOUS
    <3> QED
      BY <3>1
  <2>2. /\ n[1] - u[1] - v[1] = -1 /\ n[1] + u[1] - v[1] = -1 /\ n[1] + u[1] + v[1] = -1 /\ n[1] - u[1] + v[1] = -1
        /\ n[2] - u[2] - v[2] = -1 /\ n[2] + u[2] - v[2] = -1 /\ n[2] + u[2] + v[2] = 1 /\ n[2] - u[2] + v[2] = 1
        /\ n[3] - u[3] - v[3] = -1 /\ n[3] + u[3] - v[3] = 1 /\ n[3] + u[3] + v[3] = 1 /\ n[3] - u[3] + v[3] = -1
    BY <2>1
  <2> QED
    BY <2>1, <2>2, CornerAt, CornersAre
<1>5. /\ C(<< <<0, 1, 0>>, <<1, 0, 0>>, <<0, 0, -1>> >>, 0) = Vertices[7] /\ C(<< <<0, 1, 0>>, <<1, 0, 0>>, <<0, 0, -1>> >>, 1) = Vertices[6]
      /\ C(<< <<0, 1, 0>>, <<1, 0, 0>>, <<0, 0, -1>> >>, 2) = Vertices[2] /\ C(<< <<0, 1, 0>>, <<1, 0, 0>>, <<0, 0, -1>> >>, 3) = Vertices[3]
  <2>1. PICK n, u, v \in [1..3 -> Int] : n = <<0, 1, 0>> /\ u = <<1, 0, 0>> /\ v = <<0, 0, -1>>
    <3>1. <<0, 1, 0>> \in [1..3 -> Int] /\ <<1, 0, 0>> \in [1..3 -> Int] /\ <<0, 0, -1>> \in [1..3 -> Int]
      OBVIOUS
    <3> QED
      BY <3>1
  <2>2. /\ n[1] - u[1] - v[1] = -1 /\ n[1] + u[1] - v[1] = 1 /\ n[1] + u[1] + v[1] = 1 /\ n[1] - u[1] + v[1] = -1
        /\ n[2] - u[2] - v[2] = 1 /\ n[2] + u[2] - v[2] = 1 /\ n[2] + u[2] + v[2] = 1 /\ n[2] - u[2] + v[2] = 1
        /\ n[3] - u[3] - v[3] = 1 /\ n[3] + u[3] - v[3] = 1 /\ n[3] + u[3] + v[3] = -1 /\ n[3] - u[3] + v[3] = -1
    BY <2>1
  <2> QED
    BY <2>1, <2>2, CornerAt, CornersAre
<1>6. /\ C(<< <<0, -1, 0>>, <<1, 0, 0>>, <<0, 0, 1>> >>, 0) = Vertices[0] /\ C(<< <<0, -1, 0>>, <<1, 0, 0>>, <<0, 0, 1>> >>, 1) = Vertices[1]
      /\ C(<< <<0, -1, 0>>, <<1, 0, 0>>, <<0, 0, 1>> >>, 2) = Vertices[5] /\ C(<< <<0, -1, 0>>, <<1, 0, 0>>, <<0, 0, 1>> >>, 3) = Vertices[4]
  <2>1. PICK n, u, v \in [1..3 -> Int] : n = <<0, -1, 0>> /\ u = <<1, 0, 0>> /\ v = <<0, 0, 1>>
    <3>1. <<0, -1, 0>> \in [1..3 -> Int] /\ <<1, 0, 0>> \in [1..3 -> Int] /\ <<0, 0, 1>> \in [1..3 -> Int]
      OBVIOUS
    <3> QED
      BY <3>1
  <2>2. /\ n[1] - u[1] - v[1] = -1 /\ n[1] + u[1] - v[1] = 1 /\ n[1] + u[1] + v[1] = 1 /\ n[1] - u[1] + v[1] = -1
        /\ n[2] - u[2] - v[2] = -1 /\ n[2] + u[2] - v[2] = -1 /\ n[2] + u[2] + v[2] = -1 /\ n[2] - u[2] + v[2] = -1
        /\ n[3] - u[3] - v[3] = -1 /\ n[3] + u[3] - v[3] = -1 /\ n[3] + u[3] + v[3] = 1 /\ n[3] - u[3] + v[3] = 1
    BY <2>1
  <2> QED
    BY <2>1, <2>2, CornerAt, CornersAre
<1> HIDE DEF C
<1>7. Cube = {<<C(f, 0), C(f, 1), C(f, 2)>> : f \in Faces} \cup {<<C(f, 0), C(f, 2), C(f, 3)>> : f \in Faces}
  BY DEF Cube, C
<1> QED
  BY <1>1, <1>2, <1>3, <1>4, <1>5, <1>6, <1>7 DEF Faces, Numbered

LEMMA VertexAt ==
  ASSUME Half \in Nat, NEW c \in 0..7
  PROVE  /\ Vertices[c][1] = (IF c \in {1, 2, 5, 6} THEN Half ELSE -Half)
         /\ Vertices[c][2] = (IF c \in {2, 3, 6, 7} THEN Half ELSE -Half)
         /\ Vertices[c][3] = (IF c \in {4, 5, 6, 7} THEN Half ELSE -Half)
<1>1. 1 * Half = Half /\ -1 * Half = -Half
  OBVIOUS
<1> QED
  BY <1>1 DEF Vertices, Signed

LEMMA VerticesDiffer ==
  ASSUME Half \in Nat \ {0}, NEW i \in 0..7, NEW j \in 0..7, Vertices[i] = Vertices[j]
  PROVE  i = j
<1>1. Vertices[i][1] = Vertices[j][1] /\ Vertices[i][2] = Vertices[j][2] /\ Vertices[i][3] = Vertices[j][3]
  OBVIOUS
<1>3. Half # -Half
  OBVIOUS
<1>4. /\ i \in {1, 2, 5, 6} <=> j \in {1, 2, 5, 6}
      /\ i \in {2, 3, 6, 7} <=> j \in {2, 3, 6, 7}
      /\ i \in {4, 5, 6, 7} <=> j \in {4, 5, 6, 7}
  BY <1>1, <1>3, VertexAt
<1> QED
  BY <1>4

LEMMA FourFinite ==
  ASSUME NEW a, NEW b, NEW c, NEW d
  PROVE  IsFiniteSet({a, b, c, d})
<1>1. IsFiniteSet({a})
  BY FS_Singleton
<1>2. IsFiniteSet({a} \cup {b})
  BY <1>1, FS_AddElement
<1>3. IsFiniteSet(({a} \cup {b}) \cup {c})
  BY <1>2, FS_AddElement
<1>4. IsFiniteSet((({a} \cup {b}) \cup {c}) \cup {d})
  BY <1>3, FS_AddElement
<1>5. (({a} \cup {b}) \cup {c}) \cup {d} = {a, b, c, d}
  OBVIOUS
<1> QED
  BY <1>4, <1>5

TriplesOf(hull, I) ==
    \A t \in hull : t = <<t[1], t[2], t[3]>> /\ t[1] \in I /\ t[2] \in I /\ t[3] \in I
Separate(p, I) == \A i, j \in I : p[i] = p[j] => i = j

\* What is closed stays closed when its corners are put in different places.
LEMMA PlacedClosed ==
  ASSUME NEW I, NEW hull, IsFiniteSet(hull), TriplesOf(hull, I), Parted(hull), Backed(hull),
         NEW p, Separate(p, I)
  PROVE  Closed({<<p[t[1]], p[t[2]], p[t[3]]>> : t \in hull})
<1> DEFINE Placed(t) == <<p[t[1]], p[t[2]], p[t[3]]>>
           image == {Placed(t) : t \in hull}
<1>1. \A t \in hull : \A k \in 1..3 : EdgeOf(Placed(t), k) = <<p[EdgeOf(t, k)[1]], p[EdgeOf(t, k)[2]]>>
  BY DEF EdgeOf
<1>2. \A t \in hull : \A k \in 1..3 : /\ EdgeOf(t, k) = <<EdgeOf(t, k)[1], EdgeOf(t, k)[2]>>
                                      /\ EdgeOf(t, k)[1] \in I /\ EdgeOf(t, k)[2] \in I
  BY DEF EdgeOf, TriplesOf
<1>3. IsFiniteSet(image)
  <2> DEFINE f == [t \in hull |-> Placed(t)]
  <2>1. image = {f[t] : t \in hull}
    OBVIOUS
  <2> HIDE DEF f, image
  <2> QED
    BY <2>1, RangeFinite
<1>4. Parted(image)
  <2> SUFFICES ASSUME NEW t \in hull, NEW u \in hull, NEW j \in 1..3, NEW k \in 1..3,
                      EdgeOf(Placed(t), j) = EdgeOf(Placed(u), k)
               PROVE  Placed(t) = Placed(u) /\ j = k
    BY DEF Parted
  <2>1. p[EdgeOf(t, j)[1]] = p[EdgeOf(u, k)[1]] /\ p[EdgeOf(t, j)[2]] = p[EdgeOf(u, k)[2]]
    BY <1>1
  <2>2. EdgeOf(t, j) = EdgeOf(u, k)
    BY <1>2, <2>1 DEF Separate
  <2> QED
    BY <2>2 DEF Parted
<1>5. Backed(image)
  <2> SUFFICES ASSUME NEW w \in image, NEW j \in 1..3
               PROVE  \E x \in image : \E k \in 1..3 : EdgeOf(x, k) = <<w[IF j = 3 THEN 1 ELSE j + 1], w[j]>>
    BY DEF Backed
  <2>0. PICK t \in hull : w = Placed(t)
    OBVIOUS
  <2>1. PICK u \in hull : \E k \in 1..3 : EdgeOf(u, k) = <<t[IF j = 3 THEN 1 ELSE j + 1], t[j]>>
    BY DEF Backed
  <2>2. PICK k \in 1..3 : EdgeOf(u, k) = <<t[IF j = 3 THEN 1 ELSE j + 1], t[j]>>
    BY <2>1
  <2>3. EdgeOf(Placed(u), k) = <<p[t[IF j = 3 THEN 1 ELSE j + 1]], p[t[j]]>>
    BY <1>1, <2>2
  <2>4. Placed(t)[j] = p[t[j]] /\ Placed(t)[IF j = 3 THEN 1 ELSE j + 1] = p[t[IF j = 3 THEN 1 ELSE j + 1]]
    OBVIOUS
  <2>5. EdgeOf(Placed(u), k) = <<Placed(t)[IF j = 3 THEN 1 ELSE j + 1], Placed(t)[j]>>
    BY <2>3, <2>4
  <2>6. Placed(u) \in image
    OBVIOUS
  <2> HIDE DEF image, Placed
  <2> QED
    BY <2>0, <2>5, <2>6
<1> HIDE DEF image
<1>6. Closed(image)
  BY <1>3, <1>4, <1>5, ClosedIf
<1> QED
  BY <1>6 DEF image

LEMMA CubeClosed ==
  ASSUME Half \in Nat \ {0}
  PROVE  Closed(Cube)
<1>1. TriplesOf(Numbered, 0..7)
  BY DEF TriplesOf, Numbered
<1>3. Parted(Numbered)
  BY DEF Parted, EdgeOf, Numbered
<1>4. Backed(Numbered)
  BY DEF Backed, EdgeOf, Numbered
<1>5. IsFiniteSet(Numbered)
  <2>1. IsFiniteSet({<<4, 5, 6>>, <<4, 6, 7>>, <<1, 0, 3>>, <<1, 3, 2>>})
    BY FourFinite
  <2>2. IsFiniteSet({<<5, 1, 2>>, <<5, 2, 6>>, <<0, 4, 7>>, <<0, 7, 3>>})
    BY FourFinite
  <2>3. IsFiniteSet({<<7, 6, 2>>, <<7, 2, 3>>, <<0, 1, 5>>, <<0, 5, 4>>})
    BY FourFinite
  <2>4. Numbered = {<<4, 5, 6>>, <<4, 6, 7>>, <<1, 0, 3>>, <<1, 3, 2>>}
                     \cup {<<5, 1, 2>>, <<5, 2, 6>>, <<0, 4, 7>>, <<0, 7, 3>>}
                     \cup {<<7, 6, 2>>, <<7, 2, 3>>, <<0, 1, 5>>, <<0, 5, 4>>}
    BY DEF Numbered
  <2> QED
    BY <2>1, <2>2, <2>3, <2>4, FS_Union
<1>2. Separate(Vertices, 0..7)
  BY VerticesDiffer DEF Separate
<1>6. Half \in Nat
  OBVIOUS
<1>7. Closed({<<Vertices[t[1]], Vertices[t[2]], Vertices[t[3]]>> : t \in Numbered})
  BY <1>1, <1>2, <1>3, <1>4, <1>5, PlacedClosed
<1> QED
  BY <1>6, <1>7, CubeIs

Volume(a, b, c) == Dot3(Cross(Plus3(b, -1, a), Plus3(c, -1, a)), a)

\* For corners whose coordinates are h or -h.
Signs(a, h, x, y, z) == a[1] = x * h /\ a[2] = y * h /\ a[3] = z * h

LEMMA VolumeIs ==
  ASSUME NEW h \in Nat, NEW a, NEW b, NEW c,
         NEW a1 \in Int, NEW a2 \in Int, NEW a3 \in Int, NEW b1 \in Int, NEW b2 \in Int, NEW b3 \in Int,
         NEW c1 \in Int, NEW c2 \in Int, NEW c3 \in Int,
         Signs(a, h, a1, a2, a3), Signs(b, h, b1, b2, b3), Signs(c, h, c1, c2, c3),
           ((b2 - a2) * (c3 - a3) - (b3 - a3) * (c2 - a2)) * a1
         + ((b3 - a3) * (c1 - a1) - (b1 - a1) * (c3 - a3)) * a2
         + ((b1 - a1) * (c2 - a2) - (b2 - a2) * (c1 - a1)) * a3 = 4
  PROVE  Volume(a, b, c) = 4 * (h * h * h)
<1> DEFINE u1 == b1 - a1  u2 == b2 - a2  u3 == b3 - a3
           v1 == c1 - a1  v2 == c2 - a2  v3 == c3 - a3
<1>1. /\ Plus3(b, -1, a)[1] = u1 * h /\ Plus3(b, -1, a)[2] = u2 * h /\ Plus3(b, -1, a)[3] = u3 * h
      /\ Plus3(c, -1, a)[1] = v1 * h /\ Plus3(c, -1, a)[2] = v2 * h /\ Plus3(c, -1, a)[3] = v3 * h
  BY DEF Plus3, Signs
<1>2. u1 \in Int /\ u2 \in Int /\ u3 \in Int /\ v1 \in Int /\ v2 \in Int /\ v3 \in Int
  OBVIOUS
<1>3. (u2 * v3 - u3 * v2) * a1 + (u3 * v1 - u1 * v3) * a2 + (u1 * v2 - u2 * v1) * a3 = 4
  OBVIOUS
<1> HIDE DEF u1, u2, u3, v1, v2, v3
<1>4. Volume(a, b, c) = ((u2 * h) * (v3 * h) - (u3 * h) * (v2 * h)) * (a1 * h)
                          + ((u3 * h) * (v1 * h) - (u1 * h) * (v3 * h)) * (a2 * h)
                          + ((u1 * h) * (v2 * h) - (u2 * h) * (v1 * h)) * (a3 * h)
  BY <1>1 DEF Volume, Dot3, Cross, Signs
<1>5. ((u2 * h) * (v3 * h) - (u3 * h) * (v2 * h)) * (a1 * h)
        + ((u3 * h) * (v1 * h) - (u1 * h) * (v3 * h)) * (a2 * h)
        + ((u1 * h) * (v2 * h) - (u2 * h) * (v1 * h)) * (a3 * h)
      = ((u2 * v3 - u3 * v2) * a1 + (u3 * v1 - u1 * v3) * a2 + (u1 * v2 - u2 * v1) * a3) * (h * h * h)
  BY <1>2
<1> QED
  BY <1>3, <1>4, <1>5

\* The triangles of the cube span tetrahedra of one and the same volume with
\* the origin: each face lies at Half before its normal.
LEMMA CubeOut ==
  ASSUME Half \in Nat \ {0}
  PROVE  FacesOut(Cube)
<1>1. ASSUME NEW h \in Nat, h = Half
      PROVE  \A t \in Numbered : Volume(Vertices[t[1]], Vertices[t[2]], Vertices[t[3]]) = 4 * (h * h * h)
  <2>0. /\ Signs(Vertices[0], h, -1, -1, -1) /\ Signs(Vertices[1], h, 1, -1, -1)
        /\ Signs(Vertices[2], h, 1, 1, -1) /\ Signs(Vertices[3], h, -1, 1, -1)
        /\ Signs(Vertices[4], h, -1, -1, 1) /\ Signs(Vertices[5], h, 1, -1, 1)
        /\ Signs(Vertices[6], h, 1, 1, 1) /\ Signs(Vertices[7], h, -1, 1, 1)
    <3>1. 1 * h = h /\ -1 * h = -h
      OBVIOUS
    <3> QED
      BY <1>1, <3>1, VertexAt DEF Signs
  <2>1. Volume(Vertices[4], Vertices[5], Vertices[6]) = 4 * (h * h * h)
    BY <2>0, VolumeIs
  <2>2. Volume(Vertices[4], Vertices[6], Vertices[7]) = 4 * (h * h * h)
    BY <2>0, VolumeIs
  <2>3. Volume(Vertices[1], Vertices[0], Vertices[3]) = 4 * (h * h * h)
    BY <2>0, VolumeIs
  <2>4. Volume(Vertices[1], Vertices[3], Vertices[2]) = 4 * (h * h * h)
    BY <2>0, VolumeIs
  <2>5. Volume(Vertices[5], Vertices[1], Vertices[2]) = 4 * (h * h * h)
    BY <2>0, VolumeIs
  <2>6. Volume(Vertices[5], Vertices[2], Vertices[6]) = 4 * (h * h * h)
    BY <2>0, VolumeIs
  <2>7. Volume(Vertices[0], Vertices[4], Vertices[7]) = 4 * (h * h * h)
    BY <2>0, VolumeIs
  <2>8. Volume(Vertices[0], Vertices[7], Vertices[3]) = 4 * (h * h * h)
    BY <2>0, VolumeIs
  <2>9. Volume(Vertices[7], Vertices[6], Vertices[2]) = 4 * (h * h * h)
    BY <2>0, VolumeIs
  <2>10. Volume(Vertices[7], Vertices[2], Vertices[3]) = 4 * (h * h * h)
    BY <2>0, VolumeIs
  <2>11. Volume(Vertices[0], Vertices[1], Vertices[5]) = 4 * (h * h * h)
    BY <2>0, VolumeIs
  <2>12. Volume(Vertices[0], Vertices[5], Vertices[4]) = 4 * (h * h * h)
    BY <2>0, VolumeIs
  <2> QED
    BY <2>1, <2>2, <2>3, <2>4, <2>5, <2>6, <2>7, <2>8, <2>9, <2>10, <2>11, <2>12 DEF Numbered
<1>2. PICK h \in Nat \ {0} : h = Half
  OBVIOUS
<1>3. 4 * (h * h * h) > 0
  <2>1. PICK k \in Nat \ {0} : k = h * h
    <3>1. h * h > 0
      OBVIOUS
    <3> QED
      BY <3>1
  <2>2. k * h > 0
    OBVIOUS
  <2> QED
    BY <2>1, <2>2
<1>4. \A t \in Numbered : Volume(Vertices[t[1]], Vertices[t[2]], Vertices[t[3]]) > 0
  BY <1>1, <1>2, <1>3
<1> QED
  BY <1>4, CubeIs DEF FacesOut, Volume

-----------------------------------------------------------------------------
(* The sphere *)

Col(r, s) == IF r = 0 \/ r = Rings \/ s = Sectors THEN 0 ELSE s
Spot(r, s) == <<r, Col(r, s)>>
Upper(r, s) == <<Spot(r, s), Spot(r + 1, s), Spot(r, s + 1)>>
Lower(r, s) == <<Spot(r, s + 1), Spot(r + 1, s), Spot(r + 1, s + 1)>>

Uppers == {Upper(r, s) : r \in 1..(Rings - 1), s \in 0..(Sectors - 1)}
Lowers == {Lower(r, s) : r \in 0..(Rings - 2), s \in 0..(Sectors - 1)}

SphereConstants == Rings \in Nat \ {0, 1} /\ Sectors \in Nat \ {0, 1, 2}

LEMMA PlaceIs ==
  ASSUME SphereConstants, NEW r \in 0..Rings, NEW s \in 0..Sectors
  PROVE  Place(r * (Sectors + 1) + s) = Spot(r, s)
<1>1. (r * (Sectors + 1) + s) \div (Sectors + 1) = r /\ (r * (Sectors + 1) + s) % (Sectors + 1) = s
  <2>1. Sectors + 1 \in Nat \ {0} /\ r \in Nat /\ s \in 0..((Sectors + 1) - 1)
    BY DEF SphereConstants
  <2>2. r * (Sectors + 1) + s \in Nat
    <3>1. r * (Sectors + 1) \in Nat
      BY <2>1
    <3> QED
      BY <3>1
  <2>3. PICK d \in Nat \ {0} : d = Sectors + 1
    BY <2>1
  <2>4. PICK a \in Nat : a = r * d + s
    BY <2>2, <2>3
  <2>5. a \div d = r /\ a % d = s
    BY <2>1, <2>3, <2>4, DivMod
  <2> QED
    BY <2>3, <2>4, <2>5
<1>2. s % Sectors = IF s = Sectors THEN 0 ELSE s
  <2>1. Sectors \in Nat \ {0}
    BY DEF SphereConstants
  <2>2. CASE s = Sectors
    <3>1. Sectors = 1 * Sectors + 0 /\ 0 \in 0..(Sectors - 1) /\ 1 \in Nat
      BY <2>1
    <3> QED
      BY <2>1, <2>2, <3>1, DivMod
  <2>3. CASE s # Sectors
    <3>1. s = 0 * Sectors + s /\ s \in 0..(Sectors - 1) /\ 0 \in Nat /\ s \in Nat
      BY <2>1, <2>3
    <3> QED
      BY <2>1, <2>3, <3>1, DivMod
  <2> QED
    BY <2>2, <2>3
<1>3. Rings # 0
  BY DEF SphereConstants
<1> QED
  BY <1>1, <1>2, <1>3 DEF Place, Spot, Col

LEMMA UppersParted ==
  ASSUME SphereConstants, NEW r \in 1..(Rings - 1), NEW s \in 0..(Sectors - 1),
         NEW q \in 1..(Rings - 1), NEW z \in 0..(Sectors - 1), NEW j \in 1..3, NEW k \in 1..3,
         EdgeOf(Upper(r, s), j) = EdgeOf(Upper(q, z), k)
  PROVE  r = q /\ s = z /\ j = k
  BY DEF SphereConstants, EdgeOf, Upper, Spot, Col

LEMMA LowersParted ==
  ASSUME SphereConstants, NEW r \in 0..(Rings - 2), NEW s \in 0..(Sectors - 1),
         NEW q \in 0..(Rings - 2), NEW z \in 0..(Sectors - 1), NEW j \in 1..3, NEW k \in 1..3,
         EdgeOf(Lower(r, s), j) = EdgeOf(Lower(q, z), k)
  PROVE  r = q /\ s = z /\ j = k
  BY DEF SphereConstants, EdgeOf, Lower, Spot, Col

LEMMA SidesParted ==
  ASSUME SphereConstants, NEW r \in 1..(Rings - 1), NEW s \in 0..(Sectors - 1),
         NEW q \in 0..(Rings - 2), NEW z \in 0..(Sectors - 1), NEW j \in 1..3, NEW k \in 1..3
  PROVE  EdgeOf(Upper(r, s), j) # EdgeOf(Lower(q, z), k)
  BY DEF SphereConstants, EdgeOf, Upper, Lower, Spot, Col

LEMMA SphereParted == ASSUME SphereConstants PROVE Parted(Uppers \cup Lowers)
<1> SUFFICES ASSUME NEW t \in Uppers \cup Lowers, NEW u \in Uppers \cup Lowers, NEW j \in 1..3, NEW k \in 1..3,
                    EdgeOf(t, j) = EdgeOf(u, k)
             PROVE  t = u /\ j = k
  BY DEF Parted
<1>1. CASE t \in Uppers /\ u \in Uppers
  <2>1. PICK r \in 1..(Rings - 1), s \in 0..(Sectors - 1) : t = Upper(r, s)
    BY <1>1 DEF Uppers
  <2>2. PICK q \in 1..(Rings - 1), z \in 0..(Sectors - 1) : u = Upper(q, z)
    BY <1>1 DEF Uppers
  <2> QED
    BY <2>1, <2>2, UppersParted
<1>2. CASE t \in Lowers /\ u \in Lowers
  <2>1. PICK r \in 0..(Rings - 2), s \in 0..(Sectors - 1) : t = Lower(r, s)
    BY <1>2 DEF Lowers
  <2>2. PICK q \in 0..(Rings - 2), z \in 0..(Sectors - 1) : u = Lower(q, z)
    BY <1>2 DEF Lowers
  <2> QED
    BY <2>1, <2>2, LowersParted
<1>3. CASE t \in Uppers /\ u \in Lowers
  BY <1>3, SidesParted DEF Uppers, Lowers
<1>4. CASE t \in Lowers /\ u \in Uppers
  BY <1>4, SidesParted DEF Uppers, Lowers
<1> QED
  BY <1>1, <1>2, <1>3, <1>4

\* The edge that runs back: across the diagonal, up or down a column, along a
\* ring, and at the poles into the neighbour's sector.
LEMMA SphereBacked == ASSUME SphereConstants PROVE Backed(Uppers \cup Lowers)
<1> DEFINE Right(s) == IF s = Sectors - 1 THEN 0 ELSE s + 1
           Left(s) == IF s = 0 THEN Sectors - 1 ELSE s - 1
           Run(p, q) == \E u \in Uppers \cup Lowers : \E k \in 1..3 : EdgeOf(u, k) = <<p, q>>
<1>0. Rings \in Nat /\ Sectors \in Nat /\ Rings >= 2 /\ Sectors >= 3
  BY DEF SphereConstants
<1>1. ASSUME NEW s \in 0..(Sectors - 1)
      PROVE  /\ Right(s) \in 0..(Sectors - 1) /\ Left(s) \in 0..(Sectors - 1)
             /\ \A r \in 0..Rings : Spot(r, Right(s)) = Spot(r, s + 1) /\ Spot(r, Left(s) + 1) = Spot(r, s)
  BY <1>0 DEF Spot, Col
<1>2. \A s : \A z : Spot(0, s) = Spot(0, z) /\ Spot(Rings, s) = Spot(Rings, z)
  BY DEF Spot, Col
<1>3. ASSUME NEW r \in 1..(Rings - 1), NEW s \in 0..(Sectors - 1)
      PROVE  /\ Upper(r, s) \in Uppers \cup Lowers
             /\ Run(Spot(r, s), Spot(r + 1, s)) /\ Run(Spot(r + 1, s), Spot(r, s + 1))
             /\ Run(Spot(r, s + 1), Spot(r, s))
  <2>1. Upper(r, s) \in Uppers \cup Lowers
    BY DEF Uppers
  <2>2. /\ EdgeOf(Upper(r, s), 1) = <<Spot(r, s), Spot(r + 1, s)>>
        /\ EdgeOf(Upper(r, s), 2) = <<Spot(r + 1, s), Spot(r, s + 1)>>
        /\ EdgeOf(Upper(r, s), 3) = <<Spot(r, s + 1), Spot(r, s)>>
    BY DEF EdgeOf, Upper
  <2>3. 1 \in 1..3 /\ 2 \in 1..3 /\ 3 \in 1..3
    OBVIOUS
  <2> QED
    BY <2>1, <2>2, <2>3
<1>4. ASSUME NEW r \in 0..(Rings - 2), NEW s \in 0..(Sectors - 1)
      PROVE  /\ Lower(r, s) \in Uppers \cup Lowers
             /\ Run(Spot(r, s + 1), Spot(r + 1, s)) /\ Run(Spot(r + 1, s), Spot(r + 1, s + 1))
             /\ Run(Spot(r + 1, s + 1), Spot(r, s + 1))
  <2>1. Lower(r, s) \in Uppers \cup Lowers
    BY DEF Lowers
  <2>2. /\ EdgeOf(Lower(r, s), 1) = <<Spot(r, s + 1), Spot(r + 1, s)>>
        /\ EdgeOf(Lower(r, s), 2) = <<Spot(r + 1, s), Spot(r + 1, s + 1)>>
        /\ EdgeOf(Lower(r, s), 3) = <<Spot(r + 1, s + 1), Spot(r, s + 1)>>
    BY DEF EdgeOf, Lower
  <2>3. 1 \in 1..3 /\ 2 \in 1..3 /\ 3 \in 1..3
    OBVIOUS
  <2> QED
    BY <2>1, <2>2, <2>3
<1> HIDE DEF Right, Left, Run
<1>5. ASSUME NEW r \in 1..(Rings - 1), NEW s \in 0..(Sectors - 1)
      PROVE  /\ Run(Spot(r + 1, s), Spot(r, s)) /\ Run(Spot(r, s + 1), Spot(r + 1, s))
             /\ Run(Spot(r, s), Spot(r, s + 1))
  <2>1. Run(Spot(r, s), Spot(r, s + 1))
    <3>1. r - 1 \in 0..(Rings - 2) /\ r - 1 + 1 = r
      BY <1>0
    <3> QED
      BY <1>4, <3>1
  <2>2. CASE r = Rings - 1
    <3>1. r + 1 = Rings /\ r \in 0..Rings
      BY <1>0, <2>2
    <3>2. Run(Spot(r + 1, Left(s)), Spot(r, Left(s) + 1)) /\ Run(Spot(r, Right(s)), Spot(r + 1, Right(s)))
      BY <1>1, <1>3
    <3> QED
      BY <1>1, <1>2, <2>1, <3>1, <3>2
  <2>3. CASE r # Rings - 1
    <3>1. r \in 0..(Rings - 2) /\ r \in 0..Rings /\ r + 1 \in 0..Rings
      BY <1>0, <2>3
    <3>2. Run(Spot(r, s + 1), Spot(r + 1, s)) /\ Run(Spot(r + 1, Left(s) + 1), Spot(r, Left(s) + 1))
      BY <1>1, <1>4, <3>1
    <3> QED
      BY <1>1, <2>1, <3>1, <3>2
  <2> QED
    BY <2>2, <2>3
<1>6. ASSUME NEW r \in 0..(Rings - 2), NEW s \in 0..(Sectors - 1)
      PROVE  /\ Run(Spot(r + 1, s), Spot(r, s + 1)) /\ Run(Spot(r + 1, s + 1), Spot(r + 1, s))
             /\ Run(Spot(r, s + 1), Spot(r + 1, s + 1))
  <2>1. Run(Spot(r + 1, s + 1), Spot(r + 1, s))
    <3>1. r + 1 \in 1..(Rings - 1)
      BY <1>0
    <3> QED
      BY <1>3, <3>1
  <2>2. CASE r = 0
    <3>1. r \in 0..Rings /\ r + 1 \in 0..Rings
      BY <1>0, <2>2
    <3>2. Run(Spot(r + 1, Left(s) + 1), Spot(r, Left(s) + 1)) /\ Run(Spot(r, Right(s) + 1), Spot(r + 1, Right(s)))
      BY <1>1, <1>4
    <3> QED
      BY <1>1, <1>2, <2>1, <2>2, <3>1, <3>2
  <2>3. CASE r # 0
    <3>1. r \in 1..(Rings - 1) /\ r \in 0..Rings /\ r + 1 \in 0..Rings
      BY <1>0, <2>3
    <3>2. Run(Spot(r + 1, s), Spot(r, s + 1)) /\ Run(Spot(r, Right(s)), Spot(r + 1, Right(s)))
      BY <1>1, <1>3, <3>1
    <3> QED
      BY <1>1, <2>1, <3>1, <3>2
  <2> QED
    BY <2>2, <2>3
<1>7. ASSUME NEW t \in Uppers \cup Lowers, NEW j \in 1..3
      PROVE  Run(t[IF j = 3 THEN 1 ELSE j + 1], t[j])
  <2>1. CASE t \in Uppers
    <3>1. PICK r \in 1..(Rings - 1), s \in 0..(Sectors - 1) : t = Upper(r, s)
      BY <2>1 DEF Uppers
    <3> QED
      BY <1>5, <3>1 DEF Upper
  <2>2. CASE t \in Lowers
    <3>1. PICK r \in 0..(Rings - 2), s \in 0..(Sectors - 1) : t = Lower(r, s)
      BY <2>2 DEF Lowers
    <3> QED
      BY <1>6, <3>1 DEF Lower
  <2> QED
    BY <2>1, <2>2
<1> QED
  BY <1>7 DEF Run, Backed

LEMMA ThreeDistinct ==
  ASSUME NEW a, NEW b, NEW c
  PROVE  Cardinality({a, b, c}) = 3 <=> a # b /\ b # c /\ a # c
<1>1. IsFiniteSet({a}) /\ Cardinality({a}) = 1
  BY FS_Singleton
<1>2. IsFiniteSet({a} \cup {b}) /\ Cardinality({a} \cup {b}) = (IF b = a THEN 1 ELSE 2)
  BY <1>1, FS_AddElement
<1>3. Cardinality(({a} \cup {b}) \cup {c})
        = IF c = a \/ c = b THEN Cardinality({a} \cup {b}) ELSE Cardinality({a} \cup {b}) + 1
  BY <1>2, FS_AddElement
<1>4. {a, b, c} = ({a} \cup {b}) \cup {c}
  OBVIOUS
<1> QED
  BY <1>2, <1>3, <1>4

LEMMA SphereIs ==
  ASSUME SphereConstants
  PROVE  /\ Sphere = Uppers \cup Lowers
         /\ \A t \in SphereIndices : \A k \in 1..3 : t[k] \in 0..(SphereVertices - 1)
<1>0. Rings \in Nat /\ Sectors \in Nat /\ Rings >= 2 /\ Sectors >= 3
  BY DEF SphereConstants
<1> DEFINE Index(r, s) == r * (Sectors + 1) + s
           First(r, s) == <<Index(r, s), Index(r + 1, s), Index(r, s + 1)>>
           Second(r, s) == <<Index(r, s + 1), Index(r + 1, s), Index(r + 1, s + 1)>>
<1>1. \A r \in 0..Rings, s \in 0..Sectors : Place(Index(r, s)) = Spot(r, s)
  BY PlaceIs
<1>2. ASSUME NEW r \in 0..Rings, NEW s \in 0..Sectors
      PROVE  Index(r, s) \in 0..(SphereVertices - 1)
  <2>1. PICK d \in Nat : d = Sectors + 1 /\ s < d
    BY <1>0
  <2>2. r * d <= Rings * d /\ r * d \in Nat /\ Rings * d \in Nat /\ (Rings + 1) * d = Rings * d + d
    <3>1. PICK k \in Nat : Rings = r + k
      <4>1. Rings - r \in Nat /\ Rings = r + (Rings - r)
        BY <1>0
      <4> QED
        BY <4>1
    <3>2. Rings * d = r * d + k * d /\ k * d \in Nat /\ r * d \in Nat
      BY <2>1, <3>1
    <3>3. (Rings + 1) * d = Rings * d + d
      BY <1>0, <2>1
    <3> QED
      BY <3>2, <3>3
  <2>3. SphereVertices = (Rings + 1) * d /\ Index(r, s) = r * d + s
    BY <2>1 DEF SphereVertices
  <2> HIDE DEF Index
  <2> QED
    BY <2>1, <2>2, <2>3
<1>3. /\ \A t \in SphereIndices : \E r \in 0..(Rings - 1), s \in 0..(Sectors - 1) :
             t = First(r, s) \/ t = Second(r, s)
      /\ \A r \in 0..(Rings - 1), s \in 0..(Sectors - 1) :
             First(r, s) \in SphereIndices /\ Second(r, s) \in SphereIndices
  <2>1. ASSUME NEW r \in 0..(Rings - 1), NEW s \in 0..(Sectors - 1)
        PROVE  LET a == r * (Sectors + 1) + s
                   c == a + Sectors + 1
               IN  <<a, c, a + 1>> = First(r, s) /\ <<a + 1, c, c + 1>> = Second(r, s)
    <3>1. /\ Index(r, s) + Sectors + 1 = Index(r + 1, s) /\ Index(r, s) + 1 = Index(r, s + 1)
          /\ Index(r, s) + Sectors + 1 + 1 = Index(r + 1, s + 1)
      BY <1>0
    <3> QED
      BY <3>1
  <2> DEFINE Both(r, s) == LET a == r * (Sectors + 1) + s
                               c == a + Sectors + 1
                           IN  {<<a, c, a + 1>>, <<a + 1, c, c + 1>>}
  <2>2. SphereIndices = UNION {Both(r, s) : r \in 0..(Rings - 1), s \in 0..(Sectors - 1)}
    BY DEF SphereIndices
  <2>3. \A r \in 0..(Rings - 1), s \in 0..(Sectors - 1) : Both(r, s) = {First(r, s), Second(r, s)}
    BY <2>1
  <2> HIDE DEF First, Second, Both
  <2> QED
    BY <2>2, <2>3
<1>4. ASSUME NEW r \in 0..(Rings - 1), NEW s \in 0..(Sectors - 1)
      PROVE  /\ [k \in 1..3 |-> Place(First(r, s)[k])] = Upper(r, s)
             /\ [k \in 1..3 |-> Place(Second(r, s)[k])] = Lower(r, s)
             /\ \A k \in 1..3 : /\ First(r, s)[k] \in 0..(SphereVertices - 1)
                                /\ Second(r, s)[k] \in 0..(SphereVertices - 1)
  <2>1. r \in 0..Rings /\ r + 1 \in 0..Rings /\ s \in 0..Sectors /\ s + 1 \in 0..Sectors
    BY <1>0
  <2> HIDE DEF Index
  <2>2. /\ Place(Index(r, s)) = Spot(r, s) /\ Place(Index(r + 1, s)) = Spot(r + 1, s)
        /\ Place(Index(r, s + 1)) = Spot(r, s + 1) /\ Place(Index(r + 1, s + 1)) = Spot(r + 1, s + 1)
    BY <1>1, <2>1
  <2>3. /\ Index(r, s) \in 0..(SphereVertices - 1) /\ Index(r + 1, s) \in 0..(SphereVertices - 1)
        /\ Index(r, s + 1) \in 0..(SphereVertices - 1) /\ Index(r + 1, s + 1) \in 0..(SphereVertices - 1)
    BY <1>2, <2>1
  <2> QED
    BY <2>2, <2>3 DEF Upper, Lower
<1>5. ASSUME NEW r \in 0..(Rings - 1), NEW s \in 0..(Sectors - 1)
      PROVE  /\ Cardinality({Upper(r, s)[1], Upper(r, s)[2], Upper(r, s)[3]}) = 3 <=> r # 0
             /\ Cardinality({Lower(r, s)[1], Lower(r, s)[2], Lower(r, s)[3]}) = 3 <=> r # Rings - 1
  <2>1. Spot(r, s) # Spot(r + 1, s) /\ Spot(r + 1, s) # Spot(r, s + 1) /\ (Spot(r, s) # Spot(r, s + 1) <=> r # 0)
    BY <1>0 DEF Spot, Col
  <2>2. Spot(r, s + 1) # Spot(r + 1, s) /\ Spot(r, s + 1) # Spot(r + 1, s + 1)
        /\ (Spot(r + 1, s) # Spot(r + 1, s + 1) <=> r # Rings - 1)
    BY <1>0 DEF Spot, Col
  <2>3. /\ Upper(r, s)[1] = Spot(r, s) /\ Upper(r, s)[2] = Spot(r + 1, s) /\ Upper(r, s)[3] = Spot(r, s + 1)
        /\ Lower(r, s)[1] = Spot(r, s + 1) /\ Lower(r, s)[2] = Spot(r + 1, s)
        /\ Lower(r, s)[3] = Spot(r + 1, s + 1)
    BY DEF Upper, Lower
  <2>4. Cardinality({Spot(r, s), Spot(r + 1, s), Spot(r, s + 1)}) = 3 <=> r # 0
    BY <2>1, ThreeDistinct
  <2>5. Cardinality({Spot(r, s + 1), Spot(r + 1, s), Spot(r + 1, s + 1)}) = 3 <=> r # Rings - 1
    BY <2>2, ThreeDistinct
  <2> QED
    BY <2>3, <2>4, <2>5, SameCount
<1> HIDE DEF First, Second
<1>6. ASSUME NEW t \in Sphere PROVE t \in Uppers \cup Lowers
  <2>1. PICK i \in SphereIndices : t = [k \in 1..3 |-> Place(i[k])]
    BY DEF Sphere
  <2>2. Cardinality({t[1], t[2], t[3]}) = 3
    BY DEF Sphere
  <2>3. PICK r \in 0..(Rings - 1), s \in 0..(Sectors - 1) : i = First(r, s) \/ i = Second(r, s)
    BY <1>3
  <2>4. CASE i = First(r, s)
    <3>1. t = Upper(r, s)
      BY <1>4, <2>1, <2>4
    <3>2. r # 0
      BY <1>5, <2>2, <3>1
    <3>3. r \in 1..(Rings - 1)
      BY <3>2
    <3> QED
      BY <3>1, <3>3 DEF Uppers
  <2>5. CASE i = Second(r, s)
    <3>1. t = Lower(r, s)
      BY <1>4, <2>1, <2>5
    <3>2. r # Rings - 1
      BY <1>5, <2>2, <3>1
    <3>3. r \in 0..(Rings - 2)
      BY <1>0, <3>2
    <3> QED
      BY <3>1, <3>3 DEF Lowers
  <2> QED
    BY <2>3, <2>4, <2>5
<1>7. ASSUME NEW t \in Uppers PROVE t \in Sphere
  <2>1. PICK r \in 1..(Rings - 1), s \in 0..(Sectors - 1) : t = Upper(r, s)
    BY DEF Uppers
  <2>2. r \in 0..(Rings - 1) /\ r # 0
    BY <1>0
  <2>3. First(r, s) \in SphereIndices /\ t = [k \in 1..3 |-> Place(First(r, s)[k])]
        /\ Cardinality({t[1], t[2], t[3]}) = 3
    <3>1. First(r, s) \in SphereIndices
      BY <1>3, <2>2
    <3>2. t = [k \in 1..3 |-> Place(First(r, s)[k])]
      BY <1>4, <2>1, <2>2
    <3>3. Cardinality({t[1], t[2], t[3]}) = 3
      BY <1>5, <2>1, <2>2
    <3> QED
      BY <3>1, <3>2, <3>3
  <2> QED
    BY <2>3 DEF Sphere
<1>8. ASSUME NEW t \in Lowers PROVE t \in Sphere
  <2>1. PICK r \in 0..(Rings - 2), s \in 0..(Sectors - 1) : t = Lower(r, s)
    BY DEF Lowers
  <2>2. r \in 0..(Rings - 1) /\ r # Rings - 1
    BY <1>0
  <2>3. Second(r, s) \in SphereIndices /\ t = [k \in 1..3 |-> Place(Second(r, s)[k])]
        /\ Cardinality({t[1], t[2], t[3]}) = 3
    <3>1. Second(r, s) \in SphereIndices
      BY <1>3, <2>2
    <3>2. t = [k \in 1..3 |-> Place(Second(r, s)[k])]
      BY <1>4, <2>1, <2>2
    <3>3. Cardinality({t[1], t[2], t[3]}) = 3
      BY <1>5, <2>1, <2>2
    <3> QED
      BY <3>1, <3>2, <3>3
  <2> QED
    BY <2>3 DEF Sphere
<1>9. ASSUME NEW t \in SphereIndices, NEW k \in 1..3 PROVE t[k] \in 0..(SphereVertices - 1)
  BY <1>3, <1>4
<1> QED
  BY <1>6, <1>7, <1>8, <1>9

LEMMA SphereFinite == ASSUME SphereConstants PROVE IsFiniteSet(Uppers \cup Lowers)
<1>1. ASSUME NEW n \in Int, NEW m \in Int PROVE IsFiniteSet((n..m) \X (0..(Sectors - 1)))
  <2>1. Sectors - 1 \in Int /\ 0 \in Int
    BY DEF SphereConstants
  <2>2. IsFiniteSet(n..m) /\ IsFiniteSet(0..(Sectors - 1))
    BY <2>1, FS_Interval
  <2> QED
    BY <2>2, FS_Product
<1> DEFINE A == (1..(Rings - 1)) \X (0..(Sectors - 1))
           B == (0..(Rings - 2)) \X (0..(Sectors - 1))
           up == [p \in A |-> Upper(p[1], p[2])]
           low == [p \in B |-> Lower(p[1], p[2])]
<1>2. IsFiniteSet(A) /\ IsFiniteSet(B)
  <2>1. 1 \in Int /\ 0 \in Int /\ Rings - 1 \in Int /\ Rings - 2 \in Int
    BY DEF SphereConstants
  <2> QED
    BY <1>1, <2>1
<1>3. Uppers = {up[p] : p \in A} /\ Lowers = {low[p] : p \in B}
  <2>1. \A r \in 1..(Rings - 1), s \in 0..(Sectors - 1) : <<r, s>> \in A /\ up[<<r, s>>] = Upper(r, s)
    OBVIOUS
  <2>2. \A r \in 0..(Rings - 2), s \in 0..(Sectors - 1) : <<r, s>> \in B /\ low[<<r, s>>] = Lower(r, s)
    OBVIOUS
  <2>3. \A p \in A : up[p] = Upper(p[1], p[2]) /\ p[1] \in 1..(Rings - 1) /\ p[2] \in 0..(Sectors - 1)
    OBVIOUS
  <2>4. \A p \in B : low[p] = Lower(p[1], p[2]) /\ p[1] \in 0..(Rings - 2) /\ p[2] \in 0..(Sectors - 1)
    OBVIOUS
  <2> HIDE DEF A, B, up, low
  <2>5. Uppers = {up[p] : p \in A}
    <3>1. ASSUME NEW t \in Uppers PROVE \E p \in A : t = up[p]
      <4>1. PICK r \in 1..(Rings - 1), s \in 0..(Sectors - 1) : t = Upper(r, s)
        BY DEF Uppers
      <4> QED
        BY <2>1, <4>1
    <3>2. \A p \in A : up[p] \in Uppers
      BY <2>3 DEF Uppers
    <3> QED
      BY <3>1, <3>2
  <2>6. Lowers = {low[p] : p \in B}
    <3>1. ASSUME NEW t \in Lowers PROVE \E p \in B : t = low[p]
      <4>1. PICK r \in 0..(Rings - 2), s \in 0..(Sectors - 1) : t = Lower(r, s)
        BY DEF Lowers
      <4> QED
        BY <2>2, <4>1
    <3>2. \A p \in B : low[p] \in Lowers
      BY <2>4 DEF Lowers
    <3> QED
      BY <3>1, <3>2
  <2> QED
    BY <2>5, <2>6
<1> HIDE DEF A, B, up, low
<1>4. IsFiniteSet({up[p] : p \in A}) /\ IsFiniteSet({low[p] : p \in B})
  BY <1>2, RangeFinite
<1> QED
  BY <1>3, <1>4, FS_Union

LEMMA SphereIsSolid == ASSUME Reaches PROVE SphereSolid
<1>1. SphereConstants /\ Radius <= BulletReach
  BY PrimitivesAssumption DEF Reaches, SphereConstants
<1>2. Closed(Sphere)
  BY <1>1, SphereParted, SphereBacked, SphereFinite, SphereIs, ClosedIf
<1> QED
  BY <1>1, <1>2, SphereIs DEF SphereSolid

-----------------------------------------------------------------------------
(* The box *)

\* The coordinates in which the corners i and j differ.
Differ(i, j, corners) == (i \in corners) # (j \in corners)
East == {1, 2, 5, 6}
North == {2, 3, 6, 7}
Front == {4, 5, 6, 7}
OneDiffers(i, j) ==
    \/ Differ(i, j, East) /\ ~Differ(i, j, North) /\ ~Differ(i, j, Front)
    \/ ~Differ(i, j, East) /\ Differ(i, j, North) /\ ~Differ(i, j, Front)
    \/ ~Differ(i, j, East) /\ ~Differ(i, j, North) /\ Differ(i, j, Front)

LEMMA ApartIs ==
  ASSUME NEW i \in 0..7, NEW j \in 0..7
  PROVE  Cardinality(Apart(i, j)) = 1 <=> OneDiffers(i, j)
<1>1. ASSUME NEW c \in 0..7
      PROVE  /\ BoxCorners[c + 1][1] = IF c \in East THEN 1 ELSE -1
             /\ BoxCorners[c + 1][2] = IF c \in North THEN 1 ELSE -1
             /\ BoxCorners[c + 1][3] = IF c \in Front THEN 1 ELSE -1
  BY DEF BoxCorners, East, North, Front
<1>2. /\ 1 \in Apart(i, j) <=> Differ(i, j, East)
      /\ 2 \in Apart(i, j) <=> Differ(i, j, North)
      /\ 3 \in Apart(i, j) <=> Differ(i, j, Front)
      /\ Apart(i, j) \in SUBSET (1..3)
  BY <1>1 DEF Apart, Differ
<1>3. IsFiniteSet(Apart(i, j))
  <2>1. 3 \in Nat
    OBVIOUS
  <2> QED
    BY <1>2, <2>1, Upto, FS_Subset
<1>4. Cardinality(Apart(i, j)) = 1 <=> \E d : Apart(i, j) = {d}
  BY <1>3, SameCount, FS_Singleton
<1>5. (\E d : Apart(i, j) = {d}) <=> OneDiffers(i, j)
  BY <1>2 DEF OneDiffers
<1> QED
  BY <1>4, <1>5

LEMMA LinesAre ==
  ASSUME NEW i \in 0..7, NEW j \in 0..7
  PROVE  {i, j} \in BoxLines <=> OneDiffers(i, j)
  BY DEF BoxLines, OneDiffers, Differ, East, North, Front

LEMMA BoxIsWhole == BoxWhole
<1> DEFINE Whole(pair) == \E i, j \in pair : pair = {i, j} /\ Cardinality(Apart(i, j)) = 1
<1>1. ASSUME NEW pair \in BoxLines PROVE pair \in SUBSET (0..7) /\ Whole(pair)
  <2>1. PICK i \in 0..7, j \in 0..7 : pair = {i, j}
    BY DEF BoxLines
  <2> QED
    BY <2>1, ApartIs, LinesAre
<1>2. ASSUME NEW pair \in SUBSET (0..7), Whole(pair) PROVE pair \in BoxLines
  <2>1. PICK i, j \in pair : pair = {i, j} /\ Cardinality(Apart(i, j)) = 1
    BY <1>2
  <2>2. i \in 0..7 /\ j \in 0..7
    OBVIOUS
  <2> QED
    BY <2>1, <2>2, ApartIs, LinesAre
<1> HIDE DEF Whole
<1>3. BoxLines = {pair \in SUBSET (0..7) : Whole(pair)}
  BY <1>1, <1>2
<1> QED
  BY <1>3 DEF BoxWhole, Whole

LEMMA CubeIsSolid == CubeSolid
<1>1. Half \in Nat \ {0}
  BY PrimitivesAssumption
<1> QED
  BY <1>1, CubeClosed, CubeOut DEF CubeSolid

\* DrawsWhole for any number of objects, names, rings and sectors and any size
\* of the cube: what draw would draw has all its handles, and the shape is whole.
THEOREM WholeIsDrawn == ASSUME Reaches PROVE MeshSpec => []DrawsWhole
<1> USE MeshAssumption
<1>1. ASSUME GpuInv PROVE DrawsWhole
  <2> SUFFICES ASSUME NEW m \in built, mesh[m].shape # "none"
               PROVE  /\ {mesh[m].vao, mesh[m].vbo} \subseteq gl
                      /\ mesh[m].indexed <=> mesh[m].ebo \in gl
                      /\ mesh[m].indexed <=> mesh[m].shape \in Solids
                      /\ ShapeSound(mesh[m].shape)
    BY DEF DrawsWhole
  <2>1. ShapeSound(mesh[m].shape)
    BY ShipIsSolid, CubeIsSolid, SphereIsSolid, BoxIsWhole DEF ShapeSound
  <2>2. /\ mesh[m].vao # Zero /\ mesh[m].vbo # Zero
        /\ mesh[m].indexed <=> mesh[m].ebo # Zero
        /\ mesh[m].indexed <=> mesh[m].shape \in Solids
    BY <1>1 DEF GpuInv
  <2>3. gl \subseteq Names /\ \A g \in Handles(m) : g \in gl
    BY <1>1 DEF GpuInv
  <2>4. {mesh[m].vao, mesh[m].vbo} \subseteq gl /\ (mesh[m].ebo \in gl <=> mesh[m].ebo # Zero)
    BY <2>2, <2>3 DEF Handles
  <2> QED
    BY <2>1, <2>2, <2>4
<1>2. GpuInv /\ [MeshNext]_meshVars => GpuInv'
  BY GpuStep
<1> QED
  BY GpuInit, <1>1, <1>2, PTL DEF MeshSpec
=============================================================================
